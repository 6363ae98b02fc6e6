---------------------------- MODULE SlicerProofs ----------------------------
(***************************************************************************)
(* The iterator of FastCdc returns every byte of the file once, cut as a    *)
(* chunker with the whole file in memory would, for every file, every size  *)
(* of the window and of the reads, and whatever the reads return.  The      *)
(* split of the AST track leaves no gap, for every text.                    *)
(***************************************************************************)
EXTENDS Slicer, WellFoundedInduction, TLAPS

----------------------------------------------------------------------------
(* Constants and the operator First.                                        *)

(* What the assumptions say of the sizes.                                   *)
LEMMA Scale ==
  /\ Window \in Nat /\ Window >= 3 /\ Window = MaxChunk
  /\ Cap = Window + Block /\ Cap \in Nat /\ Block \in Nat /\ Block >= 1
  /\ MaxLen \in Nat
  /\ MinChunk \in Nat /\ MinChunk >= 1 /\ MinChunk < MaxChunk
BY ChunkAssumption, BlockAssumption DEF Window, Cap

(* A set of naturals that is not empty has a least element.                 *)
LEMMA Least ==
  ASSUME NEW S \in SUBSET Nat, S # {}
  PROVE  \E m \in S : \A n \in S : m <= n
<1> DEFINE R == OpToRel(<, Nat)
<1>1. IsWellFoundedOn(R, Nat)
  BY NatLessThanWellFounded, Zenon
<1> HIDE DEF R
<1>2. PICK m \in S : \A n \in S : ~ (<<n, m>> \in R)
  BY <1>1, WFMin
<1>3. ASSUME NEW n \in S PROVE m <= n
  <2>1. <<n, m>> \in Nat \X Nat OBVIOUS
  <2>2. <<n, m>> \in R <=> n < m
    BY <2>1, SMT DEF R, OpToRel
  <2>3. ~(n < m)
    BY <1>2, <2>2, Zenon
  <2>4. QED  BY <2>3, SMT
<1>4. QED
  BY <1>3, Zenon

(* First finds it.                                                          *)
LEMMA FirstIsLeast ==
  ASSUME NEW S \in SUBSET Nat, S # {}
  PROVE  First(S) \in S /\ \A n \in S : First(S) <= n
BY Least DEF First

(* A lower bound that is in the set is the least element.                   *)
LEMMA FirstIs ==
  ASSUME NEW S \in SUBSET Nat, NEW m \in S, \A n \in S : m <= n
  PROVE  First(S) = m
<1>1. First(S) \in S /\ \A n \in S : First(S) <= n
  BY FirstIsLeast
<1>2. First(S) <= m /\ m <= First(S)
  BY <1>1
<1>3. First(S) \in Nat /\ m \in Nat
  BY <1>1
<1>4. QED
  BY <1>2, <1>3

----------------------------------------------------------------------------
(* Filling the window.                                                      *)

(* There is always room for a read: the buffer is one block longer than the *)
(* window, and a window that is not full leaves that block after a move.    *)
LEMMA RoomToRead ==
  ASSUME TypeOK, Reading
  PROVE  /\ Want \in 1 .. Remain
         /\ Len0 \in 0 .. Cap /\ Len0 + Want <= Cap
         /\ Start0 \in 0 .. Len0 /\ Len0 - Start0 = Pending
         /\ Remain = end - (base + Pending) /\ Remain \in Nat
<1> USE Scale
<1>1. /\ Pending \in Nat /\ Pending < Window /\ base \in Nat /\ end \in Nat
      /\ len \in 0 .. Cap /\ start \in 0 .. len /\ Pending = len - start
  BY DEF TypeOK, Reading, Pending, Offsets
<1>2. /\ Len0 \in 0 .. Cap - 1 /\ Start0 \in 0 .. Len0 /\ Len0 - Start0 = Pending
  BY <1>1 DEF Len0, Start0, Full
<1>3. Remain = end - (base + Pending) /\ Remain \in Nat /\ Remain > 0
  BY <1>1 DEF Remain, Reading
<1>4. Want \in {Block, Cap - Len0, Remain} /\ \A n \in {Block, Cap - Len0, Remain} : Want <= n
  <2>1. {Block, Cap - Len0, Remain} \in SUBSET Nat /\ {Block, Cap - Len0, Remain} # {}
    BY <1>2, <1>3
  <2>2. QED
    BY <2>1, FirstIsLeast DEF Want
<1>5. QED
  BY <1>2, <1>3, <1>4

(* Moving the unprocessed bytes to the front keeps what the buffer holds.   *)
LEMMA CompactedHolds ==
  ASSUME TypeOK, BufferHolds, Reading
  PROVE  /\ Compacted \in [Indices -> Offsets \cup {NoByte}]
         /\ \A i \in Start0 .. Len0 - 1 : Compacted[i] = base + (i - Start0)
<1> USE Scale
<1>1. /\ Pending \in Nat /\ Pending < Window /\ base \in Nat
      /\ len \in 0 .. Cap /\ start \in 0 .. len /\ Pending = len - start
      /\ buf \in [Indices -> Offsets \cup {NoByte}]
  BY DEF TypeOK, Reading, Pending, Offsets
<1>2. ASSUME NEW i \in Indices
      PROVE  Compacted[i] \in Offsets \cup {NoByte}
  <2>1. Full /\ i < Pending => i + start \in Indices
    BY <1>1 DEF Indices, Full
  <2>2. QED
    BY <1>1, <2>1 DEF Compacted
<1>3. ASSUME NEW i \in Start0 .. Len0 - 1
      PROVE  Compacted[i] = base + (i - Start0)
  <2>1. CASE Full
    <3>1. /\ i \in 0 .. Pending - 1 /\ i \in Indices /\ Start0 = 0
          /\ i + start \in start .. len - 1
      BY <1>1, <2>1 DEF Start0, Len0, Indices
    <3>2. Compacted[i] = buf[i + start]
      BY <1>1, <2>1, <3>1 DEF Compacted
    <3>3. buf[i + start] = base + ((i + start) - start)
      BY <3>1 DEF BufferHolds
    <3>4. QED
      BY <1>1, <3>1, <3>2, <3>3
  <2>2. CASE ~Full
    <3>1. i \in start .. len - 1 /\ i \in Indices /\ Start0 = start
      BY <1>1, <2>2 DEF Start0, Len0, Indices
    <3>2. Compacted[i] = buf[i]
      BY <2>2, <3>1 DEF Compacted
    <3>3. QED
      BY <3>1, <3>2 DEF BufferHolds
  <2>3. QED
    BY <2>1, <2>2
<1>4. QED
  BY <1>2, <1>3 DEF Compacted

----------------------------------------------------------------------------
(* Returning a chunk.                                                       *)

(* Where the unprocessed bytes lie in the file.                             *)
LEMMA Unprocessed ==
  ASSUME CdcInv, len # start
  PROVE  /\ Pending \in Nat /\ Pending > 0 /\ Pending = len - start
         /\ base \in Nat /\ base = Reached /\ cursor = base + Pending
         /\ cursor \in Nat /\ cursor <= end /\ end \in Nat /\ end <= MaxLen
         /\ len \in Nat /\ start \in Nat /\ len <= Cap
<1> USE Scale
<1>1. Pending \in Nat /\ Pending > 0
  BY DEF CdcInv, TypeOK, Pending
<1>2. QED
  BY <1>1 DEF CdcInv, TypeOK, Pending, CursorAhead, CursorInFile, Offsets

(* Appending the chunk of the bytes start .. stop-1 keeps what was returned *)
(* a sequence of adjacent chunks that hold the bytes they name.             *)
LEMMA Emitted ==
  ASSUME CdcInv, len # start, NEW stop \in start + 1 .. len, Emit(stop),
         stop - start <= Window, file' = file
  PROVE  /\ out' \in Seq(Chunk) /\ Len(out') = Len(out) + 1
         /\ \A k \in 1 .. Len(out) : out'[k] = out[k]
         /\ out'[Len(out) + 1].offset = base
         /\ Len(out'[Len(out) + 1].data) = stop - start
         /\ Reached' = base + (stop - start)
         /\ ReassemblesExactly' /\ ChunkBounded'
<1> USE Scale
<1> DEFINE n == stop - start
           data == [k \in 1 .. n |-> buf[start + k - 1]]
           c == [offset |-> base, data |-> data]
<1>1. /\ n \in 1 .. Window /\ n <= Pending /\ base + n <= cursor
      /\ base \in Nat /\ cursor <= MaxLen /\ base = Reached
  BY Unprocessed
<1>2. ASSUME NEW k \in 1 .. n
      PROVE  data[k] = base + k - 1
  <2>1. start + k - 1 \in start .. len - 1
    BY <1>1, Unprocessed
  <2>2. buf[start + k - 1] = base + ((start + k - 1) - start)
    BY <2>1 DEF CdcInv, BufferHolds
  <2>3. QED
    BY <1>1, <2>2, Unprocessed
<1>3. data \in Seq(Offsets) /\ Len(data) = n
  <2>1. \A k \in 1 .. n : buf[start + k - 1] \in Offsets
    BY <1>1, <1>2, Unprocessed DEF Offsets
  <2>2. n \in Nat
    BY <1>1
  <2>3. QED
    BY <2>1, <2>2
<1>4. out' = Append(out, c) /\ out \in Seq(Chunk)
  BY DEF Emit, CdcInv, TypeOK
<1> HIDE DEF data
<1>5. c \in Chunk
  <2>1. base \in Offsets
    BY <1>1, Unprocessed DEF Offsets
  <2>2. QED
    BY <1>3, <2>1 DEF Chunk
<1> HIDE DEF c
<1>6. /\ out' \in Seq(Chunk) /\ Len(out') = Len(out) + 1 /\ Len(out) \in Nat
      /\ \A k \in 1 .. Len(out) : out'[k] = out[k]
      /\ out'[Len(out) + 1] = c
  BY <1>4, <1>5
<1>7. c.offset = base /\ c.data = data
  BY DEF c
<1>8. Reached' = base + n
  <2>1. out' # <<>>
    BY <1>6
  <2>2. Reached' = out'[Len(out')].offset + Len(out'[Len(out')].data)
    BY <2>1 DEF Reached, StopOf
  <2>3. out'[Len(out')] = c
    BY <1>6
  <2>4. QED
    BY <1>3, <1>7, <2>2, <2>3
<1>9. ReassemblesExactly'
  <2> SUFFICES ASSUME NEW k \in 1 .. Len(out')
               PROVE  /\ out'[k].offset = IF k = 1 THEN from' ELSE StopOf(k - 1)'
                      /\ \A j \in 1 .. Len(out'[k].data) :
                           out'[k].data[j] = out'[k].offset + j - 1
    BY DEF ReassemblesExactly
  <2>0. from' = from
    BY DEF file
  <2>1. CASE k \in 1 .. Len(out)
    <3>1. out'[k] = out[k] /\ (k # 1 => out'[k - 1] = out[k - 1])
      BY <1>6, <2>1
    <3>2. QED
      BY <2>0, <2>1, <3>1 DEF CdcInv, ReassemblesExactly, StopOf
  <2>2. CASE k = Len(out) + 1
    <3>1. \A j \in 1 .. Len(out'[k].data) : out'[k].data[j] = out'[k].offset + j - 1
      BY <1>2, <1>3, <1>6, <1>7, <2>2
    <3>2. CASE k = 1
      <4>1. out = <<>>
        BY <1>4, <1>6, <2>2, <3>2
      <4>2. QED
        BY <1>1, <1>6, <1>7, <2>0, <2>2, <3>1, <3>2, <4>1 DEF Reached
    <3>3. CASE k # 1
      <4>1. out # <<>> /\ out'[k - 1] = out[k - 1] /\ k - 1 = Len(out)
        BY <1>4, <1>6, <2>2, <3>3
      <4>2. StopOf(k - 1)' = StopOf(Len(out))
        BY <4>1 DEF StopOf
      <4>3. QED
        BY <1>1, <1>6, <1>7, <2>2, <3>1, <3>3, <4>1, <4>2 DEF Reached
    <3>4. QED
      BY <3>2, <3>3
  <2>3. QED
    BY <1>6, <2>1, <2>2
<1>10. ChunkBounded'
  <2>1. ASSUME NEW k \in 1 .. Len(out')
        PROVE  Len(out'[k].data) \in 1 .. MaxChunk
    <3>1. CASE k \in 1 .. Len(out)
      BY <1>6, <3>1 DEF CdcInv, ChunkBounded
    <3>2. CASE k = Len(out) + 1
      BY <1>1, <1>3, <1>6, <1>7, <3>2
    <3>3. QED
      BY <1>6, <3>1, <3>2
  <2>2. QED
    BY <2>1 DEF ChunkBounded
<1>11. QED
  BY <1>3, <1>6, <1>7, <1>8, <1>9, <1>10

----------------------------------------------------------------------------
(* Scanning the window.                                                     *)

LEMMA ScanBounds ==
  ASSUME CdcInv, len # start
  PROVE  /\ ScanEnd \in start + 1 .. len /\ ScanEnd - start <= Window
         /\ (Pending < Window => ScanEnd = len)
         /\ (Pending >= Window => ScanEnd = start + Window)
         /\ Cuts \subseteq start .. ScanEnd - 1 /\ Cuts \in SUBSET Nat
<1> USE Scale, Unprocessed
<1>1. /\ ScanEnd \in start + 1 .. len /\ ScanEnd - start <= Window
      /\ (Pending < Window => ScanEnd = len)
      /\ (Pending >= Window => ScanEnd = start + Window)
  BY DEF ScanEnd
<1>2. Cuts \subseteq start .. ScanEnd - 1
  BY DEF Cuts
<1>3. QED
  BY <1>1, <1>2

(* A full window has a cut: the last of its bytes is forced to be one.      *)
LEMMA ForcedCut ==
  ASSUME CdcInv, Pending >= Window
  PROVE  Cuts # {} /\ len # start
<1> USE Scale
<1>0. len # start
  BY DEF CdcInv, TypeOK, Pending
<1> DEFINE i == start + Window - 1
<1>1. i \in start .. ScanEnd - 1 /\ i - start = Window - 1
  BY <1>0, ScanBounds, Unprocessed
<1>2. CutAt(i - start, content[buf[i]])
  BY <1>1, ChunkAssumption DEF CutAt
<1>3. QED
  BY <1>0, <1>1, <1>2 DEF Cuts

(* Whether a byte of the buffer is a cut is what the whole file says of it. *)
LEMMA SameCuts ==
  ASSUME CdcInv, len # start, NEW i \in start .. ScanEnd - 1
  PROVE  /\ base + (i - start) \in base .. end - 1
         /\ i \in Cuts <=> CutAt((base + (i - start)) - base, content[base + (i - start)])
<1> USE Unprocessed, ScanBounds
<1>1. buf[i] = base + (i - start)
  BY DEF CdcInv, BufferHolds
<1>2. (base + (i - start)) - base = i - start
  BY DEF CdcInv
<1>3. base + (i - start) \in base .. end - 1
  BY DEF CdcInv
<1>4. i \in Cuts <=> CutAt(i - start, content[base + (i - start)])
  BY <1>1 DEF Cuts
<1>5. QED
  BY <1>2, <1>3, <1>4

(* The first cut in the window is where a chunk of the whole file ends.     *)
LEMMA CutIsWholeFileCut ==
  ASSUME CdcInv, len # start, Cuts # {}
  PROVE  /\ First(Cuts) \in start .. ScanEnd - 1
         /\ ChunkEnd(content, base, end) = base + (First(Cuts) + 1 - start)
<1> USE Unprocessed, ScanBounds
<1> DEFINE m == First(Cuts)
           cuts == {p \in base .. end - 1 : CutAt(p - base, content[p])}
           e == base + (m - start)
<1>1. m \in Cuts /\ \A n \in Cuts : m <= n
  BY FirstIsLeast
<1>2. m \in start .. ScanEnd - 1
  BY <1>1
<1> HIDE DEF m
<1>3. e \in cuts
  BY <1>1, <1>2, SameCuts
<1>4. ASSUME NEW p \in cuts
      PROVE  e <= p
  <2> SUFFICES ASSUME p < e
               PROVE  FALSE
    BY <1>2
  <2> DEFINE i == start + (p - base)
  <2>1. i \in start .. ScanEnd - 1 /\ p = base + (i - start) /\ i < m
    BY <1>2
  <2>2. i \in Cuts
    <3>1. CutAt(p - base, content[p])
      OBVIOUS
    <3> HIDE DEF i
    <3>2. QED
      BY <2>1, <3>1, SameCuts
  <2>3. QED
    BY <1>1, <1>2, <2>1, <2>2
<1>5. cuts \in SUBSET Nat
  OBVIOUS
<1> HIDE DEF cuts, e
<1>6. First(cuts) = e /\ cuts # {}
  BY <1>3, <1>4, <1>5, FirstIs
<1>7. ChunkEnd(content, base, end) = First(cuts) + 1
  BY <1>6 DEF ChunkEnd, cuts
<1>8. QED
  BY <1>2, <1>6, <1>7 DEF e, m

(* A rest that reaches the end of the file is its last chunk.               *)
LEMMA RestIsWholeFileCut ==
  ASSUME CdcInv, len # start, Cuts = {}, cursor = end
  PROVE  ChunkEnd(content, base, end) = end
<1> USE Unprocessed, ScanBounds
<1>1. Pending < Window
  BY ForcedCut, Scale
<1>2. ASSUME NEW p \in base .. end - 1
      PROVE  ~CutAt(p - base, content[p])
  <2> DEFINE i == start + (p - base)
  <2>1. i \in start .. ScanEnd - 1 /\ p = base + (i - start)
    BY <1>1
  <2> HIDE DEF i
  <2>2. QED
    BY <2>1, SameCuts
<1>3. QED
  BY <1>2 DEF ChunkEnd

----------------------------------------------------------------------------
(* The invariant.                                                           *)

LEMMA CdcInit == Init => CdcInv
<1> SUFFICES ASSUME Init PROVE CdcInv
  OBVIOUS
<1> USE Scale
<1>1. eof \in BOOLEAN /\ (eof <=> from >= end)
  <2>1. eof = (from >= end)
    BY DEF Init
  <2>2. (from >= end) \in BOOLEAN
    BY SMT
  <2>3. QED
    BY <2>1, <2>2, Zenon
<1>2. /\ end \in 0 .. MaxLen /\ content \in [0 .. end - 1 -> Marks]
      /\ from \in Offsets /\ cursor = from /\ base = from
      /\ len = 0 /\ start = 0 /\ failed = FALSE /\ pc = "fill" /\ out = <<>>
  BY DEF Init
<1>3. buf \in [Indices -> Offsets \cup {NoByte}]
  <2>1. buf = [i \in Indices |-> NoByte]
    BY Zenon DEF Init
  <2>2. QED
    BY <2>1
<1>4. TypeOK
  <2>1. out \in Seq(Chunk) /\ len \in 0 .. Cap /\ start \in 0 .. len
    BY <1>2
  <2>2. failed \in BOOLEAN /\ pc \in {"fill", "scan", "done"}
    BY <1>2
  <2>3. cursor \in Offsets /\ base \in Offsets
    BY <1>2
  <2>4. QED
    BY <1>1, <1>2, <1>3, <2>1, <2>2, <2>3, Zenon DEF TypeOK
<1>5. Pending = 0 /\ Reached = from /\ from \in Nat /\ end \in Nat
  BY <1>2 DEF Pending, Reached, Offsets
<1>6. BufferHolds /\ CursorAhead /\ CursorInFile /\ EofKnown
  BY <1>1, <1>2, <1>5 DEF BufferHolds, CursorAhead, CursorInFile, EofKnown
<1>7. ReassemblesExactly /\ ChunkBounded /\ CutsSoFar
  BY <1>2 DEF ReassemblesExactly, ChunkBounded, CutsSoFar
<1>8. QED
  BY <1>4, <1>6, <1>7 DEF CdcInv

(* A step that returns no chunk.                                            *)
LEMMA NothingReturned ==
  ASSUME CdcInv, UNCHANGED <<file, out>>, failed => failed' /\ Pending' = Pending
  PROVE  /\ Reached' = Reached /\ ReassemblesExactly' /\ ChunkBounded' /\ CutsSoFar'
<1>1. content' = content /\ from' = from /\ end' = end /\ out' = out
  BY DEF file
<1>2. Reached' = Reached /\ ReassemblesExactly' /\ ChunkBounded'
  BY <1>1 DEF CdcInv, Reached, ReassemblesExactly, ChunkBounded, StopOf
<1>3. CutsSoFar'
  BY <1>1 DEF CdcInv, CutsSoFar, StopOf
<1>4. QED
  BY <1>2, <1>3

LEMMA ReadBlockKeeps ==
  ASSUME CdcInv, ReadBlock
  PROVE  CdcInv'
<1> USE Scale
<1> SUFFICES ASSUME NEW n \in 1 .. Want,
                    buf' = [i \in Indices |-> IF Len0 <= i /\ i < Len0 + n
                                              THEN cursor + (i - Len0) ELSE Compacted[i]],
                    len' = Len0 + n,
                    cursor' = cursor + n
             PROVE  CdcInv'
  BY DEF ReadBlock
<1>1. Reading /\ start' = Start0 /\ UNCHANGED <<file, base, eof, failed, pc, out>>
  BY DEF ReadBlock
<1>2. /\ content' = content /\ from' = from /\ end' = end
      /\ base' = base /\ eof' = eof /\ failed' = failed /\ pc' = pc /\ out' = out
  BY <1>1 DEF file
<1>3. /\ ~eof /\ ~failed /\ pc = "fill" /\ base = Reached /\ cursor = base + Pending
      /\ base \in Nat /\ cursor \in Nat /\ Pending \in Nat /\ end \in 0 .. MaxLen
      /\ cursor <= end
  BY <1>1 DEF CdcInv, TypeOK, Reading, EofKnown, CursorAhead, CursorInFile, Pending, Offsets
<1>4. /\ n \in Nat /\ n >= 1 /\ cursor + n <= end
      /\ Len0 \in 0 .. Cap /\ Len0 + n <= Cap
      /\ Start0 \in 0 .. Len0 /\ Len0 - Start0 = Pending
  BY <1>1, <1>3, RoomToRead DEF CdcInv
<1>5. Pending' = Pending + n
  BY <1>1, <1>3, <1>4 DEF Pending
<1>6. /\ Compacted \in [Indices -> Offsets \cup {NoByte}]
      /\ \A i \in Start0 .. Len0 - 1 : Compacted[i] = base + (i - Start0)
  BY <1>1, CompactedHolds DEF CdcInv
<1>7. TypeOK'
  <2>1. buf' \in [Indices -> Offsets \cup {NoByte}]
    <3>1. ASSUME NEW i \in Indices, Len0 <= i, i < Len0 + n
          PROVE  cursor + (i - Len0) \in Offsets
      BY <1>3, <1>4, <3>1 DEF Offsets, Indices
    <3>2. QED
      BY <1>6, <3>1
  <2>2. cursor' \in Offsets /\ len' \in 0 .. Cap /\ start' \in 0 .. len'
    BY <1>1, <1>3, <1>4 DEF Offsets
  <2>3. QED
    BY <1>2, <2>1, <2>2 DEF CdcInv, TypeOK
<1>8. BufferHolds'
  <2>1. ASSUME NEW i \in start' .. len' - 1
        PROVE  buf'[i] = base' + (i - start')
    <3>1. i \in Indices /\ i \in Start0 .. Len0 + n - 1 /\ base' = base /\ start' = Start0
      BY <1>1, <1>2, <1>4 DEF Indices
    <3>2. CASE i < Len0
      BY <1>4, <1>6, <3>1, <3>2
    <3>3. CASE i >= Len0
      BY <1>3, <1>4, <3>1, <3>3
    <3>4. QED
      BY <1>4, <3>2, <3>3
  <2>2. QED
    BY <2>1, Zenon DEF BufferHolds
<1>9. Reached' = Reached /\ ReassemblesExactly' /\ ChunkBounded' /\ CutsSoFar'
  BY <1>1, <1>3, NothingReturned
<1>10. CursorAhead' /\ CursorInFile' /\ EofKnown'
  BY <1>2, <1>3, <1>4, <1>5, <1>9 DEF CursorAhead, CursorInFile, EofKnown
<1>11. QED
  BY <1>7, <1>8, <1>9, <1>10 DEF CdcInv

LEMMA ReadNothingKeeps ==
  ASSUME CdcInv, ReadNothing
  PROVE  CdcInv'
<1> USE Scale
<1>1. /\ Reading /\ failed' = (failed \/ Want > 0) /\ eof' = TRUE
      /\ buf' = Compacted /\ len' = Len0 /\ start' = Start0
      /\ UNCHANGED <<file, cursor, base, pc, out>>
  BY DEF ReadNothing
<1>2. /\ content' = content /\ from' = from /\ end' = end
      /\ base' = base /\ cursor' = cursor /\ pc' = pc /\ out' = out
  BY <1>1 DEF file
<1>3. /\ ~eof /\ ~failed /\ pc = "fill" /\ base = Reached /\ cursor = base + Pending
      /\ Pending \in Nat /\ cursor <= end
  BY <1>1 DEF CdcInv, TypeOK, Reading, EofKnown, CursorAhead, CursorInFile, Pending, Offsets
<1>4. /\ Want > 0 /\ Len0 \in 0 .. Cap
      /\ Start0 \in 0 .. Len0 /\ Len0 - Start0 = Pending
  BY <1>1, RoomToRead DEF CdcInv
<1>5. Pending' = Pending /\ failed'
  BY <1>1, <1>4 DEF Pending
<1>6. /\ Compacted \in [Indices -> Offsets \cup {NoByte}]
      /\ \A i \in Start0 .. Len0 - 1 : Compacted[i] = base + (i - Start0)
  BY <1>1, CompactedHolds DEF CdcInv
<1>7. TypeOK'
  BY <1>1, <1>2, <1>4, <1>5, <1>6 DEF CdcInv, TypeOK
<1>8. BufferHolds'
  BY <1>1, <1>6 DEF BufferHolds
<1>9. Reached' = Reached /\ ReassemblesExactly' /\ ChunkBounded' /\ CutsSoFar'
  BY <1>1, <1>3, NothingReturned
<1>10. CursorAhead' /\ CursorInFile' /\ EofKnown'
  BY <1>1, <1>2, <1>3, <1>5, <1>9 DEF CursorAhead, CursorInFile, EofKnown
<1>11. QED
  BY <1>7, <1>8, <1>9, <1>10 DEF CdcInv

LEMMA FilledKeeps ==
  ASSUME CdcInv, Filled
  PROVE  CdcInv'
<1> USE Scale
<1>1. /\ pc = "fill" /\ (eof \/ Pending >= Window \/ Remain = 0)
      /\ eof' = (eof \/ (Pending < Window /\ Remain = 0)) /\ pc' = "scan"
      /\ UNCHANGED <<file, cursor, buf, len, start, base, failed, out>>
  BY DEF Filled
<1>2. /\ content' = content /\ from' = from /\ end' = end
      /\ cursor' = cursor /\ buf' = buf /\ len' = len /\ start' = start
      /\ base' = base /\ failed' = failed /\ out' = out
  BY <1>1 DEF file
<1>3. Pending' = Pending /\ Pending \in Nat /\ eof \in BOOLEAN /\ base \in Nat /\ end \in Nat
  BY <1>2 DEF Pending, CdcInv, TypeOK, Offsets
<1>4. eof' \in BOOLEAN /\ (eof' <=> eof \/ (Pending < Window /\ Remain = 0))
  <2>1. (eof \/ (Pending < Window /\ Remain = 0)) \in BOOLEAN
    BY SMT
  <2>2. QED
    BY <1>1, <2>1, Zenon
<1>5. Reached' = Reached /\ ReassemblesExactly' /\ ChunkBounded' /\ CutsSoFar'
  BY <1>1, <1>2, <1>3, NothingReturned
<1>6. TypeOK' /\ BufferHolds'
  BY <1>1, <1>2, <1>4 DEF CdcInv, TypeOK, BufferHolds
<1>7. ~eof /\ eof' => cursor >= end
  <2>1. ~eof => base = Reached /\ cursor = base + Pending
    BY DEF CdcInv, CursorAhead
  <2>2. Remain = 0 => end <= base + Pending
    BY <1>3 DEF Remain
  <2>3. QED
    BY <1>3, <1>4, <2>1, <2>2
<1>8. EofKnown'
  BY <1>1, <1>2, <1>3, <1>4, <1>7 DEF CdcInv, EofKnown
<1>9. CursorAhead' /\ CursorInFile'
  BY <1>2, <1>3, <1>4, <1>5 DEF CdcInv, CursorAhead, CursorInFile
<1>10. QED
  BY <1>5, <1>6, <1>8, <1>9 DEF CdcInv

LEMMA ExhaustedKeeps ==
  ASSUME CdcInv, Exhausted
  PROVE  CdcInv'
<1> USE Scale
<1>1. /\ pc = "scan" /\ len = start /\ pc' = "done"
      /\ content' = content /\ from' = from /\ end' = end
      /\ cursor' = cursor /\ buf' = buf /\ len' = len /\ start' = start
      /\ base' = base /\ eof' = eof /\ failed' = failed /\ out' = out
      /\ UNCHANGED <<file, out>>
  BY DEF Exhausted, file
<1>2. Pending' = Pending /\ Pending = 0
  BY <1>1 DEF Pending, CdcInv, TypeOK
<1>3. Reached' = Reached /\ ReassemblesExactly' /\ ChunkBounded' /\ CutsSoFar'
  BY <1>1, <1>2, NothingReturned
<1>4. TypeOK' /\ BufferHolds' /\ EofKnown'
  BY <1>1, <1>2 DEF CdcInv, TypeOK, BufferHolds, EofKnown
<1>5. CursorAhead' /\ CursorInFile'
  BY <1>1, <1>2, <1>3 DEF CdcInv, CursorAhead, CursorInFile
<1>6. QED
  BY <1>3, <1>4, <1>5 DEF CdcInv

LEMMA CutChunkKeeps ==
  ASSUME CdcInv, CutChunk
  PROVE  CdcInv'
<1> USE Scale
<1> DEFINE stop == First(Cuts) + 1
           n    == stop - start
<1>1. /\ pc = "scan" /\ Cuts # {} /\ Emit(stop) /\ base' = base + n /\ start' = stop
      /\ pc' = "fill"
      /\ content' = content /\ from' = from /\ end' = end /\ file' = file
      /\ cursor' = cursor /\ buf' = buf /\ len' = len /\ eof' = eof /\ failed' = failed
  BY DEF CutChunk, file
<1>2. len # start
  <2>1. PICK i \in start .. ScanEnd - 1 : TRUE
    BY <1>1 DEF Cuts
  <2>2. QED
    BY <2>1 DEF CdcInv, TypeOK, ScanEnd
<1>3. /\ stop \in start + 1 .. ScanEnd /\ n \in 1 .. Window /\ stop \in start + 1 .. len
      /\ ChunkEnd(content, base, end) = base + n
  BY <1>1, <1>2, CutIsWholeFileCut, ScanBounds, Unprocessed
<1> HIDE DEF stop
<1>4. /\ out' \in Seq(Chunk) /\ Len(out') = Len(out) + 1
      /\ \A k \in 1 .. Len(out) : out'[k] = out[k]
      /\ out'[Len(out) + 1].offset = base
      /\ Len(out'[Len(out) + 1].data) = n
      /\ Reached' = base + n
      /\ ReassemblesExactly' /\ ChunkBounded'
  BY <1>1, <1>2, <1>3, Emitted
<1>5. Pending' = Pending - n /\ Pending \in Nat /\ Pending > 0 /\ n <= Pending
  BY <1>1, <1>2, <1>3, Unprocessed DEF Pending
<1>6. TypeOK'
  <2>1. base' \in Offsets
    BY <1>1, <1>2, <1>3, <1>5, Unprocessed DEF Offsets
  <2>2. start' \in 0 .. len'
    BY <1>1, <1>2, <1>3, Unprocessed
  <2>3. QED
    BY <1>1, <1>4, <2>1, <2>2 DEF CdcInv, TypeOK
<1>7. BufferHolds'
  <2>1. ASSUME NEW i \in start' .. len' - 1
        PROVE  buf'[i] = base' + (i - start')
    <3>1. i \in start .. len - 1
      BY <1>1, <1>2, <1>3, Unprocessed
    <3>2. buf[i] = base + (i - start)
      BY <3>1 DEF CdcInv, BufferHolds
    <3>3. QED
      BY <1>1, <1>2, <1>3, <3>1, <3>2, Unprocessed
  <2>2. QED
    BY <2>1, Zenon DEF BufferHolds
<1>8. CursorAhead' /\ CursorInFile'
  <2>1. cursor = base + Pending /\ base \in Nat /\ cursor <= end
    BY <1>2, Unprocessed
  <2>2. cursor' = Reached' + Pending'
    BY <1>1, <1>3, <1>4, <1>5, <2>1
  <2>3. base' = Reached' /\ cursor' <= end'
    BY <1>1, <1>4, <2>1
  <2> QED BY <2>2, <2>3 DEF CursorAhead, CursorInFile
<1>9. EofKnown'
  BY <1>1 DEF CdcInv, EofKnown
<1>10. CutsSoFar'
  <2>1. ASSUME NEW k \in 1 .. Len(out')
        PROVE  out'[k].offset + Len(out'[k].data) = ChunkEnd(content, out'[k].offset, end)
    <3>1. CASE k \in 1 .. Len(out)
      <4>1. StopOf(k) = ChunkEnd(content, out[k].offset, end)
        BY <1>5, <3>1 DEF CdcInv, CutsSoFar
      <4> QED BY <1>4, <3>1, <4>1, Zenon DEF StopOf
    <3>2. CASE k = Len(out) + 1
      BY <1>3, <1>4, <3>2
    <3>3. QED
      BY <1>4, <3>1, <3>2 DEF CdcInv, TypeOK
  <2>2. QED
    BY <1>1, <2>1 DEF CutsSoFar, StopOf
<1>11. QED
  BY <1>4, <1>6, <1>7, <1>8, <1>9, <1>10 DEF CdcInv

LEMMA EmitRestKeeps ==
  ASSUME CdcInv, EmitRest
  PROVE  CdcInv'
<1> USE Scale
<1>1. /\ pc = "scan" /\ len # start /\ Cuts = {} /\ Emit(len) /\ len' = start
      /\ pc' = "fill"
      /\ content' = content /\ from' = from /\ end' = end /\ file' = file
      /\ cursor' = cursor /\ buf' = buf /\ start' = start /\ base' = base
      /\ eof' = eof /\ failed' = failed
  BY DEF EmitRest, file
<1>2. /\ Pending < Window /\ Pending > 0 /\ Pending \in Nat /\ Pending = len - start
      /\ eof /\ cursor = base + Pending /\ cursor <= end
      /\ (failed \/ cursor = end)
  BY <1>1, ForcedCut, Unprocessed DEF CdcInv, EofKnown
<1>3. len \in start + 1 .. len /\ len - start <= Window
  BY <1>1, <1>2, Unprocessed
<1>4. /\ out' \in Seq(Chunk) /\ Len(out') = Len(out) + 1
      /\ \A k \in 1 .. Len(out) : out'[k] = out[k]
      /\ out'[Len(out) + 1].offset = base
      /\ Len(out'[Len(out) + 1].data) = len - start
      /\ Reached' = base + (len - start)
      /\ ReassemblesExactly' /\ ChunkBounded'
  BY <1>1, <1>3, Emitted
<1>5. Pending' = 0
  BY <1>1, Unprocessed DEF Pending
<1>6. TypeOK'
  <2>1. len' \in 0 .. Cap /\ start' \in 0 .. len'
    BY <1>1, Unprocessed
  <2>2. QED
    BY <1>1, <1>4, <2>1 DEF CdcInv, TypeOK
<1>7. BufferHolds'
  <2>1. start' .. len' - 1 = {}
    BY <1>1, Unprocessed
  <2>2. QED
    BY <2>1, Zenon DEF BufferHolds
<1>8. CursorAhead' /\ CursorInFile'
  BY <1>1, <1>2, <1>4, <1>5 DEF CursorAhead, CursorInFile
<1>9. EofKnown'
  BY <1>1 DEF CdcInv, EofKnown
<1>10. CutsSoFar'
  <2>1. ASSUME NEW k \in 1 .. Len(out')
        PROVE  \/ out'[k].offset + Len(out'[k].data) = ChunkEnd(content, out'[k].offset, end)
               \/ failed /\ k = Len(out')
    <3>1. CASE k \in 1 .. Len(out)
      BY <1>2, <1>4, <3>1 DEF CdcInv, CutsSoFar, StopOf
    <3>2. CASE k = Len(out) + 1
      BY <1>1, <1>2, <1>4, <3>2, RestIsWholeFileCut
    <3>3. QED
      BY <1>4, <3>1, <3>2 DEF CdcInv, TypeOK
  <2>2. QED
    BY <1>1, <1>5, <2>1 DEF CutsSoFar, StopOf
<1>11. QED
  BY <1>4, <1>6, <1>7, <1>8, <1>9, <1>10 DEF CdcInv

LEMMA CdcStutters ==
  ASSUME CdcInv, UNCHANGED vars
  PROVE  CdcInv'
BY DEF vars, file, CdcInv, TypeOK, BufferHolds, CursorAhead, CursorInFile, EofKnown,
       ReassemblesExactly, ChunkBounded, CutsSoFar, Reached, Pending, StopOf

LEMMA CdcStep == CdcInv /\ [Next]_vars => CdcInv'
BY ReadBlockKeeps, ReadNothingKeeps, FilledKeeps, ExhaustedKeeps, CutChunkKeeps,
   EmitRestKeeps, CdcStutters DEF Next

----------------------------------------------------------------------------
(* What it implies.                                                         *)

LEMMA CdcImplies ==
  CdcInv => /\ TypeOK /\ ReassemblesExactly /\ CutsAsWholeFile
            /\ EndsAtEnd /\ ChunkBounded
<1> SUFFICES ASSUME CdcInv
             PROVE  CutsAsWholeFile /\ EndsAtEnd
  BY DEF CdcInv
<1>1. CutsAsWholeFile
  BY DEF CdcInv, CutsSoFar, CutsAsWholeFile
<1>2. ASSUME pc = "done", ~failed, from < end
      PROVE  out # <<>> /\ StopOf(Len(out)) = end
  <2>1. cursor = end /\ cursor = Reached + Pending /\ Pending = 0
    BY <1>2 DEF CdcInv, TypeOK, EofKnown, CursorInFile, CursorAhead, Offsets
  <2>2. Reached = end
    <3>1. CASE out = <<>>
      BY <2>1, <3>1 DEF CdcInv, TypeOK, Reached, Offsets
    <3>2. CASE out # <<>>
      <4>1. Reached \in Int
        <5>1. Len(out) \in 1 .. Len(out)
          BY <3>2 DEF CdcInv, TypeOK
        <5>2. out[Len(out)] \in Chunk
          BY <5>1 DEF CdcInv, TypeOK
        <5>3. QED
          BY <3>2, <5>2 DEF Reached, StopOf, Chunk, Offsets
      <4>2. QED
        BY <2>1, <4>1 
    <3>3. QED
      BY <3>1, <3>2
  <2>3. out # <<>>
    BY <1>2, <2>2 DEF CdcInv, TypeOK, Reached, Offsets
  <2>4. QED
    BY <2>2, <2>3 DEF Reached
<1>3. QED
  BY <1>1, <1>2 DEF EndsAtEnd

(* The invariant of the iterator, however long it runs.                     *)
THEOREM CdcInvariant == Spec => []CdcInv
<1>1. QED
  BY CdcInit, CdcStep, PTL DEF Spec

----------------------------------------------------------------------------
(* The AST track.  Counted and Bytes are recursive: that they are functions *)
(* with the values their definitions give, and what these values are, needs *)
(* induction, here from the least element of a set of naturals.             *)

LEMMA Induction ==
  ASSUME NEW S \in SUBSET Nat, 0 \in S, \A n \in S : n + 1 \in S
  PROVE  S = Nat
<1> SUFFICES ASSUME Nat \ S # {}
             PROVE  FALSE
  OBVIOUS
<1>1. PICK m \in Nat \ S : \A n \in Nat \ S : m <= n
  <2>1. Nat \ S \in SUBSET Nat
    OBVIOUS
  <2>2. QED
    BY <2>1, Least
<1>2. m # 0 /\ m - 1 \in Nat /\ m - 1 \in S
  BY <1>1
<1>3. (m - 1) + 1 \in S /\ (m - 1) + 1 = m
  BY <1>2
<1>4. QED
  BY <1>1, <1>3

(* Sums of the first i values of two functions are a function of i.         *)
Running(f, n, a, b) == f = [i \in 0 .. n |-> IF i = 0 THEN 0 ELSE f[i - 1] + a[i] + b[i]]

LEMMA RunningExists ==
  ASSUME NEW n \in Nat, NEW a, NEW b
  PROVE  \E f : Running(f, n, a, b)
<1> DEFINE S == {k \in Nat : \E f : Running(f, k, a, b)}
<1>1. 0 \in S
  <2>1. Running([i \in 0 .. 0 |-> 0], 0, a, b)
    BY DEF Running
  <2>2. QED
    BY <2>1
<1>2. ASSUME NEW k \in S
      PROVE  k + 1 \in S
  <2>1. PICK f : Running(f, k, a, b)
    OBVIOUS
  <2> DEFINE g == [i \in 0 .. k + 1 |-> IF i <= k THEN f[i] ELSE f[k] + a[k + 1] + b[k + 1]]
  <2>2. \A i \in 0 .. k : g[i] = f[i]
    BY <1>2
  <2>3. \A i \in 0 .. k + 1 : g[i] = IF i = 0 THEN 0 ELSE g[i - 1] + a[i] + b[i]
    <3>1. ASSUME NEW i \in 0 .. k
          PROVE  g[i] = IF i = 0 THEN 0 ELSE g[i - 1] + a[i] + b[i]
      <4>1. f[i] = IF i = 0 THEN 0 ELSE f[i - 1] + a[i] + b[i]
        BY <2>1 DEF Running
      <4>2. i # 0 => g[i - 1] = f[i - 1]
        BY <1>2, <2>2
      <4>3. g[i] = f[i]
        BY <2>2
      <4> HIDE DEF g
      <4>4. QED
        BY <4>1, <4>2, <4>3
    <3>2. g[k + 1] = g[k] + a[k + 1] + b[k + 1]
      BY <1>2, <2>2
    <3> HIDE DEF g
    <3>3. QED
      BY <1>2, <3>1, <3>2
  <2>4. g = [i \in 0 .. k + 1 |-> IF i = 0 THEN 0 ELSE g[i - 1] + a[i] + b[i]]
    BY <2>3
  <2> HIDE DEF g
  <2>5. QED
    BY <1>2, <2>4 DEF Running
<1>3. S = Nat
  <2>1. S \in SUBSET Nat
    OBVIOUS
  <2> HIDE DEF S
  <2>2. QED
    BY <1>1, <1>2, <2>1, Induction
<1>4. QED
  BY <1>3

(* A text is made of lines, of which only the last may have no terminator.  *)
LEMMA TextShape ==
  ASSUME TextTypes, text # <<>>
  PROVE  /\ Len(text) \in 1 .. MaxLines
         /\ \A i \in 1 .. Len(text) : text[i].len \in 0 .. MaxLine /\ text[i].nl \in 0 .. 2
         /\ \A i \in 1 .. Len(text) - 1 : text[i].nl >= 1
         /\ text[Len(text)].len + text[Len(text)].nl >= 1
<1> USE LinesAssumption
<1>1. Len(text) \in 1 .. MaxLines
  BY DEF TextTypes
<1>2. \A m \in Lines : m.len \in 0 .. MaxLine /\ m.nl \in 1 .. 2
  BY DEF Lines
<1>3. \A m \in LastLines : m.len \in 0 .. MaxLine /\ m.nl \in 0 .. 2 /\ m.len + m.nl >= 1
  BY DEF LastLines, Lines
<1>4. \A i \in 1 .. Len(text) : text[i] \in LastLines
  BY DEF TextTypes
<1>5. \A i \in 1 .. Len(text) : text[i].len \in 0 .. MaxLine /\ text[i].nl \in 0 .. 2
  BY <1>3, <1>4
<1>6. \A i \in 1 .. Len(text) - 1 : text[i].nl >= 1
  <2>1. \A i \in 1 .. Len(text) - 1 : text[i] \in Lines
    BY DEF TextTypes
  <2>2. QED
    BY <1>2, <2>1
<1>7. text[Len(text)].len + text[Len(text)].nl >= 1
  <2>1. text[Len(text)] \in LastLines
    BY <1>1, <1>4
  <2>2. QED
    BY <1>3, <2>1
<1>8. QED
  BY <1>1, <1>5, <1>6, <1>7

(* Counted and Bytes are what their definitions say.                        *)
LEMMA CountedIs ==
  Counted = [i \in 0 .. MaxLines |-> IF i = 0 THEN 0 ELSE Counted[i - 1] + text[i].len + 1]
<1> DEFINE a == [i \in 1 .. MaxLines |-> text[i].len]
           b == [i \in 1 .. MaxLines |-> 1]
<1>1. PICK f : Running(f, MaxLines, a, b)
  BY RunningExists, LinesAssumption
<1>2. f = [i \in 0 .. MaxLines |-> IF i = 0 THEN 0 ELSE f[i - 1] + text[i].len + 1]
  <2>1. f = [i \in 0 .. MaxLines |-> IF i = 0 THEN 0 ELSE f[i - 1] + a[i] + b[i]]
    BY <1>1 DEF Running
  <2>2. \A i \in 0 .. MaxLines :
          (IF i = 0 THEN 0 ELSE f[i - 1] + a[i] + b[i])
            = IF i = 0 THEN 0 ELSE f[i - 1] + text[i].len + 1
    BY LinesAssumption
  <2> HIDE DEF a, b
  <2>3. QED
    BY <2>1, <2>2
<1>3. QED
  BY <1>2, Zenon DEF Counted

LEMMA BytesIs ==
  Bytes = [i \in 0 .. MaxLines |-> IF i = 0 THEN 0 ELSE Bytes[i - 1] + text[i].len + text[i].nl]
<1> DEFINE a == [i \in 1 .. MaxLines |-> text[i].len]
           b == [i \in 1 .. MaxLines |-> text[i].nl]
<1>1. PICK f : Running(f, MaxLines, a, b)
  BY RunningExists, LinesAssumption
<1>2. f = [i \in 0 .. MaxLines |-> IF i = 0 THEN 0 ELSE f[i - 1] + text[i].len + text[i].nl]
  <2>1. f = [i \in 0 .. MaxLines |-> IF i = 0 THEN 0 ELSE f[i - 1] + a[i] + b[i]]
    BY <1>1 DEF Running
  <2>2. \A i \in 0 .. MaxLines :
          (IF i = 0 THEN 0 ELSE f[i - 1] + a[i] + b[i])
            = IF i = 0 THEN 0 ELSE f[i - 1] + text[i].len + text[i].nl
    BY LinesAssumption
  <2> HIDE DEF a, b
  <2>3. QED
    BY <2>1, <2>2
<1>3. QED
  BY <1>2, Zenon DEF Bytes

(* A line adds at least 1 to what the split counts, and no more to that      *)
(* than to the bytes if it has a terminator.                                *)
LEMMA OneLine ==
  ASSUME NEW n \in Nat, NEW c \in Nat, NEW b \in Nat, NEW l \in Nat, NEW t \in 1 .. 2,
         n <= c, c <= b
  PROVE  n + 1 <= c + l + 1 /\ c + l + 1 <= b + l + t
OBVIOUS

(* One line after the other: what the split counts is at least the number   *)
(* of lines and at most their bytes, as long as the last line is not        *)
(* counted, and bytes only grow.                                            *)
LEMMA Lengths ==
  ASSUME TextTypes, text # <<>>
  PROVE  /\ \A i \in 0 .. Len(text) : Counted[i] \in Nat /\ Bytes[i] \in Nat
         /\ \A i \in 0 .. Len(text) - 1 : i <= Counted[i] /\ Counted[i] <= Bytes[i]
         /\ \A i \in 0 .. Len(text) : Bytes[i] <= Size
         /\ Size \in Nat /\ Size >= 1
<1> DEFINE N == Len(text)
<1>1. /\ N \in 1 .. MaxLines /\ MaxLines \in Nat /\ MaxLine \in Nat
      /\ \A i \in 1 .. N : text[i].len \in 0 .. MaxLine /\ text[i].nl \in 0 .. 2
      /\ \A i \in 1 .. N - 1 : text[i].nl >= 1
      /\ text[N].len + text[N].nl >= 1
  BY TextShape, LinesAssumption
<1> HIDE DEF N
<1>2. /\ Counted[0] = 0 /\ Bytes[0] = 0
      /\ \A i \in 1 .. N : /\ Counted[i] = Counted[i - 1] + text[i].len + 1
                           /\ Bytes[i] = Bytes[i - 1] + text[i].len + text[i].nl
  <2>1. ASSUME NEW i \in 0 .. N
        PROVE  /\ Counted[i] = IF i = 0 THEN 0 ELSE Counted[i - 1] + text[i].len + 1
               /\ Bytes[i] = IF i = 0 THEN 0 ELSE Bytes[i - 1] + text[i].len + text[i].nl
    <3>1. i \in 0 .. MaxLines
      BY <1>1
    <3>2. QED
      BY <3>1, CountedIs, BytesIs, Zenon
  <2>2. QED
    BY <1>1, <2>1
<1>3. \A i \in Nat : i <= N => Counted[i] \in Nat /\ Bytes[i] \in Nat
  <2> DEFINE S == {i \in Nat : i <= N => Counted[i] \in Nat /\ Bytes[i] \in Nat}
  <2>1. S \in SUBSET Nat /\ 0 \in S
    BY <1>2
  <2>2. ASSUME NEW n \in S PROVE n + 1 \in S
    <3> SUFFICES ASSUME n + 1 <= N
                 PROVE  Counted[n + 1] \in Nat /\ Bytes[n + 1] \in Nat
      OBVIOUS
    <3>1. n \in Nat /\ n + 1 \in 1 .. N /\ (n + 1) - 1 = n /\ n <= N
      BY <1>1
    <3>2. /\ Counted[n + 1] = Counted[n] + text[n + 1].len + 1
          /\ Bytes[n + 1] = Bytes[n] + text[n + 1].len + text[n + 1].nl
      BY <1>2, <3>1
    <3>3. text[n + 1].len \in 0 .. MaxLine /\ text[n + 1].nl \in 0 .. 2
      BY <1>1, <3>1
    <3>4. Counted[n] \in Nat /\ Bytes[n] \in Nat
      BY <3>1
    <3>5. Counted[n] + text[n + 1].len + 1 \in Nat
      BY <3>3, <3>4
    <3>6. Bytes[n] + text[n + 1].len + text[n + 1].nl \in Nat
      BY <3>3, <3>4
    <3>7. QED
      BY <3>2, <3>5, <3>6, Zenon
  <2>3. S = Nat
    <3> HIDE DEF S
    <3>1. QED
      BY <2>1, <2>2, Induction
  <2>4. QED
    BY <2>3
<1>4. \A i \in Nat : i < N => i <= Counted[i] /\ Counted[i] <= Bytes[i]
  <2> DEFINE S == {i \in Nat : i < N => i <= Counted[i] /\ Counted[i] <= Bytes[i]}
  <2>1. S \in SUBSET Nat /\ 0 \in S
    BY <1>2
  <2>2. ASSUME NEW n \in S PROVE n + 1 \in S
    <3> SUFFICES ASSUME n + 1 < N
                 PROVE  n + 1 <= Counted[n + 1] /\ Counted[n + 1] <= Bytes[n + 1]
      OBVIOUS
    <3>1. n \in Nat /\ n + 1 \in 1 .. N - 1 /\ (n + 1) - 1 = n /\ n <= N
      BY <1>1
    <3>2. /\ Counted[n + 1] = Counted[n] + text[n + 1].len + 1
          /\ Bytes[n + 1] = Bytes[n] + text[n + 1].len + text[n + 1].nl
      BY <1>1, <1>2, <3>1
    <3>3. /\ text[n + 1].len \in 0 .. MaxLine /\ text[n + 1].nl \in 1 .. 2
          /\ Counted[n] \in Nat /\ Bytes[n] \in Nat
      <4>1. n + 1 \in 1 .. N
        BY <1>1, <3>1
      <4>2. text[n + 1].len \in 0 .. MaxLine /\ text[n + 1].nl \in 0 .. 2
        BY <1>1, <4>1
      <4>3. text[n + 1].nl >= 1
        BY <1>1, <3>1
      <4>4. Counted[n] \in Nat /\ Bytes[n] \in Nat
        BY <1>3, <3>1
      <4>5. QED
        BY <4>2, <4>3, <4>4
    <3>4. n <= Counted[n] /\ Counted[n] <= Bytes[n]
      <4>1. n < N
        BY <1>1, <3>1
      <4>2. QED
        BY <4>1
    <3>5. /\ n + 1 <= Counted[n] + text[n + 1].len + 1
          /\ Counted[n] + text[n + 1].len + 1 <= Bytes[n] + text[n + 1].len + text[n + 1].nl
      BY ONLY <3>1, <3>3, <3>4, OneLine
    <3>6. QED
      BY <3>2, <3>5, Zenon
  <2>3. S = Nat
    <3> HIDE DEF S
    <3>1. QED
      BY <2>1, <2>2, Induction
  <2>4. QED
    BY <2>3
<1>5. \A k \in Nat : k <= N => Bytes[N - k] <= Bytes[N]
  <2> DEFINE S == {k \in Nat : k <= N => Bytes[N - k] <= Bytes[N]}
  <2>1. S \in SUBSET Nat /\ 0 \in S
    BY <1>1, <1>3
  <2>2. ASSUME NEW k \in S PROVE k + 1 \in S
    <3> SUFFICES ASSUME k + 1 <= N PROVE Bytes[N - (k + 1)] <= Bytes[N]
      OBVIOUS
    <3> DEFINE i == N - k
    <3>1. i \in 1 .. N /\ N - (k + 1) = i - 1 /\ Bytes[i] <= Bytes[N]
      BY <1>1
    <3> HIDE DEF i
    <3>2. Bytes[i] = Bytes[i - 1] + text[i].len + text[i].nl
      BY <1>2, <3>1
    <3>3. /\ Bytes[i - 1] \in Nat /\ Bytes[N] \in Nat
          /\ text[i].len \in Nat /\ text[i].nl \in Nat
      BY <1>1, <1>3, <3>1
    <3>4. \A a, l, t, b \in Nat : a + l + t <= b => a <= b
      OBVIOUS
    <3>5. Bytes[i - 1] <= Bytes[N]
      BY ONLY <3>1, <3>2, <3>3, <3>4
    <3>6. QED
      BY <3>1, <3>5, Zenon
  <2>3. S = Nat
    <3> HIDE DEF S
    <3>1. QED
      BY <2>1, <2>2, Induction
  <2>4. QED
    BY <2>3
<1>6. \A i \in 0 .. N : Bytes[i] <= Bytes[N]
  <2>1. ASSUME NEW i \in 0 .. N PROVE Bytes[i] <= Bytes[N]
    <3>1. N - i \in Nat /\ N - i <= N /\ N - (N - i) = i
      BY <1>1
    <3>2. QED
      BY <1>5, <3>1
  <2>2. QED
    BY <2>1
<1>7. Bytes[N] \in Nat /\ Bytes[N] >= 1
  <2>1. N \in 1 .. N /\ N - 1 \in Nat /\ N - 1 <= N
    BY <1>1
  <2>2. Bytes[N - 1] \in Nat /\ Bytes[N] = Bytes[N - 1] + text[N].len + text[N].nl
    BY <1>2, <1>3, <2>1
  <2>3. text[N].len \in 0 .. MaxLine /\ text[N].nl \in 0 .. 2
    BY <1>1, <2>1
  <2>4. QED
    BY <1>1, <2>2, <2>3, SMTT(30)
<1>8. QED
  BY <1>1, <1>3, <1>4, <1>6, <1>7 DEF Size, N

(* The invariant of the split.                                              *)
LEMMA TextInit == SliceInit => TextInv
<1> SUFFICES ASSUME SliceInit PROVE TextInv
  OBVIOUS
<1>1. line = 0 /\ begin = 0 /\ paras = <<>> /\ (text = <<>> \/ text \in Texts)
  BY DEF SliceInit, AstInit
<1>2. from \in Nat /\ (AstInit => text \in Texts)
  BY BlockAssumption DEF SliceInit, AstInit, Init, Offsets
<1>3. ASSUME text \in Texts
      PROVE  /\ text \in Seq(LastLines) /\ Len(text) <= MaxLines
             /\ \A i \in 1 .. Len(text) - 1 : text[i] \in Lines
  <2> USE LinesAssumption
  <2>1. PICK t \in UNION {[1 .. n -> Lines] : n \in 0 .. MaxLines - 1}, l \in LastLines :
          text = Append(t, l)
    BY <1>3 DEF Texts
  <2>2. PICK n \in 0 .. MaxLines - 1 : t \in [1 .. n -> Lines]
    OBVIOUS
  <2>3. Lines \subseteq LastLines
    BY DEF LastLines
  <2>4. t \in Seq(Lines) /\ Len(t) = n /\ t \in Seq(LastLines)
    BY <2>2, <2>3
  <2>5. /\ text \in Seq(LastLines) /\ Len(text) = n + 1
        /\ \A i \in 1 .. n : text[i] = t[i] /\ t[i] \in Lines
    BY <2>1, <2>2, <2>4
  <2>6. QED
    BY <2>2, <2>5
<1>4. TextTypes
  <2>1. <<>> \in Seq(LastLines) /\ paras \in Seq([offset : Nat, length : Nat])
    BY <1>1
  <2>2. CASE text = <<>>
    <3>1. text \in Seq(LastLines) /\ Len(text) = 0
      BY <2>2
    <3>2. QED
      BY <1>1, <2>1, <3>1, LinesAssumption DEF TextTypes
  <2>3. CASE text \in Texts
    BY <1>1, <1>3, <2>1, <2>3 DEF TextTypes
  <2>4. QED
    BY <1>1, <2>2, <2>3
<1>5. ParaEnd = from + begin
  BY <1>1, <1>2 DEF ParaEnd
<1>6. TextReassembles
  <2>1. line = Len(text) => text = <<>>
    BY <1>1, <1>4 DEF TextTypes
  <2>2. QED
    BY <1>1, <2>1 DEF TextReassembles
<1>7. QED
  BY <1>4, <1>5, <1>6 DEF TextInv

(* One more paragraph, from where the last one ended.                       *)
LEMMA OneMore ==
  ASSUME TextInv, from \in Nat, text # <<>>, from' = from, text' = text,
         NEW stop \in Nat, begin < stop,
         paras' = Append(paras, Paragraph(stop)), begin' = stop,
         line' \in 0 .. Len(text)
  PROVE  TextInv'
<1> DEFINE p == Paragraph(stop)
           P == [offset : Nat, length : Nat]
<1>1. /\ paras \in Seq(P) /\ begin \in Nat /\ ParaEnd = from + begin
  BY DEF TextInv, TextTypes
<1>2. p \in P /\ p.offset = from + begin /\ p.length = stop - begin
  BY <1>1 DEF Paragraph
<1> HIDE DEF p, P
<1>3. /\ paras' \in Seq(P) /\ Len(paras') = Len(paras) + 1 /\ Len(paras) \in Nat
      /\ \A k \in 1 .. Len(paras) : paras'[k] = paras[k]
      /\ paras'[Len(paras) + 1] = p
  BY <1>1, <1>2 DEF p
<1>4. TextTypes'
  BY <1>3 DEF TextInv, TextTypes, P
<1>5. ParaEnd' = from' + begin'
  <2>1. paras' # <<>> /\ paras'[Len(paras')] = p
    BY <1>3
  <2>2. ParaEnd' = paras'[Len(paras')].offset + paras'[Len(paras')].length
    BY <2>1 DEF ParaEnd
  <2>3. QED
    BY <1>1, <1>2, <2>1, <2>2
<1>6. ASSUME NEW k \in 1 .. Len(paras')
      PROVE  paras'[k].offset = IF k = 1 THEN from'
                                ELSE paras'[k - 1].offset + paras'[k - 1].length
  <2>1. CASE k \in 1 .. Len(paras)
    <3>1. paras'[k] = paras[k] /\ (k # 1 => paras'[k - 1] = paras[k - 1])
      BY <1>3, <2>1
    <3>2. QED
      BY <2>1, <3>1 DEF TextInv, TextReassembles
  <2>2. CASE k = Len(paras) + 1 /\ k = 1
    <3>1. paras = <<>>
      BY <1>1, <1>3, <2>2
    <3>2. QED
      BY <1>1, <1>2, <1>3, <2>2, <3>1 DEF ParaEnd
  <2>3. CASE k = Len(paras) + 1 /\ k # 1
    <3>1. paras # <<>> /\ k - 1 = Len(paras) /\ paras'[k - 1] = paras[Len(paras)]
      BY <1>3, <2>3
    <3>2. QED
      BY <1>1, <1>2, <1>3, <2>3, <3>1 DEF ParaEnd
  <2>4. QED
    BY <1>3, <2>1, <2>2, <2>3
<1>7. TextReassembles'
  <2>1. begin' = Size' => paras' # <<>> /\ ParaEnd' = from' + Size'
    BY <1>3, <1>5
  <2>2. paras' # <<>> => ParaEnd' = paras'[Len(paras')].offset + paras'[Len(paras')].length
    BY DEF ParaEnd
  <2>3. QED
    BY <1>6, <2>1, <2>2 DEF TextReassembles
<1>8. QED
  BY <1>4, <1>5, <1>7 DEF TextInv

LEMMA FromIsNat == CdcInv => from \in Nat
BY BlockAssumption DEF CdcInv, TypeOK, Offsets

(* A split takes place at a blank line of which more bytes come before than *)
(* lines, so there is something to put in the paragraph.                    *)
LEMMA SplitKeeps ==
  ASSUME TextInv, from \in Nat, SplitParagraph
  PROVE  TextInv'
<1>1. /\ line < Len(text) /\ line > 0 /\ begin < line - 1
      /\ begin' = Counted[line] /\ line' = line + 1
      /\ text' = text
      /\ paras' = LET stop == IF Counted[line] < Size THEN Counted[line] ELSE Size
                  IN IF begin < stop THEN Append(paras, Paragraph(stop)) ELSE paras
  BY DEF SplitParagraph, Splits
<1>2. from' = from
  BY DEF SplitParagraph, vars, file
<1>3. /\ Len(text) \in Nat /\ line \in 0 .. Len(text) - 1 /\ begin \in Nat /\ text # <<>>
      /\ line' \in 0 .. Len(text) /\ TextTypes
  BY <1>1 DEF TextInv, TextTypes
<1>4. /\ Counted[line] \in Nat /\ line <= Counted[line]
      /\ Counted[line] <= Bytes[line] /\ Bytes[line] <= Size
      /\ Bytes[line] \in Nat /\ Size \in Nat
  <2>1. line \in 0 .. Len(text)
    BY <1>3
  <2>2. QED
    BY <1>3, <2>1, Lengths
<1> DEFINE c == Counted[line]
<1>5. begin < c /\ (IF c < Size THEN c ELSE Size) = c
  BY <1>1, <1>3, <1>4
<1>6. paras' = Append(paras, Paragraph(c))
  BY <1>1, <1>5
<1>7. c \in Nat /\ begin' = c
  BY <1>1, <1>4
<1> HIDE DEF c
<1>8. QED
  BY <1>1, <1>2, <1>3, <1>5, <1>6, <1>7, OneMore

LEMMA LastKeeps ==
  ASSUME TextInv, from \in Nat, LastParagraph
  PROVE  TextInv'
<1>1. /\ text # <<>> /\ begin < Size /\ paras' = Append(paras, Paragraph(Size))
      /\ begin' = Size /\ text' = text /\ line' = line
  BY DEF LastParagraph
<1>2. from' = from
  BY DEF LastParagraph, vars, file
<1>3. TextTypes /\ line' \in 0 .. Len(text)
  BY <1>1 DEF TextInv, TextTypes
<1>4. Size \in Nat
  BY <1>1, <1>3, Lengths
<1> DEFINE s == Size
<1>5. s \in Nat /\ begin < s /\ paras' = Append(paras, Paragraph(s)) /\ begin' = s
  BY <1>1, <1>4
<1> HIDE DEF s
<1>6. QED
  BY <1>1, <1>2, <1>3, <1>5, OneMore

(* No paragraph; what was left before the last line is still left.          *)
LEMMA NoParagraph ==
  ASSUME TextInv, from \in Nat, from' = from, text' = text, begin' = begin,
         paras' = paras, line' \in 0 .. Len(text)
  PROVE  TextInv'
<1>1. TextTypes' /\ ParaEnd' = from' + begin'
  BY DEF TextInv, TextTypes, ParaEnd
<1>2. ParaEnd = from + begin /\ (text # <<>> => Size >= 1) /\ Size' = Size
  <2>1. text # <<>> => Size >= 1
    BY Lengths DEF TextInv
  <2>2. Size' = Size
    BY DEF Size, Bytes
  <2>3. QED
    BY <2>1, <2>2 DEF TextInv
<1>3. TextReassembles'
  <2>1. \A k \in 1 .. Len(paras') :
          paras'[k].offset = IF k = 1 THEN from'
                             ELSE paras'[k - 1].offset + paras'[k - 1].length
    BY DEF TextInv, TextReassembles
  <2>2. text # <<>> /\ begin = Size => paras # <<>>
    BY <1>2 DEF ParaEnd, TextInv, TextTypes
  <2>3. QED
    BY <1>2, <2>1, <2>2 DEF TextReassembles, ParaEnd
<1>4. QED
  BY <1>1, <1>3 DEF TextInv

LEMMA SliceInitInv == SliceInit => SliceInv
<1> SUFFICES ASSUME SliceInit PROVE SliceInv
  OBVIOUS
<1> USE Scale
<1>1. CASE Init
  BY <1>1, CdcInit, TextInit DEF SliceInv
<1>2. CASE AstInit
  <2>1. /\ from \in Nat /\ from \in Offsets /\ end = 0 /\ content = <<>> /\ cursor = from
        /\ base = from /\ eof = TRUE /\ len = 0 /\ start = 0 /\ failed = FALSE
        /\ pc = "done" /\ out = <<>>
    BY <1>2 DEF AstInit, Offsets
  <2>2. buf \in [Indices -> Offsets \cup {NoByte}]
    <3>1. buf = [i \in Indices |-> NoByte]
      BY <1>2, Zenon DEF AstInit
    <3>2. QED
      BY <3>1
  <2>3. content \in [0 .. end - 1 -> Marks]
    BY <2>1
  <2>4. TypeOK
    <3>1. out \in Seq(Chunk) /\ len \in 0 .. Cap /\ start \in 0 .. len
      BY <2>1
    <3>2. failed \in BOOLEAN /\ eof \in BOOLEAN /\ pc \in {"fill", "scan", "done"}
      BY <2>1
    <3>3. cursor \in Offsets /\ base \in Offsets /\ end \in 0 .. MaxLen
      BY <2>1
    <3>4. QED
      BY <2>1, <2>2, <2>3, <3>1, <3>2, <3>3, Zenon DEF TypeOK
  <2>5. Pending = 0 /\ Reached = from
    BY <2>1 DEF Pending, Reached
  <2>6. BufferHolds /\ CursorAhead /\ CursorInFile /\ EofKnown
    BY <2>1, <2>5 DEF BufferHolds, CursorAhead, CursorInFile, EofKnown
  <2>7. ReassemblesExactly /\ ChunkBounded /\ CutsSoFar
    BY <2>1 DEF ReassemblesExactly, ChunkBounded, CutsSoFar
  <2>8. QED
    BY <2>4, <2>6, <2>7, TextInit DEF CdcInv, SliceInv
<1>3. QED
  BY <1>1, <1>2 DEF SliceInit

LEMMA SliceStep == SliceInv /\ [SliceNext]_<<vars, textVars>> => SliceInv'
<1> SUFFICES ASSUME SliceInv, [SliceNext]_<<vars, textVars>>
             PROVE  SliceInv'
  OBVIOUS
<1>0. CdcInv /\ TextInv /\ from \in Nat
  BY FromIsNat DEF SliceInv
<1>1. CdcInv'
  <2>1. [Next]_vars
    BY DEF SliceNext, Split, SplitParagraph, NextLine, LastParagraph
  <2>2. QED
    BY <1>0, <2>1, CdcStep
<1>2. CASE [Next]_vars /\ UNCHANGED textVars
  <2>1. from' = from
    BY <1>2 DEF Next, ReadBlock, ReadNothing, Filled, Exhausted, CutChunk, EmitRest,
                vars, file
  <2>2. /\ text' = text /\ begin' = begin /\ paras' = paras /\ line' = line
        /\ line \in 0 .. Len(text)
    BY <1>0, <1>2 DEF textVars, TextInv, TextTypes
  <2>3. QED
    BY <1>0, <1>1, <2>1, <2>2, NoParagraph DEF SliceInv
<1>3. CASE SplitParagraph
  BY <1>0, <1>1, <1>3, SplitKeeps DEF SliceInv
<1>4. CASE NextLine
  <2>1. from' = from /\ text' = text /\ begin' = begin /\ paras' = paras
    BY <1>4 DEF NextLine, vars, file
  <2>2. line' \in 0 .. Len(text)
    BY <1>0, <1>4 DEF NextLine, TextInv, TextTypes
  <2>3. QED
    BY <1>0, <1>1, <2>1, <2>2, NoParagraph DEF SliceInv
<1>5. CASE LastParagraph
  BY <1>0, <1>1, <1>5, LastKeeps DEF SliceInv
<1>6. QED
  BY <1>2, <1>3, <1>4, <1>5 DEF SliceNext, Split

----------------------------------------------------------------------------
(* The theorems, about the iterator behind the dispatch.                    *)

(* Every reachable state of iterator and split satisfies the invariant.     *)
THEOREM SliceInvariant == SliceSpec => []SliceInv
<1>1. QED
  BY SliceInitInv, SliceStep, PTL DEF SliceSpec

(* Concatenated, the chunks are the bytes of the file from start_offset on, *)
(* whatever the reads return and however often the buffer is compacted.     *)
THEOREM ChunksReassemble == SliceSpec => []ReassemblesExactly
<1>1. SliceInv => ReassemblesExactly
  BY CdcImplies DEF SliceInv
<1>2. QED
  BY <1>1, SliceInvariant, PTL

(* The cuts are those of a chunker with the whole file in memory.           *)
THEOREM CutsDoNotDependOnReads == SliceSpec => []CutsAsWholeFile
<1>1. SliceInv => CutsAsWholeFile
  BY CdcImplies DEF SliceInv
<1>2. QED
  BY <1>1, SliceInvariant, PTL

(* The iterator stops at the end of the file or at a failed read only.      *)
THEOREM NothingIsLeft == SliceSpec => []EndsAtEnd
<1>1. SliceInv => EndsAtEnd
  BY CdcImplies DEF SliceInv
<1>2. QED
  BY <1>1, SliceInvariant, PTL

(* No chunk is empty or longer than MAX_CHUNK.                              *)
THEOREM ChunksFit == SliceSpec => []ChunkBounded
<1>1. SliceInv => ChunkBounded
  BY CdcImplies DEF SliceInv
<1>2. QED
  BY <1>1, SliceInvariant, PTL

(* The paragraphs of the AST track leave no gap and do not overlap, for     *)
(* lines of any length and from any start_offset (slicer/ast.rs).           *)
THEOREM ParagraphsReassemble == SliceSpec => []TextReassembles
<1>1. SliceInv => TextReassembles
  BY DEF SliceInv, TextInv
<1>2. QED
  BY <1>1, SliceInvariant, PTL
=============================================================================
