------------------------------- MODULE FastCdc -------------------------------
(***************************************************************************)
(* FastCdcIter (slicer/cdc.rs): the iterator that cuts a file into chunks    *)
(* with a buffer of constant size, whatever sizes the reads come in.        *)
(*                                                                         *)
(* A byte in the buffer is named by its offset in the file, which is what   *)
(* the bookkeeping of start, len and base must never get wrong.             *)
(***************************************************************************)
EXTENDS CdcRule, Sequences

CONSTANTS
  Block,    \* the size of one read
  MaxLen    \* bound: the length of the file

ASSUME BlockAssumption == Block \in Nat /\ Block >= 1 /\ MaxLen \in Nat

Window == MaxChunk
Cap    == Window + Block

VARIABLES
  content,              \* the marks of the bytes below end
  from, end,            \* start_offset and the length at open
  cursor,               \* the file position of the reader
  buf, len, start,      \* the buffer; bytes start .. len-1 are unprocessed
  base, eof,
  failed,               \* history: a read returned an error or too early 0
  pc, out               \* where next() is, and the chunks it has returned

file  == <<content, from, end>>
vars  == <<file, cursor, buf, len, start, base, eof, failed, pc, out>>

Offsets == 0 .. MaxLen + 1
NoByte  == -1
Indices == 0 .. Cap - 1
Chunk   == [offset : Offsets, data : Seq(Offsets)]

TypeOK ==
  /\ end \in 0 .. MaxLen /\ content \in [0 .. end - 1 -> Marks] /\ from \in Offsets
  /\ cursor \in Offsets /\ base \in Offsets
  /\ buf \in [Indices -> Offsets \cup {NoByte}]
  /\ len \in 0 .. Cap /\ start \in 0 .. len
  /\ eof \in BOOLEAN /\ failed \in BOOLEAN
  /\ pc \in {"fill", "scan", "done"} /\ out \in Seq(Chunk)

(* FastCdcIter::new; seek accepts an offset past the end.                   *)
Init ==
  /\ end \in 0 .. MaxLen /\ content \in [0 .. end - 1 -> Marks]
  /\ from \in Offsets /\ cursor = from /\ base = from /\ eof = (from >= end)
  /\ buf = [i \in Indices |-> NoByte] /\ len = 0 /\ start = 0
  /\ failed = FALSE /\ pc = "fill" /\ out = <<>>

----------------------------------------------------------------------------
(* Filling the window.                                                      *)

Pending == len - start
Remain  == IF end > base + Pending THEN end - (base + Pending) ELSE 0

(* Mutant: no room is made in a full buffer.                                *)
NeverFull == FALSE

(* A full buffer is compacted first.                                        *)
Full == len = Cap

Len0 == IF Full THEN Pending ELSE len
Start0 == IF Full THEN 0 ELSE start

(* Mutant: the indices are reset and the bytes are not moved.               *)
Unmoved == buf

Compacted ==
  [i \in Indices |-> IF Full /\ i < Pending THEN buf[i + start] ELSE buf[i]]

Want == First({Block, Cap - Len0, Remain})

Reading == pc = "fill" /\ ~eof /\ Pending < Window /\ Remain > 0

ReadBlock ==
  /\ Reading /\ Want > 0
  /\ \E n \in 1 .. Want :
       /\ buf' = [i \in Indices |-> IF Len0 <= i /\ i < Len0 + n
                                    THEN cursor + (i - Len0) ELSE Compacted[i]]
       /\ len' = Len0 + n
       /\ cursor' = cursor + n
  /\ start' = Start0
  /\ UNCHANGED <<file, base, eof, failed, pc, out>>

(* Ok(0) or Err ends the input: read() has nothing, or no room to put it.   *)
ReadNothing ==
  /\ Reading
  /\ failed' = (failed \/ Want > 0)
  /\ buf' = Compacted /\ len' = Len0 /\ start' = Start0
  /\ eof' = TRUE
  /\ UNCHANGED <<file, cursor, base, pc, out>>

(* Mutant: one read is taken to have filled the window.                     *)
FilledByOne ==
  /\ pc = "fill"
  /\ eof \/ Pending > 0 \/ Remain = 0
  /\ eof' = (eof \/ (Pending < Window /\ Remain = 0))
  /\ pc' = "scan"
  /\ UNCHANGED <<file, cursor, buf, len, start, base, failed, out>>

(* Mutant: nothing left to read does not end the loop.                      *)
FilledOrEof ==
  /\ pc = "fill"
  /\ eof \/ Pending >= Window
  /\ pc' = "scan"
  /\ UNCHANGED <<file, cursor, buf, len, start, base, eof, failed, out>>

Filled ==
  /\ pc = "fill"
  /\ eof \/ Pending >= Window \/ Remain = 0
  /\ eof' = (eof \/ (Pending < Window /\ Remain = 0))
  /\ pc' = "scan"
  /\ UNCHANGED <<file, cursor, buf, len, start, base, failed, out>>

----------------------------------------------------------------------------
(* Scanning the window for a cut.                                           *)

ScanEnd == IF start + Window < len THEN start + Window ELSE len
Cuts    == {i \in start .. ScanEnd - 1 : CutAt(i - start, content[buf[i]])}

(* The chunk of the bytes start .. stop-1 of the buffer.                    *)
Emit(stop) ==
  out' = Append(out, [ offset |-> base,
                       data   |-> [k \in 1 .. stop - start |-> buf[start + k - 1]] ])

Exhausted ==
  /\ pc = "scan" /\ len = start
  /\ pc' = "done"
  /\ UNCHANGED <<file, cursor, buf, len, start, base, eof, failed, out>>

(* Mutant: base advances by the index of the cut.                           *)
BaseByIndex ==
  /\ pc = "scan" /\ Cuts # {}
  /\ LET stop == First(Cuts) + 1 IN
       /\ Emit(stop)
       /\ base' = base + stop
       /\ start' = stop
  /\ pc' = "fill"
  /\ UNCHANGED <<file, cursor, buf, len, eof, failed>>

CutChunk ==
  /\ pc = "scan" /\ Cuts # {}
  /\ LET stop == First(Cuts) + 1 IN
       /\ Emit(stop)
       /\ base' = base + (stop - start)
       /\ start' = stop
  /\ pc' = "fill"
  /\ UNCHANGED <<file, cursor, buf, len, eof, failed>>

(* What is left is the last chunk: base is not advanced.                    *)
EmitRest ==
  /\ pc = "scan" /\ len # start /\ Cuts = {}
  /\ Emit(len)
  /\ len' = start
  /\ pc' = "fill"
  /\ UNCHANGED <<file, cursor, buf, start, base, eof, failed>>

Next == ReadBlock \/ ReadNothing \/ Filled \/ Exhausted \/ CutChunk \/ EmitRest

Spec == Init /\ [][Next]_vars

(* process_file drives the iterator to its end.                             *)
FairSpec == Spec /\ WF_vars(Next)

----------------------------------------------------------------------------
(* Properties.                                                              *)

StopOf(k) == out[k].offset + Len(out[k].data)

(* Concatenated, the chunks are the bytes of the file from start_offset on, *)
(* in order, none twice and none missing, and each carries its own offset.  *)
ReassemblesExactly ==
  \A k \in 1 .. Len(out) :
    /\ out[k].offset = IF k = 1 THEN from ELSE StopOf(k - 1)
    /\ \A j \in 1 .. Len(out[k].data) : out[k].data[j] = out[k].offset + j - 1

(* The cuts are those of a chunker that has the whole file, whatever sizes  *)
(* the reads came in; only the chunk a failed read ended may differ.        *)
CutsAsWholeFile ==
  \A k \in 1 .. Len(out) :
    \/ StopOf(k) = ChunkEnd(content, out[k].offset, end)
    \/ failed /\ k = Len(out)

(* The iterator ends at the length at open, or because a read failed: it    *)
(* never runs out of buffer, and it returns all it was given.               *)
EndsAtEnd ==
  pc = "done" /\ ~failed /\ from < end =>
    out # <<>> /\ StopOf(Len(out)) = end

(* No chunk is longer than the window, however much is buffered.            *)
ChunkBounded == \A k \in 1 .. Len(out) : Len(out[k].data) \in 1 .. MaxChunk

(* The loop of process_file over the iterator ends.                         *)
Terminates == <>(pc = "done")

----------------------------------------------------------------------------
(* The inductive invariant behind the safety properties: what start, len,   *)
(* base and the position of the reader have to do with each other.          *)

(* How far the chunks returned go.                                          *)
Reached == IF out = <<>> THEN from ELSE StopOf(Len(out))

BufferHolds == \A i \in start .. len - 1 : buf[i] = base + (i - start)

(* The last chunk of a file leaves base behind; nothing is read after it.   *)
CursorAhead ==
  /\ cursor = Reached + Pending
  /\ Pending > 0 \/ ~eof => base = Reached

CursorInFile ==
  \/ cursor <= end
  \/ from > end /\ cursor = from /\ eof /\ Pending = 0 /\ out = <<>>

EofKnown ==
  /\ eof /\ ~failed => cursor >= end
  /\ failed => eof
  /\ pc = "scan" => eof \/ Pending >= Window
  /\ pc = "done" => eof /\ Pending = 0

(* Only the chunk returned last may end where a read failed.                *)
CutsSoFar ==
  \A k \in 1 .. Len(out) :
    \/ StopOf(k) = ChunkEnd(content, out[k].offset, end)
    \/ failed /\ k = Len(out) /\ Pending = 0

CdcInv == /\ TypeOK /\ BufferHolds /\ CursorAhead /\ CursorInFile /\ EofKnown
          /\ ReassemblesExactly /\ ChunkBounded /\ CutsSoFar
=============================================================================
