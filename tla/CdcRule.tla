------------------------------- MODULE CdcRule -------------------------------
(***************************************************************************)
(* The cut rule of FastCDC (slicer/cdc.rs), as a function of a file's bytes. *)
(*                                                                         *)
(* The rolling hash is shifted left by one bit per byte, so whether its low  *)
(* 3 or 5 bits are zero at a byte depends on that byte and the four before   *)
(* it, and no chunk is cut before MIN_CHUNK = 2048 bytes: where the chunk    *)
(* began does not matter.  A byte is therefore represented by what the masks *)
(* make of the hash there; every sequence of marks is the marks of some file *)
(* because gear_hash multiplies by an odd number.                           *)
(***************************************************************************)
EXTENDS Integers

CONSTANTS MinChunk, AvgChunk, MaxChunk

ASSUME ChunkAssumption ==
  /\ MinChunk \in Nat /\ AvgChunk \in Nat /\ MaxChunk \in Nat
  /\ 1 <= MinChunk /\ MinChunk < AvgChunk /\ AvgChunk < MaxChunk

Marks == {"none", "weak", "strong"}   \* weak: hash & 7 = 0, strong: hash & 31 = 0

(* Mutant: a cut is never forced.                                           *)
CutAtMarked(n, m) == n >= MinChunk /\ (m = "strong" \/ (m = "weak" /\ n < AvgChunk))

(* n bytes of the chunk come before the byte marked m.                      *)
CutAt(n, m) ==
  /\ n >= MinChunk
  /\ \/ m = "strong"
     \/ m = "weak" /\ n < AvgChunk
     \/ n >= MaxChunk - MinChunk

First(S) == CHOOSE i \in S : \A j \in S : i <= j

(* Where the chunk that begins at p ends, for a chunker that has the whole  *)
(* file in memory: reference_chunk of the tests.                            *)
ChunkEnd(content, p, end) ==
  LET cuts == {i \in p .. end - 1 : CutAt(i - p, content[i])}
  IN IF cuts = {} THEN end ELSE First(cuts) + 1
=============================================================================
