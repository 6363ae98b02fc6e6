--------------------------- MODULE SegmentLedger ---------------------------
(***************************************************************************)
(* The `segments` table of the local ledger (ledger.rs) and the plan cold   *)
(* start derives from it (segment.rs), as operators on a table value t.     *)
(*                                                                         *)
(* A table maps every segment number to a row; a segment without a row maps *)
(* to NoRow, whose offset 0 is also what the code reads from a missing row. *)
(* Segment files are append-only, so the bytes of a file are determined by  *)
(* its length and its SHA-256 is represented by that length.                *)
(***************************************************************************)
EXTENDS Integers

CONSTANTS
  MaxSeq,   \* bound: the highest segment number
  MaxSize   \* bound: the length of a full segment, in records

ASSUME BoundsAssumption == MaxSeq \in Nat /\ MaxSize \in Nat

Seqs  == 0 .. MaxSeq
Sizes == 0 .. MaxSize

NoHash   == -1   \* sealed_hash IS NULL
ZeroHash == -2   \* [0u8; 32], stored when the file could not be read
Unlisted == -1   \* scan entry of a segment the directory scan did not see
Skip     == -1   \* SegmentPlan::Skip; any other plan is a start offset

Row == [ state         : {"ABSENT", "UNFINISHED", "SEALED"},
         sealed_size   : Sizes,
         sealed_hash   : {NoHash, ZeroHash} \cup Sizes,
         synced_offset : Sizes ]

NoRow == [ state |-> "ABSENT", sealed_size |-> 0,
           sealed_hash |-> NoHash, synced_offset |-> 0 ]

Recorded(t, s) == t[s].state # "ABSENT"

(* Mutant: only the direct successor of a known segment counts as new.      *)
IsSuccessor(t, s) == \E m \in Seqs : Recorded(t, m) /\ s = m + 1

(* Some(seq) > max_segment_seq(), or no row at all.                         *)
IsNewHigher(t, s) == \A m \in Seqs : Recorded(t, m) => s > m

(* ON CONFLICT leaves sealed_size and sealed_hash as they were.             *)
UpsertSegment(t, s, synced) ==
  [t EXCEPT ![s].state = "UNFINISHED", ![s].synced_offset = synced]

SealSegment(t, s, size, hash, synced) ==
  [t EXCEPT ![s] = [ state |-> "SEALED", sealed_size |-> size,
                     sealed_hash |-> hash, synced_offset |-> synced ]]

DeleteSegment(t, s) == [t EXCEPT ![s] = NoRow]

----------------------------------------------------------------------------
(* Cold start planning.  scan[s] is the size the scan saw, or Unlisted;     *)
(* content[s] is the hash of the file.                                      *)

IsListed(scan, s) == scan[s] # Unlisted

(* present_max: the segment the probe is presumed to be writing.            *)
IsPresentMax(scan, s) ==
  /\ IsListed(scan, s)
  /\ \A r \in Seqs : IsListed(scan, r) => r <= s

TailSync(t, scan, s) ==
  IF t[s].synced_offset >= scan[s] THEN Skip ELSE t[s].synced_offset

(* Mutant: the state machine it replaced, which compared sizes only.        *)
SizeOnlyPlan(t, scan, content, s) ==
  IF ~IsListed(scan, s) \/ t[s].sealed_size = scan[s] THEN Skip ELSE 0

(* Mutant: the stored state tells the active segment, not the directory.    *)
StoredStatePlan(t, scan, content, s) ==
  IF ~IsListed(scan, s) THEN Skip
  ELSE IF t[s].state = "UNFINISHED" \/ t[s].sealed_hash = content[s]
       THEN TailSync(t, scan, s)
       ELSE 0

(* One entry of plan_segments: only the tail of the active segment and of a *)
(* sealed segment whose hash still matches, all of any other.               *)
PlanSegment(t, scan, content, s) ==
  IF ~IsListed(scan, s) THEN Skip
  ELSE IF IsPresentMax(scan, s) \/ t[s].sealed_hash = content[s]
       THEN TailSync(t, scan, s)
       ELSE 0

(* Rows of segments the scan did not see are removed before the plan runs.  *)
DropUnlisted(t, scan) ==
  [s \in Seqs |-> IF IsListed(scan, s) THEN t[s] ELSE NoRow]
=============================================================================
