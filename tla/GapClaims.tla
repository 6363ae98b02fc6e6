----------------------------- MODULE GapClaims -----------------------------
(***************************************************************************)
(* What bus.rs says of the chunks the gap server sends again, and the code  *)
(* does not do.  GapRepair with the records of a segment grouped into the   *)
(* chunks that CdcRule cuts.                                                 *)
(***************************************************************************)
EXTENDS GapRepair, CdcRule

VARIABLES
  content,   \* the marks of the bytes of every segment
  cuts,      \* history: chunks process_file has published
  resent     \* history: chunks the gap server has published

chunkVars == <<content, cuts, resent>>

ChunkInit ==
  /\ GapInit
  /\ content \in [0 .. MaxSize - 1 -> Marks] /\ cuts = {} /\ resent = {}

(* Each batch of process_file is one chunk, up to the length at open.       *)
CutChunks ==
  /\ Live \/ Boot \/ Down
  /\ IF pc = "send" /\ job'.off > job.off
     THEN /\ job'.off = ChunkEnd(content, job.off, job.end)
          /\ cuts' = cuts \cup {<<job.seq, job.off, job'.off>>}
     ELSE UNCHANGED cuts
  /\ UNCHANGED <<content, resent>>

(* So is each batch of the gap server.                                      *)
RecutChunks ==
  /\ GapServer
  /\ IF gap'.off > gap.off /\ gap.at = "send"
     THEN /\ gap'.off = ChunkEnd(content, gap.off, gap.end)
          /\ resent' = resent \cup {<<query.seq, gap.off, gap'.off>>}
     ELSE UNCHANGED resent
  /\ UNCHANGED <<content, cuts>>

ChunkNext == CutChunks \/ RecutChunks \/ (AskGap /\ UNCHANGED chunkVars)

ChunkSpec == ChunkInit /\ [][ChunkNext]_<<allVars, chunkVars>>

(* bus.rs:60-61: start_offset is a boundary of an original chunk, and       *)
(* slicing again from there reproduces the original boundaries exactly.     *)
ReproducesCuts ==
  \A c \in resent :
    (\E d \in cuts : d[1] = c[1] /\ d[2] = c[2]) => c \in cuts
=============================================================================
