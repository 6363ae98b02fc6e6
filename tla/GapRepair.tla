----------------------------- MODULE GapRepair -----------------------------
(***************************************************************************)
(* The gap server (spawn_gap_server, bus.rs) beside cold start and the      *)
(* tracker, with the receiver that asks it to send again what was lost.     *)
(*                                                                         *)
(* The server is a task of its own: it takes the ledger lock only to read a *)
(* row, and between that, exists(), the open and every put the daemon and   *)
(* the probe go on.  It writes nothing to the ledger.  The receiver is not  *)
(* part of the repository: it is what bus.rs:56-61 says of it, namely that  *)
(* on a seal signal it asks for what is missing from its first hole on.     *)
(* That it asks no more for a segment that is "gone" or "unknown" is an     *)
(* assumption.                                                              *)
(***************************************************************************)
EXTENDS SegmentInv

VARIABLES
  serving,   \* the queryable is declared
  query,     \* the receiver's outstanding query: segment and start_offset
  gap,       \* the server: where it is, the next record, the length at open
  got,       \* records the receiver has
  givenUp,   \* segments the receiver asks for no more
  losses     \* batches the transport dropped, bounded by MaxFaults

gapVars == <<serving, query, gap, got, givenUp, losses>>
allVars == <<vars, gapVars>>

NoQuery == [seq |-> NoSeg, from |-> 0]
GapIdle == [at |-> "recv", off |-> 0, end |-> 0]

GapTypeOK ==
  /\ serving \in BOOLEAN
  /\ query \in [seq : Seqs \cup {NoSeg}, from : Sizes]
  /\ gap \in [at : {"recv", "exists", "open", "send"}, off : Sizes, end : Sizes]
  /\ got \in [Seqs -> SUBSET Sizes] /\ givenUp \subseteq Seqs
  /\ losses \in 0 .. MaxFaults

GapInit ==
  /\ Init
  /\ serving = FALSE /\ query = NoQuery /\ gap = GapIdle
  /\ got = [s \in Seqs |-> {}] /\ givenUp = {} /\ losses = 0

----------------------------------------------------------------------------
(* The daemon and the probe.                                                *)

(* A batch a put has accepted arrives, or the transport drops it.           *)
Transport(s, batch) ==
  \/ got' = [got EXCEPT ![s] = @ \cup batch] /\ UNCHANGED losses
  \/ faults + losses < MaxFaults /\ losses' = losses + 1 /\ UNCHANGED got

Accepted == pc = "send" /\ job'.off > job.off /\ online /\ faults' = faults

Synchronise ==
  /\ Next
  /\ IF Accepted THEN Transport(job.seq, Records(job.off, job'.off))
                 ELSE UNCHANGED <<got, losses>>
  /\ UNCHANGED givenUp

(* The server is spawned when there is a session, before cold start, and is *)
(* lost with the process; the query that was waiting times out.             *)
Live == Synchronise /\ pc # "down" /\ pc' # "down" /\ UNCHANGED <<serving, query, gap>>

Boot ==
  /\ Synchronise /\ pc = "down"
  /\ serving' \in IF pc' # "down" /\ online' THEN BOOLEAN ELSE {FALSE}
  /\ UNCHANGED <<query, gap>>

Down ==
  /\ Synchronise /\ pc # "down" /\ pc' = "down"
  /\ serving' = FALSE /\ query' = NoQuery /\ gap' = GapIdle

----------------------------------------------------------------------------
(* The receiver (external).                                                 *)

Holes(sig) == Records(0, sig[2]) \ got[sig[1]]
FirstHole(sig) == CHOOSE r \in Holes(sig) : \A q \in Holes(sig) : r <= q

AskGap ==
  /\ serving /\ query = NoQuery
  /\ \E sig \in seals :
       /\ sig[1] \notin givenUp /\ Holes(sig) # {}
       /\ query' = [seq |-> sig[1], from |-> FirstHole(sig)]
  /\ UNCHANGED <<vars, serving, gap, got, givenUp, losses>>

----------------------------------------------------------------------------
(* The server.                                                              *)

GapFrame == UNCHANGED <<probeVars, ledgerVars, put, sent, seals, watchVars, online,
                        pc, evt, job, coldVars, crashes, serving>>

Answer  == gap' = GapIdle /\ query' = NoQuery /\ UNCHANGED <<got, losses, faults>> /\ GapFrame
Dismiss == givenUp' = givenUp \cup {query.seq}

(* Mutant: only rows that are still UNFINISHED are looked up.               *)
GapUnknownSealed ==
  /\ gap.at = "recv" /\ query # NoQuery
  /\ segments[query.seq].state # "UNFINISHED"
  /\ Dismiss /\ Answer

GapUnknown ==
  /\ gap.at = "recv" /\ query # NoQuery
  /\ ~Recorded(segments, query.seq)
  /\ Dismiss /\ Answer

GapLookup ==
  /\ gap.at = "recv" /\ query # NoQuery
  /\ Recorded(segments, query.seq)
  /\ gap' = [gap EXCEPT !.at = "exists"]
  /\ UNCHANGED <<query, got, givenUp, losses, faults>> /\ GapFrame

GapGone ==
  /\ gap.at = "exists" /\ ~OnDisk(query.seq)
  /\ Dismiss /\ Answer

GapExists ==
  /\ gap.at = "exists" /\ OnDisk(query.seq)
  /\ gap' = [gap EXCEPT !.at = "open"]
  /\ UNCHANGED <<query, got, givenUp, losses, faults>> /\ GapFrame

(* Mutant: only what the ledger counts as synced is sent again.             *)
GapOpenSynced ==
  /\ gap.at = "open"
  /\ gap' = [at |-> "send", off |-> query.from,
             end |-> IF OnDisk(query.seq) THEN segments[query.seq].synced_offset
                                          ELSE query.from]
  /\ UNCHANGED <<query, got, givenUp, losses, faults>> /\ GapFrame

(* From start_offset up to the end of the file; nothing if it went away.    *)
GapOpen ==
  /\ gap.at = "open"
  /\ gap' = [at |-> "send", off |-> query.from,
             end |-> IF OnDisk(query.seq) THEN size[query.seq] ELSE query.from]
  /\ UNCHANGED <<query, got, givenUp, losses, faults>> /\ GapFrame

(* Mutant: the loop runs once more at the end of the file.                  *)
GapPublishPast ==
  /\ gap.at = "send" /\ gap.off <= gap.end
  /\ gap' = [gap EXCEPT !.off = @ + 1]
  /\ Transport(query.seq, Records(gap.off, gap.off + 1))
  /\ UNCHANGED <<query, givenUp, faults>> /\ GapFrame

(* publish_batch logs a failed put and the loop goes on.                    *)
GapPublish ==
  /\ gap.at = "send" /\ gap.off < gap.end
  /\ \E n \in gap.off + 1 .. gap.end :
       /\ gap' = [gap EXCEPT !.off = n]
       /\ \/ Transport(query.seq, Records(gap.off, n)) /\ UNCHANGED faults
          \/ faults < MaxFaults /\ faults' = faults + 1 /\ UNCHANGED <<got, losses>>
  /\ UNCHANGED <<query, givenUp>> /\ GapFrame

(* A read error is taken for the end of the file here too.                  *)
GapReadError ==
  /\ gap.at = "send" /\ gap.off < gap.end /\ faults < MaxFaults
  /\ faults' = faults + 1
  /\ gap' = [gap EXCEPT !.end = gap.off]
  /\ UNCHANGED <<query, got, givenUp, losses>> /\ GapFrame

(* "resent=n", whatever became of the puts.                                 *)
GapResent ==
  /\ gap.at = "send" /\ gap.off >= gap.end
  /\ Answer
  /\ UNCHANGED givenUp

GapServer ==
  \/ GapUnknown \/ GapLookup \/ GapGone \/ GapExists \/ GapOpen
  \/ GapPublish \/ GapReadError \/ GapResent

GapNext == Live \/ Boot \/ Down \/ AskGap \/ GapServer

GapSpec == GapInit /\ [][GapNext]_allVars

(* The runtime polls the server task, and the receiver asks again as long   *)
(* as something is missing; losses and faults are finite.                   *)
FairGapSpec == GapSpec /\ WF_allVars(GapServer) /\ WF_allVars(AskGap)

----------------------------------------------------------------------------
(* Properties.                                                              *)

(* The receiver gives a segment up only when its file is gone: "unknown" is *)
(* never said of a segment that was announced and is still there, across    *)
(* restarts, unlinks and the two tables the answer is read from.            *)
GivesUpRightly == \A s \in givenUp : ~OnDisk(s)

(* Every hole in an announced segment closes, whether the transport dropped *)
(* the batch, a put failed, or a read of the tracker ended too early, as    *)
(* long as the server runs and the file is there.  The last segment of the  *)
(* bound is never closed, and so never announced.                           *)
GapCloses ==
  \A s \in 0 .. MaxSeq - 1 :
    (serving /\ \E sig \in seals : sig[1] = s)
      ~> (~serving \/ s \in givenUp \/ \A sig \in seals : sig[1] = s => Holes(sig) = {})

----------------------------------------------------------------------------
(* The inductive invariant behind GivesUpRightly, on top of IInv.           *)

(* A removal is reported after the unlink.                                  *)
RemovedIsGone ==
  /\ \A i \in 1 .. Len(events) : events[i].kind = "Removed" => events[i].seq < oldest
  /\ Handling /\ evt.kind = "Removed" => evt.seq < oldest

(* While the plan is made, what the scan did not list was not announced or  *)
(* is gone: it loses its row then.                                          *)
AnnouncedIsListed ==
  pc \in {"stat", "plan"} =>
    \A sig \in seals : OnDisk(sig[1]) => IsListed(scan, sig[1])

AnnouncedIsRecorded ==
  \A sig \in seals : OnDisk(sig[1]) => Recorded(segments, sig[1])

QueryIsAnnounced ==
  /\ query # NoQuery => \E sig \in seals : sig[1] = query.seq
  /\ gap.at # "recv" => query # NoQuery

(* Unlike a segment not created yet, one that is gone stays away.           *)
GivenUpIsGone == \A s \in givenUp : s < oldest

GapInv == /\ IInv /\ GapTypeOK /\ RemovedIsGone /\ AnnouncedIsListed
          /\ AnnouncedIsRecorded /\ QueryIsAnnounced /\ GivenUpIsGone
=============================================================================
