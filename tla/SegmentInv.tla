----------------------------- MODULE SegmentInv -----------------------------
(***************************************************************************)
(* The inductive invariant behind the safety properties of SegmentSync, in  *)
(* the layers in which it is proved.  TLC checks it in the run "feed".      *)
(***************************************************************************)
EXTENDS SegmentSync

(* Wherever job.seq is used as an index it is one.                          *)
InWork == SyncPcs \cup {"measure", "sealstat", "eventstat", "record"}

JobInRange == pc \in InWork => job.seq \in Seqs

(* Layer 1: coverage.  What the ledger, the plan and the running sync count *)
(* as handed over was handed over.                                          *)
PlanCovered ==
  \A s \in Seqs : plan[s] # Skip => Records(0, plan[s]) \subseteq put[s]

JobCovered ==
  pc \in SyncPcs \cup {"measure", "record"} =>
    Records(0, job.off) \subseteq put[job.seq]

CoverInv == LedgerCovered /\ PlanCovered /\ JobCovered /\ PlanOmitsNothing

(* Layer 2: what is known of a segment number by where it came from.        *)
Handling == \/ pc \in {"debounce", "sealing", "sealstat", "eventstat", "record"}
            \/ pc \in SyncPcs /\ job.caller # "cold"

EventsExist ==
  /\ \A i \in 1 .. Len(events) : events[i].seq < created
  /\ Handling => evt.seq < created

SealsBelow ==
  pc = "sealstat" \/ (pc \in SyncPcs /\ job.caller = "seal") => job.seq < evt.seq

ScanExists == \A s \in Seqs : IsListed(scan, s) => s < created

ScanForgotten ==
  pc \in {"down", "list", "idle"} \/ Handling => \A s \in Seqs : ~IsListed(scan, s)

PlanListed == \A s \in Seqs : plan[s] # Skip => IsListed(scan, s)

ColdListed ==
  pc = "measure" \/ (pc \in SyncPcs /\ job.caller = "cold") => IsListed(scan, job.seq)

CallerKnown ==
  /\ pc \in {"cold", "measure"} => job.caller = "cold"
  /\ pc \in {"sealing", "sealstat"} => job.caller = "seal"
  /\ pc \in {"eventstat", "record"} => job.caller = "event"

OriginInv == /\ CallerKnown /\ EventsExist /\ SealsBelow /\ ScanExists /\ ScanForgotten
             /\ PlanListed /\ ColdListed

(* Layer 3: sealing.  A sync is of a final segment if it ends in a seal.    *)
FinalJob ==
  \/ job.caller = "seal"
  \/ job.caller = "event" /\ job.sealed
  \/ job.caller = "cold" /\ ~IsPresentMax(scan, job.seq)

FinalIsClosed ==
  pc \in SyncPcs \cup {"measure"} /\ FinalJob => Closed(job.seq)

(* The row is still what it was when was_sealed was read.                   *)
EventKnowsRow ==
  pc \in SyncPcs /\ job.caller = "event" => (job.sealed <=> Sealed(job.seq))

SealIsFinal == pc \in {"seal", "announce"} => FinalJob

RecordIsActive == pc = "record" => ~Sealed(job.seq)

MeasuredFinal ==
  (\/ pc \in {"seal", "announce"}
   \/ pc \in {"open", "send"} /\ job.caller # "cold" /\ FinalJob)
  /\ OnDisk(job.seq) => job.size = size[job.seq]

ActiveUnsealed == \A s \in Seqs : IsPresentMax(scan, s) => ~Sealed(s)

SealInv == /\ SealedIsFinal /\ FinalIsClosed /\ EventKnowsRow /\ SealIsFinal /\ RecordIsActive
           /\ MeasuredFinal /\ ActiveUnsealed

(* Layer 4: what a seal announces was handed over.                          *)
OpenedFinal ==
  pc = "send" /\ FinalJob /\ OnDisk(job.seq) /\ faults = 0
    => job.end = size[job.seq]

MeasureCovered ==
  pc = "measure" /\ FinalJob /\ OnDisk(job.seq) /\ faults = 0
    => Records(0, size[job.seq]) \subseteq put[job.seq]

SealCovered ==
  pc \in {"seal", "announce"} /\ OnDisk(job.seq) /\ faults = 0
    => Records(0, job.size) \subseteq put[job.seq]

AnnounceInv == SealsFinal /\ OpenedFinal /\ MeasureCovered /\ SealCovered

(* Layer 5: events come in the order of the segments they are about.        *)
Write(e) == e.kind # "Removed"

QueueAscends ==
  /\ \A i, j \in 1 .. Len(events) :
       i < j /\ Write(events[i]) /\ Write(events[j])
         => events[i].seq <= events[j].seq
  /\ Handling /\ Write(evt) =>
       \A i \in 1 .. Len(events) : Write(events[i]) => evt.seq <= events[i].seq

SealedBehindQueue ==
  \A s \in Seqs : Sealed(s) =>
    /\ \A i \in 1 .. Len(events) : Write(events[i]) => s < events[i].seq
    /\ Handling /\ Write(evt) => s < evt.seq

HandlesWrite == Handling /\ pc # "debounce" => Write(evt)

EventJob ==
  pc \in {"eventstat", "record"} \/ (pc \in SyncPcs /\ job.caller = "event")
    => job.seq = evt.seq

(* Nothing is watched before cold start is over.                            *)
ColdQuiet ==
  pc \in {"down"} \cup ColdPcs \/ (pc \in SyncPcs /\ job.caller = "cold")
    => ~watching /\ events = <<>>

OrderInv == ColdQuiet /\ QueueAscends /\ SealedBehindQueue /\ HandlesWrite /\ EventJob

(* Layer 6: sealing leaves no known segment behind.                         *)
RowsExist == \A s \in Seqs : Recorded(segments, s) => s < created

HashIsOfSeal == \A s \in Seqs : ~Sealed(s) => segments[s].sealed_hash = NoHash

AnnouncedIsSealed == pc = "announce" => Sealed(job.seq)

ColdWalk ==
  pc \in {"cold", "measure"} \/ (pc \in SyncPcs /\ job.caller = "cold") =>
    /\ \A r \in Seqs : ~IsListed(scan, r) => ~Recorded(segments, r)
    /\ \A r \in Seqs : r < job.seq /\ OnDisk(r) /\ ~IsPresentMax(scan, r)
                         => ~Unfinished(r)
    /\ \A r \in Seqs : plan[r] = Skip /\ OnDisk(r) /\ ~IsPresentMax(scan, r)
                         => ~Unfinished(r)

SealWalk ==
  pc \in {"sealing", "sealstat"} \/ (pc \in SyncPcs /\ job.caller = "seal") =>
    \A r \in Seqs : r < job.seq /\ OnDisk(r) => ~Unfinished(r)

AscendInv == /\ NoneLeftBelow /\ RowsExist /\ HashIsOfSeal /\ AnnouncedIsSealed
             /\ ColdWalk /\ SealWalk

(* Layer 7: the records handed over are a prefix of the file.               *)
PutIsPrefix == \A s \in Seqs : \E n \in 0 .. size[s] : put[s] = Records(0, n)

EndBelow == pc = "send" /\ job.off < job.end => job.end <= size[job.seq]

FeedInv == PutIsPrefix /\ EndBelow

IInv == /\ TypeOK /\ JobInRange /\ CoverInv /\ OriginInv /\ SealInv
        /\ AnnounceInv /\ OrderInv /\ AscendInv /\ FeedInv
=============================================================================
