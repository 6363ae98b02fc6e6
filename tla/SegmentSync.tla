---------------------------- MODULE SegmentSync ----------------------------
(***************************************************************************)
(* Synchronisation of segment_XXXX.wal files: cold start (main.rs), the     *)
(* tracker's main loop, handle_segment_event and seal_lower_segments        *)
(* (tracker.rs), process_file and send_seal (bus.rs), over the ledger of    *)
(* SegmentLedger.                                                           *)
(*                                                                         *)
(* One thread of control does all of it: cold start runs to its end before  *)
(* the tracker loop is spawned, and the loop handles one event at a time.   *)
(* It runs beside the probe, which writes, rotates and unlinks segments at  *)
(* any moment, so every system call on a segment file is a step of its own. *)
(* A crash keeps the disk and the ledger and nothing else.                  *)
(*                                                                         *)
(* Bytes are counted in records; a chunk batch carries one or more of them. *)
(* There is one watched directory and it stays active.                      *)
(***************************************************************************)
EXTENDS SegmentLedger, Sequences

CONSTANTS
  Sessions,     \* what zenoh::open may answer: TRUE online, FALSE local-only
  MaxCrashes,   \* bound on crashes
  MaxFaults     \* bound on failed puts and failed reads together

ASSUME SessionsAssumption == Sessions \subseteq BOOLEAN /\ Sessions # {}
ASSUME FaultsAssumption   == MaxCrashes \in Nat /\ MaxFaults \in Nat

VARIABLES
  \* the probe's directory: segments oldest .. created-1 are on disk and
  \* created-1 is the one being appended to
  size, created, oldest,
  \* the ledger, which survives a crash
  segments, dirty,
  \* history: records handed to publish_batch, records a put accepted, and
  \* the seal signals a put accepted
  put, sent, seals,
  \* the OS watch with the queue from inotify to the main loop, and the path
  \* last_seen_at holds within the debounce window
  watching, events, cool,
  \* the daemon
  online, pc, evt, job, scan, plan,
  \* bounds used up
  crashes, faults

probeVars  == <<size, created, oldest>>
ledgerVars == <<segments, dirty>>
wireVars   == <<put, sent, seals>>
watchVars  == <<watching, events, cool>>
coldVars   == <<scan, plan>>
bounds     == <<crashes, faults>>
vars == <<probeVars, ledgerVars, wireVars, watchVars, online, pc, evt, job,
          coldVars, bounds>>

NoSeg   == -1
Kinds   == {"Created", "Modified", "Removed"}
Event   == [kind : Kinds, seq : Seqs]
NoEvent == [kind |-> "Removed", seq |-> 0]

(* The locals of one call of process_file and of its caller: the segment,   *)
(* last_offset, the length at open, the length the caller stat'ed, and      *)
(* was_sealed.                                                              *)
Callers == {"cold", "seal", "event"}
Job   == [ caller : Callers, seq : 0 .. MaxSeq + 1,
           off : Sizes, end : Sizes, size : Sizes, sealed : BOOLEAN ]
NoJob == [ caller |-> "cold", seq |-> 0, off |-> 0, end |-> 0, size |-> 0,
           sealed |-> FALSE ]

ColdPcs == {"list", "stat", "plan", "cold", "measure"}
SyncPcs == {"open", "send", "seal", "announce"}
LoopPcs == {"idle", "debounce", "sealing", "sealstat", "eventstat", "record"}

OnDisk(s)   == oldest <= s /\ s < created
Closed(s)   == s < created - 1
StatLen(s)  == IF OnDisk(s) THEN size[s] ELSE 0           \* unwrap_or(0)
FileHash(s) == IF OnDisk(s) THEN size[s] ELSE ZeroHash    \* unwrap_or([0; 32])
Records(a, b) == a .. b - 1

TypeOK ==
  /\ size \in [Seqs -> Sizes] /\ created \in 0 .. MaxSeq + 1
  /\ oldest \in 0 .. MaxSeq
  /\ segments \in [Seqs -> Row] /\ dirty \subseteq Seqs
  /\ put \in [Seqs -> SUBSET Sizes] /\ sent \in [Seqs -> SUBSET Sizes]
  /\ seals \subseteq Seqs \X Sizes
  /\ watching \in BOOLEAN /\ events \in Seq(Event) /\ cool \in Seqs \cup {NoSeg}
  /\ online \in BOOLEAN /\ pc \in {"down"} \cup ColdPcs \cup SyncPcs \cup LoopPcs
  /\ evt \in Event /\ job \in Job
  /\ scan \in [Seqs -> Sizes \cup {Unlisted}] /\ plan \in [Seqs -> Sizes \cup {Skip}]
  /\ crashes \in 0 .. MaxCrashes /\ faults \in 0 .. MaxFaults

Init ==
  /\ size = [s \in Seqs |-> 0] /\ created = 0 /\ oldest = 0
  /\ segments = [s \in Seqs |-> NoRow] /\ dirty = {}
  /\ put = [s \in Seqs |-> {}] /\ sent = [s \in Seqs |-> {}] /\ seals = {}
  /\ watching = FALSE /\ events = <<>> /\ cool = NoSeg
  /\ online = FALSE /\ pc = "down" /\ evt = NoEvent /\ job = NoJob
  /\ scan = [s \in Seqs |-> Unlisted] /\ plan = [s \in Seqs |-> Skip]
  /\ crashes = 0 /\ faults = 0

----------------------------------------------------------------------------
(* The probe (external) and the notification it causes.                     *)

Notify(kind, s) ==
  events' = IF watching THEN Append(events, [kind |-> kind, seq |-> s]) ELSE events

ProbeFrame == UNCHANGED <<ledgerVars, wireVars, watching, cool, online, pc, evt,
                          job, coldVars, bounds>>

CreateSegment ==
  /\ created <= MaxSeq
  /\ created' = created + 1
  /\ Notify("Created", created)
  /\ UNCHANGED <<size, oldest>> /\ ProbeFrame

AppendRecord ==
  /\ created > 0
  /\ size[created - 1] < MaxSize
  /\ size' = [size EXCEPT ![created - 1] = @ + 1]
  /\ Notify("Modified", created - 1)
  /\ UNCHANGED <<created, oldest>> /\ ProbeFrame

UnlinkOldest ==
  /\ Closed(oldest)
  /\ oldest' = oldest + 1
  /\ Notify("Removed", oldest)
  /\ UNCHANGED <<size, created>> /\ ProbeFrame

Probe == CreateSegment \/ AppendRecord \/ UnlinkOldest

----------------------------------------------------------------------------
(* Process life cycle.                                                      *)

(* Everything in memory is gone.                                            *)
Halt ==
  /\ pc' = "down"
  /\ online' = FALSE /\ watching' = FALSE /\ events' = <<>> /\ cool' = NoSeg
  /\ evt' = NoEvent /\ job' = NoJob
  /\ scan' = [s \in Seqs |-> Unlisted] /\ plan' = [s \in Seqs |-> Skip]

Crash ==
  /\ pc # "down" /\ crashes < MaxCrashes
  /\ crashes' = crashes + 1
  /\ Halt
  /\ UNCHANGED <<probeVars, ledgerVars, wireVars, faults>>

(* A failed expect() of cold start.                                         *)
Panic == Halt /\ UNCHANGED <<probeVars, ledgerVars, wireVars, bounds>>

Start ==
  /\ pc = "down"
  /\ online' \in Sessions
  /\ pc' = "list"
  /\ UNCHANGED <<probeVars, ledgerVars, wireVars, watchVars, evt, job, coldVars, bounds>>

----------------------------------------------------------------------------
(* Returning from one unit of work to the loop that called it.              *)

GoIdle == pc' = "idle" /\ job' = NoJob /\ evt' = NoEvent

NextInLoop(caller, s) ==
  /\ pc' = IF caller = "cold" THEN "cold" ELSE "sealing"
  /\ job' = [NoJob EXCEPT !.caller = caller, !.seq = s + 1]
  /\ UNCHANGED evt

Return == IF job.caller = "event" THEN GoIdle ELSE NextInLoop(job.caller, job.seq)

----------------------------------------------------------------------------
(* process_file: open, then publish batch by batch.                         *)

SyncFrame == UNCHANGED <<probeVars, dirty, watchVars, online, coldVars, crashes>>

(* The iterator reads up to the length at open; without a file it is empty. *)
OpenFile ==
  /\ pc = "open"
  /\ job' = [job EXCEPT !.end = IF OnDisk(job.seq) THEN size[job.seq] ELSE job.off]
  /\ pc' = "send"
  /\ UNCHANGED <<segments, wireVars, evt, faults>> /\ SyncFrame

(* Mutant: a chunk is one record longer than what was read.                 *)
PublishPastEnd ==
  /\ pc = "send" /\ job.off < job.end
  /\ \E n \in job.off + 1 .. job.end + 1 :
       /\ job' = [job EXCEPT !.off = n]
       /\ put' = [put EXCEPT ![job.seq] = @ \cup Records(job.off, n)]
       /\ sent' = [sent EXCEPT ![job.seq] = @ \cup Records(job.off, n)]
  /\ UNCHANGED <<segments, seals, pc, evt, faults>> /\ SyncFrame

(* publish_batch: a put that fails, or that no session takes, is logged and *)
(* the offset advances all the same.                                        *)
PublishBatch ==
  /\ pc = "send" /\ job.off < job.end
  /\ \E n \in job.off + 1 .. job.end :
       LET batch == Records(job.off, n) IN
       /\ job' = [job EXCEPT !.off = n]
       /\ put' = [put EXCEPT ![job.seq] = @ \cup batch]
       /\ \/ /\ online
             /\ sent' = [sent EXCEPT ![job.seq] = @ \cup batch]
             /\ UNCHANGED faults
          \/ /\ ~online
             /\ UNCHANGED <<sent, faults>>
          \/ /\ online /\ faults < MaxFaults
             /\ faults' = faults + 1
             /\ UNCHANGED sent
  /\ UNCHANGED <<segments, seals, pc, evt>> /\ SyncFrame

(* A read error is taken for the end of the file.                           *)
ReadError ==
  /\ pc = "send" /\ job.off < job.end /\ faults < MaxFaults
  /\ faults' = faults + 1
  /\ job' = [job EXCEPT !.end = job.off]
  /\ UNCHANGED <<segments, wireVars, pc, evt>> /\ SyncFrame

(* process_file returns Ok(last_offset), always.                            *)
FileSynced ==
  /\ pc = "send" /\ job.off >= job.end
  /\ pc' = CASE job.caller = "cold"  -> "measure"
             [] job.caller = "seal"  -> "seal"
             [] job.caller = "event" -> IF job.sealed THEN "seal" ELSE "record"
  /\ UNCHANGED <<segments, wireVars, evt, job, faults>> /\ SyncFrame

----------------------------------------------------------------------------
(* Sealing: sha256_file and seal_segment, then send_seal.                   *)

SealRow ==
  /\ pc = "seal"
  /\ segments' = SealSegment(segments, job.seq, job.size, FileHash(job.seq), job.off)
  /\ pc' = "announce"
  /\ UNCHANGED <<wireVars, evt, job, faults>> /\ SyncFrame

SendSeal ==
  /\ pc = "announce"
  /\ \/ /\ online
        /\ seals' = seals \cup {<<job.seq, job.size>>}
        /\ UNCHANGED faults
     \/ /\ ~online
        /\ UNCHANGED <<seals, faults>>
     \/ /\ online /\ faults < MaxFaults
        /\ faults' = faults + 1
        /\ UNCHANGED seals
  /\ Return
  /\ UNCHANGED <<segments, put, sent>> /\ SyncFrame

----------------------------------------------------------------------------
(* Cold start.                                                              *)

ColdFrame == UNCHANGED <<probeVars, dirty, wireVars, online, evt, bounds>>

(* The directory walk lists the segments, then stats them one by one.       *)
ListDir ==
  /\ pc = "list"
  /\ scan' = [s \in Seqs |-> IF OnDisk(s) THEN 0 ELSE Unlisted]
  /\ pc' = "stat"
  /\ UNCHANGED <<segments, watchVars, job, plan>> /\ ColdFrame

StatDir ==
  /\ pc = "stat"
  /\ \A s \in Seqs : IsListed(scan, s) => OnDisk(s)
  /\ scan' = [s \in Seqs |-> IF IsListed(scan, s) THEN size[s] ELSE Unlisted]
  /\ pc' = "plan"
  /\ UNCHANGED <<segments, watchVars, job, plan>> /\ ColdFrame

(* A segment unlinked after it was listed fails metadata(), the scan, and   *)
(* the expect() on it.                                                      *)
StatPanic ==
  /\ pc = "stat"
  /\ \E s \in Seqs : IsListed(scan, s) /\ ~OnDisk(s)
  /\ Panic

(* plan_segments hashes every listed segment but the highest.               *)
Hashed(s) == IsListed(scan, s) /\ ~IsPresentMax(scan, s)

PlanSegments ==
  /\ pc = "plan"
  /\ \A s \in Seqs : Hashed(s) => OnDisk(s)
  /\ plan' = [s \in Seqs |-> PlanSegment(segments, scan, size, s)]
  /\ segments' = DropUnlisted(segments, scan)
  /\ NextInLoop("cold", -1)
  /\ UNCHANGED <<watchVars, scan>> /\ ColdFrame

(* A segment unlinked before it was hashed fails the plan and the expect()  *)
(* on it.                                                                   *)
PlanPanic ==
  /\ pc = "plan"
  /\ \E s \in Seqs : Hashed(s) /\ ~OnDisk(s)
  /\ Panic

ColdSkip ==
  /\ pc = "cold" /\ job.seq <= MaxSeq
  /\ plan[job.seq] = Skip \/ ~OnDisk(job.seq)
  /\ NextInLoop("cold", job.seq)
  /\ UNCHANGED <<segments, watchVars, coldVars>> /\ ColdFrame

(* Mutant: the sync starts where the scan saw the file end.                 *)
ColdSyncFromScan ==
  /\ pc = "cold" /\ job.seq <= MaxSeq
  /\ plan[job.seq] # Skip /\ OnDisk(job.seq)
  /\ job' = [job EXCEPT !.off = scan[job.seq]]
  /\ pc' = "open"
  /\ UNCHANGED <<segments, watchVars, coldVars>> /\ ColdFrame

ColdSync ==
  /\ pc = "cold" /\ job.seq <= MaxSeq
  /\ plan[job.seq] # Skip /\ OnDisk(job.seq)
  /\ job' = [job EXCEPT !.off = plan[job.seq]]
  /\ pc' = "open"
  /\ UNCHANGED <<segments, watchVars, coldVars>> /\ ColdFrame

(* metadata() after the sync decides what is recorded.                      *)
ColdGone ==
  /\ pc = "measure" /\ ~OnDisk(job.seq)
  /\ NextInLoop("cold", job.seq)
  /\ UNCHANGED <<segments, watchVars, coldVars>> /\ ColdFrame

(* Mutant: every segment is recorded as the active one.                     *)
ColdActiveAny ==
  /\ pc = "measure" /\ OnDisk(job.seq)
  /\ segments' = UpsertSegment(segments, job.seq, job.off)
  /\ NextInLoop("cold", job.seq)
  /\ UNCHANGED <<watchVars, coldVars>> /\ ColdFrame

ColdActive ==
  /\ pc = "measure" /\ OnDisk(job.seq) /\ IsPresentMax(scan, job.seq)
  /\ segments' = UpsertSegment(segments, job.seq, job.off)
  /\ NextInLoop("cold", job.seq)
  /\ UNCHANGED <<watchVars, coldVars>> /\ ColdFrame

(* Mutant: the active segment is sealed with the others.                    *)
ColdSealedAny ==
  /\ pc = "measure" /\ OnDisk(job.seq)
  /\ job' = [job EXCEPT !.size = size[job.seq]]
  /\ pc' = "seal"
  /\ UNCHANGED <<segments, watchVars, coldVars>> /\ ColdFrame

ColdSealed ==
  /\ pc = "measure" /\ OnDisk(job.seq) /\ ~IsPresentMax(scan, job.seq)
  /\ job' = [job EXCEPT !.size = size[job.seq]]
  /\ pc' = "seal"
  /\ UNCHANGED <<segments, watchVars, coldVars>> /\ ColdFrame

(* Only now does the tracker start watching.                                *)
StartWatching ==
  /\ pc = "cold" /\ job.seq > MaxSeq
  /\ watching' = TRUE
  /\ pc' = "idle" /\ job' = NoJob
  /\ scan' = [s \in Seqs |-> Unlisted] /\ plan' = [s \in Seqs |-> Skip]
  /\ UNCHANGED <<segments, events, cool>> /\ ColdFrame

ColdStart ==
  \/ ListDir \/ StatDir \/ StatPanic \/ PlanSegments \/ PlanPanic
  \/ ColdSkip \/ ColdSync \/ ColdGone \/ ColdActive \/ ColdSealed
  \/ StartWatching

----------------------------------------------------------------------------
(* The tracker's main loop.                                                 *)

LoopFrame == UNCHANGED <<probeVars, wireVars, watching, online, coldVars, bounds>>

(* A Modified or Removed event within the window is dropped.                *)
AbsorbEvent ==
  /\ pc = "idle" /\ events # <<>>
  /\ Head(events).kind # "Created" /\ Head(events).seq = cool
  /\ events' = Tail(events)
  /\ UNCHANGED <<ledgerVars, cool, pc, evt, job>> /\ LoopFrame

AcceptEvent ==
  /\ pc = "idle" /\ events # <<>>
  /\ Head(events).kind = "Created" \/ Head(events).seq # cool
  /\ evt' = Head(events)
  /\ events' = Tail(events)
  /\ dirty' = dirty \cup {Head(events).seq}
  /\ pc' = "debounce"
  /\ UNCHANGED <<segments, cool, job>> /\ LoopFrame

(* The debounce sleep is over.  Any other path was last seen before it.     *)
WakeRemoved ==
  /\ pc = "debounce" /\ evt.kind = "Removed"
  /\ cool' = evt.seq
  /\ segments' = DeleteSegment(segments, evt.seq)
  /\ GoIdle
  /\ UNCHANGED <<dirty, events>> /\ LoopFrame

WakeChanged ==
  /\ pc = "debounce" /\ evt.kind # "Removed"
  /\ cool' = evt.seq
  /\ IF evt.kind = "Created" /\ IsNewHigher(segments, evt.seq)
     THEN pc' = "sealing" /\ job' = [NoJob EXCEPT !.caller = "seal"]
     ELSE pc' = "eventstat" /\ job' = [NoJob EXCEPT !.caller = "event", !.seq = evt.seq]
  /\ UNCHANGED <<ledgerVars, events, evt>> /\ LoopFrame

(* Time passes and the entry of last_seen_at is no longer recent.           *)
CoolDown ==
  /\ cool # NoSeg
  /\ cool' = NoSeg
  /\ UNCHANGED <<ledgerVars, events, pc, evt, job>> /\ LoopFrame

(* seal_lower_segments, one segment below evt.seq at a time.                *)
(* Mutant: nothing left to sync is taken for nothing left to do.            *)
SkipSynced ==
  /\ pc = "sealing" /\ job.seq < evt.seq
  /\ \/ segments[job.seq].state # "UNFINISHED"
     \/ segments[job.seq].synced_offset >= StatLen(job.seq)
  /\ NextInLoop("seal", job.seq)
  /\ UNCHANGED <<ledgerVars, events, cool>> /\ LoopFrame

SealSkip ==
  /\ pc = "sealing" /\ job.seq < evt.seq
  /\ segments[job.seq].state # "UNFINISHED"
  /\ NextInLoop("seal", job.seq)
  /\ UNCHANGED <<ledgerVars, events, cool>> /\ LoopFrame

SealGone ==
  /\ pc = "sealing" /\ job.seq < evt.seq
  /\ segments[job.seq].state = "UNFINISHED" /\ ~OnDisk(job.seq)
  /\ segments' = DeleteSegment(segments, job.seq)
  /\ NextInLoop("seal", job.seq)
  /\ UNCHANGED <<dirty, events, cool>> /\ LoopFrame

SealExists ==
  /\ pc = "sealing" /\ job.seq < evt.seq
  /\ segments[job.seq].state = "UNFINISHED" /\ OnDisk(job.seq)
  /\ pc' = "sealstat"
  /\ UNCHANGED <<ledgerVars, events, cool, evt, job>> /\ LoopFrame

(* Mutant: the rest of the segment is not synced before it is sealed.       *)
SealUnsynced ==
  /\ pc = "sealstat"
  /\ job' = [job EXCEPT !.size = StatLen(job.seq),
                        !.off = segments[job.seq].synced_offset]
  /\ pc' = "seal"
  /\ UNCHANGED <<ledgerVars, events, cool, evt>> /\ LoopFrame

SealStat ==
  /\ pc = "sealstat"
  /\ LET len    == StatLen(job.seq)
         synced == segments[job.seq].synced_offset
     IN /\ job' = [job EXCEPT !.size = len, !.off = synced]
        /\ pc' = IF synced < len THEN "open" ELSE "seal"
  /\ UNCHANGED <<ledgerVars, events, cool, evt>> /\ LoopFrame

SealLoopEnd ==
  /\ pc = "sealing" /\ job.seq = evt.seq
  /\ pc' = "eventstat"
  /\ job' = [NoJob EXCEPT !.caller = "event", !.seq = evt.seq]
  /\ UNCHANGED <<ledgerVars, events, cool, evt>> /\ LoopFrame

(* The rest of handle_segment_event.                                        *)
EventStat ==
  /\ pc = "eventstat"
  /\ LET len    == StatLen(job.seq)
         synced == segments[job.seq].synced_offset
     IN IF synced >= len
        THEN GoIdle
        ELSE /\ job' = [job EXCEPT !.size = len, !.off = synced,
                                   !.sealed = segments[job.seq].state = "SEALED"]
             /\ pc' = "open"
             /\ UNCHANGED evt
  /\ UNCHANGED <<ledgerVars, events, cool>> /\ LoopFrame

(* Mutant: the stat'ed length is recorded, not the offset reached.          *)
RecordStatLen ==
  /\ pc = "record"
  /\ segments' = UpsertSegment(segments, job.seq, job.size)
  /\ GoIdle
  /\ UNCHANGED <<dirty, events, cool>> /\ LoopFrame

RecordTail ==
  /\ pc = "record"
  /\ segments' = UpsertSegment(segments, job.seq, job.off)
  /\ GoIdle
  /\ UNCHANGED <<dirty, events, cool>> /\ LoopFrame

Tracker ==
  \/ AbsorbEvent \/ AcceptEvent \/ WakeRemoved \/ WakeChanged
  \/ SealSkip \/ SealGone \/ SealExists \/ SealStat \/ SealLoopEnd
  \/ EventStat \/ RecordTail

Bus == OpenFile \/ PublishBatch \/ ReadError \/ FileSynced \/ SealRow \/ SendSeal

Daemon == ColdStart \/ Tracker \/ Bus

Next == Probe \/ Daemon \/ CoolDown \/ Start \/ Crash

Spec == Init /\ [][Next]_vars

(* The runtime keeps polling the tracker task and its timers expire.  The   *)
(* probe owes nothing, and nothing restarts the daemon.                     *)
FairSpec == Spec /\ WF_vars(Daemon) /\ WF_vars(CoolDown)

(* The same under a supervisor that restarts the daemon.                    *)
SupervisedSpec == FairSpec /\ WF_vars(Start)

----------------------------------------------------------------------------
(* Properties.                                                              *)

Sealed(s)     == segments[s].state = "SEALED"
Unfinished(s) == segments[s].state = "UNFINISHED"

(* The ledger is never ahead of the bus: every record below synced_offset   *)
(* was handed to publish_batch, in this life of the process or an earlier.  *)
LedgerCovered ==
  \A s \in Seqs : Records(0, segments[s].synced_offset) \subseteq put[s]

(* A SEALED row is of a segment the probe has left, and while the file is   *)
(* there it holds the file's final size and hash.                           *)
SealedIsFinal ==
  \A s \in Seqs : Sealed(s) =>
    /\ Closed(s)
    /\ OnDisk(s) => segments[s].sealed_size = size[s] /\ segments[s].sealed_hash = size[s]

(* A seal signal names a segment that will never grow again, with its final *)
(* size, and unless a put or a read has failed it comes after all its       *)
(* records.  Only a segment unlinked while it was sealed is excepted.       *)
SealsFinal ==
  \A sig \in seals :
    /\ Closed(sig[1])
    /\ OnDisk(sig[1]) =>
         /\ sig[2] = size[sig[1]]
         /\ faults = 0 => Records(0, sig[2]) \subseteq put[sig[1]]

(* Sealing a segment leaves none behind that the ledger knows: below a      *)
(* SEALED row no row of a segment that is still on disk is UNFINISHED.  It  *)
(* says nothing of a lower segment without a row, which is sealed later.    *)
NoneLeftBelow ==
  \A s, r \in Seqs :
    Sealed(s) /\ r < s /\ OnDisk(r) => ~Unfinished(r)

(* Cold start skips a listed segment only if all the scan saw of it was     *)
(* handed to the bus before (the loss that segment.rs:3-10 set out to fix). *)
PlanOmitsNothing ==
  pc \notin {"list", "stat", "plan"} =>
    \A s \in Seqs : IsListed(scan, s) /\ plan[s] = Skip
      => Records(0, scan[s]) \subseteq put[s]

(* A row leaves SEALED only by deletion: no event, however late, and no     *)
(* restart takes a sealed segment for the active one.                       *)
NoUnseal == [][\A s \in Seqs : Sealed(s) => ~Unfinished(s)']_vars

(* Rotation reaches the segments below: once the Created event of t is      *)
(* queued, an UNFINISHED row below t does not stay UNFINISHED, unless the   *)
(* process dies with the queue (then RestartSealsClosed takes over).        *)
CreatedSealsLower ==
  \A s, t \in Seqs :
    (s < t /\ Unfinished(s) /\ \E i \in 1 .. Len(events) :
                                 events[i] = [kind |-> "Created", seq |-> t])
      ~> (~Unfinished(s) \/ pc = "down")

(* Under a supervisor, a segment that was rotated while the daemon was down *)
(* is sealed in the ledger after the restart, if it is still there.         *)
RestartSealsClosed ==
  \A s \in Seqs :
    (pc = "down" /\ Closed(s) /\ OnDisk(s)) ~> (Sealed(s) \/ ~OnDisk(s))

(* The daemon as the receiver sees it.                                      *)
Feed == INSTANCE SegmentFeed WITH faulty <- faults # 0
FeedSpec == Feed!Spec
=============================================================================
