------------------------ MODULE SegmentOrderProofs ------------------------
(***************************************************************************)
(* The order of events and of seals: layers 5 and 6 of the invariant.       *)
(***************************************************************************)
EXTENDS SegmentSealProofs

Base == TypeInv /\ CoverInv /\ OriginInv /\ SealInv

----------------------------------------------------------------------------
(* Layer 5.                                                                 *)

LEMMA OrderInit == Init => OrderInv
BY DEF Init, OrderInv, ColdQuiet, QueueAscends, SealedBehindQueue, HandlesWrite, EventJob,
       Handling, Sealed, NoRow, SyncPcs

LEMMA OrderHalt == Halt => OrderInv'
BY DEF Halt, OrderInv, ColdQuiet, QueueAscends, SealedBehindQueue, HandlesWrite, EventJob,
       Handling, SyncPcs

(* A notification is of the segment being written, or it is not a write.    *)
LEMMA OrderProbe == Base /\ OrderInv /\ Probe => OrderInv'
<1> SUFFICES ASSUME Base, OrderInv, Probe PROVE OrderInv'
  OBVIOUS
<1>1. UNCHANGED <<pc, evt, job, scan, segments, watching>>
  BY Frames DEF Probe, CreateSegment, AppendRecord, UnlinkOldest
<1>2. PICK k \in Kinds, s \in Int :
        Notify(k, s) /\ (k # "Removed" => s >= created - 1)
  <2>1. created \in Int /\ oldest \in Int
    BY DEF Base, TypeInv, TypeOK
  <2> QED BY <2>1 DEF Probe, CreateSegment, AppendRecord, UnlinkOldest, Kinds
<1>3. /\ \A i \in 1 .. Len(events) : events[i].seq \in Int /\ events[i].seq < created
      /\ created \in Int /\ evt.seq \in Int
      /\ Handling => evt.seq < created
  <2>1. \A i \in 1 .. Len(events) : events[i] \in Event
    BY DEF Base, TypeInv, TypeOK
  <2> QED BY <2>1 DEF Base, OriginInv, EventsExist, TypeInv, TypeOK, Event, Seqs
<1>4. \A r \in Seqs : Sealed(r) => r \in Int /\ r < created - 1
  BY DEF Base, SealInv, SealedIsFinal, Closed, Seqs
<1>5. CASE events' = events
  BY <1>1, <1>5
  DEF OrderInv, ColdQuiet, QueueAscends, SealedBehindQueue, HandlesWrite, EventJob,
      Handling, Sealed
<1>6. CASE watching /\ events' = Append(events, [kind |-> k, seq |-> s])
  <2>1. /\ Len(events') = Len(events) + 1 /\ Len(events) \in Nat
        /\ \A i \in 1 .. Len(events) : events'[i] = events[i]
        /\ events'[Len(events) + 1] = [kind |-> k, seq |-> s]
    BY <1>6 DEF Base, TypeInv, TypeOK
  <2>2. \A i \in 1 .. Len(events') :
          \/ i \in 1 .. Len(events) /\ events'[i] = events[i]
          \/ i = Len(events) + 1 /\ events'[i] = [kind |-> k, seq |-> s]
    BY <2>1
  <2>3. QueueAscends'
    <3>1. ASSUME NEW i \in 1 .. Len(events'), NEW j \in 1 .. Len(events'), i < j,
                 Write(events'[i]), Write(events'[j])
          PROVE  events'[i].seq <= events'[j].seq
      <4>1. i \in 1 .. Len(events) /\ events'[i] = events[i]
        BY <2>1, <3>1
      <4>2. CASE j \in 1 .. Len(events)
        BY <2>1, <3>1, <4>1, <4>2 DEF OrderInv, QueueAscends
      <4>3. CASE j = Len(events) + 1
        BY <1>2, <1>3, <2>1, <3>1, <4>1, <4>3 DEF Write
      <4> QED BY <2>1, <4>2, <4>3
    <3>2. ASSUME Handling, Write(evt), NEW i \in 1 .. Len(events'), Write(events'[i])
          PROVE  evt.seq <= events'[i].seq
      <4>1. CASE i \in 1 .. Len(events)
        BY <2>1, <3>2, <4>1 DEF OrderInv, QueueAscends
      <4>2. CASE i = Len(events) + 1
        BY <1>2, <1>3, <2>1, <3>2, <4>2 DEF Write
      <4> QED BY <2>1, <4>1, <4>2
    <3>3. Handling' <=> Handling
      BY <1>1 DEF Handling
    <3> QED BY <1>1, <3>1, <3>2, <3>3 DEF QueueAscends
  <2>4. SealedBehindQueue'
    <3>1. ASSUME NEW r \in Seqs, Sealed(r), NEW i \in 1 .. Len(events'), Write(events'[i])
          PROVE  r < events'[i].seq
      <4>1. CASE i \in 1 .. Len(events)
        BY <2>1, <3>1, <4>1 DEF OrderInv, SealedBehindQueue
      <4>2. CASE i = Len(events) + 1
        BY <1>2, <1>3, <1>4, <2>1, <3>1, <4>2 DEF Write
      <4> QED BY <2>1, <4>1, <4>2
    <3> QED BY <1>1, <3>1 DEF OrderInv, SealedBehindQueue, Sealed, Handling
  <2> QED BY <1>1, <1>6, <2>3, <2>4 DEF OrderInv, ColdQuiet, HandlesWrite, EventJob, Handling
<1> QED BY <1>2, <1>5, <1>6 DEF Notify

LEMMA OrderBus == Base /\ OrderInv /\ Bus => OrderInv'
<1> SUFFICES ASSUME Base, OrderInv, Bus PROVE OrderInv'
  OBVIOUS
<1> USE DEF OrderInv
<1>1. UNCHANGED <<events, watching>>
  BY Frames DEF Bus, OpenFile, PublishBatch, ReadError, FileSynced, SealRow, SendSeal
<1>2. pc \in SyncPcs /\ job \in Job /\ job.caller \in Callers /\ job.seq \in Seqs
  BY DEF Bus, OpenFile, PublishBatch, ReadError, FileSynced, SealRow, SendSeal, SyncPcs,
         Base, TypeInv, TypeOK, JobInRange, InWork, Job
<1>3. CASE OpenFile \/ PublishBatch \/ ReadError
  <2>1. /\ pc' \in SyncPcs /\ UNCHANGED <<segments, evt>>
        /\ job'.caller = job.caller /\ job'.seq = job.seq
    BY <1>2, <1>3 DEF OpenFile, PublishBatch, ReadError, SyncPcs, Job
  <2> QED BY <1>1, <1>2, <2>1
          DEF ColdQuiet, QueueAscends, SealedBehindQueue, HandlesWrite, EventJob,
              Handling, Sealed, ColdPcs, SyncPcs
<1>4. CASE FileSynced
  <2>1. /\ UNCHANGED <<segments, job, evt>>
        /\ \/ pc' = "measure" /\ job.caller = "cold"
           \/ pc' = "seal"
           \/ pc' = "record" /\ job.caller = "event"
    BY <1>2, <1>4 DEF FileSynced, Callers
  <2> QED BY <1>1, <1>2, <2>1
          DEF ColdQuiet, QueueAscends, SealedBehindQueue, HandlesWrite, EventJob,
              Handling, Sealed, ColdPcs, SyncPcs
<1>5. CASE SealRow
  <2>1. pc = "seal" /\ pc' = "announce" /\ UNCHANGED <<job, evt>>
    BY <1>5 DEF SealRow
  <2>2. \A r \in Seqs : Sealed(r)' => Sealed(r) \/ r = job.seq
    BY <1>5, SealedRow DEF SealRow, Sealed, Base
  <2>3. Handling' <=> Handling
    BY <1>2, <2>1 DEF Handling, SyncPcs
  <2>4. /\ \A i \in 1 .. Len(events) : Write(events[i]) => job.seq < events[i].seq
        /\ Handling /\ Write(evt) => job.seq < evt.seq
    <3>1. CASE job.caller = "cold"
      BY <1>2, <2>1, <3>1 DEF ColdQuiet, Handling, SyncPcs
    <3>2. CASE job.caller = "seal"
      <4>1. job.seq < evt.seq /\ Write(evt) /\ Handling
        BY <1>2, <2>1, <3>2
        DEF Base, OriginInv, SealsBelow, HandlesWrite, Handling, SyncPcs
      <4>2. \A i \in 1 .. Len(events) : events[i] \in Event
        BY DEF Base, TypeInv, TypeOK
      <4>3. /\ \A i \in 1 .. Len(events) : events[i].seq \in Int
            /\ job.seq \in Int /\ evt.seq \in Int
        BY <1>2, <4>2 DEF Base, TypeInv, TypeOK, Event, Seqs
      <4> QED BY <4>1, <4>3 DEF QueueAscends
    <3>3. CASE job.caller = "event"
      <4>1. Sealed(job.seq)
        BY <2>1, <3>3 DEF Base, SealInv, SealIsFinal, FinalJob, EventKnowsRow, SyncPcs
      <4> QED BY <1>2, <4>1 DEF SealedBehindQueue
    <3> QED BY <1>2, <3>1, <3>2, <3>3 DEF Callers
  <2> QED BY <1>1, <2>1, <2>2, <2>3, <2>4
          DEF ColdQuiet, QueueAscends, SealedBehindQueue, HandlesWrite, EventJob,
              ColdPcs, SyncPcs
<1>6. CASE SendSeal
  <2>1. CASE job.caller = "event"
    BY <1>1, <1>6, <2>1
    DEF SendSeal, Return, GoIdle, ColdQuiet, QueueAscends, SealedBehindQueue,
        HandlesWrite, EventJob, Handling, Sealed, ColdPcs, SyncPcs
  <2>2. CASE job.caller # "event"
    <3>1. /\ UNCHANGED <<evt, segments>>
          /\ pc' = IF job.caller = "cold" THEN "cold" ELSE "sealing"
      BY <1>6, <2>2 DEF SendSeal, Return, NextInLoop
    <3> QED BY <1>1, <1>2, <2>2, <3>1
            DEF ColdQuiet, QueueAscends, SealedBehindQueue, HandlesWrite, EventJob,
                Handling, Sealed, ColdPcs, SyncPcs
  <2> QED BY <2>1, <2>2
<1> QED BY <1>3, <1>4, <1>5, <1>6 DEF Bus

LEMMA OrderCold == Base /\ OrderInv /\ ColdStart => OrderInv'
<1> SUFFICES ASSUME Base, OrderInv, ColdStart PROVE OrderInv'
  OBVIOUS
<1>1. CASE StatPanic \/ PlanPanic
  BY <1>1, OrderHalt DEF StatPanic, PlanPanic, Panic
<1>2. CASE ~(StatPanic \/ PlanPanic)
  <2>1. events = <<>> /\ events' = <<>> /\ ~watching /\ pc \notin {"debounce"}
    BY <1>2, Frames
    DEF OrderInv, ColdQuiet, ColdPcs, ColdStart, ListDir, StatDir, PlanSegments, ColdSkip,
        ColdSync, ColdGone, ColdActive, ColdSealed, StartWatching
  <2>2. \/ pc' \in ColdPcs /\ watching' = watching
        \/ pc' \in SyncPcs /\ job'.caller = "cold" /\ watching' = watching
        \/ pc' = "idle"
    <3>1. CASE ColdSync
      <4>1. job \in Job /\ job.caller = "cold"
        BY <3>1 DEF ColdSync, Base, TypeInv, TypeOK, OriginInv, CallerKnown
      <4> QED BY <3>1, <4>1, Frames DEF ColdSync, Job, SyncPcs
    <3>2. CASE ColdSealed
      <4>1. job \in Job /\ job.caller = "cold"
        BY <3>2 DEF ColdSealed, Base, TypeInv, TypeOK, OriginInv, CallerKnown
      <4> QED BY <3>2, <4>1, Frames DEF ColdSealed, Job, SyncPcs
    <3>3. CASE ~ColdSync /\ ~ColdSealed
      BY <1>2, <3>3, Frames
      DEF ColdPcs, ColdStart, ListDir, StatDir, PlanSegments, ColdSkip, ColdGone,
          ColdActive, StartWatching, NextInLoop
    <3> QED BY <3>1, <3>2, <3>3
  <2>3. ~Handling'
    BY <2>2 DEF Handling, ColdPcs, SyncPcs
  <2> QED BY <2>1, <2>2, <2>3
          DEF OrderInv, ColdQuiet, QueueAscends, SealedBehindQueue, HandlesWrite, EventJob,
              ColdPcs, SyncPcs
<1> QED BY <1>1, <1>2

LEMMA OrderTracker == Base /\ OrderInv /\ Tracker => OrderInv'
<1> SUFFICES ASSUME Base, OrderInv, Tracker PROVE OrderInv'
  OBVIOUS
<1> USE DEF OrderInv
<1>1. job \in Job /\ segments \in [Seqs -> Row] /\ evt.seq \in Seqs
  BY DEF Base, TypeInv, TypeOK, Event
<1>2. CASE AbsorbEvent \/ AcceptEvent
  <2>1. /\ events \in Seq(Event) /\ events # <<>> /\ events' = Tail(events)
        /\ pc = "idle" /\ segments' = segments
    BY <1>2, Frames DEF AbsorbEvent, AcceptEvent, Base, TypeInv, TypeOK
  <2>2. /\ Len(events') = Len(events) - 1 /\ Len(events) \in Nat \ {0}
        /\ \A i \in 1 .. Len(events') : events'[i] = events[i + 1]
        /\ Head(events) = events[1]
    BY <2>1
  <2>3. \/ pc' = "idle"
        \/ pc' = "debounce" /\ evt' = Head(events)
    BY <1>2 DEF AbsorbEvent, AcceptEvent
  <2>4. \A i, j \in 1 .. Len(events') :
          i < j /\ Write(events'[i]) /\ Write(events'[j])
            => events'[i].seq <= events'[j].seq
    <3> SUFFICES ASSUME NEW i \in 1 .. Len(events'), NEW j \in 1 .. Len(events'), i < j,
                        Write(events'[i]), Write(events'[j])
                 PROVE  events'[i].seq <= events'[j].seq
      OBVIOUS
    <3>1. i + 1 \in 1 .. Len(events) /\ j + 1 \in 1 .. Len(events) /\ i + 1 < j + 1
      BY <2>2
    <3> QED BY <2>2, <3>1 DEF QueueAscends
  <2>5. Write(Head(events)) =>
          \A i \in 1 .. Len(events') : Write(events'[i]) => Head(events).seq <= events'[i].seq
    <3> SUFFICES ASSUME Write(Head(events)), NEW i \in 1 .. Len(events'), Write(events'[i])
                 PROVE  Head(events).seq <= events'[i].seq
      OBVIOUS
    <3>1. 1 \in 1 .. Len(events) /\ i + 1 \in 1 .. Len(events) /\ 1 < i + 1
      BY <2>2
    <3> QED BY <2>2, <3>1 DEF QueueAscends
  <2>6. \A r \in Seqs : Sealed(r) =>
          /\ \A i \in 1 .. Len(events') : Write(events'[i]) => r < events'[i].seq
          /\ Write(Head(events)) => r < Head(events).seq
    BY <2>2 DEF SealedBehindQueue
  <2> QED BY <2>1, <2>3, <2>4, <2>5, <2>6
          DEF ColdQuiet, QueueAscends, SealedBehindQueue, HandlesWrite, EventJob, Handling,
              Sealed, ColdPcs, SyncPcs
<1>3. ASSUME events' = events, pc' = "idle", \A r \in Seqs : Sealed(r)' => Sealed(r)
      PROVE  OrderInv'
  BY <1>3 DEF ColdQuiet, QueueAscends, SealedBehindQueue, HandlesWrite, EventJob, Handling,
              ColdPcs, SyncPcs
<1>4. CASE WakeRemoved
  <2>1. \A r \in Seqs : Sealed(r)' => Sealed(r)
    BY <1>1, <1>4 DEF WakeRemoved, DeleteSegment, NoRow, Sealed
  <2> QED BY <1>3, <1>4, <2>1 DEF WakeRemoved, GoIdle
<1>5. CASE RecordTail
  <2>1. job.seq \in Seqs
    BY <1>5 DEF RecordTail, Base, TypeInv, JobInRange, InWork
  <2>2. \A r \in Seqs : Sealed(r)' => Sealed(r)
    BY <1>1, <1>5, <2>1 DEF RecordTail, UpsertSegment, Sealed
  <2> QED BY <1>3, <1>5, <2>2 DEF RecordTail, GoIdle
<1>6. ASSUME UNCHANGED <<events, evt>>, Handling, Write(evt),
             \A r \in Seqs : Sealed(r)' => Sealed(r),
             \/ pc' \in {"sealing", "sealstat"}
             \/ pc' = "eventstat" /\ job'.seq = evt.seq
             \/ pc' \in {"open", "seal"} /\ job'.caller = "seal"
             \/ pc' = "open" /\ job'.caller = "event" /\ job'.seq = evt.seq
      PROVE  OrderInv'
  BY <1>6 DEF ColdQuiet, QueueAscends, SealedBehindQueue, HandlesWrite, EventJob, Handling,
              ColdPcs, SyncPcs
<1>7. CASE WakeChanged
  <2>1. \/ pc' = "sealing"
        \/ pc' = "eventstat" /\ job'.seq = evt.seq
    BY <1>7 DEF WakeChanged, NoJob
  <2> QED BY <1>6, <1>7, <2>1, Frames DEF WakeChanged, Handling, Write, Sealed
<1>8. pc \in {"sealing", "sealstat", "eventstat"} => Handling /\ Write(evt)
  BY DEF Handling, HandlesWrite
<1>9. CASE SealSkip \/ SealGone \/ SealExists
  <2>1. \A r \in Seqs : Sealed(r)' => Sealed(r)
    BY <1>1, <1>9, Frames
    DEF SealSkip, SealGone, SealExists, DeleteSegment, NoRow, Sealed
  <2>2. pc = "sealing" /\ UNCHANGED <<events, evt>> /\ pc' \in {"sealing", "sealstat"}
    BY <1>9, Frames DEF SealSkip, SealGone, SealExists, NextInLoop
  <2> QED BY <1>6, <1>8, <2>1, <2>2
<1>10. CASE SealLoopEnd
  <2>1. pc' = "eventstat" /\ job'.seq = evt.seq
    BY <1>10 DEF SealLoopEnd, NoJob
  <2> QED BY <1>6, <1>8, <1>10, <2>1, Frames DEF SealLoopEnd, Sealed
<1>11. CASE SealStat
  <2>1. job'.caller = "seal" /\ pc' \in {"open", "seal"}
    BY <1>1, <1>11 DEF SealStat, Job, Base, OriginInv, CallerKnown
  <2> QED BY <1>6, <1>8, <1>11, <2>1, Frames DEF SealStat, Sealed
<1>12. CASE EventStat
  <2>1. segments' = segments /\ events' = events /\ pc = "eventstat"
    BY <1>12, Frames DEF EventStat
  <2>2. CASE segments[job.seq].synced_offset >= StatLen(job.seq)
    BY <1>3, <1>12, <2>1, <2>2 DEF EventStat, GoIdle, Sealed
  <2>3. CASE ~(segments[job.seq].synced_offset >= StatLen(job.seq))
    <3>1. pc' = "open" /\ evt' = evt /\ job'.caller = "event" /\ job'.seq = evt.seq
      BY <1>1, <1>12, <2>3 DEF EventStat, Job, Base, OriginInv, CallerKnown, EventJob
    <3> QED BY <1>6, <1>8, <2>1, <3>1 DEF Sealed
  <2> QED BY <2>2, <2>3
<1> QED BY <1>2, <1>4, <1>5, <1>7, <1>9, <1>10, <1>11, <1>12 DEF Tracker

LEMMA OrderStep == Base /\ OrderInv /\ [Next]_vars => OrderInv'
<1>1. ASSUME OrderInv, CoolDown \/ UNCHANGED vars PROVE OrderInv'
  BY <1>1, Frames
  DEF CoolDown, vars, OrderInv, ColdQuiet, QueueAscends, SealedBehindQueue, HandlesWrite,
      EventJob, Handling, Sealed
<1>2. ASSUME OrderInv, Start PROVE OrderInv'
  BY <1>2, Frames
  DEF Start, OrderInv, ColdQuiet, QueueAscends, SealedBehindQueue, HandlesWrite, EventJob,
      Handling, Sealed, SyncPcs
<1>3. ASSUME Crash PROVE OrderInv'
  BY <1>3, OrderHalt DEF Crash
<1> QED BY <1>1, <1>2, <1>3, OrderProbe, OrderBus, OrderCold, OrderTracker DEF Next, Daemon

----------------------------------------------------------------------------
(* Layer 6.                                                                 *)

LEMMA AscendInit == Init => AscendInv
BY DEF Init, AscendInv, NoneLeftBelow, RowsExist, HashIsOfSeal, AnnouncedIsSealed, ColdWalk,
       SealWalk, Recorded, Sealed, Unfinished, NoRow, SyncPcs

(* Dropping rows breaks none of what the table alone must satisfy.          *)
LEMMA RowsDropped ==
  ASSUME AscendInv, UNCHANGED <<created, oldest>>,
         \A s \in Seqs : segments'[s] \in {segments[s], NoRow}
  PROVE  /\ NoneLeftBelow' /\ RowsExist' /\ HashIsOfSeal'
         /\ \A s \in Seqs : Unfinished(s)' => Unfinished(s)
         /\ \A s \in Seqs : Recorded(segments, s)' => Recorded(segments, s)
<1>1. \A s \in Seqs : /\ Sealed(s)' => Sealed(s)
                      /\ Unfinished(s)' => Unfinished(s)
                      /\ Recorded(segments, s)' => Recorded(segments, s)
  BY DEF Sealed, Unfinished, Recorded, NoRow
<1>2. NoneLeftBelow' /\ RowsExist'
  BY <1>1 DEF AscendInv, NoneLeftBelow, RowsExist, OnDisk
<1>3. HashIsOfSeal'
  BY DEF AscendInv, HashIsOfSeal, Sealed, NoRow
<1> QED BY <1>1, <1>2, <1>3

(* A step after which no walk over the segments is under way.               *)
LEMMA AscendBetween ==
  ASSUME AscendInv, UNCHANGED <<created, oldest>>,
         \A s \in Seqs : segments'[s] \in {segments[s], NoRow},
         pc' \in {"down", "list", "stat", "plan", "idle", "debounce", "eventstat"}
  PROVE  AscendInv'
BY RowsDropped DEF AscendInv, AnnouncedIsSealed, ColdWalk, SealWalk, SyncPcs

(* A new segment has no row yet.                                            *)
LEMMA AscendProbe == Base /\ AscendInv /\ Probe => AscendInv'
<1> SUFFICES ASSUME Base, AscendInv, Probe PROVE AscendInv'
  OBVIOUS
<1>1. UNCHANGED <<pc, job, scan, plan, segments>>
  BY Frames DEF Probe, CreateSegment, AppendRecord, UnlinkOldest
<1>2. created \in Int /\ oldest \in Int /\ created' \in Int /\ created <= created'
  BY DEF Base, TypeInv, TypeOK, Probe, CreateSegment, AppendRecord, UnlinkOldest
<1>3. \A r \in Seqs : Unfinished(r) /\ OnDisk(r)' => OnDisk(r)
  <2> SUFFICES ASSUME NEW r \in Seqs, Unfinished(r), OnDisk(r)' PROVE OnDisk(r)
    OBVIOUS
  <2>1. r < created /\ r \in Int
    BY DEF AscendInv, RowsExist, Recorded, Unfinished, Seqs
  <2> QED BY <1>2, <2>1 DEF OnDisk, Probe, CreateSegment, AppendRecord, UnlinkOldest
<1>4. RowsExist'
  BY <1>1, <1>2 DEF AscendInv, RowsExist, Seqs
<1>5. \A r \in Seqs : Unfinished(r)' <=> Unfinished(r)
  BY <1>1 DEF Unfinished
<1>6. NoneLeftBelow' /\ HashIsOfSeal' /\ AnnouncedIsSealed'
  BY <1>1, <1>3, <1>5 DEF AscendInv, NoneLeftBelow, HashIsOfSeal, AnnouncedIsSealed, Sealed
<1>7. ColdWalk'
  BY <1>1, <1>3, <1>5 DEF AscendInv, ColdWalk
<1>8. SealWalk'
  BY <1>1, <1>3, <1>5 DEF AscendInv, SealWalk
<1> QED BY <1>4, <1>6, <1>7, <1>8 DEF AscendInv

(* Moving on to the next segment: the one left behind is settled.           *)
LEMMA AscendNext ==
  ASSUME Base, AscendInv, UNCHANGED <<created, oldest, scan, plan>>, pc \notin {"stat", "plan"},
         \A s \in Seqs : segments'[s] \in {segments[s], NoRow},
         job.seq \in Seqs, job.caller \in {"cold", "seal"},
         pc \in {"cold", "measure", "sealing"} \cup SyncPcs,
         NextInLoop(job.caller, job.seq),
         OnDisk(job.seq) => \/ segments'[job.seq].state # "UNFINISHED"
                            \/ job.caller = "cold" /\ IsPresentMax(scan, job.seq)
  PROVE  AscendInv'
<1>1. /\ pc' = IF job.caller = "cold" THEN "cold" ELSE "sealing"
      /\ job'.seq = job.seq + 1 /\ job'.caller = job.caller
  BY DEF NextInLoop, NoJob
<1>2. \A r \in Seqs : r < job'.seq => r < job.seq \/ r = job.seq
  BY <1>1 DEF Seqs
<1>3. \A r \in Seqs : /\ Unfinished(r)' => Unfinished(r)
                      /\ Recorded(segments, r)' => Recorded(segments, r)
                      /\ OnDisk(r)' => OnDisk(r)
                      /\ OnDisk(r) /\ r = job.seq /\ Unfinished(r)'
                           => job.caller = "cold" /\ IsPresentMax(scan, r)
  BY RowsDropped DEF OnDisk, Unfinished
<1>4. CASE job.caller = "cold"
  <2>1. pc \in {"cold", "measure"} \/ (pc \in SyncPcs /\ job.caller = "cold")
    BY <1>4 DEF Base, OriginInv, CallerKnown
  <2>2. ColdWalk'
    BY <1>2, <1>3, <2>1 DEF AscendInv, ColdWalk
  <2> QED BY <1>1, <1>4, <2>2, RowsDropped
          DEF AscendInv, AnnouncedIsSealed, SealWalk, SyncPcs
<1>5. CASE job.caller = "seal"
  <2>1. pc = "sealing" \/ (pc \in SyncPcs /\ job.caller = "seal")
    BY <1>5 DEF Base, OriginInv, CallerKnown
  <2>2. SealWalk'
    BY <1>2, <1>5, <1>3, <2>1 DEF AscendInv, SealWalk
  <2> QED BY <1>1, <1>5, <2>2, RowsDropped
          DEF AscendInv, AnnouncedIsSealed, ColdWalk, SyncPcs
<1> QED BY <1>4, <1>5

LEMMA AscendBus == Base /\ AscendInv /\ Bus => AscendInv'
<1> SUFFICES ASSUME Base, AscendInv, Bus PROVE AscendInv'
  OBVIOUS
<1>1. UNCHANGED <<created, oldest, scan, plan>>
  BY Frames DEF Bus, OpenFile, PublishBatch, ReadError, FileSynced, SealRow, SendSeal
<1>2. pc \in SyncPcs /\ job \in Job /\ job.caller \in Callers /\ job.seq \in Seqs
  BY DEF Bus, OpenFile, PublishBatch, ReadError, FileSynced, SealRow, SendSeal, SyncPcs,
         Base, TypeInv, TypeOK, JobInRange, InWork, Job
<1>3. CASE OpenFile \/ PublishBatch \/ ReadError \/ FileSynced
  <2>1. /\ UNCHANGED segments /\ job'.caller = job.caller /\ job'.seq = job.seq
        /\ \/ pc' \in {"open", "send", "seal"}
           \/ pc' = "measure" /\ job.caller = "cold"
           \/ pc' = "record"
    BY <1>2, <1>3 DEF OpenFile, PublishBatch, ReadError, FileSynced, Job, Callers
  <2>2. NoneLeftBelow' /\ RowsExist' /\ HashIsOfSeal' /\ AnnouncedIsSealed'
    BY <1>1, <2>1, RowsDropped DEF AscendInv, AnnouncedIsSealed
  <2>3. ColdWalk'
    BY <1>1, <1>2, <2>1 DEF AscendInv, ColdWalk, SyncPcs, OnDisk, Unfinished
  <2>4. SealWalk'
    BY <1>1, <1>2, <2>1 DEF AscendInv, SealWalk, SyncPcs, OnDisk, Unfinished
  <2> QED BY <2>2, <2>3, <2>4 DEF AscendInv
<1>4. CASE SealRow
  <2>1. pc = "seal" /\ pc' = "announce" /\ UNCHANGED job
    BY <1>4 DEF SealRow
  <2>2. /\ segments'[job.seq].state = "SEALED"
        /\ \A r \in Seqs : r # job.seq => segments'[r] = segments[r]
    BY <1>2, <1>4, SealedRow DEF SealRow, Sealed, Base
  <2>3. \A r \in Seqs : /\ Unfinished(r)' => r # job.seq /\ Unfinished(r)
                        /\ Sealed(r)' => r = job.seq \/ Sealed(r)
                        /\ Recorded(segments, r)' => r = job.seq \/ Recorded(segments, r)
    BY <2>2 DEF Unfinished, Sealed, Recorded
  <2>4. \A r \in Seqs : r < job.seq /\ OnDisk(r) => ~Unfinished(r)
    <3>1. CASE job.caller = "cold"
      <4>1. IsListed(scan, job.seq)
        BY <1>2, <3>1 DEF Base, OriginInv, ColdListed
      <4>2. \A r \in Seqs : r < job.seq => ~IsPresentMax(scan, r)
        BY <1>2, <4>1 DEF IsPresentMax, Seqs
      <4> QED BY <1>2, <3>1, <4>2 DEF AscendInv, ColdWalk
    <3>2. CASE job.caller = "seal"
      BY <1>2, <3>2 DEF AscendInv, SealWalk
    <3>3. CASE job.caller = "event"
      <4>1. Sealed(job.seq)
        BY <2>1, <3>3 DEF Base, SealInv, SealIsFinal, FinalJob, EventKnowsRow, SyncPcs
      <4> QED BY <1>2, <4>1 DEF AscendInv, NoneLeftBelow
    <3> QED BY <1>2, <3>1, <3>2, <3>3 DEF Callers
  <2>5. NoneLeftBelow'
    BY <1>1, <2>3, <2>4 DEF AscendInv, NoneLeftBelow, OnDisk
  <2>6. RowsExist'
    <3>1. job.seq < created
      <4>1. Closed(job.seq)
        BY <1>2, <2>1 DEF Base, SealInv, SealIsFinal, FinalIsClosed
      <4> QED BY <1>2, <4>1 DEF Closed, Base, TypeInv, TypeOK, Seqs
    <3> QED BY <1>1, <2>3, <3>1 DEF AscendInv, RowsExist
  <2>7. HashIsOfSeal' /\ AnnouncedIsSealed'
    BY <2>1, <2>2 DEF AscendInv, HashIsOfSeal, AnnouncedIsSealed, Sealed
  <2>8. ColdWalk'
    <3>1. job.caller = "cold" => IsListed(scan, job.seq)
      BY <1>2 DEF Base, OriginInv, ColdListed
    <3> QED BY <1>1, <1>2, <2>1, <2>3, <3>1 DEF AscendInv, ColdWalk, OnDisk
  <2>9. SealWalk'
    BY <1>1, <1>2, <2>1, <2>3 DEF AscendInv, SealWalk, OnDisk
  <2> QED BY <2>5, <2>6, <2>7, <2>8, <2>9 DEF AscendInv
<1>5. CASE SendSeal
  <2>1. segments' = segments /\ Sealed(job.seq) /\ pc = "announce"
    BY <1>5 DEF SendSeal, AscendInv, AnnouncedIsSealed
  <2>2. CASE job.caller = "event"
    BY <1>1, <1>5, <2>1, <2>2, AscendBetween DEF SendSeal, Return, GoIdle
  <2>3. CASE job.caller # "event"
    <3>1. NextInLoop(job.caller, job.seq) /\ job.caller \in {"cold", "seal"}
      BY <1>2, <1>5, <2>3 DEF SendSeal, Return, Callers
    <3>2. segments'[job.seq].state # "UNFINISHED"
      BY <2>1 DEF Sealed
    <3> QED BY <1>1, <1>2, <2>1, <3>1, <3>2, AscendNext
  <2> QED BY <2>2, <2>3
<1> QED BY <1>3, <1>4, <1>5 DEF Bus

LEMMA AscendCold == Base /\ AscendInv /\ ColdStart => AscendInv'
<1> SUFFICES ASSUME Base, AscendInv, ColdStart PROVE AscendInv'
  OBVIOUS
<1>1. UNCHANGED <<created, oldest>>
  BY Frames DEF ColdStart, ListDir, StatDir, StatPanic, PlanSegments, PlanPanic, Panic,
     ColdSkip, ColdSync, ColdGone, ColdActive, ColdSealed, StartWatching
<1>2. /\ job \in Job /\ segments \in [Seqs -> Row]
      /\ pc \in {"cold", "measure"} => job.caller = "cold"
      /\ job.seq <= MaxSeq => job.seq \in Seqs
  BY BoundsAssumption DEF Base, TypeInv, TypeOK, OriginInv, CallerKnown, Job, Seqs
<1>3. CASE ListDir \/ StatDir \/ StatPanic \/ PlanPanic \/ StartWatching
  <2>1. /\ segments' = segments
        /\ pc' \in {"down", "list", "stat", "plan", "idle", "debounce", "eventstat"}
    BY <1>3, Frames DEF ListDir, StatDir, StatPanic, PlanPanic, Panic, Halt, StartWatching
  <2> QED BY <1>1, <2>1, AscendBetween
<1>4. CASE PlanSegments
  <2>1. /\ \A s \in Seqs : segments'[s] = IF IsListed(scan, s) THEN segments[s] ELSE NoRow
        /\ \A s \in Seqs : plan'[s] = PlanSegment(segments, scan, size, s)
    BY <1>2, <1>4 DEF PlanSegments, DropUnlisted
  <2>2. pc' = "cold" /\ job'.seq = 0 /\ scan' = scan
    BY <1>4 DEF PlanSegments, NextInLoop, NoJob
  <2>3. \A r \in Seqs : ~IsListed(scan, r) => ~Recorded(segments, r)' /\ ~Unfinished(r)'
    BY <2>1 DEF Recorded, Unfinished, NoRow
  <2>4. ASSUME NEW r \in Seqs, IsListed(scan, r), ~IsPresentMax(scan, r), plan'[r] = Skip
        PROVE  ~Unfinished(r)'
    <3>1. segments[r].sealed_hash = size[r] /\ segments'[r] = segments[r]
      BY <2>1, <2>4 DEF PlanSegment, Skip
    <3>2. size[r] # NoHash
      BY BoundsAssumption DEF Base, TypeInv, TypeOK, Sizes, NoHash
    <3> QED BY <3>1, <3>2 DEF AscendInv, HashIsOfSeal, Sealed, Unfinished
  <2>5. ColdWalk'
    <3>1. \A r \in Seqs : ~(r < 0)
      BY DEF Seqs
    <3> QED BY <2>2, <2>3, <2>4, <3>1 DEF ColdWalk
  <2>6. NoneLeftBelow' /\ RowsExist' /\ HashIsOfSeal'
    BY <1>1, <2>1, RowsDropped
  <2> QED BY <2>2, <2>5, <2>6 DEF AscendInv, AnnouncedIsSealed, SealWalk, SyncPcs
<1>5. CASE ColdSkip
  <2>1. /\ pc = "cold" /\ job.seq \in Seqs /\ job.caller = "cold" /\ segments' = segments
        /\ NextInLoop(job.caller, job.seq) /\ scan' = scan /\ plan' = plan
        /\ plan[job.seq] = Skip \/ ~OnDisk(job.seq)
    BY <1>2, <1>5 DEF ColdSkip, coldVars
  <2>2. OnDisk(job.seq) => \/ segments'[job.seq].state # "UNFINISHED"
                           \/ IsPresentMax(scan, job.seq)
    BY <2>1 DEF AscendInv, ColdWalk, Unfinished
  <2> QED BY <1>1, <2>1, <2>2, AscendNext
<1>6. CASE ColdGone
  <2>1. /\ pc = "measure" /\ job.seq \in Seqs /\ job.caller = "cold" /\ segments' = segments
        /\ NextInLoop(job.caller, job.seq) /\ scan' = scan /\ plan' = plan
        /\ ~OnDisk(job.seq)
    BY <1>2, <1>6 DEF ColdGone, coldVars, Base, TypeInv, JobInRange, InWork
  <2> QED BY <1>1, <2>1, AscendNext
<1>7. CASE ColdSync \/ ColdSealed
  <2>1. /\ pc \in {"cold", "measure"} /\ pc' \in {"open", "seal"}
        /\ job'.seq = job.seq /\ job'.caller = "cold" /\ UNCHANGED <<segments, scan, plan>>
    BY <1>2, <1>7 DEF ColdSync, ColdSealed, Job, coldVars
  <2>2. NoneLeftBelow' /\ RowsExist' /\ HashIsOfSeal'
    BY <1>1, <2>1, RowsDropped
  <2>3. ColdWalk'
    BY <1>1, <2>1 DEF AscendInv, ColdWalk, OnDisk, Unfinished
  <2> QED BY <2>1, <2>2, <2>3 DEF AscendInv, AnnouncedIsSealed, SealWalk
<1>8. CASE ColdActive
  <2>1. /\ pc = "measure" /\ job.seq \in Seqs /\ pc' = "cold"
        /\ IsPresentMax(scan, job.seq) /\ job'.seq = job.seq + 1
        /\ UNCHANGED <<scan, plan>>
    BY <1>8 DEF ColdActive, coldVars, Base, TypeInv, JobInRange, InWork, NextInLoop, NoJob
  <2>2. /\ \A r \in Seqs : r # job.seq => segments'[r] = segments[r]
        /\ segments'[job.seq].state = "UNFINISHED"
        /\ segments'[job.seq].sealed_hash = segments[job.seq].sealed_hash
    BY <1>2, <1>8, <2>1 DEF ColdActive, UpsertSegment, Row
  <2>3. \A r \in Seqs : /\ r # job.seq => (Unfinished(r)' <=> Unfinished(r))
                        /\ Sealed(r)' => r # job.seq /\ Sealed(r)
    BY <2>2 DEF Unfinished, Sealed
  <2>4. \A s \in Seqs : Sealed(s) => s <= job.seq
    <3>1. \A s \in Seqs : Sealed(s) => IsListed(scan, s)
      BY <2>1 DEF AscendInv, ColdWalk, Sealed, Recorded
    <3> QED BY <2>1, <3>1 DEF IsPresentMax
  <2>5. NoneLeftBelow'
    <3> SUFFICES ASSUME NEW s \in Seqs, NEW r \in Seqs, Sealed(s)', r < s, OnDisk(r)',
                        Unfinished(r)'
                 PROVE  FALSE
      BY DEF NoneLeftBelow
    <3>1. Sealed(s) /\ s <= job.seq /\ OnDisk(r)
      BY <1>1, <2>3, <2>4 DEF OnDisk
    <3>2. r # job.seq
      BY <2>1, <3>1 DEF Seqs
    <3> QED BY <2>3, <3>1, <3>2 DEF AscendInv, NoneLeftBelow
  <2>6. RowsExist'
    <3>1. job.seq < created
      BY <2>1 DEF Base, OriginInv, ScanExists, IsPresentMax
    <3> QED BY <1>1, <2>2, <3>1 DEF AscendInv, RowsExist, Recorded
  <2>7. HashIsOfSeal'
    <3>1. ~Sealed(job.seq)
      BY <2>1 DEF Base, SealInv, ActiveUnsealed
    <3> QED BY <2>2, <3>1 DEF AscendInv, HashIsOfSeal, Sealed
  <2>8. ColdWalk'
    <3>1. \A r \in Seqs : r < job.seq + 1 => r < job.seq \/ r = job.seq
      BY <2>1 DEF Seqs
    <3>2. IsListed(scan, job.seq)
      BY <2>1 DEF IsPresentMax
    <3>3. \A r \in Seqs : ~IsListed(scan, r) => ~Recorded(segments, r)'
      BY <2>1, <2>2, <3>2 DEF AscendInv, ColdWalk, Recorded
    <3> QED BY <1>1, <2>1, <2>3, <3>1, <3>3 DEF AscendInv, ColdWalk, OnDisk
  <2> QED BY <2>1, <2>5, <2>6, <2>7, <2>8
          DEF AscendInv, AnnouncedIsSealed, SealWalk, SyncPcs
<1> QED BY <1>3, <1>4, <1>5, <1>6, <1>7, <1>8 DEF ColdStart

LEMMA AscendTracker == Base /\ OrderInv /\ AscendInv /\ Tracker => AscendInv'
<1> SUFFICES ASSUME Base, OrderInv, AscendInv, Tracker PROVE AscendInv'
  OBVIOUS
<1>1. UNCHANGED <<created, oldest, scan, plan>>
  BY Frames DEF Tracker, AbsorbEvent, AcceptEvent, WakeRemoved, WakeChanged, SealSkip,
     SealGone, SealExists, SealStat, SealLoopEnd, EventStat, RecordTail
<1>2. /\ job \in Job /\ segments \in [Seqs -> Row] /\ evt.seq \in Seqs
      /\ job.seq \in Nat
      /\ pc \in {"sealing", "sealstat"} => job.caller = "seal"
      /\ pc \in {"eventstat", "record"} => job.caller = "event"
  BY DEF Base, TypeInv, TypeOK, OriginInv, CallerKnown, Job, Event
<1>3. CASE AbsorbEvent \/ AcceptEvent \/ WakeRemoved \/ SealLoopEnd
  <2>1. /\ \A s \in Seqs : segments'[s] \in {segments[s], NoRow}
        /\ pc' \in {"down", "list", "stat", "plan", "idle", "debounce", "eventstat"}
    BY <1>2, <1>3, Frames
    DEF AbsorbEvent, AcceptEvent, WakeRemoved, SealLoopEnd, GoIdle, DeleteSegment
  <2> QED BY <1>1, <2>1, AscendBetween
<1>4. CASE WakeChanged
  <2>1. UNCHANGED segments /\ pc' \in {"sealing", "eventstat"}
        /\ (pc' = "sealing" => job'.seq = 0)
    BY <1>4, Frames DEF WakeChanged, NoJob
  <2>2. NoneLeftBelow' /\ RowsExist' /\ HashIsOfSeal'
    BY <1>1, <2>1, RowsDropped
  <2>3. \A r \in Seqs : ~(r < 0)
    BY DEF Seqs
  <2> QED BY <2>1, <2>2, <2>3 DEF AscendInv, AnnouncedIsSealed, ColdWalk, SealWalk, SyncPcs
<1>5. CASE SealSkip \/ SealGone
  <2>1. pc = "sealing" /\ job.seq \in Seqs /\ job.caller = "seal" /\ NextInLoop("seal", job.seq)
    BY <1>2, <1>5, BoundsAssumption DEF SealSkip, SealGone, Seqs
  <2>2. /\ \A s \in Seqs : segments'[s] \in {segments[s], NoRow}
        /\ OnDisk(job.seq) => segments'[job.seq].state # "UNFINISHED"
    BY <1>2, <1>5, <2>1, Frames DEF SealSkip, SealGone, DeleteSegment, NoRow
  <2> QED BY <1>1, <2>1, <2>2, AscendNext
<1>6. CASE SealExists \/ SealStat
  <2>1. /\ pc \in {"sealing", "sealstat"} /\ pc' \in {"sealstat", "open", "seal"}
        /\ job'.seq = job.seq /\ job'.caller = "seal" /\ UNCHANGED segments
    BY <1>2, <1>6, Frames DEF SealExists, SealStat, Job
  <2>2. NoneLeftBelow' /\ RowsExist' /\ HashIsOfSeal'
    BY <1>1, <2>1, RowsDropped
  <2>3. SealWalk'
    BY <1>1, <2>1 DEF AscendInv, SealWalk, OnDisk, Unfinished
  <2> QED BY <2>1, <2>2, <2>3 DEF AscendInv, AnnouncedIsSealed, ColdWalk
<1>7. CASE EventStat
  <2>1. /\ UNCHANGED segments
        /\ pc' \in {"idle", "open"} /\ (pc' = "open" => job'.caller = "event")
    BY <1>2, <1>7, Frames DEF EventStat, GoIdle, Job
  <2>2. NoneLeftBelow' /\ RowsExist' /\ HashIsOfSeal'
    BY <1>1, <2>1, RowsDropped
  <2> QED BY <2>1, <2>2 DEF AscendInv, AnnouncedIsSealed, ColdWalk, SealWalk, SyncPcs
<1>8. CASE RecordTail
  <2>1. pc = "record" /\ pc' = "idle" /\ job.seq \in Seqs
    BY <1>8 DEF RecordTail, GoIdle, Base, TypeInv, JobInRange, InWork
  <2>2. /\ \A r \in Seqs : r # job.seq => segments'[r] = segments[r]
        /\ segments'[job.seq].state = "UNFINISHED"
        /\ segments'[job.seq].sealed_hash = segments[job.seq].sealed_hash
    BY <1>2, <1>8, <2>1 DEF RecordTail, UpsertSegment, Row
  <2>3. \A r \in Seqs : /\ r # job.seq => (Unfinished(r)' <=> Unfinished(r))
                        /\ Sealed(r)' => r # job.seq /\ Sealed(r)
    BY <2>2 DEF Unfinished, Sealed
  <2>4. \A s \in Seqs : Sealed(s) => s < job.seq
    BY <2>1 DEF OrderInv, SealedBehindQueue, HandlesWrite, EventJob, Handling
  <2>5. NoneLeftBelow'
    <3> SUFFICES ASSUME NEW s \in Seqs, NEW r \in Seqs, Sealed(s)', r < s, OnDisk(r)',
                        Unfinished(r)'
                 PROVE  FALSE
      BY DEF NoneLeftBelow
    <3>1. Sealed(s) /\ s < job.seq /\ OnDisk(r)
      BY <1>1, <2>3, <2>4 DEF OnDisk
    <3>2. r # job.seq
      BY <2>1, <3>1 DEF Seqs
    <3> QED BY <2>3, <3>1, <3>2 DEF AscendInv, NoneLeftBelow
  <2>6. RowsExist'
    <3>1. job.seq < created
      BY <2>1 DEF Base, OriginInv, EventsExist, OrderInv, EventJob, Handling
    <3> QED BY <1>1, <2>2, <3>1 DEF AscendInv, RowsExist, Recorded
  <2>7. HashIsOfSeal'
    <3>1. ~Sealed(job.seq)
      BY <2>1 DEF Base, SealInv, RecordIsActive
    <3> QED BY <2>2, <3>1 DEF AscendInv, HashIsOfSeal, Sealed
  <2> QED BY <2>1, <2>5, <2>6, <2>7
          DEF AscendInv, AnnouncedIsSealed, ColdWalk, SealWalk, SyncPcs
<1> QED BY <1>3, <1>4, <1>5, <1>6, <1>7, <1>8 DEF Tracker

LEMMA AscendStep == Base /\ OrderInv /\ AscendInv /\ [Next]_vars => AscendInv'
<1>1. ASSUME AscendInv, CoolDown \/ UNCHANGED vars PROVE AscendInv'
  BY <1>1, Frames
  DEF CoolDown, vars, AscendInv, NoneLeftBelow, RowsExist, HashIsOfSeal, AnnouncedIsSealed,
      ColdWalk, SealWalk, Sealed, Unfinished, Recorded, OnDisk
<1>2. ASSUME AscendInv, Start \/ Crash PROVE AscendInv'
  BY <1>2, AscendBetween, Frames DEF Start, Crash, Halt
<1> QED BY <1>1, <1>2, AscendProbe, AscendBus, AscendCold, AscendTracker DEF Next, Daemon

LEMMA OrderInvariant == Spec => [](Base /\ OrderInv /\ AscendInv)
<1> DEFINE I == Base /\ OrderInv /\ AscendInv
<1>1. Init => I
  BY TypeInit, CoverInit, OriginInit, SealInit, OrderInit, AscendInit DEF Base
<1>2. I /\ [Next]_vars => I'
  BY TypeStep, CoverStep, OriginStep, SealStep, OrderStep, AscendStep DEF Base
<1> HIDE DEF I
<1>3. Spec => []I
  BY <1>1, <1>2, PTL DEF Spec
<1> QED BY <1>3 DEF I

(* Sealing leaves no segment behind that the ledger has as UNFINISHED:       *)
(* rotations come in the order of the segments, and cold start (main.rs)    *)
(* and seal_lower_segments (tracker.rs) both walk upwards.                  *)
THEOREM NoneIsLeftBelow == Spec => []NoneLeftBelow
<1>1. AscendInv => NoneLeftBelow
  BY DEF AscendInv
<1> QED BY <1>1, OrderInvariant, PTL
=============================================================================
