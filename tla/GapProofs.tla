----------------------------- MODULE GapProofs -----------------------------
(***************************************************************************)
(* The gap server dismisses a query only for a file that is gone.  The      *)
(* layers GapInv adds to IInv, each preserved by the daemon and the probe   *)
(* (Next), by the receiver and by the server.                                *)
(***************************************************************************)
EXTENDS GapRepair, SegmentFeedProofs, WellFoundedInduction

----------------------------------------------------------------------------
(* What the server and the receiver leave alone.                            *)

Quiet == /\ UNCHANGED <<size, created, oldest, segments, dirty, put, sent, seals>>
         /\ UNCHANGED <<watching, events, cool, online, pc, evt, job, scan, plan, crashes>>

LEMMA ServerIsQuiet ==
  GapServer => /\ Quiet /\ UNCHANGED serving
               /\ \/ UNCHANGED faults
                  \/ faults < MaxFaults /\ faults' = faults + 1
<1>1. GapFrame => Quiet /\ UNCHANGED serving
  BY DEF GapFrame, Quiet, probeVars, ledgerVars, watchVars, coldVars
<1> QED BY <1>1 DEF GapServer, GapUnknown, GapLookup, GapGone, GapExists, GapOpen,
                    GapPublish, GapReadError, GapResent, Answer

LEMMA ReceiverIsQuiet == AskGap => Quiet /\ UNCHANGED <<serving, faults>>
BY DEF AskGap, Quiet, vars, probeVars, ledgerVars, wireVars, watchVars, coldVars, bounds

(* A fault elsewhere takes away premises of IInv and nothing else.          *)
LEMMA FaultKeeps ==
  ASSUME IInv, Quiet, faults' = faults \/ (faults < MaxFaults /\ faults' = faults + 1)
  PROVE  IInv'
<1> USE DEF Quiet
<1>1. faults \in 0 .. MaxFaults /\ MaxFaults \in Nat
  BY FaultsAssumption DEF IInv, TypeOK
<1>2. faults' \in 0 .. MaxFaults /\ (faults' = 0 => faults = 0)
  BY <1>1
<1>3. TypeOK'
  BY <1>2 DEF IInv, TypeOK
<1>4. JobInRange' /\ CoverInv'
  BY DEF IInv, JobInRange, CoverInv, LedgerCovered, PlanCovered, JobCovered, PlanOmitsNothing
<1>5. OriginInv'
  BY DEF IInv, OriginInv, CallerKnown, EventsExist, SealsBelow, ScanExists, ScanForgotten,
         PlanListed, ColdListed, Handling
<1>6. SealInv'
  BY DEF IInv, SealInv, SealedIsFinal, FinalIsClosed, EventKnowsRow, SealIsFinal,
         RecordIsActive, MeasuredFinal, ActiveUnsealed, FinalJob, Sealed, OnDisk, Closed
<1>7. AnnounceInv'
  BY <1>2 DEF IInv, AnnounceInv, SealsFinal, OpenedFinal, MeasureCovered, SealCovered,
              FinalJob, Sealed, OnDisk, Closed
<1>8. OrderInv'
  BY DEF IInv, OrderInv, ColdQuiet, QueueAscends, SealedBehindQueue, HandlesWrite, EventJob,
         Handling, Sealed
<1>9. AscendInv'
  BY DEF IInv, AscendInv, NoneLeftBelow, RowsExist, HashIsOfSeal, AnnouncedIsSealed, ColdWalk,
         SealWalk, Sealed, Unfinished, OnDisk
<1>10. FeedInv'
  BY DEF IInv, FeedInv, PutIsPrefix, EndBelow
<1> QED BY <1>3, <1>4, <1>5, <1>6, <1>7, <1>8, <1>9, <1>10 DEF IInv

LEMMA DaemonSteps == Live \/ Boot \/ Down => Next /\ UNCHANGED givenUp
BY DEF Live, Boot, Down, Synchronise

LEMMA SyncKeeps == IInv /\ [GapNext]_allVars => IInv'
<1>1. ASSUME IInv, Live \/ Boot \/ Down PROVE IInv'
  BY <1>1, DaemonSteps, IInvStep
<1>2. ASSUME IInv, AskGap PROVE IInv'
  BY <1>2, ReceiverIsQuiet, FaultKeeps
<1>3. ASSUME IInv, GapServer PROVE IInv'
  BY <1>3, ServerIsQuiet, FaultKeeps
<1>4. ASSUME IInv, UNCHANGED allVars PROVE IInv'
  BY <1>4, IInvStep DEF allVars
<1> QED BY <1>1, <1>2, <1>3, <1>4 DEF GapNext

----------------------------------------------------------------------------
(* What only grows.                                                         *)

LEMMA Frozen ==
  ASSUME Daemon \/ CoolDown \/ Start \/ Crash
  PROVE  UNCHANGED <<size, created, oldest>>
<1>1. CASE Bus
  BY <1>1, Frames DEF Bus, OpenFile, PublishBatch, ReadError, FileSynced, SealRow, SendSeal
<1>2. CASE ColdStart
  BY <1>2, Frames
  DEF ColdStart, ListDir, StatDir, StatPanic, PlanSegments, PlanPanic, Panic, ColdSkip,
      ColdSync, ColdGone, ColdActive, ColdSealed, StartWatching
<1>3. CASE Tracker
  BY <1>3, Frames
  DEF Tracker, AbsorbEvent, AcceptEvent, WakeRemoved, WakeChanged, SealSkip, SealGone,
      SealExists, SealStat, SealLoopEnd, EventStat, RecordTail
<1>4. CASE CoolDown \/ Start \/ Crash
  BY <1>4, Frames DEF CoolDown, Start, Crash
<1> QED BY <1>1, <1>2, <1>3, <1>4 DEF Daemon

(* Segments go in order and do not come back.                               *)
LEMMA GoneStays ==
  ASSUME TypeOK, [Next]_vars
  PROVE  oldest' = oldest \/ (Probe /\ oldest' = oldest + 1)
<1>1. CASE Probe
  BY <1>1 DEF Probe, CreateSegment, AppendRecord, UnlinkOldest
<1>2. CASE UNCHANGED vars
  BY <1>2 DEF vars, probeVars
<1> QED BY <1>1, <1>2, Frozen DEF Next

(* A seal is announced of the segment in hand, and none is taken back.      *)
LEMMA SealsGrow ==
  ASSUME [Next]_vars
  PROVE  \/ seals' = seals
         \/ SendSeal /\ seals' = seals \cup {<<job.seq, job.size>>}
<1>1. CASE Bus
  BY <1>1, Frames DEF Bus, OpenFile, PublishBatch, ReadError, FileSynced, SealRow, SendSeal
<1>2. CASE ColdStart
  BY <1>2, Frames
  DEF ColdStart, ListDir, StatDir, StatPanic, PlanSegments, PlanPanic, Panic, ColdSkip,
      ColdSync, ColdGone, ColdActive, ColdSealed, StartWatching
<1>3. CASE Tracker
  BY <1>3, Frames
  DEF Tracker, AbsorbEvent, AcceptEvent, WakeRemoved, WakeChanged, SealSkip, SealGone,
      SealExists, SealStat, SealLoopEnd, EventStat, RecordTail
<1>4. CASE CoolDown \/ Start \/ Crash \/ Probe \/ UNCHANGED vars
  BY <1>4, Frames DEF CoolDown, Start, Crash, Probe, CreateSegment, AppendRecord,
     UnlinkOldest, vars
<1> QED BY <1>1, <1>2, <1>3, <1>4 DEF Next, Daemon

----------------------------------------------------------------------------
(* The types of the server and of the receiver.                             *)

LEMMA NothingAsked == NoQuery \in [seq : Seqs \cup {NoSeg}, from : Sizes]
BY BoundsAssumption DEF NoQuery, Sizes

LEMMA NothingServed ==
  GapIdle \in [at : {"recv", "exists", "open", "send"}, off : Sizes, end : Sizes]
BY BoundsAssumption DEF GapIdle, Sizes

LEMMA QueryOfSegment == IInv /\ GapInv /\ query # NoQuery => query.seq \in Seqs
BY DEF GapInv, QueryIsAnnounced, IInv, TypeOK

(* A set of natural numbers has a least element, so FirstHole is a hole.    *)
LEMMA FirstHoleIsHole ==
  ASSUME IInv, GapTypeOK, NEW sig \in seals, Holes(sig) # {}
  PROVE  FirstHole(sig) \in Holes(sig) /\ FirstHole(sig) \in Sizes
<1>1. Holes(sig) \subseteq Sizes /\ Holes(sig) \subseteq Nat
  BY BoundsAssumption DEF IInv, TypeOK, Holes, Records, Sizes
<1> DEFINE R == OpToRel(<, Nat)
<1>2. IsWellFoundedOn(R, Nat)
  BY NatLessThanWellFounded, Zenon
<1> HIDE DEF R
<1>3. PICK m \in Holes(sig) : \A n \in Holes(sig) : ~ (<<n, m>> \in R)
  BY <1>1, <1>2, WFMin
<1>4. ASSUME NEW n \in Holes(sig) PROVE m <= n
  <2>1. n \in Nat /\ m \in Nat /\ <<n, m>> \in Nat \X Nat
    BY <1>1
  <2>2. <<n, m>> \in R <=> n < m
    BY <2>1, SMT DEF R, OpToRel
  <2>3. ~(n < m)
    BY <1>3, <2>2, Zenon
  <2> QED BY <2>1, <2>3, SMT
<1>5. FirstHole(sig) \in Holes(sig)
  BY <1>4, Zenon DEF FirstHole
<1> QED BY <1>1, <1>5

LEMMA GapTypesDaemon ==
  ASSUME GapTypeOK, IInv, IInv', Live \/ Boot \/ Down
  PROVE  GapTypeOK'
<1>1. serving' \in BOOLEAN
  BY DEF Live, Boot, Down, GapTypeOK
<1>2. query' \in [seq : Seqs \cup {NoSeg}, from : Sizes]
  BY NothingAsked DEF Live, Boot, Down, GapTypeOK
<1>3. gap' \in [at : {"recv", "exists", "open", "send"}, off : Sizes, end : Sizes]
  BY NothingServed DEF Live, Boot, Down, GapTypeOK
<1>4. /\ UNCHANGED givenUp
      /\ Accepted => Transport(job.seq, Records(job.off, job'.off))
      /\ ~Accepted => UNCHANGED <<got, losses>>
  BY DEF Live, Boot, Down, Synchronise
<1>5. CASE ~Accepted
  BY <1>1, <1>2, <1>3, <1>4, <1>5 DEF GapTypeOK
<1>6. CASE Accepted
  <2>1. job \in Job /\ job' \in Job
    BY DEF IInv, TypeOK
  <2>2. Records(job.off, job'.off) \subseteq Sizes
    BY <2>1, BoundsAssumption DEF Job, Records, Sizes
  <2>3. got' \in [Seqs -> SUBSET Sizes]
    BY <1>4, <1>6, <2>2 DEF Transport, GapTypeOK
  <2>4. faults \in 0 .. MaxFaults /\ MaxFaults \in Nat
    BY FaultsAssumption DEF IInv, TypeOK
  <2>5. losses' \in 0 .. MaxFaults
    BY <1>4, <1>6, <2>4 DEF Transport, GapTypeOK
  <2> QED BY <1>1, <1>2, <1>3, <1>4, <2>3, <2>5 DEF GapTypeOK
<1> QED BY <1>5, <1>6

LEMMA GapTypesServer ==
  ASSUME IInv, GapInv, GapServer
  PROVE  GapTypeOK'
<1> USE DEF GapTypeOK
<1>1. GapTypeOK /\ serving' = serving
  BY ServerIsQuiet DEF GapInv
<1>2. gap.at # "recv" \/ query # NoQuery => query.seq \in Seqs /\ query.from \in Sizes
  BY <1>1, QueryOfSegment DEF GapInv, QueryIsAnnounced
<1>3. CASE GapUnknown \/ GapGone
  <2>1. query.seq \in Seqs
    BY <1>2, <1>3 DEF GapUnknown, GapGone
  <2>2. /\ gap' = GapIdle /\ query' = NoQuery /\ UNCHANGED <<got, losses>>
        /\ givenUp' = givenUp \cup {query.seq}
    BY <1>3 DEF GapUnknown, GapGone, Answer, Dismiss
  <2> QED BY <1>1, <2>1, <2>2, NothingAsked, NothingServed
<1>4. CASE GapLookup \/ GapExists
  <2>1. /\ UNCHANGED <<query, got, givenUp, losses>>
        /\ \/ gap' = [gap EXCEPT !.at = "exists"]
           \/ gap' = [gap EXCEPT !.at = "open"]
    BY <1>4 DEF GapLookup, GapExists
  <2> QED BY <1>1, <2>1
<1>5. CASE GapOpen
  <2>1. query.seq \in Seqs /\ query.from \in Sizes
    BY <1>2, <1>5 DEF GapOpen
  <2>2. size[query.seq] \in Sizes
    BY <2>1 DEF IInv, TypeOK
  <2>3. /\ UNCHANGED <<query, got, givenUp, losses>>
        /\ gap' = [at |-> "send", off |-> query.from,
                   end |-> IF OnDisk(query.seq) THEN size[query.seq] ELSE query.from]
    BY <1>5 DEF GapOpen
  <2> QED BY <1>1, <2>1, <2>2, <2>3
<1>6. CASE GapPublish
  <2>1. query.seq \in Seqs
    BY <1>2, <1>6 DEF GapPublish
  <2>2. PICK n \in gap.off + 1 .. gap.end :
          /\ gap' = [gap EXCEPT !.off = n]
          /\ Transport(query.seq, Records(gap.off, n)) \/ UNCHANGED <<got, losses>>
    BY <1>6 DEF GapPublish
  <2>3. n \in Sizes /\ Records(gap.off, n) \subseteq Sizes
    BY <1>1, BoundsAssumption DEF Sizes, Records
  <2>4. gap' \in [at : {"recv", "exists", "open", "send"}, off : Sizes, end : Sizes]
    BY <1>1, <2>2, <2>3
  <2>5. got' \in [Seqs -> SUBSET Sizes]
    BY <1>1, <2>2, <2>3 DEF Transport
  <2>6. faults \in 0 .. MaxFaults /\ MaxFaults \in Nat
    BY FaultsAssumption DEF IInv, TypeOK
  <2>7. losses' \in 0 .. MaxFaults
    BY <1>1, <2>2, <2>6 DEF Transport
  <2>8. UNCHANGED <<query, givenUp>>
    BY <1>6 DEF GapPublish
  <2> QED BY <1>1, <2>4, <2>5, <2>7, <2>8
<1>7. CASE GapReadError
  <2>1. UNCHANGED <<query, got, givenUp, losses>> /\ gap' = [gap EXCEPT !.end = gap.off]
    BY <1>7 DEF GapReadError
  <2> QED BY <1>1, <2>1
<1>8. CASE GapResent
  <2>1. /\ gap' = GapIdle /\ query' = NoQuery /\ UNCHANGED <<got, losses, givenUp>>
    BY <1>8 DEF GapResent, Answer
  <2> QED BY <1>1, <2>1, NothingAsked, NothingServed
<1> QED BY <1>3, <1>4, <1>5, <1>6, <1>7, <1>8 DEF GapServer

LEMMA GapTypesReceiver ==
  ASSUME IInv, GapTypeOK, AskGap
  PROVE  GapTypeOK'
<1>1. PICK sig \in seals :
        /\ Holes(sig) # {}
        /\ query' = [seq |-> sig[1], from |-> FirstHole(sig)]
  BY DEF AskGap
<1>2. sig[1] \in Seqs /\ FirstHole(sig) \in Sizes
  BY <1>1, FirstHoleIsHole DEF IInv, TypeOK
<1> QED BY <1>1, <1>2 DEF AskGap, GapTypeOK

----------------------------------------------------------------------------
(* Removals.                                                                *)

LEMMA RemovedKeeps ==
  ASSUME IInv, RemovedIsGone, [Next]_vars
  PROVE  RemovedIsGone'
<1>1. /\ events \in Seq(Event) /\ oldest \in Int /\ evt \in Event
      /\ \A i \in 1 .. Len(events) : events[i] \in Event /\ events[i].seq \in Int
  <2>1. events \in Seq(Event) /\ oldest \in Int /\ evt \in Event
    BY DEF IInv, TypeOK
  <2>2. \A e \in Event : e.seq \in Int
    BY DEF Event, Seqs
  <2>3. \A i \in 1 .. Len(events) : events[i] \in Event
    BY <2>1
  <2> QED BY <2>1, <2>2, <2>3
<1>2. ASSUME oldest' = oldest,
             events' = events \/ events' = <<>>,
             Handling' => evt' = evt /\ Handling
      PROVE  RemovedIsGone'
  BY <1>2 DEF RemovedIsGone
<1>3. CASE Probe
  <2>1. UNCHANGED <<pc, evt, job>> /\ (Handling' <=> Handling)
    BY <1>3, Frames DEF Probe, CreateSegment, AppendRecord, UnlinkOldest, Handling
  <2>2. oldest' = oldest \/ oldest' = oldest + 1
    BY <1>3, GoneStays DEF IInv
  <2>3. Handling /\ evt.kind = "Removed" => evt.seq < oldest'
    BY <1>1, <2>2 DEF RemovedIsGone, Event, Seqs
  <2>4. PICK k \in Kinds, s \in Int :
          Notify(k, s) /\ (k = "Removed" => s = oldest /\ oldest' = oldest + 1)
    <3>1. created \in Int
      BY DEF IInv, TypeOK
    <3> QED BY <1>1, <1>3, <3>1 DEF Probe, CreateSegment, AppendRecord, UnlinkOldest, Kinds
  <2>5. CASE events' = events
    BY <1>1, <2>1, <2>2, <2>3, <2>5 DEF RemovedIsGone
  <2>6. CASE events' = Append(events, [kind |-> k, seq |-> s])
    <3>1. \A i \in 1 .. Len(events') :
            \/ i \in 1 .. Len(events) /\ events'[i] = events[i]
            \/ events'[i] = [kind |-> k, seq |-> s]
      BY <1>1, <2>6
    <3>2. ASSUME NEW i \in 1 .. Len(events'), events'[i].kind = "Removed"
          PROVE  events'[i].seq < oldest'
      <4>1. CASE i \in 1 .. Len(events) /\ events'[i] = events[i]
        BY <1>1, <2>2, <3>2, <4>1 DEF RemovedIsGone
      <4>2. CASE events'[i] = [kind |-> k, seq |-> s]
        BY <1>1, <2>4, <3>2, <4>2
      <4> QED BY <3>1, <4>1, <4>2
    <3> QED BY <2>1, <2>3, <3>2 DEF RemovedIsGone
  <2> QED BY <2>4, <2>5, <2>6 DEF Notify
<1>4. CASE AbsorbEvent \/ AcceptEvent
  <2>1. events # <<>> /\ events' = Tail(events) /\ oldest' = oldest /\ pc = "idle"
    BY <1>4, Frames DEF AbsorbEvent, AcceptEvent
  <2>2. /\ \A i \in 1 .. Len(events') : i + 1 \in 1 .. Len(events) /\ events'[i] = events[i + 1]
        /\ 1 \in 1 .. Len(events) /\ Head(events) = events[1]
    BY <1>1, <2>1
  <2>3. pc' = "idle" \/ (pc' = "debounce" /\ evt' = Head(events))
    BY <1>4 DEF AbsorbEvent, AcceptEvent
  <2>4. \A i \in 1 .. Len(events') : events'[i].kind = "Removed" => events'[i].seq < oldest
    BY <2>2 DEF RemovedIsGone
  <2>5. Head(events).kind = "Removed" => Head(events).seq < oldest
    BY <2>2 DEF RemovedIsGone
  <2>6. Handling' => evt' = Head(events)
    BY <2>3 DEF Handling, SyncPcs
  <2> QED BY <2>1, <2>4, <2>5, <2>6 DEF RemovedIsGone
<1>5. CASE Tracker /\ ~AbsorbEvent /\ ~AcceptEvent
  <2>1. events' = events /\ oldest' = oldest
    BY <1>5, Frames DEF Tracker, WakeRemoved, WakeChanged, SealSkip, SealGone, SealExists,
       SealStat, SealLoopEnd, EventStat, RecordTail
  <2>2. Handling
    BY <1>5 DEF Tracker, WakeRemoved, WakeChanged, SealSkip, SealGone, SealExists,
       SealStat, SealLoopEnd, EventStat, RecordTail, Handling
  <2>3. pc' = "idle" \/ evt' = evt
    BY <1>5 DEF Tracker, WakeRemoved, WakeChanged, SealSkip, SealGone, SealExists,
       SealStat, SealLoopEnd, EventStat, RecordTail, GoIdle, NextInLoop
  <2> QED BY <1>2, <2>1, <2>2, <2>3 DEF Handling, SyncPcs
<1>6. CASE Bus
  <2>1. events' = events /\ oldest' = oldest
    BY <1>6, Frames DEF Bus, OpenFile, PublishBatch, ReadError, FileSynced, SealRow, SendSeal
  <2>2. pc \in SyncPcs /\ job \in Job /\ job.caller \in Callers
    BY <1>6 DEF Bus, OpenFile, PublishBatch, ReadError, FileSynced, SealRow, SendSeal,
       SyncPcs, IInv, TypeOK, Job
  <2>3. CASE OpenFile \/ PublishBatch \/ ReadError
    <3>1. evt' = evt /\ pc' \in SyncPcs /\ job'.caller = job.caller
      BY <2>2, <2>3 DEF OpenFile, PublishBatch, ReadError, SyncPcs, Job
    <3> QED BY <1>2, <2>1, <2>2, <3>1 DEF Handling, SyncPcs
  <2>4. CASE FileSynced
    <3>1. /\ UNCHANGED <<job, evt>>
          /\ \/ pc' = "measure" /\ job.caller = "cold"
             \/ pc' = "seal"
             \/ pc' = "record" /\ job.caller = "event"
      BY <2>2, <2>4 DEF FileSynced, Callers
    <3> QED BY <1>2, <2>1, <2>2, <3>1 DEF Handling, SyncPcs
  <2>5. CASE SealRow
    BY <1>2, <2>1, <2>2, <2>5 DEF SealRow, Handling, SyncPcs
  <2>6. CASE SendSeal
    <3>1. \/ pc' = "idle"
          \/ pc' = "cold"
          \/ pc' = "sealing" /\ evt' = evt /\ job.caller # "cold"
      BY <2>2, <2>6 DEF SendSeal, Return, GoIdle, NextInLoop
    <3> QED BY <1>2, <2>1, <2>2, <3>1 DEF Handling, SyncPcs
  <2> QED BY <1>6, <2>3, <2>4, <2>5, <2>6 DEF Bus
<1>7. CASE ColdStart
  <2>1. oldest' = oldest /\ (events' = events \/ events' = <<>>)
    BY <1>7, Frames
    DEF ColdStart, ListDir, StatDir, StatPanic, PlanSegments, PlanPanic, Panic, Halt, ColdSkip,
        ColdSync, ColdGone, ColdActive, ColdSealed, StartWatching
  <2>2. ~Handling'
    <3>1. pc \in {"cold", "measure"} => job.caller = "cold" /\ job \in Job
      BY DEF IInv, OriginInv, CallerKnown, TypeOK
    <3>2. CASE ColdSync \/ ColdSealed
      BY <3>1, <3>2 DEF ColdSync, ColdSealed, Handling, SyncPcs, Job
    <3>3. CASE ColdStart /\ ~ColdSync /\ ~ColdSealed
      BY <3>3 DEF ColdStart, ListDir, StatDir, StatPanic, PlanSegments, PlanPanic, Panic, Halt,
         ColdSkip, ColdGone, ColdActive, StartWatching, NextInLoop, Handling, SyncPcs
    <3> QED BY <1>7, <3>2, <3>3
  <2> QED BY <1>2, <2>1, <2>2
<1>8. CASE CoolDown \/ UNCHANGED vars
  BY <1>2, <1>8, Frames DEF CoolDown, vars, Handling
<1>9. CASE Start
  BY <1>2, <1>9, Frames DEF Start, Handling, SyncPcs
<1>10. CASE Crash
  BY <1>2, <1>10, Frames DEF Crash, Halt, Handling, SyncPcs
<1> QED BY <1>3, <1>4, <1>5, <1>6, <1>7, <1>8, <1>9, <1>10 DEF Next, Daemon

----------------------------------------------------------------------------
(* Rows of announced segments.                                              *)

Announced == RemovedIsGone /\ AnnouncedIsListed /\ AnnouncedIsRecorded

(* A step that leaves the seals and the files alone need only keep rows.    *)
LEMMA AnnouncedFrame ==
  ASSUME Announced, UNCHANGED <<created, oldest, seals>>,
         pc' \in {"stat", "plan"} => pc' = pc /\ scan' = scan,
         \A s \in Seqs : OnDisk(s) /\ Recorded(segments, s) => Recorded(segments', s),
         seals \subseteq Seqs \X Sizes
  PROVE  AnnouncedIsListed' /\ AnnouncedIsRecorded'
<1>1. \A sig \in seals : sig[1] \in Seqs
  OBVIOUS
<1> QED BY <1>1 DEF Announced, AnnouncedIsListed, AnnouncedIsRecorded, OnDisk

LEMMA AnnouncedBus ==
  ASSUME IInv, Announced, Bus
  PROVE  AnnouncedIsListed' /\ AnnouncedIsRecorded'
<1>1. /\ segments \in [Seqs -> Row] /\ seals \subseteq Seqs \X Sizes
      /\ job.seq \in Seqs /\ job.caller \in Callers
  BY DEF Bus, OpenFile, PublishBatch, ReadError, FileSynced, SealRow, SendSeal, SyncPcs,
         IInv, TypeOK, JobInRange, InWork, Job
<1>2. UNCHANGED <<created, oldest, scan>>
  BY Frames DEF Bus, OpenFile, PublishBatch, ReadError, FileSynced, SealRow, SendSeal
<1>3. pc' \notin {"stat", "plan"}
  BY <1>1 DEF Bus, OpenFile, PublishBatch, ReadError, FileSynced, SealRow, SendSeal, Return,
              GoIdle, NextInLoop, Callers
<1>4. CASE OpenFile \/ PublishBatch \/ ReadError \/ FileSynced
  <2>1. UNCHANGED <<segments, seals>>
    BY <1>4, Frames DEF OpenFile, PublishBatch, ReadError, FileSynced
  <2> QED BY <1>1, <1>2, <1>3, <2>1, AnnouncedFrame
<1>5. CASE SealRow
  <2>1. seals' = seals /\ \A r \in Seqs : Recorded(segments, r) => Recorded(segments', r)
    BY <1>5, SealedRow, Frames DEF SealRow, Recorded, IInv, TypeInv
  <2> QED BY <1>1, <1>2, <1>3, <2>1, AnnouncedFrame
<1>6. CASE SendSeal
  <2>1. UNCHANGED segments /\ seals' \subseteq seals \cup {<<job.seq, job.size>>}
    BY <1>6 DEF SendSeal
  <2>2. Recorded(segments, job.seq)
    BY <1>6 DEF SendSeal, IInv, AscendInv, AnnouncedIsSealed, Sealed, Recorded
  <2> QED BY <1>2, <1>3, <2>1, <2>2
          DEF Announced, AnnouncedIsListed, AnnouncedIsRecorded, OnDisk
<1> QED BY <1>4, <1>5, <1>6 DEF Bus

LEMMA AnnouncedCold ==
  ASSUME IInv, Announced, ColdStart
  PROVE  AnnouncedIsListed' /\ AnnouncedIsRecorded'
<1>1. segments \in [Seqs -> Row] /\ seals \subseteq Seqs \X Sizes
  BY DEF IInv, TypeOK
<1>2. UNCHANGED <<size, created, oldest, seals>>
  BY Frames DEF ColdStart, ListDir, StatDir, StatPanic, PlanSegments, PlanPanic, Panic,
     ColdSkip, ColdSync, ColdGone, ColdActive, ColdSealed, StartWatching
<1>3. CASE ListDir
  <2>1. \A s \in Seqs : OnDisk(s) => IsListed(scan', s)
    BY <1>3 DEF ListDir, IsListed, Unlisted
  <2>2. UNCHANGED segments
    BY <1>3 DEF ListDir
  <2> QED BY <1>1, <1>2, <2>1, <2>2
          DEF Announced, AnnouncedIsListed, AnnouncedIsRecorded, OnDisk
<1>4. CASE StatDir
  <2>1. \A s \in Seqs : size[s] # Unlisted
    BY DEF IInv, TypeOK, Sizes, Unlisted
  <2>2. \A s \in Seqs : IsListed(scan, s) => IsListed(scan', s)
    BY <1>4, <2>1 DEF StatDir, IsListed
  <2>3. UNCHANGED segments /\ pc = "stat"
    BY <1>4 DEF StatDir
  <2> QED BY <1>1, <1>2, <2>2, <2>3
          DEF Announced, AnnouncedIsListed, AnnouncedIsRecorded, OnDisk
<1>5. CASE PlanSegments
  <2>1. pc = "plan" /\ pc' \notin {"stat", "plan"} /\ segments' = DropUnlisted(segments, scan)
    BY <1>5 DEF PlanSegments, NextInLoop
  <2>2. ASSUME NEW sig \in seals, OnDisk(sig[1]) PROVE Recorded(segments', sig[1])
    <3>1. sig[1] \in Seqs /\ IsListed(scan, sig[1])
      BY <1>1, <2>1, <2>2 DEF Announced, AnnouncedIsListed
    <3>2. Recorded(segments, sig[1])
      BY <2>2 DEF Announced, AnnouncedIsRecorded
    <3> QED BY <2>1, <3>1, <3>2 DEF DropUnlisted, Recorded
  <2> QED BY <1>2, <2>1, <2>2 DEF AnnouncedIsListed, AnnouncedIsRecorded, OnDisk
<1>6. CASE ColdActive
  <2>1. pc' \notin {"stat", "plan"} /\ segments' = UpsertSegment(segments, job.seq, job.off)
    BY <1>6 DEF ColdActive, NextInLoop
  <2>2. \A s \in Seqs : Recorded(segments, s) => Recorded(segments', s)
    BY <1>1, <2>1 DEF UpsertSegment, Recorded, Row
  <2> QED BY <1>1, <1>2, <2>1, <2>2, AnnouncedFrame
<1>7. CASE StatPanic \/ PlanPanic \/ ColdSkip \/ ColdSync \/ ColdGone \/ ColdSealed
           \/ StartWatching
  <2>1. UNCHANGED segments /\ pc' \notin {"stat", "plan"}
    BY <1>7, Frames DEF StatPanic, PlanPanic, Panic, Halt, ColdSkip, ColdSync, ColdGone,
       ColdSealed, StartWatching, NextInLoop
  <2> QED BY <1>1, <1>2, <2>1, AnnouncedFrame
<1> QED BY <1>3, <1>4, <1>5, <1>6, <1>7 DEF ColdStart

(* A row is deleted only when its file is gone.                             *)
LEMMA AnnouncedTracker ==
  ASSUME IInv, Announced, Tracker
  PROVE  AnnouncedIsListed' /\ AnnouncedIsRecorded'
<1>1. /\ segments \in [Seqs -> Row] /\ seals \subseteq Seqs \X Sizes
      /\ oldest \in Int /\ evt.seq \in Int
  BY DEF IInv, TypeOK, Event, Seqs
<1>2. UNCHANGED <<created, oldest, seals>>
  BY Frames DEF Tracker, AbsorbEvent, AcceptEvent, WakeRemoved, WakeChanged, SealSkip,
     SealGone, SealExists, SealStat, SealLoopEnd, EventStat, RecordTail
<1>3. pc' \notin {"stat", "plan"}
  BY DEF Tracker, AbsorbEvent, AcceptEvent, WakeRemoved, WakeChanged, SealSkip, SealGone,
     SealExists, SealStat, SealLoopEnd, EventStat, RecordTail, NextInLoop, GoIdle
<1>4. ASSUME NEW r \in Int, ~OnDisk(r), segments' = DeleteSegment(segments, r)
      PROVE  AnnouncedIsListed' /\ AnnouncedIsRecorded'
  <2>1. \A s \in Seqs : OnDisk(s) /\ Recorded(segments, s) => Recorded(segments', s)
    BY <1>1, <1>4 DEF DeleteSegment, Recorded
  <2> QED BY <1>1, <1>2, <1>3, <2>1, AnnouncedFrame
<1>5. CASE WakeRemoved
  <2>1. evt.seq < oldest
    BY <1>5 DEF WakeRemoved, Announced, RemovedIsGone, Handling
  <2> QED BY <1>1, <1>4, <1>5, <2>1 DEF WakeRemoved, OnDisk
<1>6. CASE SealGone
  <2>1. job.seq \in Int
    BY <1>6 DEF IInv, TypeOK, Job
  <2> QED BY <1>4, <1>6, <2>1 DEF SealGone
<1>7. CASE RecordTail
  <2>1. \A s \in Seqs : Recorded(segments, s) => Recorded(segments', s)
    BY <1>1, <1>7 DEF RecordTail, UpsertSegment, Recorded, Row
  <2> QED BY <1>1, <1>2, <1>3, <2>1, AnnouncedFrame
<1>8. CASE Tracker /\ ~WakeRemoved /\ ~SealGone /\ ~RecordTail
  <2>1. UNCHANGED segments
    BY <1>8, Frames DEF Tracker, AbsorbEvent, AcceptEvent, WakeChanged, SealSkip,
       SealExists, SealStat, SealLoopEnd, EventStat
  <2> QED BY <1>1, <1>2, <1>3, <2>1, AnnouncedFrame
<1> QED BY <1>5, <1>6, <1>7, <1>8

LEMMA AnnouncedKeeps ==
  ASSUME IInv, Announced, [Next]_vars
  PROVE  Announced'
<1>1. RemovedIsGone'
  BY RemovedKeeps DEF Announced
<1>2. seals \subseteq Seqs \X Sizes
  BY DEF IInv, TypeOK
<1>3. CASE Probe
  <2>1. UNCHANGED <<seals, segments, scan, pc>>
    BY <1>3, Frames DEF Probe, CreateSegment, AppendRecord, UnlinkOldest
  <2>2. \A sig \in seals : Closed(sig[1]) /\ sig[1] \in Int
    BY <1>2 DEF IInv, AnnounceInv, SealsFinal, Seqs
  <2>3. created \in Int /\ oldest \in Int /\ (oldest' = oldest \/ oldest' = oldest + 1)
    BY <1>3, GoneStays DEF IInv, TypeOK
  <2>4. \A sig \in seals : OnDisk(sig[1])' => OnDisk(sig[1])
    BY <2>1, <2>2, <2>3 DEF OnDisk, Closed
  <2>5. AnnouncedIsListed' /\ AnnouncedIsRecorded'
    BY <2>1, <2>4 DEF Announced, AnnouncedIsListed, AnnouncedIsRecorded
  <2> QED BY <1>1, <2>5 DEF Announced
<1>4. CASE CoolDown \/ Start \/ Crash \/ UNCHANGED vars
  <2>1. /\ UNCHANGED <<created, oldest, seals, segments>>
        /\ pc' \in {"stat", "plan"} => pc' = pc /\ scan' = scan
    BY <1>4, Frames DEF CoolDown, Start, Crash, Halt, vars
  <2> QED BY <1>1, <1>2, <2>1, AnnouncedFrame DEF Announced
<1> QED BY <1>1, <1>3, <1>4, AnnouncedBus, AnnouncedCold, AnnouncedTracker
        DEF Announced, Next, Daemon

(* The receiver and the server touch nothing of it.                         *)
LEMMA AnnouncedQuiet == Announced /\ Quiet => Announced'
BY DEF Announced, Quiet, RemovedIsGone, AnnouncedIsListed, AnnouncedIsRecorded, Handling,
       OnDisk

----------------------------------------------------------------------------
(* Queries and dismissals.                                                  *)

LEMMA QueryKeeps ==
  ASSUME IInv, GapInv, [GapNext]_allVars
  PROVE  QueryIsAnnounced'
<1> USE DEF GapInv, QueryIsAnnounced
<1>1. GapIdle.at = "recv"
  BY DEF GapIdle
<1>2. CASE Live \/ Boot \/ Down
  <2>1. seals \subseteq seals'
    BY <1>2, DaemonSteps, SealsGrow
  <2>2. (query' = query /\ gap' = gap) \/ (query' = NoQuery /\ gap' = GapIdle)
    BY <1>2 DEF Live, Boot, Down
  <2> QED BY <1>1, <2>1, <2>2
<1>3. CASE AskGap
  <2>1. seals' = seals /\ gap' = gap /\ gap.at = "recv"
    BY <1>3, ReceiverIsQuiet DEF AskGap, Quiet
  <2>2. \E sig \in seals : query' = [seq |-> sig[1], from |-> FirstHole(sig)]
    BY <1>3 DEF AskGap
  <2>3. \E sig \in seals : sig[1] = query'.seq
    BY <2>2
  <2> QED BY <2>1, <2>3
<1>4. CASE GapServer
  <2>1. seals' = seals
    BY <1>4, ServerIsQuiet DEF Quiet
  <2>2. \/ query' = NoQuery /\ gap' = GapIdle
        \/ query' = query /\ query # NoQuery
    BY <1>4 DEF GapServer, GapUnknown, GapLookup, GapGone, GapExists, GapOpen, GapPublish,
       GapReadError, GapResent, Answer
  <2> QED BY <1>1, <2>1, <2>2
<1>5. CASE UNCHANGED allVars
  BY <1>5 DEF allVars, gapVars, vars, wireVars
<1> QED BY <1>2, <1>3, <1>4, <1>5 DEF GapNext

(* Of a segment that was announced, no row and no file mean the same.       *)
LEMMA DismissalIsRight ==
  ASSUME IInv, GapInv, GapUnknown \/ GapGone
  PROVE  query.seq < oldest
<1>1. query # NoQuery /\ (~Recorded(segments, query.seq) \/ ~OnDisk(query.seq))
  BY DEF GapUnknown, GapGone, GapInv, QueryIsAnnounced
<1>2. PICK sig \in seals : sig[1] = query.seq
  BY <1>1 DEF GapInv, QueryIsAnnounced
<1>3. ~OnDisk(query.seq)
  BY <1>1, <1>2 DEF GapInv, AnnouncedIsRecorded
<1>4. Closed(query.seq) /\ query.seq \in Int /\ created \in Int /\ oldest \in Int
  BY <1>2 DEF IInv, AnnounceInv, SealsFinal, TypeOK, Seqs
<1> QED BY <1>3, <1>4 DEF OnDisk, Closed

LEMMA GivenUpKeeps ==
  ASSUME IInv, GapInv, [GapNext]_allVars
  PROVE  GivenUpIsGone'
<1>1. givenUp \subseteq Int /\ oldest \in Int
  BY DEF GapInv, GapTypeOK, Seqs, IInv, TypeOK
<1>2. CASE Live \/ Boot \/ Down
  <2>1. oldest' = oldest \/ oldest' = oldest + 1
    BY <1>2, DaemonSteps, GoneStays DEF IInv
  <2>2. givenUp' = givenUp
    BY <1>2, DaemonSteps
  <2>3. \A s \in givenUp : s \in Int /\ s < oldest
    BY <1>1 DEF GapInv, GivenUpIsGone
  <2>4. \A s \in givenUp : s < oldest'
    BY <1>1, <2>1, <2>3
  <2> QED BY <2>2, <2>4 DEF GivenUpIsGone
<1>3. CASE AskGap
  BY <1>3, ReceiverIsQuiet DEF Quiet, AskGap, GapInv, GivenUpIsGone
<1>4. CASE GapUnknown \/ GapGone
  <2>1. givenUp' = givenUp \cup {query.seq} /\ oldest' = oldest
    BY <1>4, ServerIsQuiet DEF GapUnknown, GapGone, Dismiss, GapServer, Quiet
  <2> QED BY <1>4, <2>1, DismissalIsRight DEF GapInv, GivenUpIsGone
<1>5. CASE GapServer /\ ~GapUnknown /\ ~GapGone
  <2>1. givenUp' = givenUp /\ oldest' = oldest
    BY <1>5, ServerIsQuiet DEF GapServer, GapLookup, GapExists, GapOpen, GapPublish,
       GapReadError, GapResent, Quiet
  <2> QED BY <2>1 DEF GapInv, GivenUpIsGone
<1>6. CASE UNCHANGED allVars
  BY <1>6 DEF allVars, gapVars, vars, probeVars, GapInv, GivenUpIsGone
<1> QED BY <1>2, <1>3, <1>4, <1>5, <1>6 DEF GapNext, GapServer

----------------------------------------------------------------------------
(* The invariant.                                                           *)

LEMMA GapStarts == GapInit => GapInv
<1> SUFFICES ASSUME GapInit PROVE GapInv
  OBVIOUS
<1>1. IInv
  BY IInvInit DEF GapInit
<1>2. 0 \in 0 .. MaxFaults /\ [s \in Seqs |-> {}] \in [Seqs -> SUBSET Sizes]
  BY FaultsAssumption
<1>3. GapTypeOK
  BY <1>2, NothingAsked, NothingServed DEF GapInit, GapTypeOK
<1>4. Announced
  BY DEF GapInit, Init, Announced, RemovedIsGone, AnnouncedIsListed, AnnouncedIsRecorded,
         Handling, SyncPcs
<1>5. QueryIsAnnounced /\ GivenUpIsGone
  BY DEF GapInit, QueryIsAnnounced, GivenUpIsGone, GapIdle
<1> QED BY <1>1, <1>3, <1>4, <1>5 DEF GapInv, Announced

LEMMA GapKeeps == GapInv /\ [GapNext]_allVars => GapInv'
<1> SUFFICES ASSUME GapInv, [GapNext]_allVars PROVE GapInv'
  OBVIOUS
<1>1. IInv /\ IInv' /\ GapTypeOK /\ Announced
  BY SyncKeeps DEF GapInv, Announced
<1>2. GapTypeOK'
  <2>1. CASE UNCHANGED allVars
    BY <1>1, <2>1 DEF allVars, gapVars, GapTypeOK
  <2> QED BY <1>1, <2>1, GapTypesDaemon, GapTypesServer, GapTypesReceiver DEF GapNext
<1>3. Announced'
  <2>1. CASE Live \/ Boot \/ Down
    BY <1>1, <2>1, DaemonSteps, AnnouncedKeeps
  <2>2. CASE AskGap \/ GapServer
    BY <1>1, <2>2, ReceiverIsQuiet, ServerIsQuiet, AnnouncedQuiet
  <2>3. CASE UNCHANGED allVars
    BY <1>1, <2>3, AnnouncedKeeps DEF allVars
  <2> QED BY <2>1, <2>2, <2>3 DEF GapNext
<1> QED BY <1>1, <1>2, <1>3, QueryKeeps, GivenUpKeeps DEF GapInv, Announced

(* With the gap server and any receiver beside it, everything shown of the  *)
(* daemon still holds, every announced segment that is on disk has its row, *)
(* and whatever was given up is gone.                                       *)
THEOREM GapInvariant == GapSpec => []GapInv
<1>1. QED
  BY GapStarts, GapKeeps, PTL DEF GapSpec

(* "unknown" and "gone" are said only of a segment whose file is gone and   *)
(* stays away: across restarts, unlinks and the two places the answer is    *)
(* read from, the receiver never gives up a segment it could still get.     *)
THEOREM DismissedIsGone == GapSpec => []GivesUpRightly
<1>1. ASSUME GapInv PROVE GivesUpRightly
  <2>1. givenUp \subseteq Int /\ oldest \in Int
    BY <1>1 DEF GapInv, GapTypeOK, Seqs, IInv, TypeOK
  <2> QED BY <1>1, <2>1 DEF GapInv, GivenUpIsGone, GivesUpRightly, OnDisk
<1> QED BY <1>1, GapInvariant, PTL
=============================================================================
