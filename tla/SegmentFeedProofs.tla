-------------------------- MODULE SegmentFeedProofs --------------------------
(***************************************************************************)
(* SegmentSync implements SegmentFeed: layer 7 of the invariant, and the    *)
(* step simulation; and the invariant as a whole.                          *)
(***************************************************************************)
EXTENDS SegmentOrderProofs

LEMMA FeedInit == Init => FeedInv
BY BoundsAssumption DEF Init, FeedInv, PutIsPrefix, EndBelow, Records

(* The records below n and the batch that starts at or below n.             *)
LEMMA PrefixGrows ==
  ASSUME NEW m \in Nat, NEW a \in Nat, NEW n \in Nat,
         Records(0, a) \subseteq Records(0, m), a < n
  PROVE  Records(0, m) \cup Records(a, n) = Records(0, IF m < n THEN n ELSE m)
<1>1. a <= m
  <2>1. CASE a = 0
    BY <2>1
  <2>2. CASE a > 0
    BY <2>2 DEF Records
  <2> QED BY <2>1, <2>2
<1> QED BY <1>1 DEF Records

(* The steps that leave the put records and the files alone.                *)
LEMMA FeedQuiet ==
  ASSUME FeedInv, UNCHANGED <<size, put>>, pc' = "send" => pc = "send" /\ UNCHANGED job
  PROVE  FeedInv'
BY DEF FeedInv, PutIsPrefix, EndBelow

LEMMA FeedProbe == TypeInv /\ FeedInv /\ Probe => FeedInv'
<1> SUFFICES ASSUME TypeInv, FeedInv, Probe PROVE FeedInv'
  OBVIOUS
<1>1. UNCHANGED <<pc, job, put>>
  BY Frames DEF Probe, CreateSegment, AppendRecord, UnlinkOldest
<1>2. /\ \A s \in Seqs : size[s] \in Nat /\ size'[s] \in Nat /\ size[s] <= size'[s]
      /\ \A s \in Seqs : \A n \in 0 .. size[s] : n \in 0 .. size'[s]
  <2>1. size \in [Seqs -> Nat] /\ created - 1 \in Int
    BY BoundsAssumption DEF TypeInv, TypeOK, Sizes
  <2> QED BY <2>1 DEF Probe, CreateSegment, AppendRecord, UnlinkOldest
<1>3. PutIsPrefix'
  BY <1>1, <1>2 DEF FeedInv, PutIsPrefix, Records
<1>4. EndBelow'
  <2>1. pc = "send" => job \in Job /\ job.seq \in Seqs /\ job.end \in Int
    BY DEF TypeInv, TypeOK, JobInRange, InWork, SyncPcs, Job, Sizes
  <2> QED BY <1>1, <1>2, <2>1 DEF FeedInv, EndBelow
<1> QED BY <1>3, <1>4 DEF FeedInv

(* A batch continues what was handed over and stays within the file.        *)
LEMMA BatchIsPrefix ==
  ASSUME TypeInv, CoverInv, FeedInv, PublishBatch
  PROVE  /\ job.seq \in Seqs
         /\ \E n \in 1 .. size[job.seq] :
              /\ put[job.seq] \subseteq Records(0, n)
              /\ put' = [put EXCEPT ![job.seq] = Records(0, n)]
<1>1. /\ pc = "send" /\ job \in Job /\ job.seq \in Seqs /\ size[job.seq] \in Nat
      /\ job.off \in Nat /\ job.end \in Nat /\ job.end <= size[job.seq]
  BY BoundsAssumption
  DEF PublishBatch, TypeInv, TypeOK, JobInRange, InWork, SyncPcs, Job, Sizes, FeedInv,
      EndBelow
<1>2. PICK n \in job.off + 1 .. job.end :
        put' = [put EXCEPT ![job.seq] = @ \cup Records(job.off, n)]
  BY DEF PublishBatch
<1>3. PICK m \in 0 .. size[job.seq] : put[job.seq] = Records(0, m)
  BY <1>1 DEF FeedInv, PutIsPrefix
<1>4. Records(0, job.off) \subseteq Records(0, m)
  BY <1>1, <1>3 DEF CoverInv, JobCovered, SyncPcs
<1> DEFINE k == IF m < n THEN n ELSE m
<1>5. Records(0, m) \cup Records(job.off, n) = Records(0, k)
  <2>1. m \in Nat /\ n \in Nat /\ job.off < n
    BY <1>1
  <2> QED BY <1>1, <1>4, <2>1, PrefixGrows
<1>6. k \in 1 .. size[job.seq]
  BY <1>1
<1>7. put' = [put EXCEPT ![job.seq] = Records(0, k)] /\ put[job.seq] \subseteq Records(0, k)
  BY <1>2, <1>3, <1>5
<1> QED BY <1>1, <1>6, <1>7

LEMMA FeedBus == TypeInv /\ CoverInv /\ FeedInv /\ Bus => FeedInv'
<1> SUFFICES ASSUME TypeInv, CoverInv, FeedInv, Bus PROVE FeedInv'
  OBVIOUS
<1>1. UNCHANGED <<size, created, oldest>> /\ job \in Job
  BY Frames DEF Bus, OpenFile, PublishBatch, ReadError, FileSynced, SealRow, SendSeal,
     TypeInv, TypeOK
<1>2. CASE PublishBatch
  <2>1. PICK n \in 1 .. size[job.seq] : put' = [put EXCEPT ![job.seq] = Records(0, n)]
    BY <1>2, BatchIsPrefix
  <2>2. PutIsPrefix'
    <3>1. put \in [Seqs -> SUBSET Sizes] /\ n \in 0 .. size[job.seq]
      BY DEF TypeInv, TypeOK
    <3> QED BY <1>1, <2>1, <3>1 DEF FeedInv, PutIsPrefix
  <2>3. pc = "send" /\ job.off < job.end /\ job'.end = job.end /\ job'.seq = job.seq
    BY <1>1, <1>2 DEF PublishBatch, Job
  <2> QED BY <1>1, <2>2, <2>3 DEF FeedInv, EndBelow
<1>3. CASE OpenFile
  <2>1. /\ job'.end = (IF OnDisk(job.seq) THEN size[job.seq] ELSE job.off)
        /\ job'.off = job.off /\ job'.seq = job.seq /\ put' = put
    BY <1>1, <1>3, Frames DEF OpenFile, Job
  <2>2. job.off \in Nat /\ size[job.seq] \in Nat
    BY <1>3, BoundsAssumption DEF OpenFile, TypeInv, TypeOK, JobInRange, InWork, SyncPcs,
       Job, Sizes
  <2> QED BY <1>1, <2>1, <2>2 DEF FeedInv, PutIsPrefix, EndBelow
<1>4. CASE ReadError
  <2>1. job'.end = job.off /\ job'.off = job.off /\ put' = put /\ job.off \in Nat
    BY <1>1, <1>4, BoundsAssumption, Frames DEF ReadError, Job, Sizes
  <2> QED BY <1>1, <2>1 DEF FeedInv, PutIsPrefix, EndBelow
<1>5. CASE FileSynced \/ SealRow \/ SendSeal
  <2>1. put' = put /\ pc' # "send"
    <3>1. job.caller \in Callers
      BY <1>1 DEF Job
    <3> QED BY <1>5, <3>1, Frames
            DEF FileSynced, SealRow, SendSeal, Return, GoIdle, NextInLoop, Callers
  <2> QED BY <1>1, <2>1, FeedQuiet
<1> QED BY <1>2, <1>3, <1>4, <1>5 DEF Bus

LEMMA FeedStep == TypeInv /\ CoverInv /\ FeedInv /\ [Next]_vars => FeedInv'
<1> SUFFICES ASSUME TypeInv, CoverInv, FeedInv, [Next]_vars PROVE FeedInv'
  OBVIOUS
<1>1. CASE ColdStart
  <2>1. UNCHANGED <<size, put>> /\ pc' # "send"
    BY <1>1, Frames
    DEF ColdStart, ListDir, StatDir, StatPanic, PlanSegments, PlanPanic, Panic, Halt,
        ColdSkip, ColdSync, ColdGone, ColdActive, ColdSealed, StartWatching, NextInLoop
  <2> QED BY <2>1, FeedQuiet
<1>2. CASE Tracker
  <2>1. UNCHANGED <<size, put>> /\ pc' # "send"
    BY <1>2, Frames
    DEF Tracker, AbsorbEvent, AcceptEvent, WakeRemoved, WakeChanged, SealSkip, SealGone,
        SealExists, SealStat, SealLoopEnd, EventStat, RecordTail, GoIdle, NextInLoop
  <2> QED BY <2>1, FeedQuiet
<1>3. CASE CoolDown \/ Start \/ Crash \/ UNCHANGED vars
  <2>1. UNCHANGED <<size, put>> /\ (pc' = "send" => pc = "send" /\ UNCHANGED job)
    BY <1>3, Frames DEF CoolDown, Start, Crash, Halt, vars
  <2> QED BY <2>1, FeedQuiet
<1> QED BY <1>1, <1>2, <1>3, FeedProbe, FeedBus DEF Next, Daemon

----------------------------------------------------------------------------
(* The simulation.                                                          *)

Strong == TypeInv /\ CoverInv /\ OriginInv /\ SealInv /\ AnnounceInv /\ FeedInv

LEMMA FeedMapsInit == Init => Feed!Init
BY DEF Init, Feed!Init, Seqs, Feed!Seqs

LEMMA FeedMapsProbe == Strong /\ Probe => Feed!Environment
<1> SUFFICES ASSUME Strong, Probe PROVE Feed!Environment
  OBVIOUS
<1>1. UNCHANGED <<put, seals, faults>>
  BY Frames DEF Probe, CreateSegment, AppendRecord, UnlinkOldest
<1> QED BY <1>1 DEF Probe, CreateSegment, AppendRecord, UnlinkOldest, Closed,
               Feed!Environment

LEMMA FeedMapsPublish == Strong /\ PublishBatch => Feed!Publish(job.seq)
<1> SUFFICES ASSUME Strong, PublishBatch PROVE Feed!Publish(job.seq)
  OBVIOUS
<1>1. UNCHANGED <<size, created, oldest, seals>>
  BY Frames DEF PublishBatch
<1>2. (faults # 0)' \in {(faults # 0), TRUE}
  <2>1. faults \in Nat
    BY FaultsAssumption DEF Strong, TypeInv, TypeOK
  <2>2. faults' = faults \/ faults' = faults + 1
    BY DEF PublishBatch
  <2>3. CASE faults' = faults
    BY <2>3
  <2>4. CASE faults' = faults + 1
    <3>1. faults' # 0
      BY <2>1, <2>4
    <3> QED BY <3>1, Zenon
  <2> QED BY <2>2, <2>3, <2>4
<1>3. \E n \in 1 .. size[job.seq] :
        /\ put[job.seq] \subseteq Feed!Prefix(n)
        /\ put' = [put EXCEPT ![job.seq] = Feed!Prefix(n)]
  BY BatchIsPrefix DEF Strong, Records, Feed!Prefix
<1> QED BY <1>1, <1>2, <1>3 DEF Feed!Publish

LEMMA FeedMapsFault ==
  ASSUME Strong, faults' = faults + 1, UNCHANGED <<size, created, oldest, put, seals>>
  PROVE  Feed!Environment
<1>1. (faults # 0)' = TRUE
  BY FaultsAssumption DEF Strong, TypeInv, TypeOK
<1> QED BY <1>1 DEF Feed!Environment

LEMMA FeedMapsSeal ==
  ASSUME Strong, SendSeal, seals' = seals \cup {<<job.seq, job.size>>}, UNCHANGED faults
  PROVE  job.seq \in Seqs /\ Feed!Announce(job.seq)
<1>1. UNCHANGED <<size, created, oldest, put>> /\ pc = "announce"
  BY Frames DEF SendSeal
<1>2. job.seq \in Seqs /\ job.size \in 0 .. MaxSize /\ Closed(job.seq)
  BY <1>1 DEF Strong, TypeInv, TypeOK, JobInRange, InWork, SyncPcs, Job, Sizes, SealInv,
     SealIsFinal, FinalIsClosed
<1>3. ASSUME OnDisk(job.seq)
      PROVE  job.size = size[job.seq] /\ (faults # 0 \/ put[job.seq] = Records(0, job.size))
  <2>1. job.size = size[job.seq]
    BY <1>1, <1>3 DEF Strong, SealInv, MeasuredFinal
  <2>2. PICK m \in 0 .. size[job.seq] : put[job.seq] = Records(0, m)
    BY <1>2 DEF Strong, FeedInv, PutIsPrefix
  <2>3. faults = 0 => Records(0, job.size) \subseteq put[job.seq]
    BY <1>1, <1>3 DEF Strong, AnnounceInv, SealCovered
  <2>4. ASSUME faults = 0 PROVE m = job.size
    <3>1. m \in Nat /\ job.size \in Nat /\ m <= job.size
      BY <1>2, <2>1
    <3>2. CASE m < job.size
      <4>1. m \in Records(0, job.size) /\ m \notin Records(0, m)
        BY <3>1, <3>2 DEF Records
      <4> QED BY <2>2, <2>3, <2>4, <4>1
    <3> QED BY <3>1, <3>2
  <2> QED BY <2>1, <2>2, <2>4
<1> QED BY <1>1, <1>2, <1>3 DEF Closed, OnDisk, Records, Feed!Announce, Feed!OnDisk, Feed!Prefix

(* Every step of the daemon is a step of the feed or none.                  *)
LEMMA FeedMapsStep == Strong /\ [Next]_vars => [Feed!Next]_Feed!vars
<1> SUFFICES ASSUME Strong, [Next]_vars PROVE [Feed!Next]_Feed!vars
  OBVIOUS
<1>1. ASSUME NEW s \in Seqs, Feed!Publish(s) \/ Feed!Announce(s) PROVE Feed!Next
  BY <1>1 DEF Feed!Next, Feed!Seqs, Seqs
<1>2. ASSUME UNCHANGED <<size, created, oldest, put, seals, faults>>
      PROVE  UNCHANGED Feed!vars
  BY <1>2 DEF Feed!vars
<1>3. CASE Probe
  BY <1>3, FeedMapsProbe DEF Feed!Next
<1>4. CASE PublishBatch
  <2>1. job.seq \in Seqs
    BY <1>4, BatchIsPrefix DEF Strong
  <2> QED BY <1>1, <1>4, <2>1, FeedMapsPublish
<1>5. CASE ReadError
  <2>1. faults' = faults + 1 /\ UNCHANGED <<size, created, oldest, put, seals>>
    BY <1>5, Frames DEF ReadError
  <2> QED BY <2>1, FeedMapsFault DEF Feed!Next
<1>6. CASE SendSeal
  <2>1. UNCHANGED <<size, created, oldest, put>>
    BY <1>6, Frames DEF SendSeal
  <2>2. \/ seals' = seals \cup {<<job.seq, job.size>>} /\ UNCHANGED faults
        \/ UNCHANGED <<seals, faults>>
        \/ faults' = faults + 1 /\ UNCHANGED seals
    BY <1>6 DEF SendSeal
  <2>3. CASE seals' = seals \cup {<<job.seq, job.size>>} /\ UNCHANGED faults
    BY <1>1, <1>6, <2>3, FeedMapsSeal
  <2>4. CASE UNCHANGED <<seals, faults>>
    BY <1>2, <2>1, <2>4
  <2>5. CASE faults' = faults + 1 /\ UNCHANGED seals
    BY <2>1, <2>5, FeedMapsFault DEF Feed!Next
  <2> QED BY <2>2, <2>3, <2>4, <2>5
<1>7. CASE OpenFile \/ FileSynced \/ SealRow
  <2>1. UNCHANGED <<size, created, oldest, put, seals, faults>>
    BY <1>7, Frames DEF OpenFile, FileSynced, SealRow
  <2> QED BY <1>2, <2>1
<1>8. CASE ColdStart
  <2>1. UNCHANGED <<size, created, oldest, put, seals, faults>>
    BY <1>8, Frames
    DEF ColdStart, ListDir, StatDir, StatPanic, PlanSegments, PlanPanic, Panic, ColdSkip,
        ColdSync, ColdGone, ColdActive, ColdSealed, StartWatching, bounds
  <2> QED BY <1>2, <2>1
<1>9. CASE Tracker
  <2>1. UNCHANGED <<size, created, oldest, put, seals, faults>>
    BY <1>9, Frames
    DEF Tracker, AbsorbEvent, AcceptEvent, WakeRemoved, WakeChanged, SealSkip, SealGone,
        SealExists, SealStat, SealLoopEnd, EventStat, RecordTail
  <2> QED BY <1>2, <2>1
<1>10. CASE CoolDown \/ Start \/ Crash \/ UNCHANGED vars
  <2>1. UNCHANGED <<size, created, oldest, put, seals, faults>>
    BY <1>10, Frames DEF CoolDown, Start, Crash, vars, bounds
  <2> QED BY <1>2, <2>1
<1> QED BY <1>3, <1>4, <1>5, <1>6, <1>7, <1>8, <1>9, <1>10 DEF Next, Daemon, Bus

LEMMA StrongInvariant == Spec => []Strong
<1>1. Init => Strong
  BY TypeInit, CoverInit, OriginInit, SealInit, AnnounceInit, FeedInit DEF Strong
<1>2. Strong /\ [Next]_vars => Strong'
  BY TypeStep, CoverStep, OriginStep, SealStep, AnnounceStep, FeedStep DEF Strong
<1> QED BY <1>1, <1>2, PTL DEF Spec

(* The daemon hands a receiver the bytes of every segment from its start    *)
(* without a hole, and announces a seal only for a segment the probe has    *)
(* left, after all its records unless a put or a read has failed.           *)
THEOREM DaemonImplementsFeed == Spec => FeedSpec
<1>1. Init => Feed!Init
  BY FeedMapsInit
<1>2. Strong /\ [Next]_vars => [Feed!Next]_Feed!vars
  BY FeedMapsStep
<1> QED BY <1>1, <1>2, StrongInvariant, PTL DEF Spec, FeedSpec, Feed!Spec

----------------------------------------------------------------------------
(* All layers together.                                                     *)

LEMMA IInvInit == Init => IInv
BY TypeInit, CoverInit, OriginInit, SealInit, AnnounceInit, OrderInit, AscendInit, FeedInit
DEF IInv, TypeInv

LEMMA IInvStep == IInv /\ [Next]_vars => IInv'
BY TypeStep, CoverStep, OriginStep, SealStep, AnnounceStep, OrderStep, AscendStep, FeedStep
DEF IInv, TypeInv, Base

(* The invariant on which all the theorems about SegmentSync rest, whatever *)
(* the probe does and wherever the daemon crashes.                          *)
THEOREM SyncInvariant == Spec => []IInv
<1>1. QED
  BY IInvInit, IInvStep, PTL DEF Spec
=============================================================================
