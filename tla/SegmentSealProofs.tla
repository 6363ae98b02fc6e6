------------------------- MODULE SegmentSealProofs -------------------------
(***************************************************************************)
(* The ledger and the seals: layers 1 to 4 of the invariant of SegmentInv.  *)
(***************************************************************************)
EXTENDS SegmentTypeProofs

(* Names for what a step leaves alone.                                      *)
LEMMA Frames ==
  /\ ProbeFrame => /\ UNCHANGED <<segments, dirty, put, sent, seals, watching, cool>>
                   /\ UNCHANGED <<online, pc, evt, job, scan, plan, crashes, faults>>
  /\ SyncFrame => /\ UNCHANGED <<size, created, oldest, dirty, watching, events, cool>>
                  /\ UNCHANGED <<online, scan, plan, crashes>>
  /\ ColdFrame => /\ UNCHANGED <<size, created, oldest, dirty, put, sent, seals>>
                  /\ UNCHANGED <<online, evt, crashes, faults>>
  /\ LoopFrame => /\ UNCHANGED <<size, created, oldest, put, sent, seals, watching>>
                  /\ UNCHANGED <<online, scan, plan, crashes, faults>>
  /\ probeVars' = probeVars => UNCHANGED <<size, created, oldest>>
  /\ ledgerVars' = ledgerVars => UNCHANGED <<segments, dirty>>
  /\ wireVars' = wireVars => UNCHANGED <<put, sent, seals>>
  /\ watchVars' = watchVars => UNCHANGED <<watching, events, cool>>
  /\ coldVars' = coldVars => UNCHANGED <<scan, plan>>
  /\ bounds' = bounds => UNCHANGED <<crashes, faults>>
BY DEF ProbeFrame, SyncFrame, ColdFrame, LoopFrame, probeVars, ledgerVars, wireVars,
       watchVars, coldVars, bounds

(* What sealing does to the rows.                                           *)
LEMMA SealedRow ==
  ASSUME TypeInv, pc = "seal",
         segments' = SealSegment(segments, job.seq, job.size, FileHash(job.seq), job.off)
  PROVE  \A r \in Seqs : segments'[r] =
           IF r = job.seq THEN [ state |-> "SEALED", sealed_size |-> job.size,
                                 sealed_hash |-> FileHash(job.seq),
                                 synced_offset |-> job.off ]
                          ELSE segments[r]
<1>1. segments \in [Seqs -> Row] /\ job.seq \in Seqs /\ job.off \in Sizes
  BY DEF TypeInv, TypeOK, JobInRange, InWork, SyncPcs, Job
<1> QED BY <1>1 DEF SealSegment

----------------------------------------------------------------------------
(* Layer 1.                                                                 *)

LEMMA CoverInit == Init => CoverInv
BY DEF Init, CoverInv, LedgerCovered, PlanCovered, JobCovered, PlanOmitsNothing, NoRow,
       Records, SyncPcs, IsListed, Seqs

LEMMA CoverHalt ==
  ASSUME CoverInv, Halt, UNCHANGED <<segments, put>> PROVE CoverInv'
BY DEF Halt, CoverInv, LedgerCovered, PlanCovered, JobCovered, PlanOmitsNothing,
       SyncPcs, IsListed

LEMMA CoverBus == TypeInv /\ CoverInv /\ Bus => CoverInv'
<1> SUFFICES ASSUME TypeInv, CoverInv, Bus PROVE CoverInv'
  OBVIOUS
<1> USE DEF CoverInv
<1>1. pc \in SyncPcs /\ job.seq \in Seqs
  BY DEF Bus, OpenFile, PublishBatch, ReadError, FileSynced, SealRow, SendSeal,
         SyncPcs, TypeInv, JobInRange, InWork
<1>2. job \in Job /\ job.off \in Sizes /\ job.end \in Sizes /\ Records(0, job.off) \subseteq put[job.seq]
  BY <1>1 DEF TypeInv, TypeOK, Job, JobCovered
<1>3. pc \notin {"list", "stat", "plan"}
  BY <1>1 DEF SyncPcs
<1>4. ASSUME UNCHANGED <<segments, put, plan, scan>>, job'.seq = job.seq, job'.off = job.off
      PROVE  CoverInv'
  BY <1>1, <1>2, <1>3, <1>4
  DEF LedgerCovered, PlanCovered, JobCovered, PlanOmitsNothing, SyncPcs
<1>5. CASE OpenFile
  BY <1>2, <1>4, <1>5, Frames DEF OpenFile, Job
<1>6. CASE PublishBatch
  <2>1. PICK n \in job.off + 1 .. job.end :
          /\ job' = [job EXCEPT !.off = n]
          /\ put' = [put EXCEPT ![job.seq] = @ \cup Records(job.off, n)]
    BY <1>6 DEF PublishBatch
  <2>2. \A s \in Seqs : put[s] \subseteq put'[s]
    BY <1>1, <2>1 DEF TypeInv, TypeOK
  <2>3. job'.seq = job.seq /\ job'.off = n
    BY <1>2, <2>1 DEF Job
  <2>4. Records(0, n) \subseteq put'[job.seq]
    <3>1. put'[job.seq] = put[job.seq] \cup Records(job.off, n)
      BY <1>1, <2>1 DEF TypeInv, TypeOK
    <3>2. Records(0, n) \subseteq Records(0, job.off) \cup Records(job.off, n)
      BY <1>2, <2>1, BoundsAssumption DEF Records, Sizes
    <3> QED BY <1>2, <3>1, <3>2
  <2>5. UNCHANGED <<segments, plan, scan, pc>>
    BY <1>6, Frames DEF PublishBatch
  <2> QED BY <1>1, <1>3, <2>2, <2>3, <2>4, <2>5
          DEF LedgerCovered, PlanCovered, JobCovered, PlanOmitsNothing
<1>7. CASE ReadError
  BY <1>2, <1>4, <1>7, Frames DEF ReadError, Job
<1>8. CASE FileSynced
  BY <1>4, <1>8, Frames DEF FileSynced
<1>9. CASE SealRow
  <2>1. \A r \in Seqs : segments'[r].synced_offset =
                          IF r = job.seq THEN job.off ELSE segments[r].synced_offset
    BY <1>1, <1>2, <1>9, SealedRow DEF SealRow
  <2>2. LedgerCovered'
    BY <1>2, <1>9, <2>1, Frames DEF SealRow, LedgerCovered, Records
  <2> QED BY <1>1, <1>2, <1>3, <1>9, <2>2, Frames
          DEF SealRow, PlanCovered, JobCovered, PlanOmitsNothing, SyncPcs
<1>10. CASE SendSeal
  <2>1. UNCHANGED <<segments, put, plan, scan>>
    BY <1>10, Frames DEF SendSeal
  <2>2. pc' \in {"cold", "sealing", "idle"}
    BY <1>10 DEF SendSeal, Return, GoIdle, NextInLoop
  <2> QED BY <1>3, <2>1, <2>2
          DEF LedgerCovered, PlanCovered, JobCovered, PlanOmitsNothing, SyncPcs
<1> QED BY <1>5, <1>6, <1>7, <1>8, <1>9, <1>10 DEF Bus

LEMMA CoverCold == TypeInv /\ CoverInv /\ ColdStart => CoverInv'
<1> SUFFICES ASSUME TypeInv, CoverInv, ColdStart PROVE CoverInv'
  OBVIOUS
<1> USE DEF CoverInv
<1>1. segments \in [Seqs -> Row] /\ job \in Job /\ job.off \in Sizes
  BY DEF TypeInv, TypeOK, Job
<1>2. CASE ListDir \/ StatDir
  BY <1>2, Frames DEF ListDir, StatDir, LedgerCovered, PlanCovered, JobCovered,
     PlanOmitsNothing, SyncPcs
<1>3. CASE StatPanic \/ PlanPanic
  BY <1>3, CoverHalt, Frames DEF StatPanic, PlanPanic, Panic
<1>4. CASE PlanSegments
  <2>1. \A s \in Seqs : segments'[s] = IF IsListed(scan, s) THEN segments[s] ELSE NoRow
    BY <1>1, <1>4 DEF PlanSegments, DropUnlisted
  <2>2. \A s \in Seqs : plan'[s] = PlanSegment(segments, scan, size, s)
    BY <1>4 DEF PlanSegments
  <2>3. put' = put /\ scan' = scan /\ pc' = "cold"
    BY <1>4, Frames DEF PlanSegments, NextInLoop
  <2>4. LedgerCovered'
    BY <2>1, <2>3 DEF LedgerCovered, NoRow, Records
  <2>5. PlanCovered'
    BY <2>2, <2>3 DEF PlanCovered, LedgerCovered, PlanSegment, TailSync, Records
  <2>6. PlanOmitsNothing'
    <3> SUFFICES ASSUME NEW s \in Seqs, IsListed(scan, s), plan'[s] = Skip
                 PROVE  Records(0, scan[s]) \subseteq put[s]
      BY <2>3 DEF PlanOmitsNothing
    <3>1. segments[s].synced_offset \in Nat /\ scan[s] \in Int
      BY <1>1, BoundsAssumption DEF Row, Sizes, TypeInv, TypeOK, Unlisted
    <3>2. segments[s].synced_offset >= scan[s]
      BY <2>2, <3>1 DEF PlanSegment, TailSync, Skip
    <3> QED BY <3>1, <3>2 DEF LedgerCovered, Records
  <2> QED BY <2>3, <2>4, <2>5, <2>6 DEF JobCovered, SyncPcs
<1>5. ASSUME pc' = "cold", pc \in {"cold", "measure"}, LedgerCovered',
             UNCHANGED <<put, scan, plan>>
      PROVE  CoverInv'
  BY <1>5 DEF PlanCovered, JobCovered, PlanOmitsNothing, SyncPcs
<1>6. CASE ColdSkip \/ ColdGone
  BY <1>5, <1>6, Frames DEF ColdSkip, ColdGone, NextInLoop, LedgerCovered
<1>7. CASE ColdSync
  <2>1. job'.seq = job.seq /\ job'.off = plan[job.seq] /\ job.seq \in Seqs
    BY <1>1, <1>7, BoundsAssumption DEF ColdSync, Job, Seqs
  <2>2. UNCHANGED <<segments, put, scan, plan>> /\ pc = "cold" /\ pc' = "open"
        /\ plan[job.seq] # Skip
    BY <1>7, Frames DEF ColdSync
  <2> QED BY <2>1, <2>2 DEF LedgerCovered, PlanCovered, JobCovered, PlanOmitsNothing
<1>8. CASE ColdActive
  <2>1. job.seq \in Seqs /\ Records(0, job.off) \subseteq put[job.seq]
    BY <1>8 DEF ColdActive, TypeInv, JobInRange, InWork, JobCovered
  <2>2. \A r \in Seqs : segments'[r].synced_offset =
                          IF r = job.seq THEN job.off ELSE segments[r].synced_offset
    BY <1>1, <1>8, <2>1 DEF ColdActive, UpsertSegment, Row
  <2>3. LedgerCovered'
    BY <1>8, <2>1, <2>2, Frames DEF ColdActive, LedgerCovered
  <2> QED BY <1>5, <1>8, <2>3, Frames DEF ColdActive, NextInLoop
<1>9. CASE ColdSealed
  <2>1. job'.seq = job.seq /\ job'.off = job.off
    BY <1>1, <1>9 DEF ColdSealed, Job
  <2> QED BY <1>9, <2>1, Frames
          DEF ColdSealed, LedgerCovered, PlanCovered, JobCovered, PlanOmitsNothing, SyncPcs
<1>10. CASE StartWatching
  BY <1>10, Frames DEF StartWatching, LedgerCovered, PlanCovered, JobCovered,
     PlanOmitsNothing, SyncPcs, IsListed
<1> QED BY <1>2, <1>3, <1>4, <1>6, <1>7, <1>8, <1>9, <1>10 DEF ColdStart

LEMMA CoverTracker == TypeInv /\ CoverInv /\ Tracker => CoverInv'
<1> SUFFICES ASSUME TypeInv, CoverInv, Tracker PROVE CoverInv'
  OBVIOUS
<1> USE DEF CoverInv
<1>1. /\ segments \in [Seqs -> Row] /\ job \in Job /\ job.off \in Sizes
      /\ evt.seq \in Seqs /\ job.seq \in 0 .. MaxSeq + 1
  BY DEF TypeInv, TypeOK, Job, Event
<1>2. /\ UNCHANGED <<put, scan, plan>>
      /\ pc \notin {"list", "stat", "plan"}
  BY Frames DEF Tracker, AbsorbEvent, AcceptEvent, WakeRemoved, WakeChanged, SealSkip,
     SealGone, SealExists, SealStat, SealLoopEnd, EventStat, RecordTail
<1>3. ASSUME LedgerCovered', JobCovered' PROVE CoverInv'
  BY <1>2, <1>3 DEF PlanCovered, PlanOmitsNothing
<1>4. CASE AbsorbEvent \/ AcceptEvent \/ WakeChanged \/ SealSkip \/ SealExists \/ SealLoopEnd
  <2>1. segments' = segments
    BY <1>4, Frames DEF AbsorbEvent, AcceptEvent, WakeChanged, SealSkip, SealExists,
       SealLoopEnd
  <2>2. pc' \notin SyncPcs \cup {"measure", "record"}
    BY <1>4 DEF AbsorbEvent, AcceptEvent, WakeChanged, SealSkip, SealExists, SealLoopEnd,
       NextInLoop, SyncPcs
  <2> QED BY <1>2, <1>3, <2>1, <2>2 DEF LedgerCovered, JobCovered
<1>5. ASSUME NEW s \in Seqs, segments' = DeleteSegment(segments, s) PROVE LedgerCovered'
  BY <1>1, <1>2, <1>5 DEF DeleteSegment, NoRow, LedgerCovered, Records
<1>6. CASE WakeRemoved
  BY <1>1, <1>3, <1>5, <1>6 DEF WakeRemoved, GoIdle, JobCovered, SyncPcs
<1>7. CASE SealGone
  <2>1. job.seq \in Seqs
    BY <1>1, <1>7, BoundsAssumption DEF SealGone, Seqs
  <2> QED BY <1>3, <1>5, <1>7, <2>1 DEF SealGone, NextInLoop, JobCovered, SyncPcs
<1>8. ASSUME pc \in {"sealstat", "eventstat"}, segments' = segments,
             job'.seq = job.seq, job'.off = segments[job.seq].synced_offset
      PROVE  CoverInv'
  <2>1. job.seq \in Seqs
    BY <1>8 DEF TypeInv, JobInRange, InWork
  <2> QED BY <1>2, <1>3, <1>8, <2>1 DEF LedgerCovered, JobCovered
<1>9. CASE SealStat
  <2>1. job'.seq = job.seq /\ job'.off = segments[job.seq].synced_offset
    BY <1>1, <1>9 DEF SealStat, Job
  <2> QED BY <1>8, <1>9, <2>1, Frames DEF SealStat
<1>10. CASE EventStat
  <2>1. CASE segments[job.seq].synced_offset >= StatLen(job.seq)
    BY <1>2, <1>3, <1>10, <2>1, Frames
    DEF EventStat, GoIdle, LedgerCovered, JobCovered, SyncPcs
  <2>2. CASE ~(segments[job.seq].synced_offset >= StatLen(job.seq))
    <3>1. job'.seq = job.seq /\ job'.off = segments[job.seq].synced_offset
      BY <1>1, <1>10, <2>2 DEF EventStat, Job
    <3> QED BY <1>8, <1>10, <2>2, <3>1, Frames DEF EventStat
  <2> QED BY <2>1, <2>2
<1>11. CASE RecordTail
  <2>1. job.seq \in Seqs /\ Records(0, job.off) \subseteq put[job.seq]
    BY <1>11 DEF RecordTail, TypeInv, JobInRange, InWork, JobCovered
  <2>2. \A r \in Seqs : segments'[r].synced_offset =
                          IF r = job.seq THEN job.off ELSE segments[r].synced_offset
    BY <1>1, <1>11, <2>1 DEF RecordTail, UpsertSegment, Row
  <2> QED BY <1>2, <1>3, <1>11, <2>1, <2>2
          DEF RecordTail, GoIdle, LedgerCovered, JobCovered, SyncPcs
<1> QED BY <1>4, <1>6, <1>7, <1>9, <1>10, <1>11 DEF Tracker

LEMMA CoverStep == TypeInv /\ CoverInv /\ [Next]_vars => CoverInv'
<1>1. ASSUME CoverInv, Probe \/ CoolDown \/ UNCHANGED vars PROVE CoverInv'
  <2>1. UNCHANGED <<segments, put, plan, scan, pc, job>>
    BY <1>1, Frames DEF Probe, CreateSegment, AppendRecord, UnlinkOldest, CoolDown, vars
  <2> QED BY <1>1, <2>1
          DEF CoverInv, LedgerCovered, PlanCovered, JobCovered, PlanOmitsNothing
<1>2. ASSUME CoverInv, Start PROVE CoverInv'
  BY <1>2, Frames DEF Start, CoverInv, LedgerCovered, PlanCovered, JobCovered,
     PlanOmitsNothing, SyncPcs
<1>3. ASSUME CoverInv, Crash PROVE CoverInv'
  BY <1>3, CoverHalt, Frames DEF Crash
<1> QED BY <1>1, <1>2, <1>3, CoverBus, CoverCold, CoverTracker DEF Next, Daemon

LEMMA CoverInvariant == Spec => [](TypeInv /\ CoverInv)
<1>1. Init => TypeInv /\ CoverInv
  BY TypeInit, CoverInit
<1>2. TypeInv /\ CoverInv /\ [Next]_vars => (TypeInv /\ CoverInv)'
  BY TypeStep, CoverStep
<1> QED BY <1>1, <1>2, PTL DEF Spec

(* The ledger never claims a byte that was not handed to the bus, through   *)
(* crashes, restarts, read errors and unlinked files.                       *)
THEOREM LedgerIsCovered == Spec => []LedgerCovered
<1>1. CoverInv => LedgerCovered
  BY DEF CoverInv
<1> QED BY <1>1, CoverInvariant, PTL

(* Cold start skips nothing that was not handed to the bus before.          *)
THEOREM ColdStartOmitsNothing == Spec => []PlanOmitsNothing
<1>1. CoverInv => PlanOmitsNothing
  BY DEF CoverInv
<1> QED BY <1>1, CoverInvariant, PTL

----------------------------------------------------------------------------
(* Layer 2.                                                                 *)

LEMMA OriginInit == Init => OriginInv
BY DEF Init, OriginInv, CallerKnown, EventsExist, SealsBelow, ScanExists, ScanForgotten,
       PlanListed, ColdListed, Handling, SyncPcs, IsListed

LEMMA OriginHalt == Halt => OriginInv'
BY DEF Halt, OriginInv, CallerKnown, EventsExist, SealsBelow, ScanExists, ScanForgotten,
       PlanListed, ColdListed, Handling, SyncPcs, IsListed

LEMMA OriginProbe == TypeInv /\ OriginInv /\ Probe => OriginInv'
<1> SUFFICES ASSUME TypeInv, OriginInv, Probe PROVE OriginInv'
  OBVIOUS
<1>1. UNCHANGED <<pc, evt, job, scan, plan>>
  BY Frames DEF Probe, CreateSegment, AppendRecord, UnlinkOldest
<1>2. created \in Int /\ created' \in Int /\ created <= created'
  BY BoundsAssumption DEF TypeInv, TypeOK, Probe, CreateSegment, AppendRecord, UnlinkOldest
<1>3. PICK k \in Kinds, s \in Int : Notify(k, s) /\ s < created'
  <2>1. CASE CreateSegment
    BY <1>2, <2>1 DEF CreateSegment, Kinds
  <2>2. CASE AppendRecord
    BY <1>2, <2>2 DEF AppendRecord, Kinds
  <2>3. CASE UnlinkOldest
    BY <1>2, <2>3 DEF UnlinkOldest, Closed, Kinds, TypeInv, TypeOK
  <2> QED BY <2>1, <2>2, <2>3 DEF Probe
<1>4. \A i \in 1 .. Len(events') : events'[i].seq < created'
  <2>1. \A i \in 1 .. Len(events) : events[i].seq < created /\ events[i].seq \in Int
    <3>1. \A i \in 1 .. Len(events) : events[i] \in Event
      BY DEF TypeInv, TypeOK
    <3> QED BY <3>1 DEF OriginInv, EventsExist, Event, Seqs
  <2>2. CASE events' = events
    BY <1>2, <2>1, <2>2
  <2>3. CASE events' = Append(events, [kind |-> k, seq |-> s])
    BY <1>2, <1>3, <2>1, <2>3 DEF TypeInv, TypeOK
  <2> QED BY <1>3, <2>2, <2>3 DEF Notify
<1>5. evt.seq \in Int /\ \A s1 \in Seqs : s1 \in Int
  BY DEF TypeInv, TypeOK, Event, Seqs
<1> QED BY <1>1, <1>2, <1>4, <1>5
        DEF OriginInv, CallerKnown, EventsExist, SealsBelow, ScanExists, ScanForgotten,
            PlanListed, ColdListed, Handling

LEMMA OriginBus == TypeInv /\ OriginInv /\ Bus => OriginInv'
<1> SUFFICES ASSUME TypeInv, OriginInv, Bus PROVE OriginInv'
  OBVIOUS
<1>1. UNCHANGED <<created, events, scan, plan>>
  BY Frames DEF Bus, OpenFile, PublishBatch, ReadError, FileSynced, SealRow, SendSeal
<1>2. pc \in SyncPcs /\ job \in Job /\ job.caller \in Callers
  BY DEF Bus, OpenFile, PublishBatch, ReadError, FileSynced, SealRow, SendSeal, SyncPcs,
         TypeInv, TypeOK, Job
<1>3. CASE OpenFile \/ PublishBatch \/ ReadError \/ SealRow
  <2>1. pc' \in SyncPcs /\ job'.caller = job.caller /\ job'.seq = job.seq /\ evt' = evt
    BY <1>2, <1>3 DEF OpenFile, PublishBatch, ReadError, SealRow, SyncPcs, Job
  <2> QED BY <1>1, <1>2, <2>1
          DEF OriginInv, CallerKnown, EventsExist, SealsBelow, ScanExists, ScanForgotten,
              PlanListed, ColdListed, Handling, SyncPcs
<1>4. CASE FileSynced
  <2>1. /\ UNCHANGED <<job, evt>>
        /\ \/ pc' = "measure" /\ job.caller = "cold"
           \/ pc' = "seal"
           \/ pc' = "record" /\ job.caller = "event"
    BY <1>2, <1>4 DEF FileSynced, Callers
  <2> QED BY <1>1, <1>2, <2>1
          DEF OriginInv, CallerKnown, EventsExist, SealsBelow, ScanExists, ScanForgotten,
              PlanListed, ColdListed, Handling, SyncPcs
<1>5. CASE SendSeal
  <2>1. CASE job.caller = "event"
    BY <1>1, <1>2, <1>5, <2>1
    DEF SendSeal, Return, GoIdle, OriginInv, CallerKnown, EventsExist, SealsBelow,
        ScanExists, ScanForgotten, PlanListed, ColdListed, Handling, SyncPcs
  <2>2. CASE job.caller # "event"
    <3>1. /\ evt' = evt /\ job'.caller = job.caller
          /\ pc' = IF job.caller = "cold" THEN "cold" ELSE "sealing"
      BY <1>5, <2>2 DEF SendSeal, Return, NextInLoop, NoJob
    <3> QED BY <1>1, <1>2, <2>2, <3>1
            DEF OriginInv, CallerKnown, EventsExist, SealsBelow, ScanExists,
                ScanForgotten, PlanListed, ColdListed, Handling, SyncPcs, Callers
  <2> QED BY <2>1, <2>2
<1> QED BY <1>3, <1>4, <1>5 DEF Bus

LEMMA OriginCold == TypeInv /\ OriginInv /\ ColdStart => OriginInv'
<1> SUFFICES ASSUME TypeInv, OriginInv, ColdStart PROVE OriginInv'
  OBVIOUS
<1> USE DEF OriginInv, CallerKnown, EventsExist, SealsBelow, ScanExists, ScanForgotten,
            PlanListed, ColdListed, Handling, SyncPcs
<1>1. job \in Job
  BY DEF TypeInv, TypeOK
<1>2. CASE ListDir
  <2>1. \A s \in Seqs : IsListed(scan', s) <=> OnDisk(s)
    BY <1>2 DEF ListDir, IsListed, Unlisted
  <2>2. PlanListed'
    BY <1>2, <2>1, Frames DEF ListDir
  <2> QED BY <1>2, <2>1, <2>2, Frames DEF ListDir, OnDisk
<1>3. CASE StatDir
  <2>1. \A s \in Seqs : IsListed(scan', s) <=> IsListed(scan, s)
    BY <1>3, BoundsAssumption DEF StatDir, IsListed, TypeInv, TypeOK, Sizes, Unlisted
  <2> QED BY <1>3, <2>1, Frames DEF StatDir
<1>4. CASE StatPanic \/ PlanPanic
  BY <1>4, OriginHalt DEF StatPanic, PlanPanic, Panic
<1>5. CASE PlanSegments
  <2>1. PlanListed'
    BY <1>5, Frames DEF PlanSegments, PlanSegment
  <2>2. pc' = "cold" /\ job'.caller = "cold"
    BY <1>5 DEF PlanSegments, NextInLoop, NoJob
  <2> QED BY <1>5, <2>1, <2>2, Frames DEF PlanSegments
<1>6. CASE ColdSkip \/ ColdGone \/ ColdActive
  <2>1. pc' = "cold" /\ job'.caller = "cold"
    BY <1>6 DEF ColdSkip, ColdGone, ColdActive, NextInLoop, NoJob
  <2> QED BY <1>6, <2>1, Frames DEF ColdSkip, ColdGone, ColdActive
<1>7. CASE ColdSync
  <2>1. job'.seq = job.seq /\ job'.caller = job.caller /\ job.seq \in Seqs
    BY <1>1, <1>7, BoundsAssumption DEF ColdSync, Job, Seqs
  <2> QED BY <1>7, <2>1, Frames DEF ColdSync
<1>8. CASE ColdSealed
  <2>1. job'.seq = job.seq /\ job'.caller = job.caller
    BY <1>1, <1>8 DEF ColdSealed, Job
  <2> QED BY <1>8, <2>1, Frames DEF ColdSealed
<1>9. CASE StartWatching
  BY <1>9, Frames DEF StartWatching, IsListed
<1> QED BY <1>2, <1>3, <1>4, <1>5, <1>6, <1>7, <1>8, <1>9 DEF ColdStart

LEMMA OriginTracker == TypeInv /\ OriginInv /\ Tracker => OriginInv'
<1> SUFFICES ASSUME TypeInv, OriginInv, Tracker PROVE OriginInv'
  OBVIOUS
<1>1. UNCHANGED <<created, scan, plan>>
  BY Frames DEF Tracker, AbsorbEvent, AcceptEvent, WakeRemoved, WakeChanged, SealSkip,
     SealGone, SealExists, SealStat, SealLoopEnd, EventStat, RecordTail
<1>2. ScanExists' /\ PlanListed' /\ \A s \in Seqs : ~IsListed(scan, s)'
  BY <1>1 DEF OriginInv, ScanExists, PlanListed, ScanForgotten, Handling, Tracker,
     AbsorbEvent, AcceptEvent, WakeRemoved, WakeChanged, SealSkip, SealGone, SealExists,
     SealStat, SealLoopEnd, EventStat, RecordTail
<1>3. ASSUME EventsExist', SealsBelow', CallerKnown', ColdListed' PROVE OriginInv'
  BY <1>1, <1>2, <1>3 DEF OriginInv, ScanForgotten
<1>4. CASE AbsorbEvent \/ AcceptEvent
  <2>1. events \in Seq(Event) /\ events # <<>> /\ events' = Tail(events)
    BY <1>4 DEF AbsorbEvent, AcceptEvent, TypeInv, TypeOK
  <2>2. Head(events).seq < created
    BY <2>1 DEF OriginInv, EventsExist
  <2>3. \A i \in 1 .. Len(events') : events'[i].seq < created
    BY <2>1 DEF OriginInv, EventsExist
  <2>4. pc' = "idle" \/ (pc' = "debounce" /\ evt' = Head(events))
    BY <1>4 DEF AbsorbEvent, AcceptEvent
  <2> QED BY <1>1, <1>3, <2>2, <2>3, <2>4
          DEF EventsExist, SealsBelow, CallerKnown, ColdListed, Handling, SyncPcs
<1>5. ASSUME UNCHANGED <<events, evt>>, Handling, SealsBelow', CallerKnown', ColdListed'
      PROVE  OriginInv'
  BY <1>1, <1>3, <1>5 DEF OriginInv, EventsExist
<1>6. ASSUME pc' = "idle", UNCHANGED events PROVE OriginInv'
  BY <1>1, <1>3, <1>6
  DEF OriginInv, EventsExist, SealsBelow, CallerKnown, ColdListed, Handling, SyncPcs
<1>7. CASE WakeRemoved \/ RecordTail
  BY <1>6, <1>7 DEF WakeRemoved, RecordTail, GoIdle
<1>8. CASE WakeChanged \/ SealSkip \/ SealGone \/ SealLoopEnd
  <2>1. \/ pc' = "sealing" /\ job'.caller = "seal"
        \/ pc' = "eventstat" /\ job'.caller = "event"
    BY <1>8 DEF WakeChanged, SealSkip, SealGone, SealLoopEnd, NextInLoop, NoJob
  <2>2. UNCHANGED <<events, evt>> /\ Handling
    BY <1>8, Frames DEF WakeChanged, SealSkip, SealGone, SealLoopEnd, NextInLoop, Handling
  <2> QED BY <1>5, <2>1, <2>2 DEF SealsBelow, CallerKnown, ColdListed, SyncPcs
<1>9. CASE SealExists
  BY <1>5, <1>9, Frames DEF SealExists, SealsBelow, CallerKnown, ColdListed, SyncPcs,
     Handling, OriginInv
<1>10. ASSUME pc \in {"sealstat", "eventstat"}, UNCHANGED <<events, evt>>,
              pc' \in {"open", "seal"},
              job'.seq = job.seq, job'.caller = job.caller
       PROVE  OriginInv'
  BY <1>5, <1>10 DEF OriginInv, SealsBelow, CallerKnown, ColdListed, SyncPcs, Handling
<1>11. CASE SealStat
  <2>1. job'.seq = job.seq /\ job'.caller = job.caller
    BY <1>11 DEF SealStat, TypeInv, TypeOK, Job
  <2> QED BY <1>10, <1>11, <2>1 DEF SealStat
<1>12. CASE EventStat
  <2>1. CASE segments[job.seq].synced_offset >= StatLen(job.seq)
    BY <1>6, <1>12, <2>1 DEF EventStat, GoIdle
  <2>2. CASE ~(segments[job.seq].synced_offset >= StatLen(job.seq))
    <3>1. job'.seq = job.seq /\ job'.caller = job.caller
      BY <1>12, <2>2 DEF EventStat, TypeInv, TypeOK, Job
    <3> QED BY <1>10, <1>12, <2>2, <3>1 DEF EventStat
  <2> QED BY <2>1, <2>2
<1> QED BY <1>4, <1>7, <1>8, <1>9, <1>11, <1>12 DEF Tracker

LEMMA OriginStep == TypeInv /\ OriginInv /\ [Next]_vars => OriginInv'
<1>1. ASSUME OriginInv, CoolDown \/ UNCHANGED vars PROVE OriginInv'
  BY <1>1, Frames
  DEF CoolDown, vars, OriginInv, CallerKnown, EventsExist, SealsBelow, ScanExists,
      ScanForgotten, PlanListed, ColdListed, Handling
<1>2. ASSUME OriginInv, Start PROVE OriginInv'
  BY <1>2, Frames
  DEF Start, OriginInv, CallerKnown, EventsExist, SealsBelow, ScanExists, ScanForgotten,
      PlanListed, ColdListed, Handling, SyncPcs
<1>3. ASSUME Crash PROVE OriginInv'
  BY <1>3, OriginHalt DEF Crash
<1> QED BY <1>1, <1>2, <1>3, OriginProbe, OriginBus, OriginCold, OriginTracker
        DEF Next, Daemon

----------------------------------------------------------------------------
(* Layer 3.                                                                 *)

LEMMA SealInit == Init => SealInv
BY DEF Init, SealInv, SealedIsFinal, FinalIsClosed, EventKnowsRow, SealIsFinal, RecordIsActive,
       MeasuredFinal, ActiveUnsealed, Sealed, NoRow, SyncPcs, IsPresentMax, IsListed

LEMMA SealHalt ==
  ASSUME SealInv, Halt, UNCHANGED <<segments, size, created, oldest>> PROVE SealInv'
BY DEF Halt, SealInv, SealedIsFinal, FinalIsClosed, EventKnowsRow, SealIsFinal, RecordIsActive,
       MeasuredFinal, ActiveUnsealed, Sealed, SyncPcs, IsPresentMax, IsListed, Closed, OnDisk

(* What the probe may still do to a segment it has left: unlink it.         *)
LEMMA ClosedStays ==
  ASSUME TypeInv, Probe, NEW s \in Seqs, Closed(s)
  PROVE  Closed(s)' /\ (OnDisk(s)' => OnDisk(s)) /\ size'[s] = size[s]
<1>1. s \in Int /\ created \in Int /\ oldest \in Int /\ size \in [Seqs -> Sizes]
  BY DEF TypeInv, TypeOK, Seqs
<1>2. CASE CreateSegment
  BY <1>1, <1>2 DEF CreateSegment, Closed, OnDisk
<1>3. CASE AppendRecord
  BY <1>1, <1>3 DEF AppendRecord, Closed, OnDisk
<1>4. CASE UnlinkOldest
  BY <1>1, <1>4 DEF UnlinkOldest, Closed, OnDisk
<1> QED BY <1>2, <1>3, <1>4 DEF Probe

LEMMA SealProbe == TypeInv /\ SealInv /\ Probe => SealInv'
<1> SUFFICES ASSUME TypeInv, SealInv, Probe PROVE SealInv'
  OBVIOUS
<1>1. UNCHANGED <<pc, evt, job, scan, segments>>
  BY Frames DEF Probe, CreateSegment, AppendRecord, UnlinkOldest
<1>2. SealedIsFinal'
  BY <1>1, ClosedStays DEF SealInv, SealedIsFinal, Sealed
<1>3. FinalJob' <=> FinalJob
  BY <1>1 DEF FinalJob, Sealed
<1>4. FinalIsClosed' /\ MeasuredFinal'
  <2>1. pc \in SyncPcs \cup {"measure"} => job.seq \in Seqs
    BY DEF TypeInv, JobInRange, InWork
  <2> QED BY <1>1, <1>3, <2>1, ClosedStays
          DEF SealInv, FinalIsClosed, MeasuredFinal, SealIsFinal, SyncPcs
<1>5. EventKnowsRow' /\ SealIsFinal' /\ RecordIsActive' /\ ActiveUnsealed'
  BY <1>1, <1>3
  DEF SealInv, EventKnowsRow, SealIsFinal, RecordIsActive, ActiveUnsealed, Sealed
<1> QED BY <1>2, <1>4, <1>5 DEF SealInv

LEMMA SealBus == TypeInv /\ OriginInv /\ SealInv /\ Bus => SealInv'
<1> SUFFICES ASSUME TypeInv, OriginInv, SealInv, Bus PROVE SealInv'
  OBVIOUS
<1> USE DEF SealInv
<1>1. UNCHANGED <<size, created, oldest, scan>>
  BY Frames DEF Bus, OpenFile, PublishBatch, ReadError, FileSynced, SealRow, SendSeal
<1>2. pc \in SyncPcs /\ job \in Job /\ job.caller \in Callers /\ job.seq \in Seqs
  BY DEF Bus, OpenFile, PublishBatch, ReadError, FileSynced, SealRow, SendSeal, SyncPcs,
         TypeInv, TypeOK, JobInRange, InWork, Job
<1>3. CASE OpenFile \/ PublishBatch \/ ReadError
  <2>1. /\ pc \in {"open", "send"} /\ pc' = "send" /\ segments' = segments
        /\ job'.caller = job.caller /\ job'.seq = job.seq /\ job'.size = job.size
        /\ job'.sealed = job.sealed
    BY <1>2, <1>3 DEF OpenFile, PublishBatch, ReadError, Job
  <2> QED BY <1>1, <2>1
          DEF SealedIsFinal, FinalIsClosed, EventKnowsRow, SealIsFinal, RecordIsActive, MeasuredFinal,
              ActiveUnsealed, FinalJob, Sealed, Closed, OnDisk, SyncPcs
<1>4. CASE FileSynced
  <2>1. UNCHANGED <<segments, job>> /\ pc = "send"
    BY <1>4 DEF FileSynced
  <2>2. CASE job.caller = "cold"
    BY <1>1, <1>4, <2>1, <2>2
    DEF FileSynced, SealedIsFinal, FinalIsClosed, EventKnowsRow, SealIsFinal, RecordIsActive,
        MeasuredFinal, ActiveUnsealed, FinalJob, Sealed, Closed, OnDisk, SyncPcs
  <2>3. CASE job.caller # "cold"
    <3>1. IF FinalJob THEN pc' = "seal" ELSE pc' = "record" /\ ~Sealed(job.seq)
      BY <1>2, <1>4, <2>1, <2>3
      DEF FileSynced, FinalJob, EventKnowsRow, Callers, SyncPcs, Job
    <3> QED BY <1>1, <2>1, <2>3, <3>1
            DEF SealedIsFinal, FinalIsClosed, EventKnowsRow, SealIsFinal, RecordIsActive, MeasuredFinal,
                ActiveUnsealed, FinalJob, Sealed, Closed, OnDisk, SyncPcs
  <2> QED BY <2>2, <2>3
<1>5. CASE SealRow
  <2>1. pc = "seal" /\ pc' = "announce" /\ job' = job
    BY <1>5 DEF SealRow
  <2>2. FinalJob /\ Closed(job.seq) /\ (OnDisk(job.seq) => job.size = size[job.seq])
    BY <2>1 DEF SealIsFinal, FinalIsClosed, MeasuredFinal, SyncPcs
  <2>3. \A r \in Seqs : segments'[r] =
          IF r = job.seq THEN [ state |-> "SEALED", sealed_size |-> job.size,
                                sealed_hash |-> FileHash(job.seq),
                                synced_offset |-> job.off ]
                         ELSE segments[r]
    BY <1>5, SealedRow DEF SealRow
  <2>4. SealedIsFinal'
    BY <1>1, <2>2, <2>3 DEF SealedIsFinal, Sealed, FileHash, OnDisk, Closed
  <2>5. FinalJob' /\ EventKnowsRow'
    <3>1. FinalJob'
      BY <1>1, <2>1, <2>2 DEF FinalJob
    <3>2. job.caller = "event" => job.sealed
      BY <2>2 DEF FinalJob
    <3> QED BY <1>2, <2>1, <2>3, <3>1, <3>2 DEF EventKnowsRow, Sealed
  <2>6. ~IsPresentMax(scan, job.seq)
    BY <1>2, <2>1, <2>2
    DEF FinalJob, OriginInv, ScanForgotten, Handling, SyncPcs, IsPresentMax
  <2>7. ActiveUnsealed'
    BY <1>1, <2>3, <2>6 DEF ActiveUnsealed, Sealed
  <2> QED BY <1>1, <2>1, <2>2, <2>4, <2>5, <2>7
          DEF FinalIsClosed, EventKnowsRow, SealIsFinal, RecordIsActive, MeasuredFinal, Closed, OnDisk
<1>6. CASE SendSeal
  <2>1. pc' \in {"cold", "sealing", "idle"} /\ segments' = segments
    BY <1>6 DEF SendSeal, Return, GoIdle, NextInLoop
  <2> QED BY <1>1, <2>1
          DEF SealedIsFinal, FinalIsClosed, EventKnowsRow, SealIsFinal, RecordIsActive, MeasuredFinal,
              ActiveUnsealed, Sealed, Closed, OnDisk, SyncPcs
<1> QED BY <1>3, <1>4, <1>5, <1>6 DEF Bus

(* Every step that does not leave the daemon in the middle of a sync.       *)
LEMMA SealBetween ==
  ASSUME SealedIsFinal', ActiveUnsealed', pc' \notin SyncPcs \cup {"measure", "record"}
  PROVE  SealInv'
BY DEF SealInv, FinalIsClosed, EventKnowsRow, SealIsFinal, RecordIsActive, MeasuredFinal, SyncPcs

LEMMA SealCold == TypeInv /\ OriginInv /\ SealInv /\ ColdStart => SealInv'
<1> SUFFICES ASSUME TypeInv, OriginInv, SealInv, ColdStart PROVE SealInv'
  OBVIOUS
<1>1. job \in Job /\ segments \in [Seqs -> Row]
  BY DEF TypeInv, TypeOK
<1>2. CASE StatPanic \/ PlanPanic
  BY <1>2, SealHalt, Frames DEF StatPanic, PlanPanic, Panic
<1>3. ASSUME ColdFrame, \A s \in Seqs : Sealed(s)' => segments'[s] = segments[s]
      PROVE  SealedIsFinal' /\ (scan' = scan => ActiveUnsealed')
  BY <1>3, Frames DEF SealInv, SealedIsFinal, ActiveUnsealed, Sealed, Closed, OnDisk
<1>4. CASE ListDir
  <2>1. \A s \in Seqs : IsListed(scan', s) <=> OnDisk(s)
    BY <1>4 DEF ListDir, IsListed, Unlisted
  <2>2. ASSUME NEW s \in Seqs, IsPresentMax(scan', s), Sealed(s) PROVE FALSE
    <3>1. OnDisk(s) /\ Closed(s)
      BY <2>1, <2>2 DEF IsPresentMax, SealInv, SealedIsFinal
    <3>2. s + 1 \in Seqs /\ OnDisk(s + 1)
      BY <3>1, BoundsAssumption DEF OnDisk, Closed, Seqs, TypeInv, TypeOK
    <3>3. s + 1 <= s
      BY <2>1, <2>2, <3>2 DEF IsPresentMax
    <3> QED BY <3>3 DEF Seqs
  <2>3. UNCHANGED segments /\ pc' = "stat"
    BY <1>4 DEF ListDir
  <2> QED BY <1>3, <1>4, <2>2, <2>3, SealBetween DEF ListDir, ActiveUnsealed, Sealed, SyncPcs
<1>5. CASE StatDir
  <2>1. \A s \in Seqs : IsListed(scan', s) <=> IsListed(scan, s)
    BY <1>5, BoundsAssumption DEF StatDir, IsListed, TypeInv, TypeOK, Sizes, Unlisted
  <2>2. UNCHANGED segments /\ pc' = "plan"
    BY <1>5 DEF StatDir
  <2>3. ActiveUnsealed'
    BY <2>1, <2>2 DEF SealInv, ActiveUnsealed, IsPresentMax, Sealed
  <2> QED BY <1>3, <1>5, <2>2, <2>3, SealBetween DEF StatDir, SyncPcs
<1>6. CASE PlanSegments
  <2>1. \A s \in Seqs : Sealed(s)' => segments'[s] = segments[s]
    BY <1>6 DEF PlanSegments, DropUnlisted, NoRow, Sealed
  <2> QED BY <1>3, <1>6, <2>1, SealBetween DEF PlanSegments, NextInLoop, SyncPcs
<1>7. CASE ColdSkip \/ ColdGone
  BY <1>3, <1>7, SealBetween, Frames DEF ColdSkip, ColdGone, NextInLoop, SyncPcs
<1>8. CASE ColdSync
  <2>1. /\ job'.seq = job.seq /\ job'.caller = "cold" /\ job.seq \in Seqs
        /\ IsListed(scan, job.seq)
    BY <1>1, <1>8, BoundsAssumption
    DEF ColdSync, Job, Seqs, OriginInv, CallerKnown, PlanListed
  <2>2. /\ UNCHANGED <<segments, scan, created>> /\ pc' = "open"
    BY <1>8, Frames DEF ColdSync
  <2>3. ASSUME ~IsPresentMax(scan, job.seq) PROVE Closed(job.seq)
    <3>1. PICK r \in Seqs : IsListed(scan, r) /\ ~(r <= job.seq)
      BY <2>1, <2>3 DEF IsPresentMax
    <3>2. r < created
      BY <3>1 DEF OriginInv, ScanExists
    <3> QED BY <2>1, <3>1, <3>2 DEF Closed, Seqs, TypeInv, TypeOK
  <2> QED BY <1>3, <1>8, <2>1, <2>2, <2>3
          DEF ColdSync, SealInv, FinalIsClosed, EventKnowsRow, SealIsFinal, RecordIsActive, MeasuredFinal,
              FinalJob, Closed
<1>9. CASE ColdActive
  <2>1. job.seq \in Seqs
    BY <1>9 DEF ColdActive, TypeInv, JobInRange, InWork
  <2>2. \A s \in Seqs : Sealed(s)' => segments'[s] = segments[s]
    BY <1>1, <1>9, <2>1 DEF ColdActive, UpsertSegment, Row, Sealed
  <2> QED BY <1>3, <1>9, <2>2, SealBetween, Frames DEF ColdActive, NextInLoop, SyncPcs
<1>10. CASE ColdSealed
  <2>1. /\ job'.seq = job.seq /\ job'.caller = "cold" /\ job'.size = size[job.seq]
        /\ pc = "measure" /\ pc' = "seal" /\ ~IsPresentMax(scan, job.seq)
    BY <1>1, <1>10 DEF ColdSealed, Job, OriginInv, CallerKnown
  <2>2. FinalJob /\ Closed(job.seq)
    BY <1>1, <1>10, <2>1 DEF ColdSealed, Job, FinalJob, SealInv, FinalIsClosed
  <2>3. UNCHANGED <<segments, scan, size, created>>
    BY <1>10, Frames DEF ColdSealed
  <2>4. SealedIsFinal' /\ ActiveUnsealed'
    BY <1>3, <1>10, <2>3 DEF ColdSealed
  <2> QED BY <2>1, <2>2, <2>3, <2>4
          DEF SealInv, FinalIsClosed, EventKnowsRow, SealIsFinal, RecordIsActive, MeasuredFinal, FinalJob,
              Closed
<1>11. CASE StartWatching
  <2>1. ActiveUnsealed'
    BY <1>11 DEF StartWatching, ActiveUnsealed, IsPresentMax, IsListed
  <2> QED BY <1>3, <1>11, <2>1, SealBetween DEF StartWatching, SyncPcs
<1> QED BY <1>2, <1>4, <1>5, <1>6, <1>7, <1>8, <1>9, <1>10, <1>11 DEF ColdStart

LEMMA SealTracker == TypeInv /\ OriginInv /\ SealInv /\ Tracker => SealInv'
<1> SUFFICES ASSUME TypeInv, OriginInv, SealInv, Tracker PROVE SealInv'
  OBVIOUS
<1>1. /\ UNCHANGED <<size, created, oldest, scan>>
      /\ \A s \in Seqs : ~IsListed(scan, s)
  BY Frames DEF OriginInv, ScanForgotten, Handling, Tracker, AbsorbEvent, AcceptEvent,
     WakeRemoved, WakeChanged, SealSkip, SealGone, SealExists, SealStat, SealLoopEnd,
     EventStat, RecordTail
<1>2. ActiveUnsealed'
  BY <1>1 DEF ActiveUnsealed, IsPresentMax
<1>3. job \in Job /\ segments \in [Seqs -> Row] /\ evt.seq \in Seqs
  BY DEF TypeInv, TypeOK, Event
<1>4. ASSUME \A s \in Seqs : Sealed(s)' => segments'[s] = segments[s] PROVE SealedIsFinal'
  BY <1>1, <1>4 DEF SealInv, SealedIsFinal, Sealed, Closed, OnDisk
<1>5. CASE AbsorbEvent \/ AcceptEvent \/ WakeChanged \/ SealSkip \/ SealExists \/ SealLoopEnd
  <2>1. segments' = segments
    BY <1>5, Frames DEF AbsorbEvent, AcceptEvent, WakeChanged, SealSkip, SealExists,
       SealLoopEnd
  <2>2. pc' \notin SyncPcs \cup {"measure", "record"}
    BY <1>5 DEF AbsorbEvent, AcceptEvent, WakeChanged, SealSkip, SealExists, SealLoopEnd,
       NextInLoop, SyncPcs
  <2> QED BY <1>2, <1>4, <2>1, <2>2, SealBetween DEF Sealed
<1>6. CASE WakeRemoved \/ SealGone
  <2>1. \A s \in Seqs : Sealed(s)' => segments'[s] = segments[s]
    BY <1>3, <1>6 DEF WakeRemoved, SealGone, DeleteSegment, NoRow, Sealed
  <2>2. pc' \notin SyncPcs \cup {"measure", "record"}
    BY <1>6 DEF WakeRemoved, SealGone, GoIdle, NextInLoop, SyncPcs
  <2> QED BY <1>2, <1>4, <2>1, <2>2, SealBetween
<1>7. ASSUME pc \in {"sealstat", "eventstat"}, pc' \in {"open", "seal"}, segments' = segments,
             FinalJob' => Closed(job.seq),
             pc' = "seal" => FinalJob',
             job'.seq = job.seq, job'.size = StatLen(job.seq),
             job'.caller = "event" => (job'.sealed <=> Sealed(job.seq))
      PROVE  SealInv'
  <2>1. EventKnowsRow'
    BY <1>7 DEF EventKnowsRow, Sealed
  <2>2. SealedIsFinal'
    BY <1>4, <1>7 DEF Sealed
  <2> QED BY <1>1, <1>2, <1>7, <2>1, <2>2
          DEF SealInv, FinalIsClosed, SealIsFinal, RecordIsActive, MeasuredFinal, Closed,
              OnDisk, StatLen
<1>8. CASE SealStat
  <2>1. job.caller = "seal" /\ job.seq < evt.seq /\ evt.seq < created
    BY <1>8 DEF SealStat, OriginInv, CallerKnown, SealsBelow, EventsExist, Handling
  <2>2. job.seq \in Seqs
    BY <1>8 DEF SealStat, TypeInv, JobInRange, InWork
  <2>3. Closed(job.seq)
    BY <1>3, <2>1, <2>2 DEF Closed, Seqs, TypeInv, TypeOK
  <2>4. job'.caller = "seal" /\ job'.seq = job.seq /\ job'.size = StatLen(job.seq)
    BY <1>3, <1>8, <2>1 DEF SealStat, Job
  <2>5. FinalJob'
    BY <2>4 DEF FinalJob
  <2>6. segments' = segments /\ pc' \in {"open", "seal"}
    BY <1>8, Frames DEF SealStat
  <2> QED BY <1>7, <1>8, <2>3, <2>4, <2>5, <2>6 DEF SealStat
<1>9. CASE EventStat
  <2>1. segments' = segments /\ pc = "eventstat"
    BY <1>9, Frames DEF EventStat
  <2>2. CASE segments[job.seq].synced_offset >= StatLen(job.seq)
    BY <1>2, <1>4, <1>9, <2>1, <2>2, SealBetween DEF EventStat, GoIdle, SyncPcs, Sealed
  <2>3. CASE ~(segments[job.seq].synced_offset >= StatLen(job.seq))
    <3>1. /\ pc' = "open" /\ job'.seq = job.seq /\ job'.size = StatLen(job.seq)
          /\ job'.caller = job.caller /\ job'.sealed = (segments[job.seq].state = "SEALED")
      BY <1>3, <1>9, <2>3 DEF EventStat, Job
    <3>2. job'.caller = "event" /\ job.seq \in Seqs
      BY <2>1, <3>1 DEF OriginInv, CallerKnown, TypeInv, JobInRange, InWork
    <3>3. FinalJob' => Closed(job.seq)
      BY <3>1, <3>2 DEF FinalJob, Sealed, SealInv, SealedIsFinal
    <3> QED BY <1>7, <2>1, <3>1, <3>3 DEF Sealed
  <2> QED BY <2>2, <2>3
<1>10. CASE RecordTail
  <2>1. job.seq \in Seqs
    BY <1>10 DEF RecordTail, TypeInv, JobInRange, InWork
  <2>2. \A s \in Seqs : Sealed(s)' => segments'[s] = segments[s]
    BY <1>3, <1>10, <2>1 DEF RecordTail, UpsertSegment, Row, Sealed
  <2> QED BY <1>2, <1>4, <1>10, <2>2, SealBetween DEF RecordTail, GoIdle, SyncPcs
<1> QED BY <1>5, <1>6, <1>8, <1>9, <1>10 DEF Tracker

LEMMA SealStep == TypeInv /\ OriginInv /\ SealInv /\ [Next]_vars => SealInv'
<1>1. ASSUME SealInv, CoolDown \/ UNCHANGED vars PROVE SealInv'
  BY <1>1, Frames
  DEF CoolDown, vars, SealInv, SealedIsFinal, FinalIsClosed, EventKnowsRow, SealIsFinal, RecordIsActive,
      MeasuredFinal, ActiveUnsealed, FinalJob, Sealed, Closed, OnDisk
<1>2. ASSUME SealInv, Start PROVE SealInv'
  <2>1. SealedIsFinal' /\ ActiveUnsealed' /\ pc' = "list"
    BY <1>2, Frames
    DEF Start, SealInv, SealedIsFinal, ActiveUnsealed, Sealed, Closed, OnDisk
  <2> QED BY <2>1, SealBetween DEF SyncPcs
<1>3. ASSUME SealInv, Crash PROVE SealInv'
  BY <1>3, SealHalt, Frames DEF Crash
<1> QED BY <1>1, <1>2, <1>3, SealProbe, SealBus, SealCold, SealTracker DEF Next, Daemon

LEMMA SealInvariant == Spec => [](TypeInv /\ OriginInv /\ SealInv)
<1>1. Init => TypeInv /\ OriginInv /\ SealInv
  BY TypeInit, OriginInit, SealInit
<1>2. TypeInv /\ OriginInv /\ SealInv /\ [Next]_vars => (TypeInv /\ OriginInv /\ SealInv)'
  BY TypeStep, OriginStep, SealStep
<1> QED BY <1>1, <1>2, PTL DEF Spec

(* A segment is SEALED in the ledger only once the probe has left it, with  *)
(* the size and the hash it will keep.                                      *)
THEOREM SealedRowsAreFinal == Spec => []SealedIsFinal
<1>1. SealInv => SealedIsFinal
  BY DEF SealInv
<1> QED BY <1>1, SealInvariant, PTL

(* A step that changes the rows and may write UNFINISHED is one of two, and *)
(* neither does it to a SEALED row.                                         *)
LEMMA NoUnsealStep ==
  ASSUME TypeInv, OriginInv, SealInv, [Next]_vars, NEW s \in Seqs, Sealed(s)
  PROVE  ~Unfinished(s)'
<1>1. job \in Job /\ segments \in [Seqs -> Row] /\ evt.seq \in Seqs
  BY DEF TypeInv, TypeOK, Event
<1>2. segments[s].state = "SEALED" /\ "SEALED" # "UNFINISHED"
  BY DEF Sealed
<1>3. ASSUME segments' = segments PROVE ~Unfinished(s)'
  BY <1>2, <1>3 DEF Unfinished
<1>4. CASE Probe \/ Start \/ Crash \/ CoolDown \/ UNCHANGED vars
  BY <1>3, <1>4, Frames
  DEF Probe, CreateSegment, AppendRecord, UnlinkOldest, Start, Crash, CoolDown, vars
<1>5. CASE Bus
  <2>1. CASE SealRow
    BY <1>2, <2>1, SealedRow DEF SealRow, Unfinished
  <2>2. CASE ~SealRow
    BY <1>3, <1>5, <2>2, Frames
    DEF Bus, OpenFile, PublishBatch, ReadError, FileSynced, SendSeal
  <2> QED BY <2>1, <2>2
<1>6. CASE ColdStart
  <2>1. CASE PlanSegments
    BY <1>2, <2>1 DEF PlanSegments, DropUnlisted, NoRow, Unfinished
  <2>2. CASE ColdActive
    <3>1. job.seq # s
      BY <2>2 DEF ColdActive, SealInv, ActiveUnsealed
    <3> QED BY <1>1, <1>2, <2>2, <3>1 DEF ColdActive, UpsertSegment, Unfinished
  <2>3. CASE ~PlanSegments /\ ~ColdActive
    BY <1>3, <1>6, <2>3, Frames
    DEF ColdStart, ListDir, StatDir, StatPanic, PlanPanic, Panic, ColdSkip, ColdSync,
        ColdGone, ColdSealed, StartWatching
  <2> QED BY <2>1, <2>2, <2>3
<1>7. CASE Tracker
  <2>1. CASE WakeRemoved \/ SealGone
    BY <1>1, <1>2, <2>1 DEF WakeRemoved, SealGone, DeleteSegment, NoRow, Unfinished
  <2>2. CASE RecordTail
    <3>1. job.seq # s
      BY <2>2 DEF RecordTail, SealInv, RecordIsActive
    <3> QED BY <1>1, <1>2, <2>2, <3>1 DEF RecordTail, UpsertSegment, Unfinished
  <2>3. CASE ~(WakeRemoved \/ SealGone) /\ ~RecordTail
    BY <1>3, <1>7, <2>3, Frames
    DEF Tracker, AbsorbEvent, AcceptEvent, WakeChanged, SealSkip, SealExists, SealStat,
        SealLoopEnd, EventStat
  <2> QED BY <2>1, <2>2, <2>3
<1> QED BY <1>4, <1>5, <1>6, <1>7 DEF Next, Daemon

(* A row leaves SEALED only by deletion.                                    *)
THEOREM SealedRowsStay == Spec => NoUnseal
<1>1. ASSUME TypeInv, OriginInv, SealInv, [Next]_vars
      PROVE  [\A s \in Seqs : Sealed(s) => ~Unfinished(s)']_vars
  BY <1>1, NoUnsealStep
<1> QED BY <1>1, SealInvariant, PTL DEF Spec, NoUnseal

----------------------------------------------------------------------------
(* Layer 4.                                                                 *)

LEMMA AnnounceInit == Init => AnnounceInv
BY DEF Init, AnnounceInv, SealsFinal, OpenedFinal, MeasureCovered, SealCovered

(* Every step that neither sends a seal nor leaves the daemon in a sync.    *)
LEMMA AnnounceBetween ==
  ASSUME AnnounceInv, UNCHANGED <<size, created, oldest, put, seals>>, faults' = faults,
         pc' \notin {"send", "measure", "seal", "announce"}
  PROVE  AnnounceInv'
BY DEF AnnounceInv, SealsFinal, OpenedFinal, MeasureCovered, SealCovered, Closed, OnDisk

LEMMA AnnounceProbe == TypeInv /\ SealInv /\ AnnounceInv /\ Probe => AnnounceInv'
<1> SUFFICES ASSUME TypeInv, SealInv, AnnounceInv, Probe PROVE AnnounceInv'
  OBVIOUS
<1>1. UNCHANGED <<pc, evt, job, scan, segments, put, seals, faults>>
  BY Frames DEF Probe, CreateSegment, AppendRecord, UnlinkOldest
<1>2. SealsFinal'
  <2>1. \A sig \in seals : sig[1] \in Seqs
    BY DEF TypeInv, TypeOK
  <2> QED BY <1>1, <2>1, ClosedStays DEF AnnounceInv, SealsFinal
<1>3. FinalJob' <=> FinalJob
  BY <1>1 DEF FinalJob, Sealed
<1>4. pc \in SyncPcs \cup {"measure"} /\ FinalJob => job.seq \in Seqs /\ Closed(job.seq)
  BY DEF TypeInv, JobInRange, InWork, SealInv, FinalIsClosed
<1>5. pc \in {"seal", "announce"} => FinalJob
  BY DEF SealInv, SealIsFinal
<1>6. OpenedFinal' /\ MeasureCovered' /\ SealCovered'
  BY <1>1, <1>3, <1>4, <1>5, ClosedStays
  DEF AnnounceInv, OpenedFinal, MeasureCovered, SealCovered, SyncPcs
<1> QED BY <1>2, <1>6 DEF AnnounceInv

LEMMA AnnounceBus ==
  TypeInv /\ CoverInv /\ SealInv /\ AnnounceInv /\ Bus => AnnounceInv'
<1> SUFFICES ASSUME TypeInv, CoverInv, SealInv, AnnounceInv, Bus PROVE AnnounceInv'
  OBVIOUS
<1> USE DEF AnnounceInv
<1>1. UNCHANGED <<size, created, oldest, scan>>
  BY Frames DEF Bus, OpenFile, PublishBatch, ReadError, FileSynced, SealRow, SendSeal
<1>2. /\ pc \in SyncPcs /\ job \in Job /\ job.caller \in Callers /\ job.seq \in Seqs
      /\ job.off \in Nat /\ job.end \in Nat /\ job.size \in Nat /\ faults \in Nat
  BY BoundsAssumption
  DEF Bus, OpenFile, PublishBatch, ReadError, FileSynced, SealRow, SendSeal, SyncPcs,
      TypeInv, TypeOK, JobInRange, InWork, Job, Sizes
<1>3. size \in [Seqs -> Sizes] /\ put \in [Seqs -> SUBSET Sizes]
  BY DEF TypeInv, TypeOK
<1>4. CASE OpenFile
  <2>1. /\ job'.caller = job.caller /\ job'.seq = job.seq /\ pc' = "send"
        /\ OnDisk(job.seq) => job'.end = size[job.seq]
    BY <1>2, <1>4 DEF OpenFile, Job
  <2>2. UNCHANGED <<segments, put, seals, faults>>
    BY <1>4, Frames DEF OpenFile
  <2> QED BY <1>1, <2>1, <2>2
          DEF SealsFinal, OpenedFinal, MeasureCovered, SealCovered, Closed, OnDisk
<1>5. CASE PublishBatch
  <2>1. /\ job'.caller = job.caller /\ job'.seq = job.seq /\ job'.end = job.end
        /\ job'.sealed = job.sealed /\ pc = "send" /\ pc' = "send" /\ UNCHANGED <<segments, seals>>
        /\ faults' = 0 => faults = 0
        /\ \A s \in Seqs : put[s] \subseteq put'[s]
    BY <1>2, <1>3, <1>5 DEF PublishBatch, Job
  <2>2. \A sig \in seals : sig[1] \in Seqs
    BY DEF TypeInv, TypeOK
  <2>3. SealsFinal'
    BY <1>1, <2>1, <2>2 DEF SealsFinal, Closed, OnDisk
  <2> QED BY <1>1, <2>1, <2>3
          DEF OpenedFinal, MeasureCovered, SealCovered, FinalJob, Sealed, OnDisk
<1>6. CASE ReadError
  <2>1. pc' = "send" /\ faults' # 0 /\ seals' = seals
    BY <1>2, <1>6, Frames DEF ReadError
  <2> QED BY <1>1, <2>1
          DEF SealsFinal, OpenedFinal, MeasureCovered, SealCovered, Closed, OnDisk
<1>7. CASE FileSynced
  <2>1. UNCHANGED <<segments, job, put, seals, faults>> /\ pc = "send" /\ job.off >= job.end
    BY <1>7, Frames DEF FileSynced
  <2>2. ASSUME FinalJob, OnDisk(job.seq), faults = 0
        PROVE  Records(0, size[job.seq]) \subseteq put[job.seq]
    <3>1. job.end = size[job.seq]
      BY <2>1, <2>2 DEF OpenedFinal
    <3>2. Records(0, job.off) \subseteq put[job.seq]
      BY <2>1 DEF CoverInv, JobCovered, SyncPcs
    <3> QED BY <1>2, <2>1, <3>1, <3>2 DEF Records
  <2>3. pc' = "seal" => FinalJob /\ (OnDisk(job.seq) => job.size = size[job.seq])
    BY <1>2, <1>7, <2>1
    DEF FileSynced, FinalJob, Sealed, Callers, SealInv, MeasuredFinal
  <2>4. pc' \in {"measure", "seal", "record"}
    BY <1>2, <1>7 DEF FileSynced, Callers
  <2>5. FinalJob' <=> FinalJob
    BY <1>1, <2>1 DEF FinalJob, Sealed
  <2> QED BY <1>1, <2>1, <2>2, <2>3, <2>4, <2>5
          DEF SealsFinal, OpenedFinal, MeasureCovered, SealCovered, Closed, OnDisk
<1>8. CASE SealRow
  <2>1. UNCHANGED <<job, put, seals, faults>> /\ pc = "seal" /\ pc' = "announce"
    BY <1>8, Frames DEF SealRow
  <2> QED BY <1>1, <2>1
          DEF SealsFinal, OpenedFinal, MeasureCovered, SealCovered, Closed, OnDisk
<1>9. CASE SendSeal
  <2>1. /\ pc = "announce" /\ pc' \in {"cold", "sealing", "idle"} /\ put' = put
        /\ seals' = seals \/ seals' = seals \cup {<<job.seq, job.size>>}
        /\ faults' = 0 => faults = 0
    BY <1>2, <1>9 DEF SendSeal, Return, GoIdle, NextInLoop
  <2>2. /\ Closed(job.seq)
        /\ OnDisk(job.seq) =>
             /\ job.size = size[job.seq]
             /\ faults = 0 => Records(0, job.size) \subseteq put[job.seq]
    BY <2>1 DEF SealInv, SealIsFinal, FinalIsClosed, MeasuredFinal, SealCovered, SyncPcs
  <2>3. SealsFinal'
    BY <1>1, <2>1, <2>2 DEF SealsFinal, Closed, OnDisk
  <2> QED BY <2>1, <2>3 DEF OpenedFinal, MeasureCovered, SealCovered
<1> QED BY <1>4, <1>5, <1>6, <1>7, <1>8, <1>9 DEF Bus

LEMMA AnnounceCold ==
  TypeInv /\ OriginInv /\ AnnounceInv /\ ColdStart => AnnounceInv'
<1> SUFFICES ASSUME TypeInv, OriginInv, AnnounceInv, ColdStart PROVE AnnounceInv'
  OBVIOUS
<1>1. UNCHANGED <<size, created, oldest, put, seals, faults>>
  BY Frames DEF ColdStart, ListDir, StatDir, StatPanic, PlanSegments, PlanPanic, Panic,
     ColdSkip, ColdSync, ColdGone, ColdActive, ColdSealed, StartWatching
<1>2. CASE ColdSealed
  <2>1. /\ job'.seq = job.seq /\ job'.size = size[job.seq] /\ job.caller = "cold"
        /\ pc = "measure" /\ pc' = "seal" /\ ~IsPresentMax(scan, job.seq)
    BY <1>2 DEF ColdSealed, TypeInv, TypeOK, Job, OriginInv, CallerKnown
  <2>2. FinalJob
    BY <2>1 DEF FinalJob
  <2> QED BY <1>1, <2>1, <2>2
          DEF AnnounceInv, SealsFinal, OpenedFinal, MeasureCovered, SealCovered, Closed,
              OnDisk
<1>3. CASE ~ColdSealed
  <2>1. pc' \in {"stat", "plan", "down", "cold", "open", "idle"}
    BY <1>3 DEF ColdStart, ListDir, StatDir, StatPanic, PlanSegments, PlanPanic, Panic,
       Halt, ColdSkip, ColdSync, ColdGone, ColdActive, StartWatching, NextInLoop
  <2> QED BY <1>1, <2>1, AnnounceBetween
<1> QED BY <1>2, <1>3

LEMMA AnnounceTracker ==
  TypeInv /\ CoverInv /\ AnnounceInv /\ Tracker => AnnounceInv'
<1> SUFFICES ASSUME TypeInv, CoverInv, AnnounceInv, Tracker PROVE AnnounceInv'
  OBVIOUS
<1>1. UNCHANGED <<size, created, oldest, put, seals, faults>>
  BY Frames DEF Tracker, AbsorbEvent, AcceptEvent, WakeRemoved, WakeChanged, SealSkip,
     SealGone, SealExists, SealStat, SealLoopEnd, EventStat, RecordTail
<1>2. CASE SealStat /\ pc' = "seal"
  <2>1. job.seq \in Seqs
    BY <1>2 DEF SealStat, TypeInv, JobInRange, InWork
  <2>2. segments[job.seq].synced_offset \in Nat /\ StatLen(job.seq) \in Nat
    BY <2>1, BoundsAssumption DEF TypeInv, TypeOK, Row, Sizes, StatLen
  <2>3. job'.seq = job.seq /\ job'.size = StatLen(job.seq)
    BY <1>2 DEF SealStat, TypeInv, TypeOK, Job
  <2>4. segments[job.seq].synced_offset >= StatLen(job.seq)
    BY <1>2, <2>2 DEF SealStat
  <2>5. Records(0, StatLen(job.seq)) \subseteq put[job.seq]
    BY <2>1, <2>2, <2>4 DEF CoverInv, LedgerCovered, Records
  <2> QED BY <1>1, <1>2, <2>3, <2>5
          DEF AnnounceInv, SealsFinal, OpenedFinal, MeasureCovered, SealCovered, Closed,
              OnDisk
<1>3. CASE ~(SealStat /\ pc' = "seal")
  <2>1. pc' \notin {"send", "measure", "seal", "announce"}
    BY <1>3 DEF Tracker, AbsorbEvent, AcceptEvent, WakeRemoved, WakeChanged, SealSkip,
       SealGone, SealExists, SealStat, SealLoopEnd, EventStat, RecordTail, GoIdle,
       NextInLoop
  <2> QED BY <1>1, <2>1, AnnounceBetween
<1> QED BY <1>2, <1>3

LEMMA AnnounceStep ==
  TypeInv /\ CoverInv /\ OriginInv /\ SealInv /\ AnnounceInv /\ [Next]_vars => AnnounceInv'
<1>1. ASSUME AnnounceInv, CoolDown \/ UNCHANGED vars PROVE AnnounceInv'
  BY <1>1, Frames
  DEF CoolDown, vars, AnnounceInv, SealsFinal, OpenedFinal, MeasureCovered, SealCovered,
      FinalJob, Sealed, Closed, OnDisk
<1>2. ASSUME AnnounceInv, Start \/ Crash PROVE AnnounceInv'
  BY <1>2, AnnounceBetween, Frames DEF Start, Crash, Halt
<1> QED BY <1>1, <1>2, AnnounceProbe, AnnounceBus, AnnounceCold, AnnounceTracker
        DEF Next, Daemon

LEMMA AnnounceInvariant ==
  Spec => [](TypeInv /\ CoverInv /\ OriginInv /\ SealInv /\ AnnounceInv)
<1> DEFINE I == TypeInv /\ CoverInv /\ OriginInv /\ SealInv /\ AnnounceInv
<1>1. Init => I
  BY TypeInit, CoverInit, OriginInit, SealInit, AnnounceInit
<1>2. I /\ [Next]_vars => I'
  BY TypeStep, CoverStep, OriginStep, SealStep, AnnounceStep
<1> HIDE DEF I
<1>3. Spec => []I
  BY <1>1, <1>2, PTL DEF Spec
<1> QED BY <1>3 DEF I

(* A seal signal names a closed segment with its final size and, as long as *)
(* no put and no read has failed, comes after all its records.              *)
THEOREM SealsAreFinal == Spec => []SealsFinal
<1>1. AnnounceInv => SealsFinal
  BY DEF AnnounceInv
<1> QED BY <1>1, AnnounceInvariant, PTL
=============================================================================
