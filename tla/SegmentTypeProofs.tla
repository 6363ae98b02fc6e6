------------------------- MODULE SegmentTypeProofs -------------------------
(***************************************************************************)
(* Type correctness of SegmentSync, on which every later proof rests.       *)
(***************************************************************************)
EXTENDS SegmentInv, TLAPS

TypeInv == TypeOK /\ JobInRange

LEMMA LedgerTypes ==
  ASSUME NEW t \in [Seqs -> Row], NEW s \in Seqs, NEW synced \in Sizes
  PROVE  /\ UpsertSegment(t, s, synced) \in [Seqs -> Row]
         /\ DeleteSegment(t, s) \in [Seqs -> Row]
         /\ \A n \in Sizes, h \in {ZeroHash} \cup Sizes :
              SealSegment(t, s, n, h, synced) \in [Seqs -> Row]
         /\ \A scan0 : DropUnlisted(t, scan0) \in [Seqs -> Row]
<1>1. NoRow \in Row
  BY BoundsAssumption DEF NoRow, Row, Sizes
<1>2. UpsertSegment(t, s, synced) \in [Seqs -> Row]
  BY DEF UpsertSegment, Row
<1>3. DeleteSegment(t, s) \in [Seqs -> Row]
  BY <1>1 DEF DeleteSegment
<1>4. ASSUME NEW n \in Sizes, NEW h \in {ZeroHash} \cup Sizes
      PROVE  SealSegment(t, s, n, h, synced) \in [Seqs -> Row]
  BY DEF SealSegment, Row
<1>5. ASSUME NEW scan0 PROVE DropUnlisted(t, scan0) \in [Seqs -> Row]
  BY <1>1 DEF DropUnlisted
<1> QED BY <1>2, <1>3, <1>4, <1>5

LEMMA PlanType ==
  ASSUME NEW t \in [Seqs -> Row], NEW sc, NEW content, NEW s \in Seqs
  PROVE  PlanSegment(t, sc, content, s) \in Sizes \cup {Skip}
  BY BoundsAssumption DEF PlanSegment, TailSync, Row, Sizes

LEMMA LoopTypes ==
  ASSUME TypeOK, NEW c \in Callers, NEW s \in -1 .. MaxSeq
  PROVE  /\ NextInLoop(c, s) => job' \in Job /\ evt' \in Event
                                /\ pc' \in {"cold", "sealing"}
         /\ GoIdle => job' \in Job /\ evt' \in Event /\ pc' = "idle"
<1>1. NoJob \in Job /\ NoEvent \in Event
  BY BoundsAssumption DEF NoJob, Job, Callers, NoEvent, Event, Kinds, Seqs, Sizes
<1>2. [NoJob EXCEPT !.caller = c, !.seq = s + 1] \in Job
  <2>1. s + 1 \in 0 .. MaxSeq + 1
    BY BoundsAssumption
  <2> QED BY <1>1, <2>1 DEF Job
<1> QED BY <1>1, <1>2 DEF TypeOK, NextInLoop, GoIdle

LEMMA HaltTypes ==
  ASSUME TypeOK, Halt
  PROVE  /\ pc' = "down" /\ online' \in BOOLEAN /\ watching' \in BOOLEAN
         /\ events' \in Seq(Event) /\ cool' \in Seqs \cup {NoSeg}
         /\ evt' \in Event /\ job' \in Job
         /\ scan' \in [Seqs -> Sizes \cup {Unlisted}]
         /\ plan' \in [Seqs -> Sizes \cup {Skip}]
<1>1. NoJob \in Job /\ NoEvent \in Event
  BY BoundsAssumption DEF NoJob, Job, Callers, NoEvent, Event, Kinds, Seqs, Sizes
<1>2. <<>> \in Seq(Event)
  OBVIOUS
<1>3. /\ [s \in Seqs |-> Unlisted] \in [Seqs -> Sizes \cup {Unlisted}]
      /\ [s \in Seqs |-> Skip] \in [Seqs -> Sizes \cup {Skip}]
  OBVIOUS
<1> QED BY <1>1, <1>2, <1>3 DEF Halt

LEMMA TypeInit == Init => TypeInv
<1> SUFFICES ASSUME Init PROVE TypeInv
  OBVIOUS
<1>1. NoJob \in Job /\ NoEvent \in Event /\ NoRow \in Row
  BY BoundsAssumption DEF NoJob, Job, Callers, NoEvent, Event, Kinds, Seqs, Sizes,
     NoRow, Row
<1>2. TypeOK
  <2>1. 0 \in Sizes /\ 0 \in 0 .. MaxSeq /\ 0 \in 0 .. MaxSeq + 1
    BY BoundsAssumption DEF Sizes
  <2>2. <<>> \in Seq(Event) /\ 0 \in 0 .. MaxCrashes /\ 0 \in 0 .. MaxFaults
    BY FaultsAssumption
  <2> QED BY <1>1, <2>1, <2>2 DEF Init, TypeOK
<1>3. JobInRange
  BY DEF Init, JobInRange, InWork, SyncPcs
<1> QED BY <1>2, <1>3 DEF TypeInv

LEMMA ProbeTypes == TypeInv /\ Probe => TypeInv'
<1> SUFFICES ASSUME TypeInv, Probe PROVE TypeInv'
  OBVIOUS
<1>1. ASSUME NEW k \in Kinds, NEW s \in Seqs, Notify(k, s) PROVE events' \in Seq(Event)
  <2>1. [kind |-> k, seq |-> s] \in Event
    BY DEF Event
  <2> QED BY <1>1, <2>1 DEF Notify, TypeInv, TypeOK
<1>2. ProbeFrame => /\ UNCHANGED <<segments, dirty, put, sent, seals, watching, cool>>
                    /\ UNCHANGED <<online, pc, evt, job, scan, plan, crashes, faults>>
  BY DEF ProbeFrame, ledgerVars, wireVars, coldVars, bounds
<1>3. CASE CreateSegment
  <2>1. created \in Seqs /\ created + 1 \in 0 .. MaxSeq + 1
    BY <1>3, BoundsAssumption DEF CreateSegment, TypeInv, TypeOK, Seqs
  <2> QED BY <1>1, <1>2, <1>3, <2>1 DEF CreateSegment, Kinds, TypeInv, TypeOK, JobInRange
<1>4. CASE AppendRecord
  <2>1. created - 1 \in Seqs
    BY <1>4, BoundsAssumption DEF AppendRecord, TypeInv, TypeOK, Seqs
  <2>2. size' \in [Seqs -> Sizes]
    BY <1>4, <2>1, BoundsAssumption DEF AppendRecord, TypeInv, TypeOK, Sizes
  <2> QED BY <1>1, <1>2, <1>4, <2>1, <2>2 DEF AppendRecord, Kinds, TypeInv, TypeOK, JobInRange
<1>5. CASE UnlinkOldest
  <2>1. oldest \in Seqs /\ oldest + 1 \in 0 .. MaxSeq
    BY <1>5, BoundsAssumption DEF UnlinkOldest, Closed, TypeInv, TypeOK, Seqs
  <2> QED BY <1>1, <1>2, <1>5, <2>1 DEF UnlinkOldest, Kinds, TypeInv, TypeOK, JobInRange
<1> QED BY <1>3, <1>4, <1>5 DEF Probe

LEMMA StopTypes ==
  ASSUME TypeInv, Halt, crashes' \in 0 .. MaxCrashes,
         UNCHANGED <<probeVars, ledgerVars, wireVars, faults>>
  PROVE  TypeInv'
<1>1. JobInRange'
  BY DEF Halt, JobInRange, InWork, SyncPcs
<1>2. TypeOK'
  BY HaltTypes DEF TypeInv, TypeOK, probeVars, ledgerVars, wireVars
<1> QED BY <1>1, <1>2 DEF TypeInv

LEMMA LifeTypes ==
  TypeInv /\ (Start \/ Crash \/ StatPanic \/ PlanPanic \/ CoolDown) => TypeInv'
<1>1. ASSUME TypeInv, Start PROVE TypeInv'
  BY <1>1, SessionsAssumption
  DEF Start, TypeInv, TypeOK, JobInRange, InWork, SyncPcs, ColdPcs, probeVars,
      ledgerVars, wireVars, watchVars, coldVars, bounds
<1>2. ASSUME TypeInv, Crash PROVE TypeInv'
  <2>1. crashes' \in 0 .. MaxCrashes
    BY <1>2, FaultsAssumption DEF Crash, TypeInv, TypeOK
  <2> QED BY <1>2, <2>1, StopTypes DEF Crash
<1>3. ASSUME TypeInv, Panic PROVE TypeInv'
  BY <1>3, StopTypes DEF Panic, TypeInv, TypeOK, bounds
<1>4. ASSUME TypeInv, CoolDown PROVE TypeInv'
  BY <1>4 DEF CoolDown, LoopFrame, TypeInv, TypeOK, JobInRange, probeVars, ledgerVars,
      wireVars, coldVars, bounds
<1> QED BY <1>1, <1>2, <1>3, <1>4 DEF StatPanic, PlanPanic

LEMMA BusTypes == TypeInv /\ Bus => TypeInv'
<1> SUFFICES ASSUME TypeInv, Bus PROVE TypeInv'
  OBVIOUS
<1> USE BoundsAssumption DEF TypeInv
<1>1. pc \in SyncPcs /\ job.seq \in Seqs
  BY DEF Bus, OpenFile, PublishBatch, ReadError, FileSynced, SealRow, SendSeal,
         SyncPcs, JobInRange, InWork
<1>2. SyncFrame => /\ UNCHANGED <<size, created, oldest, dirty, watching, events, cool>>
                   /\ UNCHANGED <<online, scan, plan, crashes>>
  BY DEF SyncFrame, probeVars, watchVars, coldVars
<1>3. job \in Job /\ job.caller \in Callers /\ job.off \in Sizes /\ job.end \in Sizes
      /\ job.size \in Sizes
  BY DEF TypeOK, Job
<1>4. CASE OpenFile
  <2>1. job' \in Job /\ job'.seq = job.seq
    BY <1>1, <1>3, <1>4 DEF OpenFile, Job, TypeOK
  <2> QED BY <1>1, <1>2, <1>4, <2>1
          DEF OpenFile, wireVars, TypeOK, JobInRange, SyncPcs
<1>5. CASE PublishBatch
  <2>1. PICK n \in job.off + 1 .. job.end :
          /\ job' = [job EXCEPT !.off = n]
          /\ put' = [put EXCEPT ![job.seq] = @ \cup Records(job.off, n)]
          /\ sent' \in {sent, [sent EXCEPT ![job.seq] = @ \cup Records(job.off, n)]}
          /\ faults' = faults \/ (faults < MaxFaults /\ faults' = faults + 1)
    BY <1>5 DEF PublishBatch
  <2>2. n \in Sizes /\ Records(job.off, n) \subseteq Sizes
    BY <1>3, <2>1 DEF Records, Sizes
  <2>3. job' \in Job /\ job'.seq = job.seq
    BY <1>3, <2>1, <2>2 DEF Job
  <2>4. put' \in [Seqs -> SUBSET Sizes] /\ sent' \in [Seqs -> SUBSET Sizes]
    BY <1>1, <2>1, <2>2 DEF TypeOK
  <2>5. faults' \in 0 .. MaxFaults
    BY <2>1, FaultsAssumption DEF TypeOK
  <2> QED BY <1>1, <1>2, <1>5, <2>3, <2>4, <2>5 DEF PublishBatch, TypeOK, JobInRange
<1>6. CASE ReadError
  <2>1. job' \in Job /\ job'.seq = job.seq
    BY <1>3, <1>6 DEF ReadError, Job
  <2>2. faults' \in 0 .. MaxFaults
    BY <1>6, FaultsAssumption DEF ReadError, TypeOK
  <2> QED BY <1>1, <1>2, <1>6, <2>1, <2>2 DEF ReadError, wireVars, TypeOK, JobInRange
<1>7. CASE FileSynced
  <2>1. pc' \in {"measure", "seal", "record"}
    BY <1>3, <1>7 DEF FileSynced, Callers
  <2> QED BY <1>1, <1>2, <1>7, <2>1
          DEF FileSynced, wireVars, TypeOK, JobInRange, ColdPcs, SyncPcs, LoopPcs
<1>8. CASE SealRow
  <2>1. FileHash(job.seq) \in {ZeroHash} \cup Sizes
    BY <1>1 DEF FileHash, TypeOK
  <2>2. segments' \in [Seqs -> Row]
    BY <1>1, <1>3, <1>8, <2>1, LedgerTypes DEF SealRow, TypeOK
  <2> QED BY <1>1, <1>2, <1>8, <2>2 DEF SealRow, wireVars, TypeOK, JobInRange, SyncPcs
<1>9. CASE SendSeal
  <2>1. seals' \subseteq Seqs \X Sizes
    BY <1>1, <1>3, <1>9 DEF SendSeal, TypeOK
  <2>2. faults' \in 0 .. MaxFaults
    BY <1>9, FaultsAssumption DEF SendSeal, TypeOK
  <2>3. job.seq \in -1 .. MaxSeq
    BY <1>1 DEF Seqs
  <2>4. job' \in Job /\ evt' \in Event /\ pc' \in {"cold", "sealing", "idle"}
    BY <1>3, <1>9, <2>3, LoopTypes DEF SendSeal, Return
  <2> QED BY <1>2, <1>9, <2>1, <2>2, <2>4
          DEF SendSeal, TypeOK, JobInRange, InWork, ColdPcs, SyncPcs, LoopPcs
<1> QED BY <1>4, <1>5, <1>6, <1>7, <1>8, <1>9 DEF Bus

LEMMA ColdTypes == TypeInv /\ ColdStart => TypeInv'
<1> SUFFICES ASSUME TypeInv, ColdStart PROVE TypeInv'
  OBVIOUS
<1> USE BoundsAssumption DEF TypeInv
<1>1. ColdFrame => /\ UNCHANGED <<size, created, oldest, dirty, put, sent, seals>>
                   /\ UNCHANGED <<online, evt, crashes, faults>>
  BY DEF ColdFrame, probeVars, wireVars, bounds
<1>2. watchVars' = watchVars => UNCHANGED <<watching, events, cool>>
  BY DEF watchVars
<1>3. coldVars' = coldVars => UNCHANGED <<scan, plan>>
  BY DEF coldVars
<1>4. CASE ListDir
  <2>1. scan' \in [Seqs -> Sizes \cup {Unlisted}]
    BY <1>4 DEF ListDir, Sizes
  <2> QED BY <1>1, <1>2, <1>4, <2>1
          DEF ListDir, TypeOK, JobInRange, InWork, SyncPcs, ColdPcs
<1>5. CASE StatDir
  <2>1. scan' \in [Seqs -> Sizes \cup {Unlisted}]
    BY <1>5 DEF StatDir, TypeOK
  <2> QED BY <1>1, <1>2, <1>5, <2>1
          DEF StatDir, TypeOK, JobInRange, InWork, SyncPcs, ColdPcs
<1>6. CASE PlanSegments
  <2>1. plan' \in [Seqs -> Sizes \cup {Skip}]
    BY <1>6, PlanType DEF PlanSegments, TypeOK
  <2>2. segments' \in [Seqs -> Row]
    <3>1. 0 \in Seqs /\ 0 \in Sizes
      BY DEF Seqs, Sizes
    <3> QED BY <1>6, <3>1, LedgerTypes DEF PlanSegments, TypeOK
  <2>3. job' \in Job /\ evt' \in Event /\ pc' = "cold"
    <3>1. NextInLoop("cold", -1)
      BY <1>6 DEF PlanSegments
    <3>2. -1 \in -1 .. MaxSeq /\ "cold" \in Callers
      BY DEF Callers
    <3>3. job' \in Job /\ evt' \in Event
      BY <3>1, <3>2, LoopTypes
    <3> QED BY <3>1, <3>3 DEF NextInLoop
  <2> QED BY <1>1, <1>2, <1>6, <2>1, <2>2, <2>3
          DEF PlanSegments, TypeOK, JobInRange, InWork, SyncPcs, ColdPcs
<1>7. job \in Job /\ job.seq \in 0 .. MaxSeq + 1
  BY DEF TypeOK, Job
<1>8. ASSUME NextInLoop("cold", job.seq), job.seq \in Seqs, segments' \in [Seqs -> Row],
             ColdFrame, UNCHANGED <<watchVars, coldVars>>
      PROVE  TypeInv'
  <2>1. job' \in Job /\ pc' = "cold"
    <3>1. job.seq \in -1 .. MaxSeq /\ "cold" \in Callers
      BY <1>8 DEF Callers, Seqs
    <3>2. job' \in Job
      BY <1>8, <3>1, LoopTypes
    <3> QED BY <1>8, <3>2 DEF NextInLoop
  <2> QED BY <1>1, <1>2, <1>3, <1>8, <2>1 DEF TypeOK, JobInRange, InWork, SyncPcs, ColdPcs
<1>9. CASE ColdSkip
  <2>1. job.seq \in Seqs
    BY <1>7, <1>9 DEF ColdSkip, Seqs
  <2>2. segments' \in [Seqs -> Row]
    BY <1>9 DEF ColdSkip, TypeOK
  <2> QED BY <1>8, <1>9, <2>1, <2>2 DEF ColdSkip
<1>10. CASE ColdSync
  <2>1. job.seq \in Seqs
    BY <1>7, <1>10 DEF ColdSync, Seqs
  <2>2. job' \in Job /\ job'.seq = job.seq
    BY <1>7, <1>10, <2>1 DEF ColdSync, TypeOK, Job
  <2> QED BY <1>1, <1>2, <1>3, <1>10, <2>1, <2>2 DEF ColdSync, TypeOK, JobInRange, SyncPcs
<1>11. ASSUME pc = "measure" PROVE job.seq \in Seqs
  BY <1>11 DEF JobInRange, InWork
<1>12. CASE ColdGone
  BY <1>8, <1>11, <1>12 DEF ColdGone, TypeOK
<1>13. CASE ColdActive
  <2>1. segments' \in [Seqs -> Row]
    BY <1>7, <1>11, <1>13, LedgerTypes DEF ColdActive, TypeOK, Job
  <2> QED BY <1>8, <1>11, <1>13, <2>1 DEF ColdActive
<1>14. CASE ColdSealed
  <2>1. job' \in Job /\ job'.seq = job.seq
    BY <1>7, <1>11, <1>14 DEF ColdSealed, TypeOK, Job
  <2> QED BY <1>1, <1>2, <1>3, <1>11, <1>14, <2>1
          DEF ColdSealed, TypeOK, JobInRange, SyncPcs
<1>15. CASE StartWatching
  <2>1. NoJob \in Job
    BY DEF NoJob, Job, Callers, Sizes
  <2> QED BY <1>1, <1>15, <2>1
          DEF StartWatching, TypeOK, JobInRange, InWork, SyncPcs, LoopPcs
<1> QED BY <1>4, <1>5, <1>6, <1>9, <1>10, <1>12, <1>13, <1>14, <1>15, LifeTypes DEF ColdStart

LEMMA TrackerTypes == TypeInv /\ Tracker => TypeInv'
<1> SUFFICES ASSUME TypeInv, Tracker PROVE TypeInv'
  OBVIOUS
<1> USE BoundsAssumption DEF TypeInv
<1>1. LoopFrame => /\ UNCHANGED <<size, created, oldest, put, sent, seals, watching>>
                   /\ UNCHANGED <<online, scan, plan, crashes, faults>>
  BY DEF LoopFrame, probeVars, wireVars, coldVars, bounds
<1>2. ledgerVars' = ledgerVars => UNCHANGED <<segments, dirty>>
  BY DEF ledgerVars
<1>3. /\ job \in Job /\ job.seq \in 0 .. MaxSeq + 1 /\ job.off \in Sizes
      /\ evt \in Event /\ evt.seq \in Seqs
  BY DEF TypeOK, Job, Event
<1>4. NoJob \in Job
  BY DEF NoJob, Job, Callers, Sizes
<1>5. /\ [NoJob EXCEPT !.caller = "seal"] \in Job
      /\ [NoJob EXCEPT !.caller = "event", !.seq = evt.seq] \in Job
      /\ [NoJob EXCEPT !.caller = "event", !.seq = evt.seq].seq = evt.seq
  <2>1. evt.seq \in 0 .. MaxSeq + 1
    BY <1>3 DEF Seqs
  <2>2. "seal" \in Callers /\ "event" \in Callers
    BY DEF Callers
  <2> QED BY <1>4, <2>1, <2>2 DEF Job
<1>6. ASSUME NEW s \in Seqs
      PROVE  StatLen(s) \in Sizes /\ segments[s].synced_offset \in Sizes
  BY DEF StatLen, TypeOK, Row, Sizes
<1>7. ASSUME pc = "idle", events # <<>>
      PROVE  Head(events) \in Event /\ Tail(events) \in Seq(Event)
             /\ Head(events).seq \in Seqs
  <2>1. events \in Seq(Event)
    BY DEF TypeOK
  <2>2. Head(events) \in Event /\ Tail(events) \in Seq(Event)
    BY <1>7, <2>1
  <2> QED BY <2>2 DEF Event
<1>8. CASE AbsorbEvent
  BY <1>1, <1>2, <1>7, <1>8 DEF AbsorbEvent, TypeOK, JobInRange
<1>9. CASE AcceptEvent
  BY <1>1, <1>7, <1>9 DEF AcceptEvent, TypeOK, JobInRange, InWork, SyncPcs, LoopPcs
<1>10. GoIdle => job' \in Job /\ evt' \in Event /\ pc' = "idle"
  <2>1. "seal" \in Callers /\ -1 \in -1 .. MaxSeq
    BY DEF Callers
  <2> QED BY <2>1, LoopTypes
<1>11. CASE WakeRemoved
  <2>1. segments' \in [Seqs -> Row]
    <3>1. 0 \in Sizes
      BY DEF Sizes
    <3> QED BY <1>3, <1>11, <3>1, LedgerTypes DEF WakeRemoved, TypeOK
  <2> QED BY <1>1, <1>3, <1>10, <1>11, <2>1
          DEF WakeRemoved, TypeOK, JobInRange, InWork, SyncPcs, LoopPcs
<1>12. CASE WakeChanged
  BY <1>1, <1>2, <1>3, <1>5, <1>12
  DEF WakeChanged, TypeOK, JobInRange, InWork, SyncPcs, LoopPcs
<1>13. ASSUME NextInLoop("seal", job.seq), job.seq < evt.seq, segments' \in [Seqs -> Row],
              LoopFrame, UNCHANGED <<dirty, events, cool>>
       PROVE  TypeInv'
  <2>1. job.seq \in -1 .. MaxSeq /\ "seal" \in Callers
    BY <1>3, <1>13 DEF Seqs, Callers
  <2>2. job' \in Job /\ evt' \in Event
    BY <1>13, <2>1, LoopTypes
  <2>3. pc' = "sealing"
    BY <1>13 DEF NextInLoop
  <2> QED BY <1>1, <1>13, <2>2, <2>3 DEF TypeOK, JobInRange, InWork, SyncPcs, LoopPcs
<1>14. CASE SealSkip
  BY <1>2, <1>13, <1>14 DEF SealSkip, TypeOK
<1>15. ASSUME job.seq < evt.seq PROVE job.seq \in Seqs
  BY <1>3, <1>15 DEF Seqs
<1>16. CASE SealGone
  <2>1. segments' \in [Seqs -> Row]
    <3>1. 0 \in Sizes
      BY DEF Sizes
    <3> QED BY <1>15, <1>16, <3>1, LedgerTypes DEF SealGone, TypeOK
  <2> QED BY <1>13, <1>16, <2>1 DEF SealGone
<1>17. CASE SealExists
  BY <1>1, <1>2, <1>15, <1>17 DEF SealExists, TypeOK, JobInRange, LoopPcs
<1>18. ASSUME pc \in {"sealstat", "eventstat"},
              job' = [job EXCEPT !.size = StatLen(job.seq),
                                 !.off = segments[job.seq].synced_offset]
       PROVE  job' \in Job /\ job'.seq = job.seq /\ job.seq \in Seqs
  <2>1. job.seq \in Seqs
    BY <1>18 DEF JobInRange, InWork
  <2> QED BY <1>3, <1>6, <1>18, <2>1 DEF Job
<1>19. CASE SealStat
  BY <1>1, <1>2, <1>18, <1>19 DEF SealStat, TypeOK, JobInRange, SyncPcs
<1>20. CASE SealLoopEnd
  BY <1>1, <1>2, <1>3, <1>5, <1>20 DEF SealLoopEnd, TypeOK, JobInRange, LoopPcs
<1>21. CASE EventStat
  <2>1. CASE segments[job.seq].synced_offset >= StatLen(job.seq)
    BY <1>1, <1>2, <1>10, <1>21, <2>1
    DEF EventStat, TypeOK, JobInRange, InWork, SyncPcs, LoopPcs
  <2>2. CASE ~(segments[job.seq].synced_offset >= StatLen(job.seq))
    <3>1. job.seq \in Seqs
      BY <1>21 DEF EventStat, JobInRange, InWork
    <3>2. job' \in Job /\ job'.seq = job.seq
      BY <1>3, <1>6, <1>21, <2>2, <3>1 DEF EventStat, Job
    <3> QED BY <1>1, <1>2, <1>21, <2>2, <3>1, <3>2 DEF EventStat, TypeOK, JobInRange, SyncPcs
  <2> QED BY <2>1, <2>2
<1>22. CASE RecordTail
  <2>1. job.seq \in Seqs
    BY <1>22 DEF RecordTail, JobInRange, InWork
  <2>2. segments' \in [Seqs -> Row]
    BY <1>3, <1>22, <2>1, LedgerTypes DEF RecordTail, TypeOK
  <2> QED BY <1>1, <1>10, <1>22, <2>2
          DEF RecordTail, TypeOK, JobInRange, InWork, SyncPcs, LoopPcs
<1> QED BY <1>8, <1>9, <1>11, <1>12, <1>14, <1>16, <1>17, <1>19, <1>20, <1>21, <1>22
        DEF Tracker

LEMMA TypeStep == TypeInv /\ [Next]_vars => TypeInv'
<1>1. ASSUME TypeInv, UNCHANGED vars PROVE TypeInv'
  BY <1>1 DEF vars, probeVars, ledgerVars, wireVars, watchVars, coldVars, bounds,
          TypeInv, TypeOK, JobInRange
<1> QED BY <1>1, ProbeTypes, LifeTypes, BusTypes, ColdTypes, TrackerTypes
        DEF Next, Daemon

LEMMA TypeInvariant == Spec => []TypeInv
BY TypeInit, TypeStep, PTL DEF Spec

(* Every variable keeps its type: in particular no loop over the segments   *)
(* runs past the last one and no record reaches beyond a full segment.      *)
THEOREM TypeCorrect == Spec => []TypeOK
<1>1. TypeInv => TypeOK
  BY DEF TypeInv
<1> QED BY <1>1, TypeInvariant, PTL
=============================================================================
