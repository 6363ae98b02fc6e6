---------------------------- MODULE FileProofs -----------------------------
(***************************************************************************)
(* Files that are not segments: each layer of FilesInv is preserved by      *)
(* other programs, by the scan, by cold start and by the tracker.           *)
(***************************************************************************)
EXTENDS FileInv, FiniteSetTheorems, SequenceTheorems, TLAPS

LEMMA Numbers ==
  /\ BatchSize \in Nat \ {0} /\ MaxLen \in Nat \ {0}
  /\ {MaxChanges, MaxCrashes, MaxFaults} \subseteq Nat
  /\ None \notin Files /\ Sessions \subseteq BOOLEAN
BY BatchAssumption, FileAssumption

LEMMA Bounds ==
  /\ 0 \in Times /\ 1 \in Times /\ 0 \in Lengths /\ 1 \in Lengths
  /\ \A n \in Times : n \in Nat
  /\ \A n \in Lengths : n \in Nat /\ n <= MaxLen
  /\ \A m \in Nat : m <= MaxLen => m \in Lengths
  /\ \A m \in Nat : m <= MaxChanges + 1 => m \in Times
BY Numbers DEF Times, Lengths

----------------------------------------------------------------------------
(* Types.                                                                   *)

LEMMA TypeInit == Init => FileTypeOK
<1> SUFFICES ASSUME Init PROVE FileTypeOK
  OBVIOUS
<1> USE Numbers, Bounds
<1>1. disk \in [Files -> Nodes]
  BY DEF Init, Absent, Nodes
<1>2. /\ ckpt \in [Files -> [mtime : Times, off : Lengths, ino : Times]]
      /\ temp \in [Files -> Kept]
  <2>1. /\ NoCkpt \in [mtime : Times, off : Lengths, ino : Times]
        /\ NoRow \in Kept
    BY DEF NoCkpt, Kept
  <2>2. ckpt = [f \in Files |-> NoCkpt] /\ temp = [f \in Files |-> NoRow]
    BY DEF Init, ScanIdle
  <2> HIDE Numbers, Bounds
  <2> QED BY <2>1, <2>2
<1>3. /\ walk \in [at : {"off", "outer", "inner", "done", "failed"}, todo : SUBSET Files,
                   held : Seq(Rows)]
      /\ Len(walk.held) <= 1
  BY DEF Init, ScanIdle, NotWalking
<1>4. /\ chan \in Seq(Rows) /\ Len(chan) <= 2 * BatchSize
      /\ batch \in Seq(Rows) /\ Len(batch) < BatchSize
  BY DEF Init, ScanIdle
<1>5. job \in Jobs
  BY DEF Init, NoJob, Jobs
<1>6. /\ scanned \in {"no", "ok", "err"}
      /\ clock \in 1 .. MaxChanges + 1
      /\ crashes \in 0 .. MaxCrashes /\ faults \in 0 .. MaxFaults
      /\ events \in Seq(Events) /\ Len(events) < clock
  BY DEF Init, ScanIdle
<1> HIDE Numbers, Bounds
<1> QED BY <1>1, <1>2, <1>3, <1>4, <1>5, <1>6 DEF Init, FileTypeOK

LEMMA Kinds ==
  \A how \in DOMAIN ChangeKind :
    /\ ChangeKind[how] \in {"Created", "Modified", "Removed"}
    /\ how \in {"Create", "Data", "Name", "Remove"}
    /\ ChangeKind[how] = "Removed" <=> how = "Remove"
BY DEF ChangeKind

(* Every change by another program, and what the rest of the proof needs of *)
(* it: a removal is said to be one, only a change of the content goes       *)
(* unlost, and a descriptor stays with its inode.                           *)
Changed(f, new, how, noticed) ==
  /\ Change(f, new, how, noticed)
  /\ new # Absent => new.ino # 0
  /\ how = "Remove" => new = Absent
  /\ how \in {"Create", "Data"} => new # Absent
  /\ noticed => Ahead(f) /\ Exists(f) /\ new # Absent
  /\ job' \in {job, Frozen(f)}

LEMMA EnvChanges ==
  ASSUME FileTypeOK, Inodes, Env
  PROVE  \E f \in Files, new \in Nodes, how \in DOMAIN ChangeKind,
            noticed \in BOOLEAN : Changed(f, new, how, noticed)
<1>1. disk \in [Files -> Nodes] /\ clock \in 1 .. MaxChanges + 1
  BY DEF FileTypeOK
<1>2. clock <= MaxChanges => clock + 1 \in Times
  BY <1>1, Numbers, Bounds
<1>3. CASE CreateFile
  <2>1. PICK f \in Files, n \in Lengths :
          /\ Change(f, [ino |-> clock + 1, ver |-> clock + 1, len |-> n, mtime |-> clock + 1],
                    "Create", FALSE)
          /\ UNCHANGED job
    BY <1>3 DEF CreateFile
  <2> DEFINE new == [ino |-> clock + 1, ver |-> clock + 1, len |-> n, mtime |-> clock + 1]
  <2>2. new \in Nodes /\ new # Absent /\ new.ino # 0
    <3>1. clock + 1 \in Times /\ clock + 1 # 0
      BY <1>1, <1>2, <2>1 DEF Change
    <3> QED BY <3>1 DEF Nodes, Absent
  <2> HIDE DEF new
  <2>3. Changed(f, new, "Create", FALSE)
    BY <2>1, <2>2 DEF Changed, new
  <2> QED BY <2>2, <2>3 DEF ChangeKind
<1>4. CASE AppendFile
  <2>1. PICK f \in Files :
          /\ Exists(f) /\ disk[f].len < MaxLen
          /\ Change(f, [disk[f] EXCEPT !.len = @ + 1, !.mtime = clock + 1], "Data", Ahead(f))
          /\ UNCHANGED job
    BY <1>4 DEF AppendFile
  <2> DEFINE new == [disk[f] EXCEPT !.len = @ + 1, !.mtime = clock + 1]
             n   == disk[f].len + 1
  <2>2. n \in Lengths /\ clock + 1 \in Times /\ disk[f] \in Nodes /\ disk[f].ino # 0
    <3>1. clock + 1 \in Times /\ disk[f] \in Nodes /\ disk[f].ino # 0
      BY <1>1, <1>2, <2>1 DEF Change, Inodes
    <3>2. disk[f].len \in Lengths
      BY <3>1 DEF Nodes
    <3> QED BY <2>1, <3>1, <3>2, Numbers DEF Lengths
  <2>3. new \in Nodes /\ new.ino # 0
    <3> HIDE DEF n
    <3>1. [disk[f] EXCEPT !.len = n, !.mtime = clock + 1] \in Nodes
      BY <2>2 DEF Nodes
    <3>2. new = [disk[f] EXCEPT !.len = n, !.mtime = clock + 1]
      BY DEF n
    <3>3. new.ino = disk[f].ino
      BY <2>2 DEF Nodes
    <3> QED BY <2>2, <3>1, <3>2, <3>3
  <2> HIDE DEF new
  <2>4. new # Absent
    BY <2>3 DEF Absent
  <2>5. Change(f, new, "Data", Ahead(f)) /\ UNCHANGED job
    BY <2>1 DEF new
  <2>6. Ahead(f) \in BOOLEAN
    BY DEF Ahead
  <2>7. Changed(f, new, "Data", Ahead(f))
    BY <2>1, <2>3, <2>4, <2>5 DEF Changed
  <2> QED BY <2>3, <2>6, <2>7 DEF ChangeKind
<1>5. CASE OverwriteFile
  <2>1. PICK f \in Files, n \in Lengths :
          /\ Exists(f)
          /\ Change(f, [disk[f] EXCEPT !.ver = clock + 1, !.len = n, !.mtime = clock + 1],
                    "Data", Ahead(f))
          /\ UNCHANGED job
    BY <1>5 DEF OverwriteFile
  <2> DEFINE new == [disk[f] EXCEPT !.ver = clock + 1, !.len = n, !.mtime = clock + 1]
  <2>2. clock + 1 \in Times /\ disk[f] \in Nodes /\ disk[f].ino # 0
    BY <1>1, <1>2, <2>1 DEF Nodes, Change, Inodes
  <2>3. new \in Nodes /\ new.ino # 0
    BY <2>2 DEF Nodes
  <2> HIDE DEF new
  <2>4. new # Absent
    BY <2>3 DEF Absent
  <2>5. Change(f, new, "Data", Ahead(f)) /\ UNCHANGED job
    BY <2>1 DEF new
  <2>6. Ahead(f) \in BOOLEAN
    BY DEF Ahead
  <2>7. Changed(f, new, "Data", Ahead(f))
    BY <2>1, <2>3, <2>4, <2>5 DEF Changed
  <2> QED BY <2>3, <2>6, <2>7 DEF ChangeKind
<1>6. CASE RenameInto
  <2>1. PICK f \in Files, n \in Lengths :
          /\ Change(f, [ino |-> clock + 1, ver |-> clock + 1, len |-> n, mtime |-> 1],
                    "Name", Exists(f) /\ Ahead(f))
          /\ job' = Frozen(f)
    BY <1>6 DEF RenameInto
  <2> DEFINE new == [ino |-> clock + 1, ver |-> clock + 1, len |-> n, mtime |-> 1]
             noticed == Exists(f) /\ Ahead(f)
  <2>2. new \in Nodes /\ new # Absent /\ new.ino # 0
    BY <1>1, <1>2, <2>1, Bounds DEF Nodes, Absent, Change
  <2> HIDE DEF new
  <2>3. Change(f, new, "Name", noticed)
    BY <2>1 DEF new
  <2>4. noticed \in BOOLEAN
    BY DEF Exists
  <2>5. Changed(f, new, "Name", noticed)
    BY <2>1, <2>2, <2>3 DEF Changed
  <2> QED BY <2>2, <2>4, <2>5 DEF ChangeKind
<1>7. CASE RenameAway \/ RemoveFile
  <2>1. PICK f \in Files, how \in {"Name", "Remove"} :
          Exists(f) /\ Change(f, Absent, how, FALSE) /\ job' = Frozen(f)
    BY <1>7 DEF RenameAway, RemoveFile
  <2>2. Absent \in Nodes
    BY Bounds DEF Absent, Nodes
  <2>3. Changed(f, Absent, how, FALSE)
    BY <2>1 DEF Changed
  <2> QED BY <2>2, <2>3 DEF ChangeKind
<1> QED BY <1>3, <1>4, <1>5, <1>6, <1>7 DEF Env

LEMMA TypeEnv == ASSUME FileTypeOK, Inodes, Env PROVE FileTypeOK'
<1>1. PICK f \in Files, new \in Nodes, how \in DOMAIN ChangeKind,
           noticed \in BOOLEAN : Changed(f, new, how, noticed)
  BY EnvChanges
<1>2. disk' \in [Files -> Nodes]
  BY <1>1 DEF FileTypeOK, Changed, Change
<1>3. clock' \in 1 .. MaxChanges + 1
  BY <1>1, Numbers DEF FileTypeOK, Changed, Change
<1>4. events' \in Seq(Events) /\ Len(events') < clock'
  <2>1. events \in Seq(Events) /\ Len(events) < clock /\ clock \in Nat /\ clock' = clock + 1
    BY <1>1, Numbers DEF FileTypeOK, Changed, Change
  <2>2. [kind |-> ChangeKind[how], file |-> f] \in Events
    BY Kinds DEF Events
  <2> QED BY <1>1, <2>1, <2>2 DEF Changed, Change
<1>5. lost' \subseteq Files /\ moved' \subseteq Files
  BY <1>1 DEF FileTypeOK, Changed, Change
<1>6. job' \in Jobs
  <2>1. job \in Jobs /\ disk[f] \in Nodes
    BY DEF FileTypeOK
  <2>2. Frozen(f) \in Jobs
    BY <2>1, Bounds DEF Frozen, Jobs, Nodes
  <2> QED BY <1>1, <2>1, <2>2 DEF Changed
<1> QED BY <1>1, <1>2, <1>3, <1>4, <1>5, <1>6, SMTT(30)
        DEF FileTypeOK, Changed, Change, scanVars, ledger, coldVars, bounds, Rows, Events

LEMMA RowTyped ==
  ASSUME FileTypeOK, Inodes, NEW f \in Files, Exists(f)
  PROVE  Row(f) \in Rows
<1>1. disk[f] \in Nodes /\ disk[f].ino # 0
  BY DEF FileTypeOK, Inodes
<1> QED BY <1>1 DEF Row, Rows, Nodes

LEMMA IdleTyped ==
  /\ NotWalking \in [at : {"off", "outer", "inner", "done", "failed"}, todo : SUBSET Files,
                     held : Seq(Rows)]
  /\ Len(NotWalking.held) = 0 /\ NotWalking.held = <<>>
  /\ [f \in Files |-> NoRow] \in [Files -> Kept]
BY Bounds DEF NotWalking, Kept

LEMMA InsertedTyped ==
  ASSUME FileTypeOK, NEW rows \in Seq(Rows)
  PROVE  /\ Inserted(rows) \in [Files -> Kept]
         /\ \A f \in Files : Inserted(rows)[f] # NoRow <=> f \in Paths(rows) \/ temp[f] # NoRow
<1>1. ASSUME NEW f \in Files
      PROVE  /\ Inserted(rows)[f] \in Kept
             /\ Inserted(rows)[f] # NoRow <=> f \in Paths(rows) \/ temp[f] # NoRow
  <2>1. temp[f] \in Kept
    BY DEF FileTypeOK
  <2>2. Inserted(rows)[f] = IF f \in Paths(rows) THEN RowIn(rows, f) ELSE temp[f]
    BY DEF Inserted
  <2>3. CASE f \in Paths(rows)
    <3> DEFINE i == CHOOSE i \in DOMAIN rows : rows[i].file = f
    <3>1. i \in DOMAIN rows
      BY <2>3 DEF Paths
    <3>2. rows[i] \in Rows
      BY <3>1
    <3>3. RowIn(rows, f) = [ino |-> rows[i].ino, size |-> rows[i].size, mtime |-> rows[i].mtime]
      BY DEF RowIn
    <3> HIDE DEF i
    <3>4. RowIn(rows, f) \in Kept
      BY <3>2, <3>3 DEF Rows, Kept
    <3>5. RowIn(rows, f).ino # NoRow.ino
      BY <3>2, <3>3 DEF Rows, NoRow
    <3> QED BY <2>2, <2>3, <3>4, <3>5
  <2>4. CASE f \notin Paths(rows)
    BY <2>1, <2>2, <2>4
  <2> QED BY <2>3, <2>4
<1> QED BY <1>1 DEF Inserted

LEMMA ViewTyped ==
  ASSUME FileTypeOK, Phases, pc = "send"
  PROVE  /\ job.file \in Files /\ job.off \in Lengths
         /\ ViewEnd \in Lengths /\ ViewVer \in Times
<1>1. job \in Jobs /\ job.file \in Files /\ disk \in [Files -> Nodes]
  BY DEF FileTypeOK, Phases
<1>2. disk[job.file] \in Nodes
  BY <1>1
<1> QED BY <1>1, <1>2 DEF Jobs, Nodes, ViewEnd, ViewVer

LEMMA TypeScan == ASSUME FileTypeOK, Inodes, ScanStep PROVE FileTypeOK'
<1> USE DEF FileTypeOK, ScanStep, diskVars, ledger, coldVars, watchV, bounds
<1>0. UNCHANGED <<diskVars, ledger, pc, online, coldVars, watchV, job, sent, lost, bounds>>
  BY DEF ScanStep
<1>1. CASE Stat
  <2>1. PICK f \in walk.todo : Exists(f) /\ walk' = [walk EXCEPT !.todo = @ \ {f}, !.held = <<Row(f)>>]
    BY <1>1 DEF Stat
  <2>2. Row(f) \in Rows
    BY <2>1, RowTyped
  <2>3. <<Row(f)>> \in Seq(Rows) /\ Len(<<Row(f)>>) = 1
    BY <2>2
  <2>4. walk' \in [at : {"off", "outer", "inner", "done", "failed"}, todo : SUBSET Files,
                  held : Seq(Rows)]
    BY <2>1, <2>3
  <2>5. Len(walk'.held) <= 1
    BY <2>1, <2>3
  <2> HIDE DEF ScanStep
  <2>6. UNCHANGED <<chan, batch, temp, scanned, diskVars, ledger, pc, online, coldVars, watchV,
                    job, sent, lost, bounds>>
    BY <1>0, <1>1 DEF Stat
  <2> QED BY <2>4, <2>5, <2>6 DEF Rows, Events
<1>2. CASE StatFails
  BY <1>2, IdleTyped DEF StatFails, NotWalking
<1>3. CASE SendRow
  <2>1. chan' \in Seq(Rows) /\ Len(chan') <= 2 * BatchSize
    BY <1>3, Numbers, SMTT(30) DEF SendRow
  <2>2. /\ walk \in [at : {"off", "outer", "inner", "done", "failed"}, todo : SUBSET Files,
                     held : Seq(Rows)]
        /\ walk' = [walk EXCEPT !.held = <<>>]
    BY <1>3 DEF SendRow
  <2>3. /\ walk' \in [at : {"off", "outer", "inner", "done", "failed"}, todo : SUBSET Files,
                      held : Seq(Rows)]
        /\ Len(walk'.held) <= 1
    <3>1. <<>> \in Seq(Rows) /\ Len(<<>>) = 0
      OBVIOUS
    <3> DEFINE none == <<>>
    <3> HIDE DEF none
    <3>2. /\ walk' \in [at : {"off", "outer", "inner", "done", "failed"}, todo : SUBSET Files,
                        held : Seq(Rows)]
          /\ walk'.held = none
      BY ONLY <2>2, <3>1 DEF none
    <3> QED BY ONLY <3>1, <3>2 DEF none
  <2> HIDE DEF ScanStep
  <2>4. UNCHANGED <<batch, temp, scanned>>
    BY <1>3 DEF SendRow
  <2> QED BY <1>0, <2>1, <2>2, <2>3, <2>4
<1>4. CASE NextDir
  <2>1. /\ walk' \in [at : {"off", "outer", "inner", "done", "failed"}, todo : SUBSET Files,
                      held : Seq(Rows)]
        /\ Len(walk'.held) <= 1
    <3>1. walk.held = <<>> /\ walk.at \in {"outer", "inner"}
      BY <1>4 DEF NextDir
    <3>2. CASE walk.at = "outer"
      <4>1. walk' = [walk EXCEPT !.at = "inner", !.todo = Present \cap inner]
        BY <1>4, <3>2 DEF NextDir
      <4> QED BY <4>1, <3>1 DEF Present
    <3>3. CASE walk.at # "outer"
      <4>1. walk' = [NotWalking EXCEPT !.at = "done"]
        BY <1>4, <3>3 DEF NextDir
      <4>2. walk' = [at |-> "done", todo |-> {}, held |-> <<>>]
        BY ONLY <4>1 DEF NotWalking
      <4>3. <<>> \in Seq(Rows) /\ Len(<<>>) = 0
        OBVIOUS
      <4> QED BY ONLY <4>2, <4>3
    <3> QED BY <3>2, <3>3
  <2>2. UNCHANGED <<chan, batch, temp, scanned>>
    BY <1>4 DEF NextDir
  <2> HIDE DEF ScanStep
  <2> QED BY <1>0, <2>1, <2>2
<1>5. CASE Receive
  <2>1. /\ chan' \in Seq(Rows) /\ Len(chan') <= 2 * BatchSize
        /\ batch' \in Seq(Rows) /\ Len(batch') < BatchSize
    BY <1>5, Numbers, SMTT(30) DEF Receive
  <2>2. UNCHANGED <<walk, temp, scanned>>
    BY <1>5 DEF Receive
  <2> HIDE DEF ScanStep
  <2> QED BY <1>0, <2>1, <2>2
<1>6. CASE ReceiveFull
  <2>1. Append(batch, Head(chan)) \in Seq(Rows)
    BY <1>6 DEF ReceiveFull
  <2>2. temp' \in [Files -> Kept]
    BY <1>6, <2>1, InsertedTyped DEF ReceiveFull
  <2>3. /\ chan' \in Seq(Rows) /\ Len(chan') <= 2 * BatchSize
        /\ batch' \in Seq(Rows) /\ Len(batch') < BatchSize
    BY <1>6, Numbers, SMTT(30) DEF ReceiveFull
  <2>4. UNCHANGED <<walk, scanned>>
    BY <1>6 DEF ReceiveFull
  <2> HIDE DEF ScanStep
  <2> QED BY <1>0, <2>2, <2>3, <2>4
<1>7. CASE TimeoutFlush
  BY <1>7, Numbers, InsertedTyped, SMTT(30) DEF TimeoutFlush
<1>8. CASE Disconnected
  BY <1>8, Numbers, InsertedTyped, SMTT(30) DEF Disconnected
<1>9. CASE InsertFails
  BY <1>9, Numbers, InsertedTyped, SMTT(30) DEF InsertFails
<1> QED BY <1>1, <1>2, <1>3, <1>4, <1>5, <1>6, <1>7, <1>8, <1>9 DEF Produce, Consume

LEMMA TypeBoot == ASSUME FileTypeOK, Boot PROVE FileTypeOK'
<1>1. walk' \in [at : {"off", "outer", "inner", "done", "failed"}, todo : SUBSET Files,
                 held : Seq(Rows)] /\ Len(walk'.held) <= 1
  BY DEF Boot, StartScan, Present
<1>2. online' \in BOOLEAN
  BY Numbers DEF Boot
<1> QED BY <1>1, <1>2, Numbers, IdleTyped, SMTT(30)
        DEF FileTypeOK, Boot, StartScan, diskVars, ledger, coldVars, watchV, bounds, Rows

LEMMA TypeDied ==
  ASSUME FileTypeOK, Died, crashes' \in 0 .. MaxCrashes
  PROVE  FileTypeOK'
<1>1. job' \in Jobs
  BY Bounds DEF Died, NoJob, Jobs
<1> QED BY <1>1, Numbers, IdleTyped, SMTT(30) DEF FileTypeOK, Died, StopScan, diskVars, ledger

LEMMA TypeCold == ASSUME FileTypeOK, ColdStart PROVE FileTypeOK'
<1> USE DEF FileTypeOK, diskVars, scanVars, ledger, coldVars, watchV, bounds
<1>1. CASE PlanDelta
  BY <1>1, Numbers, IdleTyped, SMTT(30) DEF PlanDelta, StopScan
<1>2. CASE ColdSend
  <2>1. PICK f \in delta :
          /\ delta' = delta \ {f}
          /\ IF Exists(f) THEN pc' = "send" /\ job' = Opened(f, 0, "cold")
                          ELSE UNCHANGED <<pc, job>>
    BY <1>2 DEF ColdSend
  <2>2. Opened(f, 0, "cold") \in Jobs
    BY Bounds DEF Opened, Jobs, Nodes
  <2> QED BY <1>2, <2>1, <2>2 DEF ColdSend
<1>3. CASE ColdForget
  <2>1. NoCkpt \in [mtime : Times, off : Lengths, ino : Times]
    BY Bounds DEF NoCkpt
  <2> QED BY <1>3, <2>1 DEF ColdForget
<1>4. CASE StartWatching
  BY <1>4 DEF StartWatching
<1> QED BY <1>1, <1>2, <1>3, <1>4 DEF ColdStart

LEMMA FaultsCounted ==
  ASSUME faults \in 0 .. MaxFaults, Fail \/ UNCHANGED faults
  PROVE  faults' \in 0 .. MaxFaults
BY Numbers DEF Fail

LEMMA TypeSend ==
  ASSUME FileTypeOK, Phases, PublishBatch \/ ReadError \/ FileSent
  PROVE  FileTypeOK'
<1> USE DEF FileTypeOK, diskVars, scanVars, ledger, coldVars, watchV, bounds
<1>1. CASE PublishBatch
  <2>1. pc = "send"
    BY <1>1 DEF PublishBatch
  <2>2. PICK n \in job.off + 1 .. ViewEnd :
          /\ job' = [job EXCEPT !.off = n]
          /\ \/ /\ sent' = IF online
                           THEN sent \cup {<<job.file, ViewVer, r>> : r \in job.off .. n - 1}
                           ELSE sent
                /\ UNCHANGED <<faults, lost>>
             \/ /\ online /\ Fail
                /\ lost' = lost \cup {job.file}
                /\ UNCHANGED sent
    BY <1>1 DEF PublishBatch
  <2>3. n \in Lengths /\ \A r \in job.off .. n - 1 : r \in Lengths
    <3> HIDE DEF FileTypeOK
    <3>1. job.off \in Nat /\ ViewEnd \in Nat /\ ViewEnd <= MaxLen
      BY <2>1, ViewTyped, Bounds
    <3>2. n \in Nat /\ n <= MaxLen /\ \A r \in job.off .. n - 1 : r \in Nat /\ r <= MaxLen
      BY <2>2, <3>1, Numbers
    <3> QED BY <3>2, Bounds
  <2>4. job' \in Jobs
    BY <2>2, <2>3 DEF Jobs
  <2>5. sent' \subseteq Files \X Times \X Lengths
    BY <2>1, <2>2, <2>3, ViewTyped, SMTT(30)
  <2>6. lost' \subseteq Files /\ faults' \in 0 .. MaxFaults
    <3>1. lost \subseteq Files /\ job.file \in Files /\ faults \in 0 .. MaxFaults
      BY <2>1, ViewTyped
    <3>2. (lost' = lost \/ lost' = lost \cup {job.file}) /\ (Fail \/ UNCHANGED faults)
      BY <2>2
    <3> QED BY ONLY <3>1, <3>2, FaultsCounted
  <2> QED BY <1>1, <2>4, <2>5, <2>6 DEF PublishBatch
<1>2. CASE ReadError
  <2>1. job' \in Jobs
    BY <1>2 DEF ReadError, Jobs
  <2>2. lost' \subseteq Files /\ faults' \in 0 .. MaxFaults
    <3>1. lost \subseteq Files /\ job.file \in Files /\ faults \in 0 .. MaxFaults
      BY <1>2, ViewTyped DEF ReadError
    <3>2. lost' = lost \cup {job.file} /\ Fail
      BY <1>2 DEF ReadError
    <3> QED BY ONLY <3>1, <3>2, FaultsCounted
  <2> QED BY <1>2, <2>1, <2>2 DEF ReadError
<1>3. CASE FileSent
  <2>1. job' \in Jobs
    BY <1>3, Bounds DEF FileSent, NoJob, Jobs
  <2> QED BY <1>3, <2>1 DEF FileSent
<1> QED BY <1>1, <1>2, <1>3

LEMMA TypeTracker == ASSUME FileTypeOK, Phases, Tracker PROVE FileTypeOK'
<1> USE DEF FileTypeOK, diskVars, scanVars, ledger, coldVars, watchV, bounds
<1>0. events # <<>> => /\ Head(events) \in Events /\ Head(events).file \in Files
                       /\ Tail(events) \in Seq(Events) /\ Len(Tail(events)) < clock
  <2> SUFFICES ASSUME events # <<>>
               PROVE  /\ Head(events) \in Events /\ Head(events).file \in Files
                      /\ Tail(events) \in Seq(Events) /\ Len(Tail(events)) < clock
    OBVIOUS
  <2>1. events \in Seq(Events) /\ Len(events) < clock /\ clock \in Nat
    BY Numbers
  <2> HIDE DEF FileTypeOK
  <2>2. /\ Head(events) \in Events /\ Tail(events) \in Seq(Events)
        /\ Len(Tail(events)) = Len(events) - 1 /\ Len(events) \in Nat
    BY <2>1
  <2> QED BY <2>1, <2>2 DEF Events
<1>1. CASE DropEvent
  BY <1>0, <1>1 DEF DropEvent
<1>2. CASE AcceptEvent
  BY <1>0, <1>2 DEF AcceptEvent
<1>3. CASE WakeRemoved
  <2>1. NoCkpt \in [mtime : Times, off : Lengths, ino : Times]
    BY Bounds DEF NoCkpt
  <2>2. evt.file \in Files
    BY <1>3 DEF WakeRemoved, Events, NoEvent
  <2> QED BY <1>3, <2>1, <2>2 DEF WakeRemoved
<1>4. CASE WakeChanged
  <2>1. evt \in Events
    BY <1>4 DEF WakeChanged, Phases, Watching
  <2>2. evt.file \in Files /\ StartOffset(evt.file) \in Lengths
    BY <2>1, Bounds DEF Events, StartOffset
  <2>3. job' \in Jobs
    BY <1>4, <2>2, Bounds DEF WakeChanged, NoJob, Jobs
  <2> QED BY <1>4, <2>2, <2>3 DEF WakeChanged
<1>5. CASE OpenFile
  <2>1. job' \in Jobs
    <3>1. Exists(job.file) => Opened(job.file, job.off, "event") \in Jobs
      <4>1. ASSUME Exists(job.file) PROVE Opened(job.file, job.off, "event") \in Jobs
        <5>1. job.file \in Files
          BY <1>5 DEF OpenFile, Phases, EventPhase, Watching, Events, NoEvent
        <5>2. disk[job.file] \in Nodes /\ job.off \in Lengths
          BY <5>1 DEF Jobs
        <5> QED BY <5>1, <5>2, Bounds DEF Opened, Jobs, Nodes
      <4> QED BY <4>1
    <3> QED BY <1>5, <3>1 DEF OpenFile
  <2> QED BY <1>5, <2>1 DEF OpenFile
<1>6. CASE Checkpoint
  <2>1. [mtime |-> clock, off |-> job.off, ino |-> 0] \in [mtime : Times, off : Lengths, ino : Times]
    BY Bounds, Numbers, SMTT(30) DEF Jobs
  <2>2. job' \in Jobs
    BY <1>6, Bounds DEF Checkpoint, NoJob, Jobs
  <2> QED BY <1>6, <2>1, <2>2 DEF Checkpoint
<1> QED BY <1>1, <1>2, <1>3, <1>4, <1>5, <1>6 DEF Tracker

LEMMA TypeStep == ASSUME FileTypeOK, Phases, Inodes, [Next]_vars PROVE FileTypeOK'
<1>1. CASE Env
  BY <1>1, TypeEnv
<1>2. CASE Boot
  BY <1>2, TypeBoot
<1>3. CASE Crash \/ ScanPanic
  <2>1. Died
    BY <1>3 DEF Crash, ScanPanic
  <2>2. crashes' \in 0 .. MaxCrashes
    BY <1>3, Numbers DEF Crash, ScanPanic, FileTypeOK
  <2> QED BY <2>1, <2>2, TypeDied
<1>4. CASE ScanStep
  BY <1>4, TypeScan
<1>5. CASE ColdStart
  BY <1>5, TypeCold
<1>6. CASE PublishBatch \/ ReadError \/ FileSent
  BY <1>6, TypeSend
<1>7. CASE Tracker
  BY <1>7, TypeTracker
<1>8. CASE CoolDown
  BY <1>8 DEF CoolDown, FileTypeOK, diskVars, scanVars, ledger, coldVars, bounds
<1>9. CASE UNCHANGED vars
  BY <1>9 DEF vars, FileTypeOK, scanVars, ledger, coldVars, watchV, bounds
<1> QED BY <1>1, <1>2, <1>3, <1>4, <1>5, <1>6, <1>7, <1>8, <1>9 DEF Next, Daemon

----------------------------------------------------------------------------
(* Phases and inodes.                                                       *)

LEMMA PhasesInit == Init => Phases
BY DEF Init, Phases, ScanIdle, ColdPhase, EventPhase, Watching

LEMMA PhasesStep == ASSUME FileTypeOK, Phases, Inodes, [Next]_vars PROVE Phases'
<1> USE DEF Phases, ColdPhase, EventPhase, Watching, ScanIdle
<1>1. CASE Env
  <2>1. PICK f \in Files, new \in Nodes, how \in DOMAIN ChangeKind,
             noticed \in BOOLEAN : Changed(f, new, how, noticed)
    BY <1>1, EnvChanges
  <2>2. job \in Jobs
    BY DEF FileTypeOK
  <2>3. job'.file = job.file /\ job'.caller = job.caller /\ job'.off = job.off
    BY <2>1, <2>2 DEF Changed, Frozen, Jobs
  <2> QED BY <2>1, <2>3 DEF Changed, Change, scanVars, coldVars
<1>2. CASE Boot
  BY <1>2 DEF Boot, coldVars, watchV
<1>3. CASE Crash \/ ScanPanic
  BY <1>3 DEF Crash, ScanPanic, Died, StopScan
<1>4. CASE ScanStep
  BY <1>4 DEF ScanStep, coldVars, watchV
<1>5. CASE PlanDelta
  BY <1>5 DEF PlanDelta, StopScan, watchV
<1>6. CASE ColdSend
  BY <1>6 DEF ColdSend, Opened, scanVars, watchV, FileTypeOK
<1>7. CASE ColdForget
  BY <1>7 DEF ColdForget, scanVars, watchV
<1>8. CASE StartWatching
  BY <1>8 DEF StartWatching, scanVars, coldVars, watchV
<1>9. CASE PublishBatch
  <2>1. job \in Jobs /\ pc = "send" /\ \E n \in Nat : job' = [job EXCEPT !.off = n]
    <3>1. pc = "send" /\ \E n \in job.off + 1 .. ViewEnd : job' = [job EXCEPT !.off = n]
      BY <1>9 DEF PublishBatch
    <3>2. job \in Jobs /\ job.off \in Nat /\ ViewEnd \in Nat
      BY <3>1, ViewTyped, Bounds DEF FileTypeOK
    <3>3. \A n \in job.off + 1 .. ViewEnd : n \in Nat
      BY <3>2
    <3> QED BY <3>1, <3>2, <3>3
  <2>2. job'.file = job.file /\ job'.caller = job.caller
    BY <2>1 DEF Jobs
  <2> QED BY <1>9, <2>1, <2>2 DEF PublishBatch, scanVars, coldVars, watchV
<1>10. CASE ReadError
  <2>1. job \in Jobs /\ pc = "send" /\ job' = [job EXCEPT !.end = job.off]
    BY <1>10 DEF ReadError, FileTypeOK
  <2>2. job'.file = job.file /\ job'.caller = job.caller
    BY <2>1 DEF Jobs
  <2> QED BY <1>10, <2>1, <2>2 DEF ReadError, scanVars, coldVars, watchV
<1>11. CASE FileSent
  BY <1>11 DEF FileSent, NoJob, scanVars, coldVars, watchV, FileTypeOK, Jobs
<1>12. CASE DropEvent
  BY <1>12 DEF DropEvent, scanVars, coldVars
<1>13. CASE AcceptEvent
  <2>1. events \in Seq(Events) /\ events # <<>> /\ evt' = Head(events)
    BY <1>13 DEF AcceptEvent, FileTypeOK
  <2>2. evt' \in Events
    BY ONLY <2>1
  <2>3. evt' # NoEvent
    BY ONLY <2>2, FileAssumption DEF Events, NoEvent
  <2> QED BY <1>13, <2>3 DEF AcceptEvent, scanVars, coldVars
<1>14. CASE WakeRemoved
  BY <1>14 DEF WakeRemoved, scanVars, coldVars
<1>15. CASE WakeChanged
  <2>1. pc = "debounce" /\ evt \in Events
    BY <1>15 DEF WakeChanged, FileTypeOK
  <2>2. evt.file \in Files /\ disk[evt.file] \in Nodes /\ ckpt[evt.file].ino = 0
    BY <2>1 DEF Events, FileTypeOK, Inodes
  <2>3. StartOffset(evt.file) = 0
    BY <2>2 DEF StartOffset, Inodes
  <2>4. job' = [NoJob EXCEPT !.file = evt.file, !.off = 0, !.caller = "event"]
    BY <1>15, <2>3 DEF WakeChanged
  <2>5. job'.file = evt.file /\ job'.off = 0 /\ job'.caller = "event"
    BY <2>4 DEF NoJob
  <2> QED BY <1>15, <2>1, <2>5 DEF WakeChanged, scanVars, coldVars
<1>16. CASE OpenFile
  <2>1. pc = "open" /\ evt \in Events /\ job.file = evt.file /\ evt.file \in Files
    BY <1>16 DEF OpenFile, FileTypeOK, Events
  <2>2. job'.file = job.file /\ job'.caller = "event"
    BY <1>16, <2>1 DEF OpenFile, Opened
  <2> QED BY <1>16, <2>1, <2>2 DEF OpenFile, scanVars, coldVars, watchV
<1>17. CASE Checkpoint
  BY <1>17 DEF Checkpoint, scanVars, coldVars, NoJob
<1>18. CASE CoolDown
  BY <1>18 DEF CoolDown, scanVars, coldVars
<1>19. CASE UNCHANGED vars
  BY <1>19 DEF vars, scanVars, coldVars, watchV
<1> QED BY <1>1, <1>2, <1>3, <1>4, <1>5, <1>6, <1>7, <1>8, <1>9, <1>10, <1>11, <1>12, <1>13,
           <1>14, <1>15, <1>16, <1>17, <1>18, <1>19
        DEF Next, Daemon, ColdStart, Tracker

LEMMA InodesInit == Init => Inodes
BY DEF Init, Inodes, Exists, Absent, NoCkpt

LEMMA InodesStep == ASSUME FileTypeOK, Phases, Inodes, [Next]_vars PROVE Inodes'
<1>1. CASE Env
  <2>1. PICK f \in Files, new \in Nodes, how \in DOMAIN ChangeKind,
             noticed \in BOOLEAN : Changed(f, new, how, noticed)
    BY <1>1, EnvChanges
  <2>2. disk' = [disk EXCEPT ![f] = new] /\ (new # Absent => new.ino # 0) /\ ckpt' = ckpt
    BY <2>1 DEF Changed, Change, ledger
  <2>3. disk \in [Files -> Nodes]
    BY DEF FileTypeOK
  <2>4. ASSUME NEW g \in Files PROVE Exists(g)' => disk'[g].ino # 0
    BY <2>2, <2>3 DEF Inodes, Exists
  <2> QED BY <2>2, <2>4 DEF Inodes
<1>2. CASE ColdForget \/ WakeRemoved \/ Checkpoint
  <2>1. \A g \in Files : ckpt'[g].ino = 0
    <3>1. ckpt \in [Files -> [mtime : Times, off : Lengths, ino : Times]]
      BY DEF FileTypeOK
    <3>2. CASE ColdForget
      BY <3>1, <3>2 DEF ColdForget, NoCkpt, Inodes
    <3>3. CASE WakeRemoved
      BY <3>1, <3>3 DEF WakeRemoved, NoCkpt, Inodes
    <3>4. CASE Checkpoint
      BY <3>1, <3>4 DEF Checkpoint, Inodes
    <3> QED BY <1>2, <3>2, <3>3, <3>4
  <2>2. UNCHANGED disk
    BY <1>2 DEF ColdForget, WakeRemoved, Checkpoint, diskVars
  <2> QED BY <2>1, <2>2 DEF Inodes, Exists
<1>3. CASE UNCHANGED <<disk, ckpt>>
  BY <1>3 DEF Inodes, Exists
<1>4. [Next]_vars => Env \/ ColdForget \/ WakeRemoved \/ Checkpoint \/ UNCHANGED <<disk, ckpt>>
  BY DEF Next, Daemon, ColdStart, Tracker, vars, Boot, Crash, ScanPanic, Died, ReadError, CoolDown,
         ScanStep, PublishBatch, FileSent, PlanDelta, ColdSend, StartWatching, DropEvent,
         AcceptEvent, WakeChanged, OpenFile, diskVars, ledger
<1> QED BY <1>1, <1>2, <1>3, <1>4

----------------------------------------------------------------------------
(* Rows.                                                                    *)

LEMMA EmptyRows == Paths(<<>>) = {} /\ Distinct(<<>>)
BY DEF Paths, Distinct

LEMMA RowFiles == ASSUME NEW rows \in Seq(Rows) PROVE Paths(rows) \subseteq Files
<1>1. \A i \in DOMAIN rows : rows[i] \in Rows
  OBVIOUS
<1> QED BY <1>1 DEF Paths, Rows

LEMMA TailRows ==
  ASSUME NEW rows \in Seq(Rows), rows # <<>>
  PROVE  /\ Head(rows) \in Rows /\ Tail(rows) \in Seq(Rows)
         /\ Paths(rows) = {Head(rows).file} \cup Paths(Tail(rows))
         /\ Distinct(rows) => Distinct(Tail(rows)) /\ Head(rows).file \notin Paths(Tail(rows))
<1> DEFINE t == Tail(rows)
<1>1. /\ Len(rows) \in Nat \ {0} /\ Len(t) = Len(rows) - 1 /\ Head(rows) = rows[1]
      /\ \A i \in 1 .. Len(t) : t[i] = rows[i + 1]
      /\ DOMAIN rows = 1 .. Len(rows) /\ DOMAIN t = 1 .. Len(t) /\ t \in Seq(Rows)
      /\ Head(rows) \in Rows
  OBVIOUS
<1> HIDE DEF t
<1>2. \A i : i \in DOMAIN rows <=> i = 1 \/ (i - 1 \in DOMAIN t /\ i \in Nat)
  BY <1>1
<1>3. Paths(rows) = {Head(rows).file} \cup Paths(t)
  <2>1. ASSUME NEW i \in DOMAIN rows PROVE rows[i].file \in {Head(rows).file} \cup Paths(t)
    <3>1. i = 1 \/ (i - 1 \in DOMAIN t /\ t[i - 1] = rows[i])
      BY <1>1, <1>2
    <3> QED BY <1>1, <3>1 DEF Paths
  <2>2. ASSUME NEW i \in DOMAIN t PROVE t[i].file \in Paths(rows)
    <3>1. i + 1 \in DOMAIN rows /\ t[i] = rows[i + 1]
      BY <1>1
    <3> QED BY <3>1 DEF Paths
  <2>3. 1 \in DOMAIN rows
    BY <1>1
  <2> QED BY <1>1, <2>1, <2>2, <2>3 DEF Paths
<1>4. ASSUME Distinct(rows) PROVE Distinct(t) /\ Head(rows).file \notin Paths(t)
  <2>1. ASSUME NEW i \in DOMAIN t PROVE i + 1 \in DOMAIN rows /\ t[i] = rows[i + 1] /\ i + 1 # 1
    BY <1>1
  <2>2. Distinct(t)
    <3> SUFFICES ASSUME NEW i \in DOMAIN t, NEW j \in DOMAIN t, t[i].file = t[j].file
                 PROVE  i = j
      BY DEF Distinct
    <3>1. i + 1 = j + 1
      BY <1>4, <2>1 DEF Distinct
    <3> QED BY <1>1, <3>1
  <2>3. Head(rows).file \notin Paths(t)
    <3> SUFFICES ASSUME NEW i \in DOMAIN t, t[i].file = rows[1].file
                 PROVE  FALSE
      BY <1>1 DEF Paths
    <3>1. 1 \in DOMAIN rows
      BY <1>1
    <3> QED BY <1>4, <2>1, <3>1 DEF Distinct
  <2> QED BY <2>2, <2>3
<1> QED BY <1>1, <1>3, <1>4 DEF t

LEMMA AppendRows ==
  ASSUME NEW rows \in Seq(Rows), NEW row \in Rows
  PROVE  /\ Append(rows, row) \in Seq(Rows)
         /\ Paths(Append(rows, row)) = Paths(rows) \cup {row.file}
         /\ Distinct(rows) /\ row.file \notin Paths(rows) => Distinct(Append(rows, row))
<1> DEFINE a == Append(rows, row)
           n == Len(rows) + 1
<1>1. /\ n \in Nat \ {0} /\ DOMAIN rows = 1 .. n - 1 /\ DOMAIN a = 1 .. n
      /\ \A i \in DOMAIN rows : a[i] = rows[i]
      /\ a[n] = row /\ a \in Seq(Rows)
  OBVIOUS
<1> HIDE DEF a, n
<1>2. \A i : i \in DOMAIN a <=> i \in DOMAIN rows \/ i = n
  BY <1>1
<1>3. n \notin DOMAIN rows
  BY <1>1
<1>4. Paths(a) = Paths(rows) \cup {row.file}
  BY <1>1, <1>2 DEF Paths
<1>5. ASSUME Distinct(rows), row.file \notin Paths(rows),
             NEW i \in DOMAIN a, NEW j \in DOMAIN a, a[i].file = a[j].file
      PROVE  i = j
  <2>1. CASE i \in DOMAIN rows /\ j \in DOMAIN rows
    BY <1>1, <1>5, <2>1 DEF Distinct
  <2>2. CASE i = n \/ j = n
    BY <1>1, <1>2, <1>5, <2>2 DEF Paths
  <2> QED BY <1>2, <2>1, <2>2
<1> QED BY <1>1, <1>4, <1>5 DEF a, Distinct

LEMMA JoinRows ==
  ASSUME NEW rows \in Seq(Rows), NEW held \in Seq(Rows), held # <<>>, Len(held) <= 1
  PROVE  held[1] \in Rows /\ Paths(held) = {held[1].file} /\ rows \o held = Append(rows, held[1])
<1>1. Len(held) = 1 /\ DOMAIN held = 1 .. Len(held)
  OBVIOUS
<1>2. held[1] \in Rows
  BY <1>1
<1>3. Paths(held) = {held[1].file}
  <2>1. DOMAIN held = {1}
    BY <1>1
  <2> QED BY <2>1 DEF Paths
<1>4. rows \o held = Append(rows, held[1])
  <2>1. <<held[1]>> \in Seq(Rows) /\ Len(<<held[1]>>) = 1 /\ <<held[1]>>[1] = held[1]
    BY <1>2
  <2>2. held = <<held[1]>>
    BY ONLY <1>1, <2>1, SeqEqual, held \in Seq(Rows)
  <2> QED BY <1>2, <2>2, AppendIsConcat
<1> QED BY <1>2, <1>3, <1>4

(* Rows of different paths, none of them in the table, can be inserted.     *)
LEMMA DistinctInsertable ==
  ASSUME NEW rows \in Seq(Rows), Distinct(rows), Paths(rows) \cap Tabled = {}
  PROVE  Insertable(rows)
<1> DEFINE F == [i \in 1 .. Len(rows) |-> rows[i].file]
<1>1. Len(rows) \in Nat /\ DOMAIN rows = 1 .. Len(rows)
  OBVIOUS
<1>2. F \in Bijection(1 .. Len(rows), Paths(rows))
  <2>1. F \in [1 .. Len(rows) -> Paths(rows)]
    BY <1>1 DEF Paths
  <2>2. \A i, j \in 1 .. Len(rows) : F[i] = F[j] => i = j
    BY <1>1 DEF Distinct
  <2>3. \A p \in Paths(rows) : \E i \in 1 .. Len(rows) : F[i] = p
    BY <1>1 DEF Paths
  <2> HIDE DEF F
  <2> QED BY <2>1, <2>2, <2>3 DEF Bijection, Injection, Surjection, IsInjective
<1>3. IsFiniteSet(1 .. Len(rows)) /\ Cardinality(1 .. Len(rows)) = Len(rows)
  <2>1. \A n \in Nat : IsFiniteSet(1 .. n) /\ Cardinality(1 .. n) = n
    BY ONLY FS_Interval
  <2> QED BY ONLY <1>1, <2>1
<1>4. Cardinality(Paths(rows)) = Len(rows)
  BY <1>2, <1>3, FS_Bijection DEF ExistsBijection
<1>5. \A f \in Paths(rows) : temp[f] = NoRow
  BY RowFiles DEF Tabled, Listed
<1> QED BY <1>4, <1>5 DEF Insertable

----------------------------------------------------------------------------
(* The scan.                                                                *)

ScanLayer == NoneMissed /\ NoneTwice /\ ScanEnds /\ PanicsOnlyOnVanished

(* While nothing is watched, a file that is not lost is there as before.    *)
LEMMA EnvKeeps ==
  ASSUME FileTypeOK, Inodes, Env, ~Watching, pc # "down"
  PROVE  /\ lost \subseteq lost'
         /\ \A g \in Files \ lost' : Exists(g)' <=> Exists(g)
<1>1. PICK f \in Files, new \in Nodes, how \in DOMAIN ChangeKind,
           noticed \in BOOLEAN : Changed(f, new, how, noticed)
  BY EnvChanges
<1>2. /\ disk' = [disk EXCEPT ![f] = new] /\ disk \in [Files -> Nodes]
      /\ lost' = IF noticed THEN lost ELSE lost \cup {f}
      /\ noticed => Exists(f) /\ new # Absent
  BY <1>1 DEF Changed, Change, FileTypeOK
<1> QED BY <1>2 DEF Exists

(* What leads into or through the scan.                                     *)
LEMMA Scanning ==
  ASSUME [Next]_vars, pc' = "scan"
  PROVE  \/ Boot
         \/ pc = "scan" /\ Env
         \/ ScanStep
         \/ pc = "scan" /\ UNCHANGED <<disk, inner, scanVars, lost>>
<1>1. CASE Boot \/ ScanStep \/ (pc = "scan" /\ Env)
  BY <1>1
<1>2. CASE CoolDown \/ UNCHANGED vars
  BY <1>2 DEF CoolDown, vars, diskVars
<1>3. CASE Env /\ pc # "scan"
  <2>1. pc' = pc
    BY <1>3 DEF Env, CreateFile, AppendFile, OverwriteFile, RenameInto, RenameAway, RemoveFile, Change
  <2> QED BY <1>3, <2>1
<1>4. CASE Crash \/ ScanPanic
  BY <1>4 DEF Crash, ScanPanic, Died
<1>5. CASE ReadError \/ PublishBatch \/ FileSent
  BY <1>5 DEF ReadError, PublishBatch, FileSent
<1>6. CASE ColdStart
  BY <1>6 DEF ColdStart, PlanDelta, ColdSend, ColdForget, StartWatching
<1>7. CASE Tracker
  BY <1>7 DEF Tracker, DropEvent, AcceptEvent, WakeRemoved, WakeChanged, OpenFile, Checkpoint
<1> QED BY <1>1, <1>2, <1>3, <1>4, <1>5, <1>6, <1>7 DEF Next, Daemon

LEMMA ScanLayerIdle == ASSUME ScanIdle, pc # "scan" PROVE ScanLayer
BY DEF ScanIdle, NotWalking, ScanLayer, NoneMissed, NoneTwice, ScanEnds, Ended,
       PanicsOnlyOnVanished

LEMMA BootScans == ASSUME FileTypeOK, Boot PROVE ScanLayer'
<1>1. /\ walk' = [at |-> "outer", todo |-> Present, held |-> <<>>]
      /\ chan' = <<>> /\ batch' = <<>> /\ temp' = [f \in Files |-> NoRow] /\ scanned' = "no"
      /\ UNCHANGED <<disk, inner>> /\ lost' = {} /\ pc' = "scan"
  BY DEF Boot, StartScan, diskVars
<1>2. /\ Paths(walk'.held) = {} /\ Paths(chan') = {} /\ Paths(batch') = {}
      /\ Distinct(batch') /\ Distinct(chan')
  BY <1>1, EmptyRows
<1>3. Tabled' = {}
  BY <1>1 DEF Tabled, Listed
<1>4. Walked' = {}
  BY <1>1, <1>2, <1>3 DEF Walked
<1>5. Present' = Present
  BY <1>1 DEF Present, Exists
<1>6. NoneMissed'
  <2>1. \A f \in Files : Exists(f)' <=> f \in walk'.todo
    BY <1>1 DEF Present, Exists
  <2> QED BY <1>1, <1>4, <2>1 DEF NoneMissed
<1>7. NoneTwice'
  BY <1>1, <1>2, <1>3, <1>4 DEF NoneTwice
<1> QED BY <1>1, <1>6, <1>7 DEF ScanLayer, ScanEnds, Ended, PanicsOnlyOnVanished

LEMMA EnvScans ==
  ASSUME FileTypeOK, Phases, Inodes, ScanLayer, pc = "scan", Env
  PROVE  ScanLayer'
<1>1. UNCHANGED <<inner, walk, chan, batch, temp, scanned, pc>>
  BY DEF Env, CreateFile, AppendFile, OverwriteFile, RenameInto, RenameAway, RemoveFile, Change, scanVars
<1>2. ~Watching
  BY DEF Watching
<1>3. /\ lost \subseteq lost'
      /\ \A g \in Files \ lost' : Exists(g)' <=> Exists(g)
  BY <1>2, EnvKeeps
<1>4. Tabled' = Tabled /\ Walked' = Walked
  BY <1>1 DEF Tabled, Listed, Walked, Paths
<1>5. lost' = {} => lost = {} /\ Present' = Present
  BY <1>3 DEF Present
<1>6. NoneMissed'
  BY <1>1, <1>3, <1>4 DEF ScanLayer, NoneMissed
<1>7. NoneTwice'
  BY <1>1, <1>4, <1>5 DEF ScanLayer, NoneTwice, Distinct, Paths
<1>8. ScanEnds' /\ PanicsOnlyOnVanished'
  BY <1>1, <1>3, <1>5 DEF ScanLayer, ScanEnds, Ended, PanicsOnlyOnVanished
<1> QED BY <1>6, <1>7, <1>8 DEF ScanLayer

LEMMA ProduceScans ==
  ASSUME FileTypeOK, Inodes, ScanLayer, ScanStep, Produce
  PROVE  ScanLayer'
<1>0. /\ UNCHANGED <<disk, inner, pc, lost, batch, temp, scanned>> /\ pc = "scan"
      /\ Tabled' = Tabled /\ Present' = Present /\ Paths(batch)' = Paths(batch)
      /\ \A f \in Files : Exists(f)' <=> Exists(f)
  BY DEF ScanStep, diskVars, Produce, Stat, StatFails, SendRow, NextDir, Tabled, Listed, Present,
         Exists, Paths
<1>s. /\ walk \in [at : {"off", "outer", "inner", "done", "failed"}, todo : SUBSET Files,
                   held : Seq(Rows)]
      /\ Len(walk.held) <= 1 /\ chan \in Seq(Rows)
  BY DEF FileTypeOK
<1>1. CASE Stat
  <2>1. PICK f \in walk.todo :
          /\ walk.held = <<>> /\ Exists(f)
          /\ walk' = [walk EXCEPT !.todo = @ \ {f}, !.held = <<Row(f)>>]
          /\ UNCHANGED chan
    BY <1>1 DEF Stat
  <2>2. /\ walk'.at = walk.at /\ walk'.todo = walk.todo \ {f} /\ walk'.held = <<Row(f)>>
        /\ f \in Files
    BY <1>s, <2>1
  <2>3. Paths(walk.held) = {} /\ Paths(walk'.held) = {f} /\ Paths(chan') = Paths(chan)
    BY <2>1, <2>2, EmptyRows DEF Paths, Row
  <2>4. Walked' = Walked \cup {f}
    BY <1>0, <2>3 DEF Walked
  <2>5. NoneMissed'
    BY <1>0, <2>1, <2>2, <2>4 DEF ScanLayer, NoneMissed
  <2>6. NoneTwice'
    BY <1>0, <2>1, <2>2, <2>3, <2>4 DEF ScanLayer, NoneTwice, Walked, Distinct
  <2>7. ScanEnds' /\ PanicsOnlyOnVanished'
    BY <1>0, <2>1, <2>2 DEF ScanLayer, ScanEnds, Ended, PanicsOnlyOnVanished
  <2> QED BY <2>5, <2>6, <2>7 DEF ScanLayer
<1>2. CASE StatFails
  <2>1. PICK f \in walk.todo : walk.held = <<>> /\ ~Exists(f) /\ f \in Files
    BY <1>2, <1>s DEF StatFails
  <2>2. walk'.at = "failed" /\ walk'.todo = {} /\ walk'.held = <<>> /\ UNCHANGED chan
    BY <1>2 DEF StatFails, NotWalking
  <2>3. walk.at # "failed"
    BY <2>1 DEF ScanLayer, ScanEnds, Ended
  <2>4. f \in lost
    BY <1>0, <2>1, <2>3 DEF ScanLayer, NoneMissed
  <2>5. scanned # "ok"
    BY <2>1 DEF ScanLayer, ScanEnds, Ended
  <2> QED BY <1>0, <2>2, <2>4, <2>5
          DEF ScanLayer, NoneMissed, NoneTwice, ScanEnds, Ended, PanicsOnlyOnVanished
<1>3. CASE SendRow
  <2> DEFINE row == walk.held[1]
  <2>1. /\ walk.held # <<>> /\ chan' = chan \o walk.held
        /\ walk'.at = walk.at /\ walk'.todo = walk.todo /\ walk'.held = <<>>
    <3> DEFINE none == <<>>
    <3>1. walk' = [walk EXCEPT !.held = none] /\ walk.held # <<>> /\ chan' = chan \o walk.held
      BY <1>3 DEF SendRow
    <3> HIDE DEF none
    <3>2. walk'.at = walk.at /\ walk'.todo = walk.todo /\ walk'.held = none
      BY <1>s, <3>1
    <3> QED BY <3>1, <3>2 DEF none
  <2>2. row \in Rows /\ Paths(walk.held) = {row.file} /\ chan' = Append(chan, row)
    BY <1>s, <2>1, JoinRows
  <2>3. /\ Paths(chan') = Paths(chan) \cup {row.file}
        /\ Distinct(chan) /\ row.file \notin Paths(chan) => Distinct(chan')
    BY <1>s, <2>2, AppendRows
  <2>4. Paths(walk'.held) = {}
    BY <2>1, EmptyRows
  <2> HIDE DEF row
  <2>5. Walked' = Walked
    BY <1>0, <2>2, <2>3, <2>4 DEF Walked
  <2>6. NoneMissed'
    BY <1>0, <2>1, <2>5 DEF ScanLayer, NoneMissed
  <2>7. NoneTwice'
    BY <1>0, <2>1, <2>2, <2>3, <2>4, <2>5 DEF ScanLayer, NoneTwice, Distinct
  <2>8. ScanEnds' /\ PanicsOnlyOnVanished'
    BY <1>0, <2>1 DEF ScanLayer, ScanEnds, Ended, PanicsOnlyOnVanished
  <2> QED BY <2>6, <2>7, <2>8 DEF ScanLayer
<1>4. CASE NextDir
  <2>1. /\ walk.at \in {"outer", "inner"} /\ walk.todo = {} /\ walk.held = <<>> /\ UNCHANGED chan
        /\ walk'.held = <<>>
        /\ \/ walk.at = "outer" /\ walk'.at = "inner" /\ walk'.todo = Present \cap inner
           \/ walk.at = "inner" /\ walk'.at = "done" /\ walk'.todo = {}
    BY <1>4, <1>s DEF NextDir, NotWalking
  <2>2. /\ Paths(walk'.held) = Paths(walk.held) /\ Paths(chan') = Paths(chan)
        /\ Walked' = Walked
    BY <1>0, <2>1 DEF Walked, Paths
  <2>3. NoneMissed'
    BY <1>0, <2>1, <2>2 DEF ScanLayer, NoneMissed, Present
  <2>4. NoneTwice'
    BY <1>0, <2>1, <2>2 DEF ScanLayer, NoneTwice, Distinct
  <2>5. ScanEnds' /\ PanicsOnlyOnVanished'
    BY <1>0, <2>1 DEF ScanLayer, ScanEnds, Ended, PanicsOnlyOnVanished
  <2> QED BY <2>3, <2>4, <2>5 DEF ScanLayer
<1> QED BY <1>1, <1>2, <1>3, <1>4 DEF Produce

(* Without a nested directory and a change every flush can be inserted.     *)
LEMMA FlushInserts ==
  ASSUME FileTypeOK, ScanLayer, pc = "scan", lost = {}, inner \cap Present = {}
  PROVE  /\ Insertable(batch)
         /\ chan # <<>> => Insertable(Append(batch, Head(chan)))
<1>0. /\ chan \in Seq(Rows) /\ batch \in Seq(Rows)
      /\ Distinct(batch) /\ Distinct(chan)
      /\ Paths(chan) \cap (Paths(batch) \cup Tabled) = {} /\ Paths(batch) \cap Tabled = {}
  BY DEF FileTypeOK, ScanLayer, NoneTwice
<1>1. Insertable(batch)
  BY <1>0, DistinctInsertable
<1>2. ASSUME chan # <<>> PROVE Insertable(Append(batch, Head(chan)))
  <2>1. Head(chan) \in Rows /\ Head(chan).file \in Paths(chan)
    BY <1>0, <1>2, TailRows
  <2> DEFINE rows == Append(batch, Head(chan))
  <2>2. rows \in Seq(Rows) /\ Distinct(rows) /\ Paths(rows) \cap Tabled = {}
    BY <1>0, <2>1, AppendRows
  <2> HIDE DEF rows
  <2>3. Insertable(rows)
    BY <2>2, DistinctInsertable
  <2> QED BY <2>3 DEF rows
<1> QED BY <1>1, <1>2

LEMMA ConsumeScans ==
  ASSUME FileTypeOK, Inodes, ScanLayer, ScanStep, Consume
  PROVE  ScanLayer'
<1>0. /\ UNCHANGED <<disk, inner, pc, lost, walk>> /\ pc = "scan"
      /\ Present' = Present /\ Paths(walk.held)' = Paths(walk.held)
      /\ \A f \in Files : Exists(f)' <=> Exists(f)
  BY DEF ScanStep, diskVars, Consume, Receive, ReceiveFull, TimeoutFlush, Disconnected,
         InsertFails, Present, Exists, Paths
<1>s. chan \in Seq(Rows) /\ batch \in Seq(Rows)
  BY DEF FileTypeOK
(* The rows only move on: then the layers hold again.                       *)
<1>m. ASSUME \/ UNCHANGED <<chan, batch, temp>>
             \/ /\ chan # <<>> /\ chan' = Tail(chan)
                /\ \/ batch' = Append(batch, Head(chan)) /\ UNCHANGED temp
                   \/ batch' = <<>> /\ temp' = Inserted(Append(batch, Head(chan)))
             \/ batch' = <<>> /\ temp' = Inserted(batch) /\ UNCHANGED chan
      PROVE  NoneMissed' /\ NoneTwice'
  <2>1. CASE UNCHANGED <<chan, batch, temp>>
    <3>1. Walked' = Walked /\ Tabled' = Tabled
      BY <1>0, <2>1 DEF Walked, Tabled, Listed, Paths
    <3>2. UNCHANGED <<Paths(chan), Paths(batch), Paths(walk.held), Distinct(batch), Distinct(chan)>>
      BY <1>0, <2>1 DEF Paths, Distinct
    <3> QED BY <1>0, <3>1, <3>2 DEF ScanLayer, NoneMissed, NoneTwice
  <2>2. CASE chan # <<>> /\ chan' = Tail(chan)
             /\ batch' = Append(batch, Head(chan)) /\ UNCHANGED temp
    <3> DEFINE f == Head(chan).file
    <3>1. /\ Head(chan) \in Rows
          /\ Paths(chan) = {f} \cup Paths(chan')
          /\ Distinct(chan) => Distinct(chan') /\ f \notin Paths(chan')
      BY <1>s, <2>2, TailRows
    <3>2. /\ Paths(batch') = Paths(batch) \cup {f}
          /\ Distinct(batch) /\ f \notin Paths(batch) => Distinct(batch')
      BY <1>s, <2>2, <3>1, AppendRows
    <3>3. Tabled' = Tabled
      BY <2>2 DEF Tabled, Listed
    <3> HIDE DEF f
    <3>4. Walked' = Walked
      BY <1>0, <3>1, <3>2, <3>3 DEF Walked
    <3>5. NoneMissed'
      BY <1>0, <3>4 DEF ScanLayer, NoneMissed
    <3>6. NoneTwice'
      BY <1>0, <3>1, <3>2, <3>3, <3>4 DEF ScanLayer, NoneTwice, Distinct
    <3> QED BY <3>5, <3>6
  <2>3. CASE chan # <<>> /\ chan' = Tail(chan)
             /\ batch' = <<>> /\ temp' = Inserted(Append(batch, Head(chan)))
    <3> DEFINE f == Head(chan).file
               rows == Append(batch, Head(chan))
    <3>1. /\ Head(chan) \in Rows
          /\ Paths(chan) = {f} \cup Paths(chan')
          /\ Distinct(chan) => Distinct(chan') /\ f \notin Paths(chan')
      BY <1>s, <2>3, TailRows
    <3>2. rows \in Seq(Rows) /\ Paths(rows) = Paths(batch) \cup {f}
      BY <1>s, <3>1, AppendRows
    <3>3. temp' = Inserted(rows)
      BY <2>3
    <3> HIDE DEF f, rows
    <3>4. Tabled' = Tabled \cup Paths(rows)
      BY <3>2, <3>3, InsertedTyped, RowFiles DEF Tabled, Listed
    <3>5. Paths(batch') = {} /\ Distinct(batch')
      BY <2>3, EmptyRows
    <3>6. Walked' = Walked
      BY <1>0, <3>1, <3>2, <3>4, <3>5 DEF Walked
    <3>7. NoneMissed'
      BY <1>0, <3>6 DEF ScanLayer, NoneMissed
    <3>8. NoneTwice'
      BY <1>0, <3>1, <3>2, <3>4, <3>5, <3>6 DEF ScanLayer, NoneTwice, Distinct
    <3> QED BY <3>7, <3>8
  <2>4. CASE batch' = <<>> /\ temp' = Inserted(batch) /\ UNCHANGED chan
    <3>1. Tabled' = Tabled \cup Paths(batch)
      BY <1>s, <2>4, InsertedTyped, RowFiles DEF Tabled, Listed
    <3>2. Paths(batch') = {} /\ Distinct(batch') /\ Paths(chan') = Paths(chan)
      BY <2>4, EmptyRows
    <3>3. Walked' = Walked
      BY <1>0, <3>1, <3>2 DEF Walked
    <3>4. NoneMissed'
      BY <1>0, <3>3 DEF ScanLayer, NoneMissed
    <3>5. NoneTwice'
      BY <1>0, <2>4, <3>1, <3>2, <3>3 DEF ScanLayer, NoneTwice, Distinct
    <3> QED BY <3>4, <3>5
  <2> QED BY <1>m, <2>1, <2>2, <2>3, <2>4
<1>1. NoneMissed' /\ NoneTwice'
  BY <1>m DEF Consume, Receive, ReceiveFull, TimeoutFlush, Disconnected, InsertFails
<1>2. ScanEnds'
  BY <1>0 DEF ScanLayer, ScanEnds, Ended, Consume, Receive, ReceiveFull, TimeoutFlush, Disconnected,
              InsertFails
<1>3. PanicsOnlyOnVanished'
  <2>1. CASE InsertFails
    <3>1. ~(lost = {} /\ inner \cap Present = {})
      BY <1>0, <2>1, FlushInserts DEF InsertFails
    <3> QED BY <1>0, <3>1 DEF PanicsOnlyOnVanished
  <2>2. CASE Disconnected
    BY <1>0, <2>2 DEF Disconnected, Ended, PanicsOnlyOnVanished, ScanLayer, ScanEnds
  <2>3. CASE Receive \/ ReceiveFull \/ TimeoutFlush
    BY <1>0, <2>3 DEF Receive, ReceiveFull, TimeoutFlush, PanicsOnlyOnVanished, ScanLayer
  <2> QED BY <2>1, <2>2, <2>3 DEF Consume
<1> QED BY <1>1, <1>2, <1>3 DEF ScanLayer

LEMMA ScanInit == Init => ScanLayer
BY ScanLayerIdle DEF Init

LEMMA ScanLayerStep ==
  ASSUME FileTypeOK, Phases, Inodes, ScanLayer, Phases', [Next]_vars
  PROVE  ScanLayer'
<1>1. CASE pc' # "scan"
  <2>1. ScanIdle'
    BY <1>1 DEF Phases
  <2> QED BY <1>1, <2>1 DEF ScanIdle, NotWalking, ScanLayer, NoneMissed, NoneTwice, ScanEnds, Ended,
                            PanicsOnlyOnVanished
<1>2. CASE Boot
  BY <1>2, BootScans
<1>3. CASE pc = "scan" /\ Env
  BY <1>3, EnvScans
<1>4. CASE ScanStep
  BY <1>4, ProduceScans, ConsumeScans DEF ScanStep
<1>5. CASE pc = "scan" /\ pc' = "scan" /\ UNCHANGED <<disk, inner, scanVars, lost>>
  <2>1. /\ UNCHANGED <<pc, inner, walk, scanned, lost, chan, batch, Present, Tabled, Walked>>
        /\ \A f \in Files : Exists(f)' <=> Exists(f)
    BY <1>5 DEF scanVars, Present, Exists, Tabled, Listed, Walked, Paths
  <2>2. NoneMissed'
    BY <2>1 DEF ScanLayer, NoneMissed
  <2>3. NoneTwice'
    BY <2>1 DEF ScanLayer, NoneTwice, Paths, Distinct
  <2>4. ScanEnds' /\ PanicsOnlyOnVanished'
    BY <2>1 DEF ScanLayer, ScanEnds, Ended, PanicsOnlyOnVanished
  <2> QED BY <2>2, <2>3, <2>4 DEF ScanLayer
<1> QED BY <1>1, <1>2, <1>3, <1>4, <1>5, Scanning

(* A scan that is reported complete is.                                     *)
LEMMA ScanCompletes ==
  ASSUME Phases, ScanLayer
  PROVE  ScanIsComplete
<1> SUFFICES ASSUME scanned = "ok", NEW f \in Files \ lost PROVE Listed(f) <=> Exists(f)
  BY DEF ScanIsComplete
<1>1. pc = "scan"
  BY DEF Phases, ScanIdle
<1>2. walk.at = "done" /\ walk.held = <<>> /\ chan = <<>> /\ batch = <<>>
  BY DEF ScanLayer, ScanEnds, Ended
<1>3. Walked = Tabled
  BY <1>2, EmptyRows DEF Walked
<1> QED BY <1>1, <1>2, <1>3 DEF ScanLayer, NoneMissed, Tabled

----------------------------------------------------------------------------
(* The queue.                                                               *)

LEMMA QueueGrows ==
  ASSUME FileTypeOK, NEW e \in Events, events' = Append(events, e)
  PROVE  /\ \A i \in DOMAIN events : i \in DOMAIN events' /\ events'[i] = events[i]
         /\ \E n \in DOMAIN events' :
              /\ events'[n] = e
              /\ \A i \in DOMAIN events' : i # n => i \in DOMAIN events /\ i < n
         /\ Queued' = Queued \cup {e.file}
<1> DEFINE n == Len(events) + 1
<1>1. /\ events \in Seq(Events) /\ n \in Nat
      /\ DOMAIN events = 1 .. n - 1 /\ DOMAIN events' = 1 .. n
      /\ events'[n] = e /\ \A i \in DOMAIN events : events'[i] = events[i]
  BY DEF FileTypeOK
<1> HIDE DEF n
<1>2. /\ \A i \in DOMAIN events : i \in DOMAIN events' /\ events'[i] = events[i]
      /\ n \in DOMAIN events' /\ events'[n] = e
      /\ \A i \in DOMAIN events' : i # n => i \in DOMAIN events /\ i < n
  BY <1>1
<1>3. Queued' = Queued \cup {e.file}
  BY <1>2 DEF Queued
<1> QED BY <1>2, <1>3

LEMMA QueueShrinks ==
  ASSUME FileTypeOK, events # <<>>, events' = Tail(events)
  PROVE  /\ Head(events) = events[1] /\ Head(events) \in Events /\ 1 \in DOMAIN events
         /\ \A i \in DOMAIN events' : i + 1 \in DOMAIN events /\ events'[i] = events[i + 1] /\ i > 0
         /\ \A i \in DOMAIN events : i > 1 => i - 1 \in DOMAIN events' /\ events'[i - 1] = events[i]
         /\ \A i \in DOMAIN events : i \in Nat \ {0}
         /\ Queued = Queued' \cup {Head(events).file}
<1>1. /\ events \in Seq(Events) /\ Len(events) \in Nat \ {0}
      /\ Head(events) = events[1] /\ Head(events) \in Events
      /\ DOMAIN events = 1 .. Len(events) /\ DOMAIN events' = 1 .. Len(events) - 1
      /\ \A i \in DOMAIN events' : events'[i] = events[i + 1]
  BY DEF FileTypeOK
<1>2. /\ 1 \in DOMAIN events
      /\ \A i \in DOMAIN events' : i + 1 \in DOMAIN events /\ events'[i] = events[i + 1] /\ i > 0
      /\ \A i \in DOMAIN events : i > 1 => i - 1 \in DOMAIN events' /\ events'[i - 1] = events[i]
      /\ \A i \in DOMAIN events : i \in Nat \ {0}
  BY <1>1
<1>3. \A i \in DOMAIN events : i = 1 \/ i > 1
  BY <1>2
<1>4. Queued = Queued' \cup {Head(events).file}
  BY <1>1, <1>2, <1>3 DEF Queued
<1> QED BY <1>1, <1>2, <1>4

LEMMA LastInit == Init => LastSays
BY DEF Init, LastSays

LEMMA LastStep ==
  ASSUME FileTypeOK, Phases, Inodes, LastSays, Phases', [Next]_vars
  PROVE  LastSays'
<1> USE DEF Exists, Unlinked
<1>1. CASE Env
  <2>1. PICK f \in Files, new \in Nodes, how \in DOMAIN ChangeKind,
             noticed \in BOOLEAN : Changed(f, new, how, noticed)
    BY <1>1, EnvChanges
  <2>2. /\ Unlinked(f)' <=> ChangeKind[how] = "Removed"
        /\ \A g \in Files \ {f} : Unlinked(g)' <=> Unlinked(g)
    <3>1. /\ disk' = [disk EXCEPT ![f] = new] /\ disk \in [Files -> Nodes]
          /\ moved' = IF new = Absent /\ how = "Name" THEN moved \cup {f} ELSE moved \ {f}
      BY <2>1 DEF Changed, Change, FileTypeOK
    <3>2. /\ Unlinked(f)' <=> new = Absent /\ how # "Name"
          /\ \A g \in Files \ {f} : Unlinked(g)' <=> Unlinked(g)
      BY <3>1
    <3> QED BY <2>1, <3>2, Kinds DEF Changed
  <2>3. UNCHANGED <<evt, pc>>
    BY <2>1 DEF Changed, Change
  <2>4. CASE ~Watching
    <3>1. events' = <<>> /\ evt' = NoEvent
      BY <2>1, <2>4 DEF Changed, Change, Phases
    <3> QED BY <3>1 DEF LastSays
  <2>5. CASE Watching
    <3> DEFINE e == [kind |-> ChangeKind[how], file |-> f]
    <3>1. e \in Events /\ events' = Append(events, e) /\ e.file = f /\ e.kind = ChangeKind[how]
      BY <2>1, <2>5, Kinds DEF Changed, Change, Events
    <3> HIDE DEF e
    <3>2. /\ \A i \in DOMAIN events : i \in DOMAIN events' /\ events'[i] = events[i]
          /\ Queued' = Queued \cup {f}
      BY <3>1, QueueGrows
    <3>3. PICK n \in DOMAIN events' :
            /\ events'[n] = e
            /\ \A i \in DOMAIN events' : i # n => i \in DOMAIN events /\ i < n
      BY <3>1, QueueGrows
    <3>4. \A i \in DOMAIN events : i \in Nat /\ events[i].file \in Files
      <4>1. \A i \in DOMAIN events : i \in Nat /\ events[i] \in Events
        BY DEF FileTypeOK
      <4> QED BY <4>1 DEF Events
    <3>5. ASSUME NEW i \in DOMAIN events',
                 \A j \in DOMAIN events' : j > i => events'[j].file # events'[i].file
          PROVE  (/\ disk'[events'[i].file] = Absent
                  /\ events'[i].file \notin moved') <=> events'[i].kind = "Removed"
      <4>1. CASE i = n
        BY <2>2, <3>1, <3>3, <4>1
      <4>2. CASE i # n
        <5>1. i \in DOMAIN events /\ events'[i] = events[i] /\ n > i
          BY <3>2, <3>3, <4>2
        <5>2. events[i].file # f
          BY <3>1, <3>3, <3>5, <5>1
        <5>3. \A j \in DOMAIN events : j > i => events[j].file # events[i].file
          BY <3>2, <3>5, <5>1
        <5> QED BY <2>2, <3>4, <5>1, <5>2, <5>3 DEF LastSays
      <4> QED BY <4>1, <4>2
    <3>6. ASSUME evt' # NoEvent, evt'.file \notin Queued'
          PROVE  (disk'[evt'.file] = Absent /\ evt'.file \notin moved') <=> evt'.kind = "Removed"
      <4>1. evt' = evt /\ evt \in Events /\ evt.file \in Files
        BY <2>3, <3>6 DEF FileTypeOK, Events
      <4>2. evt.file \notin Queued /\ evt.file # f
        BY <3>2, <3>6, <4>1
      <4> QED BY <2>2, <3>6, <4>1, <4>2 DEF LastSays
    <3> QED BY <2>3, <3>5, <3>6 DEF LastSays
  <2> QED BY <2>4, <2>5
<1>2. CASE (DropEvent \/ AcceptEvent)
  <2>1. /\ events # <<>> /\ events' = Tail(events) /\ UNCHANGED <<disk, moved>> /\ evt = NoEvent
        /\ evt' \in {NoEvent, Head(events)}
    BY <1>2 DEF DropEvent, AcceptEvent, diskVars, Phases
  <2>3. /\ Head(events) = events[1] /\ 1 \in DOMAIN events
        /\ \A i \in DOMAIN events' : i + 1 \in DOMAIN events /\ events'[i] = events[i + 1] /\ i > 0
        /\ \A i \in DOMAIN events : i > 1 => i - 1 \in DOMAIN events' /\ events'[i - 1] = events[i]
        /\ \A i \in DOMAIN events : i \in Nat \ {0}
    BY <2>1, QueueShrinks
  <2>4. ASSUME NEW i \in DOMAIN events',
               \A j \in DOMAIN events' : j > i => events'[j].file # events'[i].file
        PROVE  (/\ disk'[events'[i].file] = Absent
                  /\ events'[i].file \notin moved') <=> events'[i].kind = "Removed"
    <3>1. i + 1 \in DOMAIN events /\ events'[i] = events[i + 1] /\ i \in Nat
      <4>1. events' \in Seq(Events)
        BY <2>1 DEF FileTypeOK
      <4> QED BY <2>3, <4>1
    <3>2. ASSUME NEW j \in DOMAIN events, j > i + 1 PROVE events[j].file # events[i + 1].file
      <4>1. j > 1 /\ j - 1 > i /\ j - 1 \in DOMAIN events' /\ events'[j - 1] = events[j]
        BY <2>3, <3>1, <3>2
      <4> QED BY <2>4, <3>1, <4>1
    <3> QED BY <2>1, <3>1, <3>2 DEF LastSays
  <2>5. ASSUME evt' # NoEvent, evt'.file \notin Queued'
        PROVE  (disk'[evt'.file] = Absent /\ evt'.file \notin moved') <=> evt'.kind = "Removed"
    <3>1. evt' = events[1]
      BY <2>1, <2>3, <2>5
    <3>2. ASSUME NEW j \in DOMAIN events, j > 1 PROVE events[j].file # events[1].file
      BY <2>3, <2>5, <3>1, <3>2 DEF Queued
    <3> QED BY <2>1, <2>3, <3>1, <3>2 DEF LastSays
  <2> QED BY <2>4, <2>5 DEF LastSays
<1>3. CASE Died \/ Boot
  <2>1. ~Watching'
    BY <1>3 DEF Died, Boot, Watching
  <2> QED BY <2>1 DEF Phases, LastSays
<1>4. CASE UNCHANGED <<disk, moved, events>> /\ evt' \in {NoEvent, evt}
  <2>1. evt' = NoEvent \/ evt' = evt
    BY <1>4
  <2> QED BY <1>4, <2>1 DEF LastSays, Queued, Exists
<1>5. \/ Env \/ DropEvent \/ AcceptEvent \/ Died \/ Boot
      \/ UNCHANGED <<disk, moved, events>> /\ evt' \in {NoEvent, evt}
  BY DEF Next, Daemon, ColdStart, Tracker, vars, Boot, Crash, ScanPanic, ReadError, CoolDown,
         PublishBatch, FileSent, ScanStep, PlanDelta, ColdSend, ColdForget, StartWatching,
         WakeRemoved, WakeChanged, OpenFile, Checkpoint, diskVars, watchV
<1> QED BY <1>1, <1>2, <1>3, <1>4, <1>5

(* A change to another file leaves an open descriptor alone.                *)
LEMMA EnvElsewhere ==
  ASSUME FileTypeOK, NEW f \in Files, NEW new \in Nodes,
         NEW how \in DOMAIN ChangeKind, NEW noticed \in BOOLEAN,
         Changed(f, new, how, noticed)
  PROVE  /\ UNCHANGED <<pc, online, ckpt, delta, gone, evt, sent, Watching, ColdPhase>>
         /\ \A g \in Files \ {f} : disk'[g] = disk[g]
         /\ job.file # f => job' = job
         /\ job'.file = job.file /\ job'.caller = job.caller
         /\ Watching => lost' = lost /\ events' = Append(events, [kind |-> ChangeKind[how], file |-> f])
         /\ ColdPhase => lost' = lost \cup {f} \/ (f \in delta /\ lost' = lost /\ Exists(f))
<1>1. job \in Jobs /\ disk \in [Files -> Nodes]
  BY DEF FileTypeOK
<1>2. job'.file = job.file /\ job'.caller = job.caller
  BY <1>1 DEF Changed, Frozen, Jobs
<1>3. UNCHANGED <<pc, online, ckpt, delta, gone, evt, sent>>
  BY DEF Changed, Change, ledger, coldVars
<1>4. (Watching)' = Watching /\ (ColdPhase)' = ColdPhase
  BY <1>2, <1>3 DEF Watching, ColdPhase
<1>5. \A g \in Files \ {f} : disk'[g] = disk[g]
  BY <1>1 DEF Changed, Change
<1>6. job.file # f => job' = job
  BY DEF Changed, Frozen
<1>7. Watching => lost' = lost /\ events' = Append(events, [kind |-> ChangeKind[how], file |-> f])
  BY DEF Changed, Change
<1>8. ColdPhase => lost' = lost \cup {f} \/ (f \in delta /\ lost' = lost /\ Exists(f))
  BY DEF Changed, Change, ColdPhase, Watching, Ahead
<1> QED BY <1>2, <1>3, <1>4, <1>5, <1>6, <1>7, <1>8

----------------------------------------------------------------------------
(* Paths that were renamed away.                                            *)

LEMMA MovedInit == Init => MovedIsEmpty
BY DEF Init, MovedIsEmpty, EventPhase

LEMMA MovedStep ==
  ASSUME FileTypeOK, Phases, Inodes, MovedIsEmpty, FileTypeOK', Phases', [Next]_vars
  PROVE  MovedIsEmpty'
<1>1. moved' \cap Present' = {}
  <2>1. CASE Env
    <3>1. PICK f \in Files, new \in Nodes, how \in DOMAIN ChangeKind,
               noticed \in BOOLEAN : Changed(f, new, how, noticed)
      BY <2>1, EnvChanges
    <3>2. /\ disk' = [disk EXCEPT ![f] = new] /\ disk \in [Files -> Nodes]
          /\ moved' = IF new = Absent /\ how = "Name" THEN moved \cup {f} ELSE moved \ {f}
      BY <3>1 DEF Changed, Change, FileTypeOK
    <3> QED BY <3>2 DEF MovedIsEmpty, Present, Exists
  <2>2. CASE UNCHANGED disk /\ moved' \subseteq moved
    BY <2>2 DEF MovedIsEmpty, Present, Exists
  <2>3. [Next]_vars => Env \/ (UNCHANGED disk /\ moved' \subseteq moved)
    BY DEF Next, Daemon, ColdStart, Tracker, vars, Boot, Crash, ScanPanic, Died, ReadError,
           CoolDown, ScanStep, PublishBatch, FileSent, PlanDelta, ColdSend, ColdForget,
           StartWatching, DropEvent, AcceptEvent, WakeRemoved, WakeChanged, OpenFile, Checkpoint,
           diskVars
  <2> QED BY <2>1, <2>2, <2>3
<1>2. SUFFICES ASSUME EventPhase', disk'[job'.file] = Absent, job'.file \notin Queued'
               PROVE  job'.off = 0 /\ job'.end = 0
  BY <1>1 DEF MovedIsEmpty, Exists
<1>3. EventPhase /\ disk[job.file] = Absent /\ job.file \notin Queued => job.off = 0 /\ job.end = 0
  BY DEF MovedIsEmpty, Exists
<1>4. CASE Env
  <2>1. PICK f \in Files, new \in Nodes, how \in DOMAIN ChangeKind,
             noticed \in BOOLEAN : Changed(f, new, how, noticed)
    BY <1>4, EnvChanges
  <2>2. /\ UNCHANGED <<pc, online, ckpt, delta, gone, evt, sent, Watching, ColdPhase>>
        /\ \A g \in Files \ {f} : disk'[g] = disk[g]
        /\ job.file # f => job' = job
        /\ job'.file = job.file /\ job'.caller = job.caller
        /\ Watching => lost' = lost /\ events' = Append(events, [kind |-> ChangeKind[how], file |-> f])
        /\ ColdPhase => lost' = lost \cup {f} \/ (f \in delta /\ lost' = lost /\ Exists(f))
    BY <2>1, EnvElsewhere
  <2>3. EventPhase /\ Watching
    BY <1>2, <2>2 DEF EventPhase, Watching
  <2>4. [kind |-> ChangeKind[how], file |-> f] \in Events
    BY Kinds DEF Events
  <2>5. Queued' = Queued \cup {f}
    BY <2>2, <2>3, <2>4, QueueGrows
  <2>6. job.file # f /\ job.file \in Files
    BY <1>2, <2>2, <2>3, <2>5 DEF Phases, Watching, FileTypeOK, Events, NoEvent, EventPhase
  <2> QED BY <1>2, <1>3, <2>2, <2>3, <2>5, <2>6
<1>5. CASE PublishBatch \/ ReadError
  <2>1. /\ pc = "send" /\ job.off < ViewEnd /\ UNCHANGED <<disk, events, evt, pc>>
        /\ job \in Jobs
    BY <1>5 DEF PublishBatch, ReadError, diskVars, watchV, FileTypeOK
  <2>2. job'.caller = job.caller /\ job'.file = job.file
    BY <1>5, <2>1 DEF PublishBatch, ReadError, Jobs
  <2>3. job.off = 0 /\ job.end = 0
    BY <1>2, <1>3, <2>1, <2>2 DEF EventPhase, Queued
  <2>4. job.file \in Files /\ disk[job.file].len = 0
    BY <1>2, <2>1, <2>2 DEF Phases, Absent
  <2>5. ViewEnd = 0
    BY <2>3, <2>4 DEF ViewEnd
  <2> QED BY <2>1, <2>3, <2>5
<1>6. CASE FileSent
  <2>1. UNCHANGED <<disk, events>> /\ EventPhase /\ job' = job
    BY <1>2, <1>6 DEF FileSent, EventPhase, diskVars, watchV, Phases
  <2> QED BY <1>2, <1>3, <2>1 DEF Queued
<1>7. CASE WakeChanged
  <2>1. job' = [NoJob EXCEPT !.file = evt.file, !.off = StartOffset(evt.file), !.caller = "event"]
    BY <1>7 DEF WakeChanged
  <2>2. job'.end = 0 /\ pc' = "open"
    BY <1>7, <2>1 DEF NoJob, WakeChanged
  <2> QED BY <2>2 DEF Phases
<1>8. CASE OpenFile
  <2>1. EventPhase /\ UNCHANGED <<disk, events>> /\ job.file \in Files
    BY <1>8 DEF OpenFile, EventPhase, diskVars, watchV, Phases, Watching, FileTypeOK, Events, NoEvent
  <2>2. job'.file = job.file
    BY <1>8 DEF OpenFile, Opened
  <2>3. job' = job
    BY <1>2, <1>8, <2>1, <2>2 DEF OpenFile, Exists
  <2> QED BY <1>2, <1>3, <2>1, <2>3 DEF Queued
<1>9. CASE UNCHANGED <<disk, events, pc, job>>
  BY <1>2, <1>3, <1>9 DEF EventPhase, Queued
<1>10. \/ Env \/ PublishBatch \/ ReadError \/ FileSent \/ WakeChanged \/ OpenFile
       \/ UNCHANGED <<disk, events, pc, job>>
  <2>1. pc' \in {"open", "send", "record"} /\ (pc' = "send" => job'.caller = "event")
    BY <1>2 DEF EventPhase
  <2> QED BY <2>1
       DEF Next, Daemon, ColdStart, Tracker, vars, Boot, Crash, ScanPanic, Died, CoolDown,
           ScanStep, PlanDelta, ColdSend, Opened, ColdForget, StartWatching, DropEvent, AcceptEvent,
           WakeRemoved, Checkpoint, diskVars, watchV
<1> QED BY <1>4, <1>5, <1>6, <1>7, <1>8, <1>9, <1>10

----------------------------------------------------------------------------
(* Checkpoints of files that are gone.                                      *)

LEMMA ForgettingInit == Init => Forgetting
BY DEF Init, Forgetting, ColdPhase, Watching

LEMMA ForgettingStep ==
  ASSUME FileTypeOK, Phases, Inodes, ScanLayer, LastSays, MovedIsEmpty, Forgetting, FileTypeOK',
         Phases', [Next]_vars
  PROVE  Forgetting'
<1> SUFFICES ASSUME NEW g \in Files, g \notin lost', disk'[g] = Absent, ckpt'[g] # NoCkpt
             PROVE  /\ ColdPhase' => g \in gone'
                    /\ Watching' => \/ g \in Queued' \/ evt'.file = g
                                    \/ g \in moved' /\ ckpt'[g].off = 0
  BY DEF Forgetting, Exists, Checked
<1>0. /\ g \notin lost /\ disk[g] = Absent /\ ckpt[g] # NoCkpt /\ ColdPhase => g \in gone
      /\ g \notin lost /\ disk[g] = Absent /\ ckpt[g] # NoCkpt /\ Watching
           => g \in Queued \/ evt.file = g \/ (g \in moved /\ ckpt[g].off = 0)
      /\ ckpt \in [Files -> [mtime : Times, off : Lengths, ino : Times]]
  BY DEF Forgetting, Exists, Checked, FileTypeOK
<1>1. CASE Env
  <2>1. PICK f \in Files, new \in Nodes, how \in DOMAIN ChangeKind,
             noticed \in BOOLEAN : Changed(f, new, how, noticed)
    BY <1>1, EnvChanges
  <2>2. /\ UNCHANGED <<pc, ckpt, gone, evt, Watching, ColdPhase>>
        /\ \A h \in Files \ {f} : disk'[h] = disk[h]
        /\ Watching => lost' = lost /\ events' = Append(events, [kind |-> ChangeKind[how], file |-> f])
        /\ ColdPhase => lost' = lost \cup {f} \/ (f \in delta /\ lost' = lost /\ Exists(f))
        /\ moved \subseteq moved' \cup {f}
    <3>1. /\ UNCHANGED <<pc, online, ckpt, delta, gone, evt, sent, Watching, ColdPhase>>
          /\ \A h \in Files \ {f} : disk'[h] = disk[h]
          /\ job.file # f => job' = job
          /\ job'.file = job.file /\ job'.caller = job.caller
          /\ Watching => lost' = lost /\ events' = Append(events, [kind |-> ChangeKind[how], file |-> f])
          /\ ColdPhase => lost' = lost \cup {f} \/ (f \in delta /\ lost' = lost /\ Exists(f))
      BY <2>1, EnvElsewhere
    <3>2. moved \subseteq moved' \cup {f}
      BY <2>1 DEF Changed, Change
    <3> QED BY <3>1, <3>2
  <2>3. ColdPhase => g \in gone
    <3>1. CASE g = f
      <4>1. ASSUME ColdPhase PROVE FALSE
        <5>1. noticed
          BY <1>1, <2>1, <2>2, <3>1, <4>1 DEF Changed, Change, Watching, ColdPhase
        <5>2. disk'[f] = new /\ new # Absent
          BY <2>1, <5>1 DEF Changed, Change, FileTypeOK
        <5> QED BY <3>1, <5>2
      <4> QED BY <4>1
    <3>2. CASE g # f
      BY <1>0, <2>2, <3>2
    <3> QED BY <3>1, <3>2
  <2>4. Watching => g \in Queued' \/ evt'.file = g \/ (g \in moved' /\ ckpt'[g].off = 0)
    <3>1. CASE Watching
      <4>1. [kind |-> ChangeKind[how], file |-> f] \in Events
        BY Kinds DEF Events
      <4>2. Queued' = Queued \cup {f}
        BY <2>2, <3>1, <4>1, QueueGrows
      <4> QED BY <1>0, <2>2, <3>1, <4>2
    <3> QED BY <3>1
  <2> QED BY <2>2, <2>3, <2>4
<1>2. CASE Boot \/ Died \/ ScanStep
  <2>1. ~ColdPhase' /\ ~Watching'
    BY <1>2 DEF Boot, Died, ScanStep, ColdPhase, Watching
  <2> QED BY <2>1
<1>3. CASE PlanDelta
  <2>1. ~Watching' /\ gone' = {f \in Files : ~Listed(f) /\ Checked(f)}
        /\ scanned = "ok" /\ UNCHANGED <<disk, ckpt, lost>>
    BY <1>3 DEF PlanDelta, Watching, diskVars, ledger
  <2>2. ScanIsComplete
    BY ScanCompletes
  <2>3. ~Listed(g)
    BY <2>1, <2>2 DEF ScanIsComplete, Exists
  <2> QED BY <2>1, <2>3 DEF Checked
<1>4. CASE ColdSend
  <2>1. ~Watching' /\ ColdPhase /\ UNCHANGED <<disk, ckpt, gone, lost>>
    BY <1>4 DEF ColdSend, Opened, Watching, ColdPhase, diskVars, ledger
  <2> QED BY <1>0, <2>1
<1>5. CASE ColdForget
  <2>1. PICK f \in gone : gone' = gone \ {f} /\ ckpt' = [ckpt EXCEPT ![f] = NoCkpt]
    BY <1>5 DEF ColdForget
  <2>2. ~Watching' /\ ColdPhase /\ UNCHANGED <<disk, lost>>
    BY <1>5 DEF ColdForget, Watching, ColdPhase, diskVars
  <2>3. g # f
    BY <1>0, <2>1
  <2> QED BY <1>0, <2>1, <2>2, <2>3
<1>6. CASE StartWatching
  <2>1. ~ColdPhase' /\ ColdPhase /\ gone = {} /\ UNCHANGED <<disk, ckpt, lost>>
    BY <1>6 DEF StartWatching, ColdPhase, diskVars, ledger
  <2> QED BY <1>0, <2>1
<1>7. CASE PublishBatch \/ ReadError \/ FileSent
  <2>1. /\ UNCHANGED <<disk, moved, ckpt, gone, events, evt>> /\ lost \subseteq lost' /\ pc = "send"
    BY <1>7 DEF PublishBatch, ReadError, FileSent, diskVars, ledger, coldVars, watchV
  <2>2. job.caller \in {"cold", "event"} /\ job \in Jobs
    BY <2>1 DEF FileTypeOK, Phases, Jobs
  <2>3. CASE PublishBatch \/ ReadError
    <3>1. job'.caller = job.caller /\ pc' = pc
      BY <2>2, <2>3 DEF PublishBatch, ReadError, Jobs
    <3>2. UNCHANGED <<Watching, ColdPhase, Queued>>
      BY <2>1, <3>1 DEF Watching, ColdPhase, Queued
    <3> QED BY <1>0, <2>1, <3>2
  <2>4. CASE FileSent
    <3>1. \/ ColdPhase /\ pc' = "cold"
          \/ Watching /\ pc' = "record"
      BY <2>1, <2>2, <2>4 DEF FileSent, Watching, ColdPhase
    <3> QED BY <1>0, <2>1, <3>1 DEF Watching, ColdPhase, Queued
  <2> QED BY <1>7, <2>3, <2>4
<1>8. CASE DropEvent
  <2>1. /\ events # <<>> /\ events' = Tail(events) /\ lost' = lost \cup {Head(events).file}
        /\ pc = "idle" /\ UNCHANGED <<disk, moved, ckpt, evt, pc>>
    BY <1>8 DEF DropEvent, diskVars, ledger
  <2>2. Queued = Queued' \cup {Head(events).file}
    BY <2>1, QueueShrinks
  <2> QED BY <1>0, <2>1, <2>2 DEF Watching, ColdPhase
<1>9. CASE AcceptEvent
  <2>1. /\ events # <<>> /\ events' = Tail(events) /\ evt' = Head(events) /\ pc = "idle"
        /\ pc' = "debounce" /\ evt = NoEvent /\ UNCHANGED <<disk, moved, ckpt, lost>>
    BY <1>9 DEF AcceptEvent, diskVars, Phases
  <2>2. Queued = Queued' \cup {Head(events).file}
    BY <2>1, QueueShrinks
  <2>3. evt.file # g
    BY <2>1, Numbers DEF NoEvent
  <2> QED BY <1>0, <2>1, <2>2, <2>3 DEF Watching, ColdPhase
<1>10. CASE WakeRemoved
  <2>1. /\ ckpt' = [ckpt EXCEPT ![evt.file] = NoCkpt] /\ lost' = lost \ {evt.file}
        /\ pc = "debounce" /\ pc' = "idle" /\ UNCHANGED <<disk, moved, events>>
    BY <1>10 DEF WakeRemoved, diskVars
  <2>2. evt.file # g
    BY <1>0, <2>1
  <2>3. ckpt'[g] = ckpt[g] /\ Queued' = Queued
    BY <1>0, <2>1, <2>2 DEF Queued
  <2> QED BY <1>0, <2>1, <2>2, <2>3 DEF Watching, ColdPhase
<1>11. CASE WakeChanged
  BY <1>0, <1>11 DEF WakeChanged, Watching, ColdPhase, Queued, diskVars, ledger
<1>12. CASE OpenFile
  <2>1. /\ pc = "open" /\ pc' = "send" /\ lost' = lost \ {job.file} /\ evt.file = job.file
        /\ UNCHANGED <<disk, moved, ckpt, events, evt>>
    BY <1>12 DEF OpenFile, diskVars, ledger, watchV, Phases, EventPhase
  <2>2. ~ColdPhase'
    BY <2>1 DEF Phases, ColdPhase, Watching
  <2> QED BY <1>0, <2>1, <2>2 DEF Watching, Queued
<1>13. CASE Checkpoint
  <2>1. /\ ckpt' = [ckpt EXCEPT ![job.file] = [mtime |-> clock, off |-> job.off, ino |-> 0]]
        /\ pc = "record" /\ pc' = "idle" /\ evt.file = job.file /\ evt.kind # "Removed"
        /\ evt # NoEvent /\ UNCHANGED <<disk, moved, events, lost>>
    BY <1>13 DEF Checkpoint, diskVars, Phases, EventPhase, Watching
  <2>2. Queued' = Queued /\ Watching /\ ~ColdPhase'
    BY <2>1 DEF Queued, Watching, ColdPhase
  <2>3. CASE g = evt.file
    <3>1. g \in Queued \/ (g \in moved /\ job.off = 0)
      BY <2>1, <2>2, <2>3 DEF LastSays, MovedIsEmpty, Unlinked, Exists, EventPhase
    <3>2. ckpt'[g].off = job.off
      BY <1>0, <2>1, <2>3
    <3> QED BY <2>1, <2>2, <3>1, <3>2
  <2>4. CASE g # evt.file
    <3>1. ckpt'[g] = ckpt[g]
      BY <1>0, <2>1, <2>4
    <3> QED BY <1>0, <2>1, <2>2, <2>4, <3>1
  <2> QED BY <2>3, <2>4
<1>14. CASE CoolDown \/ UNCHANGED vars
  <2>1. UNCHANGED <<disk, moved, ckpt, lost, gone, events, evt, pc, job>>
    BY <1>14 DEF CoolDown, vars, diskVars, ledger, coldVars, watchV
  <2> QED BY <1>0, <2>1 DEF Watching, ColdPhase, Queued
<1> QED BY <1>1, <1>2, <1>3, <1>4, <1>5, <1>6, <1>7, <1>8, <1>9, <1>10, <1>11, <1>12, <1>13, <1>14
        DEF Next, Daemon, ColdStart, Tracker, Crash, ScanPanic

----------------------------------------------------------------------------
(* What is sent.                                                            *)

LEMMA DeliveringInit == Init => Delivering
BY DEF Init, Delivering

(* What a send that has the file as it is sees, and what it leaves.         *)
LEMMA SendingSees ==
  ASSUME FileTypeOK, NEW f \in Files, Sending(f)
  PROVE  /\ ViewEnd = disk[f].len /\ ViewVer = disk[f].ver
         /\ job.off >= ViewEnd => AllSent(f)
<1>1. job \in Jobs /\ disk[f] \in Nodes /\ job.file = f
  BY DEF FileTypeOK, Sending
<1>2. job.off \in Nat /\ disk[f].len \in Nat
  BY <1>1, Bounds DEF Jobs, Nodes
<1>3. ViewEnd = disk[f].len
  BY <1>1, <1>2 DEF ViewEnd, Sending
<1>4. ViewVer = disk[f].ver
  BY <1>1 DEF ViewVer, Sending
<1>5. ASSUME job.off >= ViewEnd PROVE AllSent(f)
  <2>1. \A r \in 0 .. disk[f].len - 1 : r \in 0 .. job.off - 1
    BY <1>2, <1>3, <1>5
  <2> QED BY <2>1 DEF AllSent, Sending
<1> QED BY <1>3, <1>4, <1>5

LEMMA OpenedSends ==
  ASSUME FileTypeOK, NEW f \in Files, NEW caller \in {"cold", "event"},
         job' = Opened(f, 0, caller), pc' = "send", UNCHANGED disk
  PROVE  Sending(f)'
<1>1. /\ job'.file = f /\ job'.off = 0 /\ job'.end = disk[f].len /\ job'.ver = disk[f].ver
      /\ job'.ino \in {0, disk[f].ino}
  BY DEF Opened
<1>2. \A r : r \notin 0 .. job'.off - 1
  BY <1>1
<1> QED BY <1>1, <1>2 DEF Sending

LEMMA DeliveringStep ==
  ASSUME FileTypeOK, Phases, Inodes, ScanLayer, LastSays, Delivering, FileTypeOK', Phases',
         [Next]_vars
  PROVE  Delivering'
<1> SUFFICES ASSUME online', NEW g \in Files, g \notin lost', disk'[g] # Absent
             PROVE  /\ ColdPhase' => g \in delta' \/ Sending(g)' \/ AllSent(g)'
                    /\ Watching' => \/ g \in Queued' \/ Sending(g)' \/ AllSent(g)'
                                    \/ pc' \in {"debounce", "open"} /\ evt'.file = g
  BY DEF Delivering, Present, Exists
<1>0. /\ online /\ g \notin lost /\ disk[g] # Absent /\ ColdPhase
           => g \in delta \/ Sending(g) \/ AllSent(g)
      /\ online /\ g \notin lost /\ disk[g] # Absent /\ Watching
           => \/ g \in Queued \/ Sending(g) \/ AllSent(g)
              \/ pc \in {"debounce", "open"} /\ evt.file = g
  BY DEF Delivering, Present, Exists
(* A step that leaves the file and what is sent keeps what was sent.        *)
<1>a. disk'[g] = disk[g] /\ sent \subseteq sent' /\ AllSent(g) => AllSent(g)'
  BY DEF AllSent
<1>b. UNCHANGED <<pc, job>> /\ disk'[g] = disk[g] /\ sent \subseteq sent' /\ Sending(g) => Sending(g)'
  BY DEF Sending
<1>1. CASE Env
  <2>1. PICK f \in Files, new \in Nodes, how \in DOMAIN ChangeKind,
             noticed \in BOOLEAN : Changed(f, new, how, noticed)
    BY <1>1, EnvChanges
  <2>2. /\ UNCHANGED <<pc, online, ckpt, delta, gone, evt, sent, Watching, ColdPhase>>
        /\ \A h \in Files \ {f} : disk'[h] = disk[h]
        /\ job.file # f => job' = job
        /\ job'.file = job.file /\ job'.caller = job.caller
        /\ Watching => lost' = lost /\ events' = Append(events, [kind |-> ChangeKind[how], file |-> f])
        /\ ColdPhase => lost' = lost \cup {f} \/ (f \in delta /\ lost' = lost /\ Exists(f))
    BY <2>1, EnvElsewhere
  <2>3. ASSUME g # f PROVE (Sending(g) => Sending(g)') /\ (AllSent(g) => AllSent(g)')
    <3>1. disk'[g] = disk[g] /\ sent' = sent
      BY <2>2, <2>3
    <3>2. ASSUME Sending(g) PROVE Sending(g)'
      <4>1. job' = job
        BY <2>2, <2>3, <3>2 DEF Sending
      <4> QED BY <1>b, <2>2, <3>1, <3>2, <4>1
    <3> QED BY <1>a, <3>1, <3>2
  <2>4. ColdPhase => g \in delta' \/ Sending(g)' \/ AllSent(g)'
    BY <1>0, <2>2, <2>3
  <2>5. ASSUME Watching
        PROVE  \/ g \in Queued' \/ Sending(g)' \/ AllSent(g)'
               \/ pc' \in {"debounce", "open"} /\ evt'.file = g
    <3>1. [kind |-> ChangeKind[how], file |-> f] \in Events
      BY Kinds DEF Events
    <3>2. Queued' = Queued \cup {f}
      BY <2>2, <2>5, <3>1, QueueGrows
    <3> QED BY <1>0, <2>2, <2>3, <2>5, <3>2
  <2> QED BY <2>2, <2>4, <2>5
<1>2. CASE Boot \/ Died \/ ScanStep
  <2>1. ~ColdPhase' /\ ~Watching'
    BY <1>2 DEF Boot, Died, ScanStep, ColdPhase, Watching
  <2> QED BY <2>1
<1>3. CASE PlanDelta
  <2>1. /\ ~Watching' /\ delta' = {f \in Files : Listed(f) /\ (~Checked(f) \/ Modified(f))}
        /\ scanned = "ok" /\ UNCHANGED <<disk, lost>>
    BY <1>3 DEF PlanDelta, Watching, diskVars
  <2>2. ScanIsComplete
    BY ScanCompletes
  <2>3. Listed(g)
    BY <2>1, <2>2 DEF ScanIsComplete, Exists
  <2>4. temp[g] \in Kept /\ ckpt[g].ino = 0
    BY DEF FileTypeOK, Inodes
  <2>5. ~Checked(g) \/ Modified(g)
    BY <2>3, <2>4 DEF Modified, Listed, Kept
  <2> QED BY <2>1, <2>3, <2>5
<1>4. CASE ColdSend
  <2>1. PICK f \in delta :
          /\ delta' = delta \ {f}
          /\ IF Exists(f) THEN pc' = "send" /\ job' = Opened(f, 0, "cold")
                          ELSE UNCHANGED <<pc, job>>
    BY <1>4 DEF ColdSend
  <2>2. /\ ~Watching' /\ ColdPhase /\ pc = "cold" /\ UNCHANGED <<disk, lost, sent, online>>
    <3>1. pc = "cold" /\ UNCHANGED <<disk, lost, sent, online>>
      BY <1>4 DEF ColdSend, diskVars
    <3>2. pc' = "cold" \/ (pc' = "send" /\ job'.caller = "cold")
      BY <2>1, <3>1 DEF Opened
    <3> QED BY <3>1, <3>2 DEF Watching, ColdPhase
  <2>3. CASE g = f
    <3>1. Sending(g)'
      BY <2>1, <2>2, <2>3, OpenedSends DEF Exists
    <3> QED BY <2>2, <3>1
  <2>4. CASE g # f
    <3>1. ~Sending(g)
      BY <2>2 DEF Sending
    <3> QED BY <1>0, <1>a, <2>1, <2>2, <2>4, <3>1
  <2> QED BY <2>3, <2>4
<1>5. CASE ColdForget
  <2>1. ~Watching' /\ ColdPhase /\ UNCHANGED <<disk, lost, sent, online, delta, pc, job>>
    BY <1>5 DEF ColdForget, Watching, ColdPhase, diskVars
  <2> QED BY <1>0, <1>a, <1>b, <2>1
<1>6. CASE StartWatching
  <2>1. /\ ~ColdPhase' /\ ColdPhase /\ delta = {} /\ pc = "cold"
        /\ UNCHANGED <<disk, lost, sent, online>>
    BY <1>6 DEF StartWatching, ColdPhase, diskVars
  <2>2. ~Sending(g)
    BY <2>1 DEF Sending
  <2> QED BY <1>0, <1>a, <2>1, <2>2
<1>7. CASE PublishBatch
  <2>1. PICK n \in job.off + 1 .. ViewEnd :
          /\ job' = [job EXCEPT !.off = n]
          /\ \/ /\ sent' = IF online
                           THEN sent \cup {<<job.file, ViewVer, r>> : r \in job.off .. n - 1}
                           ELSE sent
                /\ UNCHANGED <<faults, lost>>
             \/ /\ online /\ Fail
                /\ lost' = lost \cup {job.file}
                /\ UNCHANGED sent
    BY <1>7 DEF PublishBatch
  <2>2. pc = "send" /\ pc' = "send" /\ UNCHANGED <<disk, online, delta, events, evt>>
    BY <1>7 DEF PublishBatch, diskVars, coldVars, watchV
  <2>3. job \in Jobs /\ job.off \in Nat /\ ViewEnd \in Nat
    BY <2>2, ViewTyped, Bounds DEF FileTypeOK
  <2>4. /\ job'.off = n /\ job'.file = job.file /\ job'.caller = job.caller
        /\ job'.ver = job.ver /\ job'.end = job.end /\ job'.ino = job.ino
    BY <2>1, <2>3 DEF Jobs
  <2>5. sent \subseteq sent' /\ lost \subseteq lost'
    BY <2>1
  <2>6. UNCHANGED <<Watching, ColdPhase, Queued>>
    BY <2>2, <2>4 DEF Watching, ColdPhase, Queued
  <2>7. ASSUME Sending(g) PROVE Sending(g)'
    <3>1. job.file = g /\ ViewVer = disk[g].ver
      BY <2>7, SendingSees DEF Sending
    <3>2. sent' = sent \cup {<<g, disk[g].ver, r>> : r \in job.off .. n - 1}
      BY <2>1, <2>2, <3>1
    <3>3. ASSUME NEW r \in 0 .. n - 1 PROVE <<g, disk[g].ver, r>> \in sent'
      <4>1. r \in 0 .. job.off - 1 \/ r \in job.off .. n - 1
        BY <2>3, <3>3
      <4> QED BY <2>7, <3>2, <4>1 DEF Sending
    <3> QED BY <2>2, <2>4, <2>7, <3>3 DEF Sending
  <2> QED BY <1>0, <1>a, <2>2, <2>5, <2>6, <2>7
<1>8. CASE ReadError
  <2>1. /\ lost' = lost \cup {job.file} /\ job' = [job EXCEPT !.end = job.off] /\ pc = "send"
        /\ UNCHANGED <<disk, online, delta, events, evt, sent, pc>>
    BY <1>8 DEF ReadError, diskVars, coldVars, watchV
  <2>2. job'.caller = job.caller
    BY <2>1 DEF FileTypeOK, Jobs
  <2>3. UNCHANGED <<Watching, ColdPhase, Queued>>
    BY <2>1, <2>2 DEF Watching, ColdPhase, Queued
  <2>4. ~Sending(g)
    BY <2>1 DEF Sending
  <2> QED BY <1>0, <1>a, <2>1, <2>3, <2>4
<1>9. CASE FileSent
  <2>1. /\ job.off >= ViewEnd /\ pc = "send"
        /\ UNCHANGED <<disk, online, delta, events, evt, sent, lost>>
    BY <1>9 DEF FileSent, diskVars, coldVars, watchV
  <2>2. Sending(g) => AllSent(g)
    BY <2>1, SendingSees
  <2>3. \/ ColdPhase /\ pc' = "cold"
        \/ Watching /\ pc' = "record"
    BY <1>9 DEF FileSent, Phases, Watching, ColdPhase, FileTypeOK, Jobs
  <2>4. Queued' = Queued
    BY <2>1 DEF Queued
  <2> QED BY <1>0, <1>a, <2>1, <2>2, <2>3, <2>4 DEF Watching, ColdPhase
<1>10. CASE DropEvent
  <2>1. /\ events # <<>> /\ events' = Tail(events) /\ lost' = lost \cup {Head(events).file}
        /\ pc = "idle" /\ UNCHANGED <<disk, online, sent, evt, pc, job>>
    BY <1>10 DEF DropEvent, diskVars
  <2>2. Queued = Queued' \cup {Head(events).file}
    BY <2>1, QueueShrinks
  <2>3. Watching /\ ~ColdPhase'
    BY <2>1 DEF Watching, ColdPhase
  <2> QED BY <1>0, <1>a, <1>b, <2>1, <2>2, <2>3
<1>11. CASE AcceptEvent
  <2>1. /\ events # <<>> /\ events' = Tail(events) /\ evt' = Head(events) /\ pc = "idle"
        /\ pc' = "debounce" /\ UNCHANGED <<disk, lost, sent, online>>
    BY <1>11 DEF AcceptEvent, diskVars
  <2>2. Queued = Queued' \cup {Head(events).file}
    BY <2>1, QueueShrinks
  <2>3. Watching /\ ~ColdPhase' /\ ~Sending(g)
    BY <2>1 DEF Watching, ColdPhase, Sending
  <2> QED BY <1>0, <1>a, <2>1, <2>2, <2>3
<1>12. CASE WakeRemoved
  <2>1. /\ lost' = lost \ {evt.file} /\ evt.kind = "Removed"
        /\ pc = "debounce" /\ pc' = "idle" /\ UNCHANGED <<disk, events, sent, online>>
    BY <1>12 DEF WakeRemoved, diskVars
  <2>2. Queued' = Queued /\ Watching /\ ~ColdPhase' /\ ~Sending(g) /\ evt # NoEvent
    BY <2>1 DEF Queued, Watching, ColdPhase, Sending, Phases
  <2>3. CASE g = evt.file
    BY <2>1, <2>2, <2>3 DEF LastSays, Unlinked, Exists
  <2>4. CASE g # evt.file
    BY <1>0, <1>a, <2>1, <2>2, <2>4
  <2> QED BY <2>3, <2>4
<1>13. CASE WakeChanged
  <2>1. pc = "debounce" /\ pc' = "open" /\ UNCHANGED <<disk, events, evt, sent, online, lost>>
    BY <1>13 DEF WakeChanged, diskVars
  <2>2. Queued' = Queued /\ Watching /\ ~ColdPhase' /\ ~Sending(g)
    BY <2>1 DEF Queued, Watching, ColdPhase, Sending
  <2> QED BY <1>0, <1>a, <2>1, <2>2
<1>14. CASE OpenFile
  <2>1. /\ pc = "open" /\ pc' = "send" /\ lost' = lost \ {job.file} /\ evt.file = job.file
        /\ job.off = 0 /\ UNCHANGED <<disk, events, evt, sent, online>>
        /\ job' = IF Exists(job.file) THEN Opened(job.file, job.off, "event") ELSE job
    BY <1>14 DEF OpenFile, diskVars, watchV, Phases, EventPhase
  <2>2. Queued' = Queued /\ Watching /\ ~Sending(g)
    BY <2>1 DEF Queued, Watching, Sending
  <2>3. ~ColdPhase'
    BY <2>1 DEF Phases, ColdPhase, Watching
  <2>4. CASE g = job.file
    <3>1. job' = Opened(g, 0, "event")
      BY <2>1, <2>4 DEF Exists
    <3>2. Sending(g)'
      BY <2>1, <3>1, OpenedSends
    <3> QED BY <2>3, <3>2
  <2>5. CASE g # job.file
    BY <1>0, <1>a, <2>1, <2>2, <2>3, <2>5
  <2> QED BY <2>4, <2>5
<1>15. CASE Checkpoint
  <2>1. pc = "record" /\ pc' = "idle" /\ UNCHANGED <<disk, events, sent, online, lost>>
    BY <1>15 DEF Checkpoint, diskVars
  <2>2. Queued' = Queued /\ Watching /\ ~ColdPhase' /\ ~Sending(g)
    BY <2>1 DEF Queued, Watching, ColdPhase, Sending
  <2> QED BY <1>0, <1>a, <2>1, <2>2
<1>16. CASE CoolDown \/ UNCHANGED vars
  <2>1. UNCHANGED <<disk, lost, delta, events, evt, pc, job, sent, online>>
    BY <1>16 DEF CoolDown, vars, diskVars, coldVars, watchV
  <2>2. UNCHANGED <<Watching, ColdPhase, Queued>>
    BY <2>1 DEF Watching, ColdPhase, Queued
  <2> QED BY <1>0, <1>a, <1>b, <2>1, <2>2
<1> QED BY <1>1, <1>2, <1>3, <1>4, <1>5, <1>6, <1>7, <1>8, <1>9, <1>10, <1>11, <1>12, <1>13, <1>14,
           <1>15, <1>16
        DEF Next, Daemon, ColdStart, Tracker, Crash, ScanPanic

----------------------------------------------------------------------------
(* The theorems.                                                            *)

LEMMA FilesInvLayers ==
  FilesInv <=> /\ FileTypeOK /\ Phases /\ Inodes /\ ScanLayer
               /\ LastSays /\ MovedIsEmpty /\ Forgetting /\ Delivering
BY DEF FilesInv, ScanLayer

(* The invariant of files that are not segments: where the rows of the scan *)
(* are, what the queue says of each file, and that what is not sent or      *)
(* forgotten yet still will be (scanner.rs, main.rs:246-345, tracker.rs).   *)
THEOREM FilesInvariant == Spec => []FilesInv
<1>1. Init => FilesInv
  BY TypeInit, PhasesInit, InodesInit, ScanInit, LastInit, MovedInit, ForgettingInit, DeliveringInit,
     FilesInvLayers
<1>2. FilesInv /\ [Next]_vars => FilesInv'
  <2> SUFFICES ASSUME FilesInv, [Next]_vars PROVE FilesInv'
    OBVIOUS
  <2>1. /\ FileTypeOK /\ Phases /\ Inodes /\ ScanLayer
        /\ LastSays /\ MovedIsEmpty /\ Forgetting /\ Delivering
    BY FilesInvLayers
  <2>2. FileTypeOK' /\ Phases' /\ Inodes'
    BY <2>1, TypeStep, PhasesStep, InodesStep
  <2>3. ScanLayer'
    BY <2>1, <2>2, ScanLayerStep
  <2>4. LastSays' /\ MovedIsEmpty' /\ Forgetting' /\ Delivering'
    BY <2>1, <2>2, LastStep, MovedStep, ForgettingStep, DeliveringStep
  <2> QED BY <2>2, <2>3, <2>4 DEF FilesInv, ScanLayer
<1> QED BY <1>1, <1>2, PTL DEF Spec

(* batch_scan returns a row for each file that is there and none else,      *)
(* whatever the batches and the flushes on timeout (scanner.rs).            *)
THEOREM ScansAreComplete == Spec => []ScanIsComplete
<1>1. FilesInv => ScanIsComplete
  BY FilesInvLayers, ScanCompletes
<1> QED BY <1>1, FilesInvariant, PTL

(* The expect on the scan fails only when a path appeared or vanished while *)
(* it ran, or one watched directory lies in another (main.rs, scanner.rs).  *)
THEOREM PanicsAreJustified == Spec => []PanicsOnlyOnVanished
<1>1. FilesInv => PanicsOnlyOnVanished
  BY DEF FilesInv
<1> QED BY <1>1, FilesInvariant, PTL

(* Once the queue is empty a checkpoint outlives its file only where the    *)
(* path was renamed away, and then covers no byte, unless a change of it    *)
(* was dropped (linux_tracker.rs, tracker.rs, main.rs:328-344).             *)
THEOREM AbsentAreForgotten == Spec => []AbsentIsForgotten
<1>1. FilesInv => AbsentIsForgotten
  <2> SUFFICES ASSUME FilesInv, Quiet, NEW f \in Files \ lost, ~Exists(f), Checked(f)
               PROVE  f \in moved /\ ckpt[f].off = 0
    BY DEF AbsentIsForgotten
  <2>1. Watching /\ evt = NoEvent /\ Queued = {}
    BY DEF FilesInv, Phases, Quiet, Watching, Queued
  <2>2. evt.file # f
    BY <2>1, Numbers DEF NoEvent
  <2> QED BY <2>1, <2>2 DEF FilesInv, Forgetting
<1> QED BY <1>1, FilesInvariant, PTL

(* Once the queue is empty the receiver has every file as it is now, unless *)
(* a change of it was dropped, came between scan and watch, or met a fault  *)
(* (bus.rs process_file, tracker.rs:204-253, main.rs:328-344).              *)
THEOREM PresentAreSent == Spec => []PresentIsSent
<1>1. FilesInv => PresentIsSent
  <2> SUFFICES ASSUME FilesInv, Quiet, online, NEW f \in Present \ lost
               PROVE  AllSent(f)
    BY DEF PresentIsSent
  <2>1. Watching /\ Queued = {} /\ pc = "idle" /\ ~Sending(f)
    BY DEF Quiet, Watching, Queued, Sending
  <2> QED BY <2>1 DEF FilesInv, Delivering
<1> QED BY <1>1, FilesInvariant, PTL
=============================================================================
