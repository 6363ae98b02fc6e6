----------------------------- MODULE FileSync ------------------------------
(***************************************************************************)
(* Files that are not segments: cold start computes a delta of the scan     *)
(* against sync_checkpoints and sends it (main.rs:246-345), the tracker     *)
(* audits each event against the checkpoint and sends (tracker.rs:148-254). *)
(*                                                                         *)
(* A file is its inode, the version of its bytes, its length in records and *)
(* its mtime.  Versions, inodes and times are all drawn from the count of   *)
(* changes.  Other programs change files between any two system calls.      *)
(***************************************************************************)
EXTENDS FileScan

None == "none"

CONSTANTS
  Excluded,    \* files that match an exclude pattern
  Text,        \* files with an extension of the AST track
  Sessions,    \* outcomes of Bus::connect
  MaxLen,      \* bound: records in a file
  MaxChanges,  \* bound: changes by other programs
  MaxCrashes,  \* bound: crashes
  MaxFaults    \* bound: failed puts and failed reads together

ASSUME FileAssumption ==
  /\ Excluded \subseteq Files /\ Text \subseteq Files
  /\ Sessions \subseteq BOOLEAN /\ Sessions # {}
  /\ None \notin Files
  /\ MaxLen \in Nat \ {0} /\ {MaxChanges, MaxCrashes, MaxFaults} \subseteq Nat

VARIABLES
  clock,       \* the time: one more than the changes so far
  ckpt,        \* sync_checkpoints
  dirty,       \* dirty_files
  pc, online,
  delta, gone, \* the manifests of cold start: to send, to forget
  events,      \* the queue of the tracker
  evt,         \* the event in hand
  cool,        \* paths whose last_seen_at is younger than the debounce
  job,         \* process_file: path, offset reached, end, caller, and the
               \* descriptor: its inode while the path still names it
  sent,        \* history: records a put accepted
  lost,        \* history: files of which a change went by unnoticed
  moved,       \* history: files whose path was left by a rename in this life
  crashes, faults

ledger   == <<ckpt, dirty>>
watchV   == <<events, evt, cool>>
coldVars == <<delta, gone>>
bounds   == <<crashes, faults>>
vars == <<disk, inner, scanVars, clock, ledger, pc, online, coldVars, watchV,
          job, sent, lost, moved, bounds>>

Times    == 0 .. MaxChanges + 1
Lengths  == 0 .. MaxLen
NoEvent  == [kind |-> "none", file |-> None]
NoJob    == [file |-> None, off |-> 0, end |-> 0, ver |-> 0, ino |-> 0, caller |-> "none"]
NoCkpt   == [mtime |-> 0, off |-> 0, ino |-> 0]
Watching == pc \in {"idle", "debounce", "open", "record"} \/ (pc = "send" /\ job.caller = "event")

Nodes  == [ino : Times, ver : Times, len : Lengths, mtime : Times]
Rows   == [file : Files, ino : Times \ {0}, size : Lengths, mtime : Times]
Kept   == [ino : Times \ {0}, size : Lengths, mtime : Times] \cup {NoRow}
Events == [kind : {"Created", "Modified", "Removed"}, file : Files]
Jobs   == [file : Files \cup {None}, off : Lengths, end : Lengths, ver : Times, ino : Times,
           caller : {"none", "cold", "event"}]

FileTypeOK ==
  /\ disk \in [Files -> Nodes]
  /\ ckpt \in [Files -> [mtime : Times, off : Lengths, ino : Times]]
  /\ temp \in [Files -> Kept]
  /\ walk \in [at : {"off", "outer", "inner", "done", "failed"}, todo : SUBSET Files,
               held : Seq(Rows)]
  /\ Len(walk.held) <= 1
  /\ chan \in Seq(Rows) /\ Len(chan) <= 2 * BatchSize
  /\ batch \in Seq(Rows) /\ Len(batch) < BatchSize
  /\ scanned \in {"no", "ok", "err"}
  /\ clock \in 1 .. MaxChanges + 1
  /\ pc \in {"down", "scan", "cold", "idle", "debounce", "open", "send", "record"}
  /\ online \in BOOLEAN
  /\ dirty \subseteq Files /\ cool \subseteq Files
  /\ lost \subseteq Files /\ moved \subseteq Files
  /\ delta \subseteq Files /\ gone \subseteq Files
  /\ events \in Seq(Events) /\ Len(events) < clock
  /\ evt \in Events \cup {NoEvent}
  /\ job \in Jobs
  /\ sent \subseteq Files \X Times \X Lengths
  /\ crashes \in 0 .. MaxCrashes /\ faults \in 0 .. MaxFaults

Init ==
  /\ \E old \in {Absent, [ino |-> 1, ver |-> 1, len |-> 1, mtime |-> 1]} :
       disk = [f \in Files |-> old]
  /\ inner \in Layouts /\ ScanIdle
  /\ clock = 1
  /\ ckpt = [f \in Files |-> NoCkpt] /\ dirty = {}
  /\ pc = "down" /\ online = FALSE
  /\ delta = {} /\ gone = {}
  /\ events = <<>> /\ evt = NoEvent /\ cool = {}
  /\ job = NoJob /\ sent = {} /\ lost = {} /\ moved = {}
  /\ crashes = 0 /\ faults = 0

----------------------------------------------------------------------------
(* What the OS watcher makes of an event of notify, for which a rename is a *)
(* modification of the path it leaves and of the path it takes.             *)
ChangeKind == [Create |-> "Created", Data |-> "Modified", Name |-> "Modified",
               Remove |-> "Removed"]

(* Other programs, and inotify (external).                                  *)

(* Cold start still comes to a file it has listed or is about to send.      *)
Ahead(f) == pc \in {"down", "scan"} \/ f \in delta

(* The path leaves the inode that process_file has open.                    *)
Frozen(f) ==
  IF Exists(f) /\ job.file = f /\ job.ino = disk[f].ino
  THEN [job EXCEPT !.ino = 0, !.ver = disk[f].ver,
                   !.end = IF disk[f].len < @ THEN disk[f].len ELSE @]
  ELSE job

Change(f, new, how, noticed) ==
  /\ clock <= MaxChanges
  /\ clock' = clock + 1
  /\ disk' = [disk EXCEPT ![f] = new]
  /\ events' = IF Watching THEN Append(events, [kind |-> ChangeKind[how], file |-> f])
                           ELSE events
  /\ lost' = IF Watching \/ pc = "down" \/ noticed THEN lost ELSE lost \cup {f}
  /\ moved' = IF new = Absent /\ how = "Name" THEN moved \cup {f} ELSE moved \ {f}
  /\ UNCHANGED <<inner, scanVars, ledger, pc, online, coldVars, evt, cool, sent, bounds>>

CreateFile ==
  \E f \in Files, n \in Lengths :
    /\ ~Exists(f)
    /\ Change(f, [ino |-> clock + 1, ver |-> clock + 1, len |-> n, mtime |-> clock + 1],
              "Create", FALSE)
    /\ UNCHANGED job

AppendFile ==
  \E f \in Files :
    /\ Exists(f) /\ disk[f].len < MaxLen
    /\ Change(f, [disk[f] EXCEPT !.len = @ + 1, !.mtime = clock + 1], "Data", Ahead(f))
    /\ UNCHANGED job

(* In place: the inode stays, and so does an open descriptor of it.         *)
OverwriteFile ==
  \E f \in Files, n \in Lengths :
    /\ Exists(f)
    /\ Change(f, [disk[f] EXCEPT !.ver = clock + 1, !.len = n, !.mtime = clock + 1],
              "Data", Ahead(f))
    /\ UNCHANGED job

(* A rename to the path, over a file there or not; the file brings its old  *)
(* mtime along.                                                             *)
RenameInto ==
  \E f \in Files, n \in Lengths :
    /\ Change(f, [ino |-> clock + 1, ver |-> clock + 1, len |-> n, mtime |-> 1],
              "Name", Exists(f) /\ Ahead(f))
    /\ job' = Frozen(f)

(* Rotation: the path is renamed away, and a new file may follow.           *)
RenameAway ==
  \E f \in Files :
    /\ Exists(f)
    /\ Change(f, Absent, "Name", FALSE)
    /\ job' = Frozen(f)

RemoveFile ==
  \E f \in Files :
    /\ Exists(f)
    /\ Change(f, Absent, "Remove", FALSE)
    /\ job' = Frozen(f)

Env == \/ CreateFile \/ AppendFile \/ OverwriteFile
       \/ RenameInto \/ RenameAway \/ RemoveFile

----------------------------------------------------------------------------
(* The process.                                                             *)

diskVars == <<disk, inner, clock, moved>>

Fail == faults < MaxFaults /\ faults' = faults + 1

Boot ==
  /\ pc = "down"
  /\ pc' = "scan" /\ online' \in Sessions
  /\ StartScan
  /\ lost' = {} /\ moved' = {}
  /\ UNCHANGED <<disk, inner, clock, ledger, coldVars, watchV, job, sent, bounds>>

Died ==
  /\ pc' = "down" /\ StopScan
  /\ delta' = {} /\ gone' = {}
  /\ events' = <<>> /\ evt' = NoEvent /\ cool' = {} /\ job' = NoJob
  /\ UNCHANGED <<diskVars, ledger, online, sent, lost, faults>>

Crash ==
  /\ pc # "down" /\ crashes < MaxCrashes /\ crashes' = crashes + 1
  /\ Died

(* expect("failed to batch scan").                                          *)
ScanPanic == pc = "scan" /\ scanned = "err" /\ Died /\ UNCHANGED crashes

ScanStep ==
  /\ pc = "scan" /\ (Produce \/ Consume)
  /\ UNCHANGED <<diskVars, ledger, pc, online, coldVars, watchV, job, sent, lost, bounds>>

----------------------------------------------------------------------------
(* Cold start.                                                              *)

Listed(f)  == temp[f] # NoRow
Checked(f) == ckpt[f] # NoCkpt

(* Mutant: the inode is not compared.                                       *)
ModifiedBySize(f) ==
  Checked(f) /\ (temp[f].mtime > ckpt[f].mtime \/ temp[f].size # ckpt[f].off)

Modified(f) ==
  Checked(f) /\ ( \/ temp[f].mtime > ckpt[f].mtime
                  \/ temp[f].size # ckpt[f].off
                  \/ temp[f].ino # ckpt[f].ino )

(* Mutant: the checkpoints of dirty files are left to the tracker.          *)
PlanKeepsDirty ==
  /\ pc = "scan" /\ scanned = "ok"
  /\ pc' = "cold"
  /\ delta' = {f \in Files : Listed(f) /\ (~Checked(f) \/ Modified(f))}
  /\ gone'  = {f \in Files \ dirty : ~Listed(f) /\ Checked(f)}
  /\ StopScan
  /\ UNCHANGED <<diskVars, ledger, online, watchV, job, sent, lost, bounds>>

(* compute_delta_manifests; what follows needs no row of the scan.          *)
PlanDelta ==
  /\ pc = "scan" /\ scanned = "ok"
  /\ pc' = "cold"
  /\ delta' = {f \in Files : Listed(f) /\ (~Checked(f) \/ Modified(f))}
  /\ gone'  = {f \in Files : ~Listed(f) /\ Checked(f)}
  /\ StopScan
  /\ UNCHANGED <<diskVars, ledger, online, watchV, job, sent, lost, bounds>>

Opened(f, from, caller) ==
  [file |-> f, off |-> from, end |-> disk[f].len, ver |-> disk[f].ver, caller |-> caller,
   ino |-> IF f \in Text THEN 0 ELSE disk[f].ino]

(* exists(), then slice_file_iter opens the file; the AST track reads it    *)
(* whole, so that its descriptor does not matter any more.                  *)
ColdSend ==
  /\ pc = "cold"
  /\ \E f \in delta :
       /\ delta' = delta \ {f}
       /\ IF Exists(f) THEN pc' = "send" /\ job' = Opened(f, 0, "cold")
                       ELSE UNCHANGED <<pc, job>>
  /\ UNCHANGED <<diskVars, scanVars, ledger, online, gone, watchV, sent, lost, bounds>>

ColdForget ==
  /\ pc = "cold" /\ delta = {}
  /\ \E f \in gone :
       /\ gone' = gone \ {f}
       /\ ckpt' = [ckpt EXCEPT ![f] = NoCkpt]
  /\ UNCHANGED <<diskVars, scanVars, dirty, pc, online, delta, watchV, job, sent, lost, bounds>>

(* The tracker starts to watch only now.                                    *)
StartWatching ==
  /\ pc = "cold" /\ delta = {} /\ gone = {}
  /\ pc' = "idle"
  /\ UNCHANGED <<diskVars, scanVars, ledger, online, coldVars, watchV, job, sent, lost, bounds>>

----------------------------------------------------------------------------
(* process_file.                                                            *)

(* Mutant: the end is off by one.                                           *)
EndPlusOne == job.end + 1

(* What the descriptor gives now: end of file and version.                  *)
ViewEnd == IF job.ino # 0 /\ disk[job.file].len < job.end THEN disk[job.file].len ELSE job.end

ViewVer == IF job.ino # 0 THEN disk[job.file].ver ELSE job.ver

PublishBatch ==
  /\ pc = "send" /\ job.off < ViewEnd
  /\ \E n \in job.off + 1 .. ViewEnd :
       /\ job' = [job EXCEPT !.off = n]
       /\ \/ /\ sent' = IF online
                        THEN sent \cup {<<job.file, ViewVer, r>> : r \in job.off .. n - 1}
                        ELSE sent
             /\ UNCHANGED <<faults, lost>>
          \/ /\ online /\ Fail
             /\ lost' = lost \cup {job.file}
             /\ UNCHANGED sent
  /\ UNCHANGED <<diskVars, scanVars, ledger, pc, online, coldVars, watchV, crashes>>

(* A read error is taken for the end of the file.                           *)
ReadError ==
  /\ pc = "send" /\ job.off < ViewEnd /\ Fail
  /\ job' = [job EXCEPT !.end = job.off]
  /\ lost' = lost \cup {job.file}
  /\ UNCHANGED <<diskVars, scanVars, ledger, pc, online, coldVars, watchV, sent, crashes>>

(* Cold start writes no checkpoint for what it has sent.                    *)
FileSent ==
  /\ pc = "send" /\ job.off >= ViewEnd
  /\ IF job.caller = "cold" THEN pc' = "cold" /\ job' = NoJob
                            ELSE pc' = "record" /\ UNCHANGED job
  /\ UNCHANGED <<diskVars, scanVars, ledger, online, coldVars, watchV, sent, lost, bounds>>

----------------------------------------------------------------------------
(* The tracker.                                                             *)

(* A glob that matches, or a substring where the pattern is not a glob.     *)
IsExcluded(f) == f \in Excluded

Dropped(e) == IsExcluded(e.file) \/ (e.kind # "Created" /\ e.file \in cool)

DropEvent ==
  /\ pc = "idle" /\ events # <<>> /\ Dropped(Head(events))
  /\ events' = Tail(events)
  /\ lost' = lost \cup {Head(events).file}
  /\ UNCHANGED <<diskVars, scanVars, ledger, pc, online, coldVars, evt, cool, job, sent, bounds>>

AcceptEvent ==
  /\ pc = "idle" /\ events # <<>> /\ ~Dropped(Head(events))
  /\ evt' = Head(events) /\ events' = Tail(events)
  /\ dirty' = dirty \cup {Head(events).file}
  /\ pc' = "debounce"
  /\ UNCHANGED <<diskVars, scanVars, ckpt, online, coldVars, cool, job, sent, lost, bounds>>

(* The sleep is as long as the window, so no older entry is recent now.     *)
WakeRemoved ==
  /\ pc = "debounce" /\ evt.kind = "Removed"
  /\ cool' = {evt.file}
  /\ ckpt' = [ckpt EXCEPT ![evt.file] = NoCkpt]
  /\ pc' = "idle" /\ evt' = NoEvent /\ lost' = lost \ {evt.file}
  /\ UNCHANGED <<diskVars, scanVars, dirty, online, coldVars, events, job, sent, bounds>>

(* audit_file_change on the checkpoint, or on zeros if there is none.       *)
StartOffset(f) ==
  IF \/ ~Exists(f)
     \/ disk[f].ino # ckpt[f].ino
     \/ disk[f].len <= ckpt[f].off
  THEN 0 ELSE ckpt[f].off

WakeChanged ==
  /\ pc = "debounce" /\ evt.kind # "Removed"
  /\ cool' = {evt.file}
  /\ job' = [NoJob EXCEPT !.file = evt.file, !.off = StartOffset(evt.file), !.caller = "event"]
  /\ pc' = "open"
  /\ UNCHANGED <<diskVars, scanVars, ledger, online, coldVars, events, evt, sent, lost, bounds>>

(* A file that is gone has no chunks: process_file returns the offset given.*)
OpenFile ==
  /\ pc = "open"
  /\ pc' = "send"
  /\ job' = IF Exists(job.file) THEN Opened(job.file, job.off, "event") ELSE job
  /\ lost' = lost \ {job.file}
  /\ UNCHANGED <<diskVars, scanVars, ledger, online, coldVars, watchV, sent, bounds>>

(* Mutant: the inode is stored with the checkpoint.                         *)
CheckpointInode ==
  /\ pc = "record"
  /\ ckpt' = [ckpt EXCEPT ![job.file] = [mtime |-> clock, off |-> job.off,
                                         ino |-> disk[job.file].ino]]
  /\ dirty' = dirty \ {job.file}
  /\ pc' = "idle" /\ job' = NoJob /\ evt' = NoEvent
  /\ UNCHANGED <<diskVars, scanVars, online, coldVars, events, cool, sent, lost, bounds>>

(* st_dev and st_ino keep their default, 0.                                 *)
Checkpoint ==
  /\ pc = "record"
  /\ ckpt' = [ckpt EXCEPT ![job.file] = [mtime |-> clock, off |-> job.off, ino |-> 0]]
  /\ dirty' = dirty \ {job.file}
  /\ pc' = "idle" /\ job' = NoJob /\ evt' = NoEvent
  /\ UNCHANGED <<diskVars, scanVars, online, coldVars, events, cool, sent, lost, bounds>>

(* The window passes.                                                       *)
CoolDown ==
  /\ cool # {} /\ cool' = {}
  /\ UNCHANGED <<diskVars, scanVars, ledger, pc, online, coldVars, events, evt, job,
                 sent, lost, bounds>>

Tracker == DropEvent \/ AcceptEvent \/ WakeRemoved \/ WakeChanged \/ OpenFile \/ Checkpoint
ColdStart == PlanDelta \/ ColdSend \/ ColdForget \/ StartWatching
Daemon == ScanPanic \/ ScanStep \/ ColdStart \/ PublishBatch \/ FileSent \/ Tracker

Next == Env \/ Boot \/ Crash \/ ReadError \/ CoolDown \/ Daemon

Spec == Init /\ [][Next]_vars

(* A supervisor restarts the daemon, and the runtime goes on polling it.    *)
SupervisedSpec == Spec /\ WF_vars(Daemon) /\ WF_vars(Boot)

----------------------------------------------------------------------------
(* Properties.                                                              *)

AllSent(f) == \A r \in 0 .. disk[f].len - 1 : <<f, disk[f].ver, r>> \in sent
Quiet == pc = "idle" /\ events = <<>>

(* Once the queue is empty every file is at the receiver as it is now,      *)
(* except those of which a change was dropped, came between scan and watch, *)
(* or met a fault: append, overwrite, rotation, truncation while it is read *)
(* and a restart after offline work are all noticed.                        *)
PresentIsSent == Quiet /\ online => \A f \in Present \ lost : AllSent(f)

(* Once the queue is empty a checkpoint outlives its file only where the    *)
(* path was renamed away, which is reported as Modified: it was written     *)
(* after that and covers no byte.  Files of which a change was dropped are  *)
(* excepted.                                                                *)
AbsentIsForgotten ==
  Quiet => \A f \in Files \ lost :
             ~Exists(f) /\ Checked(f) => f \in moved /\ ckpt[f].off = 0

(* The scan has a row for each file that is there, and none else, whatever  *)
(* the batches and the flushes on timeout, if it was not created or removed *)
(* meanwhile.                                                               *)
ScanIsComplete ==
  scanned = "ok" => \A f \in Files \ lost : Listed(f) <=> Exists(f)

(* Cold start dies of the scan only when a path appeared or vanished while  *)
(* it ran, or when one watched directory lies in another.                   *)
PanicsOnlyOnVanished ==
  scanned = "err" => inner \cap Present # {} \/ lost # {}

(* Whatever went wrong before, a put, a read, a session, an event dropped   *)
(* or a change while nothing was watched: the restart after the last of it  *)
(* sends every file there is and drops the checkpoint of every other.       *)
RestartRepairs ==
  (pc = "down" /\ clock > MaxChanges /\ faults = MaxFaults /\ inner \cap Present = {})
    ~> (/\ pc = "idle"
        /\ online => \A f \in Present : AllSent(f)
        /\ \A f \in Files \ Present : ~Checked(f))
=============================================================================
