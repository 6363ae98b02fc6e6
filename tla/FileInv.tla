------------------------------ MODULE FileInv -------------------------------
(***************************************************************************)
(* The inductive invariant behind the safety properties of FileSync, in     *)
(* layers: where the rows of the scan are, what the queue says of each      *)
(* file, and what is still to be sent or forgotten.                         *)
(***************************************************************************)
EXTENDS FileSync

ColdPhase  == pc = "cold" \/ (pc = "send" /\ job.caller = "cold")
EventPhase == pc \in {"open", "record"} \/ (pc = "send" /\ job.caller = "event")

(* What each phase of the daemon leaves at rest.                            *)
Phases ==
  /\ pc # "scan" => ScanIdle
  /\ ~ColdPhase => delta = {} /\ gone = {}
  /\ ~Watching => events = <<>> /\ evt = NoEvent
  /\ pc = "idle" <=> Watching /\ evt = NoEvent
  /\ EventPhase => evt.kind # "Removed" /\ job.file = evt.file /\ job.caller = "event"
  /\ pc = "send" => job.file \in Files /\ job.caller # "none"
  /\ pc = "open" => job.off = 0

(* An inode number is never 0, and none is ever stored with a checkpoint:   *)
(* every send starts at 0 and the delta of a restart is the whole scan.     *)
Inodes == \A f \in Files : (Exists(f) => disk[f].ino # 0) /\ ckpt[f].ino = 0

(* The rows of the scan, from the walk to the table.                        *)
Tabled      == {f \in Files : Listed(f)}
Walked      == Paths(walk.held) \cup Paths(chan) \cup Paths(batch) \cup Tabled
Distinct(s) == \A i, j \in DOMAIN s : s[i].file = s[j].file => i = j

(* Nothing the walk has passed is dropped on its way.                       *)
NoneMissed ==
  pc = "scan" /\ walk.at # "failed" =>
    \A f \in Files \ lost :
      /\ f \in walk.todo => Exists(f)
      /\ Exists(f) <=> f \in Walked \/ (walk.at = "outer" /\ f \in walk.todo)

(* Without a nested directory and a change a row is at one place.           *)
NoneTwice ==
  pc = "scan" /\ lost = {} /\ inner \cap Present = {} =>
    /\ Distinct(batch) /\ Distinct(chan)
    /\ walk.todo \cap Walked = {}
    /\ Paths(walk.held) \cap (Paths(chan) \cup Paths(batch) \cup Tabled) = {}
    /\ Paths(chan) \cap (Paths(batch) \cup Tabled) = {}
    /\ Paths(batch) \cap Tabled = {}

ScanEnds ==
  /\ pc = "scan" => walk.at # "off"
  /\ Ended => walk.todo = {} /\ walk.held = <<>>
  /\ walk.at = "failed" => lost # {}
  /\ scanned = "ok" => walk.at = "done" /\ chan = <<>> /\ batch = <<>>

(* The last event of a file says whether it was unlinked.                   *)
Unlinked(f) == ~Exists(f) /\ f \notin moved
Queued == {events[i].file : i \in DOMAIN events}
LastSays ==
  /\ \A i \in DOMAIN events :
       (\A j \in DOMAIN events : j > i => events[j].file # events[i].file)
         => (events[i].kind = "Removed" <=> Unlinked(events[i].file))
  /\ evt # NoEvent /\ evt.file \notin Queued => (evt.kind = "Removed" <=> Unlinked(evt.file))

(* What is handled after the path was renamed away has nothing to read.     *)
MovedIsEmpty ==
  /\ moved \cap Present = {}
  /\ EventPhase /\ ~Exists(job.file) /\ job.file \notin Queued => job.off = 0 /\ job.end = 0

(* A checkpoint of a file that is gone is still to be removed, or says      *)
(* nothing of it.                                                           *)
Forgetting ==
  \A f \in Files \ lost : ~Exists(f) /\ Checked(f) =>
    /\ ColdPhase => f \in gone
    /\ Watching => f \in Queued \/ evt.file = f \/ (f \in moved /\ ckpt[f].off = 0)

(* process_file has the file as it is, and has sent all up to its offset.   *)
Sending(f) ==
  /\ pc = "send" /\ job.file = f
  /\ job.ver = disk[f].ver /\ job.end = disk[f].len /\ job.ino \in {0, disk[f].ino}
  /\ \A r \in 0 .. job.off - 1 : <<f, disk[f].ver, r>> \in sent

(* What is not sent yet is still to be sent.                                *)
Delivering ==
  online => \A f \in Present \ lost :
    /\ ColdPhase => f \in delta \/ Sending(f) \/ AllSent(f)
    /\ Watching => \/ f \in Queued \/ Sending(f) \/ AllSent(f)
                   \/ pc \in {"debounce", "open"} /\ evt.file = f

FilesInv ==
  /\ FileTypeOK /\ Phases /\ Inodes
  /\ NoneMissed /\ NoneTwice /\ ScanEnds /\ PanicsOnlyOnVanished
  /\ LastSays /\ MovedIsEmpty /\ Forgetting /\ Delivering
=============================================================================
