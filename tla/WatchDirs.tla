----------------------------- MODULE WatchDirs -----------------------------
(***************************************************************************)
(* Watched directories: serve_ipc acknowledges dir_add, dir_remove and      *)
(* dir_list (main.rs) and queues them for the tracker, which keeps the      *)
(* active set, tells the OS watcher through a control channel and keeps     *)
(* the table watched_dirs (tracker.rs, linux_tracker.rs).  Connections,     *)
(* tracker, control thread and the forwarder of OS events run in parallel.  *)
(***************************************************************************)
EXTENDS Naturals, Sequences

CONSTANTS
  Dirs,
  ConfigDirs,  \* watch.dirs
  LongNames,   \* directories whose path begins, as a string, with that of the others
  Clients,     \* connections that ask for the list
  Backends,    \* "inotify", and "fanotify" where the daemon has the capability
  MaxCommands, \* bound: dir_add and dir_remove requests
  MaxEvents,   \* bound: OS events in flight
  MaxCrashes   \* bound: crashes of the daemon

ASSUME WatchAssumption ==
  /\ ConfigDirs \subseteq Dirs /\ LongNames \subseteq Dirs
  /\ {MaxCommands, MaxEvents, MaxCrashes} \subseteq Nat

VARIABLES
  exists,     \* directories that exist; they do not change
  watched,    \* the table watched_dirs
  tracker,    \* "down", "start", "run", or "dead" while IPC is served
  backend,
  active,     \* active_dirs
  os,         \* directories the OS watcher watches
  cmds,       \* queue of WatchCommands
  now,        \* the command in hand and the tracker's next step of it
  ctl,        \* queue of WatchOps
  raised,     \* OS events the forwarder has not seen
  reply,      \* answers to dir_list
  want,       \* history: the last acknowledged command on each directory
  asked,      \* history: what the answer a client awaits must and must not hold
  base,       \* history: watched_dirs at the start of this life
  commands, crashes

osVars   == <<os, ctl, raised>>
lifeVars == <<exists, tracker, backend, base, crashes>>
vars == <<lifeVars, osVars, watched, active, cmds, now, reply, want, asked, commands>>

Idle == [step |-> "idle", kind |-> "none"]
NoReply == [st |-> "none", dirs |-> {}]
Waiting == [st |-> "waiting", dirs |-> {}]
Empty   == [st |-> "empty", dirs |-> {}]
Free    == [has |-> {}, hasNot |-> {}]

Change  == [kind : {"Add", "Remove"}, dir : Dirs]
Command == Change \cup [kind : {"List"}, client : Clients]
InHand  == [step : {"control", "persist"}, kind : {"Add", "Remove"}, dir : Dirs]

TypeOK ==
  /\ exists \subseteq Dirs /\ watched \subseteq Dirs /\ base \subseteq Dirs
  /\ active \subseteq Dirs /\ os \subseteq exists
  /\ tracker \in {"down", "start", "run", "dead"} /\ backend \in Backends
  /\ cmds \in Seq(Command) /\ ctl \in Seq(Change) /\ now \in InHand \cup {Idle}
  /\ raised \in Seq(Dirs) /\ Len(raised) <= MaxEvents
  /\ reply \in [Clients -> [st : {"none", "waiting", "answered", "empty"}, dirs : SUBSET Dirs]]
  /\ asked \in [Clients -> [has : SUBSET Dirs, hasNot : SUBSET Dirs]]
  /\ want \in [Dirs -> {"none", "Add", "Remove"}]
  /\ commands \in 0 .. MaxCommands /\ crashes \in 0 .. MaxCrashes

Init ==
  /\ exists \in SUBSET Dirs /\ watched = {} /\ base = {}
  /\ tracker = "down" /\ backend \in Backends
  /\ active = {} /\ os = {} /\ cmds = <<>> /\ now = Idle /\ ctl = <<>> /\ raised = <<>>
  /\ reply = [c \in Clients |-> NoReply] /\ asked = [c \in Clients |-> Free]
  /\ want = [d \in Dirs |-> "none"]
  /\ commands = 0 /\ crashes = 0

----------------------------------------------------------------------------
(* The process.                                                             *)

(* After cold start the tracker is spawned, and then serve_ipc.             *)
Boot ==
  /\ tracker = "down"
  /\ tracker' = "start" /\ backend' \in Backends /\ base' = watched
  /\ UNCHANGED <<exists, crashes, osVars, watched, active, cmds, now, reply, want, asked, commands>>

Crash ==
  /\ tracker # "down" /\ crashes < MaxCrashes
  /\ crashes' = crashes + 1 /\ tracker' = "down"
  /\ active' = {} /\ os' = {} /\ cmds' = <<>> /\ now' = Idle /\ ctl' = <<>> /\ raised' = <<>>
  /\ reply' = [c \in Clients |-> NoReply] /\ asked' = [c \in Clients |-> Free]
  /\ want' = [d \in Dirs |-> "none"]
  /\ UNCHANGED <<exists, backend, base, watched, commands>>

(* start_fanotify marks the mount and its events name no path.              *)
InitialWatches == IF backend = "inotify" THEN ConfigDirs \cap exists ELSE {}

(* Mutant: the table, once it has rows, takes the place of the config.      *)
TableOverrides ==
  /\ tracker = "start" /\ tracker' = "run"
  /\ os' = InitialWatches
  /\ active' = IF watched = {} THEN ConfigDirs ELSE watched
  /\ UNCHANGED <<exists, backend, base, crashes, ctl, raised, watched, cmds, now,
                 reply, want, asked, commands>>

(* Only the configured directories are given to the OS; those of the table  *)
(* become active all the same.                                              *)
StartTracker ==
  /\ tracker = "start" /\ tracker' = "run"
  /\ os' = InitialWatches
  /\ active' = ConfigDirs \cup watched
  /\ UNCHANGED <<exists, backend, base, crashes, ctl, raised, watched, cmds, now,
                 reply, want, asked, commands>>

(* Mutant: the queue outlives the tracker.                                  *)
StartFailsKeeps ==
  /\ tracker = "start" /\ tracker' = "dead"
  /\ UNCHANGED <<exists, backend, base, crashes, osVars, watched, active, cmds, now,
                 reply, want, asked, commands>>

(* expect("failed to start tracker") ends the task and not the process: the *)
(* queue is dropped, and with it the senders of the answers in it.          *)
StartFails ==
  /\ tracker = "start" /\ tracker' = "dead"
  /\ cmds' = <<>>
  /\ reply' = [c \in Clients |-> IF reply[c] = Waiting THEN Empty ELSE reply[c]]
  /\ UNCHANGED <<exists, backend, base, crashes, osVars, watched, active, now,
                 want, asked, commands>>

----------------------------------------------------------------------------
(* serve_ipc.                                                               *)

Serving == tracker # "down"

(* send().ok(): nobody hears of a tracker that is dead.                     *)
Enqueue(cmd) == cmds' = IF tracker = "dead" THEN cmds ELSE Append(cmds, cmd)

(* The answer is ok as soon as the command is queued.                       *)
RequestChange ==
  /\ Serving /\ commands < MaxCommands
  /\ \E d \in Dirs, k \in {"Add", "Remove"} :
       /\ Enqueue([kind |-> k, dir |-> d])
       /\ want' = [want EXCEPT ![d] = k]
       /\ asked' = [c \in Clients |->
            IF reply[c] = Waiting
            THEN [has |-> asked[c].has \ {d}, hasNot |-> asked[c].hasNot \ {d}]
            ELSE asked[c]]
  /\ commands' = commands + 1
  /\ UNCHANGED <<lifeVars, osVars, watched, active, now, reply>>

(* Mutant: the list is read when the request comes in.                      *)
ListAtOnce ==
  /\ Serving
  /\ \E c \in Clients :
       /\ reply[c] # Waiting
       /\ reply' = [reply EXCEPT ![c] = [st |-> "answered", dirs |-> active]]
       /\ asked' = [asked EXCEPT ![c] = [has    |-> {d \in Dirs : want[d] = "Add"},
                                         hasNot |-> {d \in Dirs : want[d] = "Remove"}]]
  /\ UNCHANGED <<lifeVars, osVars, watched, active, cmds, now, want, commands>>

(* A oneshot whose sender is dropped gives an empty list.                   *)
RequestList ==
  /\ Serving
  /\ \E c \in Clients :
       /\ reply[c] # Waiting
       /\ Enqueue([kind |-> "List", client |-> c])
       /\ reply' = [reply EXCEPT ![c] = IF tracker = "dead" THEN Empty ELSE Waiting]
       /\ asked' = [asked EXCEPT ![c] = [has    |-> {d \in Dirs : want[d] = "Add"},
                                         hasNot |-> {d \in Dirs : want[d] = "Remove"}]]
  /\ UNCHANGED <<lifeVars, osVars, watched, active, now, want, commands>>

(* status, reload and anything not understood are answered at once and      *)
(* change nothing.                                                          *)
RequestOther == Serving /\ UNCHANGED vars

----------------------------------------------------------------------------
(* The tracker: three effects per command, which other threads see apart.   *)

Ready(kinds) ==
  tracker = "run" /\ now = Idle /\ cmds # <<>> /\ Head(cmds).kind \in kinds

With(set, cmd) == IF cmd.kind = "Add" THEN set \cup {cmd.dir} ELSE set \ {cmd.dir}

UpdateActive ==
  /\ Ready({"Add", "Remove"})
  /\ active' = With(active, Head(cmds)) /\ cmds' = Tail(cmds)
  /\ now' = [step |-> "control", kind |-> Head(cmds).kind, dir |-> Head(cmds).dir]
  /\ UNCHANGED <<lifeVars, osVars, watched, reply, want, asked, commands>>

(* Mutant: the OS is told of new directories only, after active has it.     *)
ControlIfNew ==
  /\ now.step = "control"
  /\ ctl' = IF backend = "inotify" /\ now.dir \notin active
            THEN Append(ctl, [kind |-> now.kind, dir |-> now.dir]) ELSE ctl
  /\ now' = [now EXCEPT !.step = "persist"]
  /\ UNCHANGED <<lifeVars, os, raised, watched, active, cmds, reply, want, asked, commands>>

(* control_tx is None under fanotify.                                       *)
SendControl ==
  /\ now.step = "control"
  /\ ctl' = IF backend = "inotify" THEN Append(ctl, [kind |-> now.kind, dir |-> now.dir]) ELSE ctl
  /\ now' = [now EXCEPT !.step = "persist"]
  /\ UNCHANGED <<lifeVars, os, raised, watched, active, cmds, reply, want, asked, commands>>

(* Mutant: a removed directory stays in the table.                          *)
PersistAdds ==
  /\ now.step = "persist"
  /\ watched' = IF now.kind = "Add" THEN With(watched, now) ELSE watched
  /\ now' = Idle
  /\ UNCHANGED <<lifeVars, osVars, active, cmds, reply, want, asked, commands>>

Persist ==
  /\ now.step = "persist"
  /\ watched' = With(watched, now) /\ now' = Idle
  /\ UNCHANGED <<lifeVars, osVars, active, cmds, reply, want, asked, commands>>

AnswerList ==
  /\ Ready({"List"})
  /\ cmds' = Tail(cmds)
  /\ reply' = [reply EXCEPT ![Head(cmds).client] = [st |-> "answered", dirs |-> active]]
  /\ UNCHANGED <<lifeVars, osVars, watched, active, now, want, asked, commands>>

Tracker == StartTracker \/ StartFails \/ UpdateActive \/ SendControl \/ Persist \/ AnswerList

----------------------------------------------------------------------------
(* The control thread, the OS and the forwarder.                            *)

(* Mutant: any directory is watched.                                        *)
ApplyAny ==
  /\ ctl # <<>> /\ ctl' = Tail(ctl) /\ os' = With(os, Head(ctl))
  /\ UNCHANGED <<lifeVars, raised, watched, active, cmds, now, reply, want, asked, commands>>

(* A directory that does not exist is not watched, now or later.            *)
ApplyControl ==
  /\ ctl # <<>> /\ ctl' = Tail(ctl)
  /\ os' = IF Head(ctl).kind = "Add" /\ Head(ctl).dir \notin exists THEN os
           ELSE With(os, Head(ctl))
  /\ UNCHANGED <<lifeVars, raised, watched, active, cmds, now, reply, want, asked, commands>>

OsEvent ==
  /\ Len(raised) < MaxEvents
  /\ \E d \in os : raised' = Append(raised, d)
  /\ UNCHANGED <<lifeVars, os, ctl, watched, active, cmds, now, reply, want, asked, commands>>

(* starts_with on strings: a sibling with a longer name passes as well.     *)
Passes(d) == d \in active \/ (d \in LongNames /\ active \ LongNames # {})

(* What passes goes to the event queue of the main loop.                    *)
Forward ==
  /\ raised # <<>> /\ raised' = Tail(raised)
  /\ UNCHANGED <<lifeVars, os, ctl, watched, active, cmds, now, reply, want, asked, commands>>

Next ==
  \/ Boot \/ Crash \/ RequestChange \/ RequestList \/ RequestOther
  \/ Tracker \/ ApplyControl \/ OsEvent \/ Forward

Spec == Init /\ [][Next]_vars

(* The runtime polls the tracker, and the control thread is scheduled.      *)
FairSpec == Spec /\ WF_vars(Tracker) /\ WF_vars(ApplyControl)

----------------------------------------------------------------------------
(* Properties.                                                              *)

(* The directories a set should hold if it held initial at the start.       *)
Wanted(initial) ==
  {d \in Dirs : want[d] = "Add" \/ (want[d] = "none" /\ d \in initial)}

(* Once the commands are worked off, the active set, the table and the OS   *)
(* watches agree with what was acknowledged, in whatever order adds and     *)
(* removes came and in whatever life the table was written.  The OS watches *)
(* only what was configured or added in this life and exists.               *)
SettledAgrees ==
  tracker = "run" /\ cmds = <<>> /\ now = Idle =>
    /\ active = Wanted(ConfigDirs \cup base)
    /\ watched = Wanted(base)
    /\ ctl = <<>> /\ backend = "inotify" => os = Wanted(ConfigDirs) \cap exists

(* A list holds every directory whose add was acknowledged before the list  *)
(* was asked for, and none whose remove was, unless a later command on it   *)
(* overtook the answer.                                                     *)
ListSeesAcknowledged ==
  \A c \in Clients : reply[c].st = "answered" =>
    /\ asked[c].has \subseteq reply[c].dirs
    /\ asked[c].hasNot \cap reply[c].dirs = {}

(* An OS event is filtered only if the removal of its directory was         *)
(* acknowledged: an added directory is active before it is watched.         *)
FiltersOnlyRemoved ==
  [][Forward /\ ~Passes(Head(raised)) =>
       LET d == Head(raised) IN
       \/ want[d] = "Remove"
       \/ \E i \in 1 .. Len(cmds) : cmds[i].kind = "Add" /\ cmds[i].dir = d]_vars

(* Nobody waits for a list for ever, also when the tracker has died.        *)
ListIsAnswered ==
  \A c \in Clients : reply[c] = Waiting ~> reply[c] # Waiting

(* An acknowledged add reaches the table and the OS watcher, unless another *)
(* command or the end of the tracker or of the process comes first.         *)
AddTakesEffect ==
  \A d \in Dirs :
    want[d] = "Add" ~>
      \/ d \in watched /\ (d \in os \/ d \notin exists \/ backend = "fanotify")
      \/ want[d] # "Add" \/ tracker \in {"down", "dead"}

----------------------------------------------------------------------------
(* The inductive invariant behind the safety properties: what is left of    *)
(* each queue leads to what was acknowledged.                               *)

Concerns(cmd, d) == cmd.kind \in {"Add", "Remove"} /\ cmd.dir = d

NoneOn(queue, d) == \A i \in 1 .. Len(queue) : ~Concerns(queue[i], d)

LastOn(queue, d, kind) ==
  \E i \in 1 .. Len(queue) :
    /\ Concerns(queue[i], d) /\ queue[i].kind = kind
    /\ \A j \in i + 1 .. Len(queue) : ~Concerns(queue[j], d)

Working(d, steps) == now.step \in steps /\ now.dir = d

(* Before the tracker runs nothing was done, and after it died nothing will *)
(* be.                                                                      *)
NotRunning ==
  /\ tracker # "run" => now = Idle /\ ctl = <<>> /\ os = {} /\ raised = <<>>
  /\ tracker \in {"down", "dead"} => cmds = <<>>
  /\ tracker = "down" => \A d \in Dirs : want[d] = "none"
  /\ tracker = "start" =>
       /\ watched = base
       /\ \A d \in Dirs : want[d] = "none" \/ LastOn(cmds, d, want[d])

(* The last command on a directory is the one that was acknowledged last.   *)
LastIsWanted ==
  \A d \in Dirs :
    /\ NoneOn(cmds, d) \/ LastOn(cmds, d, want[d])
    /\ Working(d, {"control", "persist"}) /\ NoneOn(cmds, d) => want[d] = now.kind

(* What no command in the queue will change is as it should be.             *)
ActiveFollows ==
  tracker = "run" =>
    \A d \in Dirs : NoneOn(cmds, d) => (d \in active <=> d \in Wanted(ConfigDirs \cup base))

TableFollows ==
  tracker = "run" =>
    \A d \in Dirs : NoneOn(cmds, d) /\ ~Working(d, {"control", "persist"})
                     => (d \in watched <=> d \in Wanted(base))

WatchesFollow ==
  tracker = "run" /\ backend = "inotify" =>
    \A d \in Dirs : NoneOn(cmds, d) /\ ~Working(d, {"control"}) =>
      \/ LastOn(ctl, d, want[d])
      \/ NoneOn(ctl, d) /\ (d \in os <=> d \in Wanted(ConfigDirs) /\ d \in exists)

(* A queued list is the only one its client waits for, and no command on a  *)
(* directory its answer must or must not hold is queued behind it.          *)
ListsAreAwaited ==
  \A i \in 1 .. Len(cmds) : cmds[i].kind = "List" =>
    LET c == cmds[i].client IN
    /\ reply[c] = Waiting
    /\ \A j \in i + 1 .. Len(cmds) :
         /\ cmds[j].kind = "List" => cmds[j].client # c
         /\ \A d \in asked[c].has \cup asked[c].hasNot : ~Concerns(cmds[j], d)

AskedIsWanted ==
  \A c \in Clients : reply[c] = Waiting =>
    /\ \A d \in asked[c].has : want[d] = "Add"
    /\ \A d \in asked[c].hasNot : want[d] = "Remove"

(* Whatever is watched, or will be, is active, or was acknowledged removed, *)
(* or is to be added again.                                                 *)
Accounted(d) ==
  \/ d \in active
  \/ want[d] = "Remove"
  \/ \E i \in 1 .. Len(cmds) : cmds[i].kind = "Add" /\ cmds[i].dir = d

WatchedIsAccounted ==
  /\ \A d \in os : Accounted(d)
  /\ \A i \in 1 .. Len(raised) : Accounted(raised[i])
  /\ \A i \in 1 .. Len(ctl) : ctl[i].kind = "Add" => Accounted(ctl[i].dir)
  /\ now.step = "control" /\ now.kind = "Add" => Accounted(now.dir)

QueuesInv == NotRunning /\ LastIsWanted
SetsInv   == ActiveFollows /\ TableFollows /\ WatchesFollow
ListsInv  == ListsAreAwaited /\ AskedIsWanted /\ ListSeesAcknowledged

DirsInv == TypeOK /\ QueuesInv /\ SetsInv /\ ListsInv /\ WatchedIsAccounted
=============================================================================
