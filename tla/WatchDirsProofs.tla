-------------------------- MODULE WatchDirsProofs --------------------------
(***************************************************************************)
(* What was acknowledged takes hold: the layers of DirsInv, each preserved  *)
(* by the connections, the tracker, the control thread and the forwarder.   *)
(***************************************************************************)
EXTENDS WatchDirs, TLAPS

----------------------------------------------------------------------------
(* Queues.                                                                  *)

LEMMA AppendOn ==
  ASSUME NEW S, NEW q \in Seq(S), NEW e, NEW d
  PROVE  /\ NoneOn(Append(q, e), d) <=> NoneOn(q, d) /\ ~Concerns(e, d)
         /\ Concerns(e, d) => LastOn(Append(q, e), d, e.kind)
         /\ \A k : ~Concerns(e, d) /\ LastOn(q, d, k) => LastOn(Append(q, e), d, k)
<1> DEFINE a == Append(q, e)
<1>1. /\ Len(q) \in Nat /\ Len(a) = Len(q) + 1
      /\ \A i \in 1 .. Len(q) : a[i] = q[i]
      /\ a[Len(q) + 1] = e
  OBVIOUS
<1> HIDE DEF a
<1>2. \A i : i \in 1 .. Len(a) <=> i \in 1 .. Len(q) \/ i = Len(q) + 1
  BY <1>1
<1>3. NoneOn(a, d) <=> NoneOn(q, d) /\ ~Concerns(e, d)
  <2>1. NoneOn(a, d) => NoneOn(q, d) /\ ~Concerns(e, d)
    <3> SUFFICES ASSUME NoneOn(a, d) PROVE NoneOn(q, d) /\ ~Concerns(e, d)
      OBVIOUS
    <3>1. ASSUME NEW i \in 1 .. Len(q) PROVE ~Concerns(q[i], d)
      <4>1. i \in 1 .. Len(a) /\ a[i] = q[i]
        BY <1>1, <1>2
      <4> QED BY <4>1 DEF NoneOn
    <3>2. Len(q) + 1 \in 1 .. Len(a)
      BY <1>2
    <3> QED BY <1>1, <3>1, <3>2 DEF NoneOn
  <2>2. NoneOn(q, d) /\ ~Concerns(e, d) => NoneOn(a, d)
    BY <1>1, <1>2 DEF NoneOn
  <2> QED BY <2>1, <2>2
<1>4. Concerns(e, d) => LastOn(a, d, e.kind)
  <2>1. Len(q) + 1 \in 1 .. Len(a) /\ \A j : j \notin Len(q) + 1 + 1 .. Len(a)
    BY <1>1, <1>2
  <2> QED BY <1>1, <2>1 DEF LastOn
<1>5. ASSUME NEW k, ~Concerns(e, d), LastOn(q, d, k) PROVE LastOn(a, d, k)
  <2>1. PICK i \in 1 .. Len(q) :
          /\ Concerns(q[i], d) /\ q[i].kind = k
          /\ \A j \in i + 1 .. Len(q) : ~Concerns(q[j], d)
    BY <1>5 DEF LastOn
  <2>2. i \in 1 .. Len(a) /\ a[i] = q[i]
    BY <1>1, <1>2
  <2>3. ASSUME NEW j \in i + 1 .. Len(a) PROVE ~Concerns(a[j], d)
    <3>1. (j \in i + 1 .. Len(q) /\ a[j] = q[j]) \/ a[j] = e
      BY <1>1
    <3> QED BY <1>5, <2>1, <3>1
  <2> QED BY <2>1, <2>2, <2>3 DEF LastOn
<1> QED BY <1>3, <1>4, <1>5 DEF a

LEMMA TailOn ==
  ASSUME NEW S, NEW q \in Seq(S), q # <<>>, NEW d
  PROVE  /\ NoneOn(q, d) <=> NoneOn(Tail(q), d) /\ ~Concerns(Head(q), d)
         /\ \A k : LastOn(q, d, k) =>
              \/ LastOn(Tail(q), d, k)
              \/ NoneOn(Tail(q), d) /\ Concerns(Head(q), d) /\ Head(q).kind = k
<1> DEFINE t == Tail(q)
<1>1. /\ Len(q) \in Nat \ {0} /\ Len(t) = Len(q) - 1 /\ Head(q) = q[1]
      /\ \A i \in 1 .. Len(t) : t[i] = q[i + 1]
  OBVIOUS
<1> HIDE DEF t
<1>2. NoneOn(q, d) => NoneOn(t, d) /\ ~Concerns(Head(q), d)
  <2> SUFFICES ASSUME NoneOn(q, d) PROVE NoneOn(t, d) /\ ~Concerns(Head(q), d)
    OBVIOUS
  <2>1. ASSUME NEW i \in 1 .. Len(t) PROVE ~Concerns(t[i], d)
    <3>1. i + 1 \in 1 .. Len(q) /\ t[i] = q[i + 1]
      BY <1>1
    <3> QED BY <3>1 DEF NoneOn
  <2>2. 1 \in 1 .. Len(q)
    BY <1>1
  <2> QED BY <1>1, <2>1, <2>2 DEF NoneOn
<1>3. NoneOn(t, d) /\ ~Concerns(Head(q), d) => NoneOn(q, d)
  <2> SUFFICES ASSUME NoneOn(t, d), ~Concerns(Head(q), d), NEW i \in 1 .. Len(q)
               PROVE  ~Concerns(q[i], d)
    BY DEF NoneOn
  <2>1. CASE i = 1
    BY <1>1, <2>1
  <2>2. CASE i # 1
    <3>1. i - 1 \in 1 .. Len(t) /\ t[i - 1] = q[i]
      BY <1>1, <2>2
    <3> QED BY <3>1 DEF NoneOn
  <2> QED BY <2>1, <2>2
<1>4. ASSUME NEW k, LastOn(q, d, k)
      PROVE  \/ LastOn(t, d, k)
             \/ NoneOn(t, d) /\ Concerns(Head(q), d) /\ Head(q).kind = k
  <2>1. PICK i \in 1 .. Len(q) :
          /\ Concerns(q[i], d) /\ q[i].kind = k
          /\ \A j \in i + 1 .. Len(q) : ~Concerns(q[j], d)
    BY <1>4 DEF LastOn
  <2>2. \A j \in 1 .. Len(t) : j + 1 \in i + 1 .. Len(q) => ~Concerns(t[j], d)
    BY <1>1, <2>1
  <2>3. CASE i = 1
    <3>1. \A j \in 1 .. Len(t) : j + 1 \in i + 1 .. Len(q)
      BY <1>1, <2>3
    <3> QED BY <1>1, <2>1, <2>2, <2>3, <3>1 DEF NoneOn
  <2>4. CASE i # 1
    <3>1. i - 1 \in 1 .. Len(t) /\ t[i - 1] = q[i]
      BY <1>1, <2>4
    <3>2. ASSUME NEW j \in i - 1 + 1 .. Len(t) PROVE ~Concerns(t[j], d)
      <4>1. j \in 1 .. Len(t) /\ j + 1 \in i + 1 .. Len(q)
        BY <1>1
      <4> QED BY <2>2, <4>1
    <3> QED BY <2>1, <3>1, <3>2 DEF LastOn
  <2> QED BY <2>3, <2>4
<1> QED BY <1>2, <1>3, <1>4 DEF t

(* Nothing and something do not go together.                                *)
LEMMA NoneOrLast ==
  ASSUME NEW q, NEW d, NEW k
  PROVE  ~(NoneOn(q, d) /\ LastOn(q, d, k))
BY DEF NoneOn, LastOn

LEMMA EmptyOn == \A d : NoneOn(<<>>, d)
BY DEF NoneOn

LEMMA HeadTypes ==
  ASSUME TypeOK, cmds # <<>>
  PROVE  /\ Head(cmds) = cmds[1] /\ 1 \in 1 .. Len(cmds)
         /\ Head(cmds) \in Command /\ Tail(cmds) \in Seq(Command)
         /\ Head(cmds).kind \in {"Add", "Remove"} => Head(cmds) \in Change
         /\ Head(cmds).kind = "List" => Head(cmds).client \in Clients
<1>1. /\ Head(cmds) \in Command /\ Tail(cmds) \in Seq(Command)
      /\ Head(cmds) = cmds[1] /\ 1 \in 1 .. Len(cmds)
  BY DEF TypeOK
<1> QED BY <1>1 DEF Command, Change

----------------------------------------------------------------------------
(* Types.                                                                   *)

LEMMA ReplyTypes ==
  /\ NoReply \in [st : {"none", "waiting", "answered", "empty"}, dirs : SUBSET Dirs]
  /\ Waiting \in [st : {"none", "waiting", "answered", "empty"}, dirs : SUBSET Dirs]
  /\ Empty \in [st : {"none", "waiting", "answered", "empty"}, dirs : SUBSET Dirs]
  /\ Free \in [has : SUBSET Dirs, hasNot : SUBSET Dirs]
BY DEF NoReply, Waiting, Empty, Free

LEMMA EnqueueTypes ==
  ASSUME TypeOK, NEW cmd \in Command, Enqueue(cmd)
  PROVE  cmds' \in Seq(Command)
BY DEF TypeOK, Enqueue

LEMMA WatchInit == Init => TypeOK
<1> SUFFICES ASSUME Init PROVE TypeOK
  OBVIOUS
<1>1. /\ <<>> \in Seq(Command) /\ <<>> \in Seq(Change) /\ <<>> \in Seq(Dirs)
      /\ Len(<<>>) <= MaxEvents
  BY WatchAssumption
<1>2. /\ reply \in [Clients -> [st : {"none", "waiting", "answered", "empty"}, dirs : SUBSET Dirs]]
      /\ asked \in [Clients -> [has : SUBSET Dirs, hasNot : SUBSET Dirs]]
  BY ReplyTypes DEF Init
<1>3. commands \in 0 .. MaxCommands /\ crashes \in 0 .. MaxCrashes
  BY WatchAssumption DEF Init
<1> QED BY <1>1, <1>2, <1>3 DEF Init, TypeOK

LEMMA WatchTypes == TypeOK /\ [Next]_vars => TypeOK'
<1> SUFFICES ASSUME TypeOK, [Next]_vars PROVE TypeOK'
  OBVIOUS
<1> USE DEF lifeVars, osVars
<1>1. /\ <<>> \in Seq(Command) /\ <<>> \in Seq(Change) /\ <<>> \in Seq(Dirs)
      /\ Len(<<>>) <= MaxEvents
  BY WatchAssumption
<1>2. CASE Boot
  BY <1>2 DEF Boot, TypeOK
<1>3. CASE Crash
  <2>1. crashes' \in 0 .. MaxCrashes
    BY <1>3, WatchAssumption DEF Crash, TypeOK
  <2>2. /\ reply' \in [Clients -> [st : {"none", "waiting", "answered", "empty"},
                                   dirs : SUBSET Dirs]]
        /\ asked' \in [Clients -> [has : SUBSET Dirs, hasNot : SUBSET Dirs]]
        /\ want' \in [Dirs -> {"none", "Add", "Remove"}]
    BY <1>3, ReplyTypes DEF Crash
  <2>3. /\ cmds' \in Seq(Command) /\ ctl' \in Seq(Change)
        /\ raised' \in Seq(Dirs) /\ Len(raised') <= MaxEvents
    BY <1>1, <1>3 DEF Crash
  <2> QED BY <1>3, <2>1, <2>2, <2>3 DEF Crash, TypeOK
<1>4. CASE RequestChange
  <2>1. PICK d \in Dirs, k \in {"Add", "Remove"} :
          /\ Enqueue([kind |-> k, dir |-> d])
          /\ want' = [want EXCEPT ![d] = k]
          /\ asked' = [c \in Clients |->
               IF reply[c] = Waiting
               THEN [has |-> asked[c].has \ {d}, hasNot |-> asked[c].hasNot \ {d}]
               ELSE asked[c]]
    BY <1>4 DEF RequestChange
  <2>2. cmds' \in Seq(Command)
    <3>1. [kind |-> k, dir |-> d] \in Command
      BY DEF Command, Change
    <3> QED BY <2>1, <3>1, EnqueueTypes
  <2>3. asked' \in [Clients -> [has : SUBSET Dirs, hasNot : SUBSET Dirs]]
    BY <2>1 DEF TypeOK
  <2>4. want' \in [Dirs -> {"none", "Add", "Remove"}]
    BY <2>1 DEF TypeOK
  <2>5. commands' \in 0 .. MaxCommands
    BY <1>4, WatchAssumption DEF RequestChange, TypeOK
  <2> QED BY <1>4, <2>2, <2>3, <2>4, <2>5 DEF RequestChange, TypeOK
<1>5. CASE RequestList
  <2>1. PICK c \in Clients :
          /\ Enqueue([kind |-> "List", client |-> c])
          /\ reply' = [reply EXCEPT ![c] = IF tracker = "dead" THEN Empty ELSE Waiting]
          /\ asked' = [asked EXCEPT ![c] = [has    |-> {d \in Dirs : want[d] = "Add"},
                                            hasNot |-> {d \in Dirs : want[d] = "Remove"}]]
    BY <1>5 DEF RequestList
  <2>2. cmds' \in Seq(Command)
    <3>1. [kind |-> "List", client |-> c] \in Command
      BY DEF Command
    <3> QED BY <2>1, <3>1, EnqueueTypes
  <2>3. asked' \in [Clients -> [has : SUBSET Dirs, hasNot : SUBSET Dirs]]
    BY <2>1 DEF TypeOK
  <2>4. reply' \in [Clients -> [st : {"none", "waiting", "answered", "empty"}, dirs : SUBSET Dirs]]
    BY <2>1, ReplyTypes DEF TypeOK
  <2> QED BY <1>5, <2>2, <2>3, <2>4 DEF RequestList, TypeOK
<1>6. CASE StartTracker
  BY <1>6, WatchAssumption DEF StartTracker, InitialWatches, TypeOK
<1>7. CASE StartFails
  <2>1. reply' \in [Clients -> [st : {"none", "waiting", "answered", "empty"}, dirs : SUBSET Dirs]]
    BY <1>7, ReplyTypes DEF StartFails, TypeOK
  <2>2. cmds' \in Seq(Command)
    BY <1>1, <1>7 DEF StartFails
  <2> QED BY <1>7, <2>1, <2>2 DEF StartFails, TypeOK
<1>8. CASE UpdateActive
  <2>1. Head(cmds) \in Change /\ cmds' \in Seq(Command)
    BY <1>8, HeadTypes DEF UpdateActive, Ready
  <2>2. active' \subseteq Dirs /\ now' \in InHand
    BY <1>8, <2>1 DEF UpdateActive, With, Change, InHand, TypeOK
  <2> QED BY <1>8, <2>1, <2>2 DEF UpdateActive, TypeOK
<1>9. CASE SendControl
  <2>1. now \in InHand
    BY <1>9 DEF SendControl, TypeOK, Idle
  <2>2. now' \in InHand /\ [kind |-> now.kind, dir |-> now.dir] \in Change
    BY <1>9, <2>1 DEF SendControl, InHand, Change
  <2>3. ctl' \in Seq(Change)
    BY <1>9, <2>2 DEF SendControl, TypeOK
  <2> QED BY <1>9, <2>2, <2>3 DEF SendControl, TypeOK
<1>10. CASE Persist
  <2>1. now \in InHand
    BY <1>10 DEF Persist, TypeOK, Idle
  <2>2. watched' \subseteq Dirs
    BY <1>10, <2>1 DEF Persist, With, InHand, TypeOK
  <2> QED BY <1>10, <2>2 DEF Persist, TypeOK
<1>11. CASE AnswerList
  <2>1. cmds' \in Seq(Command)
    BY <1>11, HeadTypes DEF AnswerList, Ready
  <2>2. reply' \in [Clients -> [st : {"none", "waiting", "answered", "empty"}, dirs : SUBSET Dirs]]
    BY <1>11 DEF AnswerList, TypeOK
  <2> QED BY <1>11, <2>1, <2>2 DEF AnswerList, TypeOK
<1>12. CASE ApplyControl
  <2>1. Head(ctl) \in Change /\ ctl' \in Seq(Change)
    BY <1>12 DEF ApplyControl, TypeOK
  <2>2. os' \subseteq exists
    BY <1>12, <2>1 DEF ApplyControl, With, Change, TypeOK
  <2> QED BY <1>12, <2>1, <2>2 DEF ApplyControl, TypeOK
<1>13. CASE OsEvent
  <2>1. raised' \in Seq(Dirs) /\ Len(raised') <= MaxEvents
    BY <1>13, WatchAssumption DEF OsEvent, TypeOK
  <2> QED BY <1>13, <2>1 DEF OsEvent, TypeOK
<1>14. CASE Forward
  <2>1. raised' \in Seq(Dirs) /\ Len(raised') <= MaxEvents
    BY <1>14, WatchAssumption DEF Forward, TypeOK
  <2> QED BY <1>14, <2>1 DEF Forward, TypeOK
<1>15. CASE RequestOther \/ UNCHANGED vars
  BY <1>15 DEF RequestOther, vars, TypeOK
<1> QED BY <1>2, <1>3, <1>4, <1>5, <1>6, <1>7, <1>8, <1>9, <1>10, <1>11, <1>12, <1>13, <1>14,
           <1>15 DEF Next, Tracker

----------------------------------------------------------------------------
(* The queue of commands and the command in hand.                           *)

(* A request is appended, unless there is no tracker to take it.            *)
LEMMA Queued ==
  ASSUME TypeOK, QueuesInv, NEW cmd \in Command, Enqueue(cmd)
  PROVE  \/ tracker # "dead" /\ cmds' = Append(cmds, cmd)
         \/ tracker = "dead" /\ cmds' = <<>> /\ cmds = <<>>
BY DEF Enqueue, QueuesInv, NotRunning

LEMMA QueuesInit == Init => QueuesInv
BY EmptyOn DEF Init, QueuesInv, NotRunning, LastIsWanted, Working, Idle

LEMMA QueuesRequest == TypeOK /\ QueuesInv /\ (RequestChange \/ RequestList) => QueuesInv'
<1> SUFFICES ASSUME TypeOK, QueuesInv, RequestChange \/ RequestList PROVE QueuesInv'
  OBVIOUS
<1>1. cmds \in Seq(Command)
  BY DEF TypeOK
<1>2. tracker # "down" /\ UNCHANGED <<lifeVars, osVars, watched, now>>
  BY DEF RequestChange, RequestList, Serving
<1>3. PICK cmd \in Command :
        /\ Enqueue(cmd)
        /\ \/ /\ cmd \in Change
              /\ want' = [want EXCEPT ![cmd.dir] = cmd.kind]
           \/ cmd.kind = "List" /\ want' = want
  <2>1. CASE RequestChange
    <3>1. PICK d \in Dirs, k \in {"Add", "Remove"} :
            Enqueue([kind |-> k, dir |-> d]) /\ want' = [want EXCEPT ![d] = k]
      BY <2>1 DEF RequestChange
    <3>2. [kind |-> k, dir |-> d] \in Change /\ [kind |-> k, dir |-> d] \in Command
      BY DEF Change, Command
    <3> QED BY <3>1, <3>2
  <2>2. CASE RequestList
    <3>1. PICK c \in Clients : Enqueue([kind |-> "List", client |-> c]) /\ want' = want
      BY <2>2 DEF RequestList
    <3>2. [kind |-> "List", client |-> c] \in Command
      BY DEF Command
    <3> QED BY <3>1, <3>2
  <2> QED BY <2>1, <2>2
<1>4. CASE tracker = "dead"
  <2>1. cmds' = <<>> /\ now = Idle
    BY <1>3, <1>4, Queued DEF QueuesInv, NotRunning
  <2> QED BY <1>2, <1>4, <2>1, EmptyOn
          DEF QueuesInv, NotRunning, LastIsWanted, Working, Idle, lifeVars, osVars
<1>5. CASE tracker # "dead"
  <2>1. cmds' = Append(cmds, cmd)
    BY <1>3, <1>5, Queued
  <2>2. ASSUME NEW d \in Dirs
        PROVE  /\ NoneOn(cmds', d) => NoneOn(cmds, d) /\ want'[d] = want[d]
               /\ LastOn(cmds, d, want[d]) => LastOn(cmds', d, want'[d])
               /\ NoneOn(cmds', d) \/ LastOn(cmds', d, want'[d])
               /\ want'[d] = want[d] \/ LastOn(cmds', d, want'[d])
    <3>1. /\ NoneOn(cmds', d) <=> NoneOn(cmds, d) /\ ~Concerns(cmd, d)
          /\ Concerns(cmd, d) => LastOn(cmds', d, cmd.kind)
          /\ ~Concerns(cmd, d) /\ LastOn(cmds, d, want[d]) => LastOn(cmds', d, want[d])
      BY <1>1, <2>1, AppendOn
    <3>2. want'[d] = IF Concerns(cmd, d) THEN cmd.kind ELSE want[d]
      BY <1>3 DEF TypeOK, Concerns, Change
    <3>3. NoneOn(cmds, d) \/ LastOn(cmds, d, want[d])
      BY DEF QueuesInv, LastIsWanted
    <3> QED BY <3>1, <3>2, <3>3
  <2>3. NotRunning'
    BY <1>2, <1>5, <2>2 DEF QueuesInv, NotRunning, lifeVars, osVars
  <2>4. LastIsWanted'
    BY <1>2, <2>2 DEF QueuesInv, LastIsWanted, Working
  <2> QED BY <2>3, <2>4 DEF QueuesInv
<1> QED BY <1>4, <1>5

LEMMA QueuesTracker == TypeOK /\ QueuesInv /\ Tracker => QueuesInv'
<1> SUFFICES ASSUME TypeOK, QueuesInv, Tracker PROVE QueuesInv'
  OBVIOUS
<1> USE DEF lifeVars, osVars
<1>1. cmds \in Seq(Command)
  BY DEF TypeOK
<1>2. CASE StartTracker
  BY <1>2 DEF StartTracker, QueuesInv, NotRunning, LastIsWanted, Working
<1>3. CASE StartFails
  BY <1>3, EmptyOn DEF StartFails, QueuesInv, NotRunning, LastIsWanted, Working, Idle
<1>4. now.step \in {"control", "persist"} => tracker = "run"
  BY DEF QueuesInv, NotRunning, Idle
<1>5. CASE UpdateActive
  <2>1. /\ cmds # <<>> /\ tracker = "run" /\ cmds' = Tail(cmds)
        /\ Head(cmds) \in Change /\ UNCHANGED <<tracker, want>>
        /\ now' = [step |-> "control", kind |-> Head(cmds).kind, dir |-> Head(cmds).dir]
    BY <1>5, HeadTypes DEF UpdateActive, Ready
  <2>2. ASSUME NEW d \in Dirs
        PROVE  /\ NoneOn(cmds', d) \/ LastOn(cmds', d, want[d])
               /\ d = Head(cmds).dir /\ NoneOn(cmds', d) => want[d] = Head(cmds).kind
    <3>1. NoneOn(cmds, d) \/ LastOn(cmds, d, want[d])
      BY DEF QueuesInv, LastIsWanted
    <3>2. /\ NoneOn(cmds, d) <=> NoneOn(cmds', d) /\ ~Concerns(Head(cmds), d)
          /\ LastOn(cmds, d, want[d]) =>
               \/ LastOn(cmds', d, want[d])
               \/ /\ NoneOn(cmds', d) /\ Concerns(Head(cmds), d)
                  /\ Head(cmds).kind = want[d]
      BY <1>1, <2>1, TailOn
    <3>3. d = Head(cmds).dir => Concerns(Head(cmds), d)
      BY <2>1 DEF Concerns, Change
    <3>4. ~(NoneOn(cmds', d) /\ LastOn(cmds', d, want[d]))
      BY NoneOrLast
    <3> QED BY <3>1, <3>2, <3>3, <3>4
  <2> QED BY <2>1, <2>2 DEF QueuesInv, NotRunning, LastIsWanted, Working
<1>6. CASE SendControl \/ Persist
  <2>1. /\ tracker = "run" /\ UNCHANGED <<tracker, want, cmds>>
        /\ \/ now' = [now EXCEPT !.step = "persist"]
           \/ now' = Idle
        /\ now.step \in {"control", "persist"}
    BY <1>4, <1>6 DEF SendControl, Persist
  <2>2. now \in InHand
    BY <2>1 DEF TypeOK, Idle
  <2>3. \A d \in Dirs : Working(d, {"control", "persist"})' =>
                         Working(d, {"control", "persist"}) /\ now'.kind = now.kind
    BY <2>1, <2>2 DEF Working, InHand, Idle
  <2> QED BY <2>1, <2>3 DEF QueuesInv, NotRunning, LastIsWanted
<1>7. CASE AnswerList
  <2>1. /\ cmds # <<>> /\ tracker = "run" /\ cmds' = Tail(cmds)
        /\ Head(cmds).kind = "List" /\ UNCHANGED <<tracker, want, now>>
    BY <1>7 DEF AnswerList, Ready
  <2>2. ASSUME NEW d \in Dirs
        PROVE  /\ NoneOn(cmds, d) <=> NoneOn(cmds', d)
               /\ LastOn(cmds, d, want[d]) => LastOn(cmds', d, want[d])
    <3>1. ~Concerns(Head(cmds), d)
      BY <2>1 DEF Concerns
    <3> QED BY <1>1, <2>1, <3>1, TailOn
  <2> QED BY <2>1, <2>2 DEF QueuesInv, NotRunning, LastIsWanted, Working
<1> QED BY <1>2, <1>3, <1>5, <1>6, <1>7 DEF Tracker

LEMMA QueuesKeep == TypeOK /\ QueuesInv /\ [Next]_vars => QueuesInv'
<1> SUFFICES ASSUME TypeOK, QueuesInv, [Next]_vars PROVE QueuesInv'
  OBVIOUS
<1> USE DEF lifeVars, osVars
<1>1. CASE Boot
  BY <1>1, EmptyOn DEF Boot, QueuesInv, NotRunning, LastIsWanted, Working
<1>2. CASE Crash
  BY <1>2, EmptyOn DEF Crash, QueuesInv, NotRunning, LastIsWanted, Working, Idle
<1>3. CASE ApplyControl \/ OsEvent \/ Forward
  <2>1. /\ UNCHANGED <<tracker, watched, base, cmds, now, want>>
        /\ ctl # <<>> \/ os # {} \/ raised # <<>>
    BY <1>3 DEF ApplyControl, OsEvent, Forward
  <2>2. tracker = "run"
    BY <2>1 DEF QueuesInv, NotRunning
  <2> QED BY <2>1, <2>2 DEF QueuesInv, NotRunning, LastIsWanted, Working
<1>4. CASE RequestOther \/ UNCHANGED vars
  BY <1>4 DEF RequestOther, vars, QueuesInv, NotRunning, LastIsWanted, Working
<1> QED BY <1>1, <1>2, <1>3, <1>4, QueuesRequest, QueuesTracker DEF Next

----------------------------------------------------------------------------
(* The active set, the table and the watches.                               *)

LEMMA SetsInit == Init => SetsInv
BY DEF Init, SetsInv, ActiveFollows, TableFollows, WatchesFollow

(* Fewer commands are behind it, and nothing else moved.                    *)
LEMMA SetsFrame ==
  ASSUME SetsInv, UNCHANGED <<tracker, backend, base, exists, active, watched, os, ctl, now>>,
         \A d \in Dirs : NoneOn(cmds', d) => NoneOn(cmds, d) /\ want'[d] = want[d]
  PROVE  SetsInv'
<1>2. ActiveFollows'
  BY DEF SetsInv, ActiveFollows, Wanted
<1>3. TableFollows'
  BY DEF SetsInv, TableFollows, Wanted, Working
<1>4. WatchesFollow'
  BY DEF SetsInv, WatchesFollow, Wanted, Working
<1> QED BY <1>2, <1>3, <1>4 DEF SetsInv

LEMMA SetsRequest ==
  ASSUME TypeOK, QueuesInv, SetsInv, RequestChange \/ RequestList
  PROVE  SetsInv'
<1>1. cmds \in Seq(Command)
  BY DEF TypeOK
<1>2. UNCHANGED <<tracker, backend, base, exists, active, watched, os, ctl, now>>
  BY DEF RequestChange, RequestList, lifeVars, osVars
<1>3. CASE tracker # "run"
  BY <1>2, <1>3 DEF SetsInv, ActiveFollows, TableFollows, WatchesFollow
<1>4. CASE tracker = "run" /\ RequestChange
  <2>1. PICK d \in Dirs, k \in {"Add", "Remove"} :
          Enqueue([kind |-> k, dir |-> d]) /\ want' = [want EXCEPT ![d] = k]
    BY <1>4 DEF RequestChange
  <2> DEFINE cmd == [kind |-> k, dir |-> d]
  <2>2. cmds' = Append(cmds, cmd)
    BY <1>4, <2>1 DEF Enqueue
  <2>3. ASSUME NEW e \in Dirs, NoneOn(cmds', e) PROVE NoneOn(cmds, e) /\ want'[e] = want[e]
    <3>1. NoneOn(cmds, e) /\ ~Concerns(cmd, e)
      BY <1>1, <2>2, <2>3, AppendOn
    <3>2. e # d
      BY <3>1 DEF Concerns
    <3> QED BY <2>1, <3>1, <3>2 DEF TypeOK
  <2> QED BY <1>2, <2>3, SetsFrame
<1>5. CASE tracker = "run" /\ RequestList
  <2>1. PICK c \in Clients : cmds' = Append(cmds, [kind |-> "List", client |-> c])
    BY <1>5 DEF RequestList, Enqueue
  <2>2. \A e \in Dirs : NoneOn(cmds', e) => NoneOn(cmds, e)
    BY <1>1, <2>1, AppendOn
  <2>3. want' = want
    BY <1>5 DEF RequestList
  <2> QED BY <1>2, <2>2, <2>3, SetsFrame
<1> QED BY <1>3, <1>4, <1>5

LEMMA SetsStart == QueuesInv /\ StartTracker => SetsInv'
<1> SUFFICES ASSUME QueuesInv, StartTracker PROVE SetsInv'
  OBVIOUS
<1>1. /\ watched = base /\ ctl = <<>> /\ now = Idle
      /\ UNCHANGED <<exists, backend, base, ctl, watched, cmds, now, want>>
      /\ os' = InitialWatches /\ active' = ConfigDirs \cup watched
  BY DEF StartTracker, QueuesInv, NotRunning
<1>2. \A d \in Dirs : NoneOn(cmds, d) => want[d] = "none"
  BY NoneOrLast DEF StartTracker, QueuesInv, NotRunning
<1>3. ActiveFollows' /\ TableFollows'
  BY <1>1, <1>2 DEF ActiveFollows, TableFollows, Wanted
<1>4. WatchesFollow'
  <2>1. \A d \in Dirs : NoneOn(ctl, d)
    BY <1>1, EmptyOn
  <2> QED BY <1>1, <1>2, <2>1 DEF WatchesFollow, Wanted, InitialWatches
<1> QED BY <1>3, <1>4 DEF SetsInv

LEMMA SetsUpdate ==
  ASSUME TypeOK, QueuesInv, QueuesInv', SetsInv, UpdateActive
  PROVE  SetsInv'
<1>1. /\ cmds \in Seq(Command) /\ cmds # <<>> /\ tracker = "run" /\ now = Idle
      /\ cmds' = Tail(cmds) /\ Head(cmds) \in Change
      /\ active' = With(active, Head(cmds))
      /\ now' = [step |-> "control", kind |-> Head(cmds).kind, dir |-> Head(cmds).dir]
      /\ UNCHANGED <<tracker, backend, base, exists, os, ctl, watched, want>>
  BY HeadTypes DEF UpdateActive, Ready, TypeOK, lifeVars, osVars
<1>2. ASSUME NEW d \in Dirs, d # Head(cmds).dir, NoneOn(cmds', d) PROVE NoneOn(cmds, d)
  BY <1>1, <1>2, TailOn DEF Concerns
<1>3. \A d \in Dirs : ~Working(d, {"control", "persist"}) /\ ~Working(d, {"control"})
  BY <1>1 DEF Working, Idle
<1>4. \A d \in Dirs : d = Head(cmds).dir =>
                        Working(d, {"control", "persist"})' /\ Working(d, {"control"})'
  BY <1>1 DEF Working
<1>5. ActiveFollows'
  <2> SUFFICES ASSUME NEW d \in Dirs, NoneOn(cmds', d)
               PROVE  d \in active' <=> d \in Wanted(ConfigDirs \cup base)'
    BY DEF ActiveFollows
  <2>1. CASE d = Head(cmds).dir
    <3>1. want[d] = Head(cmds).kind
      BY <1>1, <1>4, <2>1 DEF QueuesInv, LastIsWanted
    <3> QED BY <1>1, <2>1, <3>1 DEF With, Wanted, Change
  <2>2. CASE d # Head(cmds).dir
    <3>1. d \in active <=> d \in Wanted(ConfigDirs \cup base)
      BY <1>1, <1>2, <2>2 DEF SetsInv, ActiveFollows
    <3> QED BY <1>1, <2>2, <3>1 DEF With, Wanted
  <2> QED BY <2>1, <2>2
<1>6. TableFollows'
  BY <1>1, <1>2, <1>3, <1>4 DEF SetsInv, TableFollows, Wanted
<1>7. WatchesFollow'
  BY <1>1, <1>2, <1>3, <1>4 DEF SetsInv, WatchesFollow, Wanted
<1> QED BY <1>5, <1>6, <1>7 DEF SetsInv

LEMMA SetsSend ==
  ASSUME TypeOK, QueuesInv, SetsInv, SendControl
  PROVE  SetsInv'
<1>1. /\ now \in InHand /\ now.step = "control" /\ now' = [now EXCEPT !.step = "persist"]
      /\ UNCHANGED <<tracker, backend, base, exists, os, watched, active, cmds, want>>
      /\ ctl \in Seq(Change)
      /\ backend = "inotify" => ctl' = Append(ctl, [kind |-> now.kind, dir |-> now.dir])
  BY DEF SendControl, TypeOK, Idle, lifeVars
<1>2. \A d \in Dirs : Working(d, {"control", "persist"})' <=> Working(d, {"control", "persist"})
  BY <1>1 DEF Working, InHand
<1>3. ActiveFollows' /\ TableFollows'
  BY <1>1, <1>2 DEF SetsInv, ActiveFollows, TableFollows, Wanted
<1>4. ASSUME tracker = "run", backend = "inotify", NEW d \in Dirs, NoneOn(cmds, d)
      PROVE  \/ LastOn(ctl', d, want[d])
             \/ NoneOn(ctl', d) /\ (d \in os <=> d \in Wanted(ConfigDirs) /\ d \in exists)
  <2> DEFINE cmd == [kind |-> now.kind, dir |-> now.dir]
  <2>0. ctl' = Append(ctl, cmd) /\ cmd.kind = now.kind /\ cmd.dir = now.dir
    BY <1>1, <1>4
  <2> HIDE DEF cmd
  <2>1. /\ NoneOn(ctl', d) <=> NoneOn(ctl, d) /\ ~Concerns(cmd, d)
        /\ Concerns(cmd, d) => LastOn(ctl', d, now.kind)
        /\ ~Concerns(cmd, d) /\ LastOn(ctl, d, want[d]) => LastOn(ctl', d, want[d])
    BY <1>1, <2>0, AppendOn
  <2>2. Concerns(cmd, d) <=> now.dir = d
    BY <1>1, <2>0 DEF Concerns, InHand
  <2>3. CASE now.dir = d
    <3>1. want[d] = now.kind
      BY <1>1, <1>4, <2>3 DEF QueuesInv, LastIsWanted, Working
    <3> QED BY <2>1, <2>2, <2>3, <3>1
  <2>4. CASE now.dir # d
    <3>1. ~Working(d, {"control"})
      BY <2>4 DEF Working
    <3>2. \/ LastOn(ctl, d, want[d])
          \/ NoneOn(ctl, d) /\ (d \in os <=> d \in Wanted(ConfigDirs) /\ d \in exists)
      BY <1>4, <3>1 DEF SetsInv, WatchesFollow
    <3> QED BY <2>1, <2>2, <2>4, <3>2
  <2> QED BY <2>3, <2>4
<1>5. WatchesFollow'
  BY <1>1, <1>4 DEF WatchesFollow, Wanted
<1> QED BY <1>3, <1>5 DEF SetsInv

LEMMA SetsPersist ==
  ASSUME TypeOK, QueuesInv, SetsInv, Persist
  PROVE  SetsInv'
<1>1. /\ now \in InHand /\ now.step = "persist" /\ now' = Idle /\ watched' = With(watched, now)
      /\ UNCHANGED <<tracker, backend, base, exists, os, ctl, active, cmds, want>>
  BY DEF Persist, TypeOK, Idle, lifeVars, osVars
<1>2. \A d \in Dirs : ~Working(d, {"control"})
  BY <1>1 DEF Working
<1>3. ActiveFollows' /\ WatchesFollow'
  BY <1>1, <1>2 DEF SetsInv, ActiveFollows, WatchesFollow, Wanted
<1>4. TableFollows'
  <2> SUFFICES ASSUME tracker = "run", NEW d \in Dirs, NoneOn(cmds, d)
               PROVE  d \in watched' <=> d \in Wanted(base)
    BY <1>1 DEF TableFollows, Wanted
  <2>1. CASE d = now.dir
    <3>1. want[d] = now.kind
      BY <1>1, <2>1 DEF QueuesInv, LastIsWanted, Working
    <3> QED BY <1>1, <2>1, <3>1 DEF With, Wanted, InHand
  <2>2. CASE d # now.dir
    <3>1. d \in watched <=> d \in Wanted(base)
      BY <2>2 DEF SetsInv, TableFollows, Working
    <3> QED BY <1>1, <2>2, <3>1 DEF With
  <2> QED BY <2>1, <2>2
<1> QED BY <1>3, <1>4 DEF SetsInv

LEMMA SetsApply ==
  ASSUME TypeOK, QueuesInv, SetsInv, ApplyControl
  PROVE  SetsInv'
<1>1. /\ ctl \in Seq(Change) /\ ctl # <<>> /\ ctl' = Tail(ctl) /\ Head(ctl) \in Change
      /\ os \subseteq exists
      /\ os' = IF Head(ctl).kind = "Add" /\ Head(ctl).dir \notin exists THEN os
               ELSE With(os, Head(ctl))
      /\ UNCHANGED <<tracker, backend, base, exists, watched, active, cmds, now, want>>
  BY DEF ApplyControl, TypeOK, lifeVars
<1>2. ActiveFollows' /\ TableFollows'
  BY <1>1 DEF SetsInv, ActiveFollows, TableFollows, Wanted, Working
<1>3. ASSUME tracker = "run", backend = "inotify", NEW d \in Dirs, NoneOn(cmds, d),
             ~Working(d, {"control"})
      PROVE  \/ LastOn(ctl', d, want[d])
             \/ NoneOn(ctl', d) /\ (d \in os' <=> d \in Wanted(ConfigDirs) /\ d \in exists)
  <2>1. /\ NoneOn(ctl, d) <=> NoneOn(ctl', d) /\ ~Concerns(Head(ctl), d)
        /\ LastOn(ctl, d, want[d]) =>
             \/ LastOn(ctl', d, want[d])
             \/ NoneOn(ctl', d) /\ Concerns(Head(ctl), d) /\ Head(ctl).kind = want[d]
    BY <1>1, TailOn
  <2>2. \/ LastOn(ctl, d, want[d])
        \/ NoneOn(ctl, d) /\ (d \in os <=> d \in Wanted(ConfigDirs) /\ d \in exists)
    BY <1>3 DEF SetsInv, WatchesFollow
  <2>3. CASE NoneOn(ctl, d)
    <3>1. ~Concerns(Head(ctl), d) /\ NoneOn(ctl', d)
      BY <2>1, <2>3
    <3>2. Head(ctl).dir # d
      BY <1>1, <3>1 DEF Concerns, Change
    <3>3. d \in os' <=> d \in os
      BY <1>1, <3>2 DEF With
    <3> QED BY <2>2, <2>3, <3>1, <3>3, NoneOrLast
  <2>4. CASE Concerns(Head(ctl), d) /\ Head(ctl).kind = want[d]
    <3>1. Head(ctl).dir = d
      BY <2>4 DEF Concerns
    <3>2. d \in os' <=> want[d] = "Add" /\ d \in exists
      BY <1>1, <2>4, <3>1 DEF With, Change
    <3>3. d \in Wanted(ConfigDirs) <=> want[d] = "Add"
      BY <1>1, <2>4 DEF Wanted, Change
    <3> QED BY <2>1, <2>2, <3>2, <3>3, <2>4
  <2> QED BY <2>1, <2>2, <2>3, <2>4
<1>4. WatchesFollow'
  BY <1>1, <1>3 DEF WatchesFollow, Wanted, Working
<1> QED BY <1>2, <1>4 DEF SetsInv

LEMMA SetsKeep ==
  ASSUME TypeOK, QueuesInv, QueuesInv', SetsInv, [Next]_vars
  PROVE  SetsInv'
<1> USE DEF lifeVars, osVars
<1>1. CASE Boot \/ Crash \/ StartFails
  <2>1. tracker' # "run"
    BY <1>1 DEF Boot, Crash, StartFails
  <2> QED BY <2>1 DEF SetsInv, ActiveFollows, TableFollows, WatchesFollow
<1>2. CASE AnswerList
  <2>1. /\ cmds \in Seq(Command) /\ cmds # <<>> /\ cmds' = Tail(cmds)
        /\ Head(cmds).kind = "List"
    BY <1>2 DEF AnswerList, Ready, TypeOK
  <2>2. \A d \in Dirs : NoneOn(cmds', d) => NoneOn(cmds, d)
    BY <2>1, TailOn DEF Concerns
  <2>3. UNCHANGED <<tracker, backend, base, exists, active, watched, os, ctl, now, want>>
    BY <1>2 DEF AnswerList
  <2> QED BY <2>2, <2>3, SetsFrame
<1>3. CASE OsEvent \/ Forward \/ RequestOther \/ UNCHANGED vars
  <2>1. /\ UNCHANGED <<tracker, backend, base, exists, active, watched, os, ctl, now>>
        /\ UNCHANGED <<cmds, want>>
    BY <1>3 DEF OsEvent, Forward, RequestOther, vars
  <2> QED BY <2>1, SetsFrame
<1> QED BY <1>1, <1>2, <1>3, SetsRequest, SetsStart, SetsUpdate, SetsSend, SetsPersist, SetsApply
        DEF Next, Tracker

----------------------------------------------------------------------------
(* Lists.                                                                   *)

LEMMA ListsInit == Init => ListsInv
BY DEF Init, ListsInv, ListsAreAwaited, AskedIsWanted, ListSeesAcknowledged, NoReply, Waiting

(* A change that is queued behind a list takes its directory out of what    *)
(* the answer must and must not hold.                                       *)
LEMMA ListsChange ==
  ASSUME TypeOK, QueuesInv, ListsInv, RequestChange
  PROVE  ListsInv'
<1>1. PICK d \in Dirs, k \in {"Add", "Remove"} :
        /\ Enqueue([kind |-> k, dir |-> d])
        /\ want' = [want EXCEPT ![d] = k]
        /\ asked' = [c \in Clients |->
             IF reply[c] = Waiting
             THEN [has |-> asked[c].has \ {d}, hasNot |-> asked[c].hasNot \ {d}]
             ELSE asked[c]]
  BY DEF RequestChange
<1>2. reply' = reply /\ cmds \in Seq(Command)
  BY DEF RequestChange, TypeOK
<1>3. ASSUME NEW c \in Clients, reply[c] = Waiting
      PROVE  /\ asked'[c].has = asked[c].has \ {d}
             /\ asked'[c].hasNot = asked[c].hasNot \ {d}
  BY <1>1, <1>3
<1>4. AskedIsWanted'
  <2>1. \A e \in Dirs : e # d => want'[e] = want[e]
    BY <1>1 DEF TypeOK
  <2>2. \A c \in Clients : asked[c].has \subseteq Dirs /\ asked[c].hasNot \subseteq Dirs
    BY DEF TypeOK
  <2> QED BY <1>2, <1>3, <2>1, <2>2 DEF ListsInv, AskedIsWanted
<1>5. ListSeesAcknowledged'
  <2>1. \A c \in Clients : reply[c].st = "answered" => asked'[c] = asked[c]
    BY <1>1 DEF Waiting
  <2> QED BY <1>2, <2>1 DEF ListsInv, ListSeesAcknowledged
<1>6. ListsAreAwaited'
  <2> DEFINE cmd == [kind |-> k, dir |-> d]
  <2>1. cmd.kind # "List" /\ \A e : Concerns(cmd, e) => e = d
    BY DEF Concerns
  <2>2. \/ cmds' = Append(cmds, cmd)
        \/ cmds' = <<>>
    BY <1>1 DEF Enqueue, QueuesInv, NotRunning
  <2> HIDE DEF cmd
  <2>3. CASE cmds' = <<>>
    BY <2>3 DEF ListsAreAwaited
  <2>4. CASE cmds' = Append(cmds, cmd)
    <3>1. /\ Len(cmds) \in Nat /\ Len(cmds') = Len(cmds) + 1
          /\ \A i \in 1 .. Len(cmds) : cmds'[i] = cmds[i]
          /\ cmds'[Len(cmds) + 1] = cmd
      BY <1>2, <2>4
    <3> SUFFICES ASSUME NEW i \in 1 .. Len(cmds'), cmds'[i].kind = "List",
                        NEW c, c = cmds'[i].client
                 PROVE  /\ reply[c] = Waiting
                        /\ \A j \in i + 1 .. Len(cmds') :
                             /\ cmds'[j].kind = "List" => cmds'[j].client # c
                             /\ \A e \in asked'[c].has \cup asked'[c].hasNot :
                                  ~Concerns(cmds'[j], e)
      BY <1>2 DEF ListsAreAwaited
    <3>2. i \in 1 .. Len(cmds) /\ cmds'[i] = cmds[i]
      BY <2>1, <3>1
    <3>3. c \in Clients
      <4>1. cmds[i] \in Command
        BY <1>2, <3>2
      <4> QED BY <3>2, <4>1 DEF Command, Change
    <3>4. /\ reply[c] = Waiting
          /\ \A j \in i + 1 .. Len(cmds) :
               /\ cmds[j].kind = "List" => cmds[j].client # c
               /\ \A e \in asked[c].has \cup asked[c].hasNot : ~Concerns(cmds[j], e)
      BY <3>2 DEF ListsInv, ListsAreAwaited
    <3>5. \A e \in asked'[c].has \cup asked'[c].hasNot :
            e \in asked[c].has \cup asked[c].hasNot /\ e # d
      BY <1>3, <3>3, <3>4
    <3>6. \A j \in i + 1 .. Len(cmds') :
            (j \in i + 1 .. Len(cmds) /\ cmds'[j] = cmds[j]) \/ cmds'[j] = cmd
      BY <3>1
    <3> QED BY <2>1, <3>4, <3>5, <3>6
  <2> QED BY <2>2, <2>3, <2>4
<1> QED BY <1>4, <1>5, <1>6 DEF ListsInv

LEMMA ListsRequest ==
  ASSUME TypeOK, QueuesInv, ListsInv, RequestList
  PROVE  ListsInv'
<1>1. PICK c \in Clients :
        /\ reply[c] # Waiting
        /\ Enqueue([kind |-> "List", client |-> c])
        /\ reply' = [reply EXCEPT ![c] = IF tracker = "dead" THEN Empty ELSE Waiting]
        /\ asked' = [asked EXCEPT ![c] = [has    |-> {d \in Dirs : want[d] = "Add"},
                                          hasNot |-> {d \in Dirs : want[d] = "Remove"}]]
  BY DEF RequestList
<1>2. want' = want /\ cmds \in Seq(Command)
  BY DEF RequestList, TypeOK
<1>3. /\ \A b \in Clients : b # c => reply'[b] = reply[b] /\ asked'[b] = asked[b]
      /\ reply'[c] = IF tracker = "dead" THEN Empty ELSE Waiting
      /\ asked'[c].has = {d \in Dirs : want[d] = "Add"}
      /\ asked'[c].hasNot = {d \in Dirs : want[d] = "Remove"}
  BY <1>1 DEF TypeOK
<1>4. AskedIsWanted'
  BY <1>2, <1>3 DEF ListsInv, AskedIsWanted
<1>5. ListSeesAcknowledged'
  BY <1>3 DEF ListsInv, ListSeesAcknowledged, Empty, Waiting
<1>6. ListsAreAwaited'
  <2> DEFINE cmd == [kind |-> "List", client |-> c]
  <2>1. cmd.kind = "List" /\ cmd.client = c /\ \A e : ~Concerns(cmd, e)
    BY DEF Concerns
  <2>2. \/ tracker # "dead" /\ cmds' = Append(cmds, cmd)
        \/ cmds' = <<>>
    BY <1>1 DEF Enqueue, QueuesInv, NotRunning
  <2> HIDE DEF cmd
  <2>3. CASE cmds' = <<>>
    BY <2>3 DEF ListsAreAwaited
  <2>4. CASE tracker # "dead" /\ cmds' = Append(cmds, cmd)
    <3>1. /\ Len(cmds) \in Nat /\ Len(cmds') = Len(cmds) + 1
          /\ \A i \in 1 .. Len(cmds) : cmds'[i] = cmds[i]
          /\ cmds'[Len(cmds) + 1] = cmd
      BY <1>2, <2>4
    <3> SUFFICES ASSUME NEW i \in 1 .. Len(cmds'), cmds'[i].kind = "List",
                        NEW b, b = cmds'[i].client
                 PROVE  /\ reply'[b] = Waiting
                        /\ \A j \in i + 1 .. Len(cmds') :
                             /\ cmds'[j].kind = "List" => cmds'[j].client # b
                             /\ \A e \in asked'[b].has \cup asked'[b].hasNot :
                                  ~Concerns(cmds'[j], e)
      BY DEF ListsAreAwaited
    <3>2. CASE i = Len(cmds) + 1
      <4>1. b = c /\ reply'[b] = Waiting
        BY <1>3, <2>1, <2>4, <3>1, <3>2
      <4>2. \A j : j \notin i + 1 .. Len(cmds')
        BY <3>1, <3>2
      <4> QED BY <4>1, <4>2
    <3>3. CASE i \in 1 .. Len(cmds)
      <4>1. b \in Clients
        <5>1. cmds[i] \in Command
          BY <1>2, <3>3
        <5> QED BY <3>1, <3>3, <5>1 DEF Command, Change
      <4>2. /\ reply[b] = Waiting
            /\ \A j \in i + 1 .. Len(cmds) :
                 /\ cmds[j].kind = "List" => cmds[j].client # b
                 /\ \A e \in asked[b].has \cup asked[b].hasNot : ~Concerns(cmds[j], e)
        BY <3>1, <3>3 DEF ListsInv, ListsAreAwaited
      <4>3. b # c /\ reply'[b] = reply[b] /\ asked'[b] = asked[b]
        BY <1>1, <1>3, <4>1, <4>2
      <4>4. \A j \in i + 1 .. Len(cmds') :
              (j \in i + 1 .. Len(cmds) /\ cmds'[j] = cmds[j]) \/ cmds'[j] = cmd
        BY <3>1
      <4> QED BY <2>1, <4>2, <4>3, <4>4
    <3> QED BY <3>1, <3>2, <3>3
  <2> QED BY <2>2, <2>3, <2>4
<1> QED BY <1>4, <1>5, <1>6 DEF ListsInv

(* The rest of the queue is as it was.                                      *)
LEMMA AwaitedTail ==
  ASSUME cmds \in Seq(Command), cmds # <<>>, cmds' = Tail(cmds), ListsAreAwaited,
         NEW i \in 1 .. Len(cmds'), cmds'[i].kind = "List"
  PROVE  LET c == cmds'[i].client IN
         /\ reply[c] = Waiting /\ c \in Clients
         /\ Head(cmds).kind = "List" => Head(cmds).client # c
         /\ \A j \in i + 1 .. Len(cmds') :
              /\ cmds'[j].kind = "List" => cmds'[j].client # c
              /\ \A e \in asked[c].has \cup asked[c].hasNot : ~Concerns(cmds'[j], e)
<1>1. /\ Len(cmds) \in Nat \ {0} /\ Len(cmds') = Len(cmds) - 1 /\ Head(cmds) = cmds[1]
      /\ \A j \in 1 .. Len(cmds') : cmds'[j] = cmds[j + 1]
  OBVIOUS
<1>2. i + 1 \in 1 .. Len(cmds) /\ cmds'[i] = cmds[i + 1] /\ cmds[i + 1].kind = "List"
  BY <1>1
<1>3. 1 \in 1 .. Len(cmds) /\ i + 1 \in 1 + 1 .. Len(cmds)
  BY <1>1
<1> DEFINE c == cmds'[i].client
<1>4. c \in Clients /\ c = cmds[i + 1].client
  <2>1. cmds[i + 1] \in Command
    BY <1>2
  <2> QED BY <1>2, <2>1 DEF Command, Change
<1>5. /\ reply[c] = Waiting
      /\ \A j \in i + 1 + 1 .. Len(cmds) :
           /\ cmds[j].kind = "List" => cmds[j].client # c
           /\ \A e \in asked[c].has \cup asked[c].hasNot : ~Concerns(cmds[j], e)
  BY <1>2, <1>4 DEF ListsAreAwaited
<1>6. Head(cmds).kind = "List" => Head(cmds).client # c
  BY <1>1, <1>2, <1>3, <1>4 DEF ListsAreAwaited
<1>7. \A j \in i + 1 .. Len(cmds') : j + 1 \in i + 1 + 1 .. Len(cmds) /\ cmds'[j] = cmds[j + 1]
  BY <1>1
<1> QED BY <1>4, <1>5, <1>6, <1>7

LEMMA ListsUpdate ==
  ASSUME TypeOK, ListsInv, UpdateActive
  PROVE  ListsInv'
<1>1. /\ cmds \in Seq(Command) /\ cmds # <<>> /\ cmds' = Tail(cmds)
      /\ UNCHANGED <<reply, want, asked>>
  BY DEF UpdateActive, Ready, TypeOK
<1>2. ListsAreAwaited'
  BY <1>1, AwaitedTail DEF ListsInv, ListsAreAwaited
<1> QED BY <1>1, <1>2 DEF ListsInv, AskedIsWanted, ListSeesAcknowledged

(* Whatever the answer must tell apart is settled when it is given.         *)
LEMMA ListsAnswer ==
  ASSUME TypeOK, SetsInv, ListsInv, AnswerList
  PROVE  ListsInv'
<1> DEFINE c == Head(cmds).client
<1>1. /\ cmds \in Seq(Command) /\ cmds # <<>> /\ cmds' = Tail(cmds) /\ tracker = "run"
      /\ Head(cmds).kind = "List" /\ Head(cmds) = cmds[1] /\ 1 \in 1 .. Len(cmds)
      /\ c \in Clients /\ UNCHANGED <<want, asked>>
  BY HeadTypes DEF AnswerList, Ready, TypeOK
<1>2. /\ reply'[c] = [st |-> "answered", dirs |-> active]
      /\ \A b \in Clients : b # c => reply'[b] = reply[b]
  BY <1>1 DEF AnswerList, TypeOK
<1>3. /\ reply[c] = Waiting
      /\ \A j \in 1 + 1 .. Len(cmds), e \in asked[c].has \cup asked[c].hasNot :
           ~Concerns(cmds[j], e)
  BY <1>1 DEF ListsInv, ListsAreAwaited
<1>4. \A e \in asked[c].has \cup asked[c].hasNot : NoneOn(cmds, e)
  <2> SUFFICES ASSUME NEW e \in asked[c].has \cup asked[c].hasNot, NEW j \in 1 .. Len(cmds)
               PROVE  ~Concerns(cmds[j], e)
    BY DEF NoneOn
  <2>1. CASE j = 1
    BY <1>1, <2>1 DEF Concerns
  <2>2. CASE j # 1
    <3>1. j \in 1 + 1 .. Len(cmds)
      BY <1>1, <2>2
    <3> QED BY <1>3, <3>1
  <2> QED BY <2>1, <2>2
<1>5. asked[c].has \subseteq active /\ asked[c].hasNot \cap active = {}
  <2>1. asked[c].has \subseteq Dirs /\ asked[c].hasNot \subseteq Dirs
    BY <1>1 DEF TypeOK
  <2>2. /\ \A e \in asked[c].has : want[e] = "Add"
        /\ \A e \in asked[c].hasNot : want[e] = "Remove"
    BY <1>1, <1>3 DEF ListsInv, AskedIsWanted
  <2>3. \A e \in asked[c].has \cup asked[c].hasNot :
          e \in active <=> e \in Wanted(ConfigDirs \cup base)
    BY <1>1, <1>4, <2>1 DEF SetsInv, ActiveFollows
  <2> QED BY <2>1, <2>2, <2>3 DEF Wanted
<1> HIDE DEF c
<1>6. ListSeesAcknowledged'
  BY <1>1, <1>2, <1>5 DEF ListsInv, ListSeesAcknowledged
<1>7. AskedIsWanted'
  BY <1>1, <1>2 DEF ListsInv, AskedIsWanted, Waiting
<1>8. ListsAreAwaited'
  <2> SUFFICES ASSUME NEW i \in 1 .. Len(cmds'), cmds'[i].kind = "List", NEW b, b = cmds'[i].client
               PROVE  /\ reply'[b] = Waiting
                      /\ \A j \in i + 1 .. Len(cmds') :
                           /\ cmds'[j].kind = "List" => cmds'[j].client # b
                           /\ \A e \in asked'[b].has \cup asked'[b].hasNot : ~Concerns(cmds'[j], e)
    BY DEF ListsAreAwaited
  <2>1. /\ reply[b] = Waiting /\ b \in Clients /\ b # c
        /\ \A j \in i + 1 .. Len(cmds') :
             /\ cmds'[j].kind = "List" => cmds'[j].client # b
             /\ \A e \in asked[b].has \cup asked[b].hasNot : ~Concerns(cmds'[j], e)
    BY <1>1, AwaitedTail DEF ListsInv, c
  <2>2. asked' = asked
    BY <1>1
  <2> QED BY <1>2, <2>1, <2>2
<1> QED BY <1>6, <1>7, <1>8 DEF ListsInv

LEMMA ListsKeep ==
  ASSUME TypeOK, QueuesInv, SetsInv, ListsInv, [Next]_vars
  PROVE  ListsInv'
<1> USE DEF lifeVars, osVars
<1>1. CASE Crash \/ StartFails
  <2>1. cmds' = <<>>
    BY <1>1 DEF Crash, StartFails
  <2>2. \A c \in Clients : reply'[c] # Waiting
    BY <1>1 DEF Crash, StartFails, NoReply, Waiting, Empty
  <2>3. ASSUME NEW c \in Clients, reply'[c].st = "answered"
        PROVE  reply'[c] = reply[c] /\ asked'[c] = asked[c]
    BY <1>1, <2>3 DEF Crash, StartFails, NoReply, Waiting, Empty
  <2> QED BY <2>1, <2>2, <2>3 DEF ListsInv, ListsAreAwaited, AskedIsWanted, ListSeesAcknowledged
<1>2. CASE \/ Boot \/ StartTracker \/ SendControl \/ Persist \/ ApplyControl \/ OsEvent
           \/ Forward \/ RequestOther \/ UNCHANGED vars
  <2>1. UNCHANGED <<cmds, reply, want, asked>>
    BY <1>2 DEF Boot, StartTracker, SendControl, Persist, ApplyControl, OsEvent, Forward,
       RequestOther, vars
  <2> QED BY <2>1 DEF ListsInv, ListsAreAwaited, AskedIsWanted, ListSeesAcknowledged
<1> QED BY <1>1, <1>2, ListsChange, ListsRequest, ListsUpdate, ListsAnswer DEF Next, Tracker

----------------------------------------------------------------------------
(* What the OS watches.                                                     *)

LEMMA AccountedKeeps ==
  ASSUME TypeOK, QueuesInv, QueuesInv', [Next]_vars,
         tracker = "run", tracker' = "run",
         NEW d \in Dirs, Accounted(d)
  PROVE  Accounted(d)'
<1> USE DEF lifeVars, osVars
<1>1. cmds \in Seq(Command)
  BY DEF TypeOK
<1>2. CASE RequestChange
  <2>1. PICK e \in Dirs, k \in {"Add", "Remove"} :
          Enqueue([kind |-> k, dir |-> e]) /\ want' = [want EXCEPT ![e] = k]
    BY <1>2 DEF RequestChange
  <2>2. /\ Len(cmds) \in Nat /\ Len(cmds') = Len(cmds) + 1
        /\ \A i \in 1 .. Len(cmds) : cmds'[i] = cmds[i]
        /\ cmds'[Len(cmds) + 1] = [kind |-> k, dir |-> e]
    BY <1>1, <2>1 DEF Enqueue
  <2>3. /\ \A i \in 1 .. Len(cmds) : i \in 1 .. Len(cmds')
        /\ Len(cmds) + 1 \in 1 .. Len(cmds')
    BY <2>2
  <2>4. CASE d = e
    BY <2>1, <2>2, <2>3, <2>4 DEF Accounted, TypeOK
  <2>5. CASE d # e
    <3>1. want'[d] = want[d] /\ active' = active
      BY <1>2, <2>1, <2>5 DEF TypeOK, RequestChange
    <3> QED BY <2>2, <2>3, <3>1 DEF Accounted
  <2> QED BY <2>4, <2>5
<1>3. CASE RequestList
  <2>1. PICK c \in Clients : cmds' = Append(cmds, [kind |-> "List", client |-> c])
    BY <1>3 DEF RequestList, Enqueue
  <2>2. \A i \in 1 .. Len(cmds) : i \in 1 .. Len(cmds') /\ cmds'[i] = cmds[i]
    BY <1>1, <2>1
  <2>3. want' = want /\ active' = active
    BY <1>3 DEF RequestList
  <2> QED BY <2>2, <2>3 DEF Accounted
<1>4. ASSUME cmds # <<>>, cmds' = Tail(cmds), NEW i \in 1 .. Len(cmds), cmds[i] # Head(cmds)
      PROVE  i - 1 \in 1 .. Len(cmds') /\ cmds'[i - 1] = cmds[i]
  BY <1>1, <1>4
<1>5. CASE UpdateActive
  <2>1. /\ cmds # <<>> /\ cmds' = Tail(cmds) /\ Head(cmds) \in Change /\ want' = want
        /\ active' = With(active, Head(cmds))
        /\ now' = [step |-> "control", kind |-> Head(cmds).kind, dir |-> Head(cmds).dir]
    BY <1>5, HeadTypes DEF UpdateActive, Ready
  <2>2. CASE Head(cmds).dir # d
    <3>1. d \in active => d \in active'
      BY <2>1, <2>2 DEF With
    <3>2. ASSUME NEW i \in 1 .. Len(cmds), cmds[i].kind = "Add", cmds[i].dir = d
          PROVE  Accounted(d)'
      <4>1. i - 1 \in 1 .. Len(cmds') /\ cmds'[i - 1] = cmds[i]
        BY <1>4, <2>1, <2>2, <3>2
      <4> QED BY <3>2, <4>1 DEF Accounted
    <3> QED BY <2>1, <3>1, <3>2 DEF Accounted
  <2>3. CASE Head(cmds).dir = d /\ Head(cmds).kind = "Add"
    BY <2>1, <2>3 DEF With, Accounted
  <2>4. CASE Head(cmds).dir = d /\ Head(cmds).kind = "Remove"
    <3>1. /\ NoneOn(cmds', d) \/ LastOn(cmds', d, want[d])
          /\ NoneOn(cmds', d) => want[d] = "Remove"
      BY <2>1, <2>4 DEF QueuesInv, LastIsWanted, Working
    <3>2. LastOn(cmds', d, want[d]) =>
            \/ want[d] = "Remove"
            \/ \E i \in 1 .. Len(cmds') : cmds'[i].kind = "Add" /\ cmds'[i].dir = d
      BY DEF LastOn, Concerns
    <3> QED BY <2>1, <3>1, <3>2 DEF Accounted
  <2> QED BY <2>1, <2>2, <2>3, <2>4 DEF Change
<1>6. CASE AnswerList
  <2>1. /\ cmds # <<>> /\ cmds' = Tail(cmds) /\ Head(cmds).kind = "List"
        /\ want' = want /\ active' = active
    BY <1>6 DEF AnswerList, Ready
  <2>2. ASSUME NEW i \in 1 .. Len(cmds), cmds[i].kind = "Add", cmds[i].dir = d
        PROVE  Accounted(d)'
    <3>1. i - 1 \in 1 .. Len(cmds') /\ cmds'[i - 1] = cmds[i]
      BY <1>4, <2>1, <2>2
    <3> QED BY <2>2, <3>1 DEF Accounted
  <2> QED BY <2>1, <2>2 DEF Accounted
<1>7. CASE \/ SendControl \/ Persist \/ ApplyControl \/ OsEvent \/ Forward \/ RequestOther
           \/ UNCHANGED vars
  <2>1. UNCHANGED <<active, want, cmds>>
    BY <1>7 DEF SendControl, Persist, ApplyControl, OsEvent, Forward, RequestOther, vars
  <2> QED BY <2>1 DEF Accounted
<1>8. ~Crash /\ ~StartTracker /\ ~StartFails /\ ~Boot
  BY DEF Crash, StartTracker, StartFails, Boot
<1> QED BY <1>2, <1>3, <1>5, <1>6, <1>7, <1>8 DEF Next, Tracker

LEMMA WatchedInit == Init => WatchedIsAccounted
BY DEF Init, WatchedIsAccounted, Idle

LEMMA WatchedKeeps ==
  ASSUME TypeOK, TypeOK', QueuesInv, QueuesInv', WatchedIsAccounted, [Next]_vars
  PROVE  WatchedIsAccounted'
<1> USE DEF lifeVars, osVars
<1>1. CASE tracker' # "run"
  BY <1>1 DEF QueuesInv, NotRunning, WatchedIsAccounted, Idle
<1>2. CASE StartTracker
  <2>1. /\ ctl' = <<>> /\ raised' = <<>> /\ now' = Idle
    BY <1>2 DEF StartTracker, QueuesInv, NotRunning
  <2>2. os' \subseteq active'
    BY <1>2 DEF StartTracker, InitialWatches
  <2> QED BY <2>1, <2>2 DEF WatchedIsAccounted, Accounted, Idle
<1>3. CASE tracker = "run" /\ tracker' = "run"
  <2>1. /\ os \subseteq Dirs /\ raised \in Seq(Dirs) /\ ctl \in Seq(Change)
        /\ now \in InHand \cup {Idle}
    BY DEF TypeOK
  <2>2. \A d \in Dirs : Accounted(d) => Accounted(d)'
    BY <1>3, AccountedKeeps
  <2>3. \A i \in 1 .. Len(raised) : raised[i] \in Dirs
    BY <2>1
  <2>4. \A i \in 1 .. Len(ctl) : ctl[i].dir \in Dirs
    <3>1. \A i \in 1 .. Len(ctl) : ctl[i] \in Change
      BY <2>1
    <3> QED BY <3>1 DEF Change
  <2>5. now.step = "control" => now.dir \in Dirs
    BY <2>1 DEF InHand, Idle
  <2> DEFINE Due(d) ==
        \/ d \in os
        \/ \E i \in 1 .. Len(raised) : d = raised[i]
        \/ \E i \in 1 .. Len(ctl) : ctl[i].kind = "Add" /\ d = ctl[i].dir
        \/ now.step = "control" /\ now.kind = "Add" /\ d = now.dir
  <2>6. ASSUME NEW d, Due(d) PROVE d \in Dirs /\ Accounted(d)
    BY <2>1, <2>3, <2>4, <2>5, <2>6 DEF WatchedIsAccounted
  <2>7. ASSUME NEW d \in os'
        PROVE  d \in os \/ \E i \in 1 .. Len(ctl) : ctl[i].kind = "Add" /\ d = ctl[i].dir
    <3>1. CASE ApplyControl
      <4>1. 1 \in 1 .. Len(ctl) /\ Head(ctl) = ctl[1]
        BY <2>1, <3>1 DEF ApplyControl
      <4>2. d \in os \/ (Head(ctl).kind = "Add" /\ d = Head(ctl).dir)
        BY <2>7, <3>1 DEF ApplyControl, With
      <4> QED BY <4>1, <4>2
    <3>2. CASE ~ApplyControl
      BY <1>3, <2>7, <3>2 DEF Next, Tracker, Boot, Crash, RequestChange, RequestList,
         RequestOther, StartTracker, StartFails, UpdateActive, SendControl, Persist,
         AnswerList, OsEvent, Forward, vars
    <3> QED BY <3>1, <3>2
  <2>8. ASSUME NEW i \in 1 .. Len(raised')
        PROVE  raised'[i] \in os \/ \E j \in 1 .. Len(raised) : raised'[i] = raised[j]
    <3>1. CASE OsEvent
      <4>1. PICK d \in os : raised' = Append(raised, d)
        BY <3>1 DEF OsEvent
      <4> QED BY <2>1, <2>8, <4>1
    <3>2. CASE Forward
      <4>1. raised # <<>> /\ raised' = Tail(raised)
        BY <3>2 DEF Forward
      <4>2. i + 1 \in 1 .. Len(raised) /\ raised'[i] = raised[i + 1]
        BY <2>1, <2>8, <4>1
      <4> QED BY <4>2
    <3>3. CASE ~OsEvent /\ ~Forward
      <4>1. raised' = raised
        BY <1>3, <3>3 DEF Next, Tracker, Boot, Crash, RequestChange, RequestList,
           RequestOther, StartTracker, StartFails, UpdateActive, SendControl, Persist,
           AnswerList, ApplyControl, vars
      <4> QED BY <2>8, <4>1
    <3> QED BY <3>1, <3>2, <3>3
  <2>9. ASSUME NEW i \in 1 .. Len(ctl'), ctl'[i].kind = "Add", NEW d, d = ctl'[i].dir
        PROVE  \/ \E j \in 1 .. Len(ctl) : ctl[j].kind = "Add" /\ d = ctl[j].dir
               \/ now.step = "control" /\ now.kind = "Add" /\ d = now.dir
    <3>1. CASE SendControl
      <4> DEFINE cmd == [kind |-> now.kind, dir |-> now.dir]
      <4>1. now.step = "control" /\ (ctl' = ctl \/ ctl' = Append(ctl, cmd))
        BY <3>1 DEF SendControl
      <4>2. cmd.kind = now.kind /\ cmd.dir = now.dir
        OBVIOUS
      <4> HIDE DEF cmd
      <4>3. (i \in 1 .. Len(ctl) /\ ctl'[i] = ctl[i]) \/ ctl'[i] = cmd
        BY <2>1, <2>9, <4>1
      <4> QED BY <2>9, <4>1, <4>2, <4>3
    <3>2. CASE ApplyControl
      <4>1. ctl # <<>> /\ ctl' = Tail(ctl)
        BY <3>2 DEF ApplyControl
      <4>2. i + 1 \in 1 .. Len(ctl) /\ ctl'[i] = ctl[i + 1]
        BY <2>1, <2>9, <4>1
      <4> QED BY <2>9, <4>2
    <3>3. CASE ~SendControl /\ ~ApplyControl
      <4>1. ctl' = ctl
        BY <1>3, <3>3 DEF Next, Tracker, Boot, Crash, RequestChange, RequestList,
           RequestOther, StartTracker, StartFails, UpdateActive, Persist, AnswerList,
           OsEvent, Forward, vars
      <4> QED BY <2>9, <4>1
    <3> QED BY <3>1, <3>2, <3>3
  <2>10. ASSUME now'.step = "control", now'.kind = "Add", NEW d, d = now'.dir
         PROVE  d \in active' \/ (now.step = "control" /\ now.kind = "Add" /\ d = now.dir)
    <3>1. CASE UpdateActive
      <4>1. d = Head(cmds).dir /\ Head(cmds).kind = "Add" /\ active' = With(active, Head(cmds))
        BY <2>10, <3>1 DEF UpdateActive
      <4> QED BY <4>1 DEF With
    <3>2. CASE SendControl \/ Persist
      <4>1. now \in InHand \cup {Idle} /\ now'.step # "control"
        BY <2>1, <3>2 DEF SendControl, Persist, InHand, Idle
      <4> QED BY <2>10, <4>1
    <3>3. CASE ~UpdateActive /\ ~SendControl /\ ~Persist
      <4>1. now' = now
        BY <1>3, <3>3 DEF Next, Tracker, Boot, Crash, RequestChange, RequestList,
           RequestOther, StartTracker, StartFails, AnswerList, ApplyControl, OsEvent,
           Forward, vars
      <4> QED BY <2>10, <4>1
    <3> QED BY <3>1, <3>2, <3>3
  <2>11. ASSUME NEW d \in os' PROVE Accounted(d)'
    <3>1. Due(d)
      BY <2>7, <2>11
    <3> HIDE DEF Due
    <3> QED BY <2>2, <2>6, <3>1, Zenon
  <2>12. ASSUME NEW i \in 1 .. Len(raised'), NEW d, d = raised'[i] PROVE Accounted(d)'
    <3>1. Due(d)
      BY <2>8, <2>12
    <3> HIDE DEF Due
    <3> QED BY <2>2, <2>6, <3>1, Zenon
  <2>13. ASSUME NEW i \in 1 .. Len(ctl'), ctl'[i].kind = "Add", NEW d, d = ctl'[i].dir
         PROVE  Accounted(d)'
    <3>1. Due(d)
      BY <2>9, <2>13
    <3> HIDE DEF Due
    <3> QED BY <2>2, <2>6, <3>1, Zenon
  <2>14. ASSUME now'.step = "control", now'.kind = "Add", NEW d, d = now'.dir
         PROVE  Accounted(d)'
    <3>1. d \in active' \/ Due(d)
      BY <2>10, <2>14
    <3>2. d \in active' => Accounted(d)'
      BY DEF Accounted
    <3> HIDE DEF Due
    <3> QED BY <2>2, <2>6, <3>1, <3>2, Zenon
  <2> QED BY <2>11, <2>12, <2>13, <2>14 DEF WatchedIsAccounted, Accounted
<1>4. tracker' = "run" => tracker = "run" \/ StartTracker
  BY DEF Next, Tracker, Boot, Crash, RequestChange, RequestList, RequestOther, StartTracker,
     StartFails, UpdateActive, SendControl, Persist, AnswerList, ApplyControl, OsEvent,
     Forward, vars
<1> QED BY <1>1, <1>2, <1>3, <1>4

----------------------------------------------------------------------------
(* The invariant and what follows.                                          *)

LEMMA DirsStart == Init => DirsInv
BY WatchInit, QueuesInit, SetsInit, ListsInit, WatchedInit DEF DirsInv

LEMMA DirsKeep == DirsInv /\ [Next]_vars => DirsInv'
<1> SUFFICES ASSUME DirsInv, [Next]_vars PROVE DirsInv'
  OBVIOUS
<1>1. TypeOK /\ QueuesInv /\ SetsInv /\ ListsInv /\ WatchedIsAccounted
  BY DEF DirsInv
<1>2. TypeOK' /\ QueuesInv'
  BY <1>1, WatchTypes, QueuesKeep
<1>3. SetsInv' /\ ListsInv' /\ WatchedIsAccounted'
  BY <1>1, <1>2, SetsKeep, ListsKeep, WatchedKeeps
<1> QED BY <1>2, <1>3 DEF DirsInv

(* What is left of the queues, in any order the connections, the tracker    *)
(* and the control thread take, leads to what was acknowledged.             *)
THEOREM DirsInvariant == Spec => []DirsInv
<1>1. QED
  BY DirsStart, DirsKeep, PTL DEF Spec

(* Once the commands are worked off, the active set, the table and the OS   *)
(* watches agree with what was acknowledged.                                *)
THEOREM CommandsSettle == Spec => []SettledAgrees
<1>1. ASSUME DirsInv PROVE SettledAgrees
  <2> SUFFICES ASSUME tracker = "run", cmds = <<>>, now = Idle
               PROVE  /\ active = Wanted(ConfigDirs \cup base)
                      /\ watched = Wanted(base)
                      /\ ctl = <<>> /\ backend = "inotify" =>
                           os = Wanted(ConfigDirs) \cap exists
    BY DEF SettledAgrees
  <2>1. \A d : NoneOn(cmds, d) /\ ~Working(d, {"control", "persist"})
               /\ ~Working(d, {"control"})
    BY EmptyOn DEF Working, Idle
  <2>2. active \subseteq Dirs /\ watched \subseteq Dirs /\ os \subseteq Dirs
    BY <1>1 DEF DirsInv, TypeOK
  <2>3. \A I : Wanted(I) \subseteq Dirs
    BY DEF Wanted
  <2>4. active = Wanted(ConfigDirs \cup base)
    BY <1>1, <2>1, <2>2, <2>3 DEF DirsInv, SetsInv, ActiveFollows
  <2>5. watched = Wanted(base)
    BY <1>1, <2>1, <2>2, <2>3 DEF DirsInv, SetsInv, TableFollows
  <2>6. ASSUME ctl = <<>>, backend = "inotify" PROVE os = Wanted(ConfigDirs) \cap exists
    <3>1. \A d, k : ~LastOn(ctl, d, k)
      BY <2>6, EmptyOn, NoneOrLast
    <3> QED BY <1>1, <2>1, <2>2, <2>3, <2>6, <3>1 DEF DirsInv, SetsInv, WatchesFollow
  <2> QED BY <2>4, <2>5, <2>6
<1> QED BY <1>1, DirsInvariant, PTL

(* An answered list holds every directory whose add was acknowledged before *)
(* it was asked for and none whose remove was.                              *)
THEOREM ListsAgree == Spec => []ListSeesAcknowledged
<1>1. DirsInv => ListSeesAcknowledged
  BY DEF DirsInv, ListsInv
<1> QED BY <1>1, DirsInvariant, PTL

(* An event of the OS is filtered only if its directory was acknowledged    *)
(* removed or is about to be added again.                                   *)
THEOREM FilterIsRight == Spec => FiltersOnlyRemoved
<1>1. ASSUME DirsInv, Forward, ~Passes(Head(raised))
      PROVE  LET d == Head(raised) IN
             \/ want[d] = "Remove"
             \/ \E i \in 1 .. Len(cmds) : cmds[i].kind = "Add" /\ cmds[i].dir = d
  <2>1. 1 \in 1 .. Len(raised) /\ Head(raised) = raised[1]
    BY <1>1 DEF Forward, DirsInv, TypeOK
  <2>2. Accounted(raised[1])
    BY <1>1, <2>1 DEF DirsInv, WatchedIsAccounted
  <2> QED BY <1>1, <2>1, <2>2 DEF Accounted, Passes
<1>2. DirsInv /\ [Next]_vars =>
        [Forward /\ ~Passes(Head(raised)) =>
           LET d == Head(raised) IN
           \/ want[d] = "Remove"
           \/ \E i \in 1 .. Len(cmds) : cmds[i].kind = "Add" /\ cmds[i].dir = d]_vars
  BY <1>1
<1> QED BY <1>2, DirsInvariant, PTL DEF Spec, FiltersOnlyRemoved
=============================================================================
