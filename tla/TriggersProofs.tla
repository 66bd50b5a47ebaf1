---------------------------- MODULE TriggersProofs ----------------------------
(***************************************************************************)
(* The two ends of the beginning of a cycle: the watchers that trigger it  *)
(* on the desktop and what the UI shows of them, for any number of tasks,  *)
(* folders and commands; and the lock it needs on the server, for any      *)
(* devices and time to live.                                               *)
(***************************************************************************)
EXTENDS Watchers, SessionLock, TLAPS

-----------------------------------------------------------------------------
(***************************************************************************)
(* The lock.  What the session of a device has aged is what the device has *)
(* not fed it, and a device that has one is not under the floor.           *)
(***************************************************************************)

AgedAsUnfed ==
    \A d \in DOMAIN sessions : sessions[d] = unfed[d] /\ d \notin behind

LockInvariant == LockTypeOK /\ AgedAsUnfed

Ages == 0..PLAN_TTL + 1

\* Counting up to the cap.
LEMMA CappedIs ==
    ASSUME NEW n \in Ages
    PROVE  Capped(n + 1, PLAN_TTL + 1) \in Ages
  BY LockAssumption DEF Ages, Capped

\* Some of the sessions there are.
LEMMA KeepIs ==
    ASSUME LockInvariant, NEW ds \in SUBSET DOMAIN sessions, sessions' = Keep(ds),
           UNCHANGED <<unfed, behind>>
    PROVE  /\ DOMAIN sessions' \subseteq Devices
           /\ \A d \in DOMAIN sessions' : sessions'[d] \in Ages
           /\ \A d, e \in DOMAIN sessions' : d = e
           /\ AgedAsUnfed'
  BY DEF LockInvariant, LockTypeOK, AgedAsUnfed, Keep, Ages

\* A plan that is admitted: nobody else's session is good.
LEMMA PlanKeepsLock ==
    ASSUME LockInvariant, NEW d \in Devices, Plan(d)
    PROVE  LockInvariant'
<1>1. /\ sessions' = [e \in Fresh \cup {d} |-> IF e = d THEN 0 ELSE sessions[e]]
      /\ phase' = [phase EXCEPT ![d] = "running"]
      /\ stored' = stored \ {d}
      /\ quiet' = [quiet EXCEPT ![d] = 0] /\ unfed' = [unfed EXCEPT ![d] = 0]
      /\ UNCHANGED behind
      /\ Fresh \ {d} = {} /\ d \notin behind
  BY DEF Plan, Heard, Fed, LockedByOther
<1>2. PICK n \in 0..MaxUploads : todo' = [todo EXCEPT ![d] = n]
  BY DEF Plan
<1>3. 0 \in Ages
  BY LockAssumption DEF Ages
<1>4. DOMAIN sessions' = {d} /\ sessions'[d] = 0
  BY <1>1
<1>5. unfed'[d] = 0
  BY <1>1 DEF LockInvariant, LockTypeOK
<1> QED BY <1>1, <1>2, <1>3, <1>4, <1>5 DEF LockInvariant, LockTypeOK, AgedAsUnfed, Ages

\* The other requests, device by device.
LEMMA DeviceKeepsLock ==
    ASSUME LockInvariant, NEW d \in Devices, DeviceStep(d)
    PROVE  LockInvariant'
<1> USE DEF LockInvariant, LockTypeOK
<1>1. CASE Plan(d)
  BY <1>1, PlanKeepsLock
<1>2. CASE PlanBusy(d) \/ PlanGone(d) \/ Commit(d)
  <2>1. \E ds \in SUBSET DOMAIN sessions : sessions' = Keep(ds)
    BY <1>2 DEF PlanBusy, PlanGone, Commit, Fresh
  <2>2. UNCHANGED <<behind, todo, stored, unfed>>
    BY <1>2 DEF PlanBusy, PlanGone, Commit
  <2>3. phase' \in [Devices -> {"idle", "asking", "running"}]
    BY <1>2 DEF PlanBusy, PlanGone, Commit
  <2>4. quiet' \in [Devices -> Ages]
    <3>1. 0 \in Ages
      BY LockAssumption DEF Ages
    <3> QED BY <1>2, <3>1 DEF PlanBusy, PlanGone, Commit, Heard, Ages
  <2> QED BY <2>1, <2>2, <2>3, <2>4, KeepIs DEF Ages
<1>3. CASE Upload(d)
  <2>1. /\ sessions' = [sessions EXCEPT ![d] = 0] /\ d \in DOMAIN sessions
        /\ todo' = [todo EXCEPT ![d] = @ - 1] /\ todo[d] > 0
        /\ stored' = stored \cup {d}
        /\ quiet' = [quiet EXCEPT ![d] = 0] /\ unfed' = [unfed EXCEPT ![d] = 0]
        /\ UNCHANGED <<behind, phase>>
    BY <1>3 DEF Upload, Touched, Heard, Fed
  <2>2. todo' \in [Devices -> 0..MaxUploads]
    BY <2>1, LockAssumption
  <2>3. 0 \in Ages
    BY LockAssumption DEF Ages
  <2>4. AgedAsUnfed'
    BY <2>1 DEF AgedAsUnfed
  <2> QED BY <2>1, <2>2, <2>3, <2>4 DEF Ages
<1>4. CASE Ask(d) \/ LostSession(d) \/ Abort(d)
  <2>1. UNCHANGED <<sessions, behind, todo, stored, quiet, unfed>>
    BY <1>4 DEF Ask, LostSession, Abort
  <2>2. phase' \in [Devices -> {"idle", "asking", "running"}]
    BY <1>4 DEF Ask, LostSession, Abort
  <2> QED BY <2>1, <2>2 DEF AgedAsUnfed
<1>5. CASE Resend(d)
  <2>1. 0 \in Ages
    BY LockAssumption DEF Ages
  <2> QED BY <1>5, <2>1 DEF Resend, Heard, Ages, AgedAsUnfed
<1>6. CASE FallBehind(d)
  BY <1>6 DEF FallBehind, AgedAsUnfed
<1> QED BY <1>1, <1>2, <1>3, <1>4, <1>5, <1>6 DEF DeviceStep

\* Time: session and ghosts age alike.
LEMMA TickKeepsLock ==
    ASSUME LockInvariant, LockTick
    PROVE  LockInvariant'
<1>1. /\ sessions' = [d \in DOMAIN sessions |-> Capped(sessions[d] + 1, PLAN_TTL + 1)]
      /\ quiet' = Older(quiet) /\ unfed' = Older(unfed)
      /\ UNCHANGED <<behind, phase, todo, stored>>
  BY DEF LockTick
<1>2. /\ \A d \in DOMAIN sessions : sessions[d] \in Ages /\ d \in Devices
      /\ quiet \in [Devices -> Ages] /\ unfed \in [Devices -> Ages] /\ 0 \in Ages
  BY LockAssumption DEF LockInvariant, LockTypeOK, Ages
<1>3. \A d \in DOMAIN sessions : sessions'[d] \in Ages
  BY <1>1, <1>2, CappedIs
<1>4. Older(quiet) \in [Devices -> Ages] /\ Older(unfed) \in [Devices -> Ages]
  BY <1>2, CappedIs DEF Older
<1>5. AgedAsUnfed'
  BY <1>1, <1>2 DEF AgedAsUnfed, Older, LockInvariant
<1> QED BY <1>1, <1>3, <1>4, <1>5 DEF LockInvariant, LockTypeOK, Ages

\* The invariant always holds.
LEMMA LockInvariantHolds ==
    /\ LockSpec => []LockInvariant
    /\ LockSpec => [][LockNext]_lockVars
<1>1. LockInit => LockInvariant
  <2>1. 0 \in 0..MaxUploads /\ 0 \in Ages
    BY LockAssumption DEF Ages
  <2> QED BY <2>1 DEF LockInit, LockInvariant, LockTypeOK, AgedAsUnfed, Ages
<1>2. LockInvariant /\ [LockNext]_lockVars => LockInvariant'
  <2>1. ASSUME LockInvariant, UNCHANGED lockVars PROVE LockInvariant'
    BY <2>1 DEF lockVars, LockInvariant, LockTypeOK, AgedAsUnfed
  <2> QED BY <2>1, DeviceKeepsLock, TickKeepsLock DEF LockNext
<1> QED BY <1>1, <1>2, PTL DEF LockSpec

\* The lock keeps its types, and at most one device holds it, whatever the others ask
\* for and however long anybody stays away.
THEOREM LockIsHeldOnce == LockSpec => []LockTypeOK
<1>1. LockInvariant => LockTypeOK
  BY DEF LockInvariant
<1> QED BY LockInvariantHolds, <1>1, PTL

\* Another device's request takes a session away only when its owner has planned
\* nothing and stored nothing for longer than the time to live (api.rs plan).
THEOREM UnfedSessionsExpire == LockSpec => OnlyUnfedSessionsExpire
<1> DEFINE Allowed == \A d \in Devices : TakenAway(d) => unfed[d] > PLAN_TTL
<1>1. ASSUME LockInvariant, LockNext PROVE Allowed
  <2>1. ASSUME NEW d \in DOMAIN sessions, d \notin Fresh PROVE unfed[d] > PLAN_TTL
    BY <1>1, <2>1, LockAssumption DEF LockInvariant, LockTypeOK, AgedAsUnfed, Fresh
  <2>2. ASSUME NEW e \in Devices, DeviceStep(e), NEW d \in Devices, TakenAway(d)
        PROVE  d \notin Fresh
    <3>1. d \in DOMAIN sessions /\ d \notin DOMAIN sessions' /\ phase'[d] = phase[d]
      BY <2>2 DEF TakenAway
    <3>2. CASE PlanBusy(e) \/ Plan(e)
      BY <3>1, <3>2 DEF PlanBusy, Plan, Keep
    <3>3. CASE PlanGone(e)
      BY <1>1, <3>1, <3>3 DEF PlanGone, Keep, LockInvariant, AgedAsUnfed
    <3>4. CASE Commit(e)
      BY <1>1, <3>1, <3>4 DEF Commit, Keep, LockInvariant, LockTypeOK
    <3>5. CASE Upload(e)
      BY <3>1, <3>5 DEF Upload, Touched
    <3> QED BY <2>2, <3>1, <3>2, <3>3, <3>4, <3>5
            DEF DeviceStep, Ask, Resend, LostSession, Abort, FallBehind
  <2>3. ASSUME LockTick PROVE \A d \in Devices : ~ TakenAway(d)
    BY <2>3 DEF LockTick, TakenAway
  <2> QED BY <1>1, <2>1, <2>2, <2>3 DEF LockNext, TakenAway
<1>2. LockInvariant /\ [LockNext]_lockVars => [Allowed]_lockVars
  BY <1>1
<1> QED BY LockInvariantHolds, <1>2, PTL DEF OnlyUnfedSessionsExpire


-----------------------------------------------------------------------------
(***************************************************************************)
(* The watchers.  A command that changes what the UI shows owes it an      *)
(* event, or has not finished; a cycle that changed the outcome has still  *)
(* to tell.                                                                *)
(***************************************************************************)

WatchersInvariant ==
    /\ WatchersTypeOK
    /\ entry \in [Tables -> Loops \cup {None}]
    /\ at \in [Runners -> Places \cup Folders]
    /\ queue \in [FileLoops -> 0..QueueCap]
    /\ ShownIsCurrent

\* The two tables and their tasks.
LEMMA TablesApart ==
    /\ Tables = {"files", "process"} /\ Loops \subseteq Runners
    /\ LoopsOf("files") = FileLoops /\ LoopsOf("process") = ProcLoops
    /\ \A l \in Loops : TableOf(l) \in Tables /\ l \in LoopsOf(TableOf(l))
    /\ \A t \in Tables : \A l \in LoopsOf(t) : TableOf(l) = t /\ l \in Loops
  BY WatchersAssumption DEF Tables, Loops, Runners, TableOf, LoopsOf

\* A step that leaves tables and handles alone and moves at most one task, which stays
\* alive if it was.
LEMMA TaskStays ==
    ASSUME WatchersInvariant, UNCHANGED <<enabled, dest, paired, source, entry, held>>,
           outcome' \in {"never", "ok", "error"},
           NEW l \in Runners, NEW place \in Places \cup Folders,
           at' = [at EXCEPT ![l] = place],
           l \in held => place \notin {"none", "checked"},
           queue' \in [FileLoops -> 0..QueueCap],
           wasRunning' \subseteq ProcLoops, lateExit' \subseteq ProcLoops,
           owed' = owed, disabling' = disabling,
           ShownIsCurrent'
    PROVE  WatchersInvariant'
<1>1. at' \in [Runners -> Places \cup Folders]
  BY DEF WatchersInvariant
<1>2. \A m \in Runners : at'[m] = IF m = l THEN place ELSE at[m]
  BY DEF WatchersInvariant
<1>3. \A m \in held : Live(m)' /\ m \in Loops
  BY <1>2, TablesApart DEF WatchersInvariant, WatchersTypeOK, Live
<1> QED BY <1>1, <1>3 DEF WatchersInvariant, WatchersTypeOK

\* What is shown stays current when neither the view nor what is pending changes.
LEMMA ShownStays ==
    ASSUME ShownIsCurrent, View' = View, shown' = shown, owed' = owed, disabling' = disabling,
           NEW l \in Runners, NEW place, at' = [at EXCEPT ![l] = place], at[l] # "telling",
           at \in [Runners -> Places \cup Folders]
    PROVE  ShownIsCurrent'
<1>1. \A m \in Runners : at[m] = "telling" => at'[m] = "telling"
  OBVIOUS
<1> QED BY <1>1 DEF ShownIsCurrent

\* A command.
LEMMA CommandKeeps ==
    ASSUME WatchersInvariant,
           \/ \E f \in Folders \cup {Unset}, d \in BOOLEAN : SetPaths(f, d)
           \/ Enable \/ Disable \/ Pair \/ Emit
    PROVE  WatchersInvariant'
<1> USE DEF WatchersInvariant, WatchersTypeOK
<1>1. UNCHANGED tasks
  BY DEF SetPaths, Enable, Disable, Pair, Emit
<1>2. UNCHANGED <<entry, at, queue, held, wasRunning, lateExit>>
  BY <1>1 DEF tasks
<1>3. CASE \E f \in Folders \cup {Unset}, d \in BOOLEAN : SetPaths(f, d)
  <2>1. owed' # 0 /\ owed' \in Nat
    BY <1>3 DEF SetPaths, Owe
  <2> QED BY <1>2, <1>3, <2>1 DEF SetPaths, ShownIsCurrent, Live
<1>4. CASE Enable
  <2>1. owed' # 0 /\ owed' \in Nat
    BY <1>4 DEF Enable, Owe
  <2> QED BY <1>2, <1>4, <2>1 DEF Enable, ShownIsCurrent, Live
<1>5. CASE Disable
  BY <1>2, <1>5 DEF Disable, ShownIsCurrent, Live, Tables
<1>6. CASE Pair
  BY <1>2, <1>6 DEF Pair, ShownIsCurrent, Live, View
<1>7. CASE Emit
  <2>1. owed' \in Nat /\ shown' = View /\ UNCHANGED <<enabled, source, dest, paired, outcome, disabling>>
    BY <1>7 DEF Emit, settings
  <2> QED BY <1>2, <2>1 DEF ShownIsCurrent, Live, View
<1> QED BY <1>3, <1>4, <1>5, <1>6, <1>7

\* A handle is dropped, and the table has nothing of that kind.
LEMMA UnlistKeeps ==
    ASSUME WatchersInvariant, NEW t \in Tables, Unlist(t),
           UNCHANGED <<enabled, source, dest, paired, outcome>>,
           disabling' \in Tables \cup {"no"}, owed' \in Nat, owed' # 0 \/ disabling' # "no"
    PROVE  WatchersInvariant'
<1>1. /\ entry' = [entry EXCEPT ![t] = None] /\ held' = held \ {entry[t]}
      /\ UNCHANGED <<at, folder, queue, wasRunning, lateExit>>
  BY DEF Unlist
<1>2. entry' \in [Tables -> Loops \cup {None}]
  BY <1>1 DEF WatchersInvariant
<1>3. ASSUME NEW u \in Tables, entry'[u] # None
      PROVE  entry'[u] \in LoopsOf(u) \cap held'
  <2>1. u # t /\ entry'[u] = entry[u] /\ entry[u] \in LoopsOf(u) \cap held
    BY <1>1, <1>3 DEF WatchersInvariant, WatchersTypeOK
  <2>2. entry[t] # entry[u]
    BY <1>3, <2>1, TablesApart DEF WatchersInvariant, WatchersTypeOK
  <2> QED BY <1>1, <2>1, <2>2
<1>4. ShownIsCurrent'
  BY DEF ShownIsCurrent
<1> QED BY <1>1, <1>2, <1>3, <1>4 DEF WatchersInvariant, WatchersTypeOK, Live

\* The start of a watcher.
LEMMA StartKeeps ==
    ASSUME WatchersInvariant, NEW l \in Loops, Start(l)
    PROVE  WatchersInvariant'
<1>1. l \in Runners /\ at \in [Runners -> Places \cup Folders] /\ at[l] \in Places \cup Folders
      /\ (l \in held => at[l] \notin {"none", "checked"})
      /\ {"none", "checked", "idle", "telling"} \subseteq Places
  BY TablesApart DEF WatchersInvariant, WatchersTypeOK, Live, Places
<1>2. CASE CheckStart(l) \/ SpawnFails(l)
  <2>1. PICK place \in {"none", "checked"} : at' = [at EXCEPT ![l] = place]
    BY <1>2 DEF CheckStart, SpawnFails
  <2>2. at[l] \in {"none", "checked"}
    BY <1>2 DEF CheckStart, SpawnFails
  <2>3. UNCHANGED <<enabled, source, dest, paired, outcome, entry, queue, held, wasRunning,
                    lateExit, owed, disabling, shown>>
    BY <1>2 DEF CheckStart, SpawnFails, settings
  <2>4. ShownIsCurrent'
    BY <1>1, <2>1, <2>2, <2>3, ShownStays DEF WatchersInvariant, View
  <2> QED BY <1>1, <2>1, <2>2, <2>3, <2>4, TaskStays DEF WatchersInvariant, WatchersTypeOK
<1>3. CASE Spawn(l)
  <2>1. /\ at' = [at EXCEPT ![l] = "idle"] /\ held' = held \cup {l} /\ at[l] = "checked"
        /\ UNCHANGED <<enabled, source, dest, paired, outcome, entry, queue, wasRunning,
                       lateExit, owed, disabling, shown>>
    BY <1>3 DEF Spawn, settings
  <2>2. ShownIsCurrent'
    BY <1>1, <2>1, ShownStays DEF WatchersInvariant, View
  <2>3. at' \in [Runners -> Places \cup Folders]
        /\ \A m \in Runners : at'[m] = IF m = l THEN "idle" ELSE at[m]
    BY <1>1, <2>1
  <2>4. \A m \in held' : Live(m)' /\ m \in Loops
    BY <2>1, <2>3, TablesApart DEF WatchersInvariant, WatchersTypeOK, Live
  <2> QED BY <2>1, <2>2, <2>3, <2>4 DEF WatchersInvariant, WatchersTypeOK
<1>4. CASE Insert(l)
  <2> DEFINE t == TableOf(l)
  <2>1. /\ l \in held /\ entry[t] # l
        /\ held' = held \ {entry[t]} /\ entry' = [entry EXCEPT ![t] = l]
        /\ owed' = owed + 1
        /\ UNCHANGED <<enabled, source, dest, paired, outcome, at, queue, wasRunning,
                       lateExit, disabling, shown>>
    BY <1>4 DEF Insert, Unlisted, Owe, settings
  <2>2. t \in Tables /\ l \in LoopsOf(t)
    BY TablesApart
  <2>3. entry' \in [Tables -> Loops \cup {None}]
    BY <2>1, <2>2 DEF WatchersInvariant
  <2>4. ASSUME NEW u \in Tables, entry'[u] # None
        PROVE  entry'[u] \in LoopsOf(u) \cap held'
    <3>1. CASE u = t
      BY <2>1, <2>2, <3>1 DEF WatchersInvariant
    <3>2. CASE u # t
      <4>1. entry'[u] = entry[u] /\ entry[u] \in LoopsOf(u) \cap held
        BY <2>1, <2>4, <3>2 DEF WatchersInvariant, WatchersTypeOK
      <4>2. entry[t] # entry[u]
        BY <2>2, <2>4, <3>2, <4>1, TablesApart DEF WatchersInvariant, WatchersTypeOK
      <4> QED BY <2>1, <4>1, <4>2
    <3> QED BY <3>1, <3>2
  <2>5. owed' \in Nat /\ owed' # 0
    BY <2>1 DEF WatchersInvariant, WatchersTypeOK
  <2>6. ShownIsCurrent'
    BY <2>5 DEF ShownIsCurrent
  <2> QED BY <2>1, <2>3, <2>4, <2>5, <2>6 DEF WatchersInvariant, WatchersTypeOK, Live
<1> QED BY <1>2, <1>3, <1>4 DEF Start

\* What a watcher does between cycles.
LEMMA LoopKeeps ==
    ASSUME WatchersInvariant, NEW l \in Loops, Loop(l)
    PROVE  WatchersInvariant'
<1>1. l \in Runners /\ at \in [Runners -> Places \cup Folders]
      /\ {"none", "idle", "settling", "asked"} \subseteq Places
      /\ wasRunning \subseteq ProcLoops /\ lateExit \subseteq ProcLoops
      /\ queue \in [FileLoops -> 0..QueueCap] /\ outcome \in {"never", "ok", "error"}
  BY TablesApart DEF WatchersInvariant, WatchersTypeOK, Places
<1>2. UNCHANGED <<enabled, source, dest, paired, outcome, entry, held, owed, disabling, shown>>
  BY DEF Loop, TakeEvent, Absorb, Settled, Poll, EndLoop, settings
<1>3. PICK place \in {"none", "idle", "settling", "asked"} :
          at' = [at EXCEPT ![l] = place] /\ (place = "none" => l \notin held)
  BY DEF Loop, TakeEvent, Absorb, Settled, Poll, EndLoop, Go
<1>4. at[l] \in {"idle", "settling"}
  BY DEF Loop, TakeEvent, Absorb, Settled, Poll, EndLoop, Go
<1>5. queue' \in [FileLoops -> 0..QueueCap]
  <2>1. CASE TakeEvent(l) \/ Absorb(l)
    <3>1. queue' = [queue EXCEPT ![l] = @ - 1] /\ l \in FileLoops /\ queue[l] > 0
      BY <2>1 DEF TakeEvent, Absorb
    <3> QED BY <1>1, <3>1, WatchersAssumption
  <2>2. CASE Settled(l) \/ Poll(l) \/ EndLoop(l)
    <3>1. queue' = queue \/ queue' = [queue EXCEPT ![l] = 0]
      BY <2>2 DEF Settled, Poll, EndLoop
    <3> QED BY <1>1, <3>1, WatchersAssumption
  <2> QED BY <2>1, <2>2 DEF Loop
<1>6. wasRunning' \subseteq ProcLoops /\ lateExit' \subseteq ProcLoops
  <2>1. CASE Poll(l)
    BY <1>1, <2>1 DEF Poll
  <2>2. CASE ~ Poll(l)
    BY <1>1, <2>2 DEF Loop, TakeEvent, Absorb, Settled, EndLoop
  <2> QED BY <2>1, <2>2
<1>7. ShownIsCurrent'
  BY <1>1, <1>2, <1>3, <1>4, ShownStays DEF WatchersInvariant, View
<1> QED BY <1>1, <1>2, <1>3, <1>5, <1>6, <1>7, TaskStays

\* A cycle, and its button.
LEMMA CycleKeeps ==
    ASSUME WatchersInvariant, NEW l \in Runners, Cycle(l) \/ (l \in Buttons /\ SyncNow(l))
    PROVE  WatchersInvariant'
<1>1. at \in [Runners -> Places \cup Folders]
      /\ {"none", "idle", "asked", "working", "telling"} \subseteq Places
      /\ wasRunning \subseteq ProcLoops /\ lateExit \subseteq ProcLoops
      /\ queue \in [FileLoops -> 0..QueueCap] /\ outcome \in {"never", "ok", "error"}
      /\ source \in Folders \cup {Unset}
  BY DEF WatchersInvariant, WatchersTypeOK, Places
<1>2. UNCHANGED <<enabled, source, dest, paired, entry, held, owed, disabling, queue,
                  wasRunning, lateExit>>
  BY DEF Cycle, Admit, Scan, Record, Tell, SyncNow, settings
<1>3. CASE Record(l, "ok") \/ Record(l, "error")
  <2>1. at' = [at EXCEPT ![l] = "telling"] /\ outcome' \in {"never", "ok", "error"}
    BY <1>3 DEF Record
  <2>2. at'[l] = "telling"
    BY <1>1, <2>1
  <2>3. ShownIsCurrent'
    BY <2>2 DEF ShownIsCurrent
  <2> QED BY <1>1, <1>2, <2>1, <2>3, TaskStays
<1>4. CASE Tell(l)
  <2>1. at' = [at EXCEPT ![l] = After(l)] /\ shown' = View /\ UNCHANGED outcome
    BY <1>4 DEF Tell, Go
  <2>2. After(l) \in {"none", "idle"} /\ (l \in held => After(l) = "idle")
    BY DEF After, WatchersInvariant, WatchersTypeOK
  <2>3. ShownIsCurrent'
    BY <1>2, <2>1 DEF ShownIsCurrent, View
  <2> QED BY <1>1, <1>2, <2>1, <2>2, <2>3, TaskStays
<1>5. CASE Admit(l) \/ Scan(l) \/ (l \in Buttons /\ SyncNow(l))
  <2>1. UNCHANGED <<outcome, shown>>
    BY <1>5 DEF Admit, Scan, SyncNow
  <2>2. PICK place \in Places \cup Folders :
            at' = [at EXCEPT ![l] = place] /\ place \notin {"none", "checked"}
    <3>1. CASE Admit(l)
      <4>1. source \in Folders
        BY <1>1, <3>1 DEF Admit, MayCycle, ValidConfig
      <4> QED BY <3>1, <4>1, WatchersAssumption DEF Admit, Go, Places
    <3>2. CASE Scan(l)
      <4>1. at' = [at EXCEPT ![l] = "working"] /\ "working" \notin {"none", "checked"}
        BY <3>2 DEF Scan, Go
      <4> QED BY <1>1, <4>1
    <3>3. CASE SyncNow(l)
      BY <1>1, <3>3 DEF SyncNow, Go
    <3> QED BY <1>5, <3>1, <3>2, <3>3
  <2>3. at[l] # "telling"
    BY <1>5, WatchersAssumption DEF Admit, Scan, SyncNow, Go, Places
  <2>4. ShownIsCurrent'
    BY <1>1, <1>2, <2>1, <2>2, <2>3, ShownStays DEF WatchersInvariant, View
  <2> QED BY <1>1, <1>2, <2>1, <2>2, <2>4, TaskStays
<1> QED BY <1>3, <1>4, <1>5 DEF Cycle

\* Every step keeps the invariant.
LEMMA WatchersStep ==
    ASSUME WatchersInvariant, Next
    PROVE  WatchersInvariant'
<1>1. CASE \/ \E f \in Folders \cup {Unset}, d \in BOOLEAN : SetPaths(f, d)
           \/ Enable \/ Disable \/ Pair \/ Emit
  BY <1>1, CommandKeeps
<1>2. CASE StopAfterDisable
  <2>1. disabling \in Tables /\ Unlist(disabling) /\ owed \in Nat
        /\ UNCHANGED <<enabled, source, dest, paired, outcome>>
    BY <1>2 DEF StopAfterDisable, settings, WatchersInvariant, WatchersTypeOK
  <2>2. disabling' \in Tables \cup {"no"} /\ owed' \in Nat /\ (owed' # 0 \/ disabling' # "no")
    BY <1>2, <2>1 DEF StopAfterDisable, Owe, Tables
  <2> QED BY <2>1, <2>2, UnlistKeeps
<1>3. ASSUME NEW t \in Tables, StopWatch(t) PROVE WatchersInvariant'
  <2>1. /\ Unlist(t) /\ owed' = owed + 1 /\ owed \in Nat /\ disabling \in Tables \cup {"no"}
        /\ UNCHANGED <<enabled, source, dest, paired, outcome, disabling>>
    BY <1>3 DEF StopWatch, Owe, settings, WatchersInvariant, WatchersTypeOK
  <2>2. owed' \in Nat /\ owed' # 0
    BY <2>1
  <2> QED BY <2>1, <2>2, UnlistKeeps
<1>4. CASE Restart
  <2>1. /\ entry' = [t \in Tables |-> None] /\ at' = [l \in Runners |-> "none"]
        /\ queue' = [l \in FileLoops |-> 0]
        /\ held' = {} /\ wasRunning' = {} /\ lateExit' = {}
        /\ disabling' = "no" /\ owed' = 0
        /\ shown' = [View EXCEPT !.watching = FALSE, !.procWatching = FALSE]
        /\ UNCHANGED <<enabled, source, dest, paired, outcome>>
    BY <1>4 DEF Restart, settings
  <2>2. shown' = View'
    BY <2>1 DEF View, Tables
  <2>3. 0 \in 0..QueueCap /\ "none" \in Places
    BY WatchersAssumption DEF Places
  <2> QED BY <2>1, <2>2, <2>3 DEF WatchersInvariant, WatchersTypeOK, ShownIsCurrent
<1>5. ASSUME NEW l \in Loops, Start(l) \/ Loop(l) PROVE WatchersInvariant'
  BY <1>5, StartKeeps, LoopKeeps
<1>6. ASSUME UNCHANGED <<settings, outcome, entry, at, held, disabling, owed, shown>>,
             queue' \in [FileLoops -> 0..QueueCap],
             wasRunning' \subseteq ProcLoops, lateExit' \subseteq ProcLoops
      PROVE  WatchersInvariant'
  BY <1>6 DEF settings, WatchersInvariant, WatchersTypeOK, ShownIsCurrent, View, Live
<1>7. ASSUME NEW f \in Folders, WriteSave(f) PROVE WatchersInvariant'
  <2>1. queue' \in [FileLoops -> 0..QueueCap]
    BY <1>7, WatchersAssumption DEF WriteSave, Notified, WatchersInvariant
  <2> QED BY <1>6, <1>7, <2>1 DEF WriteSave, WatchersInvariant, WatchersTypeOK
<1>8. CASE GameStartsOrEnds
  BY <1>6, <1>8 DEF GameStartsOrEnds, WatchersInvariant, WatchersTypeOK
<1>9. ASSUME NEW b \in Buttons, SyncNow(b) PROVE WatchersInvariant'
  BY <1>9, CycleKeeps DEF Runners
<1>10. ASSUME NEW l \in Runners, Cycle(l) PROVE WatchersInvariant'
  BY <1>10, CycleKeeps
<1> QED BY <1>1, <1>2, <1>3, <1>4, <1>5, <1>7, <1>8, <1>9, <1>10 DEF Next

\* The invariant always holds.
LEMMA WatchersInvariantHolds == Spec => []WatchersInvariant
<1>1. Init => WatchersInvariant
  <2>1. 0 \in 0..QueueCap /\ "none" \in Places
    BY WatchersAssumption DEF Places
  <2> SUFFICES ASSUME Init PROVE WatchersInvariant
    OBVIOUS
  <2>2. WatchersTypeOK
    BY <2>1 DEF Init, WatchersTypeOK, Tables
  <2>3. /\ entry \in [Tables -> Loops \cup {None}]
        /\ at \in [Runners -> Places \cup Folders]
        /\ queue \in [FileLoops -> 0..QueueCap]
    BY <2>1 DEF Init
  <2> QED BY <2>2, <2>3 DEF Init, WatchersInvariant, ShownIsCurrent
<1>2. WatchersInvariant /\ [Next]_vars => WatchersInvariant'
  <2>1. ASSUME WatchersInvariant, UNCHANGED vars PROVE WatchersInvariant'
    BY <2>1 DEF vars, settings, tasks, world, WatchersInvariant, WatchersTypeOK, ShownIsCurrent,
                View, Live
  <2> QED BY <2>1, WatchersStep
<1> QED BY <1>1, <1>2, PTL DEF Spec

\* A task in a table is alive and has its handle there, and no channel holds more
\* events than it has room for, for any tasks and capacity (lib.rs start_watch,
\* stop_watch_inner, make_watcher).
THEOREM WatchersAreTyped == Spec => []WatchersTypeOK
<1>1. WatchersInvariant => WatchersTypeOK
  BY DEF WatchersInvariant
<1> QED BY WatchersInvariantHolds, <1>1, PTL

\* The last event the UI received shows the emulator as it is, whatever order the
\* commands and the cycles finish in (lib.rs emit_changed, record_result).
THEOREM WhatIsShownIsCurrent == Spec => []ShownIsCurrent
<1>1. WatchersInvariant => ShownIsCurrent
  BY DEF WatchersInvariant
<1> QED BY WatchersInvariantHolds, <1>1, PTL

=============================================================================
