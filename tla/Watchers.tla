------------------------------ MODULE Watchers ------------------------------
(* The local triggers of the desktop agent for one emulator: the filesystem  *)
(* watcher, the process watcher and the button.  The commands of the UI run  *)
(* concurrently and share AppData behind one lock, which each holds only for *)
(* the statements written as one action here; a watcher is a task of its own *)
(* and a handle in the table, and it stops when its handle is dropped.       *)
EXTENDS Naturals, FiniteSets
CONSTANTS Folders,       \* save folders the user may point the emulator at
          FileLoops,     \* tasks of start_watch that may exist at once
          ProcLoops,     \* tasks of start_proc_watch that may exist at once
          Buttons,       \* sync_now calls that may run at once
          QueueCap,      \* capacity of the event channel (16 in the code)
          MaxCommands,   \* bound: commands that change the settings
          MaxWrites,     \* bound: writes to the folders
          MaxGames       \* bound: starts and ends of the emulator's process

Loops == FileLoops \cup ProcLoops
Runners == Loops \cup Buttons
Unset == "unset"
None == "none"
Tables == {"files", "process"}
TableOf(l) == IF l \in FileLoops THEN "files" ELSE "process"
LoopsOf(t) == IF t = "files" THEN FileLoops ELSE ProcLoops
\* Where a task is, apart from the folder its cycle is about.
Places == {"none", "checked", "idle", "settling", "asked", "working", "telling"}

ASSUME WatchersAssumption ==
    /\ QueueCap \in Nat \ {0}
    /\ FileLoops \cap ProcLoops = {} /\ Loops \cap Buttons = {}
    /\ None \notin Loops /\ Folders \cap (Places \cup {Unset}) = {}

VARIABLES
    enabled, source, dest, paired,  \* the emulator's row and the server setting
    outcome,     \* last_sync / last_error: "never", "ok" or "error"
    entry,       \* watchers and proc_watchers: the listed task of each kind
    at,          \* where each task is
    folder,      \* the folder a task watches, or the one its cycle reads
    queue,       \* events in a task's channel
    held,        \* tasks whose handle still exists
    wasRunning,  \* what a process watcher saw at its last poll
    gameOn,      \* the emulator's process is running
    unseen,      \* folders written to since a cycle last read them
    lateExit,    \* process watchers that must still react to an exit they saw
    disabling,   \* how far set_enabled(false) has come
    owed,        \* commands that still have to emit emulator-changed
    shown,       \* the last EmulatorView the UI received
    commands, writes, games

settings == <<enabled, source, dest, paired>>
tasks == <<entry, at, folder, queue, held, wasRunning, lateExit>>
world == <<gameOn, unseen>>
vars == <<settings, outcome, tasks, world, disabling, owed, shown, commands, writes, games>>

\* The EmulatorView that `view` builds under the lock.
View == [enabled |-> enabled, source |-> source, outcome |-> outcome,
         watching |-> entry["files"] # None, procWatching |-> entry["process"] # None]

ValidConfig == source # Unset /\ dest
\* sync_once: with a server paired the local destination does not matter.
MayCycle == enabled /\ IF paired THEN source # Unset ELSE ValidConfig
MayWatch == enabled /\ ValidConfig
Live(l) == at[l] \notin {"none", "checked"}

Init ==
    /\ enabled = TRUE /\ source \in Folders /\ dest = TRUE /\ paired = FALSE
    /\ outcome = "never"
    /\ entry = [t \in Tables |-> None]
    /\ at = [l \in Runners |-> "none"]
    /\ folder = [l \in Runners |-> Unset]
    /\ queue = [l \in FileLoops |-> 0]
    /\ held = {} /\ wasRunning = {} /\ lateExit = {}
    /\ gameOn = FALSE /\ unseen = {}
    /\ disabling = "no" /\ owed = 0 /\ shown = View
    /\ commands = 0 /\ writes = 0 /\ games = 0

(* ---- the settings ---- *)
Command == commands < MaxCommands /\ commands' = commands + 1
Owe == owed' = owed + 1

\* set_emulator_paths: a running watcher keeps the folder it was started on.
SetPaths(f, d) ==
    /\ Command /\ Owe
    /\ source' = f /\ dest' = d
    /\ UNCHANGED <<enabled, paired, outcome, tasks, world, disabling, shown, writes, games>>

Enable ==
    /\ Command /\ Owe
    /\ enabled' = TRUE
    /\ UNCHANGED <<source, dest, paired, outcome, tasks, world, disabling, shown, writes, games>>

\* set_enabled(false): the flag, then each of the two tables, each under a
\* lock of its own.
Disable ==
    /\ Command /\ disabling = "no"
    /\ enabled' = FALSE /\ disabling' = "files"
    /\ UNCHANGED <<source, dest, paired, outcome, tasks, world, owed, shown, writes, games>>

\* A slip: the task is told to stop, and stays in the table.
UnlistHandleOnly(t) ==
    /\ held' = held \ {entry[t]}
    /\ UNCHANGED <<entry, at, folder, queue, wasRunning, lateExit>>

\* Removing an entry drops the handle of the task it lists.
Unlist(t) ==
    /\ entry' = [entry EXCEPT ![t] = None]
    /\ held' = held \ {entry[t]}
    /\ UNCHANGED <<at, folder, queue, wasRunning, lateExit>>

StopAfterDisable ==
    /\ disabling \in Tables
    /\ Unlist(disabling)
    /\ IF disabling = "files" THEN disabling' = "process" /\ UNCHANGED owed
                              ELSE disabling' = "no" /\ Owe
    /\ UNCHANGED <<settings, outcome, world, shown, commands, writes, games>>

StopWatch(t) ==
    /\ Command /\ Owe
    /\ Unlist(t)
    /\ UNCHANGED <<settings, outcome, world, disabling, shown, writes, games>>

\* pair_with_server and unpair_server tell the UI nothing.
Pair ==
    /\ Command
    /\ paired' = ~paired
    /\ UNCHANGED <<enabled, source, dest, outcome, tasks, world, disabling, owed, shown, writes, games>>

\* A slip: emulator-changed carries a view built before the change was made.
EmitStale ==
    /\ owed > 0 /\ owed' = owed - 1
    /\ shown' \in {shown, View}
    /\ UNCHANGED <<settings, outcome, tasks, world, disabling, commands, writes, games>>

Emit ==
    /\ owed > 0 /\ owed' = owed - 1
    /\ shown' = View
    /\ UNCHANGED <<settings, outcome, tasks, world, disabling, commands, writes, games>>

(* ---- starting a watcher ---- *)
\* start_watch and start_proc_watch, under the first lock.
CheckStart(l) ==
    /\ l \in Loops /\ at[l] = "none"
    /\ entry[TableOf(l)] = None /\ MayWatch
    /\ at' = [at EXCEPT ![l] = "checked"]
    /\ folder' = [folder EXCEPT ![l] = source]
    /\ UNCHANGED <<settings, outcome, entry, queue, held, wasRunning, lateExit, world,
                   disabling, owed, shown, commands, writes, games>>

\* Without the lock: watch the folder, which may fail, and spawn the task.
Spawn(l) ==
    /\ l \in Loops /\ at[l] = "checked"
    /\ at' = [at EXCEPT ![l] = "idle"]
    /\ held' = held \cup {l}
    /\ UNCHANGED <<settings, outcome, entry, folder, queue, wasRunning, lateExit, world,
                   disabling, owed, shown, commands, writes, games>>

SpawnFails(l) ==
    /\ l \in FileLoops /\ at[l] = "checked"
    /\ at' = [at EXCEPT ![l] = "none"]
    /\ folder' = [folder EXCEPT ![l] = Unset]
    /\ UNCHANGED <<settings, outcome, entry, queue, held, wasRunning, lateExit, world,
                   disabling, owed, shown, commands, writes, games>>

\* The second lock: the table takes the handle, and drops the one it had.
Unlisted(l) == l \in held /\ entry[TableOf(l)] # l
Insert(l) ==
    /\ Unlisted(l)
    /\ held' = held \ {entry[TableOf(l)]}
    /\ entry' = [entry EXCEPT ![TableOf(l)] = l]
    /\ Owe
    /\ UNCHANGED <<settings, outcome, at, folder, queue, wasRunning, lateExit, world,
                   disabling, shown, commands, writes, games>>

(* ---- what the tasks observe ---- *)
\* make_watcher's callback: try_send, and a full channel drops the event.
Notified(f) ==
    [l \in FileLoops |-> IF l \in held /\ folder[l] = f /\ queue[l] < QueueCap
                         THEN queue[l] + 1 ELSE queue[l]]

WriteSave(f) ==
    /\ writes < MaxWrites /\ writes' = writes + 1
    /\ unseen' = unseen \cup {f}
    /\ queue' = Notified(f)
    /\ UNCHANGED <<settings, outcome, entry, at, folder, held, wasRunning, lateExit, gameOn,
                   disabling, owed, shown, commands, games>>

GameStartsOrEnds ==
    /\ games < MaxGames /\ games' = games + 1
    /\ gameOn' = ~gameOn
    /\ lateExit' = IF gameOn THEN lateExit \cup (wasRunning \cap held) ELSE {}
    /\ UNCHANGED <<settings, outcome, entry, at, folder, queue, held, wasRunning, unseen,
                   disabling, owed, shown, commands, writes>>

Go(l, from, to) == at[l] = from /\ at' = [at EXCEPT ![l] = to]

\* The event branch of the select loop, then the two quiet seconds.
TakeEvent(l) ==
    /\ l \in FileLoops /\ queue[l] > 0
    /\ Go(l, "idle", "settling")
    /\ queue' = [queue EXCEPT ![l] = @ - 1]
    /\ UNCHANGED <<settings, outcome, entry, folder, held, wasRunning, lateExit, world,
                   disabling, owed, shown, commands, writes, games>>

Absorb(l) ==
    /\ l \in FileLoops /\ queue[l] > 0
    /\ Go(l, "settling", "settling")
    /\ queue' = [queue EXCEPT ![l] = @ - 1]
    /\ UNCHANGED <<settings, outcome, entry, folder, held, wasRunning, lateExit, world,
                   disabling, owed, shown, commands, writes, games>>

\* The timeout expires, or the channel is closed: either way a cycle starts.
Settled(l) ==
    /\ l \in FileLoops /\ queue[l] = 0
    /\ Go(l, "settling", "asked")
    /\ UNCHANGED <<settings, outcome, entry, folder, queue, held, wasRunning, lateExit, world,
                   disabling, owed, shown, commands, writes, games>>

\* A slip: was_running is assigned before it is compared.
PollAssignsFirst(l) ==
    /\ l \in ProcLoops
    /\ at[l] = "idle" /\ UNCHANGED at
    /\ wasRunning' = IF gameOn THEN wasRunning \cup {l} ELSE wasRunning \ {l}
    /\ UNCHANGED <<settings, outcome, entry, folder, queue, held, lateExit, world,
                   disabling, owed, shown, commands, writes, games>>

\* One poll of the process list: the end of the game starts a cycle.
Poll(l) ==
    /\ l \in ProcLoops
    /\ Go(l, "idle", IF l \in wasRunning /\ ~gameOn THEN "asked" ELSE "idle")
    /\ wasRunning' = IF gameOn THEN wasRunning \cup {l} ELSE wasRunning \ {l}
    /\ lateExit' = IF at'[l] = "asked" THEN lateExit \ {l} ELSE lateExit
    /\ UNCHANGED <<settings, outcome, entry, folder, queue, held, world,
                   disabling, owed, shown, commands, writes, games>>

\* A slip: a loop ends when the emulator is disabled, not when it is stopped.
EndLoopWhenDisabled(l) ==
    /\ l \in Loops /\ l \notin held /\ ~enabled
    /\ Go(l, "idle", "none")
    /\ folder' = [folder EXCEPT ![l] = Unset]
    /\ queue' = IF l \in FileLoops THEN [queue EXCEPT ![l] = 0] ELSE queue
    /\ wasRunning' = wasRunning \ {l} /\ lateExit' = lateExit \ {l}
    /\ UNCHANGED <<settings, outcome, entry, held, world,
                   disabling, owed, shown, commands, writes, games>>

\* The stop branch: every handle of the task is gone.
EndLoop(l) ==
    /\ l \in Loops /\ l \notin held
    /\ Go(l, "idle", "none")
    /\ folder' = [folder EXCEPT ![l] = Unset]
    /\ queue' = IF l \in FileLoops THEN [queue EXCEPT ![l] = 0] ELSE queue
    /\ wasRunning' = wasRunning \ {l} /\ lateExit' = lateExit \ {l}
    /\ UNCHANGED <<settings, outcome, entry, held, world,
                   disabling, owed, shown, commands, writes, games>>

(* ---- one cycle, whatever the trigger: run_sync ---- *)
SyncNow(b) ==
    /\ b \in Buttons
    /\ Command
    /\ Go(b, "none", "asked")
    /\ UNCHANGED <<settings, outcome, entry, folder, queue, held, wasRunning, lateExit, world,
                   disabling, owed, shown, writes, games>>

\* sync_once reads the row again, under the lock, and may refuse.  Only the
\* path of the row counts from here on.
Admit(l) ==
    /\ MayCycle
    /\ Go(l, "asked", source)
    /\ UNCHANGED <<settings, outcome, entry, folder, queue, held, wasRunning, lateExit, world,
                   disabling, owed, shown, commands, writes, games>>

\* The cycle scans the folder it was admitted for.
Scan(l) ==
    /\ at[l] \in Folders
    /\ unseen' = unseen \ {at[l]}
    /\ Go(l, at[l], "working")
    /\ UNCHANGED <<settings, outcome, entry, folder, queue, held, wasRunning, lateExit, gameOn,
                   disabling, owed, shown, commands, writes, games>>

\* record_result, after a refusal (error) or after the cycle (either).
Record(l, o) ==
    /\ \/ at[l] = "asked" /\ ~MayCycle /\ o = "error"
       \/ at[l] = "working"
    /\ outcome' = o
    /\ at' = [at EXCEPT ![l] = "telling"]
    /\ UNCHANGED <<settings, entry, folder, queue, held, wasRunning, lateExit, world,
                   disabling, owed, shown, commands, writes, games>>

After(l) == IF l \in Loops THEN "idle" ELSE "none"

\* A slip: what arrived during the cycle is taken as part of it.
TellDrained(l) ==
    /\ Go(l, "telling", After(l))
    /\ shown' = View
    /\ queue' = IF l \in FileLoops THEN [queue EXCEPT ![l] = 0] ELSE queue
    /\ UNCHANGED <<settings, outcome, entry, folder, held, wasRunning, lateExit, world,
                   disabling, owed, commands, writes, games>>

Tell(l) ==
    /\ Go(l, "telling", After(l))
    /\ shown' = View
    /\ UNCHANGED <<settings, outcome, entry, folder, queue, held, wasRunning, lateExit, world,
                   disabling, owed, commands, writes, games>>

\* The app is closed and opened: no watcher survives, the rows do, and the UI
\* loads a fresh list.
Restart ==
    /\ Command
    /\ entry' = [t \in Tables |-> None]
    /\ at' = [l \in Runners |-> "none"]
    /\ folder' = [l \in Runners |-> Unset]
    /\ queue' = [l \in FileLoops |-> 0]
    /\ held' = {} /\ wasRunning' = {} /\ lateExit' = {}
    /\ disabling' = "no" /\ owed' = 0
    /\ shown' = [View EXCEPT !.watching = FALSE, !.procWatching = FALSE]
    /\ UNCHANGED <<settings, outcome, world, writes, games>>

Start(l) == CheckStart(l) \/ Spawn(l) \/ SpawnFails(l) \/ Insert(l)
Loop(l) == TakeEvent(l) \/ Absorb(l) \/ Settled(l) \/ Poll(l) \/ EndLoop(l)
Cycle(l) == Admit(l) \/ Scan(l) \/ (\E o \in {"ok", "error"} : Record(l, o)) \/ Tell(l)

Next ==
    \/ \E f \in Folders \cup {Unset}, d \in BOOLEAN : SetPaths(f, d)
    \/ Enable \/ Disable \/ StopAfterDisable \/ Pair \/ Emit \/ Restart
    \/ \E t \in Tables : StopWatch(t)
    \/ \E l \in Loops : Start(l) \/ Loop(l)
    \/ \E f \in Folders : WriteSave(f)
    \/ GameStartsOrEnds
    \/ \E b \in Buttons : SyncNow(b)
    \/ \E l \in Runners : Cycle(l)

\* The runtime runs every task that can go on; the two timers of a loop expire.
\* Nothing makes the user press a button.
Fairness ==
    /\ WF_vars(Emit) /\ WF_vars(StopAfterDisable)
    /\ \A l \in Loops : WF_vars(Spawn(l) \/ SpawnFails(l)) /\ WF_vars(Insert(l))
                        /\ WF_vars(Loop(l))
    /\ \A l \in Runners : WF_vars(Cycle(l))

Spec == Init /\ [][Next]_vars /\ Fairness

-----------------------------------------------------------------------------
\* The shape of the state; a listed task is alive and its handle is in the
\* table, and each kind's channel stays within its capacity.
WatchersTypeOK ==
    /\ enabled \in BOOLEAN /\ dest \in BOOLEAN /\ paired \in BOOLEAN
    /\ source \in Folders \cup {Unset} /\ outcome \in {"never", "ok", "error"}
    /\ \A t \in Tables : entry[t] # None => entry[t] \in LoopsOf(t) \cap held
    /\ \A l \in held : Live(l) /\ l \in Loops
    /\ \A l \in Runners : at[l] \in Places \cup Folders
    /\ \A l \in FileLoops : queue[l] \in 0 .. QueueCap
    /\ wasRunning \subseteq ProcLoops /\ lateExit \subseteq ProcLoops
    /\ owed \in Nat /\ disabling \in Tables \cup {"no"}

Quiet == /\ owed = 0 /\ disabling = "no"
         /\ \A l \in Runners : at[l] \in {"none", "idle"}
         /\ \A l \in Loops : ~Unlisted(l)

\* Whatever order the commands and the cycles of the emulator finish in, the
\* last emulator-changed the UI received shows the emulator as it is: every
\* event carries what is read after the change, under the lock (emit_changed).
ShownIsCurrent ==
    (owed = 0 /\ disabling = "no" /\ \A l \in Runners : at[l] # "telling")
        => shown = View

\* A save written to a watched folder is read by a cycle, unless the watcher that
\* saw it is dropped or the configuration taken away: events that arrive during the debounce
\* or during a cycle start another one, even when the channel drops some
\* (start_watch's loop, make_watcher).
Configured(f) == source = f /\ MayCycle
Due(l, f) == l \in held /\ queue[l] > 0 /\ folder[l] = f /\ f \in unseen /\ Configured(f)
ChangesAreRead ==
    \A l \in FileLoops, f \in Folders :
        Due(l, f) ~> (f \notin unseen \/ l \notin held \/ ~Configured(f))

\* A process watcher that saw the game running reacts when it ends and stays
\* closed, whatever cycle it was running then (start_proc_watch's loop).
ExitsAreNoticed ==
    \A l \in ProcLoops : l \in lateExit ~> l \notin lateExit

\* A watcher that was stopped ends, once the cycle it may be in is over; only
\* the listed one goes on (the dropped stop_tx, stop_watch_inner).
StoppedLoopsEnd ==
    \A l \in Loops : (Live(l) /\ l \notin held) ~> (~Live(l) \/ l \in held)

-----------------------------------------------------------------------------
(* What the documentation says and the code does not do. *)

\* Quiet, enabled and watched means that the folder observed is the emulator's
\* source_path.  SetPaths leaves a running watcher on the old folder.
WatchesItsSource ==
    (Quiet /\ enabled /\ entry["files"] # None) => folder[entry["files"]] = source

\* The same while the emulator stays watched, whichever task watches it.  A second
\* start_watch that passed its check replaces the first one's handle in Insert,
\* and the events still in the first one's channel may never start a cycle.
WatchedChangesAreRead ==
    \A f \in Folders :
        (\E l \in FileLoops : Due(l, f) /\ entry["files"] = l)
            ~> (f \notin unseen \/ entry["files"] = None \/ ~Configured(f))

=============================================================================
