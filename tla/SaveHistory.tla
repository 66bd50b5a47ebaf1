---------------------------- MODULE SaveHistory ----------------------------
(***************************************************************************)
(* The history of one save without a server: the desktop snapshots and     *)
(* prunes around every bisync (engine.rs do_sync, history.rs), prunes on   *)
(* demand, lists the runs and reverts to one of them (lib.rs), on a        *)
(* destination that a second desktop uses too.  A version is a number, its *)
(* modification time: a newer one is larger.  One cycle runs at a time;    *)
(* cycles that overlap and when a resync is due are in Bisync, what a      *)
(* conflict leaves behind is in Conflicts.                                 *)
(***************************************************************************)
EXTENDS Retention

CONSTANTS SizeOf(_),     \* size of a version
          Modes,         \* combinations of incremental and full to choose from
          Days, Caps,    \* retentions to choose from
          Foreign,       \* a folder of the history that is no run, first in order
          MaxTime,       \* bound: seconds
          MaxVersion,    \* bound: versions of the save
          MaxCommands    \* bound: prunes, reverts and settings the user asks for

ASSUME SaveHistoryAssumption ==
    /\ Modes \subseteq [incremental : BOOLEAN, full : BOOLEAN]
    /\ Days \cup Caps \cup {MaxCommands} \subseteq Nat
    /\ {MaxTime, MaxVersion} \subseteq Nat \ {0}
    /\ Foreign = 0 /\ Malformed = {Foreign}
    /\ \A v \in 1..MaxVersion : SizeOf(v) \in Nat \ {0}

VARIABLES
    now,
    source,       \* the save folder
    live,         \* the destination
    base,         \* what the last bisync left on both
    fresh,        \* versions written so far
    runs,         \* .history: name -> what its full/ and delta/ hold
    settings,
    initialized,  \* bisync_initialized
    cycle,        \* the cycle: its step, run and settings
    pruning,      \* who prunes -> runs it has still to purge
    revert,       \* the revert: its step, run and the half it reads
    commands,     \* what the user has asked for so far
    replaced,     \* ghost: versions a bisync wrote over, with the run of its cycle
    purged,       \* ghost: runs a prune has removed
    disturbed     \* ghost: runs of a second with two cycles, or of a cycle a revert met

saveHistoryVars == <<now, source, live, base, fresh, runs, settings, initialized, cycle,
          pruning, revert, commands, replaced, purged, disturbed>>

Versions == 1..MaxVersion
None     == 0
Pruners  == {"cycle", "button"}
Halves   == {"full", "delta"}
Run      == [Halves -> Versions \cup {None}]
NoRun    == [h \in Halves |-> None]
Settings == [enabled : BOOLEAN, incremental : BOOLEAN, full : BOOLEAN,
             days : Days, cap : Caps]

SizeIn(run)     == MapThenSumSet(LAMBDA h : SizeOf(run[h]), {h \in Halves : run[h] # None})
Sizes           == [r \in DOMAIN runs |-> SizeIn(runs[r])]
RunAt(ts)       == IF ts \in DOMAIN runs THEN runs[ts] ELSE NoRun
Put(ts, half, v) ==
    runs' = [r \in DOMAIN runs \cup {ts} |->
                IF r = ts THEN [RunAt(ts) EXCEPT ![half] = v] ELSE runs[r]]

Off        == [enabled |-> FALSE, incremental |-> FALSE, full |-> FALSE,
               days |-> Min(Days), cap |-> Min(Caps)]
AtRest(ts) == [step |-> "idle", ts |-> ts, use |-> Off]
NoRevert   == [step |-> "idle", ts |-> Foreign, half |-> "full"]
CycleStill == UNCHANGED <<cycle, replaced, purged, disturbed>>
Command    == commands < MaxCommands /\ commands' = commands + 1
SaveStill  == UNCHANGED <<source, live, base, fresh>>

-----------------------------------------------------------------------------
\* The first bisync of a pair, --resync newer: no history is written.
InitialBisync ==
    /\ ~initialized
    /\ cycle.step = "idle"
    /\ LET newer == Max({source, live})
       IN  source' = newer /\ live' = newer /\ base' = newer
    /\ initialized' = TRUE
    /\ UNCHANGED <<commands, now, fresh, runs, settings, pruning, revert>>
    /\ CycleStill

\* A slip: the run is named for the end of the cycle, a second later.
StartCycleAhead ==
    /\ initialized
    /\ cycle.step = "idle" /\ pruning["cycle"] = {}
    /\ cycle' = [step |-> "snapshot", ts |-> now + 1, use |-> settings]
    /\ UNCHANGED <<commands, now, runs, settings, initialized, pruning, revert, replaced,
                   purged, disturbed>>
    /\ SaveStill

\* do_sync: the settings and the clock are read.
StartCycle ==
    /\ initialized
    /\ cycle.step = "idle" /\ pruning["cycle"] = {}
    /\ cycle' = [step |-> "snapshot", ts |-> now, use |-> settings]
    /\ disturbed' = IF cycle.ts = now THEN disturbed \cup {now} ELSE disturbed
    /\ UNCHANGED <<commands, now, runs, settings, initialized, pruning, revert, replaced,
                   purged>>
    /\ SaveStill

\* A slip: the snapshot is left to the second half of the cycle.
TakeFullLate ==
    /\ cycle.step = "snapshot"
    /\ cycle' = [cycle EXCEPT !.step = "bisync"]
    /\ UNCHANGED <<commands, now, runs, settings, initialized, pruning, revert, replaced,
                   purged, disturbed>>
    /\ SaveStill

\* snapshot_full, whether or not the bisync has anything to do.
TakeFull ==
    /\ cycle.step = "snapshot"
    /\ IF cycle.use.enabled /\ cycle.use.full THEN Put(cycle.ts, "full", live)
                                              ELSE UNCHANGED runs
    /\ cycle' = [cycle EXCEPT !.step = "bisync"]
    /\ UNCHANGED <<commands, now, settings, initialized, pruning, revert, replaced,
                   purged, disturbed>>
    /\ SaveStill

\* rclone: the side that changed wins, of two that did the newer one; what is
\* written over in the destination goes to --backupdir2.
RunBisync ==
    LET pushed == source # base /\ live = base
        merged == IF pushed THEN source
                  ELSE IF source = base THEN live ELSE Max({source, live})
    IN  /\ cycle.step = "bisync"
        /\ source' = merged /\ live' = merged /\ base' = merged
        /\ IF pushed /\ cycle.use.enabled /\ cycle.use.incremental
           THEN Put(cycle.ts, "delta", live)
           ELSE UNCHANGED runs
        /\ replaced' = IF pushed /\ cycle.use.enabled
                       THEN replaced \cup {<<cycle.ts, live>>} ELSE replaced
        /\ cycle' = [cycle EXCEPT !.step = "prune"]
        /\ UNCHANGED <<commands, now, fresh, settings, initialized, pruning, revert,
                       purged, disturbed>>

\* A bisync that fails ends the cycle; the snapshot stays.
FailBisync ==
    /\ cycle.step \in {"snapshot", "bisync"}
    /\ cycle' = AtRest(cycle.ts)
    /\ UNCHANGED <<commands, now, runs, settings, initialized, pruning, revert, replaced,
                   purged, disturbed>>
    /\ SaveStill

-----------------------------------------------------------------------------
\* prune_history up to the purges: one listing, one decision.
Decide(pruner, use) ==
    pruning' = [pruning EXCEPT ![pruner] =
        IF use.enabled
        THEN PickSnapshotsToPrune(DOMAIN runs, Sizes, use.days, use.cap, now)
        ELSE {}]

PruneAfterCycle ==
    /\ cycle.step = "prune"
    /\ Decide("cycle", cycle.use)
    /\ cycle' = AtRest(cycle.ts)
    /\ UNCHANGED <<commands, now, runs, settings, initialized, revert, replaced,
                   purged, disturbed>>
    /\ SaveStill

\* prune_history_now
PruneNow ==
    /\ initialized
    /\ pruning["button"] = {}
    /\ Command
    /\ Decide("button", settings)
    /\ UNCHANGED <<now, runs, settings, initialized, revert>>
    /\ CycleStill /\ SaveStill

\* One purge, the oldest first: it removes the folder or is passed over.
Purge(pruner) ==
    LET next == Min(pruning[pruner])
    IN  /\ pruning[pruner] # {}
        /\ pruning' = [pruning EXCEPT ![pruner] = @ \ {next}]
        /\ \/ /\ runs' = [r \in DOMAIN runs \ {next} |-> runs[r]]
              /\ purged' = purged \cup {next}
           \/ UNCHANGED <<runs, purged>>
        /\ UNCHANGED <<commands, now, settings, initialized, revert, cycle, replaced,
                       disturbed>>
        /\ SaveStill

-----------------------------------------------------------------------------
\* revert_save: the half is chosen, full/ before delta/, ...
StartRevert(ts) ==
    /\ revert.step = "idle"
    /\ Command
    /\ runs[ts] # NoRun
    /\ revert' = [step |-> "live", ts |-> ts,
                  half |-> IF runs[ts]["full"] # None THEN "full" ELSE "delta"]
    /\ UNCHANGED <<now, runs, settings, initialized, pruning>>
    /\ CycleStill /\ SaveStill

Reverting == RunAt(revert.ts)[revert.half]

\* ... copied to the destination, ...
RevertLive ==
    /\ revert.step = "live"
    /\ Reverting # None
    /\ live' = Reverting
    /\ revert' = [revert EXCEPT !.step = "source"]
    /\ disturbed' = IF cycle.step = "bisync" THEN disturbed \cup {cycle.ts} ELSE disturbed
    /\ UNCHANGED <<commands, now, source, base, fresh, runs, settings, initialized, cycle,
                   pruning, replaced, purged>>

\* ... then to the save folder, and the next cycle is to resync.
RevertSource ==
    /\ revert.step = "source"
    /\ Reverting # None
    /\ source' = Reverting
    /\ initialized' = FALSE
    /\ revert' = NoRevert
    /\ UNCHANGED <<commands, now, live, base, fresh, runs, settings, pruning>>
    /\ CycleStill

\* A copy whose run is gone: the command fails where it is.
RevertFails ==
    /\ revert.step # "idle"
    /\ Reverting = None
    /\ revert' = NoRevert
    /\ UNCHANGED <<commands, now, runs, settings, initialized, pruning>>
    /\ CycleStill /\ SaveStill

-----------------------------------------------------------------------------
\* The game writes the save.
Play ==
    /\ fresh < MaxVersion
    /\ fresh' = fresh + 1
    /\ source' = fresh + 1
    /\ UNCHANGED <<commands, now, live, base, runs, settings, initialized, pruning, revert>>
    /\ CycleStill

\* The other desktop brings a version to the destination.
PlayElsewhere ==
    /\ fresh < MaxVersion
    /\ fresh' = fresh + 1
    /\ live' = fresh + 1
    /\ UNCHANGED <<commands, now, source, base, runs, settings, initialized, pruning,
                   revert>>
    /\ CycleStill

\* set_history_settings
SetHistory(enabled, mode, days, cap) ==
    /\ Command
    /\ enabled => mode.incremental \/ mode.full
    /\ settings' = [enabled |-> enabled, incremental |-> mode.incremental,
                    full |-> mode.full, days |-> days, cap |-> cap]
    /\ UNCHANGED <<now, runs, initialized, pruning, revert>>
    /\ CycleStill /\ SaveStill

Tick ==
    /\ now < MaxTime
    /\ now' = now + 1
    /\ UNCHANGED <<commands, runs, settings, initialized, pruning, revert>>
    /\ CycleStill /\ SaveStill

\* A first version on both sides, the first bisync still to come, and somebody's
\* folder among the runs.
SaveHistoryInit ==
    /\ now = 1
    /\ source = 1 /\ live = 1 /\ base = 1 /\ fresh = 1
    /\ runs = [r \in {Foreign} |-> [full |-> 1, delta |-> None]]
    /\ settings \in {s \in Settings : /\ s.enabled /\ (s.incremental \/ s.full)
                                      /\ [incremental |-> s.incremental, full |-> s.full] \in Modes}
    /\ initialized = FALSE
    /\ cycle = AtRest(Foreign)
    /\ pruning = [p \in Pruners |-> {}]
    /\ revert = NoRevert
    /\ commands = 0
    /\ replaced = {}
    /\ purged = {}
    /\ disturbed = {}

SaveHistoryNext ==
    \/ InitialBisync \/ StartCycle \/ TakeFull \/ RunBisync \/ FailBisync
    \/ PruneAfterCycle \/ PruneNow
    \/ \E p \in Pruners : Purge(p)
    \/ \E ts \in DOMAIN runs \ Malformed : StartRevert(ts)
    \/ RevertLive \/ RevertSource \/ RevertFails
    \/ Play \/ PlayElsewhere
    \/ \E e \in BOOLEAN, m \in Modes, d \in Days, c \in Caps : SetHistory(e, m, d, c)
    \/ Tick

SaveHistorySpec == SaveHistoryInit /\ [][SaveHistoryNext]_saveHistoryVars

-----------------------------------------------------------------------------
\* Types.
SaveHistoryTypeOK ==
    /\ now \in 1..MaxTime
    /\ {source, live, base} \subseteq 1..fresh
    /\ fresh \in Versions
    /\ DOMAIN runs \subseteq 0..now
    /\ \A r \in DOMAIN runs : runs[r] \in Run
    /\ settings \in Settings
    /\ initialized \in BOOLEAN
    /\ cycle \in [step : {"idle", "snapshot", "bisync", "prune"}, ts : 0..now,
                  use : Settings]
    /\ pruning \in [Pruners -> SUBSET (0..now)]
    /\ revert \in [step : {"idle", "live", "source"}, ts : 0..now, half : Halves]
    /\ commands \in 0..MaxCommands
    /\ purged \cup disturbed \subseteq 0..now

\* A version that a bisync wrote over in the destination is in the run of that
\* cycle, until a prune removes the run: whichever modes are on, whatever the
\* other desktop did between the snapshot and the bisync, and whatever is played,
\* reverted and pruned later.  Held to cycles that neither share their second nor
\* meet a revert half-way.
ReplacedIsInItsRun ==
    \A lost \in replaced :
        \/ lost[1] \in purged \cup disturbed
        \/ \E h \in Halves : RunAt(lost[1])[h] = lost[2]

\* README.md, on a revert: it reaches the destination and the save folder.
RevertReachesBoth ==
    [][revert.step = "source" /\ revert'.step = "idle" =>
          Reverting # None /\ source' = Reverting]_saveHistoryVars

=============================================================================
