------------------------------- MODULE Bisync -------------------------------
(***************************************************************************)
(* Syncing without a server: the desktop runs `rclone bisync` between the  *)
(* save folder and a destination (engine.rs, lib.rs).  Rclone keeps a      *)
(* listing of both sides for every pair of folders and needs --resync when *)
(* it has none, or one that something else has made wrong.  The program    *)
(* remembers with one flag of the emulator, bisync_initialized, whether    *)
(* that is due.  Modelled: the cycle subtree by subtree, the two operations*)
(* that change saves behind rclone's back (revert_save, resolve_conflict), *)
(* new paths, the settings, and the program being closed at any moment.    *)
(* File contents are left out, and with them snapshots, the renames and    *)
(* the prune of a normal cycle (SaveHistory has those): what is at stake here  *)
(* is when a resync is run.                                                *)
(***************************************************************************)
EXTENDS Naturals

CONSTANTS Pairs,         \* configurations of source and destination
          NoPair,        \* nothing configured
          NoRow,         \* no row in history_settings
          Jobs,          \* triggers that may run a cycle at the same time
          OfferedModes,  \* history settings the user chooses from
          Subtrees,      \* sync_subtrees: how many folders a cycle goes through
          FileBased,     \* whether the emulator's saves are single files (pcsx2)
          MaxFaults      \* bound: crashes and copies that fail half-way

ASSUME BisyncAssumption ==
    /\ NoPair \notin Pairs
    /\ OfferedModes \subseteq [enabled : BOOLEAN, incremental : BOOLEAN, full : BOOLEAN]
    /\ Subtrees \in Nat \ {0}
    /\ FileBased \in BOOLEAN
    /\ MaxFaults \in Nat

VARIABLES
    pair,       \* emulators row: the configured pair
    row,        \* history_settings row
    listing,    \* rclone's: pair -> subtree -> "none", "good" or "stale"
    job,        \* trigger -> the cycle it runs
    outside,    \* the revert or resolution under way: its pair and step
    faults,
    meddled     \* ghost: a fault, or an outside change beside a cycle

bisyncVars == <<pair, row, listing, job, outside, faults, meddled>>

Subfolders == 1..Subtrees
Idle == [step |-> "idle", pair |-> NoPair, next |-> 1]
NothingOutside == [step |-> "idle", pair |-> NoPair]

HistoryRow(enabled, incremental, full, initialized) ==
    [enabled |-> enabled, incremental |-> incremental, full |-> full,
     initialized |-> initialized]

\* HistorySettings::defaults_for: what a missing row means.
Defaults == HistoryRow(TRUE, ~FileBased, FileBased, FALSE)

\* The column defaults, which no emulator is asked for.
ColumnDefaults == HistoryRow(TRUE, TRUE, FALSE, FALSE)

GetHistory == IF row = NoRow THEN Defaults ELSE row

Running(j) == job[j].step # "idle"
Quiet      == outside.step = "idle" /\ \A j \in Jobs : ~Running(j)

-----------------------------------------------------------------------------
\* sync_once up to do_sync: configuration and flag are read under one lock,
\* and the cycle keeps what it read.
Start(j) ==
    /\ ~Running(j)
    /\ pair # NoPair
    /\ job' = [job EXCEPT ![j] =
                  [step |-> IF GetHistory.initialized THEN "normal" ELSE "initial",
                   pair |-> pair, next |-> 1]]
    /\ meddled' = (meddled \/ outside.step # "idle")
    /\ UNCHANGED <<pair, row, listing, outside, faults>>

ListedAs(j, state) == listing' = [listing EXCEPT ![job[j].pair][job[j].next] = state]
Advance(j) == job' = [job EXCEPT ![j].next = @ + 1]

\* rclone --resync on one subtree.
ResyncFolder(j) ==
    /\ job[j].step = "initial"
    /\ job[j].next \in Subfolders
    /\ ListedAs(j, "good")
    /\ Advance(j)
    /\ UNCHANGED <<pair, row, outside, faults, meddled>>

\* rclone without --resync: it refuses without a listing, and takes a stale
\* one at its word (false conflicts) before it writes a new one.
BisyncFolder(j) ==
    /\ job[j].step = "normal"
    /\ job[j].next \in Subfolders
    /\ listing[job[j].pair][job[j].next] # "none"
    /\ ListedAs(j, "good")
    /\ Advance(j)
    /\ UNCHANGED <<pair, row, outside, faults, meddled>>

\* Any subtree may fail, and the first that does ends the cycle.
FailCycle(j) ==
    /\ Running(j)
    /\ job[j].next \in Subfolders
    /\ job' = [job EXCEPT ![j] = Idle]
    /\ UNCHANGED <<pair, row, listing, outside, faults, meddled>>

\* A slip: the first subtree is enough.
FinishEarly(j) ==
    /\ Running(j)
    /\ job[j].next > 1
    /\ row' = IF job[j].step = "initial"
              THEN [(IF row = NoRow THEN ColumnDefaults ELSE row) EXCEPT !.initialized = TRUE]
              ELSE row
    /\ job' = [job EXCEPT ![j] = Idle]
    /\ UNCHANGED <<pair, listing, outside, faults, meddled>>

\* mark_bisync_initialized after an initial cycle, under a lock of its own:
\* INSERT OR IGNORE, then UPDATE.
Finish(j) ==
    /\ Running(j)
    /\ job[j].next \notin Subfolders
    /\ row' = IF job[j].step = "initial"
              THEN [(IF row = NoRow THEN ColumnDefaults ELSE row) EXCEPT !.initialized = TRUE]
              ELSE row
    /\ job' = [job EXCEPT ![j] = Idle]
    /\ UNCHANGED <<pair, listing, outside, faults, meddled>>

-----------------------------------------------------------------------------
NeedsResync == row' = IF row = NoRow THEN NoRow ELSE [row EXCEPT !.initialized = FALSE]

\* A slip: only the new paths are written.
SetPathsOnly(p) ==
    /\ pair' = p
    /\ meddled' = (meddled \/ ~Quiet)
    /\ UNCHANGED <<row, listing, job, outside, faults>>

SetPaths(p) ==
    /\ pair' = p
    /\ NeedsResync
    /\ meddled' = (meddled \/ ~Quiet)
    /\ UNCHANGED <<listing, job, outside, faults>>

\* set_history_settings: incremental is dropped for single files, a history
\* without a mode is refused, and the flag is not the user's to set.
SetHistoryModes(enabled, incremental, full) ==
    LET kept == incremental /\ ~FileBased
    IN  /\ enabled => kept \/ full
        /\ row' = HistoryRow(enabled, kept, full, GetHistory.initialized)
        /\ UNCHANGED <<pair, listing, job, outside, faults, meddled>>

\* revert_save, resolve_conflict: the configuration is read, ...
ChangeOutside ==
    /\ outside.step = "idle"
    /\ pair # NoPair
    /\ outside' = [step |-> "destination", pair |-> pair]
    /\ meddled' = (meddled \/ ~Quiet)
    /\ UNCHANGED <<pair, row, listing, job, faults>>

\* ... the destination is written, then the save folder; what rclone listed
\* of either is not so any more, ...
WriteDestination ==
    /\ outside.step = "destination"
    /\ outside' = [outside EXCEPT !.step = "mark"]
    /\ \E s \in Subfolders :
          listing' = IF listing[outside.pair][s] = "good"
                     THEN [listing EXCEPT ![outside.pair][s] = "stale"]
                     ELSE listing
    /\ UNCHANGED <<pair, row, job, faults, meddled>>

\* ... and mark_bisync_needs_resync ends it.
MarkOutside ==
    /\ outside.step = "mark"
    /\ NeedsResync
    /\ outside' = NothingOutside
    /\ UNCHANGED <<pair, listing, job, faults, meddled>>

BisyncFault ==
    /\ faults < MaxFaults
    /\ faults' = faults + 1
    /\ meddled' = TRUE

\* The copy to the destination fails before it has written anything: nothing
\* has changed.
GiveUpOutside ==
    /\ outside.step = "destination"
    /\ outside' = NothingOutside
    /\ UNCHANGED <<pair, row, listing, job, faults, meddled>>

\* The destination is written and the copy to the save folder, or the removal
\* of the loser, fails: `?` returns without the mark.
FailOutside ==
    /\ outside.step = "mark"
    /\ BisyncFault
    /\ outside' = NothingOutside
    /\ UNCHANGED <<pair, row, listing, job>>

\* The program is closed, between the two statements of set_paths or not.
Crash ==
    /\ BisyncFault
    /\ pair' \in {pair} \cup Pairs
    /\ job' = [j \in Jobs |-> Idle]
    /\ outside' = NothingOutside
    /\ UNCHANGED <<row, listing>>

BisyncInit ==
    /\ pair = NoPair
    /\ row = NoRow
    /\ listing = [p \in Pairs |-> [s \in Subfolders |-> "none"]]
    /\ job = [j \in Jobs |-> Idle]
    /\ outside = NothingOutside
    /\ faults = 0
    /\ meddled = FALSE

CycleStep(j) ==
    Start(j) \/ ResyncFolder(j) \/ BisyncFolder(j) \/ FailCycle(j) \/ Finish(j)

OutsideStep ==
    \/ ChangeOutside \/ WriteDestination \/ MarkOutside
    \/ GiveUpOutside \/ FailOutside

BisyncNext ==
    \/ \E j \in Jobs : CycleStep(j)
    \/ \E p \in Pairs : SetPaths(p)
    \/ \E c \in OfferedModes : SetHistoryModes(c.enabled, c.incremental, c.full)
    \/ OutsideStep
    \/ Crash

BisyncSpec == BisyncInit /\ [][BisyncNext]_bisyncVars

-----------------------------------------------------------------------------
\* Types.
BisyncTypeOK ==
    /\ pair \in Pairs \cup {NoPair}
    /\ row \in {NoRow} \cup [enabled : BOOLEAN, incremental : BOOLEAN, full : BOOLEAN,
                             initialized : BOOLEAN]
    /\ listing \in [Pairs -> [Subfolders -> {"none", "good", "stale"}]]
    /\ job \in [Jobs -> [step : {"idle", "initial", "normal"}, pair : Pairs \cup {NoPair},
                         next : 1..Subtrees + 1]]
    /\ outside \in [step : {"idle", "destination", "mark"}, pair : Pairs \cup {NoPair}]
    /\ faults \in 0..MaxFaults
    /\ meddled \in BOOLEAN

\* The flag and rclone agree, in a program whose cycles, reverts, resolutions
\* and changes of paths never overlap and are never cut short: initialized
\* means that every subtree of the configured pair has a listing that is right,
\* even after cycles that failed at their first or second subtree, and two
\* first cycles at once.
FlagMeansListed ==
    ~meddled /\ Quiet /\ GetHistory.initialized =>
        \A s \in Subfolders : listing[pair][s] = "good"

\* A cycle about to run without --resync finds listings it can trust.
NormalCyclesTrusted ==
    ~meddled => \A j \in Jobs : job[j].step = "normal" =>
        \A s \in job[j].next..Subtrees : listing[job[j].pair][s] = "good"

=============================================================================
