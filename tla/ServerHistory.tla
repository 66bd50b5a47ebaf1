--------------------------- MODULE ServerHistory ---------------------------
(***************************************************************************)
(* The history the server keeps of one emulator: what a commit copies aside*)
(* before it touches the live tree (api.rs commit, storage.rs              *)
(* apply_to_live, backend.rs snapshot_full), the retention it applies after*)
(* (api.rs prune_history) and the policy the web UI saves.  A commit and   *)
(* its prune run under the database mutex, as one step, and so does one    *)
(* that fails on the way.  Index, sessions and tombstones are left to      *)
(* SyncServer, the place between the two halves of a rename to CommitCrash.*)
(***************************************************************************)
EXTENDS Retention

CONSTANTS Paths,
          Contents,
          NoFile,        \* no file at a path
          SizeOf,        \* content -> Nat
          Policies,      \* the settings the user chooses from
          DefaultDays, DefaultCap,
          MaxTime,       \* bound: seconds
          MaxCommits     \* bound: commits

Policy == [enabled : BOOLEAN, incremental : BOOLEAN, full : BOOLEAN, days : Nat, cap : Nat]

ASSUME ServerHistoryAssumption ==
    /\ NoFile \notin Contents
    /\ IsFiniteSet(Paths)
    /\ SizeOf \in [Contents -> Nat \ {0}]
    /\ Policies \subseteq Policy
    /\ {DefaultDays, DefaultCap, MaxTime, MaxCommits} \subseteq Nat

VARIABLES
    fileBased,  \* whether the emulator's saves are single files (pcsx2); never changes
    now,
    live,       \* path -> content, the tree under data/live
    runs,       \* name -> the tree under full/ and the one under delta/
    policy,     \* the history_settings row of the emulator
    replaced,   \* ghost: what commits wrote over or deleted, with their second
    commits     \* ghost: commits of each second that wrote, and after one the refused

serverHistoryVars == <<fileBased, now, live, runs, policy, replaced, commits>>

NoTree == [p \in Paths |-> NoFile]
Tree   == [Paths -> Contents \cup {NoFile}]

\* HistorySettings::defaults_for
DefaultPolicy == [enabled |-> TRUE, incremental |-> ~fileBased, full |-> fileBased,
                  days |-> DefaultDays, cap |-> DefaultCap]

Held(tree)     == {p \in Paths : tree[p] # NoFile}
SizeIn(tree)   == MapThenSumSet(LAMBDA p : SizeOf[tree[p]], Held(tree))
Over(old, new) == [p \in Paths |-> IF new[p] = NoFile THEN old[p] ELSE new[p]]

RunAt(ts) == IF ts \in DOMAIN runs THEN runs[ts] ELSE [full |-> NoTree, delta |-> NoTree]

\* list_snapshots: a run is listed by the files it holds.
Listed(all) == {r \in DOMAIN all : Held(all[r].full) \cup Held(all[r].delta) # {}}
SizesOf(all) == [r \in DOMAIN all |-> SizeIn(all[r].full) + SizeIn(all[r].delta)]

-----------------------------------------------------------------------------
\* snapshot_full: the live tree is copied over whatever the folder holds.
SnapshotFull(run) == [run EXCEPT !.full = Over(@, live)]

\* A slip: the copy is made after the files are written.
KeepPreviousLate(run, change) ==
    [run EXCEPT !.delta =
        Over(@, [p \in Paths |-> IF p \in DOMAIN change THEN change[p] ELSE NoFile])]

\* The first loop of apply_to_live: what is about to be written over or deleted.
KeepPrevious(run, change) ==
    [run EXCEPT !.delta =
        Over(@, [p \in Paths |-> IF p \in DOMAIN change THEN live[p] ELSE NoFile])]

\* What a commit leaves in the folder of its second, under the policy `use`.
KeptBy(use, change) ==
    LET full  == IF use.enabled /\ use.full THEN SnapshotFull(RunAt(now)) ELSE RunAt(now)
    IN  IF use.enabled /\ use.incremental THEN KeepPrevious(full, change) ELSE full

WithRun(run) == [r \in DOMAIN runs \cup {now} |-> IF r = now THEN run ELSE runs[r]]

\* core::history::prune_history: the runs picked, less those whose purge fails.
Picked(all, use) ==
    IF use.enabled
    THEN PickSnapshotsToPrune(Listed(all), SizesOf(all), use.days, use.cap, now)
    ELSE {}

Purged(all, gone) == [r \in DOMAIN all \ gone |-> all[r]]

Room == MapThenSumSet(LAMBDA t : commits[t], 0..MaxTime) < MaxCommits

\* What the paths written so far leave behind.
Writing(change, written) ==
    /\ live' = [p \in Paths |-> IF p \in written THEN change[p] ELSE live[p]]
    /\ replaced' = replaced \cup
          {<<now, p, live[p]>> : p \in {q \in written : live[q] # NoFile}}
    /\ commits' = [commits EXCEPT ![now] = @ + 1]
    /\ UNCHANGED <<fileBased, now, policy>>

\* commit: the policy is that of the defaults, whatever set_settings has saved.
Commit(change) ==
    LET kept == WithRun(KeptBy(DefaultPolicy, change))
    IN  /\ Room
        /\ Writing(change, DOMAIN change)
        /\ \E gone \in SUBSET Picked(kept, DefaultPolicy) : runs' = Purged(kept, gone)

\* An error once the writing has begun, in the tree (uploads come before
\* deletions) or in the rows that follow: no prune.
CommitStops(change) ==
    LET uploads == {p \in DOMAIN change : change[p] # NoFile}
    IN  /\ Room
        /\ \E written \in SUBSET DOMAIN change \ {{}} :
              /\ written \subseteq uploads \/ uploads \subseteq written
              /\ Writing(change, written)
        /\ runs' = WithRun(KeptBy(DefaultPolicy, change))

\* The copying aside fails half-way, of the whole tree or of what is about to be
\* written over: the commit is refused, and what was copied stays.  Counted when
\* a commit came before it in its second.
CommitRefused ==
    /\ Room
    /\ DefaultPolicy.enabled
    /\ \E some \in SUBSET Paths :
          LET copied == [p \in Paths |-> IF p \in some THEN live[p] ELSE NoFile]
          IN  runs' = WithRun(IF DefaultPolicy.full
                              THEN [RunAt(now) EXCEPT !.full = Over(@, copied)]
                              ELSE [RunAt(now) EXCEPT !.delta = Over(@, copied)])
    /\ commits' = [commits EXCEPT ![now] = IF @ = 0 THEN 0 ELSE @ + 1]
    /\ UNCHANGED <<fileBased, now, live, policy, replaced>>

\* set_settings: validated (a history needs a mode, single files take no
\* incremental one) and stored.
SetSettings(asked) ==
    LET kept == [asked EXCEPT !.incremental = @ /\ ~fileBased]
    IN  /\ asked.enabled => kept.incremental \/ kept.full
        /\ policy' = kept
        /\ UNCHANGED <<fileBased, now, live, runs, replaced, commits>>

PassSecond ==
    /\ now < MaxTime
    /\ now' = now + 1
    /\ UNCHANGED <<fileBased, live, runs, policy, replaced, commits>>

ServerHistoryInit ==
    /\ fileBased \in BOOLEAN
    /\ now = 0
    /\ live = NoTree
    /\ runs = [r \in {} |-> NoTree]
    /\ policy = DefaultPolicy
    /\ replaced = {}
    /\ commits = [t \in 0..MaxTime |-> 0]

\* A plan writes or deletes at least one path.  After a commit that stopped the
\* tree is ahead of the index: what is planned may be there already.
Changes ==
    UNION {[some -> Contents \cup {NoFile}] : some \in SUBSET Paths \ {{}}}

ServerHistoryNext ==
    \/ \E change \in Changes : Commit(change) \/ CommitStops(change)
    \/ CommitRefused
    \/ \E asked \in Policies : SetSettings(asked)
    \/ PassSecond

ServerHistorySpec == ServerHistoryInit /\ [][ServerHistoryNext]_serverHistoryVars

-----------------------------------------------------------------------------
\* Types.
ServerHistoryTypeOK ==
    /\ now \in 0..MaxTime
    /\ live \in Tree
    /\ DOMAIN runs \subseteq 0..now
    /\ \A r \in DOMAIN runs : runs[r] \in [full : Tree, delta : Tree]
    /\ policy \in Policy
    /\ replaced \subseteq (0..now) \X Paths \X Contents
    /\ commits \in [0..MaxTime -> 0..MaxCommits]

Keeps(lost) ==
    LET run == RunAt(lost[1])
    IN  lost[3] \in {run.full[lost[2]], run.delta[lost[2]]}

\* A content that a commit wrote over or deleted is in the run folder of that
\* commit, at its path, for as long as the folder exists: whatever else the
\* same commit touched and wherever it stopped, whatever refused commits left
\* there before, and with one mode or the other.  Held to commits with none after
\* them in their second.
ReplacedAreKept ==
    \A lost \in replaced :
        lost[1] \in DOMAIN runs /\ commits[lost[1]] = 1 => Keeps(lost)

\* The same of every commit (storage.rs, "Guarda a versao que esta prestes a
\* sumir").
PreviousIsKept ==
    \A lost \in replaced : lost[1] \in DOMAIN runs => Keeps(lost)

\* A prune takes no run that the two rules spare, age and sizes being those of
\* the whole folder, with the run of this commit in it.
PrunesAreEarned ==
    [][LET kept == [r \in DOMAIN runs \cup {now} |-> IF r \in DOMAIN runs' THEN runs'[r]
                                                  ELSE runs[r]]
       IN  now \in DOMAIN runs' =>
             Spared(Listed(kept), SizesOf(kept), DefaultDays, DefaultCap, now)
                \subseteq DOMAIN runs']_serverHistoryVars

\* docs/protocol.md: a commit takes its snapshot "as the history_settings of the
\* emulator say"; with the history off, none.
OffKeepsNothing == [][~policy.enabled => Listed(runs') \subseteq Listed(runs)]_serverHistoryVars

=============================================================================
