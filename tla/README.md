# Verification of save-sync

TLA+ models, model checks and machine-checked proofs for the save-sync
repository: replication of emulator saves between devices through a server that
owns the tree, its index and its history. Paths below are relative to the
repository.

## 1. The system

| Component | State | Operations | Talks to |
|---|---|---|---|
| Plan computation, `crates/core/src/protocol.rs` | none | `compute_plan`, `next_conflict_path` | called by the server's `plan` |
| Sync client, `crates/core/src/client.rs` | the emulator folder on disk | `scan_tree`, `local_changes`, `sync_emulator` (plan, rename losers, upload, commit, download, delete) | server over HTTP |
| Client database, `crates/core/src/db.rs` | baseline and `last_rev` per emulator; emulator paths, history settings, server credentials | `load_baseline`, `save_baseline`, `set_paths`, ... | desktop agent |
| Desktop agent, `apps/client-pc/src-tauri/src/lib.rs` | watchers, running syncs, state of each emulator | `run_sync`, `start_watch`, `set_enabled`, `resolve_conflict`, `revert_save`, pairing | all of the above; the UI |
| Server handlers, `apps/server/src/api.rs`, `db.rs` | `emulator_state` (head, floor), `file_index`, `device_state`, `sessions`, `session_blobs` | `plan`, `put_blob`, `get_blob`, `commit`, pruning, web reads | storage, users, auth |
| Server storage, `apps/server/src/storage.rs` | live tree and staging directories | `stage_blob`, `apply_to_live`, `clear_staging` | handlers |
| Pairing and tokens, `apps/server/src/auth.rs` | `devices`, `pairing_codes` | create and redeem a code, revoke | handlers |
| Users, `apps/server/src/users.rs` | `users`, `web_sessions`, `login_attempts` | login, logout, lockout | handlers |
| History, `crates/core/src/history.rs`, `backend.rs` | snapshot directories, `.conflict<n>` files | prune, list, revert, resolve | handlers, agent |
| Legacy engine, `crates/core/src/engine.rs`, `rclone.rs` | `bisync_initialized` flag, a remote | `do_sync` modes around rclone | agent, when no server is paired |
| Watchers, `crates/core/src/sync.rs` | debounced filesystem events | start a sync | agent |
| Title databases, parsers, detection | lookup tables | pure | UI |
| Android protocol client | as the sync client | a Kotlin mirror of `client.rs` | server |
| Web UI | presentation | | server, agent |

### How they interact

The agent loads the baseline, calls `sync_emulator`, and saves the baseline it
returns. The cycle makes one `plan` request, any number of blob requests and one
`commit`, then changes its disk. On the server a handler holds the mutex of the
SQLite connection for its whole body (`put_blob` and `get_blob` release it around
file access); between `plan` and `commit` the only protection is the `sessions`
row, which locks the emulator for one device until it commits, replans, expires
(one hour) or is revoked. A commit moves files in the live tree, then writes one
row per path at the new head revision, then prunes tombstones past ninety days
and raises the floor under which a device is told `410 resync_required`.

### What is hard

* Two devices interleave plans, uploads and commits; a session may expire under
  the device that holds it (lock, freshness of the stored plan).
* A cycle may stop between any two steps, and replies may be lost after the
  server acted (crash recovery, idempotence of the next cycle).
* Deletions are remembered as tombstones and forgotten after a while
  (off-by-one at the floor, resurrection of files).
* Conflict losers get names chosen by the server from what is live there, while
  devices hold losers and tombstones the server does not count.
* Users keep writing to the folder while the cycle runs, and clocks disagree.
* A commit touches files and rows without a transaction, and the server may be
  killed, or a disk or database operation fail, anywhere in it.
* Handlers write and read blobs outside the mutex and outlive the cycles that called
  them.
* The lock of an emulator, the lock of an account and every session end by the clock
  while others wait.
* The desktop's commands, watcher tasks and cycles interleave at every `await`, on a
  channel of events that overflows and handles that are dropped.
* Without a server, rclone's listings, the flag that says whether they exist, the
  history beside the saves and the losers of conflicts are changed by programs that
  know nothing of each other, on two computers, and any step may fail.
* A program may be killed between any two statements of a migration.

What makes each part correct: plans send a device exactly what it misses and
never contradict themselves; the lock makes commits serial; no deletion is
forgotten for a device still admitted; the baseline is the server's tree at
`last_rev`; index and tree agree; no content anybody saved disappears unless
somebody who saw it replaced it. `PROJECT.json` lists the hazards at their lines.

## 2. Modules

| Module | Models | State and actions |
|---|---|---|
| `SyncPlan` | `protocol.rs`, `local_changes` | operators: `LocalChanges`, `ComputePlan`, `NextConflictPath` |
| `SyncServer` | the sync handlers, tables and tree for one emulator | `head_rev`, `min_valid_rev`, `file_index`, `live`, `device_last_rev`, `sessions`; `PlanBusy` (429), `PlanGone` (410), `Plan`, `PutBlob`, `Commit`, `CommitFails`, `RevokeDevice` |
| `OpenServer` | the server with devices that may send anything | `DeviceStep`; refinement mapping to `SerialCommits` |
| `SerialCommits` | the abstract promise: a compare-and-swap store | `Look`, `GiveUp`, `Swap` |
| `SyncSystem` | server, devices and users together | `disk`, `baseline`, `sync`; one action per step of `sync_emulator`, plus lost replies, aborts, re-pairing, saves and deletions |
| `CommitCrash` | `SyncSystem` with commits that stop half-way | `StopInFiles`, `StopInRows`, `StopInPrune` over the prefixes of the commit's work |
| `DeviceFolder` | one device over time: `scan_tree` with its reuse of hashes, a folder that is missing or changed, a server that is changed | saves of the user and of others, whole cycles, unmounting, moving, pairing elsewhere |
| `SessionLock` | the lock of an emulator against the clock | ask, refused, plan, upload, resend, commit, abort, expiry; `LockTick` |
| `BlobStaging` | `put_blob`, `get_blob` and `commit` with the parts they do outside the mutex | the handlers between their locked blocks (`puts`, `gets`), `staging`, `session_blobs`, `tree`, `file_index` |
| `Accounts` | `users.rs`, `auth.rs`: passwords and their lock, browser sessions, pairing codes, devices | one action per request; `Tick` |
| `TitleDbs` | loading, downloading and refreshing a title database, on the server and in the app | the file, the table in memory, the flag; each task step by step; restarts |
| `Retention` | `pick_snapshots_to_prune` | operators over runs, their ages and sizes |
| `ServerHistory` | what a commit copies aside and prunes, the stored policy | commits, whole, refused or stopped while they write; settings, reuse of a second |
| `Migrations` | opening a database, statement by statement | several processes, kills; the statements are a constant |
| `ServerMigrations`, `DesktopMigrations` | the statements of the two programs | `ServerScript`, `DesktopScript` |
| `Bisync` | when a cycle without a server resyncs (`engine.rs`, `lib.rs`) | rclone's listings, `bisync_initialized`, settings, triggers that overlap, faults |
| `SaveHistory` | snapshots, backups, prunes and reverts without a server | two desktops on one destination |
| `Conflicts` | the losers rclone leaves: renamed by the cycle, listed and resolved by the user | both sides, markers, failing operations |
| `Watchers` | the agent's triggers: commands, watcher tasks, cycles, events | `AppData` as it is under its lock, channels, tables of handles, every task's place |
| `MCOpenServer`, `MCSyncSystem`, `MCCommitCrash`, `MCDeviceFolder` | instances for TLC | |
| `ServerParts`, `AgentParts` | several independent parts, one beside the other (below) | `part`, and those of the parts |
| `MCServerParts`, `MCAgentParts`, `MCServerWaits`, `MCWatchers` | instances of independent parts; the last two compose theirs themselves | |
| `SyncPlanProofs`, `ServerProofs`, `OpenServerProofs`, `SystemProofs`, `ContentProofs`, `ServerPartsProofs`, `AgentProofs`, `TriggersProofs` | theorems and proofs | |

How they compose. `SyncServer` uses `SyncPlan`; `OpenServer` and `SyncSystem` close
it with arbitrary and with real devices; `CommitCrash` extends `SyncSystem`;
`OpenServer` implements `SerialCommits`. `SessionLock` and `BlobStaging` look at the
same handlers along another axis, time and the mutex, and abstract from what plans
contain. `ServerHistory` and `SaveHistory` use `Retention`. `Bisync`, `SaveHistory`
and `Conflicts` share the cycle of `engine.rs`: the first has its modes and listings,
the second its snapshots, the third its losers.

Several parts of a program share neither a table nor a directory. `ServerParts`,
`AgentParts`, `MCServerWaits` and `MCWatchers` put such parts into one run: a variable
`part` (`crew` in `MCWatchers`), fixed at the start, says which of them moves, and the
others stay as they begin. A behaviour is then about one part. Side by side they would
only multiply each other's states, because no action of one reads or writes what
another has.

Correspondence and abstractions of the sync modules:

* A path is a file plus the list of `.conflict<n>` numbers appended to it: all the
  protocol ever does with a name. A content is its hash. Lists are sets; an upload
  item also carries the path it was decided for, so that a path listed twice stays
  visible (`RepeatedUploads`). `validate_path` is the assumption that reports hold
  well-formed paths.
* A handler is one action. The session's row and its blobs are one record, with
  ghost fields (`changes`, `since`, `head`) remembering what its plan was computed
  from. Removing a session removes its blobs, as the foreign key does.
* Time is a choice: `plan` may find any set of sessions expired, and a commit may
  find any tombstone but its own too old. Real time allows fewer runs. `SessionLock`
  has a clock instead.
* A commit that stops is one action that leaves a prefix of its steps behind: the
  handler holds the mutex and never awaits, so a prefix is seen only by requests
  that come after it stopped. A prefix of a list is any subset of it, since the
  model leaves the order of lists open. `StopsAt` says where a run's commits may
  stop. The session of a commit that stopped stays until its device plans again or
  it expires; `client.rs` never commits a session twice, so the files missing from
  its staging directory need no variable.
* In `SyncSystem` the scan is part of the plan request; an edit in between touches
  only the disk and is the same as an edit just after. The hash of a scanned file
  is its content; `DeviceFolder` has the reuse by size and mtime.
* `superseded` and `snapshots` are ghosts: contents a user saw and replaced or
  deleted, and the live contents after each commit.
* `SyncSystem` has four switches. `MayPairAgain` adds revocation and re-pairing and
  is on. `EditMarkers`, `EditReplaced` and `EditDangling` add user behaviour under
  which the protocol fails (section 5). With them off, users keep three habits: they
  leave `.conflict<n>` files alone, they do not touch a file that the running cycle is
  about to replace, and they do not save or delete a file whose loser lies beside it
  and is in no commit yet, whether this cycle renamed it or one that was interrupted.

And of the others:

* `Accounts`: a deadline is kept as the time left or the age. `mistakes` is a ghost
  that counts wrong passwords by the clock of an observer. Hashes of passwords and
  tokens are abstracted to knowing them.
* `BlobStaging`: session ids are given out in order where the code draws random
  ones. A plan wants any of the device's files and no deletions. A staging directory
  whose session is removed stays, as in the code.
* `SessionLock`: `unfed` and `quiet` are ghosts, the time since the owner planned or
  stored something new and since it sent anything. The desktop does not retry by
  itself: a device that asks is one whose user or watcher starts a cycle again. A
  cycle may fail at any step and be started again any number of times: nothing bounds
  the stops.
* `TitleDbs`: an edition of the upstream is a number, and a file in place of which
  another is being written is `Torn`. `lenient`, fixed at the start like `desktop`,
  tells the two databases apart: the line scanner of the PS2 index returns what it has
  read of a cut file, the JSON parser of the Switch one returns nothing.
* `ServerHistory`: a commit that stops while it writes (`CommitStops`) leaves its copies
  aside, prunes nothing, and has written uploads, or all uploads and some deletions;
  one that is refused before it writes leaves the copies only. The tree may then be
  ahead of the index. What lies between the two renames of a conflict is in
  `CommitCrash`.
* `Conflicts`: `use_conflict` stops at the second copy, or at the removal of the
  destination's marker after both (`UseConflictFails`), with nothing marked; the save
  folder's marker is removed if it can be (`UseConflict`).
* `Migrations`: `CREATE TABLE IF NOT EXISTS`, `ADD COLUMN`, the seeding of rows and
  the updates of `history_settings` each have their meaning on the schema; a boot
  that stops leaves what was committed.
* `Bisync`, `SaveHistory`, `Conflicts`: rclone is external. `bisync` and `copy` do what
  the code relies on: a resync writes listings and lets the newer file win, a normal
  cycle without a listing fails, `--backup-dir` keeps what is written over.
* `Watchers`: a command or task is one action per critical section of `AppData`. A
  started watcher has a handle in a table of its kind; dropping the handle ends the
  task at its next poll. An event in the channel is counted, with the writes it
  stands for as a ghost.

## 3. Runs

Deadlock checking is off in every run: most counters are bounded, so the bounded
system stops by design. States are distinct ones.

| Run | Asks | Bounds |
|---|---|---|
| `open_server` | lock, freshness, revision bounds, tombstone floor, serial commits | 2 devices, 1 file and its markers, 3 commits, 4 sessions; 27k states |
| `system` | whole cycles, devices revoked and paired again: baselines, contents, plans, index against tree | 2 devices, 1 file, 3 contents, 2 clock readings, 3 commits, 3 sessions; 690k states |
| `commit_stops` | which changes and revisions survive commits that stop anywhere | 2 contents, 4 sessions, all three kinds of stop, re-pairing; 880k states |
| `server_parts` | passwords, codes; blobs outside the mutex; what the history keeps and drops | 2 names, 2 failures, a lock of 2 ticks, 2 codes, 1 session; 2 devices, 1 path, 2 contents, 3 plans; 2 paths, 3 seconds, 3 commits; 510k states |
| `server_waits` | who waits gets there: askers for the lock, a locked account, the names | 3 devices, 1 upload, any number of stops, a TTL of 1 tick; 2 names; both databases, in the app and on the server, 2 editions, 1 refresher beside the loader, 1 failed download, 2 boots; 99k states |
| `agent_parts` | migrations, resync flag, history, losers, one device over time | 2 processes, 1 kill, 2 emulators; 2 pairs of folders, 2 jobs, 2 subtrees, 1 fault; 3 seconds, 2 versions, 1 command; 7 saves, 3 losers, 2 failures; 4 revisions, 4 contents; 1.3M states |
| `watchers` | commands, tasks and cycles: what is shown is current, changes and exits start cycles, stopped loops end | four crews of tasks, channel of 1, up to 2 commands, 2 writes, 3 starts or ends of a game; 170k states |
| `lost_loser`, `lost_tombstone`, `gone_forever`, `boots_no_more`, `missing_folder` | the disagreements of section 5 | found within the same bounds |

Why the bounds suffice for the cases of interest.

* Sync: two devices are the smallest number that conflict, and every property relates
  at most two of them and the server. Three commits admit delete, prune and a return
  from before the prune; three contents admit a conflict followed by an edit of its
  winner. One user file with its markers already gives paths that interact; files
  without a common name meet only in the floor and the head. `MaxRev`, `MaxSessions`
  and `MaxVersions` are guards on `Plan` and `UserSave` and restrict nothing else.
  Devices are symmetric.
* `server_parts`: a lock of two ticks is longer than one wrong password; one path is
  enough for a file that is written twice; three plans are two cycles of a device
  with another's between them. A cap of 3 holds two small contents and no more than
  one large: both rules of the retention have something to drop. Three seconds admit
  two commits in one.
* `server_waits`: three devices are one that stops with the lock, and two that compete
  for it afterwards. Loader and refresher overlap in every way on one file; a second
  refresher adds nothing to a file two tasks write at once, and `DatesCoverNames` is
  proved of any number. The second boot is the one that meets a file the first left cut.
* `agent_parts`: two processes interleave the two halves of every migration. Two pairs
  are a change of path and back; two subtrees a cycle that fails between them. Seven
  saves and three losers admit a conflict about the winner of a conflict.
* `watchers`: each crew is the smallest set of tasks for one kind of race: two starts of
  one watcher with the button, writes during cycles, both kinds of watcher, a game
  that starts again. A channel of one overflows at the second event.

Properties: `ServerTypeOK`, `SystemTypeOK`, `PartsTypeOK`, `WaitsTypeOK` and
`WatchersTypeOK` are type invariants (one per run, the conjunction of the modules').
`OnlyUnfedSessionsExpire`, `PrunesAreEarned` and `OnlyUsersDelete` speak of steps, as
does `ConflictsAreConcurrent` of section 5. `LocksEnd`, `AdmittedAskersGetThrough`,
`NamesSettleUnlessCut`, `ChangesAreRead`, `ExitsAreNoticed` and `StoppedLoopsEnd` are
liveness properties. Two of them have a hypothesis, which stands in the formula:
`AdmittedAskersGetThrough` that the others let go of the lock (`OthersLetGo`),
`NamesSettleUnlessCut` that no cut PS2 index comes to be parsed (`CutIndexInReach`).
Without it the code keeps neither (section 5). `CommitsAreSerial` is the refinement. The others are state invariants.
Each comes with a mutant of the model, listed in `PROJECT.json`, that breaks it: an
operator beside the one it replaces, with the slip a programmer could make.

What the runs show, hazard by hazard, is in `PROJECT.json`. In short: the lock and the
stored plans survive every interleaving, expiry and stop; the baseline of a device is
the tree of its revision, and no content is lost to a device that follows the rules of
section 2; deletions, though not edits, can be missed after a stopped prune; blobs and
index agree although files are written outside the mutex; passwords are tried at the
rate the lock allows and codes pair once; every device the floor still admits gets its
turn, unless another fails and plans again within the hour, for ever; the names of the
games settle, unless a cut PS2 index is left behind; a resync is never skipped where the flag was earned; losers of conflicts stay on
some disk until a user resolves them; the agent reads every change made while its
watcher is the registered one, and notices every exit.

### Fairness

* `SessionLock`: weak fairness of time and of the next request of a cycle that was not
  aborted (the client issues it as soon as the last one returned); strong fairness of
  `Plan` per device. That one is the meaning of "a device that keeps asking": the lock
  is taken and released for ever, and a device that asks again and again asks, at some
  point, while it is free. The server does not queue; nothing weaker would do. It is
  not enough either: a device that plans again while its own session is good replaces
  it by a fresh one under one mutex (`api.rs:630`), so the lock is never free in
  between. `OthersLetGo` excludes that from some moment on, and only that: stops are
  neither bounded nor assumed to end. Who fails in every cycle but waits out its own
  hour is no obstacle.
* `Accounts`: weak fairness of time. Nobody is assumed to log in.
* `TitleDbs`: weak fairness of the boot and of every task: the runtime polls tasks that
  can go on, and a download ends in success or failure. Nobody is assumed to publish,
  to refresh or to quit, and the process may quit at any step.
* `Watchers`: weak fairness of every task that can go on, of the sending of an event
  after the lock is released, and of the two timers of a loop (debounce and poll),
  for the same reason. Nobody is assumed to press a button, to save or to play.

## 4. Proofs

`tlapm` checks, for any devices, files, contents, reports, names, tasks, limits and bounds:

* `SyncPlanProofs`: `NextConflictPathFresh` (among the first |taken|+1 suffixes one
  is free, by the pigeonhole principle), `PlanWellFormed` (what a commit may rely
  on in a plan), and lemmas on names, markers and the contents of the lists.
* `ServerProofs`: no theorem of its own; the lemmas on rows, pruning, plans and commits
  that both the open server and the system need.
* `OpenServerProofs`: `ServerInvariantHolds`, from which `ServerTyped`,
  `LockExclusive`, `PlanStaysFresh`, `RevisionsWithinHead` and `NoChangeIsMissed`
  follow, and `ServerIsSerial`, the refinement of `SerialCommits`.
* `SystemProofs`: `SystemTypes` for whole cycles; `CrashKeepsRevisionsBounded` and
  `CrashKeepsEdits` for commits that stop anywhere.
* `ContentProofs`: `NoContentIsLost`, `BaselinesAreSnapshots`, `IndexFollowsTree` and
  `PlansStayDisjoint` for whole cycles of users who keep the habits of section 2.
* `ServerPartsProofs`: `PasswordsAreRationed` and `CodesArePairedOnce` for the accounts,
  `RowsAlwaysStaged` and `IndexAlwaysLive` for the blobs, `ReplacedStayKept` and the
  action property `ServerPrunesAreEarned` for the server's history, `DatesCoverNames` for
  the title databases; `PicksWhatIsNotSpared`, what the retention computes; the types of
  the parts (`AccountsAreTyped`, `StagingIsTyped`, `ServerHistoryIsTyped`) and of their
  composition (`ServerPartsAreTyped`).
* `AgentProofs`: `FlagsMeanListed` and `NormalCyclesAreTrusted` (`Bisync`),
  `LosersStayOnHand` and `DiscardedAreGone` (`Conflicts`), `ReplacedAreInTheirRun`
  and `SaveHistoryIsTyped` (`SaveHistory`), `DesktopVersionIsEarned` and
  `ServerVersionIsEarned` (`Migrations` with each program's script),
  `FolderMeetsServer` and the action property `CycleBuriesOnlyDeleted`
  (`DeviceFolder`); the types of the composition (`DesktopPartsAreTyped`).
* `TriggersProofs`: `WatchersAreTyped` and `WhatIsShownIsCurrent` (`Watchers`),
  `LockIsHeldOnce` and `UnfedSessionsExpire` (`SessionLock`), the last one an action
  property.

The argument for the server. The five invariants are inductive together and not one by
one: the rows of a commit are well-typed because its plan is the one the current index
gives (`PlanIsFresh`) and plans are well-formed; the plan stays fresh because a commit
or an expiry leaves no second session (`SessionExclusive`); nothing is missed because
new rows lie above every earlier revision and pruning takes only rows below the new one
(`RevisionsBounded`). A tombstone that pruning takes is no younger than the floor, so
a device the floor still admits at r > 0 has already passed it, and r = 0 is the empty
tree. Assumptions: `NoHash` is not a content, the bounds are naturals, reports hold
finitely many well-formed paths, mtimes are integers.

For devices and stopped commits. `SystemOK` keeps what the server's argument says of
rows and revisions (`ServerCore`) and drops `PlanIsFresh`, which a stopped commit
breaks: its session stays, planned on an index that is gone. What is inductive instead
is that a session *a running cycle still owns* is fresh (`CycleOK`); the device of a
stopped commit has lost its cycle, and the lock keeps the others out. No edit is missed
because a live row below a device's revision has stood unchanged since (`RowsStand`),
which a prefix of a commit cannot break: it writes rows above every revision. Nothing
is assumed of users here.

For the contents. None of the four properties is inductive, nor are all four together:
a cycle may stop anywhere and the next one starts from whatever it left. `ContentInv`
therefore says, stage by stage, what disk, staged tree, baseline and server owe to each
other. `DeviceInv`: the baseline is the snapshot of its revision; a file of it that differs on
disk was touched by the user, or the server has changed it since (`Told`); and a loser
that no commit holds lies where its winner is missing (`LosersAlone`).
`RenameStage` and `OwnedStage`: which losers are renamed, and that the tree to be
committed is the report with those renames. `ApplyStage`: the next baseline is the
snapshot of the commit, but for what is left to download or remove, and everything that
is about to be overwritten is on the server or was replaced knowingly.
`MarkersStay`: a loser the server has once is never deleted, so that a name it hands
out meets no tombstone; this is what makes plans disjoint and losers safe.
What is said of the server is about a session its device owns or can only become truer
(`Grows`), so that the steps of one device do not disturb what is said of another;
`CommittedTree` is the heart: after a commit, tree and staged files agree wherever
nothing is left to apply. The theorems assume `Careful`, the three switches off, as in
the run `system`: with any of them on, section 5 has a counterexample to a property.
Further assumptions: contents are numbered as they are written, clock readings are
integers.

The proof corrected the model. The third habit used to bind users only between cycles,
and TLC found nothing wrong within the bounds of `system`. The step of a user's save
during the cycle could not be proved, and the state it led to can be reached: a device
renames a loser and stops; another deletes the file, commits, and the tombstone is
pruned; the first plans again and its user saves the file *while the cycle runs*;
the cycle stops; another device saves the file and commits; then the first device's next
conflict gets the name of the loser it still holds, the tree and the index part, and a
content is gone. That takes five commits, seven sessions and four contents, more than a
run can afford. The program does behave so: it is the failure of `DanglingLoser`
(section 5) by another way. The habit now also covers a running cycle that has not
committed. `ContentInv` was checked by TLC on the instance of `system` before it
was proved.

For the passwords. `RationInvariant` ties the counter of the table to the streak of
mistakes an observer counts (`Counted`): they are equal as far as both count, and when
the counter is full, the time the lock has left and the time since the last mistake
add up to a whole lock. A wrong password is checked only for a name whose lock is over,
so the name was left alone that long. For the codes: a device carries the code that
made it, and that code is marked (`CodesInvariant`). Assumptions: at least two failures
before the lock, a lock of at least one tick.

For the blobs. `RowsAreStaged` alone is not inductive: a handler of a given-up cycle
may write a file at any time. It never writes one that has a row, because a device
sends a path once in a session (`RowsWereSent`, `WritersHaveNoRow`), one handler at a
time (`OneWriter`), and no two cycles share a session (`CyclesApart`, `PutsOfCycle`);
and a handler that is back from the disk has left its bytes (`StagedPutsStaged`).
`IndexIsLive` follows because a commit moves files and copies rows of the same paths.
The theorems are about devices that keep to the cycle of `client.rs` in this respect.
Assumption: "no session" is not the number of one.

For the server's history. A second that counts one commit has no older loss to keep
when that commit comes: what is lost is counted (`CommitsCounted`), refused commits
before it are not. What a commit wrote before it stopped is counted too, and all of it
was copied aside before. So the copy aside, of the whole tree or of what the commit touches,
is of the live tree, and later commits and refusals, which would touch it, raise the
count. For the title databases: the mtime of the file never falls and never passes the
edition that is out, and what is in the file, or was parsed from it, is no newer
(`TitlesInvariant`); the table takes the mtime of the moment it is installed.

For the retention. `Spared` says run by run what the two rules mean: a run stays when it
is young enough and fits under the cap together with every younger one that stays.
`pick_snapshots_to_prune` instead sorts the survivors of the first rule and takes the
oldest away until the rest fits. `PicksWhatIsNotSpared` is that these are the same for
every finite set of runs, all sizes, days and caps. The sum of a set is a fold, which
takes its members in an order of its own: any two functions that add up the subsets of a
set in this manner agree (`SumIsOne`), so a sum is that of the rest and of any one member
(`TotalTakes`) and grows with the set (`TotalGrows`). As many runs as places, no two in
one place, so every place of the order is taken (`PlacesAreTaken`); after k victims what
the loop still counts is the sum of the runs from the k-th on (`LeftIsTotal`), and it
stops at the first that fits. Each of these is an induction over numbers, done by the
least number that fails (`LeastNumber`, `OneByOne`), as the library's theorems of
induction cannot be used. With it `ServerPrunesAreEarned`: no run that the rules spare
goes, although only some of the purges may succeed. Assumptions: runs are named, and
sizes, days and caps counted, in natural numbers; the tree has finitely many paths. For
the desktop, `SaveHistoryIsTyped` needs of the retention only that it chooses among the
runs it was given (`PicksAreRuns`).

For the types. Those of the accounts hold with the counters of the passwords
(`RationInvariant`) and three tables that refer to one another: a session is a registered
user's, a device has a code that was handed out (`TablesInvariant`). Those of the blobs need
that what a handler carries is in its cycle's plan (`SentAreWanted`); those of the
desktop's history that what a prune has still to purge was listed (`HistoryBounds`).

For the resync flag. A listing goes stale in a revert or a resolution, and nothing else
runs until that has taken the flag back; a change that overlaps a cycle, and a fault,
are what `meddled` excepts. The strengthening (`FlagInvariant`) says of a running cycle
that it is about the configured pair, that one without `--resync` began with good
listings, and that one with it has written those it is past (`JobTrusted`).

For the losers. After any failed operations a marker is the same on both sides or is
missing on one, so that the resync that is asked for unites them, and begun pairs have
the same markers (`OwedInvariant`). Without failures more holds: the sides differ in the
save alone, no version is at two paths (`Apart`), and what was given up is nowhere. The
last needs the other two: a version removed at one path could otherwise still be at
another, or on the other side, and come back. Assumption: at least one version can be
saved.

For the desktop's history. An undisturbed cycle has its run for itself until it has
bisynced, and when only `full` is on, the snapshot in it is the destination as long as
that is still what the last bisync left (`OwnRun`). A bisync writes over the destination
only then. A revert that comes between snapshot and bisync breaks this, and is excepted
by the property. The proof also asked for what the program guarantees and the model had
left out: a history that is on has a mode (`set_history_settings` refuses other
settings), in the initial settings too.

For the watchers. `ShownIsCurrent` is inductive with the types of the tasks: whoever
changes what is shown owes an event, is between the steps of disabling, or is a cycle
that has yet to tell, and each event is built under the lock. The two tables share no
task, so that replacing the handle of one drops none of the other. Assumptions: watchers
of the two kinds and buttons are different tasks, no folder is named like a place of a
task. For the lock: the age of a session is the time its owner has not fed it, because
whatever sets one back sets back the other, and a device under the floor has no session.

For the versions of a database. That a version is earned is not inductive, because any
number of programs may run the same statements at once, each killed anywhere. What is
(`SchemaInvariant`): everything the stored version promises is there, and everything
before the next statement of a program that is booting is there or was passed over
justly (`Earned`) -- a table that exists already, an `ALTER TABLE` of a version the file
has. Nothing that was made goes away, so one program's step takes nothing from another.
The translated modes of the desktop need a second part, `ChoicesInvariant(a, m, s)`,
around the statement that adds the column (`a`), the one that translates the rows (`m`)
and the one that stamps the version (`s`): without the column nobody is past `a` and every
row is as it was; with it and the version unstamped, a program between `a` and `s` still
translates the rows or has done so; once stamped, every row has the mode that was chosen.
The first part is proved of every script with the discipline `ScriptInOrder` (what a
version promises is made before its stamp, what a statement needs before it), the second
of those with `ChoicesInOrder` as well, and the scripts are proved to have them, statement
by statement; the server's has no such column and needs the first only. Assumptions: a script
is a sequence of statements, the seeds a sequence of emulators; the theorems name the
script and the last version, as the configurations do.

For the folder of a paired device. Between two cycles, `Sound` relates folder, baseline
and index at the revision the device knows: a file dated as in the baseline is the
baseline's; what the server has not changed since is as in the baseline; a preserved
loser is on all three sides and alike, since neither users nor other devices touch it
here, which makes the names of new losers free everywhere. For the cycle, `Planned`
retells `compute_plan` by what happened to a path on either side, and `Meeting` follows
each path through the renames, the commit and the downloads, by the eight things that
can have happened to it: folder, baseline and index end with the same names and
contents, whatever times the downloads get. The theorems assume `Undisturbed`, the four
switches off, as in the run. Each switch alone admits, in small instances, a
counterexample to one of the two properties: of `SyncedMeansEqual` when a save gets the
mtime of the baseline's file or the server is another, of `OnlyUsersDelete` when the
folder is missing, of both when it is another. Assumptions: contents are numbered as
they are written, clock readings are integers.

Model-checked only: all liveness, out of the prover's reach. Of `WaitsTypeOK` the three
conjuncts are proved, each in the specification of its part (`LockIsHeldOnce`,
`AccountsAreTyped`, and in the invariant of `DatesCoverNames`), but not the conjunction:
the modules of the lock and of the blobs have operators of the same names, so no module
of proofs extends both.
With stopped commits the properties of the contents do not hold (section 5), so
there is nothing to prove about them.

## 5. Where code and documents disagree

Checked by runs that expect a violation:

| Run | What the documents say | What the code does |
|---|---|---|
| `lost_loser` | `storage.rs:148`: the preserved version is still the old one; `docs/protocol.md:238`: no data lost | a commit stops before it writes the loser's row; its retry renames the winner over the loser |
| `lost_tombstone` | `db.rs:408`: a device from before a pruned tombstone has to refetch | the rows go in one statement and the floor moves in the next; between them the device is served as if nothing was deleted |
| `gone_forever` | `docs/client-pc.md:144`: after `resync_required` the next sync rebuilds the baseline by itself | neither the server's route nor the client's handling exists: the answer is 410 for ever |
| `boots_no_more` | the test `migration_is_idempotent` (server `db.rs:567`) | `ADD COLUMN` commits before the version is stamped: a server killed in between does not open its database again |
| `missing_folder` | `client.rs:76`: a folder that is not there has nothing yet | with a baseline, an unmounted folder is a deletion of everything, here and on every device |

The desktop's migrations (`crates/core/src/db.rs:51`, `:74`, `:107`) stamp each version
in the batch of its `ALTER TABLE`, which is no transaction either: the same window, a
statement wide.

Smaller ones, each shown by a configuration that is not among the runs. TLC finds each
property violated; where a configuration has several, it stops at the first, and the
others are found when that one is taken out.

| Configuration, module, property | What is said | What happens |
|---|---|---|
| `MarkerBaseline`, `MCSyncSystem`, `BaselineIsSnapshot` | `docs/protocol.md:77`: the baseline is the tree at `last_rev` | a user deletes a marker whose name the server hands out again: the device deletes the loser it uploaded, and it never comes back to it |
| `ReplacedEdits`, `MCSyncSystem`, `NoLostContent` | `docs/protocol.md:238`: no data lost by automatic resolution | a save made after the scan is overwritten by the download |
| `DanglingLoser`, `MCSyncSystem`, `NoLostContent` | the same | a second loser is renamed over one left by an interrupted cycle |
| `LostReply`, `MCSyncSystem`, `ConflictsAreConcurrent` | `client.rs:380`: application is idempotent on purpose | after a lost commit reply a user's own two versions are reported as a conflict |
| `WaitSlips`, `MCServerWaits`, `OnlyIdleSessionsExpire` | `docs/protocol.md:155`: a session expires after an hour of inactivity | a blob sent again renews nothing: a device busy resending loses its session |
| `WaitSlips`, `MCServerWaits`, `BusyEnds` | `docs/deploy-nas.md:199`: the lock is released by the commit or after an hour of inactivity | a device that fails in every cycle and plans again within the hour renews the lock for ever (`api.rs:630`), and no other gets a turn |
| `WaitSlips`, `MCServerWaits`, `NamesSettle` | `docs/client-pc.md:151-153`: missing names of games settle by themselves, of both databases | a program that ends while it writes the PS2 index leaves a cut file that parses to a short table; `ensure_in_background` (`title_dbs.rs:78`) downloads only when the table is empty and the app (`lib.rs:1235`) only when the file does not exist, so no later start fetches it and nothing is reported |
| `ServerSlips`, `MCServerParts`, `ServedAsNamed` | `docs/protocol.md:179`: the hash is validated, 409 otherwise | a commit between the check and the read gives the new bytes under the old hash |
| `ServerSlips`, `MCServerParts`, `PreviousIsKept` | `storage.rs:166`: the version about to go is kept | two commits in one second share a snapshot's name and the first one's copy goes |
| `ServerSlips`, `MCServerParts`, `OffKeepsNothing` | `docs/protocol.md:203`: history as `history_settings` says | the commit snapshots by its own defaults, whatever is stored |
| `AgentSlips`, `MCAgentParts`, `RevertReachesBoth` | `README.md:436`: a revert reaches the destination and the folder | a cycle's prune takes the run away between the two copies: the second fails, no resync is asked for, and the two sides differ |
| `AgentSlips`, `MCAgentParts`, `NoOrphans` | `history.rs:300`: a marker without its save does not happen | a conflict, then a deletion of the save on one side: the next cycle carries the deletion over and leaves the marker |
| `WatcherSlips`, `Watchers`, `WatchesItsSource` | `README.md:271`: changes in the folder start a sync | after a change of path the watcher stays on the old folder |
| `WatcherSlips`, `Watchers`, `WatchedChangesAreRead` | the same | a second start replaces the first one's handle, and the events in its channel are never read |

Consequences of a stopped commit: index and tree disagree until the paths are written
again, and `get_blob`, which checks the row and serves the file, hands out the bytes of
one version under the hash of another.

## 6. Not modelled, and the plan

Not modelled: save parsers, detection and the title lookups themselves (they read for
display, and nothing they return reaches the sync); the web UI; the Android client (a
mirror of `client.rs`: `SyncSystem`'s devices stand for it where the two agree); the
internals of rclone and its FFI; routing and argument parsing.

Modelled in part: two cycles of one device with a server that overlap (`Watchers` has
the overlapping triggers and `Bisync` the overlapping cycles without a server; in
`SyncSystem` they would multiply the states by the steps of a cycle); the rows of the
desktop's database that are only shown; grouping of the history for display.

Not proved: what the last paragraph of section 4 names.

## 7. Running

In this directory, with the configurations' names as in `PROJECT.json`:

    tlc -config MCSyncSystem.cfg MCSyncSystem
    tlc -config MCServerParts.cfg MCServerParts
    tlc -config ServerSlips.cfg MCServerParts
    tlapm OpenServerProofs.tla
    tlapm ContentProofs.tla
    tlapm ServerPartsProofs.tla
    tlapm AgentProofs.tla
    tlapm TriggersProofs.tla
