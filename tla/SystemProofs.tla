----------------------------- MODULE SystemProofs -----------------------------
(***************************************************************************)
(* The devices and the server of SyncSystem, and the commits of            *)
(* CommitCrash that stop half-way, for any number of devices, files,       *)
(* contents and commits: the state keeps its types, revisions stay within  *)
(* the head, and no edit escapes a device, whatever users do.              *)
(*                                                                         *)
(* A stopped commit may leave a session whose plan is no longer the one    *)
(* the server would compute (PlanIsFresh fails).  What is inductive is     *)
(* that the session a running cycle still owns is fresh (CycleOK): the     *)
(* device of a stopped commit has lost its cycle, and the lock keeps the   *)
(* others out.                                                             *)
(***************************************************************************)
EXTENDS CommitCrash, ServerProofs

-----------------------------------------------------------------------------
(***************************************************************************)
(* Trees.                                                                  *)
(***************************************************************************)

\* A tree of well-formed paths whose contents have all been written.
WrittenTree(tree) ==
    /\ TreeTypeOK(tree)
    /\ \A p \in DOMAIN tree : tree[p].hash \in 1 .. versions

\* Saving a file in a tree.
LEMMA KeepTree ==
    ASSUME NEW tree, TreeTypeOK(tree), NEW p \in Path, NEW meta \in Meta
    PROVE  /\ TreeTypeOK(Keep(tree, p, meta))
           /\ DOMAIN Keep(tree, p, meta) = DOMAIN tree \cup {p}
           /\ Keep(tree, p, meta)[p] = meta
           /\ \A q \in DOMAIN tree \ {p} : Keep(tree, p, meta)[q] = tree[q]
<1>1. IsFiniteSet(DOMAIN tree \cup {p})
  BY FS_AddElement DEF TreeTypeOK
<1> QED BY <1>1 DEF TreeTypeOK, Keep

\* Removing a file from a tree.
LEMMA DropTree ==
    ASSUME NEW tree, TreeTypeOK(tree), NEW p
    PROVE  /\ TreeTypeOK(Drop(tree, p))
           /\ DOMAIN Drop(tree, p) = DOMAIN tree \ {p}
           /\ \A q \in DOMAIN tree \ {p} : Drop(tree, p)[q] = tree[q]
<1>1. IsFiniteSet(DOMAIN tree \ {p})
  BY FS_Subset DEF TreeTypeOK
<1> QED BY <1>1 DEF TreeTypeOK, Drop

\* What a report says of each path of the tree and of the baseline.
Reports(report, base, tree) ==
    /\ \A p : p \in Puts(report) <=>
           p \in DOMAIN tree /\ (p \in DOMAIN base => base[p].hash # tree[p].hash)
    /\ Deletes(report) = DOMAIN base \ DOMAIN tree
    /\ DOMAIN report = Puts(report) \cup Deletes(report)
    /\ \A p \in Puts(report) : report[p].hash = tree[p].hash

\* What a device reports is a report, and says of each path what it is about.
LEMMA ReportType ==
    ASSUME NEW base, NEW tree, TreeTypeOK(base), TreeTypeOK(tree)
    PROVE  /\ ReportTypeOK(LocalChanges(base, tree))
           /\ Reports(LocalChanges(base, tree), base, tree)
<1> DEFINE put    == {p \in DOMAIN tree : p \notin DOMAIN base \/ base[p].hash # tree[p].hash}
           gone   == DOMAIN base \ DOMAIN tree
           report == LocalChanges(base, tree)
<1>1. report = [p \in put \cup gone |->
                   IF p \in put THEN [op |-> "put", hash |-> tree[p].hash, mtime |-> tree[p].mtime]
                   ELSE [op |-> "delete"]]
  BY DEF LocalChanges
<1>2. IsFiniteSet(put \cup gone)
  <2>1. IsFiniteSet(DOMAIN tree \cup DOMAIN base)
    BY FS_Union DEF TreeTypeOK
  <2> QED BY <2>1, FS_Subset
<1>3. \A p \in put : tree[p].hash \in Hashes /\ tree[p].mtime \in Int
  BY DEF TreeTypeOK, Meta
<1>4. put \subseteq DOMAIN tree /\ put \cap gone = {}
  OBVIOUS
<1> HIDE DEF put, gone, report
<1>5. \A p \in put \cup gone : report[p] \in Change
  BY <1>1, <1>3 DEF Change
<1>6. DOMAIN report = put \cup gone /\ put \cup gone \subseteq Path
  BY <1>1, <1>4 DEF gone, TreeTypeOK
<1>7. ReportTypeOK(report)
  BY <1>2, <1>5, <1>6 DEF ReportTypeOK
<1>8. Puts(report) = put /\ Deletes(report) = gone
  BY <1>1, <1>4 DEF Puts, Deletes
<1>9. \A p \in put : report[p].hash = tree[p].hash
  BY <1>1
<1>10. Reports(report, base, tree)
  BY <1>6, <1>8, <1>9 DEF Reports, put, gone
<1> QED BY <1>7, <1>10 DEF report

-----------------------------------------------------------------------------
(***************************************************************************)
(* The types of the whole system.                                          *)
(***************************************************************************)

DiskOK ==
    /\ DOMAIN disk = Devices
    /\ \A d \in Devices : WrittenTree(disk[d])

BaselineOK ==
    /\ DOMAIN baseline = Devices
    /\ \A d \in Devices :
        /\ baseline[d].last_rev \in 0 .. head_rev
        /\ TreeTypeOK(baseline[d].files)

ContentsOK ==
    /\ versions \in 0 .. MaxVersions
    /\ superseded \subseteq 1 .. versions
    /\ \A p \in DOMAIN live : live[p] \in 1 .. versions
    /\ \A s \in DOMAIN sessions : \A p \in DOMAIN sessions[s].blobs :
           sessions[s].blobs[p].hash \in 1 .. versions

\* The parts of a plan a device uses.
PlanTypeOK(plan) ==
    /\ \A c \in plan.conflicts : c.loser_path \in Path
    /\ \A i \in plan.download : i.path \in Path /\ i.mtime \in Int

RenamingOK(d, cycle) ==
    /\ cycle = [step |-> "rename", session |-> cycle.session, plan |-> cycle.plan,
                staged |-> cycle.staged, todo |-> cycle.todo]
    /\ cycle.session \in 1 .. session_count
    /\ PlanTypeOK(cycle.plan)
    /\ WrittenTree(cycle.staged)
    /\ cycle.todo \subseteq cycle.plan.conflicts
    /\ OwnedBy(cycle.session, d) =>
           Fresh(cycle.session) /\ sessions[cycle.session].plan = cycle.plan

ApplyingOK(cycle) ==
    /\ cycle = [step |-> "apply", plan |-> cycle.plan, next |-> cycle.next, todo |-> cycle.todo,
                gone |-> cycle.gone, new_rev |-> cycle.new_rev]
    /\ PlanTypeOK(cycle.plan)
    /\ TreeTypeOK(cycle.next)
    /\ cycle.todo \subseteq cycle.plan.download
    /\ cycle.new_rev \in 0 .. head_rev

CycleOK(d) ==
    \/ sync[d].step = "idle"
    \/ sync[d].step = "rename" /\ RenamingOK(d, sync[d])
    \/ sync[d].step = "apply" /\ ApplyingOK(sync[d])

CyclesOK ==
    /\ DOMAIN sync = Devices
    /\ \A d \in Devices : CycleOK(d)

SystemOK ==
    /\ ServerCore
    /\ DiskOK
    /\ BaselineOK
    /\ ContentsOK
    /\ CyclesOK

\* An older session of d that is still open is the one it was, and as fresh.
SessionsFollow(d) ==
    \A s \in DOMAIN sessions' : s <= session_count /\ sessions'[s].device = d =>
        /\ s \in DOMAIN sessions
        /\ sessions'[s].device = sessions[s].device /\ sessions'[s].plan = sessions[s].plan
        /\ sessions'[s].changes = sessions[s].changes /\ sessions'[s].since = sessions[s].since
        /\ Fresh(s) => Fresh(s)'

\* A cycle that does not move keeps its types.
LEMMA CycleStays ==
    ASSUME NEW d \in Devices, CycleOK(d), sync'[d] = sync[d], SessionsFollow(d),
           head_rev \in Nat, head_rev' \in Nat, head_rev <= head_rev',
           session_count \in Nat, session_count' \in Nat, session_count <= session_count',
           versions \in Nat, versions' \in Nat, versions <= versions'
    PROVE  CycleOK(d)'
<1>1. CASE sync[d].step = "idle"
  BY <1>1 DEF CycleOK
<1>2. CASE sync[d].step = "rename" /\ RenamingOK(d, sync[d])
  <2> DEFINE cycle == sync[d]
  <2>1. cycle.session \in 1 .. session_count'
    BY <1>2 DEF RenamingOK
  <2>2. WrittenTree(cycle.staged)'
    BY <1>2 DEF RenamingOK, WrittenTree
  <2>3. OwnedBy(cycle.session, d)' =>
            Fresh(cycle.session)' /\ sessions'[cycle.session].plan = cycle.plan
    BY <1>2 DEF RenamingOK, OwnedBy, SessionsFollow
  <2> QED BY <1>2, <2>1, <2>2, <2>3 DEF CycleOK, RenamingOK
<1>3. CASE sync[d].step = "apply" /\ ApplyingOK(sync[d])
  BY <1>3 DEF CycleOK, ApplyingOK
<1> QED BY <1>1, <1>2, <1>3 DEF CycleOK

\* A session whose fields and whose index stay is as fresh as it was.
LEMMA FreshStays ==
    ASSUME NEW s, UNCHANGED <<head_rev, file_index>>,
           sessions'[s].head = sessions[s].head, sessions'[s].plan = sessions[s].plan,
           sessions'[s].changes = sessions[s].changes, sessions'[s].since = sessions[s].since
    PROVE  Fresh(s) => Fresh(s)'
BY DEF Fresh, ChangesSince, LivePaths

\* No session opens: the ones left are as they were.
LEMMA ClosingFollows ==
    ASSUME NEW ids, sessions' = Without(sessions, ids), UNCHANGED <<head_rev, file_index>>
    PROVE  /\ \A d : SessionsFollow(d)
           /\ \A s \in DOMAIN sessions' : sessions'[s] = sessions[s]
<1>1. \A s \in DOMAIN sessions' : s \in DOMAIN sessions /\ sessions'[s] = sessions[s]
  BY DEF Without
<1> QED BY <1>1, FreshStays DEF SessionsFollow

\* The sessions are left alone.
LEMMA NothingFollows ==
    ASSUME UNCHANGED <<sessions, head_rev, file_index>>
    PROVE  \A d : SessionsFollow(d)
BY FreshStays DEF SessionsFollow

\* The numbers that only grow.
LEMMA Counters ==
    ASSUME SystemOK
    PROVE  head_rev \in Nat /\ session_count \in Nat /\ versions \in Nat /\ MaxVersions \in Nat
BY ContentsAssumption, BoundsAssumption DEF SystemOK, ServerCore, ServerTypeOK, ContentsOK

\* What is left to show of a step that moves the cycle of d only.
LEMMA OneCycleMoves ==
    ASSUME SystemOK, NEW d \in Devices, NEW cycle,
           sync' = [sync EXCEPT ![d] = cycle] \/ sync' = sync,
           ServerCore', ContentsOK', DiskOK', BaselineOK',
           head_rev <= head_rev', session_count <= session_count', versions <= versions',
           \A e \in Devices \ {d} : SessionsFollow(e),
           CycleOK(d)' \/ (sync' = sync /\ SessionsFollow(d))
    PROVE  SystemOK'
<1>1. head_rev' \in Nat /\ session_count' \in Nat /\ versions' \in Nat
  BY ContentsAssumption, BoundsAssumption DEF ServerCore, ServerTypeOK, ContentsOK
<1>2. DOMAIN sync = Devices /\ DOMAIN sync' = Devices
  BY DEF SystemOK, CyclesOK
<1>3. ASSUME NEW e \in Devices, sync'[e] = sync[e], SessionsFollow(e)
      PROVE  CycleOK(e)'
  <2>1. CycleOK(e)
    BY DEF SystemOK, CyclesOK
  <2> QED BY <1>1, <1>3, <2>1, Counters, CycleStays
<1>4. \A e \in Devices \ {d} : sync'[e] = sync[e]
  BY <1>2
<1>5. \A e \in Devices : CycleOK(e)'
  BY <1>3, <1>4
<1> QED BY <1>2, <1>5 DEF SystemOK, CyclesOK

\* An ended cycle has no type to keep.
LEMMA IdleCycle ==
    ASSUME NEW d \in Devices, DOMAIN sync = Devices, sync' = [sync EXCEPT ![d] = Idle]
    PROVE  CycleOK(d)'
<1>1. sync'[d] = Idle
  OBVIOUS
<1> QED BY <1>1 DEF CycleOK, Idle

\* A step that writes one tree.
LEMMA DiskMoves ==
    ASSUME SystemOK, NEW d \in Devices, NEW tree, disk' = [disk EXCEPT ![d] = tree],
           versions' \in Nat, versions <= versions',
           TreeTypeOK(tree), \A p \in DOMAIN tree : tree[p].hash \in 1 .. versions'
    PROVE  DiskOK'
<1>1. DOMAIN disk' = Devices /\ disk'[d] = tree /\ \A e \in Devices \ {d} : disk'[e] = disk[e]
  BY DEF SystemOK, DiskOK
<1>2. TreeTypeOK(disk'[d]) /\ \A p \in DOMAIN disk'[d] : disk'[d][p].hash \in 1 .. versions'
  BY <1>1
<1>3. ASSUME NEW e \in Devices \ {d}
      PROVE  TreeTypeOK(disk'[e]) /\ \A p \in DOMAIN disk'[e] : disk'[e][p].hash \in 1 .. versions'
  <2>1. TreeTypeOK(disk[e]) /\ \A p \in DOMAIN disk[e] : disk[e][p].hash \in 1 .. versions
    BY DEF SystemOK, DiskOK, WrittenTree
  <2>2. versions \in Nat
    BY Counters
  <2> QED BY <1>1, <2>1, <2>2
<1> QED BY <1>1, <1>2, <1>3 DEF DiskOK, WrittenTree

\* A step that leaves the server, the disks and the baselines alone.
LEMMA OthersStay ==
    ASSUME SystemOK, UNCHANGED <<vars, versions, superseded>>
    PROVE  /\ ServerCore' /\ ContentsOK' /\ \A d : SessionsFollow(d)
           /\ UNCHANGED disk => DiskOK'
           /\ UNCHANGED baseline => BaselineOK'
           /\ head_rev <= head_rev' /\ session_count <= session_count' /\ versions <= versions'
<1>1. ServerCore' /\ \A d : SessionsFollow(d)
  BY NothingChanges, NothingFollows DEF SystemOK, vars
<1>2. ContentsOK' /\ (UNCHANGED disk => DiskOK') /\ (UNCHANGED baseline => BaselineOK')
  BY DEF SystemOK, ContentsOK, DiskOK, BaselineOK, WrittenTree, vars
<1> QED BY <1>1, <1>2, Counters DEF vars

-----------------------------------------------------------------------------
(***************************************************************************)
(* Users.                                                                  *)
(***************************************************************************)

\* The paths users touch are paths.
LEMMA TouchablePaths ==
    ASSUME DiskOK, NEW d \in Devices
    PROVE  Touchable(d) \subseteq Path
<1>1. \A f \in Files : UserPath(f) \in Path
  BY DEF UserPath, Path
<1>2. DOMAIN disk[d] \subseteq Path
  BY DEF DiskOK, WrittenTree, TreeTypeOK
<1> QED BY <1>1, <1>2 DEF Touchable

\* A user saves a file: a new content on one disk.
LEMMA UserSaveOK ==
    ASSUME SystemOK, NEW d \in Devices, NEW p \in Path, NEW mtime \in MTimes, UserSave(d, p, mtime)
    PROVE  SystemOK'
<1> DEFINE meta == [hash |-> versions + 1, mtime |-> mtime]
           tree == Keep(disk[d], p, meta)
<1>1. /\ versions' = versions + 1 /\ versions < MaxVersions
      /\ disk' = [disk EXCEPT ![d] = tree]
      /\ superseded' = superseded \cup Seen(d, p)
      /\ UNCHANGED <<vars, baseline, sync>>
  BY DEF UserSave
<1>2. versions' \in 1 .. MaxVersions /\ versions \in Nat /\ versions' \in Nat /\ versions <= versions'
  BY <1>1, Counters
<1>3. meta \in Meta /\ meta.hash \in 1 .. versions'
  BY <1>1, <1>2, ContentsAssumption, MTimesAssumption DEF Meta
<1>4. TreeTypeOK(disk[d]) /\ \A q \in DOMAIN disk[d] : disk[d][q].hash \in 1 .. versions
  BY DEF SystemOK, DiskOK, WrittenTree
<1> HIDE DEF meta
<1>5. DiskOK'
  <2>1. /\ TreeTypeOK(tree) /\ DOMAIN tree = DOMAIN disk[d] \cup {p}
        /\ tree[p] = meta /\ \A q \in DOMAIN disk[d] \ {p} : tree[q] = disk[d][q]
    BY <1>3, <1>4, KeepTree
  <2> HIDE DEF tree
  <2>2. \A q \in DOMAIN tree : tree[q].hash \in 1 .. versions'
    BY <1>1, <1>2, <1>3, <1>4, <2>1
  <2> QED BY <1>1, <1>2, <2>1, <2>2, DiskMoves
<1>6. ServerCore' /\ \A e : SessionsFollow(e)
  BY <1>1, NothingChanges, NothingFollows DEF SystemOK, vars
<1>7. ContentsOK'
  <2>1. Seen(d, p) \subseteq 1 .. versions
    BY <1>4 DEF Seen
  <2>2. 1 .. versions \subseteq 1 .. versions' /\ versions' \in 0 .. MaxVersions
    BY <1>2, Counters
  <2>3. superseded' \subseteq 1 .. versions'
    BY <1>1, <2>1, <2>2 DEF SystemOK, ContentsOK
  <2>4. live' = live /\ sessions' = sessions
    BY <1>1 DEF vars
  <2> QED BY <2>2, <2>3, <2>4 DEF SystemOK, ContentsOK
<1>8. BaselineOK'
  BY <1>1 DEF SystemOK, BaselineOK, vars
<1>9. head_rev <= head_rev' /\ session_count <= session_count'
  BY <1>1, Counters DEF vars
<1>10. sync' = sync
  BY <1>1
<1> QED BY <1>2, <1>5, <1>6, <1>7, <1>8, <1>9, <1>10, OneCycleMoves

\* A user deletes a file.
LEMMA UserDeleteOK ==
    ASSUME SystemOK, NEW d \in Devices, NEW p, UserDelete(d, p)
    PROVE  SystemOK'
<1> DEFINE tree == Drop(disk[d], p)
<1>1. /\ disk' = [disk EXCEPT ![d] = tree]
      /\ superseded' = superseded \cup Seen(d, p)
      /\ UNCHANGED <<vars, baseline, sync, versions>>
  BY DEF UserDelete
<1>2. TreeTypeOK(disk[d]) /\ \A q \in DOMAIN disk[d] : disk[d][q].hash \in 1 .. versions
  BY DEF SystemOK, DiskOK, WrittenTree
<1>3. versions \in Nat /\ versions' \in Nat /\ versions <= versions'
  BY <1>1, Counters
<1>4. DiskOK'
  <2>1. TreeTypeOK(tree) /\ DOMAIN tree = DOMAIN disk[d] \ {p} /\ \A q \in DOMAIN tree : tree[q] = disk[d][q]
    BY <1>2, DropTree
  <2> HIDE DEF tree
  <2>2. \A q \in DOMAIN tree : tree[q].hash \in 1 .. versions'
    BY <1>1, <1>2, <2>1
  <2> QED BY <1>1, <1>3, <2>1, <2>2, DiskMoves
<1>5. ServerCore' /\ \A e : SessionsFollow(e)
  BY <1>1, NothingChanges, NothingFollows DEF SystemOK, vars
<1>6. ContentsOK'
  <2>1. Seen(d, p) \subseteq 1 .. versions
    BY <1>2 DEF Seen
  <2> QED BY <1>1, <2>1 DEF SystemOK, ContentsOK, vars
<1>7. BaselineOK'
  BY <1>1 DEF SystemOK, BaselineOK, vars
<1>8. head_rev <= head_rev' /\ session_count <= session_count'
  BY <1>1, Counters DEF vars
<1>9. sync' = sync
  BY <1>1
<1> QED BY <1>3, <1>4, <1>5, <1>6, <1>7, <1>8, <1>9, OneCycleMoves

-----------------------------------------------------------------------------
(***************************************************************************)
(* Plans.                                                                  *)
(***************************************************************************)

\* The parts of a plan a device uses are paths and clock readings.
LEMMA PlanType ==
    ASSUME IndexTypeOK, NEW changes, ReportTypeOK(changes), NEW since
    PROVE  PlanTypeOK(ComputePlan(changes, ChangesSince(since), LivePaths))
<1> DEFINE remote == ChangesSince(since)
           taken  == LivePaths
           plan   == ComputePlan(changes, remote, taken)
<1>1. IsFiniteSet(taken) /\ taken \subseteq Path /\ Edited(remote) \subseteq taken
  BY LiveRows DEF IndexTypeOK
<1>2. \A p \in Edited(remote) : remote[p].mtime \in Int
  BY DEF ChangesSince, Edited, IndexTypeOK, Entry
<1>3. DOMAIN changes \subseteq Path
  BY DEF ReportTypeOK
<1> HIDE DEF remote, taken, plan
<1>4. plan = ComputePlan(changes, remote, taken)
  BY DEF plan
<1>5. /\ ClientWins(changes, remote) \cup ServerWins(changes, remote) \subseteq Edited(remote)
      /\ Edited(remote) \subseteq Path
  BY <1>1 DEF ClientWins, ServerWins, Clashes
<1>6. \A p \in Edited(remote) : NextConflictPath(p, taken) \in Path
  BY <1>1, <1>5, NextConflictPathFresh
<1>7. \A c \in plan.conflicts : c.loser_path \in Path
  BY <1>4, <1>5, <1>6, PlanLists
<1>8. ASSUME NEW i \in plan.download
      PROVE  i.path \in Path /\ i.mtime \in Int
  <2>1. CASE /\ i.path \in (Edited(remote) \ Puts(changes)) \cup ServerWins(changes, remote)
             /\ i = DownloadItem(i.path, remote[i.path].hash, remote[i.path].mtime)
    <3>1. i.path \in Edited(remote) /\ i.mtime = remote[i.path].mtime
      BY <1>5, <2>1 DEF DownloadItem
    <3> QED BY <1>2, <1>5, <3>1
  <2>2. ASSUME NEW p \in ClientWins(changes, remote),
               i = DownloadItem(NextConflictPath(p, taken), remote[p].hash, remote[p].mtime)
        PROVE  i.path \in Path /\ i.mtime \in Int
    <3>1. i.path = NextConflictPath(p, taken) /\ i.mtime = remote[p].mtime
      BY <2>2 DEF DownloadItem
    <3> QED BY <1>2, <1>5, <1>6, <3>1
  <2> QED BY <1>4, <2>1, <2>2, PlanLists
<1> QED BY <1>7, <1>8 DEF PlanTypeOK, plan, remote, taken

\* A granted plan, as the whole system sees it.
LEMMA Planned ==
    ASSUME SystemOK, NEW d \in Devices, Plan(d, baseline[d].last_rev, Report(d)),
           UNCHANGED <<disk, baseline, versions, superseded>>
    PROVE  /\ ServerCore' /\ ContentsOK' /\ DiskOK' /\ BaselineOK'
           /\ \A e : SessionsFollow(e)
           /\ head_rev <= head_rev' /\ session_count <= session_count' /\ versions <= versions'
           /\ session_count' \in 1 .. session_count'
           /\ PlanIsFresh' /\ DOMAIN sessions' = {session_count'}
           /\ PlanTypeOK(sessions'[session_count'].plan)
<1> DEFINE last == baseline[d].last_rev
<1>1. last \in Nat /\ head_rev \in Nat /\ session_count \in Nat
  BY Counters DEF SystemOK, BaselineOK
<1>2. ReportTypeOK(Report(d))
  BY ReportType DEF Report, SystemOK, BaselineOK, DiskOK, WrittenTree
<1> HIDE DEF last
<1>3. /\ ServerCore' /\ PlanIsFresh' /\ session_count' = session_count + 1
      /\ DOMAIN sessions' = {session_count'}
      /\ sessions'[session_count'] = NewSession(d, Since(d, last), Report(d))
  BY <1>1, <1>2, PlanStep DEF last, SystemOK
<1>4. UNCHANGED <<head_rev, live>>
  BY DEF Plan
<1>5. sessions'[session_count'].blobs = << >>
  BY <1>3 DEF NewSession
<1>6. ContentsOK'
  BY <1>3, <1>4, <1>5 DEF SystemOK, ContentsOK
<1>7. \A e : SessionsFollow(e)
  BY <1>1, <1>3 DEF SessionsFollow
<1>8. sessions'[session_count'].plan =
          ComputePlan(Report(d), ChangesSince(Since(d, last)), LivePaths)
  BY <1>3 DEF NewSession
<1>9. PlanTypeOK(sessions'[session_count'].plan)
  BY <1>2, <1>8, PlanType DEF SystemOK, ServerCore, ServerTypeOK
<1>10. DiskOK' /\ BaselineOK'
  BY <1>4 DEF SystemOK, DiskOK, BaselineOK, WrittenTree
<1> QED BY <1>1, <1>3, <1>4, <1>6, <1>7, <1>9, <1>10, Counters

\* A cycle begins with the plan of its session.
LEMMA StartSyncOK ==
    ASSUME SystemOK, NEW d \in Devices, StartSync(d)
    PROVE  SystemOK'
<1> DEFINE cycle == Started(d, session_count', sessions'[session_count'].plan)
<1>1. /\ Plan(d, baseline[d].last_rev, Report(d))
      /\ sync' = [sync EXCEPT ![d] = cycle]
      /\ UNCHANGED <<disk, baseline, versions, superseded>>
  BY DEF StartSync
<1>2. /\ ServerCore' /\ ContentsOK' /\ DiskOK' /\ BaselineOK'
      /\ \A e : SessionsFollow(e)
      /\ head_rev <= head_rev' /\ session_count <= session_count' /\ versions <= versions'
      /\ session_count' \in 1 .. session_count'
      /\ PlanIsFresh' /\ DOMAIN sessions' = {session_count'}
      /\ PlanTypeOK(sessions'[session_count'].plan)
  BY <1>1, Planned
<1>3. cycle = [step |-> "rename", session |-> session_count',
               plan |-> sessions'[session_count'].plan, staged |-> disk[d],
               todo |-> {c \in sessions'[session_count'].plan.conflicts : c.winner = "server"}]
  BY DEF Started
<1> HIDE DEF cycle
<1>4. sync'[d] = cycle
  BY <1>1 DEF SystemOK, CyclesOK
<1>5. /\ sync'[d].step = "rename" /\ sync'[d].session = session_count'
      /\ sync'[d].plan = sessions'[session_count'].plan /\ sync'[d].staged = disk[d]
      /\ sync'[d].todo = {c \in sync'[d].plan.conflicts : c.winner = "server"}
  BY <1>3, <1>4
<1>6. WrittenTree(sync[d].staged)'
  BY <1>1, <1>5 DEF SystemOK, DiskOK, WrittenTree
<1>7. Fresh(sync[d].session)'
  <2>1. sync'[d].session \in DOMAIN sessions'
    BY <1>2, <1>5
  <2> QED BY <1>2, <2>1 DEF PlanIsFresh, Fresh, ChangesSince, LivePaths
<1>8. RenamingOK(d, sync[d])'
  <2>1. sync'[d] = [step |-> "rename", session |-> sync'[d].session, plan |-> sync'[d].plan,
                    staged |-> sync'[d].staged, todo |-> sync'[d].todo]
    BY <1>3, <1>4
  <2>2. sync'[d].todo \subseteq sync'[d].plan.conflicts
    BY <1>5
  <2> QED BY <1>2, <1>5, <1>6, <1>7, <2>1, <2>2 DEF RenamingOK
<1>9. CycleOK(d)'
  BY <1>5, <1>8 DEF CycleOK
<1> QED BY <1>1, <1>2, <1>9, OneCycleMoves

\* Sessions close, and perhaps a cycle ends.
LEMMA ClosingOK ==
    ASSUME SystemOK, NEW d \in Devices, NEW ids, sessions' = Without(sessions, ids),
           UNCHANGED <<head_rev, min_valid_rev, file_index, live, session_count, snapshots>>,
           UNCHANGED <<disk, baseline, versions, superseded>>,
           \/ UNCHANGED device_last_rev
           \/ /\ device_last_rev' = [device_last_rev EXCEPT ![d] = 0]
              /\ SessionsOf(d) \subseteq ids,
           sync' = [sync EXCEPT ![d] = Idle] \/ sync' = sync
    PROVE  SystemOK'
<1>1. ServerCore'
  BY SessionsClose DEF SystemOK
<1>2. /\ \A e : SessionsFollow(e)
      /\ \A s \in DOMAIN sessions' : s \in DOMAIN sessions /\ sessions'[s] = sessions[s]
  BY ClosingFollows DEF Without
<1>3. ContentsOK' /\ DiskOK' /\ BaselineOK'
  BY <1>2 DEF SystemOK, ContentsOK, DiskOK, BaselineOK, WrittenTree
<1>4. sync' = sync \/ CycleOK(d)'
  BY IdleCycle DEF SystemOK, CyclesOK
<1>5. head_rev <= head_rev' /\ session_count <= session_count' /\ versions <= versions'
  BY Counters
<1> QED BY <1>1, <1>2, <1>3, <1>4, <1>5, OneCycleMoves

\* A plan that is refused, or granted in vain.
LEMMA StartSyncInVainOK ==
    ASSUME SystemOK, NEW d \in Devices, StartSyncInVain(d)
    PROVE  SystemOK'
<1>1. UNCHANGED <<disk, baseline, versions, superseded>> /\ sync' = sync
  BY DEF StartSyncInVain, deviceVars
<1>2. CASE PlanBusy(d) \/ PlanGone(d, baseline[d].last_rev)
  <2>1. \E ids : sessions' = Without(sessions, ids)
    BY <1>2 DEF PlanBusy, PlanGone
  <2>2. UNCHANGED <<head_rev, min_valid_rev, file_index, live, session_count, snapshots, device_last_rev>>
    BY <1>2 DEF PlanBusy, PlanGone
  <2> QED BY <1>1, <2>1, <2>2, ClosingOK
<1>3. CASE Plan(d, baseline[d].last_rev, Report(d))
  BY <1>1, <1>3, Planned, OneCycleMoves
<1> QED BY <1>2, <1>3 DEF StartSyncInVain

\* A device is revoked and pairs again.
LEMMA PairAgainOK ==
    ASSUME SystemOK, NEW d \in Devices, PairAgain(d)
    PROVE  SystemOK'
<1>1. /\ sessions' = Without(sessions, SessionsOf(d))
      /\ UNCHANGED <<head_rev, min_valid_rev, file_index, live, session_count, snapshots>>
      /\ device_last_rev' = [device_last_rev EXCEPT ![d] = 0]
      /\ UNCHANGED <<disk, baseline, versions, superseded>>
      /\ sync' = [sync EXCEPT ![d] = Idle]
  BY DEF PairAgain, RevokeDevice
<1> QED BY <1>1, ClosingOK

-----------------------------------------------------------------------------
(***************************************************************************)
(* Before the commit.                                                      *)
(***************************************************************************)

\* The move of rename_local in a tree.
Moved(tree, p, q) == IF p \in DOMAIN tree THEN Keep(Drop(tree, p), q, tree[p]) ELSE tree

\* What it leaves.
LEMMA MovedTree ==
    ASSUME NEW tree, TreeTypeOK(tree), NEW p, NEW q \in Path
    PROVE  /\ TreeTypeOK(Moved(tree, p, q))
           /\ DOMAIN Moved(tree, p, q) =
                  IF p \in DOMAIN tree THEN (DOMAIN tree \ {p}) \cup {q} ELSE DOMAIN tree
           /\ \A x \in DOMAIN Moved(tree, p, q) :
                  IF p \in DOMAIN tree /\ x = q THEN Moved(tree, p, q)[x] = tree[p]
                  ELSE x \in DOMAIN tree /\ Moved(tree, p, q)[x] = tree[x]
<1>1. CASE p \in DOMAIN tree
  <2> DEFINE less == Drop(tree, p)
             meta == tree[p]
  <2>1. TreeTypeOK(less) /\ DOMAIN less = DOMAIN tree \ {p} /\ \A x \in DOMAIN tree \ {p} : less[x] = tree[x]
    BY DropTree
  <2>2. meta \in Meta
    BY <1>1 DEF TreeTypeOK
  <2>4. Moved(tree, p, q) = Keep(less, q, meta)
    BY <1>1 DEF Moved
  <2> HIDE DEF less, meta
  <2> DEFINE moved == Moved(tree, p, q)
  <2> HIDE DEF moved
  <2>3. TreeTypeOK(moved)
    <3>1. TreeTypeOK(less)
      BY <2>1
    <3>2. TreeTypeOK(Keep(less, q, meta))
      BY <3>1, <2>2, KeepTree
    <3> QED BY <3>2, <2>4 DEF moved
  <2>5. DOMAIN moved = DOMAIN less \cup {q}
    BY <2>1, <2>2, <2>4 DEF moved, Keep
  <2>6. moved[q] = meta /\ \A x \in DOMAIN less \ {q} : moved[x] = less[x]
    BY <2>1, <2>2, <2>4 DEF moved, Keep
  <2> QED BY <1>1, <2>1, <2>3, <2>5, <2>6 DEF moved, meta
<1>2. CASE p \notin DOMAIN tree
  BY <1>2 DEF Moved
<1> QED BY <1>1, <1>2

\* A cycle that is before its commit.
LEMMA RenameStep ==
    ASSUME SystemOK, NEW d \in Devices, sync[d].step = "rename"
    PROVE  RenamingOK(d, sync[d])
BY DEF SystemOK, CyclesOK, CycleOK

\* A cycle that is after its commit.
LEMMA ApplyStep ==
    ASSUME SystemOK, NEW d \in Devices, sync[d].step = "apply"
    PROVE  ApplyingOK(sync[d])
BY DEF SystemOK, CyclesOK, CycleOK

\* A loser moves in a tree whose contents have been written.
LEMMA MovedContents ==
    ASSUME NEW tree, WrittenTree(tree), NEW p, NEW q \in Path
    PROVE  WrittenTree(Moved(tree, p, q))
<1> DEFINE moved == Moved(tree, p, q)
<1>1. TreeTypeOK(tree)
  BY DEF WrittenTree
<1>2. TreeTypeOK(moved)
  BY <1>1, MovedTree
<1>4. \A x \in DOMAIN moved :
          IF p \in DOMAIN tree /\ x = q THEN moved[x] = tree[p]
          ELSE x \in DOMAIN tree /\ moved[x] = tree[x]
  BY <1>1, MovedTree
<1>3. ASSUME NEW x \in DOMAIN moved
      PROVE  moved[x].hash \in 1 .. versions
  <2> HIDE DEF moved
  <2>1. IF p \in DOMAIN tree /\ x = q THEN moved[x] = tree[p]
        ELSE x \in DOMAIN tree /\ moved[x] = tree[x]
    BY <1>3, <1>4
  <2>3. \E y \in DOMAIN tree : moved[x] = tree[y]
    BY <2>1
  <2> QED BY <2>3 DEF WrittenTree
<1> QED BY <1>2, <1>3 DEF WrittenTree

\* What a cycle becomes when a loser has moved.
Renamed(cycle, c) ==
    [step |-> "rename", session |-> cycle.session, plan |-> cycle.plan,
     staged |-> Moved(cycle.staged, c.path, c.loser_path), todo |-> cycle.todo \ {c}]

\* The step, with the new cycle written out.
LEMMA RenameLoserMoves ==
    ASSUME SystemOK, NEW d \in Devices, RenameLoser(d)
    PROVE  \E c \in sync[d].todo :
               /\ disk' = [disk EXCEPT ![d] = Moved(disk[d], c.path, c.loser_path)]
               /\ sync' = [sync EXCEPT ![d] = Renamed(sync[d], c)]
               /\ sync'[d] = Renamed(sync[d], c)
<1>1. PICK c \in sync[d].todo :
          /\ disk' = [disk EXCEPT ![d] = Moved(disk[d], c.path, c.loser_path)]
          /\ sync' = [sync EXCEPT
                 ![d] = [[sync[d] EXCEPT !.todo = sync[d].todo \ {c}]
                             EXCEPT !.staged = Moved(sync[d].staged, c.path, c.loser_path)]]
  BY DEF RenameLoser, Moved
<1> DEFINE staged == Moved(sync[d].staged, c.path, c.loser_path)
           todo   == sync[d].todo \ {c}
           cycle  == sync[d]
           a      == cycle.session
           b      == cycle.plan
           old    == cycle.staged
           left   == cycle.todo
<1>2. cycle = [step |-> "rename", session |-> a, plan |-> b, staged |-> old, todo |-> left]
  BY RenameStep DEF RenameLoser, RenamingOK
<1>3. Renamed(cycle, c) = [step |-> "rename", session |-> a, plan |-> b, staged |-> staged, todo |-> todo]
  BY DEF Renamed
<1> DEFINE mid == [cycle EXCEPT !.todo = todo]
<1>4. sync' = [sync EXCEPT ![d] = [mid EXCEPT !.staged = staged]]
  BY <1>1
<1> HIDE DEF cycle, staged, todo, a, b, old, left
<1>5. mid = [step |-> "rename", session |-> a, plan |-> b, staged |-> old, todo |-> todo]
  BY <1>2
<1> HIDE DEF mid
<1>51. [mid EXCEPT !.staged = staged] = Renamed(cycle, c)
  BY <1>3, <1>5
<1>6. sync' = [sync EXCEPT ![d] = Renamed(cycle, c)]
  BY <1>4, <1>51
<1>7. sync'[d] = Renamed(cycle, c)
  BY <1>6 DEF SystemOK, CyclesOK
<1> QED BY <1>1, <1>6, <1>7 DEF cycle

\* A loser moves on the disk and in the tree to be committed.
LEMMA RenameLoserOK ==
    ASSUME SystemOK, NEW d \in Devices, RenameLoser(d)
    PROVE  SystemOK'
<1> DEFINE cycle == sync[d]
<1>1. PICK c \in cycle.todo :
          /\ disk' = [disk EXCEPT ![d] = Moved(disk[d], c.path, c.loser_path)]
          /\ sync' = [sync EXCEPT ![d] = Renamed(cycle, c)]
          /\ sync'[d] = Renamed(cycle, c)
  BY RenameLoserMoves
<1>2. UNCHANGED <<vars, baseline, versions, superseded>>
  BY DEF RenameLoser
<1>3. RenamingOK(d, cycle)
  BY RenameStep DEF RenameLoser
<1>4. c.loser_path \in Path
  BY <1>3 DEF RenamingOK, PlanTypeOK
<1> DEFINE tree == Moved(disk[d], c.path, c.loser_path)
<1>5. WrittenTree(tree)
  <2>1. WrittenTree(disk[d])
    BY DEF SystemOK, DiskOK
  <2> QED BY <1>4, <2>1, MovedContents
<1>6. WrittenTree(Moved(cycle.staged, c.path, c.loser_path))
  <2>1. WrittenTree(cycle.staged)
    BY <1>3 DEF RenamingOK
  <2> QED BY <1>4, <2>1, MovedContents
<1> HIDE DEF tree
<1>7. DiskOK'
  <2>1. versions' = versions /\ disk' = [disk EXCEPT ![d] = tree]
    BY <1>1, <1>2 DEF tree
  <2>2. versions' \in Nat /\ versions <= versions'
    BY <2>1, Counters
  <2>3. TreeTypeOK(tree) /\ \A x \in DOMAIN tree : tree[x].hash \in 1 .. versions'
    BY <1>5, <2>1 DEF WrittenTree
  <2> QED BY <2>1, <2>2, <2>3, DiskMoves
<1>10. /\ sync'[d].step = "rename" /\ sync'[d].session = cycle.session /\ sync'[d].plan = cycle.plan
       /\ sync'[d].staged = Moved(cycle.staged, c.path, c.loser_path)
       /\ sync'[d].todo = cycle.todo \ {c}
       /\ sync'[d] = [step |-> "rename", session |-> sync'[d].session, plan |-> sync'[d].plan,
                      staged |-> sync'[d].staged, todo |-> sync'[d].todo]
  BY <1>1 DEF Renamed
<1>11. RenamingOK(d, sync[d])'
  <2>1. UNCHANGED <<session_count, versions, sessions, head_rev, file_index>>
    BY <1>2 DEF vars
  <2>2. WrittenTree(sync[d].staged)'
    BY <1>6, <1>10, <2>1 DEF WrittenTree
  <2>3. cycle.todo \ {c} \subseteq cycle.plan.conflicts
    BY <1>3 DEF RenamingOK
  <2>4. Fresh(cycle.session) => Fresh(sync[d].session)'
    BY <1>10, <2>1 DEF Fresh, ChangesSince, LivePaths
  <2>5. OwnedBy(sync[d].session, d)' <=> OwnedBy(cycle.session, d)
    BY <1>10, <2>1 DEF OwnedBy
  <2> QED BY <1>3, <1>10, <2>1, <2>2, <2>3, <2>4, <2>5 DEF RenamingOK
<1>12. CycleOK(d)'
  BY <1>10, <1>11 DEF CycleOK
<1> QED BY <1>1, <1>2, <1>7, <1>12, OthersStay, OneCycleMoves

\* A blob arrives: a content of the tree to be committed.
LEMMA UploadOK ==
    ASSUME SystemOK, NEW d \in Devices, Upload(d)
    PROVE  SystemOK'
<1> DEFINE cycle == sync[d]
<1>1. PICK p \in DOMAIN cycle.staged :
          PutBlob(d, cycle.session, p, cycle.staged[p].hash, cycle.staged[p].mtime)
  BY DEF Upload
<1>2. UNCHANGED <<disk, baseline, sync, versions, superseded>>
  BY DEF Upload, deviceVars
<1>3. WrittenTree(cycle.staged)
  BY RenameStep DEF Upload, RenamingOK
<1> DEFINE hash == cycle.staged[p].hash
           mtime == cycle.staged[p].mtime
<1>4. p \in Path /\ hash \in Hashes /\ mtime \in Int /\ hash \in 1 .. versions
  BY <1>3 DEF WrittenTree, TreeTypeOK, Meta
<1> HIDE DEF hash, mtime
<1>5. /\ ServerCore'
      /\ DOMAIN sessions' = DOMAIN sessions
      /\ \A t \in DOMAIN sessions :
            /\ sessions'[t].device = sessions[t].device /\ sessions'[t].head = sessions[t].head
            /\ sessions'[t].plan = sessions[t].plan /\ sessions'[t].since = sessions[t].since
            /\ sessions'[t].changes = sessions[t].changes
            /\ \/ sessions'[t].blobs = sessions[t].blobs
               \/ sessions'[t].blobs = Staged(sessions[t].blobs, p, hash, mtime)
  BY <1>1, <1>4, PutBlobStep DEF SystemOK, hash, mtime
<1>6. UNCHANGED <<head_rev, file_index, live, session_count>>
  BY <1>1 DEF PutBlob
<1>7. \A e : SessionsFollow(e)
  BY <1>5, <1>6, FreshStays DEF SessionsFollow
<1>8. ContentsOK'
  <2>1. ASSUME NEW t \in DOMAIN sessions', NEW q \in DOMAIN sessions'[t].blobs
        PROVE  sessions'[t].blobs[q].hash \in 1 .. versions
    <3>1. t \in DOMAIN sessions
      BY <1>5
    <3>2. CASE sessions'[t].blobs = sessions[t].blobs
      BY <3>1, <3>2 DEF SystemOK, ContentsOK
    <3>3. CASE sessions'[t].blobs = Staged(sessions[t].blobs, p, hash, mtime)
      <4>1. CASE q = p
        BY <1>4, <3>3, <4>1 DEF Staged
      <4>2. CASE q # p
        <5>1. q \in DOMAIN sessions[t].blobs /\ sessions'[t].blobs[q] = sessions[t].blobs[q]
          BY <3>3, <4>2 DEF Staged
        <5> QED BY <3>1, <5>1 DEF SystemOK, ContentsOK
      <4> QED BY <4>1, <4>2
    <3> QED BY <1>5, <3>1, <3>2, <3>3
  <2> QED BY <1>2, <1>6, <2>1 DEF SystemOK, ContentsOK
<1>9. DiskOK' /\ BaselineOK'
  BY <1>2, <1>6 DEF SystemOK, DiskOK, BaselineOK, WrittenTree
<1>10. head_rev <= head_rev' /\ session_count <= session_count' /\ versions <= versions'
  BY <1>2, <1>6, Counters
<1> QED BY <1>2, <1>5, <1>7, <1>8, <1>9, <1>10, OneCycleMoves

-----------------------------------------------------------------------------
(***************************************************************************)
(* The commit.                                                             *)
(***************************************************************************)

\* Whatever part of a plan a commit gets to, the files of the server hold
\* contents that have been written.
LEMMA LiveWritten ==
    ASSUME SystemOK, NEW s \in DOMAIN sessions, Fresh(s), MissingUploads(s) = {},
           NEW done, PartOf(done, sessions[s].plan),
           live' = LiveAfter(done, sessions[s].blobs)
    PROVE  \A p \in DOMAIN live' : live'[p] \in 1 .. versions
<1> DEFINE blobs   == sessions[s].blobs
           renames == {r \in done.server_rename : r.from \in DOMAIN live}
           moved   == {r.from : r \in renames}
           targets == {r.to : r \in renames}
           uploads == UploadPaths(done)
           paths   == (((DOMAIN live \ moved) \cup targets) \cup uploads) \ done.server_delete
<1>1. live' = [p \in paths |-> IF p \in uploads THEN blobs[p].hash
                               ELSE IF p \in targets THEN live[RenameSource(done, p)]
                               ELSE live[p]]
  BY DEF LiveAfter
<1>2. \A p \in uploads : blobs[p].hash \in 1 .. versions
  BY DEF PartOf, MissingUploads, SystemOK, ContentsOK
<1>3. ASSUME NEW p \in targets
      PROVE  RenameSource(done, p) \in DOMAIN live
  <2>1. PICK r \in renames : r.to = p
    OBVIOUS
  <2> DEFINE x == CHOOSE y \in done.server_rename : y.to = p
  <2>2. x \in done.server_rename /\ x.to = p
    BY <2>1
  <2>3. RenameSource(done, p) = x.from
    BY DEF RenameSource
  <2> HIDE DEF x
  <2>4. x \in sessions[s].plan.server_rename /\ r \in sessions[s].plan.server_rename
    BY <2>2 DEF PartOf
  <2>5. /\ RenameSource(sessions[s].plan, x.to) = x.from
        /\ RenameSource(sessions[s].plan, r.to) = r.from
    BY <2>4, FreshPlan DEF SystemOK
  <2> QED BY <2>1, <2>2, <2>3, <2>5
<1>4. \A p \in DOMAIN live : live[p] \in 1 .. versions
  BY DEF SystemOK, ContentsOK
<1> HIDE DEF targets, uploads, blobs, moved
<1>5. ASSUME NEW p \in paths
      PROVE  live'[p] \in 1 .. versions
  <2>1. CASE p \in uploads
    BY <1>1, <1>2, <2>1
  <2>2. CASE p \notin uploads /\ p \in targets
    BY <1>1, <1>3, <1>4, <2>2
  <2>3. CASE p \notin uploads /\ p \notin targets
    BY <1>1, <1>4, <2>3
  <2> QED BY <2>1, <2>2, <2>3
<1> QED BY <1>1, <1>5

\* A device that commits has a fresh session.
LEMMA CommitterFresh ==
    ASSUME SystemOK, NEW d \in Devices, sync[d].step = "rename", OwnedBy(sync[d].session, d)
    PROVE  /\ sync[d].session \in DOMAIN sessions /\ Fresh(sync[d].session)
           /\ sessions[sync[d].session].plan = sync[d].plan
BY RenameStep DEF RenamingOK, OwnedBy

\* A commit, as the whole system sees it.
LEMMA Committed ==
    ASSUME SystemOK, NEW d \in Devices, sync[d].step = "rename", Commit(d, sync[d].session),
           UNCHANGED <<disk, baseline, versions, superseded>>
    PROVE  /\ ServerCore' /\ ContentsOK' /\ DiskOK' /\ BaselineOK'
           /\ \A e : SessionsFollow(e)
           /\ head_rev <= head_rev' /\ session_count <= session_count' /\ versions <= versions'
           /\ head_rev' \in 0 .. head_rev'
<1> DEFINE s == sync[d].session
<1>1. s \in DOMAIN sessions /\ Fresh(s) /\ MissingUploads(s) = {}
  BY CommitterFresh DEF Commit
<1>2. /\ ServerCore' /\ DOMAIN sessions' = {} /\ head_rev' = head_rev + 1
  BY <1>1, CommitStep DEF SystemOK
<1>3. live' = LiveAfter(sessions[s].plan, sessions[s].blobs) /\ session_count' = session_count
  BY DEF Commit
<1>4. ContentsOK'
  <2>1. PartOf(sessions[s].plan, sessions[s].plan)
    BY DEF PartOf
  <2>2. \A p \in DOMAIN live' : live'[p] \in 1 .. versions
    BY <1>1, <1>3, <2>1, LiveWritten
  <2> QED BY <1>2, <2>2 DEF SystemOK, ContentsOK
<1>5. head_rev \in Nat /\ session_count \in Nat /\ versions \in Nat
  BY Counters
<1>6. DiskOK' /\ BaselineOK'
  <2>1. \A e \in Devices : baseline[e].last_rev \in 0 .. head_rev'
    BY <1>2, <1>5 DEF SystemOK, BaselineOK
  <2> QED BY <2>1 DEF SystemOK, DiskOK, BaselineOK, WrittenTree
<1>7. \A e : SessionsFollow(e)
  BY <1>2 DEF SessionsFollow
<1> QED BY <1>2, <1>3, <1>4, <1>5, <1>6, <1>7

\* After the commit the cycle has the tree it committed and the lists of its
\* plan left to apply.
LEMMA ApplyingStarts ==
    ASSUME SystemOK, NEW d \in Devices, sync[d].step = "rename",
           sync' = [sync EXCEPT ![d] = Applying(sync[d], head_rev')],
           head_rev' \in 0 .. head_rev'
    PROVE  CycleOK(d)'
<1> DEFINE cycle == sync[d]
           new   == Applying(cycle, head_rev')
<1>1. RenamingOK(d, cycle)
  BY RenameStep
<1>2. sync'[d] = new
  BY DEF SystemOK, CyclesOK
<1>3. new = [step |-> "apply", plan |-> cycle.plan, next |-> cycle.staged,
             todo |-> cycle.plan.download, gone |-> cycle.plan.delete_local, new_rev |-> head_rev']
  BY DEF Applying
<1>4. PlanTypeOK(cycle.plan) /\ TreeTypeOK(cycle.staged)
  BY <1>1 DEF RenamingOK, WrittenTree
<1> HIDE DEF new
<1>5. /\ new.step = "apply" /\ new.plan = cycle.plan /\ new.next = cycle.staged
      /\ new.todo = cycle.plan.download /\ new.new_rev = head_rev'
      /\ new = [step |-> "apply", plan |-> new.plan, next |-> new.next, todo |-> new.todo,
                gone |-> new.gone, new_rev |-> new.new_rev]
  BY <1>3
<1>6. ApplyingOK(sync[d])'
  BY <1>2, <1>4, <1>5 DEF ApplyingOK
<1> QED BY <1>2, <1>5, <1>6 DEF CycleOK

\* A commit answers and the device goes on.
LEMMA CommitSyncOK ==
    ASSUME SystemOK, NEW d \in Devices, CommitSync(d)
    PROVE  SystemOK'
<1>1. /\ sync[d].step = "rename" /\ Commit(d, sync[d].session)
      /\ sync' = [sync EXCEPT ![d] = Applying(sync[d], head_rev')]
      /\ UNCHANGED <<disk, baseline, versions, superseded>>
  BY DEF CommitSync
<1>2. /\ ServerCore' /\ ContentsOK' /\ DiskOK' /\ BaselineOK'
      /\ \A e : SessionsFollow(e)
      /\ head_rev <= head_rev' /\ session_count <= session_count' /\ versions <= versions'
      /\ head_rev' \in 0 .. head_rev'
  BY <1>1, Committed
<1>3. CycleOK(d)'
  BY <1>1, <1>2, ApplyingStarts
<1> DEFINE new == Applying(sync[d], head_rev')
<1>4. sync' = [sync EXCEPT ![d] = new]
  BY <1>1
<1> HIDE DEF new
<1> QED BY <1>2, <1>3, <1>4, OneCycleMoves

\* Files move, no row is written and the cycle ends.
LEMMA FilesMoveOK ==
    ASSUME SystemOK, NEW d \in Devices, NEW s \in DOMAIN sessions, Fresh(s), MissingUploads(s) = {},
           NEW done, PartOf(done, sessions[s].plan),
           live' = LiveAfter(done, sessions[s].blobs),
           UNCHANGED <<head_rev, min_valid_rev, file_index, device_last_rev,
                       sessions, session_count, snapshots>>,
           UNCHANGED <<disk, baseline, versions, superseded>>,
           sync' = [sync EXCEPT ![d] = Idle]
    PROVE  SystemOK'
<1>1. ServerCore' /\ \A e : SessionsFollow(e)
  BY NothingChanges, NothingFollows DEF SystemOK
<1>2. \A p \in DOMAIN live' : live'[p] \in 1 .. versions
  BY LiveWritten
<1>3. ContentsOK' /\ DiskOK' /\ BaselineOK'
  BY <1>2 DEF SystemOK, ContentsOK, DiskOK, BaselineOK, WrittenTree
<1>4. CycleOK(d)'
  BY IdleCycle DEF SystemOK, CyclesOK
<1>5. head_rev <= head_rev' /\ session_count <= session_count' /\ versions <= versions'
  BY Counters
<1> QED BY <1>1, <1>3, <1>4, <1>5, OneCycleMoves

\* A commit fails half-way, or its answer is lost.
LEMMA CommitInVainOK ==
    ASSUME SystemOK, NEW d \in Devices, CommitInVain(d)
    PROVE  SystemOK'
<1> DEFINE s == sync[d].session
<1>1. /\ sync[d].step = "rename"
      /\ sync' = [sync EXCEPT ![d] = Idle]
      /\ UNCHANGED <<disk, baseline, versions, superseded>>
  BY DEF CommitInVain
<1>2. CASE CommitFails(d, s)
  <2> DEFINE plan == sessions[s].plan
  <2>1. PICK twice \in RepeatedUploads(plan), names \in SUBSET UploadPaths(plan) :
            live' = LiveAfter([plan EXCEPT !.upload = {u \in plan.upload : u.path \in names},
                                           !.server_delete = {}], sessions[s].blobs)
    BY <1>2 DEF CommitFails
  <2> DEFINE done == [plan EXCEPT !.upload = {u \in plan.upload : u.path \in names},
                                  !.server_delete = {}]
  <2>2. s \in DOMAIN sessions /\ Fresh(s) /\ MissingUploads(s) = {}
    BY <1>1, <1>2, CommitterFresh DEF CommitFails
  <2>3. PartOf(done, plan)
    <3>1. plan = ComputePlan(sessions[s].changes, ChangesSince(sessions[s].since), LivePaths)
      BY <2>2 DEF Fresh
    <3> QED BY <3>1 DEF PartOf, UploadPaths, ComputePlan
  <2>4. UNCHANGED <<head_rev, min_valid_rev, file_index, device_last_rev,
                    sessions, session_count, snapshots>>
    BY <1>2 DEF CommitFails
  <2> HIDE DEF done
  <2>5. live' = LiveAfter(done, sessions[s].blobs)
    BY <2>1 DEF done
  <2> QED BY <1>1, <2>2, <2>3, <2>4, <2>5, FilesMoveOK
<1>3. CASE Commit(d, s)
  <2>1. CycleOK(d)'
    BY <1>1, IdleCycle DEF SystemOK, CyclesOK
  <2> QED BY <1>1, <1>3, <2>1, Committed, OneCycleMoves
<1> QED BY <1>2, <1>3 DEF CommitInVain

-----------------------------------------------------------------------------
(***************************************************************************)
(* After the commit.                                                       *)
(***************************************************************************)

\* What the cycle becomes when a file of the server has come.
Downloaded(cycle, item, meta) ==
    [step |-> "apply", plan |-> cycle.plan, next |-> Keep(cycle.next, item.path, meta),
     todo |-> cycle.todo \ {item}, gone |-> cycle.gone, new_rev |-> cycle.new_rev]

\* And when one has been removed.
Removed(cycle, p) ==
    [step |-> "apply", plan |-> cycle.plan, next |-> Drop(cycle.next, p),
     todo |-> cycle.todo, gone |-> cycle.gone \ {p}, new_rev |-> cycle.new_rev]

\* The download, with the new cycle written out.
LEMMA ApplyDownloadMoves ==
    ASSUME SystemOK, NEW d \in Devices, ApplyDownload(d)
    PROVE  \E item \in sync[d].todo, mtime \in MTimes :
               LET hash == live[item.path]
                   new  == Downloaded(sync[d], item, [hash |-> hash, mtime |-> item.mtime])
               IN  /\ item.path \in LivePaths /\ item.path \in DOMAIN live
                   /\ file_index[item.path].hash = item.hash
                   /\ disk' = [disk EXCEPT ![d] =
                          Keep(disk[d], item.path, [hash |-> hash, mtime |-> mtime])]
                   /\ sync' = [sync EXCEPT ![d] = new] /\ sync'[d] = new
<1> DEFINE cycle == sync[d]
<1>1. PICK item \in cycle.todo, mtime \in MTimes :
          /\ item.path \in LivePaths /\ item.path \in DOMAIN live
          /\ file_index[item.path].hash = item.hash
          /\ disk' = [disk EXCEPT ![d] =
                 Keep(disk[d], item.path, [hash |-> live[item.path], mtime |-> mtime])]
          /\ sync' = [sync EXCEPT ![d] = [[cycle EXCEPT !.todo = cycle.todo \ {item}]
                 EXCEPT !.next = Keep(cycle.next, item.path,
                                      [hash |-> live[item.path], mtime |-> item.mtime])]]
  BY DEF ApplyDownload
<1> DEFINE meta == [hash |-> live[item.path], mtime |-> item.mtime]
           next == Keep(cycle.next, item.path, meta)
           todo == cycle.todo \ {item}
           plan == cycle.plan
           old  == cycle.next
           left == cycle.todo
           gone == cycle.gone
           rev  == cycle.new_rev
           mid  == [cycle EXCEPT !.todo = todo]
           new  == Downloaded(cycle, item, meta)
<1>2. cycle = [step |-> "apply", plan |-> plan, next |-> old, todo |-> left, gone |-> gone, new_rev |-> rev]
  BY ApplyStep DEF ApplyDownload, ApplyingOK
<1>3. new = [step |-> "apply", plan |-> plan, next |-> next, todo |-> todo, gone |-> gone, new_rev |-> rev]
  BY DEF Downloaded
<1>4. sync' = [sync EXCEPT ![d] = [mid EXCEPT !.next = next]]
  BY <1>1
<1> HIDE DEF cycle, meta, next, todo, plan, old, left, gone, rev, new
<1>5. mid = [step |-> "apply", plan |-> plan, next |-> old, todo |-> todo, gone |-> gone, new_rev |-> rev]
  BY <1>2
<1> HIDE DEF mid
<1>6. [mid EXCEPT !.next = next] = new
  BY <1>3, <1>5
<1>7. sync' = [sync EXCEPT ![d] = new] /\ sync'[d] = new
  BY <1>4, <1>6 DEF SystemOK, CyclesOK
<1> QED BY <1>1, <1>7 DEF cycle, new, meta

\* The removal, with the new cycle written out.
LEMMA ApplyDeleteMoves ==
    ASSUME SystemOK, NEW d \in Devices, ApplyDelete(d)
    PROVE  \E p \in sync[d].gone :
               /\ disk' = [disk EXCEPT ![d] = Drop(disk[d], p)]
               /\ sync' = [sync EXCEPT ![d] = Removed(sync[d], p)]
               /\ sync'[d] = Removed(sync[d], p)
<1> DEFINE cycle == sync[d]
<1>1. PICK p \in cycle.gone :
          /\ disk' = [disk EXCEPT ![d] = Drop(disk[d], p)]
          /\ sync' = [sync EXCEPT ![d] = [[cycle EXCEPT !.gone = cycle.gone \ {p}]
                                              EXCEPT !.next = Drop(cycle.next, p)]]
  BY DEF ApplyDelete
<1> DEFINE next == Drop(cycle.next, p)
           gone == cycle.gone \ {p}
           plan == cycle.plan
           old  == cycle.next
           todo == cycle.todo
           left == cycle.gone
           rev  == cycle.new_rev
           mid  == [cycle EXCEPT !.gone = gone]
           new  == Removed(cycle, p)
<1>2. cycle = [step |-> "apply", plan |-> plan, next |-> old, todo |-> todo, gone |-> left, new_rev |-> rev]
  BY ApplyStep DEF ApplyDelete, ApplyingOK
<1>3. new = [step |-> "apply", plan |-> plan, next |-> next, todo |-> todo, gone |-> gone, new_rev |-> rev]
  BY DEF Removed
<1>4. sync' = [sync EXCEPT ![d] = [mid EXCEPT !.next = next]]
  BY <1>1
<1> HIDE DEF cycle, next, todo, plan, old, left, gone, rev, new
<1>5. mid = [step |-> "apply", plan |-> plan, next |-> old, todo |-> todo, gone |-> gone, new_rev |-> rev]
  BY <1>2
<1> HIDE DEF mid
<1>6. [mid EXCEPT !.next = next] = new
  BY <1>3, <1>5
<1>7. sync' = [sync EXCEPT ![d] = new] /\ sync'[d] = new
  BY <1>4, <1>6 DEF SystemOK, CyclesOK
<1> QED BY <1>1, <1>7 DEF cycle, new

\* A file of the server is written to the disk and to the next baseline.
LEMMA ApplyDownloadOK ==
    ASSUME SystemOK, NEW d \in Devices, ApplyDownload(d)
    PROVE  SystemOK'
<1> DEFINE cycle == sync[d]
<1>1. PICK item \in cycle.todo, mtime \in MTimes :
          LET hash == live[item.path]
              new  == Downloaded(cycle, item, [hash |-> hash, mtime |-> item.mtime])
          IN  /\ item.path \in DOMAIN live
              /\ disk' = [disk EXCEPT ![d] = Keep(disk[d], item.path, [hash |-> hash, mtime |-> mtime])]
              /\ sync' = [sync EXCEPT ![d] = new] /\ sync'[d] = new
  BY ApplyDownloadMoves
<1> DEFINE p     == item.path
           given == [hash |-> live[item.path], mtime |-> mtime]
           kept  == [hash |-> live[item.path], mtime |-> item.mtime]
           tree  == Keep(disk[d], p, given)
           new   == Downloaded(cycle, item, kept)
<1>2. UNCHANGED <<vars, baseline, versions, superseded>>
  BY DEF ApplyDownload
<1>3. ApplyingOK(cycle)
  BY ApplyStep DEF ApplyDownload
<1>4. p \in Path /\ given \in Meta /\ kept \in Meta /\ given.hash \in 1 .. versions
  <2>1. live[item.path] \in 1 .. versions
    BY <1>1 DEF SystemOK, ContentsOK
  <2>2. live[item.path] \in Hashes
    BY <2>1, Counters, ContentsAssumption DEF SystemOK, ContentsOK
  <2>3. item.path \in Path /\ item.mtime \in Int /\ mtime \in Int
    BY <1>1, <1>3, MTimesAssumption DEF ApplyingOK, PlanTypeOK
  <2> QED BY <2>1, <2>2, <2>3 DEF Meta
<1>5. sync' = [sync EXCEPT ![d] = new] /\ sync'[d] = new /\ disk' = [disk EXCEPT ![d] = tree]
  BY <1>1
<1> HIDE DEF given, kept
<1>6. TreeTypeOK(tree) /\ \A x \in DOMAIN tree : tree[x].hash \in 1 .. versions
  <2>1. TreeTypeOK(disk[d]) /\ \A x \in DOMAIN disk[d] : disk[d][x].hash \in 1 .. versions
    BY DEF SystemOK, DiskOK, WrittenTree
  <2>2. TreeTypeOK(tree)
    BY <1>4, <2>1, KeepTree
  <2>3. DOMAIN tree = DOMAIN disk[d] \cup {p} /\ \A x \in DOMAIN tree : tree[x] = IF x = p THEN given ELSE disk[d][x]
    BY DEF Keep
  <2> HIDE DEF tree
  <2> QED BY <1>4, <2>1, <2>2, <2>3
<1>7. TreeTypeOK(new.next)
  BY <1>3, <1>4, KeepTree DEF ApplyingOK, Downloaded
<1> HIDE DEF tree
<1>8. DiskOK'
  <2>1. versions' = versions
    BY <1>2
  <2>2. versions' \in Nat /\ versions <= versions' /\ \A x \in DOMAIN tree : tree[x].hash \in 1 .. versions'
    BY <1>6, <2>1, Counters
  <2> QED BY <1>5, <1>6, <2>2, DiskMoves
<1>9. CycleOK(d)'
  <2>1. /\ new = [step |-> "apply", plan |-> new.plan, next |-> new.next, todo |-> new.todo,
                  gone |-> new.gone, new_rev |-> new.new_rev]
        /\ new.step = "apply" /\ new.plan = cycle.plan /\ new.todo \subseteq cycle.todo
        /\ new.new_rev = cycle.new_rev
    BY DEF Downloaded
  <2> HIDE DEF new, cycle
  <2>2. head_rev' = head_rev
    BY <1>2 DEF vars
  <2>3. ApplyingOK(sync[d])'
    BY <1>3, <1>5, <1>7, <2>1, <2>2 DEF ApplyingOK
  <2> QED BY <1>5, <2>1, <2>3 DEF CycleOK
<1> QED BY <1>2, <1>5, <1>8, <1>9, OthersStay, OneCycleMoves

\* A file the server no longer has is removed.
LEMMA ApplyDeleteOK ==
    ASSUME SystemOK, NEW d \in Devices, ApplyDelete(d)
    PROVE  SystemOK'
<1> DEFINE cycle == sync[d]
<1>1. PICK p \in cycle.gone :
          /\ disk' = [disk EXCEPT ![d] = Drop(disk[d], p)]
          /\ sync' = [sync EXCEPT ![d] = Removed(cycle, p)]
          /\ sync'[d] = Removed(cycle, p)
  BY ApplyDeleteMoves
<1> DEFINE tree == Drop(disk[d], p)
           new  == Removed(cycle, p)
<1>2. UNCHANGED <<vars, baseline, versions, superseded>>
  BY DEF ApplyDelete
<1>3. ApplyingOK(cycle)
  BY ApplyStep DEF ApplyDelete
<1>4. TreeTypeOK(new.next)
  BY <1>3, DropTree DEF ApplyingOK, Removed
<1>5. TreeTypeOK(tree) /\ \A x \in DOMAIN tree : tree[x].hash \in 1 .. versions
  <2>1. TreeTypeOK(disk[d]) /\ \A x \in DOMAIN disk[d] : disk[d][x].hash \in 1 .. versions
    BY DEF SystemOK, DiskOK, WrittenTree
  <2>2. TreeTypeOK(tree) /\ DOMAIN tree = DOMAIN disk[d] \ {p} /\ \A x \in DOMAIN tree : tree[x] = disk[d][x]
    BY <2>1, DropTree
  <2> HIDE DEF tree
  <2> QED BY <2>1, <2>2
<1>6. DiskOK'
  <2>1. versions' = versions /\ disk' = [disk EXCEPT ![d] = tree]
    BY <1>1, <1>2
  <2> HIDE DEF tree
  <2>2. versions' \in Nat /\ versions <= versions' /\ \A x \in DOMAIN tree : tree[x].hash \in 1 .. versions'
    BY <1>5, <2>1, Counters
  <2> QED BY <1>5, <2>1, <2>2, DiskMoves
<1>7. CycleOK(d)'
  <2>1. /\ new = [step |-> "apply", plan |-> new.plan, next |-> new.next, todo |-> new.todo,
                  gone |-> new.gone, new_rev |-> new.new_rev]
        /\ new.step = "apply" /\ new.plan = cycle.plan /\ new.todo = cycle.todo
        /\ new.new_rev = cycle.new_rev
    BY DEF Removed
  <2>2. sync'[d] = new
    BY <1>1
  <2> HIDE DEF new, cycle
  <2>3. head_rev' = head_rev
    BY <1>2 DEF vars
  <2>4. ApplyingOK(sync[d])'
    BY <1>3, <1>4, <2>1, <2>2, <2>3 DEF ApplyingOK
  <2> QED BY <2>1, <2>2, <2>4 DEF CycleOK
<1> QED BY <1>1, <1>2, <1>6, <1>7, OthersStay, OneCycleMoves

\* The baseline is saved: a tree, at the revision of the commit.
LEMMA FinishOK ==
    ASSUME SystemOK, NEW d \in Devices, Finish(d)
    PROVE  SystemOK'
<1> DEFINE new == [last_rev |-> sync[d].new_rev, files |-> sync[d].next]
<1>1. /\ baseline' = [baseline EXCEPT ![d] = new]
      /\ sync' = [sync EXCEPT ![d] = Idle]
      /\ UNCHANGED <<vars, disk, versions, superseded>>
  BY DEF Finish
<1>2. new.last_rev \in 0 .. head_rev /\ TreeTypeOK(new.files)
  BY ApplyStep DEF Finish, ApplyingOK
<1> HIDE DEF new
<1>3. BaselineOK'
  <2>1. head_rev' = head_rev
    BY <1>1 DEF vars
  <2>2. /\ DOMAIN baseline' = Devices /\ baseline'[d] = new
        /\ \A e \in Devices \ {d} : baseline'[e] = baseline[e]
    BY <1>1 DEF SystemOK, BaselineOK
  <2> QED BY <1>2, <2>1, <2>2 DEF SystemOK, BaselineOK
<1>4. CycleOK(d)'
  BY <1>1, IdleCycle DEF SystemOK, CyclesOK
<1> QED BY <1>1, <1>3, <1>4, OthersStay, OneCycleMoves

\* A cycle ends at any step.
LEMMA AbortOK ==
    ASSUME SystemOK, NEW d \in Devices, Abort(d)
    PROVE  SystemOK'
<1>1. /\ sync' = [sync EXCEPT ![d] = Idle]
      /\ UNCHANGED <<vars, disk, baseline, versions, superseded>>
  BY DEF Abort
<1>2. CycleOK(d)'
  BY <1>1, IdleCycle DEF SystemOK, CyclesOK
<1> QED BY <1>1, <1>2, OthersStay, OneCycleMoves

-----------------------------------------------------------------------------
(***************************************************************************)
(* Commits that stop.                                                      *)
(***************************************************************************)

\* What a stopped loop has done is part of the plan.
LEMMA PrefixesPart ==
    ASSUME NEW s, Fresh(s), NEW done \in Prefixes(sessions[s].plan)
    PROVE  PartOf(done, sessions[s].plan)
<1> DEFINE plan == sessions[s].plan
<1>1. plan = ComputePlan(sessions[s].changes, ChangesSince(sessions[s].since), LivePaths)
  BY DEF Fresh
<1>2. plan = [upload |-> plan.upload, download |-> plan.download, delete_local |-> plan.delete_local,
              conflicts |-> plan.conflicts, server_delete |-> plan.server_delete,
              server_rename |-> plan.server_rename]
  BY <1>1 DEF ComputePlan
<1> HIDE DEF plan
<1>3. \/ \E renames \in SUBSET plan.server_rename :
             done = [plan EXCEPT !.server_rename = renames, !.upload = {}, !.server_delete = {}]
      \/ \E uploads \in SUBSET plan.upload : done = [plan EXCEPT !.upload = uploads, !.server_delete = {}]
      \/ \E deletes \in SUBSET plan.server_delete : done = [plan EXCEPT !.server_delete = deletes]
  BY DEF Prefixes, plan
<1>4. /\ done.server_rename \subseteq plan.server_rename
      /\ done.upload \subseteq plan.upload
      /\ done.server_delete \subseteq plan.server_delete
  BY <1>2, <1>3
<1> QED BY <1>4 DEF PartOf, UploadPaths, plan

\* The files are moved, the head is bumped and some rows are written.  The
\* session stays, and may no longer be fresh: it belongs to a device whose
\* cycle has ended.
LEMMA StopInRowsOK ==
    ASSUME SystemOK, NEW d \in Devices, sync[d].step = "rename", StopInRows(d, sync[d].session),
           sync' = [sync EXCEPT ![d] = Idle],
           UNCHANGED <<disk, baseline, versions, superseded>>
    PROVE  SystemOK'
<1> DEFINE s     == sync[d].session
           plan  == sessions[s].plan
           blobs == sessions[s].blobs
           rev   == head_rev + 1
<1>1. /\ s \in DOMAIN sessions /\ sessions[s].device = d /\ Fresh(s)
      /\ MissingUploads(s) = {} /\ UploadPaths(plan) \subseteq DOMAIN blobs
  BY CommitterFresh DEF StopInRows, Committing, MissingUploads, OwnedBy
<1>2. PICK done \in Prefixes(plan) :
          /\ head_rev' = rev
          /\ live' = LiveAfter(plan, blobs)
          /\ file_index' = IndexAfter(done, blobs, rev)
          /\ \/ UNCHANGED device_last_rev
             \/ device_last_rev' = [device_last_rev EXCEPT ![d] = rev]
          /\ snapshots' = [r \in 0 .. rev |->
                              IF r = rev THEN ContentsOf(file_index') ELSE snapshots[r]]
  BY DEF StopInRows
<1>3. UNCHANGED <<min_valid_rev, sessions, session_count>>
  BY DEF StopInRows
<1>4. PartOf(done, plan) /\ PartOf(plan, plan)
  BY <1>1, PrefixesPart DEF PartOf
<1>5. rev \in 1 .. MaxRev /\ IndexWritten(file_index', rev) /\ head_rev \in Nat
  BY <1>1, <1>2, <1>4, PlanRows, Counters DEF SystemOK
<1> HIDE DEF plan, blobs
<1>6. /\ IndexTypeOK' /\ RowsStand'
      /\ \A p \in DOMAIN file_index' : file_index'[p].rev \in Nat /\ file_index'[p].rev <= head_rev'
      /\ DOMAIN snapshots' = 0 .. head_rev' /\ DOMAIN snapshots'[0] = {}
  <2> DEFINE index == file_index'
  <2>1. /\ IndexWritten(index, head_rev + 1) /\ head_rev' = head_rev + 1
        /\ DOMAIN file_index' \subseteq DOMAIN index
        /\ \A p \in DOMAIN file_index' : file_index'[p] = index[p]
        /\ \A p \in DOMAIN index \ DOMAIN file_index' : index[p].deleted
        /\ snapshots' = [r \in 0 .. head_rev' |->
                            IF r = head_rev' THEN ContentsOf(index) ELSE snapshots[r]]
    BY <1>2, <1>5
  <2> HIDE DEF index
  <2>2. /\ IndexTypeOK' /\ RowsStand'
        /\ \A p \in DOMAIN index : index[p].rev \in Nat /\ index[p].rev <= head_rev'
        /\ DOMAIN snapshots' = 0 .. head_rev' /\ DOMAIN snapshots'[0] = {}
    BY <2>1, RowsKept DEF SystemOK
  <2> QED BY <2>2 DEF index
<1>7. ServerTypeOK'
  <2>1. device_last_rev' \in [Devices -> 0 .. MaxRev]
    BY <1>2, <1>5 DEF SystemOK, ServerCore, ServerTypeOK
  <2>2. head_rev' \in 0 .. MaxRev
    BY <1>2, <1>5
  <2> QED BY <1>3, <1>6, <2>1, <2>2 DEF SystemOK, ServerCore, ServerTypeOK, SessionTypeOK
<1>8. SessionExclusive'
  BY <1>3 DEF SystemOK, ServerCore, SessionExclusive
<1>9. RevisionsBounded'
  <2>1. \A e \in Devices : device_last_rev'[e] <= head_rev'
    <3>1. \A e \in Devices : device_last_rev[e] \in Nat /\ device_last_rev[e] <= head_rev
      BY BoundsAssumption DEF SystemOK, ServerCore, RevisionsBounded, ServerTypeOK
    <3>2. \A e \in Devices : device_last_rev'[e] = device_last_rev[e] \/ device_last_rev'[e] = rev
      BY <1>2 DEF SystemOK, ServerCore, ServerTypeOK
    <3> QED BY <1>2, <1>5, <3>1, <3>2
  <2>2. min_valid_rev' <= head_rev'
    BY <1>2, <1>3, <1>5 DEF SystemOK, ServerCore, RevisionsBounded, ServerTypeOK
  <2>3. ASSUME NEW t \in DOMAIN sessions'
        PROVE  sessions'[t].since <= device_last_rev'[sessions'[t].device]
    <3>1. /\ t \in DOMAIN sessions /\ sessions'[t] = sessions[t] /\ sessions[t].device \in Devices
          /\ sessions[t].since \in 0 .. MaxRev
      BY <1>3 DEF SystemOK, ServerCore, ServerTypeOK, SessionTypeOK
    <3> DEFINE e == sessions[t].device
               since == sessions[t].since
    <3>2. /\ since <= device_last_rev[e] /\ device_last_rev[e] <= head_rev
          /\ e \in Devices /\ since \in Nat /\ device_last_rev[e] \in Nat
      BY <3>1, BoundsAssumption DEF SystemOK, ServerCore, ServerTypeOK, RevisionsBounded
    <3>3. device_last_rev'[e] = device_last_rev[e] \/ device_last_rev'[e] = rev
      BY <1>2, <3>2 DEF SystemOK, ServerCore, ServerTypeOK
    <3>4. rev = head_rev + 1 /\ head_rev \in Nat
      BY <1>5
    <3> HIDE DEF e, since
    <3>5. since <= device_last_rev'[e]
      BY <3>2, <3>3, <3>4
    <3> QED BY <3>1, <3>5 DEF e, since
  <2> QED BY <1>6, <2>1, <2>2, <2>3 DEF RevisionsBounded
<1>10. ServerCore'
  BY <1>6, <1>7, <1>8, <1>9 DEF ServerCore
<1>11. ContentsOK'
  <2>1. \A p \in DOMAIN live' : live'[p] \in 1 .. versions
    BY <1>1, <1>2, <1>4, LiveWritten DEF plan, blobs
  <2> QED BY <1>3, <2>1 DEF SystemOK, ContentsOK
<1>12. head_rev <= head_rev' /\ session_count <= session_count' /\ versions <= versions'
  BY <1>2, <1>3, <1>5, Counters
<1>13. DiskOK' /\ BaselineOK'
  <2>1. \A e \in Devices : baseline[e].last_rev \in 0 .. head_rev'
    BY <1>2, <1>5 DEF SystemOK, BaselineOK
  <2> QED BY <2>1 DEF SystemOK, DiskOK, BaselineOK, WrittenTree
<1>14. \A e \in Devices \ {d} : SessionsFollow(e)
  <2>1. \A t \in DOMAIN sessions' : sessions'[t].device = d
    BY <1>1, <1>3 DEF SystemOK, ServerCore, SessionExclusive
  <2> QED BY <2>1 DEF SessionsFollow
<1>15. CycleOK(d)'
  BY IdleCycle DEF SystemOK, CyclesOK
<1> QED BY <1>10, <1>11, <1>12, <1>13, <1>14, <1>15, OneCycleMoves

\* The tombstones are gone and the floor has not moved: the rest is a commit.
LEMMA PruneStops ==
    ASSUME SystemOK, NEW d \in Devices, sync[d].step = "rename", StopInPrune(d, sync[d].session),
           UNCHANGED <<disk, baseline, versions, superseded>>
    PROVE  /\ ServerCore' /\ ContentsOK' /\ DiskOK' /\ BaselineOK'
           /\ \A e : SessionsFollow(e)
           /\ head_rev <= head_rev' /\ session_count <= session_count' /\ versions <= versions'
           /\ head_rev' \in 0 .. head_rev'
<1> DEFINE s     == sync[d].session
           plan  == sessions[s].plan
           blobs == sessions[s].blobs
           rev   == head_rev + 1
           index == IndexAfter(plan, blobs, rev)
<1>1. /\ s \in DOMAIN sessions /\ sessions[s].device = d /\ Fresh(s)
      /\ MissingUploads(s) = {} /\ UploadPaths(plan) \subseteq DOMAIN blobs
  BY CommitterFresh DEF StopInPrune, Committing, MissingUploads, OwnedBy
<1>2. PICK aged \in AgedRevs(index, rev) :
          /\ head_rev' = rev
          /\ live' = LiveAfter(plan, blobs)
          /\ file_index' = Pruned(index, aged)
          /\ device_last_rev' = [device_last_rev EXCEPT ![d] = rev]
          /\ sessions' = Without(sessions, {s})
          /\ snapshots' = [r \in 0 .. rev |-> IF r = rev THEN ContentsOf(index) ELSE snapshots[r]]
  BY DEF StopInPrune
<1>3. UNCHANGED <<min_valid_rev, session_count>>
  BY DEF StopInPrune
<1>4. PartOf(plan, plan)
  BY DEF PartOf
<1>5. rev \in 1 .. MaxRev /\ IndexWritten(index, rev) /\ head_rev \in Nat
  BY <1>1, <1>4, PlanRows, Counters DEF SystemOK
<1> HIDE DEF plan, blobs, index
<1>6. /\ IndexTypeOK' /\ RowsStand'
      /\ \A p \in DOMAIN file_index' : file_index'[p].rev \in Nat /\ file_index'[p].rev <= head_rev'
      /\ DOMAIN snapshots' = 0 .. head_rev' /\ DOMAIN snapshots'[0] = {}
  <2>1. /\ IndexWritten(index, head_rev + 1) /\ head_rev' = head_rev + 1
        /\ DOMAIN file_index' \subseteq DOMAIN index
        /\ \A p \in DOMAIN file_index' : file_index'[p] = index[p]
        /\ \A p \in DOMAIN index \ DOMAIN file_index' : index[p].deleted
        /\ snapshots' = [r \in 0 .. head_rev' |->
                            IF r = head_rev' THEN ContentsOf(index) ELSE snapshots[r]]
    BY <1>2, <1>5 DEF Pruned
  <2>2. /\ IndexTypeOK' /\ RowsStand'
        /\ \A p \in DOMAIN index : index[p].rev \in Nat /\ index[p].rev <= head_rev'
        /\ DOMAIN snapshots' = 0 .. head_rev' /\ DOMAIN snapshots'[0] = {}
    BY <2>1, RowsKept DEF SystemOK
  <2> QED BY <2>1, <2>2
<1>7. DOMAIN sessions' = {}
  BY <1>1, <1>2 DEF Without, SystemOK, ServerCore, SessionExclusive
<1>8. ServerTypeOK'
  <2>1. device_last_rev' \in [Devices -> 0 .. MaxRev]
    BY <1>2, <1>5 DEF SystemOK, ServerCore, ServerTypeOK
  <2>2. head_rev' \in 0 .. MaxRev
    BY <1>2, <1>5
  <2> QED BY <1>3, <1>6, <1>7, <2>1, <2>2 DEF SystemOK, ServerCore, ServerTypeOK
<1>9. RevisionsBounded'
  <2>1. \A e \in Devices : device_last_rev'[e] <= head_rev'
    BY <1>2, <1>5, BoundsAssumption DEF SystemOK, ServerCore, RevisionsBounded, ServerTypeOK
  <2>2. min_valid_rev' <= head_rev'
    BY <1>2, <1>3, <1>5 DEF SystemOK, ServerCore, RevisionsBounded, ServerTypeOK
  <2> QED BY <1>6, <1>7, <2>1, <2>2 DEF RevisionsBounded
<1>10. ServerCore'
  BY <1>6, <1>7, <1>8, <1>9 DEF ServerCore, SessionExclusive
<1>11. ContentsOK'
  <2>1. \A p \in DOMAIN live' : live'[p] \in 1 .. versions
    BY <1>1, <1>2, <1>4, LiveWritten DEF plan, blobs
  <2> QED BY <1>7, <2>1 DEF SystemOK, ContentsOK
<1>12. head_rev <= head_rev' /\ session_count <= session_count' /\ versions <= versions'
  BY <1>2, <1>3, <1>5, Counters
<1>13. DiskOK' /\ BaselineOK'
  <2>1. \A e \in Devices : baseline[e].last_rev \in 0 .. head_rev'
    BY <1>2, <1>5 DEF SystemOK, BaselineOK
  <2> QED BY <2>1 DEF SystemOK, DiskOK, BaselineOK, WrittenTree
<1>14. \A e : SessionsFollow(e)
  BY <1>7 DEF SessionsFollow
<1> QED BY <1>2, <1>5, <1>10, <1>11, <1>12, <1>13, <1>14

\* A commit stops, wherever it is.
LEMMA CommitStopsOK ==
    ASSUME SystemOK, NEW d \in Devices, CommitStops(d)
    PROVE  SystemOK'
<1> DEFINE s == sync[d].session
<1>1. /\ sync[d].step = "rename"
      /\ UNCHANGED <<disk, baseline, versions, superseded>>
  BY DEF CommitStops
<1>2. CASE StopInFiles(d, s) /\ sync' = [sync EXCEPT ![d] = Idle]
  <2>1. s \in DOMAIN sessions /\ Fresh(s) /\ MissingUploads(s) = {}
    BY <1>1, <1>2, CommitterFresh DEF StopInFiles, Committing
  <2>2. PICK done \in Prefixes(sessions[s].plan) : live' = LiveAfter(done, sessions[s].blobs)
    BY <1>2 DEF StopInFiles
  <2>3. UNCHANGED <<head_rev, min_valid_rev, file_index, device_last_rev,
                    sessions, session_count, snapshots>>
    BY <1>2 DEF StopInFiles
  <2>4. PartOf(done, sessions[s].plan)
    BY <2>1, PrefixesPart
  <2> QED BY <1>1, <1>2, <2>1, <2>2, <2>3, <2>4, FilesMoveOK
<1>3. CASE StopInRows(d, s) /\ sync' = [sync EXCEPT ![d] = Idle]
  BY <1>1, <1>3, StopInRowsOK
<1>4. CASE StopInPrune(d, s) /\ sync' = [sync EXCEPT ![d] = Idle]
  <2>1. CycleOK(d)'
    BY <1>4, IdleCycle DEF SystemOK, CyclesOK
  <2> QED BY <1>1, <1>4, <2>1, PruneStops, OneCycleMoves
<1>5. CASE StopInPrune(d, s) /\ sync' = [sync EXCEPT ![d] = Applying(sync[d], head_rev')]
  <2>1. /\ ServerCore' /\ ContentsOK' /\ DiskOK' /\ BaselineOK'
        /\ \A e : SessionsFollow(e)
        /\ head_rev <= head_rev' /\ session_count <= session_count' /\ versions <= versions'
        /\ head_rev' \in 0 .. head_rev'
    BY <1>1, <1>5, PruneStops
  <2>2. CycleOK(d)'
    BY <1>1, <1>5, <2>1, ApplyingStarts
  <2> DEFINE new == Applying(sync[d], head_rev')
  <2>3. sync' = [sync EXCEPT ![d] = new]
    BY <1>5
  <2> HIDE DEF new
  <2> QED BY <2>1, <2>2, <2>3, OneCycleMoves
<1> QED BY <1>2, <1>3, <1>4, <1>5 DEF CommitStops

-----------------------------------------------------------------------------
(***************************************************************************)
(* The theorems.                                                           *)
(***************************************************************************)

\* Nothing has happened yet.
LEMMA SystemInitOK == SystemInit => SystemOK
<1> SUFFICES ASSUME SystemInit PROVE SystemOK
  OBVIOUS
<1>1. ServerCore /\ head_rev = 0 /\ DOMAIN live = {} /\ DOMAIN sessions = {}
  BY InitCore DEF SystemInit, Init
<1>2. TreeTypeOK(<< >>) /\ DOMAIN << >> = {}
  BY FS_EmptySet DEF TreeTypeOK
<1>3. DiskOK
  BY <1>2 DEF SystemInit, DiskOK, WrittenTree
<1>4. BaselineOK
  BY <1>1, <1>2 DEF SystemInit, BaselineOK
<1>5. ContentsOK
  BY <1>1, ContentsAssumption DEF SystemInit, ContentsOK
<1>6. CyclesOK
  BY DEF SystemInit, CyclesOK, CycleOK, Idle
<1> QED BY <1>1, <1>3, <1>4, <1>5, <1>6 DEF SystemOK

\* Every step of the devices and of the users keeps the types.
LEMMA SystemStepOK ==
    ASSUME SystemOK, SystemNext
    PROVE  SystemOK'
<1>1. ASSUME NEW d \in Devices, UserStep(d)
      PROVE  SystemOK'
  <2>1. PICK p \in Touchable(d) : UserDelete(d, p) \/ \E mtime \in MTimes : UserSave(d, p, mtime)
    BY <1>1 DEF UserStep
  <2>2. p \in Path
    BY <2>1, TouchablePaths DEF SystemOK
  <2> QED BY <2>1, <2>2, UserDeleteOK, UserSaveOK
<1>2. ASSUME NEW d \in Devices, CycleStep(d)
      PROVE  SystemOK'
  BY <1>2, StartSyncOK, StartSyncInVainOK, RenameLoserOK, UploadOK, CommitSyncOK, CommitInVainOK,
     ApplyDownloadOK, ApplyDeleteOK, FinishOK, AbortOK, PairAgainOK DEF CycleStep
<1> QED BY <1>1, <1>2 DEF SystemNext

\* And so does a step that changes nothing.
LEMMA SystemStutters ==
    ASSUME SystemOK, UNCHANGED allVars
    PROVE  SystemOK'
<1>1. UNCHANGED <<vars, versions, superseded>> /\ UNCHANGED <<disk, baseline, sync>>
  BY DEF allVars, deviceVars
<1>2. /\ ServerCore' /\ ContentsOK' /\ DiskOK' /\ BaselineOK' /\ \A d : SessionsFollow(d)
      /\ head_rev <= head_rev' /\ session_count <= session_count' /\ versions <= versions'
  BY <1>1, OthersStay
<1>3. head_rev' \in Nat /\ session_count' \in Nat /\ versions' \in Nat
  BY <1>1, Counters DEF vars
<1>4. ASSUME NEW d \in Devices
      PROVE  CycleOK(d)'
  BY <1>1, <1>2, <1>3, Counters, CycleStays DEF SystemOK, CyclesOK
<1> QED BY <1>1, <1>2, <1>4 DEF SystemOK, CyclesOK

\* What the inductive invariant says of the runs' properties.
LEMMA SystemOKGives ==
    ASSUME SystemOK
    PROVE  SystemTypeOK /\ RevisionsBounded /\ NoMissedEdit
<1>1. SystemTypeOK
  <2>1. ASSUME NEW d \in Devices
        PROVE  /\ sync[d].step \in {"idle", "rename", "apply"}
               /\ sync[d].step = "rename" => TreeTypeOK(sync[d].staged)
               /\ sync[d].step = "apply" => TreeTypeOK(sync[d].next)
    BY DEF SystemOK, CyclesOK, CycleOK, RenamingOK, ApplyingOK, WrittenTree
  <2> QED BY <2>1 DEF SystemOK, SystemTypeOK, DiskOK, WrittenTree, BaselineOK, ContentsOK
<1>2. NoMissedEdit
  <2>1. SUFFICES ASSUME NEW r \in 0 .. head_rev, NEW p \in LivePaths, p \notin DOMAIN ChangesSince(r)
                 PROVE  p \in DOMAIN snapshots[r] /\ snapshots[r][p] = file_index[p].hash
    BY DEF NoMissedEdit
  <2>2. p \in DOMAIN file_index
    BY DEF LivePaths, LivePathsOf
  <2>3. file_index[p].rev \in Nat /\ r \in Nat /\ head_rev \in Nat
    BY <2>2, Counters DEF SystemOK, ServerCore, ServerTypeOK, IndexTypeOK, Entry
  <2>4. r \in file_index[p].rev .. head_rev
    BY <2>1, <2>2, <2>3 DEF ChangesSince
  <2> QED BY <2>4 DEF SystemOK, ServerCore, RowsStand
<1> QED BY <1>1, <1>2 DEF SystemOK, ServerCore

\* The devices' disks, baselines and cycles keep their types whatever the
\* users, the devices and the network do (client.rs sync_emulator).
THEOREM SystemTypes == SystemSpec => []SystemTypeOK
<1>1. SystemInit => SystemOK
  BY SystemInitOK
<1>2. SystemOK /\ [SystemNext]_allVars => SystemOK'
  BY SystemStepOK, SystemStutters
<1>3. SystemOK => SystemTypeOK
  BY SystemOKGives
<1> QED BY <1>1, <1>2, <1>3, PTL DEF SystemSpec

\* The same invariant, with commits that stop half-way.
LEMMA CrashInvariant == CrashSpec => []SystemOK
<1>1. SystemInit => SystemOK
  BY SystemInitOK
<1>2. SystemOK /\ [CrashNext]_allVars => SystemOK'
  BY SystemStepOK, SystemStutters, CommitStopsOK DEF CrashNext
<1> QED BY <1>1, <1>2, PTL DEF CrashSpec

\* Wherever commits stop, no revision runs ahead of the head: the head is
\* bumped before any row is written (api.rs commit).
THEOREM CrashKeepsRevisionsBounded == CrashSpec => []RevisionsBounded
<1>1. SystemOK => RevisionsBounded
  BY SystemOKGives
<1> QED BY <1>1, CrashInvariant, PTL

\* Wherever commits stop, a device that may still plan is told of every file
\* that is new or changed since its revision (api.rs commit, db.rs
\* prune_tombstones).
THEOREM CrashKeepsEdits == CrashSpec => []NoMissedEdit
<1>1. SystemOK => NoMissedEdit
  BY SystemOKGives
<1> QED BY <1>1, CrashInvariant, PTL
=============================================================================
