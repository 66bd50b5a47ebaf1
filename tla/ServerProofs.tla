----------------------------- MODULE ServerProofs -----------------------------
(***************************************************************************)
(* What each handler of SyncServer keeps, whoever calls it: the steps of   *)
(* the inductive invariants of OpenServer, of SyncSystem and of            *)
(* CommitCrash, for any number of devices, paths, contents and commits.    *)
(*                                                                         *)
(* The rows a commit writes are well-typed because the stored plan is the  *)
(* one computed from the current index (Fresh); that plan stays fresh      *)
(* because no other session can commit (SessionExclusive); and no change   *)
(* is missed because the rows of a commit are above every earlier revision *)
(* (RevisionsBounded).                                                     *)
(***************************************************************************)
EXTENDS SyncServer, SyncPlanProofs

\* The plan of session s is the one the server would compute now.
Fresh(s) ==
    /\ sessions[s].head = head_rev
    /\ sessions[s].plan =
           ComputePlan(sessions[s].changes, ChangesSince(sessions[s].since), LivePaths)

\* A live row holds the content its path has had since the row's revision.
RowsStand ==
    \A p \in LivePaths : \A r \in file_index[p].rev .. head_rev :
        p \in DOMAIN snapshots[r] /\ snapshots[r][p] = file_index[p].hash

ServerCore ==
    /\ ServerTypeOK
    /\ SessionExclusive
    /\ RevisionsBounded
    /\ RowsStand

-----------------------------------------------------------------------------
\* The live rows are finitely many rows of the index, and the edits a device
\* is told of are among them.
LEMMA LiveRows ==
    ASSUME IndexTypeOK
    PROVE  /\ IsFiniteSet(LivePaths)
           /\ LivePaths \subseteq DOMAIN file_index
           /\ \A since : Edited(ChangesSince(since)) \subseteq LivePaths
<1>1. LivePaths \subseteq DOMAIN file_index
  BY DEF LivePaths, LivePathsOf
<1>2. IsFiniteSet(LivePaths)
  BY <1>1, FS_Subset DEF IndexTypeOK
<1>3. \A since : Edited(ChangesSince(since)) \subseteq LivePaths
  BY DEF Edited, ChangesSince, LivePaths, LivePathsOf
<1> QED BY <1>1, <1>2, <1>3

\* A live row with a content is well-formed.
LEMMA LiveEntryType ==
    ASSUME NEW rev \in Nat, NEW hash \in Hashes, NEW mtime \in Int
    PROVE  /\ LiveEntry(rev, hash, mtime) \in Entry
           /\ ~ LiveEntry(rev, hash, mtime).deleted
           /\ LiveEntry(rev, hash, mtime).hash # NoHash
           /\ LiveEntry(rev, hash, mtime).rev = rev
BY NoHashAssumption DEF LiveEntry, Entry

\* The rows of a commit: well-formed, and either new at its revision or
\* the ones that were there.
LEMMA CommitRows ==
    ASSUME IndexTypeOK,
           NEW plan, NEW blobs, NEW rev \in Nat,
           BlobsTypeOK(blobs), UploadPaths(plan) \subseteq DOMAIN blobs,
           IsFiniteSet(plan.server_delete), plan.server_delete \subseteq Path,
           IsFiniteSet(RenameTargets(plan)), RenameTargets(plan) \subseteq Path,
           RenameSources(plan) \subseteq LivePaths
    PROVE  LET index == IndexAfter(plan, blobs, rev)
           IN  /\ IsFiniteSet(DOMAIN index)
               /\ DOMAIN index \subseteq Path
               /\ DOMAIN file_index \subseteq DOMAIN index
               /\ \A p \in DOMAIN index :
                    /\ index[p] \in Entry
                    /\ index[p].deleted <=> index[p].hash = NoHash
                    /\ \/ index[p].rev = rev
                       \/ p \in DOMAIN file_index /\ index[p] = file_index[p]
<1> DEFINE index   == IndexAfter(plan, blobs, rev)
           renames == {r \in plan.server_rename : r.from \in DOMAIN file_index}
           targets == {r.to : r \in renames}
           uploads == UploadPaths(plan)
           old(p)  == file_index[RenameSource(plan, p)]
           paths   == DOMAIN file_index \cup targets \cup uploads \cup plan.server_delete
           row(p)  == IF p \in plan.server_delete THEN Tombstone(rev)
                      ELSE IF p \in uploads THEN LiveEntry(rev, blobs[p].hash, blobs[p].mtime)
                      ELSE IF p \in targets THEN LiveEntry(rev, old(p).hash, old(p).mtime)
                      ELSE file_index[p]
<1>1. index = [p \in paths |-> row(p)]
  BY DEF IndexAfter
<1>2. targets \subseteq RenameTargets(plan)
  BY DEF RenameTargets
<1>3. IsFiniteSet(targets) /\ IsFiniteSet(uploads)
  <2>1. IsFiniteSet(DOMAIN blobs)
    BY DEF BlobsTypeOK
  <2> HIDE DEF targets
  <2> QED BY <1>2, <2>1, FS_Subset
<1>4. IsFiniteSet(paths)
  <2>1. IsFiniteSet(DOMAIN file_index)
    BY DEF IndexTypeOK
  <2> HIDE DEF targets, uploads
  <2>2. IsFiniteSet(DOMAIN file_index \cup targets)
    BY <2>1, <1>3, FS_Union
  <2>3. IsFiniteSet(DOMAIN file_index \cup targets \cup uploads)
    BY <2>2, <1>3, FS_Union
  <2> QED BY <2>3, FS_Union
<1>5. paths \subseteq Path
  <2> HIDE DEF targets
  <2> QED BY <1>2 DEF IndexTypeOK, BlobsTypeOK
<1>6. ASSUME NEW p \in paths
      PROVE  /\ row(p) \in Entry
             /\ row(p).deleted <=> row(p).hash = NoHash
             /\ row(p).rev = rev \/ (p \in DOMAIN file_index /\ row(p) = file_index[p])
  <2>1. CASE p \in plan.server_delete
    BY <2>1 DEF Tombstone, Entry
  <2>2. CASE p \notin plan.server_delete /\ p \in uploads
    <3>1. blobs[p].hash \in Hashes /\ blobs[p].mtime \in Int
      BY <2>2 DEF BlobsTypeOK, Meta
    <3>2. row(p) = LiveEntry(rev, blobs[p].hash, blobs[p].mtime)
      BY <2>2
    <3> HIDE DEF row
    <3> QED BY <3>1, <3>2, LiveEntryType
  <2>3. CASE p \notin plan.server_delete /\ p \notin uploads /\ p \in targets
    <3>1. \E r \in plan.server_rename : r.to = p
      BY <2>3
    <3>2. RenameSource(plan, p) \in RenameSources(plan)
      BY <3>1 DEF RenameSource, RenameSources
    <3>3. RenameSource(plan, p) \in DOMAIN file_index /\ ~ old(p).deleted
      BY <3>2 DEF LivePaths, LivePathsOf
    <3>4. old(p).hash \in Hashes /\ old(p).mtime \in Int
      BY <3>3 DEF IndexTypeOK, Entry
    <3>5. row(p) = LiveEntry(rev, old(p).hash, old(p).mtime)
      BY <2>3
    <3> HIDE DEF old, row
    <3> QED BY <3>4, <3>5, LiveEntryType
  <2>4. CASE p \notin plan.server_delete /\ p \notin uploads /\ p \notin targets
    <3>1. p \in DOMAIN file_index /\ row(p) = file_index[p]
      BY <2>4
    <3> HIDE DEF row
    <3> QED BY <3>1 DEF IndexTypeOK
  <2> QED BY <2>1, <2>2, <2>3, <2>4
<1> HIDE DEF row
<1>7. DOMAIN index = paths /\ \A p \in paths : index[p] = row(p)
  BY <1>1
<1> HIDE DEF index, paths
<1>8. DOMAIN file_index \subseteq DOMAIN index
  BY <1>7 DEF paths
<1> QED BY <1>4, <1>5, <1>6, <1>7, <1>8 DEF index

\* The plan of an open session that is fresh.
LEMMA SessionPlan ==
    ASSUME ServerTypeOK, NEW s \in DOMAIN sessions, Fresh(s)
    PROVE  LET plan == sessions[s].plan
           IN  /\ UploadPaths(plan) \subseteq Path
               /\ IsFiniteSet(plan.server_delete) /\ plan.server_delete \subseteq Path
               /\ IsFiniteSet(RenameTargets(plan)) /\ RenameTargets(plan) \subseteq Path
               /\ RenameSources(plan) \subseteq LivePaths
<1> DEFINE changes == sessions[s].changes
           remote  == ChangesSince(sessions[s].since)
           taken   == LivePaths
<1>1. IsFiniteSet(DOMAIN changes) /\ DOMAIN changes \subseteq Path
  BY DEF ServerTypeOK, SessionTypeOK, ReportTypeOK
<1>2. IsFiniteSet(taken) /\ Edited(remote) \subseteq taken
  BY LiveRows DEF ServerTypeOK
<1>3. sessions[s].plan = ComputePlan(changes, remote, taken)
  BY DEF Fresh
<1> DEFINE plan == ComputePlan(changes, remote, taken)
<1> HIDE DEF changes, remote, taken
<1>4. /\ UploadPaths(plan) \subseteq Path
      /\ IsFiniteSet(plan.server_delete) /\ plan.server_delete \subseteq Path
      /\ IsFiniteSet(RenameTargets(plan)) /\ RenameTargets(plan) \subseteq Path
      /\ RenameSources(plan) \subseteq Edited(remote)
  BY <1>1, <1>2, PlanWellFormed
<1> HIDE DEF plan
<1>5. sessions[s].plan = plan
  BY <1>3 DEF plan
<1> QED BY <1>2, <1>4, <1>5 DEF taken

-----------------------------------------------------------------------------
(***************************************************************************)
(* The handlers.                                                           *)
(***************************************************************************)

\* What depends on the index and its history only.
LEMMA IndexStays ==
    ASSUME UNCHANGED <<head_rev, min_valid_rev, file_index, snapshots>>
    PROVE  /\ RowsStand => RowsStand'
           /\ NoMissedChange => NoMissedChange'
           /\ IndexTypeOK => IndexTypeOK'
<1>1. LivePaths' = LivePaths
  BY DEF LivePaths
<1>2. RowsStand => RowsStand'
  BY <1>1 DEF RowsStand
<1>3. NoMissedChange => NoMissedChange'
  BY DEF NoMissedChange, BeforeFloor, ChangesSince
<1> QED BY <1>2, <1>3 DEF IndexTypeOK

\* A step that touches neither the rows nor the sessions.
LEMMA NothingChanges ==
    ASSUME ServerCore,
           UNCHANGED <<head_rev, min_valid_rev, file_index, device_last_rev,
                       sessions, session_count, snapshots>>
    PROVE  /\ ServerCore'
           /\ NoMissedChange => NoMissedChange'
           /\ PlanIsFresh => PlanIsFresh'
<1>1. ServerTypeOK'
  BY IndexStays DEF ServerCore, ServerTypeOK, SessionTypeOK
<1>2. SessionExclusive'
  BY DEF ServerCore, SessionExclusive
<1>3. PlanIsFresh => PlanIsFresh'
  BY DEF PlanIsFresh, ChangesSince, LivePaths
<1>4. RevisionsBounded'
  BY DEF ServerCore, RevisionsBounded
<1> QED BY <1>1, <1>2, <1>3, <1>4, IndexStays DEF ServerCore

\* Steps that only close sessions (an expiry, a revoked device, a plan that
\* is refused).
LEMMA SessionsClose ==
    ASSUME ServerCore, NEW ids, sessions' = Without(sessions, ids),
           UNCHANGED <<head_rev, min_valid_rev, file_index, session_count, snapshots>>,
           \/ UNCHANGED device_last_rev
           \/ \E d \in Devices : /\ device_last_rev' = [device_last_rev EXCEPT ![d] = 0]
                                 /\ SessionsOf(d) \subseteq ids
    PROVE  /\ ServerCore'
           /\ NoMissedChange => NoMissedChange'
           /\ PlanIsFresh => PlanIsFresh'
<1> USE DEF ServerCore
<1>1. /\ DOMAIN sessions' = DOMAIN sessions \ ids
      /\ \A s \in DOMAIN sessions' : sessions'[s] = sessions[s]
  BY DEF Without
<1>2. device_last_rev' \in [Devices -> 0 .. MaxRev]
  BY BoundsAssumption DEF ServerTypeOK
<1>3. ServerTypeOK'
  BY <1>1, <1>2, IndexStays DEF ServerTypeOK, SessionTypeOK
<1>4. SessionExclusive'
  BY <1>1 DEF SessionExclusive
<1>5. PlanIsFresh => PlanIsFresh'
  BY <1>1 DEF PlanIsFresh, ChangesSince, LivePaths
<1>6. RevisionsBounded'
  <2>1. \A d \in Devices : device_last_rev'[d] <= head_rev'
    BY DEF RevisionsBounded, ServerTypeOK
  <2>2. \A s \in DOMAIN sessions' : sessions[s].device \in Devices
    BY <1>1 DEF ServerTypeOK, SessionTypeOK
  <2>3. \A s \in DOMAIN sessions' :
            device_last_rev'[sessions[s].device] = device_last_rev[sessions[s].device]
    BY <1>1, <2>2 DEF ServerTypeOK, SessionsOf
  <2>4. \A s \in DOMAIN sessions' : sessions'[s].since <= device_last_rev'[sessions'[s].device]
    BY <1>1, <2>3 DEF RevisionsBounded
  <2> QED BY <2>1, <2>4 DEF RevisionsBounded
<1> QED BY <1>3, <1>4, <1>5, <1>6, IndexStays

\* A granted plan opens the only session, and its plan is fresh.
LEMMA PlanStep ==
    ASSUME ServerCore, NEW d \in Devices, NEW last_rev \in Nat,
           NEW changes, ReportTypeOK(changes), Plan(d, last_rev, changes)
    PROVE  /\ ServerCore'
           /\ NoMissedChange => NoMissedChange'
           /\ PlanIsFresh'
           /\ session_count' = session_count + 1
           /\ DOMAIN sessions' = {session_count'}
           /\ sessions'[session_count'] = NewSession(d, Since(d, last_rev), changes)
<1> USE DEF ServerCore
<1> DEFINE id  == session_count + 1
           new == NewSession(d, Since(d, last_rev), changes)
<1>1. UNCHANGED <<head_rev, min_valid_rev, file_index, device_last_rev, snapshots>>
  BY DEF Plan
<1>2. id \in 1 .. MaxSessions /\ session_count' = id
  BY BoundsAssumption DEF Plan, ServerTypeOK
<1>3. sessions' = [s \in {id} |-> new]
  <2>1. PICK stale \in SUBSET DOMAIN sessions :
            LET kept == Without(sessions, stale \cup SessionsOf(d))
            IN  /\ ~LockedByOther(d, stale)
                /\ sessions' = [s \in DOMAIN kept \cup {id} |-> IF s = id THEN new ELSE kept[s]]
    BY DEF Plan
  <2>2. DOMAIN Without(sessions, stale \cup SessionsOf(d)) = {}
    BY <2>1 DEF Without, LockedByOther, SessionsOf
  <2> HIDE DEF id, new
  <2> QED BY <2>1, <2>2
<1>4. new = [device |-> d, plan |-> ComputePlan(changes, ChangesSince(Since(d, last_rev)), LivePaths),
             blobs |-> << >>, changes |-> changes, since |-> Since(d, last_rev), head |-> head_rev]
  BY DEF NewSession
<1>5. SessionTypeOK(new)
  <2>1. head_rev \in 0 .. MaxRev - 1
    BY BoundsAssumption DEF Plan, ServerTypeOK
  <2>2. Since(d, last_rev) \in 0 .. MaxRev
    BY BoundsAssumption DEF Since, ServerTypeOK
  <2>4. BlobsTypeOK(<< >>)
    <3>1. DOMAIN << >> = {}
      OBVIOUS
    <3> QED BY <3>1, FS_EmptySet DEF BlobsTypeOK
  <2> HIDE DEF new
  <2> QED BY <1>4, <2>1, <2>2, <2>4 DEF SessionTypeOK
<1> HIDE DEF new
<1>6. DOMAIN sessions' = {id} /\ sessions'[id] = new
  BY <1>3
<1>7. ServerTypeOK'
  BY <1>1, <1>2, <1>5, <1>6, IndexStays DEF ServerTypeOK, SessionTypeOK
<1>8. SessionExclusive'
  BY <1>6 DEF SessionExclusive
<1>9. PlanIsFresh'
  <2>1. ChangesSince(Since(d, last_rev))' = ChangesSince(Since(d, last_rev)) /\ LivePaths' = LivePaths
    BY <1>1 DEF ChangesSince, LivePaths, Since
  <2> QED BY <1>1, <1>4, <1>6, <2>1 DEF PlanIsFresh, ChangesSince, LivePaths
<1>10. RevisionsBounded'
  <2>1. new.device = d /\ new.since = Since(d, last_rev)
    BY <1>4
  <2>2. device_last_rev[d] \in Nat
    BY BoundsAssumption DEF ServerTypeOK
  <2>3. Since(d, last_rev) <= device_last_rev[d]
    BY <2>2 DEF Since
  <2>4. \A s \in DOMAIN sessions' : sessions'[s].since <= device_last_rev'[sessions'[s].device]
    BY <1>1, <1>6, <2>1, <2>3
  <2> QED BY <1>1, <2>4 DEF RevisionsBounded
<1> QED BY <1>1, <1>2, <1>6, <1>7, <1>8, <1>9, <1>10, IndexStays DEF new

\* A blob is staged in the session it names; nothing else of it changes.
LEMMA PutBlobStep ==
    ASSUME ServerCore, NEW d \in Devices, NEW s, NEW p \in Path, NEW hash \in Hashes,
           NEW mtime \in Int, PutBlob(d, s, p, hash, mtime)
    PROVE  /\ ServerCore'
           /\ NoMissedChange => NoMissedChange'
           /\ PlanIsFresh => PlanIsFresh'
           /\ DOMAIN sessions' = DOMAIN sessions
           /\ \A t \in DOMAIN sessions :
                /\ sessions'[t].device = sessions[t].device /\ sessions'[t].head = sessions[t].head
                /\ sessions'[t].plan = sessions[t].plan /\ sessions'[t].since = sessions[t].since
                /\ sessions'[t].changes = sessions[t].changes
                /\ \/ sessions'[t].blobs = sessions[t].blobs
                   \/ t = s /\ sessions'[t].blobs = Staged(sessions[t].blobs, p, hash, mtime)
<1> USE DEF ServerCore
<1>2. UNCHANGED <<head_rev, min_valid_rev, file_index, device_last_rev, session_count, snapshots>>
  BY DEF PutBlob
<1> DEFINE session == sessions[s]
           blobs   == session.blobs
           staged  == Staged(blobs, p, hash, mtime)
<1>3. s \in DOMAIN sessions
  BY DEF PutBlob, OwnedBy
<1>4. CASE sessions' = sessions
  BY <1>2, <1>4, NothingChanges
<1>5. CASE sessions' = [sessions EXCEPT ![s].blobs = staged]
  <2>1. BlobsTypeOK(staged)
    <3>1. BlobsTypeOK(blobs)
      BY <1>3 DEF ServerTypeOK, SessionTypeOK
    <3>3. DOMAIN staged = DOMAIN blobs \cup {p}
      BY DEF Staged
    <3>4. IsFiniteSet(DOMAIN staged)
      <4> HIDE DEF staged, blobs
      <4> QED BY <3>1, <3>3, FS_AddElement DEF BlobsTypeOK
    <3>5. \A q \in DOMAIN staged : staged[q] \in Meta
      BY <3>1 DEF Staged, BlobsTypeOK, Meta
    <3> QED BY <3>1, <3>3, <3>4, <3>5 DEF BlobsTypeOK
  <2> HIDE DEF staged
  <2>2. DOMAIN sessions' = DOMAIN sessions
    BY <1>5
  <2>3. \A t \in DOMAIN sessions \ {s} : sessions'[t] = sessions[t]
    BY <1>5
  <2>4. sessions'[s] = [session EXCEPT !.blobs = staged]
    BY <1>3, <1>5
  <2>5. ServerTypeOK'
    <3>1. SessionTypeOK([session EXCEPT !.blobs = staged])
      BY <1>3, <2>1 DEF ServerTypeOK, SessionTypeOK
    <3> QED BY <1>2, <2>2, <2>3, <2>4, <3>1, IndexStays DEF ServerTypeOK, SessionTypeOK
  <2>6. SessionExclusive'
    BY <2>2 DEF SessionExclusive
  <2>7. \A t \in DOMAIN sessions :
            /\ sessions'[t].device = sessions[t].device
            /\ sessions'[t].head = sessions[t].head /\ sessions'[t].plan = sessions[t].plan
            /\ sessions'[t].changes = sessions[t].changes /\ sessions'[t].since = sessions[t].since
            /\ \/ sessions'[t].blobs = sessions[t].blobs
               \/ t = s /\ sessions'[t].blobs = staged
    <3>1. DOMAIN session = {"device", "plan", "blobs", "changes", "since", "head"}
      BY <1>3 DEF ServerTypeOK, SessionTypeOK
    <3> QED BY <2>3, <2>4, <3>1
  <2>8. PlanIsFresh => PlanIsFresh'
    BY <1>2, <2>2, <2>7 DEF PlanIsFresh, ChangesSince, LivePaths
  <2>9. RevisionsBounded'
    BY <1>2, <2>2, <2>7 DEF RevisionsBounded
  <2> QED BY <1>2, <2>2, <2>5, <2>6, <2>7, <2>8, <2>9, IndexStays DEF staged
<1> QED BY <1>4, <1>5 DEF PutBlob

-----------------------------------------------------------------------------
\* What a commit, or the part of it that is done when it stops, makes of the
\* index: well-formed rows, new at the revision or as they were.
IndexWritten(index, rev) ==
    /\ IsFiniteSet(DOMAIN index)
    /\ DOMAIN index \subseteq Path
    /\ DOMAIN file_index \subseteq DOMAIN index
    /\ \A p \in DOMAIN index :
        /\ index[p] \in Entry
        /\ index[p].deleted <=> index[p].hash = NoHash
        /\ \/ index[p].rev = rev
           \/ p \in DOMAIN file_index /\ index[p] = file_index[p]

\* Part of a plan.
PartOf(done, plan) ==
    /\ UploadPaths(done) \subseteq UploadPaths(plan)
    /\ done.server_delete \subseteq plan.server_delete
    /\ done.server_rename \subseteq plan.server_rename

\* The rows of a fresh plan, or of a part of it, whose uploads are staged.
LEMMA PlanRows ==
    ASSUME ServerCore, NEW s \in DOMAIN sessions, Fresh(s),
           UploadPaths(sessions[s].plan) \subseteq DOMAIN sessions[s].blobs,
           NEW done, PartOf(done, sessions[s].plan)
    PROVE  /\ head_rev + 1 \in 1 .. MaxRev
           /\ IndexWritten(IndexAfter(done, sessions[s].blobs, head_rev + 1), head_rev + 1)
<1> DEFINE plan  == sessions[s].plan
           blobs == sessions[s].blobs
           rev   == head_rev + 1
<1> USE DEF ServerCore
<1>1. rev \in 1 .. MaxRev /\ rev \in Nat
  BY BoundsAssumption DEF ServerTypeOK, SessionTypeOK, Fresh
<1>2. IndexTypeOK /\ BlobsTypeOK(blobs)
  BY DEF ServerTypeOK, SessionTypeOK
<1>3. /\ IsFiniteSet(plan.server_delete) /\ plan.server_delete \subseteq Path
      /\ IsFiniteSet(RenameTargets(plan)) /\ RenameTargets(plan) \subseteq Path
      /\ RenameSources(plan) \subseteq LivePaths
  BY SessionPlan
<1> HIDE DEF plan, blobs, rev
<1>4. /\ UploadPaths(done) \subseteq DOMAIN blobs
      /\ IsFiniteSet(done.server_delete) /\ done.server_delete \subseteq Path
      /\ RenameTargets(done) \subseteq RenameTargets(plan)
      /\ RenameSources(done) \subseteq RenameSources(plan)
  <2>1. PartOf(done, plan) /\ UploadPaths(plan) \subseteq DOMAIN blobs
    BY DEF plan, blobs
  <2>2. done.server_delete \subseteq plan.server_delete
    BY <2>1 DEF PartOf
  <2>3. IsFiniteSet(done.server_delete)
    BY <1>3, <2>2, FS_Subset
  <2> QED BY <1>3, <2>1, <2>2, <2>3 DEF PartOf, RenameTargets, RenameSources
<1>5. IsFiniteSet(RenameTargets(done)) /\ RenameTargets(done) \subseteq Path
  BY <1>3, <1>4, FS_Subset
<1>6. RenameSources(done) \subseteq LivePaths
  BY <1>3, <1>4
<1>7. IndexWritten(IndexAfter(done, blobs, rev), rev)
  <2>1. LET index == IndexAfter(done, blobs, rev)
        IN  /\ IsFiniteSet(DOMAIN index)
            /\ DOMAIN index \subseteq Path
            /\ DOMAIN file_index \subseteq DOMAIN index
            /\ \A p \in DOMAIN index :
                /\ index[p] \in Entry
                /\ index[p].deleted <=> index[p].hash = NoHash
                /\ \/ index[p].rev = rev
                   \/ p \in DOMAIN file_index /\ index[p] = file_index[p]
    BY <1>1, <1>2, <1>4, <1>5, <1>6, CommitRows
  <2> QED BY <2>1 DEF IndexWritten
<1> QED BY <1>1, <1>7 DEF blobs, rev

\* The index after the rows are written and some tombstones are pruned.
LEMMA RowsKept ==
    ASSUME ServerCore, NEW index, IndexWritten(index, head_rev + 1),
           head_rev' = head_rev + 1,
           DOMAIN file_index' \subseteq DOMAIN index,
           \A p \in DOMAIN file_index' : file_index'[p] = index[p],
           \A p \in DOMAIN index \ DOMAIN file_index' : index[p].deleted,
           snapshots' = [r \in 0 .. head_rev' |->
                            IF r = head_rev' THEN ContentsOf(index) ELSE snapshots[r]]
    PROVE  /\ IndexTypeOK'
           /\ RowsStand'
           /\ ContentsOf(file_index') = ContentsOf(index)
           /\ \A p \in DOMAIN index : index[p].rev \in Nat /\ index[p].rev <= head_rev'
           /\ DOMAIN snapshots' = 0 .. head_rev' /\ DOMAIN snapshots'[0] = {}
<1> USE DEF ServerCore
<1>1. head_rev \in Nat /\ head_rev' \in Nat \ {0}
  BY DEF ServerTypeOK
<1>2. IndexTypeOK'
  <2>1. IsFiniteSet(DOMAIN file_index')
    BY FS_Subset DEF IndexWritten
  <2> QED BY <2>1 DEF IndexTypeOK, IndexWritten
<1>3. ContentsOf(file_index') = ContentsOf(index)
  <2>1. LivePathsOf(file_index') = LivePathsOf(index)
    BY DEF LivePathsOf
  <2>2. \A p \in LivePathsOf(index) : file_index'[p] = index[p]
    BY DEF LivePathsOf
  <2> QED BY <2>1, <2>2 DEF ContentsOf
<1>4. \A p \in DOMAIN index : index[p].rev \in Nat /\ index[p].rev <= head_rev'
  BY <1>1 DEF IndexWritten, Entry, RevisionsBounded
<1>5. DOMAIN snapshots' = 0 .. head_rev' /\ DOMAIN snapshots'[0] = {}
  BY <1>1 DEF ServerTypeOK
<1>6. RowsStand'
  <2> SUFFICES ASSUME NEW p \in LivePaths', NEW r \in file_index'[p].rev .. head_rev'
               PROVE  p \in DOMAIN snapshots'[r] /\ snapshots'[r][p] = file_index'[p].hash
    BY DEF RowsStand
  <2>1. p \in DOMAIN file_index' /\ file_index'[p] = index[p] /\ ~ index[p].deleted
    BY DEF LivePaths, LivePathsOf
  <2>2. p \in LivePathsOf(index) /\ r \in 0 .. head_rev'
    BY <1>1, <1>4, <2>1 DEF LivePathsOf
  <2>3. CASE r = head_rev'
    <3>1. snapshots'[r] = ContentsOf(index)
      BY <1>1, <2>3
    <3> QED BY <2>1, <2>2, <3>1 DEF ContentsOf
  <2>4. CASE r # head_rev'
    <3>1. r \in 0 .. head_rev /\ snapshots'[r] = snapshots[r]
      BY <1>1, <2>2, <2>4
    <3>2. index[p].rev # head_rev'
      BY <1>1, <1>4, <2>1, <3>1
    <3>3. p \in LivePaths /\ file_index[p] = index[p]
      BY <2>1, <3>2 DEF IndexWritten, LivePaths, LivePathsOf
    <3>4. r \in file_index[p].rev .. head_rev
      BY <1>4, <2>1, <3>1, <3>3
    <3> QED BY <2>1, <3>1, <3>3, <3>4 DEF RowsStand
  <2> QED BY <2>3, <2>4
<1> QED BY <1>2, <1>3, <1>4, <1>5, <1>6

\* A commit: new rows are at the new revision, pruning takes tombstones below
\* it only and moves the floor above what it took.
LEMMA CommitStep ==
    ASSUME ServerCore, NEW d \in Devices, NEW s, Commit(d, s), Fresh(s)
    PROVE  /\ ServerCore'
           /\ NoMissedChange => NoMissedChange'
           /\ DOMAIN sessions' = {}
           /\ head_rev' = head_rev + 1
           /\ ContentsOf(file_index') =
                  ContentsOf(IndexAfter(sessions[s].plan, sessions[s].blobs, head_rev'))
           /\ \A r \in 0 .. head_rev : snapshots'[r] = snapshots[r]
           /\ snapshots'[head_rev'] = ContentsOf(file_index')
           /\ IndexWritten(IndexAfter(sessions[s].plan, sessions[s].blobs, head_rev'), head_rev')
           /\ LET index == IndexAfter(sessions[s].plan, sessions[s].blobs, head_rev')
              IN  /\ DOMAIN file_index' \subseteq DOMAIN index
                  /\ \A p \in DOMAIN file_index' : file_index'[p] = index[p]
<1> USE DEF ServerCore
<1> DEFINE plan  == sessions[s].plan
           blobs == sessions[s].blobs
           rev   == head_rev + 1
           index == IndexAfter(plan, blobs, rev)
<1>1. s \in DOMAIN sessions /\ UploadPaths(plan) \subseteq DOMAIN blobs
  BY DEF Commit, OwnedBy, MissingUploads
<1>2. PICK aged \in AgedRevs(index, rev) :
          /\ head_rev' = rev
          /\ file_index' = Pruned(index, aged)
          /\ min_valid_rev' = FloorAfter(aged)
          /\ device_last_rev' = [device_last_rev EXCEPT ![d] = rev]
          /\ sessions' = Without(sessions, {s})
          /\ snapshots' = [r \in 0 .. rev |-> IF r = rev THEN ContentsOf(index) ELSE snapshots[r]]
          /\ session_count' = session_count
  BY DEF Commit
<1>3. rev \in 1 .. MaxRev /\ head_rev \in Nat /\ IndexWritten(index, rev)
  BY <1>1, PlanRows DEF ServerTypeOK, PartOf
<1> HIDE DEF plan, blobs, index
<1>6. /\ DOMAIN file_index' \subseteq DOMAIN index
      /\ \A p \in DOMAIN file_index' : file_index'[p] = index[p]
      /\ \A p \in DOMAIN index \ DOMAIN file_index' : index[p].deleted /\ index[p].rev <= aged
  BY <1>2 DEF Pruned
<1>5. /\ IndexTypeOK' /\ RowsStand' /\ ContentsOf(file_index') = ContentsOf(index)
      /\ \A p \in DOMAIN index : index[p].rev \in Nat /\ index[p].rev <= rev
      /\ DOMAIN snapshots' = 0 .. rev /\ DOMAIN snapshots'[0] = {}
  BY <1>2, <1>3, <1>6, RowsKept
<1>51. aged \in 0 .. head_rev
  <2>1. aged = 0 \/ \E p \in DOMAIN index : aged = index[p].rev /\ index[p].rev < rev
    BY <1>2 DEF AgedRevs
  <2> QED BY <1>3, <1>5, <2>1
<1>7. /\ min_valid_rev' \in Nat
      /\ min_valid_rev <= min_valid_rev'
      /\ aged > 0 => aged < min_valid_rev'
      /\ min_valid_rev' <= rev
  BY <1>2, <1>3, <1>51 DEF FloorAfter, ServerTypeOK, RevisionsBounded
<1>8. DOMAIN sessions' = {}
  BY <1>1, <1>2 DEF Without, SessionExclusive
<1>9. ServerTypeOK'
  <2>1. device_last_rev' \in [Devices -> 0 .. MaxRev]
    BY <1>2, <1>3 DEF ServerTypeOK
  <2>2. head_rev' \in 0 .. MaxRev /\ session_count' \in 0 .. MaxSessions
    BY <1>2, <1>3 DEF ServerTypeOK
  <2> QED BY <1>2, <1>5, <1>7, <1>8, <2>1, <2>2 DEF ServerTypeOK
<1>10. SessionExclusive'
  BY <1>8 DEF SessionExclusive
<1>11. RevisionsBounded'
  <2>1. \A e \in Devices : device_last_rev'[e] <= head_rev'
    BY <1>2, <1>3 DEF RevisionsBounded, ServerTypeOK
  <2>2. \A p \in DOMAIN file_index' : file_index'[p].rev <= head_rev'
    BY <1>2, <1>5, <1>6
  <2> QED BY <1>2, <1>7, <1>8, <2>1, <2>2 DEF RevisionsBounded
<1>12. NoMissedChange => NoMissedChange'
  <2> SUFFICES ASSUME NoMissedChange, NEW r \in 0 .. rev, ~BeforeFloor(r)',
                      NEW p \in DOMAIN snapshots'[r] \cup DOMAIN ContentsOf(file_index'),
                      p \notin DOMAIN ChangesSince(r)'
               PROVE  /\ p \in DOMAIN snapshots'[r]
                      /\ p \in DOMAIN ContentsOf(file_index')
                      /\ snapshots'[r][p] = ContentsOf(file_index')[p]
    BY <1>2 DEF NoMissedChange
  <2>1. ContentsOf(file_index') = ContentsOf(index)
    BY <1>5
  <2>2. CASE r = rev
    BY <1>2, <1>3, <2>1, <2>2
  <2>3. CASE r \in 0 .. head_rev
    <3>1. snapshots'[r] = snapshots[r]
      BY <1>2, <1>3, <2>3
    <3>2. ~BeforeFloor(r)
      BY <1>7, <2>3 DEF BeforeFloor, ServerTypeOK
    <3>3. ASSUME p \in DOMAIN snapshots[r] \cup LivePaths, p \notin DOMAIN ChangesSince(r)
          PROVE  /\ p \in DOMAIN snapshots[r]
                 /\ p \in LivePaths
                 /\ snapshots[r][p] = file_index[p].hash
      <4>1. /\ DOMAIN ContentsOf(file_index) = LivePaths
            /\ p \in LivePaths => ContentsOf(file_index)[p] = file_index[p].hash
        BY DEF ContentsOf, LivePaths
      <4> QED BY <2>3, <3>2, <3>3, <4>1 DEF NoMissedChange
    <3>4. /\ DOMAIN ContentsOf(index) = LivePathsOf(index)
          /\ p \in LivePathsOf(index) => ContentsOf(index)[p] = index[p].hash
      BY DEF ContentsOf
    \* The commit did not write the row and pruning left it.
    <3>5. CASE p \in DOMAIN file_index'
      <4>1. index[p].rev <= r /\ p \in DOMAIN index
        BY <1>3, <1>5, <1>6, <2>3, <3>5 DEF ChangesSince
      <4>2. p \in DOMAIN file_index /\ index[p] = file_index[p]
        BY <1>3, <1>3, <2>3, <4>1 DEF IndexWritten
      <4>3. p \notin DOMAIN ChangesSince(r)
        BY <1>5, <2>3, <4>1, <4>2 DEF ChangesSince
      <4>4. p \in LivePathsOf(index) <=> p \in LivePaths
        BY <4>1, <4>2 DEF LivePathsOf, LivePaths
      <4> QED BY <2>1, <3>1, <3>3, <3>4, <4>2, <4>3, <4>4
    \* Pruning took the row: a tombstone no younger than the floor.
    <3>6. CASE p \in DOMAIN index \ DOMAIN file_index'
      <4>1. index[p].deleted /\ index[p].rev <= aged
        BY <1>6, <3>6
      <4>2. p \in DOMAIN file_index /\ index[p] = file_index[p]
        BY <1>3, <1>5, <3>6, <1>51, <4>1 DEF IndexWritten
      <4>3. p \notin LivePathsOf(index) /\ p \notin LivePaths
        BY <4>1, <4>2 DEF LivePathsOf, LivePaths
      <4>4. p \in DOMAIN snapshots[r]
        BY <2>1, <3>1, <3>4, <4>3
      <4>5. r > 0
        BY <2>3, <4>4 DEF ServerTypeOK
      <4>6. aged = 0 \/ aged < r
        BY <1>51, <1>7, <2>3, <4>5 DEF BeforeFloor
      <4>7. p \notin DOMAIN ChangesSince(r)
        BY <1>5, <1>51, <2>3, <3>6, <4>1, <4>2, <4>5, <4>6 DEF ChangesSince
      <4> QED BY <3>3, <4>3, <4>4, <4>7
    <3>7. CASE p \notin DOMAIN index
      <4>1. p \notin LivePathsOf(index) /\ p \notin LivePaths /\ p \notin DOMAIN ChangesSince(r)
        BY <1>3, <3>7 DEF IndexWritten, LivePathsOf, LivePaths, ChangesSince
      <4>2. p \in DOMAIN snapshots[r]
        BY <2>1, <3>1, <3>4, <4>1
      <4> QED BY <3>3, <4>1, <4>2
    <3> QED BY <1>6, <3>5, <3>6, <3>7
  <2> QED BY <1>3, <2>2, <2>3
<1>13. /\ \A r \in 0 .. head_rev : snapshots'[r] = snapshots[r]
       /\ snapshots'[head_rev'] = ContentsOf(index)
  BY <1>2, <1>3
<1> QED BY <1>2, <1>3, <1>5, <1>6, <1>8, <1>9, <1>10, <1>11, <1>12, <1>13 DEF index, plan, blobs

\* An empty server.
LEMMA InitCore == Init => ServerCore /\ PlanIsFresh /\ NoMissedChange
<1> SUFFICES ASSUME Init PROVE ServerCore /\ PlanIsFresh /\ NoMissedChange
  OBVIOUS
<1>1. /\ DOMAIN file_index = {} /\ DOMAIN sessions = {}
      /\ DOMAIN snapshots = {0} /\ DOMAIN snapshots[0] = {}
  BY DEF Init
<1>2. head_rev = 0 /\ min_valid_rev = 0 /\ session_count = 0
  BY DEF Init
<1>3. device_last_rev = [e \in Devices |-> 0]
  BY DEF Init
<1>4. ServerTypeOK
  BY <1>1, <1>2, <1>3, BoundsAssumption, FS_EmptySet DEF ServerTypeOK, IndexTypeOK
<1>5. SessionExclusive /\ PlanIsFresh /\ RevisionsBounded /\ RowsStand
  BY <1>1, <1>2, <1>3
     DEF SessionExclusive, PlanIsFresh, RevisionsBounded, RowsStand, LivePaths, LivePathsOf
<1>6. NoMissedChange
  <2>1. DOMAIN ContentsOf(file_index) = {}
    BY <1>1 DEF ContentsOf, LivePathsOf
  <2> QED BY <1>1, <1>2, <2>1 DEF NoMissedChange
<1> QED BY <1>4, <1>5, <1>6 DEF ServerCore

-----------------------------------------------------------------------------
(***************************************************************************)
(* What a commit makes of the contents of the index and of the tree.       *)
(***************************************************************************)

\* Where the rows of a fresh plan come from.
LEMMA FreshPlan ==
    ASSUME ServerCore, NEW s \in DOMAIN sessions, Fresh(s)
    PROVE  LET local  == sessions[s].changes
               remote == ChangesSince(sessions[s].since)
               plan   == sessions[s].plan
           IN  /\ plan = ComputePlan(local, remote, LivePaths)
               /\ DOMAIN local \subseteq Path /\ IsFiniteSet(DOMAIN local)
               /\ IsFiniteSet(LivePaths) /\ LivePaths \subseteq Path
               /\ Edited(remote) \subseteq LivePaths
               /\ \A p \in DOMAIN remote : p \in DOMAIN file_index /\ remote[p] = file_index[p]
               /\ \A r \in plan.server_rename :
                    /\ r.from \in LivePaths /\ r.from \in UploadPaths(plan) /\ r.to \notin LivePaths
                    /\ r.from \in DOMAIN remote
                    /\ RenameSource(plan, r.to) = r.from
<1> DEFINE local  == sessions[s].changes
           remote == ChangesSince(sessions[s].since)
           plan   == sessions[s].plan
           taken  == LivePaths
<1>1. IsFiniteSet(DOMAIN local) /\ DOMAIN local \subseteq Path
  BY DEF ServerCore, ServerTypeOK, SessionTypeOK, ReportTypeOK
<1>2. IsFiniteSet(taken) /\ taken \subseteq Path /\ Edited(remote) \subseteq taken
  BY LiveRows DEF ServerCore, ServerTypeOK, IndexTypeOK
<1>3. plan = ComputePlan(local, remote, taken)
  BY DEF Fresh
<1>4. \A p \in DOMAIN remote : p \in DOMAIN file_index /\ remote[p] = file_index[p]
  BY DEF ChangesSince
<1> HIDE DEF local, remote, plan, taken
<1>5. ASSUME NEW r \in plan.server_rename
      PROVE  /\ r.from \in ClientWins(local, remote) /\ r.to = NextConflictPath(r.from, taken)
             /\ r.from \in Path /\ r.from \in Edited(remote)
  BY <1>1, <1>3, PlanLists DEF ClientWins, Clashes, Puts
<1>6. ASSUME NEW r \in plan.server_rename
      PROVE  /\ r.from \in taken /\ r.from \in UploadPaths(plan) /\ r.to \notin taken
             /\ r.from \in DOMAIN remote
             /\ RenameSource(plan, r.to) = r.from
  <2>1. r.from \in UploadPaths(plan)
    BY <1>3, <1>5, PlanLists
  <2>2. r.to \notin taken /\ Parent(r.to) = r.from
    BY <1>2, <1>5, NextConflictPathFresh, LoserParent
  <2>3. \A x \in plan.server_rename : x.to = r.to => x.from = r.from
    BY <1>2, <1>5, LoserParent
  <2> DEFINE x == CHOOSE y \in plan.server_rename : y.to = r.to
  <2>4. x \in plan.server_rename /\ x.to = r.to
    OBVIOUS
  <2>5. RenameSource(plan, r.to) = x.from
    BY DEF RenameSource
  <2> HIDE DEF x
  <2> QED BY <1>2, <1>5, <2>1, <2>2, <2>3, <2>4, <2>5 DEF Edited
<1> QED BY <1>1, <1>2, <1>3, <1>4, <1>6 DEF local, remote, plan, taken

\* After the files are moved the tree holds what the rows will say.
LEMMA LiveFollowsIndex ==
    ASSUME ServerCore, NEW s \in DOMAIN sessions, Fresh(s), IndexMatchesLive, NEW rev
    PROVE  LiveAfter(sessions[s].plan, sessions[s].blobs) =
               ContentsOf(IndexAfter(sessions[s].plan, sessions[s].blobs, rev))
<1> DEFINE plan    == sessions[s].plan
           blobs   == sessions[s].blobs
           renames == plan.server_rename
           targets == {r.to : r \in renames}
           uploads == UploadPaths(plan)
           old(p)  == file_index[RenameSource(plan, p)]
           index   == IndexAfter(plan, blobs, rev)
<1>1. /\ DOMAIN live = LivePaths /\ LivePaths \subseteq DOMAIN file_index
      /\ \A p \in LivePaths : live[p] = file_index[p].hash /\ ~ file_index[p].deleted
      /\ \A p \in DOMAIN file_index : p \notin LivePaths => file_index[p].deleted
  BY DEF IndexMatchesLive, ContentsOf, LivePaths, LivePathsOf
<1>2. \A r \in renames :
          r.from \in LivePaths /\ r.from \in uploads /\ RenameSource(plan, r.to) = r.from
  BY FreshPlan
<1> DEFINE paths == (((DOMAIN live \ {r.from : r \in renames}) \cup targets) \cup uploads)
                        \ plan.server_delete
<1>3. LiveAfter(plan, blobs) =
          [p \in paths |-> IF p \in uploads THEN blobs[p].hash
                           ELSE IF p \in targets THEN live[RenameSource(plan, p)]
                           ELSE live[p]]
  <2>1. {r \in renames : r.from \in DOMAIN live} = renames
    BY <1>1, <1>2
  <2> QED BY <2>1 DEF LiveAfter
<1>4. index = [p \in DOMAIN file_index \cup targets \cup uploads \cup plan.server_delete |->
                  IF p \in plan.server_delete THEN Tombstone(rev)
                  ELSE IF p \in uploads THEN LiveEntry(rev, blobs[p].hash, blobs[p].mtime)
                  ELSE IF p \in targets THEN LiveEntry(rev, old(p).hash, old(p).mtime)
                  ELSE file_index[p]]
  <2>1. {r \in renames : r.from \in DOMAIN file_index} = renames
    BY <1>1, <1>2
  <2> QED BY <2>1 DEF IndexAfter
<1> HIDE DEF plan, blobs, index
<1>5. LivePathsOf(index) = paths
  BY <1>1, <1>2, <1>4 DEF LivePathsOf, Tombstone, LiveEntry
<1>6. \A p \in paths : index[p].hash = LiveAfter(plan, blobs)[p]
  <2>1. \A p \in targets : live[RenameSource(plan, p)] = old(p).hash
    BY <1>1, <1>2
  <2> QED BY <1>1, <1>3, <1>4, <2>1 DEF LiveEntry
<1>7. LiveAfter(plan, blobs) = [p \in paths |-> LiveAfter(plan, blobs)[p]]
  BY <1>3
<1> HIDE DEF paths
<1> QED BY <1>5, <1>6, <1>7 DEF ContentsOf, plan, blobs, index

\* Each list of the plan does what it says, and no path is touched otherwise.
LEMMA CommitContents ==
    ASSUME ServerCore, NEW s \in DOMAIN sessions, Fresh(s), NEW rev,
           FreshLosers(sessions[s].changes, ChangesSince(sessions[s].since), LivePaths),
           UploadPaths(sessions[s].plan) \subseteq DOMAIN sessions[s].blobs
    PROVE  LET plan  == sessions[s].plan
               blobs == sessions[s].blobs
               new   == ContentsOf(IndexAfter(plan, blobs, rev))
           IN  /\ \A p \in UploadPaths(plan) : p \in DOMAIN new /\ new[p] = blobs[p].hash
               /\ \A i \in plan.download : i.path \in DOMAIN new /\ new[i.path] = i.hash
               /\ \A p \in plan.delete_local \cup plan.server_delete : p \notin DOMAIN new
               /\ \A p : p \notin UploadPaths(plan) \cup DownloadPaths(plan) \cup plan.server_delete
                         => /\ p \in DOMAIN new <=> p \in LivePaths
                            /\ p \in LivePaths => new[p] = file_index[p].hash
<1> DEFINE plan    == sessions[s].plan
           blobs   == sessions[s].blobs
           local   == sessions[s].changes
           remote  == ChangesSince(sessions[s].since)
           renames == plan.server_rename
           targets == {r.to : r \in renames}
           uploads == UploadPaths(plan)
           old(p)  == file_index[RenameSource(plan, p)]
           index   == IndexAfter(plan, blobs, rev)
           new     == ContentsOf(index)
<1>1. /\ LivePaths \subseteq DOMAIN file_index
      /\ \A p \in DOMAIN file_index : p \in LivePaths <=> ~ file_index[p].deleted
  BY DEF LivePaths, LivePathsOf
<1>2. /\ plan = ComputePlan(local, remote, LivePaths)
      /\ DOMAIN local \subseteq Path /\ IsFiniteSet(LivePaths)
      /\ Edited(remote) \subseteq LivePaths
      /\ \A p \in DOMAIN remote : p \in DOMAIN file_index /\ remote[p] = file_index[p]
      /\ \A r \in renames :
            /\ r.from \in LivePaths /\ r.from \in uploads
            /\ r.from \in DOMAIN remote /\ RenameSource(plan, r.to) = r.from
  BY FreshPlan
<1>4. index = [p \in DOMAIN file_index \cup targets \cup uploads \cup plan.server_delete |->
                  IF p \in plan.server_delete THEN Tombstone(rev)
                  ELSE IF p \in uploads THEN LiveEntry(rev, blobs[p].hash, blobs[p].mtime)
                  ELSE IF p \in targets THEN LiveEntry(rev, old(p).hash, old(p).mtime)
                  ELSE file_index[p]]
  <2>1. {r \in renames : r.from \in DOMAIN file_index} = renames
    BY <1>1, <1>2
  <2> QED BY <2>1 DEF IndexAfter
<1> HIDE DEF plan, blobs, index, local, remote
<1>5. /\ uploads \cap DownloadPaths(plan) = {} /\ uploads \cap plan.delete_local = {}
      /\ DownloadPaths(plan) \cap plan.delete_local = {}
      /\ uploads \cap plan.server_delete = {} /\ DownloadPaths(plan) \cap plan.server_delete = {}
      /\ targets \cap uploads = {} /\ targets \subseteq DownloadPaths(plan)
  <2>1. FreshLosers(local, remote, LivePaths)
    BY DEF local, remote
  <2> QED BY <1>2, <2>1, PlanDisjoint DEF RenameTargets
<1>6. \A p : p \in DOMAIN new <=> p \in DOMAIN index /\ ~ index[p].deleted
  BY DEF ContentsOf, LivePathsOf
<1>7. \A p \in DOMAIN new : new[p] = index[p].hash
  BY DEF ContentsOf, LivePathsOf
<1> HIDE DEF new, uploads, targets, old, renames
<1>8. ASSUME NEW p \in uploads
      PROVE  p \in DOMAIN new /\ new[p] = blobs[p].hash
  <2>1. p \in DOMAIN index /\ index[p] = LiveEntry(rev, blobs[p].hash, blobs[p].mtime)
    BY <1>4, <1>5
  <2> QED BY <1>6, <1>7, <2>1 DEF LiveEntry
<1>9. ASSUME NEW i \in plan.download
      PROVE  i.path \in DOMAIN new /\ new[i.path] = i.hash
  <2>1. i.path \in DownloadPaths(plan)
    BY DEF DownloadPaths
  <2>2. i.path \notin uploads /\ i.path \notin plan.server_delete
    BY <1>5, <2>1
  <2>3. CASE /\ i.path \in (Edited(remote) \ Puts(local)) \cup ServerWins(local, remote)
             /\ i = DownloadItem(i.path, remote[i.path].hash, remote[i.path].mtime)
    <3>1. i.path \in LivePaths /\ i.path \in DOMAIN remote /\ remote[i.path] = file_index[i.path]
      BY <1>2, <2>3 DEF ServerWins, Clashes, Edited
    <3>2. i.path \notin targets
      BY <3>1, FreshPlan DEF targets, renames, plan
    <3>3. i.path \in DOMAIN index /\ index[i.path] = file_index[i.path]
      BY <1>1, <1>4, <2>2, <3>1, <3>2
    <3>4. i.hash = remote[i.path].hash
      BY <2>3 DEF DownloadItem
    <3> QED BY <1>1, <1>6, <1>7, <3>1, <3>3, <3>4
  <2>4. CASE \E p \in ClientWins(local, remote) :
                 i = DownloadItem(NextConflictPath(p, LivePaths), remote[p].hash, remote[p].mtime)
    <3>1. PICK p \in ClientWins(local, remote) :
              i = DownloadItem(NextConflictPath(p, LivePaths), remote[p].hash, remote[p].mtime)
      BY <2>4
    <3>2. PICK r \in renames : r.from = p /\ r.to = i.path
      <4> DEFINE r == [from |-> p, to |-> NextConflictPath(p, LivePaths)]
      <4>1. r \in renames
        BY <1>2, <3>1, PlanLists DEF renames
      <4>2. r.from = p /\ r.to = i.path
        BY <3>1 DEF DownloadItem
      <4> HIDE DEF r
      <4> QED BY <4>1, <4>2
    <3>3. i.path \in targets /\ old(i.path) = file_index[p] /\ remote[p] = file_index[p]
      BY <1>2, <3>2 DEF targets, old
    <3>4. i.path \in DOMAIN index /\ index[i.path] = LiveEntry(rev, old(i.path).hash, old(i.path).mtime)
      BY <1>4, <2>2, <3>3
    <3>5. i.hash = remote[p].hash
      BY <3>1 DEF DownloadItem
    <3> QED BY <1>6, <1>7, <3>3, <3>4, <3>5 DEF LiveEntry
  <2> QED BY <1>2, <2>3, <2>4, PlanLists
<1>10. ASSUME NEW p \in plan.server_delete
       PROVE  p \notin DOMAIN new
  <2>1. p \in DOMAIN index => index[p] = Tombstone(rev)
    BY <1>4
  <2> QED BY <1>6, <2>1 DEF Tombstone
<1>11. ASSUME NEW p \in plan.delete_local
       PROVE  p \notin DOMAIN new
  <2>1. p \in DOMAIN remote /\ remote[p].deleted
    BY <1>2, PlanLists DEF Buried
  <2>2. p \notin uploads /\ p \notin targets /\ p \in DOMAIN file_index /\ file_index[p].deleted
    BY <1>2, <1>5, <2>1
  <2>3. p \in plan.server_delete \/ index[p] = file_index[p]
    BY <1>4, <2>2
  <2> QED BY <1>6, <1>10, <2>2, <2>3
<1>12. ASSUME NEW p, p \notin uploads \cup DownloadPaths(plan) \cup plan.server_delete
       PROVE  /\ p \in DOMAIN new <=> p \in LivePaths
              /\ p \in LivePaths => new[p] = file_index[p].hash
  <2>1. /\ p \in DOMAIN index <=> p \in DOMAIN file_index
        /\ p \in DOMAIN index => index[p] = file_index[p]
    BY <1>4, <1>5, <1>12
  <2> QED BY <1>1, <1>6, <1>7, <2>1
<1> QED BY <1>8, <1>9, <1>10, <1>11, <1>12 DEF new, index, plan, blobs, uploads
=============================================================================
