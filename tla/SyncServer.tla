----------------------------- MODULE SyncServer -----------------------------
(***************************************************************************)
(* The sync protocol of the server for one emulator (apps/server/src/      *)
(* api.rs, db.rs and storage.rs): the index of paths, the tombstones and   *)
(* their floor, the session that locks the emulator between `plan` and     *)
(* `commit`, the blobs staged in it, and the live tree on disk.  Every     *)
(* query of the code is keyed by the emulator, so one instance stands for  *)
(* each.                                                                   *)
(*                                                                         *)
(* Each handler runs under the mutex of the SQLite connection and is one   *)
(* action.  Its inputs are whatever a paired device may send: the code     *)
(* does not trust `last_rev` ("backup restaurado, banco local copiado").   *)
(* Time is abstracted: any session may have outlived its TTL when `plan`   *)
(* looks, and any tombstone older than the current commit may have         *)
(* outlived the retention window.                                          *)
(***************************************************************************)
EXTENDS SyncPlan

CONSTANTS Devices,      \* pairings: a device that pairs again is a new one
          MaxRev,       \* bound: commits of the emulator
          MaxSessions   \* bound: sessions ever opened

ASSUME BoundsAssumption == MaxRev \in Nat /\ MaxSessions \in Nat

VARIABLES
    head_rev,         \* emulator_state.head_rev
    min_valid_rev,    \* emulator_state.min_valid_rev, the tombstone floor
    file_index,       \* file_index: path -> entry
    live,             \* the live tree on disk: path -> content
    device_last_rev,  \* device_state.last_rev of each device
    sessions,         \* open sessions: id -> device, plan, staged blobs
    session_count,    \* ids given out (the code draws random ones)
    snapshots         \* ghost: the live contents of the index after each commit

vars == <<head_rev, min_valid_rev, file_index, live, device_last_rev,
          sessions, session_count, snapshots>>

-----------------------------------------------------------------------------
\* changes_since and live_paths.
ChangesSinceInclusive(since) ==
    [p \in {q \in DOMAIN file_index : file_index[q].rev > since + 1} |-> file_index[p]]

ChangesSince(since) ==
    [p \in {q \in DOMAIN file_index : file_index[q].rev > since} |-> file_index[p]]

LivePathsOf(index) == {p \in DOMAIN index : ~index[p].deleted}
LivePaths          == LivePathsOf(file_index)

ContentsOf(index) == [p \in LivePathsOf(index) |-> index[p].hash]

WithoutNone(open, ids) == open

\* drop_sessions_for and DELETE FROM sessions, whose blobs cascade.
Without(open, ids) == [s \in DOMAIN open \ ids |-> open[s]]

SessionsOf(d) == {s \in DOMAIN sessions : sessions[s].device = d}

OwnedBy(s, d) == s \in DOMAIN sessions /\ sessions[s].device = d

-----------------------------------------------------------------------------
(***************************************************************************)
(* POST /sync/{emu}/plan.                                                  *)
(***************************************************************************)

LockedByOtherNever(d, stale) == FALSE

\* expire_stale_sessions has removed `stale`; another device's session is left.
LockedByOther(d, stale) ==
    \E s \in DOMAIN sessions \ stale : sessions[s].device # d

\* The device asks from before the last prune of tombstones.
BeforeFloor(last_rev) == last_rev > 0 /\ last_rev < min_valid_rev

\* The client is the source of last_rev, the server's record its upper bound.
Since(d, last_rev) ==
    IF last_rev < device_last_rev[d] THEN last_rev ELSE device_last_rev[d]

\* 429 busy: the expired sessions are gone all the same.
PlanBusy(d) ==
    \E stale \in SUBSET DOMAIN sessions :
        /\ LockedByOther(d, stale)
        /\ sessions' = Without(sessions, stale)
        /\ UNCHANGED <<head_rev, min_valid_rev, file_index, live,
                       device_last_rev, session_count, snapshots>>

\* 410 resync_required: the device's own session is already dropped.
PlanGone(d, last_rev) ==
    \E stale \in SUBSET DOMAIN sessions :
        /\ ~LockedByOther(d, stale)
        /\ BeforeFloor(last_rev)
        /\ sessions' = Without(sessions, stale \cup SessionsOf(d))
        /\ UNCHANGED <<head_rev, min_valid_rev, file_index, live,
                       device_last_rev, session_count, snapshots>>

\* The session keeps the plan; `changes`, `since` and `head` are ghosts that
\* remember what it was computed from.
NewSession(d, since, changes) ==
    [device  |-> d,
     plan    |-> ComputePlan(changes, ChangesSince(since), LivePaths),
     blobs   |-> << >>,
     changes |-> changes,
     since   |-> since,
     head    |-> head_rev]

Plan(d, last_rev, changes) ==
    /\ session_count < MaxSessions
    /\ head_rev < MaxRev
    /\ ~BeforeFloor(last_rev)
    /\ \E stale \in SUBSET DOMAIN sessions :
        /\ ~LockedByOther(d, stale)
        /\ LET kept == Without(sessions, stale \cup SessionsOf(d))
               id   == session_count + 1
           IN  sessions' = [s \in DOMAIN kept \cup {id} |->
                               IF s = id THEN NewSession(d, Since(d, last_rev), changes)
                               ELSE kept[s]]
    /\ session_count' = session_count + 1
    /\ UNCHANGED <<head_rev, min_valid_rev, file_index, live, device_last_rev, snapshots>>

-----------------------------------------------------------------------------
(***************************************************************************)
(* PUT /sync/{emu}/blob.  The bytes are verified against the declared hash *)
(* on arrival, so a staged file is its hash.  The handler does not ask     *)
(* whether the plan wanted the path.  Same hash again: nothing is written. *)
(***************************************************************************)

Staged(blobs, p, hash, mtime) ==
    [q \in DOMAIN blobs \cup {p} |->
        IF q = p THEN [hash |-> hash, mtime |-> mtime] ELSE blobs[q]]

PutBlob(d, s, p, hash, mtime) ==
    /\ OwnedBy(s, d)
    /\ LET blobs == sessions[s].blobs
       IN  sessions' = IF p \in DOMAIN blobs /\ blobs[p].hash = hash
                       THEN sessions
                       ELSE [sessions EXCEPT ![s].blobs = Staged(blobs, p, hash, mtime)]
    /\ UNCHANGED <<head_rev, min_valid_rev, file_index, live,
                   device_last_rev, session_count, snapshots>>

-----------------------------------------------------------------------------
(***************************************************************************)
(* POST /sync/{emu}/commit.                                                *)
(***************************************************************************)

MissingUploads(s) == UploadPaths(sessions[s].plan) \ DOMAIN sessions[s].blobs

\* apply_to_live: renames of conflict losers, then uploads, then deletions.
RenameSource(plan, p) == (CHOOSE r \in plan.server_rename : r.to = p).from

\* A slip: the loser is copied to its new name once the winner is in place.
LiveAfterCopiedLate(plan, blobs) ==
    LET targets == {r.to : r \in {x \in plan.server_rename : x.from \in DOMAIN live}}
        uploads == UploadPaths(plan)
        base(p) == IF p \in uploads THEN blobs[p].hash ELSE live[p]
    IN  [p \in (DOMAIN live \cup targets \cup uploads) \ plan.server_delete |->
            IF p \in targets THEN base(RenameSource(plan, p)) ELSE base(p)]

LiveAfter(plan, blobs) ==
    LET renames == {r \in plan.server_rename : r.from \in DOMAIN live}
        moved   == {r.from : r \in renames}
        targets == {r.to : r \in renames}
        uploads == UploadPaths(plan)
        paths   == (((DOMAIN live \ moved) \cup targets) \cup uploads) \ plan.server_delete
    IN  [p \in paths |-> IF p \in uploads THEN blobs[p].hash
                         ELSE IF p \in targets THEN live[RenameSource(plan, p)]
                         ELSE live[p]]

\* A slip in the order: the uploads are indexed before the renamed losers.
IndexAfterUploadsFirst(plan, blobs, rev) ==
    LET uploads == UploadPaths(plan)
        paths   == DOMAIN file_index \cup uploads \cup plan.server_delete
        base(p) == IF p \in uploads THEN LiveEntry(rev, blobs[p].hash, blobs[p].mtime)
                   ELSE file_index[p]
        targets == {r.to : r \in {x \in plan.server_rename : x.from \in paths}}
    IN  [p \in paths \cup targets |->
            IF p \in plan.server_delete THEN Tombstone(rev)
            ELSE IF p \in targets
                 THEN LiveEntry(rev, base(RenameSource(plan, p)).hash, base(RenameSource(plan, p)).mtime)
            ELSE base(p)]

\* The rows the commit writes, in its order: a renamed loser keeps the hash
\* and mtime its old path had, an upload takes those of its blob, and a
\* deletion leaves a tombstone.  All carry the new revision.
IndexAfter(plan, blobs, rev) ==
    LET renames == {r \in plan.server_rename : r.from \in DOMAIN file_index}
        targets == {r.to : r \in renames}
        uploads == UploadPaths(plan)
        old(p)  == file_index[RenameSource(plan, p)]
    IN  [p \in DOMAIN file_index \cup targets \cup uploads \cup plan.server_delete |->
            IF p \in plan.server_delete THEN Tombstone(rev)
            ELSE IF p \in uploads THEN LiveEntry(rev, blobs[p].hash, blobs[p].mtime)
            ELSE IF p \in targets THEN LiveEntry(rev, old(p).hash, old(p).mtime)
            ELSE file_index[p]]

\* prune_history: `aged` is the revision of the youngest tombstone past the
\* retention window, 0 when there is none.  Every tombstone up to it goes,
\* and the floor moves one above it.
AgedRevsFresh(index, rev) ==
    {0} \cup {index[p].rev : p \in {q \in DOMAIN index : index[q].deleted}}

AgedRevs(index, rev) ==
    {0} \cup {index[p].rev : p \in {q \in DOMAIN index : index[q].deleted /\ index[q].rev < rev}}

Pruned(index, aged) ==
    [p \in {q \in DOMAIN index : ~(index[q].deleted /\ index[q].rev <= aged)} |-> index[p]]

FloorAfterUnmoved(aged) == min_valid_rev

FloorAfter(aged) ==
    IF aged > 0 /\ aged + 1 > min_valid_rev THEN aged + 1 ELSE min_valid_rev

Commit(d, s) ==
    /\ OwnedBy(s, d)
    /\ MissingUploads(s) = {}
    /\ RepeatedUploads(sessions[s].plan) = {}
    /\ LET plan  == sessions[s].plan
           blobs == sessions[s].blobs
           rev   == head_rev + 1
           index == IndexAfter(plan, blobs, rev)
       IN  \E aged \in AgedRevs(index, rev) :
            /\ head_rev' = rev
            /\ live' = LiveAfter(plan, blobs)
            /\ file_index' = Pruned(index, aged)
            /\ min_valid_rev' = FloorAfter(aged)
            /\ device_last_rev' = [device_last_rev EXCEPT ![d] = rev]
            /\ sessions' = Without(sessions, {s})
            /\ snapshots' = [r \in 0 .. rev |->
                                IF r = rev THEN ContentsOf(index) ELSE snapshots[r]]
    /\ UNCHANGED session_count

\* A path twice in the upload list: the second move finds no staged file and
\* the handler fails after the renames and some of the uploads (the list is
\* in path order, which the model leaves open), before any row is written.
\* The session stays; a client that got the error plans again, which drops it.
CommitFails(d, s) ==
    /\ OwnedBy(s, d)
    /\ MissingUploads(s) = {}
    /\ LET plan  == sessions[s].plan
           blobs == sessions[s].blobs
       IN  \E twice \in RepeatedUploads(plan), done \in SUBSET UploadPaths(plan) :
            /\ twice \in done
            /\ live' = LiveAfter([plan EXCEPT !.upload = {u \in @ : u.path \in done},
                                              !.server_delete = {}], blobs)
    /\ UNCHANGED <<head_rev, min_valid_rev, file_index, device_last_rev,
                   sessions, session_count, snapshots>>

-----------------------------------------------------------------------------
\* DELETE /devices/{id}: the sessions and the recorded revisions of the
\* pairing cascade.  The device may pair again, as a new row.
RevokeDevice(d) ==
    /\ sessions' = Without(sessions, SessionsOf(d))
    /\ device_last_rev' = [device_last_rev EXCEPT ![d] = 0]
    /\ UNCHANGED <<head_rev, min_valid_rev, file_index, live, session_count, snapshots>>

Init ==
    /\ head_rev = 0
    /\ min_valid_rev = 0
    /\ file_index = << >>
    /\ live = << >>
    /\ device_last_rev = [d \in Devices |-> 0]
    /\ sessions = << >>
    /\ session_count = 0
    /\ snapshots = [r \in {0} |-> << >>]
-----------------------------------------------------------------------------
(***************************************************************************)
(* Properties.                                                             *)
(***************************************************************************)

\* A live row has a content and a tombstone has none.
IndexTypeOK ==
    /\ IsFiniteSet(DOMAIN file_index)
    /\ DOMAIN file_index \subseteq Path
    /\ \A p \in DOMAIN file_index :
        /\ file_index[p] \in Entry
        /\ file_index[p].deleted <=> file_index[p].hash = NoHash

BlobsTypeOK(blobs) ==
    /\ IsFiniteSet(DOMAIN blobs)
    /\ DOMAIN blobs \subseteq Path
    /\ \A p \in DOMAIN blobs : blobs[p] \in Meta

\* What a device may report: finitely many paths, each once (validate_path,
\* and the map compute_plan builds from the list).
ReportTypeOK(changes) ==
    /\ IsFiniteSet(DOMAIN changes)
    /\ DOMAIN changes \subseteq Path
    /\ \A p \in DOMAIN changes : changes[p] \in Change

SessionTypeOK(session) ==
    /\ DOMAIN session = {"device", "plan", "blobs", "changes", "since", "head"}
    /\ session.device \in Devices
    /\ session.head \in 0 .. MaxRev - 1
    /\ session.since \in 0 .. MaxRev
    /\ ReportTypeOK(session.changes)
    /\ BlobsTypeOK(session.blobs)

\* Types of the server's state: rows, revisions, sessions and their blobs.
ServerTypeOK ==
    /\ head_rev \in 0 .. MaxRev
    /\ min_valid_rev \in Nat
    /\ IndexTypeOK
    /\ device_last_rev \in [Devices -> 0 .. MaxRev]
    /\ session_count \in 0 .. MaxSessions
    /\ DOMAIN sessions \subseteq 1 .. session_count
    /\ \A s \in DOMAIN sessions : SessionTypeOK(sessions[s])
    /\ DOMAIN snapshots = 0 .. head_rev
    /\ DOMAIN snapshots[0] = {}

\* The lock of the emulator (api.rs plan): never two open sessions, whoever
\* replans, expires or is revoked.
SessionExclusive ==
    \A s, t \in DOMAIN sessions : s = t

\* What the lock is for (the comment in api.rs plan): whenever a session is
\* open, its stored plan is the one the server would compute now from the
\* same report, at the same head.  No commit, prune or expiry of another
\* device has made the plan a device is about to commit stale.
PlanIsFresh ==
    \A s \in DOMAIN sessions :
        LET session == sessions[s]
        IN  /\ session.head = head_rev
            /\ session.plan = ComputePlan(session.changes, ChangesSince(session.since), LivePaths)

\* No revision of the index, of a device or of the floor runs ahead of the
\* head: a row ahead of it would be sent forever, a device ahead of it would
\* skip commits, a floor ahead of it would refuse a device that just synced.
\* And no plan starts after what the server has recorded of its device, whatever
\* the device claimed (api.rs plan, "backup restaurado, banco local copiado").
RevisionsBounded ==
    /\ \A p \in DOMAIN file_index : file_index[p].rev <= head_rev
    /\ \A d \in Devices : device_last_rev[d] <= head_rev
    /\ min_valid_rev <= head_rev
    /\ \A s \in DOMAIN sessions : sessions[s].since <= device_last_rev[sessions[s].device]

\* Tombstones and their floor (db.rs changes_since and prune_tombstones): a
\* device that may still plan from revision r is told of every path whose
\* live content is no longer what it was at r, deletions included.
NoMissedChange ==
    \A r \in 0 .. head_rev : ~BeforeFloor(r) =>
        LET then == snapshots[r]
            now  == ContentsOf(file_index)
        IN  \A p \in DOMAIN then \cup DOMAIN now :
                \/ p \in DOMAIN ChangesSince(r)
                \/ p \in DOMAIN then /\ p \in DOMAIN now /\ then[p] = now[p]

\* docs/protocol.md section 5, `plan`: a path is in at most one of the lists
\* the client gets.  A path both uploaded or downloaded and deleted would end
\* the cycle missing on the device and live on the server.
ListsDisjoint ==
    \A s \in DOMAIN sessions :
        LET plan == sessions[s].plan
        IN  /\ UploadPaths(plan) \cap DownloadPaths(plan) = {}
            /\ UploadPaths(plan) \cap plan.delete_local = {}
            /\ DownloadPaths(plan) \cap plan.delete_local = {}

\* The index describes the live tree: every live row has a file with its
\* hash and every file has a live row (api.rs commit with storage.rs
\* apply_to_live: files are moved first, rows written after).
IndexMatchesLive == live = ContentsOf(file_index)
=============================================================================
