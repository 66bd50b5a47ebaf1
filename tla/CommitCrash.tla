----------------------------- MODULE CommitCrash ------------------------------
(***************************************************************************)
(* SyncSystem with commits that stop half-way: the server is killed, or a  *)
(* file operation or an SQL statement fails.  The handler moves files,     *)
(* then writes rows one statement at a time, with no transaction around    *)
(* them (api.rs commit, storage.rs apply_to_live, db.rs put_entry), so any *)
(* prefix of its steps may be what the disk and the database hold when the *)
(* server runs again.                                                      *)
(*                                                                         *)
(* The handler holds the mutex from its first query to the last and never  *)
(* awaits, so nobody sees a prefix unless the handler stops in it: a       *)
(* stopped commit is one action, like a whole one.                         *)
(***************************************************************************)
EXTENDS SyncSystem

CONSTANT StopsAt  \* where commits may stop: in the files, the rows, the prune

ASSUME StopsAtAssumption == StopsAt \subseteq {"files", "rows", "prune"}

\* What a stopped loop has done: the renames come first, then the uploads,
\* then the deletions, in the tree as in the index.  A list is in an order
\* the model leaves open, so its prefix is any subset.
Prefixes(plan) ==
    {[plan EXCEPT !.server_rename = renames, !.upload = {}, !.server_delete = {}] :
        renames \in SUBSET plan.server_rename}
    \cup {[plan EXCEPT !.upload = uploads, !.server_delete = {}] : uploads \in SUBSET plan.upload}
    \cup {[plan EXCEPT !.server_delete = deletes] : deletes \in SUBSET plan.server_delete}

\* Past the early returns of commit.
Committing(d, s) ==
    /\ OwnedBy(s, d)
    /\ MissingUploads(s) = {}
    /\ RepeatedUploads(sessions[s].plan) = {}

\* In apply_to_live: no row is written.
StopInFiles(d, s) ==
    /\ "files" \in StopsAt
    /\ Committing(d, s)
    /\ \E done \in Prefixes(sessions[s].plan) : live' = LiveAfter(done, sessions[s].blobs)
    /\ UNCHANGED <<head_rev, min_valid_rev, file_index, device_last_rev,
                   sessions, session_count, snapshots>>

\* A slip: the head is bumped after the rows are written.
StopInRowsUnbumped(d, s) ==
    /\ "rows" \in StopsAt
    /\ Committing(d, s)
    /\ live' = LiveAfter(sessions[s].plan, sessions[s].blobs)
    /\ file_index' = IndexAfter(sessions[s].plan, sessions[s].blobs, head_rev + 1)
    /\ UNCHANGED <<head_rev, min_valid_rev, device_last_rev, sessions, session_count, snapshots>>

\* The files are moved and the head is bumped; the row of the device comes
\* after every row of the index, the deletion of the session last.
StopInRows(d, s) ==
    /\ "rows" \in StopsAt
    /\ Committing(d, s)
    /\ LET plan  == sessions[s].plan
           blobs == sessions[s].blobs
           rev   == head_rev + 1
       IN  \E done \in Prefixes(plan) :
            /\ head_rev' = rev
            /\ live' = LiveAfter(plan, blobs)
            /\ file_index' = IndexAfter(done, blobs, rev)
            /\ \/ UNCHANGED device_last_rev
               \/ /\ done = plan
                  /\ device_last_rev' = [device_last_rev EXCEPT ![d] = rev]
            /\ snapshots' = [r \in 0 .. rev |->
                                IF r = rev THEN ContentsOf(file_index') ELSE snapshots[r]]
    /\ UNCHANGED <<min_valid_rev, sessions, session_count>>

\* prune_tombstones deletes the rows in one statement and moves the floor in
\* the next.  The session is gone by then.
StopInPrune(d, s) ==
    /\ "prune" \in StopsAt
    /\ Committing(d, s)
    /\ LET plan  == sessions[s].plan
           blobs == sessions[s].blobs
           rev   == head_rev + 1
           index == IndexAfter(plan, blobs, rev)
       IN  \E aged \in AgedRevs(index, rev) :
            /\ head_rev' = rev
            /\ live' = LiveAfter(plan, blobs)
            /\ file_index' = Pruned(index, aged)
            /\ device_last_rev' = [device_last_rev EXCEPT ![d] = rev]
            /\ sessions' = Without(sessions, {s})
            /\ snapshots' = [r \in 0 .. rev |->
                                IF r = rev THEN ContentsOf(index) ELSE snapshots[r]]
    /\ UNCHANGED <<min_valid_rev, session_count>>

\* The device gets an error or nothing: its cycle ends, and the session left
\* behind locks the emulator until it expires or the device plans again.  The
\* error of a failed prune is dropped, and the device may go on.
CommitStops(d) ==
    /\ sync[d].step = "rename"
    /\ sync[d].todo = {}
    /\ LET s == sync[d].session
       IN  \/ /\ StopInFiles(d, s) \/ StopInRows(d, s) \/ StopInPrune(d, s)
              /\ sync' = [sync EXCEPT ![d] = Idle]
           \/ /\ StopInPrune(d, s)
              /\ sync' = [sync EXCEPT ![d] = Applying(@, head_rev')]
    /\ UNCHANGED <<disk, baseline, versions, superseded>>

CrashNext == SystemNext \/ \E d \in Devices : CommitStops(d)

CrashSpec == SystemInit /\ [][CrashNext]_allVars

-----------------------------------------------------------------------------
\* What is left of NoMissedChange when the prune stops too (db.rs
\* prune_tombstones): a device that may still plan from revision r is told of
\* every file that is new or has changed since; only deletions can escape it.
NoMissedEdit ==
    \A r \in 0 .. head_rev : ~BeforeFloor(r) =>
        \A p \in LivePaths :
            \/ p \in DOMAIN ChangesSince(r)
            \/ p \in DOMAIN snapshots[r] /\ snapshots[r][p] = file_index[p].hash
=============================================================================
