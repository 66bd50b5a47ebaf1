----------------------------- MODULE OpenServer -----------------------------
(***************************************************************************)
(* The server of SyncServer against devices that may send any request at   *)
(* any time: old or inflated revisions, any report, blobs never asked for  *)
(* again, late or repeated commits of sessions that are gone.              *)
(***************************************************************************)
EXTENDS SyncServer

CONSTANTS Reports,  \* the change lists a device may send
          MTimes    \* the mtimes a device may declare

ASSUME ReportsAssumption == \A changes \in Reports : ReportTypeOK(changes)

ASSUME MTimesAssumption == MTimes \subseteq Int

\* Blobs of paths outside the plan are recorded and never read, so only
\* planned ones are sent.
PutPlannedBlob(d, s) ==
    /\ s \in DOMAIN sessions
    /\ \E p \in UploadPaths(sessions[s].plan), hash \in Hashes, mtime \in MTimes :
        PutBlob(d, s, p, hash, mtime)

DeviceStep(d) ==
    \/ PlanBusy(d)
    \/ \E last_rev \in 0 .. MaxRev :
        \/ PlanGone(d, last_rev)
        \/ \E changes \in Reports : Plan(d, last_rev, changes)
    \/ \E s \in 1 .. MaxSessions :
        \/ PutPlannedBlob(d, s)
        \/ Commit(d, s)
        \/ CommitFails(d, s)
    \/ RevokeDevice(d)

Next == \E d \in Devices : DeviceStep(d)

Spec == Init /\ [][Next]_vars

-----------------------------------------------------------------------------
\* The lock makes the server an optimistic store: the revision a session was
\* planned at is still the head when its commit goes through.
None == -1

PlannedHead(d) ==
    IF SessionsOf(d) = {} THEN None ELSE sessions[CHOOSE s \in SessionsOf(d) : TRUE].head

Serial == INSTANCE SerialCommits WITH
    head    <- head_rev,
    content <- ContentsOf(file_index),
    base    <- [d \in Devices |-> PlannedHead(d)]

\* Commits are serialised: each one was planned on the tree it replaces.
CommitsAreSerial == Serial!Spec
=============================================================================
