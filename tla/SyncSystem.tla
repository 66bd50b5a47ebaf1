----------------------------- MODULE SyncSystem -----------------------------
(***************************************************************************)
(* The server of SyncServer with the devices that use it: one sync cycle   *)
(* of crates/core/src/client.rs (sync_emulator) step by step, the baseline *)
(* the desktop app keeps of it, and users who save and delete files.       *)
(*                                                                         *)
(* A cycle may stop between any two steps: a refused or lost request, an   *)
(* error, a kill of the process.  The device is then idle with the         *)
(* baseline it had, whatever it had already done to its disk or to the     *)
(* server.  Replies of `plan` and `commit` may be lost after the server    *)
(* acted.                                                                  *)
(*                                                                         *)
(* The scan is taken together with the plan request: an edit between the   *)
(* two only touches the disk, which the server does not read, so it can be *)
(* taken for an edit just after the plan.                                  *)
(***************************************************************************)
EXTENDS SyncServer

CONSTANTS MTimes,       \* clock readings of the devices, in no common order
          MaxVersions,  \* bound: contents ever written
          MayPairAgain, \* devices are revoked and pair again
          \* What users may do; each is a habit the protocol depends on:
          EditMarkers,  \* touch `.conflict<n>` files too
          EditReplaced, \* touch a file the running cycle is replacing
          EditDangling  \* save a file while a loser of it, renamed on the disk
                        \* by this cycle or an interrupted one, is not yet
                        \* in a commit

\* Contents are numbered in the order they are written.
ASSUME ContentsAssumption == MaxVersions \in Nat /\ Hashes = 1 .. MaxVersions

ASSUME MTimesAssumption == MTimes \subseteq Int

VARIABLES
    disk,          \* the emulator folder of each device: path -> meta
    baseline,      \* what the device last agreed on: last_rev and files
    sync,          \* the running cycle of each device, or Idle
    versions,      \* contents written so far
    superseded     \* ghost: contents a user saw and replaced or deleted

deviceVars == <<disk, baseline, sync, versions, superseded>>
allVars    == <<vars, deviceVars>>

Idle == [step |-> "idle"]

Drop(tree, p)      == [q \in DOMAIN tree \ {p} |-> tree[q]]
Keep(tree, p, meta) == [q \in DOMAIN tree \cup {p} |-> IF q = p THEN meta ELSE tree[q]]

-----------------------------------------------------------------------------
(***************************************************************************)
(* Users.                                                                  *)
(***************************************************************************)

\* The paths the running cycle of d is about to overwrite or remove.
Replacing(d) ==
    IF sync[d].step = "idle" THEN {}
    ELSE DownloadPaths(sync[d].plan) \cup sync[d].plan.delete_local

\* Losers of p that the baseline does not know.
DanglingLosers(d, p) ==
    {q \in DOMAIN disk[d] \ DOMAIN baseline[d].files : q.file = p.file /\ IsMarker(q)}

MayTouch(d, p) ==
    /\ EditMarkers \/ ~IsMarker(p)
    /\ EditReplaced \/ p \notin Replacing(d)
    /\ EditDangling \/ sync[d].step = "apply" \/ DanglingLosers(d, p) = {}

Seen(d, p) == IF p \in DOMAIN disk[d] THEN {disk[d][p].hash} ELSE {}

UserSave(d, p, mtime) ==
    /\ versions < MaxVersions
    /\ MayTouch(d, p)
    /\ versions' = versions + 1
    /\ disk' = [disk EXCEPT ![d] = Keep(@, p, [hash |-> versions + 1, mtime |-> mtime])]
    /\ superseded' = superseded \cup Seen(d, p)
    /\ UNCHANGED <<vars, baseline, sync>>

UserDelete(d, p) ==
    /\ p \in DOMAIN disk[d]
    /\ MayTouch(d, p)
    /\ disk' = [disk EXCEPT ![d] = Drop(@, p)]
    /\ superseded' = superseded \cup Seen(d, p)
    /\ UNCHANGED <<vars, baseline, sync, versions>>

-----------------------------------------------------------------------------
(***************************************************************************)
(* One cycle.                                                              *)
(***************************************************************************)

Report(d) == LocalChanges(baseline[d].files, disk[d])

\* What the device does with the plan it got.
Started(d, id, plan) ==
    [step    |-> "rename",
     session |-> id,
     plan    |-> plan,
     staged  |-> disk[d],
     todo    |-> {c \in plan.conflicts : c.winner = "server"}]

StartSync(d) ==
    /\ sync[d].step = "idle"
    /\ Plan(d, baseline[d].last_rev, Report(d))
    /\ sync' = [sync EXCEPT ![d] = Started(d, session_count', sessions'[session_count'].plan)]
    /\ UNCHANGED <<disk, baseline, versions, superseded>>

\* The plan is refused, or its reply is lost: the server has acted.
StartSyncInVain(d) ==
    /\ sync[d].step = "idle"
    /\ \/ PlanBusy(d)
       \/ PlanGone(d, baseline[d].last_rev)
       \/ Plan(d, baseline[d].last_rev, Report(d))
    /\ UNCHANGED deviceVars

\* rename_local, and the same move in the tree to be committed.
RenameLoser(d) ==
    /\ sync[d].step = "rename"
    /\ \E c \in sync[d].todo :
        /\ disk' = [disk EXCEPT ![d] =
                       IF c.path \in DOMAIN @ THEN Keep(Drop(@, c.path), c.loser_path, @[c.path])
                       ELSE @]
        /\ sync' = [sync EXCEPT
               ![d].todo = @ \ {c},
               ![d].staged = IF c.path \in DOMAIN @ THEN Keep(Drop(@, c.path), c.loser_path, @[c.path])
                             ELSE @]
    /\ UNCHANGED <<vars, baseline, versions, superseded>>

\* The bytes are read now and declared with the hash of the scan: a file
\* edited or removed in between is refused (422, read error).
Upload(d) ==
    /\ sync[d].step = "rename"
    /\ sync[d].todo = {}
    /\ OwnedBy(sync[d].session, d)
    /\ \E p \in MissingUploads(sync[d].session) :
        /\ p \in DOMAIN sync[d].staged
        /\ p \in DOMAIN disk[d]
        /\ disk[d][p].hash = sync[d].staged[p].hash
        /\ PutBlob(d, sync[d].session, p, sync[d].staged[p].hash, sync[d].staged[p].mtime)
    /\ UNCHANGED deviceVars

\* What is left to do after the commit, at the revision it answered.
ApplyingNextRev(cycle, rev) ==
    [step    |-> "apply",
     plan    |-> cycle.plan,
     next    |-> cycle.staged,
     todo    |-> cycle.plan.download,
     gone    |-> cycle.plan.delete_local,
     new_rev |-> rev + 1]

Applying(cycle, rev) ==
    [step    |-> "apply",
     plan    |-> cycle.plan,
     next    |-> cycle.staged,
     todo    |-> cycle.plan.download,
     gone    |-> cycle.plan.delete_local,
     new_rev |-> rev]

\* The upload loop is over and commit answers with the new revision.
CommitSync(d) ==
    /\ sync[d].step = "rename"
    /\ sync[d].todo = {}
    /\ Commit(d, sync[d].session)
    /\ sync' = [sync EXCEPT ![d] = Applying(@, head_rev')]
    /\ UNCHANGED <<disk, baseline, versions, superseded>>

\* The commit is refused half-way, or its reply is lost.
CommitInVain(d) ==
    /\ sync[d].step = "rename"
    /\ sync[d].todo = {}
    /\ \/ CommitFails(d, sync[d].session)
       \/ Commit(d, sync[d].session)
    /\ sync' = [sync EXCEPT ![d] = Idle]
    /\ UNCHANGED <<disk, baseline, versions, superseded>>

\* get_blob refuses unless the live row still has the planned hash, and fails
\* if the tree has no such file; the file written takes the clock's mtime, the baseline the server's.
ApplyDownload(d) ==
    /\ sync[d].step = "apply"
    /\ \E item \in sync[d].todo, mtime \in MTimes :
        /\ item.path \in LivePaths
        /\ file_index[item.path].hash = item.hash
        /\ item.path \in DOMAIN live
        /\ disk' = [disk EXCEPT ![d] =
               Keep(@, item.path, [hash |-> live[item.path], mtime |-> mtime])]
        /\ sync' = [sync EXCEPT
               ![d].todo = @ \ {item},
               ![d].next = Keep(@, item.path, [hash |-> live[item.path], mtime |-> item.mtime])]
    /\ UNCHANGED <<vars, baseline, versions, superseded>>

\* The deletions come after every download.
ApplyDelete(d) ==
    /\ sync[d].step = "apply"
    /\ sync[d].todo = {}
    /\ \E p \in sync[d].gone :
        /\ disk' = [disk EXCEPT ![d] = Drop(@, p)]
        /\ sync' = [sync EXCEPT ![d].gone = @ \ {p}, ![d].next = Drop(@, p)]
    /\ UNCHANGED <<vars, baseline, versions, superseded>>

\* A slip: the baseline is saved as soon as the commit has answered.
FinishEarly(d) ==
    /\ sync[d].step = "apply"
    /\ baseline' = [baseline EXCEPT ![d] =
           [last_rev |-> sync[d].new_rev, files |-> sync[d].next]]
    /\ sync' = [sync EXCEPT ![d] = Idle]
    /\ UNCHANGED <<vars, disk, versions, superseded>>

\* Only now does the app save the baseline of the report.
Finish(d) ==
    /\ sync[d].step = "apply"
    /\ sync[d].todo = {}
    /\ sync[d].gone = {}
    /\ baseline' = [baseline EXCEPT ![d] =
           [last_rev |-> sync[d].new_rev, files |-> sync[d].next]]
    /\ sync' = [sync EXCEPT ![d] = Idle]
    /\ UNCHANGED <<vars, disk, versions, superseded>>

\* An error or the end of the process, at any step.
Abort(d) ==
    /\ sync[d].step # "idle"
    /\ sync' = [sync EXCEPT ![d] = Idle]
    /\ UNCHANGED <<vars, disk, baseline, versions, superseded>>

\* The server's user revokes the device and it pairs again, under a new row
\* that the server knows nothing of; the app keeps the baseline it had
\* (pair_with_server only stores the new token).
PairAgain(d) ==
    /\ MayPairAgain
    /\ RevokeDevice(d)
    /\ sync' = [sync EXCEPT ![d] = Idle]
    /\ UNCHANGED <<disk, baseline, versions, superseded>>

-----------------------------------------------------------------------------
\* Users save and delete the files they gave; markers too when they may.
Touchable(d) == {UserPath(f) : f \in Files} \cup {p \in DOMAIN disk[d] : IsMarker(p)}

UserStep(d) ==
    \E p \in Touchable(d) : UserDelete(d, p) \/ \E mtime \in MTimes : UserSave(d, p, mtime)

CycleStep(d) ==
    \/ StartSync(d)
    \/ StartSyncInVain(d)
    \/ RenameLoser(d)
    \/ Upload(d)
    \/ CommitSync(d)
    \/ CommitInVain(d)
    \/ ApplyDownload(d)
    \/ ApplyDelete(d)
    \/ Finish(d)
    \/ Abort(d)
    \/ PairAgain(d)

SystemInit ==
    /\ Init
    /\ disk = [d \in Devices |-> << >>]
    /\ baseline = [d \in Devices |-> [last_rev |-> 0, files |-> << >>]]
    /\ sync = [d \in Devices |-> Idle]
    /\ versions = 0
    /\ superseded = {}

SystemNext == \E d \in Devices : UserStep(d) \/ CycleStep(d)

SystemSpec == SystemInit /\ [][SystemNext]_allVars

-----------------------------------------------------------------------------
(***************************************************************************)
(* Properties.                                                             *)
(***************************************************************************)

TreeTypeOK(tree) ==
    /\ IsFiniteSet(DOMAIN tree)
    /\ DOMAIN tree \subseteq Path
    /\ \A p \in DOMAIN tree : tree[p] \in Meta

\* Types of the devices' state.
SystemTypeOK ==
    /\ \A d \in Devices :
        /\ TreeTypeOK(disk[d])
        /\ baseline[d].last_rev \in 0 .. head_rev
        /\ TreeTypeOK(baseline[d].files)
        /\ sync[d].step \in {"idle", "rename", "apply"}
        /\ sync[d].step = "rename" => TreeTypeOK(sync[d].staged)
        /\ sync[d].step = "apply" => TreeTypeOK(sync[d].next)
    /\ versions \in 0 .. MaxVersions
    /\ superseded \subseteq 1 .. versions

ContentsIn(tree) == [p \in DOMAIN tree |-> tree[p].hash]

\* What the whole scheme rests on (docs/protocol.md section 2 and the comment
\* on SyncReport.baseline): the baseline a device keeps is exactly the
\* server's live tree at the revision it records.  If it were not, the next
\* diff against it would report edits nobody made or hide ones somebody did.
BaselineIsSnapshot ==
    \A d \in Devices : ContentsIn(baseline[d].files) = snapshots[baseline[d].last_rev]

ContentsOnDisks  == UNION {{disk[d][p].hash : p \in DOMAIN disk[d]} : d \in Devices}
ContentsOnServer == {live[p] : p \in DOMAIN live}

\* No automatic resolution loses data (docs/protocol.md section 6): every
\* content ever saved that no user has since replaced or deleted knowingly is
\* still a file of some device or of the server.
NoLostContent ==
    \A v \in 1 .. versions : v \in superseded \/ v \in ContentsOnDisks \cup ContentsOnServer

\* A plan reports a conflict only between contents written without knowledge
\* of each other: neither of the two had been replaced by someone who saw it.
\* "The application is idempotent on purpose" (client.rs sync_emulator): a
\* cycle that is taken up again must not turn its own first half into one.
ConflictsAreConcurrent ==
    [][\A s \in DOMAIN sessions' \ DOMAIN sessions :
        \A c \in sessions'[s].plan.conflicts :
            {sessions'[s].changes[c.path].hash, file_index[c.path].hash} \cap superseded = {}]_allVars
=============================================================================
