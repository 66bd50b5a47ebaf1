---------------------------- MODULE DeviceFolder ----------------------------
(* One device over time: the scan of crates/core/src/client.rs that trusts    *)
(* the modification time, a save folder that may be missing or be changed for *)
(* another, and a server that may be changed for another, each with the       *)
(* baseline as it was.  A cycle is one step here; its interleavings are       *)
(* SyncSystem's subject.  All files have one size, as memory cards do.        *)
EXTENDS SyncPlan
CONSTANTS Folders, Servers,
          MTimes,       \* clock readings, of this device and of others
          MaxRev,       \* bound: commits per server
          MaxVersions,  \* bound: contents ever written
          MayMove,      \* the user points the emulator at another folder
          MayUnmount,   \* the folder is missing for a while
          MayRehome,    \* the app is paired with another server
          MaySameStat   \* a save may get the mtime the baseline has for the file

ASSUME ContentsAssumption ==
    /\ Hashes = 1 .. MaxVersions /\ MaxVersions \in Nat
    /\ MTimes \subseteq Int

VARIABLES
    folders,    \* what each folder holds: path -> meta
    mounted,    \* folders that can be read
    source_path,
    server,     \* the paired server
    servers,    \* of each: head_rev, index, and this device's device_state
    baseline,   \* sync_state and sync_baseline
    versions,   \* contents written so far
    removed,    \* ghost: paths the user deleted from the source since the last cycle
    synced      \* ghost: nothing has happened since the last cycle

folderVars == <<folders, mounted, source_path, server, servers, baseline, versions, removed, synced>>

UserPaths == {UserPath(f) : f \in Files}
Keep(tree, p, meta) == [q \in DOMAIN tree \cup {p} |-> IF q = p THEN meta ELSE tree[q]]
Drop(tree, ps) == [q \in DOMAIN tree \ ps |-> tree[q]]
LiveOf(index) == {p \in DOMAIN index : ~index[p].deleted}
Contents(tree) == [p \in DOMAIN tree |-> tree[p].hash]
Tree(index) == [p \in LiveOf(index) |-> index[p].hash]

FolderInit ==
    /\ folders = [f \in Folders |-> << >>] /\ mounted = Folders
    /\ source_path \in Folders /\ server \in Servers
    /\ servers = [s \in Servers |-> [head |-> 0, index |-> << >>, mine |-> 0]]
    /\ baseline = [last_rev |-> 0, files |-> << >>]
    /\ versions = 0 /\ removed = {} /\ synced = FALSE

(* ---- the user and the other devices ---- *)
Touch == synced' = FALSE
SameStat(p, m) == p \in DOMAIN baseline.files /\ baseline.files[p].mtime = m

UserSave(f, p, m) ==
    /\ f \in mounted /\ versions < MaxVersions
    /\ MaySameStat \/ ~SameStat(p, m)
    /\ versions' = versions + 1 /\ Touch
    /\ folders' = [folders EXCEPT ![f] = Keep(@, p, [hash |-> versions + 1, mtime |-> m])]
    /\ UNCHANGED <<mounted, source_path, server, servers, baseline, removed>>

UserDelete(p) ==
    /\ source_path \in mounted /\ p \in DOMAIN folders[source_path]
    /\ folders' = [folders EXCEPT ![source_path] = Drop(@, {p})]
    /\ removed' = removed \cup {p} /\ Touch
    /\ UNCHANGED <<mounted, source_path, server, servers, baseline, versions>>

\* Another device's cycle, one path of it.
OtherPut(s, p, m) ==
    /\ versions < MaxVersions /\ servers[s].head < MaxRev
    /\ versions' = versions + 1 /\ Touch
    /\ servers' = [servers EXCEPT ![s].head = @ + 1,
                       ![s].index = Keep(@, p, LiveEntry(servers[s].head + 1, versions + 1, m))]
    /\ UNCHANGED <<folders, mounted, source_path, server, baseline, removed>>

OtherDelete(s, p) ==
    /\ servers[s].head < MaxRev /\ p \in LiveOf(servers[s].index)
    /\ servers' = [servers EXCEPT ![s].head = @ + 1,
                       ![s].index = Keep(@, p, Tombstone(servers[s].head + 1))]
    /\ Touch
    /\ UNCHANGED <<folders, mounted, source_path, server, baseline, versions, removed>>

\* A memory card or a network drive comes and goes.
MountOrUnmount(f) ==
    /\ MayUnmount
    /\ mounted' = IF f \in mounted THEN mounted \ {f} ELSE mounted \cup {f}
    /\ Touch
    /\ UNCHANGED <<folders, source_path, server, servers, baseline, versions, removed>>

\* set_paths resets the flag of the rclone engine; the baseline stays.
SetSource(f) ==
    /\ MayMove /\ f # source_path
    /\ source_path' = f /\ removed' = {} /\ Touch
    /\ UNCHANGED <<folders, mounted, server, servers, baseline, versions>>

\* unpair_server, and pair_with_server elsewhere: only address and token change.
Rehome(s) ==
    /\ MayRehome /\ s # server
    /\ server' = s /\ servers' = [servers EXCEPT ![s].mine = 0] /\ Touch
    /\ UNCHANGED <<folders, mounted, source_path, baseline, versions, removed>>

(* ---- the cycle ---- *)
\* A slip: the size alone decides whether a file is read again.
ScanBySize(tree, known) ==
    [p \in DOMAIN tree |->
        IF p \in DOMAIN known THEN [tree[p] EXCEPT !.hash = known[p].hash] ELSE tree[p]]

\* A slip: preserved losers are left out of the scan.
ScanWithoutLosers(tree, known) ==
    [p \in {q \in DOMAIN tree : ~IsMarker(q)} |->
        IF p \in DOMAIN known /\ known[p].mtime = tree[p].mtime
        THEN [tree[p] EXCEPT !.hash = known[p].hash] ELSE tree[p]]

\* scan_tree: a file whose size and mtime are the baseline's is not read.
Scan(tree, known) ==
    [p \in DOMAIN tree |->
        IF p \in DOMAIN known /\ known[p].mtime = tree[p].mtime
        THEN [tree[p] EXCEPT !.hash = known[p].hash] ELSE tree[p]]

\* A folder that is not there has nothing to scan.
OnDisk == IF source_path \in mounted THEN folders[source_path] ELSE << >>
Scanned == Scan(OnDisk, baseline.files)

ChangesSince(index, rev) ==
    [p \in {q \in DOMAIN index : index[q].rev > rev} |-> index[p]]
Least(a, b) == IF a < b THEN a ELSE b

PlanOf(s) ==
    ComputePlan(LocalChanges(baseline.files, Scanned),
                ChangesSince(s.index, Least(baseline.last_rev, s.mine)), LiveOf(s.index))

Losers(plan) == {c \in plan.conflicts : c.winner = "server"}

\* rename_local of the losers the device holds.
Renamed(tree, plan) ==
    LET from(q) == CHOOSE c \in Losers(plan) : c.loser_path = q
        kept == DOMAIN tree \ {c.path : c \in Losers(plan)}
        losers == {c.loser_path : c \in {x \in Losers(plan) : x.path \in DOMAIN tree}}
    IN  [q \in kept \cup losers |-> IF q \in losers THEN tree[from(q).path] ELSE tree[q]]

Item(plan, p) == CHOOSE i \in plan.download : i.path = p

\* Downloads as the plan dates them, and as files written `now`.
Received(plan) ==
    [p \in DownloadPaths(plan) |-> [hash |-> Item(plan, p).hash, mtime |-> Item(plan, p).mtime]]
WrittenAt(now, got) == [p \in DOMAIN got |-> [got[p] EXCEPT !.mtime = now]]

\* Downloads, then deletions.
Applied(tree, got, gone) ==
    [p \in (DOMAIN tree \cup DOMAIN got) \ gone |->
        IF p \in DOMAIN got THEN got[p] ELSE tree[p]]

\* The rows a commit writes: renamed losers, uploads, tombstones.
Committed(index, plan, staged, rev) ==
    LET old(p) == index[(CHOOSE r \in plan.server_rename : r.to = p).from]
    IN  [p \in DOMAIN index \cup RenameTargets(plan) \cup UploadPaths(plan) |->
            IF p \in plan.server_delete THEN Tombstone(rev)
            ELSE IF p \in UploadPaths(plan) THEN LiveEntry(rev, staged[p].hash, staged[p].mtime)
            ELSE IF p \in RenameTargets(plan) THEN LiveEntry(rev, old(p).hash, old(p).mtime)
            ELSE index[p]]

NewFiles(staged, plan) == Applied(staged, Received(plan), plan.delete_local)

\* sync_via_server.  The bytes are read at the upload: a hash that is not
\* theirs ends the cycle (422).  A cycle that would write to a missing folder is
\* left out: where the bytes go depends on what is mounted there.
Cycle(now) ==
    LET s == servers[server]
        plan == PlanOf(s)
        staged == Renamed(Scanned, plan)
        bytes == Renamed(OnDisk, plan)
        rev == s.head + 1
    IN  /\ s.head < MaxRev
        /\ \A p \in UploadPaths(plan) : p \in DOMAIN staged /\ staged[p].hash = bytes[p].hash
        /\ servers' = [servers EXCEPT ![server] =
               [head |-> rev, index |-> Committed(s.index, plan, staged, rev), mine |-> rev]]
        /\ source_path \in mounted \/ plan.download = {}
        /\ folders' = IF source_path \in mounted
                      THEN [folders EXCEPT ![source_path] =
                               Applied(bytes, WrittenAt(now, Received(plan)), plan.delete_local)]
                      ELSE folders
        /\ baseline' = [last_rev |-> rev, files |-> NewFiles(staged, plan)]
        /\ removed' = {} /\ synced' = TRUE
        /\ UNCHANGED <<mounted, source_path, server, versions>>

FolderNext ==
    \/ \E f \in Folders, p \in UserPaths, m \in MTimes : UserSave(f, p, m)
    \/ \E p \in UserPaths : UserDelete(p)
    \/ \E s \in Servers, p \in UserPaths, m \in MTimes : OtherPut(s, p, m)
    \/ \E s \in Servers, p \in UserPaths : OtherDelete(s, p)
    \/ \E f \in Folders : MountOrUnmount(f) \/ SetSource(f)
    \/ \E s \in Servers : Rehome(s)
    \/ \E now \in MTimes : Cycle(now)

FolderSpec == FolderInit /\ [][FolderNext]_folderVars

-----------------------------------------------------------------------------
TreeTypeOK(tree) == DOMAIN tree \subseteq Path /\ \A p \in DOMAIN tree : tree[p] \in Meta

\* The shape of the state; the device's record on a server never runs ahead of
\* that server's head, and the baseline of a device that never synced is empty.
FolderTypeOK ==
    /\ \A f \in Folders : TreeTypeOK(folders[f])
    /\ mounted \subseteq Folders /\ source_path \in Folders /\ server \in Servers
    /\ \A s \in Servers : /\ servers[s].mine <= servers[s].head
                          /\ \A p \in DOMAIN servers[s].index :
                                /\ p \in Path /\ servers[s].index[p] \in Entry
                                /\ servers[s].index[p].rev <= servers[s].head
                                /\ servers[s].index[p].deleted <=> servers[s].index[p].hash = NoHash
    /\ TreeTypeOK(baseline.files)
    /\ baseline.last_rev = 0 => baseline.files = << >>
    /\ versions \in 0 .. MaxVersions /\ synced \in BOOLEAN

\* Right after a cycle the folder and the server hold the same saves, under the
\* same names: the scan, the diff against the baseline, the plan and what was
\* applied left nothing out (sync_emulator, scan_tree's reuse of hashes).
SyncedMeansEqual == synced => Contents(OnDisk) = Tree(servers[server].index)

IsCycle == \E now \in MTimes : Cycle(now)

BuriesRemoved ==
    IsCycle => LiveOf(servers[server].index) \ LiveOf(servers'[server].index) \subseteq removed

\* A cycle of this device buries on the server only what its user deleted
\* (local_changes, compute_plan's deletions).
OnlyUsersDelete == [][BuriesRemoved]_folderVars

=============================================================================
