----------------------------- MODULE ContentProofs -----------------------------
(***************************************************************************)
(* No content is lost, for any number of devices, files, contents and      *)
(* commits, as long as users keep the three habits of SyncSystem.          *)
(*                                                                         *)
(* A cycle may stop anywhere and another may start from what it left, so   *)
(* the invariant says of each stage what the disk, the tree to be          *)
(* committed, the baseline and the server owe to each other, and of an     *)
(* idle device what any stage may have left (DeviceInv).  Everything it    *)
(* says of the server is either about an open session or can only become   *)
(* truer (Grows), so that what one device does never breaks what is said   *)
(* of another.                                                             *)
(***************************************************************************)
EXTENDS SystemProofs

\* Users leave losers alone, and files that a cycle is about to replace or
\* has just put aside.
Careful == ~ EditMarkers /\ ~ EditReplaced /\ ~ EditDangling

-----------------------------------------------------------------------------
(***************************************************************************)
(* The inductive invariant.                                                *)
(***************************************************************************)

\* The file of p is the one `files` says.
Same(tree, files, p) == p \in DOMAIN tree /\ tree[p].hash = files[p].hash

\* The server has had the present content of p since revision r at least.
OnServerSince(p, r) == p \in LivePaths /\ file_index[p].rev <= r

\* Contents that are on the server, or that users replaced knowingly.
Kept(seen) == seen \cup ContentsOnServer

\* A preserved loser is never deleted, and what it is a loser of is either a
\* user file or such a loser itself.
MarkersStay ==
    /\ \A p \in DOMAIN file_index : IsMarker(p) => ~ file_index[p].deleted
    /\ \A r \in 0 .. head_rev : \A p \in DOMAIN snapshots[r] : IsMarker(p) => p \in LivePaths
    /\ \A p \in LivePaths : IsMarker(p) /\ IsMarker(Parent(p)) => Parent(p) \in LivePaths

SnapshotsShaped ==
    \A r \in 0 .. head_rev : snapshots[r] = [p \in DOMAIN snapshots[r] |-> snapshots[r][p]]

SnapshotsKept(seen) ==
    \A r \in 0 .. head_rev : \A p \in DOMAIN snapshots[r] : snapshots[r][p] \in Kept(seen)

\* A loser on a disk that no commit holds yet is there instead of its winner.
LosersAlone(tree) ==
    \A q \in DOMAIN tree : IsMarker(q) =>
        /\ IsMarker(Parent(q)) => Parent(q) \in LivePaths
        /\ q \in LivePaths \/ Parent(q) \notin DOMAIN tree

\* A file that is not as `files` says has changed on the server since `rev`,
\* or a user touched it.
Told(tree, files, rev, seen) ==
    \A p \in DOMAIN files :
        \/ Same(tree, files, p)
        \/ ~ OnServerSince(p, rev)
        \/ ~ IsMarker(p) /\ files[p].hash \in seen

\* Between two cycles, whatever interrupted the last one.
DeviceInv(tree, base, seen) ==
    /\ LosersAlone(tree)
    /\ Told(tree, base.files, base.last_rev, seen)
    /\ ContentsIn(base.files) = snapshots[base.last_rev]

\* Paths a cycle overwrites or removes, and those it has yet to rename.
Replaced(plan)   == DownloadPaths(plan) \cup plan.delete_local
TodoPaths(cycle) == {c.path : c \in cycle.todo}

\* A loser still to be renamed.
ToRename(c, cycle, tree, base) ==
    /\ c.winner = "server"
    /\ c.path \in DOMAIN cycle.staged /\ Same(tree, cycle.staged, c.path)
    /\ c.path \in DOMAIN base.files => ~ Same(tree, base.files, c.path)
    /\ c.path \in Replaced(cycle.plan) /\ (IsMarker(c.path) => c.path \in LivePaths)
    /\ c.loser_path \notin Replaced(cycle.plan)
    /\ IsMarker(c.loser_path) /\ Parent(c.loser_path) = c.path
    /\ c.loser_path \notin DOMAIN tree \cup DOMAIN cycle.staged
    /\ \A q \in DOMAIN tree : IsMarker(q) => Parent(q) # c.loser_path
    /\ \A e \in cycle.todo : e.path = c.path => e = c

\* Before the commit: the tree to be committed is the disk, but for what
\* users touched, and what the plan will replace is safe or yet to be renamed.
RenameStage(cycle, tree, base, seen) ==
    /\ \A c \in cycle.todo : ToRename(c, cycle, tree, base)
    /\ \A q \in DOMAIN tree : IsMarker(q) => q \in DOMAIN cycle.staged
    /\ \A p \in DOMAIN cycle.staged :
        \/ Same(tree, cycle.staged, p)
        \/ ~ IsMarker(p) /\ cycle.staged[p].hash \in seen
    /\ \A p \in (Replaced(cycle.plan) \cap DOMAIN tree) \ TodoPaths(cycle) :
        tree[p].hash \in Kept(seen)
    /\ \A q \in DOMAIN cycle.staged :
        IsMarker(q) /\ IsMarker(Parent(q)) => Parent(q) \in LivePaths

\* The losers a cycle has renamed.
Done(cycle)      == {c \in cycle.plan.conflicts : c.winner = "server" /\ c \notin cycle.todo}
DonePaths(cycle) == {c.path : c \in Done(cycle)}
DoneLosers(cycle) == {c.loser_path : c \in Done(cycle)}

\* While the cycle owns its session: the tree to be committed is what was
\* reported, on top of the baseline.
OwnedStage(session, cycle, base, seen) ==
    LET local == session.changes
    IN  /\ session.since <= base.last_rev
        /\ ~ BeforeFloor(base.last_rev)
        /\ \A c \in cycle.plan.conflicts :
               c.loser_path \notin DOMAIN local \cup DOMAIN base.files \cup LivePaths
        /\ \A p \in DOMAIN local \cap DOMAIN base.files :
               OnServerSince(p, base.last_rev) => ~ IsMarker(p) /\ base.files[p].hash \in seen
        /\ DOMAIN local \subseteq DOMAIN base.files \cup Puts(local)
        /\ DOMAIN cycle.staged = (Puts(local) \ DonePaths(cycle))
                                     \cup (DOMAIN base.files \ DOMAIN local) \cup DoneLosers(cycle)
        /\ \A p \in Puts(local) \ DonePaths(cycle) : cycle.staged[p].hash = local[p].hash
        /\ \A p \in DOMAIN base.files \ DOMAIN local : cycle.staged[p].hash = base.files[p].hash
        /\ \A p \in DOMAIN session.blobs :
               /\ cycle.todo = {} /\ p \in DOMAIN cycle.staged
               /\ session.blobs[p].hash = cycle.staged[p].hash

\* Files still to be downloaded or removed.
LeftPaths(cycle) == {i.path : i \in cycle.todo} \cup cycle.gone

\* After the commit: the next baseline is the snapshot of the commit, but for
\* what is left to do, and so is the disk, but for what has happened since.
ApplyStage(cycle, tree, last, seen) ==
    LET then == snapshots[cycle.new_rev]
    IN  /\ last <= cycle.new_rev
        /\ LeftPaths(cycle) \subseteq Replaced(cycle.plan)
        /\ \A i \in cycle.todo : i.path \in DOMAIN then /\ then[i.path] = i.hash
        /\ \A p \in cycle.gone : p \notin DOMAIN then
        /\ \A p \in (DOMAIN then \cup DOMAIN cycle.next) \ LeftPaths(cycle) :
               p \in DOMAIN then /\ p \in DOMAIN cycle.next /\ cycle.next[p].hash = then[p]
        /\ \A q \in DOMAIN tree : IsMarker(q) => q \in LivePaths
        /\ \A p \in LeftPaths(cycle) \cap DOMAIN tree : tree[p].hash \in Kept(seen)
        /\ \A p \in DOMAIN cycle.next \ LeftPaths(cycle) :
            \/ Same(tree, cycle.next, p)
            \/ ~ OnServerSince(p, cycle.new_rev)
            \/ ~ IsMarker(p) /\ cycle.next[p].hash \in seen

CycleInv(d, cycle, tree, base, seen) ==
    /\ cycle.step = "rename" => RenameStage(cycle, tree, base, seen)
    /\ cycle.step = "rename" /\ OwnedBy(cycle.session, d) =>
           OwnedStage(sessions[cycle.session], cycle, base, seen)
    /\ cycle.step = "apply" => ApplyStage(cycle, tree, base.last_rev, seen)

\* No path is twice in the lists of an open session.
PlansDisjoint ==
    /\ ListsDisjoint
    /\ \A s \in DOMAIN sessions : RepeatedUploads(sessions[s].plan) = {}

ServerKeeps ==
    /\ NoMissedChange
    /\ IndexMatchesLive
    /\ MarkersStay
    /\ SnapshotsShaped
    /\ SnapshotsKept(superseded)

ContentInv ==
    /\ SystemOK
    /\ ServerKeeps
    /\ PlansDisjoint
    /\ NoLostContent
    /\ \A d \in Devices :
        /\ DeviceInv(disk[d], baseline[d], superseded)
        /\ CycleInv(d, sync[d], disk[d], baseline[d], superseded)

-----------------------------------------------------------------------------
(***************************************************************************)
(* What can only become truer.                                             *)
(***************************************************************************)

Grows ==
    /\ superseded \subseteq superseded'
    /\ head_rev \in Nat /\ head_rev' \in Nat /\ head_rev <= head_rev'
    /\ \A r \in 0 .. head_rev : snapshots'[r] = snapshots[r]
    /\ \A p \in LivePaths : IsMarker(p) => p \in LivePaths'
    /\ ContentsOnServer \subseteq superseded' \cup ContentsOnServer'
    /\ \A r \in 0 .. head_rev : \A p : OnServerSince(p, r)' => OnServerSince(p, r)

\* What is kept stays kept.
LEMMA KeptGrows ==
    ASSUME Grows
    PROVE  Kept(superseded) \subseteq Kept(superseded)'
BY DEF Grows, Kept

\* A device that does nothing owes what it owed.
LEMMA DeviceGrows ==
    ASSUME Grows, NEW tree, NEW base, base.last_rev \in 0 .. head_rev,
           DeviceInv(tree, base, superseded)
    PROVE  DeviceInv(tree, base, superseded)'
<1>1. LosersAlone(tree)'
  BY DEF Grows, DeviceInv, LosersAlone
<1>2. Told(tree, base.files, base.last_rev, superseded)'
  <2>1. \A p : OnServerSince(p, base.last_rev)' => OnServerSince(p, base.last_rev)
    BY DEF Grows
  <2>2. \A p : Same(tree, base.files, p)' <=> Same(tree, base.files, p)
    BY DEF Same
  <2> QED BY <2>1, <2>2 DEF Grows, DeviceInv, Told
<1>3. snapshots'[base.last_rev] = snapshots[base.last_rev]
  BY DEF Grows
<1> QED BY <1>1, <1>2, <1>3 DEF DeviceInv

\* The session s of d, if it is still open, is the one it was.
SessionLeft(s, d) ==
    s \in DOMAIN sessions' /\ sessions'[s].device = d =>
        /\ s \in DOMAIN sessions /\ sessions'[s] = sessions[s]
        /\ UNCHANGED <<file_index, min_valid_rev>>

\* Nor does a cycle that does not move, if its session is left alone.
LEMMA CycleGrows ==
    ASSUME Grows, NEW d, NEW cycle, NEW tree, NEW base, base.last_rev \in 0 .. head_rev,
           cycle.step = "apply" => cycle.new_rev \in 0 .. head_rev,
           CycleInv(d, cycle, tree, base, superseded),
           cycle.step = "rename" => SessionLeft(cycle.session, d)
    PROVE  CycleInv(d, cycle, tree, base, superseded)'
<1>1. ASSUME cycle.step = "rename"
      PROVE  RenameStage(cycle, tree, base, superseded)'
  <2>1. RenameStage(cycle, tree, base, superseded)
    BY <1>1 DEF CycleInv
  <2>2. \A p : p \in Kept(superseded) => p \in Kept(superseded)'
    BY KeptGrows
  <2>3. \A c \in cycle.todo : ToRename(c, cycle, tree, base)'
    BY <2>1 DEF Grows, RenameStage, ToRename, Same
  <2> QED BY <2>1, <2>2, <2>3 DEF Grows, RenameStage, Same
<1>2. ASSUME cycle.step = "rename", OwnedBy(cycle.session, d)'
      PROVE  OwnedStage(sessions[cycle.session], cycle, base, superseded)'
  <2>1. /\ OwnedStage(sessions[cycle.session], cycle, base, superseded)
        /\ sessions'[cycle.session] = sessions[cycle.session]
    BY <1>2 DEF CycleInv, SessionLeft, OwnedBy
  <2>2. UNCHANGED <<file_index, min_valid_rev>>
    BY <1>2 DEF SessionLeft, OwnedBy
  <2> QED BY <2>1, <2>2 DEF OwnedStage, Grows, BeforeFloor, LivePaths, OnServerSince
<1>3. ASSUME cycle.step = "apply"
      PROVE  ApplyStage(cycle, tree, base.last_rev, superseded)'
  <2>1. ApplyStage(cycle, tree, base.last_rev, superseded)
    BY <1>3 DEF CycleInv
  <2>2. snapshots'[cycle.new_rev] = snapshots[cycle.new_rev]
    BY <1>3 DEF Grows
  <2>3. \A p : p \in Kept(superseded) => p \in Kept(superseded)'
    BY KeptGrows
  <2>4. \A p : OnServerSince(p, cycle.new_rev)' => OnServerSince(p, cycle.new_rev)
    BY <1>3 DEF Grows
  <2> QED BY <2>1, <2>2, <2>3, <2>4 DEF ApplyStage, Grows, Same
<1> QED BY <1>1, <1>2, <1>3 DEF CycleInv

\* The devices that do not take the step.
LEMMA OthersHold ==
    ASSUME ContentInv, Grows, NEW e \in Devices,
           UNCHANGED <<disk[e], baseline[e], sync[e]>>,
           sync[e].step = "rename" => SessionLeft(sync[e].session, e)
    PROVE  /\ DeviceInv(disk[e], baseline[e], superseded)'
           /\ CycleInv(e, sync[e], disk[e], baseline[e], superseded)'
<1>1. baseline'[e].last_rev \in 0 .. head_rev
  BY DEF ContentInv, SystemOK, BaselineOK
<1>2. sync'[e].step = "apply" => sync'[e].new_rev \in 0 .. head_rev
  <2>1. sync'[e] = sync[e]
    OBVIOUS
  <2> QED BY <2>1, ApplyStep DEF ContentInv, ApplyingOK
<1>3. /\ DeviceInv(disk'[e], baseline'[e], superseded)
      /\ CycleInv(e, sync'[e], disk'[e], baseline'[e], superseded)
  BY DEF ContentInv
<1>4. sync'[e].step = "rename" => SessionLeft(sync'[e].session, e)
  <2>1. sync'[e] = sync[e]
    OBVIOUS
  <2> QED BY <2>1
<1>5. DeviceInv(disk[e], baseline[e], superseded)'
  BY <1>1, <1>3, DeviceGrows
<1>6. CycleInv(e, sync[e], disk[e], baseline[e], superseded)'
  BY <1>1, <1>2, <1>3, <1>4, CycleGrows
<1> QED BY <1>5, <1>6

-----------------------------------------------------------------------------
(***************************************************************************)
(* Steps of a device alone.                                                *)
(***************************************************************************)

\* The server says what it said.
LEMMA ServerSays ==
    ASSUME UNCHANGED vars
    PROVE  /\ UNCHANGED <<LivePaths, ContentsOnServer>>
           /\ \A seen : Kept(seen)' = Kept(seen)
           /\ \A p, r : OnServerSince(p, r)' <=> OnServerSince(p, r)
BY DEF vars, LivePaths, ContentsOnServer, Kept, OnServerSince

\* So what is said of a device holds after the step if it holds before.
LEMMA DeviceSays ==
    ASSUME UNCHANGED vars, NEW tree, NEW base, NEW seen, DeviceInv(tree, base, seen)
    PROVE  DeviceInv(tree, base, seen)'
BY ServerSays DEF vars, DeviceInv, LosersAlone, Told, Same

\* And of a cycle.
LEMMA CycleSays ==
    ASSUME UNCHANGED vars, NEW d, NEW cycle, NEW tree, NEW base, NEW seen,
           CycleInv(d, cycle, tree, base, seen)
    PROVE  CycleInv(d, cycle, tree, base, seen)'
<1>1. RenameStage(cycle, tree, base, seen) => RenameStage(cycle, tree, base, seen)'
  BY ServerSays DEF RenameStage, ToRename, Same
<1>2. OwnedStage(sessions[cycle.session], cycle, base, seen)
          => OwnedStage(sessions[cycle.session], cycle, base, seen)'
  BY ServerSays DEF vars, OwnedStage, BeforeFloor
<1>3. ApplyStage(cycle, tree, base.last_rev, seen) => ApplyStage(cycle, tree, base.last_rev, seen)'
  BY ServerSays DEF vars, ApplyStage, Same
<1>4. OwnedBy(cycle.session, d)' <=> OwnedBy(cycle.session, d)
  BY DEF vars, OwnedBy
<1> QED BY <1>1, <1>2, <1>3, <1>4 DEF CycleInv

\* A content is lost only if the device that takes the step loses it.
LEMMA ContentsMove ==
    ASSUME NoLostContent, NEW d \in Devices, \A e \in Devices \ {d} : disk'[e] = disk[e],
           superseded \subseteq superseded',
           ContentsOnServer \subseteq superseded' \cup ContentsOnServer',
           \A p \in DOMAIN disk[d] : disk[d][p].hash \in
               superseded' \cup ContentsOnServer' \cup {disk'[d][q].hash : q \in DOMAIN disk'[d]},
           \A v \in 1 .. versions' :
               v \in 1 .. versions \/ \E q \in DOMAIN disk'[d] : disk'[d][q].hash = v
    PROVE  NoLostContent'
<1>1. {disk'[d][q].hash : q \in DOMAIN disk'[d]} \subseteq ContentsOnDisks'
  BY DEF ContentsOnDisks
<1>2. ContentsOnDisks \subseteq superseded' \cup ContentsOnServer' \cup ContentsOnDisks'
  <2>1. SUFFICES ASSUME NEW e \in Devices, NEW p \in DOMAIN disk[e]
                 PROVE  disk[e][p].hash \in superseded' \cup ContentsOnServer' \cup ContentsOnDisks'
    BY DEF ContentsOnDisks
  <2>2. CASE e = d
    BY <1>1, <2>2
  <2>3. CASE e # d
    BY <2>3 DEF ContentsOnDisks
  <2> QED BY <2>2, <2>3
<1> QED BY <1>1, <1>2 DEF NoLostContent

\* What is left to show of a step of one device that the server does not see.
LEMMA DeviceStep ==
    ASSUME ContentInv, SystemOK', NoLostContent', UNCHANGED vars, superseded \subseteq superseded',
           NEW d \in Devices,
           \A e \in Devices \ {d} : UNCHANGED <<disk[e], baseline[e], sync[e]>>,
           DeviceInv(disk'[d], baseline'[d], superseded'),
           CycleInv(d, sync'[d], disk'[d], baseline'[d], superseded')
    PROVE  ContentInv'
<1>1. head_rev \in Nat
  BY Counters DEF ContentInv
<1>2. Grows
  BY <1>1, ServerSays DEF vars, Grows
<1>3. \A e \in Devices \ {d} :
          /\ DeviceInv(disk[e], baseline[e], superseded)'
          /\ CycleInv(e, sync[e], disk[e], baseline[e], superseded)'
  <2>1. \A e \in Devices : SessionLeft(sync[e].session, e)
    BY DEF vars, SessionLeft
  <2> QED BY <1>2, <2>1, OthersHold
<1>4. DeviceInv(disk[d], baseline[d], superseded)'
  BY DeviceSays
<1>5. CycleInv(d, sync[d], disk[d], baseline[d], superseded)'
  BY CycleSays
<1>6. ServerKeeps'
  <2>1. NoMissedChange'
    BY IndexStays DEF ContentInv, ServerKeeps, vars
  <2>2. IndexMatchesLive' /\ MarkersStay' /\ SnapshotsShaped'
    BY ServerSays DEF vars, ContentInv, ServerKeeps, IndexMatchesLive, MarkersStay, SnapshotsShaped
  <2>3. SnapshotsKept(superseded)'
    BY <1>2, KeptGrows DEF vars, ContentInv, ServerKeeps, SnapshotsKept
  <2> QED BY <2>1, <2>2, <2>3 DEF ServerKeeps
<1>7. PlansDisjoint'
  BY DEF ContentInv, PlansDisjoint, ListsDisjoint, vars
<1> QED BY <1>3, <1>4, <1>5, <1>6, <1>7 DEF ContentInv

-----------------------------------------------------------------------------
(***************************************************************************)
(* Users.                                                                  *)
(***************************************************************************)

\* A tree in which only the file of p was touched.
Touched(old, tree, p) ==
    /\ DOMAIN tree \subseteq DOMAIN old \cup {p}
    /\ DOMAIN old \subseteq DOMAIN tree \cup {p}
    /\ \A q \in DOMAIN tree \ {p} : tree[q] = old[q]

\* An edit by hand of a file no loser on the disk is waiting beside.
LEMMA TouchedDevice ==
    ASSUME NEW old, NEW tree, NEW p, ~ IsMarker(p), Touched(old, tree, p),
           NEW base, NEW seen, NEW more, seen \subseteq more,
           p \in DOMAIN old => old[p].hash \in more,
           \A q \in DOMAIN old : IsMarker(q) /\ Parent(q) = p => q \in LivePaths,
           DeviceInv(old, base, seen)
    PROVE  DeviceInv(tree, base, more)
<1>1. LosersAlone(tree)
  <2>1. SUFFICES ASSUME NEW q \in DOMAIN tree, IsMarker(q)
                 PROVE  /\ IsMarker(Parent(q)) => Parent(q) \in LivePaths
                        /\ q \in LivePaths \/ Parent(q) \notin DOMAIN tree
    BY DEF LosersAlone
  <2>2. q # p /\ q \in DOMAIN old
    BY <2>1 DEF Touched
  <2>3. /\ IsMarker(Parent(q)) => Parent(q) \in LivePaths
        /\ q \in LivePaths \/ Parent(q) \notin DOMAIN old
    BY <2>1, <2>2 DEF DeviceInv, LosersAlone
  <2>4. Parent(q) \in DOMAIN tree => Parent(q) \in DOMAIN old \/ Parent(q) = p
    BY DEF Touched
  <2> QED BY <2>1, <2>2, <2>3, <2>4
<1>2. Told(tree, base.files, base.last_rev, more)
  <2>1. SUFFICES ASSUME NEW f \in DOMAIN base.files
                 PROVE  \/ Same(tree, base.files, f)
                        \/ ~ OnServerSince(f, base.last_rev)
                        \/ ~ IsMarker(f) /\ base.files[f].hash \in more
    BY DEF Told
  <2>2. \/ Same(old, base.files, f)
        \/ ~ OnServerSince(f, base.last_rev)
        \/ ~ IsMarker(f) /\ base.files[f].hash \in seen
    BY DEF DeviceInv, Told
  <2>3. Same(old, base.files, f) /\ f # p => Same(tree, base.files, f)
    BY DEF Same, Touched
  <2>4. Same(old, base.files, p) => base.files[p].hash \in more
    BY DEF Same
  <2> QED BY <2>2, <2>3, <2>4
<1> QED BY <1>1, <1>2 DEF DeviceInv

\* An edit by hand of a file the running cycle leaves alone.
LEMMA TouchedCycle ==
    ASSUME NEW old, NEW tree, NEW p, ~ IsMarker(p), Touched(old, tree, p),
           NEW d, NEW cycle, p \notin Replaced(cycle.plan),
           NEW base, NEW seen, NEW more, seen \subseteq more,
           p \in DOMAIN old => old[p].hash \in more,
           CycleInv(d, cycle, old, base, seen)
    PROVE  CycleInv(d, cycle, tree, base, more)
<1>1. \A q \in DOMAIN tree : IsMarker(q) => q \in DOMAIN old
  BY DEF Touched
<1>2. \A h : h \in Kept(seen) => h \in Kept(more)
  BY DEF Kept
<1>3. \A q \in DOMAIN tree : q # p => q \in DOMAIN old /\ tree[q] = old[q]
  BY DEF Touched
<1>4. \A files, f : Same(old, files, f) => Same(tree, files, f) \/ f = p
  BY DEF Same, Touched
<1>5. \A files : Same(old, files, p) => files[p].hash \in more
  BY DEF Same
<1>6. ASSUME cycle.step = "rename"
      PROVE  RenameStage(cycle, tree, base, more)
  <2>1. RenameStage(cycle, old, base, seen)
    BY <1>6 DEF CycleInv
  <2>2. ASSUME NEW c \in cycle.todo
        PROVE  ToRename(c, cycle, tree, base)
    <3>1. ToRename(c, cycle, old, base)
      BY <2>1 DEF RenameStage
    <3>2. c.path # p /\ c.loser_path # p
      BY <3>1 DEF ToRename
    <3>3. c.path \in DOMAIN tree => tree[c.path] = old[c.path] /\ c.path \in DOMAIN old
      BY <3>2 DEF Touched
    <3>4. c.loser_path \notin DOMAIN tree
      BY <3>1, <3>2 DEF ToRename, Touched
    <3>5. Same(tree, cycle.staged, c.path)
      BY <1>4, <3>1, <3>2 DEF ToRename
    <3>6. c.path \in DOMAIN base.files => ~ Same(tree, base.files, c.path)
      BY <3>1, <3>3 DEF ToRename, Same
    <3> QED BY <1>1, <3>1, <3>4, <3>5, <3>6 DEF ToRename
  <2>3. \A q \in DOMAIN tree : IsMarker(q) => q \in DOMAIN cycle.staged
    BY <1>1, <2>1 DEF RenameStage
  <2>4. \A f \in DOMAIN cycle.staged :
            \/ Same(tree, cycle.staged, f)
            \/ ~ IsMarker(f) /\ cycle.staged[f].hash \in more
    BY <1>4, <1>5, <2>1 DEF RenameStage
  <2>5. \A f \in (Replaced(cycle.plan) \cap DOMAIN tree) \ TodoPaths(cycle) :
            tree[f].hash \in Kept(more)
    BY <1>2, <1>3, <2>1 DEF RenameStage
  <2> QED BY <2>1, <2>2, <2>3, <2>4, <2>5 DEF RenameStage
<1>7. ASSUME cycle.step = "rename", OwnedBy(cycle.session, d)
      PROVE  OwnedStage(sessions[cycle.session], cycle, base, more)
  BY <1>7 DEF CycleInv, OwnedStage
<1>8. ASSUME cycle.step = "apply"
      PROVE  ApplyStage(cycle, tree, base.last_rev, more)
  <2>1. ApplyStage(cycle, old, base.last_rev, seen)
    BY <1>8 DEF CycleInv
  <2>2. \A q \in DOMAIN tree : IsMarker(q) => q \in LivePaths
    BY <1>1, <2>1 DEF ApplyStage
  <2>3. \A f \in LeftPaths(cycle) \cap DOMAIN tree : tree[f].hash \in Kept(more)
    BY <1>2, <1>3, <2>1 DEF ApplyStage
  <2>4. \A f \in DOMAIN cycle.next \ LeftPaths(cycle) :
            \/ Same(tree, cycle.next, f)
            \/ ~ OnServerSince(f, cycle.new_rev)
            \/ ~ IsMarker(f) /\ cycle.next[f].hash \in more
    BY <1>4, <1>5, <2>1 DEF ApplyStage
  <2> QED BY <2>1, <2>2, <2>3, <2>4 DEF ApplyStage
<1> QED BY <1>6, <1>7, <1>8 DEF CycleInv

\* A loser a user may save beside is in a commit: either the cycle has
\* committed, or the baseline knows it.
LEMMA LosersCommitted ==
    ASSUME ContentInv, Careful, NEW d \in Devices, NEW p, MayTouch(d, p),
           NEW q \in DOMAIN disk[d], IsMarker(q), Parent(q) = p
    PROVE  q \in LivePaths
<1>1. CASE sync[d].step = "apply"
  <2>1. ApplyStage(sync[d], disk[d], baseline[d].last_rev, superseded)
    BY <1>1 DEF ContentInv, CycleInv
  <2> QED BY <2>1 DEF ApplyStage
<1>2. CASE sync[d].step # "apply"
  <2>1. DanglingLosers(d, p) = {}
    BY <1>2 DEF MayTouch, Careful
  <2>2. q.file = p.file
    BY DEF Parent
  <2>3. q \in DOMAIN baseline[d].files
    BY <2>1, <2>2 DEF DanglingLosers
  <2>4. /\ baseline[d].last_rev \in 0 .. head_rev
        /\ ContentsIn(baseline[d].files) = snapshots[baseline[d].last_rev]
    BY DEF ContentInv, SystemOK, BaselineOK, DeviceInv
  <2>5. q \in DOMAIN snapshots[baseline[d].last_rev]
    BY <2>3, <2>4 DEF ContentsIn
  <2> QED BY <2>4, <2>5 DEF ContentInv, ServerKeeps, MarkersStay
<1> QED BY <1>1, <1>2

\* What a user did, to the disk and to what is kept of it.
LEMMA UserTouches ==
    ASSUME ContentInv, SystemOK', Careful, NEW d \in Devices, NEW p, MayTouch(d, p),
           NEW tree, Touched(disk[d], tree, p), disk' = [disk EXCEPT ![d] = tree],
           superseded' = superseded \cup Seen(d, p),
           \A v \in 1 .. versions' : v \in 1 .. versions \cup {tree[q].hash : q \in DOMAIN tree},
           UNCHANGED <<vars, baseline, sync>>
    PROVE  ContentInv'
<1>1. ~ IsMarker(p)
  BY DEF MayTouch, Careful
<1>2. superseded \subseteq superseded' /\ (p \in DOMAIN disk[d] => disk[d][p].hash \in superseded')
  BY DEF Seen
<1>3. disk'[d] = tree /\ \A e \in Devices \ {d} : disk'[e] = disk[e]
  BY DEF ContentInv, SystemOK, DiskOK
<1>4. DeviceInv(disk[d], baseline[d], superseded) /\ CycleInv(d, sync[d], disk[d], baseline[d], superseded)
  BY DEF ContentInv
<1>5. DeviceInv(tree, baseline[d], superseded')
  <2>1. \A q \in DOMAIN disk[d] : IsMarker(q) /\ Parent(q) = p => q \in LivePaths
    BY LosersCommitted
  <2> QED BY <1>1, <1>2, <1>4, <2>1, TouchedDevice
<1>6. CycleInv(d, sync[d], tree, baseline[d], superseded')
  <2>1. CASE sync[d].step = "idle"
    BY <2>1 DEF CycleInv
  <2>2. CASE sync[d].step # "idle"
    <3>1. p \notin Replaced(sync[d].plan)
      BY <2>2 DEF MayTouch, Careful, Replacing, Replaced
    <3> QED BY <1>1, <1>2, <1>4, <3>1, TouchedCycle
  <2> QED BY <2>1, <2>2
<1>7. NoLostContent'
  <2>1. ContentsOnServer' = ContentsOnServer
    BY DEF vars, ContentsOnServer
  <2>2. \A q \in DOMAIN disk[d] : disk[d][q].hash \in
            superseded' \cup ContentsOnServer' \cup {disk'[d][x].hash : x \in DOMAIN disk'[d]}
    BY <1>2, <1>3 DEF Touched
  <2>3. NoLostContent
    BY DEF ContentInv
  <2>4. \A v \in 1 .. versions' :
            v \in 1 .. versions \/ \E q \in DOMAIN disk'[d] : disk'[d][q].hash = v
    BY <1>3
  <2>5. superseded \subseteq superseded' /\ \A e \in Devices \ {d} : disk'[e] = disk[e]
    BY <1>2, <1>3
  <2> QED BY <2>1, <2>2, <2>3, <2>4, <2>5, ContentsMove
<1> QED BY <1>2, <1>3, <1>5, <1>6, <1>7, DeviceStep

\* A user saves or deletes a file.
LEMMA UserStepKeeps ==
    ASSUME ContentInv, SystemOK', Careful, NEW d \in Devices, UserStep(d)
    PROVE  ContentInv'
<1>1. PICK p \in Touchable(d) : UserDelete(d, p) \/ \E mtime \in MTimes : UserSave(d, p, mtime)
  BY DEF UserStep
<1>2. TreeTypeOK(disk[d]) /\ p \in Path
  BY TouchablePaths DEF ContentInv, SystemOK, DiskOK, WrittenTree
<1>3. CASE UserDelete(d, p)
  <2> DEFINE tree == Drop(disk[d], p)
  <2>1. /\ MayTouch(d, p) /\ disk' = [disk EXCEPT ![d] = tree] /\ versions' = versions
        /\ superseded' = superseded \cup Seen(d, p) /\ UNCHANGED <<vars, baseline, sync>>
    BY <1>3 DEF UserDelete
  <2>2. DOMAIN tree = DOMAIN disk[d] \ {p} /\ \A q \in DOMAIN disk[d] \ {p} : tree[q] = disk[d][q]
    BY <1>2, DropTree
  <2> HIDE DEF tree
  <2>3. Touched(disk[d], tree, p)
    BY <2>2 DEF Touched
  <2> QED BY <2>1, <2>3, UserTouches
<1>4. ASSUME NEW mtime \in MTimes, UserSave(d, p, mtime)
      PROVE  ContentInv'
  <2> DEFINE meta == [hash |-> versions + 1, mtime |-> mtime]
             tree == Keep(disk[d], p, meta)
  <2>1. /\ MayTouch(d, p) /\ disk' = [disk EXCEPT ![d] = tree]
        /\ versions' = versions + 1 /\ versions < MaxVersions
        /\ superseded' = superseded \cup Seen(d, p) /\ UNCHANGED <<vars, baseline, sync>>
    BY <1>4 DEF UserSave
  <2>2. versions \in Nat /\ MaxVersions \in Nat
    BY Counters DEF ContentInv
  <2>3. meta \in Meta /\ meta.hash = versions + 1
    BY <2>1, <2>2, ContentsAssumption, MTimesAssumption DEF Meta
  <2> HIDE DEF meta
  <2>4. /\ DOMAIN tree = DOMAIN disk[d] \cup {p} /\ tree[p] = meta
        /\ \A q \in DOMAIN disk[d] \ {p} : tree[q] = disk[d][q]
    BY DEF Keep
  <2> HIDE DEF tree
  <2>5. \A v \in 1 .. versions' : v \in 1 .. versions \cup {tree[q].hash : q \in DOMAIN tree}
    <3>1. versions + 1 \in {tree[q].hash : q \in DOMAIN tree}
      BY <2>3, <2>4
    <3>2. \A v \in 1 .. versions + 1 : v \in 1 .. versions \/ v = versions + 1
      BY <2>2
    <3> QED BY <2>1, <3>1, <3>2
  <2>6. Touched(disk[d], tree, p)
    BY <2>4 DEF Touched
  <2> QED BY <2>1, <2>5, <2>6, UserTouches
<1> QED BY <1>1, <1>3, <1>4

-----------------------------------------------------------------------------
(***************************************************************************)
(* Cycles that end.                                                        *)
(***************************************************************************)

\* A cycle stops, whatever it has done: the device is owed nothing more.
LEMMA AbortKeeps ==
    ASSUME ContentInv, SystemOK', NEW d \in Devices, Abort(d)
    PROVE  ContentInv'
<1>1. /\ sync'[d] = Idle /\ \A e \in Devices \ {d} : sync'[e] = sync[e]
      /\ UNCHANGED <<vars, disk, baseline, versions, superseded>>
  BY DEF Abort, ContentInv, SystemOK, CyclesOK
<1>2. DeviceInv(disk'[d], baseline'[d], superseded')
  BY <1>1 DEF ContentInv
<1>3. CycleInv(d, sync'[d], disk'[d], baseline'[d], superseded')
  BY <1>1 DEF CycleInv, Idle
<1>4. NoLostContent'
  BY <1>1 DEF ContentInv, NoLostContent, ContentsOnDisks, ContentsOnServer, vars
<1> QED BY <1>1, <1>2, <1>3, <1>4, DeviceStep

\* The baseline is saved when nothing is left to do: it is the snapshot of
\* the commit.
LEMMA FinishKeeps ==
    ASSUME ContentInv, SystemOK', NEW d \in Devices, Finish(d)
    PROVE  ContentInv'
<1> DEFINE cycle == sync[d]
           base  == [last_rev |-> cycle.new_rev, files |-> cycle.next]
<1>1. /\ cycle.step = "apply" /\ LeftPaths(cycle) = {}
      /\ sync'[d] = Idle /\ baseline'[d] = base
      /\ \A e \in Devices \ {d} : sync'[e] = sync[e] /\ baseline'[e] = baseline[e]
      /\ UNCHANGED <<vars, disk, versions, superseded>>
  BY DEF Finish, LeftPaths, ContentInv, SystemOK, CyclesOK, BaselineOK
<1>2. ApplyStage(cycle, disk[d], baseline[d].last_rev, superseded)
  BY <1>1 DEF ContentInv, CycleInv
<1>3. LosersAlone(disk[d])
  BY DEF ContentInv, DeviceInv
<1>4. Told(disk[d], cycle.next, cycle.new_rev, superseded)
  BY <1>1, <1>2 DEF ApplyStage, Told
<1>5. ContentsIn(cycle.next) = snapshots[cycle.new_rev]
  <2> DEFINE then == snapshots[cycle.new_rev]
  <2>1. cycle.new_rev \in 0 .. head_rev
    BY <1>1, ApplyStep DEF ContentInv, ApplyingOK
  <2>2. then = [p \in DOMAIN then |-> then[p]]
    BY <2>1 DEF ContentInv, ServerKeeps, SnapshotsShaped
  <2>3. DOMAIN then = DOMAIN cycle.next /\ \A p \in DOMAIN then : cycle.next[p].hash = then[p]
    BY <1>1, <1>2 DEF ApplyStage
  <2> HIDE DEF then, cycle
  <2>4. ContentsIn(cycle.next) = then
    BY <2>2, <2>3 DEF ContentsIn
  <2> QED BY <2>4 DEF then
<1>6. DeviceInv(disk[d], base, superseded)
  BY <1>3, <1>4, <1>5 DEF DeviceInv
<1> HIDE DEF base
<1>7. DeviceInv(disk'[d], baseline'[d], superseded')
  BY <1>1, <1>6
<1>8. CycleInv(d, sync'[d], disk'[d], baseline'[d], superseded')
  BY <1>1 DEF CycleInv, Idle
<1>9. NoLostContent'
  BY <1>1 DEF ContentInv, NoLostContent, ContentsOnDisks, ContentsOnServer, vars
<1> QED BY <1>1, <1>7, <1>8, <1>9, DeviceStep

-----------------------------------------------------------------------------
(***************************************************************************)
(* After the commit.                                                       *)
(***************************************************************************)

\* All the losers on the disk of a device that has committed are in a commit.
LEMMA MarkersAlone ==
    ASSUME MarkersStay, NEW tree, \A q \in DOMAIN tree : IsMarker(q) => q \in LivePaths
    PROVE  LosersAlone(tree)
BY DEF MarkersStay, LosersAlone

\* A row says what was there at a revision the row is not above.
LEMMA RowsSay ==
    ASSUME ContentInv, NEW r \in 0 .. head_rev, NEW p, OnServerSince(p, r)
    PROVE  p \in DOMAIN snapshots[r] /\ snapshots[r][p] = file_index[p].hash
<1>1. file_index[p].rev \in Nat
  BY LiveRows DEF ContentInv, SystemOK, ServerCore, ServerTypeOK, IndexTypeOK, Entry, OnServerSince
<1>2. r \in file_index[p].rev .. head_rev
  BY <1>1, Counters DEF ContentInv, OnServerSince
<1> QED BY <1>2 DEF ContentInv, SystemOK, ServerCore, RowsStand, OnServerSince

\* A file that comes is the one the baseline had, or the server has it since.
LEMMA DownloadedDevice ==
    ASSUME ContentInv, NEW tree, NEW base, NEW seen, DeviceInv(tree, base, seen),
           base.last_rev \in 0 .. head_rev,
           \A q \in DOMAIN tree : IsMarker(q) => q \in LivePaths,
           NEW p \in LivePaths, NEW meta, meta.hash = file_index[p].hash,
           NEW after, DOMAIN after = DOMAIN tree \cup {p}, after[p] = meta,
           \A q \in DOMAIN tree \ {p} : after[q] = tree[q]
    PROVE  DeviceInv(after, base, seen)
<1>1. LosersAlone(after)
  BY MarkersAlone DEF ContentInv, ServerKeeps
<1>2. ASSUME NEW f \in DOMAIN base.files
      PROVE  \/ Same(after, base.files, f)
             \/ ~ OnServerSince(f, base.last_rev)
             \/ ~ IsMarker(f) /\ base.files[f].hash \in seen
  <2>1. CASE f # p
    BY <2>1 DEF DeviceInv, Told, Same
  <2>2. CASE f = p /\ OnServerSince(p, base.last_rev)
    <3>1. snapshots[base.last_rev][p] = file_index[p].hash
      BY <2>2, RowsSay
    <3>2. snapshots[base.last_rev][p] = base.files[p].hash
      BY <2>2 DEF DeviceInv, ContentsIn
    <3> QED BY <2>2, <3>1, <3>2 DEF Same
  <2> QED BY <2>1, <2>2
<1>3. Told(after, base.files, base.last_rev, seen)
  BY <1>2 DEF Told
<1> QED BY <1>1, <1>3 DEF DeviceInv

\* A file the server has not is no longer there either.
LEMMA RemovedDevice ==
    ASSUME ContentInv, NEW tree, NEW base, NEW seen, DeviceInv(tree, base, seen),
           base.last_rev \in 0 .. head_rev, NEW r \in 0 .. head_rev, base.last_rev <= r,
           NEW p, p \notin DOMAIN snapshots[r],
           NEW after, DOMAIN after = DOMAIN tree \ {p}, \A q \in DOMAIN after : after[q] = tree[q]
    PROVE  DeviceInv(after, base, seen)
<1>1. LosersAlone(after)
  BY DEF DeviceInv, LosersAlone
<1>2. ~ OnServerSince(p, base.last_rev)
  <2>1. SUFFICES ASSUME OnServerSince(p, base.last_rev) PROVE FALSE
    OBVIOUS
  <2>2. file_index[p].rev \in Nat
    BY <2>1, LiveRows DEF ContentInv, SystemOK, ServerCore, ServerTypeOK, IndexTypeOK, Entry, OnServerSince
  <2>3. OnServerSince(p, r)
    BY <2>1, <2>2, Counters DEF ContentInv, OnServerSince
  <2> QED BY <2>3, RowsSay
<1>3. Told(after, base.files, base.last_rev, seen)
  BY <1>2 DEF DeviceInv, Told, Same
<1> QED BY <1>1, <1>3 DEF DeviceInv

\* What is left to do once a file has come.
LEMMA DownloadedStage ==
    ASSUME NEW cycle, NEW tree, NEW last, NEW seen, ApplyStage(cycle, tree, last, seen),
           NEW item \in cycle.todo, item.path \in LivePaths,
           NEW meta, meta.hash = item.hash, NEW given, given.hash = item.hash,
           item.hash \in ContentsOnServer
    PROVE  ApplyStage(Downloaded(cycle, item, meta), Keep(tree, item.path, given), last, seen)
<1> DEFINE p     == item.path
           new   == Downloaded(cycle, item, meta)
           after == Keep(tree, item.path, given)
           then  == snapshots[cycle.new_rev]
<1>1. /\ new.plan = cycle.plan /\ new.todo = cycle.todo \ {item}
      /\ new.gone = cycle.gone /\ new.new_rev = cycle.new_rev
      /\ DOMAIN new.next = DOMAIN cycle.next \cup {p} /\ new.next[p] = meta
      /\ \A f \in DOMAIN cycle.next \ {p} : new.next[f] = cycle.next[f]
  BY DEF Downloaded, Keep
<1>2. /\ DOMAIN after = DOMAIN tree \cup {p} /\ after[p] = given
      /\ \A f \in DOMAIN tree \ {p} : after[f] = tree[f]
  BY DEF Keep
<1>3. p \in LeftPaths(cycle) /\ p \in DOMAIN then /\ then[p] = item.hash
  BY DEF ApplyStage, LeftPaths
<1> HIDE DEF new, after
<1>4. LeftPaths(new) \subseteq LeftPaths(cycle) /\ \A f \in LeftPaths(cycle) \ {p} : f \in LeftPaths(new)
  BY <1>1 DEF LeftPaths
<1>5. LeftPaths(new) \subseteq Replaced(new.plan)
  BY <1>1, <1>4 DEF ApplyStage
<1>6. \A f \in (DOMAIN then \cup DOMAIN new.next) \ LeftPaths(new) :
          f \in DOMAIN then /\ f \in DOMAIN new.next /\ new.next[f].hash = then[f]
  <2>1. \A f \in (DOMAIN then \cup DOMAIN cycle.next) \ LeftPaths(cycle) :
            f \in DOMAIN then /\ f \in DOMAIN cycle.next /\ cycle.next[f].hash = then[f]
    BY DEF ApplyStage
  <2> HIDE DEF then, p
  <2> QED BY <1>1, <1>3, <1>4, <2>1
<1>7. \A q \in DOMAIN after : IsMarker(q) => q \in LivePaths
  BY <1>2 DEF ApplyStage
<1>8. \A f \in LeftPaths(new) \cap DOMAIN after : after[f].hash \in Kept(seen)
  BY <1>2, <1>4 DEF ApplyStage, Kept
<1>9. \A f \in DOMAIN new.next \ LeftPaths(new) :
          \/ Same(after, new.next, f)
          \/ ~ OnServerSince(f, new.new_rev)
          \/ ~ IsMarker(f) /\ new.next[f].hash \in seen
  <2>1. Same(after, new.next, p)
    BY <1>1, <1>2 DEF Same
  <2>2. ASSUME NEW f \in DOMAIN new.next \ LeftPaths(new), f # p
        PROVE  \/ Same(after, new.next, f)
               \/ ~ OnServerSince(f, new.new_rev)
               \/ ~ IsMarker(f) /\ new.next[f].hash \in seen
    <3>1. f \in DOMAIN cycle.next \ LeftPaths(cycle)
      BY <1>1, <1>4, <2>2
    <3>2. Same(tree, cycle.next, f) => Same(after, new.next, f)
      BY <1>1, <1>2, <2>2, <3>1 DEF Same
    <3>3. new.next[f] = cycle.next[f]
      BY <1>1, <2>2, <3>1
    <3> QED BY <1>1, <3>1, <3>2, <3>3 DEF ApplyStage
  <2> QED BY <2>1, <2>2
<1>10. ApplyStage(new, after, last, seen)
  BY <1>1, <1>5, <1>6, <1>7, <1>8, <1>9 DEF ApplyStage
<1> QED BY <1>10 DEF new, after

\* A file comes.
LEMMA ApplyDownloadKeeps ==
    ASSUME ContentInv, SystemOK', NEW d \in Devices, ApplyDownload(d)
    PROVE  ContentInv'
<1> DEFINE cycle == sync[d]
<1>1. PICK item \in cycle.todo, mtime \in MTimes :
          LET hash == live[item.path]
              new  == Downloaded(cycle, item, [hash |-> hash, mtime |-> item.mtime])
          IN  /\ item.path \in LivePaths /\ item.path \in DOMAIN live
              /\ file_index[item.path].hash = item.hash
              /\ disk' = [disk EXCEPT ![d] =
                     Keep(disk[d], item.path, [hash |-> hash, mtime |-> mtime])]
              /\ sync' = [sync EXCEPT ![d] = new] /\ sync'[d] = new
  BY ApplyDownloadMoves DEF ContentInv
<1> DEFINE p     == item.path
           given == [hash |-> live[item.path], mtime |-> mtime]
           meta  == [hash |-> live[item.path], mtime |-> item.mtime]
           tree  == Keep(disk[d], p, given)
           new   == Downloaded(cycle, item, meta)
<1>2. cycle.step = "apply" /\ UNCHANGED <<vars, baseline, versions, superseded>>
  BY DEF ApplyDownload
<1>3. ApplyStage(cycle, disk[d], baseline[d].last_rev, superseded)
  BY <1>2 DEF ContentInv, CycleInv
<1>4. live[p] = item.hash /\ live[p] \in ContentsOnServer
  <2>1. live = ContentsOf(file_index)
    BY DEF ContentInv, ServerKeeps, IndexMatchesLive
  <2> QED BY <1>1, <2>1 DEF ContentsOf, LivePaths, ContentsOnServer
<1>5. meta.hash = item.hash /\ given.hash = item.hash
  BY <1>4
<1>6. /\ disk' = [disk EXCEPT ![d] = tree] /\ sync' = [sync EXCEPT ![d] = new] /\ sync'[d] = new
      /\ p \in LivePaths /\ file_index[p].hash = item.hash
  BY <1>1
<1> HIDE DEF meta, given
<1>7. DOMAIN tree = DOMAIN disk[d] \cup {p} /\ tree[p] = given /\ \A q \in DOMAIN disk[d] \ {p} : tree[q] = disk[d][q]
  BY DEF Keep
<1>8. ApplyStage(new, tree, baseline[d].last_rev, superseded)
  BY <1>3, <1>4, <1>5, <1>6, DownloadedStage
<1>9. new.step = "apply"
  BY DEF Downloaded
<1> HIDE DEF tree, new
<1>10. disk'[d] = tree /\ \A e \in Devices \ {d} : disk'[e] = disk[e] /\ sync'[e] = sync[e]
  BY <1>6 DEF ContentInv, SystemOK, DiskOK, CyclesOK
<1>11. DeviceInv(tree, baseline[d], superseded)
  <2>1. DeviceInv(disk[d], baseline[d], superseded) /\ baseline[d].last_rev \in 0 .. head_rev
    BY DEF ContentInv, SystemOK, BaselineOK
  <2>2. \A q \in DOMAIN disk[d] : IsMarker(q) => q \in LivePaths
    BY <1>3 DEF ApplyStage
  <2>3. given.hash = file_index[p].hash
    BY <1>5, <1>6
  <2> HIDE DEF p
  <2> QED BY <1>6, <1>7, <2>1, <2>2, <2>3, DownloadedDevice
<1>12. CycleInv(d, new, tree, baseline[d], superseded)
  BY <1>8, <1>9 DEF CycleInv
<1>13. NoLostContent'
  <2>1. ContentsOnServer' = ContentsOnServer
    BY <1>2 DEF vars, ContentsOnServer
  <2>2. p \in DOMAIN disk[d] => disk[d][p].hash \in superseded \cup ContentsOnServer
    BY <1>3 DEF ApplyStage, LeftPaths, Kept
  <2>3. \A q \in DOMAIN disk[d] : disk[d][q].hash \in
            superseded' \cup ContentsOnServer' \cup {disk'[d][x].hash : x \in DOMAIN disk'[d]}
    BY <1>2, <1>7, <1>10, <2>1, <2>2
  <2>4. NoLostContent
    BY DEF ContentInv
  <2>5. \A e \in Devices \ {d} : disk'[e] = disk[e]
    BY <1>10
  <2>6. ContentsOnServer \subseteq superseded' \cup ContentsOnServer'
    BY <2>1
  <2>7. superseded' = superseded /\ versions' = versions
    BY <1>2
  <2> QED BY <1>10, <2>3, <2>4, <2>5, <2>6, <2>7, ContentsMove
<1>14. DeviceInv(disk'[d], baseline'[d], superseded') /\ CycleInv(d, sync'[d], disk'[d], baseline'[d], superseded')
  BY <1>2, <1>6, <1>10, <1>11, <1>12
<1> QED BY <1>2, <1>10, <1>13, <1>14, DeviceStep

\* What is left to do once a file has gone.
LEMMA RemovedStage ==
    ASSUME NEW cycle, NEW tree, NEW last, NEW seen, ApplyStage(cycle, tree, last, seen),
           NEW p \in cycle.gone
    PROVE  ApplyStage(Removed(cycle, p), Drop(tree, p), last, seen)
<1> DEFINE new   == Removed(cycle, p)
           after == Drop(tree, p)
           then  == snapshots[cycle.new_rev]
<1>1. /\ new.plan = cycle.plan /\ new.todo = cycle.todo
      /\ new.gone = cycle.gone \ {p} /\ new.new_rev = cycle.new_rev
      /\ DOMAIN new.next = DOMAIN cycle.next \ {p}
      /\ \A f \in DOMAIN new.next : new.next[f] = cycle.next[f]
  BY DEF Removed, Drop
<1>2. DOMAIN after = DOMAIN tree \ {p} /\ \A f \in DOMAIN after : after[f] = tree[f]
  BY DEF Drop
<1>3. p \in LeftPaths(cycle) /\ p \notin DOMAIN then
  BY DEF ApplyStage, LeftPaths
<1> HIDE DEF new, after
<1>4. LeftPaths(new) \subseteq LeftPaths(cycle) /\ \A f \in LeftPaths(cycle) \ {p} : f \in LeftPaths(new)
  BY <1>1 DEF LeftPaths
<1>5. LeftPaths(new) \subseteq Replaced(new.plan)
  BY <1>1, <1>4 DEF ApplyStage
<1>6. \A f \in (DOMAIN then \cup DOMAIN new.next) \ LeftPaths(new) :
          f \in DOMAIN then /\ f \in DOMAIN new.next /\ new.next[f].hash = then[f]
  <2>1. \A f \in (DOMAIN then \cup DOMAIN cycle.next) \ LeftPaths(cycle) :
            f \in DOMAIN then /\ f \in DOMAIN cycle.next /\ cycle.next[f].hash = then[f]
    BY DEF ApplyStage
  <2> HIDE DEF then
  <2> QED BY <1>1, <1>3, <1>4, <2>1
<1>7. \A q \in DOMAIN after : IsMarker(q) => q \in LivePaths
  BY <1>2 DEF ApplyStage
<1>8. \A f \in LeftPaths(new) \cap DOMAIN after : after[f].hash \in Kept(seen)
  BY <1>2, <1>4 DEF ApplyStage
<1>9. ASSUME NEW f \in DOMAIN new.next \ LeftPaths(new)
      PROVE  \/ Same(after, new.next, f)
             \/ ~ OnServerSince(f, new.new_rev)
             \/ ~ IsMarker(f) /\ new.next[f].hash \in seen
  <2>1. f \in DOMAIN cycle.next \ LeftPaths(cycle) /\ f # p
    BY <1>1, <1>4
  <2>2. Same(tree, cycle.next, f) => Same(after, new.next, f)
    BY <1>1, <1>2, <2>1 DEF Same
  <2> QED BY <1>1, <2>1, <2>2 DEF ApplyStage
<1>10. ApplyStage(new, after, last, seen)
  BY <1>1, <1>5, <1>6, <1>7, <1>8, <1>9 DEF ApplyStage
<1> QED BY <1>10 DEF new, after

\* A file goes.
LEMMA ApplyDeleteKeeps ==
    ASSUME ContentInv, SystemOK', NEW d \in Devices, ApplyDelete(d)
    PROVE  ContentInv'
<1> DEFINE cycle == sync[d]
<1>1. PICK p \in cycle.gone :
          /\ disk' = [disk EXCEPT ![d] = Drop(disk[d], p)]
          /\ sync' = [sync EXCEPT ![d] = Removed(cycle, p)]
          /\ sync'[d] = Removed(cycle, p)
  BY ApplyDeleteMoves DEF ContentInv
<1> DEFINE tree == Drop(disk[d], p)
           new  == Removed(cycle, p)
<1>2. cycle.step = "apply" /\ UNCHANGED <<vars, baseline, versions, superseded>>
  BY DEF ApplyDelete
<1>3. ApplyStage(cycle, disk[d], baseline[d].last_rev, superseded)
  BY <1>2 DEF ContentInv, CycleInv
<1>4. disk' = [disk EXCEPT ![d] = tree] /\ sync' = [sync EXCEPT ![d] = new] /\ sync'[d] = new
  BY <1>1
<1>5. DOMAIN tree = DOMAIN disk[d] \ {p} /\ \A q \in DOMAIN tree : tree[q] = disk[d][q]
  BY DEF Drop
<1>6. ApplyStage(new, tree, baseline[d].last_rev, superseded)
  BY <1>3, RemovedStage
<1>7. new.step = "apply"
  BY DEF Removed
<1> HIDE DEF tree, new
<1>8. disk'[d] = tree /\ \A e \in Devices \ {d} : disk'[e] = disk[e] /\ sync'[e] = sync[e]
  BY <1>4 DEF ContentInv, SystemOK, DiskOK, CyclesOK
<1>9. DeviceInv(tree, baseline[d], superseded)
  <2>1. DeviceInv(disk[d], baseline[d], superseded) /\ baseline[d].last_rev \in 0 .. head_rev
    BY DEF ContentInv, SystemOK, BaselineOK
  <2>2. cycle.new_rev \in 0 .. head_rev
    BY <1>2, ApplyStep DEF ContentInv, ApplyingOK
  <2>3. baseline[d].last_rev <= cycle.new_rev /\ p \notin DOMAIN snapshots[cycle.new_rev]
    BY <1>3 DEF ApplyStage
  <2> QED BY <1>5, <2>1, <2>2, <2>3, RemovedDevice
<1>10. CycleInv(d, new, tree, baseline[d], superseded)
  BY <1>6, <1>7 DEF CycleInv
<1>11. NoLostContent'
  <2>1. ContentsOnServer' = ContentsOnServer
    BY <1>2 DEF vars, ContentsOnServer
  <2>2. p \in DOMAIN disk[d] => disk[d][p].hash \in superseded \cup ContentsOnServer
    BY <1>3 DEF ApplyStage, LeftPaths, Kept
  <2>3. \A q \in DOMAIN disk[d] : disk[d][q].hash \in
            superseded' \cup ContentsOnServer' \cup {disk'[d][x].hash : x \in DOMAIN disk'[d]}
    BY <1>2, <1>5, <1>8, <2>1, <2>2
  <2>4. NoLostContent
    BY DEF ContentInv
  <2>5. \A e \in Devices \ {d} : disk'[e] = disk[e]
    BY <1>8
  <2>6. ContentsOnServer \subseteq superseded' \cup ContentsOnServer'
    BY <2>1
  <2>7. superseded' = superseded /\ versions' = versions
    BY <1>2
  <2> QED BY <1>8, <2>3, <2>4, <2>5, <2>6, <2>7, ContentsMove
<1>12. DeviceInv(disk'[d], baseline'[d], superseded') /\ CycleInv(d, sync'[d], disk'[d], baseline'[d], superseded')
  BY <1>2, <1>4, <1>8, <1>9, <1>10
<1> QED BY <1>2, <1>8, <1>11, <1>12, DeviceStep

-----------------------------------------------------------------------------
(***************************************************************************)
(* Before the commit.                                                      *)
(***************************************************************************)

\* A loser that takes its new name leaves none beside it, and what the
\* baseline had under either name had gone before.
LEMMA RenamedDevice ==
    ASSUME NEW cycle, NEW tree, NEW base, NEW seen, DeviceInv(tree, base, seen),
           NEW c, ToRename(c, cycle, tree, base)
    PROVE  DeviceInv(Moved(tree, c.path, c.loser_path), base, seen)
<1> DEFINE p     == c.path
           q     == c.loser_path
           after == Moved(tree, p, q)
<1>1. p \in DOMAIN tree /\ q \notin DOMAIN tree /\ Parent(q) = p
  BY DEF ToRename, Same
<1>2. /\ DOMAIN after = (DOMAIN tree \ {p}) \cup {q} /\ after[q] = tree[p]
      /\ \A x \in DOMAIN tree \ {p} : after[x] = tree[x]
  BY <1>1 DEF Moved, Keep, Drop
<1>3. /\ IsMarker(p) => p \in LivePaths
      /\ \A x \in DOMAIN tree : IsMarker(x) => Parent(x) # q
      /\ p \in DOMAIN base.files => ~ Same(tree, base.files, p)
  BY DEF ToRename
<1> HIDE DEF p, q, after
<1>4. LosersAlone(after)
  BY <1>1, <1>2, <1>3 DEF DeviceInv, LosersAlone
<1>5. ASSUME NEW f \in DOMAIN base.files
      PROVE  \/ Same(after, base.files, f)
             \/ ~ OnServerSince(f, base.last_rev)
             \/ ~ IsMarker(f) /\ base.files[f].hash \in seen
  <2>1. Same(tree, base.files, f) => f \in DOMAIN tree /\ f # p
    BY <1>3 DEF Same
  <2>2. Same(tree, base.files, f) => Same(after, base.files, f)
    BY <1>2, <2>1 DEF Same
  <2> QED BY <2>2 DEF DeviceInv, Told
<1>6. Told(after, base.files, base.last_rev, seen)
  BY <1>5 DEF Told
<1> QED BY <1>4, <1>6 DEF DeviceInv, after, p, q

\* The other losers are as ready as they were.
LEMMA OthersToRename ==
    ASSUME NEW cycle, NEW tree, NEW base, NEW c \in cycle.todo, ToRename(c, cycle, tree, base),
           NEW e \in cycle.todo, e # c, ToRename(e, cycle, tree, base)
    PROVE  ToRename(e, Renamed(cycle, c), Moved(tree, c.path, c.loser_path), base)
<1> DEFINE p     == c.path
           q     == c.loser_path
           after == Moved(tree, p, q)
           new   == Renamed(cycle, c)
           old   == cycle.staged
<1>1. /\ p \in DOMAIN tree /\ p \in DOMAIN old /\ q \notin DOMAIN tree /\ q \notin DOMAIN old
      /\ Parent(q) = p /\ q \notin Replaced(cycle.plan)
      /\ \A x \in cycle.todo : x.path = p => x = c
  BY DEF ToRename, Same
<1>2. /\ DOMAIN after = (DOMAIN tree \ {p}) \cup {q} /\ after[q] = tree[p]
      /\ \A x \in DOMAIN tree \ {p} : after[x] = tree[x]
  BY <1>1 DEF Moved, Keep, Drop
<1>3. /\ DOMAIN new.staged = (DOMAIN old \ {p}) \cup {q} /\ new.staged[q] = old[p]
      /\ \A x \in DOMAIN old \ {p} : new.staged[x] = old[x]
  BY <1>1 DEF Renamed, Moved, Keep, Drop
<1>4. new.plan = cycle.plan /\ new.todo = cycle.todo \ {c}
  BY DEF Renamed
<1> HIDE DEF p, q, after, new
<1>5. e.path # p /\ e.path # q /\ e.path \in DOMAIN tree /\ e.path \in DOMAIN old
  BY <1>1 DEF ToRename, Same
<1>6. e.path \in DOMAIN new.staged /\ Same(after, new.staged, e.path)
  BY <1>2, <1>3, <1>5 DEF ToRename, Same
<1>7. e.path \in DOMAIN base.files => ~ Same(after, base.files, e.path)
  BY <1>2, <1>5 DEF ToRename, Same
<1>8. e.loser_path # q /\ e.loser_path # p
  BY <1>1, <1>5 DEF ToRename
<1>9. e.loser_path \notin DOMAIN after \cup DOMAIN new.staged
  BY <1>2, <1>3, <1>8 DEF ToRename
<1>10. \A x \in DOMAIN after : IsMarker(x) => Parent(x) # e.loser_path
  BY <1>1, <1>2, <1>8 DEF ToRename
<1>11. ToRename(e, new, after, base)
  BY <1>4, <1>6, <1>7, <1>9, <1>10 DEF ToRename
<1> QED BY <1>11 DEF new, after, p, q

\* The tree to be committed follows the disk.
LEMMA RenamedStage ==
    ASSUME NEW cycle, NEW tree, NEW base, NEW seen, RenameStage(cycle, tree, base, seen),
           NEW c \in cycle.todo
    PROVE  RenameStage(Renamed(cycle, c), Moved(tree, c.path, c.loser_path), base, seen)
<1> DEFINE p     == c.path
           q     == c.loser_path
           after == Moved(tree, p, q)
           new   == Renamed(cycle, c)
           old   == cycle.staged
<1>0. ToRename(c, cycle, tree, base)
  BY DEF RenameStage
<1>1. /\ p \in DOMAIN tree /\ p \in DOMAIN old /\ q \notin DOMAIN tree /\ q \notin DOMAIN old
      /\ Parent(q) = p /\ q \notin Replaced(cycle.plan) /\ tree[p].hash = old[p].hash
      /\ IsMarker(p) => p \in LivePaths
  BY <1>0 DEF ToRename, Same
<1>2. /\ DOMAIN after = (DOMAIN tree \ {p}) \cup {q} /\ after[q] = tree[p]
      /\ \A x \in DOMAIN tree \ {p} : after[x] = tree[x]
  BY <1>1 DEF Moved, Keep, Drop
<1>3. /\ DOMAIN new.staged = (DOMAIN old \ {p}) \cup {q} /\ new.staged[q] = old[p]
      /\ \A x \in DOMAIN old \ {p} : new.staged[x] = old[x]
  BY <1>1 DEF Renamed, Moved, Keep, Drop
<1>4. new.plan = cycle.plan /\ new.todo = cycle.todo \ {c}
  BY DEF Renamed
<1>5. \A e \in new.todo : ToRename(e, new, after, base)
  BY <1>0, <1>4, OthersToRename DEF RenameStage
<1> HIDE DEF after, new
<1>6. TodoPaths(cycle) \subseteq TodoPaths(new) \cup {p}
  BY <1>4 DEF TodoPaths
<1> HIDE DEF p, q
<1>7. \A x \in DOMAIN after : IsMarker(x) => x \in DOMAIN new.staged
  BY <1>2, <1>3 DEF RenameStage
<1>8. ASSUME NEW f \in DOMAIN new.staged
      PROVE  \/ Same(after, new.staged, f)
             \/ ~ IsMarker(f) /\ new.staged[f].hash \in seen
  <2>1. CASE f = q
    BY <1>1, <1>2, <1>3, <2>1 DEF Same
  <2>2. CASE f # q
    <3>1. f \in DOMAIN old \ {p} /\ new.staged[f] = old[f]
      BY <1>3, <2>2
    <3>2. Same(tree, old, f) => Same(after, new.staged, f)
      BY <1>2, <1>3, <3>1 DEF Same
    <3> QED BY <3>1, <3>2 DEF RenameStage
  <2> QED BY <2>1, <2>2
<1>9. ASSUME NEW f \in (Replaced(new.plan) \cap DOMAIN after) \ TodoPaths(new)
      PROVE  after[f].hash \in Kept(seen)
  <2>1. f # q /\ f # p /\ f \in DOMAIN tree /\ after[f] = tree[f]
    BY <1>1, <1>2, <1>4
  <2>2. f \in (Replaced(cycle.plan) \cap DOMAIN tree) \ TodoPaths(cycle)
    BY <1>4, <1>6, <2>1
  <2> QED BY <2>1, <2>2 DEF RenameStage
<1>10. \A x \in DOMAIN new.staged : IsMarker(x) /\ IsMarker(Parent(x)) => Parent(x) \in LivePaths
  BY <1>1, <1>3 DEF RenameStage
<1>11. RenameStage(new, after, base, seen)
  BY <1>5, <1>7, <1>8, <1>9, <1>10 DEF RenameStage
<1> QED BY <1>11 DEF new, after, p, q

\* And it stays what was reported, on top of the baseline.
LEMMA RenamedOwned ==
    ASSUME NEW session, NEW cycle, NEW base, NEW seen,
           OwnedStage(session, cycle, base, seen),
           NEW c \in cycle.todo, c \in cycle.plan.conflicts, c.winner = "server",
           c.path \in Puts(session.changes),
           c.path \in DOMAIN cycle.staged, c.loser_path \notin DOMAIN cycle.staged
    PROVE  OwnedStage(session, Renamed(cycle, c), base, seen)
<1> DEFINE p     == c.path
           q     == c.loser_path
           new   == Renamed(cycle, c)
           old   == cycle.staged
           local == session.changes
           kept  == DOMAIN base.files \ DOMAIN local
<1>1. /\ DOMAIN new.staged = (DOMAIN old \ {p}) \cup {q} /\ new.staged[q] = old[p]
      /\ \A x \in DOMAIN old \ {p} : new.staged[x] = old[x]
  BY DEF Renamed, Moved, Keep, Drop
<1>2. /\ new.plan = cycle.plan /\ new.todo = cycle.todo \ {c} /\ new.session = cycle.session
  BY DEF Renamed
<1>3. p \in Puts(local) /\ p \in DOMAIN local
  BY DEF Puts
<1>4. q \notin DOMAIN local \cup DOMAIN base.files
  BY DEF OwnedStage
<1> HIDE DEF new
<1>5. Done(new) = Done(cycle) \cup {c}
  BY <1>2 DEF Done
<1>6. DonePaths(new) = DonePaths(cycle) \cup {p} /\ DoneLosers(new) = DoneLosers(cycle) \cup {q}
  BY <1>5 DEF DonePaths, DoneLosers
<1>7. p \notin DoneLosers(cycle)
  BY <1>3 DEF OwnedStage, Done, DoneLosers
<1>8. Puts(local) \subseteq DOMAIN local
  BY DEF Puts
<1>9. DOMAIN old = (Puts(local) \ DonePaths(cycle)) \cup kept \cup DoneLosers(cycle)
  BY DEF OwnedStage
<1> HIDE DEF p, q, old, local
<1>10. DOMAIN new.staged = (Puts(local) \ DonePaths(new)) \cup kept \cup DoneLosers(new)
  BY <1>1, <1>3, <1>6, <1>7, <1>9
<1>11. \A x \in Puts(local) \ DonePaths(new) : new.staged[x].hash = local[x].hash
  <2>1. \A x \in Puts(local) \ DonePaths(cycle) : old[x].hash = local[x].hash
    BY DEF OwnedStage, old, local
  <2> QED BY <1>1, <1>6, <1>9, <2>1
<1>12. \A x \in kept : new.staged[x].hash = base.files[x].hash
  <2>1. \A x \in kept : old[x].hash = base.files[x].hash
    BY DEF OwnedStage, old, local
  <2> QED BY <1>1, <1>3, <1>9, <2>1
<1>13. DOMAIN session.blobs = {}
  BY DEF OwnedStage
<1>14. local = session.changes
  BY DEF local
<1>15. OwnedStage(session, new, base, seen)
  BY <1>2, <1>10, <1>11, <1>12, <1>13, <1>14 DEF OwnedStage
<1> QED BY <1>15 DEF new

\* A loser moves.
LEMMA RenameLoserKeeps ==
    ASSUME ContentInv, SystemOK', NEW d \in Devices, RenameLoser(d)
    PROVE  ContentInv'
<1> DEFINE cycle == sync[d]
<1>1. PICK c \in cycle.todo :
          /\ disk' = [disk EXCEPT ![d] = Moved(disk[d], c.path, c.loser_path)]
          /\ sync' = [sync EXCEPT ![d] = Renamed(cycle, c)]
          /\ sync'[d] = Renamed(cycle, c)
  BY RenameLoserMoves DEF ContentInv
<1> DEFINE tree == Moved(disk[d], c.path, c.loser_path)
           new  == Renamed(cycle, c)
<1>2. cycle.step = "rename" /\ UNCHANGED <<vars, baseline, versions, superseded>>
  BY DEF RenameLoser
<1>3. /\ DeviceInv(disk[d], baseline[d], superseded)
      /\ RenameStage(cycle, disk[d], baseline[d], superseded)
      /\ OwnedBy(cycle.session, d) =>
             OwnedStage(sessions[cycle.session], cycle, baseline[d], superseded)
  BY <1>2 DEF ContentInv, CycleInv
<1>4. ToRename(c, cycle, disk[d], baseline[d])
  BY <1>3 DEF RenameStage
<1>5. DeviceInv(tree, baseline[d], superseded)
  BY <1>3, <1>4, RenamedDevice
<1>6. RenameStage(new, tree, baseline[d], superseded)
  BY <1>3, RenamedStage
<1>7. ASSUME OwnedBy(cycle.session, d)
      PROVE  OwnedStage(sessions[cycle.session], new, baseline[d], superseded)
  <2>1. c \in cycle.plan.conflicts /\ c.winner = "server"
    BY <1>2, <1>4, RenameStep DEF ContentInv, RenamingOK, ToRename
  <2>2. c.path \in DOMAIN cycle.staged /\ c.loser_path \notin DOMAIN cycle.staged
    BY <1>4 DEF ToRename
  <2>3. c.path \in Puts(sessions[cycle.session].changes)
    <3> DEFINE s == cycle.session
    <3>1. s \in DOMAIN sessions /\ Fresh(s) /\ sessions[s].plan = cycle.plan
      BY <1>2, <1>7, CommitterFresh DEF ContentInv
    <3>2. cycle.plan = ComputePlan(sessions[s].changes, ChangesSince(sessions[s].since), LivePaths)
      BY <3>1 DEF Fresh
    <3>3. c.path \in ServerWins(sessions[s].changes, ChangesSince(sessions[s].since))
      BY <2>1, <3>2, PlanLists
    <3> QED BY <3>3 DEF ServerWins, Clashes
  <2> QED BY <1>3, <1>7, <2>1, <2>2, <2>3, RenamedOwned
<1>8. new.step = "rename" /\ new.session = cycle.session
  BY DEF Renamed
<1>9. disk' = [disk EXCEPT ![d] = tree] /\ sync' = [sync EXCEPT ![d] = new] /\ sync'[d] = new
  BY <1>1
<1>10. /\ c.path \in DOMAIN disk[d] /\ DOMAIN tree = (DOMAIN disk[d] \ {c.path}) \cup {c.loser_path}
       /\ tree[c.loser_path] = disk[d][c.path]
       /\ \A x \in DOMAIN disk[d] \ {c.path} : x # c.loser_path /\ tree[x] = disk[d][x]
  <2>1. c.path \in DOMAIN disk[d] /\ c.loser_path \notin DOMAIN disk[d]
    BY <1>4 DEF ToRename, Same
  <2> QED BY <2>1 DEF Moved, Keep, Drop
<1> HIDE DEF tree, new
<1>11. disk'[d] = tree /\ \A e \in Devices \ {d} : disk'[e] = disk[e] /\ sync'[e] = sync[e]
  BY <1>9 DEF ContentInv, SystemOK, DiskOK, CyclesOK
<1>12. CycleInv(d, new, tree, baseline[d], superseded)
  BY <1>6, <1>7, <1>8 DEF CycleInv
<1>13. NoLostContent'
  <2>1. \A x \in DOMAIN disk[d] : \E y \in DOMAIN tree : tree[y].hash = disk[d][x].hash
    BY <1>10
  <2>2. \A q \in DOMAIN disk[d] : disk[d][q].hash \in
            superseded' \cup ContentsOnServer' \cup {disk'[d][x].hash : x \in DOMAIN disk'[d]}
    BY <1>11, <2>1
  <2>3. ContentsOnServer' = ContentsOnServer
    BY <1>2 DEF vars, ContentsOnServer
  <2>4. NoLostContent
    BY DEF ContentInv
  <2>5. \A e \in Devices \ {d} : disk'[e] = disk[e]
    BY <1>11
  <2>6. ContentsOnServer \subseteq superseded' \cup ContentsOnServer'
    BY <2>3
  <2>7. superseded' = superseded /\ versions' = versions
    BY <1>2
  <2> QED BY <2>2, <2>4, <2>5, <2>6, <2>7, ContentsMove
<1>14. DeviceInv(disk'[d], baseline'[d], superseded') /\ CycleInv(d, sync'[d], disk'[d], baseline'[d], superseded')
  BY <1>2, <1>5, <1>9, <1>11, <1>12
<1> QED BY <1>2, <1>11, <1>13, <1>14, DeviceStep

-----------------------------------------------------------------------------
(***************************************************************************)
(* Plans.                                                                  *)
(***************************************************************************)

\* The names a plan gives to losers are free everywhere: on the server, in
\* its index, on the device and in its baseline.  Nor has any of them a loser.
LEMMA LosersFree ==
    ASSUME IndexTypeOK, MarkersStay, NEW tree, TreeTypeOK(tree),
           NEW base, TreeTypeOK(base.files), base.last_rev \in 0 .. head_rev,
           NEW seen, DeviceInv(tree, base, seen), NEW since,
           NEW p \in Clashes(LocalChanges(base.files, tree), ChangesSince(since)),
           NEW q, q = NextConflictPath(p, LivePaths)
    PROVE  /\ IsMarker(q) /\ Parent(q) = p
           /\ q \notin LivePaths /\ q \notin DOMAIN ChangesSince(since)
           /\ q \notin DOMAIN tree /\ q \notin DOMAIN base.files
           /\ q \notin DOMAIN LocalChanges(base.files, tree)
           /\ \A x \in DOMAIN tree : IsMarker(x) => Parent(x) # q
<1> DEFINE local == LocalChanges(base.files, tree)
<1>1. /\ Puts(local) \subseteq DOMAIN tree /\ DOMAIN local \subseteq Path
      /\ DOMAIN local \subseteq DOMAIN tree \cup DOMAIN base.files
  <2>1. ReportTypeOK(local) /\ Reports(local, base.files, tree)
    BY ReportType
  <2> HIDE DEF local
  <2> QED BY <2>1 DEF ReportTypeOK, Reports
<1>2. p \in DOMAIN tree /\ p \in Path
  BY <1>1 DEF Clashes, Puts
<1>3. IsMarker(q) /\ Parent(q) = p /\ q \notin LivePaths
  BY <1>2, LiveRows, NextConflictPathFresh, LoserParent
<1>4. q \notin DOMAIN ChangesSince(since)
  BY <1>3 DEF MarkersStay, ChangesSince, LivePaths, LivePathsOf
<1>5. q \notin DOMAIN tree /\ \A x \in DOMAIN tree : IsMarker(x) => Parent(x) # q
  BY <1>2, <1>3 DEF DeviceInv, LosersAlone
<1>6. q \notin DOMAIN base.files
  <2>1. DOMAIN base.files = DOMAIN snapshots[base.last_rev]
    BY DEF DeviceInv, ContentsIn
  <2> QED BY <1>3, <2>1 DEF MarkersStay
<1> QED BY <1>1, <1>3, <1>4, <1>5, <1>6

\* What a device gets for its report: a loser of each conflict with a free
\* name, and nothing to replace that is not safe or to be renamed.
LEMMA PlannedStage ==
    ASSUME IndexTypeOK, MarkersStay, NEW tree, TreeTypeOK(tree),
           NEW base, TreeTypeOK(base.files), base.last_rev \in 0 .. head_rev,
           NEW seen, SnapshotsKept(seen), DeviceInv(tree, base, seen), NEW since,
           NEW plan, plan = ComputePlan(LocalChanges(base.files, tree), ChangesSince(since), LivePaths),
           NEW cycle, cycle.plan = plan, cycle.staged = tree,
           cycle.todo = {c \in plan.conflicts : c.winner = "server"}
    PROVE  RenameStage(cycle, tree, base, seen)
<1> DEFINE local    == LocalChanges(base.files, tree)
           remote   == ChangesSince(since)
           loser(p) == NextConflictPath(p, LivePaths)
<1>1. /\ \A p : p \in Puts(local) <=>
             p \in DOMAIN tree /\ (p \in DOMAIN base.files => base.files[p].hash # tree[p].hash)
      /\ DOMAIN local = Puts(local) \cup Deletes(local)
      /\ Deletes(local) = DOMAIN base.files \ DOMAIN tree
  <2>1. Reports(local, base.files, tree)
    BY ReportType
  <2> HIDE DEF local
  <2> QED BY <2>1 DEF Reports
<1>2. /\ ServerWins(local, remote) \subseteq Puts(local) \cap Edited(remote)
      /\ ServerWins(local, remote) \subseteq Clashes(local, remote)
      /\ ClientWins(local, remote) \subseteq Clashes(local, remote)
      /\ ServerWins(local, remote) \cap ClientWins(local, remote) = {}
      /\ Edited(remote) \cup Buried(remote) \subseteq DOMAIN remote
  BY DEF ServerWins, ClientWins, Clashes, Edited, Buried
<1>3. /\ DownloadPaths(plan) = (Edited(remote) \ Puts(local)) \cup ServerWins(local, remote)
                                   \cup {loser(p) : p \in ClientWins(local, remote)}
      /\ plan.delete_local = Buried(remote) \ DOMAIN local
      /\ \A p \in ServerWins(local, remote) : \E c \in plan.conflicts : c.path = p /\ c.winner = "server"
      /\ \A c \in plan.conflicts :
             /\ c = [path |-> c.path, winner |-> c.winner, loser_path |-> c.loser_path]
             /\ c.loser_path = loser(c.path)
             /\ \/ c.winner = "server" /\ c.path \in ServerWins(local, remote)
                \/ c.winner = "client" /\ c.path \in ClientWins(local, remote)
  BY PlanLists
<1>4. \A p \in Clashes(local, remote) :
          /\ IsMarker(loser(p)) /\ Parent(loser(p)) = p
          /\ loser(p) \notin DOMAIN remote /\ loser(p) \notin DOMAIN tree
          /\ \A x \in DOMAIN tree : IsMarker(x) => Parent(x) # loser(p)
  BY LosersFree
<1>5. Edited(remote) \subseteq LivePaths
  BY LiveRows
<1>6. /\ \A q \in DOMAIN tree : IsMarker(q) /\ IsMarker(Parent(q)) => Parent(q) \in LivePaths
      /\ \A p \in DOMAIN base.files : base.files[p].hash \in Kept(seen)
  <2>1. \A p \in DOMAIN base.files :
            p \in DOMAIN snapshots[base.last_rev] /\ base.files[p].hash = snapshots[base.last_rev][p]
    BY DEF DeviceInv, ContentsIn
  <2> QED BY <2>1 DEF DeviceInv, LosersAlone, SnapshotsKept
<1> HIDE DEF local, remote, loser
<1>7. ASSUME NEW c \in cycle.todo
      PROVE  ToRename(c, cycle, tree, base)
  <2>1. /\ c \in plan.conflicts /\ c.winner = "server" /\ c.path \in ServerWins(local, remote)
        /\ c.loser_path = loser(c.path)
    BY <1>3
  <2>2. /\ c.path \in DOMAIN tree
        /\ c.path \in DOMAIN base.files => ~ Same(tree, base.files, c.path)
    BY <1>1, <1>2, <2>1 DEF Same
  <2>3. c.path \in Replaced(plan) /\ c.path \in LivePaths
    BY <1>2, <1>3, <1>5, <2>1 DEF Replaced
  <2>4. /\ IsMarker(c.loser_path) /\ Parent(c.loser_path) = c.path
        /\ c.loser_path \notin DOMAIN remote /\ c.loser_path \notin DOMAIN tree
        /\ \A x \in DOMAIN tree : IsMarker(x) => Parent(x) # c.loser_path
    BY <1>2, <1>4, <2>1
  <2>5. c.loser_path \notin Replaced(plan)
    <3>1. \A p \in ClientWins(local, remote) : loser(p) # c.loser_path
      BY <1>2, <1>4, <2>1, <2>4
    <3> QED BY <1>2, <1>3, <2>4, <3>1 DEF Replaced
  <2>6. \A e \in cycle.todo : e.path = c.path => e = c
    <3>1. \A e \in cycle.todo : /\ e = [path |-> e.path, winner |-> e.winner, loser_path |-> e.loser_path]
                                /\ e.loser_path = loser(e.path) /\ e.winner = "server"
      BY <1>3
    <3> QED BY <3>1
  <2> QED BY <2>1, <2>2, <2>3, <2>4, <2>5, <2>6 DEF ToRename, Same
<1>8. ASSUME NEW p \in (Replaced(cycle.plan) \cap DOMAIN tree) \ TodoPaths(cycle)
      PROVE  tree[p].hash \in Kept(seen)
  <2>1. p \notin ServerWins(local, remote)
    BY <1>3 DEF TodoPaths
  <2>2. \A x \in ClientWins(local, remote) : loser(x) # p
    BY <1>2, <1>4
  <2>3. p \notin Puts(local)
    BY <1>1, <1>3, <2>1, <2>2 DEF Replaced
  <2>4. p \in DOMAIN base.files /\ tree[p].hash = base.files[p].hash
    BY <1>1, <2>3
  <2> QED BY <1>6, <2>4
<1> QED BY <1>6, <1>7, <1>8 DEF RenameStage, Same

\* And what its session owes to the tree it will commit.
LEMMA PlannedOwned ==
    ASSUME IndexTypeOK, MarkersStay, NEW tree, TreeTypeOK(tree),
           NEW base, TreeTypeOK(base.files), base.last_rev \in 0 .. head_rev,
           NEW seen, DeviceInv(tree, base, seen), ~ BeforeFloor(base.last_rev),
           NEW cycle, NEW session,
           session.since <= base.last_rev, session.changes = LocalChanges(base.files, tree),
           DOMAIN session.blobs = {},
           cycle.plan = ComputePlan(session.changes, ChangesSince(session.since), LivePaths),
           cycle.staged = tree, cycle.todo = {c \in cycle.plan.conflicts : c.winner = "server"}
    PROVE  OwnedStage(session, cycle, base, seen)
<1> DEFINE local  == LocalChanges(base.files, tree)
           remote == ChangesSince(session.since)
<1>1. /\ \A p : p \in Puts(local) <=>
             p \in DOMAIN tree /\ (p \in DOMAIN base.files => base.files[p].hash # tree[p].hash)
      /\ DOMAIN local = Puts(local) \cup Deletes(local)
      /\ Deletes(local) = DOMAIN base.files \ DOMAIN tree
      /\ \A p \in Puts(local) : local[p].hash = tree[p].hash
  <2>1. Reports(local, base.files, tree)
    BY ReportType
  <2> HIDE DEF local
  <2> QED BY <2>1 DEF Reports
<1>2. ASSUME NEW c \in cycle.plan.conflicts
      PROVE  c.loser_path \notin DOMAIN local \cup DOMAIN base.files \cup LivePaths
  <2>1. c.path \in Clashes(local, remote) /\ c.loser_path = NextConflictPath(c.path, LivePaths)
    BY PlanLists DEF ServerWins, ClientWins
  <2> QED BY <2>1, LosersFree
<1>3. Done(cycle) = {} /\ DonePaths(cycle) = {} /\ DoneLosers(cycle) = {}
  BY DEF Done, DonePaths, DoneLosers
<1> HIDE DEF local
<1>4. \A p \in DOMAIN local \cap DOMAIN base.files :
          OnServerSince(p, base.last_rev) => ~ IsMarker(p) /\ base.files[p].hash \in seen
  BY <1>1 DEF DeviceInv, Told, Same
<1>5. DOMAIN tree = Puts(local) \cup (DOMAIN base.files \ DOMAIN local)
  BY <1>1
<1>6. \A p \in DOMAIN base.files \ DOMAIN local : tree[p].hash = base.files[p].hash
  BY <1>1
<1>7. session.changes = local
  BY DEF local
<1> QED BY <1>1, <1>2, <1>3, <1>4, <1>5, <1>6, <1>7 DEF OwnedStage

\* The rows and their history stay.
LEMMA StillGrows ==
    ASSUME head_rev \in Nat, UNCHANGED <<head_rev, file_index, live, snapshots, superseded>>
    PROVE  Grows
BY DEF Grows, LivePaths, ContentsOnServer, OnServerSince

\* What is left to show of a step that only sessions and cycles take.
LEMMA SessionsMove ==
    ASSUME ContentInv, SystemOK', PlansDisjoint',
           UNCHANGED <<head_rev, min_valid_rev, file_index, live, snapshots>>,
           UNCHANGED <<disk, baseline, versions, superseded>>,
           \A e \in Devices : CycleInv(e, sync[e], disk[e], baseline[e], superseded)'
    PROVE  ContentInv'
<1>1. head_rev \in Nat
  BY Counters DEF ContentInv
<1>2. Grows
  BY <1>1, StillGrows
<1>3. \A e \in Devices : DeviceInv(disk[e], baseline[e], superseded)'
  <2>1. \A e \in Devices : baseline'[e].last_rev \in 0 .. head_rev
    BY DEF ContentInv, SystemOK, BaselineOK
  <2>2. \A e \in Devices : DeviceInv(disk'[e], baseline'[e], superseded)
    BY DEF ContentInv
  <2> QED BY <1>2, <2>1, <2>2, DeviceGrows
<1>4. ServerKeeps'
  <2>1. NoMissedChange'
    BY IndexStays DEF ContentInv, ServerKeeps
  <2>2. IndexMatchesLive' /\ MarkersStay' /\ SnapshotsShaped'
    BY DEF ContentInv, ServerKeeps, IndexMatchesLive, MarkersStay, SnapshotsShaped, LivePaths
  <2>3. SnapshotsKept(superseded)'
    BY <1>2, KeptGrows DEF ContentInv, ServerKeeps, SnapshotsKept
  <2> QED BY <2>1, <2>2, <2>3 DEF ServerKeeps
<1>5. NoLostContent'
  BY DEF ContentInv, NoLostContent, ContentsOnDisks, ContentsOnServer
<1> QED BY <1>3, <1>4, <1>5 DEF ContentInv

\* Sessions close, and perhaps a cycle ends.
LEMMA ClosingKeeps ==
    ASSUME ContentInv, SystemOK', NEW d \in Devices, NEW ids, sessions' = Without(sessions, ids),
           UNCHANGED <<head_rev, min_valid_rev, file_index, live, snapshots>>,
           UNCHANGED <<disk, baseline, versions, superseded>>,
           sync' = [sync EXCEPT ![d] = Idle] \/ sync' = sync
    PROVE  ContentInv'
<1>1. head_rev \in Nat
  BY Counters DEF ContentInv
<1>2. Grows
  BY <1>1, StillGrows
<1>3. \A s \in DOMAIN sessions' : s \in DOMAIN sessions /\ sessions'[s] = sessions[s]
  BY DEF Without
<1>4. ASSUME NEW e \in Devices
      PROVE  CycleInv(e, sync[e], disk[e], baseline[e], superseded)'
  <2>1. CASE sync'[e] = Idle
    BY <2>1 DEF CycleInv, Idle
  <2>2. CASE sync'[e] = sync[e]
    <3>1. \A s : SessionLeft(s, e)
      BY <1>3 DEF SessionLeft
    <3>2. UNCHANGED <<disk[e], baseline[e], sync[e]>>
      BY <2>2
    <3> QED BY <1>2, <3>1, <3>2, OthersHold
  <2>3. sync'[e] = Idle \/ sync'[e] = sync[e]
    BY DEF ContentInv, SystemOK, CyclesOK
  <2> QED BY <2>1, <2>2, <2>3
<1>5. PlansDisjoint'
  BY <1>3 DEF ContentInv, PlansDisjoint, ListsDisjoint
<1> QED BY <1>4, <1>5, SessionsMove

\* The lists of a plan the server has just made are disjoint.
LEMMA PlanKeepsDisjoint ==
    ASSUME ContentInv, NEW d \in Devices, Plan(d, baseline[d].last_rev, Report(d)), SystemOK'
    PROVE  PlansDisjoint'
<1> DEFINE base    == baseline[d]
           tree    == disk[d]
           since   == Since(d, base.last_rev)
           local   == LocalChanges(base.files, tree)
           remote  == ChangesSince(since)
           session == sessions'[session_count']
           plan    == ComputePlan(local, remote, LivePaths)
<1>1. /\ IndexTypeOK /\ MarkersStay /\ TreeTypeOK(tree) /\ TreeTypeOK(base.files)
      /\ base.last_rev \in 0 .. head_rev /\ DeviceInv(tree, base, superseded)
  BY DEF ContentInv, SystemOK, ServerCore, ServerTypeOK, DiskOK, WrittenTree, BaselineOK, ServerKeeps
<1>2. /\ DOMAIN sessions' = {session_count'}
      /\ session = NewSession(d, since, local)
  <2>1. ReportTypeOK(Report(d)) /\ base.last_rev \in Nat
    BY <1>1, ReportType, Counters DEF Report, ContentInv
  <2>2. ServerCore
    BY DEF ContentInv, SystemOK
  <2> QED BY <2>1, <2>2, PlanStep DEF Report
<1>3. session.plan = plan
  BY <1>2 DEF NewSession
<1>4. FreshLosers(local, remote, LivePaths)
  <2> HIDE DEF base, tree, since
  <2>1. ASSUME NEW p \in Clashes(local, remote)
        PROVE  NextConflictPath(p, LivePaths) \notin DOMAIN local \cup DOMAIN remote
    BY <1>1, LosersFree
  <2> QED BY <2>1 DEF FreshLosers
<1>5. /\ DOMAIN local \subseteq Path /\ IsFiniteSet(LivePaths) /\ Edited(remote) \subseteq LivePaths
  <2>1. ReportTypeOK(local)
    BY <1>1, ReportType
  <2> QED BY <1>1, <2>1, LiveRows DEF ReportTypeOK
<1> HIDE DEF local, remote, session
<1>6. /\ UploadPaths(plan) \cap DownloadPaths(plan) = {}
      /\ UploadPaths(plan) \cap plan.delete_local = {}
      /\ DownloadPaths(plan) \cap plan.delete_local = {}
      /\ RepeatedUploads(plan) = {}
  BY <1>4, <1>5, PlanDisjoint
<1> HIDE DEF plan
<1> QED BY <1>2, <1>3, <1>6 DEF PlansDisjoint, ListsDisjoint, session

\* No cycle owns the session of the plan that has just been made.
LEMMA OthersAfterPlan ==
    ASSUME ContentInv, NEW d \in Devices, Plan(d, baseline[d].last_rev, Report(d)), SystemOK',
           UNCHANGED <<disk, baseline, superseded>>,
           NEW e \in Devices, sync'[e] = sync[e]
    PROVE  CycleInv(e, sync[e], disk[e], baseline[e], superseded)'
<1>1. UNCHANGED <<head_rev, file_index, live, snapshots>>
  BY DEF Plan
<1>2. Grows
  BY <1>1, StillGrows, Counters DEF ContentInv
<1>3. DOMAIN sessions' = {session_count'} /\ session_count' = session_count + 1
  <2>1. ReportTypeOK(Report(d))
    BY ReportType DEF Report, ContentInv, SystemOK, BaselineOK, DiskOK, WrittenTree
  <2>2. ServerCore /\ baseline[d].last_rev \in Nat
    BY Counters DEF ContentInv, SystemOK, BaselineOK
  <2> QED BY <2>1, <2>2, PlanStep
<1>4. sync[e].step = "rename" => SessionLeft(sync[e].session, e)
  <2>1. sync[e].step = "rename" => sync[e].session \in 1 .. session_count
    BY RenameStep DEF ContentInv, RenamingOK
  <2>2. session_count \in Nat
    BY Counters DEF ContentInv
  <2> QED BY <1>3, <2>1, <2>2 DEF SessionLeft
<1>5. UNCHANGED <<disk[e], baseline[e], sync[e]>>
  OBVIOUS
<1> QED BY <1>2, <1>4, <1>5, OthersHold

\* A plan is granted in vain.
LEMMA PlanInVainKeeps ==
    ASSUME ContentInv, SystemOK', NEW d \in Devices, Plan(d, baseline[d].last_rev, Report(d)),
           UNCHANGED deviceVars
    PROVE  ContentInv'
<1>1. UNCHANGED <<head_rev, min_valid_rev, file_index, live, snapshots>>
  BY DEF Plan
<1>2. UNCHANGED <<disk, baseline, versions, superseded>> /\ sync' = sync
  BY DEF deviceVars
<1>3. \A e \in Devices : CycleInv(e, sync[e], disk[e], baseline[e], superseded)'
  BY <1>2, OthersAfterPlan
<1> QED BY <1>1, <1>2, <1>3, PlanKeepsDisjoint, SessionsMove

\* A plan is refused, or granted in vain.
LEMMA StartSyncInVainKeeps ==
    ASSUME ContentInv, SystemOK', NEW d \in Devices, StartSyncInVain(d)
    PROVE  ContentInv'
<1>1. UNCHANGED <<disk, baseline, versions, superseded>> /\ sync' = sync /\ UNCHANGED deviceVars
  BY DEF StartSyncInVain, deviceVars
<1>2. ASSUME NEW ids, sessions' = Without(sessions, ids),
             UNCHANGED <<head_rev, min_valid_rev, file_index, live, snapshots>>
      PROVE  ContentInv'
  BY <1>1, <1>2, ClosingKeeps
<1>3. CASE PlanBusy(d)
  BY <1>2, <1>3 DEF PlanBusy
<1>4. CASE PlanGone(d, baseline[d].last_rev)
  BY <1>2, <1>4 DEF PlanGone
<1>5. CASE Plan(d, baseline[d].last_rev, Report(d))
  BY <1>1, <1>5, PlanInVainKeeps
<1> QED BY <1>3, <1>4, <1>5 DEF StartSyncInVain

\* A device is revoked and pairs again.
LEMMA PairAgainKeeps ==
    ASSUME ContentInv, SystemOK', NEW d \in Devices, PairAgain(d)
    PROVE  ContentInv'
<1>1. /\ UNCHANGED <<head_rev, min_valid_rev, file_index, live, snapshots>>
      /\ UNCHANGED <<disk, baseline, versions, superseded>>
      /\ sessions' = Without(sessions, SessionsOf(d))
      /\ sync' = [sync EXCEPT ![d] = Idle]
  BY DEF PairAgain, RevokeDevice
<1> QED BY <1>1, ClosingKeeps

\* What is said of a cycle before its commit is about the rows only.
LEMMA StageStill ==
    ASSUME UNCHANGED <<min_valid_rev, file_index, live>>,
           NEW session, NEW cycle, NEW tree, NEW base, NEW seen
    PROVE  /\ RenameStage(cycle, tree, base, seen) => RenameStage(cycle, tree, base, seen)'
           /\ OwnedStage(session, cycle, base, seen) => OwnedStage(session, cycle, base, seen)'
<1>1. LivePaths' = LivePaths /\ Kept(seen)' = Kept(seen)
  BY DEF LivePaths, Kept, ContentsOnServer
<1>2. \A c : ToRename(c, cycle, tree, base)' <=> ToRename(c, cycle, tree, base)
  BY <1>1 DEF ToRename, Same
<1>3. \A p, r : OnServerSince(p, r)' <=> OnServerSince(p, r)
  BY <1>1 DEF OnServerSince
<1>4. BeforeFloor(base.last_rev)' <=> BeforeFloor(base.last_rev)
  BY DEF BeforeFloor
<1>5. RenameStage(cycle, tree, base, seen) => RenameStage(cycle, tree, base, seen)'
  BY <1>1, <1>2 DEF RenameStage, Same
<1>6. OwnedStage(session, cycle, base, seen) => OwnedStage(session, cycle, base, seen)'
  BY <1>1, <1>3, <1>4 DEF OwnedStage
<1> QED BY <1>5, <1>6

\* A cycle begins.
LEMMA StartSyncKeeps ==
    ASSUME ContentInv, SystemOK', NEW d \in Devices, StartSync(d)
    PROVE  ContentInv'
<1> DEFINE last    == baseline[d].last_rev
           id      == session_count'
           session == sessions'[id]
           cycle   == Started(d, id, session.plan)
<1>1. /\ Plan(d, last, Report(d)) /\ sync' = [sync EXCEPT ![d] = cycle]
      /\ UNCHANGED <<disk, baseline, versions, superseded>>
  BY DEF StartSync
<1>2. UNCHANGED <<head_rev, min_valid_rev, file_index, live, snapshots>>
  BY <1>1 DEF Plan
<1>3. sync'[d] = cycle /\ \A e \in Devices \ {d} : sync'[e] = sync[e]
  BY <1>1 DEF ContentInv, SystemOK, CyclesOK
<1>4. /\ IndexTypeOK /\ MarkersStay /\ TreeTypeOK(disk[d]) /\ TreeTypeOK(baseline[d].files)
      /\ last \in 0 .. head_rev /\ DeviceInv(disk[d], baseline[d], superseded)
      /\ SnapshotsKept(superseded) /\ device_last_rev[d] \in Nat /\ last \in Nat
      /\ ServerCore
  BY Counters DEF ContentInv, SystemOK, ServerCore, ServerTypeOK, DiskOK, WrittenTree, BaselineOK, ServerKeeps
<1>5. session = NewSession(d, Since(d, last), Report(d))
  <2>1. ReportTypeOK(Report(d))
    BY <1>4, ReportType DEF Report
  <2> QED BY <1>1, <1>4, <2>1, PlanStep
<1>6. /\ session.since = Since(d, last) /\ session.changes = LocalChanges(baseline[d].files, disk[d])
      /\ DOMAIN session.blobs = {} /\ session.device = d
      /\ session.plan = ComputePlan(session.changes, ChangesSince(session.since), LivePaths)
  BY <1>5 DEF NewSession, Report
<1>7. session.since <= last
  BY <1>4, <1>6 DEF Since
<1>8. /\ cycle.step = "rename" /\ cycle.plan = session.plan /\ cycle.staged = disk[d]
      /\ cycle.session = id /\ cycle.todo = {c \in cycle.plan.conflicts : c.winner = "server"}
  BY DEF Started
<1> HIDE DEF cycle, session, last
<1>9. RenameStage(cycle, disk[d], baseline[d], superseded)
  <2>1. cycle.plan = ComputePlan(LocalChanges(baseline[d].files, disk[d]),
                                 ChangesSince(session.since), LivePaths)
    BY <1>6, <1>8
  <2> QED BY <1>4, <1>8, <2>1, PlannedStage DEF last
<1>10. OwnedStage(session, cycle, baseline[d], superseded)
  <2>1. ~ BeforeFloor(baseline[d].last_rev) /\ session.since <= baseline[d].last_rev
    BY <1>1, <1>7 DEF Plan, last
  <2>2. cycle.plan = ComputePlan(session.changes, ChangesSince(session.since), LivePaths)
    BY <1>6, <1>8
  <2> QED BY <1>4, <1>6, <1>8, <2>1, <2>2, PlannedOwned DEF last
<1>11. RenameStage(sync[d], disk[d], baseline[d], superseded)'
  <2>1. RenameStage(sync'[d], disk'[d], baseline'[d], superseded')
    BY <1>1, <1>3, <1>9
  <2> QED BY <1>2, <2>1, StageStill
<1>12. OwnedStage(sessions[sync[d].session], sync[d], baseline[d], superseded)'
  <2>1. OwnedStage(sessions'[sync'[d].session], sync'[d], baseline'[d], superseded')
    BY <1>1, <1>3, <1>8, <1>10 DEF session
  <2> QED BY <1>2, <2>1, StageStill
<1>13. CycleInv(d, sync[d], disk[d], baseline[d], superseded)'
  BY <1>3, <1>8, <1>11, <1>12 DEF CycleInv
<1>14. \A e \in Devices \ {d} : CycleInv(e, sync[e], disk[e], baseline[e], superseded)'
  BY <1>1, <1>3, OthersAfterPlan DEF last
<1>15. PlansDisjoint'
  BY <1>1, PlanKeepsDisjoint DEF last
<1> QED BY <1>1, <1>2, <1>13, <1>14, <1>15, SessionsMove

\* A blob arrives: it is what the tree to be committed holds there.
LEMMA UploadKeeps ==
    ASSUME ContentInv, SystemOK', NEW d \in Devices, Upload(d)
    PROVE  ContentInv'
<1> DEFINE cycle == sync[d]
           s     == cycle.session
<1>1. PICK p \in DOMAIN cycle.staged :
          PutBlob(d, s, p, cycle.staged[p].hash, cycle.staged[p].mtime)
  BY DEF Upload
<1> DEFINE hash  == cycle.staged[p].hash
           mtime == cycle.staged[p].mtime
           old   == sessions[s].blobs
<1>2. /\ cycle.step = "rename" /\ cycle.todo = {} /\ OwnedBy(s, d)
      /\ UNCHANGED <<disk, baseline, sync, versions, superseded>>
  BY DEF Upload, deviceVars
<1>3. UNCHANGED <<head_rev, min_valid_rev, file_index, live, snapshots>>
  BY <1>1 DEF PutBlob
<1>4. p \in Path /\ hash \in Hashes /\ mtime \in Int
  <2>1. WrittenTree(cycle.staged)
    BY <1>2, RenameStep DEF ContentInv, RenamingOK
  <2> QED BY <2>1 DEF WrittenTree, TreeTypeOK, Meta
<1>5. /\ RenameStage(cycle, disk[d], baseline[d], superseded)
      /\ OwnedStage(sessions[s], cycle, baseline[d], superseded)
  BY <1>2 DEF ContentInv, CycleInv
<1>6. s \in DOMAIN sessions /\ sessions[s].device = d
  BY <1>2 DEF OwnedBy
<1> HIDE DEF hash, mtime
<1>7. /\ DOMAIN sessions' = DOMAIN sessions
      /\ \A t \in DOMAIN sessions :
            /\ sessions'[t].device = sessions[t].device /\ sessions'[t].plan = sessions[t].plan
            /\ sessions'[t].since = sessions[t].since /\ sessions'[t].changes = sessions[t].changes
            /\ \/ sessions'[t].blobs = sessions[t].blobs
               \/ t = s /\ sessions'[t].blobs = Staged(sessions[t].blobs, p, hash, mtime)
  <2>1. ServerCore
    BY DEF ContentInv, SystemOK
  <2>2. PutBlob(d, s, p, hash, mtime)
    BY <1>1 DEF hash, mtime
  <2> QED BY <1>4, <2>1, <2>2, PutBlobStep
<1>8. \A t \in DOMAIN sessions \ {s} : sessions'[t] = sessions[t]
  BY <1>1 DEF PutBlob
<1>9. OwnedStage(sessions'[s], cycle, baseline[d], superseded)
  <2> DEFINE session == sessions'[s]
  <2>1. session.since = sessions[s].since /\ session.changes = sessions[s].changes
    BY <1>6, <1>7
  <2>2. session.blobs = old \/ session.blobs = Staged(old, p, hash, mtime)
    BY <1>6, <1>7
  <2>3. \A x \in DOMAIN old : x \in DOMAIN cycle.staged /\ old[x].hash = cycle.staged[x].hash
    BY <1>5 DEF OwnedStage
  <2> HIDE DEF session, old
  <2>4. \A x \in DOMAIN session.blobs :
            x \in DOMAIN cycle.staged /\ session.blobs[x].hash = cycle.staged[x].hash
    <3>1. CASE session.blobs = old
      BY <2>3, <3>1
    <3>2. CASE session.blobs = Staged(old, p, hash, mtime)
      BY <2>3, <3>2 DEF Staged, hash
    <3> QED BY <2>2, <3>1, <3>2
  <2>5. OwnedStage(session, cycle, baseline[d], superseded)
    BY <1>2, <1>5, <2>1, <2>4 DEF OwnedStage
  <2> QED BY <2>5 DEF session
<1>10. CycleInv(d, sync[d], disk[d], baseline[d], superseded)'
  <2>1. /\ RenameStage(sync'[d], disk'[d], baseline'[d], superseded')
        /\ OwnedStage(sessions'[sync'[d].session], sync'[d], baseline'[d], superseded')
    BY <1>2, <1>5, <1>9
  <2>2. /\ RenameStage(sync[d], disk[d], baseline[d], superseded)'
        /\ OwnedStage(sessions[sync[d].session], sync[d], baseline[d], superseded)'
    BY <1>3, <2>1, StageStill
  <2>3. sync'[d].step = "rename"
    BY <1>2
  <2> QED BY <2>2, <2>3 DEF CycleInv
<1>11. \A e \in Devices \ {d} : CycleInv(e, sync[e], disk[e], baseline[e], superseded)'
  <2>1. Grows
    BY <1>2, <1>3, StillGrows, Counters DEF ContentInv
  <2>2. ASSUME NEW e \in Devices \ {d}
        PROVE  CycleInv(e, sync[e], disk[e], baseline[e], superseded)'
    <3>1. SessionLeft(sync[e].session, e)
      BY <1>3, <1>6, <1>7, <1>8 DEF SessionLeft
    <3>2. UNCHANGED <<disk[e], baseline[e], sync[e]>>
      BY <1>2
    <3> QED BY <2>1, <3>1, <3>2, OthersHold
  <2> QED BY <2>2
<1>12. PlansDisjoint'
  BY <1>7 DEF ContentInv, PlansDisjoint, ListsDisjoint
<1> QED BY <1>2, <1>3, <1>10, <1>11, <1>12, SessionsMove

-----------------------------------------------------------------------------
(***************************************************************************)
(* Commits.                                                                *)
(***************************************************************************)

\* What becomes of each path by a plan: what it overwrites on the server is
\* new to the device or kept as a loser, and what it leaves alone is the same
\* on both sides.
Sorts(local, remote, taken, plan) ==
    /\ \A p \in UploadPaths(plan) :
        \/ p \in Puts(local) \ Edited(remote)
        \/ p \in Edited(remote) /\ \E i \in plan.download : i.hash = remote[p].hash
        \/ p \notin taken
    /\ \A i \in plan.download :
        \/ i.path \in Edited(remote) /\ i.hash = remote[i.path].hash
        \/ i.path \notin taken /\ Parent(i.path) \in taken
    /\ plan.server_delete = Deletes(local) \ DOMAIN remote
    /\ plan.delete_local \subseteq Buried(remote)
    /\ \A p \in DOMAIN local :
        \/ p \in UploadPaths(plan) \cup Replaced(plan) \cup plan.server_delete
        \/ p \in Puts(local) \cap Edited(remote) /\ local[p].hash = remote[p].hash
        \/ p \in Deletes(local) \cap Buried(remote)
    /\ DOMAIN remote \subseteq UploadPaths(plan) \cup Replaced(plan) \cup DOMAIN local
    /\ \A c \in plan.conflicts : c.winner = "server" =>
        c.path \in DownloadPaths(plan) /\ c.loser_path \in UploadPaths(plan)

\* So does the plan of any report.
LEMMA PlanSorts ==
    ASSUME NEW local, ReportTypeOK(local), NEW remote,
           NEW taken, IsFiniteSet(taken), Edited(remote) \subseteq taken,
           NEW plan, plan = ComputePlan(local, remote, taken)
    PROVE  Sorts(local, remote, taken, plan)
<1> DEFINE loser(p) == NextConflictPath(p, taken)
<1>1. /\ DOMAIN local = Puts(local) \cup Deletes(local)
      /\ Puts(local) \cap Deletes(local) = {}
      /\ DOMAIN local \subseteq Path
  BY DEF ReportTypeOK, Change, Puts, Deletes
<1>2. /\ Edited(remote) \cup Buried(remote) = DOMAIN remote
      /\ ClientWins(local, remote) \cup ServerWins(local, remote) = Clashes(local, remote)
      /\ \A p : p \in Clashes(local, remote) <=>
             p \in Puts(local) \cap Edited(remote) /\ local[p].hash # remote[p].hash
  BY DEF Edited, Buried, ClientWins, ServerWins, Clashes
<1>3. /\ UploadPaths(plan) = (Puts(local) \ Edited(remote)) \cup ClientWins(local, remote)
                                 \cup {loser(p) : p \in ServerWins(local, remote)}
      /\ DownloadPaths(plan) = (Edited(remote) \ Puts(local)) \cup ServerWins(local, remote)
                                   \cup {loser(p) : p \in ClientWins(local, remote)}
      /\ plan.delete_local = Buried(remote) \ DOMAIN local
      /\ plan.server_delete = Deletes(local) \ DOMAIN remote
  BY PlanLists
<1>4. \A c \in plan.conflicts :
          /\ c.loser_path = loser(c.path)
          /\ \/ c.winner = "server" /\ c.path \in ServerWins(local, remote)
             \/ c.winner = "client" /\ c.path \in ClientWins(local, remote)
  BY PlanLists
<1>5. \A i \in plan.download :
          \/ /\ i.path \in (Edited(remote) \ Puts(local)) \cup ServerWins(local, remote)
             /\ i = DownloadItem(i.path, remote[i.path].hash, remote[i.path].mtime)
          \/ \E p \in ClientWins(local, remote) :
                 i = DownloadItem(loser(p), remote[p].hash, remote[p].mtime)
  BY PlanLists
<1>6. \A p \in Clashes(local, remote) : loser(p) \notin taken /\ Parent(loser(p)) = p
  BY <1>1, <1>2, NextConflictPathFresh, LoserParent
<1> HIDE DEF loser
<1>7. ASSUME NEW p \in ClientWins(local, remote)
      PROVE  \E i \in plan.download : i.hash = remote[p].hash
  <2>1. PICK i \in plan.download : i.path = loser(p)
    BY <1>3 DEF DownloadPaths
  <2>2. i.path \notin Edited(remote)
    BY <1>2, <1>6, <2>1
  <2>3. PICK x \in ClientWins(local, remote) :
            i = DownloadItem(loser(x), remote[x].hash, remote[x].mtime)
    BY <1>2, <1>5, <2>2
  <2>4. loser(x) = loser(p) /\ i.hash = remote[x].hash
    BY <2>1, <2>3 DEF DownloadItem
  <2>5. x = p
    BY <1>2, <1>6, <2>4
  <2> QED BY <2>4, <2>5
<1>8. ASSUME NEW p \in UploadPaths(plan)
      PROVE  \/ p \in Puts(local) \ Edited(remote)
             \/ p \in Edited(remote) /\ \E i \in plan.download : i.hash = remote[p].hash
             \/ p \notin taken
  BY <1>2, <1>3, <1>6, <1>7
<1>9. ASSUME NEW i \in plan.download
      PROVE  \/ i.path \in Edited(remote) /\ i.hash = remote[i.path].hash
             \/ i.path \notin taken /\ Parent(i.path) \in taken
  <2>1. CASE /\ i.path \in (Edited(remote) \ Puts(local)) \cup ServerWins(local, remote)
             /\ i = DownloadItem(i.path, remote[i.path].hash, remote[i.path].mtime)
    BY <1>2, <2>1 DEF DownloadItem
  <2>2. CASE \E p \in ClientWins(local, remote) :
                 i = DownloadItem(loser(p), remote[p].hash, remote[p].mtime)
    BY <1>2, <1>6, <2>2 DEF DownloadItem
  <2> QED BY <1>5, <2>1, <2>2
<1>10. ASSUME NEW p \in DOMAIN local
       PROVE  \/ p \in UploadPaths(plan) \cup Replaced(plan) \cup plan.server_delete
              \/ p \in Puts(local) \cap Edited(remote) /\ local[p].hash = remote[p].hash
              \/ p \in Deletes(local) \cap Buried(remote)
  BY <1>1, <1>2, <1>3 DEF Replaced
<1>11. DOMAIN remote \subseteq UploadPaths(plan) \cup Replaced(plan) \cup DOMAIN local
  BY <1>1, <1>2, <1>3 DEF Replaced
<1>12. \A c \in plan.conflicts : c.winner = "server" =>
           c.path \in DownloadPaths(plan) /\ c.loser_path \in UploadPaths(plan)
  BY <1>3, <1>4
<1>13. plan.delete_local \subseteq Buried(remote)
  BY <1>3
<1> QED BY <1>3, <1>8, <1>9, <1>10, <1>11, <1>12, <1>13 DEF Sorts

\* What a device and the server have in common but for what the server would
\* tell it.
Agrees(base, remote) ==
    /\ \A p \in DOMAIN remote : p \in DOMAIN file_index /\ remote[p] = file_index[p]
    /\ \A p \in Edited(remote) : p \in LivePaths
    /\ \A p \in Buried(remote) : p \in DOMAIN file_index /\ file_index[p].deleted /\ p \notin LivePaths
    /\ \A p : p \notin DOMAIN remote => (p \in LivePaths <=> p \in DOMAIN base.files)
    /\ \A p \in LivePaths \ DOMAIN remote :
           OnServerSince(p, base.last_rev) /\ base.files[p].hash = file_index[p].hash

\* A device that is not behind the floor has all the rest in common.
LEMMA RestAgrees ==
    ASSUME ContentInv, NEW base, base.last_rev \in 0 .. head_rev, ~ BeforeFloor(base.last_rev),
           ContentsIn(base.files) = snapshots[base.last_rev],
           NEW since \in Nat, since <= base.last_rev,
           NEW remote, remote = ChangesSince(since)
    PROVE  Agrees(base, remote)
<1> DEFINE last == base.last_rev
<1>1. /\ LivePaths \subseteq DOMAIN file_index
      /\ \A p \in DOMAIN file_index : p \in LivePaths <=> ~ file_index[p].deleted
  BY DEF LivePaths, LivePathsOf
<1>2. \A p \in DOMAIN file_index : file_index[p].rev \in Nat
  BY DEF ContentInv, SystemOK, ServerCore, ServerTypeOK, IndexTypeOK, Entry
<1>3. /\ \A p : p \in DOMAIN remote <=> p \in DOMAIN file_index /\ file_index[p].rev > since
      /\ \A p \in DOMAIN remote : remote[p] = file_index[p]
  BY DEF ChangesSince
<1>4. /\ DOMAIN snapshots[last] = DOMAIN base.files
      /\ \A p \in DOMAIN base.files : snapshots[last][p] = base.files[p].hash
  BY DEF ContentsIn
<1>5. \A p \in DOMAIN ChangesSince(last) : p \in DOMAIN remote
  BY <1>2, <1>3 DEF ChangesSince
<1>6. DOMAIN ContentsOf(file_index) = LivePaths
  BY DEF ContentsOf, LivePaths
<1> HIDE DEF last
<1>7. ASSUME NEW p, p \notin DOMAIN remote
      PROVE  p \in LivePaths <=> p \in DOMAIN base.files
  <2>1. NoMissedChange /\ last \in 0 .. head_rev /\ ~ BeforeFloor(last)
    BY DEF ContentInv, ServerKeeps, last
  <2>2. p \in DOMAIN snapshots[last] \cup LivePaths => p \in DOMAIN snapshots[last] /\ p \in LivePaths
    BY <1>5, <1>6, <1>7, <2>1 DEF NoMissedChange
  <2> QED BY <1>4, <2>2
<1>8. ASSUME NEW p \in LivePaths, p \notin DOMAIN remote
      PROVE  OnServerSince(p, last) /\ base.files[p].hash = file_index[p].hash
  <2>1. OnServerSince(p, last)
    BY <1>1, <1>2, <1>3, <1>8 DEF OnServerSince, last
  <2>2. snapshots[last][p] = file_index[p].hash /\ p \in DOMAIN snapshots[last]
    BY <2>1, RowsSay DEF last
  <2> QED BY <1>4, <2>1, <2>2
<1>9. \A p \in Edited(remote) : p \in LivePaths
  BY <1>1, <1>3 DEF Edited
<1>10. \A p \in Buried(remote) : p \in DOMAIN file_index /\ file_index[p].deleted /\ p \notin LivePaths
  BY <1>1, <1>3 DEF Buried
<1> QED BY <1>3, <1>7, <1>8, <1>9, <1>10 DEF Agrees, last

\* What a device about to commit knows.
LEMMA CommitterSays ==
    ASSUME ContentInv, NEW d \in Devices, sync[d].step = "rename", OwnedBy(sync[d].session, d),
           NEW session, session = sessions[sync[d].session],
           NEW remote, remote = ChangesSince(session.since)
    PROVE  /\ OwnedStage(session, sync[d], baseline[d], superseded)
           /\ RenameStage(sync[d], disk[d], baseline[d], superseded)
           /\ session.plan = sync[d].plan
           /\ ReportTypeOK(session.changes)
           /\ Sorts(session.changes, remote, LivePaths, sync[d].plan)
           /\ Agrees(baseline[d], remote)
           /\ FreshLosers(session.changes, remote, LivePaths)
<1> DEFINE s == sync[d].session
           local == session.changes
           plan  == sync[d].plan
<1>1. OwnedStage(session, sync[d], baseline[d], superseded)
  BY DEF ContentInv, CycleInv
<1>2. RenameStage(sync[d], disk[d], baseline[d], superseded)
  BY DEF ContentInv, CycleInv
<1>3. s \in DOMAIN sessions /\ Fresh(s) /\ session.plan = plan
  BY CommitterFresh DEF ContentInv
<1>4. SessionTypeOK(session) /\ IndexTypeOK /\ ServerCore
  BY <1>3 DEF ContentInv, SystemOK, ServerCore, ServerTypeOK
<1>5. ReportTypeOK(local) /\ session.since \in Nat
  BY <1>4, BoundsAssumption DEF SessionTypeOK
<1>6. plan = ComputePlan(local, remote, LivePaths)
  BY <1>3 DEF Fresh
<1>7. IsFiniteSet(LivePaths) /\ Edited(remote) \subseteq LivePaths
  BY <1>4, LiveRows
<1>8. Agrees(baseline[d], remote)
  <2>1. ~ BeforeFloor(baseline[d].last_rev) /\ session.since <= baseline[d].last_rev
    BY <1>1 DEF OwnedStage
  <2>2. baseline[d].last_rev \in 0 .. head_rev
    BY DEF ContentInv, SystemOK, BaselineOK
  <2>3. ContentsIn(baseline[d].files) = snapshots[baseline[d].last_rev]
    BY DEF ContentInv, DeviceInv
  <2> QED BY <1>5, <2>1, <2>2, <2>3, RestAgrees
<1>9. \A c \in plan.conflicts : c.loser_path \notin DOMAIN local \cup LivePaths
  BY <1>1 DEF OwnedStage
<1> HIDE DEF local, plan
<1>10. Sorts(local, remote, LivePaths, plan)
  BY <1>5, <1>6, <1>7, PlanSorts
<1>11. FreshLosers(local, remote, LivePaths)
  <2>1. ASSUME NEW p \in Clashes(local, remote)
        PROVE  NextConflictPath(p, LivePaths) \notin DOMAIN local \cup DOMAIN remote
    <3> DEFINE q == NextConflictPath(p, LivePaths)
    <3>1. \E c \in plan.conflicts : c.loser_path = q
      <4>1. p \in ClientWins(local, remote) \cup ServerWins(local, remote)
        BY DEF ServerWins
      <4>2. plan.conflicts =
                {[path |-> x, winner |-> "client", loser_path |-> NextConflictPath(x, LivePaths)] :
                     x \in ClientWins(local, remote)}
                \cup {[path |-> x, winner |-> "server", loser_path |-> NextConflictPath(x, LivePaths)] :
                     x \in ServerWins(local, remote)}
        BY <1>6 DEF ComputePlan
      <4> DEFINE winner == IF p \in ClientWins(local, remote) THEN "client" ELSE "server"
                 c      == [path |-> p, winner |-> winner, loser_path |-> q]
      <4>3. c \in plan.conflicts /\ c.loser_path = q
        BY <4>1, <4>2
      <4> QED BY <4>3
    <3>2. q \notin DOMAIN local \cup LivePaths
      BY <1>9, <3>1
    <3>3. IsMarker(q)
      <4>1. p \in Path
        BY <1>5 DEF ReportTypeOK, Clashes, Puts
      <4> QED BY <1>7, <4>1, NextConflictPathFresh
    <3>4. MarkersStay
      BY DEF ContentInv, ServerKeeps
    <3>5. q \notin DOMAIN remote
      BY <3>2, <3>3, <3>4 DEF MarkersStay, ChangesSince, LivePaths, LivePathsOf
    <3> QED BY <3>2, <3>5
  <2> QED BY <2>1 DEF FreshLosers
<1> QED BY <1>1, <1>2, <1>3, <1>5, <1>8, <1>10, <1>11 DEF local, plan

\* What a commit makes of the tree, path by path.
Writes(plan, blobs, old, new) ==
    /\ \A p \in UploadPaths(plan) : p \in DOMAIN new /\ p \in DOMAIN blobs /\ new[p] = blobs[p].hash
    /\ \A i \in plan.download : i.path \in DOMAIN new /\ new[i.path] = i.hash
    /\ \A p \in plan.delete_local \cup plan.server_delete : p \notin DOMAIN new
    /\ \A p : p \notin UploadPaths(plan) \cup DownloadPaths(plan) \cup plan.server_delete =>
           /\ p \in DOMAIN new <=> p \in DOMAIN old
           /\ p \in DOMAIN old => new[p] = old[p]

\* The tree is the live rows.
LEMMA LiveTree ==
    ASSUME IndexMatchesLive
    PROVE  /\ DOMAIN live = LivePaths
           /\ \A p \in LivePaths : p \in DOMAIN file_index /\ live[p] = file_index[p].hash
           /\ live = [p \in LivePaths |-> live[p]]
BY DEF IndexMatchesLive, ContentsOf, LivePaths, LivePathsOf

\* What a commit does to the server.
LEMMA CommitOutcome ==
    ASSUME ContentInv, NEW d \in Devices, sync[d].step = "rename", Commit(d, sync[d].session)
    PROVE  /\ head_rev \in Nat /\ head_rev' = head_rev + 1
           /\ DOMAIN sessions' = {}
           /\ NoMissedChange' /\ IndexMatchesLive'
           /\ \A r \in 0 .. head_rev : snapshots'[r] = snapshots[r]
           /\ snapshots'[head_rev'] = live'
           /\ Writes(sync[d].plan, sessions[sync[d].session].blobs, live, live')
           /\ \A r \in 0 .. head_rev : \A p : OnServerSince(p, r)' => OnServerSince(p, r)
           /\ \A p \in DOMAIN file_index' : \/ p \in LivePaths'
                                            \/ p \in DOMAIN file_index /\ file_index[p].deleted
                                            \/ p \in sync[d].plan.server_delete
<1> DEFINE s       == sync[d].session
           session == sessions[s]
           remote  == ChangesSince(session.since)
           plan    == session.plan
           index   == IndexAfter(plan, session.blobs, head_rev')
<1>1. /\ OwnedBy(s, d) /\ MissingUploads(s) = {}
      /\ live' = LiveAfter(plan, session.blobs)
  BY DEF Commit
<1>2. /\ ServerCore /\ s \in DOMAIN sessions /\ Fresh(s) /\ plan = sync[d].plan
      /\ NoMissedChange /\ IndexMatchesLive /\ head_rev \in Nat
  BY <1>1, CommitterFresh, Counters DEF ContentInv, SystemOK, ServerKeeps
<1>3. /\ NoMissedChange' /\ DOMAIN sessions' = {} /\ head_rev' = head_rev + 1
      /\ ContentsOf(file_index') = ContentsOf(index)
      /\ \A r \in 0 .. head_rev : snapshots'[r] = snapshots[r]
      /\ snapshots'[head_rev'] = ContentsOf(file_index')
      /\ IndexWritten(index, head_rev')
      /\ DOMAIN file_index' \subseteq DOMAIN index
      /\ \A p \in DOMAIN file_index' : file_index'[p] = index[p]
  BY <1>2, CommitStep
<1>4. live' = ContentsOf(index)
  BY <1>1, <1>2, LiveFollowsIndex
<1>5. IndexMatchesLive' /\ snapshots'[head_rev'] = live'
  BY <1>3, <1>4 DEF IndexMatchesLive
<1>6. UploadPaths(plan) \subseteq DOMAIN session.blobs
  BY <1>1 DEF MissingUploads
<1>7. FreshLosers(session.changes, remote, LivePaths)
  BY <1>1, CommitterSays
<1>8. Writes(sync[d].plan, session.blobs, live, live')
  <2> DEFINE new == ContentsOf(index)
  <2>1. /\ \A p \in UploadPaths(plan) : p \in DOMAIN new /\ new[p] = session.blobs[p].hash
        /\ \A i \in plan.download : i.path \in DOMAIN new /\ new[i.path] = i.hash
        /\ \A p \in plan.delete_local \cup plan.server_delete : p \notin DOMAIN new
        /\ \A p : p \notin UploadPaths(plan) \cup DownloadPaths(plan) \cup plan.server_delete
                  => /\ p \in DOMAIN new <=> p \in LivePaths
                     /\ p \in LivePaths => new[p] = file_index[p].hash
    BY <1>2, <1>6, <1>7, CommitContents
  <2>2. DOMAIN live = LivePaths /\ \A p \in LivePaths : live[p] = file_index[p].hash
    BY <1>2, LiveTree
  <2>3. live' = new
    BY <1>4
  <2> HIDE DEF new, plan, session
  <2>4. Writes(plan, session.blobs, live, live')
    BY <1>6, <2>1, <2>2, <2>3 DEF Writes
  <2> QED BY <1>2, <2>4
<1>9. ASSUME NEW r \in 0 .. head_rev, NEW p, OnServerSince(p, r)'
      PROVE  OnServerSince(p, r)
  <2>1. p \in DOMAIN file_index' /\ ~ file_index'[p].deleted /\ file_index'[p].rev <= r
    BY <1>9 DEF OnServerSince, LivePaths, LivePathsOf
  <2>2. p \in DOMAIN index /\ index[p] = file_index'[p] /\ index[p].rev # head_rev'
    BY <1>2, <1>3, <2>1
  <2>3. p \in DOMAIN file_index /\ index[p] = file_index[p]
    BY <1>3, <2>2 DEF IndexWritten
  <2> QED BY <2>1, <2>2, <2>3 DEF OnServerSince, LivePaths, LivePathsOf
<1>10. ASSUME NEW p \in DOMAIN file_index'
       PROVE  \/ p \in LivePaths'
              \/ p \in DOMAIN file_index /\ file_index[p].deleted
              \/ p \in sync[d].plan.server_delete
  <2>1. p \in DOMAIN index /\ file_index'[p] = index[p]
    BY <1>3
  <2>2. CASE p \in DOMAIN file_index /\ index[p] = file_index[p]
    BY <2>1, <2>2 DEF LivePaths, LivePathsOf
  <2>3. CASE ~ (p \in DOMAIN file_index /\ index[p] = file_index[p])
    <3>1. p \in plan.server_delete \/ ~ index[p].deleted
      BY <2>1, <2>3 DEF IndexAfter, LiveEntry
    <3> QED BY <1>2, <2>1, <3>1 DEF LivePaths, LivePathsOf
  <2> QED BY <2>2, <2>3
<1> QED BY <1>2, <1>3, <1>5, <1>8, <1>9, <1>10

\* What the device changed and nobody else did: users knew what they replaced.
LEMMA ChangedHere ==
    ASSUME NEW base, NEW seen, NEW session, NEW cycle, OwnedStage(session, cycle, base, seen),
           NEW remote, Agrees(base, remote),
           NEW p \in DOMAIN session.changes, p \in LivePaths \ DOMAIN remote
    PROVE  ~ IsMarker(p) /\ file_index[p].hash \in seen
<1>1. /\ p \in DOMAIN base.files /\ OnServerSince(p, base.last_rev)
      /\ base.files[p].hash = file_index[p].hash
  BY DEF Agrees
<1> QED BY <1>1 DEF OwnedStage

\* A commit only deletes user files.
LEMMA UserFilesDeleted ==
    ASSUME NEW base, NEW seen, NEW session, NEW cycle, OwnedStage(session, cycle, base, seen),
           NEW remote, Agrees(base, remote), ReportTypeOK(session.changes),
           NEW p \in Deletes(session.changes) \ DOMAIN remote
    PROVE  p \in LivePaths /\ ~ IsMarker(p) /\ file_index[p].hash \in seen
<1>1. p \in DOMAIN session.changes /\ p \notin Puts(session.changes)
  BY DEF Deletes, Puts
<1>2. p \in DOMAIN base.files
  BY <1>1 DEF OwnedStage
<1>3. p \in LivePaths
  BY <1>2 DEF Agrees
<1> QED BY <1>1, <1>3, ChangedHere

\* What a commit takes off the server a user replaced knowingly, or it is kept
\* under another name; and losers stay.
LEMMA CommitKeepsContents ==
    ASSUME ContentInv, NEW d \in Devices, sync[d].step = "rename", Commit(d, sync[d].session)
    PROVE  /\ ContentsOnServer \subseteq superseded \cup ContentsOnServer'
           /\ \A p \in LivePaths : IsMarker(p) => p \in LivePaths'
<1> DEFINE session == sessions[sync[d].session]
           remote  == ChangesSince(session.since)
           local   == session.changes
           plan    == sync[d].plan
           base    == baseline[d]
<1>1. Writes(plan, session.blobs, live, live') /\ IndexMatchesLive'
  BY CommitOutcome
<1>2. IndexMatchesLive
  BY DEF ContentInv, ServerKeeps
<1>3. /\ DOMAIN live = LivePaths
      /\ \A p \in LivePaths : p \in DOMAIN file_index /\ live[p] = file_index[p].hash
  BY <1>2, LiveTree
<1>4. DOMAIN live' = LivePaths'
  BY <1>1 DEF IndexMatchesLive, ContentsOf, LivePaths
<1>5. /\ OwnedStage(session, sync[d], base, superseded) /\ ReportTypeOK(local)
      /\ Sorts(local, remote, LivePaths, plan) /\ Agrees(base, remote)
  BY CommitterSays DEF Commit
<1> HIDE DEF session, remote, local, plan, base
<1>6. \A p \in DOMAIN remote : p \in DOMAIN file_index /\ remote[p] = file_index[p]
  BY <1>5 DEF Agrees
<1>7. \A p \in plan.server_delete :
          p \in LivePaths /\ ~ IsMarker(p) /\ file_index[p].hash \in superseded
  <2>1. plan.server_delete = Deletes(local) \ DOMAIN remote
    BY <1>5 DEF Sorts
  <2> QED BY <1>5, <2>1, UserFilesDeleted DEF local
<1>8. ASSUME NEW p \in LivePaths
      PROVE  live[p] \in superseded \cup ContentsOnServer'
  <2> DEFINE hash == file_index[p].hash
  <2>1. ASSUME NEW i \in plan.download, i.hash = hash
        PROVE  hash \in ContentsOnServer'
    BY <1>1, <2>1 DEF Writes, ContentsOnServer
  <2>2. CASE p \in plan.server_delete
    BY <1>3, <1>7, <2>2
  <2>3. CASE p \in UploadPaths(plan) /\ p \in Puts(local) \ Edited(remote)
    <3>1. p \in DOMAIN local
      BY <2>3 DEF Puts
    <3>2. p \notin DOMAIN remote
      BY <1>5, <2>3 DEF Agrees, Edited, Buried
    <3> QED BY <1>3, <1>5, <3>1, <3>2, ChangedHere DEF local
  <2>4. CASE p \in Edited(remote) /\ \E i \in plan.download : i.hash = remote[p].hash
    <3>1. remote[p] = file_index[p]
      BY <1>6, <2>4 DEF Edited
    <3> QED BY <1>3, <2>1, <2>4, <3>1
  <2>5. CASE p \in DownloadPaths(plan)
    <3>1. PICK i \in plan.download : i.path = p
      BY <2>5 DEF DownloadPaths
    <3>2. p \in Edited(remote) /\ i.hash = remote[p].hash
      BY <1>5, <3>1 DEF Sorts
    <3>3. remote[p] = file_index[p]
      BY <1>6, <3>2 DEF Edited
    <3> QED BY <1>3, <2>1, <3>2, <3>3
  <2>6. CASE p \notin UploadPaths(plan) \cup DownloadPaths(plan) \cup plan.server_delete
    <3>1. p \in DOMAIN live' /\ live'[p] = live[p]
      BY <1>1, <1>3, <2>6 DEF Writes
    <3> QED BY <3>1 DEF ContentsOnServer
  <2>7. p \in UploadPaths(plan) =>
            \/ p \in Puts(local) \ Edited(remote)
            \/ p \in Edited(remote) /\ \E i \in plan.download : i.hash = remote[p].hash
    BY <1>5 DEF Sorts
  <2> QED BY <2>2, <2>3, <2>4, <2>5, <2>6, <2>7
<1>9. ContentsOnServer \subseteq superseded \cup ContentsOnServer'
  BY <1>3, <1>8 DEF ContentsOnServer
<1>10. ASSUME NEW p \in LivePaths, IsMarker(p)
       PROVE  p \in LivePaths'
  <2>1. p \notin plan.server_delete
    BY <1>7, <1>10
  <2>2. p \in DownloadPaths(plan) => \E i \in plan.download : i.path = p
    BY DEF DownloadPaths
  <2> QED BY <1>1, <1>3, <1>4, <2>1, <2>2 DEF Writes
<1> QED BY <1>9, <1>10

\* After a commit everything that could become truer has.
LEMMA CommitGrows ==
    ASSUME ContentInv, NEW d \in Devices, sync[d].step = "rename", Commit(d, sync[d].session),
           superseded' = superseded
    PROVE  Grows
<1>1. /\ head_rev \in Nat /\ head_rev' = head_rev + 1
      /\ \A r \in 0 .. head_rev : snapshots'[r] = snapshots[r]
      /\ \A r \in 0 .. head_rev : \A p : OnServerSince(p, r)' => OnServerSince(p, r)
  BY CommitOutcome
<1>2. /\ ContentsOnServer \subseteq superseded' \cup ContentsOnServer'
      /\ \A p \in LivePaths : IsMarker(p) => p \in LivePaths'
  BY CommitKeepsContents
<1> QED BY <1>1, <1>2 DEF Grows

\* A file that is live after a commit was so before, or is an upload, or a
\* loser of a file that was.
LEMMA NewLive ==
    ASSUME ContentInv, NEW d \in Devices, sync[d].step = "rename", Commit(d, sync[d].session),
           NEW p \in LivePaths'
    PROVE  \/ p \in LivePaths
           \/ p \in UploadPaths(sync[d].plan) /\ p \in DOMAIN sync[d].staged
           \/ Parent(p) \in LivePaths
<1> DEFINE session == sessions[sync[d].session]
           remote  == ChangesSince(session.since)
           plan    == sync[d].plan
<1>1. Writes(plan, session.blobs, live, live') /\ IndexMatchesLive'
  BY CommitOutcome
<1>2. DOMAIN live = LivePaths
  BY LiveTree DEF ContentInv, ServerKeeps
<1>3. DOMAIN live' = LivePaths'
  BY <1>1 DEF IndexMatchesLive, ContentsOf, LivePaths
<1>4. /\ OwnedStage(session, sync[d], baseline[d], superseded) /\ Agrees(baseline[d], remote)
      /\ Sorts(session.changes, remote, LivePaths, plan)
  BY CommitterSays DEF Commit
<1> HIDE DEF session, remote, plan
<1>5. CASE p \in UploadPaths(plan)
  <2>1. p \in DOMAIN session.blobs
    BY <1>1, <1>5 DEF Writes
  <2> QED BY <1>4, <1>5, <2>1 DEF OwnedStage, plan
<1>6. CASE p \in DownloadPaths(plan)
  <2>1. PICK i \in plan.download : i.path = p
    BY <1>6 DEF DownloadPaths
  <2>2. p \in Edited(remote) \/ Parent(p) \in LivePaths
    BY <1>4, <2>1 DEF Sorts
  <2> QED BY <1>4, <2>2 DEF Agrees
<1>7. CASE p \notin UploadPaths(plan) \cup DownloadPaths(plan)
  BY <1>1, <1>2, <1>3, <1>7 DEF Writes
<1> QED BY <1>5, <1>6, <1>7

\* Losers are neither deleted nor orphaned by a commit.
LEMMA CommitKeepsMarkers ==
    ASSUME ContentInv, NEW d \in Devices, sync[d].step = "rename", Commit(d, sync[d].session)
    PROVE  MarkersStay'
<1> DEFINE session == sessions[sync[d].session]
           remote  == ChangesSince(session.since)
           plan    == sync[d].plan
<1>1. /\ head_rev \in Nat /\ head_rev' = head_rev + 1 /\ IndexMatchesLive'
      /\ \A r \in 0 .. head_rev : snapshots'[r] = snapshots[r]
      /\ snapshots'[head_rev'] = live'
      /\ \A p \in DOMAIN file_index' : \/ p \in LivePaths'
                                       \/ p \in DOMAIN file_index /\ file_index[p].deleted
                                       \/ p \in plan.server_delete
  BY CommitOutcome
<1>2. \A p \in LivePaths : IsMarker(p) => p \in LivePaths'
  BY CommitKeepsContents
<1>3. DOMAIN live' = LivePaths'
  BY <1>1 DEF IndexMatchesLive, ContentsOf, LivePaths
<1>4. /\ OwnedStage(session, sync[d], baseline[d], superseded) /\ Agrees(baseline[d], remote)
      /\ RenameStage(sync[d], disk[d], baseline[d], superseded)
      /\ Sorts(session.changes, remote, LivePaths, plan) /\ ReportTypeOK(session.changes)
  BY CommitterSays DEF Commit
<1>5. MarkersStay
  BY DEF ContentInv, ServerKeeps
<1> HIDE DEF session, remote
<1>6. ASSUME NEW p \in DOMAIN file_index', IsMarker(p)
      PROVE  ~ file_index'[p].deleted
  <2>1. p \notin plan.server_delete
    BY <1>4, <1>6, UserFilesDeleted DEF Sorts
  <2>2. p \in LivePaths'
    BY <1>1, <1>5, <1>6, <2>1 DEF MarkersStay
  <2> QED BY <2>2 DEF LivePaths, LivePathsOf
<1>7. ASSUME NEW r \in 0 .. head_rev', NEW p \in DOMAIN snapshots'[r], IsMarker(p)
      PROVE  p \in LivePaths'
  <2>1. CASE r = head_rev'
    BY <1>1, <1>3, <1>7, <2>1
  <2>2. CASE r \in 0 .. head_rev
    BY <1>1, <1>2, <1>5, <1>7, <2>2 DEF MarkersStay
  <2> QED BY <1>1, <2>1, <2>2
<1>8. ASSUME NEW p \in LivePaths', IsMarker(p), IsMarker(Parent(p))
      PROVE  Parent(p) \in LivePaths'
  <2>1. Parent(p) \in LivePaths
    BY <1>4, <1>5, <1>8, NewLive DEF MarkersStay, RenameStage
  <2> QED BY <1>2, <1>8, <2>1
<1> QED BY <1>6, <1>7, <1>8 DEF MarkersStay

\* So the server owes what it owed after a commit.
LEMMA CommitServerKeeps ==
    ASSUME ContentInv, NEW d \in Devices, sync[d].step = "rename", Commit(d, sync[d].session),
           superseded' = superseded
    PROVE  ServerKeeps'
<1>1. /\ head_rev \in Nat /\ head_rev' = head_rev + 1 /\ NoMissedChange' /\ IndexMatchesLive'
      /\ \A r \in 0 .. head_rev : snapshots'[r] = snapshots[r]
      /\ snapshots'[head_rev'] = live'
  BY CommitOutcome
<1>2. MarkersStay'
  BY CommitKeepsMarkers
<1>3. /\ SnapshotsShaped /\ SnapshotsKept(superseded)
  BY DEF ContentInv, ServerKeeps
<1>4. SnapshotsShaped'
  <2>1. live' = [p \in DOMAIN live' |-> live'[p]]
    BY <1>1 DEF IndexMatchesLive, ContentsOf
  <2>2. ASSUME NEW r \in 0 .. head_rev'
        PROVE  snapshots'[r] = [p \in DOMAIN snapshots'[r] |-> snapshots'[r][p]]
    <3>1. r = head_rev' \/ r \in 0 .. head_rev
      BY <1>1
    <3> QED BY <1>1, <1>3, <2>1, <3>1 DEF SnapshotsShaped
  <2> QED BY <2>2 DEF SnapshotsShaped
<1>5. SnapshotsKept(superseded)'
  <2>1. \A c \in Kept(superseded) : c \in Kept(superseded)'
    BY CommitGrows, KeptGrows
  <2>2. \A p \in DOMAIN live' : live'[p] \in Kept(superseded)'
    BY DEF Kept, ContentsOnServer
  <2>3. ASSUME NEW r \in 0 .. head_rev', NEW p \in DOMAIN snapshots'[r]
        PROVE  snapshots'[r][p] \in Kept(superseded)'
    <3>1. r = head_rev' \/ r \in 0 .. head_rev
      BY <1>1
    <3> QED BY <1>1, <1>3, <2>1, <2>2, <3>1 DEF SnapshotsKept
  <2> QED BY <2>3 DEF SnapshotsKept
<1> QED BY <1>1, <1>2, <1>4, <1>5 DEF ServerKeeps

\* The heart of a cycle: the tree a device commits is the tree the server
\* then has, but for the files the plan tells it to fetch or to remove.
LEMMA CommittedTree ==
    ASSUME ContentInv, NEW d \in Devices, sync[d].step = "rename", sync[d].todo = {},
           Commit(d, sync[d].session),
           NEW p \in (DOMAIN live' \cup DOMAIN sync[d].staged) \ Replaced(sync[d].plan)
    PROVE  p \in DOMAIN live' /\ p \in DOMAIN sync[d].staged /\ sync[d].staged[p].hash = live'[p]
<1> DEFINE cycle   == sync[d]
           session == sessions[cycle.session]
           remote  == ChangesSince(session.since)
           local   == session.changes
           plan    == cycle.plan
           base    == baseline[d]
           staged  == cycle.staged
<1>1. Writes(plan, session.blobs, live, live')
  BY CommitOutcome
<1>2. /\ DOMAIN live = LivePaths
      /\ \A x \in LivePaths : live[x] = file_index[x].hash
  BY LiveTree DEF ContentInv, ServerKeeps
<1>3. /\ OwnedStage(session, cycle, base, superseded) /\ ReportTypeOK(local)
      /\ Sorts(local, remote, LivePaths, plan) /\ Agrees(base, remote)
  BY CommitterSays DEF Commit
<1>4. /\ DOMAIN staged = (Puts(local) \ DonePaths(cycle))
                             \cup (DOMAIN base.files \ DOMAIN local) \cup DoneLosers(cycle)
      /\ \A x \in Puts(local) \ DonePaths(cycle) : staged[x].hash = local[x].hash
      /\ \A x \in DOMAIN base.files \ DOMAIN local : staged[x].hash = base.files[x].hash
      /\ \A x \in DOMAIN session.blobs : x \in DOMAIN staged /\ session.blobs[x].hash = staged[x].hash
      /\ \A c \in plan.conflicts : c.loser_path \notin DOMAIN local
  BY <1>3 DEF OwnedStage
<1>5. /\ plan.server_delete = Deletes(local) \ DOMAIN remote
      /\ \A x \in DOMAIN local :
            \/ x \in UploadPaths(plan) \cup Replaced(plan) \cup plan.server_delete
            \/ x \in Puts(local) \cap Edited(remote) /\ local[x].hash = remote[x].hash
            \/ x \in Deletes(local) \cap Buried(remote)
      /\ DOMAIN remote \subseteq UploadPaths(plan) \cup Replaced(plan) \cup DOMAIN local
  BY <1>3 DEF Sorts
<1>6. p \notin DownloadPaths(plan) /\ p \notin plan.delete_local
  BY DEF Replaced
<1>7. Puts(local) \subseteq DOMAIN local /\ Deletes(local) \subseteq DOMAIN local
      /\ Puts(local) \cap Deletes(local) = {}
  BY DEF Puts, Deletes
<1>8. p \in DOMAIN live' \cup DOMAIN staged /\ p \notin Replaced(plan)
  OBVIOUS
<1> HIDE DEF cycle, session, remote, local, plan, base, staged
<1>9. /\ DonePaths(cycle) \subseteq DownloadPaths(plan)
      /\ DoneLosers(cycle) \subseteq UploadPaths(plan)
      /\ DoneLosers(cycle) \cap DOMAIN local = {}
  <2>1. \A c \in plan.conflicts : c.winner = "server" =>
            c.path \in DownloadPaths(plan) /\ c.loser_path \in UploadPaths(plan)
    BY <1>3 DEF Sorts
  <2>2. \A c \in Done(cycle) : c \in plan.conflicts /\ c.winner = "server"
    BY DEF Done, plan
  <2> QED BY <1>4, <2>1, <2>2 DEF DonePaths, DoneLosers
<1>10. CASE p \in UploadPaths(plan)
  <2>1. p \in DOMAIN live' /\ p \in DOMAIN session.blobs /\ live'[p] = session.blobs[p].hash
    BY <1>1, <1>10 DEF Writes
  <2>2. p \in DOMAIN staged /\ staged[p].hash = live'[p]
    BY <1>4, <2>1
  <2> QED BY <2>1, <2>2 DEF staged, cycle
<1>11. ASSUME p \in Deletes(local)
       PROVE  p \notin DOMAIN staged
  BY <1>4, <1>9, <1>7, <1>11
<1>12. CASE p \in plan.server_delete
  <2>1. p \notin DOMAIN live'
    BY <1>1, <1>12 DEF Writes
  <2>2. p \notin DOMAIN staged
    BY <1>5, <1>11, <1>12
  <2> QED BY <1>8, <2>1, <2>2
<1>13. CASE p \notin UploadPaths(plan) \cup plan.server_delete
  <2>1. /\ p \in DOMAIN live' <=> p \in LivePaths
        /\ p \in LivePaths => live'[p] = file_index[p].hash
    BY <1>1, <1>2, <1>6, <1>13 DEF Writes
  <2>2. CASE p \in Deletes(local) \cap Buried(remote)
    <3>1. p \notin LivePaths
      BY <1>3, <2>2 DEF Agrees
    <3> QED BY <1>8, <1>11, <2>1, <2>2, <3>1
  <2>3. CASE p \in Puts(local) \cap Edited(remote) /\ local[p].hash = remote[p].hash
    <3>1. p \in LivePaths /\ file_index[p].hash = local[p].hash
      BY <1>3, <2>3 DEF Agrees, Edited
    <3>2. p \in Puts(local) \ DonePaths(cycle)
      BY <1>9, <1>6, <2>3
    <3>3. p \in DOMAIN staged /\ staged[p].hash = local[p].hash
      BY <1>4, <3>2
    <3> QED BY <2>1, <3>1, <3>3 DEF staged, cycle
  <2>4. CASE p \notin DOMAIN local
    <3>1. p \notin DOMAIN remote
      BY <1>5, <1>8, <1>13, <2>4
    <3>2. /\ p \in LivePaths <=> p \in DOMAIN base.files
          /\ p \in LivePaths => base.files[p].hash = file_index[p].hash
      BY <1>3, <3>1 DEF Agrees
    <3>3. p \notin DoneLosers(cycle)
      BY <1>9, <1>13
    <3>4. p \in DOMAIN staged <=> p \in DOMAIN base.files
      BY <1>4, <1>7, <2>4, <3>3
    <3>5. p \in DOMAIN base.files => staged[p].hash = base.files[p].hash
      BY <1>4, <2>4
    <3> QED BY <1>8, <2>1, <3>2, <3>4, <3>5 DEF staged, cycle
  <2> QED BY <1>5, <1>8, <1>13, <2>2, <2>3, <2>4
<1> QED BY <1>10, <1>12, <1>13

\* What the device has left to do after its commit.
LEMMA CommittedStage ==
    ASSUME ContentInv, NEW d \in Devices, sync[d].step = "rename", sync[d].todo = {},
           Commit(d, sync[d].session), superseded' = superseded, disk' = disk, baseline' = baseline,
           NEW cycle, cycle = Applying(sync[d], head_rev')
    PROVE  ApplyStage(cycle, disk[d], baseline[d].last_rev, superseded)'
<1> DEFINE old     == sync[d]
           session == sessions[old.session]
           remote  == ChangesSince(session.since)
           plan    == old.plan
           tree    == disk[d]
           last    == baseline[d].last_rev
<1>1. /\ cycle.plan = plan /\ cycle.next = old.staged /\ cycle.todo = plan.download
      /\ cycle.gone = plan.delete_local /\ cycle.new_rev = head_rev'
  BY DEF Applying
<1>2. /\ head_rev \in Nat /\ head_rev' = head_rev + 1 /\ snapshots'[head_rev'] = live'
      /\ Writes(plan, session.blobs, live, live') /\ IndexMatchesLive'
  BY CommitOutcome
<1>3. DOMAIN live' = LivePaths'
  BY <1>2 DEF IndexMatchesLive, ContentsOf, LivePaths
<1>4. /\ RenameStage(old, tree, baseline[d], superseded)
      /\ Sorts(session.changes, remote, LivePaths, plan) /\ Agrees(baseline[d], remote)
  BY CommitterSays DEF Commit
<1>5. MarkersStay
  BY DEF ContentInv, ServerKeeps
<1>6. LeftPaths(cycle) = Replaced(plan)
  BY <1>1 DEF LeftPaths, Replaced, DownloadPaths
<1>7. old.todo = {} /\ last \in 0 .. head_rev
  BY DEF ContentInv, SystemOK, BaselineOK
<1>8. \A p \in (DOMAIN live' \cup DOMAIN old.staged) \ Replaced(plan) :
          p \in DOMAIN live' /\ p \in DOMAIN old.staged /\ old.staged[p].hash = live'[p]
  BY CommittedTree
<1>9. \A c \in Kept(superseded) : c \in Kept(superseded)'
  BY CommitGrows, KeptGrows
<1> HIDE DEF old, session, remote, plan, tree, last
<1>10. last <= cycle.new_rev
  BY <1>1, <1>2, <1>7
<1>11. \A i \in cycle.todo : i.path \in DOMAIN live' /\ live'[i.path] = i.hash
  BY <1>1, <1>2 DEF Writes
<1>12. \A p \in cycle.gone : p \notin DOMAIN live'
  BY <1>1, <1>2 DEF Writes
<1>13. \A p \in (DOMAIN live' \cup DOMAIN cycle.next) \ LeftPaths(cycle) :
           p \in DOMAIN live' /\ p \in DOMAIN cycle.next /\ cycle.next[p].hash = live'[p]
  BY <1>1, <1>6, <1>8
<1>14. ASSUME NEW q \in DOMAIN tree, IsMarker(q)
       PROVE  q \in LivePaths'
  <2>1. q \in DOMAIN cycle.next
    BY <1>1, <1>4, <1>14 DEF RenameStage
  <2>2. CASE q \notin LeftPaths(cycle)
    BY <1>3, <1>13, <2>1, <2>2
  <2>3. CASE q \in DownloadPaths(plan)
    BY <1>1, <1>3, <1>11, <2>3 DEF DownloadPaths
  <2>4. CASE q \in plan.delete_local
    BY <1>4, <1>5, <1>14, <2>4 DEF Sorts, Agrees, MarkersStay
  <2> QED BY <1>6, <2>2, <2>3, <2>4 DEF Replaced
<1>15. \A p \in LeftPaths(cycle) \cap DOMAIN tree : tree[p].hash \in Kept(superseded)'
  <2>1. TodoPaths(old) = {}
    BY <1>7 DEF TodoPaths
  <2>2. \A p \in (Replaced(old.plan) \cap DOMAIN tree) \ TodoPaths(old) : tree[p].hash \in Kept(superseded)
    BY <1>4 DEF RenameStage
  <2> QED BY <1>6, <1>9, <2>1, <2>2 DEF plan
<1>16. \A p \in DOMAIN cycle.next :
           \/ Same(tree, cycle.next, p)
           \/ ~ IsMarker(p) /\ cycle.next[p].hash \in superseded
  BY <1>1, <1>4 DEF RenameStage
<1>17. /\ snapshots'[cycle.new_rev] = live' /\ LeftPaths(cycle) \subseteq Replaced(cycle.plan)
       /\ tree' = tree /\ last' = last
  BY <1>1, <1>2, <1>6 DEF tree, last
<1>18. \A p : Same(tree, cycle.next, p)' <=> Same(tree, cycle.next, p)
  BY <1>17 DEF Same
<1> QED BY <1>10, <1>11, <1>12, <1>13, <1>14, <1>15, <1>16, <1>17, <1>18 DEF ApplyStage, tree, last

\* What is left to show after a commit is about the cycle that made it.
LEMMA AfterCommit ==
    ASSUME ContentInv, SystemOK', NEW d \in Devices, sync[d].step = "rename",
           Commit(d, sync[d].session), UNCHANGED <<disk, baseline, versions, superseded>>,
           \A e \in Devices \ {d} : sync'[e] = sync[e],
           CycleInv(d, sync[d], disk[d], baseline[d], superseded)'
    PROVE  ContentInv'
<1>1. Grows /\ ServerKeeps'
  BY CommitGrows, CommitServerKeeps
<1>2. DOMAIN sessions' = {}
  BY CommitOutcome
<1>3. PlansDisjoint'
  BY <1>2 DEF PlansDisjoint, ListsDisjoint
<1>4. NoLostContent'
  <2>1. ContentsOnServer \subseteq superseded \cup ContentsOnServer'
    BY CommitKeepsContents
  <2>2. ContentsOnDisks' = ContentsOnDisks
    BY DEF ContentsOnDisks
  <2> QED BY <2>1, <2>2 DEF ContentInv, NoLostContent
<1>5. ASSUME NEW e \in Devices
      PROVE  DeviceInv(disk[e], baseline[e], superseded)'
  <2>1. baseline'[e].last_rev \in 0 .. head_rev
    BY DEF ContentInv, SystemOK, BaselineOK
  <2>2. DeviceInv(disk'[e], baseline'[e], superseded)
    BY DEF ContentInv
  <2> QED BY <1>1, <2>1, <2>2, DeviceGrows
<1>6. ASSUME NEW e \in Devices \ {d}
      PROVE  CycleInv(e, sync[e], disk[e], baseline[e], superseded)'
  <2>1. SessionLeft(sync[e].session, e)
    BY <1>2 DEF SessionLeft
  <2>2. UNCHANGED <<disk[e], baseline[e], sync[e]>>
    OBVIOUS
  <2> QED BY <1>1, <2>1, <2>2, OthersHold
<1> QED BY <1>1, <1>3, <1>4, <1>5, <1>6 DEF ContentInv

\* A commit answers.
LEMMA CommitSyncKeeps ==
    ASSUME ContentInv, SystemOK', NEW d \in Devices, CommitSync(d)
    PROVE  ContentInv'
<1> PICK cycle : cycle = Applying(sync[d], head_rev')
  OBVIOUS
<1>1. /\ sync[d].step = "rename" /\ sync[d].todo = {} /\ Commit(d, sync[d].session)
      /\ sync' = [sync EXCEPT ![d] = cycle]
      /\ UNCHANGED <<disk, baseline, versions, superseded>>
  BY DEF CommitSync
<1>2. cycle.step = "apply"
  BY DEF Applying
<1>3. ApplyStage(cycle, disk[d], baseline[d].last_rev, superseded)'
  BY <1>1, CommittedStage
<1>4. sync'[d] = cycle /\ \A e \in Devices \ {d} : sync'[e] = sync[e]
  BY <1>1 DEF ContentInv, SystemOK, CyclesOK
<1>5. CycleInv(d, sync[d], disk[d], baseline[d], superseded)'
  BY <1>2, <1>3, <1>4 DEF CycleInv
<1> QED BY <1>1, <1>4, <1>5, AfterCommit

\* Its answer is lost; it cannot fail half-way, for no upload is repeated.
LEMMA CommitInVainKeeps ==
    ASSUME ContentInv, SystemOK', NEW d \in Devices, CommitInVain(d)
    PROVE  ContentInv'
<1>1. /\ sync[d].step = "rename" /\ sync[d].todo = {}
      /\ sync' = [sync EXCEPT ![d] = Idle]
      /\ UNCHANGED <<disk, baseline, versions, superseded>>
  BY DEF CommitInVain
<1>2. ~ CommitFails(d, sync[d].session)
  BY DEF CommitFails, OwnedBy, ContentInv, PlansDisjoint
<1>3. Commit(d, sync[d].session)
  BY <1>2 DEF CommitInVain
<1>4. sync'[d] = Idle /\ \A e \in Devices \ {d} : sync'[e] = sync[e]
  BY <1>1 DEF ContentInv, SystemOK, CyclesOK
<1>5. CycleInv(d, sync[d], disk[d], baseline[d], superseded)'
  BY <1>4 DEF CycleInv, Idle
<1> QED BY <1>1, <1>3, <1>4, <1>5, AfterCommit

-----------------------------------------------------------------------------
(***************************************************************************)
(* The theorems.                                                           *)
(***************************************************************************)

\* Nothing has been written yet.
LEMMA ContentInit == SystemInit => ContentInv
<1> SUFFICES ASSUME SystemInit PROVE ContentInv
  OBVIOUS
<1>1. SystemOK
  BY SystemInitOK
<1>2. /\ head_rev = 0 /\ file_index = << >> /\ live = << >> /\ DOMAIN sessions = {}
      /\ snapshots = [r \in {0} |-> << >>] /\ versions = 0
  BY DEF SystemInit, Init
<1>3. \A d \in Devices : disk[d] = << >> /\ baseline[d] = [last_rev |-> 0, files |-> << >>] /\ sync[d] = Idle
  BY DEF SystemInit
<1>4. /\ DOMAIN << >> = {} /\ snapshots[0] = << >> /\ 0 .. 0 = {0}
      /\ << >> = [p \in {} |-> << >>[p]]
  BY <1>2
<1>5. LivePaths = {}
  BY <1>2, <1>4 DEF LivePaths, LivePathsOf
<1>6. ServerKeeps
  <2>1. NoMissedChange
    BY InitCore DEF SystemInit
  <2>2. ContentsOf(file_index) = [p \in {} |-> file_index[p].hash]
    BY <1>5 DEF ContentsOf, LivePaths
  <2>3. IndexMatchesLive
    BY <1>2, <2>2 DEF IndexMatchesLive
  <2>4. MarkersStay
    BY <1>2, <1>4, <1>5 DEF MarkersStay
  <2>5. SnapshotsShaped
    BY <1>2, <1>4 DEF SnapshotsShaped
  <2>6. SnapshotsKept(superseded)
    BY <1>2, <1>4 DEF SnapshotsKept
  <2> QED BY <2>1, <2>3, <2>4, <2>5, <2>6 DEF ServerKeeps
<1>7. PlansDisjoint
  BY <1>2 DEF PlansDisjoint, ListsDisjoint
<1>8. NoLostContent
  BY <1>2 DEF NoLostContent
<1>9. ASSUME NEW d \in Devices
      PROVE  DeviceInv(disk[d], baseline[d], superseded) /\ CycleInv(d, sync[d], disk[d], baseline[d], superseded)
  <2>1. /\ DOMAIN disk[d] = {} /\ DOMAIN baseline[d].files = {} /\ baseline[d].last_rev = 0
        /\ baseline[d].files = << >> /\ sync[d] = Idle
    BY <1>3, <1>4
  <2>2. ContentsIn(baseline[d].files) = snapshots[0]
    <3>1. ContentsIn(baseline[d].files) = [p \in {} |-> baseline[d].files[p].hash]
      BY <2>1 DEF ContentsIn
    <3> QED BY <1>4, <3>1
  <2>3. DeviceInv(disk[d], baseline[d], superseded)
    BY <2>1, <2>2 DEF DeviceInv, LosersAlone, Told
  <2> QED BY <2>1, <2>3 DEF CycleInv, Idle
<1> QED BY <1>1, <1>6, <1>7, <1>8, <1>9 DEF ContentInv

\* Every step of the devices, and of users who keep the habits, keeps it.
LEMMA ContentStep ==
    ASSUME ContentInv, Careful, SystemNext
    PROVE  ContentInv'
<1>1. SystemOK'
  BY SystemStepOK DEF ContentInv
<1>2. ASSUME NEW d \in Devices, UserStep(d)
      PROVE  ContentInv'
  BY <1>1, <1>2, UserStepKeeps
<1>3. ASSUME NEW d \in Devices, CycleStep(d)
      PROVE  ContentInv'
  BY <1>1, <1>3, StartSyncKeeps, StartSyncInVainKeeps, RenameLoserKeeps, UploadKeeps, CommitSyncKeeps,
     CommitInVainKeeps, ApplyDownloadKeeps, ApplyDeleteKeeps, FinishKeeps, AbortKeeps, PairAgainKeeps
     DEF CycleStep
<1> QED BY <1>2, <1>3 DEF SystemNext

\* So does a step that changes nothing.
LEMMA ContentStutters ==
    ASSUME ContentInv, UNCHANGED allVars
    PROVE  ContentInv'
<1>1. UNCHANGED <<vars, disk, baseline, sync, versions, superseded>> /\ UNCHANGED <<live, sessions>>
  BY DEF allVars, deviceVars, vars
<1>2. UNCHANGED <<head_rev, min_valid_rev, file_index, live, snapshots>>
  BY <1>1 DEF vars
<1>3. SystemOK'
  BY SystemStutters DEF ContentInv
<1>4. PlansDisjoint'
  BY <1>1 DEF ContentInv, PlansDisjoint, ListsDisjoint
<1>5. ASSUME NEW e \in Devices
      PROVE  CycleInv(e, sync[e], disk[e], baseline[e], superseded)'
  <2>1. CycleInv(e, sync'[e], disk'[e], baseline'[e], superseded')
    BY <1>1 DEF ContentInv
  <2> QED BY <1>1, <2>1, CycleSays
<1> QED BY <1>1, <1>2, <1>3, <1>4, <1>5, SessionsMove

\* The invariant of the contents, whatever fails, is lost or is revoked.
LEMMA ContentInvHolds ==
    ASSUME Careful
    PROVE  SystemSpec => []ContentInv
<1>1. SystemInit => ContentInv
  BY ContentInit
<1>2. ContentInv /\ [SystemNext]_allVars => ContentInv'
  BY ContentStep, ContentStutters
<1> QED BY <1>1, <1>2, PTL DEF SystemSpec

\* No automatic resolution loses data (docs/protocol.md section 6): what
\* careful users save stays on a disk or on the server until someone who saw
\* it replaces or deletes it.
THEOREM NoContentIsLost ==
    ASSUME Careful
    PROVE  SystemSpec => []NoLostContent
<1>1. ContentInv => NoLostContent
  BY DEF ContentInv
<1> QED BY <1>1, ContentInvHolds, PTL

\* The baseline of a device is the tree the server had at the revision it
\* records, at every moment and however its cycles ended (SyncReport.baseline
\* of client.rs).
THEOREM BaselinesAreSnapshots ==
    ASSUME Careful
    PROVE  SystemSpec => []BaselineIsSnapshot
<1>1. ContentInv => BaselineIsSnapshot
  BY DEF ContentInv, DeviceInv, BaselineIsSnapshot
<1> QED BY <1>1, ContentInvHolds, PTL

\* The live rows and the files of the live tree are the same after every
\* step (api.rs commit, storage.rs apply_to_live).
THEOREM IndexFollowsTree ==
    ASSUME Careful
    PROVE  SystemSpec => []IndexMatchesLive
<1>1. ContentInv => IndexMatchesLive
  BY DEF ContentInv, ServerKeeps
<1> QED BY <1>1, ContentInvHolds, PTL

\* No plan the server makes asks two things of one path (protocol.rs
\* compute_plan on the reports devices can really make).
THEOREM PlansStayDisjoint ==
    ASSUME Careful
    PROVE  SystemSpec => []ListsDisjoint
<1>1. ContentInv => ListsDisjoint
  BY DEF ContentInv, PlansDisjoint
<1> QED BY <1>1, ContentInvHolds, PTL
=============================================================================
