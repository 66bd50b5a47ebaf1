--------------------------- MODULE SyncPlanProofs ---------------------------
(***************************************************************************)
(* Facts about the operators of SyncPlan, for any paths and contents.      *)
(***************************************************************************)
EXTENDS SyncPlan, FiniteSetTheorems, SequenceTheorems, WellFoundedInduction, TLAPS

\* A path with one more marker number is a path of the same file.
LEMMA ConflictPathType ==
    ASSUME NEW p \in Path, NEW n \in Nat
    PROVE  /\ ConflictPath(p, n) \in Path
           /\ ConflictPath(p, n).file = p.file
           /\ ConflictPath(p, n).marks = Append(p.marks, n)
<1>1. p.marks \in Seq(Nat) /\ p.file \in Files
  BY DEF Path
<1>2. Append(p.marks, n) \in Seq(Nat)
  BY <1>1
<1> QED BY <1>1, <1>2 DEF ConflictPath, Path

\* Different marker numbers give different paths.
LEMMA ConflictPathInjective ==
    ASSUME NEW p \in Path, NEW m \in Nat, NEW n \in Nat, m # n
    PROVE  ConflictPath(p, m) # ConflictPath(p, n)
<1>1. p.marks \in Seq(Nat)
  BY DEF Path
<1>2. Append(p.marks, m) # Append(p.marks, n)
  <2>1. /\ Append(p.marks, m)[Len(p.marks) + 1] = m
        /\ Append(p.marks, n)[Len(p.marks) + 1] = n
    BY <1>1
  <2> QED BY <2>1
<1>3. /\ ConflictPath(p, m).marks = Append(p.marks, m)
      /\ ConflictPath(p, n).marks = Append(p.marks, n)
  BY DEF ConflictPath
<1> QED BY <1>2, <1>3

\* The preserved loser never takes a path that is live on the server
\* (next_conflict_path): among the first |taken| + 1 suffixes one is free.
THEOREM NextConflictPathFresh ==
    ASSUME NEW p \in Path, NEW taken, IsFiniteSet(taken)
    PROVE  /\ NextConflictPath(p, taken) \in Path
           /\ NextConflictPath(p, taken) \notin taken
           /\ NextConflictPath(p, taken).file = p.file
           /\ IsMarker(NextConflictPath(p, taken))
           /\ \E n \in Nat : NextConflictPath(p, taken) = ConflictPath(p, n)
<1> DEFINE bound == Cardinality(taken) + 1
           free  == {n \in 1 .. bound : ConflictPath(p, n) \notin taken}
           least == CHOOSE n \in free : \A m \in free : n <= m
<1>1. Cardinality(taken) \in Nat
  BY FS_CardinalityType
<1>2. free # {}
  <2> SUFFICES ASSUME free = {} PROVE FALSE
    OBVIOUS
  <2> DEFINE f == [n \in 1 .. bound |-> ConflictPath(p, n)]
  <2>1. f \in [1 .. bound -> taken]
    OBVIOUS
  <2>2. IsFiniteSet(1 .. bound) /\ Cardinality(1 .. bound) = bound
    BY <1>1, FS_Interval
  <2>3. \E m, n \in 1 .. bound : m # n /\ f[m] = f[n]
    <3> DEFINE S == 1 .. bound
    <3>1. IsFiniteSet(S) /\ Cardinality(taken) < Cardinality(S) /\ f \in [S -> taken]
      BY <1>1, <2>1, <2>2
    <3> HIDE DEF f, S
    <3>2. \E m, n \in S : m # n /\ f[m] = f[n]
      BY <3>1, FS_PigeonHole
    <3> QED BY <3>2 DEF S
  <2>4. PICK m \in 1 .. bound, n \in 1 .. bound : m # n /\ f[m] = f[n]
    BY <2>3
  <2>5. ConflictPath(p, m) = ConflictPath(p, n)
    BY <2>4
  <2> QED BY <2>4, <2>5, ConflictPathInjective
<1>3. \E n \in free : \A m \in free : n <= m
  <2> DEFINE less == {ss \in Nat \X Nat : ss[1] < ss[2]}
  <2>1. IsWellFoundedOn(less, Nat)
    BY NatLessThanWellFounded DEF OpToRel
  <2>2. free \subseteq Nat
    OBVIOUS
  <2>3. \E n \in free : \A m \in free : ~ (<<m, n>> \in less)
    <3> HIDE DEF less, free
    <3> QED BY <1>2, <2>1, <2>2, WFMin
  <2>4. \A m, n \in free : ~ (<<m, n>> \in less) => n <= m
    BY <2>2
  <2> QED BY <2>3, <2>4
<1>4. least \in free
  BY <1>3
<1>5. NextConflictPath(p, taken) = ConflictPath(p, least)
  BY DEF NextConflictPath
<1>6. least \in Nat /\ ConflictPath(p, least) \notin taken
  BY <1>4
<1>7. /\ ConflictPath(p, least) \in Path
      /\ ConflictPath(p, least).file = p.file
      /\ ConflictPath(p, least).marks = Append(p.marks, least)
  BY <1>6, ConflictPathType
<1>8. Append(p.marks, least) # << >>
  <2> HIDE DEF least
  <2>1. p.marks \in Seq(Nat) /\ least \in Nat
    BY <1>6 DEF Path
  <2>2. Len(Append(p.marks, least)) = Len(p.marks) + 1 /\ Len(p.marks) \in Nat
    BY <2>1
  <2>3. ASSUME NEW s, s = << >> PROVE Len(s) = 0
    BY <2>3
  <2>4. Len(p.marks) + 1 # 0
    BY <2>2
  <2> QED BY <2>2, <2>3, <2>4
<1> QED BY <1>5, <1>6, <1>7, <1>8 DEF IsMarker

-----------------------------------------------------------------------------
\* The values of a function over a finite set are finitely many.
LEMMA FiniteImage ==
    ASSUME NEW S, IsFiniteSet(S), NEW f, f = [x \in S |-> f[x]]
    PROVE  IsFiniteSet({f[x] : x \in S})
<1> DEFINE T == {f[x] : x \in S}
<1>1. f \in Surjection(S, T)
  BY DEF Surjection
<1> HIDE DEF T
<1>2. IsFiniteSet(T)
  BY <1>1, FS_Surjection
<1> QED BY <1>2 DEF T

\* What a commit may rely on in a plan: for a report of finitely many paths
\* and finitely many live paths, it asks for well-formed paths, the paths it
\* tombstones and the names it gives to losers are finitely many, the names
\* are not live, and only paths edited on the server are renamed to them.
THEOREM PlanWellFormed ==
    ASSUME NEW local, NEW remote, NEW taken,
           IsFiniteSet(DOMAIN local), DOMAIN local \subseteq Path,
           IsFiniteSet(taken)
    PROVE  LET plan == ComputePlan(local, remote, taken)
           IN  /\ UploadPaths(plan) \subseteq Path
               /\ IsFiniteSet(plan.server_delete) /\ plan.server_delete \subseteq Path
               /\ IsFiniteSet(RenameTargets(plan)) /\ RenameTargets(plan) \subseteq Path
               /\ RenameTargets(plan) \cap taken = {}
               /\ RenameSources(plan) \subseteq Edited(remote)
<1> DEFINE plan     == ComputePlan(local, remote, taken)
           byClient == ClientWins(local, remote)
           loser    == [p \in byClient |-> NextConflictPath(p, taken)]
<1>1. byClient \subseteq DOMAIN local /\ byClient \subseteq Edited(remote)
  BY DEF ClientWins, Clashes, Puts
<1>2. IsFiniteSet(byClient)
  BY <1>1, FS_Subset
<1>3. plan.server_rename = {[from |-> p, to |-> NextConflictPath(p, taken)] : p \in byClient}
  BY DEF ComputePlan
<1>4. RenameTargets(plan) = {loser[p] : p \in byClient} /\ RenameSources(plan) = byClient
  <2>1. plan.server_rename = {[from |-> p, to |-> loser[p]] : p \in byClient}
    BY <1>3
  <2> DEFINE renames == plan.server_rename
  <2>2. renames = {[from |-> p, to |-> loser[p]] : p \in byClient}
    BY <2>1
  <2>3. RenameTargets(plan) = {r.to : r \in renames} /\ RenameSources(plan) = {r.from : r \in renames}
    BY DEF RenameTargets, RenameSources
  <2> HIDE DEF plan, byClient, loser, renames
  <2>4. \A p \in byClient : [from |-> p, to |-> loser[p]] \in renames
    BY <2>2
  <2>5. \A r \in renames : r.from \in byClient /\ r.to = loser[r.from]
    BY <2>2
  <2>6. \A p \in byClient : \E r \in renames : r.from = p /\ r.to = loser[p]
    <3> TAKE p \in byClient
    <3>1. [from |-> p, to |-> loser[p]] \in renames
      BY <2>4
    <3> QED BY <3>1
  <2> QED BY <2>3, <2>5, <2>6
<1>6. IsFiniteSet(RenameTargets(plan))
  <2> HIDE DEF plan, byClient
  <2>1. IsFiniteSet({loser[p] : p \in byClient})
    <3>1. loser = [p \in byClient |-> loser[p]]
      OBVIOUS
    <3> HIDE DEF loser
    <3> QED BY <3>1, <1>2, FiniteImage
  <2> QED BY <2>1, <1>4
<1>7. \A p \in byClient : loser[p] \in Path /\ loser[p] \notin taken
  <2> TAKE p \in byClient
  <2>1. p \in Path
    BY <1>1
  <2>2. loser[p] = NextConflictPath(p, taken)
    OBVIOUS
  <2> QED BY <2>1, <2>2, NextConflictPathFresh
<1>8. plan.server_delete = Deletes(local) \ DOMAIN remote
  BY DEF ComputePlan, DeletedHere
<1>9. IsFiniteSet(plan.server_delete) /\ plan.server_delete \subseteq Path
  <2>1. plan.server_delete \subseteq DOMAIN local
    BY <1>8 DEF Deletes
  <2> HIDE DEF plan
  <2> QED BY <2>1, FS_Subset
<1>10. UploadPaths(plan) \subseteq Path
  <2>1. plan.upload = {UploadItem(p, p) : p \in (Puts(local) \ Edited(remote)) \cup byClient}
                      \cup {UploadItem(NextConflictPath(p, taken), p) : p \in ServerWins(local, remote)}
    BY DEF ComputePlan
  <2>2. Puts(local) \subseteq Path /\ byClient \subseteq Path /\ ServerWins(local, remote) \subseteq Path
    BY <1>1 DEF Puts, ServerWins, Clashes
  <2>3. \A p \in ServerWins(local, remote) : NextConflictPath(p, taken) \in Path
    BY <2>2, NextConflictPathFresh
  <2> HIDE DEF plan, byClient
  <2>4. \A u \in plan.upload : u.path \in Path
    BY <2>1, <2>2, <2>3 DEF UploadItem
  <2> QED BY <2>4 DEF UploadPaths
<1> HIDE DEF plan, byClient, loser
<1>11. RenameTargets(plan) \subseteq Path /\ RenameTargets(plan) \cap taken = {}
  BY <1>4, <1>7
<1> QED BY <1>1, <1>4, <1>6, <1>9, <1>11, <1>10 DEF plan

-----------------------------------------------------------------------------
(***************************************************************************)
(* The lists of a plan, path by path.                                      *)
(***************************************************************************)

\* The path a preserved loser was renamed from.
Parent(q) == [file |-> q.file, marks |-> SubSeq(q.marks, 1, Len(q.marks) - 1)]

\* A loser is named after its path, so losers of different paths never collide.
LEMMA LoserParent ==
    ASSUME NEW p \in Path, NEW taken, IsFiniteSet(taken)
    PROVE  Parent(NextConflictPath(p, taken)) = p
<1>1. PICK n \in Nat : NextConflictPath(p, taken) = ConflictPath(p, n)
  BY NextConflictPathFresh
<1> DEFINE marks == Append(p.marks, n)
<1>2. p.marks \in Seq(Nat) /\ p = [file |-> p.file, marks |-> p.marks]
  BY DEF Path
<1>3. marks \in Seq(Nat) /\ Len(marks) - 1 = Len(p.marks) /\ Len(p.marks) \in Nat
  BY <1>2
<1>4. SubSeq(marks, 1, Len(p.marks)) = p.marks
  <2> DEFINE front == SubSeq(marks, 1, Len(p.marks))
  <2>1. front \in Seq(Nat) /\ Len(front) = Len(p.marks)
    BY <1>3
  <2>2. \A i \in 1 .. Len(p.marks) : front[i] = p.marks[i]
    BY <1>2
  <2> HIDE DEF front
  <2> QED BY <1>2, <2>1, <2>2, SeqEqual
<1>5. Parent(ConflictPath(p, n)) = [file |-> p.file, marks |-> SubSeq(marks, 1, Len(marks) - 1)]
  BY DEF Parent, ConflictPath
<1> QED BY <1>1, <1>2, <1>3, <1>4, <1>5

\* What each list of a plan holds.
LEMMA PlanLists ==
    ASSUME NEW local, NEW remote, NEW taken,
           NEW plan, plan = ComputePlan(local, remote, taken)
    PROVE  /\ UploadPaths(plan) =
                  (Puts(local) \ Edited(remote)) \cup ClientWins(local, remote)
                  \cup {NextConflictPath(p, taken) : p \in ServerWins(local, remote)}
           /\ DownloadPaths(plan) =
                  (Edited(remote) \ Puts(local)) \cup ServerWins(local, remote)
                  \cup {NextConflictPath(p, taken) : p \in ClientWins(local, remote)}
           /\ plan.delete_local = Buried(remote) \ DOMAIN local
           /\ plan.server_delete = Deletes(local) \ DOMAIN remote
           /\ \A p \in ClientWins(local, remote) :
                  [from |-> p, to |-> NextConflictPath(p, taken)] \in plan.server_rename
           /\ \A r \in plan.server_rename :
                  /\ r.from \in ClientWins(local, remote)
                  /\ r.to = NextConflictPath(r.from, taken)
           /\ \A p \in ServerWins(local, remote) :
                  \E c \in plan.conflicts :
                      c.path = p /\ c.winner = "server" /\ c.loser_path = NextConflictPath(p, taken)
           /\ \A c \in plan.conflicts :
                  /\ c = [path |-> c.path, winner |-> c.winner, loser_path |-> c.loser_path]
                  /\ c.loser_path = NextConflictPath(c.path, taken)
                  /\ \/ c.winner = "server" /\ c.path \in ServerWins(local, remote)
                     \/ c.winner = "client" /\ c.path \in ClientWins(local, remote)
           /\ \A i \in plan.download :
                  \/ /\ i.path \in (Edited(remote) \ Puts(local)) \cup ServerWins(local, remote)
                     /\ i = DownloadItem(i.path, remote[i.path].hash, remote[i.path].mtime)
                  \/ \E p \in ClientWins(local, remote) :
                         i = DownloadItem(NextConflictPath(p, taken), remote[p].hash, remote[p].mtime)
           /\ \A u \in plan.upload :
                  \/ u = UploadItem(u.path, u.path) /\ u.path \in Puts(local)
                  \/ /\ u.of \in ServerWins(local, remote)
                     /\ u = UploadItem(NextConflictPath(u.of, taken), u.of)
<1> DEFINE byClient == ClientWins(local, remote)
           byServer == ServerWins(local, remote)
           loser(p) == NextConflictPath(p, taken)
           own      == (Puts(local) \ Edited(remote)) \cup byClient
           fetched  == (Edited(remote) \ Puts(local)) \cup byServer
<1>1. plan.upload = {UploadItem(p, p) : p \in own} \cup {UploadItem(loser(p), p) : p \in byServer}
  BY DEF ComputePlan
<1>2. plan.download = {DownloadItem(p, remote[p].hash, remote[p].mtime) : p \in fetched}
          \cup {DownloadItem(loser(p), remote[p].hash, remote[p].mtime) : p \in byClient}
  BY DEF ComputePlan
<1>3. plan.conflicts =
          {[path |-> p, winner |-> "client", loser_path |-> loser(p)] : p \in byClient}
          \cup {[path |-> p, winner |-> "server", loser_path |-> loser(p)] : p \in byServer}
  BY DEF ComputePlan
<1>4. /\ plan.server_rename = {[from |-> p, to |-> loser(p)] : p \in byClient}
      /\ plan.delete_local = Buried(remote) \ DOMAIN local
      /\ plan.server_delete = Deletes(local) \ DOMAIN remote
  BY DEF ComputePlan, DeletedHere, DeletedThere
<1>5. own \subseteq Puts(local)
  BY DEF ClientWins, Clashes
<1> HIDE DEF byClient, byServer, loser, own, fetched
<1>6. UploadPaths(plan) = own \cup {loser(p) : p \in byServer}
  <2>1. \A u \in plan.upload : u.path \in own \cup {loser(p) : p \in byServer}
    BY <1>1 DEF UploadItem
  <2>2. \A p \in own : \E u \in plan.upload : u.path = p
    <3> TAKE p \in own
    <3>1. UploadItem(p, p) \in plan.upload /\ UploadItem(p, p).path = p
      BY <1>1 DEF UploadItem
    <3> QED BY <3>1
  <2>3. \A p \in byServer : \E u \in plan.upload : u.path = loser(p)
    <3> TAKE p \in byServer
    <3>1. UploadItem(loser(p), p) \in plan.upload /\ UploadItem(loser(p), p).path = loser(p)
      BY <1>1 DEF UploadItem
    <3> QED BY <3>1
  <2> QED BY <2>1, <2>2, <2>3 DEF UploadPaths
<1>7. DownloadPaths(plan) = fetched \cup {loser(p) : p \in byClient}
  <2>1. \A i \in plan.download : i.path \in fetched \cup {loser(p) : p \in byClient}
    BY <1>2 DEF DownloadItem
  <2>2. \A p \in fetched : \E i \in plan.download : i.path = p
    <3> TAKE p \in fetched
    <3> DEFINE i == DownloadItem(p, remote[p].hash, remote[p].mtime)
    <3>1. i \in plan.download /\ i.path = p
      BY <1>2 DEF DownloadItem
    <3> QED BY <3>1
  <2>3. \A p \in byClient : \E i \in plan.download : i.path = loser(p)
    <3> TAKE p \in byClient
    <3> DEFINE i == DownloadItem(loser(p), remote[p].hash, remote[p].mtime)
    <3>1. i \in plan.download /\ i.path = loser(p)
      BY <1>2 DEF DownloadItem
    <3> QED BY <3>1
  <2> QED BY <2>1, <2>2, <2>3 DEF DownloadPaths
<1>8. \A p \in byServer : \E c \in plan.conflicts :
          c.path = p /\ c.winner = "server" /\ c.loser_path = loser(p)
  <2> TAKE p \in byServer
  <2>1. [path |-> p, winner |-> "server", loser_path |-> loser(p)] \in plan.conflicts
    BY <1>3
  <2> QED BY <2>1
<1>9. \A c \in plan.conflicts :
          /\ c = [path |-> c.path, winner |-> c.winner, loser_path |-> c.loser_path]
          /\ c.loser_path = loser(c.path)
          /\ \/ c.winner = "server" /\ c.path \in byServer
             \/ c.winner = "client" /\ c.path \in byClient
  BY <1>3
<1>10. \A i \in plan.download :
           \/ i.path \in fetched /\ i = DownloadItem(i.path, remote[i.path].hash, remote[i.path].mtime)
           \/ \E p \in byClient : i = DownloadItem(loser(p), remote[p].hash, remote[p].mtime)
  BY <1>2 DEF DownloadItem
<1>11. \A u \in plan.upload :
           \/ u = UploadItem(u.path, u.path) /\ u.path \in own
           \/ u.of \in byServer /\ u = UploadItem(loser(u.of), u.of)
  BY <1>1 DEF UploadItem
<1>12. /\ \A p \in byClient : [from |-> p, to |-> loser(p)] \in plan.server_rename
       /\ \A r \in plan.server_rename : r.from \in byClient /\ r.to = loser(r.from)
  BY <1>4
<1> QED BY <1>4, <1>5, <1>6, <1>7, <1>8, <1>9, <1>10, <1>11, <1>12
       DEF byClient, byServer, loser, own, fetched

\* The names given to losers are free on both sides: no path the device
\* reports and no path it is told of has one.
FreshLosers(local, remote, taken) ==
    \A p \in Clashes(local, remote) :
        NextConflictPath(p, taken) \notin DOMAIN local \cup DOMAIN remote

\* Then the lists of a plan are disjoint, and no upload is asked for twice.
LEMMA PlanDisjoint ==
    ASSUME NEW local, NEW remote, NEW taken, NEW plan, plan = ComputePlan(local, remote, taken),
           DOMAIN local \subseteq Path, IsFiniteSet(taken), Edited(remote) \subseteq taken,
           FreshLosers(local, remote, taken)
    PROVE  /\ UploadPaths(plan) \cap DownloadPaths(plan) = {}
           /\ UploadPaths(plan) \cap plan.delete_local = {}
           /\ DownloadPaths(plan) \cap plan.delete_local = {}
           /\ UploadPaths(plan) \cap plan.server_delete = {}
           /\ DownloadPaths(plan) \cap plan.server_delete = {}
           /\ RenameTargets(plan) \cap UploadPaths(plan) = {}
           /\ RenameTargets(plan) \subseteq DownloadPaths(plan)
           /\ RepeatedUploads(plan) = {}
<1> DEFINE byClient == ClientWins(local, remote)
           byServer == ServerWins(local, remote)
           loser(p) == NextConflictPath(p, taken)
<1>1. /\ byClient \cap byServer = {}
      /\ byClient \subseteq Puts(local) \cap Edited(remote)
      /\ byServer \subseteq Puts(local) \cap Edited(remote)
      /\ Puts(local) \cap Deletes(local) = {}
      /\ Puts(local) \subseteq DOMAIN local /\ Deletes(local) \subseteq DOMAIN local
      /\ Edited(remote) \cap Buried(remote) = {}
      /\ Edited(remote) \subseteq DOMAIN remote /\ Buried(remote) \subseteq DOMAIN remote
  BY DEF ClientWins, ServerWins, Clashes, Puts, Deletes, Edited, Buried
<1>2. \A p \in byClient \cup byServer :
          /\ p \in Path
          /\ loser(p) \notin taken /\ loser(p) \notin DOMAIN local /\ loser(p) \notin DOMAIN remote
          /\ Parent(loser(p)) = p
  <2> TAKE p \in byClient \cup byServer
  <2>1. p \in Clashes(local, remote) /\ p \in Path
    BY <1>1 DEF ClientWins, ServerWins
  <2> QED BY <2>1, NextConflictPathFresh, LoserParent DEF FreshLosers
<1>3. /\ UploadPaths(plan) =
             (Puts(local) \ Edited(remote)) \cup byClient \cup {loser(p) : p \in byServer}
      /\ DownloadPaths(plan) =
             (Edited(remote) \ Puts(local)) \cup byServer \cup {loser(p) : p \in byClient}
      /\ plan.delete_local = Buried(remote) \ DOMAIN local
      /\ plan.server_delete = Deletes(local) \ DOMAIN remote
  BY PlanLists
<1>4. \A r \in plan.server_rename : r.from \in byClient /\ r.to = loser(r.from)
  BY PlanLists
<1>5. \A u \in plan.upload :
           \/ u = UploadItem(u.path, u.path) /\ u.path \in Puts(local)
           \/ u.of \in byServer /\ u = UploadItem(loser(u.of), u.of)
  BY PlanLists
<1> HIDE DEF byClient, byServer, loser
<1>6. {loser(p) : p \in byClient} \cap {loser(p) : p \in byServer} = {}
  BY <1>1, <1>2
<1>7. RenameTargets(plan) \subseteq {loser(p) : p \in byClient}
  BY <1>4 DEF RenameTargets
<1>8. RepeatedUploads(plan) = {}
  <2> SUFFICES ASSUME NEW u \in plan.upload, NEW v \in plan.upload, u # v, u.path = v.path
               PROVE  FALSE
    BY DEF RepeatedUploads
  <2>1. CASE u.path \in Puts(local)
    <3>1. u = UploadItem(u.path, u.path) /\ v = UploadItem(v.path, v.path)
      BY <1>1, <1>2, <1>5, <2>1 DEF UploadItem
    <3> QED BY <3>1
  <2>2. CASE u.path \notin Puts(local)
    <3>1. /\ u.of \in byServer /\ u = UploadItem(loser(u.of), u.of)
          /\ v.of \in byServer /\ v = UploadItem(loser(v.of), v.of)
      BY <1>5, <2>2
    <3>2. loser(u.of) = loser(v.of)
      BY <3>1 DEF UploadItem
    <3> QED BY <1>2, <3>1, <3>2
  <2> QED BY <2>1, <2>2
<1>9. /\ UploadPaths(plan) \cap DownloadPaths(plan) = {}
      /\ UploadPaths(plan) \cap plan.delete_local = {}
      /\ DownloadPaths(plan) \cap plan.delete_local = {}
      /\ UploadPaths(plan) \cap plan.server_delete = {}
      /\ DownloadPaths(plan) \cap plan.server_delete = {}
  BY <1>1, <1>2, <1>3, <1>6
<1>10. RenameTargets(plan) \cap UploadPaths(plan) = {} /\ RenameTargets(plan) \subseteq DownloadPaths(plan)
  BY <1>1, <1>2, <1>3, <1>6, <1>7
<1> QED BY <1>8, <1>9, <1>10

=============================================================================
