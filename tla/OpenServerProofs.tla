-------------------------- MODULE OpenServerProofs --------------------------
(***************************************************************************)
(* What the server guarantees whatever its devices send, for any number of *)
(* devices, paths, contents, reports and commits.                          *)
(*                                                                         *)
(* The conjunction of the server's invariants is inductive; they need each *)
(* other (see ServerProofs, which has the step of each handler).           *)
(***************************************************************************)
EXTENDS OpenServer, ServerProofs

ServerInvariant ==
    /\ ServerCore
    /\ PlanIsFresh
    /\ NoMissedChange

-----------------------------------------------------------------------------
\* Each request, one handler.
LEMMA NextInvariant ==
    ASSUME ServerInvariant, NEW d \in Devices, DeviceStep(d)
    PROVE  ServerInvariant'
<1>1. CASE PlanBusy(d)
  <2>1. PICK stale \in SUBSET DOMAIN sessions : sessions' = Without(sessions, stale)
    BY <1>1 DEF PlanBusy
  <2> QED BY <1>1, <2>1, SessionsClose DEF PlanBusy, ServerInvariant
<1>2. CASE \E last_rev \in 0 .. MaxRev : PlanGone(d, last_rev)
  <2>1. PICK last_rev \in 0 .. MaxRev : PlanGone(d, last_rev)
    BY <1>2
  <2>2. PICK ids : sessions' = Without(sessions, ids)
    BY <2>1 DEF PlanGone
  <2> QED BY <2>1, <2>2, SessionsClose DEF PlanGone, ServerInvariant
<1>3. CASE \E last_rev \in 0 .. MaxRev, changes \in Reports : Plan(d, last_rev, changes)
  BY <1>3, PlanStep, ReportsAssumption DEF ServerInvariant
<1>4. CASE \E s \in 1 .. MaxSessions : PutPlannedBlob(d, s)
  <2>1. PICK s \in DOMAIN sessions :
            \E p \in UploadPaths(sessions[s].plan), hash \in Hashes, mtime \in MTimes :
                PutBlob(d, s, p, hash, mtime)
    BY <1>4 DEF PutPlannedBlob
  <2>2. PICK p \in UploadPaths(sessions[s].plan), hash \in Hashes, mtime \in MTimes :
            PutBlob(d, s, p, hash, mtime)
    BY <2>1
  <2>3. p \in Path /\ mtime \in Int
    BY SessionPlan, MTimesAssumption DEF ServerInvariant, ServerCore, PlanIsFresh, Fresh
  <2> QED BY <2>2, <2>3, PutBlobStep DEF ServerInvariant
<1>5. CASE \E s \in 1 .. MaxSessions : Commit(d, s)
  <2>1. PICK s : Commit(d, s)
    BY <1>5
  <2>2. Fresh(s)
    BY <2>1 DEF ServerInvariant, PlanIsFresh, Fresh, Commit, OwnedBy
  <2> QED BY <2>1, <2>2, CommitStep DEF ServerInvariant, PlanIsFresh
<1>6. CASE \E s \in 1 .. MaxSessions : CommitFails(d, s)
  BY <1>6, NothingChanges DEF CommitFails, ServerInvariant
<1>7. CASE RevokeDevice(d)
  BY <1>7, SessionsClose DEF RevokeDevice, ServerInvariant
<1> QED BY <1>1, <1>2, <1>3, <1>4, <1>5, <1>6, <1>7 DEF DeviceStep

\* The invariants of the server hold together.
THEOREM ServerInvariantHolds == Spec => []ServerInvariant
<1>1. Init => ServerInvariant
  BY InitCore DEF ServerInvariant
<1>2. ServerInvariant /\ [Next]_vars => ServerInvariant'
  <2> SUFFICES ASSUME ServerInvariant, [Next]_vars PROVE ServerInvariant'
    OBVIOUS
  <2>1. CASE Next
    BY <2>1, NextInvariant DEF Next
  <2>2. CASE UNCHANGED vars
    BY <2>2, NothingChanges DEF vars, ServerInvariant
  <2> QED BY <2>1, <2>2
<1> QED BY <1>1, <1>2, PTL DEF Spec

\* The state of the server keeps its types: revisions within the head, rows
\* with a content unless tombstones, sessions of paired devices (db.rs).
THEOREM ServerTyped == Spec => []ServerTypeOK
<1>1. ServerInvariant => ServerTypeOK
  BY DEF ServerInvariant, ServerCore
<1> QED BY <1>1, ServerInvariantHolds, PTL

\* The lock of an emulator admits one open session (api.rs plan).
THEOREM LockExclusive == Spec => []SessionExclusive
<1>1. ServerInvariant => SessionExclusive
  BY DEF ServerInvariant, ServerCore
<1> QED BY <1>1, ServerInvariantHolds, PTL

\* The plan a device commits is the one the server would compute at that
\* moment (api.rs plan and commit).
THEOREM PlanStaysFresh == Spec => []PlanIsFresh
<1>1. ServerInvariant => PlanIsFresh
  BY DEF ServerInvariant
<1> QED BY <1>1, ServerInvariantHolds, PTL

\* No row, device or floor is ahead of the head revision (db.rs).
THEOREM RevisionsWithinHead == Spec => []RevisionsBounded
<1>1. ServerInvariant => RevisionsBounded
  BY DEF ServerInvariant, ServerCore
<1> QED BY <1>1, ServerInvariantHolds, PTL

\* Pruning tombstones hides no deletion from a device that may still plan
\* incrementally (db.rs prune_tombstones, api.rs prune_history).
THEOREM NoChangeIsMissed == Spec => []NoMissedChange
<1>1. ServerInvariant => NoMissedChange
  BY DEF ServerInvariant
<1> QED BY <1>1, ServerInvariantHolds, PTL

-----------------------------------------------------------------------------
(***************************************************************************)
(* The server implements SerialCommits: closing sessions is GiveUp, a      *)
(* granted plan is Look, a commit is Swap.                                 *)
(***************************************************************************)

\* With one session open, the head a device was planned at is that
\* session's, and nobody else was planned.
LEMMA PlannedHeads ==
    ASSUME SessionExclusive
    PROVE  /\ \A d \in Devices : SessionsOf(d) = {} => PlannedHead(d) = None
           /\ \A s \in DOMAIN sessions : \A d \in Devices :
                  PlannedHead(d) = IF sessions[s].device = d THEN sessions[s].head ELSE None
<1>1. \A d \in Devices : SessionsOf(d) = {} => PlannedHead(d) = None
  BY DEF PlannedHead
<1>2. ASSUME NEW s \in DOMAIN sessions, NEW d \in Devices
      PROVE  PlannedHead(d) = IF sessions[s].device = d THEN sessions[s].head ELSE None
  <2>1. CASE sessions[s].device = d
    <3>1. SessionsOf(d) = {s}
      BY <2>1 DEF SessionsOf, SessionExclusive
    <3> QED BY <2>1, <3>1 DEF PlannedHead
  <2>2. CASE sessions[s].device # d
    <3>1. SessionsOf(d) = {}
      BY <2>2 DEF SessionsOf, SessionExclusive
    <3> QED BY <2>2, <3>1 DEF PlannedHead
  <2> QED BY <2>1, <2>2
<1> QED BY <1>1, <1>2

\* A closed session is a device that gives up its turn.
LEMMA ClosingGivesUp ==
    ASSUME SessionExclusive, NEW ids, sessions' = Without(sessions, ids),
           UNCHANGED <<head_rev, file_index>>
    PROVE  Serial!GiveUp
<1> DEFINE gone == {e \in Devices : PlannedHead(e)' = None}
<1>1. /\ DOMAIN sessions' \subseteq DOMAIN sessions
      /\ \A s \in DOMAIN sessions' : sessions'[s] = sessions[s]
  BY DEF Without
<1>2. SessionExclusive'
  BY <1>1 DEF SessionExclusive
<1>3. ASSUME NEW e \in Devices
      PROVE  PlannedHead(e)' = None \/ PlannedHead(e)' = PlannedHead(e)
  <2>1. CASE DOMAIN sessions' = {}
    BY <2>1 DEF PlannedHead, SessionsOf
  <2>2. CASE DOMAIN sessions' # {}
    <3>1. PICK s \in DOMAIN sessions' : TRUE
      BY <2>2
    <3>2. DOMAIN sessions' = {s} /\ DOMAIN sessions = {s} /\ sessions'[s] = sessions[s]
      BY <1>1, <3>1 DEF SessionExclusive
    <3> QED BY <3>2 DEF PlannedHead, SessionsOf
  <2> QED BY <2>1, <2>2
<1>4. [d \in Devices |-> PlannedHead(d)]' =
          [e \in Devices |-> IF e \in gone THEN None ELSE [d \in Devices |-> PlannedHead(d)][e]]
  BY <1>3
<1>5. gone \in SUBSET Devices
  OBVIOUS
<1>6. ContentsOf(file_index)' = ContentsOf(file_index)
  BY DEF ContentsOf, LivePathsOf
<1> HIDE DEF gone
<1> QED BY <1>4, <1>5, <1>6 DEF Serial!GiveUp

\* A step that keeps the sessions' owners and heads keeps the abstract state.
LEMMA NothingSeen ==
    ASSUME UNCHANGED <<head_rev, file_index>>,
           DOMAIN sessions' = DOMAIN sessions,
           \A s \in DOMAIN sessions : /\ sessions'[s].device = sessions[s].device
                                      /\ sessions'[s].head = sessions[s].head
    PROVE  UNCHANGED Serial!vars
<1>1. ASSUME NEW e \in Devices
      PROVE  PlannedHead(e)' = PlannedHead(e)
  <2>1. SessionsOf(e)' = SessionsOf(e)
    BY DEF SessionsOf
  <2>2. CASE SessionsOf(e) = {}
    BY <2>1, <2>2 DEF PlannedHead
  <2>3. CASE SessionsOf(e) # {}
    <3>1. (CHOOSE s \in SessionsOf(e) : TRUE) \in DOMAIN sessions
      BY <2>3 DEF SessionsOf
    <3> QED BY <2>1, <2>3, <3>1 DEF PlannedHead
  <2> QED BY <2>2, <2>3
<1>2. ContentsOf(file_index)' = ContentsOf(file_index)
  BY DEF ContentsOf, LivePathsOf
<1> QED BY <1>1, <1>2 DEF Serial!vars

\* A granted plan looks at the head and its content.
LEMMA PlanLooks ==
    ASSUME ServerInvariant, NEW d \in Devices, NEW last_rev \in 0 .. MaxRev,
           NEW changes \in Reports, Plan(d, last_rev, changes)
    PROVE  Serial!Look(d)
<1> DEFINE id == session_count + 1
<1>1. id \in DOMAIN sessions' /\ sessions'[id].device = d /\ sessions'[id].head = head_rev
  BY DEF Plan, NewSession
<1>2. SessionExclusive'
  BY PlanStep, ReportsAssumption DEF ServerInvariant, ServerCore
<1>3. \A e \in Devices : PlannedHead(e)' = IF e = d THEN head_rev ELSE None
  <2> HIDE DEF id
  <2>1. DOMAIN sessions' = {id}
    BY <1>1, <1>2 DEF SessionExclusive
  <2> QED BY <1>1, <2>1 DEF PlannedHead, SessionsOf
<1>4. UNCHANGED <<head_rev, ContentsOf(file_index)>>
  BY DEF Plan, ContentsOf, LivePathsOf
<1> DEFINE gone == Devices \ {d}
<1>5. [e \in Devices |-> PlannedHead(e)]' =
          [e \in Devices |-> IF e = d THEN head_rev ELSE IF e \in gone THEN None
                             ELSE [f \in Devices |-> PlannedHead(f)][e]]
  BY <1>3
<1> QED BY <1>4, <1>5 DEF Serial!Look

\* A commit swaps the content it was planned on.
LEMMA CommitSwaps ==
    ASSUME ServerInvariant, NEW d \in Devices, NEW s \in 1 .. MaxSessions, Commit(d, s)
    PROVE  Serial!Swap(d)
<1> USE DEF ServerInvariant, ServerCore
<1>1. /\ s \in DOMAIN sessions /\ sessions[s].device = d
      /\ head_rev' = head_rev + 1 /\ sessions' = Without(sessions, {s})
  BY DEF Commit, OwnedBy
<1>2. \A e \in Devices : PlannedHead(e) = IF e = d THEN head_rev ELSE None
  BY <1>1, PlannedHeads DEF PlanIsFresh
<1>3. DOMAIN sessions' = {}
  BY <1>1 DEF Without, SessionExclusive
<1>4. \A e \in Devices : PlannedHead(e)' = None
  BY <1>3 DEF PlannedHead, SessionsOf
<1> QED BY <1>1, <1>2, <1>4 DEF Serial!Swap

\* The mutex and the session lock of the handlers make the server a store in
\* which a tree is replaced only by a commit planned on it (api.rs plan,
\* commit): the detailed server implements the compare-and-swap one.
THEOREM ServerIsSerial == Spec => CommitsAreSerial
<1>1. Init => Serial!Init
  <2> SUFFICES ASSUME Init PROVE Serial!Init
    OBVIOUS
  <2>1. DOMAIN file_index = {} /\ DOMAIN sessions = {}
    BY DEF Init
  <2>2. ContentsOf(file_index) = << >>
    BY <2>1 DEF ContentsOf, LivePathsOf
  <2>3. \A d \in Devices : PlannedHead(d) = None
    BY <2>1 DEF PlannedHead, SessionsOf
  <2> QED BY <2>2, <2>3 DEF Serial!Init, Init
<1>2. ServerInvariant /\ [Next]_vars => [Serial!Next]_Serial!vars
  <2> SUFFICES ASSUME ServerInvariant, [Next]_vars PROVE [Serial!Next]_Serial!vars
    OBVIOUS
  <2>1. SessionExclusive
    BY DEF ServerInvariant, ServerCore
  <2>2. CASE UNCHANGED vars
    BY <2>2, NothingSeen DEF vars
  <2>3. ASSUME NEW d \in Devices, DeviceStep(d)
        PROVE  [Serial!Next]_Serial!vars
    <3>1. CASE PlanBusy(d)
      <4>1. PICK ids : sessions' = Without(sessions, ids)
        BY <3>1 DEF PlanBusy
      <4> QED BY <2>1, <3>1, <4>1, ClosingGivesUp DEF PlanBusy, Serial!Next
    <3>2. CASE \E last_rev \in 0 .. MaxRev : PlanGone(d, last_rev)
      <4>1. PICK last_rev \in 0 .. MaxRev : PlanGone(d, last_rev)
        BY <3>2
      <4>2. PICK ids : sessions' = Without(sessions, ids)
        BY <4>1 DEF PlanGone
      <4> QED BY <2>1, <4>1, <4>2, ClosingGivesUp DEF PlanGone, Serial!Next
    <3>3. CASE \E last_rev \in 0 .. MaxRev, changes \in Reports : Plan(d, last_rev, changes)
      BY <3>3, PlanLooks DEF Serial!Next
    <3>4. CASE \E s \in 1 .. MaxSessions : PutPlannedBlob(d, s)
      <4>1. PICK s \in DOMAIN sessions :
                \E p \in UploadPaths(sessions[s].plan), hash \in Hashes, mtime \in MTimes :
                    PutBlob(d, s, p, hash, mtime)
        BY <3>4 DEF PutPlannedBlob
      <4>2. DOMAIN sessions[s] = {"device", "plan", "blobs", "changes", "since", "head"}
        BY DEF ServerInvariant, ServerCore, ServerTypeOK, SessionTypeOK
      <4>3. /\ DOMAIN sessions' = DOMAIN sessions
            /\ \A t \in DOMAIN sessions : /\ sessions'[t].device = sessions[t].device
                                           /\ sessions'[t].head = sessions[t].head
        BY <4>1, <4>2 DEF PutBlob
      <4> QED BY <4>1, <4>3, NothingSeen DEF PutBlob
    <3>5. CASE \E s \in 1 .. MaxSessions : Commit(d, s)
      BY <3>5, CommitSwaps DEF Serial!Next
    <3>6. CASE \E s \in 1 .. MaxSessions : CommitFails(d, s)
      BY <3>6, NothingSeen DEF CommitFails
    <3>7. CASE RevokeDevice(d)
      BY <2>1, <3>7, ClosingGivesUp DEF RevokeDevice, Serial!Next
    <3> QED BY <2>3, <3>1, <3>2, <3>3, <3>4, <3>5, <3>6, <3>7 DEF DeviceStep
  <2> QED BY <2>2, <2>3 DEF Next
<1> QED BY <1>1, <1>2, ServerInvariantHolds, PTL DEF Spec, CommitsAreSerial, Serial!Spec
=============================================================================
