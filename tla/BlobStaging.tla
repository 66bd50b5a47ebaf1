----------------------------- MODULE BlobStaging -----------------------------
(***************************************************************************)
(* Blobs on their way through the server (api.rs put_blob, get_blob and    *)
(* commit; storage.rs): where SyncServer has one action, put_blob looks at *)
(* the session under the mutex, writes the staged file without it, and     *)
(* takes it again to write the row; get_blob validates the hash under the  *)
(* mutex and reads the live file without it.                               *)
(*                                                                         *)
(* A handler runs to its end whatever becomes of the device that called    *)
(* it: nothing in it awaits once the body is in.  A device keeps to the    *)
(* cycle of client.rs, one blob after the other (docs/protocol.md allows   *)
(* several files in parallel, and so does this module), but may give up at *)
(* any moment and start again.  What a plan wants is left open: here any   *)
(* files the device has, and no deletions.  A blob sent twice in a session *)
(* changes nothing here; SessionLock says what it means for the lock.      *)
(***************************************************************************)
EXTENDS Naturals, Functions

CONSTANTS Devices, BlobPaths, BlobContents,
          NoSession,     \* a device between cycles
          MaxPlans       \* bound: sessions ever opened

ASSUME StagingAssumption == MaxPlans \in Nat /\ NoSession \notin 1..MaxPlans

VARIABLES
    sessions,       \* open sessions: id -> device
    plan_count,     \* ids given out (the code draws random ones)
    session_blobs,  \* rows of each open session: id -> path -> hash
    staging,        \* files under staging/<session>: id -> path -> content
    file_index,     \* live rows: path -> hash
    tree,           \* the live tree: path -> content
    cycle,          \* device -> the session it works in, its uploads, those sent
    puts,           \* put_blob handlers between their locked blocks
    gets,           \* get_blob handlers that have validated a hash
    served          \* ghost: the last body sent, with the hash in its header

stagingVars == <<sessions, plan_count, session_blobs, staging, file_index, tree,
                 cycle, puts, gets, served>>

Idle == [session |-> NoSession, want |-> << >>, sent |-> {}]

\* g over f, on the union of their domains.
Updated(f, g) == [x \in DOMAIN f \cup DOMAIN g |-> IF x \in DOMAIN g THEN g[x] ELSE f[x]]

With(f, x, v) == Updated(f, [y \in {x} |-> v])

Without(f, xs) == Restrict(f, DOMAIN f \ xs)

Rows(s) == session_blobs[s]

\* A slip: rows outlive their session.
CascadeOff(open) == session_blobs

\* Removing sessions removes their rows, by the foreign key.
Cascade(open) == Restrict(session_blobs, DOMAIN open)

\* A slip: one staging directory for everybody.
StagingRootShared(s) == 1

StagingRoot(s) == s

StagedIn(s) ==
    IF StagingRoot(s) \in DOMAIN staging THEN staging[StagingRoot(s)] ELSE << >>

-----------------------------------------------------------------------------
\* plan: the caller's own session goes, and another's only when it has
\* expired, which is a choice.  The staging directory of a session that goes
\* stays on the disk for ever.
Plan(d, want) ==
    /\ plan_count < MaxPlans
    /\ cycle[d] = Idle
    /\ LET id == plan_count + 1
       IN  /\ plan_count' = id
           /\ sessions' = [s \in {id} |-> d]
           /\ session_blobs' = [s \in {id} |-> << >>]
           /\ cycle' = [cycle EXCEPT ![d] = [session |-> id, want |-> want, sent |-> {}]]
    /\ UNCHANGED <<staging, file_index, tree, puts, gets, served>>

\* The cycle fails, or its device stops; the server learns nothing.
GiveUp(d) ==
    /\ cycle[d] # Idle
    /\ cycle' = [cycle EXCEPT ![d] = Idle]
    /\ UNCHANGED <<sessions, plan_count, session_blobs, staging, file_index,
                   tree, puts, gets, served>>

\* A device revoked: its session goes, its handlers run on.
Revoke(d) ==
    /\ \E s \in DOMAIN sessions : sessions[s] = d
    /\ sessions' = Without(sessions, {s \in DOMAIN sessions : sessions[s] = d})
    /\ session_blobs' = Cascade(sessions')
    /\ UNCHANGED <<plan_count, staging, file_index, tree, cycle, puts, gets, served>>

-----------------------------------------------------------------------------
\* put_blob, first block: the session must be open and the device's.
InFlight(d, p) == \E put \in puts : put.session = cycle[d].session /\ put.path = p

StartPut(d, p) ==
    LET s == cycle[d].session
        h == cycle[d].want[p]
    IN  /\ p \in DOMAIN cycle[d].want \ cycle[d].sent
        /\ s \in DOMAIN sessions
        /\ ~InFlight(d, p)
        /\ puts' = puts \cup {[device |-> d, session |-> s, path |-> p, hash |-> h,
                               at |-> "checked"]}
        /\ UNCHANGED <<sessions, plan_count, session_blobs, staging, file_index,
                       tree, cycle, gets, served>>

\* stage_blob, outside the mutex: the bytes have been checked against the
\* hash, so the file is its hash.
StageBlob(put) ==
    /\ put.at = "checked"
    /\ staging' = With(staging, StagingRoot(put.session),
                       With(StagedIn(put.session), put.path, put.hash))
    /\ puts' = (puts \ {put}) \cup {[put EXCEPT !.at = "staged"]}
    /\ UNCHANGED <<sessions, plan_count, session_blobs, file_index, tree, cycle,
                   gets, served>>

\* The reply reaches the device if it still works in that session.
Answered(put) ==
    [cycle EXCEPT ![put.device].sent =
        IF cycle[put.device].session = put.session THEN @ \cup {put.path} ELSE @]

\* A slip: the row is written in the first block, before the file.
RecordBlobEarly(put) ==
    /\ put.at = "checked"
    /\ put.session \in DOMAIN sessions
    /\ puts' = (puts \ {put}) \cup {[put EXCEPT !.at = "recorded"]}
    /\ session_blobs' = With(session_blobs, put.session,
                             With(Rows(put.session), put.path, put.hash))
    /\ cycle' = Answered(put)
    /\ UNCHANGED <<sessions, plan_count, staging, file_index, tree, gets, served>>

\* put_blob, last block.
RecordBlob(put) ==
    /\ put.at = "staged"
    /\ put.session \in DOMAIN sessions
    /\ puts' = puts \ {put}
    /\ session_blobs' = With(session_blobs, put.session,
                             With(Rows(put.session), put.path, put.hash))
    /\ cycle' = Answered(put)
    /\ UNCHANGED <<sessions, plan_count, staging, file_index, tree, gets, served>>

\* The foreign key refuses a row of a session removed meanwhile: 500.
RecordRefused(put) ==
    /\ put.at = "staged"
    /\ put.session \notin DOMAIN sessions
    /\ puts' = puts \ {put}
    /\ UNCHANGED <<sessions, plan_count, session_blobs, staging, file_index,
                   tree, cycle, gets, served>>

-----------------------------------------------------------------------------
\* commit: every blob of the plan has its row; files move from staging to
\* the live tree, and the rows of the index are written from session_blobs.
MissingUploads(s, want) == DOMAIN want \ DOMAIN Rows(s)

CommitStaged(d) ==
    LET s    == cycle[d].session
        want == cycle[d].want
    IN  /\ s \in DOMAIN sessions
        /\ cycle[d].sent = DOMAIN want
        /\ MissingUploads(s, want) = {}
        /\ DOMAIN want \subseteq DOMAIN StagedIn(s)
        /\ tree' = Updated(tree, Restrict(StagedIn(s), DOMAIN want))
        /\ file_index' = Updated(file_index, Restrict(Rows(s), DOMAIN want))
        /\ staging' = Without(staging, {StagingRoot(s)})
        /\ sessions' = Without(sessions, {s})
        /\ session_blobs' = Cascade(sessions')
        /\ cycle' = [cycle EXCEPT ![d] = Idle]
        /\ UNCHANGED <<plan_count, puts, gets, served>>

-----------------------------------------------------------------------------
\* get_blob, under the mutex: the index row must have the hash asked for.
StartGet(p, h) ==
    /\ p \in DOMAIN file_index
    /\ file_index[p] = h
    /\ gets' = gets \cup {[path |-> p, hash |-> h]}
    /\ UNCHANGED <<sessions, plan_count, session_blobs, staging, file_index,
                   tree, cycle, puts, served>>

\* The file is read later, and goes out under the hash of the row.
ReadBlob(get) ==
    /\ get.path \in DOMAIN tree
    /\ served' = [hash |-> get.hash, body |-> tree[get.path]]
    /\ gets' = gets \ {get}
    /\ UNCHANGED <<sessions, plan_count, session_blobs, staging, file_index,
                   tree, cycle, puts>>

StagingInit ==
    /\ sessions = << >>
    /\ plan_count = 0
    /\ session_blobs = << >>
    /\ staging = << >>
    /\ file_index = << >>
    /\ tree = << >>
    /\ cycle = [d \in Devices |-> Idle]
    /\ puts = {}
    /\ gets = {}
    /\ served = << >>

Wants == UNION {[ps -> BlobContents] : ps \in SUBSET BlobPaths}

DeviceStep(d) ==
    \/ \E want \in Wants : Plan(d, want)
    \/ GiveUp(d)
    \/ Revoke(d)
    \/ \E p \in BlobPaths : StartPut(d, p)
    \/ CommitStaged(d)

HandlerStep ==
    \/ \E put \in puts : StageBlob(put) \/ RecordBlob(put) \/ RecordRefused(put)
    \/ \E p \in BlobPaths, h \in BlobContents : StartGet(p, h)
    \/ \E get \in gets : ReadBlob(get)

StagingNext == HandlerStep \/ \E d \in Devices : DeviceStep(d)

StagingSpec == StagingInit /\ [][StagingNext]_stagingVars

-----------------------------------------------------------------------------
FileMaps == UNION {[ps -> BlobContents] : ps \in SUBSET BlobPaths}

StagingTypeOK ==
    /\ plan_count \in 0..MaxPlans
    /\ DOMAIN sessions \subseteq 1..plan_count
    /\ \A s \in DOMAIN sessions : sessions[s] \in Devices
    /\ DOMAIN session_blobs = DOMAIN sessions
    /\ \A s \in DOMAIN session_blobs : session_blobs[s] \in FileMaps
    /\ DOMAIN staging \subseteq 1..plan_count
    /\ \A s \in DOMAIN staging : staging[s] \in FileMaps
    /\ file_index \in FileMaps
    /\ tree \in FileMaps
    /\ \A d \in Devices :
           /\ cycle[d].session \in 1..plan_count \cup {NoSession}
           /\ cycle[d].want \in FileMaps
           /\ cycle[d].sent \subseteq DOMAIN cycle[d].want

\* A row of session_blobs is a promise of a file: the staging directory of an
\* open session has, for each row, the bytes of that hash -- whatever
\* handlers of abandoned cycles are still writing.
RowsAreStaged ==
    \A s \in DOMAIN sessions : \A p \in DOMAIN Rows(s) :
        p \in DOMAIN StagedIn(s) /\ StagedIn(s)[p] = Rows(s)[p]

\* Index and live tree agree although files move unlocked: nothing enters
\* the live tree outside a commit, and a commit moves what its rows say.
IndexIsLive == file_index = tree

\* docs/protocol.md: the hash of a GET is validated, "409 stale_rev" else --
\* the body is the content the header names.
ServedAsNamed == served # << >> => served.body = served.hash

=============================================================================
