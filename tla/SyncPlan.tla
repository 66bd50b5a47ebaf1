------------------------------ MODULE SyncPlan ------------------------------
(***************************************************************************)
(* The pure part of the sync protocol (crates/core/src/protocol.rs and the *)
(* diff of crates/core/src/client.rs): what a device reports since its     *)
(* baseline, and the plan the server computes from that report and from    *)
(* what changed on its own side.                                           *)
(*                                                                         *)
(* Abstractions.  A path is a user file plus the numbers of the            *)
(* `.conflict<n>` suffixes appended to it.  A content is its hash (the     *)
(* code only ever compares SHA-256 strings).  Sizes are left out.  Lists   *)
(* of the wire format are sets; the one list whose repetitions matter,     *)
(* `upload`, tags each item with the path it was decided for.              *)
(***************************************************************************)
EXTENDS Integers, Sequences, FiniteSets

CONSTANTS Files,    \* paths users give to their saves
          Hashes,   \* contents
          NoHash    \* the empty hash string of a tombstone

ASSUME NoHashAssumption == NoHash \notin Hashes

Path == [file : Files, marks : Seq(Nat)]

\* The path a user sees, and whether it is a preserved conflict loser.
UserPath(f) == [file |-> f, marks |-> << >>]
IsMarker(p) == p.marks # << >>

\* FileMeta of the client and IndexEntry of the server.
Meta  == [hash : Hashes, mtime : Int]
Entry == [rev : Nat, hash : Hashes \cup {NoHash}, mtime : Int, deleted : BOOLEAN]

Change == [op : {"put"}, hash : Hashes, mtime : Int] \cup [op : {"delete"}]

LiveEntry(rev, hash, mtime) ==
    [rev |-> rev, hash |-> hash, mtime |-> mtime, deleted |-> FALSE]

TombstoneUnmarked(rev) ==
    [rev |-> rev, hash |-> NoHash, mtime |-> 0, deleted |-> FALSE]

\* The deletion time a tombstone carries in `mtime` is read by retention
\* only, which the server module abstracts to "some tombstones are old".
Tombstone(rev) ==
    [rev |-> rev, hash |-> NoHash, mtime |-> 0, deleted |-> TRUE]

-----------------------------------------------------------------------------
(***************************************************************************)
(* local_changes: what this device reports.                                *)
(***************************************************************************)

\* A path is reported as put when its content is not the baseline's (a
\* moved mtime alone is not a change), as delete when only the baseline has it.
LocalChanges(baseline, current) ==
    LET put  == {p \in DOMAIN current :
                    p \notin DOMAIN baseline \/ baseline[p].hash # current[p].hash}
        gone == DOMAIN baseline \ DOMAIN current
    IN  [p \in put \cup gone |->
            IF p \in put THEN [op |-> "put", hash |-> current[p].hash, mtime |-> current[p].mtime]
            ELSE [op |-> "delete"]]

-----------------------------------------------------------------------------
(***************************************************************************)
(* compute_plan.                                                           *)
(***************************************************************************)

ConflictPath(p, n) == [file |-> p.file, marks |-> Append(p.marks, n)]

\* The smallest n >= 1 whose path is free: one of the first |taken| + 1 is.
\* (compute_plan also counts the names it has just given as taken; names of
\* different paths differ, so that never changes the choice.)
NextConflictPath(p, taken) ==
    LET free == {n \in 1 .. Cardinality(taken) + 1 : ConflictPath(p, n) \notin taken}
    IN  ConflictPath(p, CHOOSE n \in free : \A m \in free : n <= m)

Puts(local)      == {p \in DOMAIN local : local[p].op = "put"}
Deletes(local)   == {p \in DOMAIN local : local[p].op = "delete"}
Edited(remote)   == {p \in DOMAIN remote : ~remote[p].deleted}
Buried(remote)   == {p \in DOMAIN remote : remote[p].deleted}

\* Both sides wrote different contents.
Clashes(local, remote) ==
    {p \in Puts(local) \cap Edited(remote) : local[p].hash # remote[p].hash}

\* The newer mtime wins; a tie goes to the server.
ClientWins(local, remote) ==
    {p \in Clashes(local, remote) : local[p].mtime > remote[p].mtime}

ServerWins(local, remote) == Clashes(local, remote) \ ClientWins(local, remote)

UploadItem(p, of)            == [path |-> p, of |-> of]
DownloadItem(p, hash, mtime) == [path |-> p, hash |-> hash, mtime |-> mtime]

\* The client deleted it and nobody else touched it.
DeletedHere(local, remote)       == Deletes(local) \ DOMAIN remote

\* Somebody else deleted it and the client left it alone.
DeletedThereAnyway(local, remote) == Buried(remote)
DeletedThere(local, remote)       == Buried(remote) \ DOMAIN local

\* `local` maps each path the device changed since its baseline to its
\* change, `remote` each path the server changed since then to its index
\* entry, `taken` is the set of paths live on the server.
ComputePlan(local, remote, taken) ==
    LET byClient == ClientWins(local, remote)
        byServer == ServerWins(local, remote)
        loser(p) == NextConflictPath(p, taken)
        lost(p, winner) == [path |-> p, winner |-> winner, loser_path |-> loser(p)]
    IN  [\* put against nothing or a tombstone, the client's winners, and the
         \* losers the client holds under their new name
         upload        |-> {UploadItem(p, p) : p \in (Puts(local) \ Edited(remote)) \cup byClient}
                           \cup {UploadItem(loser(p), p) : p \in byServer},
         \* an edit against nothing or a delete, the server's winners, and the
         \* losers the server renames
         download      |-> {DownloadItem(p, remote[p].hash, remote[p].mtime) :
                               p \in (Edited(remote) \ Puts(local)) \cup byServer}
                           \cup {DownloadItem(loser(p), remote[p].hash, remote[p].mtime) : p \in byClient},
         delete_local  |-> DeletedThere(local, remote),
         conflicts     |-> {lost(p, "client") : p \in byClient} \cup {lost(p, "server") : p \in byServer},
         server_delete |-> DeletedHere(local, remote),
         server_rename |-> {[from |-> p, to |-> loser(p)] : p \in byClient}]

\* Parts of a plan.
UploadPaths(plan)   == {u.path : u \in plan.upload}
DownloadPaths(plan) == {i.path : i \in plan.download}
RenameTargets(plan) == {r.to : r \in plan.server_rename}
RenameSources(plan) == {r.from : r \in plan.server_rename}

\* Paths the upload list names more than once.
RepeatedUploads(plan) ==
    {u.path : u \in {i \in plan.upload : \E j \in plan.upload : j # i /\ j.path = i.path}}
=============================================================================
