----------------------------- MODULE Conflicts -----------------------------
(***************************************************************************)
(* What becomes of the loser of a conflict without a server: rclone keeps  *)
(* it as <file>.conflictN on both sides, the card [ conflicts ] lists the  *)
(* pairs, and the user resolves them one at a time (lib.rs list_conflicts, *)
(* resolve_conflict); for emulators with single files the cycle renames the*)
(* losers by itself (history.rs auto_duplicate_file_conflicts).  One save, *)
(* played here and on another computer that shares the destination.  A     *)
(* version is a number, its modification time.                             *)
(***************************************************************************)
EXTENDS Naturals, FiniteSetsExt

CONSTANTS MaxSaves,      \* bound: versions of the save
          MaxLosers,     \* bound: markers there are names for
          MaxFailures    \* bound: operations on either side that fail midway

ASSUME ConflictsAssumption ==
    MaxSaves \in Nat \ {0} /\ MaxLosers \in Nat /\ MaxFailures \in Nat

VARIABLES
    fileBased,    \* whether the emulator's saves are single files (pcsx2); never changes
    folder,       \* the save folder: path -> version
    destination,
    agreed,       \* rclone's listing of both, after the last bisync
    begun,        \* bisync_initialized
    newest,       \* versions written so far
    failures,
    owed,         \* ghost: losers nobody has decided about
    discarded     \* ghost: versions a resolution that succeeded has given up

conflictVars ==
    <<fileBased, folder, destination, agreed, begun, newest, failures, owed, discarded>>

Numbers   == 1..MaxLosers
Save      == <<"save", 0>>
Marker(n) == <<"conflict", n>>     \* save.ps2.conflict1
Kept(n)   == <<"kept", n>>         \* save-conflict1.ps2
Paths     == {Save} \cup {Marker(n) : n \in Numbers} \cup {Kept(n) : n \in Numbers}
SaveVersions  == 1..MaxSaves
Absent    == 0
Trees     == [Paths -> SaveVersions \cup {Absent}]

Without(tree, p)        == [tree EXCEPT ![p] = Absent]
CopyOver(tree, from, to) == [tree EXCEPT ![to] = tree[from]]

\* operations/movefile: what is at the new name is written over; nothing to
\* move, nothing done.
Moved(tree, from, to) ==
    IF tree[from] = Absent THEN tree ELSE Without(CopyOver(tree, from, to), from)

OperationFails == failures < MaxFailures /\ failures' = failures + 1

-----------------------------------------------------------------------------
\* A path that changed on one side goes to the other, a deletion too; of two
\* changes the later one stays.
Merged(p) ==
    CASE folder[p] = agreed[p] -> destination[p]
      [] destination[p] = agreed[p] -> folder[p]
      [] OTHER -> Max({folder[p], destination[p]})

Clash ==
    /\ folder[Save] \notin {agreed[Save], destination[Save], Absent}
    /\ destination[Save] \notin {agreed[Save], Absent}

FreeNumbers == {n \in Numbers : folder[Marker(n)] = Absent /\ destination[Marker(n)] = Absent}

\* auto_duplicate_file_conflicts on one side.
Duplicated(tree) ==
    [p \in Paths |->
        CASE p[1] = "conflict" -> Absent
          [] p[1] = "kept" /\ tree[Marker(p[2])] # Absent -> tree[Marker(p[2])]
          [] OTHER -> tree[p]]

\* A slip: the loser is not kept (--conflict-loser delete).
BisyncDelete ==
    LET merged == [p \in Paths |-> Merged(p)]
        loser  == IF Clash THEN {Min({folder[Save], destination[Save]})} ELSE {}
    IN  /\ begun
        /\ folder' = merged /\ destination' = merged /\ agreed' = merged
        /\ owed' = IF fileBased THEN owed ELSE owed \cup loser
        /\ UNCHANGED <<fileBased, begun, newest, failures, discarded>>

\* A cycle without --resync: --conflict-resolve newer --conflict-loser num, then
\* the renames, each side by itself, as far as they can be made.
Bisync ==
    LET merged == [p \in Paths |-> Merged(p)]
        loser  == IF Clash THEN {Min({folder[Save], destination[Save]})} ELSE {}
        synced == IF Clash THEN [merged EXCEPT ![Marker(Min(FreeNumbers))] = Min(loser)]
                           ELSE merged
        done   == IF fileBased THEN Duplicated(synced) ELSE synced
    IN  /\ begun
        /\ Clash => FreeNumbers # {}
        /\ agreed' = synced
        /\ \/ folder' = done /\ destination' = done /\ UNCHANGED failures
           \/ /\ done # synced /\ OperationFails
              /\ \/ folder' = synced /\ destination' = done
                 \/ folder' = done /\ destination' = synced
        /\ owed' = IF fileBased THEN owed ELSE owed \cup loser
        /\ UNCHANGED <<fileBased, begun, newest, discarded>>

\* A cycle with --resync: the two sides are united, the newer file where they
\* differ; when one side is empty the other is copied, which is the same.  The
\* cycle is refused when both are.
Resync ==
    LET union == [p \in Paths |-> Max({folder[p], destination[p]})]
    IN  /\ ~begun
        /\ \E p \in Paths : union[p] # Absent
        /\ folder' = union /\ destination' = union /\ agreed' = union
        /\ begun' = TRUE
        /\ UNCHANGED <<fileBased, newest, failures, owed, discarded>>

-----------------------------------------------------------------------------
\* list_conflicts: nothing until the flag is set; then the markers of the
\* destination whose save is there.
ListedPairs ==
    IF begun /\ destination[Save] # Absent
    THEN {n \in Numbers : destination[Marker(n)] # Absent}
    ELSE {}

\* After the last of its steps a resolution calls mark_bisync_needs_resync: the
\* user has decided about `settled`, and given up `gone`.
Resolved(settled, gone) ==
    /\ begun' = FALSE
    /\ owed' = owed \ settled
    /\ discarded' = (discarded \ settled) \cup (gone \ {Absent})
    /\ UNCHANGED <<fileBased, agreed, newest>>

\* keep_current: the loser goes; that it cannot be removed in the save folder is
\* passed over.
KeepCurrent(n) ==
    /\ n \in ListedPairs
    /\ destination' = Without(destination, Marker(n))
    /\ \/ /\ folder' = Without(folder, Marker(n))
          /\ Resolved({destination[Marker(n)]}, {destination[Marker(n)]})
          /\ UNCHANGED failures
       \/ /\ folder[Marker(n)] # Absent
          /\ OperationFails
          /\ Resolved({}, {})
          /\ UNCHANGED folder

\* A slip: the current file of the save folder is left to the next cycle.
UseConflictHere(n) ==
    /\ n \in ListedPairs
    /\ destination' = Moved(destination, Marker(n), Save)
    /\ folder' = Without(folder, Marker(n))
    /\ Resolved({destination[Marker(n)]}, {destination[Save], folder[Save]})
    /\ UNCHANGED failures

\* use_conflict: copied over the current file on both sides, then removed, in the
\* save folder if it can be.
UseConflict(n) ==
    /\ n \in ListedPairs
    /\ folder[Marker(n)] # Absent
    /\ destination' = Moved(destination, Marker(n), Save)
    /\ \/ folder' = Moved(folder, Marker(n), Save) /\ UNCHANGED failures
       \/ folder' = CopyOver(folder, Marker(n), Save) /\ OperationFails
    /\ Resolved({destination[Marker(n)]}, {destination[Save], folder[Save]})

\* It stops when the second copy fails, or after both when the marker of the
\* destination cannot be removed: no mark.
UseConflictFails(n) ==
    /\ n \in ListedPairs
    /\ destination' = CopyOver(destination, Marker(n), Save)
    /\ \/ folder[Marker(n)] = Absent /\ UNCHANGED <<folder, failures>>
       \/ /\ folder[Marker(n)] # Absent
          /\ OperationFails
          /\ folder' \in {folder, CopyOver(folder, Marker(n), Save)}
    /\ UNCHANGED <<fileBased, agreed, begun, newest, owed, discarded>>

\* keep_both: renamed on both sides, in the save folder if it can be.
KeepBoth(n) ==
    /\ n \in ListedPairs
    /\ destination' = Moved(destination, Marker(n), Kept(n))
    /\ \/ folder' = Moved(folder, Marker(n), Kept(n)) /\ UNCHANGED failures
       \/ folder[Marker(n)] # Absent /\ OperationFails /\ UNCHANGED folder
    /\ Resolved({destination[Marker(n)]}, {})

-----------------------------------------------------------------------------
\* The game writes the save here, or on the other computer, whose own cycle
\* brings it to the destination; a version written over was the player's own.
PlayHere ==
    /\ newest < MaxSaves
    /\ newest' = newest + 1
    /\ folder' = [folder EXCEPT ![Save] = newest + 1]
    /\ UNCHANGED <<fileBased, destination, agreed, begun, failures, owed, discarded>>

PlayThere ==
    /\ newest < MaxSaves
    /\ newest' = newest + 1
    /\ destination' = [destination EXCEPT ![Save] = newest + 1]
    /\ UNCHANGED <<fileBased, folder, agreed, begun, failures, owed, discarded>>

\* The player deletes the save here.
DeleteSave ==
    /\ folder[Save] # Absent
    /\ folder' = Without(folder, Save)
    /\ UNCHANGED <<fileBased, destination, agreed, begun, newest, failures, owed,
                   discarded>>

ConflictsInit ==
    /\ fileBased \in BOOLEAN
    /\ folder = [p \in Paths |-> IF p = Save THEN 1 ELSE Absent]
    /\ destination = [p \in Paths |-> Absent]
    /\ agreed = [p \in Paths |-> Absent]
    /\ begun = FALSE
    /\ newest = 1
    /\ failures = 0
    /\ owed = {}
    /\ discarded = {}

ConflictsNext ==
    \/ Bisync \/ Resync
    \/ \E n \in Numbers :
          KeepCurrent(n) \/ UseConflict(n) \/ UseConflictFails(n) \/ KeepBoth(n)
    \/ PlayHere \/ PlayThere \/ DeleteSave

ConflictsSpec == ConflictsInit /\ [][ConflictsNext]_conflictVars

-----------------------------------------------------------------------------
\* Types.
ConflictsTypeOK ==
    /\ fileBased \in BOOLEAN
    /\ {folder, destination, agreed} \subseteq [Paths -> 0..newest]
    /\ begun \in BOOLEAN
    /\ newest \in SaveVersions
    /\ failures \in 0..MaxFailures
    /\ owed \cup discarded \subseteq 1..newest

Holds(tree, v) == \E p \in Paths : tree[p] = v

\* A loser nobody has decided about is on both sides, under a marker of its own,
\* through any number of further conflicts, deletions of the save and resyncs;
\* on one of them at least when operations have failed midway.
LosersOnHand ==
    \A v \in owed :
        /\ Holds(folder, v) \/ Holds(destination, v)
        /\ failures = 0 => \E n \in Numbers : folder[Marker(n)] = v /\ destination[Marker(n)] = v

\* What a resolution has given up does not come back from the other side, with
\* the resync that follows or any later cycle.
DiscardedStayGone ==
    failures = 0 => \A v \in discarded : ~Holds(folder, v) /\ ~Holds(destination, v)

\* history.rs: a marker without its save does not happen unless a resolution has
\* failed.
NoOrphans ==
    failures = 0 => \A n \in Numbers : destination[Marker(n)] # Absent => destination[Save] # Absent

=============================================================================
