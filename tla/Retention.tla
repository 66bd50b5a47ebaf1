----------------------------- MODULE Retention -----------------------------
(***************************************************************************)
(* Which runs of the history go: pick_snapshots_to_prune (core/history.rs),*)
(* used by the desktop after a cycle and on demand, and by the server after*)
(* a commit.  A run is named by its time, in seconds; names sort as times  *)
(* do.  A folder somebody else left there has a name that is no time: it is*)
(* given a number for its place in the order, and listed in Malformed.     *)
(***************************************************************************)
EXTENDS Naturals, FiniteSetsExt

CONSTANT Malformed    \* names of the history folder that parse_snapshot_ts refuses

ASSUME RetentionAssumption == Malformed \subseteq Nat

Total(runs, size) == MapThenSumSet(LAMBDA r : size[r], runs)

\* Rule 1: by age; 0 days turns it off.
Aged(runs, days, now) == {r \in runs \ Malformed : days > 0 /\ r + days < now}

\* The runs in the order of their names.
InOrder(runs) ==
    [n \in 1..Cardinality(runs) |->
        CHOOSE r \in runs : Cardinality({older \in runs : older < r}) = n - 1]

\* A slip: the loop stops below the cap, not at it.
OversizeStrict(runs, size, cap) ==
    LET order == InOrder(runs)
        count == Cardinality(runs)
        left[k \in 0..count] ==
            IF k = 0 THEN Total(runs, size) ELSE left[k - 1] - size[order[k]]
        fits  == {k \in 0..count : left[k] < cap \/ k = count}
    IN  IF cap = 0 THEN {} ELSE {order[i] : i \in 1..Min(fits)}

\* Rule 2: by size, the oldest first, one victim at a time until the rest fits;
\* a cap of 0 turns it off.
Oversize(runs, size, cap) ==
    LET order == InOrder(runs)
        count == Cardinality(runs)
        left[k \in 0..count] ==
            IF k = 0 THEN Total(runs, size) ELSE left[k - 1] - size[order[k]]
        fits  == {k \in 0..count : left[k] <= cap \/ k = count}
    IN  IF cap = 0 THEN {} ELSE {order[i] : i \in 1..Min(fits)}

PickSnapshotsToPrune(runs, size, days, cap, now) ==
    LET aged == Aged(runs, days, now)
    IN  aged \cup Oversize(runs \ aged, size, cap)

\* What the two rules say, run by run: a run stays when it is young enough and
\* fits under the cap together with every younger run that stays.
Spared(runs, size, days, cap, now) ==
    LET young == runs \ Aged(runs, days, now)
    IN  {r \in young : cap > 0 => Total({t \in young : t >= r}, size) <= cap}

=============================================================================
