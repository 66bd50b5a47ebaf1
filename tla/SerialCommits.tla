--------------------------- MODULE SerialCommits ----------------------------
(***************************************************************************)
(* What a set of devices may rely on when they share one tree: a device    *)
(* notes the revision it looked at, and its commit replaces the tree only  *)
(* if nobody else has committed since.  No lock is mentioned.              *)
(***************************************************************************)
EXTENDS Integers

CONSTANTS Devices, None

VARIABLES head,     \* number of commits
          content,  \* the shared tree
          base      \* the head each device looked at, or None

vars == <<head, content, base>>

Init ==
    /\ head = 0
    /\ content = << >>
    /\ base = [d \in Devices |-> None]

\* A device looks at the tree; others may give up at the same time.
Look(d) ==
    /\ \E gone \in SUBSET Devices :
        base' = [e \in Devices |-> IF e = d THEN head ELSE IF e \in gone THEN None ELSE base[e]]
    /\ UNCHANGED <<head, content>>

GiveUp ==
    /\ \E gone \in SUBSET Devices :
        base' = [e \in Devices |-> IF e \in gone THEN None ELSE base[e]]
    /\ UNCHANGED <<head, content>>

\* Compare and swap: the tree changes only from the revision looked at.
Swap(d) ==
    /\ base[d] = head
    /\ head' = head + 1
    /\ base' = [base EXCEPT ![d] = None]

Next == GiveUp \/ \E d \in Devices : Look(d) \/ Swap(d)

Spec == Init /\ [][Next]_vars
=============================================================================
