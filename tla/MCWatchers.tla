----------------------------- MODULE MCWatchers -----------------------------
(***************************************************************************)
(* Watchers on a few small crews instead of one large: which tasks there   *)
(* are, and how much happens around them.  `crew` is chosen at the start   *)
(* and bounds only what Fairness does not ask for: commands, writes, games *)
(* and the start of a task.                                                *)
(***************************************************************************)
EXTENDS Watchers

VARIABLE crew

Crew(tasks_, commands_, writes_, games_) ==
    [tasks |-> tasks_, commands |-> commands_, writes |-> writes_, games |-> games_]

Crews == {Crew({"f1", "f2", "b1"}, 1, 1, 0),    \* two starts of one watcher, and the button
          Crew({"f1", "b1"}, 1, 2, 0),          \* writes during cycles
          Crew({"f1", "p1"}, 1, 1, 2),          \* both kinds of watcher
          Crew({"p1", "b1"}, 2, 0, 3)}          \* two commands, a game that starts again

WithinCrew ==
    /\ commands' <= crew.commands /\ writes' <= crew.writes /\ games' <= crew.games
    /\ \A l \in Runners \ crew.tasks : at'[l] = "none"

CrewSpec ==
    /\ crew \in Crews /\ Init
    /\ [][UNCHANGED crew /\ Next /\ WithinCrew]_<<crew, vars>>
    /\ Fairness

=============================================================================
