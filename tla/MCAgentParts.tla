----------------------------- MODULE MCAgentParts -----------------------------
\* One folder, one server, two emulators and saves that get an mtime of their own
\* for the parts of the desktop: what breaks beyond that is in the runs that expect
\* a violation.
EXTENDS AgentParts

MCContents == 1..MaxVersions

\* Two emulators stand for the three rows.
TwoSeeds == <<"eden", "pcsx2">>

\* Versions of 2, 1, 1, ... units: under a cap of 2, a run with the first fits alone.
Size(v)  == IF v = 1 THEN 2 ELSE 1
OneMode  == {[incremental |-> TRUE, full |-> FALSE], [incremental |-> FALSE, full |-> TRUE]}
MCOfferedModes == {[enabled |-> TRUE, incremental |-> TRUE, full |-> FALSE],
                   [enabled |-> FALSE, incremental |-> FALSE, full |-> TRUE]}

\* One retention while the history does not move.
MCInit ==
    /\ PartsInit
    /\ part # "history" => settings.full /\ settings.days = 1 /\ settings.cap = 2

MCSpec == MCInit /\ [][PartsNext]_partsVars

=============================================================================
