-------------------------- MODULE DesktopMigrations --------------------------
\* What crates/core/src/db.rs runs when the desktop opens its database.
EXTENDS Migrations

CONSTANT Seeds    \* the emulators, in the order `seed` inserts them

ASSUME SeedsAssumption ==
    /\ Seeds \in Seq(Emulators)
    /\ Emulators = {Seeds[i] : i \in DOMAIN Seeds}

ForEachSeed(below, op) == [i \in DOMAIN Seeds |-> Statement(below, op, Seeds[i], "")]

\* open and the first three versions; the process names come after the stamp.
UpToV3 ==
    << Create(Always, "emulators"), Statement(Always, "read", "", ""),
       AddColumn(1, "emulators", "process_name"), SetVersion(1, 1) >>
    \o ForEachSeed(1, "name")
    \o << Create(2, "settings"), SetVersion(2, 2),
          AddColumn(3, "emulators", "dest_kind"), AddColumn(3, "emulators", "dest_remote"),
          SetVersion(3, 3) >>

\* A slip: v6 is stamped before the second of its tables is made.
UpToV6Early ==
    << Create(4, "history_settings"), SetVersion(4, 4),
       AddColumn(5, "history_settings", "incremental_enabled"),
       AddColumn(5, "history_settings", "full_enabled"),
       Statement(5, "modes", "", ""), SetVersion(5, 5),
       Create(6, "sync_baseline"), SetVersion(6, 6), Create(6, "sync_state") >>

UpToV6 ==
    << Create(4, "history_settings"), SetVersion(4, 4),
       AddColumn(5, "history_settings", "incremental_enabled"),
       AddColumn(5, "history_settings", "full_enabled"),
       Statement(5, "modes", "", ""), SetVersion(5, 5),
       Create(6, "sync_baseline"), Create(6, "sync_state"), SetVersion(6, 6) >>

DesktopScript ==
    UpToV3 \o UpToV6 \o <<Statement(Always, "count", "", "")>> \o ForEachSeed(Always, "insert")

=============================================================================
