------------------------------ MODULE AgentParts ------------------------------
(***************************************************************************)
(* The parts of the desktop that share no state in these models: the       *)
(* versions of the database, the resync flag, the history of a save, its   *)
(* conflicts, the folder of a paired device.  A behaviour is about one of  *)
(* them: `part` says which one moves, the others stay as they begin.       *)
(***************************************************************************)
EXTENDS DesktopMigrations, Bisync, SaveHistory, Conflicts, DeviceFolder

VARIABLE part

partsVars ==
    <<part, databaseVars, bisyncVars, saveHistoryVars, conflictVars, folderVars>>

\* What a part that does not move begins with is one of its initial states.
PartsInit ==
    /\ part \in {"database", "flag", "history", "conflicts", "folder"}
    /\ MigrationsInit /\ BisyncInit /\ SaveHistoryInit /\ ConflictsInit /\ FolderInit
    /\ part # "database" => version = 0 /\ schema = << >>
    /\ part # "conflicts" => ~fileBased

PartsNext ==
    /\ UNCHANGED part
    /\ \/ /\ part = "database" /\ MigrationsNext
          /\ UNCHANGED <<bisyncVars, saveHistoryVars, conflictVars, folderVars>>
       \/ /\ part = "flag" /\ BisyncNext
          /\ UNCHANGED <<databaseVars, saveHistoryVars, conflictVars, folderVars>>
       \/ /\ part = "history" /\ SaveHistoryNext
          /\ UNCHANGED <<databaseVars, bisyncVars, conflictVars, folderVars>>
       \/ /\ part = "conflicts" /\ ConflictsNext
          /\ UNCHANGED <<databaseVars, bisyncVars, saveHistoryVars, folderVars>>
       \/ /\ part = "folder" /\ FolderNext
          /\ UNCHANGED <<databaseVars, bisyncVars, saveHistoryVars, conflictVars>>

PartsSpec == PartsInit /\ [][PartsNext]_partsVars

-----------------------------------------------------------------------------
\* The type invariants of the parts, each looked at where it can change.
PartsTypeOK ==
    /\ part = "database"  => MigrationsTypeOK
    /\ part = "flag"      => BisyncTypeOK
    /\ part = "history"   => SaveHistoryTypeOK
    /\ part = "conflicts" => ConflictsTypeOK
    /\ part = "folder"    => FolderTypeOK

=============================================================================
