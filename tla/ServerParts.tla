----------------------------- MODULE ServerParts -----------------------------
(***************************************************************************)
(* The parts of the server that share neither a table nor a directory:     *)
(* accounts, blobs on their way, history.  A behaviour is about one of     *)
(* them: `part` says which one moves, the others stay as they begin.  Side *)
(* by side they would only multiply their states.                          *)
(***************************************************************************)
EXTENDS Accounts, BlobStaging, ServerHistory

VARIABLE part

partsVars == <<part, accountVars, stagingVars, serverHistoryVars>>

PartsInit ==
    /\ part \in {"accounts", "staging", "history"}
    /\ AccountsInit /\ StagingInit /\ ServerHistoryInit
    /\ part # "history" => ~fileBased

PartsNext ==
    /\ UNCHANGED part
    /\ \/ part = "accounts" /\ AccountsNext /\ UNCHANGED <<stagingVars, serverHistoryVars>>
       \/ part = "staging" /\ StagingNext /\ UNCHANGED <<accountVars, serverHistoryVars>>
       \/ part = "history" /\ ServerHistoryNext /\ UNCHANGED <<accountVars, stagingVars>>

PartsSpec == PartsInit /\ [][PartsNext]_partsVars

\* The type invariants of the parts.
PartsTypeOK == AccountsTypeOK /\ StagingTypeOK /\ ServerHistoryTypeOK

=============================================================================
