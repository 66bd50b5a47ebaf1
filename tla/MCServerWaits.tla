---------------------------- MODULE MCServerWaits ----------------------------
(***************************************************************************)
(* What somebody waits for on the server: a turn at the emulator's lock,   *)
(* the end of an account's lock, the names of the games.  The three share  *)
(* nothing, so a behaviour is about one of them: `part` says which one     *)
(* moves, the others stay as they begin.                                   *)
(***************************************************************************)
EXTENDS SessionLock, Accounts, TitleDbs

VARIABLE part

Turn   == part = "lock"
SignIn == part = "accounts"
Naming == part = "titles"

WaitsInit ==
    /\ part \in {"lock", "accounts", "titles"}
    /\ LockInit /\ AccountsInit /\ TitlesInit
    /\ ~Naming => ~desktop /\ ~lenient

WaitsNext ==
    /\ UNCHANGED <<part, program>>
    /\ \/ Turn   /\ LockNext     /\ UNCHANGED <<accountVars, titleVars>>
       \/ SignIn /\ AccountsNext /\ UNCHANGED <<lockVars, titleVars>>
       \/ Naming /\ TitlesNext   /\ UNCHANGED <<lockVars, accountVars>>

\* The fairness of each specification, for the part that moves.
WaitsFairness ==
    /\ WF_lockVars(Turn /\ LockTick)
    /\ \A d \in Devices :
          /\ SF_lockVars(Turn /\ Plan(d))
          /\ WF_lockVars(Turn /\ (Upload(d) \/ Commit(d) \/ LostSession(d)))
    /\ WF_accountVars(SignIn /\ Tick)
    /\ WF_titleVars(Naming /\ Boot) /\ WF_titleVars(Naming /\ RaiseFlag)
    /\ \A t \in Tasks : WF_titleVars(Naming /\ Step(t))

WaitsSpec ==
    /\ WaitsInit
    /\ [][WaitsNext]_<<part, program, lockVars, accountVars, titleVars>>
    /\ WaitsFairness

\* The type invariants of the parts.
WaitsTypeOK == LockTypeOK /\ AccountsTypeOK /\ TitlesTypeOK

=============================================================================
