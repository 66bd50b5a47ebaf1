------------------------------ MODULE Accounts ------------------------------
(***************************************************************************)
(* Who may talk to the server (apps/server/src/users.rs, auth.rs and the   *)
(* handlers of api.rs that call them): accounts with passwords and a lock  *)
(* after repeated mistakes, browser sessions that expire, pairing codes    *)
(* that are good once and for ten minutes, devices whose tokens last until *)
(* they are revoked.                                                       *)
(*                                                                         *)
(* Each request runs under the mutex of the connection and is one action;  *)
(* everything is in the database, so a restart of the server changes       *)
(* nothing here.  Time advances by Tick.  A deadline is kept as the time   *)
(* left or the age, so that no clock has to be bounded.  Names differ as   *)
(* the column's NOCASE collation tells them apart.                         *)
(***************************************************************************)
EXTENDS Integers, FiniteSets

CONSTANTS Names,         \* what can be typed as a username
          MAX_FAILED,    \* wrong passwords in a row before the lock
          LOCKOUT,       \* ticks the lock lasts
          SESSION_TTL,   \* ticks a browser session lasts
          CODE_TTL,      \* ticks a pairing code lasts
          MaxSessions,   \* bound: sessions ever opened
          MaxCodes       \* bound: pairing codes ever created

ASSUME AccountsAssumption ==
    /\ MAX_FAILED \in Nat /\ MAX_FAILED >= 2
    /\ LOCKOUT \in Nat \ {0}
    /\ SESSION_TTL \in Nat \ {0}
    /\ CODE_TTL \in Nat
    /\ MaxSessions \in Nat
    /\ MaxCodes \in Nat

VARIABLES
    users,          \* registered names
    attempts,       \* login_attempts: name -> failures in a row, lock left
    web_sessions,   \* id -> user, age
    session_count,  \* ids given out (the code draws random tokens)
    pairing_codes,  \* id -> age, used
    code_count,
    devices,        \* paired devices: the record of the code that made each
    mistakes        \* ghost: wrong passwords of each name since its last login

accounts == <<users, attempts>>
webVars  == <<web_sessions, session_count>>
pairVars == <<pairing_codes, code_count, devices>>
accountVars     == <<accounts, webVars, pairVars, mistakes>>

UpTo(n, max) == IF n < max THEN n ELSE max

-----------------------------------------------------------------------------
\* Whether the name's locked_until is ahead of the clock.
Locked(n) == n \in DOMAIN attempts /\ attempts[n].left > 0

\* A slip: the end of a lock clears the counter.
FailureForgiven(n) ==
    IF n \in DOMAIN attempts /\ ~(attempts[n].failed = MAX_FAILED /\ attempts[n].left = 0)
    THEN LET failed == UpTo(attempts[n].failed + 1, MAX_FAILED)
         IN  [failed |-> failed,
              left   |-> IF failed >= MAX_FAILED THEN LOCKOUT ELSE attempts[n].left]
    ELSE [failed |-> 1, left |-> 0]

\* failed_count grows for ever in the code, which only asks whether it has
\* reached MAX_FAILED; a first failure never locks.
Failure(n) ==
    IF n \in DOMAIN attempts
    THEN LET failed == UpTo(attempts[n].failed + 1, MAX_FAILED)
         IN  [failed |-> failed,
              left   |-> IF failed >= MAX_FAILED THEN LOCKOUT ELSE attempts[n].left]
    ELSE [failed |-> 1, left |-> 0]

RecordFailure(n) ==
    attempts' = [m \in DOMAIN attempts \cup {n} |->
                    IF m = n THEN Failure(n) ELSE attempts[m]]

\* --create-user on the command line; a name that exists is refused.
CreateUser(n) ==
    /\ n \notin users
    /\ users' = users \cup {n}
    /\ UNCHANGED <<attempts, webVars, pairVars, mistakes>>

\* An unknown name and a wrong password fail alike.
LoginWrong(n) ==
    /\ ~Locked(n)
    /\ RecordFailure(n)
    /\ mistakes' = [mistakes EXCEPT ![n] =
                       [streak |-> UpTo(@.streak + 1, MAX_FAILED + 1),
                        quiet  |-> 0,
                        gap    |-> @.quiet]]
    /\ UNCHANGED <<users, webVars, pairVars>>

\* A slip: attempts during the lock count as well.
LoginLockedCounts(n) ==
    /\ Locked(n)
    /\ RecordFailure(n)
    /\ UNCHANGED <<users, webVars, pairVars, mistakes>>

\* Whatever the password, a locked account answers 429 and records nothing.
LoginLocked(n) ==
    /\ Locked(n)
    /\ UNCHANGED accountVars

Login(n) ==
    /\ session_count < MaxSessions
    /\ n \in users
    /\ ~Locked(n)
    /\ attempts' = [m \in DOMAIN attempts \ {n} |-> attempts[m]]
    /\ session_count' = session_count + 1
    /\ web_sessions' = [s \in DOMAIN web_sessions \cup {session_count + 1} |->
                           IF s = session_count + 1 THEN [user |-> n, age |-> 0]
                           ELSE web_sessions[s]]
    /\ mistakes' = [mistakes EXCEPT ![n] = [streak |-> 0, quiet |-> LOCKOUT, gap |-> LOCKOUT]]
    /\ UNCHANGED <<users, pairVars>>

-----------------------------------------------------------------------------
\* user_for_session: what an administration request is admitted by.
Admitted(s) == s \in DOMAIN web_sessions /\ web_sessions[s].age < SESSION_TTL

CloseSession(s) ==
    web_sessions' = [t \in DOMAIN web_sessions \ {s} |-> web_sessions[t]]

\* Any request under a session past its time: 401, and the row goes.
Expire(s) ==
    /\ s \in DOMAIN web_sessions
    /\ ~Admitted(s)
    /\ CloseSession(s)
    /\ UNCHANGED <<accounts, session_count, pairVars, mistakes>>

\* Logout does not ask whether the session is still good.
Logout(s) ==
    /\ s \in DOMAIN web_sessions
    /\ CloseSession(s)
    /\ UNCHANGED <<accounts, session_count, pairVars, mistakes>>

-----------------------------------------------------------------------------
\* By a logged-in user, or by --pair on the command line.
CreatePairingCode ==
    /\ code_count < MaxCodes
    /\ code_count' = code_count + 1
    /\ pairing_codes' = [c \in 1..code_count + 1 |->
                            IF c = code_count + 1 THEN [age |-> 0, used |-> FALSE]
                            ELSE pairing_codes[c]]
    /\ UNCHANGED <<accounts, webVars, devices, mistakes>>

Redeemable(c) == ~pairing_codes[c].used /\ pairing_codes[c].age <= CODE_TTL

\* A slip: used_at is never written.
PairKeepsCode(c) ==
    /\ Redeemable(c)
    /\ devices' = devices \cup {[code |-> c, nth |-> Cardinality(devices)]}
    /\ UNCHANGED <<accounts, webVars, pairing_codes, code_count, mistakes>>

\* redeem_pairing_code: one transaction marks the code and adds the device.
Pair(c) ==
    /\ Redeemable(c)
    /\ pairing_codes' = [pairing_codes EXCEPT ![c].used = TRUE]
    /\ devices' = devices \cup {[code |-> c, nth |-> Cardinality(devices)]}
    /\ UNCHANGED <<accounts, webVars, code_count, mistakes>>

\* Only a user may revoke, never a device.
RevokeDevice(s, d) ==
    /\ Admitted(s)
    /\ devices' = devices \ {d}
    /\ UNCHANGED <<accounts, webVars, pairing_codes, code_count, mistakes>>

-----------------------------------------------------------------------------
\* A deadline stops being of interest once it has passed.
Tick ==
    /\ attempts' = [n \in DOMAIN attempts |->
                       [attempts[n] EXCEPT !.left = IF @ > 0 THEN @ - 1 ELSE 0]]
    /\ web_sessions' = [s \in DOMAIN web_sessions |->
                           [web_sessions[s] EXCEPT !.age = UpTo(@ + 1, SESSION_TTL)]]
    /\ pairing_codes' = [c \in DOMAIN pairing_codes |->
                            [pairing_codes[c] EXCEPT !.age = UpTo(@ + 1, CODE_TTL + 1)]]
    /\ mistakes' = [n \in Names |-> [mistakes[n] EXCEPT !.quiet = UpTo(@ + 1, LOCKOUT)]]
    /\ UNCHANGED <<users, session_count, code_count, devices>>

AccountsInit ==
    /\ users = {}
    /\ attempts = << >>
    /\ web_sessions = << >>
    /\ session_count = 0
    /\ pairing_codes = << >>
    /\ code_count = 0
    /\ devices = {}
    /\ mistakes = [n \in Names |-> [streak |-> 0, quiet |-> LOCKOUT, gap |-> LOCKOUT]]

SignInStep ==
    \E n \in Names : CreateUser(n) \/ LoginWrong(n) \/ LoginLocked(n) \/ Login(n)

SessionStep ==
    \E s \in DOMAIN web_sessions :
        Expire(s) \/ Logout(s) \/ \E d \in devices : RevokeDevice(s, d)

PairingStep == CreatePairingCode \/ \E c \in DOMAIN pairing_codes : Pair(c)

AccountsNext == SignInStep \/ SessionStep \/ PairingStep \/ Tick

\* Time passes whatever anybody does.
AccountsSpec == AccountsInit /\ [][AccountsNext]_accountVars /\ WF_accountVars(Tick)

-----------------------------------------------------------------------------
\* Types; the rows of login_attempts need no account behind them.
AccountsTypeOK ==
    /\ users \subseteq Names
    /\ DOMAIN attempts \subseteq Names
    /\ \A n \in DOMAIN attempts :
           attempts[n] \in [failed : 1..MAX_FAILED, left : 0..LOCKOUT]
    /\ session_count \in 0..MaxSessions
    /\ DOMAIN web_sessions \subseteq 1..session_count
    /\ \A s \in DOMAIN web_sessions :
           web_sessions[s] \in [user : users, age : 0..SESSION_TTL]
    /\ code_count \in 0..MaxCodes
    /\ pairing_codes \in [1..code_count -> [age : 0..CODE_TTL + 1, used : BOOLEAN]]
    /\ devices \subseteq [code : 1..code_count, nth : Nat]
    /\ mistakes \in [Names -> [streak : 0..MAX_FAILED + 1, quiet : 0..LOCKOUT,
                               gap : 0..LOCKOUT]]

\* Passwords are tried slowly: once MAX_FAILED wrong ones came in a row,
\* every further one was checked at least LOCKOUT after the one before it,
\* however the requests, the ends of locks and the clock interleave.  The
\* counter outlives the lock: it is not MAX_FAILED more tries per lock.
MistakesAreRationed ==
    \A n \in Names : mistakes[n].streak > MAX_FAILED => mistakes[n].gap = LOCKOUT

\* "duas tentativas simultaneas nao podem parear dois devices com o mesmo
\* codigo": no two devices come from one code.
CodesPairOnce == \A d, e \in devices : d.code = e.code => d = e

\* A lock ends, even for a user who keeps asking while it lasts.
LocksEnd == \A n \in Names : Locked(n) ~> ~Locked(n)

=============================================================================
