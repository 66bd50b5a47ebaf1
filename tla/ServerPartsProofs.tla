--------------------------- MODULE ServerPartsProofs ---------------------------
(***************************************************************************)
(* What the parts of the server beside the index guarantee, for any names, *)
(* limits, devices, paths, contents and times: accounts, blobs on their    *)
(* way, the history of saves with what its retention picks, and the names  *)
(* of the games (the last two on the desktop too).                         *)
(***************************************************************************)
EXTENDS ServerParts, TitleDbs, FiniteSetTheorems, WellFoundedInduction, TLAPS

-----------------------------------------------------------------------------
(* Passwords.  The counter of the table and the streak of mistakes are the *)
(* same number as far as either counts, and a full counter means that the  *)
(* lock still lasts or that the name has been left alone for as long.      *)

AttemptsTyped ==
    \A n \in DOMAIN attempts :
        attempts[n] \in [failed : 1..MAX_FAILED, left : 0..LOCKOUT]

MistakesTyped ==
    mistakes \in [Names -> [streak : 0..MAX_FAILED + 1, quiet : 0..LOCKOUT, gap : 0..LOCKOUT]]

\* What login_attempts knows of a name, given the mistakes made with it.
Counted(n) ==
    IF n \in DOMAIN attempts
    THEN /\ attempts[n].failed = UpTo(mistakes[n].streak, MAX_FAILED)
         /\ attempts[n].failed = MAX_FAILED => attempts[n].left + mistakes[n].quiet >= LOCKOUT
    ELSE mistakes[n].streak = 0

RationInvariant ==
    /\ AttemptsTyped
    /\ MistakesTyped
    /\ \A n \in Names : Counted(n)
    /\ MistakesAreRationed

\* At first nobody has tried.
LEMMA RationInit == AccountsInit => RationInvariant
BY AccountsAssumption
   DEF AccountsInit, RationInvariant, AttemptsTyped, MistakesTyped, Counted, MistakesAreRationed

\* The one step that could break the ration: a wrong password was checked, so
\* the name was not locked, so a full counter had been quiet for LOCKOUT.
LEMMA WrongKeepsRation ==
    ASSUME RationInvariant, NEW n \in Names, LoginWrong(n)
    PROVE  RationInvariant'
<1> USE AccountsAssumption
<1> DEFINE new == [streak |-> UpTo(mistakes[n].streak + 1, MAX_FAILED + 1), quiet |-> 0,
                   gap |-> mistakes[n].quiet]
<1>1. mistakes[n] \in [streak : 0..MAX_FAILED + 1, quiet : 0..LOCKOUT, gap : 0..LOCKOUT]
  BY DEF RationInvariant, MistakesTyped
<1>2. /\ mistakes' = [mistakes EXCEPT ![n] = new]
      /\ new \in [streak : 0..MAX_FAILED + 1, quiet : 0..LOCKOUT, gap : 0..LOCKOUT]
  BY <1>1 DEF LoginWrong, UpTo
<1>3. MistakesTyped'
  BY <1>2 DEF RationInvariant, MistakesTyped
<1>4. /\ mistakes'[n] = new
      /\ \A m \in Names \ {n} : mistakes'[m] = mistakes[m]
  BY <1>2 DEF RationInvariant, MistakesTyped
<1>5. /\ DOMAIN attempts' = DOMAIN attempts \cup {n}
      /\ attempts'[n] = Failure(n)
      /\ \A m \in DOMAIN attempts \ {n} : attempts'[m] = attempts[m]
  BY DEF LoginWrong, RecordFailure
<1>6. /\ Failure(n) \in [failed : 1..MAX_FAILED, left : 0..LOCKOUT]
      /\ Failure(n).failed = UpTo(new.streak, MAX_FAILED)
      /\ Failure(n).failed = MAX_FAILED => Failure(n).left >= LOCKOUT
  <2>1. CASE n \in DOMAIN attempts
    <3>1. /\ attempts[n].failed \in 1..MAX_FAILED /\ attempts[n].left \in 0..LOCKOUT
          /\ attempts[n].failed = UpTo(mistakes[n].streak, MAX_FAILED)
      BY <2>1 DEF RationInvariant, AttemptsTyped, Counted
    <3> QED
      BY <1>1, <2>1, <3>1 DEF Failure, UpTo
  <2>2. CASE n \notin DOMAIN attempts
    <3>1. mistakes[n].streak = 0
      BY <2>2 DEF RationInvariant, Counted
    <3> QED
      BY <2>2, <3>1 DEF Failure, UpTo
  <2> QED
    BY <2>1, <2>2
<1>7. AttemptsTyped'
  BY <1>5, <1>6 DEF RationInvariant, AttemptsTyped
<1>8. Counted(n)'
  BY <1>4, <1>5, <1>6 DEF Counted
<1>9. \A m \in Names \ {n} : Counted(m)'
  BY <1>4, <1>5 DEF RationInvariant, Counted
<1>10. mistakes[n].streak >= MAX_FAILED => mistakes[n].quiet = LOCKOUT
  <2> SUFFICES ASSUME mistakes[n].streak >= MAX_FAILED
               PROVE  mistakes[n].quiet = LOCKOUT
    OBVIOUS
  <2>1. Counted(n) /\ AttemptsTyped /\ ~Locked(n)
    BY DEF RationInvariant, LoginWrong
  <2>2. n \in DOMAIN attempts /\ attempts[n].failed = MAX_FAILED
    BY <1>1, <2>1 DEF Counted, UpTo
  <2>3. attempts[n].left = 0
    BY <2>1, <2>2 DEF Locked, AttemptsTyped
  <2> QED
    BY <1>1, <2>1, <2>2, <2>3 DEF Counted
<1>11. MistakesAreRationed'
  <2>1. new.streak > MAX_FAILED => new.gap = LOCKOUT
    BY <1>1, <1>10 DEF UpTo
  <2> QED
    BY <1>4, <2>1 DEF RationInvariant, MistakesAreRationed
<1> QED
  BY <1>3, <1>7, <1>8, <1>9, <1>11 DEF RationInvariant

\* A login takes the name's row away and starts a new streak.
LEMMA LoginKeepsRation ==
    ASSUME RationInvariant, NEW n \in Names, Login(n)
    PROVE  RationInvariant'
<1> USE AccountsAssumption
<1> DEFINE new == [streak |-> 0, quiet |-> LOCKOUT, gap |-> LOCKOUT]
<1>1. mistakes' = [mistakes EXCEPT ![n] = new]
  BY DEF Login
<1>2. MistakesTyped'
  BY <1>1 DEF RationInvariant, MistakesTyped
<1>3. /\ mistakes'[n] = new
      /\ \A m \in Names \ {n} : mistakes'[m] = mistakes[m]
  BY <1>1 DEF RationInvariant, MistakesTyped
<1>4. /\ DOMAIN attempts' = DOMAIN attempts \ {n}
      /\ \A m \in DOMAIN attempts \ {n} : attempts'[m] = attempts[m]
  BY DEF Login
<1>5. AttemptsTyped'
  BY <1>4 DEF RationInvariant, AttemptsTyped
<1>6. \A m \in Names : Counted(m)'
  BY <1>3, <1>4 DEF RationInvariant, Counted
<1>7. MistakesAreRationed'
  BY <1>3 DEF RationInvariant, MistakesAreRationed
<1> QED
  BY <1>2, <1>5, <1>6, <1>7 DEF RationInvariant

\* What the lock loses the quiet gains.
LEMMA TickKeepsRation ==
    ASSUME RationInvariant, Tick
    PROVE  RationInvariant'
<1> USE AccountsAssumption
<1>1. \A n \in Names :
         mistakes[n] \in [streak : 0..MAX_FAILED + 1, quiet : 0..LOCKOUT, gap : 0..LOCKOUT]
  BY DEF RationInvariant, MistakesTyped
<1>2. mistakes' = [n \in Names |-> [mistakes[n] EXCEPT !.quiet = UpTo(@ + 1, LOCKOUT)]]
  BY DEF Tick
<1>3. \A n \in Names :
         /\ mistakes'[n] \in [streak : 0..MAX_FAILED + 1, quiet : 0..LOCKOUT, gap : 0..LOCKOUT]
         /\ mistakes'[n].streak = mistakes[n].streak
         /\ mistakes'[n].gap = mistakes[n].gap
         /\ mistakes'[n].quiet = UpTo(mistakes[n].quiet + 1, LOCKOUT)
  BY <1>1, <1>2 DEF UpTo
<1>4. MistakesTyped'
  BY <1>2, <1>3 DEF MistakesTyped
<1>5. /\ DOMAIN attempts' = DOMAIN attempts
      /\ \A n \in DOMAIN attempts :
            attempts'[n] = [attempts[n] EXCEPT !.left = IF @ > 0 THEN @ - 1 ELSE 0]
  BY DEF Tick
<1>6. \A n \in DOMAIN attempts :
         /\ attempts[n].failed \in 1..MAX_FAILED
         /\ attempts[n].left \in 0..LOCKOUT
         /\ attempts'[n] = [failed |-> attempts[n].failed,
                            left   |-> IF attempts[n].left > 0 THEN attempts[n].left - 1 ELSE 0]
  <2> SUFFICES ASSUME NEW n \in DOMAIN attempts
               PROVE  /\ attempts[n].failed \in 1..MAX_FAILED
                      /\ attempts[n].left \in 0..LOCKOUT
                      /\ attempts'[n] =
                            [failed |-> attempts[n].failed,
                             left   |-> IF attempts[n].left > 0 THEN attempts[n].left - 1 ELSE 0]
    OBVIOUS
  <2>1. attempts[n] \in [failed : 1..MAX_FAILED, left : 0..LOCKOUT]
    BY DEF RationInvariant, AttemptsTyped
  <2> QED
    BY <1>5, <2>1
<1>7. AttemptsTyped'
  BY <1>5, <1>6 DEF AttemptsTyped
<1>8. \A n \in Names : Counted(n)'
  <2> SUFFICES ASSUME NEW n \in Names
               PROVE  Counted(n)'
    OBVIOUS
  <2>1. Counted(n)
    BY DEF RationInvariant
  <2>2. CASE n \in DOMAIN attempts
    BY <1>1, <1>3, <1>5, <1>6, <2>1, <2>2 DEF Counted, UpTo
  <2>3. CASE n \notin DOMAIN attempts
    BY <1>3, <1>5, <2>1, <2>3 DEF Counted
  <2> QED
    BY <2>2, <2>3
<1>9. MistakesAreRationed'
  BY <1>3 DEF RationInvariant, MistakesAreRationed
<1> QED
  BY <1>4, <1>7, <1>8, <1>9 DEF RationInvariant

\* Registering, asking while locked, and everything done with sessions, codes
\* and devices leave passwords alone.
LEMMA OthersLeavePasswords ==
    ASSUME \/ SessionStep
           \/ PairingStep
           \/ \E n \in Names : CreateUser(n) \/ LoginLocked(n)
           \/ UNCHANGED accountVars
    PROVE  UNCHANGED <<attempts, mistakes>>
BY DEF SessionStep, PairingStep, CreateUser, LoginLocked, Expire, Logout, RevokeDevice,
       CreatePairingCode, Pair, accountVars, accounts

\* The ration is inductive: one case per action that touches passwords.
LEMMA NextKeepsRation ==
    ASSUME RationInvariant, [AccountsNext]_accountVars
    PROVE  RationInvariant'
<1>1. CASE Tick
  BY <1>1, TickKeepsRation
<1>2. ASSUME NEW n \in Names, LoginWrong(n)
      PROVE  RationInvariant'
  BY <1>2, WrongKeepsRation
<1>3. ASSUME NEW n \in Names, Login(n)
      PROVE  RationInvariant'
  BY <1>3, LoginKeepsRation
<1>4. CASE UNCHANGED <<attempts, mistakes>>
  BY <1>4 DEF RationInvariant, AttemptsTyped, MistakesTyped, Counted, MistakesAreRationed
<1> QED
  BY <1>1, <1>2, <1>3, <1>4, OthersLeavePasswords DEF AccountsNext, SignInStep

\* Passwords are tried slowly (users.rs, authenticate and record_failure):
\* after MAX_FAILED wrong ones in a row every further one is checked at least
\* LOCKOUT after the one before it, for ever.
THEOREM PasswordsAreRationed == AccountsSpec => []MistakesAreRationed
<1>1. AccountsInit => RationInvariant
  BY RationInit
<1>2. RationInvariant /\ [AccountsNext]_accountVars => RationInvariant'
  BY NextKeepsRation
<1>3. RationInvariant => MistakesAreRationed
  BY DEF RationInvariant
<1> QED
  BY <1>1, <1>2, <1>3, PTL DEF AccountsSpec

-----------------------------------------------------------------------------
(* Pairing codes.  A device is a trace of the code that made it, and that  *)
(* code is used up.                                                        *)

CodesInvariant ==
    /\ code_count \in Nat
    /\ DOMAIN pairing_codes = 1..code_count
    /\ \A c \in DOMAIN pairing_codes : pairing_codes[c] \in [age : 0..CODE_TTL + 1, used : BOOLEAN]
    /\ \A d \in devices : d.code \in 1..code_count /\ pairing_codes[d.code].used
    /\ CodesPairOnce

\* A code that can be redeemed has no device yet.
LEMMA PairKeepsCodes ==
    ASSUME CodesInvariant, NEW c \in DOMAIN pairing_codes, Pair(c)
    PROVE  CodesInvariant'
<1> USE AccountsAssumption
<1> DEFINE new == [code |-> c, nth |-> Cardinality(devices)]
<1>1. /\ code_count' = code_count
      /\ DOMAIN pairing_codes' = DOMAIN pairing_codes
      /\ devices' = devices \cup {new}
      /\ \A d \in devices : d.code # c
  BY DEF Pair, Redeemable, CodesInvariant
<1>2. pairing_codes' = [pairing_codes EXCEPT ![c].used = TRUE]
  BY DEF Pair
<1>3. pairing_codes[c] \in [age : 0..CODE_TTL + 1, used : BOOLEAN]
  BY DEF CodesInvariant
<1>4. pairing_codes'[c] = [age |-> pairing_codes[c].age, used |-> TRUE]
  BY <1>2, <1>3
<1>5. \A e \in DOMAIN pairing_codes \ {c} : pairing_codes'[e] = pairing_codes[e]
  BY <1>2
<1>6. CodesPairOnce'
  BY <1>1 DEF CodesInvariant, CodesPairOnce
<1>7. \A e \in DOMAIN pairing_codes :
         /\ pairing_codes'[e] \in [age : 0..CODE_TTL + 1, used : BOOLEAN]
         /\ pairing_codes[e].used => pairing_codes'[e].used
  <2>1. /\ pairing_codes'[c] \in [age : 0..CODE_TTL + 1, used : BOOLEAN]
        /\ pairing_codes'[c].used
    BY <1>3, <1>4
  <2>2. \A e \in DOMAIN pairing_codes \ {c} :
           pairing_codes'[e] \in [age : 0..CODE_TTL + 1, used : BOOLEAN]
    BY <1>5 DEF CodesInvariant
  <2> QED
    BY <1>5, <2>1, <2>2
<1>8. new.code = c /\ pairing_codes'[c].used
  BY <1>4
<1>9. \A d \in devices' : d.code \in 1..code_count /\ pairing_codes'[d.code].used
  <2>1. \A d \in devices : d.code \in 1..code_count /\ pairing_codes'[d.code].used
    BY <1>7 DEF CodesInvariant
  <2>2. new.code \in 1..code_count /\ pairing_codes'[new.code].used
    BY <1>8 DEF CodesInvariant
  <2> HIDE DEF new
  <2> QED
    BY <1>1, <2>1, <2>2
<1> QED
  BY <1>1, <1>6, <1>7, <1>9 DEF CodesInvariant

\* A new code has no device: devices come from codes given out before.
LEMMA CreateKeepsCodes ==
    ASSUME CodesInvariant, CreatePairingCode
    PROVE  CodesInvariant'
<1> USE AccountsAssumption
<1>1. /\ code_count' = code_count + 1
      /\ devices' = devices
      /\ pairing_codes' = [c \in 1..code_count + 1 |->
                              IF c = code_count + 1 THEN [age |-> 0, used |-> FALSE]
                              ELSE pairing_codes[c]]
  BY DEF CreatePairingCode
<1>2. \A c \in 1..code_count : pairing_codes'[c] = pairing_codes[c]
  BY <1>1 DEF CodesInvariant
<1>3. \A c \in 1..code_count + 1 :
         pairing_codes'[c] \in [age : 0..CODE_TTL + 1, used : BOOLEAN]
  BY <1>1 DEF CodesInvariant
<1>4. CodesPairOnce'
  BY <1>1 DEF CodesInvariant, CodesPairOnce
<1> QED
  BY <1>1, <1>2, <1>3, <1>4 DEF CodesInvariant

\* Codes age; none is given back.
LEMMA TickKeepsCodes ==
    ASSUME CodesInvariant, Tick
    PROVE  CodesInvariant'
<1> USE AccountsAssumption
<1>1. /\ code_count' = code_count
      /\ devices' = devices
      /\ pairing_codes' = [c \in DOMAIN pairing_codes |->
                              [pairing_codes[c] EXCEPT !.age = UpTo(@ + 1, CODE_TTL + 1)]]
  BY DEF Tick
<1>2. ASSUME NEW c \in DOMAIN pairing_codes
      PROVE  /\ pairing_codes'[c].used = pairing_codes[c].used
             /\ pairing_codes'[c] \in [age : 0..CODE_TTL + 1, used : BOOLEAN]
  <2>1. pairing_codes[c] \in [age : 0..CODE_TTL + 1, used : BOOLEAN]
    BY DEF CodesInvariant
  <2>2. pairing_codes'[c] = [age  |-> UpTo(pairing_codes[c].age + 1, CODE_TTL + 1),
                             used |-> pairing_codes[c].used]
    BY <1>1, <2>1
  <2> QED
    BY <2>1, <2>2 DEF UpTo
<1>3. CodesPairOnce'
  BY <1>1 DEF CodesInvariant, CodesPairOnce
<1> QED
  BY <1>1, <1>2, <1>3 DEF CodesInvariant

\* The account of the codes is inductive.
LEMMA NextKeepsCodes ==
    ASSUME CodesInvariant, [AccountsNext]_accountVars
    PROVE  CodesInvariant'
<1>1. CASE Tick
  BY <1>1, TickKeepsCodes
<1>2. CASE CreatePairingCode
  BY <1>2, CreateKeepsCodes
<1>3. ASSUME NEW c \in DOMAIN pairing_codes, Pair(c)
      PROVE  CodesInvariant'
  BY <1>3, PairKeepsCodes
<1>4. ASSUME NEW s, NEW d \in devices, RevokeDevice(s, d)
      PROVE  CodesInvariant'
  BY <1>4 DEF RevokeDevice, CodesInvariant, CodesPairOnce
<1>5. CASE UNCHANGED pairVars
  BY <1>5 DEF pairVars, CodesInvariant, CodesPairOnce
<1>6. CASE SignInStep
  BY <1>5, <1>6 DEF SignInStep, CreateUser, LoginWrong, LoginLocked, Login, accountVars
<1>7. CASE SessionStep
  BY <1>4, <1>5, <1>7 DEF SessionStep, Expire, Logout
<1> QED
  BY <1>1, <1>2, <1>3, <1>5, <1>6, <1>7 DEF AccountsNext, PairingStep, accountVars

\* A pairing code makes one device at most (auth.rs, redeem_pairing_code),
\* however often it is redeemed and whichever devices were revoked since.
THEOREM CodesArePairedOnce == AccountsSpec => []CodesPairOnce
<1>1. AccountsInit => CodesInvariant
  BY DEF AccountsInit, CodesInvariant, CodesPairOnce
<1>2. CodesInvariant /\ [AccountsNext]_accountVars => CodesInvariant'
  BY NextKeepsCodes
<1>3. CodesInvariant => CodesPairOnce
  BY DEF CodesInvariant
<1> QED
  BY <1>1, <1>2, <1>3, PTL DEF AccountsSpec

-----------------------------------------------------------------------------
(* The tables of the accounts.  A row of a session or of a device refers   *)
(* to rows that were there when it was made: no user is ever removed, no   *)
(* number given twice.                                                     *)

SessionsTyped ==
    /\ session_count \in 0..MaxSessions
    /\ DOMAIN web_sessions \subseteq 1..session_count
    /\ \A s \in DOMAIN web_sessions :
           web_sessions[s] \in [user : users, age : 0..SESSION_TTL]

DevicesTyped ==
    /\ code_count \in 0..MaxCodes
    /\ pairing_codes \in [1..code_count -> [age : 0..CODE_TTL + 1, used : BOOLEAN]]
    /\ IsFiniteSet(devices)
    /\ devices \subseteq [code : 1..code_count, nth : Nat]

TablesInvariant ==
    /\ users \subseteq Names /\ DOMAIN attempts \subseteq Names
    /\ SessionsTyped
    /\ DevicesTyped

LEMMA TablesInit == AccountsInit => TablesInvariant
<1> SUFFICES ASSUME AccountsInit PROVE TablesInvariant
  OBVIOUS
<1> USE AccountsAssumption
<1>1. SessionsTyped
  BY DEF AccountsInit, SessionsTyped
<1>2. DevicesTyped
  <2>1. IsFiniteSet({})
    BY FS_EmptySet
  <2>2. pairing_codes = << >> /\ code_count = 0 /\ devices = {}
    BY DEF AccountsInit
  <2>3. pairing_codes \in [1..code_count -> [age : 0..CODE_TTL + 1, used : BOOLEAN]]
    BY <2>2
  <2> QED BY <2>1, <2>2, <2>3 DEF DevicesTyped
<1> QED BY <1>1, <1>2 DEF AccountsInit, TablesInvariant

\* Signing in, rightly or wrongly, and registering.
LEMMA SignInKeepsTables ==
    ASSUME TablesInvariant, SignInStep
    PROVE  TablesInvariant'
<1> USE AccountsAssumption
<1>0. UNCHANGED pairVars => (DevicesTyped => DevicesTyped')
  BY DEF pairVars, DevicesTyped
<1>1. ASSUME NEW n \in Names, CreateUser(n)
      PROVE  TablesInvariant'
  <2>1. users' = users \cup {n} /\ UNCHANGED <<attempts, webVars, pairVars>>
    BY <1>1 DEF CreateUser
  <2>2. SessionsTyped'
    BY <2>1 DEF TablesInvariant, SessionsTyped, webVars
  <2> QED BY <1>0, <2>1, <2>2 DEF TablesInvariant
<1>2. ASSUME NEW n \in Names, LoginWrong(n) \/ LoginLocked(n)
      PROVE  TablesInvariant'
  <2>1. UNCHANGED <<users, webVars, pairVars>> /\ DOMAIN attempts' \subseteq DOMAIN attempts \cup {n}
    BY <1>2 DEF LoginWrong, LoginLocked, RecordFailure, accountVars, accounts
  <2>2. SessionsTyped'
    BY <2>1 DEF TablesInvariant, SessionsTyped, webVars
  <2> QED BY <1>0, <2>1, <2>2 DEF TablesInvariant
<1>3. ASSUME NEW n \in Names, Login(n)
      PROVE  TablesInvariant'
  <2>1. /\ UNCHANGED <<users, pairVars>> /\ DOMAIN attempts' \subseteq DOMAIN attempts
        /\ n \in users /\ session_count < MaxSessions /\ session_count' = session_count + 1
        /\ web_sessions' = [s \in DOMAIN web_sessions \cup {session_count + 1} |->
                               IF s = session_count + 1 THEN [user |-> n, age |-> 0]
                               ELSE web_sessions[s]]
    BY <1>3 DEF Login
  <2>2. SessionsTyped'
    BY <2>1 DEF TablesInvariant, SessionsTyped
  <2> QED BY <1>0, <2>1, <2>2 DEF TablesInvariant
<1> QED BY <1>1, <1>2, <1>3 DEF SignInStep

\* A code and what is paired with it.
LEMMA PairingKeepsTables ==
    ASSUME TablesInvariant, PairingStep
    PROVE  TablesInvariant'
<1> USE AccountsAssumption
<1>1. UNCHANGED <<users, attempts, webVars>> => (SessionsTyped => SessionsTyped')
  BY DEF webVars, SessionsTyped
<1>2. ASSUME CreatePairingCode
      PROVE  TablesInvariant'
  <2>1. /\ UNCHANGED <<users, attempts, webVars, devices>>
        /\ code_count < MaxCodes /\ code_count' = code_count + 1
        /\ pairing_codes' = [c \in 1..code_count + 1 |->
                                IF c = code_count + 1 THEN [age |-> 0, used |-> FALSE]
                                ELSE pairing_codes[c]]
    BY <1>2 DEF CreatePairingCode, accounts
  <2>2. DevicesTyped'
    BY <2>1 DEF TablesInvariant, DevicesTyped
  <2> QED BY <1>1, <2>1, <2>2 DEF TablesInvariant
<1>3. ASSUME NEW c \in DOMAIN pairing_codes, Pair(c)
      PROVE  TablesInvariant'
  <2> DEFINE new == [code |-> c, nth |-> Cardinality(devices)]
  <2>1. /\ UNCHANGED <<users, attempts, webVars, code_count>>
        /\ pairing_codes' = [pairing_codes EXCEPT ![c].used = TRUE]
        /\ devices' = devices \cup {new}
    BY <1>3 DEF Pair, accounts
  <2>2. /\ code_count \in 0..MaxCodes
        /\ pairing_codes \in [1..code_count -> [age : 0..CODE_TTL + 1, used : BOOLEAN]]
        /\ IsFiniteSet(devices) /\ devices \subseteq [code : 1..code_count, nth : Nat]
    BY DEF TablesInvariant, DevicesTyped
  <2>3. new \in [code : 1..code_count, nth : Nat]
    BY <2>2, FS_CardinalityType
  <2>4. IsFiniteSet(devices \cup {new})
    BY <2>2, FS_AddElement
  <2>5. pairing_codes' \in [1..code_count -> [age : 0..CODE_TTL + 1, used : BOOLEAN]]
    BY <2>1, <2>2
  <2> HIDE DEF new
  <2>6. DevicesTyped'
    BY <2>1, <2>2, <2>3, <2>4, <2>5 DEF DevicesTyped
  <2> QED BY <1>1, <2>1, <2>6 DEF TablesInvariant
<1> QED BY <1>2, <1>3 DEF PairingStep

\* The end of a session, and of a device.
LEMMA SessionsKeepTables ==
    ASSUME TablesInvariant, SessionStep
    PROVE  TablesInvariant'
<1>1. ASSUME NEW s \in DOMAIN web_sessions, Expire(s) \/ Logout(s)
      PROVE  TablesInvariant'
  <2>1. /\ UNCHANGED <<users, attempts, session_count, pairVars>>
        /\ web_sessions' = [t \in DOMAIN web_sessions \ {s} |-> web_sessions[t]]
    BY <1>1 DEF Expire, Logout, CloseSession, accounts
  <2>2. SessionsTyped'
    BY <2>1 DEF TablesInvariant, SessionsTyped
  <2>3. DevicesTyped'
    BY <2>1 DEF TablesInvariant, DevicesTyped, pairVars
  <2> QED BY <2>1, <2>2, <2>3 DEF TablesInvariant
<1>2. ASSUME NEW s, NEW d \in devices, RevokeDevice(s, d)
      PROVE  TablesInvariant'
  <2>1. /\ UNCHANGED <<users, attempts, webVars, pairing_codes, code_count>>
        /\ devices' = devices \ {d}
    BY <1>2 DEF RevokeDevice, accounts
  <2>2. SessionsTyped'
    BY <2>1 DEF TablesInvariant, SessionsTyped, webVars
  <2>3. IsFiniteSet(devices \ {d})
    BY FS_RemoveElement DEF TablesInvariant, DevicesTyped
  <2>4. DevicesTyped'
    BY <2>1, <2>3 DEF TablesInvariant, DevicesTyped
  <2> QED BY <2>1, <2>2, <2>4 DEF TablesInvariant
<1> QED BY <1>1, <1>2 DEF SessionStep

\* Everything ages within its bounds.
LEMMA TickKeepsTables ==
    ASSUME TablesInvariant, Tick
    PROVE  TablesInvariant'
<1> USE AccountsAssumption
<1>1. /\ UNCHANGED <<users, session_count, code_count, devices>>
      /\ DOMAIN attempts' = DOMAIN attempts
      /\ web_sessions' = [s \in DOMAIN web_sessions |->
                             [web_sessions[s] EXCEPT !.age = UpTo(@ + 1, SESSION_TTL)]]
      /\ pairing_codes' = [c \in DOMAIN pairing_codes |->
                              [pairing_codes[c] EXCEPT !.age = UpTo(@ + 1, CODE_TTL + 1)]]
  BY DEF Tick
<1>2. ASSUME NEW s \in DOMAIN web_sessions
      PROVE  web_sessions'[s] \in [user : users, age : 0..SESSION_TTL]
  <2>1. web_sessions[s] \in [user : users, age : 0..SESSION_TTL]
    BY DEF TablesInvariant, SessionsTyped
  <2>2. UpTo(web_sessions[s].age + 1, SESSION_TTL) \in 0..SESSION_TTL
    BY <2>1 DEF UpTo
  <2>3. web_sessions'[s] = [web_sessions[s] EXCEPT !.age = UpTo(@ + 1, SESSION_TTL)]
    BY <1>1
  <2> QED BY <2>1, <2>2, <2>3
<1>3. ASSUME NEW c \in 1..code_count
      PROVE  [pairing_codes[c] EXCEPT !.age = UpTo(@ + 1, CODE_TTL + 1)]
                 \in [age : 0..CODE_TTL + 1, used : BOOLEAN]
  <2>1. pairing_codes[c] \in [age : 0..CODE_TTL + 1, used : BOOLEAN]
    BY DEF TablesInvariant, DevicesTyped
  <2>2. UpTo(pairing_codes[c].age + 1, CODE_TTL + 1) \in 0..CODE_TTL + 1
    BY <2>1 DEF UpTo
  <2> QED BY <2>1, <2>2
<1>4. SessionsTyped'
  BY <1>1, <1>2 DEF TablesInvariant, SessionsTyped
<1>5. DOMAIN pairing_codes = 1..code_count
  BY DEF TablesInvariant, DevicesTyped
<1>6. pairing_codes' \in [1..code_count -> [age : 0..CODE_TTL + 1, used : BOOLEAN]]
  BY <1>1, <1>3, <1>5
<1>7. DevicesTyped'
  BY <1>1, <1>6 DEF TablesInvariant, DevicesTyped
<1> QED BY <1>1, <1>4, <1>7 DEF TablesInvariant

LEMMA NextKeepsTables ==
    ASSUME TablesInvariant, [AccountsNext]_accountVars
    PROVE  TablesInvariant'
<1>1. CASE UNCHANGED accountVars
  BY <1>1 DEF TablesInvariant, SessionsTyped, DevicesTyped, accountVars, accounts, webVars, pairVars
<1> QED
  BY <1>1, SignInKeepsTables, SessionsKeepTables, PairingKeepsTables, TickKeepsTables
     DEF AccountsNext

\* The types, whether or not time passes.
LEMMA AccountTypesHold == AccountsInit /\ [][AccountsNext]_accountVars => []AccountsTypeOK
<1>1. AccountsInit => RationInvariant /\ TablesInvariant
  BY RationInit, TablesInit
<1>2. RationInvariant /\ TablesInvariant /\ [AccountsNext]_accountVars
          => RationInvariant' /\ TablesInvariant'
  BY NextKeepsRation, NextKeepsTables
<1>3. RationInvariant /\ TablesInvariant => AccountsTypeOK
  BY DEF RationInvariant, AttemptsTyped, MistakesTyped, TablesInvariant, SessionsTyped,
         DevicesTyped, AccountsTypeOK
<1> QED
  BY <1>1, <1>2, <1>3, PTL

\* What the tables of the accounts hold (users.rs, auth.rs): counters and ages
\* stay within their limits, a session is a registered user's, a device has a
\* code that was handed out.
THEOREM AccountsAreTyped == AccountsSpec => []AccountsTypeOK
BY AccountTypesHold, PTL DEF AccountsSpec

-----------------------------------------------------------------------------
(***************************************************************************)
(* Blobs arrive although put_blob writes its file outside the mutex: a     *)
(* device never sends one path of one session twice, and no two cycles     *)
(* share a session.                                                        *)
(***************************************************************************)

CyclesTyped ==
    cycle \in [Devices -> [session : 1..plan_count \cup {NoSession}, want : Wants,
                           sent : SUBSET BlobPaths]]

PutsTyped ==
    puts \subseteq [device : Devices, session : 1..plan_count, path : BlobPaths,
                    hash : BlobContents, at : {"checked", "staged"}]

\* Sessions of the past and present are numbered, the open ones have rows.
SessionsNumbered ==
    /\ plan_count \in 0..MaxPlans
    /\ DOMAIN sessions \subseteq 1..plan_count
    /\ DOMAIN session_blobs = DOMAIN sessions

\* No two devices work in one session ...
CyclesApart ==
    \A d, e \in Devices : cycle[d].session = cycle[e].session => d = e \/ cycle[d].session = NoSession

\* ... and a handler serves the device whose session it has.
PutsOfCycle ==
    \A put \in puts, d \in Devices : cycle[d].session = put.session => put.device = d

\* One handler at most is writing a path of a session.
OneWriter ==
    \A put, other \in puts :
        put.session = other.session /\ put.path = other.path => put = other

\* A handler back from the disk left the bytes there.
StagedPutsStaged ==
    \A put \in puts :
        put.at = "staged" /\ put.session \in DOMAIN sessions
            => /\ put.path \in DOMAIN StagedIn(put.session)
               /\ StagedIn(put.session)[put.path] = put.hash

\* What has a row is no longer being written ...
WritersHaveNoRow ==
    \A put \in puts : put.session \in DOMAIN sessions => put.path \notin DOMAIN Rows(put.session)

\* ... and will not be sent again: the device has the answer.
RowsWereSent ==
    \A d \in Devices :
        cycle[d].session \in DOMAIN sessions => DOMAIN Rows(cycle[d].session) \subseteq cycle[d].sent

StagingInvariant ==
    /\ CyclesTyped
    /\ PutsTyped
    /\ SessionsNumbered
    /\ CyclesApart
    /\ PutsOfCycle
    /\ OneWriter
    /\ StagedPutsStaged
    /\ WritersHaveNoRow
    /\ RowsWereSent
    /\ RowsAreStaged
    /\ IndexIsLive

-----------------------------------------------------------------------------
\* Nothing at all is going on at first.
LEMMA StagingInitHolds == StagingInit => StagingInvariant
<1> SUFFICES ASSUME StagingInit
             PROVE  StagingInvariant
  OBVIOUS
<1> USE StagingAssumption DEF StagingInit
<1>1. Idle \in [session : {NoSession}, want : Wants, sent : SUBSET BlobPaths]
  <2>1. << >> \in [{} -> BlobContents]
    OBVIOUS
  <2>2. << >> \in Wants
    BY <2>1 DEF Wants
  <2> QED
    BY <2>2 DEF Idle
<1>2. CyclesTyped
  BY <1>1 DEF CyclesTyped
<1>3. CyclesApart
  BY <1>1 DEF CyclesApart
<1>4. SessionsNumbered /\ RowsAreStaged /\ RowsWereSent
  BY DEF SessionsNumbered, RowsAreStaged, RowsWereSent
<1> QED
  BY <1>2, <1>3, <1>4
     DEF StagingInvariant, PutsTyped, PutsOfCycle, OneWriter, StagedPutsStaged,
         WritersHaveNoRow, IndexIsLive

-----------------------------------------------------------------------------
(* The steps, one lemma each.                                              *)

\* A new session has a number no handler knows, and no rows.
LEMMA PlanKeeps ==
    ASSUME StagingInvariant, NEW d \in Devices, NEW want \in Wants, Plan(d, want)
    PROVE  StagingInvariant'
<1> USE StagingAssumption
<1> DEFINE id  == plan_count + 1
           new == [session |-> id, want |-> want, sent |-> {}]
<1>1. /\ plan_count \in Nat /\ id \in 1..MaxPlans
      /\ plan_count' = id
      /\ 1..plan_count \subseteq 1..id
      /\ id \notin 1..plan_count
      /\ id # NoSession
  BY DEF Plan, StagingInvariant, SessionsNumbered
<1>2. /\ DOMAIN sessions' = {id}
      /\ session_blobs' = [s \in {id} |-> << >>]
      /\ cycle' = [cycle EXCEPT ![d] = new]
      /\ UNCHANGED <<staging, file_index, tree, puts>>
  BY DEF Plan
<1>3. SessionsNumbered'
  BY <1>1, <1>2 DEF SessionsNumbered
<1>4. CyclesTyped'
  BY <1>1, <1>2 DEF StagingInvariant, CyclesTyped
<1>5. PutsTyped'
  BY <1>1, <1>2 DEF StagingInvariant, PutsTyped
<1>6. /\ \A put \in puts : put.session \in 1..plan_count
      /\ \A e \in Devices : cycle[e].session \in 1..plan_count \cup {NoSession}
  BY DEF StagingInvariant, PutsTyped, CyclesTyped
<1>7. /\ cycle'[d].session = id
      /\ \A e \in Devices \ {d} : cycle'[e] = cycle[e]
  BY <1>2 DEF StagingInvariant, CyclesTyped
<1>8. CyclesApart'
  BY <1>1, <1>6, <1>7 DEF StagingInvariant, CyclesApart
<1>9. PutsOfCycle'
  BY <1>1, <1>2, <1>6, <1>7 DEF StagingInvariant, PutsOfCycle
<1>10. OneWriter'
  BY <1>2 DEF StagingInvariant, OneWriter
<1>11. \A put \in puts' : put.session \notin DOMAIN sessions'
  BY <1>1, <1>2, <1>6
<1>12. StagedPutsStaged' /\ WritersHaveNoRow'
  BY <1>11 DEF StagedPutsStaged, WritersHaveNoRow
<1>13. \A s \in DOMAIN sessions' : DOMAIN Rows(s)' = {}
  BY <1>2 DEF Rows
<1>14. RowsWereSent' /\ RowsAreStaged'
  BY <1>13 DEF RowsWereSent, RowsAreStaged
<1>15. IndexIsLive'
  BY <1>2 DEF StagingInvariant, IndexIsLive
<1> QED
  BY <1>3, <1>4, <1>5, <1>8, <1>9, <1>10, <1>12, <1>14, <1>15 DEF StagingInvariant

\* The server learns nothing of a device that gives up.
LEMMA GiveUpKeeps ==
    ASSUME StagingInvariant, NEW d \in Devices, GiveUp(d)
    PROVE  StagingInvariant'
<1> USE StagingAssumption
<1>1. /\ cycle' = [cycle EXCEPT ![d] = Idle]
      /\ UNCHANGED <<sessions, plan_count, session_blobs, staging, file_index, tree, puts>>
  BY DEF GiveUp
<1>2. Idle \in [session : {NoSession}, want : Wants, sent : SUBSET BlobPaths]
  <2>1. << >> \in [{} -> BlobContents]
    OBVIOUS
  <2> QED
    BY <2>1 DEF Idle, Wants
<1>3. CyclesTyped'
  BY <1>1, <1>2 DEF StagingInvariant, CyclesTyped
<1>4. /\ cycle'[d].session = NoSession
      /\ \A e \in Devices \ {d} : cycle'[e] = cycle[e]
  BY <1>1, <1>2 DEF StagingInvariant, CyclesTyped
<1>5. /\ \A put \in puts : put.session # NoSession
      /\ NoSession \notin DOMAIN sessions
  BY DEF StagingInvariant, PutsTyped, SessionsNumbered
<1>6. CyclesApart'
  BY <1>4 DEF StagingInvariant, CyclesApart
<1>7. PutsOfCycle'
  BY <1>1, <1>4, <1>5 DEF StagingInvariant, PutsOfCycle
<1>8. RowsWereSent'
  BY <1>1, <1>4, <1>5 DEF StagingInvariant, RowsWereSent, Rows
<1> QED
  BY <1>1, <1>3, <1>6, <1>7, <1>8
     DEF StagingInvariant, PutsTyped, SessionsNumbered, OneWriter, StagedPutsStaged,
         WritersHaveNoRow, RowsAreStaged, IndexIsLive, Rows, StagedIn, StagingRoot

\* Fewer sessions: what holds of every open one still does.
LEMMA RevokeKeeps ==
    ASSUME StagingInvariant, NEW d \in Devices, Revoke(d)
    PROVE  StagingInvariant'
<1>1. /\ DOMAIN sessions' \subseteq DOMAIN sessions
      /\ session_blobs' = Restrict(session_blobs, DOMAIN sessions')
      /\ UNCHANGED <<plan_count, staging, file_index, tree, cycle, puts>>
  <2>1. DOMAIN sessions' \subseteq DOMAIN sessions
    BY DEF Revoke, Without, Restrict
  <2> QED
    BY <2>1 DEF Revoke, Cascade
<1>2. /\ DOMAIN session_blobs' = DOMAIN sessions'
      /\ \A s \in DOMAIN sessions' : Rows(s)' = Rows(s)
  BY <1>1 DEF Restrict, Rows
<1>3. \A s : StagedIn(s)' = StagedIn(s)
  BY <1>1 DEF StagedIn, StagingRoot
<1>4. RowsWereSent'
  BY <1>1, <1>2 DEF StagingInvariant, RowsWereSent
<1>5. RowsAreStaged'
  BY <1>1, <1>2, <1>3 DEF StagingInvariant, RowsAreStaged
<1>6. StagedPutsStaged' /\ WritersHaveNoRow'
  BY <1>1, <1>2, <1>3 DEF StagingInvariant, StagedPutsStaged, WritersHaveNoRow
<1>7. SessionsNumbered'
  BY <1>1, <1>2 DEF StagingInvariant, SessionsNumbered
<1> QED
  BY <1>1, <1>4, <1>5, <1>6, <1>7
     DEF StagingInvariant, CyclesTyped, PutsTyped, CyclesApart, PutsOfCycle, OneWriter,
         IndexIsLive

\* What a device starts to send has no row and nobody else writes it: the
\* device has sent all that has a row, and does not send one path twice.
LEMMA StartPutKeeps ==
    ASSUME StagingInvariant, NEW d \in Devices, NEW p \in BlobPaths, StartPut(d, p)
    PROVE  StagingInvariant'
<1> DEFINE s   == cycle[d].session
           new == [device |-> d, session |-> s, path |-> p, hash |-> cycle[d].want[p],
                   at |-> "checked"]
<1>1. /\ p \in DOMAIN cycle[d].want
      /\ p \notin cycle[d].sent
      /\ s \in DOMAIN sessions
      /\ \A put \in puts : ~(put.session = s /\ put.path = p)
      /\ puts' = puts \cup {new}
      /\ UNCHANGED <<sessions, plan_count, session_blobs, staging, file_index, tree, cycle>>
  BY DEF StartPut, InFlight
<1>2. s \in 1..plan_count
  BY <1>1 DEF StagingInvariant, SessionsNumbered
<1>3. cycle[d].want[p] \in BlobContents
  <2>1. cycle[d].want \in Wants
    BY DEF StagingInvariant, CyclesTyped
  <2> QED
    BY <1>1, <2>1 DEF Wants
<1>4. PutsTyped'
  BY <1>1, <1>2, <1>3 DEF StagingInvariant, PutsTyped
<1>5. \A e \in Devices : cycle[e].session = s => e = d
  <2>1. s # NoSession
    BY <1>2, StagingAssumption DEF StagingInvariant, SessionsNumbered
  <2> QED
    BY <2>1 DEF StagingInvariant, CyclesApart
<1>6. PutsOfCycle'
  BY <1>1, <1>5 DEF StagingInvariant, PutsOfCycle
<1>7. OneWriter'
  BY <1>1 DEF StagingInvariant, OneWriter
<1>8. p \notin DOMAIN Rows(s)
  BY <1>1 DEF StagingInvariant, RowsWereSent
<1>9. WritersHaveNoRow'
  BY <1>1, <1>8 DEF StagingInvariant, WritersHaveNoRow, Rows
<1>10. StagedPutsStaged'
  BY <1>1 DEF StagingInvariant, StagedPutsStaged, StagedIn, StagingRoot
<1> QED
  BY <1>1, <1>4, <1>6, <1>7, <1>9, <1>10
     DEF StagingInvariant, CyclesTyped, SessionsNumbered, CyclesApart, RowsWereSent,
         RowsAreStaged, IndexIsLive, Rows, StagedIn, StagingRoot

\* The file written is nobody else's: its path has no row and no other writer.
LEMMA StageBlobKeeps ==
    ASSUME StagingInvariant, NEW put \in puts, StageBlob(put)
    PROVE  StagingInvariant'
<1> DEFINE s   == put.session
           dir == With(StagedIn(s), put.path, put.hash)
           new == [put EXCEPT !.at = "staged"]
<1>1. /\ staging' = With(staging, s, dir)
      /\ puts' = (puts \ {put}) \cup {new}
      /\ UNCHANGED <<sessions, plan_count, session_blobs, file_index, tree, cycle>>
  BY DEF StageBlob, StagingRoot
<1>2. put \in [device : Devices, session : 1..plan_count, path : BlobPaths,
               hash : BlobContents, at : {"checked", "staged"}]
  BY DEF StagingInvariant, PutsTyped
<1>3. new = [device |-> put.device, session |-> s, path |-> put.path, hash |-> put.hash,
             at |-> "staged"]
  BY <1>2
<1>4. /\ new.session = s /\ new.path = put.path /\ new.hash = put.hash
      /\ new.device = put.device
  BY <1>3
<1>5. new \in [device : Devices, session : 1..plan_count, path : BlobPaths,
               hash : BlobContents, at : {"checked", "staged"}]
  BY <1>2, <1>3
<1> HIDE DEF new, dir
<1>6. PutsTyped'
  BY <1>1, <1>5 DEF StagingInvariant, PutsTyped
<1>7. PutsOfCycle'
  BY <1>1, <1>4 DEF StagingInvariant, PutsOfCycle
<1>8. OneWriter'
  BY <1>1, <1>4 DEF StagingInvariant, OneWriter
<1>9. WritersHaveNoRow'
  BY <1>1, <1>4 DEF StagingInvariant, WritersHaveNoRow, Rows
<1>10. /\ DOMAIN StagedIn(s)' = DOMAIN StagedIn(s) \cup {put.path}
       /\ StagedIn(s)'[put.path] = put.hash
       /\ \A p \in DOMAIN StagedIn(s) \ {put.path} : StagedIn(s)'[p] = StagedIn(s)[p]
  <2>1. s \in DOMAIN staging' /\ staging'[s] = dir
    BY <1>1 DEF With, Updated
  <2>2. StagedIn(s)' = dir
    BY <2>1 DEF StagedIn, StagingRoot
  <2>3. /\ DOMAIN dir = DOMAIN StagedIn(s) \cup {put.path}
        /\ dir[put.path] = put.hash
        /\ \A p \in DOMAIN StagedIn(s) \ {put.path} : dir[p] = StagedIn(s)[p]
    BY DEF dir, With, Updated
  <2> QED
    BY <2>2, <2>3
<1>11. ASSUME NEW t, t # s
       PROVE  StagedIn(t)' = StagedIn(t)
  <2>1. /\ t \in DOMAIN staging' <=> t \in DOMAIN staging
        /\ t \in DOMAIN staging => staging'[t] = staging[t]
    BY <1>1, <1>11 DEF With, Updated
  <2> QED
    BY <2>1 DEF StagedIn, StagingRoot
<1>12. StagedPutsStaged'
  <2> SUFFICES ASSUME NEW q \in puts', q.at = "staged", q.session \in DOMAIN sessions
               PROVE  /\ q.path \in DOMAIN StagedIn(q.session)'
                      /\ StagedIn(q.session)'[q.path] = q.hash
    BY <1>1 DEF StagedPutsStaged
  <2>1. CASE q = new
    BY <1>4, <1>10, <2>1
  <2>2. CASE q \in puts \ {put}
    <3>1. /\ q.path \in DOMAIN StagedIn(q.session)
          /\ StagedIn(q.session)[q.path] = q.hash
      BY <2>2 DEF StagingInvariant, StagedPutsStaged
    <3>2. CASE q.session = s
      <4>1. q.path # put.path
        BY <2>2, <3>2 DEF StagingInvariant, OneWriter
      <4> QED
        BY <1>10, <3>1, <3>2, <4>1
    <3>3. CASE q.session # s
      BY <1>11, <3>1, <3>3
    <3> QED
      BY <3>2, <3>3
  <2> QED
    BY <1>1, <2>1, <2>2
<1>13. RowsAreStaged'
  <2> SUFFICES ASSUME NEW t \in DOMAIN sessions, NEW p \in DOMAIN Rows(t)
               PROVE  p \in DOMAIN StagedIn(t)' /\ StagedIn(t)'[p] = Rows(t)[p]
    BY <1>1 DEF RowsAreStaged, Rows
  <2>1. p \in DOMAIN StagedIn(t) /\ StagedIn(t)[p] = Rows(t)[p]
    BY DEF StagingInvariant, RowsAreStaged
  <2>2. CASE t = s
    <3>1. p # put.path
      BY <2>2 DEF StagingInvariant, WritersHaveNoRow
    <3> QED
      BY <1>10, <2>1, <2>2, <3>1
  <2>3. CASE t # s
    BY <1>11, <2>1, <2>3
  <2> QED
    BY <2>2, <2>3
<1> QED
  BY <1>1, <1>6, <1>7, <1>8, <1>9, <1>12, <1>13
     DEF StagingInvariant, CyclesTyped, SessionsNumbered, CyclesApart, RowsWereSent,
         IndexIsLive, Rows

\* The new row is of a file in place, and the device hears of it.
LEMMA RecordBlobKeeps ==
    ASSUME StagingInvariant, NEW put \in puts, RecordBlob(put)
    PROVE  StagingInvariant'
<1> DEFINE s    == put.session
           rows == With(Rows(s), put.path, put.hash)
           d    == put.device
           sent == IF cycle[d].session = s THEN cycle[d].sent \cup {put.path} ELSE cycle[d].sent
           new  == [session |-> cycle[d].session, want |-> cycle[d].want, sent |-> sent]
<1>1. /\ put.at = "staged"
      /\ s \in DOMAIN sessions
      /\ puts' = puts \ {put}
      /\ session_blobs' = With(session_blobs, s, rows)
      /\ cycle' = Answered(put)
      /\ UNCHANGED <<sessions, plan_count, staging, file_index, tree>>
  BY DEF RecordBlob
<1>2. put.device \in Devices /\ put.path \in BlobPaths
  BY DEF StagingInvariant, PutsTyped
<1>3. cycle[d] \in [session : 1..plan_count \cup {NoSession}, want : Wants,
                    sent : SUBSET BlobPaths]
  BY <1>2 DEF StagingInvariant, CyclesTyped
<1>4. cycle' = [cycle EXCEPT ![d] = new]
  <2>1. cycle \in [Devices -> [session : 1..plan_count \cup {NoSession}, want : Wants,
                                sent : SUBSET BlobPaths]]
    BY DEF StagingInvariant, CyclesTyped
  <2>2. new = [cycle[d] EXCEPT !.sent = sent]
    BY <1>3
  <2>3. cycle' = [cycle EXCEPT ![d] = [cycle[d] EXCEPT !.sent = sent]]
    BY <1>1, <1>2, <2>1 DEF Answered
  <2> QED
    BY <2>2, <2>3
<1>5. /\ new \in [session : 1..plan_count \cup {NoSession}, want : Wants, sent : SUBSET BlobPaths]
      /\ new.session = cycle[d].session
      /\ new.sent = sent
      /\ new.want = cycle[d].want
  BY <1>2, <1>3
<1>6. /\ DOMAIN rows = DOMAIN Rows(s) \cup {put.path}
      /\ rows[put.path] = put.hash
      /\ \A p \in DOMAIN Rows(s) \ {put.path} : rows[p] = Rows(s)[p]
  BY DEF With, Updated
<1> HIDE DEF new, rows
<1>7. CyclesTyped'
  BY <1>1, <1>4, <1>5 DEF StagingInvariant, CyclesTyped
<1>8. /\ cycle'[d] = new
      /\ \A e \in Devices \ {d} : cycle'[e] = cycle[e]
  BY <1>2, <1>4 DEF StagingInvariant, CyclesTyped
<1>9. \A e \in Devices : cycle'[e].session = cycle[e].session
  BY <1>5, <1>8
<1>10. /\ DOMAIN session_blobs' = DOMAIN session_blobs
       /\ Rows(s)' = rows
       /\ \A t \in DOMAIN sessions \ {s} : Rows(t)' = Rows(t)
  <2>1. s \in DOMAIN session_blobs /\ DOMAIN session_blobs = DOMAIN sessions
    BY <1>1 DEF StagingInvariant, SessionsNumbered
  <2> QED
    BY <1>1, <2>1 DEF With, Updated, Rows
<1>11. SessionsNumbered'
  BY <1>1, <1>10 DEF StagingInvariant, SessionsNumbered
<1>12. PutsTyped' /\ OneWriter'
  BY <1>1 DEF StagingInvariant, PutsTyped, OneWriter
<1>13. PutsOfCycle'
  BY <1>1, <1>9 DEF StagingInvariant, PutsOfCycle
<1>14. CyclesApart'
  BY <1>9 DEF StagingInvariant, CyclesApart
<1>15. StagedPutsStaged'
  BY <1>1 DEF StagingInvariant, StagedPutsStaged, StagedIn, StagingRoot
<1>16. WritersHaveNoRow'
  <2> SUFFICES ASSUME NEW q \in puts \ {put}, q.session \in DOMAIN sessions
               PROVE  q.path \notin DOMAIN Rows(q.session)'
    BY <1>1 DEF WritersHaveNoRow
  <2>1. q.path \notin DOMAIN Rows(q.session)
    BY DEF StagingInvariant, WritersHaveNoRow
  <2>2. q.session = s => q.path # put.path
    BY DEF StagingInvariant, OneWriter
  <2> QED
    BY <1>6, <1>10, <2>1, <2>2
<1>17. RowsWereSent'
  <2> SUFFICES ASSUME NEW e \in Devices, NEW t \in DOMAIN sessions, cycle[e].session = t
               PROVE  DOMAIN Rows(t)' \subseteq cycle'[e].sent
    BY <1>1, <1>9 DEF RowsWereSent, Rows
  <2>1. DOMAIN Rows(t) \subseteq cycle[e].sent
    BY DEF StagingInvariant, RowsWereSent
  <2>2. CASE t = s
    <3>1. e = d
      BY <2>2 DEF StagingInvariant, PutsOfCycle
    <3>2. cycle'[e].sent = cycle[e].sent \cup {put.path}
      BY <1>5, <1>8, <2>2, <3>1
    <3> QED
      BY <1>6, <1>10, <2>1, <2>2, <3>2
  <2>3. CASE t # s
    <3>1. cycle'[e].sent = cycle[e].sent
      BY <1>5, <1>8, <2>3
    <3> QED
      BY <1>10, <2>1, <2>3, <3>1
  <2> QED
    BY <2>2, <2>3
<1>18. RowsAreStaged'
  <2> SUFFICES ASSUME NEW t \in DOMAIN sessions, NEW p \in DOMAIN Rows(t)'
               PROVE  p \in DOMAIN StagedIn(t) /\ StagedIn(t)[p] = Rows(t)'[p]
    BY <1>1 DEF RowsAreStaged, StagedIn, StagingRoot
  <2>1. \A q \in DOMAIN Rows(t) : q \in DOMAIN StagedIn(t) /\ StagedIn(t)[q] = Rows(t)[q]
    BY DEF StagingInvariant, RowsAreStaged
  <2>2. CASE t = s /\ p = put.path
    <3>1. put.path \in DOMAIN StagedIn(s) /\ StagedIn(s)[put.path] = put.hash
      BY <1>1 DEF StagingInvariant, StagedPutsStaged
    <3> QED
      BY <1>6, <1>10, <2>2, <3>1
  <2>3. CASE t = s /\ p # put.path
    BY <1>6, <1>10, <2>1, <2>3
  <2>4. CASE t # s
    BY <1>10, <2>1, <2>4
  <2> QED
    BY <2>2, <2>3, <2>4
<1> QED
  BY <1>1, <1>7, <1>11, <1>12, <1>13, <1>14, <1>15, <1>16, <1>17, <1>18
     DEF StagingInvariant, IndexIsLive

\* A row refused leaves a file nobody asks for.
LEMMA RecordRefusedKeeps ==
    ASSUME StagingInvariant, NEW put \in puts, RecordRefused(put)
    PROVE  StagingInvariant'
<1>1. /\ puts' \subseteq puts
      /\ UNCHANGED <<sessions, plan_count, session_blobs, staging, file_index, tree, cycle>>
  BY DEF RecordRefused
<1>2. PutsTyped' /\ PutsOfCycle' /\ OneWriter'
  BY <1>1 DEF StagingInvariant, PutsTyped, PutsOfCycle, OneWriter
<1>3. StagedPutsStaged' /\ WritersHaveNoRow'
  BY <1>1 DEF StagingInvariant, StagedPutsStaged, WritersHaveNoRow, StagedIn, StagingRoot, Rows
<1> QED
  BY <1>1, <1>2, <1>3
     DEF StagingInvariant, CyclesTyped, SessionsNumbered, CyclesApart, RowsWereSent,
         RowsAreStaged, IndexIsLive, StagedIn, StagingRoot, Rows

\* What moves to the live tree is what the rows say, path by path; the files
\* of other sessions stay.
LEMMA CommitKeeps ==
    ASSUME StagingInvariant, NEW d \in Devices, CommitStaged(d)
    PROVE  StagingInvariant'
<1> USE StagingAssumption
<1> DEFINE s    == cycle[d].session
           want == cycle[d].want
<1>1. /\ s \in DOMAIN sessions
      /\ DOMAIN want \subseteq DOMAIN Rows(s)
      /\ DOMAIN want \subseteq DOMAIN StagedIn(s)
      /\ tree' = Updated(tree, Restrict(StagedIn(s), DOMAIN want))
      /\ file_index' = Updated(file_index, Restrict(Rows(s), DOMAIN want))
      /\ cycle' = [cycle EXCEPT ![d] = Idle]
      /\ UNCHANGED <<plan_count, puts>>
  BY DEF CommitStaged, MissingUploads
<1>2. /\ staging' = Without(staging, {s})
      /\ sessions' = Without(sessions, {s})
      /\ session_blobs' = Restrict(session_blobs, DOMAIN sessions')
  BY DEF CommitStaged, Cascade, StagingRoot
<1>3. DOMAIN sessions' = DOMAIN sessions \ {s}
  BY <1>2 DEF Without, Restrict
<1>4. /\ DOMAIN session_blobs' = DOMAIN sessions'
      /\ \A t \in DOMAIN sessions' : Rows(t)' = Rows(t)
  BY <1>2 DEF Restrict, Rows
<1>5. \A t : t # s => StagedIn(t)' = StagedIn(t)
  BY <1>2 DEF Without, Restrict, StagedIn, StagingRoot
<1>6. SessionsNumbered'
  BY <1>1, <1>3, <1>4 DEF StagingInvariant, SessionsNumbered
<1>7. Idle \in [session : {NoSession}, want : Wants, sent : SUBSET BlobPaths]
  <2>1. << >> \in [{} -> BlobContents]
    OBVIOUS
  <2> QED
    BY <2>1 DEF Idle, Wants
<1>8. CyclesTyped'
  BY <1>1, <1>7 DEF StagingInvariant, CyclesTyped
<1>9. /\ cycle'[d].session = NoSession
      /\ \A e \in Devices \ {d} : cycle'[e] = cycle[e]
  BY <1>1, <1>7 DEF StagingInvariant, CyclesTyped
<1>10. /\ \A put \in puts : put.session # NoSession
       /\ NoSession \notin DOMAIN sessions
  BY DEF StagingInvariant, PutsTyped, SessionsNumbered
<1>11. CyclesApart'
  BY <1>9 DEF StagingInvariant, CyclesApart
<1>12. PutsOfCycle'
  BY <1>1, <1>9, <1>10 DEF StagingInvariant, PutsOfCycle
<1>13. PutsTyped' /\ OneWriter'
  BY <1>1 DEF StagingInvariant, PutsTyped, OneWriter
<1>14. StagedPutsStaged' /\ WritersHaveNoRow'
  BY <1>1, <1>3, <1>4, <1>5 DEF StagingInvariant, StagedPutsStaged, WritersHaveNoRow
<1>15. RowsWereSent'
  BY <1>3, <1>4, <1>9, <1>10 DEF StagingInvariant, RowsWereSent
<1>16. RowsAreStaged'
  BY <1>3, <1>4, <1>5 DEF StagingInvariant, RowsAreStaged
<1>17. Restrict(StagedIn(s), DOMAIN want) = Restrict(Rows(s), DOMAIN want)
  <2>1. \A p \in DOMAIN want : StagedIn(s)[p] = Rows(s)[p]
    BY <1>1 DEF StagingInvariant, RowsAreStaged
  <2> QED
    BY <2>1 DEF Restrict
<1>18. IndexIsLive'
  BY <1>1, <1>17 DEF StagingInvariant, IndexIsLive
<1> QED
  BY <1>6, <1>8, <1>11, <1>12, <1>13, <1>14, <1>15, <1>16, <1>18 DEF StagingInvariant

\* Reading changes nothing of this.
LEMMA GetsKeep ==
    ASSUME StagingInvariant,
           UNCHANGED <<sessions, plan_count, session_blobs, staging, file_index, tree, cycle, puts>>
    PROVE  StagingInvariant'
BY DEF StagingInvariant, CyclesTyped, PutsTyped, SessionsNumbered, CyclesApart, PutsOfCycle,
       OneWriter, StagedPutsStaged, WritersHaveNoRow, RowsWereSent, RowsAreStaged, IndexIsLive,
       Rows, StagedIn, StagingRoot

-----------------------------------------------------------------------------
\* The invariant is inductive: one case per action.
LEMMA StagingStep == StagingInvariant /\ [StagingNext]_stagingVars => StagingInvariant'
<1> SUFFICES ASSUME StagingInvariant, [StagingNext]_stagingVars
             PROVE  StagingInvariant'
  OBVIOUS
<1>1. ASSUME NEW d \in Devices, DeviceStep(d)
      PROVE  StagingInvariant'
  BY <1>1, PlanKeeps, GiveUpKeeps, RevokeKeeps, StartPutKeeps, CommitKeeps DEF DeviceStep
<1>2. CASE \E put \in puts : StageBlob(put) \/ RecordBlob(put) \/ RecordRefused(put)
  BY <1>2, StageBlobKeeps, RecordBlobKeeps, RecordRefusedKeeps
<1>3. CASE \/ \E p \in BlobPaths, h \in BlobContents : StartGet(p, h)
           \/ \E get \in gets : ReadBlob(get)
           \/ UNCHANGED stagingVars
  BY <1>3, GetsKeep DEF StartGet, ReadBlob, stagingVars
<1> QED
  BY <1>1, <1>2, <1>3 DEF StagingNext, HandlerStep

\* Whatever the devices do and wherever they stop.
LEMMA StagingInvariantHolds == StagingSpec => []StagingInvariant
BY StagingInitHolds, StagingStep, PTL DEF StagingSpec

-----------------------------------------------------------------------------
(* What the maps of files hold.  That a device is told to have sent only   *)
(* what it wanted takes the account of the handlers above.                 *)

LEMMA RestrictedMaps ==
    ASSUME NEW f \in FileMaps, NEW ps, ps \subseteq DOMAIN f
    PROVE  Restrict(f, ps) \in FileMaps
<1>1. PICK qs \in SUBSET BlobPaths : f \in [qs -> BlobContents]
  BY DEF FileMaps
<1>2. Restrict(f, ps) \in [ps -> BlobContents] /\ ps \in SUBSET BlobPaths
  BY <1>1 DEF Restrict
<1> QED BY <1>2 DEF FileMaps

LEMMA UpdatedMaps ==
    ASSUME NEW f \in FileMaps, NEW g \in FileMaps
    PROVE  Updated(f, g) \in FileMaps
<1>1. PICK ps \in SUBSET BlobPaths : f \in [ps -> BlobContents]
  BY DEF FileMaps
<1>2. PICK qs \in SUBSET BlobPaths : g \in [qs -> BlobContents]
  BY DEF FileMaps
<1>3. Updated(f, g) \in [ps \cup qs -> BlobContents] /\ ps \cup qs \in SUBSET BlobPaths
  BY <1>1, <1>2 DEF Updated
<1> QED BY <1>3 DEF FileMaps

LEMMA MapsWith ==
    ASSUME NEW f \in FileMaps, NEW p \in BlobPaths, NEW h \in BlobContents
    PROVE  With(f, p, h) \in FileMaps
<1>1. [y \in {p} |-> h] \in [{p} -> BlobContents] /\ {p} \in SUBSET BlobPaths
  OBVIOUS
<1>2. [y \in {p} |-> h] \in FileMaps
  BY <1>1 DEF FileMaps
<1> QED BY <1>2, UpdatedMaps DEF With

LEMMA NoFiles == << >> \in FileMaps
<1>1. << >> \in [{} -> BlobContents] /\ {} \in SUBSET BlobPaths
  OBVIOUS
<1> QED BY <1>1 DEF FileMaps

MapsTyped ==
    /\ \A s \in DOMAIN sessions : sessions[s] \in Devices
    /\ \A s \in DOMAIN session_blobs : session_blobs[s] \in FileMaps
    /\ DOMAIN staging \subseteq 1..plan_count
    /\ \A s \in DOMAIN staging : staging[s] \in FileMaps
    /\ file_index \in FileMaps /\ tree \in FileMaps

SentAreWanted ==
    /\ \A d \in Devices : cycle[d].sent \subseteq DOMAIN cycle[d].want
    /\ \A put \in puts, d \in Devices :
           cycle[d].session = put.session => put.path \in DOMAIN cycle[d].want

FilesInvariant == StagingInvariant /\ MapsTyped /\ SentAreWanted

LEMMA FilesInit == StagingInit => MapsTyped /\ SentAreWanted
<1> SUFFICES ASSUME StagingInit PROVE MapsTyped /\ SentAreWanted
  OBVIOUS
<1>1. file_index \in FileMaps /\ tree \in FileMaps
  BY NoFiles DEF StagingInit
<1>2. MapsTyped
  BY <1>1 DEF StagingInit, MapsTyped
<1>3. SentAreWanted
  BY DEF StagingInit, SentAreWanted, Idle
<1> QED BY <1>2, <1>3

\* What is staged of a session, if anything.
LEMMA StagedTyped ==
    ASSUME MapsTyped, NEW s
    PROVE  StagedIn(s) \in FileMaps
BY NoFiles DEF MapsTyped, StagedIn, StagingRoot

LEMMA IdleTyped == Idle.sent = {} /\ Idle.session = NoSession
BY DEF Idle

\* A device that no longer works in a session, or never did in the new one.
LEMMA LeavingKeepsWants ==
    ASSUME FilesInvariant, NEW d \in Devices, NEW new,
           cycle' = [cycle EXCEPT ![d] = new], puts' = puts,
           new.sent = {}, \A put \in puts : put.session # new.session
    PROVE  SentAreWanted'
<1>1. DOMAIN cycle = Devices
  BY DEF FilesInvariant, StagingInvariant, CyclesTyped
<1>2. cycle'[d] = new /\ \A e \in Devices \ {d} : cycle'[e] = cycle[e]
  BY <1>1
<1> QED BY <1>2 DEF FilesInvariant, SentAreWanted

LEMMA HandlersHaveSessions ==
    ASSUME FilesInvariant, NEW put \in puts
    PROVE  put.session \in 1..plan_count /\ put.session # NoSession
BY StagingAssumption DEF FilesInvariant, StagingInvariant, PutsTyped, SessionsNumbered

LEMMA PlanKeepsFiles ==
    ASSUME FilesInvariant, NEW d \in Devices, NEW want \in Wants, Plan(d, want)
    PROVE  MapsTyped' /\ SentAreWanted'
<1> DEFINE id  == plan_count + 1
           new == [session |-> id, want |-> want, sent |-> {}]
<1>1. /\ plan_count' = id /\ sessions' = [s \in {id} |-> d]
      /\ session_blobs' = [s \in {id} |-> << >>]
      /\ cycle' = [cycle EXCEPT ![d] = new]
      /\ UNCHANGED <<staging, file_index, tree, puts>>
  BY DEF Plan
<1>2. plan_count \in Nat
  BY StagingAssumption DEF FilesInvariant, StagingInvariant, SessionsNumbered
<1>3. id \notin 1..plan_count /\ 1..plan_count \subseteq 1..id
  BY <1>2
<1>4. \A put \in puts : put.session # new.session
  BY <1>3, HandlersHaveSessions
<1>5. SentAreWanted'
  BY <1>1, <1>4, LeavingKeepsWants
<1>6. MapsTyped'
  BY <1>1, <1>3, NoFiles DEF FilesInvariant, MapsTyped
<1> QED BY <1>5, <1>6

LEMMA GiveUpKeepsFiles ==
    ASSUME FilesInvariant, NEW d \in Devices, GiveUp(d)
    PROVE  MapsTyped' /\ SentAreWanted'
<1>1. /\ cycle' = [cycle EXCEPT ![d] = Idle]
      /\ UNCHANGED <<sessions, plan_count, session_blobs, staging, file_index, tree, puts>>
  BY DEF GiveUp
<1>2. SentAreWanted'
  BY <1>1, HandlersHaveSessions, IdleTyped, LeavingKeepsWants
<1> QED BY <1>1, <1>2 DEF FilesInvariant, MapsTyped

LEMMA RevokeKeepsFiles ==
    ASSUME FilesInvariant, NEW d \in Devices, Revoke(d)
    PROVE  MapsTyped' /\ SentAreWanted'
<1>1. /\ DOMAIN sessions' \subseteq DOMAIN sessions
      /\ \A s \in DOMAIN sessions' : sessions'[s] = sessions[s]
      /\ UNCHANGED <<plan_count, staging, file_index, tree, cycle, puts>>
  BY DEF Revoke, Without, Restrict
<1>2. session_blobs' = Restrict(session_blobs, DOMAIN sessions')
  BY DEF Revoke, Cascade
<1>3. DOMAIN session_blobs = DOMAIN sessions
  BY DEF FilesInvariant, StagingInvariant, SessionsNumbered
<1>4. MapsTyped'
  BY <1>1, <1>2, <1>3 DEF FilesInvariant, MapsTyped, Restrict
<1> QED BY <1>1, <1>4 DEF FilesInvariant, SentAreWanted

LEMMA StartPutKeepsFiles ==
    ASSUME FilesInvariant, NEW d \in Devices, NEW p \in BlobPaths, StartPut(d, p)
    PROVE  MapsTyped' /\ SentAreWanted'
<1> DEFINE new == [device |-> d, session |-> cycle[d].session, path |-> p,
                   hash |-> cycle[d].want[p], at |-> "checked"]
<1>1. /\ p \in DOMAIN cycle[d].want /\ cycle[d].session \in DOMAIN sessions
      /\ puts' = puts \cup {new}
      /\ UNCHANGED <<sessions, plan_count, session_blobs, staging, file_index, tree, cycle>>
  BY DEF StartPut
<1>2. cycle[d].session # NoSession
  BY <1>1, StagingAssumption DEF FilesInvariant, StagingInvariant, SessionsNumbered
<1>3. \A e \in Devices : cycle[e].session = cycle[d].session => e = d
  BY <1>2 DEF FilesInvariant, StagingInvariant, CyclesApart
<1>4. \A e \in Devices : cycle[e].session = new.session => new.path \in DOMAIN cycle[e].want
  BY <1>1, <1>3
<1> HIDE DEF new
<1> QED BY <1>1, <1>4 DEF FilesInvariant, MapsTyped, SentAreWanted

LEMMA StageBlobKeepsFiles ==
    ASSUME FilesInvariant, NEW put \in puts, StageBlob(put)
    PROVE  MapsTyped' /\ SentAreWanted'
<1> DEFINE dir == With(StagedIn(put.session), put.path, put.hash)
           new == [put EXCEPT !.at = "staged"]
<1>1. /\ staging' = With(staging, put.session, dir)
      /\ puts' = (puts \ {put}) \cup {new}
      /\ UNCHANGED <<sessions, plan_count, session_blobs, file_index, tree, cycle>>
  BY DEF StageBlob, StagingRoot
<1>2. put \in [device : Devices, session : 1..plan_count, path : BlobPaths,
               hash : BlobContents, at : {"checked", "staged"}]
  BY DEF FilesInvariant, StagingInvariant, PutsTyped
<1>3. new.session = put.session /\ new.path = put.path
  BY <1>2
<1>4. MapsTyped => dir \in FileMaps
  BY <1>2, StagedTyped, MapsWith
<1> HIDE DEF new, dir
<1>5. /\ DOMAIN staging' = DOMAIN staging \cup {put.session}
      /\ \A s \in DOMAIN staging' : staging'[s] = dir \/ (s \in DOMAIN staging /\ staging'[s] = staging[s])
  BY <1>1 DEF With, Updated
<1>6. MapsTyped'
  <2>1. MapsTyped /\ dir \in FileMaps
    BY <1>4 DEF FilesInvariant
  <2>2. DOMAIN staging' \subseteq 1..plan_count'
    BY <1>1, <1>2, <1>5, <2>1 DEF MapsTyped
  <2>3. \A s \in DOMAIN staging' : staging'[s] \in FileMaps
    BY <1>5, <2>1 DEF MapsTyped
  <2> QED BY <1>1, <2>1, <2>2, <2>3 DEF MapsTyped
<1> QED BY <1>1, <1>3, <1>6 DEF FilesInvariant, SentAreWanted

\* The reply says no more than that a file of the plan was sent.
LEMMA RecordBlobKeepsFiles ==
    ASSUME FilesInvariant, NEW put \in puts, RecordBlob(put)
    PROVE  MapsTyped' /\ SentAreWanted'
<1> DEFINE d    == put.device
           rows == With(Rows(put.session), put.path, put.hash)
           sent == IF cycle[d].session = put.session THEN cycle[d].sent \cup {put.path}
                   ELSE cycle[d].sent
<1>1. /\ put.session \in DOMAIN sessions /\ puts' = puts \ {put}
      /\ session_blobs' = With(session_blobs, put.session, rows)
      /\ UNCHANGED <<sessions, plan_count, staging, file_index, tree>>
  BY DEF RecordBlob
<1>2. cycle' = [cycle EXCEPT ![d].sent = sent]
  BY DEF RecordBlob, Answered
<1>3. put \in [device : Devices, session : 1..plan_count, path : BlobPaths,
               hash : BlobContents, at : {"checked", "staged"}]
  BY DEF FilesInvariant, StagingInvariant, PutsTyped
<1>4. cycle \in [Devices -> [session : 1..plan_count \cup {NoSession}, want : Wants,
                             sent : SUBSET BlobPaths]]
  BY DEF FilesInvariant, StagingInvariant, CyclesTyped
<1>5. put.session \in DOMAIN session_blobs
  BY <1>1 DEF FilesInvariant, StagingInvariant, SessionsNumbered
<1>6. rows \in FileMaps
  BY <1>3, <1>5, MapsWith DEF FilesInvariant, MapsTyped, Rows
<1>7. sent \subseteq DOMAIN cycle[d].want
  BY <1>3 DEF FilesInvariant, SentAreWanted
<1> HIDE DEF rows, sent
<1>8. \A s \in DOMAIN session_blobs' : session_blobs'[s] \in FileMaps
  BY <1>1, <1>6 DEF FilesInvariant, MapsTyped, With, Updated
<1>9. MapsTyped'
  BY <1>1, <1>8 DEF FilesInvariant, MapsTyped
<1>10. /\ cycle'[d].want = cycle[d].want /\ cycle'[d].session = cycle[d].session
       /\ cycle'[d].sent = sent
       /\ \A e \in Devices \ {d} : cycle'[e] = cycle[e]
  BY <1>2, <1>3, <1>4
<1> HIDE DEF d
<1>11. \A e \in Devices : cycle'[e].want = cycle[e].want /\ cycle'[e].session = cycle[e].session
  BY <1>10
<1>12. \A e \in Devices : cycle'[e].sent \subseteq DOMAIN cycle'[e].want
  BY <1>7, <1>10 DEF FilesInvariant, SentAreWanted
<1>13. SentAreWanted'
  BY <1>1, <1>11, <1>12 DEF FilesInvariant, SentAreWanted
<1> QED BY <1>9, <1>13

LEMMA CommitKeepsFiles ==
    ASSUME FilesInvariant, NEW d \in Devices, CommitStaged(d)
    PROVE  MapsTyped' /\ SentAreWanted'
<1> DEFINE s    == cycle[d].session
           want == cycle[d].want
<1>1. /\ s \in DOMAIN sessions
      /\ DOMAIN want \subseteq DOMAIN Rows(s) /\ DOMAIN want \subseteq DOMAIN StagedIn(s)
      /\ tree' = Updated(tree, Restrict(StagedIn(s), DOMAIN want))
      /\ file_index' = Updated(file_index, Restrict(Rows(s), DOMAIN want))
      /\ cycle' = [cycle EXCEPT ![d] = Idle]
      /\ UNCHANGED <<plan_count, puts>>
  BY DEF CommitStaged, MissingUploads
<1>2. /\ staging' = Without(staging, {s})
      /\ sessions' = Without(sessions, {s})
      /\ session_blobs' = Restrict(session_blobs, DOMAIN sessions')
  BY DEF CommitStaged, Cascade, StagingRoot
<1>3. DOMAIN session_blobs = DOMAIN sessions
  BY DEF FilesInvariant, StagingInvariant, SessionsNumbered
<1>4. Rows(s) \in FileMaps /\ StagedIn(s) \in FileMaps /\ tree \in FileMaps /\ file_index \in FileMaps
  BY <1>1, <1>3, StagedTyped DEF FilesInvariant, MapsTyped, Rows
<1> HIDE DEF s, want
<1>5. tree' \in FileMaps /\ file_index' \in FileMaps
  BY <1>1, <1>4, RestrictedMaps, UpdatedMaps
<1>6. MapsTyped'
  BY <1>1, <1>2, <1>3, <1>5 DEF FilesInvariant, MapsTyped, Without, Restrict
<1>7. SentAreWanted'
  BY <1>1, HandlersHaveSessions, IdleTyped, LeavingKeepsWants
<1> QED BY <1>6, <1>7

LEMMA FilesStep == FilesInvariant /\ [StagingNext]_stagingVars => FilesInvariant'
<1> SUFFICES ASSUME FilesInvariant, [StagingNext]_stagingVars
             PROVE  MapsTyped' /\ SentAreWanted'
  BY StagingStep DEF FilesInvariant
<1>1. ASSUME NEW d \in Devices, DeviceStep(d)
      PROVE  MapsTyped' /\ SentAreWanted'
  BY <1>1, PlanKeepsFiles, GiveUpKeepsFiles, RevokeKeepsFiles, StartPutKeepsFiles,
     CommitKeepsFiles DEF DeviceStep
<1>2. ASSUME NEW put \in puts, StageBlob(put) \/ RecordBlob(put) \/ RecordRefused(put)
      PROVE  MapsTyped' /\ SentAreWanted'
  <2>1. CASE RecordRefused(put)
    BY <2>1 DEF RecordRefused, FilesInvariant, MapsTyped, SentAreWanted
  <2> QED BY <1>2, <2>1, StageBlobKeepsFiles, RecordBlobKeepsFiles
<1>3. CASE UNCHANGED <<sessions, plan_count, session_blobs, staging, file_index, tree, cycle, puts>>
  BY <1>3 DEF FilesInvariant, MapsTyped, SentAreWanted
<1>4. CASE \/ \E p \in BlobPaths, h \in BlobContents : StartGet(p, h)
           \/ \E get \in gets : ReadBlob(get)
           \/ UNCHANGED stagingVars
  BY <1>3, <1>4 DEF StartGet, ReadBlob, stagingVars
<1> QED BY <1>1, <1>2, <1>4 DEF StagingNext, HandlerStep

\* Files have names of the tree and contents, in the staging directories, the
\* live tree and their rows alike; a device is told that it sent what the plan
\* wanted and nothing else (api.rs, put_blob and commit).
THEOREM StagingIsTyped == StagingSpec => []StagingTypeOK
<1>1. StagingInit => FilesInvariant
  BY StagingInitHolds, FilesInit DEF FilesInvariant
<1>2. FilesInvariant => StagingTypeOK
  <2> SUFFICES ASSUME FilesInvariant PROVE StagingTypeOK
    OBVIOUS
  <2>1. Wants = FileMaps
    BY DEF Wants, FileMaps
  <2>2. \A d \in Devices : /\ cycle[d].session \in 1..plan_count \cup {NoSession}
                           /\ cycle[d].want \in FileMaps
    BY <2>1 DEF FilesInvariant, StagingInvariant, CyclesTyped
  <2> QED BY <2>2 DEF FilesInvariant, StagingInvariant, SessionsNumbered, MapsTyped,
                      SentAreWanted, StagingTypeOK
<1> QED
  BY <1>1, <1>2, FilesStep, PTL DEF StagingSpec

-----------------------------------------------------------------------------
\* A row of session_blobs has its file (api.rs, put_blob; storage.rs,
\* stage_blob), although the file is written outside the mutex and by
\* handlers their devices have long given up.
THEOREM RowsAlwaysStaged == StagingSpec => []RowsAreStaged
<1>1. StagingInvariant => RowsAreStaged
  BY DEF StagingInvariant
<1> QED
  BY <1>1, StagingInvariantHolds, PTL

\* The index names what the live tree holds (api.rs, commit; storage.rs,
\* apply_to_live), for commits that finish.
THEOREM IndexAlwaysLive == StagingSpec => []IndexIsLive
<1>1. StagingInvariant => IndexIsLive
  BY DEF StagingInvariant
<1> QED
  BY <1>1, StagingInvariantHolds, PTL

-----------------------------------------------------------------------------
(***************************************************************************)
(* The retention, of the server and of the desktop: sums and sorted lists  *)
(* are folds and recursive functions, so what they compute is proved from  *)
(* the well-foundedness of the numbers.                                    *)
(***************************************************************************)

\* A set of numbers has a least one.
LEMMA LeastNumber ==
    ASSUME NEW S \in SUBSET Nat, S # {}
    PROVE  \E x \in S : \A y \in S : x =< y
<1> DEFINE less == {ss \in Nat \X Nat : ss[1] < ss[2]}
<1>1. IsWellFoundedOn(less, Nat)
  BY NatLessThanWellFounded DEF OpToRel
<1>2. PICK n \in S : \A m \in S : ~ <<m, n>> \in less
  <2> HIDE DEF less
  <2> QED BY <1>1, WFMin
<1>3. S \subseteq Nat
  OBVIOUS
<1>4. \A m, k \in S : ~ (<<m, k>> \in less) => k =< m
  BY <1>3
<1> HIDE DEF less
<1> QED BY <1>2, <1>4

\* ... and a set of numbers that has 0 and the successor of each of its members has all.
LEMMA OneByOne ==
    ASSUME NEW N \in SUBSET Nat, 0 \in N, \A n \in N : n + 1 \in N
    PROVE  N = Nat
<1> SUFFICES ASSUME N # Nat PROVE FALSE
  OBVIOUS
<1>1. PICK n \in Nat \ N : \A m \in Nat \ N : n =< m
  BY LeastNumber
<1>2. n - 1 \in Nat /\ n - 1 \notin Nat \ N
  BY <1>1
<1> QED BY <1>1, <1>2

-----------------------------------------------------------------------------
(* Sums. *)

Any(s) == CHOOSE x \in s : TRUE

IsSum(g, S, w) ==
    g = [s \in SUBSET S |-> IF s = {} THEN 0 ELSE w[Any(s)] + g[s \ {Any(s)}]]

Weighed(S, w) == IsFiniteSet(S) /\ \A x \in S : w[x] \in Nat

LEMMA AnyIsOne ==
    ASSUME NEW s, s # {}
    PROVE  Any(s) \in s
BY DEF Any

LEMMA OneLess ==
    ASSUME NEW S, IsFiniteSet(S), NEW s \in SUBSET S, s # {}, NEW x \in s
    PROVE  /\ IsFiniteSet(s) /\ Cardinality(s) \in Nat
           /\ s \ {x} \in SUBSET S /\ Cardinality(s \ {x}) = Cardinality(s) - 1
BY FS_Subset, FS_CardinalityType, FS_RemoveElement

LEMMA SumExists ==
    ASSUME NEW S, NEW w, Weighed(S, w)
    PROVE  \E g \in [SUBSET S -> Nat] : IsSum(g, S, w)
<1> DEFINE Small(n) == {s \in SUBSET S : Cardinality(s) =< n}
           Body(g, s) == IF s = {} THEN 0 ELSE w[Any(s)] + g[s \ {Any(s)}]
           Solves(g, n) == \A s \in Small(n) : g[s] \in Nat /\ g[s] = Body(g, s)
           N == {n \in Nat : \E g : g = [s \in Small(n) |-> g[s]] /\ Solves(g, n)}
<1>0. IsFiniteSet(S) /\ \A s \in SUBSET S : IsFiniteSet(s) /\ Cardinality(s) \in Nat
  BY FS_Subset, FS_CardinalityType DEF Weighed
<1>1. 0 \in N
  <2>1. \A s \in Small(0) : s = {}
    BY <1>0, FS_EmptySet
  <2> DEFINE g == [s \in Small(0) |-> 0]
  <2>2. Solves(g, 0)
    BY <2>1
  <2> QED BY <2>2
<1>2. ASSUME NEW n \in N PROVE n + 1 \in N
  <2>1. PICK g : g = [s \in Small(n) |-> g[s]] /\ Solves(g, n)
    OBVIOUS
  <2> DEFINE h == [s \in Small(n+1) |-> Body(g, s)]
  <2>2. Small(n) \subseteq Small(n+1)
    BY <1>0
  <2>3. \A s \in Small(n) : h[s] = g[s]
    BY <2>1, <2>2
  <2>4. ASSUME NEW s \in Small(n+1)
        PROVE  h[s] \in Nat /\ h[s] = Body(h, s)
    <3>1. CASE s = {}
      BY <3>1
    <3>2. CASE s # {}
      <4>1. Any(s) \in s /\ s \ {Any(s)} \in Small(n)
        BY <1>0, <3>2, AnyIsOne, OneLess
      <4>2. h[s] = w[Any(s)] + g[s \ {Any(s)}]
        BY <3>2
      <4>3. h[s \ {Any(s)}] = g[s \ {Any(s)}] /\ g[s \ {Any(s)}] \in Nat /\ w[Any(s)] \in Nat
        BY <2>1, <2>3, <4>1 DEF Weighed
      <4> HIDE DEF h
      <4> QED BY <3>2, <4>2, <4>3
    <3> QED BY <3>1, <3>2
  <2>5. h = [s \in Small(n+1) |-> h[s]]
    OBVIOUS
  <2> HIDE DEF h
  <2>6. \A s \in Small(n+1) : h[s] \in Nat /\ h[s] = Body(h, s)
    BY <2>4
  <2>7. Solves(h, n+1)
    BY <2>6
  <2> HIDE DEF Solves, Small
  <2> QED BY <2>5, <2>7
<1>3. N = Nat
  <2> HIDE DEF N
  <2>1. N \subseteq Nat
    BY DEF N
  <2> QED BY <1>1, <1>2, <2>1, OneByOne
<1>4. Cardinality(S) \in N
  <2> HIDE DEF N
  <2> QED BY <1>0, <1>3
<1>5. Small(Cardinality(S)) = SUBSET S
  BY <1>0, FS_Subset
<1>6. PICK g : g = [s \in Small(Cardinality(S)) |-> g[s]] /\ Solves(g, Cardinality(S))
  BY <1>4
<1>7. g = [s \in SUBSET S |-> g[s]] /\ \A s \in SUBSET S : g[s] \in Nat /\ g[s] = Body(g, s)
  BY <1>5, <1>6
<1>8. g \in [SUBSET S -> Nat] /\ g = [s \in SUBSET S |-> Body(g, s)]
  BY <1>7
<1> QED BY <1>8 DEF IsSum

\* The sum does not depend on the set it is taken from.
LEMMA SumIsOne ==
    ASSUME NEW S, NEW T, NEW w, Weighed(S, w), NEW g, NEW h, IsSum(g, S, w), IsSum(h, T, w)
    PROVE  \A s \in (SUBSET S) \cap (SUBSET T) : g[s] = h[s]
<1> DEFINE N == {n \in Nat : \A s \in (SUBSET S) \cap (SUBSET T) : Cardinality(s) = n => g[s] = h[s]}
<1>0. IsFiniteSet(S) /\ \A s \in SUBSET S : IsFiniteSet(s) /\ Cardinality(s) \in Nat
  BY FS_Subset, FS_CardinalityType DEF Weighed
<1>1. 0 \in N
  <2>1. \A s \in SUBSET S : Cardinality(s) = 0 => s = {}
    BY <1>0, FS_EmptySet
  <2> QED BY <2>1 DEF IsSum
<1>2. ASSUME NEW n \in N PROVE n + 1 \in N
  <2> SUFFICES ASSUME NEW s \in (SUBSET S) \cap (SUBSET T), Cardinality(s) = n + 1
               PROVE  g[s] = h[s]
    OBVIOUS
  <2>1. s # {}
    BY <1>0, FS_EmptySet
  <2>2. Any(s) \in s /\ s \ {Any(s)} \in (SUBSET S) \cap (SUBSET T) /\ Cardinality(s \ {Any(s)}) = n
    BY <1>0, <2>1, AnyIsOne, OneLess
  <2>3. g[s \ {Any(s)}] = h[s \ {Any(s)}]
    BY <2>2
  <2>4. g[s] = w[Any(s)] + g[s \ {Any(s)}] /\ h[s] = w[Any(s)] + h[s \ {Any(s)}]
    BY <2>1, Zenon DEF IsSum
  <2> QED BY <2>3, <2>4
<1>3. N = Nat
  <2> HIDE DEF N
  <2>1. N \subseteq Nat
    BY DEF N
  <2> QED BY <1>1, <1>2, <2>1, OneByOne
<1> QED BY <1>0, <1>3

\* What the fold of the library computes.
LEMMA TotalIsSum ==
    ASSUME NEW S, NEW w, Weighed(S, w)
    PROVE  \E g \in [SUBSET S -> Nat] : IsSum(g, S, w) /\ Total(S, w) = g[S]
<1> DEFINE Body(g, s) == IF s = {} THEN 0 ELSE w[CHOOSE x \in s : TRUE] + g[s \ {CHOOSE x \in s : TRUE}]
           it == CHOOSE g : g = [s \in SUBSET S |-> Body(g, s)]
<1>1. Total(S, w) = it[S]
  BY DEF Total, MapThenSumSet, MapThenFoldSet
<1>2. PICK g \in [SUBSET S -> Nat] : IsSum(g, S, w)
  BY SumExists
<1>3. \E f : f = [s \in SUBSET S |-> Body(f, s)]
  BY <1>2 DEF IsSum, Any
<1>4. it = [s \in SUBSET S |-> Body(it, s)]
  BY <1>3
<1>5. IsSum(it, S, w)
  BY <1>4 DEF IsSum, Any
<1> HIDE DEF it
<1>6. \A s \in SUBSET S : it[s] = g[s]
  BY <1>2, <1>5, SumIsOne
<1>7. Total(S, w) = g[S]
  BY <1>1, <1>6
<1> QED BY <1>2, <1>7

LEMMA SumTakes ==
    ASSUME NEW S, NEW w, Weighed(S, w), NEW g \in [SUBSET S -> Nat], IsSum(g, S, w)
    PROVE  \A s \in SUBSET S : \A x \in s : g[s] = w[x] + g[s \ {x}]
<1> DEFINE N == {n \in Nat : \A s \in SUBSET S : \A x \in s :
                                 Cardinality(s) = n => g[s] = w[x] + g[s \ {x}]}
<1>0. IsFiniteSet(S) /\ \A s \in SUBSET S : IsFiniteSet(s) /\ Cardinality(s) \in Nat
  BY FS_Subset, FS_CardinalityType DEF Weighed
<1>1. 0 \in N
  BY <1>0, FS_EmptySet
<1>2. ASSUME NEW n \in N PROVE n + 1 \in N
  <2> SUFFICES ASSUME NEW s \in SUBSET S, NEW x \in s, Cardinality(s) = n + 1
               PROVE  g[s] = w[x] + g[s \ {x}]
    OBVIOUS
  <2> DEFINE c == Any(s)
  <2>1. c \in s
    BY AnyIsOne
  <2>2. g[s] = w[c] + g[s \ {c}]
    BY Zenon DEF IsSum
  <2>3. CASE x = c
    BY <2>2, <2>3
  <2>4. CASE x # c
    <3> HIDE DEF c
    <3>1. /\ s \ {c} \in SUBSET S /\ Cardinality(s \ {c}) = n
          /\ s \ {x} \in SUBSET S /\ Cardinality(s \ {x}) = n
      BY <1>0, <2>1, OneLess
    <3>2. g[s \ {c}] = w[x] + g[(s \ {c}) \ {x}]
      BY <2>4, <3>1
    <3>3. g[s \ {x}] = w[c] + g[(s \ {x}) \ {c}]
      BY <2>1, <2>4, <3>1
    <3>4. (s \ {c}) \ {x} = (s \ {x}) \ {c} /\ (s \ {c}) \ {x} \in SUBSET S
      OBVIOUS
    <3>5. w[x] \in Nat /\ w[c] \in Nat /\ g[(s \ {c}) \ {x}] \in Nat
      BY <2>1, <3>4 DEF Weighed
    <3>6. g[(s \ {c}) \ {x}] = g[(s \ {x}) \ {c}]
      BY <3>4
    <3> QED BY <2>2, <3>2, <3>3, <3>5, <3>6
  <2> QED BY <2>3, <2>4
<1>3. N = Nat
  <2> HIDE DEF N
  <2>1. N \subseteq Nat
    BY DEF N
  <2> QED BY <1>1, <1>2, <2>1, OneByOne
<1>4. SUFFICES ASSUME NEW s \in SUBSET S, NEW x \in s
               PROVE  g[s] = w[x] + g[s \ {x}]
  BY Zenon
<1>5. Cardinality(s) \in N
  <2> HIDE DEF N
  <2> QED BY <1>0, <1>3
<1> QED BY <1>5

\* Nothing weighs nothing; the total is a number, and that of a set is the weight of
\* any member and the total of the others.
LEMMA TotalOfNone ==
    ASSUME NEW w
    PROVE  Total({}, w) = 0
<1>1. Weighed({}, w)
  BY FS_EmptySet DEF Weighed
<1>2. PICK g \in [SUBSET {} -> Nat] : IsSum(g, {}, w) /\ Total({}, w) = g[{}]
  BY <1>1, TotalIsSum
<1>3. {} \in SUBSET {}
  OBVIOUS
<1>4. g[{}] = 0
  BY <1>2, <1>3, Zenon DEF IsSum
<1> QED BY <1>2, <1>4

LEMMA TotalIsNumber ==
    ASSUME NEW S, NEW w, Weighed(S, w)
    PROVE  Total(S, w) \in Nat
<1>1. PICK g \in [SUBSET S -> Nat] : IsSum(g, S, w) /\ Total(S, w) = g[S]
  BY TotalIsSum
<1> QED BY <1>1

LEMMA TotalTakes ==
    ASSUME NEW S, NEW w, Weighed(S, w), NEW x \in S
    PROVE  Weighed(S \ {x}, w) /\ Total(S, w) = w[x] + Total(S \ {x}, w)
<1>1. Weighed(S \ {x}, w)
  BY FS_RemoveElement DEF Weighed
<1>2. PICK g \in [SUBSET S -> Nat] : IsSum(g, S, w) /\ Total(S, w) = g[S]
  BY TotalIsSum
<1>3. PICK h \in [SUBSET (S \ {x}) -> Nat] :
          IsSum(h, S \ {x}, w) /\ Total(S \ {x}, w) = h[S \ {x}]
  BY <1>1, TotalIsSum
<1>4. \A s \in (SUBSET S) \cap (SUBSET (S \ {x})) : g[s] = h[s]
  BY <1>2, <1>3, SumIsOne
<1>5. g[S \ {x}] = h[S \ {x}]
  BY <1>4
<1>6. S \in SUBSET S
  OBVIOUS
<1>7. g[S] = w[x] + g[S \ {x}]
  BY <1>2, <1>6, SumTakes
<1> QED BY <1>1, <1>2, <1>3, <1>5, <1>7

\* More weigh no less.
LEMMA TotalGrows ==
    ASSUME NEW S, NEW w, Weighed(S, w), NEW T \in SUBSET S
    PROVE  Weighed(T, w) /\ Total(T, w) =< Total(S, w)
<1> DEFINE N == {n \in Nat : \A U \in SUBSET S :
                     Cardinality(U) = n /\ T \subseteq U => Total(T, w) =< Total(U, w)}
<1>0. /\ IsFiniteSet(S)
      /\ \A s \in SUBSET S : IsFiniteSet(s) /\ Cardinality(s) \in Nat /\ Weighed(s, w)
  BY FS_Subset, FS_CardinalityType DEF Weighed
<1>1. 0 \in N
  <2>1. ASSUME NEW U \in SUBSET S, Cardinality(U) = 0, T \subseteq U
        PROVE  Total(T, w) =< Total(U, w)
    <3>1. U = {} /\ T = {}
      BY <1>0, <2>1, FS_EmptySet
    <3> QED BY <3>1, TotalOfNone
  <2> QED BY <2>1
<1>2. ASSUME NEW n \in N PROVE n + 1 \in N
  <2> SUFFICES ASSUME NEW U \in SUBSET S, Cardinality(U) = n + 1, T \subseteq U
               PROVE  Total(T, w) =< Total(U, w)
    OBVIOUS
  <2>1. CASE T = U
    BY <1>0, <2>1, TotalIsNumber
  <2>2. CASE T # U
    <3>1. PICK x \in U : x \notin T
      BY <2>2
    <3>2. U \ {x} \in SUBSET S /\ Cardinality(U \ {x}) = n /\ T \subseteq U \ {x}
      <4>1. Cardinality(U \ {x}) = Cardinality(U) - 1
        BY <1>0, <3>1, FS_RemoveElement
      <4> QED BY <3>1, <4>1
    <3>3. Total(T, w) =< Total(U \ {x}, w)
      BY <3>2
    <3>4. Total(U, w) = w[x] + Total(U \ {x}, w)
      BY <1>0, TotalTakes
    <3>5. w[x] \in Nat /\ Total(U \ {x}, w) \in Nat /\ Total(T, w) \in Nat
      BY <1>0, <3>2, TotalIsNumber DEF Weighed
    <3> QED BY <3>3, <3>4, <3>5
  <2> QED BY <2>1, <2>2
<1>3. N = Nat
  <2> HIDE DEF N
  <2>1. N \subseteq Nat
    BY DEF N
  <2> QED BY <1>1, <1>2, <2>1, OneByOne
<1>4. Cardinality(S) \in Nat /\ S \in SUBSET S
  BY <1>0
<1> QED BY <1>0, <1>3, <1>4

-----------------------------------------------------------------------------
Place(listed, r) == Cardinality({older \in listed : older < r})

\* As many runs as there are places, each in a place of its own.
LEMMA PlacesAreTaken ==
    ASSUME NEW listed \in SUBSET Nat, IsFiniteSet(listed)
    PROVE  /\ Cardinality(listed) \in Nat
           /\ \A r \in listed : Place(listed, r) \in 0..Cardinality(listed) - 1
           /\ \A r, s \in listed : r < s => Place(listed, r) < Place(listed, s)
           /\ \A n \in 0..Cardinality(listed) - 1 : \E r \in listed : Place(listed, r) = n
<1> DEFINE Older(r) == {older \in listed : older < r}
           count == Cardinality(listed)
<1>0. count \in Nat /\ \A r : IsFiniteSet(Older(r)) /\ Cardinality(Older(r)) \in Nat
  BY FS_Subset, FS_CardinalityType
<1>1. ASSUME NEW r \in listed
      PROVE  Place(listed, r) \in 0..count - 1
  <2>1. Older(r) \subseteq listed /\ r \notin Older(r)
    OBVIOUS
  <2>2. Older(r) # listed
    BY <2>1
  <2>3. Cardinality(Older(r)) =< count /\ Cardinality(Older(r)) # count
    BY <2>1, <2>2, FS_Subset
  <2> QED BY <1>0, <2>3 DEF Place
<1>2. ASSUME NEW r \in listed, NEW s \in listed, r < s
      PROVE  Place(listed, r) < Place(listed, s)
  <2>1. Older(r) \subseteq Older(s) /\ r \in Older(s) /\ r \notin Older(r)
    <3>1. r \in Nat /\ s \in Nat /\ listed \subseteq Nat
      OBVIOUS
    <3>2. \A x \in Nat : x < r => x < s
      BY <1>2, <3>1
    <3>3. Older(r) \subseteq Older(s)
      BY <3>1, <3>2
    <3>4. ~ (r < r)
      BY <3>1
    <3>5. r \in Older(s) /\ r \notin Older(r)
      BY <1>2, <3>4
    <3> QED BY <3>3, <3>5
  <2>2. Older(r) # Older(s)
    BY <2>1
  <2>3. Cardinality(Older(r)) =< Cardinality(Older(s)) /\ Cardinality(Older(r)) # Cardinality(Older(s))
    BY <1>0, <2>1, <2>2, FS_Subset
  <2> QED BY <1>0, <2>3 DEF Place
<1> DEFINE f == [r \in listed |-> Place(listed, r)]
<1>3. f \in Injection(listed, 0..count - 1)
  <2>1. f \in [listed -> 0..count - 1]
    BY <1>1
  <2>2. \A r, s \in listed : f[r] = f[s] => r = s
    BY <1>1, <1>2
  <2> HIDE DEF f
  <2> QED BY <2>1, <2>2 DEF Injection, IsInjective
<1>4. IsFiniteSet(0..count - 1) /\ Cardinality(0..count - 1) = count
  <2>1. 0 \in Int /\ count - 1 \in Int
    BY <1>0
  <2> HIDE DEF count
  <2>2. IsFiniteSet(0..count - 1) /\ Cardinality(0..count - 1) = IF 0 > count - 1 THEN 0 ELSE count - 1 - 0 + 1
    BY <2>1, FS_Interval
  <2> QED BY <1>0, <2>2 DEF count
<1>5. f \in Surjection(listed, 0..count - 1)
  <2> HIDE DEF f, count
  <2>1. Cardinality(listed) = Cardinality(0..count - 1)
    BY <1>4 DEF count
  <2> QED BY <1>3, <1>4, <2>1, FS_Injection
<1>6. \A n \in 0..count - 1 : \E r \in listed : Place(listed, r) = n
  BY <1>5 DEF Surjection
<1> QED BY <1>0, <1>1, <1>2, <1>6

\* Each run has one number in the order, and the order is that of the names.
LEMMA OrderOfRuns ==
    ASSUME NEW listed \in SUBSET Nat, IsFiniteSet(listed)
    PROVE  /\ Cardinality(listed) \in Nat
           /\ \A n \in 1..Cardinality(listed) : InOrder(listed)[n] \in listed
           /\ \A m, n \in 1..Cardinality(listed) : m < n => InOrder(listed)[m] < InOrder(listed)[n]
           /\ \A r \in listed : \E n \in 1..Cardinality(listed) : InOrder(listed)[n] = r
<1> DEFINE count == Cardinality(listed)
<1>1. /\ count \in Nat
      /\ \A r \in listed : Place(listed, r) \in 0..count - 1
      /\ \A r, s \in listed : r < s => Place(listed, r) < Place(listed, s)
      /\ \A n \in 0..count - 1 : \E r \in listed : Place(listed, r) = n
  BY PlacesAreTaken
<1>2. ASSUME NEW n \in 1..count
      PROVE  InOrder(listed)[n] \in listed /\ Place(listed, InOrder(listed)[n]) = n - 1
  <2>1. InOrder(listed)[n] = CHOOSE r \in listed : Place(listed, r) = n - 1
    BY DEF InOrder, Place
  <2>2. n - 1 \in 0..count - 1
    BY <1>1
  <2>3. \E r \in listed : Place(listed, r) = n - 1
    BY <1>1, <2>2
  <2> QED BY <2>1, <2>3
<1>3. ASSUME NEW r \in listed, NEW s \in listed, Place(listed, r) =< Place(listed, s)
      PROVE  r =< s
  BY <1>1, <1>3
<1>4. ASSUME NEW m \in 1..count, NEW n \in 1..count, m < n
      PROVE  InOrder(listed)[m] < InOrder(listed)[n]
  <2> DEFINE r == InOrder(listed)[m]
             s == InOrder(listed)[n]
  <2>1. r \in listed /\ s \in listed /\ Place(listed, r) = m - 1 /\ Place(listed, s) = n - 1
    BY <1>2
  <2> HIDE DEF r, s
  <2>2. r =< s /\ r # s
    BY <1>1, <1>3, <1>4, <2>1
  <2>3. r \in Nat /\ s \in Nat
    BY <2>1
  <2>4. r < s
    BY <2>2, <2>3
  <2> QED BY <2>4 DEF r, s
<1>5. ASSUME NEW r \in listed
      PROVE  \E n \in 1..count : InOrder(listed)[n] = r
  <2>1. Place(listed, r) + 1 \in 1..count
    BY <1>1
  <2> DEFINE s == InOrder(listed)[Place(listed, r) + 1]
  <2>2. s \in listed /\ Place(listed, s) = Place(listed, r)
    BY <1>1, <1>2, <2>1
  <2>3. s = r
    <3> HIDE DEF s
    <3>1. s \in Nat /\ r \in Nat
      BY <2>2
    <3> QED BY <1>1, <1>3, <2>2, <3>1
  <2> QED BY <2>1, <2>3
<1> QED BY <1>1, <1>2, <1>4, <1>5

\* The runs from the nth of the order on, the first of them taken away one by one.
Rest(listed, k) == {InOrder(listed)[j] : j \in k+1..Cardinality(listed)}

LEMMA RestOfRuns ==
    ASSUME NEW listed \in SUBSET Nat, IsFiniteSet(listed)
    PROVE  /\ Rest(listed, 0) = listed
           /\ \A k \in 1..Cardinality(listed) :
                 /\ InOrder(listed)[k] \in Rest(listed, k - 1)
                 /\ Rest(listed, k) = Rest(listed, k - 1) \ {InOrder(listed)[k]}
                 /\ Rest(listed, k - 1) = {t \in listed : t >= InOrder(listed)[k]}
           /\ \A k, l \in 0..Cardinality(listed) : k =< l => Rest(listed, l) \subseteq Rest(listed, k)
           /\ \A k \in 0..Cardinality(listed) : Rest(listed, k) \in SUBSET listed
<1> DEFINE count == Cardinality(listed)
           order == InOrder(listed)
<1>1. /\ count \in Nat
      /\ \A n \in 1..count : order[n] \in listed
      /\ \A m, n \in 1..count : m < n => order[m] < order[n]
      /\ \A r \in listed : \E n \in 1..count : order[n] = r
  BY OrderOfRuns
<1>2. \A k \in Nat : Rest(listed, k) = {order[j] : j \in k+1..count}
  BY DEF Rest
<1> HIDE DEF count, order
<1>3. listed \subseteq Nat
  OBVIOUS
<1>4. Rest(listed, 0) = listed
  <2>1. Rest(listed, 0) = {order[j] : j \in 1..count}
    BY <1>2
  <2>2. \A r \in listed : r \in {order[j] : j \in 1..count}
    BY <1>1
  <2> QED BY <1>1, <2>1, <2>2
<1>5. ASSUME NEW k \in 1..count
      PROVE  /\ order[k] \in Rest(listed, k - 1)
             /\ Rest(listed, k) = Rest(listed, k - 1) \ {order[k]}
             /\ Rest(listed, k - 1) = {t \in listed : t >= order[k]}
  <2>1. Rest(listed, k - 1) = {order[j] : j \in k..count} /\ Rest(listed, k) = {order[j] : j \in k+1..count}
    BY <1>1, <1>2
  <2>2. order[k] \in Rest(listed, k - 1)
    BY <1>1, <2>1
  <2>3. \A j \in k+1..count : order[j] # order[k] /\ order[j] \in listed /\ order[j] >= order[k]
    <3> SUFFICES ASSUME NEW j \in k+1..count
                 PROVE  order[j] # order[k] /\ order[j] \in listed /\ order[j] >= order[k]
      OBVIOUS
    <3>1. j \in 1..count /\ k < j
      BY <1>1
    <3>2. order[k] < order[j] /\ order[j] \in Nat /\ order[k] \in Nat /\ order[j] \in listed
      BY <1>1, <1>3, <3>1
    <3> QED BY <3>2
  <2>4. Rest(listed, k) = Rest(listed, k - 1) \ {order[k]}
    BY <1>1, <2>1, <2>3
  <2>5. ASSUME NEW t \in listed, t >= order[k]
        PROVE  t \in Rest(listed, k - 1)
    <3>1. PICK n \in 1..count : order[n] = t
      BY <1>1
    <3>2. ~ (n < k)
      <4>1. n < k => order[n] < order[k]
        BY <1>1
      <4>2. order[n] \in Nat /\ order[k] \in Nat
        BY <1>1, <1>3
      <4> QED BY <2>5, <3>1, <4>1, <4>2
    <3> QED BY <1>1, <2>1, <3>1, <3>2
  <2>6. \A t \in Rest(listed, k - 1) : t \in listed /\ t >= order[k]
    <3> SUFFICES ASSUME NEW j \in k..count
                 PROVE  order[j] \in listed /\ order[j] >= order[k]
      BY <2>1
    <3>1. j = k \/ j \in k+1..count
      BY <1>1
    <3>2. order[k] \in listed /\ order[k] \in Nat
      BY <1>1, <1>3
    <3> QED BY <2>3, <3>1, <3>2
  <2> QED BY <2>2, <2>4, <2>5, <2>6
<1>6. \A k, l \in 0..count : k =< l => Rest(listed, l) \subseteq Rest(listed, k)
  BY <1>1, <1>2
<1>7. \A k \in 0..count : Rest(listed, k) \in SUBSET listed
  BY <1>1, <1>2
<1> QED BY <1>4, <1>5, <1>6, <1>7 DEF count, order

\* What the loop has left after k victims.
LeftOf(listed, size, left) ==
    left = [k \in 0..Cardinality(listed) |->
               IF k = 0 THEN Total(listed, size) ELSE left[k - 1] - size[InOrder(listed)[k]]]

LEMMA LeftIsTotal ==
    ASSUME NEW listed \in SUBSET Nat, NEW size, Weighed(listed, size)
    PROVE  /\ \E left : LeftOf(listed, size, left)
           /\ \A left : LeftOf(listed, size, left) =>
                 \A k \in 0..Cardinality(listed) : left[k] = Total(Rest(listed, k), size)
<1> DEFINE count == Cardinality(listed)
           order == InOrder(listed)
           Tot(k) == Total(Rest(listed, k), size)
<1>1. IsFiniteSet(listed) /\ count \in Nat
  BY FS_CardinalityType DEF Weighed
<1>2. /\ Rest(listed, 0) = listed
      /\ \A k \in 1..count : order[k] \in Rest(listed, k - 1) /\ Rest(listed, k) = Rest(listed, k - 1) \ {order[k]}
      /\ \A k \in 0..count : Rest(listed, k) \in SUBSET listed
  BY <1>1, RestOfRuns
<1>3. ASSUME NEW k \in 1..count
      PROVE  Tot(k) = Tot(k - 1) - size[order[k]]
  <2>1. k - 1 \in 0..count /\ k \in 0..count
    BY <1>1
  <2>2. Weighed(Rest(listed, k - 1), size) /\ Weighed(Rest(listed, k), size)
    BY <1>2, <2>1, TotalGrows
  <2>3. Total(Rest(listed, k - 1), size) = size[order[k]] + Total(Rest(listed, k - 1) \ {order[k]}, size)
    <3> HIDE DEF order
    <3> QED BY <1>2, <2>2, TotalTakes
  <2>4. Tot(k - 1) = size[order[k]] + Tot(k)
    BY <1>2, <2>3
  <2>5. order[k] \in listed
    BY <1>2, <2>1
  <2>6. Tot(k) \in Nat /\ size[order[k]] \in Nat
    BY <2>2, <2>5, TotalIsNumber DEF Weighed
  <2> HIDE DEF Tot, order
  <2> QED BY <2>4, <2>6
<1>4. \E left : LeftOf(listed, size, left)
  <2> DEFINE left == [k \in 0..count |-> Tot(k)]
  <2>1. \A k \in 0..count : left[k] = IF k = 0 THEN Total(listed, size) ELSE left[k - 1] - size[order[k]]
    <3> SUFFICES ASSUME NEW k \in 0..count
                 PROVE  left[k] = IF k = 0 THEN Total(listed, size) ELSE left[k - 1] - size[order[k]]
      OBVIOUS
    <3>1. CASE k = 0
      BY <1>2, <3>1
    <3>2. CASE k # 0
      <4>1. k \in 1..count /\ k - 1 \in 0..count
        BY <1>1, <3>2
      <4>2. Tot(k) = Tot(k - 1) - size[order[k]]
        BY <1>3, <4>1
      <4> HIDE DEF Tot, order
      <4>3. left[k] = Tot(k) /\ left[k - 1] = Tot(k - 1)
        BY <4>1
      <4> HIDE DEF left
      <4> QED BY <3>2, <4>2, <4>3
    <3> QED BY <3>1, <3>2
  <2>2. left = [k \in 0..count |-> left[k]]
    OBVIOUS
  <2> HIDE DEF left
  <2>3. left = [k \in 0..count |->
                   IF k = 0 THEN Total(listed, size) ELSE left[k - 1] - size[order[k]]]
    BY <2>1, <2>2
  <2> QED BY <2>3 DEF LeftOf
<1>5. ASSUME NEW left, LeftOf(listed, size, left)
      PROVE  \A k \in 0..count : left[k] = Tot(k)
  <2> DEFINE N == {n \in Nat : n \in 0..count => left[n] = Tot(n)}
  <2>1. /\ left[0] = Total(listed, size)
        /\ \A k \in 1..count : left[k] = left[k - 1] - size[order[k]]
    <3>1. /\ 0 \in 0..count
          /\ \A k \in 1..count : k \in 0..count /\ k # 0
      BY <1>1
    <3>2. \A k \in 0..count : left[k] = IF k = 0 THEN Total(listed, size) ELSE left[k - 1] - size[order[k]]
      BY <1>5, Zenon DEF LeftOf
    <3> HIDE DEF order, count
    <3> QED BY <3>1, <3>2
  <2>2. 0 \in N
    BY <1>2, <2>1
  <2>3. ASSUME NEW n \in N PROVE n + 1 \in N
    <3> SUFFICES ASSUME n + 1 \in 0..count
                 PROVE  left[n + 1] = Tot(n + 1)
      OBVIOUS
    <3>1. n + 1 \in 1..count /\ n \in 0..count /\ (n + 1) - 1 = n
      BY <1>1
    <3>2. left[n] = Tot(n)
      BY <3>1
    <3>3. left[n + 1] = left[n] - size[order[n + 1]]
      BY <2>1, <3>1
    <3>4. Tot(n + 1) = Tot(n) - size[order[n + 1]]
      BY <1>3, <3>1
    <3> HIDE DEF Tot
    <3> QED BY <3>2, <3>3, <3>4
  <2>4. N = Nat
    <3> HIDE DEF N
    <3>1. N \subseteq Nat
      BY DEF N
    <3> QED BY <2>2, <2>3, <3>1, OneByOne
  <2>5. ASSUME NEW k \in 0..count
        PROVE  left[k] = Tot(k)
    <3>1. k \in N
      <4> HIDE DEF N
      <4> QED BY <1>1, <2>4
    <3> QED BY <3>1
  <2> QED BY <2>5
<1> QED BY <1>4, <1>5

\* Rule 2, run by run: those from which on the cap is exceeded.
LEMMA OversizeIs ==
    ASSUME NEW listed \in SUBSET Nat, NEW size, Weighed(listed, size), NEW cap \in Nat
    PROVE  Oversize(listed, size, cap) =
               {r \in listed : cap > 0 /\ Total({t \in listed : t >= r}, size) > cap}
<1> DEFINE count == Cardinality(listed)
           order == InOrder(listed)
           left  == CHOOSE left : LeftOf(listed, size, left)
           fits  == {k \in 0..count : left[k] <= cap \/ k = count}
           m     == Min(fits)
           over(r) == Total({t \in listed : t >= r}, size) > cap
<1>0. IsFiniteSet(listed) /\ count \in Nat
  BY FS_CardinalityType DEF Weighed
<1>1. Oversize(listed, size, cap) = IF cap = 0 THEN {} ELSE {order[i] : i \in 1..m}
  BY DEF Oversize, LeftOf
<1>2. \A k \in 0..count : left[k] = Total(Rest(listed, k), size)
  BY LeftIsTotal
<1>3. m \in 0..count /\ (left[m] <= cap \/ m = count)
      /\ \A k \in 0..count : k < m => ~ (left[k] <= cap) /\ k # count
  <2>1. fits \in SUBSET Nat /\ count \in fits
    BY <1>0
  <2> HIDE DEF fits
  <2>2. m \in fits /\ \A k \in fits : m =< k
    BY <2>1, LeastNumber DEF Min
  <2>3. m \in Nat /\ \A k \in Nat : k < m => ~ (m =< k)
    <3> HIDE DEF m
    <3>1. m \in Nat
      BY <2>1, <2>2
    <3> QED BY <3>1
  <2> HIDE DEF m, left
  <2>4. \A k \in 0..count : k < m => k \notin fits
    BY <2>2, <2>3, <1>0
  <2> QED BY <2>2, <2>4 DEF fits
<1> HIDE DEF m, left, order
<1>4. /\ \A n \in 1..count : order[n] \in listed
      /\ \A r \in listed : \E n \in 1..count : order[n] = r
      /\ \A k \in 1..count : Rest(listed, k - 1) = {t \in listed : t >= order[k]}
      /\ \A k, l \in 0..count : k =< l => Rest(listed, l) \subseteq Rest(listed, k)
      /\ \A k \in 0..count : Rest(listed, k) \in SUBSET listed
  BY <1>0, OrderOfRuns, RestOfRuns DEF order
<1> HIDE DEF count
<1>5. \A k \in 0..count : Weighed(Rest(listed, k), size) /\ Total(Rest(listed, k), size) \in Nat
  <2> SUFFICES ASSUME NEW k \in 0..count
               PROVE  Weighed(Rest(listed, k), size) /\ Total(Rest(listed, k), size) \in Nat
    OBVIOUS
  <2>1. Weighed(Rest(listed, k), size)
    BY <1>4, TotalGrows
  <2> QED BY <2>1, TotalIsNumber
<1>6. ASSUME NEW i \in 1..count
      PROVE  i =< m <=> over(order[i])
  <2>1. i - 1 \in 0..count /\ i \in 0..count /\ (i - 1 < m <=> i =< m)
    BY <1>0, <1>3
  <2>2. over(order[i]) <=> Total(Rest(listed, i - 1), size) > cap
    BY <1>4
  <2>3. Total(Rest(listed, i - 1), size) \in Nat /\ left[i - 1] = Total(Rest(listed, i - 1), size)
    BY <1>2, <1>5, <2>1
  <2>4. i =< m => Total(Rest(listed, i - 1), size) > cap
    BY <1>3, <2>1, <2>3
  <2>5. CASE ~ (i =< m)
    <3>1. m =< i - 1 /\ m # count
      BY <1>0, <1>3, <2>1, <2>5
    <3>2. left[m] <= cap /\ left[m] = Total(Rest(listed, m), size) /\ Total(Rest(listed, m), size) \in Nat
      BY <1>2, <1>3, <1>5, <3>1
    <3>3. Rest(listed, i - 1) \in SUBSET Rest(listed, m)
      BY <1>3, <1>4, <2>1, <3>1
    <3>4. Total(Rest(listed, i - 1), size) =< Total(Rest(listed, m), size)
      BY <1>3, <1>5, <3>3, TotalGrows
    <3>5. ~ (Total(Rest(listed, i - 1), size) > cap)
      BY <2>3, <3>2, <3>4
    <3> QED BY <2>2, <2>5, <3>5
  <2> QED BY <2>2, <2>4, <2>5
<1> HIDE DEF over
<1>7. {order[i] : i \in 1..m} = {r \in listed : over(r)}
  <2>1. \A i \in 1..m : i \in 1..count /\ i =< m
    BY <1>0, <1>3
  <2>2. \A i \in 1..count : i =< m => i \in 1..m
    BY <1>3
  <2>3. ASSUME NEW r \in listed, over(r)
        PROVE  r \in {order[i] : i \in 1..m}
    <3>1. PICK i \in 1..count : order[i] = r
      BY <1>4
    <3> QED BY <1>6, <2>2, <2>3, <3>1
  <2>4. \A i \in 1..m : order[i] \in listed /\ over(order[i])
    BY <1>4, <1>6, <2>1
  <2> QED BY <2>3, <2>4
<1>8. Oversize(listed, size, cap) = {r \in listed : cap > 0 /\ over(r)}
  BY <1>1, <1>7
<1> QED BY <1>8 DEF over

\* pick_snapshots_to_prune picks exactly the runs the two rules do not spare.
THEOREM PicksWhatIsNotSpared ==
    ASSUME NEW listed \in SUBSET Nat, NEW size, Weighed(listed, size),
           NEW days \in Nat, NEW cap \in Nat, NEW clock \in Nat
    PROVE  PickSnapshotsToPrune(listed, size, days, cap, clock)
               = listed \ Spared(listed, size, days, cap, clock)
<1> DEFINE aged  == Aged(listed, days, clock)
           young == listed \ aged
           tot(r) == Total({t \in young : t >= r}, size)
<1>1. young \in SUBSET listed /\ aged \in SUBSET listed
  BY DEF Aged
<1>2. Weighed(young, size)
  BY <1>1, TotalGrows
<1>3. Oversize(young, size, cap) = {r \in young : cap > 0 /\ tot(r) > cap}
  BY <1>1, <1>2, OversizeIs
<1>4. ASSUME NEW r \in young
      PROVE  tot(r) \in Nat
  <2>1. {t \in young : t >= r} \in SUBSET young
    OBVIOUS
  <2>2. Weighed({t \in young : t >= r}, size)
    BY <1>2, <2>1, TotalGrows
  <2> QED BY <2>2, TotalIsNumber
<1>5. PickSnapshotsToPrune(listed, size, days, cap, clock) = aged \cup {r \in young : cap > 0 /\ tot(r) > cap}
  BY <1>3 DEF PickSnapshotsToPrune
<1>6. Spared(listed, size, days, cap, clock) = {r \in young : cap > 0 => tot(r) <= cap}
  BY DEF Spared
<1> HIDE DEF tot
<1>7. \A r \in young : cap > 0 /\ tot(r) > cap <=> ~ (cap > 0 => tot(r) <= cap)
  BY <1>4
<1> HIDE DEF young
<1>8. listed \ Spared(listed, size, days, cap, clock)
          = (listed \ young) \cup {r \in young : cap > 0 /\ tot(r) > cap}
  BY <1>1, <1>6, <1>7
<1>9. listed \ young = aged
  BY <1>1 DEF young
<1> QED BY <1>5, <1>8, <1>9

-----------------------------------------------------------------------------
(***************************************************************************)
(* The history.  A second that counts one commit has nothing older to keep *)
(* when that commit comes, and nothing touches its run afterwards.         *)
(***************************************************************************)

Halved(run) == run = [full |-> run.full, delta |-> run.delta]

\* What the argument needs of the state: what was replaced is counted.
CommitsCounted ==
    /\ now \in 0..MaxTime
    /\ commits \in [0..MaxTime -> Nat]
    /\ \A r \in DOMAIN runs : Halved(runs[r])
    /\ \A lost \in replaced :
           lost[1] \in 0..MaxTime /\ lost[2] \in Paths /\ commits[lost[1]] > 0

KeptInvariant == CommitsCounted /\ ReplacedAreKept

\* What a commit keeps has the two halves, and in one of them, at its path, what the
\* commit replaces.
LEMMA ChangeIsKept ==
    ASSUME CommitsCounted, NEW change
    PROVE  /\ Halved(KeptBy(DefaultPolicy, change))
           /\ \A p \in DOMAIN change \cap Paths : live[p] # NoFile =>
                  live[p] \in {KeptBy(DefaultPolicy, change).full[p],
                               KeptBy(DefaultPolicy, change).delta[p]}
<1> DEFINE kept == KeptBy(DefaultPolicy, change)
           here == RunAt(now)
           late == [p \in Paths |-> IF p \in DOMAIN change THEN live[p] ELSE NoFile]
<1>1. Halved(here)
  BY DEF CommitsCounted, RunAt, Halved
<1>2. kept = IF fileBased THEN SnapshotFull(here) ELSE KeepPrevious(here, change)
  BY DEF KeptBy, DefaultPolicy
<1>3. CASE fileBased
  <2>1. kept = [full |-> Over(here.full, live), delta |-> here.delta]
    BY <1>1, <1>2, <1>3 DEF SnapshotFull, Halved
  <2>2. \A p \in Paths : live[p] # NoFile => Over(here.full, live)[p] = live[p]
    BY DEF Over
  <2> QED BY <2>1, <2>2 DEF Halved
<1>4. CASE ~ fileBased
  <2>1. kept = [full |-> here.full, delta |-> Over(here.delta, late)]
    BY <1>1, <1>2, <1>4 DEF KeepPrevious, Halved
  <2>2. \A p \in DOMAIN change \cap Paths : live[p] # NoFile => Over(here.delta, late)[p] = live[p]
    BY DEF Over
  <2> QED BY <2>1, <2>2 DEF Halved
<1> QED BY <1>3, <1>4

\* Only the run of this second changes, and it may go.
LEMMA OtherRuns ==
    ASSUME NEW run, NEW gone, runs' = Purged(WithRun(run), gone)
    PROVE  /\ \A r \in DOMAIN runs' : r \in DOMAIN runs \/ r = now
           /\ \A r \in DOMAIN runs' : runs'[r] = IF r = now THEN run ELSE runs[r]
  BY DEF Purged, WithRun

\* A commit that stops prunes nothing.
LEMMA StopsPurgeNothing ==
    ASSUME NEW change, CommitStops(change)
    PROVE  runs' = Purged(WithRun(KeptBy(DefaultPolicy, change)), {})
  BY DEF CommitStops, WithRun, Purged

\* A commit, as far as it gets.
LEMMA WritingKeepsRuns ==
    ASSUME KeptInvariant, NEW change \in Changes, NEW written \in SUBSET DOMAIN change,
           Writing(change, written),
           NEW gone, runs' = Purged(WithRun(KeptBy(DefaultPolicy, change)), gone)
    PROVE  KeptInvariant'
<1> DEFINE run == KeptBy(DefaultPolicy, change)
<1>1. /\ now' = now
      /\ commits' = [commits EXCEPT ![now] = @ + 1]
      /\ replaced' = replaced \cup
             {<<now, p, live[p]>> : p \in {q \in written : live[q] # NoFile}}
  BY DEF Writing
<1>2. /\ \A r \in DOMAIN runs' : r \in DOMAIN runs \/ r = now
      /\ \A r \in DOMAIN runs' : runs'[r] = IF r = now THEN run ELSE runs[r]
  BY OtherRuns
<1>3. CommitsCounted
  BY DEF KeptInvariant
<1>4. commits' \in [0..MaxTime -> Nat] /\ \A t \in 0..MaxTime : commits'[t] >= commits[t]
  BY <1>1, <1>3 DEF CommitsCounted
<1>5. commits'[now] = commits[now] + 1 /\ commits[now] \in Nat
      /\ \A t \in 0..MaxTime : t # now => commits'[t] = commits[t]
  BY <1>1, <1>3 DEF CommitsCounted
<1>6. DOMAIN change \subseteq Paths
  BY DEF Changes
<1>7. ASSUME NEW lost \in replaced', lost \notin replaced
      PROVE  lost[1] = now /\ lost[2] \in DOMAIN change /\ lost[3] = live[lost[2]]
             /\ live[lost[2]] # NoFile
  BY <1>1, <1>7
<1>8. CommitsCounted'
  <2>1. \A r \in DOMAIN runs' : Halved(runs'[r])
    BY <1>2, <1>3, ChangeIsKept DEF CommitsCounted
  <2>2. ASSUME NEW lost \in replaced'
        PROVE  lost[1] \in 0..MaxTime /\ lost[2] \in Paths /\ commits'[lost[1]] > 0
    <3>1. CASE lost \in replaced
      BY <1>3, <1>4, <3>1 DEF CommitsCounted
    <3>2. CASE lost \notin replaced
      BY <1>3, <1>5, <1>6, <1>7, <3>2 DEF CommitsCounted
    <3> QED BY <3>1, <3>2
  <2> QED BY <1>1, <1>3, <1>4, <2>1, <2>2 DEF CommitsCounted
<1>9. ASSUME NEW lost \in replaced', lost[1] \in DOMAIN runs', commits'[lost[1]] = 1
       PROVE  lost[3] \in {runs'[lost[1]].full[lost[2]], runs'[lost[1]].delta[lost[2]]}
  <2>1. CASE lost[1] = now
    <3>1. lost \notin replaced
      BY <1>3, <1>5, <1>9, <2>1 DEF CommitsCounted
    <3>2. lost[2] \in DOMAIN change \cap Paths /\ lost[3] = live[lost[2]] /\ live[lost[2]] # NoFile
      BY <1>6, <1>7, <3>1
    <3>3. live[lost[2]] \in {run.full[lost[2]], run.delta[lost[2]]}
      BY <1>3, <3>2, ChangeIsKept
    <3> QED BY <1>2, <1>9, <2>1, <3>2, <3>3
  <2>2. CASE lost[1] # now
    <3>1. lost \in replaced /\ lost[1] \in DOMAIN runs /\ commits[lost[1]] = 1
      BY <1>2, <1>3, <1>5, <1>7, <1>9, <2>2 DEF CommitsCounted
    <3> QED BY <1>2, <1>9, <2>2, <3>1 DEF KeptInvariant, ReplacedAreKept, Keeps, RunAt
  <2> QED BY <2>1, <2>2
<1> QED BY <1>8, <1>9 DEF KeptInvariant, ReplacedAreKept, Keeps, RunAt

LEMMA CommitKeepsRuns ==
    ASSUME KeptInvariant, NEW change \in Changes, Commit(change) \/ CommitStops(change)
    PROVE  KeptInvariant'
<1>1. CASE Commit(change)
  <2>1. PICK gone : runs' = Purged(WithRun(KeptBy(DefaultPolicy, change)), gone)
    BY <1>1 DEF Commit
  <2>2. Writing(change, DOMAIN change)
    BY <1>1 DEF Commit
  <2> QED BY <2>1, <2>2, WritingKeepsRuns
<1>2. CASE CommitStops(change)
  <2>1. PICK written \in SUBSET DOMAIN change : Writing(change, written)
    BY <1>2 DEF CommitStops
  <2> QED BY <1>2, <2>1, StopsPurgeNothing, WritingKeepsRuns
<1> QED BY <1>1, <1>2

\* A refused commit leaves files behind in a run that keeps nothing yet, or makes the
\* second one with several.
LEMMA RefusedKeepsRuns ==
    ASSUME KeptInvariant, CommitRefused
    PROVE  KeptInvariant'
<1>1. /\ UNCHANGED <<now, replaced>>
      /\ commits' = [commits EXCEPT ![now] = IF @ = 0 THEN 0 ELSE @ + 1]
  BY DEF CommitRefused
<1>2. PICK moved : runs' = WithRun(IF DefaultPolicy.full
                                   THEN [RunAt(now) EXCEPT !.full = Over(@, moved)]
                                   ELSE [RunAt(now) EXCEPT !.delta = Over(@, moved)])
  BY DEF CommitRefused
<1> DEFINE run == IF DefaultPolicy.full THEN [RunAt(now) EXCEPT !.full = Over(@, moved)]
                                        ELSE [RunAt(now) EXCEPT !.delta = Over(@, moved)]
<1>3. /\ \A r \in DOMAIN runs' : r \in DOMAIN runs \/ r = now
      /\ \A r \in DOMAIN runs' : runs'[r] = IF r = now THEN run ELSE runs[r]
  BY <1>2 DEF WithRun
<1>4. CommitsCounted
  BY DEF KeptInvariant
<1>5. Halved(run)
  BY <1>4 DEF CommitsCounted, RunAt, Halved
<1>6. /\ commits' \in [0..MaxTime -> Nat]
      /\ \A t \in 0..MaxTime : commits[t] > 0 => commits'[t] > 0
      /\ \A t \in 0..MaxTime : commits[t] > 0 /\ commits'[t] = 1 => t # now /\ commits[t] = 1
  BY <1>1, <1>4 DEF CommitsCounted
<1>7. CommitsCounted'
  BY <1>1, <1>3, <1>4, <1>5, <1>6 DEF CommitsCounted
<1>8. ASSUME NEW lost \in replaced, lost[1] \in DOMAIN runs', commits'[lost[1]] = 1
      PROVE  lost[3] \in {runs'[lost[1]].full[lost[2]], runs'[lost[1]].delta[lost[2]]}
  <2>1. lost[1] # now /\ commits[lost[1]] = 1
    BY <1>4, <1>6, <1>8 DEF CommitsCounted
  <2> QED BY <1>3, <1>8, <2>1 DEF KeptInvariant, ReplacedAreKept, Keeps, RunAt
<1> QED BY <1>1, <1>7, <1>8 DEF KeptInvariant, ReplacedAreKept, Keeps, RunAt

\* Whatever the constants: a content that a commit wrote over or deleted is in the
\* run of that commit, at its path, wherever the commit stopped, as long as the run
\* exists and no other commit of the same second came after it (api.rs commit,
\* storage.rs apply_to_live).
THEOREM ReplacedStayKept == ServerHistorySpec => []ReplacedAreKept
<1>1. ServerHistoryInit => KeptInvariant
  <2>1. 0 \in 0..MaxTime
    BY ServerHistoryAssumption
  <2> QED BY <2>1 DEF ServerHistoryInit, KeptInvariant, CommitsCounted, ReplacedAreKept
<1>2. KeptInvariant /\ [ServerHistoryNext]_serverHistoryVars => KeptInvariant'
  <2>1. ASSUME KeptInvariant, NEW change \in Changes, Commit(change) \/ CommitStops(change)
        PROVE  KeptInvariant'
    BY <2>1, CommitKeepsRuns
  <2>2. ASSUME KeptInvariant, CommitRefused PROVE KeptInvariant'
    BY <2>2, RefusedKeepsRuns
  <2>3. ASSUME KeptInvariant, UNCHANGED <<runs, replaced, commits>>, now' \in 0..MaxTime
        PROVE  KeptInvariant'
    BY <2>3 DEF KeptInvariant, CommitsCounted, ReplacedAreKept, Keeps, RunAt, NoTree
  <2>4. ASSUME KeptInvariant, NEW asked \in Policies, SetSettings(asked) PROVE KeptInvariant'
    BY <2>3, <2>4 DEF SetSettings, KeptInvariant, CommitsCounted
  <2>5. ASSUME KeptInvariant, PassSecond PROVE KeptInvariant'
    <3>1. now' \in 0..MaxTime
      BY <2>5, ServerHistoryAssumption DEF PassSecond, KeptInvariant, CommitsCounted
    <3> QED BY <2>3, <2>5, <3>1 DEF PassSecond
  <2>6. ASSUME KeptInvariant, UNCHANGED serverHistoryVars PROVE KeptInvariant'
    BY <2>3, <2>6 DEF serverHistoryVars, KeptInvariant, CommitsCounted
  <2> QED BY <2>1, <2>2, <2>4, <2>5, <2>6 DEF ServerHistoryNext
<1>3. KeptInvariant => ReplacedAreKept
  BY DEF KeptInvariant
<1> QED BY <1>1, <1>2, <1>3, PTL DEF ServerHistorySpec

-----------------------------------------------------------------------------
(* What the history is made of, and what a prune takes of it.              *)

Halves == [full : Tree, delta : Tree]

LEMMA OverIsTree ==
    ASSUME NEW old \in Tree, NEW new \in Tree
    PROVE  Over(old, new) \in Tree
BY DEF Tree, Over

LEMMA RunTyped ==
    ASSUME ServerHistoryTypeOK, NEW ts
    PROVE  RunAt(ts) \in Halves
<1>1. NoTree \in Tree
  BY DEF NoTree, Tree
<1> QED BY <1>1 DEF ServerHistoryTypeOK, RunAt, Halves

LEMMA SomeOfLive ==
    ASSUME ServerHistoryTypeOK, NEW some
    PROVE  [p \in Paths |-> IF p \in some THEN live[p] ELSE NoFile] \in Tree
BY DEF ServerHistoryTypeOK, Tree

LEMMA KeptTyped ==
    ASSUME ServerHistoryTypeOK, NEW change
    PROVE  KeptBy(DefaultPolicy, change) \in Halves
<1> DEFINE here == RunAt(now)
           late == [p \in Paths |-> IF p \in DOMAIN change THEN live[p] ELSE NoFile]
<1>1. here \in Halves
  BY RunTyped
<1>2. live \in Tree /\ late \in Tree
  BY SomeOfLive DEF ServerHistoryTypeOK
<1>3. KeptBy(DefaultPolicy, change) = IF fileBased THEN [here EXCEPT !.full = Over(@, live)]
                                      ELSE [here EXCEPT !.delta = Over(@, late)]
  BY DEF KeptBy, DefaultPolicy, SnapshotFull, KeepPrevious
<1>4. here.full \in Tree /\ here.delta \in Tree
  BY <1>1 DEF Halves
<1> HIDE DEF here, late
<1>5. Over(here.full, live) \in Tree /\ Over(here.delta, late) \in Tree
  BY <1>2, <1>4, OverIsTree
<1> QED BY <1>1, <1>3, <1>5 DEF Halves

\* A second has no more commits than there are in all.
LEMMA RoomForOne ==
    ASSUME ServerHistoryTypeOK, Room
    PROVE  commits[now] + 1 \in 0..MaxCommits /\ 0 \in 0..MaxCommits
<1>1. /\ MaxCommits \in Nat /\ MaxTime \in Nat /\ now \in 0..MaxTime
      /\ commits \in [0..MaxTime -> 0..MaxCommits]
  BY ServerHistoryAssumption DEF ServerHistoryTypeOK
<1>2. \A t \in 0..MaxTime : commits[t] \in Nat
  BY <1>1
<1>3. IsFiniteSet(0..MaxTime)
  BY <1>1, FS_Interval
<1>4. Weighed(0..MaxTime, commits)
  BY <1>2, <1>3 DEF Weighed
<1>5. Total(0..MaxTime, commits) < MaxCommits
  BY DEF Room, Total
<1>6. /\ Weighed((0..MaxTime) \ {now}, commits)
      /\ Total(0..MaxTime, commits) = commits[now] + Total((0..MaxTime) \ {now}, commits)
  BY <1>1, <1>4, TotalTakes
<1>7. Total((0..MaxTime) \ {now}, commits) \in Nat
  BY <1>6, TotalIsNumber
<1>8. commits[now] \in Nat
  BY <1>1, <1>2
<1> DEFINE all == Total(0..MaxTime, commits)
           other == Total((0..MaxTime) \ {now}, commits)
           here == commits[now]
<1>9. all = here + other /\ all < MaxCommits
  BY <1>5, <1>6
<1>10. other \in Nat /\ here \in Nat /\ MaxCommits \in Nat
  BY <1>1, <1>7, <1>8
<1> HIDE DEF all, other, here
<1>11. here + 1 \in 0..MaxCommits /\ 0 \in 0..MaxCommits
  BY <1>9, <1>10
<1> QED BY <1>11 DEF here

\* The run folders after one of them was written and some went.
LEMMA RunsTyped ==
    ASSUME ServerHistoryTypeOK, NEW run \in Halves, NEW gone,
           runs' = Purged(WithRun(run), gone) \/ runs' = WithRun(run), now' = now
    PROVE  /\ DOMAIN runs' \subseteq 0..now'
           /\ \A r \in DOMAIN runs' : runs'[r] \in [full : Tree, delta : Tree]
<1>1. now \in 0..now
  BY ServerHistoryAssumption DEF ServerHistoryTypeOK
<1>2. DOMAIN WithRun(run) \subseteq 0..now
  BY <1>1 DEF ServerHistoryTypeOK, WithRun
<1>3. \A r \in DOMAIN WithRun(run) : WithRun(run)[r] \in [full : Tree, delta : Tree]
  BY DEF ServerHistoryTypeOK, WithRun, Halves
<1> QED BY <1>2, <1>3 DEF Purged

LEMMA WritingTyped ==
    ASSUME ServerHistoryTypeOK, Room,
           NEW change \in Changes, NEW written \in SUBSET DOMAIN change,
           Writing(change, written),
           NEW gone, runs' = Purged(WithRun(KeptBy(DefaultPolicy, change)), gone)
    PROVE  ServerHistoryTypeOK'
<1> DEFINE run == KeptBy(DefaultPolicy, change)
<1>1. /\ UNCHANGED <<fileBased, now, policy>>
      /\ live' = [p \in Paths |-> IF p \in written THEN change[p] ELSE live[p]]
      /\ replaced' = replaced \cup
             {<<now, p, live[p]>> : p \in {q \in written : live[q] # NoFile}}
      /\ commits' = [commits EXCEPT ![now] = @ + 1]
  BY DEF Writing
<1>2. written \subseteq Paths /\ \A p \in written : change[p] \in Contents \cup {NoFile}
  BY DEF Changes
<1>3. live' \in Tree
  BY <1>1, <1>2 DEF ServerHistoryTypeOK, Tree
<1>4. now \in 0..now
  BY ServerHistoryAssumption DEF ServerHistoryTypeOK
<1>5. replaced' \subseteq (0..now) \X Paths \X Contents
  <2>1. ASSUME NEW p \in written, live[p] # NoFile
        PROVE  p \in Paths /\ live[p] \in Contents
    BY <1>2, <2>1 DEF ServerHistoryTypeOK, Tree
  <2> QED BY <1>1, <1>4, <2>1 DEF ServerHistoryTypeOK
<1>6. commits' \in [0..MaxTime -> 0..MaxCommits]
  BY <1>1, RoomForOne DEF ServerHistoryTypeOK
<1>7. run \in Halves
  BY KeptTyped
<1>8. runs' = Purged(WithRun(run), gone)
  OBVIOUS
<1> HIDE DEF run
<1>9. /\ DOMAIN runs' \subseteq 0..now'
      /\ \A r \in DOMAIN runs' : runs'[r] \in [full : Tree, delta : Tree]
  BY <1>1, <1>7, <1>8, RunsTyped
<1> QED BY <1>1, <1>3, <1>5, <1>6, <1>9 DEF ServerHistoryTypeOK

LEMMA CommitTyped ==
    ASSUME ServerHistoryTypeOK, NEW change \in Changes, Commit(change) \/ CommitStops(change)
    PROVE  ServerHistoryTypeOK'
<1>1. CASE Commit(change)
  <2>1. PICK gone : runs' = Purged(WithRun(KeptBy(DefaultPolicy, change)), gone)
    BY <1>1 DEF Commit
  <2>2. Room /\ Writing(change, DOMAIN change)
    BY <1>1 DEF Commit
  <2> QED BY <2>1, <2>2, WritingTyped
<1>2. CASE CommitStops(change)
  <2>1. PICK written \in SUBSET DOMAIN change : Writing(change, written)
    BY <1>2 DEF CommitStops
  <2>2. Room
    BY <1>2 DEF CommitStops
  <2> QED BY <1>2, <2>1, <2>2, StopsPurgeNothing, WritingTyped
<1> QED BY <1>1, <1>2

LEMMA RefusedTyped ==
    ASSUME ServerHistoryTypeOK, CommitRefused
    PROVE  ServerHistoryTypeOK'
<1>1. /\ Room /\ UNCHANGED <<fileBased, now, live, policy, replaced>>
      /\ commits' = [commits EXCEPT ![now] = IF @ = 0 THEN 0 ELSE @ + 1]
  BY DEF CommitRefused
<1>2. PICK some :
          LET copied == [p \in Paths |-> IF p \in some THEN live[p] ELSE NoFile]
          IN  runs' = WithRun(IF DefaultPolicy.full
                              THEN [RunAt(now) EXCEPT !.full = Over(@, copied)]
                              ELSE [RunAt(now) EXCEPT !.delta = Over(@, copied)])
  BY DEF CommitRefused
<1> DEFINE moved == [p \in Paths |-> IF p \in some THEN live[p] ELSE NoFile]
           run  == IF DefaultPolicy.full THEN [RunAt(now) EXCEPT !.full = Over(@, moved)]
                                         ELSE [RunAt(now) EXCEPT !.delta = Over(@, moved)]
<1>3. moved \in Tree /\ RunAt(now) \in Halves
  BY SomeOfLive, RunTyped
<1> HIDE DEF moved
<1>4. RunAt(now).full \in Tree /\ RunAt(now).delta \in Tree
  BY <1>3 DEF Halves
<1>5. Over(RunAt(now).full, moved) \in Tree /\ Over(RunAt(now).delta, moved) \in Tree
  BY <1>3, <1>4, OverIsTree
<1>6. run \in Halves
  BY <1>3, <1>5 DEF Halves
<1>7. runs' = WithRun(run)
  BY <1>2 DEF moved
<1> HIDE DEF run
<1>8. /\ DOMAIN runs' \subseteq 0..now'
      /\ \A r \in DOMAIN runs' : runs'[r] \in [full : Tree, delta : Tree]
  BY <1>1, <1>6, <1>7, RunsTyped
<1>9. commits' \in [0..MaxTime -> 0..MaxCommits]
  BY <1>1, RoomForOne DEF ServerHistoryTypeOK
<1> QED BY <1>1, <1>8, <1>9 DEF ServerHistoryTypeOK

LEMMA OthersTyped ==
    ASSUME ServerHistoryTypeOK,
           (\E asked \in Policies : SetSettings(asked)) \/ PassSecond \/ UNCHANGED serverHistoryVars
    PROVE  ServerHistoryTypeOK'
<1>1. ASSUME NEW asked \in Policies, SetSettings(asked)
      PROVE  ServerHistoryTypeOK'
  <2>1. asked \in Policy
    BY ServerHistoryAssumption
  <2>2. [asked EXCEPT !.incremental = @ /\ ~fileBased] \in Policy
    BY <2>1 DEF Policy
  <2>3. policy' \in Policy /\ UNCHANGED <<fileBased, now, live, runs, replaced, commits>>
    BY <1>1, <2>2 DEF SetSettings
  <2> QED BY <2>3 DEF ServerHistoryTypeOK
<1>2. ASSUME PassSecond
      PROVE  ServerHistoryTypeOK'
  <2>1. /\ now < MaxTime /\ now' = now + 1 /\ now \in 0..MaxTime
        /\ UNCHANGED <<fileBased, live, runs, policy, replaced, commits>>
    BY <1>2 DEF PassSecond, ServerHistoryTypeOK
  <2>2. now' \in 0..MaxTime /\ 0..now \subseteq 0..now'
    BY <2>1, ServerHistoryAssumption
  <2>3. replaced \subseteq (0..now') \X Paths \X Contents
    BY <2>2 DEF ServerHistoryTypeOK
  <2> QED BY <2>1, <2>2, <2>3 DEF ServerHistoryTypeOK
<1>3. UNCHANGED serverHistoryVars => ServerHistoryTypeOK'
  BY DEF serverHistoryVars, ServerHistoryTypeOK
<1> QED BY <1>1, <1>2, <1>3

LEMMA HistoryTypeStep == ServerHistoryTypeOK /\ [ServerHistoryNext]_serverHistoryVars
                             => ServerHistoryTypeOK'
BY CommitTyped, RefusedTyped, OthersTyped DEF ServerHistoryNext

LEMMA HistoryTypeInit == ServerHistoryInit => ServerHistoryTypeOK
<1> SUFFICES ASSUME ServerHistoryInit PROVE ServerHistoryTypeOK
  OBVIOUS
<1>1. DefaultPolicy \in Policy
  BY ServerHistoryAssumption DEF ServerHistoryInit, DefaultPolicy, Policy
<1>2. NoTree \in Tree /\ 0 \in 0..MaxTime /\ 0 \in 0..MaxCommits
  BY ServerHistoryAssumption DEF NoTree, Tree
<1> QED BY <1>1, <1>2 DEF ServerHistoryInit, ServerHistoryTypeOK

\* The history holds trees of contents under the seconds that have passed
\* (storage.rs, apply_to_live; backend.rs, snapshot_full).
THEOREM ServerHistoryIsTyped == ServerHistorySpec => []ServerHistoryTypeOK
BY HistoryTypeInit, HistoryTypeStep, PTL DEF ServerHistorySpec

\* Folders of finitely many files have a size.
LEMMA TreesHaveSize ==
    ASSUME NEW files \in Tree
    PROVE  SizeIn(files) \in Nat
<1> DEFINE held == Held(files)
           w == [p \in held |-> SizeOf[files[p]]]
           Body(g, s) == IF s = {} THEN 0
                         ELSE SizeOf[files[CHOOSE x \in s : TRUE]] + g[s \ {CHOOSE x \in s : TRUE}]
           it == CHOOSE g : g = [s \in SUBSET held |-> Body(g, s)]
<1>1. SizeIn(files) = it[held]
  BY DEF SizeIn, MapThenSumSet, MapThenFoldSet
<1>2. Weighed(held, w)
  <2>1. held \subseteq Paths /\ \A p \in held : files[p] \in Contents
    BY DEF Held, Tree
  <2>2. IsFiniteSet(held)
    BY <2>1, FS_Subset, ServerHistoryAssumption
  <2>3. \A p \in held : w[p] \in Nat
    BY <2>1, ServerHistoryAssumption
  <2> HIDE DEF held, w
  <2> QED BY <2>2, <2>3 DEF Weighed
<1>3. ASSUME NEW g
      PROVE  IsSum(g, held, w) <=> g = [s \in SUBSET held |-> Body(g, s)]
  <2>1. \A s \in SUBSET held : s # {} => w[Any(s)] = SizeOf[files[Any(s)]]
    <3>1. \A s \in SUBSET held : s # {} => Any(s) \in held
      BY AnyIsOne
    <3> HIDE DEF held
    <3> QED BY <3>1
  <2> HIDE DEF held, w
  <2>2. \A s \in SUBSET held :
            Body(g, s) = IF s = {} THEN 0 ELSE w[Any(s)] + g[s \ {Any(s)}]
    BY <2>1 DEF Any
  <2> HIDE DEF Body
  <2> QED BY <2>2 DEF IsSum
<1> HIDE DEF w, held
<1>4. PICK g \in [SUBSET held -> Nat] : IsSum(g, held, w)
  BY <1>2, SumExists
<1> HIDE DEF Body
<1>5. \E f : f = [s \in SUBSET held |-> Body(f, s)]
  BY <1>3, <1>4
<1>6. it = [s \in SUBSET held |-> Body(it, s)]
  BY <1>5
<1> HIDE DEF it
<1>7. IsSum(it, held, w)
  BY <1>3, <1>6
<1>8. \A s \in (SUBSET held) \cap (SUBSET held) : it[s] = g[s]
  BY <1>2, <1>4, <1>7, SumIsOne
<1>9. it[held] = g[held]
  BY <1>8
<1> QED BY <1>1, <1>4, <1>9

\* The runs of the folder as prune_history lists them.
LEMMA ListedWeighed ==
    ASSUME NEW all, DOMAIN all \subseteq 0..MaxTime, \A r \in DOMAIN all : all[r] \in Halves
    PROVE  Listed(all) \in SUBSET Nat /\ Weighed(Listed(all), SizesOf(all))
<1>1. Listed(all) \subseteq 0..MaxTime /\ Listed(all) \subseteq DOMAIN all
  BY DEF Listed
<1>2. IsFiniteSet(Listed(all))
  <2>1. 0 \in Int /\ MaxTime \in Int
    BY ServerHistoryAssumption
  <2>2. IsFiniteSet(0..MaxTime)
    BY <2>1, FS_Interval
  <2> QED BY <1>1, <2>2, FS_Subset
<1>3. ASSUME NEW r \in DOMAIN all
      PROVE  SizesOf(all)[r] \in Nat
  <2>1. SizeIn(all[r].full) \in Nat /\ SizeIn(all[r].delta) \in Nat
    BY TreesHaveSize DEF Halves
  <2> QED BY <2>1 DEF SizesOf
<1>4. 0..MaxTime \subseteq Nat
  OBVIOUS
<1> QED BY <1>1, <1>2, <1>3, <1>4 DEF Weighed

Folder ==
    [r \in DOMAIN runs \cup {now} |-> IF r \in DOMAIN runs' THEN runs'[r] ELSE runs[r]]

Earned ==
    now \in DOMAIN runs' =>
        Spared(Listed(Folder), SizesOf(Folder), DefaultDays, DefaultCap, now) \subseteq DOMAIN runs'

\* Nothing is lost by a step that purges nothing.
LEMMA NothingPurged ==
    ASSUME now \in DOMAIN runs' => DOMAIN runs \subseteq DOMAIN runs'
    PROVE  Earned
<1>1. Spared(Listed(Folder), SizesOf(Folder), DefaultDays, DefaultCap, now) \subseteq Listed(Folder)
  BY DEF Spared
<1>2. Listed(Folder) \subseteq DOMAIN runs \cup {now}
  BY DEF Listed, Folder
<1> QED BY <1>1, <1>2 DEF Earned

\* The folder a commit prunes is the one the property looks at.
LEMMA CommitEarned ==
    ASSUME ServerHistoryTypeOK, NEW change \in Changes, Commit(change)
    PROVE  Earned
<1> SUFFICES ASSUME now \in DOMAIN runs'
             PROVE  Spared(Listed(Folder), SizesOf(Folder), DefaultDays, DefaultCap, now)
                        \subseteq DOMAIN runs'
  BY DEF Earned
<1> DEFINE kept == WithRun(KeptBy(DefaultPolicy, change))
<1>1. PICK gone \in SUBSET Picked(kept, DefaultPolicy) : runs' = Purged(kept, gone)
  BY DEF Commit
<1>2. /\ DOMAIN kept = DOMAIN runs \cup {now}
      /\ kept = [r \in DOMAIN runs \cup {now} |-> kept[r]]
      /\ \A r \in DOMAIN runs \ {now} : kept[r] = runs[r]
      /\ \A r \in DOMAIN kept : kept[r] \in Halves
  BY KeptTyped DEF WithRun, ServerHistoryTypeOK, Halves
<1> HIDE DEF kept
<1>3. DOMAIN runs' = DOMAIN kept \ gone /\ \A r \in DOMAIN runs' : runs'[r] = kept[r]
  BY <1>1 DEF Purged
<1>4. \A r \in DOMAIN kept : (IF r \in DOMAIN runs' THEN runs'[r] ELSE runs[r]) = kept[r]
  BY <1>2, <1>3
<1>5. Folder = kept
  BY <1>2, <1>4 DEF Folder
<1>6. /\ now \in Nat /\ DOMAIN kept \subseteq 0..MaxTime
      /\ DefaultDays \in Nat /\ DefaultCap \in Nat
  BY <1>2, ServerHistoryAssumption DEF ServerHistoryTypeOK
<1>7. Listed(kept) \in SUBSET Nat /\ Weighed(Listed(kept), SizesOf(kept))
  BY <1>2, <1>6, ListedWeighed
<1> DEFINE spared == Spared(Listed(kept), SizesOf(kept), DefaultDays, DefaultCap, now)
<1>8. Picked(kept, DefaultPolicy) = Listed(kept) \ spared
  <2>1. Picked(kept, DefaultPolicy)
            = PickSnapshotsToPrune(Listed(kept), SizesOf(kept), DefaultDays, DefaultCap, now)
    BY DEF Picked, DefaultPolicy
  <2> QED BY <1>6, <1>7, <2>1, PicksWhatIsNotSpared
<1>9. spared \subseteq DOMAIN kept
  BY DEF Spared, Listed
<1> HIDE DEF spared
<1>10. spared \subseteq DOMAIN runs'
  BY <1>1, <1>3, <1>8, <1>9
<1> QED BY <1>5, <1>10 DEF spared

\* Whatever the constants: a prune takes no run that the two rules spare
\* (core/history.rs, pick_snapshots_to_prune; api.rs, prune_history).
THEOREM ServerPrunesAreEarned == ServerHistorySpec => PrunesAreEarned
<1>1. ServerHistoryTypeOK /\ [ServerHistoryNext]_serverHistoryVars => [Earned]_serverHistoryVars
  <2> SUFFICES ASSUME ServerHistoryTypeOK, ServerHistoryNext PROVE Earned
    OBVIOUS
  <2>1. ASSUME NEW change \in Changes, Commit(change) PROVE Earned
    BY <2>1, CommitEarned
  <2>2. CASE CommitRefused \/ \E change \in Changes : CommitStops(change)
    <3>1. DOMAIN runs \subseteq DOMAIN runs'
      BY <2>2 DEF CommitRefused, CommitStops, WithRun
    <3> QED BY <3>1, NothingPurged
  <2>3. CASE (\E asked \in Policies : SetSettings(asked)) \/ PassSecond
    <3>1. runs' = runs
      BY <2>3 DEF SetSettings, PassSecond
    <3> QED BY <3>1, NothingPurged
  <2> QED BY <2>1, <2>2, <2>3 DEF ServerHistoryNext
<1>2. Earned => LET kept == [r \in DOMAIN runs \cup {now} |-> IF r \in DOMAIN runs' THEN runs'[r]
                                                            ELSE runs[r]]
                IN  now \in DOMAIN runs' =>
                      Spared(Listed(kept), SizesOf(kept), DefaultDays, DefaultCap, now)
                         \subseteq DOMAIN runs'
  BY DEF Earned, Folder
<1> QED
  BY <1>1, <1>2, HistoryTypeInit, HistoryTypeStep, PTL DEF ServerHistorySpec, PrunesAreEarned

-----------------------------------------------------------------------------
(***************************************************************************)
(* The names of the games.  The mtime of the file only grows, up to the    *)
(* edition that is out, and what is in the file, or was read from it, is   *)
(* no newer than the mtime.                                                *)
(***************************************************************************)

PlacesTyped == at \in [Tasks -> {"none", "raising", "fetching", "writing", "parsing", "installing"}]

Carried == carried \in [Tasks -> 0..Torn]

\* What makes the date of the table cover its names, and that it does.
TitlesInvariant ==
    /\ TitlesTypeOK
    /\ PlacesTyped /\ Carried
    /\ stamp <= upstream
    /\ Whole(file) => file <= stamp
    /\ \A t \in Tasks : /\ at[t] = "writing" => carried[t] <= upstream
                        /\ at[t] = "installing" /\ Whole(carried[t]) => carried[t] <= stamp
    /\ DateCoversNames

\* What the parser returns for the file is no newer than the mtime.
LEMMA ParsedNames ==
    ASSUME TitlesInvariant, NEW n \in Parsed(file)
    PROVE  /\ n \in 0..Torn /\ (Whole(n) => n <= stamp)
           /\ ~lenient => Whole(n)
<1>1. file \in 0..Torn /\ Torn \in Nat /\ Absent = 0 /\ ~Whole(0) /\ ~Whole(Torn)
  BY TitleDbsAssumption DEF TitlesInvariant, TitlesTypeOK, Torn, Absent, Whole, Versions
<1>2. Parsed(file) = IF Whole(file) THEN {file}
                     ELSE IF file = Torn THEN IF lenient THEN {Torn, Absent} ELSE {} ELSE {}
  BY <1>1 DEF Parsed
<1>3. Whole(file) => file <= stamp
  BY DEF TitlesInvariant
<1>4. CASE Whole(file)
  BY <1>1, <1>2, <1>3, <1>4
<1>5. CASE ~Whole(file)
  <2>1. lenient /\ n \in {Torn, 0}
    BY <1>1, <1>2, <1>5
  <2> QED BY <1>1, <2>1
<1> QED BY <1>4, <1>5

\* The process starts: nothing was running, and the table is empty or the file's.
LEMMA TitlesBoot ==
    ASSUME TitlesInvariant, Boot, UNCHANGED program
    PROVE  TitlesInvariant'
<1> USE DEF program
<1>1. /\ UNCHANGED <<upstream, file, stamp, refreshing, carried>> /\ running' = TRUE
      /\ ~running
  BY DEF Boot, disk
<1>2. \A t \in Tasks : at[t] = "none"
  BY <1>1 DEF TitlesInvariant, TitlesTypeOK
<1>3. 0 \in 0..Torn /\ 0 \in 0..MaxVersions /\ Absent = 0 /\ ~Whole(0)
  BY TitleDbsAssumption DEF Torn, Absent, Whole, Versions
<1>4. /\ at' \in [Tasks -> {"none", "raising", "fetching", "parsing"}]
      /\ names' \in 0..Torn /\ namesDate' \in 0..MaxVersions
      /\ Whole(names') => namesDate' >= names'
  <2>1. CASE desktop
    <3>1. /\ at' = [t \in Tasks |-> IF t = Loader
                                    THEN IF file = Absent THEN "raising" ELSE "parsing"
                                    ELSE "none"]
          /\ UNCHANGED <<names, namesDate>>
      BY <2>1 DEF Boot, BootApp, table
    <3> QED BY <3>1 DEF TitlesInvariant, TitlesTypeOK, DateCoversNames
  <2>2. CASE ~desktop
    <3>1. PICK n \in IF Parsed(file) = {} THEN {Absent} ELSE Parsed(file) :
              /\ names' = n
              /\ namesDate' = IF Parsed(file) = {} THEN Absent ELSE stamp
              /\ at' = [t \in Tasks |-> IF t = Loader /\ n = Absent THEN "fetching" ELSE "none"]
      BY <2>2 DEF Boot, BootServer
    <3>2. at' \in [Tasks -> {"none", "raising", "fetching", "parsing"}]
      BY <3>1
    <3>3. stamp \in 0..MaxVersions
      BY DEF TitlesInvariant, TitlesTypeOK
    <3>4. CASE Parsed(file) = {}
      BY <1>3, <3>1, <3>2, <3>4
    <3>5. CASE Parsed(file) # {}
      BY <3>1, <3>2, <3>3, <3>5, ParsedNames, TitleDbsAssumption
    <3> QED BY <3>4, <3>5
  <2> QED BY <2>1, <2>2
<1>5. \A t \in Tasks : at'[t] \in {"none", "raising", "fetching", "parsing"}
  BY <1>4
<1>6. PlacesTyped'
  BY <1>4 DEF PlacesTyped
<1> QED BY <1>1, <1>4, <1>5, <1>6
        DEF TitlesInvariant, TitlesTypeOK, DateCoversNames, Carried, Whole, Versions, Torn

\* The process is gone.
LEMMA TitlesQuit ==
    ASSUME TitlesInvariant, Quit, UNCHANGED program
    PROVE  TitlesInvariant'
<1> USE DEF program
<1>1. /\ UNCHANGED <<upstream, file, stamp>> /\ running' = FALSE
      /\ at' = [t \in Tasks |-> "none"] /\ carried' = [t \in Tasks |-> Absent]
      /\ names' = Absent /\ namesDate' = Absent /\ refreshing' = FALSE
  BY DEF Quit, disk
<1>2. 0 \in 0..Torn /\ 0 \in 0..MaxVersions /\ Absent = 0 /\ ~Whole(0)
  BY TitleDbsAssumption DEF Torn, Absent, Whole, Versions
<1> QED BY <1>1, <1>2 DEF TitlesInvariant, TitlesTypeOK, PlacesTyped, Carried, DateCoversNames,
                          Whole, Versions, Torn

\* A step of a refresh.
LEMMA TitlesTask ==
    ASSUME TitlesInvariant, NEW t \in Tasks,
           Step(t), UNCHANGED program
    PROVE  TitlesInvariant'
<1> USE DEF TitlesInvariant, program
<1>1. /\ upstream \in Versions /\ file \in 0..Torn /\ stamp \in 0..MaxVersions
      /\ MaxVersions \in Nat \ {0} /\ Torn = MaxVersions + 1
      /\ at \in [Tasks -> {"none", "raising", "fetching", "writing", "parsing", "installing"}]
      /\ carried \in [Tasks -> 0..Torn] /\ stamp <= upstream
      /\ names \in 0..Torn /\ namesDate \in 0..MaxVersions
  BY TitleDbsAssumption DEF TitlesTypeOK, PlacesTyped, Carried, Torn
<1>2. upstream \in 1..MaxVersions /\ Absent = 0 /\ ~Whole(Torn) /\ ~Whole(Absent)
      /\ \A n : Whole(n) <=> n \in 1..MaxVersions
  BY <1>1 DEF Versions, Whole, Absent
<1>3. \A x : [at EXCEPT ![t] = x][t] = x
  BY <1>1
<1>4. \A x : [carried EXCEPT ![t] = x][t] = x
  BY <1>1
<1>5. \A s \in Tasks : s # t => \A x : [at EXCEPT ![t] = x][s] = at[s] /\ [carried EXCEPT ![t] = x][s] = carried[s]
  BY <1>1
<1>6. CASE Fetch(t)
  <2>1. /\ at[t] = "fetching" /\ at' = [at EXCEPT ![t] = "writing"]
        /\ carried' = [carried EXCEPT ![t] = upstream]
        /\ file' = Torn /\ stamp' = upstream
        /\ UNCHANGED <<upstream, names, namesDate, refreshing, running>>
    BY <1>6 DEF Fetch, Goes, table
  <2>2. PlacesTyped' /\ Carried'
    BY <1>1, <1>2, <2>1 DEF PlacesTyped, Carried
  <2>3. TitlesTypeOK'
    BY <1>1, <1>2, <1>3, <1>4, <1>5, <2>1, <2>2 DEF TitlesTypeOK, PlacesTyped, Carried, Torn
  <2> QED BY <1>1, <1>2, <1>3, <1>4, <1>5, <2>1, <2>2, <2>3 DEF DateCoversNames, Whole, Versions, Torn
<1>7. CASE Fail(t)
  <2>1. /\ at[t] # "none" /\ at' = [at EXCEPT ![t] = "none"]
        /\ carried' = [carried EXCEPT ![t] = Absent] /\ refreshing' = FALSE
        /\ UNCHANGED <<upstream, file, stamp, names, namesDate, running>>
    BY <1>7 DEF Fail, disk, table
  <2>2. PlacesTyped' /\ Carried'
    BY <1>1, <1>2, <2>1 DEF PlacesTyped, Carried
  <2>3. TitlesTypeOK'
    BY <1>1, <1>2, <1>3, <1>4, <1>5, <2>1, <2>2 DEF TitlesTypeOK, PlacesTyped, Carried, Torn
  <2> QED BY <1>1, <1>2, <1>3, <1>4, <1>5, <2>1, <2>2, <2>3 DEF DateCoversNames, Whole, Versions, Torn
<1>8. CASE Write(t)
  <2>1. /\ at[t] = "writing" /\ at' = [at EXCEPT ![t] = "parsing"]
        /\ file' \in {carried[t], Torn}
        /\ stamp' = IF carried[t] > stamp THEN carried[t] ELSE stamp
        /\ UNCHANGED <<upstream, names, namesDate, refreshing, carried, running>>
    BY <1>8 DEF Write, Goes, table
  <2>2. PlacesTyped' /\ Carried'
    BY <1>1, <2>1 DEF PlacesTyped, Carried
  <2>3. carried[t] \in 0..Torn /\ carried[t] <= upstream
    BY <1>1, <2>1
  <2>4. stamp' \in 0..MaxVersions /\ stamp' >= stamp /\ stamp' <= upstream
        /\ carried[t] <= stamp' /\ file' \in 0..Torn
    BY <1>1, <1>2, <2>1, <2>3
  <2>5. TitlesTypeOK'
    BY <1>1, <1>2, <1>3, <1>5, <2>1, <2>2, <2>4 DEF TitlesTypeOK, PlacesTyped, Carried, Torn
  <2>6. Whole(file') => file' <= stamp'
    BY <1>2, <2>1, <2>4
  <2>7. ASSUME NEW s \in Tasks
        PROVE  /\ at'[s] = "writing" => carried'[s] <= upstream'
               /\ at'[s] = "installing" /\ Whole(carried'[s]) => carried'[s] <= stamp'
    BY <1>1, <1>2, <1>3, <1>5, <2>1, <2>4, <2>7
  <2> QED BY <1>1, <1>2, <2>1, <2>2, <2>4, <2>5, <2>6, <2>7 DEF DateCoversNames, Whole, Versions, Torn
<1>9. CASE Parse(t)
  <2>1. PICK n \in Parsed(file) : carried' = [carried EXCEPT ![t] = n]
    BY <1>9 DEF Parse
  <2>2. /\ at[t] = "parsing" /\ at' = [at EXCEPT ![t] = "installing"]
        /\ UNCHANGED <<upstream, file, stamp, names, namesDate, refreshing, running>>
    BY <1>9 DEF Parse, Goes, disk, table
  <2>3. n \in 0..Torn /\ (Whole(n) => n <= stamp) /\ (~lenient => Whole(n))
    BY ParsedNames
  <2>4. PlacesTyped' /\ Carried'
    BY <1>1, <2>1, <2>2, <2>3 DEF PlacesTyped, Carried
  <2>5. TitlesTypeOK'
    BY <1>1, <1>2, <1>3, <1>4, <1>5, <2>1, <2>2, <2>3, <2>4 DEF TitlesTypeOK, PlacesTyped, Carried, Torn
  <2>6. ASSUME NEW s \in Tasks
        PROVE  /\ at'[s] = "writing" => carried'[s] <= upstream'
               /\ at'[s] = "installing" /\ Whole(carried'[s]) => carried'[s] <= stamp'
    BY <1>1, <1>2, <1>3, <1>4, <1>5, <2>1, <2>2, <2>3, <2>6
  <2> QED BY <1>1, <2>2, <2>4, <2>5, <2>6 DEF DateCoversNames, Whole, Versions, Torn
<1>10. CASE Install(t)
  <2>1. /\ at[t] = "installing" /\ at' = [at EXCEPT ![t] = "none"]
        /\ names' = carried[t] /\ namesDate' = stamp
        /\ carried' = [carried EXCEPT ![t] = Absent] /\ refreshing' = FALSE
        /\ UNCHANGED <<upstream, file, stamp, running>>
    BY <1>10 DEF Install, Goes, disk
  <2>2. PlacesTyped' /\ Carried'
    BY <1>1, <1>2, <2>1 DEF PlacesTyped, Carried
  <2>3. TitlesTypeOK'
    BY <1>1, <1>2, <1>3, <1>4, <1>5, <2>1, <2>2 DEF TitlesTypeOK, PlacesTyped, Carried, Torn
  <2>4. DateCoversNames'
    BY <1>1, <1>2, <2>1 DEF DateCoversNames, Whole, Versions
  <2> QED BY <1>1, <1>2, <1>3, <1>4, <1>5, <2>1, <2>2, <2>3, <2>4 DEF Whole, Versions, Torn
<1> QED BY <1>6, <1>7, <1>8, <1>9, <1>10 DEF Step

\* Every step keeps the invariant.
LEMMA TitlesStep ==
    ASSUME TitlesInvariant, TitlesNext, UNCHANGED program
    PROVE  TitlesInvariant'
<1> USE DEF program
<1>1. CASE Publish
  <2>1. /\ upstream < MaxVersions /\ upstream' = upstream + 1
        /\ UNCHANGED <<file, stamp, names, namesDate, refreshing, at, carried, running>>
    BY <1>1 DEF Publish, disk, table
  <2>2. upstream \in 1..MaxVersions /\ upstream' \in 1..MaxVersions /\ stamp \in Nat
        /\ carried \in [Tasks -> Nat]
    BY <2>1, TitleDbsAssumption DEF TitlesInvariant, TitlesTypeOK, Versions, Carried, Torn
  <2> QED BY <2>1, <2>2 DEF TitlesInvariant, TitlesTypeOK, PlacesTyped, Carried, DateCoversNames,
                            Whole, Versions, Torn
<1>2. CASE Boot
  BY <1>2, TitlesBoot
<1>3. CASE Quit
  BY <1>3, TitlesQuit
<1>4. ASSUME NEW t \in Tasks, at[t] = "raising" \/ running,
             at' = [at EXCEPT ![t] = "fetching"], refreshing' \in BOOLEAN,
             UNCHANGED <<upstream, file, stamp, names, namesDate, carried, running>>
      PROVE  TitlesInvariant'
  <2>1. running
    BY <1>4 DEF TitlesInvariant, TitlesTypeOK
  <2>2. PlacesTyped'
    BY <1>4 DEF TitlesInvariant, PlacesTyped
  <2>3. \A s \in Tasks : at'[s] = at[s] \/ at'[s] = "fetching"
    BY <1>4 DEF TitlesInvariant, PlacesTyped
  <2> QED BY <1>4, <2>1, <2>2, <2>3
          DEF TitlesInvariant, TitlesTypeOK, PlacesTyped, Carried, DateCoversNames, Whole, Versions, Torn
<1>5. CASE RaiseFlag
  BY <1>4, <1>5 DEF RaiseFlag, Goes, disk, table, Tasks
<1>6. ASSUME NEW r \in Refreshers, Refresh(r) PROVE TitlesInvariant'
  BY <1>4, <1>6 DEF Refresh, Goes, disk, table, Tasks, TitlesInvariant, TitlesTypeOK
<1>7. ASSUME NEW t \in Tasks, Step(t) PROVE TitlesInvariant'
  BY <1>7, TitlesTask
<1> QED BY <1>1, <1>2, <1>3, <1>5, <1>6, <1>7 DEF TitlesNext

\* It always holds.
LEMMA TitlesInvariantHolds == TitlesSpec => []TitlesInvariant
<1>1. TitlesInit => TitlesInvariant
  <2>1. 0 \in 0..Torn /\ 0 \in 0..MaxVersions /\ Absent = 0 /\ ~Whole(0) /\ 1 \in Versions
    BY TitleDbsAssumption DEF Torn, Absent, Whole, Versions
  <2> QED BY <2>1 DEF TitlesInit, TitlesInvariant, TitlesTypeOK, PlacesTyped, Carried,
                      DateCoversNames, Whole, Versions, Torn
<1>2. TitlesInvariant /\ [TitlesNext /\ UNCHANGED program]_<<titleVars, program>> => TitlesInvariant'
  <2>1. ASSUME TitlesInvariant, UNCHANGED <<titleVars, program>> PROVE TitlesInvariant'
    BY <2>1 DEF titleVars, program, disk, table, TitlesInvariant, TitlesTypeOK, PlacesTyped, Carried,
                DateCoversNames, Whole, Versions, Torn
  <2> QED BY <2>1, TitlesStep
<1> QED BY <1>1, <1>2, PTL DEF TitlesSpec

\* The date shown is never older than the names shown, for any number of requests
\* to refresh and any failures (core/title_db.rs, the last_update of the views).
THEOREM DatesCoverNames == TitlesSpec => []DateCoversNames
<1>1. TitlesInvariant => DateCoversNames
  BY DEF TitlesInvariant
<1> QED BY TitlesInvariantHolds, <1>1, PTL

-----------------------------------------------------------------------------
(***************************************************************************)
(* The parts one beside the other: a behaviour of the composition is one   *)
(* of each part, that moves or stands still (of accounts, whether or not   *)
(* time passes).                                                           *)
(***************************************************************************)
LEMMA PartsAreTheirs ==
    PartsSpec => /\ AccountsInit /\ [][AccountsNext]_accountVars
                 /\ StagingSpec /\ ServerHistorySpec
<1>1. PartsInit => AccountsInit /\ StagingInit /\ ServerHistoryInit
  BY DEF PartsInit
<1>2. [PartsNext]_partsVars => [AccountsNext]_accountVars
  BY DEF PartsNext, partsVars
<1>3. [PartsNext]_partsVars => [StagingNext]_stagingVars
  BY DEF PartsNext, partsVars
<1>4. [PartsNext]_partsVars => [ServerHistoryNext]_serverHistoryVars
  BY DEF PartsNext, partsVars
<1> QED BY <1>1, <1>2, <1>3, <1>4, PTL
        DEF PartsSpec, StagingSpec, ServerHistorySpec

\* Type correctness of the parts together.
THEOREM ServerPartsAreTyped == PartsSpec => []PartsTypeOK
<1>1. AccountsTypeOK /\ StagingTypeOK /\ ServerHistoryTypeOK => PartsTypeOK
  BY DEF PartsTypeOK
<1> QED BY PartsAreTheirs, AccountTypesHold, StagingIsTyped, ServerHistoryIsTyped, <1>1, PTL

=============================================================================
