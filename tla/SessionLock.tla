----------------------------- MODULE SessionLock -----------------------------
(***************************************************************************)
(* The lock of one emulator in time: `plan` takes it, `commit` gives it    *)
(* back, and a session nobody touched for SESSION_TTL is removed by the    *)
(* next `plan` of anybody (api.rs).  SyncServer lets any session be        *)
(* expired at any moment; here a clock decides, so that waiting can be     *)
(* reasoned about.  What plans contain is left out: a cycle is a number of *)
(* uploads and a commit.                                                   *)
(*                                                                         *)
(* The desktop does not retry by itself: a device that asks is one whose   *)
(* user or watcher starts a cycle again whenever the last was refused.     *)
(***************************************************************************)
EXTENDS Naturals

CONSTANTS Devices,
          PLAN_TTL,        \* ticks without activity before a session is stale
          MaxUploads       \* bound: uploads of one cycle

ASSUME LockAssumption ==
    /\ PLAN_TTL \in Nat
    /\ MaxUploads \in Nat

VARIABLES
    sessions,  \* open sessions: device -> ticks since expires_at was set
    behind,    \* devices whose last_rev is under min_valid_rev
    phase,     \* device -> "idle", "asking" (refused so far) or "running"
    todo,      \* device -> uploads left in its cycle
    stored,    \* devices whose session has a row in session_blobs
    quiet,     \* ghost: ticks since the session's device last made a request
    unfed      \* ghost: ticks since it planned or sent a blob that was new

lockVars == <<sessions, behind, phase, todo, stored, quiet, unfed>>

Capped(n, max) == IF n < max THEN n ELSE max

\* A slip: nothing is ever stale.
FreshNever == DOMAIN sessions

\* expires_at < now: a session exactly SESSION_TTL old is still good.
Fresh == {d \in DOMAIN sessions : sessions[d] <= PLAN_TTL}

\* A slip: only its own session is looked for.
LockedByOtherNever(d) == FALSE

LockedByOther(d) == Fresh \ {d} # {}

Keep(ds) == [d \in ds |-> sessions[d]]

Heard(d) == quiet' = [quiet EXCEPT ![d] = 0]
Fed(d)   == unfed' = [unfed EXCEPT ![d] = 0]

-----------------------------------------------------------------------------
\* The user or a watcher starts a cycle.
Ask(d) ==
    /\ phase[d] = "idle"
    /\ phase' = [phase EXCEPT ![d] = "asking"]
    /\ UNCHANGED <<sessions, behind, todo, stored, quiet, unfed>>

\* 429: stale sessions go, another device's good one stays.
PlanBusy(d) ==
    /\ phase[d] = "asking"
    /\ LockedByOther(d)
    /\ sessions' = Keep(Fresh)
    /\ UNCHANGED <<behind, phase, todo, stored, quiet, unfed>>

\* 410: the device's own session is dropped before its last_rev is looked at.
PlanGone(d) ==
    /\ phase[d] = "asking"
    /\ ~LockedByOther(d)
    /\ d \in behind
    /\ sessions' = Keep(Fresh \ {d})
    /\ UNCHANGED <<behind, phase, todo, stored, quiet, unfed>>

Plan(d) ==
    /\ phase[d] = "asking"
    /\ ~LockedByOther(d)
    /\ d \notin behind
    /\ sessions' = [e \in Fresh \cup {d} |-> IF e = d THEN 0 ELSE sessions[e]]
    /\ phase' = [phase EXCEPT ![d] = "running"]
    /\ \E n \in 0..MaxUploads : todo' = [todo EXCEPT ![d] = n]
    /\ stored' = stored \ {d}
    /\ Heard(d)
    /\ Fed(d)
    /\ UNCHANGED behind

-----------------------------------------------------------------------------
\* A slip: a new blob does not renew the session.
TouchedNever(d) == sessions

Touched(d) == [sessions EXCEPT ![d] = 0]

\* Neither PUT nor commit looks at expires_at: a stale session nobody has
\* removed still serves its device, and a new blob renews it.
Upload(d) ==
    /\ phase[d] = "running"
    /\ todo[d] > 0
    /\ d \in DOMAIN sessions
    /\ sessions' = Touched(d)
    /\ todo' = [todo EXCEPT ![d] = @ - 1]
    /\ stored' = stored \cup {d}
    /\ Heard(d)
    /\ Fed(d)
    /\ UNCHANGED <<behind, phase>>

\* "ja_recebido": the early return skips touch_session.
Resend(d) ==
    /\ phase[d] = "running"
    /\ d \in stored
    /\ d \in DOMAIN sessions
    /\ Heard(d)
    /\ UNCHANGED <<sessions, behind, phase, todo, stored, unfed>>

Commit(d) ==
    /\ phase[d] = "running"
    /\ todo[d] = 0
    /\ d \in DOMAIN sessions
    /\ sessions' = Keep(DOMAIN sessions \ {d})
    /\ phase' = [phase EXCEPT ![d] = "idle"]
    /\ Heard(d)
    /\ UNCHANGED <<behind, todo, stored, unfed>>

\* 404 unknown_session ends the cycle.
LostSession(d) ==
    /\ phase[d] = "running"
    /\ d \notin DOMAIN sessions
    /\ phase' = [phase EXCEPT ![d] = "idle"]
    /\ UNCHANGED <<sessions, behind, todo, stored, quiet, unfed>>

\* The device fails, is closed or loses the network, as often as it likes; the
\* lock is kept.
Abort(d) ==
    /\ phase[d] = "running"
    /\ d \in DOMAIN sessions
    /\ phase' = [phase EXCEPT ![d] = "idle"]
    /\ UNCHANGED <<sessions, behind, todo, stored, quiet, unfed>>

\* Ninety days without a cycle, and somebody else's commit prunes tombstones.
FallBehind(d) ==
    /\ phase[d] = "idle"
    /\ d \notin DOMAIN sessions
    /\ behind' = behind \cup {d}
    /\ UNCHANGED <<sessions, phase, todo, stored, quiet, unfed>>

\* The ghosts count while there is a session to count for.
Older(ghost) ==
    [d \in Devices |-> IF d \in DOMAIN sessions THEN Capped(ghost[d] + 1, PLAN_TTL + 1) ELSE 0]

LockTick ==
    /\ sessions' = [d \in DOMAIN sessions |-> Capped(sessions[d] + 1, PLAN_TTL + 1)]
    /\ quiet' = Older(quiet)
    /\ unfed' = Older(unfed)
    /\ UNCHANGED <<behind, phase, todo, stored>>

LockInit ==
    /\ sessions = << >>
    /\ behind = {}
    /\ phase = [d \in Devices |-> "idle"]
    /\ todo = [d \in Devices |-> 0]
    /\ stored = {}
    /\ quiet = [d \in Devices |-> 0]
    /\ unfed = [d \in Devices |-> 0]

DeviceStep(d) ==
    \/ Ask(d)    \/ PlanBusy(d) \/ PlanGone(d) \/ Plan(d)  \/ Upload(d)
    \/ Resend(d) \/ Commit(d)   \/ LostSession(d) \/ Abort(d) \/ FallBehind(d)

LockNext == LockTick \/ \E d \in Devices : DeviceStep(d)

\* Time passes; a cycle that is neither aborted nor finished goes on; and who
\* keeps asking asks, sooner or later, at a moment when the lock is free.
\* Nothing makes a device start, abort or fall behind.
LockFairness ==
    /\ WF_lockVars(LockTick)
    /\ \A d \in Devices :
           /\ SF_lockVars(Plan(d))
           /\ WF_lockVars(Upload(d) \/ Commit(d) \/ LostSession(d))

LockSpec == LockInit /\ [][LockNext]_lockVars /\ LockFairness

-----------------------------------------------------------------------------
\* Types, and one session at a time.
LockTypeOK ==
    /\ DOMAIN sessions \subseteq Devices
    /\ \A d \in DOMAIN sessions : sessions[d] \in 0..PLAN_TTL + 1
    /\ \A d, e \in DOMAIN sessions : d = e
    /\ behind \subseteq Devices
    /\ phase \in [Devices -> {"idle", "asking", "running"}]
    /\ todo \in [Devices -> 0..MaxUploads]
    /\ stored \subseteq Devices
    /\ quiet \in [Devices -> 0..PLAN_TTL + 1]
    /\ unfed \in [Devices -> 0..PLAN_TTL + 1]

\* A device plans while its own last session is still good: that one is dropped
\* and a new one inserted under one mutex, so nobody finds the lock free between.
Replan(d) == d \in Fresh /\ Plan(d)

\* From some moment on no device but d does that: whoever fails in every cycle
\* lets its session go stale before it plans again.
OthersLetGo(d) == <>[][\A e \in Devices \ {d} : ~Replan(e)]_lockVars

\* A device stopped in the middle of its cycle locks the others out for an hour
\* and no longer: whoever keeps asking, and is not under the tombstone floor,
\* gets a plan, however often the others stop -- provided that they do not, for
\* ever, stop and plan again within the hour.
AdmittedAskersGetThrough ==
    \A d \in Devices :
        OthersLetGo(d) => ((phase[d] = "asking" /\ d \notin behind) ~> phase[d] = "running")

\* docs/deploy-nas.md: the lock is released "no commit ou apos 1h de inatividade
\* da sessao", of every device and without the proviso.
BusyEnds ==
    \A d \in Devices : (phase[d] = "asking" /\ d \notin behind) ~> phase[d] = "running"

\* docs/client-pc.md: after resync_required "o proximo sync refaz o baseline
\* sozinho", so a device under the floor gets a plan as well.
AskersGetThrough ==
    \A d \in Devices : OthersLetGo(d) => (phase[d] = "asking" ~> phase[d] = "running")

TakenAway(d) == d \in DOMAIN sessions \ DOMAIN sessions' /\ phase'[d] = phase[d]

\* Another device's request takes a session away only when its owner has
\* planned nothing and stored nothing for more than SESSION_TTL.
OnlyUnfedSessionsExpire == [][\A d \in Devices : TakenAway(d) => unfed[d] > PLAN_TTL]_lockVars

\* docs/protocol.md: "expira com 1h de inatividade" -- only when its owner has
\* been silent for more than SESSION_TTL.
OnlyIdleSessionsExpire == [][\A d \in Devices : TakenAway(d) => quiet[d] > PLAN_TTL]_lockVars

=============================================================================
