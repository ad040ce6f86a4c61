---------------------------- MODULE LoginLockout ----------------------------
(***************************************************************************)
(* The lockout of one account: user_security.loginAttempts and lockedUntil *)
(* as login reads and writes them.  login reads both once, awaits bcrypt,  *)
(* and only then writes, so any number of logins judge the same snapshot.  *)
(* The lock is kept as the time it has left; password reset and approval   *)
(* do not touch either field.                                              *)
(***************************************************************************)
EXTENDS Naturals, FiniteSets

CONSTANTS
    Reqs,          \* login requests that can be in flight together
    MaxAttempts,   \* MAX_LOGIN_ATTEMPTS (5)
    LockDuration,  \* LOCK_DURATION_MINUTES (30)
    MaxAborts      \* bound on lock writes lost to a failure

ASSUME LockoutAssumption ==
    /\ MaxAttempts \in Nat \ {0} /\ LockDuration \in Nat \ {0}
    /\ MaxAborts \in Nat /\ IsFiniteSet(Reqs) /\ Reqs # {}

VARIABLES
    attempts,    \* loginAttempts, saturating at MaxAttempts: only the
                 \* comparison with the maximum is ever made
    lockLeft,    \* lockedUntil - now; 0 when null or past
    req,         \* requests in flight, with the attempts they read
    \* History variables.
    stragglers,  \* requests that began before the lock in force was set
    burst,       \* wrong passwords judged since the last success or lock
    aborts

vars == <<attempts, lockLeft, req, stragglers, burst, aborts>>

Idle == [pc |-> "idle"]
Request == {Idle} \union
    [pc : {"compare", "lock"}, good : BOOLEAN, seen : 0..MaxAttempts]

TypeOK ==
    /\ attempts \in 0..MaxAttempts
    /\ lockLeft \in 0..LockDuration
    /\ req \in [Reqs -> Request]
    /\ stragglers \subseteq Reqs
    /\ burst \in Nat
    /\ aborts \in 0..MaxAborts

Init ==
    /\ attempts = 0
    /\ lockLeft = 0
    /\ req = [r \in Reqs |-> Idle]
    /\ stragglers = {}
    /\ burst = 0
    /\ aborts = 0

InFlight(r) == req[r] # Idle
AtLeastMax(n) == n + 1 >= MaxAttempts

\* Mutant: the account lockout check is missing.
StartUnchecked(r) ==
    /\ ~InFlight(r)
    /\ \E good \in BOOLEAN :
        req' = [req EXCEPT ![r] = [pc |-> "compare", good |-> good, seen |-> attempts]]
    /\ stragglers' = stragglers \ {r}
    /\ UNCHANGED <<attempts, lockLeft, burst, aborts>>

\* The user row is read, the account is not locked, bcrypt compares.
Start(r) ==
    /\ ~InFlight(r)
    /\ lockLeft = 0
    /\ \E good \in BOOLEAN :
        req' = [req EXCEPT ![r] = [pc |-> "compare", good |-> good, seen |-> attempts]]
    /\ stragglers' = stragglers \ {r}
    /\ UNCHANGED <<attempts, lockLeft, burst, aborts>>

\* Mutant: the attempt is not counted once the counter nears the maximum.
WrongUncounted(r) ==
    /\ req[r].pc = "compare" /\ ~req[r].good
    /\ attempts' = IF attempts + 2 < MaxAttempts THEN attempts + 1 ELSE attempts
    /\ burst' = burst + 1
    /\ req' = [req EXCEPT ![r] =
         IF AtLeastMax(req[r].seen) THEN [@ EXCEPT !.pc = "lock"] ELSE Idle]
    /\ UNCHANGED <<lockLeft, stragglers, aborts>>

\* Wrong password: the row's counter is incremented in place, but whether to
\* lock is decided from the counter read before bcrypt.
Wrong(r) ==
    /\ req[r].pc = "compare" /\ ~req[r].good
    /\ attempts' = IF attempts < MaxAttempts THEN attempts + 1 ELSE attempts
    /\ burst' = burst + 1
    /\ req' = [req EXCEPT ![r] =
         IF AtLeastMax(req[r].seen) THEN [@ EXCEPT !.pc = "lock"] ELSE Idle]
    /\ UNCHANGED <<lockLeft, stragglers, aborts>>

\* Mutant: the lock is one unit too long.
LockTooLong(r) ==
    /\ req[r].pc = "lock"
    /\ lockLeft' = LockDuration + 1
    /\ req' = [req EXCEPT ![r] = Idle]
    /\ stragglers' = {q \in Reqs : InFlight(q)} \ {r}
    /\ burst' = 0
    /\ UNCHANGED <<attempts, aborts>>

\* lockedUntil is set; the counter stays where it is.
Lock(r) ==
    /\ req[r].pc = "lock"
    /\ lockLeft' = LockDuration
    /\ req' = [req EXCEPT ![r] = Idle]
    /\ stragglers' = {q \in Reqs : InFlight(q)} \ {r}
    /\ burst' = 0
    /\ UNCHANGED <<attempts, aborts>>

\* The attempt was counted and the write of lockedUntil fails.
AbortLock(r) ==
    /\ req[r].pc = "lock"
    /\ aborts < MaxAborts
    /\ aborts' = aborts + 1
    /\ req' = [req EXCEPT ![r] = Idle]
    /\ UNCHANGED <<attempts, lockLeft, stragglers, burst>>

\* Right password: counter and lock are cleared, whatever happened meanwhile.
Right(r) ==
    /\ req[r].pc = "compare" /\ req[r].good
    /\ attempts' = 0
    /\ lockLeft' = 0
    /\ req' = [req EXCEPT ![r] = Idle]
    /\ burst' = 0
    /\ UNCHANGED <<stragglers, aborts>>

Tick ==
    /\ lockLeft > 0
    /\ lockLeft' = lockLeft - 1
    /\ UNCHANGED <<attempts, req, stragglers, burst, aborts>>

Next ==
    \/ \E r \in Reqs : Start(r) \/ Wrong(r) \/ Lock(r) \/ AbortLock(r) \/ Right(r)
    \/ Tick

\* Time passes; nothing obliges anyone to log in or a handler to go on.
Spec == Init /\ [][Next]_vars /\ WF_vars(Tick)

-----------------------------------------------------------------------------

\* While the account is locked no password is judged for a login that began
\* under the lock: only for one that had read the row before it was set.
LockStopsNewLogins ==
    lockLeft > 0 => \A r \in Reqs : InFlight(r) => r \in stragglers

\* How far the stale read lets guessing go: before a lock at most
\* MaxAttempts - 2 wrong passwords beyond two per request in flight are
\* judged (one that saw a low counter, one that goes on to lock), plus one for
\* every lock write that was lost.
GuessesBounded == burst <= (MaxAttempts - 2) + 2 * Cardinality(Reqs) + aborts

\* A lock ends: logins that were in flight can renew it, but only they, so
\* an account is not kept locked by logins that keep arriving.
LockAlwaysEnds == []<>(lockLeft = 0)
=============================================================================
