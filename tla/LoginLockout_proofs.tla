------------------------ MODULE LoginLockout_proofs ------------------------
(***************************************************************************)
(* Proofs about LoginLockout, for any number of concurrent logins, any     *)
(* maximum of attempts and any lock duration.                              *)
(*                                                                         *)
(* The bound on guesses is a count of request slots.  Below the maximum    *)
(* the counter has seen every guess since the last success or lock.  Once  *)
(* it is reached no login starts that may guess without locking: those     *)
(* that still may (Low) are paid for in advance, and every other guess     *)
(* leaves a request that is about to lock (Locking) or a lost lock.        *)
(***************************************************************************)
EXTENDS LoginLockout, FiniteSetTheorems, TLAPS

USE LockoutAssumption

LEMMA TypeInit == Init => TypeOK
BY DEF Init, TypeOK, Request

LEMMA TypeStep == TypeOK /\ [Next]_vars => TypeOK'
<1> SUFFICES ASSUME TypeOK, [Next]_vars PROVE TypeOK'
  OBVIOUS
<1> DEFINE Flying == [pc : {"compare", "lock"}, good : BOOLEAN, seen : 0..MaxAttempts]
<1>1. ASSUME NEW r \in Reqs, Start(r) PROVE TypeOK'
  <2>1. PICK good \in BOOLEAN :
          req' = [req EXCEPT ![r] = [pc |-> "compare", good |-> good, seen |-> attempts]]
    BY <1>1 DEF Start
  <2>2. [pc |-> "compare", good |-> good, seen |-> attempts] \in Flying
    BY DEF TypeOK
  <2> QED BY <1>1, <2>1, <2>2 DEF Start, TypeOK, Request
<1>2. ASSUME NEW r \in Reqs, Wrong(r) PROVE TypeOK'
  <2>1. req[r] \in Flying
    BY <1>2 DEF Wrong, TypeOK, Request, Idle
  <2>2. [req[r] EXCEPT !.pc = "lock"] \in Flying
    BY <2>1
  <2>3. req' \in [Reqs -> Request]
    BY <1>2, <2>2 DEF Wrong, TypeOK, Request
  <2> QED BY <1>2, <2>3 DEF Wrong, TypeOK
<1>3. ASSUME NEW r \in Reqs, Lock(r) PROVE TypeOK'
  BY <1>3 DEF Lock, TypeOK, Request
<1>4. ASSUME NEW r \in Reqs, AbortLock(r) PROVE TypeOK'
  BY <1>4 DEF AbortLock, TypeOK, Request
<1>5. ASSUME NEW r \in Reqs, Right(r) PROVE TypeOK'
  BY <1>5 DEF Right, TypeOK, Request
<1>6. ASSUME Tick PROVE TypeOK'
  BY <1>6 DEF Tick, TypeOK
<1>7. CASE UNCHANGED vars
  BY <1>7 DEF vars, TypeOK
<1> QED BY <1>1, <1>2, <1>3, <1>4, <1>5, <1>6, <1>7 DEF Next

\* Every reachable state is well typed; the lock never exceeds its duration.
THEOREM TypeCorrect == Spec => []TypeOK
BY TypeInit, TypeStep, PTL DEF Spec

\* No password is judged for a login that began while the account was locked.
THEOREM LockStopsNewLoginsHolds == Spec => []LockStopsNewLogins
<1>1. Init => LockStopsNewLogins
  BY DEF Init, LockStopsNewLogins
<1>2. TypeOK /\ LockStopsNewLogins /\ [Next]_vars => LockStopsNewLogins'
  <2> SUFFICES ASSUME TypeOK, LockStopsNewLogins, [Next]_vars
               PROVE  LockStopsNewLogins'
    OBVIOUS
  <2> USE DEF LockStopsNewLogins, InFlight
  <2>1. ASSUME NEW r \in Reqs, Start(r) PROVE LockStopsNewLogins'
    BY <2>1 DEF Start
  <2>2. ASSUME NEW r \in Reqs, Wrong(r) PROVE LockStopsNewLogins'
    <3>1. \A q \in Reqs : InFlight(q)' => InFlight(q)
      BY <2>2 DEF Wrong, TypeOK, Idle
    <3> QED BY <2>2, <3>1 DEF Wrong
  <2>3. ASSUME NEW r \in Reqs, Lock(r) PROVE LockStopsNewLogins'
    BY <2>3 DEF Lock, TypeOK
  <2>4. ASSUME NEW r \in Reqs, AbortLock(r) PROVE LockStopsNewLogins'
    BY <2>4 DEF AbortLock, TypeOK
  <2>5. ASSUME NEW r \in Reqs, Right(r) PROVE LockStopsNewLogins'
    BY <2>5 DEF Right
  <2>6. ASSUME Tick PROVE LockStopsNewLogins'
    BY <2>6 DEF Tick, TypeOK
  <2>7. CASE UNCHANGED vars
    BY <2>7 DEF vars
  <2> QED BY <2>1, <2>2, <2>3, <2>4, <2>5, <2>6, <2>7 DEF Next
<1> QED BY <1>1, <1>2, TypeCorrect, PTL DEF Spec

-----------------------------------------------------------------------------
(* Counting guesses.                                                       *)

\* Logins in flight that will not lock, whatever their password.
Low == {r \in Reqs : req[r].pc = "compare" /\ ~AtLeastMax(req[r].seen)}

\* Logins that have guessed wrong and are about to lock.
Locking == {r \in Reqs : req[r].pc = "lock"}

Counted ==
    /\ attempts + 1 < MaxAttempts => burst <= attempts
    /\ attempts + 1 >= MaxAttempts =>
         burst + Cardinality(Low)
             <= (MaxAttempts - 2) + Cardinality(Reqs) + Cardinality(Locking) + aborts

\* The cardinalities of two disjoint sets of request slots.
LEMMA Slots ==
    ASSUME NEW A \in SUBSET Reqs, NEW B \in SUBSET Reqs, A \intersect B = {}
    PROVE  /\ Cardinality(A) \in Nat /\ Cardinality(B) \in Nat
           /\ Cardinality(Reqs) \in Nat \ {0}
           /\ Cardinality(A) + Cardinality(B) <= Cardinality(Reqs)
<1>1. IsFiniteSet(A) /\ IsFiniteSet(B) /\ IsFiniteSet(A \union B)
  BY FS_Subset
<1>2. Cardinality(A) \in Nat /\ Cardinality(B) \in Nat /\ Cardinality(A \union B) \in Nat
  BY <1>1, FS_CardinalityType
<1>3. Cardinality(A \union B) = Cardinality(A) + Cardinality(B)
  <2>1. Cardinality(A \intersect B) = 0
    BY FS_EmptySet
  <2>2. Cardinality(A \union B) = Cardinality(A) + Cardinality(B) - Cardinality(A \intersect B)
    BY <1>1, FS_Union
  <2> QED BY <1>2, <2>1, <2>2
<1>4. Cardinality(A \union B) <= Cardinality(Reqs)
  BY FS_Subset
<1>5. Cardinality(Reqs) \in Nat \ {0}
  BY FS_CardinalityType, FS_EmptySet
<1> QED BY <1>2, <1>3, <1>4, <1>5

\* One slot more or less.
LEMMA OneSlot ==
    ASSUME NEW A \in SUBSET Reqs, NEW r \in Reqs
    PROVE  /\ r \in A => Cardinality(A \ {r}) = Cardinality(A) - 1
           /\ r \notin A => Cardinality(A \union {r}) = Cardinality(A) + 1
           /\ r \notin A => A \ {r} = A
BY FS_Subset, FS_AddElement, FS_RemoveElement

\* Low and Locking after a step that ends in next for request r.
LEMMA Moved ==
    ASSUME TypeOK, NEW r \in Reqs, NEW next \in Request, req' = [req EXCEPT ![r] = next]
    PROVE  /\ Low' = IF next.pc = "compare" /\ ~AtLeastMax(next.seen)
                     THEN Low \union {r} ELSE Low \ {r}
           /\ Locking' = IF next.pc = "lock" THEN Locking \union {r} ELSE Locking \ {r}
           /\ Low \in SUBSET Reqs /\ Locking \in SUBSET Reqs
           /\ Low \intersect Locking = {}
           /\ Low' \in SUBSET Reqs /\ Locking' \in SUBSET Reqs
           /\ Low' \intersect Locking' = {}
BY DEF TypeOK, Low, Locking, AtLeastMax

LEMMA CountedInit == Init => Counted
<1> SUFFICES ASSUME Init PROVE Counted
  OBVIOUS
<1>1. Low = {} /\ Locking = {} /\ attempts = 0 /\ burst = 0 /\ aborts = 0
  BY DEF Init, Low, Locking, Idle
<1>2. Cardinality(Low) = 0 /\ Cardinality(Locking) = 0
  BY <1>1, FS_EmptySet
<1>3. Cardinality(Reqs) \in Nat \ {0}
  BY Slots, <1>1
<1> QED BY <1>1, <1>2, <1>3 DEF Counted

LEMMA CountedStep == TypeOK /\ Counted /\ [Next]_vars => Counted'
<1> SUFFICES ASSUME TypeOK, Counted, [Next]_vars PROVE Counted'
  OBVIOUS
<1>0. /\ attempts \in 0..MaxAttempts /\ burst \in Nat /\ aborts \in Nat
      /\ Low \in SUBSET Reqs /\ Locking \in SUBSET Reqs /\ Low \intersect Locking = {}
      /\ Idle \in Request /\ Idle.pc = "idle"
  BY DEF TypeOK, Low, Locking, Idle, Request
<1>00. /\ Cardinality(Low) \in Nat /\ Cardinality(Locking) \in Nat
       /\ Cardinality(Reqs) \in Nat \ {0}
       /\ Cardinality(Low) + Cardinality(Locking) <= Cardinality(Reqs)
  BY <1>0, Slots
<1>1. ASSUME NEW r \in Reqs, Start(r) PROVE Counted'
  <2>1. PICK good \in BOOLEAN :
          req' = [req EXCEPT ![r] = [pc |-> "compare", good |-> good, seen |-> attempts]]
    BY <1>1 DEF Start
  <2> DEFINE next == [pc |-> "compare", good |-> good, seen |-> attempts]
  <2>2. next \in Request /\ next.pc = "compare" /\ next.seen = attempts
    BY <1>0 DEF Request
  <2>3. r \notin Low /\ r \notin Locking
    BY <1>1 DEF Start, InFlight, Low, Locking, Idle
  <2>4. req' = [req EXCEPT ![r] = next]
    BY <2>1
  <2> HIDE DEF next
  <2>5. Locking' = Locking
    BY <2>2, <2>3, <2>4, Moved, OneSlot, <1>0
  <2>6. attempts + 1 >= MaxAttempts => Low' = Low
    BY <2>2, <2>3, <2>4, Moved, OneSlot, <1>0 DEF AtLeastMax
  <2> QED BY <1>1, <2>5, <2>6 DEF Start, Counted
<1>2. ASSUME NEW r \in Reqs, Wrong(r) PROVE Counted'
  <2>1. /\ req[r] \in Request /\ req[r].pc = "compare"
        /\ [req[r] EXCEPT !.pc = "lock"] \in Request
        /\ [req[r] EXCEPT !.pc = "lock"].pc = "lock"
    BY <1>2 DEF Wrong, TypeOK, Request, Idle
  <2>2. r \notin Locking /\ (r \in Low <=> ~AtLeastMax(req[r].seen))
    BY <2>1 DEF Low, Locking
  <2>3. /\ burst' = burst + 1 /\ aborts' = aborts
        /\ attempts' = IF attempts < MaxAttempts THEN attempts + 1 ELSE attempts
    BY <1>2 DEF Wrong
  <2>4. CASE AtLeastMax(req[r].seen)
    <3>1. req' = [req EXCEPT ![r] = [req[r] EXCEPT !.pc = "lock"]]
      BY <1>2, <2>4 DEF Wrong
    <3>2. Low' = Low /\ Locking' = Locking \union {r}
      <4>1. Low' = Low \ {r} /\ Locking' = Locking \union {r}
        BY <2>1, <3>1, Moved
      <4> QED BY <2>2, <2>4, <4>1
    <3>3. Cardinality(Locking') = Cardinality(Locking) + 1
      BY <1>0, <2>2, <3>2, OneSlot
    <3> QED BY <1>0, <1>00, <2>3, <3>2, <3>3 DEF Counted
  <2>5. CASE ~AtLeastMax(req[r].seen)
    <3>1. req' = [req EXCEPT ![r] = Idle]
      BY <1>2, <2>5 DEF Wrong
    <3>2. Low' = Low \ {r} /\ Locking' = Locking
      BY <1>0, <2>2, <3>1, Moved, OneSlot
    <3>3. Cardinality(Low') = Cardinality(Low) - 1
      BY <1>0, <2>2, <2>5, <3>2, OneSlot
    <3> QED BY <1>0, <1>00, <2>3, <3>2, <3>3 DEF Counted
  <2> QED BY <2>4, <2>5
<1>3. ASSUME NEW r \in Reqs, Lock(r) PROVE Counted'
  <2>1. req' = [req EXCEPT ![r] = Idle] /\ r \in Locking
    BY <1>3 DEF Lock, Locking
  <2>2. Low' = Low /\ Locking' = Locking \ {r}
    <3>1. Low' = Low \ {r} /\ Locking' = Locking \ {r}
      BY <1>0, <2>1, Moved
    <3>2. r \notin Low
      BY <1>0, <2>1
    <3> QED BY <3>1, <3>2
  <2>3. Cardinality(Locking \ {r}) = Cardinality(Locking) - 1
    BY <1>0, <2>1, OneSlot
  <2>4. Cardinality(Locking \ {r}) \in Nat
    BY <1>0, FS_Subset, FS_CardinalityType
  <2>5. Cardinality(Low) + 1 <= Cardinality(Reqs)
    BY <1>00, <2>3, <2>4
  <2>6. burst' = 0 /\ attempts' = attempts /\ aborts' = aborts
    BY <1>3 DEF Lock
  <2> QED BY <1>0, <1>00, <2>2, <2>4, <2>5, <2>6 DEF Counted
<1>4. ASSUME NEW r \in Reqs, AbortLock(r) PROVE Counted'
  <2>1. req' = [req EXCEPT ![r] = Idle] /\ r \in Locking
    BY <1>4 DEF AbortLock, Locking
  <2>2. Low' = Low /\ Locking' = Locking \ {r}
    <3>1. Low' = Low \ {r} /\ Locking' = Locking \ {r}
      BY <1>0, <2>1, Moved
    <3>2. r \notin Low
      BY <1>0, <2>1
    <3> QED BY <3>1, <3>2
  <2>3. Cardinality(Locking \ {r}) = Cardinality(Locking) - 1
    BY <1>0, <2>1, OneSlot
  <2> QED BY <1>0, <1>00, <1>4, <2>2, <2>3 DEF AbortLock, Counted
<1>5. ASSUME NEW r \in Reqs, Right(r) PROVE Counted'
  <2>1. req' = [req EXCEPT ![r] = Idle] /\ r \notin Locking
    BY <1>5 DEF Right, Locking
  <2>2. Low' = Low \ {r} /\ Locking' = Locking
    BY <1>0, <2>1, Moved, OneSlot
  <2>3. attempts' = 0 /\ burst' = 0 /\ aborts' = aborts
    BY <1>5 DEF Right
  <2>4. ASSUME MaxAttempts = 1 PROVE Low' = {}
    <3>1. Low = {}
      BY <2>4 DEF Low, TypeOK, Request, AtLeastMax, Idle
    <3> QED BY <2>2, <3>1
  <2>5. MaxAttempts = 1 => Cardinality(Low') = 0
    BY <2>4, FS_EmptySet
  <2> QED BY <1>0, <1>00, <2>2, <2>3, <2>5 DEF Counted
<1>6. ASSUME Tick PROVE Counted'
  BY <1>6 DEF Tick, Counted, Low, Locking
<1>7. CASE UNCHANGED vars
  BY <1>7 DEF vars, Counted, Low, Locking
<1> QED BY <1>1, <1>2, <1>3, <1>4, <1>5, <1>6, <1>7 DEF Next

\* However many logins judge stale counters, before a lock no more passwords
\* are guessed than the maximum and the requests in flight account for (login
\* reads loginAttempts before bcrypt and decides by what it read).
THEOREM GuessesBoundedHolds == Spec => []GuessesBounded
<1>1. TypeOK /\ Counted => GuessesBounded
  <2> SUFFICES ASSUME TypeOK, Counted PROVE GuessesBounded
    OBVIOUS
  <2>1. Low \in SUBSET Reqs /\ Locking \in SUBSET Reqs /\ Low \intersect Locking = {}
    BY DEF Low, Locking
  <2>2. /\ Cardinality(Low) \in Nat /\ Cardinality(Locking) \in Nat
        /\ Cardinality(Reqs) \in Nat \ {0}
        /\ Cardinality(Low) + Cardinality(Locking) <= Cardinality(Reqs)
    BY <2>1, Slots
  <2> QED BY <2>2 DEF TypeOK, Counted, GuessesBounded
<1> QED BY <1>1, CountedInit, CountedStep, TypeCorrect, PTL DEF Spec
=============================================================================
