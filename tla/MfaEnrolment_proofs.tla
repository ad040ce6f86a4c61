------------------------ MODULE MfaEnrolment_proofs ------------------------
(***************************************************************************)
(* Proofs about MfaEnrolment, for any number of overlapping requests, any  *)
(* number of codes in a list and any bounds.                               *)
(*                                                                         *)
(* That a dead code stays dead is not inductive alone: a verification in   *)
(* flight holds a list it will write back, so no such list may hold a dead *)
(* code either (HeldAlive), and no code is dead before its list is         *)
(* generated (Issued).                                                     *)
(*                                                                         *)
(* That a code is used once, and that the factors a user was shown work,   *)
(* holds while requests do not overlap. Then there is one request at most  *)
(* (Alone), the codes in the list and the one it has taken out are unused  *)
(* (Unused), the list it has read is the list stored (Reads), and what     *)
(* was shown is in force but for codes used or taken (Exact).              *)
(***************************************************************************)
EXTENDS MfaEnrolment, TLAPS

HeldAlive == \A r \in Reqs : req[r].pc = "spend" =>
    req[r].rest \intersect (dead \union {req[r].code}) = {}

Issued == \A c \in dead \union sec.codes : c.batch <= batches

HeldIssued == \A r \in Reqs : req[r].pc = "spend" =>
    \A c \in req[r].rest \union {req[r].code} : c.batch <= batches

IInv == TypeOK /\ HeldAlive /\ Issued /\ HeldIssued /\ DeadCodesStayDead

USE EnrolmentAssumption

-----------------------------------------------------------------------------

\* A request slot whose program counter is known holds the locals of that step.
LEMMA RequestShape ==
    ASSUME NEW q \in Request
    PROVE  /\ q.pc \in {"enable", "unset"} => q.secret \in 1..MaxSecrets
           /\ q.pc = "unset" => q.batch \in 1..MaxBatches
           /\ q.pc \in {"spend", "open"} => q.code \in Code /\ q.rest \in SUBSET Code
           /\ q.pc = "spend" => [q EXCEPT !.pc = "open"] \in Request
           /\ [q EXCEPT !.pc = "open"].pc = "open"
BY DEF Request, Idle

LEMMA BatchCodes ==
    ASSUME NEW b \in 1..MaxBatches
    PROVE  Batch(b) \in SUBSET Code /\ \A c \in Batch(b) : c.batch = b
BY DEF Batch, Code

LEMMA TypeInit == Init => TypeOK
<1> SUFFICES ASSUME Init PROVE TypeOK
  OBVIOUS
<1>1. sec \in Security /\ sec.enabled = FALSE /\ sec.secret = 0
  BY DEF Init, NoMfa, Security
<1>2. req \in [Reqs -> Request]
  BY DEF Init, Request
<1>3. uses \in [Code -> Nat] /\ shown \in [secret : 0..MaxSecrets, batch : 0..MaxBatches]
  BY DEF Init
<1>4. sec.enabled <=> sec.secret # 0
  BY <1>1
<1>5. /\ setup \in 0..MaxSecrets /\ secrets \in 0..MaxSecrets
      /\ batches \in 0..MaxBatches /\ aborts \in 0..MaxAborts
      /\ dead \subseteq Code
  BY DEF Init
<1>6. overlap \in BOOLEAN
  <2>1. overlap = FALSE
    BY DEF Init
  <2> QED BY <2>1
<1> QED BY <1>1, <1>2, <1>3, <1>4, <1>5, <1>6 DEF TypeOK

LEMMA TypeStep == TypeOK /\ [Next]_vars => TypeOK'
<1> SUFFICES ASSUME TypeOK, [Next]_vars PROVE TypeOK'
  OBVIOUS
<1> USE DEF TypeOK, To, Retire
<1>0. Idle \in Request
  BY DEF Request
<1>1. ASSUME Setup PROVE TypeOK'
  BY <1>1 DEF Setup
<1>2. ASSUME NEW r \in Reqs, EnableRead(r) PROVE TypeOK'
  BY <1>2 DEF EnableRead, Request
<1>3. ASSUME NEW r \in Reqs, EnableWrite(r) PROVE TypeOK'
  <2>1. req[r].secret \in 1..MaxSecrets /\ batches + 1 \in 1..MaxBatches
    <3>1. req[r] \in Request /\ req[r].pc = "enable"
      BY <1>3 DEF EnableWrite
    <3>2. req[r].secret \in 1..MaxSecrets
      BY <3>1, RequestShape
    <3> QED BY <1>3, <3>2 DEF EnableWrite
  <2>2. sec' \in Security /\ sec'.enabled /\ sec'.secret # 0
    BY <1>3, <2>1, BatchCodes DEF EnableWrite, Security
  <2>3. req' \in [Reqs -> Request] /\ overlap' \in BOOLEAN
    BY <1>3, <2>1 DEF EnableWrite, Request
  <2>4. dead' \subseteq Code
    BY <1>3 DEF EnableWrite, Security
  <2> QED BY <1>3, <2>1, <2>2, <2>3, <2>4 DEF EnableWrite
<1>4. ASSUME NEW r \in Reqs, EnableDone(r) PROVE TypeOK'
  <2>1. req[r] \in Request /\ req[r].pc = "unset"
    BY <1>4 DEF EnableDone
  <2>2. req[r].secret \in 1..MaxSecrets /\ req[r].batch \in 1..MaxBatches
    BY <2>1, RequestShape
  <2>3. shown' \in [secret : 0..MaxSecrets, batch : 0..MaxBatches]
    BY <1>4, <2>2 DEF EnableDone
  <2> QED BY <1>0, <1>4, <2>3 DEF EnableDone
<1>5. ASSUME NEW r \in Reqs, DisableRead(r) PROVE TypeOK'
  BY <1>5 DEF DisableRead, Request
<1>6. ASSUME NEW r \in Reqs, DisableWrite(r) PROVE TypeOK'
  BY <1>0, <1>6 DEF DisableWrite, NoMfa, Security
<1>7. ASSUME NEW r \in Reqs, RegenerateRead(r) PROVE TypeOK'
  BY <1>7 DEF RegenerateRead, Request
<1>8. ASSUME NEW r \in Reqs, RegenerateWrite(r) PROVE TypeOK'
  <2>1. batches + 1 \in 1..MaxBatches
    BY <1>8 DEF RegenerateWrite
  <2>2. /\ sec' \in Security /\ sec'.enabled = sec.enabled
        /\ sec'.secret = sec.secret
    BY <1>8, <2>1, BatchCodes DEF RegenerateWrite, Security
  <2>3. req' \in [Reqs -> Request] /\ overlap' \in BOOLEAN
    BY <1>0, <1>8 DEF RegenerateWrite
  <2>4. dead' \subseteq Code
    BY <1>8 DEF RegenerateWrite, Security
  <2> QED BY <1>8, <2>1, <2>2, <2>3, <2>4 DEF RegenerateWrite
<1>9. ASSUME NEW r \in Reqs, BackupRead(r) PROVE TypeOK'
  <2>1. PICK c \in sec.codes :
          To(r, [pc |-> "spend", code |-> c, rest |-> sec.codes \ {c}])
    BY <1>9 DEF BackupRead
  <2>2. [pc |-> "spend", code |-> c, rest |-> sec.codes \ {c}] \in Request
    BY DEF Security, Request
  <2> QED BY <1>9, <2>1, <2>2 DEF BackupRead
<1>10. ASSUME NEW r \in Reqs, BackupWrite(r) PROVE TypeOK'
  <2>1. req[r].code \in Code /\ req[r].rest \in SUBSET Code
    BY <1>10, RequestShape DEF BackupWrite
  <2>2. /\ sec' \in Security /\ sec'.enabled = sec.enabled
        /\ sec'.secret = sec.secret
    BY <1>10, <2>1 DEF BackupWrite, Security
  <2>3. req' \in [Reqs -> Request] /\ overlap' \in BOOLEAN
    BY <1>10, RequestShape DEF BackupWrite
  <2> QED BY <1>10, <2>1, <2>2, <2>3 DEF BackupWrite
<1>11. ASSUME NEW r \in Reqs, BackupDone(r) PROVE TypeOK'
  <2>1. req[r] \in Request /\ req[r].pc = "open"
    BY <1>11 DEF BackupDone
  <2>2. req[r].code \in Code
    BY <2>1, RequestShape
  <2>3. uses' \in [Code -> Nat]
    BY <1>11, <2>2 DEF BackupDone
  <2> QED BY <1>0, <1>11, <2>3 DEF BackupDone
<1>12. ASSUME Expire PROVE TypeOK'
  BY <1>12 DEF Expire
<1>13. ASSUME NEW r \in Reqs, Abort(r) PROVE TypeOK'
  BY <1>0, <1>13 DEF Abort
<1>14. CASE UNCHANGED vars
  BY <1>14 DEF vars
<1> QED
  BY <1>1, <1>2, <1>3, <1>4, <1>5, <1>6, <1>7, <1>8, <1>9, <1>10, <1>11, <1>12,
     <1>13, <1>14 DEF Next, SecurityRoutes

\* Type correctness, and that MFA is on exactly when there is a secret to
\* verify against, through any overlap of setupMfa, enableMfa, disableMfa,
\* regenerateBackupCodes and verifyMfaBackupCode.
THEOREM TypeCorrect == Spec => []TypeOK
BY TypeInit, TypeStep, PTL DEF Spec

-----------------------------------------------------------------------------

LEMMA InitInv == Init => IInv
<1> SUFFICES ASSUME Init PROVE HeldAlive /\ Issued /\ HeldIssued /\ DeadCodesStayDead
  BY TypeInit DEF IInv
<1>1. sec.codes = {} /\ dead = {} /\ \A r \in Reqs : req[r].pc # "spend"
  BY DEF Init, NoMfa, Idle
<1> QED BY <1>1 DEF HeldAlive, Issued, HeldIssued, DeadCodesStayDead

\* A handler that replaces the list with codes generated after every other one.
LEMMA Replaced ==
    ASSUME IInv, TypeOK', NEW r \in Reqs, NEW codes,
           Retire(r, sec.codes), sec'.codes = codes,
           \A c \in codes : c.batch > batches /\ c.batch <= batches',
           batches' >= batches, req[r].pc # "spend", req'[r].pc # "spend",
           \A q \in Reqs \ {r} : req'[q] = req[q]
    PROVE  (HeldAlive /\ Issued /\ HeldIssued /\ DeadCodesStayDead)'
<1> USE DEF IInv, HeldAlive, Issued, HeldIssued, DeadCodesStayDead, Retire
<1>1. /\ batches \in Nat /\ batches' \in Nat
      /\ \A c \in dead \union dead' \union sec.codes : c.batch \in Nat
      /\ \A c \in codes : c.batch \in Nat
  BY DEF TypeOK, Security, Code
<1>2. \A c \in dead' : c.batch <= batches
  OBVIOUS
<1>3. sec'.codes \intersect dead' = {}
  BY <1>1, <1>2
<1>4. HeldAlive'
  <2> SUFFICES ASSUME NEW q \in Reqs, req'[q].pc = "spend"
               PROVE  req'[q].rest \intersect (dead' \union {req'[q].code}) = {}
    OBVIOUS
  <2>1. q \in Reqs \ {r} /\ req'[q] = req[q]
    OBVIOUS
  <2> QED BY <2>1
<1>5. HeldIssued'
  <2> SUFFICES ASSUME NEW q \in Reqs, req'[q].pc = "spend",
                      NEW c \in req'[q].rest \union {req'[q].code}
               PROVE  c.batch <= batches'
    OBVIOUS
  <2>1. req'[q] = req[q] /\ c.batch <= batches
    OBVIOUS
  <2>2. c \in Code
    BY <2>1, RequestShape DEF TypeOK
  <2> QED BY <1>1, <2>1, <2>2 DEF Code
<1>6. Issued'
  BY <1>1, <1>2
<1> QED BY <1>3, <1>4, <1>5, <1>6

\* A step that leaves the list, the dead codes and the number of lists alone,
\* and starts or ends no verification's hold on a list.
LEMMA Untouched ==
    ASSUME IInv, UNCHANGED <<batches, dead>>, sec'.codes = sec.codes,
           \A q \in Reqs : req'[q].pc = "spend" => req'[q] = req[q]
    PROVE  (HeldAlive /\ Issued /\ HeldIssued /\ DeadCodesStayDead)'
BY DEF IInv, HeldAlive, Issued, HeldIssued, DeadCodesStayDead

LEMMA StepInv == IInv /\ [Next]_vars => IInv'
<1> SUFFICES ASSUME IInv, [Next]_vars
             PROVE  (HeldAlive /\ Issued /\ HeldIssued /\ DeadCodesStayDead)'
  BY TypeStep DEF IInv
<1> DEFINE Goal == (HeldAlive /\ Issued /\ HeldIssued /\ DeadCodesStayDead)'
<1>0. TypeOK /\ TypeOK' /\ Idle.pc = "idle"
  BY TypeStep DEF IInv, Idle
<1> USE DEF To
<1>1. ASSUME Setup PROVE Goal
  BY <1>1, Untouched DEF Setup
<1>2. ASSUME NEW r \in Reqs, EnableRead(r) PROVE Goal
  BY <1>0, <1>2, Untouched DEF EnableRead, TypeOK
<1>3. ASSUME NEW r \in Reqs, EnableWrite(r) PROVE Goal
  <2>1. batches + 1 \in 1..MaxBatches /\ batches' = batches + 1
    BY <1>0, <1>3 DEF EnableWrite, TypeOK
  <2>2. \A c \in Batch(batches + 1) : c.batch > batches /\ c.batch <= batches'
    BY <1>0, <2>1, BatchCodes DEF TypeOK
  <2>3. /\ sec'.codes = Batch(batches + 1) /\ Retire(r, sec.codes)
        /\ req[r].pc # "spend" /\ req'[r].pc # "spend"
        /\ \A q \in Reqs \ {r} : req'[q] = req[q]
    BY <1>0, <1>3 DEF EnableWrite, TypeOK
  <2>4. batches' >= batches
    BY <1>0, <2>1 DEF TypeOK
  <2> HIDE DEF To
  <2> QED BY <1>0, <2>2, <2>3, <2>4, Replaced
<1>4. ASSUME NEW r \in Reqs, EnableDone(r) PROVE Goal
  BY <1>0, <1>4, Untouched DEF EnableDone, TypeOK
<1>5. ASSUME NEW r \in Reqs, DisableRead(r) PROVE Goal
  BY <1>0, <1>5, Untouched DEF DisableRead, TypeOK
<1>6. ASSUME NEW r \in Reqs, DisableWrite(r) PROVE Goal
  <2>1. /\ sec'.codes = {} /\ Retire(r, sec.codes) /\ batches' = batches
        /\ req[r].pc # "spend" /\ req'[r].pc # "spend"
        /\ \A q \in Reqs \ {r} : req'[q] = req[q]
    BY <1>0, <1>6 DEF DisableWrite, NoMfa, TypeOK
  <2>2. batches' >= batches
    BY <1>0, <2>1 DEF TypeOK
  <2> HIDE DEF To
  <2> QED BY <1>0, <2>1, <2>2, Replaced
<1>7. ASSUME NEW r \in Reqs, RegenerateRead(r) PROVE Goal
  BY <1>0, <1>7, Untouched DEF RegenerateRead, TypeOK
<1>8. ASSUME NEW r \in Reqs, RegenerateWrite(r) PROVE Goal
  <2>1. batches + 1 \in 1..MaxBatches /\ batches' = batches + 1
    BY <1>0, <1>8 DEF RegenerateWrite, TypeOK
  <2>2. \A c \in Batch(batches + 1) : c.batch > batches /\ c.batch <= batches'
    BY <1>0, <2>1, BatchCodes DEF TypeOK
  <2>3. /\ sec'.codes = Batch(batches + 1) /\ Retire(r, sec.codes)
        /\ req[r].pc # "spend" /\ req'[r].pc # "spend"
        /\ \A q \in Reqs \ {r} : req'[q] = req[q]
    BY <1>0, <1>8 DEF RegenerateWrite, TypeOK, Security
  <2>4. batches' >= batches
    BY <1>0, <2>1 DEF TypeOK
  <2> HIDE DEF To
  <2> QED BY <1>0, <2>2, <2>3, <2>4, Replaced
<1>9. ASSUME NEW r \in Reqs, BackupRead(r) PROVE Goal
  <2>1. PICK c \in sec.codes :
          To(r, [pc |-> "spend", code |-> c, rest |-> sec.codes \ {c}])
    BY <1>9 DEF BackupRead
  <2>2. /\ req'[r].rest = sec.codes \ {c} /\ req'[r].code = c
        /\ \A q \in Reqs \ {r} : req'[q] = req[q]
    BY <1>0, <2>1 DEF TypeOK
  <2>3. UNCHANGED <<batches, dead, sec>>
    BY <1>9 DEF BackupRead
  <2> QED BY <2>2, <2>3 DEF IInv, HeldAlive, Issued, HeldIssued, DeadCodesStayDead
<1>10. ASSUME NEW r \in Reqs, BackupWrite(r) PROVE Goal
  <2>1. /\ req[r].pc = "spend" /\ req'[r].pc = "open"
        /\ \A q \in Reqs \ {r} : req'[q] = req[q]
    BY <1>0, <1>10, RequestShape DEF BackupWrite, TypeOK
  <2>2. /\ sec'.codes = req[r].rest /\ Retire(r, {req[r].code})
        /\ batches' = batches
    BY <1>0, <1>10 DEF BackupWrite, TypeOK, Security
  <2>3. req[r].code \notin req[r].rest
    BY <2>1 DEF IInv, HeldAlive
  <2>4. DeadCodesStayDead'
    BY <2>1, <2>2, <2>3 DEF IInv, HeldAlive, DeadCodesStayDead, Retire
  <2>5. HeldAlive'
    BY <2>1, <2>2 DEF IInv, HeldAlive, Retire
  <2>6. Issued' /\ HeldIssued'
    BY <2>1, <2>2 DEF IInv, Issued, HeldIssued, Retire
  <2> QED BY <2>4, <2>5, <2>6
<1>11. ASSUME NEW r \in Reqs, BackupDone(r) PROVE Goal
  BY <1>0, <1>11, Untouched DEF BackupDone, TypeOK
<1>12. ASSUME Expire PROVE Goal
  BY <1>12, Untouched DEF Expire
<1>13. ASSUME NEW r \in Reqs, Abort(r) PROVE Goal
  BY <1>0, <1>13, Untouched DEF Abort, TypeOK
<1>14. CASE UNCHANGED vars
  BY <1>14, Untouched DEF vars
<1> QED
  BY <1>1, <1>2, <1>3, <1>4, <1>5, <1>6, <1>7, <1>8, <1>9, <1>10, <1>11, <1>12,
     <1>13, <1>14 DEF Next, SecurityRoutes

\* A backup code that was used or replaced while no verification was about to
\* write back a list is never good again, however the handlers overlap or fail.
THEOREM DeadCodesStayDeadHolds == Spec => []DeadCodesStayDead
<1>1. IInv => DeadCodesStayDead
  BY DEF IInv
<1> QED BY <1>1, InitInv, StepInv, PTL DEF Spec

-----------------------------------------------------------------------------
(* Requests that do not overlap.  A code that a sign-in has taken out of   *)
(* the list but not yet accepted (Spent) is still unused, and what the     *)
(* user was shown last is in force but for the codes used and spent; while *)
(* an enabling has still to answer, what it will show is in force.         *)

Spent == {c \in Code : \E r \in Reqs : req[r].pc = "open" /\ req[r].code = c}

\* Codes are used only after their list was generated.
UsesIssued == \A c \in Code : uses[c] > 0 \/ c \in Spent => c.batch <= batches

UsedOnce == ~overlap => \A c \in Code : uses[c] <= 1

Alone == ~overlap => \A p, q \in Reqs : req[p] # Idle /\ req[q] # Idle => p = q

Unused == ~overlap => \A c \in sec.codes \union Spent :
    uses[c] = 0 /\ ~(c \in sec.codes /\ c \in Spent)

Reads == ~overlap => \A r \in Reqs : req[r].pc = "spend" =>
    req[r].code \in sec.codes /\ req[r].rest = sec.codes \ {req[r].code}

Good(b) == {c \in Batch(b) : uses[c] = 0 /\ c \notin Spent}

Exact == sec.enabled /\ ~overlap /\ aborts = 0 =>
    /\ (\A r \in Reqs : req[r].pc # "unset") =>
         sec.secret = shown.secret /\ sec.codes = Good(shown.batch)
    /\ \A r \in Reqs : req[r].pc = "unset" =>
         sec.secret = req[r].secret /\ sec.codes = Good(req[r].batch)

SerialInv == UsesIssued /\ UsedOnce /\ Alone /\ Unused /\ Reads /\ Exact

LEMMA SerialInit == Init => SerialInv
<1> SUFFICES ASSUME Init PROVE SerialInv
  OBVIOUS
<1>1. /\ sec.codes = {} /\ sec.enabled = FALSE /\ uses = [c \in Code |-> 0]
      /\ \A r \in Reqs : req[r] = Idle
  BY DEF Init, NoMfa
<1>2. Idle.pc = "idle"
  BY DEF Idle
<1>3. Spent = {}
  BY <1>1, <1>2 DEF Spent
<1>4. UsesIssued /\ UsedOnce /\ Unused
  BY <1>1, <1>3 DEF UsesIssued, UsedOnce, Unused
<1>5. Alone /\ Reads /\ Exact
  BY <1>1, <1>2 DEF Alone, Reads, Exact
<1> QED BY <1>4, <1>5 DEF SerialInv

\* A step of request r to next adds at most the code that next has spent; as
\* long as nothing has overlapped, r was the only one in flight.
LEMMA OneMoves ==
    ASSUME TypeOK, NEW r \in Reqs, NEW next \in Request, To(r, next)
    PROVE  /\ req'[r] = next /\ \A q \in Reqs \ {r} : req'[q] = req[q]
           /\ \A c \in Spent' : c \in Spent \/ (next.pc = "open" /\ next.code = c)
           /\ ~overlap' =>
                /\ ~overlap
                /\ \A q \in Reqs \ {r} : req[q] = Idle /\ req'[q] = Idle
                /\ Spent = IF req[r].pc = "open" THEN {req[r].code} ELSE {}
                /\ Spent' = IF next.pc = "open" THEN {next.code} ELSE {}
           /\ Alone'
<1>1. req'[r] = next /\ \A q \in Reqs \ {r} : req'[q] = req[q]
  BY DEF To, TypeOK
<1>2. \A c \in Spent' : c \in Spent \/ (next.pc = "open" /\ next.code = c)
  BY <1>1 DEF Spent
<1>3. ASSUME ~overlap'
      PROVE  ~overlap /\ \A q \in Reqs \ {r} : req[q] = Idle /\ req'[q] = Idle
  BY <1>1, <1>3 DEF To
<1>4. \A q \in Request : q.pc = "open" => q.code \in Code
  BY RequestShape
<1>5. Idle.pc = "idle" /\ req[r] \in Request
  BY DEF Idle, TypeOK
<1>6. ASSUME ~overlap'
      PROVE  /\ Spent = IF req[r].pc = "open" THEN {req[r].code} ELSE {}
             /\ Spent' = IF next.pc = "open" THEN {next.code} ELSE {}
  <2>1. \A q \in Reqs \ {r} : req[q].pc = "idle" /\ req'[q].pc = "idle"
    BY <1>3, <1>5, <1>6
  <2>2. Spent = IF req[r].pc = "open" THEN {req[r].code} ELSE {}
    BY <2>1, <1>4, <1>5 DEF Spent
  <2>3. Spent' = IF next.pc = "open" THEN {next.code} ELSE {}
    BY <2>1, <1>1, <1>4 DEF Spent
  <2> QED BY <2>2, <2>3
<1>7. Alone'
  BY <1>3 DEF Alone
<1> QED BY <1>1, <1>2, <1>3, <1>6, <1>7

\* A step that neither issues nor spends nor accepts a code keeps UsesIssued.
LEMMA StillIssued ==
    ASSUME TypeOK, TypeOK', UsesIssued, batches' >= batches,
           \A c \in Code : uses'[c] > 0 \/ c \in Spent' =>
               uses[c] > 0 \/ c \in Spent \/ c.batch <= batches
    PROVE  UsesIssued'
BY DEF UsesIssued, TypeOK, Code

\* A step that takes r between places at which it holds nothing of the list.
LEMMA Calm ==
    ASSUME TypeOK, TypeOK', SerialInv, NEW r \in Reqs, NEW next \in Request, To(r, next),
           UNCHANGED <<sec, uses, batches, shown, aborts>>,
           req[r].pc \notin {"unset", "spend", "open"},
           next.pc \notin {"unset", "spend", "open"}
    PROVE  SerialInv'
<1> USE DEF SerialInv
<1>1. /\ req'[r] = next /\ \A q \in Reqs \ {r} : req'[q] = req[q]
      /\ Spent' \in SUBSET Spent /\ (~overlap' => ~overlap /\ Spent = {} /\ Spent' = {})
      /\ Alone'
  BY OneMoves
<1>2. UsesIssued'
  <2>1. batches' >= batches
    BY DEF TypeOK
  <2> QED BY <1>1, <2>1, StillIssued
<1>3. UsedOnce'
  BY <1>1 DEF UsedOnce
<1>4. Unused' /\ Reads'
  BY <1>1 DEF Unused, Reads
<1>5. \A b : Good(b)' = Good(b) \/ overlap'
  BY <1>1 DEF Good
<1>6. Exact'
  BY <1>1, <1>5 DEF Exact, Good
<1> QED BY <1>1, <1>2, <1>3, <1>4, <1>6

\* The codes of the list generated next are neither used nor spent.
LEMMA FreshCodes ==
    ASSUME TypeOK, SerialInv, NEW b \in 1..MaxBatches, b = batches + 1
    PROVE  \A c \in Batch(b) : uses[c] = 0 /\ c \notin Spent /\ c \in Code
<1>1. Batch(b) \in SUBSET Code /\ \A c \in Batch(b) : c.batch = b
  BY BatchCodes
<1>2. \A c \in Code : uses[c] \in Nat
  BY DEF TypeOK
<1>3. ~(b <= batches)
  BY DEF TypeOK
<1> QED BY <1>1, <1>2, <1>3 DEF SerialInv, UsesIssued

LEMMA SerialStep == IInv /\ SerialInv /\ [Next]_vars => SerialInv'
<1> SUFFICES ASSUME IInv, SerialInv, [Next]_vars PROVE SerialInv'
  OBVIOUS
<1>0. TypeOK /\ TypeOK' /\ Idle.pc = "idle" /\ Idle \in Request /\ batches \in Nat
  BY TypeStep DEF IInv, Idle, TypeOK, Request
<1>1. ASSUME UNCHANGED <<sec, uses, batches, shown, aborts, req, overlap>> PROVE SerialInv'
  <2>1. Spent' = Spent
    BY <1>1 DEF Spent
  <2>2. UsesIssued' /\ UsedOnce' /\ Alone' /\ Unused' /\ Reads'
    BY <1>1, <2>1 DEF SerialInv, UsesIssued, UsedOnce, Alone, Unused, Reads
  <2>3. Exact'
    BY <1>1, <2>1 DEF SerialInv, Exact, Good
  <2> QED BY <2>2, <2>3 DEF SerialInv
<1>2. ASSUME NEW r \in Reqs, EnableRead(r) PROVE SerialInv'
  <2> DEFINE next == [pc |-> "enable", secret |-> setup]
  <2>1. next \in Request /\ next.pc = "enable" /\ To(r, next)
    BY <1>0, <1>2 DEF EnableRead, TypeOK, Request
  <2>2. UNCHANGED <<sec, uses, batches, shown, aborts>> /\ req[r].pc = "idle"
    BY <1>0, <1>2 DEF EnableRead
  <2> HIDE DEF next
  <2> QED BY <1>0, <2>1, <2>2, Calm
<1>3. ASSUME NEW r \in Reqs, DisableRead(r) \/ RegenerateRead(r) PROVE SerialInv'
  <2>1. PICK p \in {"disable", "regenerate"} : To(r, [pc |-> p])
    BY <1>3 DEF DisableRead, RegenerateRead
  <2>2. [pc |-> p] \in Request /\ [pc |-> p].pc = p
    BY DEF Request
  <2>3. UNCHANGED <<sec, uses, batches, shown, aborts>> /\ req[r].pc = "idle"
    BY <1>0, <1>3 DEF DisableRead, RegenerateRead
  <2> QED BY <1>0, <2>1, <2>2, <2>3, Calm
<1>4. ASSUME NEW r \in Reqs, EnableWrite(r) PROVE SerialInv'
  <2>1. req[r] \in Request /\ req[r].pc = "enable" /\ req[r].secret \in 1..MaxSecrets
    BY <1>0, <1>4, RequestShape DEF EnableWrite, TypeOK
  <2>2. PICK b \in 1..MaxBatches : b = batches + 1
    BY <1>0, <1>4 DEF EnableWrite, TypeOK
  <2> DEFINE next == [pc |-> "unset", secret |-> req[r].secret, batch |-> b]
  <2>3. next \in Request /\ To(r, next)
    BY <1>4, <2>1, <2>2 DEF EnableWrite, Request
  <2>4. next.pc = "unset" /\ next.secret = req[r].secret /\ next.batch = b
    OBVIOUS
  <2>5. /\ sec'.codes = Batch(b) /\ sec'.secret = req[r].secret
        /\ UNCHANGED <<uses, shown, aborts>> /\ batches' = b /\ batches' >= batches
    BY <1>0, <1>4, <2>2 DEF EnableWrite
  <2>6. \A c \in Batch(b) : uses[c] = 0 /\ c \notin Spent /\ c \in Code
    BY <1>0, <2>2, FreshCodes
  <2> HIDE DEF next
  <2>7. /\ req'[r] = next /\ \A q \in Reqs \ {r} : req'[q] = req[q]
        /\ Spent' \in SUBSET Spent /\ Alone'
        /\ ~overlap' => /\ ~overlap /\ Spent' = {}
                        /\ \A q \in Reqs \ {r} : req'[q].pc = "idle"
    BY <1>0, <2>1, <2>3, <2>4, OneMoves
  <2>8. UsesIssued' /\ UsedOnce'
    BY <1>0, <2>5, <2>7, StillIssued DEF SerialInv, UsedOnce
  <2>9. Unused' /\ Reads'
    BY <2>4, <2>5, <2>6, <2>7 DEF Unused, Reads
  <2>10. ~overlap' => Good(b)' = Batch(b)
    BY <2>5, <2>6, <2>7 DEF Good, Batch
  <2>11. Exact'
    BY <2>4, <2>5, <2>7, <2>10 DEF Exact, Good, Batch
  <2> QED BY <2>7, <2>8, <2>9, <2>11 DEF SerialInv
<1>5. ASSUME NEW r \in Reqs, EnableDone(r) PROVE SerialInv'
  <2>1. /\ req[r].pc = "unset" /\ To(r, Idle) /\ UNCHANGED <<sec, uses, batches, aborts>>
        /\ shown'.secret = req[r].secret /\ shown'.batch = req[r].batch
    BY <1>5 DEF EnableDone
  <2>2. /\ req'[r] = Idle /\ \A q \in Reqs \ {r} : req'[q] = req[q]
        /\ Spent' \in SUBSET Spent /\ Alone'
        /\ ~overlap' => /\ ~overlap /\ Spent = {} /\ Spent' = {}
                        /\ \A q \in Reqs \ {r} : req'[q].pc = "idle"
    BY <1>0, <2>1, OneMoves
  <2>3. UsesIssued' /\ UsedOnce'
    BY <1>0, <2>1, <2>2, StillIssued DEF SerialInv, UsedOnce
  <2>4. Unused' /\ Reads'
    BY <1>0, <2>1, <2>2 DEF SerialInv, Unused, Reads
  <2>5. Exact'
    BY <1>0, <2>1, <2>2 DEF SerialInv, Exact, Good
  <2> QED BY <2>2, <2>3, <2>4, <2>5 DEF SerialInv
<1>6. ASSUME NEW r \in Reqs, DisableWrite(r) PROVE SerialInv'
  <2>1. /\ req[r].pc = "disable" /\ To(r, Idle) /\ UNCHANGED <<uses, batches, aborts>>
        /\ sec'.codes = {} /\ sec'.enabled = FALSE
    BY <1>6 DEF DisableWrite, NoMfa
  <2>2. /\ req'[r] = Idle /\ \A q \in Reqs \ {r} : req'[q] = req[q]
        /\ Spent' \in SUBSET Spent /\ Alone'
        /\ ~overlap' => /\ ~overlap /\ Spent' = {}
                        /\ \A q \in Reqs \ {r} : req'[q].pc = "idle"
    BY <1>0, <2>1, OneMoves
  <2>3. UsesIssued' /\ UsedOnce'
    BY <1>0, <2>1, <2>2, StillIssued DEF SerialInv, UsedOnce
  <2>4. Unused' /\ Reads'
    BY <1>0, <2>1, <2>2 DEF Unused, Reads
  <2>5. Exact'
    BY <2>1 DEF Exact
  <2> QED BY <2>2, <2>3, <2>4, <2>5 DEF SerialInv
<1>7. ASSUME NEW r \in Reqs, RegenerateWrite(r) PROVE SerialInv'
  <2>1. PICK b \in 1..MaxBatches : b = batches + 1
    BY <1>0, <1>7 DEF RegenerateWrite, TypeOK
  <2>2. /\ req[r].pc = "regenerate" /\ To(r, Idle) /\ UNCHANGED <<uses, aborts>>
        /\ sec'.codes = Batch(b) /\ sec'.secret = sec.secret /\ sec'.enabled = sec.enabled
        /\ shown'.secret = shown.secret /\ shown'.batch = b
        /\ batches' = b /\ batches' >= batches
    BY <1>0, <1>7, <2>1 DEF RegenerateWrite, TypeOK, Security
  <2>3. \A c \in Batch(b) : uses[c] = 0 /\ c \notin Spent /\ c \in Code
    BY <1>0, <2>1, FreshCodes
  <2>4. /\ req'[r] = Idle /\ \A q \in Reqs \ {r} : req'[q] = req[q]
        /\ Spent' \in SUBSET Spent /\ Alone'
        /\ ~overlap' => /\ ~overlap /\ Spent' = {}
                        /\ \A q \in Reqs : req'[q].pc = "idle"
                        /\ \A q \in Reqs \ {r} : req[q].pc = "idle"
    BY <1>0, <2>2, OneMoves
  <2>5. UsesIssued' /\ UsedOnce'
    BY <1>0, <2>2, <2>4, StillIssued DEF SerialInv, UsedOnce
  <2>6. Unused' /\ Reads'
    BY <1>0, <2>2, <2>3, <2>4 DEF Unused, Reads
  <2>7. ~overlap' => Good(b)' = Batch(b)
    BY <2>2, <2>3, <2>4 DEF Good, Batch
  <2>8. ~overlap' => \A q \in Reqs : req[q].pc # "unset"
    BY <2>2, <2>4
  <2>9. Exact'
    BY <2>2, <2>4, <2>7, <2>8 DEF SerialInv, Exact, Good, Batch
  <2> QED BY <2>4, <2>5, <2>6, <2>9 DEF SerialInv
<1>8. ASSUME NEW r \in Reqs, BackupRead(r) PROVE SerialInv'
  <2>1. PICK c \in sec.codes :
          To(r, [pc |-> "spend", code |-> c, rest |-> sec.codes \ {c}])
    BY <1>8 DEF BackupRead
  <2> DEFINE next == [pc |-> "spend", code |-> c, rest |-> sec.codes \ {c}]
  <2>2. next \in Request /\ To(r, next)
    BY <1>0, <2>1 DEF TypeOK, Security, Request
  <2>3. next.pc = "spend" /\ next.code = c /\ next.rest = sec.codes \ {c}
    OBVIOUS
  <2>4. UNCHANGED <<sec, uses, batches, shown, aborts>> /\ req[r].pc = "idle"
    BY <1>0, <1>8 DEF BackupRead
  <2> HIDE DEF next
  <2>5. /\ req'[r] = next /\ \A q \in Reqs \ {r} : req'[q] = req[q]
        /\ Spent' \in SUBSET Spent /\ Alone'
        /\ ~overlap' => /\ ~overlap /\ Spent = {} /\ Spent' = {}
                        /\ \A q \in Reqs \ {r} : req'[q].pc = "idle"
    BY <1>0, <2>2, <2>3, <2>4, OneMoves
  <2>6. UsesIssued' /\ UsedOnce'
    BY <1>0, <2>4, <2>5, StillIssued DEF SerialInv, UsedOnce
  <2>7. Unused' /\ Reads'
    BY <2>3, <2>4, <2>5 DEF SerialInv, Unused, Reads
  <2>8. Exact'
    BY <2>3, <2>4, <2>5 DEF SerialInv, Exact, Good
  <2> QED BY <2>5, <2>6, <2>7, <2>8 DEF SerialInv
<1>9. ASSUME NEW r \in Reqs, BackupWrite(r) PROVE SerialInv'
  <2> DEFINE next == [req[r] EXCEPT !.pc = "open"]
  <2>1. /\ req[r] \in Request /\ req[r].pc = "spend" /\ req[r].code \in Code
        /\ next \in Request /\ next.pc = "open" /\ To(r, next)
    BY <1>0, <1>9, RequestShape DEF BackupWrite, TypeOK
  <2>2. next.code = req[r].code
    BY <2>1 DEF Request, Idle
  <2>3. /\ sec'.codes = req[r].rest /\ sec'.secret = sec.secret /\ sec'.enabled = sec.enabled
        /\ UNCHANGED <<uses, batches, shown, aborts>>
    BY <1>0, <1>9 DEF BackupWrite, TypeOK, Security
  <2> HIDE DEF next
  <2>4. /\ req'[r] = next /\ \A q \in Reqs \ {r} : req'[q] = req[q]
        /\ \A c \in Spent' : c \in Spent \/ c = req[r].code
        /\ Alone'
        /\ ~overlap' => /\ ~overlap /\ Spent = {} /\ Spent' = {req[r].code}
                        /\ \A q \in Reqs \ {r} : req'[q].pc = "idle" /\ req[q].pc = "idle"
    BY <1>0, <2>1, <2>2, OneMoves
  <2>5. req[r].code.batch <= batches
    BY <2>1 DEF IInv, HeldIssued
  <2>6. UsesIssued' /\ UsedOnce'
    BY <1>0, <2>3, <2>4, <2>5, StillIssued DEF SerialInv, UsedOnce
  <2>7. ~overlap' => req[r].code \in sec.codes /\ sec'.codes = sec.codes \ {req[r].code}
    BY <2>1, <2>3, <2>4 DEF SerialInv, Reads
  <2>8. Unused' /\ Reads'
    BY <2>1, <2>3, <2>4, <2>7 DEF SerialInv, Unused, Reads
  <2>9. ~overlap' => \A q \in Reqs : req[q].pc # "unset" /\ req'[q].pc # "unset"
    BY <2>1, <2>4
  <2>10. Exact'
    BY <2>3, <2>4, <2>7, <2>9 DEF SerialInv, Exact, Good
  <2> QED BY <2>4, <2>6, <2>8, <2>10 DEF SerialInv
<1>10. ASSUME NEW r \in Reqs, BackupDone(r) PROVE SerialInv'
  <2>1. /\ req[r] \in Request /\ req[r].pc = "open" /\ req[r].code \in Code /\ To(r, Idle)
        /\ UNCHANGED <<sec, batches, shown, aborts>>
    BY <1>0, <1>10, RequestShape DEF BackupDone, TypeOK
  <2>2. uses' = [uses EXCEPT ![req[r].code] = @ + 1] /\ uses \in [Code -> Nat]
    BY <1>0, <1>10 DEF BackupDone, TypeOK
  <2>3. /\ req'[r] = Idle /\ \A q \in Reqs \ {r} : req'[q] = req[q]
        /\ Spent' \in SUBSET Spent /\ Alone'
        /\ ~overlap' => /\ ~overlap /\ Spent = {req[r].code} /\ Spent' = {}
                        /\ \A q \in Reqs \ {r} : req'[q].pc = "idle" /\ req[q].pc = "idle"
    BY <1>0, <2>1, OneMoves
  <2>4. req[r].code \in Spent
    BY <2>1 DEF Spent
  <2>5. UsesIssued'
    BY <1>0, <2>1, <2>2, <2>3, <2>4, StillIssued DEF SerialInv
  <2>6. ~overlap' => uses[req[r].code] = 0 /\ req[r].code \notin sec.codes
    BY <2>3, <2>4 DEF SerialInv, Unused
  <2>7. UsedOnce'
    BY <2>1, <2>2, <2>3, <2>6 DEF SerialInv, UsedOnce
  <2>8. \A c \in sec.codes : c \in Code
    BY <1>0 DEF TypeOK, Security
  <2>9. Unused' /\ Reads'
    BY <1>0, <2>1, <2>2, <2>3, <2>6, <2>8 DEF SerialInv, Unused, Reads
  <2>10. ~overlap' => \A q \in Reqs : req[q].pc # "unset" /\ req'[q].pc # "unset"
    BY <1>0, <2>1, <2>3
  <2>11. ASSUME ~overlap' PROVE Good(shown.batch)' = Good(shown.batch)
    <3>1. \A c \in Batch(shown.batch) : c = req[r].code => uses'[c] # 0 /\ c \in Spent
      BY <2>1, <2>2, <2>4
    <3>2. \A c \in Batch(shown.batch) : c # req[r].code =>
             uses'[c] = uses[c] /\ c \notin Spent /\ c \notin Spent'
      BY <2>2, <2>3, <2>11
    <3>3. shown' = shown
      BY <2>1
    <3> QED BY <3>1, <3>2, <3>3, <2>3, <2>11 DEF Good
  <2>12. Exact'
    BY <2>1, <2>3, <2>10, <2>11 DEF SerialInv, Exact
  <2> QED BY <2>3, <2>5, <2>7, <2>9, <2>12 DEF SerialInv
<1>11. ASSUME NEW r \in Reqs, Abort(r) PROVE SerialInv'
  <2>1. To(r, Idle) /\ UNCHANGED <<sec, uses, batches>> /\ aborts' = aborts + 1
    BY <1>11 DEF Abort
  <2>2. /\ req'[r] = Idle /\ \A q \in Reqs \ {r} : req'[q] = req[q]
        /\ Spent' \in SUBSET Spent /\ Alone' /\ (~overlap' => ~overlap)
    BY <1>0, <2>1, OneMoves
  <2>3. UsesIssued' /\ UsedOnce'
    BY <1>0, <2>1, <2>2, StillIssued DEF SerialInv, UsedOnce
  <2>4. Unused' /\ Reads'
    BY <1>0, <2>1, <2>2 DEF SerialInv, Unused, Reads
  <2>5. aborts' # 0
    BY <1>0, <2>1 DEF TypeOK
  <2>6. Exact'
    BY <2>5 DEF Exact
  <2> QED BY <2>2, <2>3, <2>4, <2>6 DEF SerialInv
<1>12. ASSUME Setup \/ Expire \/ UNCHANGED vars PROVE SerialInv'
  BY <1>1, <1>12 DEF Setup, Expire, vars
<1> QED
  BY <1>2, <1>3, <1>4, <1>5, <1>6, <1>7, <1>8, <1>9, <1>10, <1>11, <1>12
     DEF Next, SecurityRoutes

\* Requests that do not overlap sign in once with a backup code, through any
\* sequence of set-ups, enablings, disablings, regenerations and failures
\* (verifyMfaBackupCode accepts the code after it has taken it from the list).
THEOREM BackupCodeOnceHolds == Spec => []BackupCodeOnce
<1>1. SerialInv => BackupCodeOnce
  BY DEF SerialInv, UsedOnce, BackupCodeOnce
<1> QED BY <1>1, InitInv, StepInv, SerialInit, SerialStep, PTL DEF Spec

\* While requests neither overlap nor stop half-way, the secret and the codes
\* last shown (enableMfa, regenerateBackupCodes) are those in force, but for
\* the codes used.
THEOREM ShownFactorsWorkHolds == Spec => []ShownFactorsWork
<1>1. SerialInv => ShownFactorsWork
  <2> SUFFICES ASSUME SerialInv, sec.enabled, ~overlap, aborts = 0,
                      \A r \in Reqs : req[r] = Idle
               PROVE  /\ sec.secret = shown.secret
                      /\ sec.codes = {c \in Batch(shown.batch) : uses[c] = 0}
    BY DEF ShownFactorsWork
  <2>1. Idle.pc = "idle" /\ \A r \in Reqs : req[r].pc = Idle.pc
    BY DEF Idle
  <2>2. Spent = {}
    BY <2>1 DEF Spent
  <2>3. sec.secret = shown.secret /\ sec.codes = Good(shown.batch)
    BY <2>1 DEF SerialInv, Exact
  <2> QED BY <2>2, <2>3 DEF Good
<1> QED BY <1>1, InitInv, StepInv, SerialInit, SerialStep, PTL DEF Spec
=============================================================================
