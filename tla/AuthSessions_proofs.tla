------------------------ MODULE AuthSessions_proofs ------------------------
(***************************************************************************)
(* Proofs about AuthSessions, for any users, ids, lifetimes and bounds.    *)
(*                                                                         *)
(* The invariants are not inductive alone.  IInv adds what ties a row, its *)
(* history and the requests in flight together: a live row belongs to the  *)
(* sign-in that made it and still has its first expiry (RowBinding), no    *)
(* pair was ever signed after the expiry of its session (TokenBound), a    *)
(* request in flight writes only into the session it read (Requests), and  *)
(* no password version in the system is newer than the stored one          *)
(* (PasswordOrder).                                                        *)
(***************************************************************************)
EXTENDS AuthSessions, TLAPS

SignedInTime(tok) ==
    /\ made[tok.sid] # NoRow
    /\ tok.iat <= made[tok.sid].at + SessionTTL

RowBinding ==
    \A s \in Sids : Live(s) =>
        /\ made[s] # NoRow
        /\ sess[s].user = made[s].user
        /\ sess[s].tok.sid = s
        /\ sess[s].expires = made[s].at + SessionTTL

TokenBound == \A tok \in delivered : SignedInTime(tok)

Requests ==
    \A r \in Reqs : req[r].pc \in {"rotate", "regrace"} =>
        /\ req[r].new.sid = req[r].sid
        /\ SignedInTime(req[r].new)

PasswordOrder ==
    \A u \in Users : swept[u] <= pwd[u]

SweepOrder ==
    \A r \in Reqs : req[r].pc \in {"sweep", "unkey"} => req[r].pwd <= pwd[req[r].user]

IInv ==
    /\ TypeOK
    /\ RowBinding
    /\ TokenBound
    /\ Requests
    /\ PasswordOrder
    /\ SweepOrder
    /\ ResetEndsOldSessions
    /\ CurrentTokenWasSent

-----------------------------------------------------------------------------

USE TTLAssumption

\* A request slot whose program counter is known holds the locals of that step.
LEMMA RequestShape ==
    ASSUME NEW q \in Request
    PROVE  /\ q.pc = "login" => q \in Login
           /\ q.pc = "mfa" => q \in MfaVerify
           /\ q.pc \in {"rotate", "regrace"} => q \in Rotate
           /\ q.pc = "refused" => q \in Refused
           /\ q.pc = "plan" => q \in Select
           /\ q.pc = "hash" => q \in Reset
           /\ q.pc \in {"sweep", "unkey"} => q \in Sweep
BY DEF Request, Idle, Login, MfaVerify, Rotate, Refused, Select, Reset, Sweep

\* Opening a session keeps the types of the variables it writes.
LEMMA OpenSessionType ==
    ASSUME TypeOK, NEW s \in Sids, NEW u \in Users, NEW p \in Nat,
           NEW mfa \in BOOLEAN, OpenSession(s, u, p, mfa)
    PROVE  /\ sess' \in [Sids -> Session \union {NoRow}]
           /\ delivered' \subseteq Token
           /\ made' \in [Sids -> Origin \union {NoRow}]
BY DEF OpenSession, TypeOK, Session, Origin, Token

LEMMA TypeInit == Init => TypeOK
BY DEF Init, TypeOK, Request

LEMMA TypeStep == TypeOK /\ [Next]_vars => TypeOK'
<1> SUFFICES ASSUME TypeOK, [Next]_vars PROVE TypeOK'
  OBVIOUS
<1>1. ASSUME NEW r \in Reqs, NEW u \in Users, LoginRead(r, u) PROVE TypeOK'
  BY <1>1 DEF LoginRead, TypeOK, Request, Login
<1>2. ASSUME NEW r \in Reqs, NEW s \in Sids, LoginOpen(r, s) PROVE TypeOK'
  <2>1. req[r] \in Login
    BY <1>2, RequestShape DEF LoginOpen, TypeOK
  <2>2. OpenSession(s, req[r].user, req[r].pwd, FALSE)
    BY <1>2 DEF LoginOpen
  <2>3. /\ sess' \in [Sids -> Session \union {NoRow}]
        /\ delivered' \subseteq Token
        /\ made' \in [Sids -> Origin \union {NoRow}]
    BY <2>1, <2>2, OpenSessionType DEF Login
  <2> QED BY <1>2, <2>3 DEF LoginOpen, TypeOK, Request
<1>3. ASSUME NEW r \in Reqs, NEW s \in Sids, MfaOpen(r, s) PROVE TypeOK'
  <2>1. req[r] \in MfaVerify
    BY <1>3, RequestShape DEF MfaOpen, TypeOK
  <2>2. OpenSession(s, req[r].user, req[r].pwd, TRUE)
    BY <1>3 DEF MfaOpen
  <2>3. /\ sess' \in [Sids -> Session \union {NoRow}]
        /\ delivered' \subseteq Token
        /\ made' \in [Sids -> Origin \union {NoRow}]
    BY <2>1, <2>2, OpenSessionType DEF MfaVerify
  <2> QED BY <1>3, <2>3 DEF MfaOpen, TypeOK, Request
<1>4. ASSUME NEW r \in Reqs, NEW t \in Temps, LoginAskMfa(r, t) PROVE TypeOK'
  <2>1. req[r] \in Login
    BY <1>4, RequestShape DEF LoginAskMfa, TypeOK
  <2>2. [user |-> req[r].user, pwd |-> req[r].pwd, until |-> now + TempTTL] \in TempKey
    BY <2>1 DEF Login, TempKey, TypeOK
  <2> QED BY <1>4, <2>2 DEF LoginAskMfa, TypeOK, Request
<1>5. ASSUME NEW r \in Reqs, NEW t \in Temps, MfaRead(r, t) PROVE TypeOK'
  <2>1. temps[t] \in TempKey
    BY <1>5 DEF MfaRead, Stored, TypeOK
  <2>2. [pc |-> "mfa", user |-> temps[t].user, pwd |-> temps[t].pwd, temp |-> t]
          \in MfaVerify
    BY <2>1 DEF TempKey, MfaVerify
  <2> QED BY <1>5, <2>2 DEF MfaRead, TypeOK, Request
<1>6. ASSUME NEW r \in Reqs, NEW tok \in delivered, RefreshRead(r, tok)
      PROVE  TypeOK'
  <2>1. PICK s \in HeldBy(tok) : req' = [req EXCEPT ![r] =
             [pc |-> "rotate", sid |-> s, old |-> tok,
              new |-> [sid |-> s, mfa |-> TRUE, iat |-> now]]]
    BY <1>6 DEF RefreshRead
  <2>2. [pc |-> "rotate", sid |-> s, old |-> tok,
         new |-> [sid |-> s, mfa |-> TRUE, iat |-> now]] \in Rotate
    BY DEF Rotate, HeldBy, Token, TypeOK
  <2> QED BY <1>6, <2>1, <2>2 DEF RefreshRead, TypeOK, Request
<1>7. ASSUME NEW r \in Reqs, NEW tok \in delivered, RefreshGraced(r, tok)
      PROVE  TypeOK'
  BY <1>7 DEF RefreshGraced, TypeOK, Request, Refused
<1>8. ASSUME NEW tok \in delivered, RefreshExpired(tok) PROVE TypeOK'
  BY <1>8 DEF RefreshExpired, TypeOK
<1>9. ASSUME NEW s \in Sids, EndSession(s) PROVE TypeOK'
  BY <1>9 DEF EndSession, TypeOK
<1>10. ASSUME NEW r \in Reqs, RefreshWrite(r) PROVE TypeOK'
  <2>1. req[r] \in Rotate
    BY <1>10, RequestShape DEF RefreshWrite, TypeOK
  <2>2. [req[r] EXCEPT !.pc = "regrace"] \in Rotate
    BY <2>1 DEF Rotate
  <2>3. Live(req[r].sid) =>
          [sess[req[r].sid] EXCEPT !.tok = req[r].new] \in Session
    BY <2>1 DEF Rotate, Session, Live, TypeOK
  <2>4. CASE Live(req[r].sid)
    BY <1>10, <2>1, <2>2, <2>3, <2>4 DEF RefreshWrite, TypeOK, Request
  <2>5. CASE ~Live(req[r].sid)
    BY <1>10, <2>5 DEF RefreshWrite, TypeOK, Request
  <2> QED BY <2>4, <2>5
<1>11. ASSUME NEW r \in Reqs, RefreshAnswer(r) PROVE TypeOK'
  <2>1. req[r] \in Rotate
    BY <1>11, RequestShape DEF RefreshAnswer, TypeOK
  <2>2. [tok |-> req[r].old, sid |-> req[r].sid, until |-> now + GraceTTL] \in GraceKey
    BY <2>1 DEF Rotate, GraceKey, TypeOK
  <2>3. req[r].new \in Token
    BY <2>1 DEF Rotate
  <2> QED BY <1>11, <2>2, <2>3 DEF RefreshAnswer, TypeOK, Request
<1>12. ASSUME NEW r \in Reqs, RefreshRefused(r) PROVE TypeOK'
  BY <1>12 DEF RefreshRefused, TypeOK, Request
<1>13. ASSUME NEW u \in Users, NEW k \in Resets, GrantReset(u, k) PROVE TypeOK'
  BY <1>13 DEF GrantReset, TypeOK, ResetKey
<1>14. ASSUME NEW r \in Reqs, NEW k \in Resets, ResetRead(r, k) PROVE TypeOK'
  <2>1. resets[k] \in ResetKey
    BY <1>14 DEF ResetRead, Stored, TypeOK
  <2>2. [pc |-> "hash", user |-> resets[k].user, reset |-> k] \in Reset
    BY <2>1 DEF ResetKey, Reset
  <2> QED BY <1>14, <2>2 DEF ResetRead, TypeOK, Request
<1>15. ASSUME NEW r \in Reqs, ResetWrite(r) PROVE TypeOK'
  <2>1. req[r] \in Reset
    BY <1>15, RequestShape DEF ResetWrite, TypeOK
  <2>2. [pc |-> "sweep", user |-> req[r].user, reset |-> req[r].reset,
         pwd |-> pwd[req[r].user] + 1] \in Sweep
    BY <2>1 DEF Reset, Sweep, TypeOK
  <2> QED BY <1>15, <2>1, <2>2 DEF ResetWrite, TypeOK, Request, Reset
<1>16. ASSUME NEW r \in Reqs, ResetSweep(r) PROVE TypeOK'
  <2>1. req[r] \in Sweep
    BY <1>16, RequestShape DEF ResetSweep, TypeOK
  <2>2. [req[r] EXCEPT !.pc = "unkey"] \in Sweep
    BY <2>1 DEF Sweep
  <2> QED BY <1>16, <2>1, <2>2 DEF ResetSweep, TypeOK, Request, Sweep
<1>17. ASSUME NEW r \in Reqs, ResetDone(r) PROVE TypeOK'
  BY <1>17 DEF ResetDone, TypeOK, Request
<1>18. ASSUME Tick PROVE TypeOK'
  BY <1>18 DEF Tick, Expire, TypeOK
<1>19. ASSUME Crash PROVE TypeOK'
  <2>1. \A r \in Reqs : req[r].pc = "regrace" => req[r].new \in Token
    BY RequestShape DEF TypeOK, Rotate
  <2> QED BY <1>19, <2>1 DEF Crash, TypeOK, Request
<1>20. CASE UNCHANGED vars
  BY <1>20 DEF vars, TypeOK
<1>21. ASSUME NEW r \in Reqs, NEW tok \in delivered \union aside, SelectRead(r, tok)
       PROVE  TypeOK'
  BY <1>21 DEF SelectRead, TypeOK, Request, Select
<1>22. ASSUME NEW r \in Reqs, SelectAnswer(r) PROVE TypeOK'
  <2>1. req[r] \in Select
    BY <1>22, RequestShape DEF SelectAnswer, TypeOK
  <2>2. [req[r].tok EXCEPT !.iat = now] \in Token
    BY <2>1 DEF Select, Token, TypeOK
  <2> QED BY <1>22, <2>2 DEF SelectAnswer, TypeOK, Request
<1> QED
  BY <1>1, <1>2, <1>3, <1>4, <1>5, <1>6, <1>7, <1>8, <1>9, <1>10, <1>11, <1>12,
     <1>13, <1>14, <1>15, <1>16, <1>17, <1>18, <1>19, <1>20,
     <1>21, <1>22 DEF Next

\* Every reachable state is well typed: rows, keys, requests and histories.
THEOREM TypeCorrect == Spec => []TypeOK
BY TypeInit, TypeStep, PTL DEF Spec

-----------------------------------------------------------------------------

\* What opening a session does to the rows, the tokens and the history.
LEMMA OpenSessionInv ==
    ASSUME IInv, TypeOK', NEW s \in Sids, NEW u \in Users, NEW p \in Nat,
           NEW mfa \in BOOLEAN, OpenSession(s, u, p, mfa),
           UNCHANGED <<now, pwd, swept, lost>>,
           \A q \in Reqs : req'[q] = req[q] \/ req'[q] = Idle,
           \A q \in Reqs : req[q].pc = "regrace" => req'[q] = req[q]
    PROVE  IInv'
<1> USE DEF Live, SignedInTime
<1> DEFINE tok == [sid |-> s, mfa |-> mfa, iat |-> now]
<1>1. /\ made[s] = NoRow
      /\ sess' = [sess EXCEPT ![s] =
           [user |-> u, tok |-> tok, expires |-> now + SessionTTL]]
      /\ delivered' = delivered \union {tok}
      /\ made' = [made EXCEPT ![s] =
           [user |-> u, pwd |-> p, late |-> p # pwd[u], mfa |-> mfa, at |-> now]]
  BY DEF OpenSession
<1>2. /\ made'[s] # NoRow
      /\ made'[s].user = u /\ made'[s].pwd = p /\ made'[s].late = (p # pwd[u])
      /\ made'[s].at = now
      /\ \A x \in Sids : x # s => made'[x] = made[x] /\ sess'[x] = sess[x]
      /\ sess'[s].user = u /\ sess'[s].tok = tok /\ sess'[s].expires = now + SessionTTL
      /\ now \in Nat
  BY <1>1 DEF IInv, TypeOK, NoRow
<1>3. RowBinding'
  BY <1>2, tok.sid = s DEF IInv, RowBinding
<1>4. \A x \in Token : SignedInTime(x) => SignedInTime(x)'
  BY <1>1, <1>2 DEF IInv, Token
<1>5. TokenBound'
  <2>1. SignedInTime(tok)'
    BY <1>2, tok.sid = s, tok.iat = now
  <2> QED BY <1>1, <1>4, <2>1 DEF IInv, TokenBound, TypeOK
<1>6. Requests'
  <2>1. ASSUME NEW q \in Reqs, req'[q].pc \in {"rotate", "regrace"}
        PROVE  (req[q].new.sid = req[q].sid /\ SignedInTime(req[q].new))'
    <3>1. req'[q] = req[q]
      BY <2>1 DEF Idle
    <3>2. req[q].new \in Token
      BY <2>1, <3>1, RequestShape DEF IInv, TypeOK, Rotate
    <3>3. req[q].new.sid = req[q].sid /\ SignedInTime(req[q].new)
      BY <2>1, <3>1 DEF IInv, Requests
    <3>4. SignedInTime(req[q].new)'
      BY <1>4, <3>1, <3>2, <3>3
    <3> QED BY <3>1, <3>3, <3>4
  <2> QED BY <2>1 DEF Requests
<1>7. PasswordOrder' /\ SweepOrder'
  BY DEF IInv, PasswordOrder, SweepOrder, Idle
<1>8. ResetEndsOldSessions'
  <2>1. p = pwd[u] => p >= swept[u]
    BY DEF IInv, PasswordOrder, TypeOK
  <2> QED BY <1>2, <2>1 DEF IInv, ResetEndsOldSessions
<1>9. CurrentTokenWasSent'
  <2> SUFFICES ASSUME NEW x \in Sids, Live(x)'
               PROVE  \/ sess'[x].tok \in delivered' \union lost'
                      \/ \E q \in Reqs : req'[q].pc = "regrace" /\ req'[q].new = sess'[x].tok
    BY DEF CurrentTokenWasSent
  <2>1. CASE x = s
    BY <1>1, <1>2, <2>1
  <2>2. CASE x # s
    BY <1>1, <1>2, <2>2 DEF IInv, CurrentTokenWasSent
  <2> QED BY <2>1, <2>2
<1> QED BY <1>3, <1>5, <1>6, <1>7, <1>8, <1>9 DEF IInv

\* Deleting rows disturbs nothing when the tokens and histories stay as they are.
LEMMA DeleteRows ==
    ASSUME IInv, TypeOK',
           \A s \in Sids : sess'[s] = sess[s] \/ sess'[s] = NoRow,
           UNCHANGED <<now, pwd, req, delivered, made, swept, lost>>
    PROVE  IInv'
<1>1. RowBinding' /\ TokenBound' /\ Requests' /\ PasswordOrder' /\ SweepOrder'
  BY DEF IInv, RowBinding, TokenBound, Requests, PasswordOrder, SweepOrder, Live,
         SignedInTime
<1>2. ResetEndsOldSessions' /\ CurrentTokenWasSent'
  BY DEF IInv, ResetEndsOldSessions, CurrentTokenWasSent, Live
<1> QED BY <1>1, <1>2 DEF IInv

\* A request that only moves its own slot to a state outside a rotation and a
\* sweep, and was not about to send a pair, leaves the invariant alone.
LEMMA MoveSlot ==
    ASSUME IInv, TypeOK', NEW r \in Reqs,
           \A q \in Reqs : q # r => req'[q] = req[q],
           req'[r].pc \notin {"rotate", "regrace", "sweep", "unkey"},
           req[r].pc # "regrace",
           UNCHANGED <<sess, pwd, delivered, made, swept, lost>>
    PROVE  IInv'
<1>1. RowBinding' /\ TokenBound' /\ PasswordOrder' /\ ResetEndsOldSessions'
  BY DEF IInv, RowBinding, TokenBound, PasswordOrder, ResetEndsOldSessions, Live,
         SignedInTime
<1>2. Requests' /\ SweepOrder'
  BY DEF IInv, Requests, SweepOrder, SignedInTime, TypeOK
<1>3. CurrentTokenWasSent'
  <2>1. \A x \in Reqs : req[x].pc = "regrace" => req'[x] = req[x]
    BY DEF IInv, TypeOK
  <2> QED BY <2>1 DEF IInv, CurrentTokenWasSent, Live
<1> QED BY <1>1, <1>2, <1>3 DEF IInv

LEMMA InitInv == Init => IInv
<1> SUFFICES ASSUME Init PROVE IInv
  OBVIOUS
<1>1. TypeOK
  BY TypeInit
<1>2. RowBinding /\ TokenBound /\ ResetEndsOldSessions /\ CurrentTokenWasSent
  BY DEF Init, RowBinding, TokenBound, ResetEndsOldSessions, CurrentTokenWasSent, Live
<1>3. Requests /\ PasswordOrder /\ SweepOrder
  BY DEF Init, Requests, PasswordOrder, SweepOrder, Idle
<1> QED BY <1>1, <1>2, <1>3 DEF IInv

LEMMA StepInv == IInv /\ [Next]_vars => IInv'
<1> SUFFICES ASSUME IInv, [Next]_vars PROVE IInv'
  OBVIOUS
<1> TypeOK /\ TypeOK'
  BY TypeStep DEF IInv
<1> USE DEF Live
<1>1. ASSUME NEW r \in Reqs, NEW u \in Users, LoginRead(r, u) PROVE IInv'
  BY <1>1, MoveSlot DEF LoginRead, Idle, TypeOK
<1>2. ASSUME NEW r \in Reqs, NEW s \in Sids, LoginOpen(r, s) PROVE IInv'
  <2>1. req[r] \in Login
    BY <1>2, RequestShape DEF LoginOpen, TypeOK
  <2>2. \A q \in Reqs : /\ req'[q] = req[q] \/ req'[q] = Idle
                        /\ req[q].pc = "regrace" => req'[q] = req[q]
    BY <1>2 DEF LoginOpen, TypeOK
  <2> QED BY <1>2, <2>1, <2>2, OpenSessionInv DEF LoginOpen, Login
<1>3. ASSUME NEW r \in Reqs, NEW s \in Sids, MfaOpen(r, s) PROVE IInv'
  <2>1. req[r] \in MfaVerify
    BY <1>3, RequestShape DEF MfaOpen, TypeOK
  <2>2. \A q \in Reqs : /\ req'[q] = req[q] \/ req'[q] = Idle
                        /\ req[q].pc = "regrace" => req'[q] = req[q]
    BY <1>3 DEF MfaOpen, TypeOK
  <2> QED BY <1>3, <2>1, <2>2, OpenSessionInv DEF MfaOpen, MfaVerify
<1>4. ASSUME NEW r \in Reqs, NEW t \in Temps, LoginAskMfa(r, t) PROVE IInv'
  BY <1>4, MoveSlot DEF LoginAskMfa, Idle, TypeOK
<1>5. ASSUME NEW r \in Reqs, NEW t \in Temps, MfaRead(r, t) PROVE IInv'
  BY <1>5, MoveSlot DEF MfaRead, Idle, TypeOK
<1>6. ASSUME NEW r \in Reqs, NEW tok \in delivered, RefreshRead(r, tok) PROVE IInv'
  <2>1. PICK s \in Sids :
          /\ Live(s)
          /\ now <= sess[s].expires
          /\ req' = [req EXCEPT ![r] =
               [pc |-> "rotate", sid |-> s, old |-> tok,
                new |-> [sid |-> s, mfa |-> TRUE, iat |-> now]]]
    BY <1>6 DEF RefreshRead, HeldBy
  <2>2. made[s] # NoRow /\ now <= made[s].at + SessionTTL
    BY <2>1 DEF IInv, RowBinding
  <2>3. Requests'
    <3>1. (req[r].new.sid = req[r].sid /\ SignedInTime(req[r].new))'
      BY <1>6, <2>1, <2>2 DEF RefreshRead, SignedInTime, TypeOK
    <3>2. \A q \in Reqs : q # r => req'[q] = req[q]
      BY <2>1 DEF TypeOK
    <3> QED BY <1>6, <3>1, <3>2 DEF RefreshRead, IInv, Requests, SignedInTime
  <2>4. RowBinding' /\ TokenBound' /\ PasswordOrder' /\ ResetEndsOldSessions'
    BY <1>6 DEF RefreshRead, IInv, RowBinding, TokenBound, PasswordOrder,
                ResetEndsOldSessions, SignedInTime
  <2>5. SweepOrder'
    BY <1>6, <2>1 DEF RefreshRead, IInv, SweepOrder, TypeOK
  <2>6. CurrentTokenWasSent'
    <3>1. \A q \in Reqs : req[q].pc = "regrace" => req'[q] = req[q]
      BY <1>6, <2>1 DEF RefreshRead, TypeOK, Idle
    <3> QED BY <1>6, <3>1 DEF RefreshRead, IInv, CurrentTokenWasSent
  <2> QED BY <2>3, <2>4, <2>5, <2>6 DEF IInv
<1>7. ASSUME NEW r \in Reqs, NEW tok \in delivered, RefreshGraced(r, tok) PROVE IInv'
  BY <1>7, MoveSlot DEF RefreshGraced, Idle, TypeOK
<1>8. ASSUME NEW tok \in delivered, RefreshExpired(tok) PROVE IInv'
  BY <1>8, DeleteRows DEF RefreshExpired, TypeOK
<1>9. ASSUME NEW s \in Sids, EndSession(s) PROVE IInv'
  BY <1>9, DeleteRows DEF EndSession, TypeOK
<1>10. ASSUME NEW r \in Reqs, RefreshWrite(r) PROVE IInv'
  <2> DEFINE s == req[r].sid
  <2>1. req[r] \in Rotate /\ req[r].pc = "rotate"
    BY <1>10, RequestShape DEF RefreshWrite, TypeOK
  <2>2. /\ s \in Sids /\ req[r].new \in Token
        /\ req[r].new.sid = s /\ SignedInTime(req[r].new)
    BY <2>1 DEF Rotate, IInv, Requests
  <2>3. CASE ~Live(s)
    BY <1>10, <2>1, <2>3, MoveSlot DEF RefreshWrite, Idle, TypeOK
  <2>4. CASE Live(s)
    <3>1. /\ sess' = [sess EXCEPT ![s].tok = req[r].new]
          /\ req' = [req EXCEPT ![r].pc = "regrace"]
          /\ UNCHANGED <<now, pwd, delivered, made, swept, lost>>
      BY <1>10, <2>4 DEF RefreshWrite
    <3>2. /\ sess[s] \in Session
          /\ sess'[s].tok = req[r].new /\ sess'[s].user = sess[s].user
          /\ sess'[s].expires = sess[s].expires
          /\ \A x \in Sids : x # s => sess'[x] = sess[x]
      BY <2>2, <2>4, <3>1 DEF TypeOK, Session
    <3>3. /\ req'[r].pc = "regrace"
          /\ req'[r].new = req[r].new /\ req'[r].sid = req[r].sid
          /\ \A q \in Reqs : q # r => req'[q] = req[q]
      BY <2>1, <3>1 DEF TypeOK, Rotate
    <3>4. RowBinding'
      BY <2>2, <2>4, <3>1, <3>2 DEF IInv, RowBinding
    <3>5. TokenBound' /\ PasswordOrder'
      BY <3>1 DEF IInv, TokenBound, PasswordOrder, SignedInTime
    <3>6. Requests' /\ SweepOrder'
      BY <2>1, <2>2, <3>1, <3>3 DEF IInv, Requests, SweepOrder, SignedInTime
    <3>7. ResetEndsOldSessions'
      BY <2>4, <3>1, <3>2 DEF IInv, ResetEndsOldSessions
    <3>8. CurrentTokenWasSent'
      BY <2>1, <3>1, <3>2, <3>3 DEF IInv, CurrentTokenWasSent
    <3> QED BY <3>4, <3>5, <3>6, <3>7, <3>8 DEF IInv
  <2> QED BY <2>3, <2>4
<1>11. ASSUME NEW r \in Reqs, RefreshAnswer(r) PROVE IInv'
  <2>1. req[r] \in Rotate /\ req[r].pc = "regrace"
    BY <1>11, RequestShape DEF RefreshAnswer, TypeOK
  <2>2. /\ req[r].new \in Token /\ SignedInTime(req[r].new)
    BY <2>1 DEF Rotate, IInv, Requests
  <2>3. /\ UNCHANGED <<now, pwd, sess, made, swept>>
        /\ delivered' \subseteq delivered \union {req[r].new}
        /\ delivered \union lost \union {req[r].new} \subseteq delivered' \union lost'
        /\ req'[r] = Idle
        /\ \A q \in Reqs : q # r => req'[q] = req[q]
    BY <1>11 DEF RefreshAnswer, TypeOK
  <2>4. RowBinding' /\ PasswordOrder' /\ ResetEndsOldSessions'
    BY <2>3 DEF IInv, RowBinding, PasswordOrder, ResetEndsOldSessions
  <2>5. TokenBound'
    BY <2>2, <2>3 DEF IInv, TokenBound, SignedInTime
  <2>6. Requests' /\ SweepOrder'
    BY <2>3 DEF IInv, Requests, SweepOrder, SignedInTime, Idle
  <2>7. CurrentTokenWasSent'
    BY <2>3 DEF IInv, CurrentTokenWasSent
  <2> QED BY <2>4, <2>5, <2>6, <2>7 DEF IInv
<1>12. ASSUME NEW r \in Reqs, RefreshRefused(r) PROVE IInv'
  BY <1>12, MoveSlot DEF RefreshRefused, Idle, TypeOK
<1>13. ASSUME NEW u \in Users, NEW k \in Resets, GrantReset(u, k) PROVE IInv'
  BY <1>13, DeleteRows DEF GrantReset
<1>14. ASSUME NEW r \in Reqs, NEW k \in Resets, ResetRead(r, k) PROVE IInv'
  BY <1>14, MoveSlot DEF ResetRead, Idle, TypeOK
<1>15. ASSUME NEW r \in Reqs, ResetWrite(r) PROVE IInv'
  <2> DEFINE u == req[r].user
  <2>1. u \in Users
    BY <1>15, RequestShape DEF ResetWrite, TypeOK, Reset
  <2>2. /\ UNCHANGED <<now, sess, delivered, made, swept, lost>>
        /\ pwd'[u] = pwd[u] + 1
        /\ \A v \in Users : v # u => pwd'[v] = pwd[v]
        /\ req'[r].pc = "sweep" /\ req'[r].user = u /\ req'[r].pwd = pwd[u] + 1
        /\ \A q \in Reqs : q # r => req'[q] = req[q]
    BY <1>15, <2>1 DEF ResetWrite, TypeOK
  <2>3. RowBinding' /\ TokenBound' /\ ResetEndsOldSessions'
    BY <2>2 DEF IInv, RowBinding, TokenBound, ResetEndsOldSessions, SignedInTime
  <2>4. Requests'
    BY <2>2 DEF IInv, Requests, SignedInTime
  <2>5. PasswordOrder'
    BY <2>1, <2>2 DEF IInv, PasswordOrder, TypeOK
  <2>6. SweepOrder'
    <3>1. \A v \in Users : pwd[v] <= pwd'[v]
      BY <2>1, <2>2 DEF TypeOK
    <3>2. ASSUME NEW q \in Reqs, q # r, req[q].pc \in {"sweep", "unkey"}
          PROVE  req[q].pwd <= pwd'[req[q].user]
      <4>1. req[q].user \in Users /\ req[q].pwd \in Nat
        BY <3>2, RequestShape DEF TypeOK, Sweep
      <4>2. req[q].pwd <= pwd[req[q].user]
        BY <3>2 DEF IInv, SweepOrder
      <4> QED BY <3>1, <4>1, <4>2 DEF TypeOK
    <3> QED BY <2>1, <2>2, <3>2 DEF SweepOrder, TypeOK
  <2>7. CurrentTokenWasSent'
    BY <1>15, <2>2 DEF ResetWrite, IInv, CurrentTokenWasSent
  <2> QED BY <2>3, <2>4, <2>5, <2>6, <2>7 DEF IInv
<1>16. ASSUME NEW r \in Reqs, ResetSweep(r) PROVE IInv'
  <2> DEFINE u == req[r].user
  <2>1. req[r] \in Sweep /\ u \in Users /\ req[r].pwd \in Nat /\ req[r].pc = "sweep"
    BY <1>16, RequestShape DEF ResetSweep, TypeOK, Sweep
  <2>2. /\ UNCHANGED <<now, pwd, delivered, made, lost>>
        /\ \A s \in Sids : \/ sess'[s] = NoRow
                           \/ sess'[s] = sess[s] /\ (Live(s) => sess[s].user # u)
        /\ swept'[u] = (IF swept[u] < req[r].pwd THEN req[r].pwd ELSE swept[u])
        /\ \A v \in Users : v # u => swept'[v] = swept[v]
    BY <1>16, <2>1 DEF ResetSweep, TypeOK
  <2>3. /\ req'[r].pc = "unkey" /\ req'[r].user = u /\ req'[r].pwd = req[r].pwd
        /\ \A q \in Reqs : q # r => req'[q] = req[q]
    BY <1>16, <2>1 DEF ResetSweep, TypeOK, Sweep
  <2>4. RowBinding' /\ TokenBound'
    BY <2>2 DEF IInv, RowBinding, TokenBound, SignedInTime
  <2>5. Requests' /\ SweepOrder'
    BY <2>1, <2>2, <2>3 DEF IInv, Requests, SweepOrder, SignedInTime
  <2>6. PasswordOrder'
    BY <2>1, <2>2 DEF IInv, PasswordOrder, SweepOrder, TypeOK
  <2>7. ResetEndsOldSessions'
    <3>1. ASSUME NEW s \in Sids, Live(s)' PROVE sess[s].user # u /\ sess'[s] = sess[s]
                                                 /\ sess[s].user \in Users
      BY <2>2, <3>1 DEF TypeOK, Session
    <3> QED BY <2>2, <3>1 DEF IInv, ResetEndsOldSessions
  <2>8. CurrentTokenWasSent'
    BY <2>1, <2>2, <2>3 DEF IInv, CurrentTokenWasSent
  <2> QED BY <2>4, <2>5, <2>6, <2>7, <2>8 DEF IInv
<1>17. ASSUME NEW r \in Reqs, ResetDone(r) PROVE IInv'
  BY <1>17, MoveSlot DEF ResetDone, Idle, TypeOK
<1>18. ASSUME Tick PROVE IInv'
  <2>1. UNCHANGED <<pwd, sess, req, delivered, made, swept, lost>>
    BY <1>18 DEF Tick
  <2>2. RowBinding' /\ TokenBound' /\ Requests' /\ PasswordOrder' /\ SweepOrder'
    BY <2>1 DEF IInv, RowBinding, TokenBound, Requests, PasswordOrder, SweepOrder,
                SignedInTime
  <2>3. ResetEndsOldSessions' /\ CurrentTokenWasSent'
    BY <2>1 DEF IInv, ResetEndsOldSessions, CurrentTokenWasSent
  <2> QED BY <2>2, <2>3 DEF IInv
<1>19. ASSUME Crash PROVE IInv'
  <2>1. /\ UNCHANGED <<now, pwd, sess, delivered, made, swept>>
        /\ \A q \in Reqs : req'[q] = Idle
        /\ lost \subseteq lost'
        /\ \A q \in Reqs : req[q].pc = "regrace" => req[q].new \in lost'
    BY <1>19 DEF Crash
  <2>2. RowBinding' /\ TokenBound' /\ PasswordOrder' /\ ResetEndsOldSessions'
    BY <2>1 DEF IInv, RowBinding, TokenBound, PasswordOrder, ResetEndsOldSessions,
                SignedInTime
  <2>3. Requests' /\ SweepOrder'
    BY <2>1 DEF Requests, SweepOrder, Idle
  <2>4. CurrentTokenWasSent'
    BY <2>1 DEF IInv, CurrentTokenWasSent
  <2> QED BY <2>2, <2>3, <2>4 DEF IInv
<1>20. CASE UNCHANGED vars
  <2>1. UNCHANGED <<now, pwd, sess, req, delivered, made, swept, lost>>
    BY <1>20 DEF vars
  <2> QED BY <2>1, DeleteRows
<1>21. ASSUME NEW r \in Reqs, NEW tok \in delivered \union aside, SelectRead(r, tok)
       PROVE  IInv'
  BY <1>21, MoveSlot DEF SelectRead, Idle, TypeOK
<1>22. ASSUME NEW r \in Reqs, SelectAnswer(r) PROVE IInv'
  BY <1>22, MoveSlot DEF SelectAnswer, Idle, TypeOK
<1> QED
  BY <1>1, <1>2, <1>3, <1>4, <1>5, <1>6, <1>7, <1>8, <1>9, <1>10, <1>11, <1>12,
     <1>13, <1>14, <1>15, <1>16, <1>17, <1>18, <1>19, <1>20,
     <1>21, <1>22 DEF Next

\* The strengthened invariant holds in every reachable state.
THEOREM InvariantHolds == Spec => []IInv
BY InitInv, StepInv, PTL DEF Spec

\* A completed password reset leaves no session of an older password, save
\* those of logins that straddled the change.
THEOREM ResetEndsOldSessionsHolds == Spec => []ResetEndsOldSessions
<1>1. IInv => ResetEndsOldSessions
  BY DEF IInv
<1> QED BY <1>1, InvariantHolds, PTL

\* No overlap of refreshes strands a live session on a token no client got.
THEOREM CurrentTokenWasSentHolds == Spec => []CurrentTokenWasSent
<1>1. IInv => CurrentTokenWasSent
  BY DEF IInv
<1> QED BY <1>1, InvariantHolds, PTL

\* The access tokens of sign-in and refresh die one token lifetime after the
\* first expiry of their session.
THEOREM SessionLifetimeHolds == Spec => []SessionLifetimeBounded
<1>1. IInv => SessionLifetimeBounded
  <2> SUFFICES ASSUME IInv, NEW tok \in delivered, Accepted(tok)
               PROVE  now < made[tok.sid].at + SessionTTL + AccessTTL
    BY DEF SessionLifetimeBounded
  <2>1. made[tok.sid] \in Origin /\ tok.iat <= made[tok.sid].at + SessionTTL
    BY DEF IInv, TokenBound, SignedInTime, TypeOK, Token
  <2>2. now < tok.iat + AccessTTL
    BY DEF Accepted
  <2>3. made[tok.sid].at \in Nat /\ tok.iat \in Nat /\ now \in Nat
    BY <2>1 DEF Origin, IInv, TypeOK, Token
  <2> QED BY <2>1, <2>2, <2>3 DEF TTLAssumption
<1> QED BY <1>1, InvariantHolds, PTL

-----------------------------------------------------------------------------

\* Rows change in three ways only, as the ledger sees them: one fresh id is
\* opened, live rows are deleted, or liveness and history stay as they are.
LEMMA LedgerStep ==
    ASSUME IInv, [Next]_vars
    PROVE  [Ledger!Next]_LedgerStatus
<1> USE DEF Live
<1> TypeOK /\ RowBinding
  BY DEF IInv
<1>0. LedgerStatus \in [Sids -> {"fresh", "open", "closed"}]
  BY DEF LedgerStatus
<1>1. ASSUME NEW s \in Sids, NEW u \in Users, NEW p \in Nat, NEW mfa \in BOOLEAN,
             OpenSession(s, u, p, mfa)
      PROVE  Ledger!Open(s)
  <2>1. /\ made[s] = NoRow /\ sess[s] = NoRow
        /\ made'[s] # NoRow /\ sess'[s] # NoRow
        /\ \A x \in Sids : x # s => made'[x] = made[x] /\ sess'[x] = sess[x]
    BY <1>1 DEF OpenSession, TypeOK, NoRow, RowBinding
  <2>2. LedgerStatus[s] = "fresh"
    BY <2>1 DEF LedgerStatus
  <2>3. LedgerStatus' = [LedgerStatus EXCEPT ![s] = "open"]
    BY <2>1 DEF LedgerStatus
  <2> QED BY <2>2, <2>3 DEF Ledger!Open
<1>2. ASSUME made' = made, \A s \in Sids : Live(s)' => Live(s)
      PROVE  Ledger!Next
  <2> DEFINE S == {s \in Sids : Live(s) /\ ~Live(s)'}
  <2>1. \A s \in S : LedgerStatus[s] = "open"
    BY DEF LedgerStatus, RowBinding
  <2>2. LedgerStatus' = [s \in Sids |-> IF s \in S THEN "closed" ELSE LedgerStatus[s]]
    BY <1>2 DEF LedgerStatus, RowBinding
  <2>3. Ledger!Close(S) /\ S \in SUBSET Sids
    BY <2>1, <2>2 DEF Ledger!Close
  <2> QED BY <2>3 DEF Ledger!Next
<1>3. ASSUME NEW r \in Reqs, NEW s \in Sids, LoginOpen(r, s) PROVE Ledger!Next
  <2>1. req[r].user \in Users /\ req[r].pwd \in Nat
    BY <1>3, RequestShape DEF LoginOpen, TypeOK, Login
  <2> QED BY <1>1, <1>3, <2>1 DEF LoginOpen, Ledger!Next
<1>4. ASSUME NEW r \in Reqs, NEW s \in Sids, MfaOpen(r, s) PROVE Ledger!Next
  <2>1. req[r].user \in Users /\ req[r].pwd \in Nat
    BY <1>4, RequestShape DEF MfaOpen, TypeOK, MfaVerify
  <2> QED BY <1>1, <1>4, <2>1 DEF MfaOpen, Ledger!Next
<1>5. ASSUME NEW r \in Reqs, RefreshWrite(r) PROVE Ledger!Next
  BY <1>2, <1>5 DEF RefreshWrite, TypeOK
<1>6. ASSUME NEW tok \in delivered, RefreshExpired(tok) PROVE Ledger!Next
  BY <1>2, <1>6 DEF RefreshExpired, TypeOK
<1>7. ASSUME NEW s \in Sids, EndSession(s) PROVE Ledger!Next
  BY <1>2, <1>7 DEF EndSession, TypeOK
<1>8. ASSUME NEW r \in Reqs, ResetSweep(r) PROVE Ledger!Next
  BY <1>2, <1>8 DEF ResetSweep, TypeOK
<1>9. ASSUME UNCHANGED <<sess, made>> PROVE LedgerStatus' = LedgerStatus
  BY <1>9 DEF LedgerStatus
<1>10. ASSUME NEW r \in Reqs, NEW u \in Users, LoginRead(r, u)
       PROVE  UNCHANGED <<sess, made>>
  BY <1>10 DEF LoginRead
<1>11. ASSUME NEW r \in Reqs, NEW t \in Temps, LoginAskMfa(r, t) \/ MfaRead(r, t)
       PROVE  UNCHANGED <<sess, made>>
  BY <1>11 DEF LoginAskMfa, MfaRead
<1>12. ASSUME NEW r \in Reqs, NEW tok \in delivered,
              RefreshRead(r, tok) \/ RefreshGraced(r, tok)
       PROVE  UNCHANGED <<sess, made>>
  BY <1>12 DEF RefreshRead, RefreshGraced
<1>13. ASSUME NEW r \in Reqs, RefreshAnswer(r) \/ RefreshRefused(r)
       PROVE  UNCHANGED <<sess, made>>
  BY <1>13 DEF RefreshAnswer, RefreshRefused
<1>14. ASSUME NEW u \in Users, NEW k \in Resets, GrantReset(u, k)
       PROVE  UNCHANGED <<sess, made>>
  BY <1>14 DEF GrantReset
<1>15. ASSUME NEW r \in Reqs, NEW k \in Resets, ResetRead(r, k)
       PROVE  UNCHANGED <<sess, made>>
  BY <1>15 DEF ResetRead
<1>16. ASSUME NEW r \in Reqs, ResetWrite(r) \/ ResetDone(r)
       PROVE  UNCHANGED <<sess, made>>
  BY <1>16 DEF ResetWrite, ResetDone
<1>17. ASSUME Tick \/ Crash \/ UNCHANGED vars
       PROVE  UNCHANGED <<sess, made>>
  BY <1>17 DEF Tick, Crash, vars
<1>18. ASSUME NEW r \in Reqs, NEW tok \in delivered \union aside,
              SelectRead(r, tok)
       PROVE  UNCHANGED <<sess, made>>
  BY <1>18 DEF SelectRead
<1>19. ASSUME NEW r \in Reqs, SelectAnswer(r) PROVE UNCHANGED <<sess, made>>
  BY <1>19 DEF SelectAnswer
<1> QED
  BY <1>3, <1>4, <1>5, <1>6, <1>7, <1>8, <1>9, <1>10, <1>11, <1>12, <1>13, <1>14,
     <1>15, <1>16, <1>17, <1>18, <1>19 DEF Next

\* The session rows implement the ledger: what was closed is never open again.
THEOREM ImplementsLedgerHolds == Spec => ImplementsLedger
<1>1. Init => Ledger!Init
  BY DEF Init, Ledger!Init, LedgerStatus
<1>2. IInv /\ [Next]_vars => [Ledger!Next]_LedgerStatus
  BY LedgerStep
<1> QED
  BY <1>1, <1>2, InvariantHolds, PTL DEF Spec, ImplementsLedger, Ledger!Spec
=============================================================================
