------------------------ MODULE OneTimeCodes_proofs ------------------------
(***************************************************************************)
(* Proofs about OneTimeCodes, for any number of overlapping requests and   *)
(* any limit of resends.                                                   *)
(*                                                                         *)
(* Every code that a request or a counter knows has been generated         *)
(* (Known), so a new one starts unused.  How often it is used is a count   *)
(* of request slots (EmailBound, PwdBound): once a code has left its key,  *)
(* only the slots that had read it can still use it.  What holds only      *)
(* while requests do not overlap needs that at most one is in flight       *)
(* (Alone), and what that one may rely on.                                 *)
(***************************************************************************)
EXTENDS OneTimeCodes, FiniteSetTheorems, TLAPS

USE CodesAssumption

\* Codes that were not generated yet are nowhere; a resend passed the limit.
Known ==
    /\ otp <= codes /\ pwdOtp <= pwdCodes
    /\ \A r \in Reqs :
        /\ req[r].pc \in {"mark", "unkey", "answer"} => req[r].code <= codes
        /\ req[r].pc \in {"mint", "unkeyPwd"} => req[r].code <= pwdCodes
        /\ req[r].pc \in {"send", "count"} => req[r].seen < MaxResends
    /\ \A c \in 1..MaxCodes : c > codes => signIns[c] = 0
    /\ \A c \in 1..MaxPwdCodes : c > pwdCodes => minted[c] = 0

IInv == TypeOK /\ Known

\* A request whose program counter is known holds the locals of that step.
LEMMA RequestShape ==
    ASSUME NEW q \in Request
    PROVE  /\ q.pc \in {"send", "count"} => q.seen \in Nat
           /\ q.pc = "send" => [q EXCEPT !.pc = "count"] \in Request
                               /\ [q EXCEPT !.pc = "count"].pc = "count"
                               /\ [q EXCEPT !.pc = "count"].seen = q.seen
           /\ q.pc \in {"mark", "unkey", "answer"} => q.code \in 1..MaxCodes
           /\ q.pc = "mark" => [q EXCEPT !.pc = "unkey"] \in Request
                               /\ [q EXCEPT !.pc = "unkey"].pc = "unkey"
                               /\ [q EXCEPT !.pc = "unkey"].code = q.code
           /\ q.pc = "unkey" => [q EXCEPT !.pc = "answer"] \in Request
                                /\ [q EXCEPT !.pc = "answer"].pc = "answer"
                                /\ [q EXCEPT !.pc = "answer"].code = q.code
           /\ q.pc \in {"mint", "unkeyPwd"} => q.code \in 1..MaxPwdCodes
           /\ q.pc = "mint" => [q EXCEPT !.pc = "unkeyPwd"] \in Request
                               /\ [q EXCEPT !.pc = "unkeyPwd"].pc = "unkeyPwd"
                               /\ [q EXCEPT !.pc = "unkeyPwd"].code = q.code
           /\ q = Idle <=> q.pc = "idle"
BY DEF Request, Idle

\* A code is generated that nobody knows yet.
LEMMA Generating ==
    ASSUME IInv, SendCode,
           UNCHANGED <<pwdOtp, pwdCodes, signIns, minted>>,
           \A q \in Reqs :
               /\ req'[q].pc \in {"mark", "unkey", "answer", "mint", "unkeyPwd"} => req'[q] = req[q]
               /\ req'[q].pc \in {"send", "count"} =>
                    req[q].pc \in {"send", "count"} /\ req'[q].seen = req[q].seen
    PROVE  codes' \in 0..MaxCodes /\ otp' \in 0..MaxCodes /\ Known'
<1> TypeOK /\ Known
  BY DEF IInv
<1>1. /\ codes \in Nat /\ codes' = codes + 1 /\ otp' = codes + 1 /\ codes + 1 \in 1..MaxCodes
      /\ pwdOtp' = pwdOtp /\ pwdCodes' = pwdCodes /\ signIns' = signIns /\ minted' = minted
  BY DEF SendCode, TypeOK
<1>2. \A q \in Reqs :
        /\ req'[q].pc \in {"mark", "unkey", "answer"} => req'[q].code <= codes + 1
        /\ req'[q].pc \in {"mint", "unkeyPwd"} => req'[q].code <= pwdCodes
        /\ req'[q].pc \in {"send", "count"} => req'[q].seen < MaxResends
  <2> SUFFICES ASSUME NEW q \in Reqs
               PROVE  /\ req'[q].pc \in {"mark", "unkey", "answer"} => req'[q].code <= codes + 1
                      /\ req'[q].pc \in {"mint", "unkeyPwd"} => req'[q].code <= pwdCodes
                      /\ req'[q].pc \in {"send", "count"} => req'[q].seen < MaxResends
    OBVIOUS
  <2>1. req[q].pc \in {"mark", "unkey", "answer"} => req[q].code \in Nat
    <3>1. req[q] \in Request
      BY DEF TypeOK
    <3> QED BY <3>1 DEF Request, Idle
  <2> QED BY <1>1, <2>1 DEF Known
<1>3. Known'
  <2>1. \A c \in 1..MaxCodes : c > codes + 1 => signIns[c] = 0
    BY <1>1 DEF Known
  <2> QED BY <1>1, <1>2, <2>1 DEF Known
<1> QED BY <1>1, <1>3

LEMMA IInvInit == Init => IInv
<1> SUFFICES ASSUME Init PROVE IInv
  OBVIOUS
<1>1. Idle \in Request
  BY DEF Request
<1>2. TypeOK
  <2>1. /\ 0 \in 0..MaxCodes /\ 1 \in 0..MaxCodes /\ 0 \in 0..MaxPwdCodes /\ 0 \in 0..MaxResends
        /\ 0 \in 0..MaxFails
    OBVIOUS
  <2> QED BY <1>1, <2>1 DEF Init, TypeOK
<1>3. Known
  BY DEF Init, Known, Idle
<1> QED BY <1>2, <1>3 DEF IInv

\* The steps of email verification.
LEMMA EmailKeeps ==
    ASSUME IInv, NEW r \in Reqs,
           \/ LoginRead(r) \/ LoginSend(r) \/ ResendRead(r) \/ ResendSend(r) \/ ResendCount(r)
           \/ VerifyRead(r) \/ VerifyMark(r) \/ VerifyUnkey(r) \/ VerifyAnswer(r)
    PROVE  IInv'
<1> TypeOK /\ Known
  BY DEF IInv
<1> req[r] \in Request
  BY DEF TypeOK
<1> USE DEF To, emailVars, pwdVars
<1>1. CASE LoginRead(r)
  <2>1. [pc |-> "loginSend"] \in Request
    BY DEF Request
  <2>2. TypeOK'
    BY <1>1, <2>1 DEF LoginRead, TypeOK
  <2>3. Known'
    BY <1>1 DEF LoginRead, TypeOK, Known
  <2> QED BY <2>2, <2>3 DEF IInv
<1>2. CASE LoginSend(r)
  <2>1. Idle \in Request /\ Idle.pc = "idle" /\ req' = [req EXCEPT ![r] = Idle]
    BY <1>2 DEF Request, LoginSend, Idle
  <2>2. codes' \in 0..MaxCodes /\ otp' \in 0..MaxCodes /\ Known'
    BY <1>2, <2>1, Generating DEF LoginSend, TypeOK
  <2>3. TypeOK'
    BY <1>2, <2>1, <2>2 DEF LoginSend, TypeOK
  <2> QED BY <2>2, <2>3 DEF IInv
<1>3. CASE ResendRead(r)
  <2>1. [pc |-> "send", seen |-> resends] \in Request
    BY DEF Request, TypeOK
  <2>2. TypeOK'
    BY <1>3, <2>1 DEF ResendRead, TypeOK
  <2>3. Known'
    BY <1>3 DEF ResendRead, TypeOK, Known
  <2> QED BY <2>2, <2>3 DEF IInv
<1>4. CASE ResendSend(r)
  <2> DEFINE next == [req[r] EXCEPT !.pc = "count"]
  <2>1. next \in Request /\ next.pc = "count" /\ next.seen = req[r].seen
    BY <1>4, RequestShape DEF ResendSend
  <2>2. req' = [req EXCEPT ![r] = next]
    BY <1>4 DEF ResendSend
  <2> HIDE DEF next
  <2>3. codes' \in 0..MaxCodes /\ otp' \in 0..MaxCodes /\ Known'
    BY <1>4, <2>1, <2>2, Generating DEF ResendSend, TypeOK
  <2>4. TypeOK'
    BY <1>4, <2>1, <2>2, <2>3 DEF ResendSend, TypeOK
  <2> QED BY <2>3, <2>4 DEF IInv
<1>5. CASE ResendCount(r)
  <2>1. Idle \in Request /\ req[r].seen \in Nat /\ req[r].seen < MaxResends
    BY <1>5, RequestShape DEF Request, ResendCount, Known
  <2>2. TypeOK'
    BY <1>5, <2>1 DEF ResendCount, TypeOK
  <2>3. Known'
    BY <1>5 DEF ResendCount, TypeOK, Known, Idle
  <2> QED BY <2>2, <2>3 DEF IInv
<1>6. CASE VerifyRead(r)
  <2>1. [pc |-> "mark", code |-> otp] \in Request
    BY <1>6 DEF VerifyRead, Request, TypeOK
  <2>2. TypeOK'
    BY <1>6, <2>1 DEF VerifyRead, TypeOK
  <2>3. Known'
    BY <1>6 DEF VerifyRead, TypeOK, Known
  <2> QED BY <2>2, <2>3 DEF IInv
<1>7. CASE VerifyMark(r)
  <2> DEFINE next == [req[r] EXCEPT !.pc = "unkey"]
  <2>1. next \in Request /\ next.pc = "unkey" /\ next.code = req[r].code
    BY <1>7, RequestShape DEF VerifyMark
  <2>2. req' = [req EXCEPT ![r] = next]
    BY <1>7 DEF VerifyMark
  <2> HIDE DEF next
  <2>3. TypeOK'
    BY <1>7, <2>1, <2>2 DEF VerifyMark, TypeOK
  <2>4. Known'
    BY <1>7, <2>1, <2>2 DEF VerifyMark, TypeOK, Known
  <2> QED BY <2>3, <2>4 DEF IInv
<1>8. CASE VerifyUnkey(r)
  <2> DEFINE next == [req[r] EXCEPT !.pc = "answer"]
  <2>1. next \in Request /\ next.pc = "answer" /\ next.code = req[r].code
    BY <1>8, RequestShape DEF VerifyUnkey
  <2>2. req' = [req EXCEPT ![r] = next]
    BY <1>8 DEF VerifyUnkey
  <2> HIDE DEF next
  <2>3. TypeOK'
    <3>1. req' \in [Reqs -> Request] /\ overlap' \in BOOLEAN
      BY <1>8, <2>1, <2>2 DEF VerifyUnkey, TypeOK
    <3>2. otp' = 0 /\ 0 \in 0..MaxCodes
      BY <1>8 DEF VerifyUnkey
    <3> QED BY <1>8, <3>1, <3>2 DEF VerifyUnkey, TypeOK
  <2>4. Known'
    BY <1>8, <2>1, <2>2 DEF VerifyUnkey, TypeOK, Known
  <2> QED BY <2>3, <2>4 DEF IInv
<1>9. CASE VerifyAnswer(r)
  <2>1. Idle \in Request /\ req[r].code \in 1..MaxCodes /\ req[r].code <= codes
    BY <1>9, RequestShape DEF Request, VerifyAnswer, Known
  <2>2. TypeOK'
    <3>1. req' \in [Reqs -> Request] /\ overlap' \in BOOLEAN
      BY <1>9, <2>1 DEF VerifyAnswer, TypeOK
    <3>2. signIns' \in [1..MaxCodes -> Nat]
      BY <1>9, <2>1 DEF VerifyAnswer, TypeOK
    <3> QED BY <1>9, <3>1, <3>2 DEF VerifyAnswer, TypeOK
  <2>3. Known'
    BY <1>9, <2>1 DEF VerifyAnswer, TypeOK, Known, Idle
  <2> QED BY <2>2, <2>3 DEF IInv
<1> QED BY <1>1, <1>2, <1>3, <1>4, <1>5, <1>6, <1>7, <1>8, <1>9

\* The steps of a forgotten password.
LEMMA PasswordKeeps ==
    ASSUME IInv,
           Forgot \/ \E r \in Reqs : ForgotRead(r) \/ ForgotMint(r) \/ ForgotDone(r)
    PROVE  IInv'
<1> TypeOK /\ Known
  BY DEF IInv
<1> USE DEF To, emailVars, pwdVars
<1>1. CASE Forgot
  <2>1. TypeOK'
    BY <1>1 DEF Forgot, TypeOK
  <2>2. Known'
    <3>1. /\ pwdCodes \in Nat /\ pwdCodes' = pwdCodes + 1 /\ pwdOtp' = pwdCodes + 1
          /\ UNCHANGED <<otp, codes, req, signIns, minted>>
      BY <1>1 DEF Forgot, TypeOK
    <3>2. \A r \in Reqs : req[r].pc \in {"mint", "unkeyPwd"} => req[r].code <= pwdCodes + 1
      <4> SUFFICES ASSUME NEW r \in Reqs, req[r].pc \in {"mint", "unkeyPwd"}
                   PROVE  req[r].code <= pwdCodes + 1
        OBVIOUS
      <4>1. req[r] \in Request
        BY DEF TypeOK
      <4>2. req[r].code \in Nat
        BY <4>1 DEF Request, Idle
      <4> QED BY <3>1, <4>2 DEF Known
    <3>3. \A c \in 1..MaxPwdCodes : c > pwdCodes + 1 => minted[c] = 0
      BY <3>1 DEF Known
    <3> QED BY <3>1, <3>2, <3>3 DEF Known
  <2> QED BY <2>1, <2>2 DEF IInv
<1>2. ASSUME NEW r \in Reqs, ForgotRead(r) PROVE IInv'
  <2>1. [pc |-> "mint", code |-> pwdOtp] \in Request
    BY <1>2 DEF ForgotRead, Request, TypeOK
  <2>2. TypeOK'
    BY <1>2, <2>1 DEF ForgotRead, TypeOK
  <2>3. Known'
    BY <1>2 DEF ForgotRead, TypeOK, Known
  <2> QED BY <2>2, <2>3 DEF IInv
<1>3. ASSUME NEW r \in Reqs, ForgotMint(r) PROVE IInv'
  <2> DEFINE next == [req[r] EXCEPT !.pc = "unkeyPwd"]
  <2>1. next \in Request /\ next.pc = "unkeyPwd" /\ next.code = req[r].code
        /\ req[r].code \in 1..MaxPwdCodes
    <3>1. req[r] \in Request
      BY DEF TypeOK
    <3> QED BY <1>3, <3>1, RequestShape DEF ForgotMint
  <2>2. req' = [req EXCEPT ![r] = next] /\ req[r].code <= pwdCodes
    BY <1>3 DEF ForgotMint, Known
  <2> HIDE DEF next
  <2>3. TypeOK'
    <3>1. req' \in [Reqs -> Request] /\ overlap' \in BOOLEAN
      BY <1>3, <2>1, <2>2 DEF ForgotMint, TypeOK
    <3>2. minted' \in [1..MaxPwdCodes -> Nat]
      BY <1>3, <2>1 DEF ForgotMint, TypeOK
    <3> QED BY <1>3, <3>1, <3>2 DEF ForgotMint, TypeOK
  <2>4. Known'
    BY <1>3, <2>1, <2>2 DEF ForgotMint, TypeOK, Known
  <2> QED BY <2>3, <2>4 DEF IInv
<1>4. ASSUME NEW r \in Reqs, ForgotDone(r) PROVE IInv'
  <2>1. Idle \in Request
    BY DEF Request
  <2>2. TypeOK'
    BY <1>4, <2>1 DEF ForgotDone, TypeOK
  <2>3. Known'
    BY <1>4 DEF ForgotDone, TypeOK, Known, Idle
  <2> QED BY <2>2, <2>3 DEF IInv
<1> QED BY <1>1, <1>2, <1>3, <1>4

LEMMA ExpireKeeps == ASSUME IInv, Expire PROVE IInv'
<1> TypeOK /\ Known
  BY DEF IInv
<1>1. TypeOK'
  <2>1. /\ otp' = otp \/ otp' = 0
        /\ pwdOtp' = pwdOtp \/ pwdOtp' = 0
        /\ (resends' = resends /\ sent' = sent) \/ (resends' = 0 /\ sent' = 0)
        /\ UNCHANGED <<verified, codes, signIns, pwdCodes, minted, stranded, req, overlap>>
    BY DEF Expire, emailVars, pwdVars
  <2>2. 0 \in 0..MaxCodes /\ 0 \in 0..MaxPwdCodes /\ 0 \in 0..MaxResends /\ 0 \in Nat
    OBVIOUS
  <2>3. otp' \in 0..MaxCodes /\ pwdOtp' \in 0..MaxPwdCodes /\ resends' \in 0..MaxResends /\ sent' \in Nat
    BY <2>1, <2>2 DEF TypeOK
  <2> QED BY <2>1, <2>3 DEF TypeOK
<1>2. Known'
  BY DEF Expire, TypeOK, Known, emailVars, pwdVars
<1> QED BY <1>1, <1>2 DEF IInv

LEMMA FailKeeps == ASSUME IInv, NEW r \in Reqs, Fail(r) PROVE IInv'
<1> TypeOK /\ Known
  BY DEF IInv
<1>1. Idle \in Request /\ req' = [req EXCEPT ![r] = Idle]
  BY DEF Request, Fail, To
<1>2. stranded' \in [1..MaxPwdCodes -> 0..MaxFails]
  <2>1. CASE req[r].pc = "unkeyPwd"
    <3>1. req[r] \in Request
      BY DEF TypeOK
    <3>2. req[r].code \in 1..MaxPwdCodes
      BY <2>1, <3>1, RequestShape
    <3>3. stranded \in [1..MaxPwdCodes -> 0..MaxFails] /\ stranded[req[r].code] < MaxFails
      BY <2>1 DEF Fail, TypeOK
    <3>4. stranded[req[r].code] + 1 \in 0..MaxFails
      BY <3>2, <3>3
    <3> QED BY <2>1, <3>2, <3>3, <3>4 DEF Fail
  <2> QED BY <2>1 DEF Fail, TypeOK
<1>3. TypeOK'
  BY <1>1, <1>2 DEF Fail, To, TypeOK, emailVars
<1>4. Known'
  BY <1>1 DEF Fail, TypeOK, Known, Idle, emailVars
<1> QED BY <1>3, <1>4 DEF IInv

LEMMA IInvStep == IInv /\ [Next]_vars => IInv'
<1> SUFFICES ASSUME IInv, [Next]_vars PROVE IInv'
  OBVIOUS
<1>1. CASE UNCHANGED vars
  BY <1>1 DEF vars, IInv, TypeOK, Known
<1> QED BY <1>1, EmailKeeps, PasswordKeeps, ExpireKeeps, FailKeeps DEF Next, PasswordRoutes

\* Every reachable state is well typed, for any number of requests and codes.
THEOREM TypeCorrect == Spec => []TypeOK
<1>1. IInv => TypeOK
  BY DEF IInv
<1> QED BY <1>1, IInvInit, IInvStep, PTL DEF Spec

-----------------------------------------------------------------------------
(* Counting uses.                                                          *)

\* Requests that have read an email code and have not answered for it.
Emailing(c) == {r \in Reqs : req[r].pc \in {"mark", "unkey", "answer"} /\ req[r].code = c}

\* Requests that will mint for a password code, and that have and will delete.
Minting(c) == {r \in Reqs : req[r].pc = "mint" /\ req[r].code = c}
Deleting(c) == {r \in Reqs : req[r].pc = "unkeyPwd" /\ req[r].code = c}

\* A code in its key has signed nobody in; one that left it can do so only for
\* the requests that had read it.
EmailBound == \A c \in 1..MaxCodes :
    /\ otp = c => signIns[c] = 0 /\ \A r \in Emailing(c) : req[r].pc # "answer"
    /\ otp # c => signIns[c] + Cardinality(Emailing(c)) <= Cardinality(Reqs)

\* Whoever minted for a code still in its key is about to delete it or stopped.
PwdBound == \A c \in 1..MaxPwdCodes :
    /\ pwdOtp = c => minted[c] <= Cardinality(Deleting(c)) + stranded[c]
    /\ pwdOtp # c => minted[c] + Cardinality(Minting(c)) <= Cardinality(Reqs) + stranded[c]

\* The cardinalities of sets of request slots.
LEMMA Slots ==
    ASSUME NEW A \in SUBSET Reqs, NEW B \in SUBSET Reqs
    PROVE  /\ Cardinality(A) \in Nat /\ Cardinality(B) \in Nat
           /\ Cardinality(Reqs) \in Nat
           /\ Cardinality(A) <= Cardinality(Reqs)
           /\ A \subseteq B => Cardinality(A) <= Cardinality(B)
           /\ A \intersect B = {} => Cardinality(A) + Cardinality(B) <= Cardinality(Reqs)
<1>1. IsFiniteSet(A) /\ IsFiniteSet(B) /\ IsFiniteSet(A \union B)
  BY FS_Subset
<1>2. /\ Cardinality(A) \in Nat /\ Cardinality(B) \in Nat
      /\ Cardinality(A \union B) \in Nat /\ Cardinality(Reqs) \in Nat
  BY <1>1, FS_CardinalityType
<1>3. A \intersect B = {} => Cardinality(A \union B) = Cardinality(A) + Cardinality(B)
  <2>1. A \intersect B = {} => Cardinality(A \intersect B) = 0
    BY FS_EmptySet
  <2>2. Cardinality(A \union B) = Cardinality(A) + Cardinality(B) - Cardinality(A \intersect B)
    BY <1>1, FS_Union
  <2> QED BY <1>2, <2>1, <2>2
<1>4. Cardinality(A) <= Cardinality(Reqs) /\ Cardinality(A \union B) <= Cardinality(Reqs)
  BY FS_Subset
<1>5. A \subseteq B => Cardinality(A) <= Cardinality(B)
  BY <1>1, FS_Subset
<1> QED BY <1>2, <1>3, <1>4, <1>5

\* One slot more or less.
LEMMA OneSlot ==
    ASSUME NEW A \in SUBSET Reqs, NEW r \in Reqs
    PROVE  /\ r \in A => Cardinality(A \ {r}) = Cardinality(A) - 1
           /\ r \notin A => Cardinality(A \union {r}) = Cardinality(A) + 1
BY FS_Subset, FS_AddElement, FS_RemoveElement

\* A step without a sign-in: a code is read from the key or kept, a request
\* comes to answer by deleting the key, and the key changes to nothing or to a
\* code not seen before.
LEMMA EmailMoves ==
    ASSUME IInv, EmailBound, UNCHANGED signIns,
           otp' = otp \/ otp' = 0 \/ otp' = codes + 1,
           \A q \in Reqs : req'[q].pc \in {"mark", "unkey", "answer"} =>
               \/ req'[q].code = otp /\ otp' = otp /\ req'[q].pc # "answer"
               \/ /\ req[q].pc \in {"mark", "unkey", "answer"} /\ req'[q].code = req[q].code
                  /\ req'[q].pc = "answer" => req[q].pc = "answer" \/ otp' = 0
    PROVE  EmailBound'
<1> SUFFICES ASSUME NEW c \in 1..MaxCodes
             PROVE  /\ otp' = c => signIns[c] = 0 /\ \A q \in Emailing(c)' : req'[q].pc # "answer"
                    /\ otp' # c => signIns[c] + Cardinality(Emailing(c)') <= Cardinality(Reqs)
  BY DEF EmailBound
<1>1. signIns[c] \in Nat /\ codes \in Nat /\ c # 0
  BY DEF IInv, TypeOK
<1>2. Emailing(c) \in SUBSET Reqs /\ Emailing(c)' \in SUBSET Reqs
  BY DEF Emailing
<1>3. otp # c \/ otp' # c => Emailing(c)' \subseteq Emailing(c)
  BY DEF Emailing
<1>4. ASSUME otp' = c
      PROVE  signIns[c] = 0 /\ \A q \in Emailing(c)' : req'[q].pc # "answer"
  <2>1. CASE otp = c
    <3>1. signIns[c] = 0 /\ \A q \in Emailing(c) : req[q].pc # "answer"
      BY <2>1 DEF EmailBound
    <3> QED BY <1>1, <1>4, <2>1, <3>1 DEF Emailing
  <2>2. CASE otp # c
    <3>1. c = codes + 1
      BY <1>1, <1>4, <2>2
    <3>2. signIns[c] = 0
      BY <1>1, <3>1 DEF IInv, Known
    <3>3. Emailing(c) = {}
      BY <1>1, <3>1 DEF IInv, Known, Emailing
    <3> QED BY <1>3, <2>2, <3>2, <3>3
  <2> QED BY <2>1, <2>2
<1>5. ASSUME otp' # c
      PROVE  signIns[c] + Cardinality(Emailing(c)') <= Cardinality(Reqs)
  <2>1. CASE otp = c
    <3>1. signIns[c] = 0
      BY <2>1 DEF EmailBound
    <3>2. Cardinality(Emailing(c)') <= Cardinality(Reqs) /\ Cardinality(Emailing(c)') \in Nat
      BY <1>2, Slots
    <3> QED BY <3>1, <3>2
  <2>2. CASE otp # c
    <3>1. signIns[c] + Cardinality(Emailing(c)) <= Cardinality(Reqs)
      BY <2>2 DEF EmailBound
    <3>2. Cardinality(Emailing(c)') <= Cardinality(Emailing(c))
      BY <1>2, <1>3, <2>2, Slots
    <3>3. /\ Cardinality(Emailing(c)) \in Nat /\ Cardinality(Emailing(c)') \in Nat
          /\ Cardinality(Reqs) \in Nat
      BY <1>2, Slots
    <3> QED BY <1>1, <3>1, <3>2, <3>3
  <2> QED BY <2>1, <2>2
<1> QED BY <1>4, <1>5

\* A sign-in pays with the slot that had read the code.
LEMMA EmailAnswers ==
    ASSUME IInv, EmailBound, NEW r \in Reqs, VerifyAnswer(r)
    PROVE  EmailBound'
<1> DEFINE d == req[r].code
<1>1. /\ req[r].pc = "answer" /\ req' = [req EXCEPT ![r] = Idle] /\ otp' = otp
      /\ signIns' = [signIns EXCEPT ![d] = @ + 1] /\ req \in [Reqs -> Request]
      /\ signIns \in [1..MaxCodes -> Nat]
  BY DEF VerifyAnswer, To, IInv, TypeOK
<1>2. d \in 1..MaxCodes
  <2>1. req[r] \in Request
    BY <1>1
  <2> QED BY <1>1, <2>1, RequestShape
<1>3. otp # d
  BY <1>1, <1>2 DEF EmailBound, Emailing
<1> SUFFICES ASSUME NEW c \in 1..MaxCodes
             PROVE  /\ otp = c => signIns'[c] = 0 /\ \A q \in Emailing(c)' : req'[q].pc # "answer"
                    /\ otp # c => signIns'[c] + Cardinality(Emailing(c)') <= Cardinality(Reqs)
  BY <1>1 DEF EmailBound
<1>4. Emailing(c)' = IF c = d THEN Emailing(c) \ {r} ELSE Emailing(c)
  BY <1>1 DEF Emailing, Idle
<1>5. Emailing(c) \in SUBSET Reqs /\ (c = d => r \in Emailing(c))
  BY <1>1 DEF Emailing
<1>6. CASE c = d
  <2>1. Cardinality(Emailing(c)') = Cardinality(Emailing(c)) - 1
    BY <1>4, <1>5, <1>6, OneSlot
  <2>2. Cardinality(Emailing(c)) \in Nat /\ Cardinality(Reqs) \in Nat
    BY <1>5, Slots
  <2>3. signIns'[c] = signIns[c] + 1 /\ signIns[c] \in Nat
    BY <1>1, <1>6
  <2>4. signIns[c] + Cardinality(Emailing(c)) <= Cardinality(Reqs)
    BY <1>3, <1>6 DEF EmailBound
  <2> QED BY <1>3, <1>6, <2>1, <2>2, <2>3, <2>4
<1>7. CASE c # d
  <2>1. signIns'[c] = signIns[c] /\ Emailing(c)' = Emailing(c)
    BY <1>1, <1>4, <1>7
  <2>2. otp = c => \A q \in Emailing(c) : req'[q].pc # "answer"
    BY <1>1 DEF EmailBound, Idle
  <2> QED BY <2>1, <2>2 DEF EmailBound
<1> QED BY <1>6, <1>7

\* A step that neither mints nor strands: a request comes to mint by reading
\* the code in the key, and one about to delete goes on only by deleting.
LEMMA PwdMoves ==
    ASSUME IInv, PwdBound, UNCHANGED <<minted, stranded>>,
           pwdOtp' = pwdOtp \/ pwdOtp' = 0 \/ pwdOtp' = pwdCodes + 1,
           \A q \in Reqs : req'[q].pc = "mint" =>
               \/ req'[q].code = pwdOtp /\ pwdOtp' = pwdOtp
               \/ req[q].pc = "mint" /\ req'[q].code = req[q].code,
           \A q \in Reqs : req[q].pc = "unkeyPwd" =>
               \/ pwdOtp' = 0
               \/ req'[q].pc = "unkeyPwd" /\ req'[q].code = req[q].code
    PROVE  PwdBound'
<1> SUFFICES ASSUME NEW c \in 1..MaxPwdCodes
             PROVE  /\ pwdOtp' = c => minted[c] <= Cardinality(Deleting(c)') + stranded[c]
                    /\ pwdOtp' # c =>
                         minted[c] + Cardinality(Minting(c)') <= Cardinality(Reqs) + stranded[c]
  BY DEF PwdBound
<1>1. minted[c] \in Nat /\ stranded[c] \in Nat /\ pwdCodes \in Nat /\ c # 0
  BY DEF IInv, TypeOK
<1>2. /\ Minting(c) \in SUBSET Reqs /\ Minting(c)' \in SUBSET Reqs
      /\ Deleting(c) \in SUBSET Reqs /\ Deleting(c)' \in SUBSET Reqs
      /\ Minting(c) \intersect Deleting(c) = {}
  BY DEF Minting, Deleting
<1>3. pwdOtp # c \/ pwdOtp' # c => Minting(c)' \subseteq Minting(c)
  BY DEF Minting
<1>4. pwdOtp' # 0 => Deleting(c) \subseteq Deleting(c)'
  BY DEF Deleting
<1>5. /\ Cardinality(Minting(c)) \in Nat /\ Cardinality(Minting(c)') \in Nat
      /\ Cardinality(Deleting(c)) \in Nat /\ Cardinality(Deleting(c)') \in Nat
      /\ Cardinality(Reqs) \in Nat
      /\ Cardinality(Minting(c)) + Cardinality(Deleting(c)) <= Cardinality(Reqs)
  BY <1>2, Slots
<1>6. ASSUME pwdOtp' = c
      PROVE  minted[c] <= Cardinality(Deleting(c)') + stranded[c]
  <2>1. CASE pwdOtp = c
    <3>1. minted[c] <= Cardinality(Deleting(c)) + stranded[c]
      BY <2>1 DEF PwdBound
    <3>2. Cardinality(Deleting(c)) <= Cardinality(Deleting(c)')
      BY <1>1, <1>2, <1>4, <1>6, Slots
    <3> QED BY <1>1, <1>5, <3>1, <3>2
  <2>2. CASE pwdOtp # c
    <3>1. minted[c] = 0
      BY <1>1, <1>6, <2>2 DEF IInv, Known
    <3> QED BY <1>1, <1>5, <3>1
  <2> QED BY <2>1, <2>2
<1>7. ASSUME pwdOtp' # c
      PROVE  minted[c] + Cardinality(Minting(c)') <= Cardinality(Reqs) + stranded[c]
  <2>1. Cardinality(Minting(c)') <= Cardinality(Minting(c))
    BY <1>2, <1>3, <1>7, Slots
  <2>2. CASE pwdOtp = c
    <3>1. minted[c] <= Cardinality(Deleting(c)) + stranded[c]
      BY <2>2 DEF PwdBound
    <3> QED BY <1>1, <1>5, <2>1, <3>1
  <2>3. CASE pwdOtp # c
    <3>1. minted[c] + Cardinality(Minting(c)) <= Cardinality(Reqs) + stranded[c]
      BY <2>3 DEF PwdBound
    <3> QED BY <1>1, <1>5, <2>1, <3>1
  <2> QED BY <2>2, <2>3
<1> QED BY <1>6, <1>7

\* A token moves its request from those that will mint to those that have.
LEMMA PwdMints ==
    ASSUME IInv, PwdBound, NEW r \in Reqs, ForgotMint(r)
    PROVE  PwdBound'
<1> DEFINE d == req[r].code
           next == [req[r] EXCEPT !.pc = "unkeyPwd"]
<1>1. /\ req[r].pc = "mint" /\ req' = [req EXCEPT ![r] = next]
      /\ pwdOtp' = pwdOtp /\ stranded' = stranded
      /\ minted' = [minted EXCEPT ![d] = @ + 1] /\ minted \in [1..MaxPwdCodes -> Nat]
      /\ req \in [Reqs -> Request] /\ stranded \in [1..MaxPwdCodes -> 0..MaxFails]
  BY DEF ForgotMint, To, IInv, TypeOK
<1>2. d \in 1..MaxPwdCodes /\ next.pc = "unkeyPwd" /\ next.code = d
  <2>1. req[r] \in Request
    BY <1>1
  <2> QED BY <1>1, <2>1, RequestShape
<1> HIDE DEF next
<1> SUFFICES ASSUME NEW c \in 1..MaxPwdCodes
             PROVE  /\ pwdOtp = c => minted'[c] <= Cardinality(Deleting(c)') + stranded[c]
                    /\ pwdOtp # c =>
                         minted'[c] + Cardinality(Minting(c)') <= Cardinality(Reqs) + stranded[c]
  BY <1>1 DEF PwdBound
<1>3. /\ Minting(c)' = IF c = d THEN Minting(c) \ {r} ELSE Minting(c)
      /\ Deleting(c)' = IF c = d THEN Deleting(c) \union {r} ELSE Deleting(c)
  BY <1>1, <1>2 DEF Minting, Deleting
<1>4. /\ Minting(c) \in SUBSET Reqs /\ Deleting(c) \in SUBSET Reqs
      /\ c = d => r \in Minting(c) /\ r \notin Deleting(c)
  BY <1>1 DEF Minting, Deleting
<1>5. CASE c = d
  <2>1. /\ Cardinality(Minting(c)') = Cardinality(Minting(c)) - 1
        /\ Cardinality(Deleting(c)') = Cardinality(Deleting(c)) + 1
    BY <1>3, <1>4, <1>5, OneSlot
  <2>2. /\ Cardinality(Minting(c)) \in Nat /\ Cardinality(Deleting(c)) \in Nat
        /\ Cardinality(Reqs) \in Nat
    BY <1>4, Slots
  <2>3. minted'[c] = minted[c] + 1 /\ minted[c] \in Nat /\ stranded[c] \in Nat
    BY <1>1, <1>5
  <2>4. /\ pwdOtp = c => minted[c] <= Cardinality(Deleting(c)) + stranded[c]
        /\ pwdOtp # c => minted[c] + Cardinality(Minting(c)) <= Cardinality(Reqs) + stranded[c]
    BY DEF PwdBound
  <2> QED BY <2>1, <2>2, <2>3, <2>4
<1>6. CASE c # d
  <2>1. /\ minted'[c] = minted[c]
        /\ Deleting(c)' = Deleting(c) /\ Minting(c)' = Minting(c)
    BY <1>1, <1>3, <1>6
  <2> QED BY <2>1 DEF PwdBound
<1> QED BY <1>5, <1>6

\* A request that stops between token and deletion is counted as stranded.
LEMMA PwdStrands ==
    ASSUME IInv, PwdBound, NEW r \in Reqs, Fail(r), req[r].pc = "unkeyPwd"
    PROVE  PwdBound'
<1> DEFINE d == req[r].code
<1>1. /\ req' = [req EXCEPT ![r] = Idle] /\ pwdOtp' = pwdOtp /\ minted' = minted
      /\ stranded' = [stranded EXCEPT ![d] = @ + 1] /\ minted \in [1..MaxPwdCodes -> Nat]
      /\ req \in [Reqs -> Request] /\ stranded \in [1..MaxPwdCodes -> 0..MaxFails]
  BY DEF Fail, To, IInv, TypeOK
<1>2. d \in 1..MaxPwdCodes
  <2>1. req[r] \in Request
    BY <1>1
  <2> QED BY <2>1, RequestShape
<1> SUFFICES ASSUME NEW c \in 1..MaxPwdCodes
             PROVE  /\ pwdOtp = c => minted[c] <= Cardinality(Deleting(c)') + stranded'[c]
                    /\ pwdOtp # c =>
                         minted[c] + Cardinality(Minting(c)') <= Cardinality(Reqs) + stranded'[c]
  BY <1>1 DEF PwdBound
<1>3. /\ Minting(c)' = Minting(c)
      /\ Deleting(c)' = IF c = d THEN Deleting(c) \ {r} ELSE Deleting(c)
  BY <1>1 DEF Minting, Deleting, Idle
<1>4. /\ Minting(c) \in SUBSET Reqs /\ Deleting(c) \in SUBSET Reqs
      /\ c = d => r \in Deleting(c)
  BY <1>1 DEF Minting, Deleting
<1>5. /\ Cardinality(Minting(c)) \in Nat /\ Cardinality(Deleting(c)) \in Nat
      /\ Cardinality(Reqs) \in Nat
  BY <1>4, Slots
<1>6. /\ pwdOtp = c => minted[c] <= Cardinality(Deleting(c)) + stranded[c]
      /\ pwdOtp # c => minted[c] + Cardinality(Minting(c)) <= Cardinality(Reqs) + stranded[c]
  BY DEF PwdBound
<1>7. CASE c = d
  <2>1. Cardinality(Deleting(c)') = Cardinality(Deleting(c)) - 1
    BY <1>3, <1>4, <1>7, OneSlot
  <2>2. minted[c] \in Nat /\ stranded[c] \in Nat /\ stranded'[c] = stranded[c] + 1
    BY <1>1, <1>7
  <2> QED BY <1>3, <1>5, <1>6, <2>1, <2>2
<1>8. CASE c # d
  <2>1. stranded'[c] = stranded[c] /\ Deleting(c)' = Deleting(c)
    BY <1>1, <1>3, <1>8
  <2> QED BY <1>3, <1>6, <2>1
<1> QED BY <1>7, <1>8

LEMMA BoundInit == Init => EmailBound /\ PwdBound
<1> SUFFICES ASSUME Init PROVE EmailBound /\ PwdBound
  OBVIOUS
<1>1. \A c \in 1..MaxCodes : Emailing(c) = {}
  BY DEF Init, Emailing, Idle
<1>2. \A c \in 1..MaxPwdCodes : Minting(c) = {} /\ Deleting(c) = {}
  BY DEF Init, Minting, Deleting, Idle
<1>3. Cardinality({}) = 0 /\ Cardinality(Reqs) \in Nat
  BY FS_EmptySet, FS_CardinalityType
<1>4. EmailBound
  <2>1. \A c \in 1..MaxCodes : signIns[c] = 0 /\ Cardinality(Emailing(c)) = 0
    BY <1>1, <1>3 DEF Init
  <2> QED BY <1>1, <1>3, <2>1 DEF EmailBound
<1>5. PwdBound
  <2>1. \A c \in 1..MaxPwdCodes :
          minted[c] = 0 /\ stranded[c] = 0 /\ Cardinality(Minting(c)) = 0 /\ Cardinality(Deleting(c)) = 0
    BY <1>2, <1>3 DEF Init
  <2> QED BY <1>3, <2>1 DEF PwdBound
<1> QED BY <1>4, <1>5

LEMMA EmailBoundStep == IInv /\ EmailBound /\ [Next]_vars => EmailBound'
<1> SUFFICES ASSUME IInv, EmailBound, [Next]_vars PROVE EmailBound'
  OBVIOUS
<1>0. req \in [Reqs -> Request]
  BY DEF IInv, TypeOK
<1> USE DEF To, emailVars, pwdVars, Idle
<1>1. ASSUME NEW r \in Reqs,
             LoginRead(r) \/ LoginSend(r) \/ ResendRead(r) \/ ResendSend(r) \/ ResendCount(r)
      PROVE  EmailBound'
  <2>1. CASE LoginRead(r) \/ ResendRead(r) \/ ResendCount(r)
    BY <1>0, <2>1, EmailMoves DEF LoginRead, ResendRead, ResendCount
  <2>2. CASE LoginSend(r)
    BY <1>0, <2>2, EmailMoves DEF LoginSend, SendCode
  <2>3. CASE ResendSend(r)
    <3>1. [req[r] EXCEPT !.pc = "count"].pc = "count"
      BY <1>0, <2>3, RequestShape DEF ResendSend
    <3> QED BY <1>0, <2>3, <3>1, EmailMoves DEF ResendSend, SendCode
  <2> QED BY <1>1, <2>1, <2>2, <2>3
<1>2. ASSUME NEW r \in Reqs, VerifyRead(r) PROVE EmailBound'
  BY <1>0, <1>2, EmailMoves DEF VerifyRead
<1>3. ASSUME NEW r \in Reqs, VerifyMark(r) PROVE EmailBound'
  BY <1>0, <1>3, EmailMoves, RequestShape DEF VerifyMark
<1>4. ASSUME NEW r \in Reqs, VerifyUnkey(r) PROVE EmailBound'
  BY <1>0, <1>4, EmailMoves, RequestShape DEF VerifyUnkey
<1>5. ASSUME NEW r \in Reqs, ForgotRead(r) \/ ForgotDone(r) \/ Fail(r) PROVE EmailBound'
  BY <1>0, <1>5, EmailMoves DEF ForgotRead, ForgotDone, Fail
<1>6. ASSUME NEW r \in Reqs, ForgotMint(r) PROVE EmailBound'
  BY <1>0, <1>6, EmailMoves, RequestShape DEF ForgotMint
<1>7. CASE Forgot \/ Expire \/ UNCHANGED vars
  BY <1>0, <1>7, EmailMoves DEF Forgot, Expire, vars
<1> QED
  BY <1>1, <1>2, <1>3, <1>4, <1>5, <1>6, <1>7, EmailAnswers DEF Next, PasswordRoutes

LEMMA PwdBoundStep == IInv /\ PwdBound /\ [Next]_vars => PwdBound'
<1> SUFFICES ASSUME IInv, PwdBound, [Next]_vars PROVE PwdBound'
  OBVIOUS
<1>0. req \in [Reqs -> Request]
  BY DEF IInv, TypeOK
<1> USE DEF To, emailVars, pwdVars, Idle
<1>1. ASSUME NEW r \in Reqs,
             LoginRead(r) \/ LoginSend(r) \/ ResendRead(r) \/ ResendSend(r) \/ ResendCount(r)
      PROVE  PwdBound'
  <2>1. CASE LoginRead(r) \/ LoginSend(r) \/ ResendRead(r) \/ ResendCount(r)
    BY <1>0, <2>1, PwdMoves DEF LoginRead, LoginSend, ResendRead, ResendCount
  <2>2. CASE ResendSend(r)
    <3>1. [req[r] EXCEPT !.pc = "count"].pc = "count"
      BY <1>0, <2>2, RequestShape DEF ResendSend
    <3> QED BY <1>0, <2>2, <3>1, PwdMoves DEF ResendSend
  <2> QED BY <1>1, <2>1, <2>2
<1>2. ASSUME NEW r \in Reqs,
             VerifyRead(r) \/ VerifyMark(r) \/ VerifyUnkey(r) \/ VerifyAnswer(r)
      PROVE  PwdBound'
  <2>1. CASE VerifyRead(r) \/ VerifyAnswer(r)
    BY <1>0, <2>1, PwdMoves DEF VerifyRead, VerifyAnswer
  <2>2. CASE VerifyMark(r) \/ VerifyUnkey(r)
    <3>1. PICK next : /\ req' = [req EXCEPT ![r] = next] /\ next.pc \in {"unkey", "answer"}
                      /\ req[r].pc \in {"mark", "unkey"} /\ UNCHANGED pwdVars
      <4>1. CASE VerifyMark(r)
        <5>1. [req[r] EXCEPT !.pc = "unkey"].pc = "unkey"
          BY <1>0, <4>1, RequestShape DEF VerifyMark
        <5> QED BY <4>1, <5>1 DEF VerifyMark
      <4>2. CASE VerifyUnkey(r)
        <5>1. [req[r] EXCEPT !.pc = "answer"].pc = "answer"
          BY <1>0, <4>2, RequestShape DEF VerifyUnkey
        <5> QED BY <4>2, <5>1 DEF VerifyUnkey
      <4> QED BY <2>2, <4>1, <4>2
    <3> QED BY <1>0, <3>1, PwdMoves
  <2> QED BY <1>2, <2>1, <2>2
<1>3. ASSUME NEW r \in Reqs, ForgotRead(r) \/ ForgotDone(r) PROVE PwdBound'
  BY <1>0, <1>3, PwdMoves DEF ForgotRead, ForgotDone
<1>4. ASSUME NEW r \in Reqs, Fail(r), req[r].pc # "unkeyPwd" PROVE PwdBound'
  BY <1>0, <1>4, PwdMoves DEF Fail
<1>5. CASE Forgot \/ Expire \/ UNCHANGED vars
  BY <1>0, <1>5, PwdMoves DEF Forgot, Expire, vars
<1> QED
  BY <1>1, <1>2, <1>3, <1>4, <1>5, PwdMints, PwdStrands DEF Next, PasswordRoutes

\* However requests overlap, keys expire and handlers stop: an email code signs
\* in no more often than requests can be in flight, and a password code buys no
\* more tokens than that and one for each request that minted and stopped.
THEOREM UsesBoundedHolds == Spec => []UsesBounded
<1>1. IInv /\ EmailBound /\ PwdBound => UsesBounded
  <2> SUFFICES ASSUME IInv, EmailBound, PwdBound PROVE UsesBounded
    OBVIOUS
  <2>1. ASSUME NEW c \in 1..MaxCodes PROVE signIns[c] <= Cardinality(Reqs)
    <3>1. Emailing(c) \in SUBSET Reqs /\ signIns[c] \in Nat
      BY DEF Emailing, IInv, TypeOK
    <3>2. Cardinality(Emailing(c)) \in Nat /\ Cardinality(Reqs) \in Nat
      BY <3>1, Slots
    <3> QED BY <3>1, <3>2 DEF EmailBound
  <2>2. ASSUME NEW c \in 1..MaxPwdCodes PROVE minted[c] <= Cardinality(Reqs) + stranded[c]
    <3>1. /\ Minting(c) \in SUBSET Reqs /\ Deleting(c) \in SUBSET Reqs
          /\ minted[c] \in Nat /\ stranded[c] \in Nat
      BY DEF Minting, Deleting, IInv, TypeOK
    <3>2. /\ Cardinality(Minting(c)) \in Nat /\ Cardinality(Deleting(c)) \in Nat
          /\ Cardinality(Reqs) \in Nat /\ Cardinality(Deleting(c)) <= Cardinality(Reqs)
      BY <3>1, Slots
    <3> QED BY <3>1, <3>2 DEF PwdBound
  <2> QED BY <2>1, <2>2 DEF UsesBounded
<1> QED BY <1>1, IInvInit, IInvStep, BoundInit, EmailBoundStep, PwdBoundStep, PTL DEF Spec

-----------------------------------------------------------------------------
(* While requests do not overlap.                                          *)

Alone == \A q, r \in Reqs : req[q] # Idle /\ req[r] # Idle => q = r

\* The resends answered are counted, but for the one in flight.
Counted ==
    /\ sent <= resends
    /\ \A r \in Reqs : req[r].pc \in {"send", "count"} => sent <= req[r].seen

\* An account is verified once: before that nothing has signed in, and once the
\* code was deleted, by whichever verification got that far, there is no other.
Once ==
    /\ verified => \A r \in Reqs : req[r].pc \notin {"loginSend", "send"}
    /\ \A r \in Reqs : req[r].pc \in {"unkey", "answer"} => verified
    /\ \A r \in Reqs : req[r].pc = "answer" => otp = 0
    /\ ~verified \/ otp # 0 \/ (\E r \in Reqs : req[r].pc \in {"mark", "unkey", "answer"}) =>
         \A c \in 1..MaxCodes : signIns[c] = 0
    /\ \A c, d \in 1..MaxCodes :
         signIns[c] > 0 /\ signIns[d] > 0 => c = d /\ signIns[c] = 1

Serial == ~overlap => Alone /\ Counted /\ Once

\* A step that leaves the requests without overlap was taken by the only one.
LEMMA LoneStep ==
    ASSUME TypeOK, Serial, NEW r \in Reqs, NEW next, To(r, next), ~overlap'
    PROVE  /\ Counted /\ Once
           /\ \A q \in Reqs : q # r => req[q] = Idle
           /\ req' = [q \in Reqs |-> IF q = r THEN next ELSE Idle]
           /\ Alone'
<1>1. \A q \in Reqs : q # r => req[q] = Idle
  BY DEF To
<1>2. req' = [q \in Reqs |-> IF q = r THEN next ELSE Idle]
  BY <1>1 DEF To, TypeOK
<1>3. Alone'
  BY <1>2 DEF Alone
<1>4. Counted /\ Once
  BY DEF Serial, To
<1> QED BY <1>1, <1>2, <1>3, <1>4

LEMMA SerialEmail ==
    ASSUME IInv, Serial, NEW r \in Reqs,
           \/ LoginRead(r) \/ LoginSend(r) \/ ResendRead(r) \/ ResendSend(r) \/ ResendCount(r)
           \/ VerifyRead(r) \/ VerifyMark(r) \/ VerifyUnkey(r) \/ VerifyAnswer(r)
    PROVE  Serial'
<1> SUFFICES ASSUME ~overlap' PROVE Alone' /\ Counted' /\ Once'
  BY DEF Serial
<1> TypeOK
  BY DEF IInv
<1>0. /\ resends \in Nat /\ sent \in Nat /\ verified \in BOOLEAN /\ req[r] \in Request
      /\ signIns \in [1..MaxCodes -> Nat]
  BY DEF TypeOK
<1>1. CASE LoginRead(r)
  <2> DEFINE next == [pc |-> "loginSend"]
  <2>1. To(r, next) /\ UNCHANGED emailVars /\ ~verified
    BY <1>1 DEF LoginRead
  <2>2. /\ Counted /\ Once /\ Alone' /\ \A q \in Reqs : q # r => req[q] = Idle
        /\ req' = [q \in Reqs |-> IF q = r THEN next ELSE Idle]
    BY <2>1, LoneStep
  <2>3. Counted'
    BY <2>1, <2>2 DEF Counted, emailVars, Idle
  <2>4. Once'
    BY <2>1, <2>2 DEF Once, emailVars, Idle
  <2> QED BY <2>2, <2>3, <2>4
<1>2. CASE LoginSend(r)
  <2>1. To(r, Idle) /\ UNCHANGED <<verified, resends, sent, signIns>> /\ req[r].pc = "loginSend"
    BY <1>2 DEF LoginSend
  <2>2. /\ Counted /\ Once /\ Alone' /\ \A q \in Reqs : q # r => req[q] = Idle
        /\ req' = [q \in Reqs |-> IF q = r THEN Idle ELSE Idle]
    BY <2>1, LoneStep
  <2>3. Counted'
    BY <2>1, <2>2 DEF Counted, Idle
  <2>4. Once'
    BY <2>1, <2>2 DEF Once, Idle
  <2> QED BY <2>2, <2>3, <2>4
<1>3. CASE ResendRead(r)
  <2> DEFINE next == [pc |-> "send", seen |-> resends]
  <2>1. To(r, next) /\ UNCHANGED emailVars /\ ~verified
    BY <1>3 DEF ResendRead
  <2>2. /\ Counted /\ Once /\ Alone' /\ \A q \in Reqs : q # r => req[q] = Idle
        /\ req' = [q \in Reqs |-> IF q = r THEN next ELSE Idle]
    BY <2>1, LoneStep
  <2>3. Counted'
    BY <2>1, <2>2 DEF Counted, emailVars, Idle
  <2>4. Once'
    BY <2>1, <2>2 DEF Once, emailVars, Idle
  <2> QED BY <2>2, <2>3, <2>4
<1>4. CASE ResendSend(r)
  <2> DEFINE next == [req[r] EXCEPT !.pc = "count"]
  <2>1. To(r, next) /\ UNCHANGED <<verified, resends, sent, signIns>> /\ req[r].pc = "send"
    BY <1>4 DEF ResendSend
  <2>2. /\ Counted /\ Once /\ Alone' /\ \A q \in Reqs : q # r => req[q] = Idle
        /\ req' = [q \in Reqs |-> IF q = r THEN next ELSE Idle]
    BY <2>1, LoneStep
  <2>3. next.pc = "count" /\ next.seen = req[r].seen
    BY <1>0, <2>1, RequestShape
  <2> HIDE DEF next
  <2>4. Counted'
    BY <2>1, <2>2, <2>3 DEF Counted, Idle
  <2>5. Once'
    BY <2>1, <2>2, <2>3 DEF Once, Idle
  <2> QED BY <2>2, <2>4, <2>5
<1>5. CASE ResendCount(r)
  <2>1. /\ To(r, Idle) /\ UNCHANGED <<verified, otp, signIns>> /\ req[r].pc = "count"
        /\ resends' = req[r].seen + 1 /\ sent' = sent + 1 /\ req[r].seen \in Nat
    BY <1>0, <1>5, RequestShape DEF ResendCount
  <2>2. /\ Counted /\ Once /\ Alone' /\ \A q \in Reqs : q # r => req[q] = Idle
        /\ req' = [q \in Reqs |-> IF q = r THEN Idle ELSE Idle]
    BY <2>1, LoneStep
  <2>3. Counted'
    BY <1>0, <2>1, <2>2 DEF Counted, Idle
  <2>4. Once'
    BY <2>1, <2>2 DEF Once, Idle
  <2> QED BY <2>2, <2>3, <2>4
<1>6. CASE VerifyRead(r)
  <2> DEFINE next == [pc |-> "mark", code |-> otp]
  <2>1. To(r, next) /\ UNCHANGED emailVars /\ otp # 0 /\ req[r] = Idle
    BY <1>6 DEF VerifyRead
  <2>2. /\ Counted /\ Once /\ Alone' /\ \A q \in Reqs : q # r => req[q] = Idle
        /\ req' = [q \in Reqs |-> IF q = r THEN next ELSE Idle]
    BY <2>1, LoneStep
  <2>3. Counted'
    BY <2>1, <2>2 DEF Counted, emailVars, Idle
  <2>4. Once'
    BY <2>1, <2>2 DEF Once, emailVars, Idle
  <2> QED BY <2>2, <2>3, <2>4
<1>7. CASE VerifyMark(r)
  <2> DEFINE next == [req[r] EXCEPT !.pc = "unkey"]
  <2>1. /\ To(r, next) /\ UNCHANGED <<otp, resends, sent, signIns>> /\ req[r].pc = "mark"
        /\ verified' = TRUE
    BY <1>7 DEF VerifyMark
  <2>2. /\ Counted /\ Once /\ Alone' /\ \A q \in Reqs : q # r => req[q] = Idle
        /\ req' = [q \in Reqs |-> IF q = r THEN next ELSE Idle]
    BY <2>1, LoneStep
  <2>3. next.pc = "unkey"
    BY <1>0, <2>1, RequestShape
  <2> HIDE DEF next
  <2>4. Counted'
    BY <2>1, <2>2, <2>3 DEF Counted, Idle
  <2>5. \A c \in 1..MaxCodes : signIns[c] = 0
    BY <2>1, <2>2 DEF Once
  <2>6. Once'
    BY <2>1, <2>2, <2>3, <2>5 DEF Once, Idle
  <2> QED BY <2>2, <2>4, <2>6
<1>8. CASE VerifyUnkey(r)
  <2> DEFINE next == [req[r] EXCEPT !.pc = "answer"]
  <2>1. /\ To(r, next) /\ UNCHANGED <<verified, resends, sent, signIns>>
        /\ req[r].pc = "unkey" /\ otp' = 0
    BY <1>8 DEF VerifyUnkey
  <2>2. /\ Counted /\ Once /\ Alone' /\ \A q \in Reqs : q # r => req[q] = Idle
        /\ req' = [q \in Reqs |-> IF q = r THEN next ELSE Idle]
    BY <2>1, LoneStep
  <2>3. next.pc = "answer"
    BY <1>0, <2>1, RequestShape
  <2> HIDE DEF next
  <2>4. Counted'
    BY <2>1, <2>2, <2>3 DEF Counted, Idle
  <2>5. verified /\ \A c \in 1..MaxCodes : signIns[c] = 0
    BY <2>1, <2>2 DEF Once
  <2>6. Once'
    BY <2>1, <2>2, <2>3, <2>5 DEF Once, Idle
  <2> QED BY <2>2, <2>4, <2>6
<1>9. CASE VerifyAnswer(r)
  <2>1. /\ To(r, Idle) /\ UNCHANGED <<verified, otp, resends, sent>> /\ req[r].pc = "answer"
        /\ signIns' = [signIns EXCEPT ![req[r].code] = @ + 1]
        /\ req[r].code \in 1..MaxCodes
    BY <1>0, <1>9, RequestShape DEF VerifyAnswer
  <2>2. /\ Counted /\ Once /\ Alone' /\ \A q \in Reqs : q # r => req[q] = Idle
        /\ req' = [q \in Reqs |-> IF q = r THEN Idle ELSE Idle]
    BY <2>1, LoneStep
  <2>3. Counted'
    BY <2>1, <2>2 DEF Counted, Idle
  <2>4. verified /\ otp = 0 /\ \A c \in 1..MaxCodes : signIns[c] = 0
    BY <1>0, <2>1, <2>2 DEF Once
  <2>5. \A c \in 1..MaxCodes : signIns'[c] = IF c = req[r].code THEN 1 ELSE 0
    BY <1>0, <2>1, <2>4
  <2>6. Once'
    BY <2>1, <2>2, <2>4, <2>5 DEF Once, Idle
  <2> QED BY <2>2, <2>3, <2>6
<1> QED BY <1>1, <1>2, <1>3, <1>4, <1>5, <1>6, <1>7, <1>8, <1>9

LEMMA SerialPassword ==
    ASSUME IInv, Serial,
           \/ Forgot \/ Expire
           \/ \E r \in Reqs : ForgotRead(r) \/ ForgotMint(r) \/ ForgotDone(r) \/ Fail(r)
    PROVE  Serial'
<1> SUFFICES ASSUME ~overlap' PROVE Alone' /\ Counted' /\ Once'
  BY DEF Serial
<1> TypeOK
  BY DEF IInv
<1>1. CASE Forgot \/ Expire
  <2>1. /\ req' = req /\ overlap' = overlap /\ verified' = verified /\ signIns' = signIns
        /\ (otp' = otp \/ otp' = 0)
        /\ ((resends' = resends /\ sent' = sent) \/ sent' = 0)
        /\ (resends' = resends \/ resends' = 0)
    BY <1>1 DEF Forgot, Expire, emailVars
  <2>2. Alone /\ Counted /\ Once
    BY <2>1 DEF Serial
  <2>3. \A r \in Reqs : req[r].pc \in {"send", "count"} => req[r].seen \in Nat
    <3> SUFFICES ASSUME NEW r \in Reqs, req[r].pc \in {"send", "count"} PROVE req[r].seen \in Nat
      OBVIOUS
    <3>1. req[r] \in Request
      BY DEF TypeOK
    <3> QED BY <3>1, RequestShape
  <2>4. Counted'
    BY <2>1, <2>2, <2>3 DEF Counted, TypeOK
  <2>5. Once'
    BY <2>1, <2>2 DEF Once
  <2> QED BY <2>1, <2>2, <2>4, <2>5 DEF Alone
<1>2. ASSUME NEW r \in Reqs, ForgotRead(r) \/ ForgotMint(r) \/ ForgotDone(r) \/ Fail(r)
      PROVE  Alone' /\ Counted' /\ Once'
  <2>1. PICK next : /\ To(r, next) /\ next.pc \in {"mint", "unkeyPwd", "idle"}
                    /\ UNCHANGED emailVars
    <3>1. req[r] \in Request
      BY DEF TypeOK
    <3>2. CASE ForgotRead(r)
      BY <3>2 DEF ForgotRead, Idle
    <3>3. CASE ForgotMint(r)
      BY <3>1, <3>3, RequestShape DEF ForgotMint
    <3>4. CASE ForgotDone(r)
      BY <3>4 DEF ForgotDone, Idle
    <3>5. CASE Fail(r)
      BY <3>5 DEF Fail, Idle
    <3> QED BY <1>2, <3>2, <3>3, <3>4, <3>5
  <2>2. /\ Counted /\ Once /\ Alone' /\ \A q \in Reqs : q # r => req[q] = Idle
        /\ req' = [q \in Reqs |-> IF q = r THEN next ELSE Idle]
    BY <2>1, LoneStep
  <2>3. Counted'
    BY <2>1, <2>2 DEF Counted, emailVars, Idle
  <2>4. Once'
    BY <2>1, <2>2 DEF Once, emailVars, Idle
  <2> QED BY <2>2, <2>3, <2>4
<1> QED BY <1>1, <1>2

LEMMA SerialInit == Init => Serial
<1> SUFFICES ASSUME Init PROVE Serial
  OBVIOUS
<1>1. Alone /\ Counted
  BY DEF Init, Alone, Counted, Idle
<1>2. Once
  BY DEF Init, Once, Idle
<1> QED BY <1>1, <1>2 DEF Serial

LEMMA SerialStep == IInv /\ Serial /\ [Next]_vars => Serial'
<1> SUFFICES ASSUME IInv, Serial, [Next]_vars PROVE Serial'
  OBVIOUS
<1>1. CASE UNCHANGED vars
  BY <1>1 DEF vars, Serial, Alone, Counted, Once
<1> QED BY <1>1, SerialEmail, SerialPassword DEF Next, PasswordRoutes

\* As long as requests do not overlap, no more resends are answered in a window
\* than the limit allows, through any calls and expiries.
THEOREM ResendLimitSerialHolds == Spec => []ResendLimitSerial
<1>1. IInv /\ Serial => ResendLimitSerial
  BY DEF IInv, Serial, Counted, ResendLimitSerial, ResendLimit, TypeOK
<1> QED BY <1>1, IInvInit, IInvStep, SerialInit, SerialStep, PTL DEF Spec

\* As long as requests do not overlap, an account's address is verified with
\* tokens at most once, whatever codes were mailed.
THEOREM EmailSignInOnceHolds == Spec => []EmailSignInOnce
<1>1. Serial => EmailSignInOnce
  BY DEF Serial, Once, EmailSignInOnce
<1> QED BY <1>1, IInvInit, IInvStep, SerialInit, SerialStep, PTL DEF Spec

=============================================================================
