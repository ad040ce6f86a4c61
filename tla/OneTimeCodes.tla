---------------------------- MODULE OneTimeCodes ----------------------------
(***************************************************************************)
(* The one-time codes of one account: the email verification code and its  *)
(* resend limit, and the password code that buys a reset token.  All of    *)
(* them are Redis keys that a handler reads, acts upon and only then       *)
(* writes or deletes, with awaits between, and may fail at any of them.    *)
(*                                                                         *)
(* NODE_ENV is production: the master code of development is not modelled. *)
(***************************************************************************)
EXTENDS Naturals, FiniteSets

CONSTANTS
    Reqs,        \* requests that can be in flight together
    MaxResends,  \* OTP_MAX_RESENDS (3)
    MaxCodes,    \* bound on the email codes generated
    MaxPwdCodes, \* bound on the password codes generated
    MaxFails     \* bound on the deletions of a password code that fail

ASSUME CodesAssumption ==
    /\ MaxResends \in Nat /\ MaxCodes \in Nat \ {0} /\ MaxPwdCodes \in Nat
    /\ MaxFails \in Nat
    /\ IsFiniteSet(Reqs)

VARIABLES
    verified,    \* users.isVerified
    otp,         \* jl:otp:verify:{email}; codes are numbered, 0 is no key
    resends,     \* jl:otp:resend:{email}; 0 is no key
    pwdOtp,      \* jl:otp:pwd:{email}; 0 is no key
    req,         \* requests in flight
    \* History variables.
    overlap,     \* a request has taken a step while another was in flight
    codes,       \* email codes generated so far
    pwdCodes,    \* password codes generated so far
    sent,        \* resends answered since the resend key was last absent
    signIns,     \* email code -> verifications that answered with tokens
    minted,      \* password code -> reset tokens minted for it
    stranded     \* password code -> requests that minted and then stopped

vars == <<verified, otp, resends, pwdOtp, req, overlap, codes, pwdCodes, sent, signIns,
          minted, stranded>>

Idle == [pc |-> "idle"]
Request == {Idle}
    \union [pc : {"loginSend"}]
    \union [pc : {"send", "count"}, seen : Nat]
    \union [pc : {"mark", "unkey", "answer"}, code : 1..MaxCodes]
    \union [pc : {"mint", "unkeyPwd"}, code : 1..MaxPwdCodes]

TypeOK ==
    /\ verified \in BOOLEAN
    /\ otp \in 0..MaxCodes
    /\ resends \in 0..MaxResends
    /\ pwdOtp \in 0..MaxPwdCodes
    /\ req \in [Reqs -> Request]
    /\ overlap \in BOOLEAN
    /\ codes \in 0..MaxCodes /\ pwdCodes \in 0..MaxPwdCodes
    /\ sent \in Nat
    /\ signIns \in [1..MaxCodes -> Nat]
    /\ minted \in [1..MaxPwdCodes -> Nat]
    /\ stranded \in [1..MaxPwdCodes -> 0..MaxFails]

\* A registered account: register has sent the first code.
Init ==
    /\ verified = FALSE
    /\ codes = 1 /\ otp = 1
    /\ resends = 0 /\ sent = 0
    /\ pwdOtp = 0 /\ pwdCodes = 0
    /\ req = [r \in Reqs |-> Idle]
    /\ overlap = FALSE
    /\ signIns = [c \in 1..MaxCodes |-> 0]
    /\ minted = [c \in 1..MaxPwdCodes |-> 0]
    /\ stranded = [c \in 1..MaxPwdCodes |-> 0]

To(r, next) ==
    /\ req' = [req EXCEPT ![r] = next]
    /\ overlap' = (overlap \/ \E q \in Reqs \ {r} : req[q] # Idle)

emailVars == <<verified, otp, resends, codes, sent, signIns>>
pwdVars == <<pwdOtp, pwdCodes, minted, stranded>>

-----------------------------------------------------------------------------
(* Email verification.                                                     *)

\* _sendVerificationOtp: a fresh code overwrites the key.
SendCode ==
    /\ codes < MaxCodes
    /\ codes' = codes + 1
    /\ otp' = codes + 1

\* login finds the account unverified in its snapshot...
LoginRead(r) ==
    /\ req[r] = Idle /\ ~verified
    /\ To(r, [pc |-> "loginSend"])
    /\ UNCHANGED <<emailVars, pwdVars>>

\* ...and mails a code; this does not count as a resend.
LoginSend(r) ==
    /\ req[r].pc = "loginSend"
    /\ SendCode
    /\ To(r, Idle)
    /\ UNCHANGED <<verified, resends, sent, signIns, pwdVars>>

\* Mutant: the code is sent to accounts that are already verified too.
ResendReadVerified(r) ==
    /\ req[r] = Idle
    /\ resends < MaxResends
    /\ To(r, [pc |-> "send", seen |-> resends])
    /\ UNCHANGED <<emailVars, pwdVars>>

\* resendOtp: unverified, and the counter read from Redis is below the limit.
ResendRead(r) ==
    /\ req[r] = Idle /\ ~verified
    /\ resends < MaxResends
    /\ To(r, [pc |-> "send", seen |-> resends])
    /\ UNCHANGED <<emailVars, pwdVars>>

ResendSend(r) ==
    /\ req[r].pc = "send"
    /\ SendCode
    /\ To(r, [req[r] EXCEPT !.pc = "count"])
    /\ UNCHANGED <<verified, resends, sent, signIns, pwdVars>>

\* Mutant: the counter is written back as it was read.
ResendCountSame(r) ==
    /\ req[r].pc = "count"
    /\ resends' = req[r].seen
    /\ sent' = sent + 1
    /\ To(r, Idle)
    /\ UNCHANGED <<verified, otp, codes, signIns, pwdVars>>

\* The counter is set to what was read plus one, with a new time to live.
ResendCount(r) ==
    /\ req[r].pc = "count"
    /\ resends' = req[r].seen + 1
    /\ sent' = sent + 1
    /\ To(r, Idle)
    /\ UNCHANGED <<verified, otp, codes, signIns, pwdVars>>

\* verifyEmailOtp: the code in the request is the one in the key.
VerifyRead(r) ==
    /\ req[r] = Idle
    /\ otp # 0
    /\ To(r, [pc |-> "mark", code |-> otp])
    /\ UNCHANGED <<emailVars, pwdVars>>

\* markEmailVerified.
VerifyMark(r) ==
    /\ req[r].pc = "mark"
    /\ verified' = TRUE
    /\ To(r, [req[r] EXCEPT !.pc = "unkey"])
    /\ UNCHANGED <<otp, resends, codes, sent, signIns, pwdVars>>

\* The key is deleted, whichever code it now holds...
VerifyUnkey(r) ==
    /\ req[r].pc = "unkey"
    /\ otp' = 0
    /\ To(r, [req[r] EXCEPT !.pc = "answer"])
    /\ UNCHANGED <<verified, resends, codes, sent, signIns, pwdVars>>

\* ...and after the welcome mail and the audit entry tokens are answered.
VerifyAnswer(r) ==
    /\ req[r].pc = "answer"
    /\ signIns' = [signIns EXCEPT ![req[r].code] = @ + 1]
    /\ To(r, Idle)
    /\ UNCHANGED <<verified, otp, resends, codes, sent, pwdVars>>

-----------------------------------------------------------------------------
(* Password code.                                                          *)

\* Mutant: the password code goes to the key of the email code's counter.
ForgotOther ==
    /\ pwdCodes < MaxPwdCodes
    /\ pwdCodes' = pwdCodes + 1
    /\ resends' = MaxResends + pwdCodes + 1
    /\ UNCHANGED <<verified, otp, codes, sent, signIns, pwdOtp, req, overlap, minted, stranded>>

\* forgotPassword: a fresh code overwrites the key.
Forgot ==
    /\ pwdCodes < MaxPwdCodes
    /\ pwdCodes' = pwdCodes + 1
    /\ pwdOtp' = pwdCodes + 1
    /\ UNCHANGED <<emailVars, req, overlap, minted, stranded>>

\* verifyForgotPasswordOtp: the code in the request is the one in the key.
ForgotRead(r) ==
    /\ req[r] = Idle
    /\ pwdOtp # 0
    /\ To(r, [pc |-> "mint", code |-> pwdOtp])
    /\ UNCHANGED <<emailVars, pwdVars>>

\* A random reset token is stored...
ForgotMint(r) ==
    /\ req[r].pc = "mint"
    /\ minted' = [minted EXCEPT ![req[r].code] = @ + 1]
    /\ To(r, [req[r] EXCEPT !.pc = "unkeyPwd"])
    /\ UNCHANGED <<emailVars, pwdOtp, pwdCodes, stranded>>

\* Mutant: the code is left to expire.
ForgotDoneKeep(r) ==
    /\ req[r].pc = "unkeyPwd"
    /\ To(r, Idle)
    /\ UNCHANGED <<emailVars, pwdVars>>

\* ...and the code deleted, whichever the key now holds.
ForgotDone(r) ==
    /\ req[r].pc = "unkeyPwd"
    /\ pwdOtp' = 0
    /\ To(r, Idle)
    /\ UNCHANGED <<emailVars, pwdCodes, minted, stranded>>

-----------------------------------------------------------------------------

\* A key's time to live runs out.  A new resend window starts from nothing.
Expire ==
    \/ /\ otp # 0
       /\ otp' = 0
       /\ UNCHANGED <<verified, resends, codes, sent, signIns, pwdVars, req, overlap>>
    \/ /\ resends # 0
       /\ resends' = 0 /\ sent' = 0
       /\ UNCHANGED <<verified, otp, codes, signIns, pwdVars, req, overlap>>
    \/ /\ pwdOtp # 0
       /\ pwdOtp' = 0
       /\ UNCHANGED <<emailVars, pwdCodes, minted, stranded, req, overlap>>

\* Redis, the database or the mail service fails, or the process dies: the
\* handler stops where it is.  One that has minted leaves its code in the key.
Fail(r) ==
    /\ req[r] # Idle
    /\ IF req[r].pc = "unkeyPwd"
       THEN /\ stranded[req[r].code] < MaxFails
            /\ stranded' = [stranded EXCEPT ![req[r].code] = @ + 1]
       ELSE UNCHANGED stranded
    /\ To(r, Idle)
    /\ UNCHANGED <<emailVars, pwdOtp, pwdCodes, minted>>

\* The routes of a forgotten password.
PasswordRoutes == Forgot \/ \E r \in Reqs : ForgotRead(r)

Next ==
    \/ \E r \in Reqs :
        \/ LoginRead(r) \/ LoginSend(r)
        \/ ResendRead(r) \/ ResendSend(r) \/ ResendCount(r)
        \/ VerifyRead(r) \/ VerifyMark(r)
        \/ VerifyUnkey(r) \/ VerifyAnswer(r)
        \/ ForgotMint(r) \/ ForgotDone(r)
        \/ Fail(r)
    \/ PasswordRoutes
    \/ Expire

Spec == Init /\ [][Next]_vars

-----------------------------------------------------------------------------

\* How often a code serves, however requests overlap, keys expire and handlers
\* stop.  A sign-in is answered after its code was deleted, so one email code
\* signs in no more often than there are requests that had read it by then.  A
\* reset token is minted before the deletion, so every request that stops
\* between the two may let the password code buy one more.
UsesBounded ==
    /\ \A c \in 1..MaxCodes : signIns[c] <= Cardinality(Reqs)
    /\ \A c \in 1..MaxPwdCodes : minted[c] <= Cardinality(Reqs) + stranded[c]

\* auth.service.ts:400 "Rate-limit: max OTP_MAX_RESENDS times per
\* OTP_RESEND_WINDOW_MINUTES".
ResendLimit == sent <= MaxResends

\* As long as requests do not overlap, whatever sequence of legal calls,
\* expiries and failures: no more resends are answered than the limit allows.
ResendLimitSerial == ~overlap => ResendLimit

\* As long as requests do not overlap, email verification answers with tokens
\* at most once in the life of the account, whatever codes were mailed and
\* wherever a verification stopped.
EmailSignInOnce ==
    ~overlap => \A c, d \in 1..MaxCodes :
        signIns[c] > 0 /\ signIns[d] > 0 => c = d /\ signIns[c] = 1
=============================================================================
