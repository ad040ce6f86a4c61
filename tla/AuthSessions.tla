---------------------------- MODULE AuthSessions ----------------------------
(***************************************************************************)
(* Sign-in sessions of the API: the user_sessions rows, the JWT pairs      *)
(* signed for them, refresh-token rotation with its Redis grace keys, the  *)
(* MFA temporary tokens of a half-finished login, and password reset,      *)
(* which ends every session of the user.                                   *)
(*                                                                         *)
(* A handler is async: other handlers run at each await.  A request in     *)
(* flight is therefore a slot of req that holds the values it has already  *)
(* read, and a handler is one action per database or Redis round trip that *)
(* another handler could notice.                                           *)
(*                                                                         *)
(* This module is the slice of the handlers that concerns sessions.  What  *)
(* they do to lockout counters, one-time codes, MFA secrets and account    *)
(* standing touches none of these variables and belongs to the modules of  *)
(* those parts; here those gates are the choice of the requests that pass. *)
(***************************************************************************)
EXTENDS Naturals

CONSTANTS
    Users,       \* user ids
    Sids,        \* session ids (uuid v4): each is drawn once
    Temps,       \* MFA temporary tokens (random): each is minted once
    Resets,      \* password-reset tokens (random): each is minted once
    Reqs,        \* slots for requests in flight
    SessionTTL,  \* lifetime of a session row and of a refresh JWT (7 days)
    AccessTTL,   \* lifetime of an access JWT (15 minutes)
    GraceTTL,    \* lifetime of a grace key (30 seconds)
    TempTTL,     \* lifetime of an MFA temporary token (300 seconds)
    ResetTTL,    \* lifetime of a reset token (15 minutes)
    MaxTime,     \* bound on the clock
    MaxPwd,      \* bound on the number of password changes
    MaxCrash     \* bound on the number of process crashes

ASSUME TTLAssumption ==
    /\ SessionTTL \in Nat /\ AccessTTL \in Nat /\ GraceTTL \in Nat
    /\ TempTTL \in Nat /\ ResetTTL \in Nat
    /\ MaxTime \in Nat /\ MaxPwd \in Nat /\ MaxCrash \in Nat

VARIABLES
    now,         \* the clock, in seconds
    pwd,         \* user_security.passwordHash, as the version of the password
    sess,        \* user_sessions, by id
    grace,       \* jl:auth:grace:{tokenHash} -> session id
    temps,       \* jl:mfa:temp:{token} -> user
    resets,      \* jl:reset:session:{token} -> user
    req,         \* requests in flight
    delivered,   \* pairs of a sign-in or a refresh that a client has received
    aside,       \* pairs a client has received from select-plan, while their
                 \* access token lives: their refresh token is no row's
    \* History variables: nothing in the program reads them.
    made,        \* how and when each session was opened
    swept,       \* newest password whose reset has swept the user's sessions
    lost,        \* token pairs whose response never reached the client
    crashes

vars == <<now, pwd, sess, grace, temps, resets, req, delivered, aside,
          made, swept, lost, crashes>>

\* Absence of a row or key; a key that existed and no longer does.
NoRow == [row |-> "none"]
Spent == [row |-> "spent"]

\* A signed pair.  Both JWTs carry the same payload, and the issue time is in
\* whole seconds, so two pairs signed for one session within a second with
\* the same claims are the same strings.  The other claims do not vary here
\* but for hasPlan: sign-in and refresh load no subscription and sign false,
\* select-plan signs true, so its pairs are never those of a stored hash.
Token == [sid : Sids, mfa : BOOLEAN, iat : Nat]

Session == [user : Users, tok : Token, expires : Nat]
GraceKey == [tok : Token, sid : Sids, until : Nat]
TempKey == [user : Users, pwd : Nat, until : Nat]
ResetKey == [user : Users, until : Nat]
Origin == [user : Users, pwd : Nat, late : BOOLEAN, mfa : BOOLEAN, at : Nat]

Idle == [pc |-> "idle"]
Login == [pc : {"login"}, user : Users, pwd : Nat, mfa : BOOLEAN]
MfaVerify == [pc : {"mfa"}, user : Users, pwd : Nat, temp : Temps]
Rotate == [pc : {"rotate", "regrace"}, sid : Sids, old : Token, new : Token]
Refused == [pc : {"refused"}, tok : Token]
Select == [pc : {"plan"}, tok : Token]
Reset == [pc : {"hash"}, user : Users, reset : Resets]
Sweep == [pc : {"sweep", "unkey"}, user : Users, reset : Resets, pwd : Nat]
Request == {Idle} \union Login \union MfaVerify \union Rotate
             \union Refused \union Select \union Reset \union Sweep

TypeOK ==
    /\ now \in Nat
    /\ pwd \in [Users -> Nat]
    /\ sess \in [Sids -> Session \union {NoRow}]
    /\ grace \subseteq GraceKey
    /\ temps \in [Temps -> TempKey \union {NoRow, Spent}]
    /\ resets \in [Resets -> ResetKey \union {NoRow, Spent}]
    /\ req \in [Reqs -> Request]
    /\ delivered \subseteq Token /\ aside \subseteq Token
    /\ made \in [Sids -> Origin \union {NoRow}]
    /\ swept \in [Users -> Nat]
    /\ lost \subseteq Token
    /\ crashes \in Nat

Init ==
    /\ now = 0
    /\ pwd = [u \in Users |-> 0]
    /\ sess = [s \in Sids |-> NoRow]
    /\ grace = {}
    /\ temps = [t \in Temps |-> NoRow]
    /\ resets = [k \in Resets |-> NoRow]
    /\ req = [r \in Reqs |-> Idle]
    /\ delivered = {} /\ aside = {}
    /\ made = [s \in Sids |-> NoRow]
    /\ swept = [u \in Users |-> 0]
    /\ lost = {}
    /\ crashes = 0

Live(s) == sess[s] # NoRow
Stored(keys, k) == keys[k] \notin {NoRow, Spent}

-----------------------------------------------------------------------------
(* Sign-in.                                                                *)

\* _generateTokensWithSession: sign the pair, insert the row with expiresAt a
\* session lifetime away, answer with the pair.
OpenSession(s, u, p, mfa) ==
    /\ made[s] = NoRow
    /\ LET tok == [sid |-> s, mfa |-> mfa, iat |-> now] IN
        /\ sess' = [sess EXCEPT ![s] =
             [user |-> u, tok |-> tok, expires |-> now + SessionTTL]]
        /\ delivered' = delivered \union {tok}
    /\ made' = [made EXCEPT ![s] =
         [user |-> u, pwd |-> p, late |-> p # pwd[u], mfa |-> mfa, at |-> now]]

\* login reads the user with the hash and the MFA flag, and from here on works
\* with that snapshot.  A wrong password or a closed gate changes nothing here.
LoginRead(r, u) ==
    /\ req[r] = Idle
    /\ \E mfa \in BOOLEAN :
        req' = [req EXCEPT ![r] =
          [pc |-> "login", user |-> u, pwd |-> pwd[u], mfa |-> mfa]]
    /\ UNCHANGED <<now, pwd, sess, grace, temps, resets, delivered, aside,
                   made, swept, lost, crashes>>

\* bcrypt has accepted the password against the snapshot and MFA is off.
LoginOpen(r, s) ==
    /\ req[r].pc = "login" /\ ~req[r].mfa
    /\ OpenSession(s, req[r].user, req[r].pwd, FALSE)
    /\ req' = [req EXCEPT ![r] = Idle]
    /\ UNCHANGED <<now, pwd, grace, temps, resets, aside, swept, lost,
                   crashes>>

\* MFA is on: no tokens yet, a temporary token stands for the password check.
LoginAskMfa(r, t) ==
    /\ req[r].pc = "login" /\ req[r].mfa
    /\ temps[t] = NoRow
    /\ temps' = [temps EXCEPT ![t] =
         [user |-> req[r].user, pwd |-> req[r].pwd, until |-> now + TempTTL]]
    /\ req' = [req EXCEPT ![r] = Idle]
    /\ UNCHANGED <<now, pwd, sess, grace, resets, delivered, aside, made,
                   swept, lost, crashes>>

\* verifyMfa and verifyMfaBackupCode read the temporary token and the user,
\* and the code is right; a wrong one leaves the temporary token in place.
MfaRead(r, t) ==
    /\ req[r] = Idle
    /\ Stored(temps, t)
    /\ req' = [req EXCEPT ![r] =
         [pc |-> "mfa", user |-> temps[t].user, pwd |-> temps[t].pwd, temp |-> t]]
    /\ UNCHANGED <<now, pwd, sess, grace, temps, resets, delivered, aside,
                   made, swept, lost, crashes>>

\* They then delete the temporary token and open the session: two writes that
\* are one action here, for nothing else reads either of them in between but a
\* second verification, which the deletion is too late to stop either way.
MfaOpen(r, s) ==
    /\ req[r].pc = "mfa"
    /\ temps' = [temps EXCEPT ![req[r].temp] = Spent]
    /\ OpenSession(s, req[r].user, req[r].pwd, TRUE)
    /\ req' = [req EXCEPT ![r] = Idle]
    /\ UNCHANGED <<now, pwd, grace, resets, aside, swept, lost, crashes>>

-----------------------------------------------------------------------------
(* Refresh-token rotation.  The refresh guard has checked the JWT's own    *)
(* expiry; the session is found by the hash of the presented token.        *)

Presented(tok) == tok \in delivered /\ now < tok.iat + SessionTTL
HeldBy(tok) == {s \in Sids : Live(s) /\ sess[s].tok = tok}
GracedFor(tok) ==
    {s \in Sids : Live(s) /\ \E g \in grace : g.tok = tok /\ g.sid = s}

\* findSessionByToken hits, the row has not expired, the new pair is signed,
\* always with mfaVerified = true.
RefreshRead(r, tok) ==
    /\ req[r] = Idle
    /\ Presented(tok)
    /\ \E s \in HeldBy(tok) :
        /\ now <= sess[s].expires
        /\ req' = [req EXCEPT ![r] =
             [pc |-> "rotate", sid |-> s, old |-> tok,
              new |-> [sid |-> s, mfa |-> TRUE, iat |-> now]]]
    /\ UNCHANGED <<now, pwd, sess, grace, temps, resets, delivered, aside,
                   made, swept, lost, crashes>>

\* The row, found by token or by grace key, has expired: it is deleted.
RefreshExpired(tok) ==
    /\ Presented(tok)
    /\ \E s \in IF HeldBy(tok) # {} THEN HeldBy(tok) ELSE GracedFor(tok) :
        /\ now > sess[s].expires
        /\ sess' = [sess EXCEPT ![s] = NoRow]
    /\ UNCHANGED <<now, pwd, grace, temps, resets, req, delivered, aside,
                   made, swept, lost, crashes>>

\* findSessionByToken misses and a grace key leads to a row that is alive.
\* findSessionById loads the row without its user, so signing the new pair
\* dereferences an undefined user: the request fails and writes nothing.
RefreshGraced(r, tok) ==
    /\ req[r] = Idle
    /\ Presented(tok)
    /\ HeldBy(tok) = {}
    /\ \E s \in GracedFor(tok) : now <= sess[s].expires
    /\ req' = [req EXCEPT ![r] = [pc |-> "refused", tok |-> tok]]
    /\ UNCHANGED <<now, pwd, sess, grace, temps, resets, delivered, aside,
                   made, swept, lost, crashes>>

RefreshRefused(r) ==
    /\ req[r].pc = "refused"
    /\ req' = [req EXCEPT ![r] = Idle]
    /\ UNCHANGED <<now, pwd, sess, grace, temps, resets, delivered, aside,
                   made, swept, lost, crashes>>

\* Mutant: the write also renews expiresAt (a sliding session).
RefreshWriteSliding(r) ==
    /\ req[r].pc = "rotate" /\ Live(req[r].sid)
    /\ sess' = [sess EXCEPT ![req[r].sid].tok = req[r].new,
                            ![req[r].sid].expires = now + SessionTTL]
    /\ req' = [req EXCEPT ![r].pc = "regrace"]
    /\ UNCHANGED <<now, pwd, grace, temps, resets, delivered, aside, made,
                   swept, lost, crashes>>

\* Mutant: the hash is taken from a second signing, without the MFA claim.
RefreshWriteOther(r) ==
    /\ req[r].pc = "rotate" /\ Live(req[r].sid)
    /\ sess' = [sess EXCEPT ![req[r].sid].tok = [req[r].new EXCEPT !.mfa = FALSE]]
    /\ req' = [req EXCEPT ![r].pc = "regrace"]
    /\ UNCHANGED <<now, pwd, grace, temps, resets, delivered, aside, made,
                   swept, lost, crashes>>

\* Mutant: the write inserts the row when it is gone (an upsert).
RefreshWriteUpsert(r) ==
    /\ req[r].pc = "rotate"
    /\ LET s == req[r].sid IN
        sess' = [sess EXCEPT ![s] = [user |-> made[s].user, tok |-> req[r].new,
                                     expires |-> made[s].at + SessionTTL]]
    /\ req' = [req EXCEPT ![r].pc = "regrace"]
    /\ UNCHANGED <<now, pwd, grace, temps, resets, delivered, aside, made,
                   swept, lost, crashes>>

\* updateSessionActivity writes the new hash by id.  A row deleted meanwhile
\* makes Prisma throw and the request fails; expiresAt is left alone.
RefreshWrite(r) ==
    /\ req[r].pc = "rotate"
    /\ LET s == req[r].sid IN
        \/ /\ Live(s)
           /\ sess' = [sess EXCEPT ![s].tok = req[r].new]
           /\ req' = [req EXCEPT ![r].pc = "regrace"]
        \/ /\ ~Live(s)
           /\ req' = [req EXCEPT ![r] = Idle]
           /\ UNCHANGED sess
    /\ UNCHANGED <<now, pwd, grace, temps, resets, delivered, aside, made,
                   swept, lost, crashes>>

\* Mutant: the grace key holds the session row instead of its id.
RefreshAnswerRow(r) ==
    /\ req[r].pc = "regrace"
    /\ grace' = grace \union
         {[tok |-> req[r].old, sid |-> sess[req[r].sid], until |-> now + GraceTTL]}
    /\ delivered' = delivered \union {req[r].new}
    /\ req' = [req EXCEPT ![r] = Idle]
    /\ UNCHANGED <<now, pwd, sess, temps, resets, aside, made, swept, lost,
                   crashes>>

\* The grace key of the old token is set after the row has moved on, and the
\* new pair is sent; the answer may be lost on its way to the client.
RefreshAnswer(r) ==
    /\ req[r].pc = "regrace"
    /\ grace' = {g \in grace : g.tok # req[r].old} \union
         {[tok |-> req[r].old, sid |-> req[r].sid, until |-> now + GraceTTL]}
    /\ \/ /\ delivered' = delivered \union {req[r].new}
          /\ UNCHANGED lost
       \/ /\ lost' = lost \union {req[r].new}
          /\ UNCHANGED delivered
    /\ req' = [req EXCEPT ![r] = Idle]
    /\ UNCHANGED <<now, pwd, sess, temps, resets, aside, made, swept,
                   crashes>>

-----------------------------------------------------------------------------
(* Requests with an access token.                                          *)

\* JwtStrategy.validate: a token with a session id is good while the row
\* exists, whatever the row's expiresAt says.
Accepted(tok) ==
    /\ tok \in delivered \union aside
    /\ now < tok.iat + AccessTTL
    /\ Live(tok.sid)

\* select-plan: the caller's token is accepted, the subscription is written...
SelectRead(r, tok) ==
    /\ req[r] = Idle
    /\ Accepted(tok)
    /\ req' = [req EXCEPT ![r] = [pc |-> "plan", tok |-> tok]]
    /\ UNCHANGED <<now, pwd, sess, grace, temps, resets, delivered, aside,
                   made, swept, lost, crashes>>

\* ...and a new pair is signed for the session of that token.  The row is
\* neither read nor given the hash of the new refresh token.
SelectAnswer(r) ==
    /\ req[r].pc = "plan"
    /\ aside' = aside \union {[req[r].tok EXCEPT !.iat = now]}
    /\ req' = [req EXCEPT ![r] = Idle]
    /\ UNCHANGED <<now, pwd, sess, grace, temps, resets, delivered,
                   made, swept, lost, crashes>>

-----------------------------------------------------------------------------
(* Ending sessions.                                                        *)

\* logout of the session the caller's token names or, without one, of the
\* refresh token in a header; revokeSession of a session of the caller.  The
\* caller may hold a token that names another session or none (the pair of an
\* email verification, which select-plan renews), so there always is a caller.
EndSession(s) ==
    /\ Live(s)
    /\ sess' = [sess EXCEPT ![s] = NoRow]
    /\ UNCHANGED <<now, pwd, grace, temps, resets, req, delivered, aside,
                   made, swept, lost, crashes>>

-----------------------------------------------------------------------------
(* Password reset.                                                         *)

\* verifyForgotPasswordOtp mints a reset token for the owner of the code.
GrantReset(u, k) ==
    /\ resets[k] = NoRow
    /\ resets' = [resets EXCEPT ![k] = [user |-> u, until |-> now + ResetTTL]]
    /\ UNCHANGED <<now, pwd, sess, grace, temps, req, delivered, aside,
                   made, swept, lost, crashes>>

\* resetPassword reads the token and its user, then hashes the new password.
ResetRead(r, k) ==
    /\ req[r] = Idle
    /\ Stored(resets, k)
    /\ req' = [req EXCEPT ![r] =
         [pc |-> "hash", user |-> resets[k].user, reset |-> k]]
    /\ UNCHANGED <<now, pwd, sess, grace, temps, resets, delivered, aside,
                   made, swept, lost, crashes>>

\* updateSecurity stores the new hash: from here on the old password fails.
ResetWrite(r) ==
    /\ req[r].pc = "hash"
    /\ LET u == req[r].user IN
        /\ pwd[u] < MaxPwd
        /\ pwd' = [pwd EXCEPT ![u] = @ + 1]
        /\ req' = [req EXCEPT ![r] =
             [pc |-> "sweep", user |-> u, reset |-> req[r].reset, pwd |-> pwd[u] + 1]]
    /\ UNCHANGED <<now, sess, grace, temps, resets, delivered, aside, made,
                   swept, lost, crashes>>

\* Mutant: only the expired rows of the user are deleted.
ResetSweepExpired(r) ==
    /\ req[r].pc = "sweep"
    /\ LET u == req[r].user IN
        /\ sess' = [s \in Sids |->
             IF Live(s) /\ sess[s].user = u /\ now > sess[s].expires
             THEN NoRow ELSE sess[s]]
        /\ swept' = [swept EXCEPT ![u] = IF @ < req[r].pwd THEN req[r].pwd ELSE @]
    /\ req' = [req EXCEPT ![r].pc = "unkey"]
    /\ UNCHANGED <<now, pwd, grace, temps, resets, delivered, aside, made,
                   lost, crashes>>

\* deleteAllSessionsByUserId.
ResetSweep(r) ==
    /\ req[r].pc = "sweep"
    /\ LET u == req[r].user IN
        /\ sess' = [s \in Sids |->
             IF Live(s) /\ sess[s].user = u THEN NoRow ELSE sess[s]]
        /\ swept' = [swept EXCEPT ![u] = IF @ < req[r].pwd THEN req[r].pwd ELSE @]
    /\ req' = [req EXCEPT ![r].pc = "unkey"]
    /\ UNCHANGED <<now, pwd, grace, temps, resets, delivered, aside, made,
                   lost, crashes>>

\* The reset token is deleted last.
ResetDone(r) ==
    /\ req[r].pc = "unkey"
    /\ resets' = [resets EXCEPT ![req[r].reset] = Spent]
    /\ req' = [req EXCEPT ![r] = Idle]
    /\ UNCHANGED <<now, pwd, sess, grace, temps, delivered, aside, made,
                   swept, lost, crashes>>

-----------------------------------------------------------------------------
(* The environment.                                                        *)

Expire(keys) ==
    [k \in DOMAIN keys |->
       IF keys[k] \notin {NoRow, Spent} /\ keys[k].until <= now + 1
       THEN Spent ELSE keys[k]]

\* A second passes; Redis drops the keys whose time to live has run out.
Tick ==
    /\ now < MaxTime
    /\ now' = now + 1
    /\ grace' = {g \in grace : g.until > now + 1}
    /\ temps' = Expire(temps)
    /\ resets' = Expire(resets)
    /\ aside' = {tok \in aside : now + 1 < tok.iat + AccessTTL}
    /\ UNCHANGED <<pwd, sess, req, delivered, made, swept, lost, crashes>>

\* The process dies: every handler in flight stops where it is.  The pair of a
\* refresh that had already written its hash reaches nobody.
Crash ==
    /\ crashes < MaxCrash
    /\ crashes' = crashes + 1
    /\ lost' = lost \union
         {req[r].new : r \in {q \in Reqs : req[q].pc = "regrace"}}
    /\ req' = [r \in Reqs |-> Idle]
    /\ UNCHANGED <<now, pwd, sess, grace, temps, resets, delivered, aside,
                   made, swept>>

Next ==
    \/ \E r \in Reqs, u \in Users : LoginRead(r, u)
    \/ \E r \in Reqs, s \in Sids : LoginOpen(r, s) \/ MfaOpen(r, s)
    \/ \E r \in Reqs, t \in Temps : LoginAskMfa(r, t) \/ MfaRead(r, t)
    \/ \E r \in Reqs, tok \in delivered :
         RefreshRead(r, tok) \/ RefreshGraced(r, tok)
    \/ \E tok \in delivered : RefreshExpired(tok)
    \/ \E r \in Reqs, tok \in delivered \union aside : SelectRead(r, tok)
    \/ \E r \in Reqs : SelectAnswer(r)
    \/ \E s \in Sids : EndSession(s)
    \/ \E r \in Reqs : RefreshWrite(r) \/ RefreshAnswer(r) \/ RefreshRefused(r)
    \/ \E u \in Users, k \in Resets : GrantReset(u, k)
    \/ \E r \in Reqs, k \in Resets : ResetRead(r, k)
    \/ \E r \in Reqs : ResetWrite(r) \/ ResetSweep(r) \/ ResetDone(r)
    \/ Tick
    \/ Crash

Spec == Init /\ [][Next]_vars

-----------------------------------------------------------------------------
(* Properties.                                                             *)

\* The ledger status a session row and its history stand for, and the promise
\* the session rows keep: ids are never reused, and what a logout, revocation,
\* expiry or reset closed is never open again, whatever refreshes and sign-ins
\* were in flight (updateSessionActivity updates by id and never inserts).
LedgerStatus == [s \in Sids |->
    IF made[s] = NoRow THEN "fresh" ELSE IF Live(s) THEN "open" ELSE "closed"]

Ledger == INSTANCE SessionLedger WITH Ids <- Sids, status <- LedgerStatus

ImplementsLedger == Ledger!Spec

\* Once a password reset has swept the user's sessions, no session is left
\* that was opened with an older password, except by a login that straddled
\* the change (it had checked the old password before the new one was stored).
ResetEndsOldSessions ==
    \A s \in Sids : Live(s) /\ ~made[s].late => made[s].pwd >= swept[sess[s].user]

\* However often a client refreshes, no access token that sign-in or refresh
\* signed is accepted later than one access-token lifetime past the session's
\* original expiry: rotation never extends expiresAt and an expired row signs
\* nothing.  (The pairs of select-plan know no such bound.)
SessionLifetimeBounded ==
    \A tok \in delivered :
        Accepted(tok) => now < made[tok.sid].at + SessionTTL + AccessTTL

\* No live session is stranded: the refresh token its row expects was sent to
\* a client, is about to be sent, or was in an answer that got lost.  Refreshes
\* that overlap on one session never leave a hash in the row that no client got.
CurrentTokenWasSent ==
    \A s \in Sids : Live(s) =>
        \/ sess[s].tok \in delivered \union lost
        \/ \E r \in Reqs : req[r].pc = "regrace" /\ req[r].new = sess[s].tok

\* auth.service.ts:561 "Revoke all sessions on password reset for security":
\* after the sweep no session is left that an older password opened.
ResetRevokesAll ==
    \A s \in Sids : Live(s) => made[s].pwd >= swept[sess[s].user]

\* auth.service.ts:604 "Set grace period for the OLD token to prevent race
\* conditions (30 seconds)": a token inside its grace period is not refused.
GraceHonoured ==
    \A r \in Reqs : req[r].pc = "refused" =>
        ~\E g \in grace : g.tok = req[r].tok
=============================================================================
