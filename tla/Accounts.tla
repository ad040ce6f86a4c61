------------------------------ MODULE Accounts ------------------------------
(***************************************************************************)
(* The life of an account: registration by one of four routes, the email   *)
(* code, the gates of sign-in, and what administrators decide meanwhile.   *)
(* Registration looks the address up, hashes and only then inserts; login  *)
(* judges a snapshot it read before bcrypt; administrators write the row   *)
(* they looked up earlier.  Mail is sent by a service that swallows its    *)
(* errors and is left out, NODE_ENV is production, and passwords match:    *)
(* LoginLockout has the rest.                                              *)
(***************************************************************************)
EXTENDS Naturals, Handlers

CONSTANTS
    Emails,       \* addresses; one account each
    MaxRefusals,  \* bound on the times an account is refused
    MaxTurns      \* bound on the calls accepted

ASSUME AccountsAssumption ==
    MaxRefusals \in Nat /\ MaxTurns \in Nat /\ None \notin Emails

VARIABLES
    account,   \* users: email -> row
    member,    \* organization_members: email -> status in the firm registered with it
    code,      \* addresses with a key jl:otp:verify:{email}
    temp,      \* email -> MFA tokens, by the epoch of their password check
    paired,    \* addresses that hold a token pair without a session
    opened,    \* email -> sessions opened, by the epoch of their password check
    acctReq,   \* calls in flight
    turns,     \* calls accepted so far
    \* History variables.
    epoch,     \* email -> times the account went from admissible to refused
    answered   \* email -> registrations answered with success

accountsVars == <<account, member, code, temp, paired, opened, acctReq, turns, epoch, answered>>

Kinds == {"client", "advocate", "law_firm_admin"}
Approvals == {"approved", "pending", "rejected", "suspended"}
Account == [kind : Kinds, approval : Approvals, active : BOOLEAN, verified : BOOLEAN,
            deleted : BOOLEAN, mfa : BOOLEAN, profile : BOOLEAN]

\* No row, and no status, is the mark of an absent one.
ASSUME AccountAssumption == None \notin Account
ASSUME StatusAssumption == None \notin {"active", "inactive"}

Epochs == 0..MaxRefusals
Turn ==
    {Idle}
    \union [pc : {"create"}, email : Emails, row : Account]
    \union [pc : {"code"}, email : Emails, new : BOOLEAN]
    \union [pc : {"judge"}, email : Emails, row : Account, epoch : Epochs]
    \union [pc : {"temp", "untemp", "open"}, email : Emails, epoch : Epochs]
    \union [pc : {"mark", "unkey"}, email : Emails]
    \union [pc : {"decide"}, email : Emails, how : Approvals \union {"delete"}]

\* The state is well typed.
AccountsTypeOK ==
    /\ account \in [Emails -> Account \union {None}]
    /\ member \in [Emails -> {"active", "inactive", None}]
    /\ code \subseteq Emails /\ paired \subseteq Emails
    /\ temp \in [Emails -> SUBSET Epochs] /\ opened \in [Emails -> SUBSET Epochs]
    /\ acctReq \in [Requests -> Turn]
    /\ turns \in 0..MaxTurns
    /\ epoch \in [Emails -> Epochs]
    /\ answered \in [Emails -> Nat]

AccountsInit ==
    /\ account = [e \in Emails |-> None]
    /\ member = [e \in Emails |-> None]
    /\ code = {} /\ paired = {}
    /\ temp = [e \in Emails |-> {}] /\ opened = [e \in Emails |-> {}]
    /\ acctReq = AllIdle /\ turns = 0
    /\ epoch = [e \in Emails |-> 0]
    /\ answered = [e \in Emails |-> 0]

-----------------------------------------------------------------------------
(* Slots and rows.                                                         *)

Begin(r, next) ==
    /\ acctReq[r] = Idle /\ turns < MaxTurns
    /\ turns' = turns + 1
    /\ acctReq' = Put(acctReq, r, next)

Turned(r, next) == acctReq' = Put(acctReq, r, next) /\ UNCHANGED turns

Known(e) == account[e] # None

Refused(row) == ~row.active \/ row.approval # "approved"

\* The row of e becomes new; a change that first refuses it opens an epoch.
Save(e, new) ==
    /\ account' = [account EXCEPT ![e] = new]
    /\ IF Refused(new) /\ ~Refused(account[e])
       THEN epoch[e] < MaxRefusals /\ epoch' = [epoch EXCEPT ![e] = @ + 1]
       ELSE UNCHANGED epoch

rows == <<account, member, epoch>>
keys == <<code, temp>>
signedIn == <<paired, opened>>

\* A statement is refused or the process stops: the call ends where it is.
AccountsFail(r) ==
    /\ acctReq[r] # Idle
    /\ Turned(r, Idle)
    /\ UNCHANGED <<rows, keys, signedIn, answered>>

-----------------------------------------------------------------------------
(* Registration.                                                           *)

\* The four routes: the legacy one takes the kind from the body, approves it
\* and adds no profile; advocates and firms of their own routes wait.
Fresh(kind, legacy) ==
    [kind |-> kind,
     approval |-> IF legacy \/ kind = "client" THEN "approved" ELSE "pending",
     active |-> TRUE, verified |-> FALSE, deleted |-> FALSE, mfa |-> FALSE,
     profile |-> ~legacy /\ kind # "client"]

\* The address is looked up, deleted accounts included; hashing follows.
RegisterRead(r, e, kind, legacy) ==
    /\ ~Known(e)
    /\ Begin(r, [pc |-> "create", email |-> e, row |-> Fresh(kind, legacy)])
    /\ UNCHANGED <<rows, keys, signedIn, answered>>

\* Mutant: the account is written over one made meanwhile.
CreateAccountUpsert(r) ==
    LET c == acctReq[r] IN
    /\ c.pc = "create"
    /\ account' = [account EXCEPT ![c.email] = c.row]
    /\ member' = [member EXCEPT ![c.email] =
                    IF c.row.profile /\ c.row.kind = "law_firm_admin" THEN "active" ELSE @]
    /\ Turned(r, [pc |-> "code", email |-> c.email, new |-> TRUE])
    /\ UNCHANGED <<epoch, keys, signedIn, answered>>

\* createUser, createProfessional, createLawFirm: one nested write, with the
\* profile, or the firm and its first member; the address is unique.
CreateAccount(r) ==
    LET c == acctReq[r] IN
    /\ c.pc = "create"
    /\ IF Known(c.email)
       THEN Turned(r, Idle) /\ UNCHANGED <<account, member>>
       ELSE /\ account' = [account EXCEPT ![c.email] = c.row]
            /\ member' = [member EXCEPT ![c.email] =
                            IF c.row.profile /\ c.row.kind = "law_firm_admin" THEN "active" ELSE @]
            /\ Turned(r, [pc |-> "code", email |-> c.email, new |-> TRUE])
    /\ UNCHANGED <<epoch, keys, signedIn, answered>>

\* _sendVerificationOtp, then the answer, for a registration or a login.
SendOtp(r) ==
    LET c == acctReq[r] IN
    /\ c.pc = "code"
    /\ code' = code \union {c.email}
    /\ answered' = [answered EXCEPT ![c.email] = IF c.new THEN @ + 1 ELSE @]
    /\ Turned(r, Idle)
    /\ UNCHANGED <<rows, temp, signedIn>>

\* resendOtp.
ResendOtp(r, e) ==
    /\ Known(e) /\ ~account[e].verified
    /\ Begin(r, [pc |-> "code", email |-> e, new |-> FALSE])
    /\ UNCHANGED <<rows, keys, signedIn, answered>>

OtpExpires(e) ==
    /\ e \in code
    /\ code' = code \ {e}
    /\ UNCHANGED <<rows, temp, signedIn, acctReq, turns, answered>>

\* verifyEmailOtp: the key is read with the right code.
ConfirmRead(r, e) ==
    /\ e \in code
    /\ Begin(r, [pc |-> "mark", email |-> e])
    /\ UNCHANGED <<rows, keys, signedIn, answered>>

ConfirmMark(r) ==
    LET e == acctReq[r].email IN
    /\ acctReq[r].pc = "mark"
    /\ account' = [account EXCEPT ![e].verified = TRUE]
    /\ Turned(r, [acctReq[r] EXCEPT !.pc = "unkey"])
    /\ UNCHANGED <<member, epoch, keys, signedIn, answered>>

\* The key is deleted and a pair without a session answered, whatever the
\* account's approval.
ConfirmDone(r) ==
    LET e == acctReq[r].email IN
    /\ acctReq[r].pc = "unkey"
    /\ code' = code \ {e}
    /\ paired' = paired \union {e}
    /\ Turned(r, Idle)
    /\ UNCHANGED <<rows, temp, opened, answered>>

-----------------------------------------------------------------------------
(* Sign-in.                                                                *)

\* login: the snapshot, and whether the account is active, before bcrypt.
SignInRead(r, e) ==
    /\ Known(e) /\ account[e].active
    /\ Begin(r, [pc |-> "judge", email |-> e, row |-> account[e], epoch |-> epoch[e]])
    /\ UNCHANGED <<rows, keys, signedIn, answered>>

\* Mutant: suspended accounts pass.
SignInJudgeLax(r) ==
    LET c == acctReq[r]  to == [pc |-> "open", email |-> c.email, epoch |-> c.epoch] IN
    /\ c.pc = "judge"
    /\ Turned(r, CASE ~c.row.verified -> [pc |-> "code", email |-> c.email, new |-> FALSE]
                   [] c.row.verified /\ c.row.approval \in {"pending", "rejected"} -> Idle
                   [] OTHER -> IF c.row.mfa THEN [to EXCEPT !.pc = "temp"] ELSE to)
    /\ UNCHANGED <<rows, keys, signedIn, answered>>

\* The gates, on the snapshot: a code for the unverified, nothing for the
\* unapproved, a temporary token with MFA, a session without.
SignInJudge(r) ==
    LET c == acctReq[r]  to == [pc |-> "open", email |-> c.email, epoch |-> c.epoch] IN
    /\ c.pc = "judge"
    /\ Turned(r, CASE ~c.row.verified -> [pc |-> "code", email |-> c.email, new |-> FALSE]
                   [] c.row.verified /\ c.row.approval # "approved" -> Idle
                   [] OTHER -> IF c.row.mfa THEN [to EXCEPT !.pc = "temp"] ELSE to)
    /\ UNCHANGED <<rows, keys, signedIn, answered>>

SignInTemp(r) ==
    LET c == acctReq[r] IN
    /\ c.pc = "temp"
    /\ temp' = [temp EXCEPT ![c.email] = @ \union {c.epoch}]
    /\ Turned(r, Idle)
    /\ UNCHANGED <<rows, code, signedIn, answered>>

\* verifyMfa, verifyMfaBackupCode: the token is read with a right code, and no
\* gate is asked again, so a token outlives a suspension by its five minutes.
MfaRead(r, e) ==
    /\ Known(e) /\ account[e].mfa
    /\ \E n \in temp[e] : Begin(r, [pc |-> "untemp", email |-> e, epoch |-> n])
    /\ UNCHANGED <<rows, keys, signedIn, answered>>

MfaUntemp(r) ==
    LET c == acctReq[r] IN
    /\ c.pc = "untemp"
    /\ temp' = [temp EXCEPT ![c.email] = @ \ {c.epoch}]
    /\ Turned(r, [c EXCEPT !.pc = "open"])
    /\ UNCHANGED <<rows, code, signedIn, answered>>

TempExpires(e) ==
    /\ temp[e] # {}
    /\ temp' = [temp EXCEPT ![e] = {}]
    /\ UNCHANGED <<rows, code, signedIn, acctReq, turns, answered>>

\* createSession.
SignInOpen(r) ==
    LET c == acctReq[r] IN
    /\ c.pc = "open"
    /\ opened' = [opened EXCEPT ![c.email] = @ \union {c.epoch}]
    /\ Turned(r, Idle)
    /\ UNCHANGED <<rows, keys, paired, answered>>

\* JwtStrategy.validate: whose requests are served.
Admitted(e) ==
    /\ Known(e) /\ ~account[e].deleted /\ account[e].active
    /\ opened[e] # {} \/ e \in paired

\* setupMfa and enableMfa by the user.
TurnOnMfa(e) ==
    /\ Admitted(e) /\ ~account[e].mfa
    /\ account' = [account EXCEPT ![e].mfa = TRUE]
    /\ UNCHANGED <<member, epoch, keys, signedIn, acctReq, turns, answered>>

-----------------------------------------------------------------------------
(* Administrators.                                                         *)

\* users/:id/approve, reject, suspend, unsuspend and DELETE users/:id look the
\* account up among those not deleted.
DecideRead(r, e, how) ==
    /\ Known(e)
    /\ ~account[e].deleted
    /\ how # "pending"
    /\ Begin(r, [pc |-> "decide", email |-> e, how |-> how])
    /\ UNCHANGED <<rows, keys, signedIn, answered>>

\* professionals/:id/approve asks for the professional's profile alone.
ApproveProfessional(r, e) ==
    /\ Known(e) /\ account[e].kind = "advocate" /\ account[e].profile
    /\ Begin(r, [pc |-> "decide", email |-> e, how |-> "approved"])
    /\ UNCHANGED <<rows, keys, signedIn, answered>>

\* The fields decided upon are written, whatever the row has become.
DecideWrite(r) ==
    LET c == acctReq[r] IN
    /\ c.pc = "decide"
    /\ Save(c.email, IF c.how = "delete"
                     THEN [account[c.email] EXCEPT !.active = FALSE, !.deleted = TRUE]
                     ELSE [account[c.email] EXCEPT !.approval = c.how])
    /\ Turned(r, Idle)
    /\ UNCHANGED <<member, keys, signedIn, answered>>

\* PATCH admin/users/:id/approval: approval also activates, a deleted row too.
AdminApproval(e, how) ==
    /\ Known(e) /\ turns < MaxTurns
    /\ turns' = turns + 1
    /\ Save(e, [account[e] EXCEPT !.approval = how, !.active = @ \/ how = "approved"])
    /\ UNCHANGED <<member, keys, signedIn, acctReq, answered>>

\* PATCH admin/users/:id/status.
AdminStatus(e, active) ==
    /\ Known(e) /\ turns < MaxTurns
    /\ turns' = turns + 1
    /\ Save(e, [account[e] EXCEPT !.active = active])
    /\ UNCHANGED <<member, keys, signedIn, acctReq, answered>>

\* DELETE organizations/:id/members/:userId by anybody else; nothing that can
\* run makes a member active again, since invitations are refused.
RemoveMember(e) ==
    /\ member[e] = "active"
    /\ member' = [member EXCEPT ![e] = "inactive"]
    /\ UNCHANGED <<account, epoch, keys, signedIn, acctReq, turns, answered>>

-----------------------------------------------------------------------------
(* The routes of the controllers, and the work they start.                 *)

AuthRoutes(r, e) ==
    \/ \E k \in Kinds, legacy \in BOOLEAN : RegisterRead(r, e, k, legacy)
    \/ ConfirmRead(r, e) \/ ResendOtp(r, e) \/ SignInRead(r, e) \/ MfaRead(r, e)
    \/ TurnOnMfa(e)

UserRoutes(r, e) == \E how \in Approvals \union {"delete"} : DecideRead(r, e, how)

AdminRoutes(e) ==
    \/ \E how \in Approvals : AdminApproval(e, how)
    \/ \E active \in BOOLEAN : AdminStatus(e, active)

AccountsStep(r) ==
    \/ CreateAccount(r) \/ SendOtp(r)
    \/ ConfirmMark(r) \/ ConfirmDone(r)
    \/ SignInJudge(r) \/ SignInTemp(r) \/ MfaUntemp(r) \/ SignInOpen(r)
    \/ DecideWrite(r) \/ AccountsFail(r)

AccountsNext ==
    \/ \E r \in Requests :
        \/ AccountsStep(r)
        \/ \E e \in Emails : AuthRoutes(r, e) \/ UserRoutes(r, e) \/ ApproveProfessional(r, e)
    \/ \E e \in Emails : AdminRoutes(e) \/ RemoveMember(e) \/ OtpExpires(e) \/ TempExpires(e)

AccountsSpec == AccountsInit /\ [][AccountsNext]_accountsVars

-----------------------------------------------------------------------------
(* Properties.                                                             *)

\* While an account is refused (pending, rejected, suspended or inactive),
\* every session it has opened began with a password check made before that:
\* login judges a snapshot, and an MFA token is not judged again.
RefusedSignInsAreOlder ==
    \A e \in Emails :
        Known(e) /\ Refused(account[e]) => \A n \in opened[e] : n < epoch[e]

\* Overlapping registrations of one address do not mix: one of them is answered
\* with success at most, and a membership in a firm is there exactly when the
\* account is that of a registered firm (findUserByEmail, the unique address,
\* and createLawFirm's nested write; the legacy route makes no firm).
RegistrationsDoNotMix ==
    \A e \in Emails :
        /\ answered[e] <= 1
        /\ member[e] # None <=>
             Known(e) /\ account[e].profile /\ account[e].kind = "law_firm_admin"

=============================================================================
