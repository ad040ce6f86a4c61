---------------------------- MODULE MfaEnrolment ----------------------------
(***************************************************************************)
(* The second factor of one account: the authenticator secret and the      *)
(* backup codes in user_security, and the secret of an unfinished set-up   *)
(* in Redis.  A handler reads, awaits, and writes what it has computed     *)
(* from what it read; the list of backup codes is written back whole.      *)
(*                                                                         *)
(* The temporary token that admits a verification is AuthSessions' matter: *)
(* here every verification has one.  It may outlive the factor it was      *)
(* issued for, and the backup-code handler looks at the list only.         *)
(***************************************************************************)
EXTENDS Naturals

CONSTANTS
    Reqs,        \* requests that can be in flight together
    Count,       \* BACKUP_CODE_COUNT (10)
    MaxSecrets,  \* bound on the set-ups started
    MaxBatches,  \* bound on the lists of backup codes generated
    MaxAborts    \* bound on handlers that stop half-way

ASSUME EnrolmentAssumption ==
    Count \in Nat /\ MaxSecrets \in Nat /\ MaxBatches \in Nat /\ MaxAborts \in Nat

VARIABLES
    sec,         \* mfaEnabled, mfaSecret (0 is null) and mfaBackupCodes
    setup,       \* jl:mfa:setup:{userId}; secrets are numbered, 0 is no key
    req,         \* requests in flight
    \* History variables.
    overlap,     \* a request has taken a step while another was in flight
    secrets,     \* secrets generated so far
    batches,     \* lists of backup codes generated so far
    shown,       \* the secret and the list of codes last answered to the user
    uses,        \* sign-ins each backup code has been accepted for
    dead,        \* codes used or replaced while no verification was about to
                 \* write back a list it had read earlier
    aborts

vars == <<sec, setup, req, overlap, secrets, batches, shown, uses, dead, aborts>>

Code == [batch : 1..MaxBatches, n : 1..Count]
Batch(b) == [batch : {b}, n : 1..Count]

Security == [enabled : BOOLEAN, secret : 0..MaxSecrets, codes : SUBSET Code]
NoMfa == [enabled |-> FALSE, secret |-> 0, codes |-> {}]

Idle == [pc |-> "idle"]
Request == {Idle}
    \union [pc : {"enable"}, secret : 1..MaxSecrets]
    \union [pc : {"unset"}, secret : 1..MaxSecrets, batch : 1..MaxBatches]
    \union [pc : {"disable", "regenerate"}]
    \union [pc : {"spend", "open"}, code : Code, rest : SUBSET Code]

\* The flag and the secret go together: a verification that finds the flag
\* would otherwise find nothing to verify against.
TypeOK ==
    /\ sec \in Security
    /\ sec.enabled <=> sec.secret # 0
    /\ setup \in 0..MaxSecrets
    /\ req \in [Reqs -> Request]
    /\ overlap \in BOOLEAN
    /\ secrets \in 0..MaxSecrets /\ batches \in 0..MaxBatches
    /\ shown \in [secret : 0..MaxSecrets, batch : 0..MaxBatches]
    /\ uses \in [Code -> Nat]
    /\ dead \subseteq Code
    /\ aborts \in 0..MaxAborts

Init ==
    /\ sec = NoMfa
    /\ setup = 0
    /\ req = [r \in Reqs |-> Idle]
    /\ overlap = FALSE
    /\ secrets = 0 /\ batches = 0
    /\ shown = [secret |-> 0, batch |-> 0]
    /\ uses = [c \in Code |-> 0]
    /\ dead = {}
    /\ aborts = 0

To(r, next) ==
    /\ req' = [req EXCEPT ![r] = next]
    /\ overlap' = (overlap \/ \E q \in Reqs \ {r} : req[q] # Idle)

\* Codes leave the list for good, unless a verification is about to write back
\* the list as it was.
Retire(r, codes) ==
    dead' = IF \E q \in Reqs \ {r} : req[q].pc = "spend" THEN dead
            ELSE dead \union codes

-----------------------------------------------------------------------------
(* Set-up and enabling.                                                    *)

\* setupMfa: a fresh secret overwrites the key; MFA may be on already.
Setup ==
    /\ secrets < MaxSecrets
    /\ secrets' = secrets + 1
    /\ setup' = secrets + 1
    /\ UNCHANGED <<sec, req, overlap, batches, shown, uses, dead, aborts>>

\* enableMfa: the code is right for the secret read from the key.
EnableRead(r) ==
    /\ req[r] = Idle
    /\ setup # 0
    /\ To(r, [pc |-> "enable", secret |-> setup])
    /\ UNCHANGED <<sec, setup, secrets, batches, shown, uses, dead, aborts>>

\* The secret and fresh backup codes are stored...
EnableWrite(r) ==
    /\ req[r].pc = "enable"
    /\ batches < MaxBatches
    /\ batches' = batches + 1
    /\ sec' = [enabled |-> TRUE, secret |-> req[r].secret, codes |-> Batch(batches + 1)]
    /\ Retire(r, sec.codes)
    /\ To(r, [pc |-> "unset", secret |-> req[r].secret, batch |-> batches + 1])
    /\ UNCHANGED <<setup, secrets, shown, uses, aborts>>

\* ...then the key is deleted, whichever secret it holds by now, and the codes
\* are answered.
EnableDone(r) ==
    /\ req[r].pc = "unset"
    /\ setup' = 0
    /\ shown' = [secret |-> req[r].secret, batch |-> req[r].batch]
    /\ To(r, Idle)
    /\ UNCHANGED <<sec, secrets, batches, uses, dead, aborts>>

-----------------------------------------------------------------------------
(* Disabling and regenerating.                                             *)

\* disableMfa: the flag is set in the row read before bcrypt.
DisableRead(r) ==
    /\ req[r] = Idle
    /\ sec.enabled
    /\ To(r, [pc |-> "disable"])
    /\ UNCHANGED <<sec, setup, secrets, batches, shown, uses, dead, aborts>>

\* Mutant: the flag alone is cleared.
DisableWriteFlag(r) ==
    /\ req[r].pc = "disable"
    /\ sec' = [sec EXCEPT !.enabled = FALSE]
    /\ To(r, Idle)
    /\ UNCHANGED <<setup, secrets, batches, shown, uses, dead, aborts>>

DisableWrite(r) ==
    /\ req[r].pc = "disable"
    /\ sec' = NoMfa
    /\ Retire(r, sec.codes)
    /\ To(r, Idle)
    /\ UNCHANGED <<setup, secrets, batches, shown, uses, aborts>>

\* regenerateBackupCodes.
RegenerateRead(r) ==
    /\ req[r] = Idle
    /\ sec.enabled
    /\ To(r, [pc |-> "regenerate"])
    /\ UNCHANGED <<sec, setup, secrets, batches, shown, uses, dead, aborts>>

\* Mutant: the new codes are added to the old ones.
RegenerateWriteAdd(r) ==
    /\ req[r].pc = "regenerate"
    /\ batches < MaxBatches
    /\ batches' = batches + 1
    /\ sec' = [sec EXCEPT !.codes = @ \union Batch(batches + 1)]
    /\ shown' = [shown EXCEPT !.batch = batches + 1]
    /\ Retire(r, sec.codes)
    /\ To(r, Idle)
    /\ UNCHANGED <<setup, secrets, uses, aborts>>

\* Mutant: one code of the answered list is not stored.
RegenerateWriteShort(r) ==
    /\ req[r].pc = "regenerate"
    /\ batches < MaxBatches
    /\ batches' = batches + 1
    /\ sec' = [sec EXCEPT !.codes = {c \in Batch(batches + 1) : c.n < Count}]
    /\ shown' = [shown EXCEPT !.batch = batches + 1]
    /\ Retire(r, sec.codes)
    /\ To(r, Idle)
    /\ UNCHANGED <<setup, secrets, uses, aborts>>

\* The codes are replaced, whether or not MFA is still on, and answered.
RegenerateWrite(r) ==
    /\ req[r].pc = "regenerate"
    /\ batches < MaxBatches
    /\ batches' = batches + 1
    /\ sec' = [sec EXCEPT !.codes = Batch(batches + 1)]
    /\ shown' = [shown EXCEPT !.batch = batches + 1]
    /\ Retire(r, sec.codes)
    /\ To(r, Idle)
    /\ UNCHANGED <<setup, secrets, uses, aborts>>

-----------------------------------------------------------------------------
(* Sign-in with a backup code.                                             *)

\* Mutant: indexOf's -1 is not refused.
BackupReadAny(r) ==
    /\ req[r] = Idle
    /\ \E c \in Code :
         /\ c.batch <= batches
         /\ To(r, [pc |-> "spend", code |-> c, rest |-> sec.codes \ {c}])
    /\ UNCHANGED <<sec, setup, secrets, batches, shown, uses, dead, aborts>>

\* verifyMfaBackupCode: the code is in the list; the list without it is kept.
BackupRead(r) ==
    /\ req[r] = Idle
    /\ \E c \in sec.codes :
         To(r, [pc |-> "spend", code |-> c, rest |-> sec.codes \ {c}])
    /\ UNCHANGED <<sec, setup, secrets, batches, shown, uses, dead, aborts>>

\* The list is written back as it was read, less the code...
BackupWrite(r) ==
    /\ req[r].pc = "spend"
    /\ sec' = [sec EXCEPT !.codes = req[r].rest]
    /\ Retire(r, {req[r].code})
    /\ To(r, [req[r] EXCEPT !.pc = "open"])
    /\ UNCHANGED <<setup, secrets, batches, shown, uses, aborts>>

\* ...and the user is signed in.
BackupDone(r) ==
    /\ req[r].pc = "open"
    /\ uses' = [uses EXCEPT ![req[r].code] = @ + 1]
    /\ To(r, Idle)
    /\ UNCHANGED <<sec, setup, secrets, batches, shown, dead, aborts>>

-----------------------------------------------------------------------------

\* The set-up key's time to live runs out.
Expire ==
    /\ setup # 0
    /\ setup' = 0
    /\ UNCHANGED <<sec, req, overlap, secrets, batches, shown, uses, dead, aborts>>

\* Redis or the database fails, or the process dies: the handler stops here.
Abort(r) ==
    /\ req[r] # Idle
    /\ aborts < MaxAborts
    /\ aborts' = aborts + 1
    /\ To(r, Idle)
    /\ UNCHANGED <<sec, setup, secrets, batches, shown, uses, dead>>

\* SecurityController's routes that change the second factor.
SecurityRoutes(r) == DisableRead(r) \/ RegenerateRead(r)

Next ==
    \/ Setup \/ Expire
    \/ \E r \in Reqs :
        \/ EnableRead(r) \/ EnableWrite(r) \/ EnableDone(r)
        \/ SecurityRoutes(r) \/ DisableWrite(r) \/ RegenerateWrite(r)
        \/ BackupRead(r) \/ BackupWrite(r) \/ BackupDone(r)
        \/ Abort(r)

Spec == Init /\ [][Next]_vars

-----------------------------------------------------------------------------

\* As long as requests do not overlap, a backup code signs in once, through any
\* sequence of set-ups, enablings, disablings, regenerations and failures.
BackupCodeOnce == ~overlap => \A c \in Code : uses[c] <= 1

\* As long as requests neither overlap nor stop half-way, what the user was
\* last shown is what works: the secret, and every code not used yet.
ShownFactorsWork ==
    sec.enabled /\ ~overlap /\ aborts = 0 /\ (\A r \in Reqs : req[r] = Idle) =>
        /\ sec.secret = shown.secret
        /\ sec.codes = {c \in Batch(shown.batch) : uses[c] = 0}

\* However requests overlap and fail: a code that was used or replaced is
\* never good again, unless a verification had read the list before that and
\* wrote it back after.
DeadCodesStayDead == sec.codes \intersect dead = {}
=============================================================================
