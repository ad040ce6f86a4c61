-------------------------- MODULE Accounts_proofs --------------------------
(***************************************************************************)
(* Proofs about Accounts, for any addresses, any number of overlapping     *)
(* calls and any bounds.                                                   *)
(*                                                                         *)
(* RefusedSignInsAreOlder speaks of sessions only, and a session's epoch   *)
(* was read long before it is opened.  So every place that holds an epoch  *)
(* is bound (Over): MFA tokens, and the calls between a gate that let them *)
(* pass and the session they open.  RegistrationsDoNotMix needs that an    *)
(* answer still to come belongs to the one insert that succeeded.          *)
(***************************************************************************)
EXTENDS Accounts, TLAPS

\* n is an epoch of e's row in which the password may have been accepted.
Over(acc, ep, e, n) ==
    acc[e] # None /\ n <= ep[e] /\ (Refused(acc[e]) => n < ep[e])

\* What a call in flight may rely on.
Sound(c, acc, ep) ==
    /\ c.pc \in {"temp", "untemp", "open"} => Over(acc, ep, c.email, c.epoch)
    /\ c.pc = "judge" =>
         /\ acc[c.email] # None /\ c.epoch <= ep[c.email] /\ c.row.active
         /\ c.row.approval = "approved" => Over(acc, ep, c.email, c.epoch)
    /\ c.pc \in {"code", "mark", "unkey", "decide"} => acc[c.email] # None

Slots == \A r \in Requests : Sound(acctReq[r], account, epoch)
SignIns == \A e \in Emails : \A n \in opened[e] \union temp[e] : Over(account, epoch, e, n)
Codes == \A e \in code : Known(e)

IInv == AccountsTypeOK /\ Slots /\ SignIns /\ Codes

\* A step that forgets no row and no epoch that was over.
Kept ==
    \A e \in Emails : account[e] # None =>
        /\ account'[e] # None /\ epoch[e] <= epoch'[e]
        /\ \A n \in Epochs : Over(account, epoch, e, n) => Over(account', epoch', e, n)

USE AccountsAssumption, AccountAssumption

-----------------------------------------------------------------------------

\* A slot whose program counter is known holds the locals of that step.
LEMMA TurnShape ==
    ASSUME NEW c \in Turn
    PROVE  /\ c.pc \in {"create", "code", "judge", "temp", "untemp", "open",
                        "mark", "unkey", "decide"} => c.email \in Emails
           /\ c.pc \in {"create", "judge"} => c.row \in Account
           /\ c.pc = "code" => c.new \in BOOLEAN
           /\ c.pc \in {"judge", "temp", "untemp", "open"} => c.epoch \in Epochs
           /\ c.pc = "decide" => c.how \in Approvals \union {"delete"}
BY DEF Turn, Idle

LEMMA IdleFits == Idle \in Turn /\ \A acc, ep : Sound(Idle, acc, ep)
BY DEF Turn, Idle, Sound

LEMMA TypeInit == AccountsInit => IInv
<1> SUFFICES ASSUME AccountsInit PROVE IInv
  OBVIOUS
<1>1. acctReq \in [Requests -> Turn] /\ \A r \in Requests : acctReq[r] = Idle
  BY IdleFits DEF AccountsInit, AllIdle
<1>2. 0 \in Epochs
  BY DEF Epochs
<1>3. AccountsTypeOK
  BY <1>1, <1>2 DEF AccountsInit, AccountsTypeOK
<1>4. Slots
  BY <1>1, IdleFits DEF Slots
<1>5. SignIns /\ Codes
  BY DEF AccountsInit, SignIns, Codes
<1> QED BY <1>3, <1>4, <1>5 DEF IInv

\* A step that leaves rows and epochs alone keeps everything.
LEMMA RowsStay ==
    ASSUME AccountsTypeOK, UNCHANGED rows
    PROVE  Kept /\ UNCHANGED <<account, member, epoch>> /\ epoch' \in [Emails -> Epochs]
<1>1. UNCHANGED <<account, member, epoch>>
  BY DEF rows
<1>2. \A e \in Emails : epoch[e] <= epoch[e]
  BY DEF AccountsTypeOK, Epochs
<1>3. Kept
  BY <1>1, <1>2 DEF Kept, Over
<1> QED BY <1>1, <1>3 DEF AccountsTypeOK

LEMMA SoundStays ==
    ASSUME AccountsTypeOK, Kept, NEW c \in Turn, Sound(c, account, epoch),
           epoch' \in [Emails -> Epochs]
    PROVE  Sound(c, account', epoch')
<1>1. CASE c.pc \in {"temp", "untemp", "open"}
  BY <1>1, TurnShape DEF Sound, Kept, Over
<1>2. CASE c.pc = "judge"
  <2>1. c.email \in Emails /\ c.epoch \in Epochs
    BY <1>2, TurnShape
  <2>2. epoch[c.email] \in Nat /\ epoch'[c.email] \in Nat /\ c.epoch \in Nat
    BY <2>1 DEF AccountsTypeOK, Epochs
  <2> QED BY <1>2, <2>1, <2>2 DEF Sound, Kept
<1>3. CASE c.pc \in {"code", "mark", "unkey", "decide"}
  BY <1>3, TurnShape DEF Sound, Kept
<1>4. CASE c.pc \in {"idle", "create"}
  BY <1>4 DEF Sound
<1> QED BY <1>1, <1>2, <1>3, <1>4 DEF Turn, Idle

\* The call of r moves on to c.
LEMMA SlotsMove ==
    ASSUME IInv, Kept, epoch' \in [Emails -> Epochs], NEW r \in Requests, NEW c \in Turn,
           acctReq' = [acctReq EXCEPT ![r] = c], Sound(c, account', epoch')
    PROVE  acctReq' \in [Requests -> Turn] /\ Slots'
<1>1. acctReq' \in [Requests -> Turn]
  BY DEF IInv, AccountsTypeOK
<1>2. ASSUME NEW q \in Requests PROVE Sound(acctReq'[q], account', epoch')
  <2>1. CASE q = r
    BY <2>1 DEF IInv, AccountsTypeOK
  <2>2. CASE q # r
    <3>1. acctReq'[q] = acctReq[q] /\ acctReq[q] \in Turn /\ Sound(acctReq[q], account, epoch)
      BY <2>2 DEF IInv, AccountsTypeOK, Slots
    <3> QED BY <3>1, SoundStays DEF IInv
  <2> QED BY <2>1, <2>2
<1> QED BY <1>1, <1>2 DEF Slots

LEMMA SlotsRest ==
    ASSUME IInv, Kept, epoch' \in [Emails -> Epochs], acctReq' = acctReq
    PROVE  acctReq' \in [Requests -> Turn] /\ Slots'
<1>1. ASSUME NEW q \in Requests PROVE Sound(acctReq'[q], account', epoch')
  <2>1. acctReq[q] \in Turn /\ Sound(acctReq[q], account, epoch)
    BY DEF IInv, AccountsTypeOK, Slots
  <2> QED BY <2>1, SoundStays DEF IInv
<1> QED BY <1>1 DEF Slots, IInv, AccountsTypeOK

\* Sessions and tokens that were there, or whose epoch is bound.
LEMMA SignInsStay ==
    ASSUME IInv, Kept,
           \A e \in Emails : \A n \in opened'[e] \union temp'[e] :
               n \in opened[e] \union temp[e] \/ Over(account', epoch', e, n)
    PROVE  SignIns'
<1>1. ASSUME NEW e \in Emails, NEW n \in opened'[e] \union temp'[e]
      PROVE  Over(account', epoch', e, n)
  <2>1. CASE n \in opened[e] \union temp[e]
    <3>1. Over(account, epoch, e, n) /\ n \in Epochs
      BY <2>1 DEF IInv, SignIns, AccountsTypeOK
    <3>2. account[e] # None
      BY <3>1 DEF Over
    <3> QED BY <3>1, <3>2 DEF Kept
  <2> QED BY <2>1
<1> QED BY <1>1 DEF SignIns

LEMMA CodesStay ==
    ASSUME IInv, Kept, \A e \in code' : e \in code \/ account'[e] # None
    PROVE  Codes'
BY DEF IInv, Codes, Kept, Known, AccountsTypeOK

\* A row that was there is saved.
LEMMA SaveKeeps ==
    ASSUME AccountsTypeOK, NEW e \in Emails, account[e] # None, NEW new \in Account,
           Save(e, new)
    PROVE  /\ Kept /\ account' = [account EXCEPT ![e] = new]
           /\ account' \in [Emails -> Account \union {None}]
           /\ epoch' \in [Emails -> Epochs]
<1>1. account' = [account EXCEPT ![e] = new]
  BY DEF Save
<1>2. epoch \in [Emails -> Epochs] /\ epoch[e] \in Nat
  BY DEF AccountsTypeOK, Epochs
<1>3. CASE Refused(new) /\ ~Refused(account[e])
  <2>1. epoch' = [epoch EXCEPT ![e] = epoch[e] + 1] /\ epoch[e] < MaxRefusals
    BY <1>3 DEF Save
  <2>2. epoch' \in [Emails -> Epochs]
    BY <1>2, <2>1 DEF Epochs
  <2>3. Kept
    <3> SUFFICES ASSUME NEW d \in Emails, account[d] # None
                 PROVE  /\ account'[d] # None /\ epoch[d] <= epoch'[d]
                        /\ \A n \in Epochs : Over(account, epoch, d, n) => Over(account', epoch', d, n)
      BY DEF Kept
    <3>1. epoch[d] \in Nat /\ \A n \in Epochs : n \in Nat
      BY DEF AccountsTypeOK, Epochs
    <3>2. CASE d = e
      <4>1. account'[d] = new /\ epoch'[d] = epoch[d] + 1
        BY <1>1, <2>1, <3>2 DEF AccountsTypeOK
      <4>2. new # None
        OBVIOUS
      <4> QED BY <4>1, <4>2, <3>1 DEF Over
    <3>3. CASE d # e
      <4>1. account'[d] = account[d] /\ epoch'[d] = epoch[d]
        BY <1>1, <2>1, <3>3 DEF AccountsTypeOK
      <4> QED BY <4>1, <3>1 DEF Over
    <3> QED BY <3>2, <3>3
  <2> QED BY <1>1, <2>2, <2>3 DEF AccountsTypeOK
<1>4. CASE ~(Refused(new) /\ ~Refused(account[e]))
  <2>1. epoch' = epoch
    BY <1>4 DEF Save
  <2>2. Kept
    <3> SUFFICES ASSUME NEW d \in Emails, account[d] # None
                 PROVE  /\ account'[d] # None /\ epoch[d] <= epoch'[d]
                        /\ \A n \in Epochs : Over(account, epoch, d, n) => Over(account', epoch', d, n)
      BY DEF Kept
    <3>1. epoch[d] \in Nat
      BY DEF AccountsTypeOK, Epochs
    <3>2. CASE d = e
      <4>1. account'[d] = new
        BY <1>1, <3>2 DEF AccountsTypeOK
      <4>2. new # None
        OBVIOUS
      <4>3. Refused(new) => Refused(account[d])
        BY <1>4, <3>2
      <4> QED BY <4>1, <4>2, <4>3, <2>1, <3>1 DEF Over
    <3>3. CASE d # e
      <4>1. account'[d] = account[d]
        BY <1>1, <3>3 DEF AccountsTypeOK
      <4> QED BY <4>1, <2>1, <3>1 DEF Over
    <3> QED BY <3>2, <3>3
  <2> QED BY <1>1, <1>2, <2>1, <2>2 DEF AccountsTypeOK
<1> QED BY <1>3, <1>4

-----------------------------------------------------------------------------
(* Every step keeps IInv.                                                  *)

\* A call moves on without touching a row.
LEMMA CallMoves ==
    ASSUME IInv, NEW r \in Requests, NEW c \in Turn, Sound(c, account, epoch),
           acctReq' = [acctReq EXCEPT ![r] = c], turns' \in 0..MaxTurns,
           UNCHANGED rows,
           code' \subseteq Emails, paired' \subseteq Emails,
           temp' \in [Emails -> SUBSET Epochs], opened' \in [Emails -> SUBSET Epochs],
           answered' \in [Emails -> Nat],
           \A e \in Emails : \A n \in opened'[e] \union temp'[e] :
               n \in opened[e] \union temp[e] \/ Over(account, epoch, e, n),
           \A e \in code' : e \in code \/ account[e] # None
    PROVE  IInv'
<1>1. Kept /\ UNCHANGED <<account, member, epoch>> /\ epoch' \in [Emails -> Epochs]
  BY RowsStay DEF IInv
<1>2. acctReq' \in [Requests -> Turn] /\ Slots'
  BY <1>1, SlotsMove
<1>3. SignIns'
  BY <1>1, SignInsStay
<1>4. Codes'
  BY <1>1, CodesStay
<1>5. AccountsTypeOK'
  BY <1>1, <1>2 DEF IInv, AccountsTypeOK
<1> QED BY <1>2, <1>3, <1>4, <1>5 DEF IInv

LEMMA FailKeeps == ASSUME IInv, NEW r \in Requests, AccountsFail(r) PROVE IInv'
<1>1. acctReq' = [acctReq EXCEPT ![r] = Idle] /\ turns' = turns /\ UNCHANGED rows
      /\ UNCHANGED <<code, temp, paired, opened, answered>>
  BY DEF AccountsFail, Turned, Put, keys, signedIn
<1> QED BY <1>1, IdleFits, CallMoves DEF IInv, AccountsTypeOK

LEMMA AuthRoutesKeep ==
    ASSUME IInv, NEW r \in Requests, NEW e \in Emails, AuthRoutes(r, e) PROVE IInv'
<1> AccountsTypeOK
  BY DEF IInv
<1>1. ASSUME NEW k \in Kinds, NEW legacy \in BOOLEAN, RegisterRead(r, e, k, legacy) PROVE IInv'
  <2> DEFINE c == [pc |-> "create", email |-> e, row |-> Fresh(k, legacy)]
  <2>1. Fresh(k, legacy) \in Account
    BY DEF Fresh, Account, Approvals, Kinds
  <2>2. c \in Turn /\ Sound(c, account, epoch)
    BY <2>1 DEF Turn, Sound
  <2>3. acctReq' = [acctReq EXCEPT ![r] = c] /\ turns' \in 0..MaxTurns /\ UNCHANGED rows
        /\ UNCHANGED <<code, temp, paired, opened, answered>>
    BY <1>1 DEF RegisterRead, Begin, Put, keys, signedIn, AccountsTypeOK
  <2> HIDE DEF c
  <2> QED BY <2>2, <2>3, CallMoves DEF AccountsTypeOK
<1>2. CASE ConfirmRead(r, e)
  <2> DEFINE c == [pc |-> "mark", email |-> e]
  <2>1. account[e] # None
    BY <1>2 DEF ConfirmRead, IInv, Codes, Known
  <2>2. c \in Turn /\ Sound(c, account, epoch)
    BY <2>1 DEF Turn, Sound
  <2>3. acctReq' = [acctReq EXCEPT ![r] = c] /\ turns' \in 0..MaxTurns /\ UNCHANGED rows
        /\ UNCHANGED <<code, temp, paired, opened, answered>>
    BY <1>2 DEF ConfirmRead, Begin, Put, keys, signedIn, AccountsTypeOK
  <2> HIDE DEF c
  <2> QED BY <2>2, <2>3, CallMoves DEF AccountsTypeOK
<1>3. CASE ResendOtp(r, e)
  <2> DEFINE c == [pc |-> "code", email |-> e, new |-> FALSE]
  <2>1. c \in Turn /\ Sound(c, account, epoch)
    BY <1>3 DEF Turn, Sound, ResendOtp, Known
  <2>2. acctReq' = [acctReq EXCEPT ![r] = c] /\ turns' \in 0..MaxTurns /\ UNCHANGED rows
        /\ UNCHANGED <<code, temp, paired, opened, answered>>
    BY <1>3 DEF ResendOtp, Begin, Put, keys, signedIn, AccountsTypeOK
  <2> HIDE DEF c
  <2> QED BY <2>1, <2>2, CallMoves DEF AccountsTypeOK
<1>4. CASE SignInRead(r, e)
  <2> DEFINE c == [pc |-> "judge", email |-> e, row |-> account[e], epoch |-> epoch[e]]
  <2>1. account[e] \in Account /\ account[e].active /\ epoch[e] \in Epochs /\ epoch[e] <= epoch[e]
    BY <1>4 DEF SignInRead, Known, AccountsTypeOK, Epochs
  <2>2. c \in Turn
    BY <2>1 DEF Turn
  <2>3. account[e].approval = "approved" => Over(account, epoch, e, epoch[e])
    BY <2>1 DEF Over, Refused
  <2>4. Sound(c, account, epoch)
    BY <2>1, <2>3 DEF Sound
  <2>5. acctReq' = [acctReq EXCEPT ![r] = c] /\ turns' \in 0..MaxTurns /\ UNCHANGED rows
        /\ UNCHANGED <<code, temp, paired, opened, answered>>
    BY <1>4 DEF SignInRead, Begin, Put, keys, signedIn, AccountsTypeOK
  <2> HIDE DEF c
  <2> QED BY <2>2, <2>4, <2>5, CallMoves DEF AccountsTypeOK
<1>5. CASE MfaRead(r, e)
  <2>1. PICK n \in temp[e] : Begin(r, [pc |-> "untemp", email |-> e, epoch |-> n])
    BY <1>5 DEF MfaRead
  <2> DEFINE c == [pc |-> "untemp", email |-> e, epoch |-> n]
  <2>2. n \in Epochs /\ Over(account, epoch, e, n)
    BY <2>1 DEF IInv, SignIns, AccountsTypeOK
  <2>3. c \in Turn /\ Sound(c, account, epoch)
    BY <2>2 DEF Turn, Sound
  <2>4. acctReq' = [acctReq EXCEPT ![r] = c] /\ turns' \in 0..MaxTurns
    BY <2>1 DEF Begin, Put, AccountsTypeOK
  <2>5. UNCHANGED rows /\ UNCHANGED <<code, temp, paired, opened, answered>>
    BY <1>5 DEF MfaRead, keys, signedIn
  <2> HIDE DEF c
  <2> QED BY <2>3, <2>4, <2>5, CallMoves DEF AccountsTypeOK
<1>6. CASE TurnOnMfa(e)
  <2> DEFINE new == [account[e] EXCEPT !.mfa = TRUE]
  <2>1. account[e] # None /\ account[e] \in Account
    BY <1>6 DEF TurnOnMfa, Admitted, Known, AccountsTypeOK
  <2>2. new \in Account /\ Refused(new) = Refused(account[e])
    BY <2>1 DEF Account, Refused
  <2>3. account' = [account EXCEPT ![e] = new] /\ epoch' = epoch
        /\ UNCHANGED <<member, code, temp, paired, opened, acctReq, turns, answered>>
    BY <1>6 DEF TurnOnMfa, keys, signedIn
  <2>4. Save(e, new)
    BY <2>2, <2>3 DEF Save
  <2> HIDE DEF new
  <2>5. /\ Kept /\ account' \in [Emails -> Account \union {None}]
        /\ epoch' \in [Emails -> Epochs]
    BY <2>1, <2>2, <2>4, SaveKeeps
  <2>6. acctReq' \in [Requests -> Turn] /\ Slots'
    BY <2>3, <2>5, SlotsRest
  <2>7. SignIns' /\ Codes'
    BY <2>3, <2>5, SignInsStay, CodesStay
  <2>8. AccountsTypeOK'
    BY <2>3, <2>5, <2>6 DEF AccountsTypeOK
  <2> QED BY <2>6, <2>7, <2>8 DEF IInv
<1> QED BY <1>1, <1>2, <1>3, <1>4, <1>5, <1>6 DEF AuthRoutes

\* A call ends or begins with a row saved.
LEMMA SavingKeeps ==
    ASSUME IInv, NEW e \in Emails, account[e] # None, NEW new \in Account, Save(e, new),
           acctReq' = acctReq \/ \E r \in Requests : acctReq' = [acctReq EXCEPT ![r] = Idle],
           turns' \in 0..MaxTurns,
           UNCHANGED <<member, code, temp, paired, opened, answered>>
    PROVE  IInv'
<1>1. /\ Kept /\ account' \in [Emails -> Account \union {None}]
      /\ epoch' \in [Emails -> Epochs]
  BY SaveKeeps DEF IInv
<1>2. acctReq' \in [Requests -> Turn] /\ Slots'
  <2>1. CASE acctReq' = acctReq
    BY <1>1, <2>1, SlotsRest
  <2>2. ASSUME NEW r \in Requests, acctReq' = [acctReq EXCEPT ![r] = Idle]
        PROVE  acctReq' \in [Requests -> Turn] /\ Slots'
    BY <1>1, <2>2, IdleFits, SlotsMove
  <2> QED BY <2>1, <2>2
<1>3. SignIns' /\ Codes'
  BY <1>1, SignInsStay, CodesStay
<1>4. AccountsTypeOK'
  BY <1>1, <1>2 DEF IInv, AccountsTypeOK
<1> QED BY <1>2, <1>3, <1>4 DEF IInv

LEMMA AdminRoutesKeep == ASSUME IInv, NEW e \in Emails, AdminRoutes(e) PROVE IInv'
<1> AccountsTypeOK
  BY DEF IInv
<1>1. ASSUME NEW how \in Approvals, AdminApproval(e, how) PROVE IInv'
  <2> DEFINE new == [account[e] EXCEPT !.approval = how, !.active = @ \/ how = "approved"]
  <2>1. account[e] # None /\ account[e] \in Account
    BY <1>1 DEF AdminApproval, Known, AccountsTypeOK
  <2>2. new \in Account
    BY <2>1 DEF Account
  <2>3. /\ Save(e, new) /\ turns' \in 0..MaxTurns /\ acctReq' = acctReq
        /\ UNCHANGED <<member, code, temp, paired, opened, answered>>
    BY <1>1 DEF AdminApproval, keys, signedIn, AccountsTypeOK
  <2> QED BY <2>1, <2>2, <2>3, SavingKeeps
<1>2. ASSUME NEW active \in BOOLEAN, AdminStatus(e, active) PROVE IInv'
  <2> DEFINE new == [account[e] EXCEPT !.active = active]
  <2>1. account[e] # None /\ account[e] \in Account
    BY <1>2 DEF AdminStatus, Known, AccountsTypeOK
  <2>2. new \in Account
    BY <2>1 DEF Account
  <2>3. /\ Save(e, new) /\ turns' \in 0..MaxTurns /\ acctReq' = acctReq
        /\ UNCHANGED <<member, code, temp, paired, opened, answered>>
    BY <1>2 DEF AdminStatus, keys, signedIn, AccountsTypeOK
  <2> QED BY <2>1, <2>2, <2>3, SavingKeeps
<1> QED BY <1>1, <1>2 DEF AdminRoutes

LEMMA DecideReadKeeps ==
    ASSUME IInv, NEW r \in Requests, NEW e \in Emails,
           UserRoutes(r, e) \/ ApproveProfessional(r, e)
    PROVE  IInv'
<1> AccountsTypeOK
  BY DEF IInv
<1>1. PICK how \in Approvals \union {"delete"} :
        /\ Known(e) /\ Begin(r, [pc |-> "decide", email |-> e, how |-> how])
        /\ UNCHANGED <<rows, keys, signedIn, answered>>
  BY DEF UserRoutes, DecideRead, ApproveProfessional, Approvals
<1> DEFINE c == [pc |-> "decide", email |-> e, how |-> how]
<1>2. c \in Turn /\ Sound(c, account, epoch)
  BY <1>1 DEF Turn, Sound, Known
<1>3. acctReq' = [acctReq EXCEPT ![r] = c] /\ turns' \in 0..MaxTurns /\ UNCHANGED rows
      /\ UNCHANGED <<code, temp, paired, opened, answered>>
  BY <1>1 DEF Begin, Put, keys, signedIn, AccountsTypeOK
<1> HIDE DEF c
<1> QED BY <1>2, <1>3, CallMoves DEF AccountsTypeOK

LEMMA DecideWriteKeeps == ASSUME IInv, NEW r \in Requests, DecideWrite(r) PROVE IInv'
<1> DEFINE c == acctReq[r]
           e == c.email
           new == IF c.how = "delete"
                  THEN [account[e] EXCEPT !.active = FALSE, !.deleted = TRUE]
                  ELSE [account[e] EXCEPT !.approval = c.how]
<1> AccountsTypeOK
  BY DEF IInv
<1>1. c \in Turn /\ c.pc = "decide" /\ Sound(c, account, epoch)
  BY DEF DecideWrite, AccountsTypeOK, IInv, Slots
<1>2. e \in Emails /\ c.how \in Approvals \union {"delete"} /\ account[e] # None
  BY <1>1, TurnShape DEF Sound
<1>3. account[e] \in Account
  BY <1>2 DEF AccountsTypeOK
<1>4. new \in Account
  BY <1>2, <1>3 DEF Account
<1>5. /\ Save(e, new) /\ turns' \in 0..MaxTurns /\ acctReq' = [acctReq EXCEPT ![r] = Idle]
      /\ UNCHANGED <<member, code, temp, paired, opened, answered>>
  BY DEF DecideWrite, Turned, Put, keys, signedIn, AccountsTypeOK
<1> HIDE DEF new, e, c
<1> QED BY <1>2, <1>4, <1>5, SavingKeeps

LEMMA CreateKeeps == ASSUME IInv, NEW r \in Requests, CreateAccount(r) PROVE IInv'
<1> DEFINE c == acctReq[r]
<1> AccountsTypeOK
  BY DEF IInv
<1>1. c \in Turn /\ c.pc = "create"
  BY DEF CreateAccount, AccountsTypeOK
<1>2. c.email \in Emails /\ c.row \in Account
  BY <1>1, TurnShape
<1>3. CASE Known(c.email)
  <2>1. acctReq' = [acctReq EXCEPT ![r] = Idle] /\ turns' = turns /\ UNCHANGED rows
        /\ UNCHANGED <<code, temp, paired, opened, answered>>
    BY <1>3 DEF CreateAccount, Turned, Put, rows, keys, signedIn
  <2> QED BY <2>1, IdleFits, CallMoves DEF AccountsTypeOK
<1>4. CASE ~Known(c.email)
  <2> DEFINE next == [pc |-> "code", email |-> c.email, new |-> TRUE]
             joined == IF c.row.profile /\ c.row.kind = "law_firm_admin" THEN "active"
                       ELSE member[c.email]
  <2>1. /\ account' = [account EXCEPT ![c.email] = c.row]
        /\ member' = [member EXCEPT ![c.email] = joined]
        /\ acctReq' = [acctReq EXCEPT ![r] = next] /\ turns' = turns /\ epoch' = epoch
        /\ UNCHANGED <<code, temp, paired, opened, answered>>
    BY <1>4 DEF CreateAccount, Turned, Put, keys, signedIn
  <2>2. account'[c.email] # None
    BY <1>2, <2>1 DEF AccountsTypeOK
  <2>3. next \in Turn /\ Sound(next, account', epoch')
    BY <1>2, <2>2 DEF Turn, Sound
  <2>4. joined \in {"active", "inactive", None}
    BY <1>2 DEF AccountsTypeOK
  <2> HIDE DEF next, joined, c
  <2>5. Kept
    <3> SUFFICES ASSUME NEW e \in Emails, account[e] # None
                 PROVE  /\ account'[e] # None /\ epoch[e] <= epoch'[e]
                        /\ \A n \in Epochs : Over(account, epoch, e, n) => Over(account', epoch', e, n)
      BY DEF Kept
    <3>1. account'[e] = account[e]
      BY <1>2, <1>4, <2>1 DEF Known, AccountsTypeOK
    <3>2. epoch[e] <= epoch[e]
      BY DEF AccountsTypeOK, Epochs
    <3> QED BY <2>1, <3>1, <3>2 DEF Over
  <2>6. account' \in [Emails -> Account \union {None}]
        /\ member' \in [Emails -> {"active", "inactive", None}]
    BY <1>2, <2>1, <2>4 DEF AccountsTypeOK
  <2>7. epoch' \in [Emails -> Epochs]
    BY <2>1 DEF AccountsTypeOK
  <2>8. acctReq' \in [Requests -> Turn] /\ Slots'
    BY <2>1, <2>3, <2>5, <2>7, SlotsMove
  <2>9. SignIns' /\ Codes'
    BY <2>1, <2>5, SignInsStay, CodesStay
  <2>10. AccountsTypeOK'
    BY <2>1, <2>6, <2>7, <2>8 DEF AccountsTypeOK
  <2> QED BY <2>8, <2>9, <2>10 DEF IInv
<1> QED BY <1>3, <1>4

LEMMA SendKeeps == ASSUME IInv, NEW r \in Requests, SendOtp(r) PROVE IInv'
<1> DEFINE c == acctReq[r]
<1> AccountsTypeOK
  BY DEF IInv
<1>1. c \in Turn /\ c.pc = "code" /\ Sound(c, account, epoch)
  BY DEF SendOtp, AccountsTypeOK, IInv, Slots
<1>2. c.email \in Emails /\ c.new \in BOOLEAN /\ account[c.email] # None
  BY <1>1, TurnShape DEF Sound
<1>3. acctReq' = [acctReq EXCEPT ![r] = Idle] /\ turns' = turns /\ UNCHANGED rows
      /\ UNCHANGED <<temp, paired, opened>> /\ code' = code \union {c.email}
  BY DEF SendOtp, Turned, Put, signedIn
<1>4. answered' \in [Emails -> Nat]
  BY <1>2 DEF SendOtp, AccountsTypeOK
<1> HIDE DEF c
<1> QED BY <1>2, <1>3, <1>4, IdleFits, CallMoves DEF AccountsTypeOK

LEMMA ConfirmKeeps ==
    ASSUME IInv, NEW r \in Requests, ConfirmMark(r) \/ ConfirmDone(r) PROVE IInv'
<1> DEFINE c == acctReq[r]
<1> AccountsTypeOK
  BY DEF IInv
<1>1. c \in Turn /\ c.pc \in {"mark", "unkey"} /\ Sound(c, account, epoch)
  BY DEF ConfirmMark, ConfirmDone, AccountsTypeOK, IInv, Slots
<1>2. c.email \in Emails /\ account[c.email] # None
  BY <1>1, TurnShape DEF Sound
<1>3. CASE ConfirmMark(r)
  <2> DEFINE next == [c EXCEPT !.pc = "unkey"]
             new == [account[c.email] EXCEPT !.verified = TRUE]
  <2>1. next \in Turn /\ next.pc = "unkey" /\ next.email = c.email
    BY <1>1 DEF Turn, Idle
  <2>2. account[c.email] \in Account
    BY <1>2 DEF AccountsTypeOK
  <2>3. new \in Account /\ Refused(new) = Refused(account[c.email])
    BY <2>2 DEF Account, Refused
  <2>4. account' = [account EXCEPT ![c.email] = new] /\ epoch' = epoch
        /\ acctReq' = [acctReq EXCEPT ![r] = next] /\ turns' = turns
        /\ UNCHANGED <<member, code, temp, paired, opened, answered>>
    BY <1>3 DEF ConfirmMark, Turned, Put, keys, signedIn
  <2> HIDE DEF next, new, c
  <2>5. Save(c.email, new)
    BY <2>3, <2>4 DEF Save
  <2>6. /\ Kept /\ account' \in [Emails -> Account \union {None}]
        /\ epoch' \in [Emails -> Epochs]
    BY <1>2, <2>3, <2>5, SaveKeeps
  <2>7. Sound(next, account', epoch')
    BY <1>2, <2>1, <2>6 DEF Sound, Kept
  <2>8. acctReq' \in [Requests -> Turn] /\ Slots'
    BY <2>1, <2>4, <2>6, <2>7, SlotsMove
  <2>9. SignIns' /\ Codes'
    BY <2>4, <2>6, SignInsStay, CodesStay
  <2>10. AccountsTypeOK'
    BY <2>4, <2>6, <2>8 DEF AccountsTypeOK
  <2> QED BY <2>8, <2>9, <2>10 DEF IInv
<1>4. CASE ConfirmDone(r)
  <2>1. acctReq' = [acctReq EXCEPT ![r] = Idle] /\ turns' = turns /\ UNCHANGED rows
        /\ code' \subseteq code /\ paired' = paired \union {c.email}
        /\ UNCHANGED <<temp, opened, answered>>
    BY <1>4 DEF ConfirmDone, Turned, Put
  <2> HIDE DEF c
  <2> QED BY <1>2, <2>1, IdleFits, CallMoves DEF AccountsTypeOK
<1> QED BY <1>3, <1>4

\* login and verifyMfa after their first read.
LEMMA SignInKeeps ==
    ASSUME IInv, NEW r \in Requests,
           SignInJudge(r) \/ SignInTemp(r) \/ MfaUntemp(r) \/ SignInOpen(r)
    PROVE  IInv'
<1> DEFINE c == acctReq[r]
<1> AccountsTypeOK
  BY DEF IInv
<1>1. c \in Turn /\ c.pc \in {"judge", "temp", "untemp", "open"} /\ Sound(c, account, epoch)
  BY DEF SignInJudge, SignInTemp, MfaUntemp, SignInOpen, AccountsTypeOK, IInv, Slots
<1>2. c.email \in Emails /\ c.epoch \in Epochs
  BY <1>1, TurnShape
<1>3. CASE SignInJudge(r)
  <2> DEFINE to == [pc |-> "open", email |-> c.email, epoch |-> c.epoch]
             via == [pc |-> "temp", email |-> c.email, epoch |-> c.epoch]
             send == [pc |-> "code", email |-> c.email, new |-> FALSE]
  <2>1. c.pc = "judge" /\ c.row \in Account /\ account[c.email] # None
    BY <1>1, <1>3, TurnShape DEF SignInJudge, Sound
  <2>2. send \in Turn /\ Sound(send, account, epoch)
    BY <1>2, <2>1 DEF Turn, Sound
  <2>3. to \in Turn /\ via \in Turn
    BY <1>2 DEF Turn
  <2>4. c.row.approval = "approved" => Sound(to, account, epoch) /\ Sound(via, account, epoch)
    BY <1>1, <2>1 DEF Sound
  <2>5. turns' = turns /\ UNCHANGED rows /\ UNCHANGED <<code, temp, paired, opened, answered>>
    BY <1>3 DEF SignInJudge, Turned, keys, signedIn
  <2>6. PICK next \in {send, Idle, to, via} :
          /\ acctReq' = [acctReq EXCEPT ![r] = next]
          /\ next \in {to, via} => c.row.approval = "approved"
    <3>1. CASE ~c.row.verified
      BY <1>3, <3>1 DEF SignInJudge, Turned, Put
    <3>2. CASE c.row.verified /\ c.row.approval # "approved"
      BY <1>3, <3>2 DEF SignInJudge, Turned, Put, Idle
    <3>3. CASE c.row.verified /\ c.row.approval = "approved"
      <4>1. [to EXCEPT !.pc = "temp"] = via
        OBVIOUS
      <4> QED BY <1>3, <3>3, <4>1 DEF SignInJudge, Turned, Put
    <3> QED BY <3>1, <3>2, <3>3, <2>1 DEF Account
  <2>7. next \in Turn /\ Sound(next, account, epoch)
    BY <2>2, <2>3, <2>4, <2>6, IdleFits
  <2> HIDE DEF to, via, send, c
  <2> QED BY <2>5, <2>6, <2>7, CallMoves DEF AccountsTypeOK
<1>4. CASE SignInTemp(r)
  <2>1. Over(account, epoch, c.email, c.epoch)
    BY <1>1, <1>4 DEF SignInTemp, Sound
  <2>2. acctReq' = [acctReq EXCEPT ![r] = Idle] /\ turns' = turns /\ UNCHANGED rows
        /\ temp' = [temp EXCEPT ![c.email] = @ \union {c.epoch}]
        /\ UNCHANGED <<code, paired, opened, answered>>
    BY <1>4 DEF SignInTemp, Turned, Put, signedIn
  <2> HIDE DEF c
  <2> QED BY <1>2, <2>1, <2>2, IdleFits, CallMoves DEF AccountsTypeOK
<1>5. CASE MfaUntemp(r)
  <2> DEFINE next == [c EXCEPT !.pc = "open"]
  <2>1. c.pc = "untemp"
    BY <1>5 DEF MfaUntemp
  <2>2. next \in Turn /\ next.pc = "open" /\ next.email = c.email /\ next.epoch = c.epoch
    BY <1>1, <2>1 DEF Turn, Idle
  <2>3. Sound(next, account, epoch)
    BY <1>1, <2>1, <2>2 DEF Sound
  <2>4. acctReq' = [acctReq EXCEPT ![r] = next] /\ turns' = turns /\ UNCHANGED rows
        /\ temp' = [temp EXCEPT ![c.email] = @ \ {c.epoch}]
        /\ UNCHANGED <<code, paired, opened, answered>>
    BY <1>5 DEF MfaUntemp, Turned, Put, signedIn
  <2> HIDE DEF next, c
  <2> QED BY <1>2, <2>2, <2>3, <2>4, CallMoves DEF AccountsTypeOK
<1>6. CASE SignInOpen(r)
  <2>1. Over(account, epoch, c.email, c.epoch)
    BY <1>1, <1>6 DEF SignInOpen, Sound
  <2>2. acctReq' = [acctReq EXCEPT ![r] = Idle] /\ turns' = turns /\ UNCHANGED rows
        /\ opened' = [opened EXCEPT ![c.email] = @ \union {c.epoch}]
        /\ UNCHANGED <<code, paired, temp, answered>>
    BY <1>6 DEF SignInOpen, Turned, Put, keys
  <2> HIDE DEF c
  <2> QED BY <1>2, <2>1, <2>2, IdleFits, CallMoves DEF AccountsTypeOK
<1> QED BY <1>3, <1>4, <1>5, <1>6

\* What happens by itself, and the removal of a member.
LEMMA RestKeeps ==
    ASSUME IInv, NEW e \in Emails, OtpExpires(e) \/ TempExpires(e) \/ RemoveMember(e)
    PROVE  IInv'
<1> AccountsTypeOK
  BY DEF IInv
<1>1. /\ account' = account /\ epoch' = epoch /\ acctReq' = acctReq /\ turns' = turns
      /\ paired' = paired /\ opened' = opened /\ answered' = answered
      /\ code' \subseteq code
      /\ temp' = temp \/ temp' = [temp EXCEPT ![e] = {}]
      /\ member' = member \/ member' = [member EXCEPT ![e] = "inactive"]
  BY DEF OtpExpires, TempExpires, RemoveMember, rows, keys, signedIn
<1>2. Kept /\ epoch' \in [Emails -> Epochs]
  <2>1. \A d \in Emails : epoch[d] <= epoch[d]
    BY DEF AccountsTypeOK, Epochs
  <2> QED BY <1>1, <2>1 DEF Kept, Over, AccountsTypeOK
<1>3. acctReq' \in [Requests -> Turn] /\ Slots'
  BY <1>1, <1>2, SlotsRest
<1>4. SignIns'
  <2>1. \A d \in Emails : temp'[d] \subseteq temp[d]
    BY <1>1 DEF AccountsTypeOK
  <2> QED BY <1>1, <1>2, <2>1, SignInsStay
<1>5. Codes'
  BY <1>1, <1>2, CodesStay
<1>6. AccountsTypeOK'
  BY <1>1, <1>2, <1>3 DEF AccountsTypeOK
<1> QED BY <1>3, <1>4, <1>5, <1>6 DEF IInv

LEMMA StepKeeps == IInv /\ [AccountsNext]_accountsVars => IInv'
<1> SUFFICES ASSUME IInv, [AccountsNext]_accountsVars PROVE IInv'
  OBVIOUS
<1>1. ASSUME NEW r \in Requests, AccountsStep(r) PROVE IInv'
  BY <1>1, CreateKeeps, SendKeeps, ConfirmKeeps, SignInKeeps, DecideWriteKeeps, FailKeeps
     DEF AccountsStep
<1>2. ASSUME NEW r \in Requests, NEW e \in Emails,
             AuthRoutes(r, e) \/ UserRoutes(r, e) \/ ApproveProfessional(r, e)
      PROVE  IInv'
  BY <1>2, AuthRoutesKeep, DecideReadKeeps
<1>3. ASSUME NEW e \in Emails,
             AdminRoutes(e) \/ RemoveMember(e) \/ OtpExpires(e) \/ TempExpires(e)
      PROVE  IInv'
  BY <1>3, AdminRoutesKeep, RestKeeps
<1>4. CASE UNCHANGED accountsVars
  BY <1>4 DEF accountsVars, IInv, AccountsTypeOK, Slots, SignIns, Codes, Known
<1> QED BY <1>1, <1>2, <1>3, <1>4 DEF AccountsNext

\* Every reachable state of accounts, tokens and calls is well typed.
THEOREM AccountsTypeCorrect == AccountsSpec => []AccountsTypeOK
<1>1. IInv => AccountsTypeOK
  BY DEF IInv
<1> QED BY <1>1, TypeInit, StepKeeps, PTL DEF AccountsSpec

\* Every session of a refused account began with a password check made before
\* the refusal, through whatever gates, tokens and calls it came.
THEOREM RefusedSignInsAreOlderHolds == AccountsSpec => []RefusedSignInsAreOlder
<1>1. IInv => RefusedSignInsAreOlder
  BY DEF IInv, SignIns, RefusedSignInsAreOlder, Over
<1> QED BY <1>1, TypeInit, StepKeeps, PTL DEF AccountsSpec

-----------------------------------------------------------------------------
(* Registrations of one address.                                           *)

\* A registration of e that has inserted and still has to answer.
Answering(q, e) == q.pc = "code" /\ q.new /\ q.email = e

OfFirm(acc) == acc # None /\ acc.profile /\ acc.kind = "law_firm_admin"

Joined == \A e \in Emails : member[e] # None <=> OfFirm(account[e])

\* Only the insert that succeeded leads to an answer, and to one.
Answers ==
    \A e \in Emails :
        /\ answered[e] <= 1
        /\ account[e] = None => answered[e] = 0
        /\ \A r \in Requests :
             Answering(acctReq[r], e) =>
                 /\ account[e] # None /\ answered[e] = 0
                 /\ \A q \in Requests : Answering(acctReq[q], e) => q = r

\* A step that makes no account, changes no kind and answers no registration.
Quiet ==
    /\ answered' = answered
    /\ \A e \in Emails :
        /\ member'[e] # None <=> member[e] # None
        /\ account'[e] # None <=> account[e] # None
        /\ OfFirm(account'[e]) <=> OfFirm(account[e])
    /\ \A r \in Requests, e \in Emails :
        Answering(acctReq'[r], e) => Answering(acctReq[r], e)

LEMMA QuietKeeps == ASSUME Joined, Answers, Quiet PROVE Joined' /\ Answers'
<1>1. Joined'
  BY DEF Joined, Quiet
<1>2. Answers'
  BY DEF Answers, Quiet
<1> QED BY <1>1, <1>2

\* The call of r moves on, but not to an answer.
LEMMA Silent ==
    ASSUME AccountsTypeOK, NEW r \in Requests, NEW c, ~(c.pc = "code" /\ c.new),
           acctReq' = [acctReq EXCEPT ![r] = c]
    PROVE  \A q \in Requests, e \in Emails :
               Answering(acctReq'[q], e) => Answering(acctReq[q], e)
BY DEF Answering, AccountsTypeOK

\* The row of e is saved with its kind.
LEMMA SameKind ==
    ASSUME AccountsTypeOK, NEW e \in Emails, NEW new \in Account, account[e] # None,
           new.kind = account[e].kind, new.profile = account[e].profile,
           account' = [account EXCEPT ![e] = new]
    PROVE  \A d \in Emails :
               /\ account'[d] # None <=> account[d] # None
               /\ OfFirm(account'[d]) <=> OfFirm(account[d])
BY DEF OfFirm, AccountsTypeOK

\* Calls begun, calls dropped, and calls that go on without saving a row.
LEMMA CallsAreQuiet ==
    ASSUME IInv, NEW r \in Requests,
           \/ \E e \in Emails :
                \/ \E k \in Kinds, legacy \in BOOLEAN : RegisterRead(r, e, k, legacy)
                \/ ConfirmRead(r, e) \/ ResendOtp(r, e) \/ SignInRead(r, e) \/ MfaRead(r, e)
                \/ UserRoutes(r, e) \/ ApproveProfessional(r, e)
           \/ ConfirmDone(r) \/ SignInJudge(r) \/ SignInTemp(r) \/ MfaUntemp(r)
           \/ SignInOpen(r) \/ AccountsFail(r)
    PROVE  Quiet
<1> AccountsTypeOK
  BY DEF IInv
<1>1. UNCHANGED <<account, member, answered>>
  BY DEF RegisterRead, ConfirmRead, ResendOtp, SignInRead, MfaRead, UserRoutes, DecideRead,
         ApproveProfessional, ConfirmDone, SignInJudge, SignInTemp, MfaUntemp, SignInOpen,
         AccountsFail, rows
<1>2. \E c : ~(c.pc = "code" /\ c.new) /\ acctReq' = [acctReq EXCEPT ![r] = c]
  <2>1. ASSUME NEW e \in Emails, NEW k \in Kinds, NEW legacy \in BOOLEAN,
               RegisterRead(r, e, k, legacy)
        PROVE  acctReq' = [acctReq EXCEPT ![r] =
                              [pc |-> "create", email |-> e, row |-> Fresh(k, legacy)]]
    BY <2>1 DEF RegisterRead, Begin, Put
  <2>2. ASSUME NEW e \in Emails, ConfirmRead(r, e)
        PROVE  acctReq' = [acctReq EXCEPT ![r] = [pc |-> "mark", email |-> e]]
    BY <2>2 DEF ConfirmRead, Begin, Put
  <2>3. ASSUME NEW e \in Emails, ResendOtp(r, e)
        PROVE  acctReq' = [acctReq EXCEPT ![r] = [pc |-> "code", email |-> e, new |-> FALSE]]
    BY <2>3 DEF ResendOtp, Begin, Put
  <2>4. ASSUME NEW e \in Emails, SignInRead(r, e)
        PROVE  acctReq' = [acctReq EXCEPT ![r] =
                              [pc |-> "judge", email |-> e, row |-> account[e], epoch |-> epoch[e]]]
    BY <2>4 DEF SignInRead, Begin, Put
  <2>5. ASSUME NEW e \in Emails, MfaRead(r, e)
        PROVE  \E n : acctReq' = [acctReq EXCEPT ![r] = [pc |-> "untemp", email |-> e, epoch |-> n]]
    BY <2>5 DEF MfaRead, Begin, Put
  <2>6. ASSUME NEW e \in Emails, UserRoutes(r, e) \/ ApproveProfessional(r, e)
        PROVE  \E how : acctReq' = [acctReq EXCEPT ![r] = [pc |-> "decide", email |-> e, how |-> how]]
    BY <2>6 DEF UserRoutes, DecideRead, ApproveProfessional, Begin, Put
  <2>7. CASE ConfirmDone(r) \/ SignInTemp(r) \/ SignInOpen(r) \/ AccountsFail(r)
    <3>1. acctReq' = [acctReq EXCEPT ![r] = Idle] /\ Idle.pc # "code"
      BY <2>7 DEF ConfirmDone, SignInTemp, SignInOpen, AccountsFail, Turned, Put, Idle
    <3> QED BY <3>1
  <2>8. CASE MfaUntemp(r)
    <3> DEFINE c == [acctReq[r] EXCEPT !.pc = "open"]
    <3>1. acctReq[r] \in Turn /\ acctReq[r].pc = "untemp"
      BY <2>8 DEF MfaUntemp, AccountsTypeOK
    <3>2. c.pc = "open"
      BY <3>1 DEF Turn, Idle
    <3>3. acctReq' = [acctReq EXCEPT ![r] = c]
      BY <2>8 DEF MfaUntemp, Turned, Put
    <3> QED BY <3>2, <3>3
  <2>9. CASE SignInJudge(r)
    <3> DEFINE c == acctReq[r]
               to == [pc |-> "open", email |-> c.email, epoch |-> c.epoch]
               next == CASE ~c.row.verified -> [pc |-> "code", email |-> c.email, new |-> FALSE]
                         [] c.row.verified /\ c.row.approval # "approved" -> Idle
                         [] OTHER -> IF c.row.mfa THEN [to EXCEPT !.pc = "temp"] ELSE to
    <3>1. acctReq' = [acctReq EXCEPT ![r] = next]
      BY <2>9 DEF SignInJudge, Turned, Put
    <3>2. ~(next.pc = "code" /\ next.new)
      BY DEF Idle
    <3> QED BY <3>1, <3>2
  <2> QED BY <2>1, <2>2, <2>3, <2>4, <2>5, <2>6, <2>7, <2>8, <2>9
<1> QED BY <1>1, <1>2, Silent DEF Quiet

LEMMA SavesAreQuiet ==
    ASSUME IInv, NEW e \in Emails,
           \/ \E r \in Requests : ConfirmMark(r) \/ DecideWrite(r)
           \/ TurnOnMfa(e) \/ AdminRoutes(e)
    PROVE  Quiet
<1> AccountsTypeOK
  BY DEF IInv
<1>1. UNCHANGED <<member, answered>>
  BY DEF ConfirmMark, DecideWrite, TurnOnMfa, AdminRoutes, AdminApproval, AdminStatus
<1> DEFINE Saved ==
      \E d \in Emails, new \in Account :
          /\ account[d] # None /\ account' = [account EXCEPT ![d] = new]
          /\ new.kind = account[d].kind /\ new.profile = account[d].profile
<1>2. Saved
  <2>1. ASSUME NEW r \in Requests, ConfirmMark(r) PROVE Saved
    <3> DEFINE c == acctReq[r]
               new == [account[c.email] EXCEPT !.verified = TRUE]
    <3>1. c \in Turn /\ c.pc = "mark" /\ account[c.email] # None
      BY <2>1 DEF ConfirmMark, AccountsTypeOK, IInv, Slots, Sound
    <3>2. c.email \in Emails
      BY <3>1, TurnShape
    <3>3. account[c.email] \in Account
      BY <3>1, <3>2 DEF AccountsTypeOK
    <3>4. new \in Account /\ new.kind = account[c.email].kind
          /\ new.profile = account[c.email].profile
      BY <3>3 DEF Account
    <3>5. account' = [account EXCEPT ![c.email] = new]
      BY <2>1 DEF ConfirmMark
    <3> QED BY <3>1, <3>2, <3>4, <3>5
  <2>2. ASSUME NEW r \in Requests, DecideWrite(r) PROVE Saved
    <3> DEFINE c == acctReq[r]
               new == IF c.how = "delete"
                      THEN [account[c.email] EXCEPT !.active = FALSE, !.deleted = TRUE]
                      ELSE [account[c.email] EXCEPT !.approval = c.how]
    <3>1. c \in Turn /\ c.pc = "decide" /\ account[c.email] # None
      BY <2>2 DEF DecideWrite, AccountsTypeOK, IInv, Slots, Sound
    <3>2. c.email \in Emails /\ c.how \in Approvals \union {"delete"}
      BY <3>1, TurnShape
    <3>3. account[c.email] \in Account
      BY <3>1, <3>2 DEF AccountsTypeOK
    <3>4. new \in Account /\ new.kind = account[c.email].kind
          /\ new.profile = account[c.email].profile
      BY <3>2, <3>3 DEF Account
    <3>5. account' = [account EXCEPT ![c.email] = new]
      BY <2>2 DEF DecideWrite, Save
    <3> QED BY <3>1, <3>2, <3>4, <3>5
  <2>3. CASE TurnOnMfa(e)
    <3> DEFINE new == [account[e] EXCEPT !.mfa = TRUE]
    <3>1. account[e] # None /\ account[e] \in Account /\ account' = [account EXCEPT ![e] = new]
      BY <2>3 DEF TurnOnMfa, Admitted, Known, AccountsTypeOK
    <3>2. new \in Account /\ new.kind = account[e].kind /\ new.profile = account[e].profile
      BY <3>1 DEF Account
    <3> QED BY <3>1, <3>2
  <2>4. ASSUME NEW how \in Approvals, AdminApproval(e, how)
        PROVE  Saved
    <3> DEFINE new == [account[e] EXCEPT !.approval = how, !.active = @ \/ how = "approved"]
    <3>1. account[e] # None /\ account[e] \in Account /\ account' = [account EXCEPT ![e] = new]
      BY <2>4 DEF AdminApproval, Save, Known, AccountsTypeOK
    <3>2. new \in Account /\ new.kind = account[e].kind /\ new.profile = account[e].profile
      BY <3>1 DEF Account
    <3> QED BY <3>1, <3>2
  <2>5. ASSUME NEW active \in BOOLEAN, AdminStatus(e, active)
        PROVE  Saved
    <3> DEFINE new == [account[e] EXCEPT !.active = active]
    <3>1. account[e] # None /\ account[e] \in Account /\ account' = [account EXCEPT ![e] = new]
      BY <2>5 DEF AdminStatus, Save, Known, AccountsTypeOK
    <3>2. new \in Account /\ new.kind = account[e].kind /\ new.profile = account[e].profile
      BY <3>1 DEF Account
    <3> QED BY <3>1, <3>2
  <2> QED BY <2>1, <2>2, <2>3, <2>4, <2>5 DEF AdminRoutes
<1>3. \A q \in Requests, d \in Emails : Answering(acctReq'[q], d) => Answering(acctReq[q], d)
  <2>1. ASSUME NEW r \in Requests, ConfirmMark(r)
        PROVE  \A q \in Requests, d \in Emails : Answering(acctReq'[q], d) => Answering(acctReq[q], d)
    <3> DEFINE c == [acctReq[r] EXCEPT !.pc = "unkey"]
    <3>1. acctReq[r] \in Turn /\ acctReq[r].pc = "mark"
      BY <2>1 DEF ConfirmMark, AccountsTypeOK
    <3>2. c.pc = "unkey"
      BY <3>1 DEF Turn, Idle
    <3>3. acctReq' = [acctReq EXCEPT ![r] = c]
      BY <2>1 DEF ConfirmMark, Turned, Put
    <3> QED BY <3>2, <3>3, Silent
  <2>2. ASSUME NEW r \in Requests, DecideWrite(r)
        PROVE  \A q \in Requests, d \in Emails : Answering(acctReq'[q], d) => Answering(acctReq[q], d)
    <3>1. acctReq' = [acctReq EXCEPT ![r] = Idle] /\ Idle.pc # "code"
      BY <2>2 DEF DecideWrite, Turned, Put, Idle
    <3> QED BY <3>1, Silent
  <2>3. CASE TurnOnMfa(e) \/ AdminRoutes(e)
    BY <2>3 DEF TurnOnMfa, AdminRoutes, AdminApproval, AdminStatus
  <2> QED BY <2>1, <2>2, <2>3
<1> QED BY <1>1, <1>2, <1>3, SameKind DEF Quiet

LEMMA RestIsQuiet ==
    ASSUME IInv, NEW e \in Emails, RemoveMember(e) \/ OtpExpires(e) \/ TempExpires(e)
    PROVE  Quiet
<1>1. /\ account' = account /\ acctReq' = acctReq /\ answered' = answered
      /\ \/ member' = member
         \/ member[e] = "active" /\ member' = [member EXCEPT ![e] = "inactive"]
  BY DEF RemoveMember, OtpExpires, TempExpires, rows
<1>2. \A d \in Emails : member'[d] # None <=> member[d] # None
  BY <1>1, StatusAssumption DEF IInv, AccountsTypeOK
<1> QED BY <1>1, <1>2 DEF Quiet

\* The nested write makes the account and its membership, and one answer due.
LEMMA CreateAnswersOnce ==
    ASSUME IInv, Joined, Answers, NEW r \in Requests, CreateAccount(r)
    PROVE  Joined' /\ Answers'
<1> DEFINE c == acctReq[r]
<1> AccountsTypeOK
  BY DEF IInv
<1>1. c \in Turn /\ c.pc = "create"
  BY DEF CreateAccount, AccountsTypeOK
<1>2. c.email \in Emails /\ c.row \in Account
  BY <1>1, TurnShape
<1>3. CASE Known(c.email)
  <2>1. UNCHANGED <<account, member, answered>> /\ acctReq' = [acctReq EXCEPT ![r] = Idle]
        /\ Idle.pc # "code"
    BY <1>3 DEF CreateAccount, Turned, Put, Idle
  <2>2. Quiet
    BY <2>1, Silent DEF Quiet
  <2> QED BY <2>2, QuietKeeps
<1>4. CASE ~Known(c.email)
  <2> DEFINE e == c.email
             next == [pc |-> "code", email |-> e, new |-> TRUE]
             joined == IF c.row.profile /\ c.row.kind = "law_firm_admin" THEN "active"
                       ELSE member[e]
  <2>1. /\ account[e] = None /\ account' = [account EXCEPT ![e] = c.row]
        /\ member' = [member EXCEPT ![e] = joined]
        /\ acctReq' = [acctReq EXCEPT ![r] = next] /\ answered' = answered
    BY <1>4 DEF CreateAccount, Turned, Put, Known
  <2>2. member[e] = None
    BY <1>2, <2>1 DEF Joined, OfFirm, AccountsTypeOK
  <2>3. Joined'
    <3>1. joined # None <=> OfFirm(c.row)
      BY <1>2, <2>2, StatusAssumption DEF OfFirm
    <3> HIDE DEF joined, e, c
    <3> QED BY <1>2, <2>1, <3>1 DEF Joined, AccountsTypeOK
  <2>4. Answers'
    <3>1. \A q \in Requests : ~Answering(acctReq[q], e)
      BY <1>2, <2>1 DEF Answers
    <3>2. answered[e] = 0 /\ c.row # None
      BY <1>2, <2>1 DEF Answers
    <3>3. \A q \in Requests : Answering(acctReq'[q], e) <=> q = r
      <4>1. Answering(next, e)
        BY DEF Answering
      <4> HIDE DEF next, e
      <4> QED BY <2>1, <3>1, <4>1 DEF AccountsTypeOK
    <3>4. \A q \in Requests, d \in Emails :
             d # e => (Answering(acctReq'[q], d) => Answering(acctReq[q], d))
      <4>1. \A d \in Emails : d # e => ~Answering(next, d)
        BY DEF Answering
      <4> HIDE DEF next, e
      <4> QED BY <2>1, <4>1 DEF AccountsTypeOK
    <3>5. account' = [account EXCEPT ![e] = c.row] /\ answered' = answered
      BY <2>1
    <3> HIDE DEF e, c, next, joined
    <3> SUFFICES ASSUME NEW d \in Emails
                 PROVE  /\ answered'[d] <= 1
                        /\ account'[d] = None => answered'[d] = 0
                        /\ \A q \in Requests :
                             Answering(acctReq'[q], d) =>
                                 /\ account'[d] # None /\ answered'[d] = 0
                                 /\ \A p \in Requests : Answering(acctReq'[p], d) => p = q
      BY DEF Answers
    <3>6. CASE d = e
      BY <3>2, <3>3, <3>5, <3>6 DEF AccountsTypeOK
    <3>7. CASE d # e
      BY <3>4, <3>5, <3>7 DEF Answers, AccountsTypeOK
    <3> QED BY <3>6, <3>7
  <2> QED BY <2>3, <2>4
<1> QED BY <1>3, <1>4

LEMMA SendAnswersOnce ==
    ASSUME IInv, Joined, Answers, NEW r \in Requests, SendOtp(r)
    PROVE  Joined' /\ Answers'
<1> DEFINE c == acctReq[r]
<1> AccountsTypeOK
  BY DEF IInv
<1>1. c \in Turn /\ c.pc = "code" /\ account[c.email] # None
  BY DEF SendOtp, AccountsTypeOK, IInv, Slots, Sound
<1>2. c.email \in Emails /\ c.new \in BOOLEAN
  BY <1>1, TurnShape
<1>3. /\ UNCHANGED <<account, member>> /\ acctReq' = [acctReq EXCEPT ![r] = Idle]
      /\ Idle.pc # "code"
      /\ answered' = [answered EXCEPT ![c.email] =
                         IF c.new THEN answered[c.email] + 1 ELSE answered[c.email]]
  BY DEF SendOtp, Turned, Put, rows, Idle
<1>4. \A q \in Requests, d \in Emails : Answering(acctReq'[q], d) => Answering(acctReq[q], d)
  BY <1>3, Silent
<1>5. Joined'
  BY <1>3 DEF Joined
<1>6. CASE ~c.new
  <2>1. answered' = answered
    BY <1>2, <1>3, <1>6 DEF AccountsTypeOK
  <2>2. Quiet
    BY <1>3, <1>4, <2>1 DEF Quiet
  <2> QED BY <2>2, QuietKeeps
<1>7. CASE c.new
  <2>1. Answering(c, c.email)
    BY <1>1, <1>7 DEF Answering
  <2>2. answered[c.email] = 0 /\ \A q \in Requests : Answering(acctReq[q], c.email) => q = r
    BY <1>2, <2>1 DEF Answers
  <2>3. \A q \in Requests : ~Answering(acctReq'[q], c.email)
    <3>1. ~Answering(acctReq'[r], c.email)
      BY <1>3 DEF Answering, AccountsTypeOK
    <3> QED BY <1>2, <1>4, <2>2, <3>1
  <2>4. answered' = [answered EXCEPT ![c.email] = 1]
    BY <1>2, <1>3, <1>7, <2>2 DEF AccountsTypeOK
  <2>5. account' = account
    BY <1>3
  <2> HIDE DEF c
  <2>6. Answers'
    <3> SUFFICES ASSUME NEW d \in Emails
                 PROVE  /\ answered'[d] <= 1
                        /\ account'[d] = None => answered'[d] = 0
                        /\ \A q \in Requests :
                             Answering(acctReq'[q], d) =>
                                 /\ account'[d] # None /\ answered'[d] = 0
                                 /\ \A p \in Requests : Answering(acctReq'[p], d) => p = q
      BY DEF Answers
    <3>1. CASE d = c.email
      BY <1>1, <2>3, <2>4, <2>5, <3>1 DEF AccountsTypeOK
    <3>2. CASE d # c.email
      BY <1>4, <2>4, <2>5, <3>2 DEF Answers, AccountsTypeOK
    <3> QED BY <3>1, <3>2
  <2> QED BY <1>5, <2>6
<1> QED BY <1>2, <1>6, <1>7

LEMMA AnswersInit == AccountsInit => Joined /\ Answers
<1> SUFFICES ASSUME AccountsInit PROVE Joined /\ Answers
  OBVIOUS
<1>1. Joined
  BY DEF AccountsInit, Joined, OfFirm
<1>2. Answers
  BY DEF AccountsInit, Answers, Answering, AllIdle, Idle
<1> QED BY <1>1, <1>2

LEMMA AnswersStep ==
    IInv /\ Joined /\ Answers /\ [AccountsNext]_accountsVars => Joined' /\ Answers'
<1> SUFFICES ASSUME IInv, Joined, Answers, [AccountsNext]_accountsVars
             PROVE  Joined' /\ Answers'
  OBVIOUS
<1>1. ASSUME NEW r \in Requests, AccountsStep(r) PROVE Joined' /\ Answers'
  <2>1. CASE CreateAccount(r)
    BY <2>1, CreateAnswersOnce
  <2>2. CASE SendOtp(r)
    BY <2>2, SendAnswersOnce
  <2>3. CASE \/ ConfirmDone(r) \/ SignInJudge(r) \/ SignInTemp(r) \/ MfaUntemp(r)
             \/ SignInOpen(r) \/ AccountsFail(r)
    BY <2>3, CallsAreQuiet, QuietKeeps
  <2>4. CASE ConfirmMark(r) \/ DecideWrite(r)
    <3>1. acctReq[r].email \in Emails
      BY <2>4, TurnShape DEF ConfirmMark, DecideWrite, IInv, AccountsTypeOK
    <3> QED BY <2>4, <3>1, SavesAreQuiet, QuietKeeps
  <2> QED BY <1>1, <2>1, <2>2, <2>3, <2>4 DEF AccountsStep
<1>2. ASSUME NEW r \in Requests, NEW e \in Emails,
             AuthRoutes(r, e) \/ UserRoutes(r, e) \/ ApproveProfessional(r, e)
      PROVE  Joined' /\ Answers'
  <2>1. CASE TurnOnMfa(e)
    BY <2>1, SavesAreQuiet, QuietKeeps
  <2>2. CASE ~TurnOnMfa(e)
    BY <1>2, <2>2, CallsAreQuiet, QuietKeeps DEF AuthRoutes
  <2> QED BY <2>1, <2>2
<1>3. ASSUME NEW e \in Emails,
             AdminRoutes(e) \/ RemoveMember(e) \/ OtpExpires(e) \/ TempExpires(e)
      PROVE  Joined' /\ Answers'
  <2>1. CASE AdminRoutes(e)
    <3>1. Quiet
      BY <2>1, SavesAreQuiet
    <3> QED BY <3>1, QuietKeeps
  <2>2. CASE ~AdminRoutes(e)
    BY <1>3, <2>2, RestIsQuiet, QuietKeeps
  <2> QED BY <2>1, <2>2
<1>4. CASE UNCHANGED accountsVars
  BY <1>4 DEF accountsVars, Joined, Answers
<1> QED BY <1>1, <1>2, <1>3, <1>4 DEF AccountsNext

\* However registrations of one address overlap, one is answered at most, and
\* the membership is that of the account which was stored.
THEOREM RegistrationsDoNotMixHolds == AccountsSpec => []RegistrationsDoNotMix
<1>1. Joined /\ Answers => RegistrationsDoNotMix
  BY DEF Joined, Answers, OfFirm, RegistrationsDoNotMix, Known
<1> QED BY <1>1, TypeInit, StepKeeps, AnswersInit, AnswersStep, PTL DEF AccountsSpec

=============================================================================
