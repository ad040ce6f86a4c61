--------------------------- MODULE Commerce_proofs --------------------------
(***************************************************************************)
(* Proofs about Billing and Catalogue, for any users, plans, orders and    *)
(* definitions, and any number of overlapping calls, and about Commerce,   *)
(* which puts them beside Accounts.                                        *)
(*                                                                         *)
(* A subscription keeps its plan although the plan is deleted by a count   *)
(* made earlier: the upsert writes only a plan that exists, and a deletion *)
(* removes only a plan that no row refers to.  Types are not inductive     *)
(* alone: a call writes into a row it has found, so that row must still be *)
(* there (Found).                                                          *)
(*                                                                         *)
(* A copy matches its row because an undisturbed user has one call at a    *)
(* time (OneCall, Copied); a payment is served because a call for an       *)
(* order carries that order's plan until the row is written (Serving).     *)
(* The seed brings the definition by a loop invariant (Loops) that         *)
(* assumes nothing of the catalogue it starts from.                        *)
(***************************************************************************)
EXTENDS Commerce, Accounts_proofs, TLAPS

\* What a call in flight has found is not deleted under it.
Found ==
    \A r \in Requests :
        /\ billReq[r].pc \in {"complete", "activate"} => payment[billReq[r].order] # None
        /\ billReq[r].pc = "cancel" => row[billReq[r].user] # None

BillingInv == BillingTypeOK /\ Found

USE BillingAssumption, RowsAssumption

-----------------------------------------------------------------------------

\* A slot whose program counter is known holds the locals of that step.
LEMMA CallShape ==
    ASSUME NEW q \in Call
    PROVE  /\ q.pc \in {"upsert", "cache"} => q.user \in Users /\ q.order \in Orders \union {None}
           /\ q.pc = "upsert" => q.plan \in Plans /\ q.trial \in BOOLEAN
           /\ q.pc = "cache" => q.copy \in Copy
           /\ q.pc \in {"cancel", "uncache"} => q.user \in Users
           /\ q.pc \in {"count", "remove"} => q.plan \in Plans
           /\ q.pc = "remove" => q.used \in BOOLEAN
           /\ q.pc = "order" => q.plan \in Plans
           /\ q.pc \in {"order", "complete", "activate", "notify"}
                => q.user \in Users /\ q.order \in Orders
           /\ q.pc = "complete" => [q EXCEPT !.pc = "activate"] \in Call
BY DEF Call, Idle

\* The user and the order a call works for.
LEMMA CallOwner ==
    ASSUME NEW q \in Call
    PROVE  /\ UserOf(q) \in Users \union {None}
           /\ "order" \in DOMAIN q => q.order \in Orders \union {None}
BY DEF Call, Idle, UserOf

LEMMA BillingStart == BillingInit => BillingInv
<1> SUFFICES ASSUME BillingInit PROVE BillingInv
  OBVIOUS
<1>1. billReq \in [Requests -> Call] /\ \A r \in Requests : billReq[r].pc = "idle"
  BY DEF BillingInit, AllIdle, Call, Idle
<1>2. Found
  BY <1>1 DEF Found
<1> QED BY <1>1, <1>2 DEF BillingInv, BillingTypeOK, BillingInit

\* A call is accepted: the slots stay well typed.
LEMMA Accepting ==
    ASSUME BillingTypeOK, NEW r \in Requests, NEW c \in Call, Accept(r, c)
    PROVE  /\ billReq' = [billReq EXCEPT ![r] = c]
           /\ billReq' \in [Requests -> Call]
           /\ calls' \in 0..MaxCalls /\ disturbed' \subseteq Users \union Orders
<1>1. UserOf(c) \in Users \union {None}
  BY CallOwner
<1> QED BY <1>1 DEF Accept, Put, BillingTypeOK

LEMMA Going ==
    ASSUME BillingTypeOK, NEW r \in Requests, NEW c \in Call, Go(r, c)
    PROVE  /\ billReq' = [billReq EXCEPT ![r] = c]
           /\ billReq' \in [Requests -> Call]
           /\ calls' \in 0..MaxCalls /\ disturbed' \subseteq Users \union Orders
BY DEF Go, Put, BillingTypeOK

-----------------------------------------------------------------------------
(* Every step keeps BillingInv.                                                  *)

LEMMA BillingFailKeeps == ASSUME BillingInv, NEW r \in Requests, BillingFail(r) PROVE BillingInv'
<1>1. Idle \in Call
  BY DEF Call
<1>2. billReq' = [billReq EXCEPT ![r] = Idle] /\ billReq' \in [Requests -> Call]
  BY <1>1 DEF BillingFail, Put, BillingInv, BillingTypeOK
<1>3. UserOf(billReq[r]) \in Users \union {None}
      /\ ("order" \in DOMAIN billReq[r] => billReq[r].order \in Orders \union {None})
  BY CallOwner DEF BillingInv, BillingTypeOK
<1>4. disturbed' \subseteq Users \union Orders
  BY <1>3 DEF BillingFail, BillingInv, BillingTypeOK
<1>5. BillingTypeOK'
  BY <1>2, <1>4 DEF BillingFail, planVars, payVars, BillingInv, BillingTypeOK
<1>6. Found'
  BY <1>2 DEF BillingFail, payVars, BillingInv, BillingTypeOK, Found, Idle
<1> QED BY <1>5, <1>6 DEF BillingInv

LEMMA SubscriptionRoutesKeep ==
    ASSUME BillingInv, NEW r \in Requests, SubscriptionRoutes(r) PROVE BillingInv'
<1> BillingTypeOK /\ Found
  BY DEF BillingInv
<1>1. PICK u \in Users : CancelRead(r, u) \/ \E p \in Plans : SubscribeRead(r, u, p)
  BY DEF SubscriptionRoutes
<1>2. CASE CancelRead(r, u)
  <2> DEFINE c == [pc |-> "cancel", user |-> u]
  <2>1. c \in Call /\ Accept(r, c)
    BY <1>2 DEF Call, CancelRead
  <2>2. billReq' = [billReq EXCEPT ![r] = c]
        /\ billReq' \in [Requests -> Call]
        /\ calls' \in 0..MaxCalls /\ disturbed' \subseteq Users \union Orders
    BY <2>1, Accepting
  <2>3. BillingTypeOK'
    BY <1>2, <2>2 DEF CancelRead, planVars, payVars, BillingTypeOK
  <2>4. Found'
    BY <1>2, <2>2 DEF CancelRead, payVars, BillingTypeOK, Found
  <2> QED BY <2>3, <2>4 DEF BillingInv
<1>3. ASSUME NEW p \in Plans, SubscribeRead(r, u, p) PROVE BillingInv'
  <2> DEFINE c == Chosen(u, p, None)
  <2>1. c \in Call /\ c.pc = "upsert" /\ Accept(r, c)
    BY <1>3 DEF Call, SubscribeRead, Chosen, OnSale, Exists, BillingTypeOK, PlanRow
  <2>2. billReq' = [billReq EXCEPT ![r] = c]
        /\ billReq' \in [Requests -> Call]
        /\ calls' \in 0..MaxCalls /\ disturbed' \subseteq Users \union Orders
    BY <2>1, Accepting
  <2> HIDE DEF c
  <2>3. BillingTypeOK'
    BY <1>3, <2>2 DEF SubscribeRead, planVars, payVars, BillingTypeOK
  <2>4. Found'
    BY <1>3, <2>1, <2>2 DEF SubscribeRead, payVars, BillingTypeOK, Found
  <2> QED BY <2>3, <2>4 DEF BillingInv
<1> QED BY <1>1, <1>2, <1>3

LEMMA PlanRoutesKeep ==
    ASSUME BillingInv, NEW r \in Requests, PlanRoutes(r) PROVE BillingInv'
<1> BillingTypeOK /\ Found
  BY DEF BillingInv
<1>1. PICK p \in Plans : CreatePlan(p) \/ UpdatePlan(p) \/ DeleteRead(r, p)
  BY DEF PlanRoutes
<1>2. CASE CreatePlan(p)
  BY <1>2 DEF CreatePlan, PlanStep, payVars, BillingTypeOK, Found, BillingInv
<1>3. CASE UpdatePlan(p)
  <2>1. withdrawn' \subseteq Plans /\ outdated' \subseteq Users
    BY <1>3 DEF UpdatePlan, SubscribersOf, BillingTypeOK
  <2> QED BY <1>3, <2>1 DEF UpdatePlan, PlanStep, payVars, BillingTypeOK, Found, BillingInv
<1>4. CASE DeleteRead(r, p)
  <2> DEFINE c == [pc |-> "count", plan |-> p]
  <2>1. c \in Call /\ Accept(r, c)
    BY <1>4 DEF Call, DeleteRead
  <2>2. billReq' = [billReq EXCEPT ![r] = c]
        /\ billReq' \in [Requests -> Call]
        /\ calls' \in 0..MaxCalls /\ disturbed' \subseteq Users \union Orders
    BY <2>1, Accepting
  <2>3. BillingTypeOK'
    BY <1>4, <2>2 DEF DeleteRead, PlanStep, planVars, payVars, BillingTypeOK
  <2>4. Found'
    BY <1>4, <2>2 DEF DeleteRead, PlanStep, payVars, BillingTypeOK, Found
  <2> QED BY <2>3, <2>4 DEF BillingInv
<1> QED BY <1>1, <1>2, <1>3, <1>4

LEMMA PaymentRoutesKeep ==
    ASSUME BillingInv, NEW r \in Requests, PaymentRoutes(r) PROVE BillingInv'
<1> BillingTypeOK /\ Found
  BY DEF BillingInv
<1>1. PICK u \in Users, o \in Orders :
        VerifyRead(r, u, o) \/ \E p \in Plans : OrderRead(r, u, p, o)
  BY DEF PaymentRoutes
<1>2. CASE VerifyRead(r, u, o)
  <2> DEFINE c == [pc |-> "complete", user |-> u, order |-> o]
  <2>1. c \in Call /\ Accept(r, c)
    BY <1>2 DEF Call, VerifyRead
  <2>2. billReq' = [billReq EXCEPT ![r] = c]
        /\ billReq' \in [Requests -> Call]
        /\ calls' \in 0..MaxCalls /\ disturbed' \subseteq Users \union Orders
    BY <2>1, Accepting
  <2>3. BillingTypeOK'
    BY <1>2, <2>2 DEF VerifyRead, planVars, payVars, BillingTypeOK
  <2>4. Found'
    BY <1>2, <2>2 DEF VerifyRead, payVars, BillingTypeOK, Found
  <2> QED BY <2>3, <2>4 DEF BillingInv
<1>3. ASSUME NEW p \in Plans, OrderRead(r, u, p, o) PROVE BillingInv'
  <2> DEFINE c == [pc |-> "order", user |-> u, plan |-> p, order |-> o]
  <2>1. c \in Call /\ Accept(r, c)
    BY <1>3 DEF Call, OrderRead
  <2>2. billReq' = [billReq EXCEPT ![r] = c]
        /\ billReq' \in [Requests -> Call]
        /\ calls' \in 0..MaxCalls /\ disturbed' \subseteq Users \union Orders
    BY <2>1, Accepting
  <2>3. BillingTypeOK'
    BY <1>3, <2>2 DEF OrderRead, planVars, payVars, BillingTypeOK
  <2>4. Found'
    BY <1>3, <2>2 DEF OrderRead, payVars, BillingTypeOK, Found
  <2> QED BY <2>3, <2>4 DEF BillingInv
<1> QED BY <1>1, <1>2, <1>3

LEMMA UpsertKeeps == ASSUME BillingInv, NEW r \in Requests, Upsert(r) PROVE BillingInv'
<1> DEFINE c == billReq[r]
           status == StatusOf(c.trial)
           next == [pc |-> "cache", user |-> c.user, order |-> c.order,
                    copy |-> CopyOf(c.plan, status)]
<1> BillingTypeOK /\ Found
  BY DEF BillingInv
<1>1. c \in Call /\ c.pc = "upsert"
  BY DEF Upsert, BillingTypeOK
<1>2. /\ c.user \in Users /\ c.plan \in Plans
      /\ c.order \in Orders \union {None}
  BY <1>1, CallShape
<1>3. CASE Exists(c.plan)
  <2>0. plan[c.plan].slug \in PlanSlugs
    BY <1>2, <1>3 DEF BillingTypeOK, PlanRow, Exists
  <2>1. [plan |-> c.plan, status |-> status] \in Row /\ CopyOf(c.plan, status) \in Copy
    BY <1>2, <2>0 DEF Row, Copy, CopyOf, StatusOf
  <2>2. next \in Call /\ next.pc = "cache"
    BY <1>2, <2>1 DEF Call
  <2>3. billReq' = [billReq EXCEPT ![r] = next]
        /\ billReq' \in [Requests -> Call]
        /\ calls' \in 0..MaxCalls /\ disturbed' \subseteq Users \union Orders
    BY <1>3, <2>2, Going DEF Upsert
  <2>4. row' = [row EXCEPT ![c.user] = [plan |-> c.plan, status |-> status]]
        /\ served' = served \union ({c.order} \ {None}) /\ outdated' = outdated \ {c.user}
        /\ UNCHANGED <<copy, payment, notified, plan, withdrawn>>
    BY <1>3 DEF Upsert
  <2> HIDE DEF next, status, c
  <2>5. BillingTypeOK'
    BY <1>2, <2>1, <2>3, <2>4 DEF BillingTypeOK
  <2>6. Found'
    BY <2>1, <2>2, <2>3, <2>4 DEF BillingTypeOK, Found
  <2> QED BY <2>5, <2>6 DEF BillingInv
<1>4. CASE ~Exists(c.plan)
  <2>1. Idle \in Call
    BY DEF Call
  <2>2. billReq' = [billReq EXCEPT ![r] = Idle]
        /\ billReq' \in [Requests -> Call]
        /\ calls' \in 0..MaxCalls /\ disturbed' \subseteq Users \union Orders
    BY <1>4, <2>1, Going DEF Upsert
  <2>3. UNCHANGED <<row, served, copy, payment, notified, plan, withdrawn, outdated>>
    BY <1>4 DEF Upsert
  <2> QED BY <2>2, <2>3 DEF BillingTypeOK, Found, Idle, BillingInv
<1> QED BY <1>3, <1>4

LEMMA CacheWriteKeeps == ASSUME BillingInv, NEW r \in Requests, CacheWrite(r) PROVE BillingInv'
<1> DEFINE c == billReq[r]
           next == IF c.order = None THEN Idle
                   ELSE [pc |-> "notify", user |-> c.user, order |-> c.order]
<1> BillingTypeOK /\ Found
  BY DEF BillingInv
<1>1. c \in Call /\ c.pc = "cache"
  BY DEF CacheWrite, BillingTypeOK
<1>2. c.user \in Users /\ c.order \in Orders \union {None} /\ c.copy \in Copy
  BY <1>1, CallShape
<1>3. next \in Call /\ next.pc \in {"idle", "notify"}
  BY <1>2 DEF Call, Idle
<1>4. billReq' = [billReq EXCEPT ![r] = next]
      /\ billReq' \in [Requests -> Call]
      /\ calls' \in 0..MaxCalls /\ disturbed' \subseteq Users \union Orders
  BY <1>3, Going DEF CacheWrite
<1>5. copy' = [copy EXCEPT ![c.user] = c.copy]
      /\ UNCHANGED <<row, plan, withdrawn, outdated, payment, notified, served>>
  BY DEF CacheWrite, planVars, payVars
<1> HIDE DEF next, c
<1>6. BillingTypeOK'
  BY <1>2, <1>4, <1>5 DEF BillingTypeOK
<1>7. Found'
  BY <1>3, <1>4, <1>5 DEF BillingTypeOK, Found
<1> QED BY <1>6, <1>7 DEF BillingInv

LEMMA CancelKeeps ==
    ASSUME BillingInv, NEW r \in Requests, CancelWrite(r) \/ CancelDone(r) PROVE BillingInv'
<1> BillingTypeOK /\ Found
  BY DEF BillingInv
<1>1. billReq[r] \in Call /\ billReq[r].pc \in {"cancel", "uncache"}
  BY DEF CancelWrite, CancelDone, BillingTypeOK
<1>2. billReq[r].user \in Users
  BY <1>1, CallShape
<1>3. CASE CancelWrite(r)
  <2> DEFINE u == billReq[r].user
             next == [pc |-> "uncache", user |-> u]
  <2>1. next \in Call
    BY <1>2 DEF Call
  <2>2. billReq' = [billReq EXCEPT ![r] = next]
        /\ billReq' \in [Requests -> Call]
        /\ calls' \in 0..MaxCalls /\ disturbed' \subseteq Users \union Orders
    BY <1>3, <2>1, Going DEF CancelWrite
  <2>3. row[u] \in Row
    BY <1>2, <1>3 DEF CancelWrite, BillingTypeOK, Found
  <2>4. [row[u] EXCEPT !.status = "canceled"] \in Row
    BY <2>3 DEF Row
  <2>5. row' = [row EXCEPT ![u] = [row[u] EXCEPT !.status = "canceled"]]
        /\ UNCHANGED <<copy, plan, withdrawn, outdated, payment, notified, served>>
    BY <1>3 DEF CancelWrite, planVars, payVars
  <2>6. BillingTypeOK'
    BY <1>2, <2>2, <2>4, <2>5 DEF BillingTypeOK
  <2>7. Found'
    BY <1>2, <2>2, <2>4, <2>5 DEF BillingTypeOK, Found
  <2> QED BY <2>6, <2>7 DEF BillingInv
<1>4. CASE CancelDone(r)
  <2>1. Idle \in Call
    BY DEF Call
  <2>2. billReq' = [billReq EXCEPT ![r] = Idle]
        /\ billReq' \in [Requests -> Call]
        /\ calls' \in 0..MaxCalls /\ disturbed' \subseteq Users \union Orders
    BY <1>4, <2>1, Going DEF CancelDone
  <2>3. copy' = [copy EXCEPT ![billReq[r].user] = None]
        /\ UNCHANGED <<row, plan, withdrawn, outdated, payment, notified, served>>
    BY <1>4 DEF CancelDone, planVars, payVars
  <2> QED BY <2>2, <2>3 DEF BillingTypeOK, Found, Idle, BillingInv
<1> QED BY <1>3, <1>4

LEMMA Deactivated ==
    ASSUME BillingTypeOK, NEW p \in Plans, Exists(p)
    PROVE  [plan[p] EXCEPT !.active = FALSE] \in PlanRow
<1>1. plan[p] \in PlanRow
  BY DEF BillingTypeOK, Exists
<1> QED BY <1>1 DEF PlanRow

LEMMA DeleteKeeps ==
    ASSUME BillingInv, NEW r \in Requests, DeleteCount(r) \/ DeleteApply(r) PROVE BillingInv'
<1> BillingTypeOK /\ Found
  BY DEF BillingInv
<1>1. billReq[r] \in Call /\ billReq[r].pc \in {"count", "remove"}
  BY DEF DeleteCount, DeleteApply, BillingTypeOK
<1>2. billReq[r].plan \in Plans
  BY <1>1, CallShape
<1>3. CASE DeleteCount(r)
  <2> DEFINE p == billReq[r].plan
  <2>1. PICK used \in BOOLEAN : Go(r, [pc |-> "remove", plan |-> p, used |-> used])
    BY <1>3, Zenon DEF DeleteCount
  <2> DEFINE next == [pc |-> "remove", plan |-> p, used |-> used]
  <2>2. next \in Call /\ next.pc = "remove"
    BY <1>2 DEF Call
  <2>3. billReq' = [billReq EXCEPT ![r] = next]
        /\ billReq' \in [Requests -> Call]
        /\ calls' \in 0..MaxCalls /\ disturbed' \subseteq Users \union Orders
    BY <2>1, <2>2, Going
  <2> HIDE DEF next
  <2>4. UNCHANGED <<row, copy, plan, withdrawn, outdated, payment, notified, served>>
    BY <1>3 DEF DeleteCount, PlanStep, planVars, payVars
  <2> QED BY <2>2, <2>3, <2>4 DEF BillingTypeOK, Found, BillingInv
<1>4. CASE DeleteApply(r)
  <2>1. Idle \in Call
    BY DEF Call
  <2>2. billReq' = [billReq EXCEPT ![r] = Idle]
        /\ billReq' \in [Requests -> Call]
        /\ calls' \in 0..MaxCalls /\ disturbed' \subseteq Users \union Orders
    BY <1>4, <2>1, Going DEF DeleteApply
  <2> DEFINE p == billReq[r].plan
  <2>3. plan' \in [Plans -> PlanRow \union {None}] /\ withdrawn' \subseteq Plans
    <3>1. CASE Exists(p) /\ plan' = [plan EXCEPT ![p].active = FALSE]
                         /\ withdrawn' = withdrawn \union {p}
      <4>1. [plan[p] EXCEPT !.active = FALSE] \in PlanRow
        BY <1>2, <3>1, Deactivated
      <4>2. plan' = [plan EXCEPT ![p] = [plan[p] EXCEPT !.active = FALSE]]
        BY <3>1
      <4> QED BY <1>2, <3>1, <4>1, <4>2 DEF BillingTypeOK
    <3>2. CASE plan' = [plan EXCEPT ![p] = None] /\ withdrawn' = withdrawn \union {p}
      BY <1>2, <3>2 DEF BillingTypeOK
    <3>3. CASE UNCHANGED <<plan, withdrawn>>
      BY <3>3 DEF BillingTypeOK
    <3> QED BY <1>4, <3>1, <3>2, <3>3 DEF DeleteApply
  <2>4. UNCHANGED <<row, copy, payment, notified, served, outdated>>
    BY <1>4 DEF DeleteApply, PlanStep, payVars
  <2> QED BY <2>2, <2>3, <2>4 DEF BillingTypeOK, Found, Idle, BillingInv
<1> QED BY <1>3, <1>4

LEMMA OrderKeeps == ASSUME BillingInv, NEW r \in Requests, OrderWrite(r) PROVE BillingInv'
<1> DEFINE c == billReq[r]
           new == [user |-> c.user, plan |-> c.plan, status |-> "pending"]
<1> BillingTypeOK /\ Found
  BY DEF BillingInv
<1>1. c \in Call /\ c.pc = "order"
  BY DEF OrderWrite, BillingTypeOK
<1>2. c.user \in Users /\ c.plan \in Plans /\ c.order \in Orders
  BY <1>1, CallShape
<1>3. new \in Payment /\ Idle \in Call
  BY <1>2 DEF Payment, Call
<1>4. billReq' = [billReq EXCEPT ![r] = Idle]
      /\ billReq' \in [Requests -> Call]
      /\ calls' \in 0..MaxCalls /\ disturbed' \subseteq Users \union Orders
  BY <1>3, Going DEF OrderWrite
<1>5. payment' = [payment EXCEPT ![c.order] = new]
      /\ UNCHANGED <<row, copy, plan, withdrawn, outdated, notified, served>>
  BY DEF OrderWrite, planVars
<1> HIDE DEF new, c
<1> QED BY <1>2, <1>3, <1>4, <1>5 DEF BillingTypeOK, Found, Idle, BillingInv

LEMMA VerifyKeeps ==
    ASSUME BillingInv, NEW r \in Requests,
           VerifyComplete(r) \/ VerifyActivate(r) \/ VerifyNotify(r)
    PROVE  BillingInv'
<1> DEFINE c == billReq[r]
<1> BillingTypeOK /\ Found
  BY DEF BillingInv
<1>1. c \in Call /\ c.pc \in {"complete", "activate", "notify"}
  BY DEF VerifyComplete, VerifyActivate, VerifyNotify, BillingTypeOK
<1>2. c.user \in Users /\ c.order \in Orders
  BY <1>1, CallShape
<1>3. c.pc # "notify" => payment[c.order] \in Payment
  BY <1>1, <1>2 DEF Found, BillingTypeOK
<1>4. CASE VerifyComplete(r)
  <2> DEFINE next == [pc |-> "activate", user |-> c.user, order |-> c.order]
             paid == [payment[c.order] EXCEPT !.status = "completed"]
  <2>1. [c EXCEPT !.pc = "activate"] \in Call /\ c.pc = "complete"
    BY <1>1, <1>4, CallShape DEF VerifyComplete
  <2>2. billReq' = [billReq EXCEPT ![r] = [c EXCEPT !.pc = "activate"]]
        /\ billReq' \in [Requests -> Call]
        /\ calls' \in 0..MaxCalls /\ disturbed' \subseteq Users \union Orders
    BY <1>4, <2>1, Going DEF VerifyComplete
  <2>3. [c EXCEPT !.pc = "activate"].order = c.order
        /\ [c EXCEPT !.pc = "activate"].pc \in {"activate"}
    BY <1>1, <2>1 DEF Call, Idle
  <2>4. paid \in Payment
    BY <1>3, <2>1 DEF Payment
  <2>5. payment' = [payment EXCEPT ![c.order] = paid]
        /\ UNCHANGED <<row, copy, plan, withdrawn, outdated, notified, served>>
    BY <1>4 DEF VerifyComplete, planVars
  <2>6. BillingTypeOK'
    BY <1>2, <2>2, <2>4, <2>5 DEF BillingTypeOK
  <2>7. \A o \in Orders : payment[o] # None => payment'[o] # None
    BY <1>2, <2>4, <2>5 DEF BillingTypeOK
  <2>8. Found'
    <3> SUFFICES ASSUME NEW q \in Requests
                 PROVE  /\ billReq'[q].pc \in {"complete", "activate"}
                             => payment'[billReq'[q].order] # None
                        /\ billReq'[q].pc = "cancel" => row'[billReq'[q].user] # None
      BY DEF Found
    <3>1. CASE q = r
      <4>1. billReq'[q] = [c EXCEPT !.pc = "activate"]
        BY <2>2, <3>1 DEF BillingTypeOK
      <4>2. payment'[c.order] # None
        BY <1>2, <1>3, <2>1, <2>7
      <4> QED BY <4>1, <4>2, <2>3
    <3>2. CASE q # r
      <4>1. billReq'[q] = billReq[q] /\ billReq[q] \in Call
        BY <2>2, <3>2 DEF BillingTypeOK
      <4>2. billReq[q].pc \in {"complete", "activate"} => billReq[q].order \in Orders
        BY <4>1, CallShape
      <4> QED BY <4>1, <4>2, <2>5, <2>7 DEF Found
    <3> QED BY <3>1, <3>2
  <2> QED BY <2>6, <2>8 DEF BillingInv
<1>5. CASE VerifyActivate(r)
  <2> DEFINE p == payment[c.order].plan
             next == IF OnSale(p) THEN Chosen(c.user, p, c.order) ELSE Idle
  <2>1. p \in Plans
    BY <1>3, <1>5 DEF VerifyActivate, Payment
  <2>2. OnSale(p) => Chosen(c.user, p, c.order) \in Call /\ Chosen(c.user, p, c.order).pc = "upsert"
    BY <1>2, <2>1 DEF Call, Chosen, OnSale, Exists, BillingTypeOK, PlanRow
  <2>3. next \in Call /\ next.pc \in {"upsert", "idle"}
    BY <2>2 DEF Call, Idle
  <2>4. billReq' = [billReq EXCEPT ![r] = next]
        /\ billReq' \in [Requests -> Call]
        /\ calls' \in 0..MaxCalls /\ disturbed' \subseteq Users \union Orders
    BY <1>5, <2>3, Going DEF VerifyActivate
  <2>5. UNCHANGED <<row, copy, plan, withdrawn, outdated, payment, notified, served>>
    BY <1>5 DEF VerifyActivate, planVars, payVars
  <2> HIDE DEF next
  <2> QED BY <2>3, <2>4, <2>5 DEF BillingTypeOK, Found, BillingInv
<1>6. CASE VerifyNotify(r)
  <2>1. Idle \in Call
    BY DEF Call
  <2>2. billReq' = [billReq EXCEPT ![r] = Idle]
        /\ billReq' \in [Requests -> Call]
        /\ calls' \in 0..MaxCalls /\ disturbed' \subseteq Users \union Orders
    BY <1>6, <2>1, Going DEF VerifyNotify
  <2>3. notified' = notified \union {c.order}
        /\ UNCHANGED <<row, copy, plan, withdrawn, outdated, payment, served>>
    BY <1>6 DEF VerifyNotify, planVars
  <2> HIDE DEF c
  <2> QED BY <1>2, <2>2, <2>3 DEF BillingTypeOK, Found, Idle, BillingInv
<1> QED BY <1>4, <1>5, <1>6

LEMMA BillingStepKeeps == BillingInv /\ [BillingNext]_billingVars => BillingInv'
<1> SUFFICES ASSUME BillingInv, [BillingNext]_billingVars PROVE BillingInv'
  OBVIOUS
<1>1. ASSUME NEW r \in Requests,
             SubscriptionRoutes(r) \/ PlanRoutes(r) \/ PaymentRoutes(r)
      PROVE  BillingInv'
  BY <1>1, SubscriptionRoutesKeep, PlanRoutesKeep, PaymentRoutesKeep
<1>2. ASSUME NEW r \in Requests, BillingStep(r) PROVE BillingInv'
  BY <1>2, UpsertKeeps, CacheWriteKeeps, CancelKeeps, DeleteKeeps, OrderKeeps,
     VerifyKeeps, BillingFailKeeps DEF BillingStep
<1>3. ASSUME NEW u \in Users, CopyExpires(u) PROVE BillingInv'
  BY <1>3 DEF CopyExpires, planVars, payVars, BillingTypeOK, Found, BillingInv
<1>4. CASE UNCHANGED billingVars
  BY <1>4 DEF billingVars, BillingTypeOK, Found, BillingInv
<1> QED BY <1>1, <1>2, <1>3, <1>4 DEF BillingNext

\* Every reachable state of plans, subscriptions and payments is well typed.
THEOREM BillingTypeCorrect == BillingSpec => []BillingTypeOK
<1>1. BillingInv => BillingTypeOK
  BY DEF BillingInv
<1> QED BY <1>1, BillingStart, BillingStepKeeps, PTL DEF BillingSpec

-----------------------------------------------------------------------------
(* A subscriber's plan.                                                    *)

\* Only an upsert lets a row refer to another plan, and only a deletion takes
\* a plan away.
LEMMA PlanKept ==
    ASSUME BillingInv, SubscribersKeepTheirPlan, [BillingNext]_billingVars
    PROVE  SubscribersKeepTheirPlan'
<1> BillingTypeOK /\ Found
  BY DEF BillingInv
<1> USE DEF SubscribersKeepTheirPlan, Exists
<1>1. ASSUME NEW r \in Requests, Upsert(r) PROVE SubscribersKeepTheirPlan'
  <2>1. billReq[r].plan \in Plans /\ billReq[r].user \in Users
    BY <1>1, CallShape DEF Upsert, BillingTypeOK
  <2> QED BY <1>1, <2>1 DEF Upsert, planVars, BillingTypeOK
<1>2. ASSUME NEW r \in Requests, CancelWrite(r) PROVE SubscribersKeepTheirPlan'
  <2>1. billReq[r].user \in Users /\ row[billReq[r].user] \in Row
    BY <1>2, CallShape DEF CancelWrite, BillingTypeOK, Found
  <2>2. row' = [row EXCEPT ![billReq[r].user] =
                  [row[billReq[r].user] EXCEPT !.status = "canceled"]]
        /\ plan' = plan
    BY <1>2 DEF CancelWrite, planVars
  <2>3. [row[billReq[r].user] EXCEPT !.status = "canceled"].plan = row[billReq[r].user].plan
    BY <2>1 DEF Row
  <2> QED BY <2>1, <2>2, <2>3 DEF BillingTypeOK
<1>3. ASSUME NEW p \in Plans, CreatePlan(p) \/ UpdatePlan(p) PROVE SubscribersKeepTheirPlan'
  <2>1. row' = row /\ \E new \in PlanRow : plan' = [plan EXCEPT ![p] = new]
    BY <1>3 DEF CreatePlan, UpdatePlan, PlanStep
  <2>2. \A u \in Users : row[u] # None => row[u].plan \in Plans
    BY DEF BillingTypeOK, Row
  <2> QED BY <2>1, <2>2 DEF BillingTypeOK
<1>4. ASSUME NEW r \in Requests, DeleteApply(r) PROVE SubscribersKeepTheirPlan'
  <2> DEFINE p == billReq[r].plan
  <2>1. p \in Plans
    BY <1>4, CallShape DEF DeleteApply, BillingTypeOK
  <2>2. \A u \in Users : row[u] # None => row[u].plan \in Plans
    BY DEF BillingTypeOK, Row
  <2>3. row' = row
    BY <1>4 DEF DeleteApply, PlanStep
  <2>4. CASE Exists(p) /\ plan' = [plan EXCEPT ![p].active = FALSE]
    <3>1. [plan[p] EXCEPT !.active = FALSE] \in PlanRow
      BY <2>1, <2>4, Deactivated
    <3> QED BY <2>1, <2>2, <2>3, <2>4, <3>1 DEF BillingTypeOK
  <2>5. CASE SubscribersOf(p) = {} /\ plan' = [plan EXCEPT ![p] = None]
    <3>1. \A u \in Users : row[u] # None => row[u].plan # p
      BY <2>5 DEF SubscribersOf
    <3> QED BY <2>1, <2>2, <2>3, <2>5, <3>1 DEF BillingTypeOK
  <2>6. CASE plan' = plan
    BY <2>3, <2>6
  <2> QED BY <1>4, <2>4, <2>5, <2>6 DEF DeleteApply, planVars
<1>5. CASE UNCHANGED <<plan, row>>
  BY <1>5
<1>6. ASSUME NEW r \in Requests, BillingStep(r) PROVE SubscribersKeepTheirPlan'
  <2>1. \/ Upsert(r) \/ CancelWrite(r) \/ DeleteApply(r) \/ UNCHANGED <<plan, row>>
    BY <1>6 DEF BillingStep, CacheWrite, CancelDone, DeleteCount, OrderWrite, VerifyComplete,
       VerifyActivate, VerifyNotify, BillingFail, planVars, payVars, PlanStep
  <2> QED BY <2>1, <1>1, <1>2, <1>4, <1>5
<1>7. ASSUME NEW r \in Requests, SubscriptionRoutes(r) \/ PlanRoutes(r) \/ PaymentRoutes(r)
      PROVE  SubscribersKeepTheirPlan'
  <2>1. \/ \E p \in Plans : CreatePlan(p) \/ UpdatePlan(p)
        \/ UNCHANGED <<plan, row>>
    BY <1>7 DEF SubscriptionRoutes, PlanRoutes, PaymentRoutes, CancelRead, SubscribeRead,
       DeleteRead, VerifyRead, OrderRead, planVars, payVars, PlanStep
  <2> QED BY <2>1, <1>3, <1>5
<1>8. ASSUME NEW u \in Users, CopyExpires(u) PROVE SubscribersKeepTheirPlan'
  BY <1>8, <1>5 DEF CopyExpires, planVars
<1> QED BY <1>5, <1>6, <1>7, <1>8 DEF BillingNext, billingVars

\* In whatever order deletions count and subscriptions read and write, nobody
\* is left with a plan that is gone.
THEOREM SubscribersKeepTheirPlanHolds == BillingSpec => []SubscribersKeepTheirPlan
<1>1. BillingInit => SubscribersKeepTheirPlan
  BY DEF BillingInit, SubscribersKeepTheirPlan
<1> QED BY <1>1, BillingStart, BillingStepKeeps, PlanKept, PTL DEF BillingSpec

-----------------------------------------------------------------------------
(* The copy in Redis.  While a user's calls have not overlapped at most    *)
(* one works for him (OneCall), and his copy may differ from his row only  *)
(* between that call's two writes (Copied).                                *)

OneCall ==
    \A u \in Users \ disturbed : \A r, q \in Requests :
        UserOf(billReq[r]) = u /\ UserOf(billReq[q]) = u => r = q

Writing == {"cache", "uncache"}

\* Copy x is that of a row y of a plan with this slug, or renamed since.
Agrees(x, y, slug, late) == y # None /\ x.status = y.status /\ (late \/ x.slug = slug)
SameAsRow(u, x) == Agrees(x, row[u], plan[row[u].plan].slug, u \in outdated)

Copied ==
    \A u \in Users \ disturbed :
        /\ \/ copy[u] # None => SameAsRow(u, copy[u])
           \/ \E r \in Requests : UserOf(billReq[r]) = u /\ billReq[r].pc \in Writing
        /\ \A r \in Requests : UserOf(billReq[r]) = u /\ billReq[r].pc = "cache" =>
             SameAsRow(u, billReq[r].copy)

CopyInv == OneCall /\ Copied

-----------------------------------------------------------------------------
(* A completed payment.                                                    *)

\* A plan that is not on sale was withdrawn.
Withdrawn == \A p \in Plans : OnSale(p) \/ p \in withdrawn

\* A call for an order is at work on that order's plan, and past the
\* subscription it has been made.
Serving ==
    \A r \in Requests :
        LET c == billReq[r] IN
        /\ c.pc = "upsert" /\ c.order # None =>
             payment[c.order] # None /\ payment[c.order].plan = c.plan
        /\ c.pc \in {"cache", "notify"} /\ c.order # None => c.order \in served
        /\ c.pc = "order" => payment[c.order] = None

\* No two calls are opening the same order.
OneOrder ==
    \A r, q \in Requests :
        billReq[r].pc = "order" /\ billReq[q].pc = "order" /\ billReq[r].order = billReq[q].order => r = q

PaidInv == Withdrawn /\ Serving /\ OneOrder /\ PaidIsServed

LEMMA CopyStart == BillingInit => CopyInv
<1> SUFFICES ASSUME BillingInit PROVE CopyInv
  OBVIOUS
<1>1. \A r \in Requests : UserOf(billReq[r]) = None
  BY DEF BillingInit, AllIdle, Idle, UserOf
<1>2. \A u \in Users : u # None /\ copy[u] = None
  BY DEF BillingInit
<1> QED BY <1>1, <1>2 DEF CopyInv, OneCall, Copied

\* A call that moves on works for the user it worked for, or for nobody.
LEMMA MovingOn ==
    ASSUME BillingTypeOK, OneCall, NEW r \in Requests, NEW c,
           billReq' = [billReq EXCEPT ![r] = c], UserOf(c) \in {UserOf(billReq[r]), None},
           disturbed' = disturbed
    PROVE  OneCall'
<1>1. \A q \in Requests : billReq'[q] = IF q = r THEN c ELSE billReq[q]
  BY DEF BillingTypeOK
<1>2. \A u \in Users : \A q \in Requests : UserOf(billReq'[q]) = u => UserOf(billReq[q]) = u
  BY <1>1
<1> QED BY <1>2 DEF OneCall

\* A call that is accepted beside another of its user disturbs him.
LEMMA AcceptedOne ==
    ASSUME BillingTypeOK, OneCall, NEW r \in Requests, NEW c, Accept(r, c)
    PROVE  OneCall' /\ disturbed \subseteq disturbed'
<1>1. \A q \in Requests : billReq'[q] = IF q = r THEN c ELSE billReq[q]
  BY DEF Accept, Put, BillingTypeOK
<1>2. disturbed' = disturbed \union
         {u \in {UserOf(c)} \ {None} : \E q \in Requests : UserOf(billReq[q]) = u}
  BY DEF Accept
<1>3. disturbed \subseteq disturbed'
  BY <1>2
<1>4. \A u \in Users \ disturbed' : UserOf(c) = u => \A q \in Requests : UserOf(billReq[q]) # u
  BY <1>2
<1>5. OneCall'
  BY <1>1, <1>3, <1>4 DEF OneCall
<1> QED BY <1>3, <1>5

\* A step leaves user v his row and his copy, and the slug of his plan unless
\* he is noted for it.
Stays(v) ==
    /\ row'[v] = row[v] /\ copy'[v] = copy[v]
    /\ row[v] # None =>
         /\ v \in outdated => v \in outdated'
         /\ v \in outdated' \/ plan'[row[v].plan].slug = plan[row[v].plan].slug

LEMMA AllStay ==
    ASSUME UNCHANGED <<row, copy, plan, outdated>>
    PROVE  \A v \in Users : Stays(v)
BY DEF Stays

LEMMA StaysSame ==
    ASSUME NEW v, Stays(v), NEW x, SameAsRow(v, x)
    PROVE  Agrees(x, row'[v], plan'[row'[v].plan].slug, v \in outdated')
BY DEF Stays, SameAsRow, Agrees

\* A call that writes neither the row nor the copy.
LEMMA QuietMove ==
    ASSUME BillingTypeOK, Copied, NEW r \in Requests, NEW c,
           billReq' = [billReq EXCEPT ![r] = c],
           billReq[r].pc \notin Writing, c.pc \notin Writing,
           disturbed \subseteq disturbed', \A v \in Users : Stays(v)
    PROVE  Copied'
<1>1. \A q \in Requests : billReq'[q] = IF q = r THEN c ELSE billReq[q]
  BY DEF BillingTypeOK
<1> SUFFICES ASSUME NEW u \in Users \ disturbed
             PROVE  /\ \/ copy[u] # None => SameAsRow(u, copy[u])
                       \/ \E q \in Requests : UserOf(billReq'[q]) = u /\ billReq'[q].pc \in Writing
                    /\ \A q \in Requests : UserOf(billReq'[q]) = u /\ billReq'[q].pc = "cache" =>
                         SameAsRow(u, billReq'[q].copy)
  BY DEF Copied, SameAsRow, Agrees, Stays
<1>2. ASSUME NEW q \in Requests, UserOf(billReq[q]) = u, billReq[q].pc \in Writing
      PROVE  billReq'[q] = billReq[q]
  BY <1>1, <1>2
<1>3. ASSUME NEW q \in Requests, UserOf(billReq'[q]) = u, billReq'[q].pc = "cache"
      PROVE  SameAsRow(u, billReq'[q].copy)
  <2>1. q # r
    BY <1>1, <1>3 DEF Writing
  <2> QED BY <1>1, <1>3, <2>1 DEF Copied
<1>4. \/ copy[u] # None => SameAsRow(u, copy[u])
      \/ \E q \in Requests : UserOf(billReq'[q]) = u /\ billReq'[q].pc \in Writing
  BY <1>2 DEF Copied
<1> QED BY <1>3, <1>4

\* A step of a call that touches its user u alone, whose copy is then right or
\* still to be written.
LEMMA OwnMove ==
    ASSUME BillingTypeOK, OneCall, Copied, NEW r \in Requests, NEW c, NEW u \in Users,
           billReq' = [billReq EXCEPT ![r] = c], disturbed' = disturbed,
           UserOf(billReq[r]) = u, UserOf(c) \in {u, None},
           \A v \in Users : v # u => Stays(v),
           u \notin disturbed =>
             /\ \/ copy'[u] # None =>
                     Agrees(copy'[u], row'[u], plan'[row'[u].plan].slug, u \in outdated')
                \/ UserOf(c) = u /\ c.pc \in Writing
             /\ UserOf(c) = u /\ c.pc = "cache" =>
                  Agrees(c.copy, row'[u], plan'[row'[u].plan].slug, u \in outdated')
    PROVE  Copied'
<1>1. \A q \in Requests : billReq'[q] = IF q = r THEN c ELSE billReq[q]
  BY DEF BillingTypeOK
<1> SUFFICES ASSUME NEW v \in Users \ disturbed
             PROVE  /\ \/ copy'[v] # None => SameAsRow(v, copy[v])'
                       \/ \E q \in Requests : UserOf(billReq'[q]) = v /\ billReq'[q].pc \in Writing
                    /\ \A q \in Requests : UserOf(billReq'[q]) = v /\ billReq'[q].pc = "cache" =>
                         SameAsRow(v, billReq[q].copy)'
  BY DEF Copied
<1>2. CASE v = u
  <2>1. \A q \in Requests : UserOf(billReq'[q]) = u => q = r
    BY <1>1, <1>2 DEF OneCall
  <2>2. billReq'[r] = c
    BY <1>1
  <2> QED BY <1>2, <2>1, <2>2 DEF SameAsRow, Agrees
<1>3. CASE v # u
  <2>1. \A q \in Requests : UserOf(billReq'[q]) = v <=> UserOf(billReq[q]) = v
    BY <1>1, <1>3
  <2>2. \A q \in Requests : UserOf(billReq[q]) = v => billReq'[q] = billReq[q]
    BY <1>1, <1>3
  <2>3. Stays(v)
    BY <1>3
  <2> QED BY <2>1, <2>2, <2>3 DEF Copied, SameAsRow, Agrees, Stays
<1> QED BY <1>2, <1>3

LEMMA CallKinds ==
    ASSUME NEW q \in Call
    PROVE  /\ q.pc \in {"upsert", "cache", "cancel", "uncache", "order", "complete", "activate", "notify"}
                => UserOf(q) = q.user /\ q.user \in Users
           /\ q.pc \in {"idle", "count", "remove"} => UserOf(q) = None
           /\ "order" \in DOMAIN q <=>
                q.pc \in {"upsert", "cache", "order", "complete", "activate", "notify"}
           /\ q.pc = "cache" => q.copy \in Copy
           /\ q = Idle <=> q.pc = "idle"
BY DEF Call, Idle, UserOf

\* Calls are accepted before they write anything.
LEMMA AcceptedQuiet ==
    ASSUME BillingTypeOK, CopyInv, NEW r \in Requests, NEW c, c.pc \notin Writing, Accept(r, c),
           UNCHANGED <<row, copy, plan, outdated>>
    PROVE  CopyInv'
<1>1. billReq[r].pc \notin Writing /\ billReq' = [billReq EXCEPT ![r] = c]
  BY DEF Accept, Put, Idle, Writing
<1>2. OneCall' /\ disturbed \subseteq disturbed'
  BY AcceptedOne DEF CopyInv
<1> QED BY <1>1, <1>2, AllStay, QuietMove DEF CopyInv

LEMMA GoneQuiet ==
    ASSUME BillingTypeOK, CopyInv, NEW r \in Requests, NEW c, Go(r, c),
           billReq[r].pc \notin Writing, c.pc \notin Writing,
           UserOf(c) \in {UserOf(billReq[r]), None}, \A v \in Users : Stays(v)
    PROVE  CopyInv'
<1>1. billReq' = [billReq EXCEPT ![r] = c] /\ disturbed' = disturbed
  BY DEF Go, Put
<1>2. OneCall'
  BY <1>1, MovingOn DEF CopyInv
<1>3. Copied'
  BY <1>1, QuietMove DEF CopyInv
<1> QED BY <1>2, <1>3 DEF CopyInv

LEMMA IdleIsNobody == Idle \in Call /\ Idle.pc = "idle" /\ UserOf(Idle) = None
BY DEF Call, Idle, UserOf

LEMMA CopyUpsert == ASSUME BillingInv, CopyInv, NEW r \in Requests, Upsert(r) PROVE CopyInv'
<1> DEFINE c == billReq[r]
           u == c.user
           status == StatusOf(c.trial)
           next == [pc |-> "cache", user |-> u, order |-> c.order,
                    copy |-> CopyOf(c.plan, status)]
<1>1. BillingTypeOK /\ c \in Call /\ c.pc = "upsert" /\ OneCall /\ Copied
  BY DEF Upsert, BillingInv, BillingTypeOK, CopyInv
<1>2. u \in Users /\ c.plan \in Plans /\ UserOf(c) = u
  BY <1>1, CallShape, CallKinds
<1>3. CASE Exists(c.plan)
  <2>1. /\ billReq' = [billReq EXCEPT ![r] = next] /\ disturbed' = disturbed /\ copy' = copy
        /\ row' = [row EXCEPT ![u] = [plan |-> c.plan, status |-> status]]
        /\ plan' = plan /\ outdated' = outdated \ {u}
    BY <1>3 DEF Upsert, Go, Put
  <2>2. UserOf(next) = u /\ next.pc = "cache"
        /\ next.copy.slug = plan[c.plan].slug /\ next.copy.status = status
    BY DEF UserOf, CopyOf
  <2>3. [plan |-> c.plan, status |-> status] \in Row
    BY <1>2 DEF Row, StatusOf
  <2>4. Agrees(next.copy, row'[u], plan'[row'[u].plan].slug, u \in outdated')
    <3>1. row'[u] = [plan |-> c.plan, status |-> status] /\ plan' = plan
      BY <1>1, <1>2, <2>1 DEF BillingTypeOK
    <3> HIDE DEF next, u, c, status
    <3>2. row'[u] # None /\ row'[u].plan = c.plan /\ row'[u].status = status
      BY <2>3, <3>1
    <3> QED BY <2>2, <3>1, <3>2 DEF Agrees
  <2>5. \A v \in Users : v # u => Stays(v)
    BY <1>1, <2>1 DEF BillingTypeOK, Stays
  <2>6. OneCall'
    BY <1>1, <1>2, <2>1, <2>2, MovingOn
  <2> HIDE DEF next, status, u, c
  <2>7. Copied'
    BY <1>1, <1>2, <2>1, <2>2, <2>4, <2>5, OwnMove DEF Writing, c
  <2> QED BY <2>6, <2>7 DEF CopyInv
<1>4. CASE ~Exists(c.plan)
  BY <1>1, <1>4, GoneQuiet, IdleIsNobody, AllStay DEF Upsert, Writing
<1> QED BY <1>3, <1>4

LEMMA CopyCacheWrite == ASSUME BillingInv, CopyInv, NEW r \in Requests, CacheWrite(r) PROVE CopyInv'
<1> DEFINE c == billReq[r]
           u == c.user
           next == IF c.order = None THEN Idle
                   ELSE [pc |-> "notify", user |-> u, order |-> c.order]
<1>1. BillingTypeOK /\ c \in Call /\ c.pc = "cache" /\ OneCall /\ Copied
  BY DEF CacheWrite, BillingInv, BillingTypeOK, CopyInv
<1>2. u \in Users /\ UserOf(c) = u
  BY <1>1, CallKinds
<1>3. /\ billReq' = [billReq EXCEPT ![r] = next] /\ disturbed' = disturbed /\ row' = row
      /\ copy' = [copy EXCEPT ![u] = c.copy] /\ UNCHANGED <<plan, outdated>>
  BY DEF CacheWrite, Go, Put, planVars
<1>4. UserOf(next) \in {u, None} /\ next.pc # "cache"
  BY DEF UserOf, Idle
<1>5. copy'[u] = c.copy /\ \A v \in Users : v # u => Stays(v)
  BY <1>1, <1>2, <1>3 DEF BillingTypeOK, Stays
<1>6. OneCall'
  BY <1>1, <1>2, <1>3, <1>4, MovingOn
<1>7. u \notin disturbed =>
        Agrees(copy'[u], row'[u], plan'[row'[u].plan].slug, u \in outdated')
  <2>1. u \notin disturbed => SameAsRow(u, c.copy)
    BY <1>1, <1>2 DEF Copied
  <2> QED BY <1>3, <1>5, <2>1 DEF SameAsRow, Agrees
<1> HIDE DEF next, u, c
<1>8. Copied'
  BY <1>1, <1>2, <1>3, <1>4, <1>5, <1>7, OwnMove DEF c
<1> QED BY <1>6, <1>8 DEF CopyInv

LEMMA CopyCancel ==
    ASSUME BillingInv, CopyInv, NEW r \in Requests, CancelWrite(r) \/ CancelDone(r)
    PROVE  CopyInv'
<1> DEFINE c == billReq[r]
           u == c.user
           next == IF c.pc = "cancel" THEN [pc |-> "uncache", user |-> u] ELSE Idle
<1>1. BillingTypeOK /\ c \in Call /\ c.pc \in {"cancel", "uncache"} /\ OneCall /\ Copied
  BY DEF CancelWrite, CancelDone, BillingInv, BillingTypeOK, CopyInv
<1>2. u \in Users /\ UserOf(c) = u
  BY <1>1, CallKinds
<1>3. billReq' = [billReq EXCEPT ![r] = next] /\ disturbed' = disturbed
  BY DEF CancelWrite, CancelDone, Go, Put
<1>4. UserOf(next) \in {u, None} /\ next.pc # "cache"
      /\ (c.pc = "cancel" => UserOf(next) = u /\ next.pc \in Writing)
  BY DEF UserOf, Idle, Writing
<1>5. /\ c.pc = "uncache" => copy'[u] = None
      /\ \A v \in Users : v # u => Stays(v)
  BY <1>1, <1>2 DEF CancelWrite, CancelDone, BillingTypeOK, Stays, planVars
<1>6. OneCall'
  BY <1>1, <1>2, <1>3, <1>4, MovingOn
<1> HIDE DEF next, u, c
<1>7. Copied'
  BY <1>1, <1>2, <1>3, <1>4, <1>5, OwnMove DEF c
<1> QED BY <1>6, <1>7 DEF CopyInv

LEMMA CopyFail == ASSUME BillingInv, CopyInv, NEW r \in Requests, BillingFail(r) PROVE CopyInv'
<1>1. BillingTypeOK /\ OneCall /\ Copied
  BY DEF BillingInv, CopyInv
<1>2. /\ \A q \in Requests : billReq'[q] = IF q = r THEN Idle ELSE billReq[q]
      /\ disturbed \subseteq disturbed' /\ UserOf(billReq[r]) \in disturbed' \union {None}
      /\ UNCHANGED <<row, copy, plan, outdated>>
  BY <1>1 DEF BillingFail, Put, BillingTypeOK, planVars
<1>3. ASSUME NEW u \in Users, u \notin disturbed', NEW q \in Requests
      PROVE  /\ UserOf(billReq'[q]) = u <=> UserOf(billReq[q]) = u
             /\ UserOf(billReq[q]) = u => billReq'[q] = billReq[q]
  BY <1>2, <1>3, IdleIsNobody
<1>4. OneCall'
  BY <1>1, <1>2, <1>3 DEF OneCall
<1>5. Copied'
  BY <1>1, <1>2, <1>3 DEF Copied, SameAsRow, Agrees
<1> QED BY <1>4, <1>5 DEF CopyInv

\* A subscriber whose plan is saved under another slug is noted.
LEMMA PlanSaved ==
    ASSUME BillingTypeOK, SubscribersKeepTheirPlan, NEW p \in Plans,
           CreatePlan(p) \/ UpdatePlan(p), NEW v \in Users
    PROVE  Stays(v)
<1>1. /\ UNCHANGED <<row, copy>>
      /\ \A q \in Plans : q # p => plan'[q] = plan[q]
  BY DEF CreatePlan, UpdatePlan, PlanStep, BillingTypeOK
<1>2. row[v] # None => row[v].plan \in Plans /\ plan[row[v].plan] # None
  BY DEF BillingTypeOK, Row, SubscribersKeepTheirPlan, Exists
<1>3. CASE CreatePlan(p)
  BY <1>1, <1>2, <1>3 DEF CreatePlan, Stays
<1>4. CASE UpdatePlan(p)
  <2>1. /\ outdated \subseteq outdated'
        /\ \A u \in SubscribersOf(p) : plan'[p].slug # plan[p].slug => u \in outdated'
    BY <1>4 DEF UpdatePlan
  <2> QED BY <1>1, <1>2, <2>1 DEF SubscribersOf, Stays
<1> QED BY <1>3, <1>4

LEMMA CopyRoutes ==
    ASSUME BillingInv, CopyInv, SubscribersKeepTheirPlan, NEW r \in Requests,
           SubscriptionRoutes(r) \/ PlanRoutes(r) \/ PaymentRoutes(r)
    PROVE  CopyInv'
<1>0. BillingTypeOK
  BY DEF BillingInv
<1>1. ASSUME NEW c, c.pc \notin Writing, Accept(r, c), UNCHANGED <<row, copy, planVars>>
      PROVE  CopyInv'
  BY <1>0, <1>1, AcceptedQuiet DEF planVars
<1>2. ASSUME NEW u \in Users,
             CancelRead(r, u) \/ \E o \in Orders : VerifyRead(r, u, o)
      PROVE  CopyInv'
  BY <1>1, <1>2 DEF CancelRead, VerifyRead, Writing
<1>3. ASSUME NEW u \in Users, NEW p \in Plans,
             SubscribeRead(r, u, p) \/ \E o \in Orders : OrderRead(r, u, p, o)
      PROVE  CopyInv'
  BY <1>1, <1>3 DEF SubscribeRead, OrderRead, Chosen, Writing
<1>4. ASSUME NEW p \in Plans, DeleteRead(r, p) PROVE CopyInv'
  BY <1>1, <1>4 DEF DeleteRead, PlanStep, Writing
<1>5. ASSUME NEW p \in Plans, CreatePlan(p) \/ UpdatePlan(p) PROVE CopyInv'
  <2>1. UNCHANGED <<row, copy, billReq, disturbed>>
    BY <1>5 DEF CreatePlan, UpdatePlan, PlanStep
  <2>2. \A u \in Users : Stays(u)
    BY <1>0, <1>5, PlanSaved
  <2> QED BY <2>1, <2>2 DEF CopyInv, OneCall, Copied, SameAsRow, Agrees, Stays
<1> QED BY <1>2, <1>3, <1>4, <1>5 DEF SubscriptionRoutes, PlanRoutes, PaymentRoutes

\* A plan that is withdrawn keeps its slug, and one that is deleted has no
\* subscriber.
LEMMA PlanDropped ==
    ASSUME BillingTypeOK, SubscribersKeepTheirPlan, NEW r \in Requests, DeleteApply(r), NEW v \in Users
    PROVE  Stays(v)
<1> DEFINE p == billReq[r].plan
<1>1. p \in Plans
  BY CallShape DEF DeleteApply, BillingTypeOK
<1>2. UNCHANGED <<row, copy, outdated>>
  BY DEF DeleteApply, PlanStep
<1>3. row[v] # None => row[v].plan \in Plans
  BY DEF BillingTypeOK, Row
<1>4. CASE Exists(p) /\ plan' = [plan EXCEPT ![p].active = FALSE]
  <2>1. plan[p] \in PlanRow
    BY <1>1, <1>4 DEF Exists, BillingTypeOK
  <2>2. [plan[p] EXCEPT !.active = FALSE].slug = plan[p].slug
    BY <2>1 DEF PlanRow
  <2>3. plan' = [plan EXCEPT ![p] = [plan[p] EXCEPT !.active = FALSE]]
    BY <1>4
  <2>4. \A q \in Plans : plan'[q].slug = plan[q].slug
    BY <1>1, <2>2, <2>3 DEF BillingTypeOK
  <2> QED BY <1>2, <1>3, <2>4 DEF Stays
<1>5. CASE SubscribersOf(p) = {} /\ plan' = [plan EXCEPT ![p] = None]
  <2>1. row[v] # None => row[v].plan # p
    BY <1>5 DEF SubscribersOf
  <2>2. \A q \in Plans : q # p => plan'[q] = plan[q]
    BY <1>5 DEF BillingTypeOK
  <2> QED BY <1>2, <1>3, <2>1, <2>2 DEF Stays
<1>6. CASE plan' = plan
  BY <1>2, <1>6 DEF Stays
<1> QED BY <1>4, <1>5, <1>6 DEF DeleteApply

\* The steps that write no row and no copy.
LEMMA CopyQuietSteps ==
    ASSUME BillingInv, CopyInv, SubscribersKeepTheirPlan, NEW r \in Requests,
           \/ DeleteCount(r) \/ DeleteApply(r) \/ OrderWrite(r)
           \/ VerifyComplete(r) \/ VerifyActivate(r) \/ VerifyNotify(r)
    PROVE  CopyInv'
<1> DEFINE c == billReq[r]
<1>1. BillingTypeOK /\ c \in Call
  BY DEF BillingInv, BillingTypeOK
<1>2. (\A v \in Users : Stays(v)) /\ c.pc \notin Writing
  <2>1. CASE DeleteApply(r)
    BY <1>1, <2>1, PlanDropped DEF DeleteApply, Writing
  <2>2. CASE ~DeleteApply(r)
    <3>1. UNCHANGED <<row, copy, plan, outdated>> /\ c.pc \notin Writing
      BY <2>2 DEF DeleteCount, OrderWrite, VerifyComplete, VerifyActivate, VerifyNotify,
         PlanStep, planVars, Writing
    <3> QED BY <3>1, AllStay
  <2> QED BY <2>1, <2>2
<1>3. ASSUME NEW next, Go(r, next), next.pc \notin Writing, UserOf(next) \in {UserOf(c), None}
      PROVE  CopyInv'
  BY <1>1, <1>2, <1>3, GoneQuiet
<1>4. CASE DeleteCount(r)
  <2>1. PICK used \in BOOLEAN : Go(r, [pc |-> "remove", plan |-> c.plan, used |-> used])
    BY <1>4, Zenon DEF DeleteCount
  <2> DEFINE next == [pc |-> "remove", plan |-> c.plan, used |-> used]
  <2>2. next.pc \notin Writing /\ UserOf(next) = None
    BY DEF Writing, UserOf
  <2> QED BY <1>3, <2>1, <2>2
<1>5. CASE DeleteApply(r) \/ OrderWrite(r) \/ VerifyNotify(r)
  <2>1. Go(r, Idle)
    BY <1>5 DEF DeleteApply, OrderWrite, VerifyNotify
  <2> QED BY <1>3, <2>1, IdleIsNobody DEF Writing
<1>6. CASE VerifyComplete(r)
  <2> DEFINE next == [c EXCEPT !.pc = "activate"]
  <2>1. Go(r, next) /\ c.pc = "complete"
    BY <1>6 DEF VerifyComplete
  <2>2. next \in Call /\ next.pc = "activate" /\ next.user = c.user
    BY <1>1, <2>1, CallShape DEF Call, Idle
  <2>3. UserOf(next) = UserOf(c)
    BY <1>1, <2>1, <2>2, CallKinds
  <2> HIDE DEF next
  <2> QED BY <1>3, <2>1, <2>2, <2>3 DEF Writing
<1>7. CASE VerifyActivate(r)
  <2> DEFINE p == payment[c.order].plan
             next == IF OnSale(p) THEN Chosen(c.user, p, c.order) ELSE Idle
  <2>1. Go(r, next) /\ c.pc = "activate"
    BY <1>7 DEF VerifyActivate
  <2>2. UserOf(c) = c.user
    BY <1>1, <2>1, CallKinds
  <2>3. next.pc \notin Writing /\ UserOf(next) \in {c.user, None}
    BY DEF Chosen, Idle, UserOf, Writing
  <2> HIDE DEF next
  <2> QED BY <1>3, <2>1, <2>2, <2>3
<1> QED BY <1>4, <1>5, <1>6, <1>7

LEMMA CopyStep ==
    ASSUME BillingInv, CopyInv, SubscribersKeepTheirPlan, [BillingNext]_billingVars
    PROVE  CopyInv'
<1>1. ASSUME NEW r \in Requests, BillingStep(r) PROVE CopyInv'
  BY <1>1, CopyUpsert, CopyCacheWrite, CopyCancel, CopyFail, CopyQuietSteps DEF BillingStep
<1>2. ASSUME NEW u \in Users, CopyExpires(u) PROVE CopyInv'
  <2>1. /\ UNCHANGED <<row, billReq, disturbed, plan, outdated>>
        /\ \A v \in Users : copy'[v] = IF v = u THEN None ELSE copy[v]
    BY <1>2 DEF CopyExpires, BillingInv, BillingTypeOK, planVars
  <2> QED BY <2>1 DEF CopyInv, OneCall, Copied, SameAsRow, Agrees
<1>3. CASE UNCHANGED billingVars
  BY <1>3 DEF billingVars, CopyInv, OneCall, Copied, SameAsRow, Agrees
<1> QED BY <1>1, <1>2, <1>3, CopyRoutes DEF BillingNext

\* For any number of users and calls, one whose calls did not overlap nor fail
\* finds his subscription or nothing in Redis, under the slug his plan has or,
\* if it was renamed meanwhile, had.
THEOREM CopyMatchesRowHolds == BillingSpec => []CopyMatchesRow
<1>1. BillingInv /\ CopyInv => CopyMatchesRow
  BY DEF CopyInv, Copied, SameAsRow, Agrees, CopyMatchesRow, Working
<1> QED BY <1>1, BillingStart, BillingStepKeeps, CopyStart, CopyStep,
        SubscribersKeepTheirPlanHolds, PTL DEF BillingSpec

-----------------------------------------------------------------------------
(* PaidIsServed: a call leaves a paid order only when it has served it, has *)
(* failed, or found its plan withdrawn.                                    *)

AtWork(o) == \E r \in Requests : billReq[r] # Idle /\ "order" \in DOMAIN billReq[r]
                                 /\ billReq[r].order = o

\* A step after which nobody need be at work on o.
Excused(o) == o \in served' \union disturbed' \/ payment'[o].plan \in withdrawn'

LEMMA PaidStart == BillingInit => PaidInv
<1> SUFFICES ASSUME BillingInit PROVE PaidInv
  OBVIOUS
<1>1. Withdrawn
  BY DEF BillingInit, Withdrawn, OnSale, Exists
<1>2. \A r \in Requests : billReq[r].pc = "idle"
  BY DEF BillingInit, AllIdle, Idle
<1>3. PaidIsServed
  BY DEF BillingInit, PaidIsServed
<1> QED BY <1>1, <1>2, <1>3 DEF PaidInv, Serving, OneOrder

\* Slot r moves on to c while payments stay: what is left behind is excused,
\* and c says the truth about its order.
LEMMA PaidMove ==
    ASSUME BillingTypeOK, PaidInv, NEW r \in Requests, NEW c \in Call,
           billReq' = [billReq EXCEPT ![r] = c],
           payment' = payment, Withdrawn', withdrawn \subseteq withdrawn',
           served \subseteq served', disturbed \subseteq disturbed',
           "order" \in DOMAIN billReq[r] =>
             \/ "order" \in DOMAIN c /\ c.order = billReq[r].order
             \/ billReq[r].order = None \/ payment[billReq[r].order] = None
             \/ Excused(billReq[r].order),
           c.pc = "upsert" /\ c.order # None =>
             payment[c.order] # None /\ payment[c.order].plan = c.plan,
           c.pc \in {"cache", "notify"} /\ c.order # None => c.order \in served',
           c.pc = "order" =>
             /\ payment[c.order] = None
             /\ \A q \in Requests : billReq[q].pc = "order" => billReq[q].order # c.order
    PROVE  PaidInv'
<1>1. \A q \in Requests : billReq'[q] = IF q = r THEN c ELSE billReq[q]
  BY DEF BillingTypeOK
<1>2. Serving'
  BY <1>1 DEF PaidInv, Serving
<1>3. OneOrder'
  BY <1>1 DEF PaidInv, OneOrder
<1>4. ASSUME NEW o \in Orders, payment[o] # None, payment[o].status = "completed",
             o \notin served' \union disturbed'
      PROVE  payment[o].plan \in withdrawn' \/ AtWork(o)'
  <2>1. payment[o].plan \in withdrawn \/ AtWork(o)
    BY <1>4 DEF PaidInv, PaidIsServed, AtWork
  <2>2. CASE payment[o].plan \in withdrawn
    BY <2>2
  <2>3. ASSUME NEW q \in Requests, billReq[q] # Idle, "order" \in DOMAIN billReq[q], billReq[q].order = o
        PROVE  payment[o].plan \in withdrawn' \/ AtWork(o)'
    <3>1. CASE q # r
      BY <1>1, <2>3, <3>1 DEF AtWork
    <3>2. CASE q = r
      <4>1. ("order" \in DOMAIN c /\ c.order = o) \/ payment[o].plan \in withdrawn'
        BY <1>4, <2>3, <3>2 DEF Excused
      <4>2. "order" \in DOMAIN c => c # Idle
        BY DEF Idle
      <4> QED BY <1>1, <4>1, <4>2 DEF AtWork
    <3> QED BY <3>1, <3>2
  <2> QED BY <2>1, <2>2, <2>3 DEF AtWork
<1>5. PaidIsServed'
  BY <1>4 DEF PaidIsServed, AtWork
<1> QED BY <1>2, <1>3, <1>5 DEF PaidInv

LEMMA PaidRoutes ==
    ASSUME BillingInv, PaidInv, NEW r \in Requests,
           SubscriptionRoutes(r) \/ PaymentRoutes(r) \/ \E p \in Plans : DeleteRead(r, p)
    PROVE  PaidInv'
<1>0. BillingTypeOK
  BY DEF BillingInv
<1>1. ASSUME NEW c \in Call, Accept(r, c), UNCHANGED <<plan, withdrawn, payment, served>>,
             c.pc = "upsert" => c.order = None, c.pc \notin {"cache", "notify"},
             c.pc = "order" =>
               /\ payment[c.order] = None
               /\ \A q \in Requests : billReq[q].pc = "order" => billReq[q].order # c.order
      PROVE  PaidInv'
  <2>1. /\ billReq' = [billReq EXCEPT ![r] = c] /\ disturbed \subseteq disturbed'
        /\ billReq[r] = Idle /\ "order" \notin DOMAIN billReq[r]
    BY <1>1 DEF Accept, Put, Idle
  <2>2. Withdrawn'
    BY <1>1 DEF PaidInv, Withdrawn, OnSale, Exists
  <2> QED BY <1>0, <1>1, <2>1, <2>2, PaidMove
<1>2. ASSUME NEW u \in Users, CancelRead(r, u) PROVE PaidInv'
  <2> DEFINE c == [pc |-> "cancel", user |-> u]
  <2>1. c \in Call /\ c.pc = "cancel" /\ Accept(r, c)
    BY <1>2 DEF Call, CancelRead
  <2> HIDE DEF c
  <2> QED BY <1>1, <1>2, <2>1 DEF CancelRead, planVars, payVars
<1>3. ASSUME NEW u \in Users, NEW p \in Plans, SubscribeRead(r, u, p) PROVE PaidInv'
  <2> DEFINE c == Chosen(u, p, None)
  <2>1. c \in Call /\ c.pc = "upsert" /\ c.order = None /\ Accept(r, c)
    BY <1>0, <1>3 DEF Call, SubscribeRead, Chosen, OnSale, Exists, BillingTypeOK, PlanRow
  <2> HIDE DEF c
  <2> QED BY <1>1, <1>3, <2>1 DEF SubscribeRead, planVars, payVars
<1>4. ASSUME NEW p \in Plans, DeleteRead(r, p) PROVE PaidInv'
  <2> DEFINE c == [pc |-> "count", plan |-> p]
  <2>1. c \in Call /\ c.pc = "count" /\ Accept(r, c)
    BY <1>4 DEF Call, DeleteRead
  <2> HIDE DEF c
  <2> QED BY <1>1, <1>4, <2>1 DEF DeleteRead, planVars, payVars, PlanStep
<1>5. ASSUME NEW u \in Users, NEW o \in Orders, VerifyRead(r, u, o) PROVE PaidInv'
  <2> DEFINE c == [pc |-> "complete", user |-> u, order |-> o]
  <2>1. c \in Call /\ c.pc = "complete" /\ Accept(r, c)
    BY <1>5 DEF Call, VerifyRead
  <2> HIDE DEF c
  <2> QED BY <1>1, <1>5, <2>1 DEF VerifyRead, planVars, payVars
<1>6. ASSUME NEW u \in Users, NEW o \in Orders, NEW p \in Plans, OrderRead(r, u, p, o) PROVE PaidInv'
  <2> DEFINE c == [pc |-> "order", user |-> u, plan |-> p, order |-> o]
  <2>1. c \in Call /\ c.pc = "order" /\ c.order = o /\ Accept(r, c)
    BY <1>6 DEF Call, OrderRead
  <2>2. /\ payment[o] = None
        /\ \A q \in Requests : billReq[q].pc = "order" => billReq[q].order # o
    BY <1>6 DEF OrderRead
  <2> HIDE DEF c
  <2> QED BY <1>1, <1>6, <2>1, <2>2 DEF OrderRead, planVars, payVars
<1> QED BY <1>2, <1>3, <1>4, <1>5, <1>6 DEF SubscriptionRoutes, PaymentRoutes

\* A plan that goes off sale is noted.
LEMMA PaidPlans ==
    ASSUME BillingInv, PaidInv, NEW p \in Plans, CreatePlan(p) \/ UpdatePlan(p)
    PROVE  PaidInv'
<1>1. PICK new \in PlanRow :
        /\ plan' = [plan EXCEPT ![p] = new]
        /\ new.active \/ p \in withdrawn'
  BY DEF CreatePlan, UpdatePlan, BillingInv, BillingTypeOK
<1>2. withdrawn \subseteq withdrawn' /\ UNCHANGED <<billReq, payment, served, disturbed>>
  BY DEF CreatePlan, UpdatePlan, PlanStep, payVars
<1>3. \A q \in Plans : plan'[q] = IF q = p THEN new ELSE plan[q]
  BY <1>1 DEF BillingInv, BillingTypeOK
<1>4. Withdrawn'
  BY <1>1, <1>2, <1>3 DEF PaidInv, Withdrawn, OnSale, Exists
<1>5. Serving' /\ OneOrder' /\ PaidIsServed'
  BY <1>2 DEF PaidInv, Serving, OneOrder, PaidIsServed
<1> QED BY <1>4, <1>5 DEF PaidInv

LEMMA PaidUpsert == ASSUME BillingInv, PaidInv, NEW r \in Requests, Upsert(r) PROVE PaidInv'
<1> DEFINE c == billReq[r]
           next == [pc |-> "cache", user |-> c.user, order |-> c.order,
                    copy |-> CopyOf(c.plan, StatusOf(c.trial))]
<1>1. BillingTypeOK /\ c \in Call /\ c.pc = "upsert" /\ PaidInv
  BY DEF Upsert, BillingInv, BillingTypeOK
<1>2. /\ c.user \in Users /\ c.plan \in Plans /\ c.order \in Orders \union {None}
      /\ UNCHANGED <<payment, plan, withdrawn>> /\ Withdrawn'
  BY <1>1, CallShape DEF Upsert, planVars, PaidInv, Withdrawn, OnSale, Exists
<1>3. CASE Exists(c.plan)
  <2>1. /\ billReq' = [billReq EXCEPT ![r] = next] /\ disturbed' = disturbed
        /\ served' = served \union ({c.order} \ {None})
    BY <1>3 DEF Upsert, Go, Put
  <2>2. /\ next \in Call /\ next.pc = "cache" /\ next.order = c.order /\ "order" \in DOMAIN next
    <3>1. CopyOf(c.plan, StatusOf(c.trial)) \in Copy
      BY <1>1, <1>2, <1>3 DEF BillingTypeOK, PlanRow, Exists, Copy, CopyOf, StatusOf
    <3> QED BY <1>2, <3>1 DEF Call
  <2> HIDE DEF next
  <2> QED BY <1>1, <1>2, <2>1, <2>2, PaidMove
<1>4. CASE ~Exists(c.plan)
  <2>1. billReq' = [billReq EXCEPT ![r] = Idle] /\ disturbed' = disturbed /\ served' = served
    BY <1>4 DEF Upsert, Go, Put
  <2>2. c.order # None => Excused(c.order)
    <3>1. c.order # None => payment[c.order].plan = c.plan
      BY <1>1 DEF PaidInv, Serving
    <3>2. c.plan \in withdrawn
      BY <1>1, <1>2, <1>4 DEF PaidInv, Withdrawn, OnSale
    <3> QED BY <1>2, <3>1, <3>2 DEF Excused
  <2> QED BY <1>1, <1>2, <2>1, <2>2, PaidMove, IdleIsNobody
<1> QED BY <1>3, <1>4

\* Steps that leave a payment alone and end or change a call.
LEMMA PaidQuietSteps ==
    ASSUME BillingInv, PaidInv, NEW r \in Requests,
           CacheWrite(r) \/ CancelWrite(r) \/ CancelDone(r) \/ DeleteCount(r) \/ VerifyNotify(r)
    PROVE  PaidInv'
<1> DEFINE c == billReq[r]
<1>1. /\ BillingTypeOK /\ c \in Call
      /\ c.pc \in {"cache", "cancel", "uncache", "count", "notify"}
  BY DEF CacheWrite, CancelWrite, CancelDone, DeleteCount, VerifyNotify, BillingInv, BillingTypeOK
<1>2. UNCHANGED <<payment, plan, withdrawn, served>> /\ Withdrawn'
  BY DEF CacheWrite, CancelWrite, CancelDone, DeleteCount, VerifyNotify, planVars, payVars,
     PlanStep, PaidInv, Withdrawn, OnSale, Exists
<1>3. ASSUME NEW next \in Call, Go(r, next), next.pc \in {"idle", "uncache", "remove", "notify"},
             next.pc = "notify" => c.pc = "cache" /\ next.order = c.order
      PROVE  PaidInv'
  <2>1. billReq' = [billReq EXCEPT ![r] = next] /\ disturbed' = disturbed
    BY <1>3 DEF Go, Put
  <2>2. "order" \in DOMAIN c /\ c.order # None => c.order \in served
    BY <1>1, CallKinds DEF PaidInv, Serving
  <2>3. "order" \in DOMAIN c => c.order = None \/ Excused(c.order)
    BY <1>2, <2>2 DEF Excused
  <2>4. next.pc = "notify" /\ next.order # None => next.order \in served'
    BY <1>1, <1>2, <1>3 DEF PaidInv, Serving
  <2> HIDE DEF c
  <2> QED BY <1>1, <1>2, <1>3, <2>1, <2>3, <2>4, PaidMove DEF c
<1>4. CASE CacheWrite(r)
  <2> DEFINE next == IF c.order = None THEN Idle
                     ELSE [pc |-> "notify", user |-> c.user, order |-> c.order]
  <2>1. Go(r, next) /\ c.pc = "cache"
    BY <1>4 DEF CacheWrite
  <2>2. c.user \in Users /\ c.order \in Orders \union {None}
    BY <1>1, <2>1, CallShape
  <2>3. next \in Call /\ next.pc \in {"idle", "notify"} /\ (next.pc = "notify" => next.order = c.order)
    BY <2>2 DEF Call, Idle
  <2>4. next.pc = "notify" => c.pc = "cache" /\ next.order = c.order
    BY <2>1, <2>3
  <2> HIDE DEF next, c
  <2> QED BY <1>3, <2>1, <2>3, <2>4
<1>5. CASE CancelWrite(r)
  <2> DEFINE next == [pc |-> "uncache", user |-> c.user]
  <2>1. Go(r, next) /\ c.pc = "cancel"
    BY <1>5 DEF CancelWrite
  <2>2. next \in Call /\ next.pc = "uncache"
    BY <1>1, <2>1, CallShape DEF Call
  <2> HIDE DEF next
  <2> QED BY <1>3, <2>1, <2>2
<1>6. CASE DeleteCount(r)
  <2>1. PICK used \in BOOLEAN : Go(r, [pc |-> "remove", plan |-> c.plan, used |-> used])
    BY <1>6, Zenon DEF DeleteCount
  <2> DEFINE next == [pc |-> "remove", plan |-> c.plan, used |-> used]
  <2>2. c.plan \in Plans
    BY <1>1, <1>6, CallShape DEF DeleteCount
  <2>3. next \in Call /\ next.pc = "remove" /\ Go(r, next)
    BY <2>1, <2>2 DEF Call
  <2> HIDE DEF next
  <2> QED BY <1>3, <2>3
<1>7. CASE CancelDone(r) \/ VerifyNotify(r)
  <2>1. Go(r, Idle)
    BY <1>7 DEF CancelDone, VerifyNotify
  <2> QED BY <1>3, <2>1, IdleIsNobody
<1> QED BY <1>4, <1>5, <1>6, <1>7

LEMMA PaidDelete == ASSUME BillingInv, PaidInv, NEW r \in Requests, DeleteApply(r) PROVE PaidInv'
<1> DEFINE p == billReq[r].plan
<1>1. BillingTypeOK /\ billReq[r] \in Call /\ billReq[r].pc = "remove"
  BY DEF DeleteApply, BillingInv, BillingTypeOK
<1>2. p \in Plans /\ "order" \notin DOMAIN billReq[r]
  BY <1>1, CallShape, CallKinds
<1>3. /\ billReq' = [billReq EXCEPT ![r] = Idle] /\ disturbed' = disturbed
      /\ UNCHANGED <<payment, served>>
  BY DEF DeleteApply, Go, Put, PlanStep, payVars
<1>4. /\ withdrawn \subseteq withdrawn'
      /\ \A q \in Plans : q # p => plan'[q] = plan[q]
      /\ p \in withdrawn' \/ plan' = plan
  BY <1>1, <1>2 DEF DeleteApply, planVars, BillingTypeOK
<1> HIDE DEF p
<1>5. Withdrawn'
  BY <1>4 DEF PaidInv, Withdrawn, OnSale, Exists
<1> QED BY <1>1, <1>2, <1>3, <1>4, <1>5, PaidMove, IdleIsNobody

LEMMA PaidOrder == ASSUME BillingInv, PaidInv, NEW r \in Requests, OrderWrite(r) PROVE PaidInv'
<1> DEFINE c == billReq[r]
           new == [user |-> c.user, plan |-> c.plan, status |-> "pending"]
<1>1. BillingTypeOK /\ c \in Call /\ c.pc = "order" /\ Withdrawn /\ Serving /\ OneOrder /\ PaidIsServed
  BY DEF OrderWrite, BillingInv, BillingTypeOK, PaidInv
<1>2. c.order \in Orders /\ payment[c.order] = None
  BY <1>1, CallShape DEF Serving
<1>3. /\ \A q \in Requests : billReq'[q] = IF q = r THEN Idle ELSE billReq[q]
      /\ \A o \in Orders : payment'[o] = IF o = c.order THEN new ELSE payment[o]
      /\ UNCHANGED <<plan, withdrawn, served, disturbed>>
  BY <1>1 DEF OrderWrite, Go, Put, planVars, BillingTypeOK
<1>4. new.status = "pending" /\ Idle.pc = "idle"
  BY DEF Idle
<1> HIDE DEF new, c
<1>5. \A q \in Requests : billReq[q].pc = "upsert" => billReq[q].order \in Orders \union {None}
  BY <1>1, CallShape DEF BillingTypeOK
<1>6. \A q \in Requests : billReq[q].pc = "order" =>
        billReq[q].order \in Orders /\ (q = r \/ billReq[q].order # c.order)
  BY <1>1, CallShape DEF OneOrder, BillingTypeOK, c
<1>7. Serving'
  BY <1>1, <1>2, <1>3, <1>4, <1>5, <1>6 DEF Serving
<1>8. OneOrder' /\ Withdrawn'
  BY <1>1, <1>3, <1>4 DEF OneOrder, Withdrawn, OnSale, Exists
<1>9. ASSUME NEW o \in Orders, payment'[o] # None, payment'[o].status = "completed",
             o \notin served \union disturbed
      PROVE  payment'[o].plan \in withdrawn \/ AtWork(o)'
  <2>1. o # c.order /\ payment'[o] = payment[o]
    BY <1>3, <1>4, <1>9
  <2>2. payment[o].plan \in withdrawn \/ AtWork(o)
    BY <1>1, <1>9, <2>1 DEF PaidIsServed, AtWork
  <2>3. AtWork(o) => AtWork(o)'
    BY <1>3, <2>1 DEF AtWork, c
  <2> QED BY <2>1, <2>2, <2>3
<1>10. PaidIsServed'
  BY <1>3, <1>9 DEF PaidIsServed, AtWork
<1> QED BY <1>7, <1>8, <1>10 DEF PaidInv

LEMMA PaidComplete == ASSUME BillingInv, PaidInv, NEW r \in Requests, VerifyComplete(r) PROVE PaidInv'
<1> DEFINE c == billReq[r]
           next == [c EXCEPT !.pc = "activate"]
           paid == [payment[c.order] EXCEPT !.status = "completed"]
<1>1. BillingTypeOK /\ c \in Call /\ c.pc = "complete" /\ Withdrawn /\ Serving /\ OneOrder /\ PaidIsServed
  BY DEF VerifyComplete, BillingInv, BillingTypeOK, PaidInv
<1>2. c.order \in Orders /\ payment[c.order] \in Payment
  BY <1>1, CallShape DEF BillingInv, Found, BillingTypeOK
<1>3. /\ billReq' = [billReq EXCEPT ![r] = next]
      /\ payment' = [payment EXCEPT ![c.order] = paid]
      /\ UNCHANGED <<plan, withdrawn, served, disturbed>>
  BY DEF VerifyComplete, Go, Put, planVars
<1>4. next.pc = "activate" /\ next.order = c.order /\ "order" \in DOMAIN next /\ next # Idle
  BY <1>1 DEF Call, Idle
<1>5. paid \in Payment /\ paid.plan = payment[c.order].plan
  BY <1>2 DEF Payment
<1>6. /\ \A q \in Requests : billReq'[q] = IF q = r THEN next ELSE billReq[q]
      /\ \A o \in Orders : payment'[o] = IF o = c.order THEN paid ELSE payment[o]
  BY <1>1, <1>3 DEF BillingTypeOK
<1> HIDE DEF next, paid, c
<1>7. paid # None /\ payment[c.order] # None
  BY <1>2, <1>5
<1>8. \A q \in Requests : billReq[q].pc \in {"upsert", "order"} => billReq[q].order \in Orders \union {None}
  BY <1>1, CallShape DEF BillingTypeOK
<1>9. Serving'
  <2> SUFFICES ASSUME NEW q \in Requests, q # r
               PROVE  /\ billReq[q].pc = "upsert" /\ billReq[q].order # None =>
                           /\ payment'[billReq[q].order] # None
                           /\ payment'[billReq[q].order].plan = billReq[q].plan
                      /\ billReq[q].pc \in {"cache", "notify"} /\ billReq[q].order # None =>
                           billReq[q].order \in served
                      /\ billReq[q].pc = "order" => payment'[billReq[q].order] = None
    BY <1>3, <1>4, <1>6 DEF Serving
  <2>1. /\ billReq[q].pc = "upsert" /\ billReq[q].order # None =>
             payment[billReq[q].order] # None /\ payment[billReq[q].order].plan = billReq[q].plan
        /\ billReq[q].pc \in {"cache", "notify"} /\ billReq[q].order # None => billReq[q].order \in served
        /\ billReq[q].pc = "order" => payment[billReq[q].order] = None
    BY <1>1 DEF Serving
  <2>2. billReq[q].pc = "order" => billReq[q].order \in Orders
    BY <1>1, CallShape DEF BillingTypeOK
  <2> QED BY <1>5, <1>6, <1>7, <1>8, <2>1, <2>2
<1>10. OneOrder' /\ Withdrawn'
  BY <1>1, <1>3, <1>4, <1>6 DEF OneOrder, Withdrawn, OnSale, Exists
<1>11. ASSUME NEW o \in Orders, payment'[o] # None, payment'[o].status = "completed",
              o \notin served \union disturbed
       PROVE  payment'[o].plan \in withdrawn \/ AtWork(o)'
  <2>1. CASE o = c.order
    BY <1>4, <1>6, <2>1 DEF AtWork
  <2>2. CASE o # c.order
    <3>1. payment'[o] = payment[o]
      BY <1>6, <2>2
    <3>2. payment[o].plan \in withdrawn \/ AtWork(o)
      BY <1>1, <1>11, <3>1 DEF PaidIsServed, AtWork
    <3>3. AtWork(o) => AtWork(o)'
      BY <1>6, <2>2 DEF AtWork, c
    <3> QED BY <3>1, <3>2, <3>3
  <2> QED BY <2>1, <2>2
<1>12. PaidIsServed'
  BY <1>3, <1>11 DEF PaidIsServed, AtWork
<1> QED BY <1>9, <1>10, <1>12 DEF PaidInv

LEMMA PaidActivate == ASSUME BillingInv, PaidInv, NEW r \in Requests, VerifyActivate(r) PROVE PaidInv'
<1> DEFINE c == billReq[r]
           p == payment[c.order].plan
           next == IF OnSale(p) THEN Chosen(c.user, p, c.order) ELSE Idle
<1>1. BillingTypeOK /\ c \in Call /\ c.pc = "activate" /\ PaidInv
  BY DEF VerifyActivate, BillingInv, BillingTypeOK
<1>2. c.user \in Users /\ c.order \in Orders /\ payment[c.order] \in Payment
  BY <1>1, CallShape DEF BillingInv, Found, BillingTypeOK
<1>3. p \in Plans /\ payment[c.order] # None
  BY <1>2 DEF Payment
<1>4. /\ billReq' = [billReq EXCEPT ![r] = next] /\ disturbed' = disturbed
      /\ UNCHANGED <<payment, plan, withdrawn, served>> /\ Withdrawn'
  BY <1>1 DEF VerifyActivate, Go, Put, planVars, payVars, PaidInv, Withdrawn, OnSale, Exists
<1>5. CASE OnSale(p)
  <2>1. /\ next \in Call /\ next.pc = "upsert" /\ next.order = c.order /\ next.plan = p
        /\ "order" \in DOMAIN next
    BY <1>1, <1>2, <1>3, <1>5 DEF Call, Chosen, OnSale, Exists, BillingTypeOK, PlanRow
  <2> HIDE DEF next
  <2> QED BY <1>1, <1>3, <1>4, <2>1, PaidMove
<1>6. CASE ~OnSale(p)
  <2>1. next = Idle
    BY <1>6
  <2>2. p \in withdrawn
    BY <1>3, <1>6 DEF PaidInv, Withdrawn
  <2>3. Excused(c.order)
    BY <1>4, <2>2 DEF Excused, VerifyActivate
  <2> HIDE DEF next
  <2> QED BY <1>1, <1>4, <2>1, <2>3, PaidMove, IdleIsNobody
<1> QED BY <1>5, <1>6

LEMMA PaidFail == ASSUME BillingInv, PaidInv, NEW r \in Requests, BillingFail(r) PROVE PaidInv'
<1> DEFINE c == billReq[r]
<1>1. BillingTypeOK
  BY DEF BillingInv
<1>2. /\ billReq' = [billReq EXCEPT ![r] = Idle] /\ disturbed \subseteq disturbed'
      /\ UNCHANGED <<payment, plan, withdrawn, served>> /\ Withdrawn'
  BY DEF BillingFail, Put, planVars, payVars, PaidInv, Withdrawn, OnSale, Exists
<1>3. "order" \in DOMAIN c => c.order = None \/ c.order \in disturbed'
  BY DEF BillingFail
<1>4. "order" \in DOMAIN c => c.order = None \/ Excused(c.order)
  BY <1>3 DEF Excused
<1> QED BY <1>1, <1>2, <1>4, PaidMove, IdleIsNobody

LEMMA PaidStep ==
    ASSUME BillingInv, PaidInv, [BillingNext]_billingVars
    PROVE  PaidInv'
<1>1. ASSUME NEW r \in Requests, BillingStep(r) PROVE PaidInv'
  BY <1>1, PaidUpsert, PaidQuietSteps, PaidDelete, PaidOrder, PaidComplete, PaidActivate, PaidFail
     DEF BillingStep
<1>2. ASSUME NEW r \in Requests, SubscriptionRoutes(r) \/ PlanRoutes(r) \/ PaymentRoutes(r)
      PROVE  PaidInv'
  BY <1>2, PaidRoutes, PaidPlans DEF PlanRoutes
<1>3. ASSUME UNCHANGED <<billReq, payment, plan, withdrawn, served, disturbed>> PROVE PaidInv'
  BY <1>3 DEF PaidInv, Withdrawn, OnSale, Exists, Serving, OneOrder, PaidIsServed
<1>4. ASSUME NEW u \in Users, CopyExpires(u) PROVE PaidInv'
  BY <1>3, <1>4 DEF CopyExpires, planVars, payVars
<1>5. CASE UNCHANGED billingVars
  BY <1>3, <1>5 DEF billingVars
<1> QED BY <1>1, <1>2, <1>4, <1>5 DEF BillingNext

\* For any number of orders and overlapping verifications, a completed payment
\* is served, being served, stopped on the way, or for a plan that was withdrawn.
THEOREM PaidIsServedHolds == BillingSpec => []PaidIsServed
<1>1. PaidInv => PaidIsServed
  BY DEF PaidInv
<1> QED BY <1>1, BillingStart, BillingStepKeeps, PaidStart, PaidStep, PTL DEF BillingSpec

-----------------------------------------------------------------------------
(* Catalogue.  A run that finished left what its definition says, because  *)
(* every point of it says what has been brought about so far: what is not  *)
(* defined is gone (Cleared, Undefined), and the modules, features and     *)
(* actions that the loops have passed are there (Loops).  A crash ends the *)
(* run, and the next begins with nothing but the types.                    *)

Looping == {"features", "strays", "actions"}

\* A run is under way before its catalogue counts as synced.
Unsynced == seed.pc # "rest" => synced = None

Rooted == seed.pc \notin {"rest", "root"} => root

\* Only features that exist have actions.
ActionsOfFeatures == \A f \in CatFeatures : home[f] = None => actions[f] = {}

Cleared == seed.pc \in {"dropFeatures", "modules", "plans"} \union Looping => modules \subseteq seed.def.modules

Undefined ==
    seed.pc \in {"modules", "plans"} \union Looping =>
        \A f \in CatFeatures : seed.def.home[f] = None => home[f] = None

\* Feature f and its actions are there, in their module.
Made(f) == home[f] = seed.def.home[f] /\ actions[f] = seed.def.actions[f]

\* Module m and its features are there.
Brought(m) == m \in modules /\ \A f \in CatFeatures : seed.def.home[f] = m => Made(f)

Loops ==
    /\ seed.pc = "modules" => \A m \in seed.def.modules \ seed.todo : Brought(m)
    /\ seed.pc = "plans" => \A m \in seed.def.modules : Brought(m)
    /\ seed.pc \in Looping =>
         /\ seed.module \in modules
         /\ \A m \in seed.def.modules \ seed.todo : m # seed.module => Brought(m)
         /\ \A f \in seed.fs : seed.def.home[f] = seed.module
         /\ \A f \in CatFeatures \ seed.fs :
              seed.def.home[f] = seed.module => Made(f) \/ (seed.pc # "features" /\ f = seed.feature)
    /\ seed.pc \in {"strays", "actions"} =>
         home[seed.feature] = seed.module /\ seed.def.home[seed.feature] = seed.module
    /\ seed.pc = "strays" => seed.as = seed.def.actions[seed.feature]
    /\ seed.pc = "actions" =>
         /\ actions[seed.feature] \union seed.as = seed.def.actions[seed.feature]

Bounds == seed.pc \in {"modules"} \union Looping => seed.todo \subseteq seed.def.modules
Current == seed.pc \in Looping => seed.module \in seed.def.modules

CatalogueInv ==
    /\ CatalogueTypeOK /\ Unsynced /\ Rooted /\ ActionsOfFeatures
    /\ Cleared /\ Undefined /\ Loops /\ Bounds /\ Current /\ SyncedIsDefinition

LEMMA DefinitionShape ==
    ASSUME NEW d \in Definition
    PROVE  /\ d.modules \subseteq CatModules
           /\ d.home \in [CatFeatures -> CatModules \union {None}]
           /\ d.actions \in [CatFeatures -> SUBSET CatActions]
           /\ \A f \in CatFeatures :
                /\ d.home[f] \in d.modules \union {None}
                /\ d.home[f] = None => d.actions[f] = {}
BY DEF Definition

\* A point of the seed holds what its loops have left.
LEMMA SeedShape ==
    ASSUME NEW x \in Seed
    PROVE  /\ x.pc \in {"rest", "root", "dropModules", "dropFeatures", "modules", "plans"} \union Looping
           /\ x.pc = "rest" <=> x = Resting
           /\ x.pc # "rest" => x.def \in Definition
           /\ x.pc \in {"modules"} \union Looping => x.todo \subseteq CatModules
           /\ x.pc \in Looping => x.module \in CatModules /\ x.fs \subseteq CatFeatures
           /\ x.pc \in {"strays", "actions"} => x.feature \in CatFeatures /\ x.as \subseteq CatActions
           /\ x.pc = "plans" => x.slugs \subseteq Slugs
BY DEF Seed, Resting, Looping

LEMMA SeedTurns ==
    ASSUME NEW x \in Seed, x.pc \in {"root", "dropModules"}, NEW p \in {"dropModules", "dropFeatures"}
    PROVE  [x EXCEPT !.pc = p] \in Seed /\ [x EXCEPT !.pc = p].pc = p /\ [x EXCEPT !.pc = p].def = x.def
<1>1. x \in [pc : {"root", "dropModules", "dropFeatures"}, def : Definition]
  BY DEF Seed, Resting
<1> QED BY <1>1 DEF Seed

LEMMA SeedStrayed ==
    ASSUME NEW x \in Seed, x.pc = "strays"
    PROVE  LET y == [x EXCEPT !.pc = "actions"] IN
           /\ y \in Seed /\ y.pc = "actions" /\ y.def = x.def /\ y.todo = x.todo
           /\ y.module = x.module /\ y.fs = x.fs /\ y.feature = x.feature /\ y.as = x.as
<1>1. x \in [pc : {"strays", "actions"}, def : Definition, todo : SUBSET CatModules,
            module : CatModules, fs : SUBSET CatFeatures,
            feature : CatFeatures, as : SUBSET CatActions]
  BY DEF Seed, Resting
<1> QED BY <1>1 DEF Seed

LEMMA SeedActed ==
    ASSUME NEW x \in Seed, x.pc = "actions", NEW a
    PROVE  LET y == [x EXCEPT !.as = x.as \ {a}] IN
           /\ y \in Seed /\ y.pc = "actions" /\ y.def = x.def /\ y.todo = x.todo
           /\ y.module = x.module /\ y.fs = x.fs /\ y.feature = x.feature /\ y.as = x.as \ {a}
<1>1. x \in [pc : {"strays", "actions"}, def : Definition, todo : SUBSET CatModules,
            module : CatModules, fs : SUBSET CatFeatures,
            feature : CatFeatures, as : SUBSET CatActions]
  BY DEF Seed, Resting
<1> QED BY <1>1 DEF Seed

LEMMA SeedPlanned ==
    ASSUME NEW x \in Seed, x.pc = "plans", NEW s
    PROVE  LET y == [x EXCEPT !.slugs = x.slugs \ {s}] IN
           y \in Seed /\ y.pc = "plans" /\ y.def = x.def
<1>1. x \in [pc : {"plans"}, def : Definition, slugs : SUBSET Slugs]
  BY DEF Seed, Resting
<1> QED BY <1>1 DEF Seed

LEMMA CatalogueStart == CatalogueInit => CatalogueInv
<1> SUFFICES ASSUME CatalogueInit PROVE CatalogueInv
  OBVIOUS
<1>1. seed \in Seed /\ seed.pc = "rest"
  BY DEF CatalogueInit, Seed, Resting
<1>2. CatalogueTypeOK
  <2>1. 0 \in 0 .. MaxReleases /\ 0 \in 0 .. MaxEdits
    BY CatalogueAssumption
  <2> QED BY <1>1, <2>1 DEF CatalogueInit, CatalogueTypeOK
<1>3. ActionsOfFeatures /\ SyncedIsDefinition
  BY DEF CatalogueInit, ActionsOfFeatures, SyncedIsDefinition
<1> QED BY <1>1, <1>2, <1>3 DEF CatalogueInv, Unsynced, Rooted, Cleared, Undefined, Loops, Bounds,
           Current, Looping

\* Nothing but a run of the seed changes the catalogue.
LEMMA OutsideKeeps ==
    ASSUME CatalogueInv, UNCHANGED <<root, tables, seed, synced>>, CatalogueTypeOK'
    PROVE  CatalogueInv'
<1>1. UNCHANGED <<root, modules, home, actions, seed, synced>>
  BY DEF tables
<1> QED BY <1>1 DEF CatalogueInv, Unsynced, Rooted, ActionsOfFeatures, Cleared, Undefined,
           Loops, Brought, Made, Bounds, Current, SyncedIsDefinition

LEMMA ReleaseKeeps == ASSUME CatalogueInv, Release PROVE CatalogueInv'
<1>1. CatalogueTypeOK
  BY DEF CatalogueInv
<1>2. releases + 1 \in 0 .. MaxReleases
  BY <1>1, CatalogueAssumption DEF Release, CatalogueTypeOK
<1>3. CatalogueTypeOK'
  BY <1>1, <1>2 DEF Release, CatalogueTypeOK, tables, grants
<1> QED BY <1>3, OutsideKeeps DEF Release

LEMMA SavePlanKeeps == ASSUME CatalogueInv, NEW s \in Slugs, SavePlan(s) PROVE CatalogueInv'
<1>1. CatalogueTypeOK
  BY DEF CatalogueInv
<1>2. PICK new \in PlanForm :
         /\ offer' = [offer EXCEPT ![s] = [active |-> new.active, limits |-> "edited"]]
         /\ planMods' = [planMods EXCEPT ![s] = new.modules]
         /\ planFeats' = [planFeats EXCEPT ![s] = new.features]
  BY DEF SavePlan
<1>3. edits' = edits + 1 /\ edits + 1 \in 0 .. MaxEdits
      /\ UNCHANGED <<release, releases, root, modules, home, actions, seed, synced>>
  BY <1>1, CatalogueAssumption DEF SavePlan, CatalogueTypeOK, tables
<1>4. /\ new.active \in BOOLEAN /\ new.modules \in SUBSET modules
      /\ new.features \in SUBSET {f \in CatFeatures : home[f] # None}
  BY DEF PlanForm
<1>5. [active |-> new.active, limits |-> "edited"] \in [active : BOOLEAN, limits : {"seeded", "edited"}]
  BY <1>4
<1>6. CatalogueTypeOK'
  BY <1>1, <1>2, <1>3, <1>4, <1>5 DEF CatalogueTypeOK
<1> QED BY <1>3, <1>6, OutsideKeeps DEF tables

\* A run begins or is stopped.
LEMMA SeedBeginsOrStops == ASSUME CatalogueInv, SeedStart \/ SeedCrash PROVE CatalogueInv'
<1>1. CatalogueTypeOK /\ ActionsOfFeatures /\ Unsynced /\ SyncedIsDefinition
  BY DEF CatalogueInv
<1>2. UNCHANGED <<root, modules, home, actions, planMods, planFeats, offer, release, releases, edits>>
  BY DEF SeedStart, SeedCrash, tables, grants, outside
<1>3. CASE SeedStart
  <2>1. seed' = [pc |-> "root", def |-> release] /\ synced' = None
    BY <1>3 DEF SeedStart
  <2>2. seed' \in Seed
    BY <1>1, <2>1 DEF Seed, CatalogueTypeOK
  <2>3. CatalogueTypeOK'
    BY <1>1, <1>2, <2>1, <2>2 DEF CatalogueTypeOK
  <2> QED BY <1>1, <1>2, <2>1, <2>3 DEF CatalogueInv, Unsynced, Rooted, ActionsOfFeatures, Cleared,
             Undefined, Loops, Bounds, Current, SyncedIsDefinition, Looping
<1>4. CASE SeedCrash
  <2>1. seed' = Resting /\ synced' = synced /\ seed # Resting
    BY <1>4 DEF SeedCrash
  <2>2. seed' \in Seed /\ seed'.pc = "rest"
    BY <2>1 DEF Seed, Resting
  <2>3. CatalogueTypeOK'
    BY <1>1, <1>2, <2>1, <2>2 DEF CatalogueTypeOK
  <2> QED BY <1>1, <1>2, <2>1, <2>2, <2>3 DEF CatalogueInv, Unsynced, Rooted, ActionsOfFeatures, Cleared,
             Undefined, Loops, Bounds, Current, SyncedIsDefinition, Looping
<1> QED BY <1>3, <1>4

LEMMA SeedRootKeeps == ASSUME CatalogueInv, SeedRoot PROVE CatalogueInv'
<1> DEFINE next == [seed EXCEPT !.pc = "dropModules"]
<1>1. CatalogueTypeOK /\ ActionsOfFeatures /\ Unsynced
  BY DEF CatalogueInv
<1>2. /\ seed \in Seed /\ seed.pc = "root" /\ root' = TRUE /\ seed' = next
      /\ UNCHANGED <<modules, home, actions, planMods, planFeats, offer, release, releases, edits, synced>>
  BY <1>1 DEF SeedRoot, tables, grants, outside, CatalogueTypeOK
<1>3. next \in Seed /\ next.pc = "dropModules"
  BY <1>2, SeedTurns
<1> HIDE DEF next
<1>4. CatalogueTypeOK'
  BY <1>1, <1>2, <1>3 DEF CatalogueTypeOK
<1> QED BY <1>1, <1>2, <1>3, <1>4 DEF CatalogueInv, Unsynced, Rooted, ActionsOfFeatures, Cleared,
           Undefined, Loops, Bounds, Current, SyncedIsDefinition, Looping

\* What is dropped is gone from the plans too, and what is left still refers
\* to rows that exist.
LEMMA Dropped ==
    ASSUME CatalogueTypeOK, ActionsOfFeatures, NEW ms, NEW fs, Drop(ms, fs)
    PROVE  /\ modules' = modules \ ms
           /\ home' \in [CatFeatures -> CatModules \union {None}]
           /\ \A f \in CatFeatures : home'[f] = IF f \in fs THEN None ELSE home[f]
           /\ actions' \in [CatFeatures -> SUBSET CatActions]
           /\ planMods' \in [Slugs -> SUBSET modules']
           /\ planFeats' \in [Slugs -> SUBSET {f \in CatFeatures : home'[f] # None}]
           /\ ActionsOfFeatures'
           /\ \A s \in Slugs : /\ planMods[s] \ planMods'[s] \subseteq ms \intersect modules
                               /\ planFeats[s] \ planFeats'[s] \subseteq fs \intersect CatFeatures
<1>1. modules' = modules \ ms
  BY DEF Drop
<1>2. /\ home' \in [CatFeatures -> CatModules \union {None}]
      /\ \A f \in CatFeatures : home'[f] = IF f \in fs THEN None ELSE home[f]
  BY DEF Drop, CatalogueTypeOK
<1>3. /\ actions' \in [CatFeatures -> SUBSET CatActions]
      /\ \A f \in CatFeatures : actions'[f] = IF f \in fs THEN {} ELSE actions[f]
  BY DEF Drop, CatalogueTypeOK
<1>4. \A s \in Slugs : planMods'[s] = planMods[s] \ ms /\ planMods[s] \subseteq modules
  BY DEF Drop, CatalogueTypeOK
<1>5. \A s \in Slugs : /\ planFeats'[s] = planFeats[s] \ fs
                       /\ planFeats[s] \subseteq {f \in CatFeatures : home[f] # None}
  BY DEF Drop, CatalogueTypeOK
<1>6. planMods' \in [Slugs -> SUBSET modules']
  <2>1. planMods' = [s \in Slugs |-> planMods'[s]]
    BY DEF Drop
  <2>2. \A s \in Slugs : planMods'[s] \in SUBSET modules'
    BY <1>1, <1>4
  <2> QED BY <2>1, <2>2
<1>7. planFeats' \in [Slugs -> SUBSET {f \in CatFeatures : home'[f] # None}]
  <2>1. planFeats' = [s \in Slugs |-> planFeats'[s]]
    BY DEF Drop
  <2>2. \A s \in Slugs : planFeats'[s] \in SUBSET {f \in CatFeatures : home'[f] # None}
    BY <1>2, <1>5
  <2> QED BY <2>1, <2>2
<1>8. ActionsOfFeatures'
  BY <1>2, <1>3 DEF ActionsOfFeatures
<1> QED BY <1>1, <1>2, <1>3, <1>4, <1>5, <1>6, <1>7, <1>8

LEMMA SeedDropModulesKeeps == ASSUME CatalogueInv, SeedDropModules PROVE CatalogueInv'
<1> DEFINE next == [seed EXCEPT !.pc = "dropFeatures"]
           ms == modules \ seed.def.modules
           fs == {f \in CatFeatures : home[f] \in ms}
<1>1. CatalogueTypeOK /\ ActionsOfFeatures /\ Unsynced /\ Rooted
  BY DEF CatalogueInv
<1>2. /\ seed \in Seed /\ seed.pc = "dropModules" /\ seed' = next /\ Drop(ms, fs)
      /\ UNCHANGED <<root, offer, release, releases, edits, synced>>
  BY <1>1 DEF SeedDropModules, outside, CatalogueTypeOK
<1>3. next \in Seed /\ next.pc = "dropFeatures" /\ next.def = seed.def
  BY <1>2, SeedTurns
<1>4. modules' \subseteq seed.def.modules /\ modules' \subseteq CatModules
  BY <1>1, <1>2, Dropped DEF CatalogueTypeOK
<1> HIDE DEF next, ms, fs
<1>5. CatalogueTypeOK' /\ ActionsOfFeatures'
  BY <1>1, <1>2, <1>3, <1>4, Dropped DEF CatalogueTypeOK
<1> QED BY <1>1, <1>2, <1>3, <1>4, <1>5 DEF CatalogueInv, Unsynced, Rooted, Cleared,
           Undefined, Loops, Bounds, Current, SyncedIsDefinition, Looping

LEMMA SeedDropFeaturesKeeps == ASSUME CatalogueInv, SeedDropFeatures PROVE CatalogueInv'
<1> DEFINE next == [pc |-> "modules", def |-> seed.def, todo |-> seed.def.modules]
           fs == {f \in CatFeatures : seed.def.home[f] = None}
<1>1. CatalogueTypeOK /\ ActionsOfFeatures /\ Unsynced /\ Rooted /\ Cleared
  BY DEF CatalogueInv
<1>2. /\ seed \in Seed /\ seed.pc = "dropFeatures" /\ seed' = next /\ Drop({}, fs)
      /\ UNCHANGED <<root, offer, release, releases, edits, synced>>
  BY <1>1 DEF SeedDropFeatures, outside, CatalogueTypeOK
<1>3. seed.def \in Definition /\ seed.def.modules \subseteq CatModules
  BY <1>2, SeedShape, DefinitionShape
<1>4. /\ next \in Seed /\ next.pc = "modules" /\ next.def = seed.def
      /\ next.todo = seed.def.modules
  BY <1>3 DEF Seed
<1>5. modules' = modules /\ modules \subseteq seed.def.modules
      /\ \A f \in CatFeatures : seed.def.home[f] = None => home'[f] = None
  <2>1. \A f \in CatFeatures : seed.def.home[f] = None => f \in fs
    OBVIOUS
  <2> HIDE DEF next, fs
  <2>2. modules' = modules \ {} /\ \A f \in CatFeatures : f \in fs => home'[f] = None
    BY <1>1, <1>2, Dropped
  <2>3. modules \subseteq seed.def.modules
    BY <1>1, <1>2 DEF Cleared
  <2> QED BY <2>1, <2>2, <2>3
<1> HIDE DEF next, fs
<1>6. CatalogueTypeOK' /\ ActionsOfFeatures'
  BY <1>1, <1>2, <1>4, <1>5, Dropped DEF CatalogueTypeOK
<1> QED BY <1>1, <1>2, <1>4, <1>5, <1>6 DEF CatalogueInv, Unsynced, Rooted, Cleared,
           Undefined, Loops, Bounds, Current, SyncedIsDefinition, Looping

LEMMA SeedModuleKeeps ==
    ASSUME CatalogueInv, NEW m \in CatModules, SeedModule(m)
    PROVE  CatalogueInv'
<1> DEFINE next == [pc |-> "features", def |-> seed.def, todo |-> seed.todo \ {m}, module |-> m,
                    fs |-> {f \in CatFeatures : seed.def.home[f] = m}]
<1>1. /\ CatalogueTypeOK /\ ActionsOfFeatures /\ Unsynced /\ Rooted /\ Cleared /\ Undefined
      /\ Loops /\ Bounds
  BY DEF CatalogueInv
<1>2. /\ seed \in Seed /\ seed.pc = "modules" /\ seed' = next /\ m \in seed.todo
      /\ modules' = modules \union {m}
      /\ UNCHANGED <<root, home, actions, planMods, planFeats, offer, release, releases, edits, synced>>
  BY <1>1 DEF SeedModule, grants, outside, CatalogueTypeOK
<1>3. seed.def \in Definition /\ seed.todo \subseteq CatModules /\ seed.todo \subseteq seed.def.modules
  BY <1>1, <1>2, SeedShape DEF Bounds
<1>4. /\ next \in Seed /\ next.pc = "features" /\ next.def = seed.def
      /\ next.todo = seed.todo \ {m} /\ next.module = m
      /\ next.fs = {f \in CatFeatures : seed.def.home[f] = m}
  BY <1>3 DEF Seed
<1> HIDE DEF next
<1>5. CatalogueTypeOK'
  BY <1>1, <1>2, <1>4 DEF CatalogueTypeOK
<1>6. \A n \in seed.def.modules \ seed.todo : Brought(n)'
  BY <1>1, <1>2, <1>4 DEF Loops, Brought, Made
<1>7. Loops'
  BY <1>2, <1>4, <1>6 DEF Loops, Looping
<1>8. Cleared' /\ Undefined'
  BY <1>1, <1>2, <1>3, <1>4 DEF Cleared, Undefined, Looping
<1> QED BY <1>1, <1>2, <1>3, <1>4, <1>5, <1>7, <1>8 DEF CatalogueInv, Unsynced, Rooted,
           ActionsOfFeatures, Bounds, Current, SyncedIsDefinition, Looping

LEMMA SeedFeatureKeeps ==
    ASSUME CatalogueInv, NEW f \in CatFeatures, SeedFeature(f)
    PROVE  CatalogueInv'
<1> DEFINE next == [pc |-> "strays", def |-> seed.def, todo |-> seed.todo, module |-> seed.module,
                    fs |-> seed.fs \ {f}, feature |-> f, as |-> seed.def.actions[f]]
           d == seed.def
<1>1. /\ CatalogueTypeOK /\ ActionsOfFeatures /\ Unsynced /\ Rooted /\ Cleared /\ Undefined
      /\ Loops /\ Bounds /\ Current
  BY DEF CatalogueInv
<1>2. /\ seed \in Seed /\ seed.pc = "features" /\ seed' = next /\ f \in seed.fs
      /\ home' = [home EXCEPT ![f] = seed.module]
      /\ UNCHANGED <<root, modules, actions, planMods, planFeats, offer, release, releases, edits, synced>>
  BY <1>1 DEF SeedFeature, grants, outside, CatalogueTypeOK
<1>3. /\ d \in Definition /\ seed.todo \subseteq CatModules /\ seed.module \in CatModules
      /\ seed.fs \subseteq CatFeatures /\ seed.todo \subseteq d.modules /\ seed.module \in d.modules
  BY <1>1, <1>2, SeedShape DEF Bounds, Current, Looping
<1>4. d.actions[f] \in SUBSET CatActions
  BY <1>3, DefinitionShape
<1>5. /\ next \in Seed /\ next.pc = "strays" /\ next.def = d /\ next.todo = seed.todo
      /\ next.module = seed.module /\ next.fs = seed.fs \ {f} /\ next.feature = f
      /\ next.as = d.actions[f]
  BY <1>3, <1>4 DEF Seed
<1>6. /\ d.home[f] = seed.module /\ seed.module # None
      /\ home' \in [CatFeatures -> CatModules \union {None}]
      /\ \A g \in CatFeatures : home'[g] = IF g = f THEN seed.module ELSE home[g]
  BY <1>1, <1>2, <1>3, CatalogueAssumption DEF Loops, Looping, CatalogueTypeOK
<1> HIDE DEF next, d
<1>7. CatalogueTypeOK'
  <2>1. {g \in CatFeatures : home[g] # None} \subseteq {g \in CatFeatures : home'[g] # None}
    BY <1>6
  <2>2. planFeats' \in [Slugs -> SUBSET {g \in CatFeatures : home'[g] # None}]
    BY <1>1, <1>2, <2>1 DEF CatalogueTypeOK
  <2> QED BY <1>1, <1>2, <1>5, <1>6, <2>2 DEF CatalogueTypeOK
<1>8. ASSUME NEW n, n # seed.module, Brought(n) PROVE Brought(n)'
  BY <1>2, <1>5, <1>6, <1>8 DEF Brought, Made, d
<1>9. ASSUME NEW g \in CatFeatures, g \notin seed.fs, d.home[g] = seed.module PROVE Made(g)'
  <2>1. g # f /\ Made(g)
    BY <1>1, <1>2, <1>9 DEF Loops, Looping, d
  <2> QED BY <1>2, <1>5, <1>6, <2>1 DEF Made, d
<1>10. Loops'
  <2>1. seed.module \in modules /\ (\A n \in d.modules \ seed.todo : n # seed.module => Brought(n)')
        /\ \A g \in seed.fs : d.home[g] = seed.module
    BY <1>1, <1>2, <1>8 DEF Loops, Looping, d
  <2>2. \A g \in CatFeatures \ (seed.fs \ {f}) : d.home[g] = seed.module => Made(g)' \/ g = f
    BY <1>9
  <2> QED BY <1>2, <1>5, <1>6, <2>1, <2>2 DEF Loops, Looping
<1>11. Cleared' /\ Undefined' /\ ActionsOfFeatures'
  BY <1>1, <1>2, <1>5, <1>6 DEF Cleared, Undefined, ActionsOfFeatures, Looping, d
<1> QED BY <1>1, <1>2, <1>3, <1>5, <1>7, <1>10, <1>11 DEF CatalogueInv, Unsynced, Rooted,
           Bounds, Current, SyncedIsDefinition, Looping

\* The actions of the feature at hand are changed, those of others are not.
LEMMA SeedActionsKeep ==
    ASSUME CatalogueInv, SeedStrays \/ \E a \in CatActions : SeedAction(a)
    PROVE  CatalogueInv'
<1> DEFINE d == seed.def
           f == seed.feature
<1>1. /\ CatalogueTypeOK /\ ActionsOfFeatures /\ Unsynced /\ Rooted /\ Cleared /\ Undefined
      /\ Loops /\ Bounds /\ Current
  BY DEF CatalogueInv
<1>2. /\ seed \in Seed /\ seed.pc \in {"strays", "actions"} /\ seed.pc \in Looping /\ seed.pc # "features"
      /\ UNCHANGED <<root, modules, home, planMods, planFeats, offer, release, releases, edits, synced>>
  BY <1>1 DEF SeedStrays, SeedAction, grants, outside, CatalogueTypeOK, Looping
<1>3. /\ d \in Definition /\ seed.module \in CatModules /\ f \in CatFeatures
      /\ seed.as \subseteq CatActions
  BY <1>2, SeedShape
<1>4. home[f] = seed.module /\ d.home[f] = seed.module
  BY <1>1, <1>2 DEF Loops
<1>5. PICK as \in SUBSET CatActions :
        /\ actions' = [actions EXCEPT ![f] = as]
        /\ seed' \in Seed /\ seed'.pc = "actions" /\ seed'.def = d /\ seed'.todo = seed.todo
        /\ seed'.module = seed.module /\ seed'.fs = seed.fs /\ seed'.feature = f
        /\ as \union seed'.as = d.actions[f]
  <2>1. CASE SeedStrays
    <3> DEFINE next == [seed EXCEPT !.pc = "actions"]
               as == actions[f] \intersect seed.as
    <3>1. seed.pc = "strays" /\ seed' = next /\ actions' = [actions EXCEPT ![f] = as]
      BY <2>1 DEF SeedStrays
    <3>2. /\ next \in Seed /\ next.pc = "actions" /\ next.def = d /\ next.todo = seed.todo
          /\ next.module = seed.module /\ next.fs = seed.fs /\ next.feature = f /\ next.as = seed.as
      BY <1>2, <3>1, SeedStrayed
    <3>3. as \in SUBSET CatActions /\ seed.as = d.actions[f] /\ as \union seed.as = d.actions[f]
      BY <1>1, <1>3, <3>1 DEF Loops, CatalogueTypeOK
    <3> HIDE DEF next, as
    <3> QED BY <3>1, <3>2, <3>3
  <2>2. ASSUME NEW a \in CatActions, SeedAction(a)
        PROVE  \E as \in SUBSET CatActions :
        /\ actions' = [actions EXCEPT ![f] = as]
        /\ seed' \in Seed /\ seed'.pc = "actions" /\ seed'.def = d /\ seed'.todo = seed.todo
        /\ seed'.module = seed.module /\ seed'.fs = seed.fs /\ seed'.feature = f
        /\ as \union seed'.as = d.actions[f]
    <3> DEFINE next == [seed EXCEPT !.as = seed.as \ {a}]
               as == actions[f] \union {a}
    <3>1. seed.pc = "actions" /\ seed' = next /\ actions' = [actions EXCEPT ![f] = as] /\ a \in seed.as
      BY <2>2 DEF SeedAction
    <3>2. /\ next \in Seed /\ next.pc = "actions" /\ next.def = d /\ next.todo = seed.todo
          /\ next.module = seed.module /\ next.fs = seed.fs /\ next.feature = f
          /\ next.as = seed.as \ {a}
      BY <1>2, <3>1, SeedActed
    <3>3. actions[f] \union seed.as = d.actions[f] /\ actions[f] \subseteq CatActions
      BY <1>1, <1>3, <3>1 DEF Loops, CatalogueTypeOK
    <3>4. as \in SUBSET CatActions /\ as \union (seed.as \ {a}) = d.actions[f]
      BY <3>1, <3>3
    <3> HIDE DEF next, as
    <3> QED BY <3>1, <3>2, <3>4
  <2> QED BY <2>1, <2>2
<1>6. /\ actions' \in [CatFeatures -> SUBSET CatActions] /\ actions'[f] = as
      /\ \A g \in CatFeatures : g # f => actions'[g] = actions[g]
  BY <1>1, <1>3, <1>5 DEF CatalogueTypeOK
<1> HIDE DEF d, f
<1>7. CatalogueTypeOK'
  BY <1>1, <1>2, <1>5, <1>6 DEF CatalogueTypeOK
<1>8. ActionsOfFeatures'
  <2>1. home[f] # None
    BY <1>3, <1>4, CatalogueAssumption
  <2> QED BY <1>1, <1>2, <1>6, <2>1 DEF ActionsOfFeatures
<1>9. ASSUME NEW n, n # seed.module, Brought(n) PROVE Brought(n)'
  <2> SUFFICES ASSUME NEW g \in CatFeatures, d.home[g] = n PROVE Made(g)'
    BY <1>2, <1>4, <1>5, <1>6, <1>9 DEF Brought, d
  <2>1. Made(g)
    BY <1>9 DEF Brought, d
  <2>2. g # f
    BY <1>3, <1>4, <1>9
  <2> QED BY <1>2, <1>5, <1>6, <2>1, <2>2 DEF Made, d
<1>10. ASSUME NEW g \in CatFeatures, g # f, Made(g) PROVE Made(g)'
  BY <1>2, <1>5, <1>6, <1>10 DEF Made, d
<1>11. Loops'
  <2>1. seed.module \in modules /\ (\A n \in d.modules \ seed.todo : n # seed.module => Brought(n)')
        /\ \A g \in seed.fs : d.home[g] = seed.module
    BY <1>1, <1>2, <1>9 DEF Loops, d
  <2>2. \A g \in CatFeatures \ seed.fs : d.home[g] = seed.module => Made(g)' \/ g = f
    BY <1>1, <1>2, <1>10 DEF Loops, d, f
  <2> QED BY <1>2, <1>4, <1>5, <1>6, <2>1, <2>2 DEF Loops, Looping
<1>12. Bounds' /\ Current' /\ Cleared' /\ Undefined'
  BY <1>1, <1>2, <1>5 DEF Bounds, Current, Cleared, Undefined, Looping, d
<1>13. Unsynced' /\ Rooted' /\ SyncedIsDefinition'
  BY <1>1, <1>2 DEF Unsynced, Rooted, SyncedIsDefinition, Looping
<1> QED BY <1>7, <1>8, <1>11, <1>12, <1>13 DEF CatalogueInv

LEMMA SeedNextKeeps == ASSUME CatalogueInv, SeedNext PROVE CatalogueInv'
<1> DEFINE d == seed.def
<1>1. /\ CatalogueTypeOK /\ ActionsOfFeatures /\ Unsynced /\ Rooted /\ Cleared /\ Undefined
      /\ Loops /\ Bounds /\ Current
  BY DEF CatalogueInv
<1>2. seed \in Seed /\ UNCHANGED <<root, modules, home, actions, planMods, planFeats, offer, release,
                                   releases, edits, synced>>
  BY <1>1 DEF SeedNext, tables, grants, outside, CatalogueTypeOK
<1>3. CASE seed.pc = "actions"
  <2> DEFINE next == [pc |-> "features", def |-> d, todo |-> seed.todo, module |-> seed.module,
                      fs |-> seed.fs]
  <2>1. seed' = next /\ seed.as = {}
    BY <1>3 DEF SeedNext
  <2>2. /\ d \in Definition /\ seed.todo \subseteq CatModules /\ seed.module \in CatModules
        /\ seed.fs \subseteq CatFeatures /\ seed.feature \in CatFeatures
    BY <1>2, <1>3, SeedShape DEF Looping
  <2>3. /\ next \in Seed /\ next.pc = "features" /\ next.def = d /\ next.todo = seed.todo
        /\ next.module = seed.module /\ next.fs = seed.fs
    BY <2>2 DEF Seed
  <2> HIDE DEF next
  <2>4. CatalogueTypeOK'
    BY <1>1, <1>2, <2>1, <2>3 DEF CatalogueTypeOK
  <2>5. Made(seed.feature)
    BY <1>1, <1>3, <2>1 DEF Loops, Made
  <2>6. \A g : (Made(g)' <=> Made(g)) /\ (Brought(g)' <=> Brought(g))
    BY <1>2, <2>1, <2>3 DEF Made, Brought
  <2>7. Loops'
    BY <1>1, <1>2, <1>3, <2>1, <2>3, <2>5, <2>6 DEF Loops, Looping
  <2> QED BY <1>1, <1>2, <1>3, <2>1, <2>3, <2>4, <2>7 DEF CatalogueInv, Unsynced, Rooted,
             ActionsOfFeatures, Cleared, Undefined, Bounds, Current, SyncedIsDefinition, Looping
<1>4. CASE seed.pc # "actions"
  <2> DEFINE next == [pc |-> "modules", def |-> d, todo |-> seed.todo]
  <2>1. seed' = next /\ seed.pc = "features" /\ seed.fs = {}
    BY <1>4 DEF SeedNext
  <2>2. d \in Definition /\ seed.todo \subseteq CatModules
    BY <1>2, <2>1, SeedShape DEF Looping
  <2>3. next \in Seed /\ next.pc = "modules" /\ next.def = d /\ next.todo = seed.todo
    BY <2>2 DEF Seed
  <2> HIDE DEF next
  <2>4. CatalogueTypeOK'
    BY <1>1, <1>2, <2>1, <2>3 DEF CatalogueTypeOK
  <2>5. Brought(seed.module)
    BY <1>1, <2>1 DEF Loops, Brought, Looping
  <2>6. \A g : Brought(g)' <=> Brought(g)
    BY <1>2, <2>1, <2>3 DEF Made, Brought
  <2>7. Loops'
    BY <1>1, <2>1, <2>3, <2>5, <2>6 DEF Loops, Looping
  <2> QED BY <1>1, <1>2, <2>1, <2>3, <2>4, <2>7 DEF CatalogueInv, Unsynced, Rooted,
             ActionsOfFeatures, Cleared, Undefined, Bounds, Current, SyncedIsDefinition, Looping
<1> QED BY <1>3, <1>4

LEMMA SeedPlansKeeps ==
    ASSUME CatalogueInv, SeedPlans \/ \E s \in Slugs : SeedPlan(s)
    PROVE  CatalogueInv'
<1> DEFINE d == seed.def
<1>1. /\ CatalogueTypeOK /\ ActionsOfFeatures /\ Unsynced /\ Rooted /\ Cleared /\ Undefined
      /\ Loops /\ Bounds
  BY DEF CatalogueInv
<1>2. seed \in Seed /\ UNCHANGED <<root, modules, home, actions, planMods, planFeats, release,
                                   releases, edits, synced>>
  BY <1>1 DEF SeedPlans, SeedPlan, tables, grants, outside, CatalogueTypeOK
<1>3. /\ seed.pc \in {"modules", "plans"} /\ (seed.pc = "modules" => seed.todo = {})
      /\ seed' \in Seed /\ seed'.pc = "plans" /\ seed'.def = d
      /\ offer' \in [Slugs -> [active : BOOLEAN, limits : {"seeded", "edited"}] \union {None}]
  <2>1. CASE SeedPlans
    <3> DEFINE next == [pc |-> "plans", def |-> d, slugs |-> Slugs]
    <3>1. d \in Definition /\ seed.pc = "modules" /\ seed.todo = {} /\ seed' = next /\ offer' = offer
      BY <1>2, <2>1, SeedShape DEF SeedPlans
    <3>2. next \in Seed /\ next.pc = "plans" /\ next.def = d
      BY <3>1 DEF Seed
    <3> HIDE DEF next
    <3> QED BY <1>1, <3>1, <3>2 DEF CatalogueTypeOK
  <2>2. ASSUME NEW s \in Slugs, SeedPlan(s)
        PROVE  /\ seed.pc \in {"modules", "plans"} /\ (seed.pc = "modules" => seed.todo = {})
               /\ seed' \in Seed /\ seed'.pc = "plans" /\ seed'.def = d
               /\ offer' \in [Slugs -> [active : BOOLEAN, limits : {"seeded", "edited"}] \union {None}]
    <3> DEFINE next == [seed EXCEPT !.slugs = seed.slugs \ {s}]
    <3>1. seed.pc = "plans" /\ seed' = next
          /\ offer' = [offer EXCEPT ![s] = [active |-> TRUE, limits |-> "seeded"]]
      BY <2>2 DEF SeedPlan
    <3>2. next \in Seed /\ next.pc = "plans" /\ next.def = d
      BY <1>2, <3>1, SeedPlanned
    <3> HIDE DEF next
    <3> QED BY <1>1, <3>1, <3>2 DEF CatalogueTypeOK
  <2> QED BY <2>1, <2>2
<1>4. CatalogueTypeOK'
  BY <1>1, <1>2, <1>3 DEF CatalogueTypeOK
<1>5. \A m : Brought(m)' <=> Brought(m)
  BY <1>2, <1>3 DEF Brought, Made
<1>6. Loops'
  BY <1>1, <1>3, <1>5 DEF Loops, Looping
<1> QED BY <1>1, <1>2, <1>3, <1>4, <1>6 DEF CatalogueInv, Unsynced, Rooted, ActionsOfFeatures,
           Cleared, Undefined, Bounds, Current, SyncedIsDefinition, Looping

\* The catalogue of a run that has passed every loop is its definition.
LEMMA SeedDoneKeeps == ASSUME CatalogueInv, SeedDone PROVE CatalogueInv'
<1> DEFINE d == seed.def
<1>1. /\ CatalogueTypeOK /\ ActionsOfFeatures /\ Rooted /\ Cleared /\ Undefined /\ Loops
  BY DEF CatalogueInv
<1>2. /\ seed \in Seed /\ seed.pc = "plans" /\ seed' = Resting /\ synced' = d
      /\ UNCHANGED <<root, modules, home, actions, planMods, planFeats, offer, release, releases, edits>>
  BY <1>1 DEF SeedDone, tables, grants, outside, CatalogueTypeOK
<1>3. d \in Definition
  BY <1>2, SeedShape
<1>4. Resting \in Seed /\ Resting.pc = "rest"
  BY DEF Seed, Resting
<1>5. CatalogueTypeOK'
  BY <1>1, <1>2, <1>3, <1>4 DEF CatalogueTypeOK
<1>6. root /\ modules = d.modules
  BY <1>1, <1>2 DEF Rooted, Cleared, Loops, Brought
<1>7. \A f \in CatFeatures : home[f] = d.home[f] /\ actions[f] = d.actions[f]
  <2> SUFFICES ASSUME NEW f \in CatFeatures PROVE home[f] = d.home[f] /\ actions[f] = d.actions[f]
    OBVIOUS
  <2>1. CASE d.home[f] = None
    <3>1. home[f] = None /\ actions[f] = {}
      BY <1>1, <1>2, <2>1 DEF Undefined, ActionsOfFeatures
    <3>2. d.actions[f] = {}
      BY <1>3, <2>1, DefinitionShape
    <3> QED BY <2>1, <3>1, <3>2
  <2>2. CASE d.home[f] # None
    <3>1. d.home[f] \in d.modules
      BY <1>3, <2>2, DefinitionShape
    <3>2. Made(f)
      BY <1>1, <1>2, <3>1 DEF Loops, Brought
    <3> QED BY <3>2 DEF Made
  <2> QED BY <2>1, <2>2
<1>8. home = d.home /\ actions = d.actions
  <2>1. /\ home \in [CatFeatures -> CatModules \union {None}]
        /\ actions \in [CatFeatures -> SUBSET CatActions]
        /\ d.home \in [CatFeatures -> CatModules \union {None}]
        /\ d.actions \in [CatFeatures -> SUBSET CatActions]
    BY <1>1, <1>3, DefinitionShape DEF CatalogueTypeOK
  <2> HIDE DEF d
  <2> QED BY <1>7, <2>1
<1>9. SyncedIsDefinition'
  BY <1>2, <1>6, <1>8 DEF SyncedIsDefinition
<1> QED BY <1>1, <1>2, <1>4, <1>5, <1>9 DEF CatalogueInv, Unsynced, Rooted, ActionsOfFeatures,
           Cleared, Undefined, Loops, Bounds, Current, Looping

LEMMA CatalogueStep == CatalogueInv /\ [CatalogueNext]_catalogueVars => CatalogueInv'
<1> SUFFICES ASSUME CatalogueInv, [CatalogueNext]_catalogueVars PROVE CatalogueInv'
  OBVIOUS
<1>1. CASE UNCHANGED catalogueVars
  <2>1. UNCHANGED <<release, root, modules, home, actions, offer, planMods, planFeats, seed,
                    releases, edits, synced>>
    BY <1>1 DEF catalogueVars
  <2>2. CatalogueTypeOK'
    BY <2>1 DEF CatalogueInv, CatalogueTypeOK
  <2> QED BY <2>1, <2>2, OutsideKeeps DEF tables
<1>2. CASE CatalogueNext
  BY <1>2, ReleaseKeeps, SavePlanKeeps, SeedBeginsOrStops, SeedRootKeeps, SeedDropModulesKeeps,
     SeedDropFeaturesKeeps, SeedModuleKeeps, SeedFeatureKeeps, SeedActionsKeep, SeedNextKeeps,
     SeedPlansKeeps, SeedDoneKeeps DEF CatalogueNext
<1> QED BY <1>1, <1>2

\* Every reachable state of the catalogue is well typed; in particular no plan
\* refers to a module or a feature that is gone, between any two statements.
THEOREM CatalogueTypeCorrect == CatalogueSpec => []CatalogueTypeOK
<1>1. CatalogueInv => CatalogueTypeOK
  BY DEF CatalogueInv
<1> QED BY <1>1, CatalogueStart, CatalogueStep, PTL DEF CatalogueSpec

\* A run of the seed that finishes leaves its definition, whatever crashed runs
\* and releases came before, for any definition.
THEOREM SyncedIsDefinitionHolds == CatalogueSpec => []SyncedIsDefinition
<1>1. CatalogueInv => SyncedIsDefinition
  BY DEF CatalogueInv
<1> QED BY <1>1, CatalogueStart, CatalogueStep, PTL DEF CatalogueSpec

\* Between two states only the two deletions of a run take something from a plan.
LEMMA GrantsKept ==
    ASSUME CatalogueInv, CatalogueNext, seed' # seed, NEW s \in Slugs
    PROVE  /\ \A m \in planMods[s] \ planMods'[s] : m \notin seed.def.modules
           /\ \A f \in planFeats[s] \ planFeats'[s] :
                 seed.def.home[f] = None \/ home[f] \notin seed.def.modules
<1> CatalogueTypeOK /\ ActionsOfFeatures
  BY DEF CatalogueInv
<1>1. CASE SeedDropModules
  <2> DEFINE ms == modules \ seed.def.modules
             fs == {f \in CatFeatures : home[f] \in ms}
  <2>1. Drop(ms, fs)
    BY <1>1 DEF SeedDropModules
  <2>2. \A f \in fs : home[f] \notin seed.def.modules
    OBVIOUS
  <2>3. \A m \in ms : m \notin seed.def.modules
    OBVIOUS
  <2> HIDE DEF ms, fs
  <2>4. planMods[s] \ planMods'[s] \subseteq ms /\ planFeats[s] \ planFeats'[s] \subseteq fs
    BY <2>1, Dropped
  <2> QED BY <2>2, <2>3, <2>4
<1>2. CASE SeedDropFeatures
  <2> DEFINE fs == {f \in CatFeatures : seed.def.home[f] = None}
  <2>1. Drop({}, fs)
    BY <1>2 DEF SeedDropFeatures
  <2>2. \A f \in fs : seed.def.home[f] = None
    OBVIOUS
  <2> HIDE DEF fs
  <2>3. planMods[s] \ planMods'[s] \subseteq {} /\ planFeats[s] \ planFeats'[s] \subseteq fs
    BY <2>1, Dropped
  <2> QED BY <2>2, <2>3
<1>3. CASE UNCHANGED grants
  BY <1>3 DEF grants
<1>4. SeedDropModules \/ SeedDropFeatures \/ UNCHANGED grants
  BY DEF CatalogueNext, Release, SeedStart, SeedCrash, SeedRoot, SeedStrays, SeedNext, SeedPlans,
     SeedDone, SeedModule, SeedFeature, SeedAction, SeedPlan, SavePlan
<1> QED BY <1>1, <1>2, <1>3, <1>4

\* No statement of a run takes from a plan what its definition keeps.
THEOREM SeedKeepsGrantsHolds == CatalogueSpec => SeedKeepsGrants
<1>1. CatalogueInv /\ [CatalogueNext]_catalogueVars =>
        [seed' # seed =>
          \A s \in Slugs :
            /\ \A m \in planMods[s] \ planMods'[s] : m \notin seed.def.modules
            /\ \A f \in planFeats[s] \ planFeats'[s] :
                  seed.def.home[f] = None \/ home[f] \notin seed.def.modules]_catalogueVars
  BY GrantsKept
<1> QED BY <1>1, CatalogueStart, CatalogueStep, PTL DEF CatalogueSpec, SeedKeepsGrants

-----------------------------------------------------------------------------
(* The three together.  Each behaviour of Commerce is one of each          *)
(* component, of which two stand still.                                    *)

LEMMA EachMoves ==
    [CommerceNext]_commerceVars =>
        /\ [AccountsNext]_accountsVars /\ [BillingNext]_billingVars
        /\ [CatalogueNext]_catalogueVars
BY DEF CommerceNext, commerceVars

\* What is proved of a component holds in the composition.
THEOREM CommerceImplements == CommerceSpec => AccountsSpec /\ BillingSpec /\ CatalogueSpec
<1>1. CommerceInit => AccountsInit /\ BillingInit /\ CatalogueInit
  BY DEF CommerceInit
<1> QED BY <1>1, EachMoves, PTL DEF CommerceSpec, AccountsSpec, BillingSpec, CatalogueSpec

\* Every reachable state of accounts, sales and the catalogue is well typed.
THEOREM CommerceTypeCorrect == CommerceSpec => []CommerceTypeOK
<1>1. CommerceTypeOK <=> AccountsTypeOK /\ BillingTypeOK /\ CatalogueTypeOK
  BY DEF CommerceTypeOK
<1> QED BY <1>1, CommerceImplements, AccountsTypeCorrect, BillingTypeCorrect,
           CatalogueTypeCorrect, PTL

=============================================================================
