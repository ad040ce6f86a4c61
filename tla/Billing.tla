------------------------------ MODULE Billing -------------------------------
(***************************************************************************)
(* Plans, subscriptions and payments.  A subscription is a row, and a copy *)
(* of it in Redis that is written after it; a payment is completed before  *)
(* the subscription it pays for is made; a plan is deleted after its       *)
(* subscribers were counted.  Admin calls come from a super admin, whom    *)
(* PlanAccessGuard lets through.                                           *)
(*                                                                         *)
(* Of a plan's fields only those are kept that a step here looks at.       *)
(***************************************************************************)
EXTENDS Naturals, FiniteSets, Handlers

CONSTANTS
    Users, Plans, Orders,
    PlanSlugs,     \* slugs an administrator can give, made from a plan's name
    KeySecretSet,  \* the deployment sets payment.razorpayKeySecret
    MaxCalls       \* bound on the calls accepted

ASSUME BillingAssumption ==
    /\ KeySecretSet \in BOOLEAN /\ MaxCalls \in Nat
    /\ None \notin Users \union Plans \union Orders

VARIABLES
    plan,       \* subscription_plans: plan id -> row
    row,        \* subscriptions: user -> row; userId is unique
    copy,       \* jl:subscription:{userId}
    payment,    \* payments: order -> row
    notified,   \* orders with a 'Subscription Activated' notification
    billReq,    \* calls in flight
    calls,      \* calls accepted so far
    \* History variables.
    withdrawn,  \* plans that have been inactive or deleted
    outdated,   \* users whose plan got another slug since they last subscribed
    served,     \* orders whose subscription has been made
    disturbed   \* users with overlapping calls, users and orders of a failed one

billingVars == <<plan, row, copy, payment, notified, billReq, calls,
                 withdrawn, outdated, served, disturbed>>

PlanRow == [slug : PlanSlugs, active : BOOLEAN, trial : BOOLEAN]
Row == [plan : Plans, status : {"trialing", "active", "canceled"}]
\* The copy names the plan by its slug.
Copy == [slug : PlanSlugs, status : {"trialing", "active"}]
Payment == [user : Users, plan : Plans, status : {"pending", "completed"}]

\* No row is the mark of an absent one.
ASSUME RowsAssumption == None \notin PlanRow \union Row \union Payment

Call ==
    {Idle}
    \union [pc : {"upsert"}, user : Users, plan : Plans, trial : BOOLEAN, order : Orders \union {None}]
    \union [pc : {"cache"}, user : Users, copy : Copy, order : Orders \union {None}]
    \union [pc : {"cancel", "uncache"}, user : Users]
    \union [pc : {"count"}, plan : Plans]
    \union [pc : {"remove"}, plan : Plans, used : BOOLEAN]
    \union [pc : {"order"}, user : Users, plan : Plans, order : Orders]
    \union [pc : {"complete", "activate", "notify"}, user : Users, order : Orders]

\* The state is well typed.
BillingTypeOK ==
    /\ plan \in [Plans -> PlanRow \union {None}]
    /\ row \in [Users -> Row \union {None}]
    /\ copy \in [Users -> Copy \union {None}]
    /\ payment \in [Orders -> Payment \union {None}]
    /\ notified \subseteq Orders
    /\ billReq \in [Requests -> Call]
    /\ calls \in 0..MaxCalls
    /\ withdrawn \subseteq Plans /\ outdated \subseteq Users /\ served \subseteq Orders
    /\ disturbed \subseteq Users \union Orders

\* Slugs are unique in their table.
Distinct(table) == \A p, q \in Plans : p # q => table[p].slug # table[q].slug

\* A seeded database: every plan is on offer and nobody has subscribed.
BillingInit ==
    /\ plan \in {table \in [Plans -> {x \in PlanRow : x.active}] : Distinct(table)}
    /\ row = [u \in Users |-> None]
    /\ copy = [u \in Users |-> None]
    /\ payment = [o \in Orders |-> None]
    /\ notified = {}
    /\ billReq = AllIdle
    /\ calls = 0
    /\ withdrawn = {} /\ outdated = {} /\ served = {} /\ disturbed = {}

-----------------------------------------------------------------------------
(* Slots.                                                                  *)

UserOf(c) == IF "user" \in DOMAIN c THEN c.user ELSE None

\* A call is accepted in slot r; the users it shares with others are noted.
Accept(r, call) ==
    /\ billReq[r] = Idle /\ calls < MaxCalls
    /\ calls' = calls + 1
    /\ billReq' = Put(billReq, r, call)
    /\ disturbed' = disturbed \union
         {u \in {UserOf(call)} \ {None} : \E q \in Requests : UserOf(billReq[q]) = u}

Go(r, next) ==
    /\ billReq' = Put(billReq, r, next)
    /\ UNCHANGED <<calls, disturbed>>

planVars == <<plan, withdrawn, outdated>>
payVars == <<payment, notified, served>>

\* The database, Redis or the payment provider refuses the next statement of
\* r, or the process stops.  Two first upserts for one user are such a case:
\* the second meets the unique userId.
BillingFail(r) ==
    LET c == billReq[r] IN
    /\ c # Idle
    /\ billReq' = Put(billReq, r, Idle)
    /\ disturbed' = disturbed \union ({UserOf(c)} \ {None})
         \union (IF "order" \in DOMAIN c THEN {c.order} \ {None} ELSE {})
    /\ UNCHANGED <<row, copy, calls, planVars, payVars>>

-----------------------------------------------------------------------------
(* Subscribing.                                                            *)

\* SubscriptionPlansService.getPlanById.
Exists(p) == plan[p] # None

OnSale(p) == Exists(p) /\ plan[p].active

\* The call has read an active plan.
Chosen(u, p, o) ==
    [pc |-> "upsert", user |-> u, plan |-> p, trial |-> plan[p].trial, order |-> o]

\* select-plan.  POST subscribe hands over a string for the user and is
\* refused by the upsert, which is given no userId.
SubscribeRead(r, u, p) ==
    /\ OnSale(p)
    /\ Accept(r, Chosen(u, p, None))
    /\ UNCHANGED <<row, copy, planVars, payVars>>

\* Mutant: without a trial the subscription waits for its payment.
StatusOfUnpaid(trial) == IF trial THEN "trialing" ELSE "unpaid"

StatusOf(trial) == IF trial THEN "trialing" ELSE "active"

\* cacheSubscriptionState: the copy is made from the row and the plan as the
\* upsert read them back, and written in the next step.
CopyOf(p, status) == [slug |-> plan[p].slug, status |-> status]

\* UserSubscriptionsRepository.upsert; the foreign key needs the plan.
Upsert(r) ==
    LET c == billReq[r] IN
    /\ c.pc = "upsert"
    /\ IF Exists(c.plan)
       THEN /\ row' = [row EXCEPT ![c.user] = [plan |-> c.plan, status |-> StatusOf(c.trial)]]
            /\ outdated' = outdated \ {c.user}
            /\ served' = served \union ({c.order} \ {None})
            /\ Go(r, [pc |-> "cache", user |-> c.user, order |-> c.order,
                      copy |-> CopyOf(c.plan, StatusOf(c.trial))])
       ELSE Go(r, Idle) /\ UNCHANGED <<row, outdated, served>>
    /\ UNCHANGED <<copy, payment, notified, plan, withdrawn>>

CacheWrite(r) ==
    LET c == billReq[r] IN
    /\ c.pc = "cache"
    /\ copy' = [copy EXCEPT ![c.user] = c.copy]
    /\ Go(r, IF c.order = None THEN Idle
             ELSE [pc |-> "notify", user |-> c.user, order |-> c.order])
    /\ UNCHANGED <<row, planVars, payVars>>

\* The copy lives for a day.
CopyExpires(u) ==
    /\ copy[u] # None
    /\ copy' = [copy EXCEPT ![u] = None]
    /\ UNCHANGED <<row, billReq, calls, disturbed, planVars, payVars>>

\* cancelSubscription: a user without a row is refused.
CancelRead(r, u) ==
    /\ row[u] # None
    /\ Accept(r, [pc |-> "cancel", user |-> u])
    /\ UNCHANGED <<row, copy, planVars, payVars>>

\* updateStatus by the id read before, whatever plan the row has by now.
CancelWrite(r) ==
    LET u == billReq[r].user IN
    /\ billReq[r].pc = "cancel"
    /\ row' = [row EXCEPT ![u].status = "canceled"]
    /\ Go(r, [pc |-> "uncache", user |-> u])
    /\ UNCHANGED <<copy, planVars, payVars>>

\* Mutant: the copy is left to expire.
CancelDoneKeep(r) ==
    /\ billReq[r].pc = "uncache"
    /\ Go(r, Idle)
    /\ UNCHANGED <<row, copy, planVars, payVars>>

CancelDone(r) ==
    /\ billReq[r].pc = "uncache"
    /\ copy' = [copy EXCEPT ![billReq[r].user] = None]
    /\ Go(r, Idle)
    /\ UNCHANGED <<row, planVars, payVars>>

-----------------------------------------------------------------------------
(* Administration of plans.                                                *)

PlanStep == UNCHANGED <<row, copy, payVars>>

\* No other plan has the slug.
Free(p, slug) == \A q \in Plans \ {p} : Exists(q) => plan[q].slug # slug

\* SubscriptionPlansRepository.create: a new plan is on sale, under a slug made
\* from its name; a slug that is taken is refused by the database.
CreatePlan(p) ==
    /\ plan[p] = None /\ calls < MaxCalls
    /\ \E new \in {x \in PlanRow : x.active /\ Free(p, x.slug)} : plan' = [plan EXCEPT ![p] = new]
    /\ calls' = calls + 1
    /\ UNCHANGED <<withdrawn, outdated, billReq, disturbed>> /\ PlanStep

SubscribersOf(p) == {u \in Users : row[u] # None /\ row[u].plan = p}

\* SubscriptionPlansRepository.update: one transaction on an existing plan.  A
\* new name brings a new slug, and no copy in Redis is refreshed.
UpdatePlan(p) ==
    /\ Exists(p) /\ calls < MaxCalls
    /\ \E new \in {x \in PlanRow : Free(p, x.slug)} : plan' = [plan EXCEPT ![p] = new]
    /\ withdrawn' = withdrawn \union {q \in {p} : ~plan'[q].active}
    /\ outdated' = outdated \union {u \in SubscribersOf(p) : plan'[p].slug # plan[p].slug}
    /\ calls' = calls + 1
    /\ UNCHANGED <<billReq, disturbed>> /\ PlanStep

\* deletePlan has found the plan.
DeleteRead(r, p) ==
    /\ Exists(p)
    /\ Accept(r, [pc |-> "count", plan |-> p])
    /\ UNCHANGED planVars /\ PlanStep

\* The subscribers that have not canceled are counted.
DeleteCount(r) ==
    /\ billReq[r].pc = "count"
    /\ LET p == billReq[r].plan IN
       Go(r, [pc |-> "remove", plan |-> p,
              used |-> \E u \in SubscribersOf(p) : row[u].status # "canceled"])
    /\ UNCHANGED planVars /\ PlanStep

\* Mutant: subscriptions do not hold their plan in the database.
DeleteApplyLoose(r) ==
    LET p == billReq[r].plan IN
    /\ billReq[r].pc = "remove"
    /\ plan' = [plan EXCEPT ![p] = IF billReq[r].used /\ Exists(p) THEN [@ EXCEPT !.active = FALSE] ELSE None]
    /\ withdrawn' = withdrawn \union {p} /\ UNCHANGED outdated
    /\ Go(r, Idle) /\ PlanStep

\* A plan with subscribers is deactivated and any other deleted, which the
\* foreign key of subscriptions refuses while a row, canceled or not, is left.
DeleteApply(r) ==
    LET p == billReq[r].plan IN
    /\ billReq[r].pc = "remove"
    /\ \/ /\ billReq[r].used /\ Exists(p)
          /\ plan' = [plan EXCEPT ![p].active = FALSE]
          /\ withdrawn' = withdrawn \union {p}
       \/ /\ ~billReq[r].used /\ SubscribersOf(p) = {} /\ Exists(p)
          /\ plan' = [plan EXCEPT ![p] = None]
          /\ withdrawn' = withdrawn \union {p}
       \/ /\ ~Exists(p) \/ (~billReq[r].used /\ SubscribersOf(p) # {})
          /\ UNCHANGED <<plan, withdrawn>>
    /\ UNCHANGED outdated /\ Go(r, Idle) /\ PlanStep

-----------------------------------------------------------------------------
(* Payments.                                                               *)

\* createOrder reads the plan, on sale or not, and opens an order with the
\* payment provider, which gives it an identifier of its own.
OrderRead(r, u, p, o) ==
    /\ Exists(p)
    /\ payment[o] = None
    /\ \A q \in Requests : billReq[q].pc = "order" => billReq[q].order # o
    /\ Accept(r, [pc |-> "order", user |-> u, plan |-> p, order |-> o])
    /\ UNCHANGED <<row, copy, planVars, payVars>>

OrderWrite(r) ==
    LET c == billReq[r] IN
    /\ c.pc = "order"
    /\ payment' = [payment EXCEPT ![c.order] = [user |-> c.user, plan |-> c.plan, status |-> "pending"]]
    /\ Go(r, Idle)
    /\ UNCHANGED <<row, copy, notified, served, planVars>>

\* verifyAndActivate: the signature is checked with the secret under a name
\* the configuration does not register, and the order's row is found.
VerifyRead(r, u, o) ==
    /\ KeySecretSet
    /\ payment[o] # None
    /\ Accept(r, [pc |-> "complete", user |-> u, order |-> o])
    /\ UNCHANGED <<row, copy, planVars, payVars>>

VerifyComplete(r) ==
    /\ billReq[r].pc = "complete"
    /\ payment' = [payment EXCEPT ![billReq[r].order].status = "completed"]
    /\ Go(r, [billReq[r] EXCEPT !.pc = "activate"])
    /\ UNCHANGED <<row, copy, notified, served, planVars>>

\* Mutant: a caller who has a subscription already is left with it.
VerifyActivateOnce(r) ==
    LET c == billReq[r]  p == payment[c.order].plan IN
    /\ c.pc = "activate"
    /\ Go(r, IF OnSale(p) /\ row[c.user] = None THEN Chosen(c.user, p, c.order) ELSE Idle)
    /\ UNCHANGED <<row, copy, planVars, payVars>>

\* subscribe for the caller, who need not have opened the order; a plan
\* withdrawn since then ends the call.
VerifyActivate(r) ==
    LET c == billReq[r]  p == payment[c.order].plan IN
    /\ c.pc = "activate"
    /\ Go(r, IF OnSale(p) THEN Chosen(c.user, p, c.order) ELSE Idle)
    /\ UNCHANGED <<row, copy, planVars, payVars>>

VerifyNotify(r) ==
    /\ billReq[r].pc = "notify"
    /\ notified' = notified \union {billReq[r].order}
    /\ Go(r, Idle)
    /\ UNCHANGED <<row, copy, payment, served, planVars>>

-----------------------------------------------------------------------------
(* The routes of the three controllers, and the work they start.           *)

SubscriptionRoutes(r) ==
    \E u \in Users : CancelRead(r, u) \/ \E p \in Plans : SubscribeRead(r, u, p)

PlanRoutes(r) == \E p \in Plans : CreatePlan(p) \/ UpdatePlan(p) \/ DeleteRead(r, p)

PaymentRoutes(r) ==
    \E u \in Users, o \in Orders :
        VerifyRead(r, u, o) \/ \E p \in Plans : OrderRead(r, u, p, o)

BillingStep(r) ==
    \/ Upsert(r) \/ CacheWrite(r)
    \/ CancelWrite(r) \/ CancelDone(r)
    \/ DeleteCount(r) \/ DeleteApply(r)
    \/ OrderWrite(r)
    \/ VerifyComplete(r) \/ VerifyActivate(r) \/ VerifyNotify(r)
    \/ BillingFail(r)

BillingNext ==
    \/ \E r \in Requests :
        SubscriptionRoutes(r) \/ PlanRoutes(r) \/ PaymentRoutes(r) \/ BillingStep(r)
    \/ \E u \in Users : CopyExpires(u)

BillingSpec == BillingInit /\ [][BillingNext]_billingVars

-----------------------------------------------------------------------------
(* Properties.                                                             *)

Working(u) == \E r \in Requests : UserOf(billReq[r]) = u

\* A user whose calls never overlapped nor failed half way finds in Redis
\* either nothing or the status of his row and the slug of his plan; only the
\* slug may be an older one, when the plan was renamed since he subscribed
\* (subscribe, cancel, a plan's update and the copy's life of a day).
CopyMatchesRow ==
    \A u \in Users \ disturbed :
        copy[u] # None /\ ~Working(u) =>
            /\ row[u] # None
            /\ copy[u].status = row[u].status
            /\ u \in outdated \/ copy[u].slug = plan[row[u].plan].slug

\* Nobody's plan is deleted under him, in whatever order a deletion's count
\* and a subscription's read and write fall (deletePlan, subscribe).
SubscribersKeepTheirPlan ==
    \A u \in Users : row[u] # None => Exists(row[u].plan)

\* A completed payment has bought its subscription, or its call is still at
\* work or was stopped, or the plan was withdrawn at some time
\* (verifyAndActivate completes first).
PaidIsServed ==
    \A o \in Orders \ (served \union disturbed) :
        payment[o] # None /\ payment[o].status = "completed" =>
            \/ payment[o].plan \in withdrawn
            \/ \E r \in Requests : billReq[r] # Idle /\ "order" \in DOMAIN billReq[r]
                                   /\ billReq[r].order = o

=============================================================================
