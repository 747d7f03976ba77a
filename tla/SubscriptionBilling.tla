------------------------- MODULE SubscriptionBilling -------------------------
(***************************************************************************)
(* The subscription of one brand and its preapprovals at Mercado Pago:     *)
(* checkout, webhooks, the owner's reads and cancellations, closing the    *)
(* brand, and bulk changes of the price.                                   *)
(*                                                                         *)
(* A handler that calls the provider is a request: it keeps what the       *)
(* provider answered and writes the row in a later step, so that answers   *)
(* are applied out of order and by handlers that run side by side.  A      *)
(* request may stop after any of its steps.  The price worker instead      *)
(* holds the brand, subscription and price rows locked during its call.    *)
(*                                                                         *)
(* Left out: the branch operations of BranchProration (no brand here has   *)
(* one open), the referral discount of ReferralBilling, PAUSED, which the  *)
(* code treats as AUTHORIZED, and repeated notifications, which change     *)
(* nothing (eventos_mercado_pago).  A brand has one branch, so a monthly   *)
(* amount is a unit price.                                                 *)
(*                                                                         *)
(* An operator named after another with a suffix is that operator with one *)
(* mistake in it and is not part of Spec.                                  *)
(***************************************************************************)
EXTENDS Integers, Sequences, FiniteSets

CONSTANTS
    Requests,    \* handlers that run at the same time
    MaxKeys,     \* bound: checkouts and bulk price changes together
    Prices,      \* unit prices an administrator may set
    FirstPrice   \* the price the server is configured with

ASSUME PricesArePositive == Prices \subseteq Nat \ {0} /\ FirstPrice \in Prices
ASSUME BoundIsNatural == MaxKeys \in Nat

VARIABLES
    open,      \* the brand is active and not deleted
    sub,       \* suscripciones_marca
    plans,     \* preapprovals at Mercado Pago, oldest first
    requests,  \* handlers in flight
    price,     \* subscription_prices; its version is Len(changes)
    changes,   \* subscription_price_changes with their item for this brand
    worker     \* the ApplyNextSubscriptionPriceChange that runs

vars == <<open, sub, plans, requests, price, changes, worker>>

Live == {"PENDING", "AUTHORIZED"}
Status == Live \cup {"CREATING", "CANCELLED", "NOT_CONFIGURED"}
PlanStatus == Live \cup {"CANCELLED"}          \* providerStatus
Steps == {"idle", "reserved", "post", "rejected", "save", "update", "record"}

Subscription == [status: Status, ref: Nat, id: Nat,
                 called: BOOLEAN, amount: Nat]
Plan == [ref: 1..MaxKeys, status: PlanStatus, amount: Prices]
Request == [step: Steps, ref: Nat, id: Nat, seen: PlanStatus]
Change == [status: {"none", "PENDING", "APPLIED", "SKIPPED", "FAILED"},
           unit: Nat, ref: Nat, id: Nat]

NoRequest == [step |-> "idle", ref |-> 0, id |-> 0, seen |-> "PENDING"]
NoItem == [status |-> "none", unit |-> 0, ref |-> 0, id |-> 0]

\* A change is known by the price_version it made.
Versions == DOMAIN changes

\* The rows have their types; a subscription or an item that names a
\* preapproval names one that exists and carries its reference.
TypeOK ==
    /\ open \in BOOLEAN
    /\ sub \in Subscription
    /\ plans \in Seq(Plan)
    /\ requests \in [Requests -> Request]
    /\ price \in Prices
    /\ changes \in Seq(Change)
    /\ worker \in [step: {"idle", "put", "commit", "fail"}, change: Nat]
    /\ sub.id # 0 => sub.id \in DOMAIN plans /\ plans[sub.id].ref = sub.ref
    /\ sub.status \in Live => sub.id # 0
    /\ \A c \in Versions : changes[c].id # 0 => plans[changes[c].id].ref = changes[c].ref

Init ==
    /\ open = TRUE
    /\ sub = [status |-> "NOT_CONFIGURED", ref |-> 0, id |-> 0,
              called |-> FALSE, amount |-> 0]
    /\ plans = <<>>
    /\ requests = [r \in Requests |-> NoRequest]
    /\ price = FirstPrice
    /\ changes = <<>>
    /\ worker = [step |-> "idle", change |-> 0]

\* No price worker holds the brand's rows; the other writers wait for it.
Unlocked == worker.step \notin {"put", "commit"}

WithinBound == sub.ref + Len(changes) < MaxKeys

Ends(r) == requests' = [requests EXCEPT ![r] = NoRequest]
Goes(r, step, ref) ==
    requests' = [requests EXCEPT ![r] = [NoRequest EXCEPT !.step = step, !.ref = ref]]
\* Request r goes on with the answer of the provider about preapproval p.
Holds(r, step, p, status) ==
    requests' = [requests EXCEPT ![r] =
        [step |-> step, ref |-> plans'[p].ref, id |-> p, seen |-> status]]

-----------------------------------------------------------------------------
(* Checkout *)

\* A reservation in CREATING is handed out again, whatever the key; a
\* subscription that is not cancelled refuses another.  Keys are fresh UUIDs, so
\* that a new reservation has a reference of its own: the next number.
ReserveSubscriptionCheckout(r) ==
    /\ requests[r].step = "idle"
    /\ Unlocked /\ open
    /\ \/ /\ sub.status = "CREATING"
          /\ UNCHANGED sub
       \/ /\ sub.status \in {"NOT_CONFIGURED", "CANCELLED"}
          /\ WithinBound
          /\ sub' = [status |-> "CREATING", ref |-> sub.ref + 1, id |-> 0,
                     called |-> FALSE, amount |-> price]
    /\ Goes(r, "reserved", sub'.ref)
    /\ UNCHANGED <<open, plans, price, changes, worker>>

ClaimableAgain(ref) == sub.ref = ref /\ sub.status = "CREATING"
Claimable(ref) == sub.ref = ref /\ sub.status = "CREATING" /\ ~sub.called

ClaimSubscriptionProviderCall(r) ==
    LET ref == requests[r].ref IN
    /\ requests[r].step = "reserved"
    /\ Unlocked
    /\ IF Claimable(ref)
       THEN sub' = [sub EXCEPT !.called = TRUE] /\ Goes(r, "post", ref)
       ELSE Ends(r) /\ UNCHANGED sub
    /\ UNCHANGED <<open, plans, price, changes, worker>>

\* The one POST of a reservation: answered, made with its answer lost,
\* rejected, or failed before it took effect (Stop).
CreateSubscription(r) ==
    LET ref == requests[r].ref
        p == Len(plans) + 1 IN
    /\ requests[r].step = "post"
    /\ \/ /\ plans' = Append(plans, [ref |-> ref, status |-> "PENDING",
                                     amount |-> sub.amount])
          /\ Holds(r, "save", p, "PENDING") \/ Ends(r)
       \/ /\ Goes(r, "rejected", ref)
          /\ UNCHANGED plans
    /\ UNCHANGED <<open, sub, price, changes, worker>>

SaveSubscriptionCheckout(r) ==
    LET q == requests[r] IN
    /\ q.step = "save"
    /\ Unlocked
    /\ sub' = IF sub.ref = q.ref /\ sub.status = "CREATING" /\ sub.called
              THEN [sub EXCEPT !.id = q.id, !.status = q.seen] ELSE sub
    /\ Ends(r)
    /\ UNCHANGED <<open, plans, price, changes, worker>>

\* Only a confirmed rejection releases a reservation.
RejectSubscriptionCheckout(r) ==
    LET q == requests[r] IN
    /\ q.step = "rejected"
    /\ Unlocked
    /\ sub' = IF sub.ref = q.ref /\ sub.status = "CREATING" /\ sub.id = 0
              THEN [sub EXCEPT !.status = "CANCELLED"] ELSE sub
    /\ Ends(r)
    /\ UNCHANGED <<open, plans, price, changes, worker>>

\* A request is cut off, or its call to the provider fails.
Stop(r) ==
    /\ requests[r].step # "idle"
    /\ Ends(r)
    /\ UNCHANGED <<open, sub, plans, price, changes, worker>>

-----------------------------------------------------------------------------
(* Reads, webhooks and cancellations *)

\* FindSubscription: the only preapproval with a reference.
Found(ref) == {p \in DOMAIN plans : plans[p].ref = ref}

ReadSubscriptionOnceCreated(r) ==
    /\ requests[r].step = "idle"
    /\ open /\ sub.status \in Live
    /\ UNCHANGED <<open, sub, plans, price, changes, worker>>
    /\ Holds(r, "update", sub.id, plans[sub.id].status)

\* The owner reads the subscription: CREATING looks for its preapproval, any
\* other status but CANCELLED refreshes from it.
ReadSubscription(r) ==
    /\ requests[r].step = "idle"
    /\ open
    /\ UNCHANGED plans
    /\ \/ /\ sub.status = "CREATING"
          /\ \E p \in Found(sub.ref) :
                /\ Found(sub.ref) = {p}
                /\ Holds(r, "save", p, plans[p].status)
       \/ /\ sub.status \in Live
          /\ Holds(r, "update", sub.id, plans[sub.id].status)
    /\ UNCHANGED <<open, sub, price, changes, worker>>

\* ApplySubscriptionWebhook reads the preapproval the notification names.
ApplySubscriptionWebhook(r, p) ==
    /\ requests[r].step = "idle"
    /\ p \in DOMAIN plans
    /\ UNCHANGED plans
    /\ Holds(r, "record", p, plans[p].status)
    /\ UNCHANGED <<open, sub, price, changes, worker>>

AppliedToCancelled(status) == IF open THEN status ELSE "CANCELLED"
\* What a row becomes when a provider's answer is applied to it.
Applied(status) == IF sub.status # "CANCELLED" /\ open THEN status ELSE "CANCELLED"

UpdateSubscriptionFromProvider(r) ==
    LET q == requests[r] IN
    /\ q.step = "update"
    /\ Unlocked
    /\ sub' = IF sub.id = q.id /\ sub.ref = q.ref
              THEN [sub EXCEPT !.status = Applied(q.seen)] ELSE sub
    /\ Ends(r)
    /\ UNCHANGED <<open, plans, price, changes, worker>>

\* A webhook may be the first to tell of a preapproval whose POST lost its
\* answer: it attaches it to the reservation.
Attachable(q) ==
    /\ sub.ref = q.ref
    /\ \/ sub.id = q.id
       \/ sub.status = "CREATING" /\ sub.id = 0 /\ sub.called

RecordSubscriptionWebhook(r) ==
    LET q == requests[r] IN
    /\ q.step = "record"
    /\ Unlocked
    /\ sub' = IF Attachable(q)
              THEN [sub EXCEPT !.id = q.id, !.status = Applied(q.seen)] ELSE sub
    /\ Ends(r)
    /\ UNCHANGED <<open, plans, price, changes, worker>>

\* CancelSubscription without branch proration: the provider first, the row by
\* UpdateSubscriptionFromProvider unless the answer is lost.
CancelSubscription(r) ==
    /\ requests[r].step = "idle"
    /\ open /\ sub.status \in Live /\ plans[sub.id].status # "CANCELLED"
    /\ plans' = [plans EXCEPT ![sub.id].status = "CANCELLED"]
    /\ Holds(r, "update", sub.id, "CANCELLED") \/ UNCHANGED requests
    /\ UNCHANGED <<open, sub, price, changes, worker>>

-----------------------------------------------------------------------------
(* Closing the brand *)

\* requireNoActiveSubscription
NoActiveSubscription == sub.status \in {"NOT_CONFIGURED", "CANCELLED"}

DeleteBrand ==
    /\ Unlocked /\ open /\ NoActiveSubscription
    /\ open' = FALSE
    /\ UNCHANGED <<sub, plans, requests, price, changes, worker>>

\* Deleting the last owner's account cancels the subscription first; the
\* transaction may still fail.  An unresolved checkout keeps the account.
AnonymizeAccount ==
    /\ Unlocked /\ open /\ sub.status \in Live
    /\ plans' = [plans EXCEPT ![sub.id].status = "CANCELLED"]
    /\ \/ open' = FALSE /\ sub' = [sub EXCEPT !.status = "CANCELLED"]
       \/ UNCHANGED <<open, sub>>
    /\ UNCHANGED <<requests, price, changes, worker>>

-----------------------------------------------------------------------------
(* Mercado Pago *)

\* The buyer authorizes a preapproval; buyer or provider cancel it for good.
PlanMoves(p) ==
    /\ p \in DOMAIN plans
    /\ \/ /\ plans[p].status = "PENDING"
          /\ plans' = [plans EXCEPT ![p].status = "AUTHORIZED"]
       \/ /\ plans[p].status # "CANCELLED"
          /\ plans' = [plans EXCEPT ![p].status = "CANCELLED"]
    /\ UNCHANGED <<open, sub, requests, price, changes, worker>>

-----------------------------------------------------------------------------
(* Bulk price changes *)

\* The administrator's change, with an item for the brand when it includes
\* existing subscriptions.  It waits for a worker that reads the price.
ChangeSubscriptionPrice(unit, includeExisting) ==
    /\ Unlocked
    /\ WithinBound
    /\ price' = unit
    /\ changes' = Append(changes,
          IF includeExisting /\ open /\ sub.status \in Live
          THEN [status |-> "PENDING", unit |-> unit, ref |-> sub.ref, id |-> sub.id]
          ELSE NoItem)
    /\ UNCHANGED <<open, sub, plans, requests, worker>>

RetrySubscriptionPriceChange(c) ==
    /\ changes[c].status = "FAILED"
    /\ changes' = [changes EXCEPT ![c].status = "PENDING"]
    /\ UNCHANGED <<open, sub, plans, requests, price, worker>>

Pending == {c \in Versions : changes[c].status = "PENDING"}
OutdatedAnyVersion(c) ==
    ~open \/ sub.id # changes[c].id \/ sub.ref # changes[c].ref \/ sub.status \notin Live
\* The change no longer speaks about this subscription or this price.
Outdated(c) ==
    \/ c # Len(changes)
    \/ ~open
    \/ sub.id # changes[c].id \/ sub.ref # changes[c].ref
    \/ sub.status \notin Live

WorkerGoes(step, c) == worker' = [step |-> step, change |-> c]
WorkerRests == worker' = [step |-> "idle", change |-> 0]

\* ApplyNextSubscriptionPriceChange up to its call: the oldest pending item is
\* skipped, or found applied, or its amount goes to the provider.
BeginApply(c) ==
    /\ worker.step = "idle"
    /\ c \in Pending
    /\ \A d \in Pending : c <= d
    /\ \/ /\ Outdated(c)
          /\ changes' = [changes EXCEPT ![c].status = "SKIPPED"]
          /\ UNCHANGED worker
       \/ /\ ~Outdated(c) /\ sub.amount = changes[c].unit
          /\ changes' = [changes EXCEPT ![c].status = "APPLIED"]
          /\ UNCHANGED worker
       \/ /\ ~Outdated(c) /\ sub.amount # changes[c].unit
          /\ WorkerGoes("put", c)
          /\ UNCHANGED changes
    /\ UNCHANGED <<open, sub, plans, requests, price>>

\* UpdateSubscriptionAmount: answered, made with its answer lost, or failed.  A
\* cancelled preapproval takes no amount.
PutAmount ==
    LET c == worker.change IN
    /\ worker.step = "put"
    /\ \/ /\ plans[changes[c].id].status # "CANCELLED"
          /\ plans' = [plans EXCEPT ![changes[c].id].amount = changes[c].unit]
          /\ \E step \in {"commit", "fail"} : WorkerGoes(step, c)
       \/ UNCHANGED plans /\ WorkerGoes("fail", c)
    /\ UNCHANGED <<open, sub, requests, price, changes>>

CommitApplyItemOnly ==
    /\ worker.step = "commit"
    /\ changes' = [changes EXCEPT ![worker.change].status = "APPLIED"]
    /\ WorkerRests
    /\ UNCHANGED <<open, sub, plans, requests, price>>
\* The row, its history and the item change in one commit.
CommitApply ==
    LET c == worker.change IN
    /\ worker.step = "commit"
    /\ sub' = [sub EXCEPT !.amount = changes[c].unit]
    /\ changes' = [changes EXCEPT ![c].status = "APPLIED"]
    /\ WorkerRests
    /\ UNCHANGED <<open, plans, requests, price>>

\* After the rollback, outside the transaction: the item waits for a retry.
FailApply ==
    LET c == worker.change IN
    /\ worker.step = "fail"
    /\ changes' = [changes EXCEPT ![c].status = "FAILED"]
    /\ WorkerRests
    /\ UNCHANGED <<open, sub, plans, requests, price>>

\* The worker stops, or its commit fails: the transaction leaves no trace.
StopWorker ==
    /\ worker.step # "idle"
    /\ WorkerRests
    /\ UNCHANGED <<open, sub, plans, requests, price, changes>>

-----------------------------------------------------------------------------

Answered(r) ==
    \/ ClaimSubscriptionProviderCall(r) \/ CreateSubscription(r)
    \/ SaveSubscriptionCheckout(r) \/ RejectSubscriptionCheckout(r)
    \/ UpdateSubscriptionFromProvider(r) \/ RecordSubscriptionWebhook(r)
Handlers == \E r \in Requests :
    \/ ReserveSubscriptionCheckout(r)
    \/ Answered(r) \/ Stop(r)
    \/ ReadSubscription(r) \/ CancelSubscription(r)
    \/ \E p \in DOMAIN plans : ApplySubscriptionWebhook(r, p)
Administration ==
    \/ \E unit \in Prices, b \in BOOLEAN : ChangeSubscriptionPrice(unit, b)
    \/ \E c \in Versions : RetrySubscriptionPriceChange(c)
Apply == \E c \in Pending : BeginApply(c)

Next ==
    \/ Handlers \/ Administration
    \/ DeleteBrand \/ AnonymizeAccount
    \/ \E p \in DOMAIN plans : PlanMoves(p)
    \/ Apply \/ PutAmount \/ CommitApply \/ FailApply \/ StopWorker

Spec == Init /\ [][Next]_vars

\* Calls are cut off by their deadline, so that handlers and the worker always
\* go on; the owner keeps looking at the subscription; the worker polls, and
\* neither it nor the reads are stopped at the same point every time.
Fairness ==
    /\ \A r \in Requests : WF_vars(Answered(r) \/ Stop(r))
    /\ SF_vars(\E r \in Requests : ReadSubscription(r))
    /\ SF_vars(\E r \in Requests : SaveSubscriptionCheckout(r)
                                     \/ UpdateSubscriptionFromProvider(r))
    /\ WF_vars(Apply)
    /\ WF_vars(PutAmount \/ CommitApply \/ FailApply \/ StopWorker)
    /\ SF_vars(PutAmount)
    /\ SF_vars(CommitApply \/ FailApply)

FairSpec == Spec /\ Fairness

-----------------------------------------------------------------------------
(* Properties *)

LivePlans == {p \in DOMAIN plans : plans[p].status # "CANCELLED"}

\* A preapproval that can still charge is the only one, belongs to the row of
\* an open brand and can be cancelled from it: a lost answer, a second request,
\* a rejection, a cancellation or a closed brand never leaves one behind.
NoForgottenPlan ==
    \A p \in LivePlans :
        /\ LivePlans = {p}
        /\ open /\ plans[p].ref = sub.ref /\ sub.status # "CANCELLED"

\* recordSubscriptionWebhook, UpdateSubscriptionFromProvider: an answer read
\* before the cancellation never brings a cancelled subscription back.
CancelledStays ==
    [][sub.status = "CANCELLED" /\ sub'.ref = sub.ref => sub'.status = "CANCELLED"]_sub

\* When the provider bills an amount the row does not have, some price change
\* of that subscription is not reported as applied.
DivergenceShows ==
    \A p \in LivePlans :
        p = sub.id /\ plans[p].amount # sub.amount
            => \E c \in Versions : /\ changes[c].id = p
                                  /\ changes[c].status \in {"PENDING", "FAILED", "SKIPPED"}

\* ApplyNextSubscriptionPriceChange sends the provider only the price in force,
\* for the subscription the brand has now and while the brand is open.
BillsThePriceInForce ==
    [][\A p \in DOMAIN plans :
          plans'[p].amount # plans[p].amount
              => plans'[p].amount = price /\ p = sub.id /\ open]_plans

\* A checkout whose preapproval exists leaves CREATING, although the answer of
\* its POST was lost.
CheckoutIsRecovered ==
    sub.called /\ Found(sub.ref) # {} ~> sub.status # "CREATING"

\* Stale answers may set the row back, but it ends up as the provider has it,
\* once no price change is retried for ever.
RowConverges ==
    <>[]Unlocked => <>[](sub.status \in Live /\ open => sub.status = plans[sub.id].status)

\* Every pending item is applied, skipped or failed, through stops and retries.
ItemsSettle == \A c \in 1..MaxKeys-1 : c \in Pending ~> c \notin Pending

\* The rows stay well formed, and a row that differs from the provider's plan
\* has a price change that says so.
SubscriptionInv == TypeOK /\ DivergenceShows

\* Neither a lost answer nor a stale one nor a stopped worker leaves a
\* checkout, the row or a price change half done for ever.
EverythingSettles == CheckoutIsRecovered /\ RowConverges /\ ItemsSettle

=============================================================================
