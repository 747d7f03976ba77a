---------------------- MODULE SubscriptionBillingProofs ----------------------
(***************************************************************************)
(* Proofs about SubscriptionBilling for any number of requests that run    *)
(* side by side, any prices and any bound.                                 *)
(***************************************************************************)
EXTENDS SubscriptionBilling, SequenceTheorems, TLAPS

-----------------------------------------------------------------------------
(* The inductive invariant *)

\* A request about to make the one POST of the current reservation, or told
\* that it was rejected: the provider has no preapproval for it.
Calling(q) ==
    q.step \in {"post", "rejected"} =>
        /\ sub.status = "CREATING" /\ sub.called /\ q.ref = sub.ref
        /\ \A p \in DOMAIN plans : plans[p].ref # q.ref

\* An answer in hand may be old, but a cancellation is final at the provider.
Answering(q) ==
    q.step \in {"save", "update", "record"} =>
        /\ q.id \in DOMAIN plans /\ q.ref = plans[q.id].ref
        /\ q.seen = "CANCELLED" => plans[q.id].status = "CANCELLED"

InFlight ==
    /\ \A r \in Requests : Calling(requests[r]) /\ Answering(requests[r])
    /\ \A r, s \in Requests :
          /\ requests[r].step \in {"post", "rejected"}
          /\ requests[s].step \in {"post", "rejected"}
          => r = s

\* A reference has one preapproval, and only a reservation that was claimed has
\* any; nobody changes its amount before the row knows it.
OnePlanPerReference ==
    /\ \A p, q \in DOMAIN plans : plans[p].ref = plans[q].ref => p = q
    /\ \A p \in DOMAIN plans :
          /\ plans[p].ref <= sub.ref
          /\ plans[p].ref = sub.ref =>
                /\ sub.called
                /\ sub.status = "CREATING" => plans[p].amount = sub.amount

RowSound ==
    /\ sub.status = "CREATING" => sub.id = 0 /\ sub.ref # 0 /\ sub.amount \in Prices
    /\ sub.status = "NOT_CONFIGURED" => sub.ref = 0
    /\ ~open => sub.status \in {"NOT_CONFIGURED", "CANCELLED"}
    /\ sub.ref + Len(changes) <= MaxKeys

\* An item names a preapproval and a price; that of the latest change is in force.
ItemsSound ==
    \A c \in Versions :
        /\ changes[c].id # 0 => changes[c].id \in DOMAIN plans
        /\ changes[c].status # "none" =>
            /\ changes[c].id \in DOMAIN plans
            /\ changes[c].unit \in Prices
            /\ c = Len(changes) => changes[c].unit = price

\* The worker holds the rows it read until it commits or gives up.
WorkerSound ==
    LET c == worker.change
    IN  /\ worker.step # "idle" => c \in Pending
        /\ worker.step \in {"put", "commit"} => ~Outdated(c)
        /\ worker.step = "commit" => plans[changes[c].id].amount = changes[c].unit

\* The change that made the provider's amount differ is the one that shows it.
DivergenceNamed ==
    \A p \in LivePlans :
        p = sub.id /\ plans[p].amount # sub.amount
            => \E c \in Versions : /\ changes[c].id = p
                                  /\ changes[c].unit = plans[p].amount
                                  /\ changes[c].status \in {"PENDING", "FAILED", "SKIPPED"}

Inv ==
    /\ TypeOK
    /\ InFlight
    /\ OnePlanPerReference
    /\ RowSound
    /\ ItemsSound
    /\ WorkerSound
    /\ DivergenceNamed
    /\ NoForgottenPlan

-----------------------------------------------------------------------------
(* Frames: what a kind of step leaves alone *)

\* At the first state nothing is in flight.
LEMMA InitInv == Init => Inv
<1> SUFFICES ASSUME Init
             PROVE  Inv
  OBVIOUS
<1> USE PricesArePositive, BoundIsNatural
<1>0. /\ plans = <<>> /\ DOMAIN plans = {} /\ plans \in Seq(Plan)
      /\ changes = <<>> /\ DOMAIN changes = {} /\ changes \in Seq(Change)
      /\ Len(changes) = 0
  BY DEF Init
<1>1. TypeOK
  <2>1. /\ sub \in Subscription
        /\ requests \in [Requests -> Request]
        /\ worker \in [step: {"idle", "put", "commit", "fail"}, change: Nat]
        /\ open \in BOOLEAN /\ price \in Prices
    BY DEF Init, Subscription, Status, Live, Request, NoRequest, Steps, PlanStatus
  <2>2. sub.id = 0 /\ sub.status \notin Live
    BY DEF Init, Live
  <2> QED BY <1>0, <2>1, <2>2 DEF TypeOK, Versions
<1>2. InFlight
  BY DEF Init, InFlight, Calling, Answering, NoRequest
<1>3. OnePlanPerReference
  BY <1>0 DEF OnePlanPerReference
<1>4. RowSound
  BY <1>0 DEF Init, RowSound
<1>5. ItemsSound
  BY <1>0 DEF ItemsSound, Versions
<1>6. WorkerSound
  BY DEF Init, WorkerSound
<1>7. DivergenceNamed /\ NoForgottenPlan
  BY <1>0 DEF DivergenceNamed, NoForgottenPlan, LivePlans
<1> QED BY <1>1, <1>2, <1>3, <1>4, <1>5, <1>6, <1>7 DEF Inv

\* A step that changes nothing keeps the invariant.
LEMMA StutterInv == Inv /\ UNCHANGED vars => Inv'
  BY DEF Inv, vars, TypeOK, InFlight, Calling, Answering, OnePlanPerReference,
         RowSound, ItemsSound, WorkerSound, DivergenceNamed, NoForgottenPlan,
         LivePlans, Versions, Pending, Outdated

\* What concerns the rows and the provider, and not the requests.
RowsInv ==
    /\ OnePlanPerReference /\ RowSound /\ ItemsSound /\ WorkerSound
    /\ DivergenceNamed /\ NoForgottenPlan

\* The requests do not enter RowsInv.
LEMMA RowsKept ==
    ASSUME RowsInv, UNCHANGED <<open, sub, plans, price, changes, worker>>
    PROVE  RowsInv'
  BY DEF RowsInv, OnePlanPerReference, RowSound, ItemsSound, WorkerSound,
         DivergenceNamed, NoForgottenPlan, LivePlans, Versions, Pending, Outdated

\* A request that may go to step q as far as the other requests are concerned.
Placeable(r, q) ==
    /\ q \in Request /\ Calling(q) /\ Answering(q)
    /\ q.step \in {"post", "rejected"} =>
          \A s \in Requests : requests[s].step \in {"post", "rejected"} => s = r

\* A handler that only keeps what it was told keeps the invariant.
LEMMA RequestStep ==
    ASSUME Inv, NEW r \in Requests, NEW q, Placeable(r, q),
           requests' = [requests EXCEPT ![r] = q],
           UNCHANGED <<open, sub, plans, price, changes, worker>>
    PROVE  Inv'
<1>1. TypeOK'
  BY DEF Inv, TypeOK, Versions, Placeable
<1>2. InFlight'
  <2>1. ASSUME NEW s \in Requests
        PROVE  (Calling(requests[s]) /\ Answering(requests[s]))'
    <3>1. requests'[s] = IF s = r THEN q ELSE requests[s]
      BY DEF Inv, TypeOK
    <3>2. Calling(requests[s]) /\ Answering(requests[s]) /\ Calling(q) /\ Answering(q)
      BY DEF Inv, InFlight, Placeable
    <3> QED BY <3>1, <3>2 DEF Calling, Answering
  <2>2. ASSUME NEW s \in Requests, NEW t \in Requests,
               requests'[s].step \in {"post", "rejected"},
               requests'[t].step \in {"post", "rejected"}
        PROVE  s = t
    <3>1. /\ requests'[s] = IF s = r THEN q ELSE requests[s]
          /\ requests'[t] = IF t = r THEN q ELSE requests[t]
      BY DEF Inv, TypeOK
    <3> QED BY <2>2, <3>1 DEF Inv, InFlight, Placeable
  <2> QED BY <2>1, <2>2 DEF InFlight
<1>3. RowsInv'
  BY RowsKept DEF Inv, RowsInv
<1> QED BY <1>1, <1>2, <1>3 DEF Inv, RowsInv

\* A request that ends, or only reserved, claims nothing.
LEMMA QuietRequest ==
    ASSUME NEW r, NEW n \in Nat
    PROVE  /\ Placeable(r, NoRequest)
           /\ Placeable(r, [NoRequest EXCEPT !.step = "reserved", !.ref = n])
  BY DEF Placeable, NoRequest, Request, Steps, PlanStatus, Live, Calling, Answering

\* While the reservation is not in CREATING, not claimed or has its preapproval,
\* nobody is about to make its POST.
LEMMA NobodyCalls ==
    ASSUME Inv,
           \/ sub.status # "CREATING" \/ ~sub.called
           \/ \E p \in DOMAIN plans : plans[p].ref = sub.ref
    PROVE  \A r \in Requests : requests[r].step \notin {"post", "rejected"}
  BY DEF Inv, InFlight, Calling

\* The provider forgets no preapproval, and a cancellation is final there.
PlansOnlyMove ==
    /\ DOMAIN plans' = DOMAIN plans
    /\ \A p \in DOMAIN plans :
          /\ plans'[p].ref = plans[p].ref
          /\ plans[p].status = "CANCELLED" => plans'[p].status = "CANCELLED"

\* When nobody is left that calls, the row may change under the requests.
LEMMA NobodyCallsAfter ==
    ASSUME Inv, PlansOnlyMove,
           \A r \in Requests :
              \/ requests'[r] = NoRequest
              \/ requests'[r] = requests[r] /\ requests[r].step \notin {"post", "rejected"}
    PROVE  InFlight'
<1>1. ASSUME NEW r \in Requests
      PROVE  /\ requests'[r].step \notin {"post", "rejected"}
             /\ Answering(requests[r])'
  <2>1. CASE requests'[r] = NoRequest
    BY <2>1 DEF NoRequest, Answering
  <2>2. CASE requests'[r] = requests[r] /\ requests[r].step \notin {"post", "rejected"}
    BY <2>2 DEF Inv, InFlight, Answering, PlansOnlyMove
  <2> QED BY <2>1, <2>2
<1> QED BY <1>1 DEF InFlight, Calling

\* The row takes the status s of preapproval i, which carries its reference.
RowTakes(i, s) ==
    /\ sub' = [sub EXCEPT !.id = i, !.status = s]
    /\ UNCHANGED <<open, plans, price, changes, worker>>

\* The row of subscription i, or the reservation waiting for it, may take s.
Takeable(i, s) ==
    /\ i \in DOMAIN plans /\ plans[i].ref = sub.ref
    /\ s \in PlanStatus
    /\ sub.id = i \/ sub.status = "CREATING"
    /\ sub.status = "CANCELLED" => s = "CANCELLED"
    /\ ~open => s = "CANCELLED"
    /\ s = "CANCELLED" =>
          sub.status = "CANCELLED" \/ ~open \/ plans[i].status = "CANCELLED"

\* An answer applied to the row keeps the invariant: the only preapproval that
\* can be alive is the one it speaks about.
LEMMA AnswerApplied ==
    ASSUME Inv, Unlocked, NEW r \in Requests, NEW i, NEW s, Takeable(i, s),
           RowTakes(i, s), requests' = [requests EXCEPT ![r] = NoRequest]
    PROVE  Inv'
<1> USE DEF RowTakes
<1>0. /\ i \in Nat /\ i # 0 /\ i \in DOMAIN plans
      /\ s \in Status /\ s \notin {"CREATING", "NOT_CONFIGURED"}
  BY DEF Inv, TypeOK, Takeable, PlanStatus, Status, Live
<1>1. /\ sub'.id = i /\ sub'.status = s /\ sub'.ref = sub.ref
      /\ sub'.called = sub.called /\ sub'.amount = sub.amount
      /\ sub' \in Subscription
  BY <1>0 DEF Inv, TypeOK, Subscription
<1>2. TypeOK'
  BY <1>0, <1>1, QuietRequest DEF Inv, TypeOK, Takeable, Placeable, Versions
<1>3. InFlight'
  <2>1. PlansOnlyMove
    BY DEF PlansOnlyMove
  <2>2. \A t \in Requests : requests[t].step \notin {"post", "rejected"}
    BY NobodyCalls DEF Takeable
  <2>3. \A t \in Requests : requests'[t] = IF t = r THEN NoRequest ELSE requests[t]
    BY DEF Inv, TypeOK
  <2> QED BY <2>1, <2>2, <2>3, NobodyCallsAfter
<1>4. OnePlanPerReference'
  BY <1>0, <1>1 DEF Inv, OnePlanPerReference
<1>5. RowSound'
  BY <1>0, <1>1 DEF Inv, RowSound, Takeable
<1>6. ItemsSound' /\ WorkerSound'
  BY DEF Inv, ItemsSound, WorkerSound, Versions, Unlocked, Pending
<1>7. NoForgottenPlan'
  <2> SUFFICES ASSUME NEW p \in LivePlans
               PROVE  LivePlans = {p} /\ open /\ plans[p].ref = sub.ref /\ s # "CANCELLED"
    BY <1>1 DEF NoForgottenPlan, LivePlans
  <2>1. LivePlans = {p} /\ open /\ plans[p].ref = sub.ref /\ sub.status # "CANCELLED"
    BY DEF Inv, NoForgottenPlan
  <2>2. p = i
    BY <2>1, <1>0 DEF Inv, OnePlanPerReference, LivePlans, Takeable
  <2>3. plans[i].status # "CANCELLED"
    BY <2>2 DEF LivePlans
  <2> QED BY <2>1, <2>3 DEF Takeable
<1>8. DivergenceNamed'
  <2>1. CASE sub.id = i
    BY <2>1, <1>1 DEF Inv, DivergenceNamed, LivePlans, Versions
  <2>2. CASE sub.status = "CREATING"
    <3>1. plans[i].amount = sub.amount
      BY <2>2, <1>0 DEF Inv, OnePlanPerReference, Takeable
    <3> QED BY <3>1, <1>1 DEF DivergenceNamed, LivePlans
  <2> QED BY <2>1, <2>2 DEF Takeable
<1> QED BY <1>2, <1>3, <1>4, <1>5, <1>6, <1>7, <1>8 DEF Inv

-----------------------------------------------------------------------------
(* The handlers *)

\* A reservation is handed out again, or made with a reference of its own.
LEMMA ReserveStep ==
    ASSUME Inv, NEW r \in Requests, ReserveSubscriptionCheckout(r)
    PROVE  Inv'
<1>0. sub \in Subscription /\ Len(changes) \in Nat
  BY LenProperties DEF Inv, TypeOK
<1>1. CASE UNCHANGED sub
  <2>1. sub.ref \in Nat
    BY <1>0 DEF Subscription
  <2> QED BY <1>1, <2>1, QuietRequest, RequestStep DEF ReserveSubscriptionCheckout, Goes
<1>2. CASE /\ sub.status \in {"NOT_CONFIGURED", "CANCELLED"} /\ WithinBound
           /\ sub' = [status |-> "CREATING", ref |-> sub.ref + 1, id |-> 0,
                      called |-> FALSE, amount |-> price]
  <2>1. /\ requests' = [requests EXCEPT ![r] =
                [NoRequest EXCEPT !.step = "reserved", !.ref = sub.ref + 1]]
        /\ open /\ Unlocked
        /\ UNCHANGED <<open, plans, price, changes, worker>>
    BY <1>2 DEF ReserveSubscriptionCheckout, Goes
  <2>2. sub.ref \in Nat /\ price \in Nat /\ price \in Prices /\ sub' \in Subscription
    BY <1>0, <1>2, PricesArePositive DEF Inv, TypeOK, Subscription, Status
  <2>3. LivePlans = {} /\ \A p \in DOMAIN plans : plans[p].ref # sub.ref + 1
    <3>1. ASSUME NEW p \in LivePlans PROVE FALSE
      <4>1. plans[p].ref = sub.ref /\ sub.status = "NOT_CONFIGURED" /\ p \in DOMAIN plans
        BY <1>2 DEF Inv, NoForgottenPlan, LivePlans
      <4>2. plans[p] \in Plan
        BY <4>1, ElementOfSeq, LenProperties DEF Inv, TypeOK
      <4> QED BY <4>1, <4>2, BoundIsNatural DEF Inv, RowSound, Plan
    <3>2. ASSUME NEW p \in DOMAIN plans PROVE plans[p].ref # sub.ref + 1
      <4>1. plans[p] \in Plan
        BY ElementOfSeq, LenProperties DEF Inv, TypeOK
      <4> QED BY <4>1, <2>2, BoundIsNatural DEF Inv, OnePlanPerReference, Plan
    <3> QED BY <3>1, <3>2
  <2>4. TypeOK'
    <3>1. PICK n \in Nat : n = sub.ref + 1
      BY <2>2
    <3>2. [NoRequest EXCEPT !.step = "reserved", !.ref = n] \in Request
      BY <3>1 DEF NoRequest, Request, Steps, PlanStatus, Live
    <3> QED BY <1>2, <2>1, <2>2, <3>1, <3>2 DEF Inv, TypeOK, Versions, Live
  <2>5. InFlight'
    <3>1. \A s \in Requests : requests[s].step \notin {"post", "rejected"}
      BY <1>2, NobodyCalls
    <3>2. ASSUME NEW s \in Requests
          PROVE  /\ requests'[s].step \notin {"post", "rejected"}
                 /\ Answering(requests[s])'
      <4>1. CASE s = r
        <5>1. requests'[s].step = "reserved"
          BY <4>1, <2>1 DEF Inv, TypeOK, NoRequest
        <5> QED BY <5>1 DEF Answering
      <4>2. CASE s # r
        BY <4>2, <2>1, <3>1 DEF Inv, TypeOK, InFlight, Answering
      <4> QED BY <4>1, <4>2
    <3> QED BY <3>2 DEF InFlight, Calling
  <2>6. OnePlanPerReference'
    <3>1. \A p \in DOMAIN plans : plans[p] \in Plan
      BY ElementOfSeq, LenProperties DEF Inv, TypeOK
    <3> QED BY <1>2, <2>1, <2>2, <2>3, <3>1, BoundIsNatural
            DEF Inv, OnePlanPerReference, Plan
  <2>7. RowSound'
    BY <1>0, <1>2, <2>1, <2>2, BoundIsNatural DEF RowSound, WithinBound
  <2>8. ItemsSound' /\ WorkerSound'
    BY <2>1 DEF Inv, ItemsSound, WorkerSound, Versions, Unlocked, Pending
  <2>9. DivergenceNamed' /\ NoForgottenPlan'
    BY <2>1, <2>3 DEF DivergenceNamed, NoForgottenPlan, LivePlans
  <2> QED BY <2>4, <2>5, <2>6, <2>7, <2>8, <2>9 DEF Inv
<1> QED BY <1>1, <1>2 DEF ReserveSubscriptionCheckout

\* One claim for a reservation: nobody else is about to make its POST, and no
\* preapproval carries its reference yet.
LEMMA ClaimStep ==
    ASSUME Inv, NEW r \in Requests, ClaimSubscriptionProviderCall(r)
    PROVE  Inv'
<1> DEFINE ref == requests[r].ref
<1>0. sub \in Subscription /\ requests[r] \in Request
  BY DEF Inv, TypeOK
<1>1. CASE ~Claimable(ref)
  BY <1>1, QuietRequest, RequestStep DEF ClaimSubscriptionProviderCall, Ends
<1>2. CASE Claimable(ref)
  <2>1. /\ sub' = [sub EXCEPT !.called = TRUE]
        /\ requests' = [requests EXCEPT ![r] =
                          [NoRequest EXCEPT !.step = "post", !.ref = sub.ref]]
        /\ Unlocked /\ sub.status = "CREATING" /\ ~sub.called
        /\ UNCHANGED <<open, plans, price, changes, worker>>
    BY <1>2 DEF ClaimSubscriptionProviderCall, Goes, Claimable
  <2>2. /\ sub' \in Subscription /\ sub.ref \in Nat
        /\ sub'.id = sub.id /\ sub'.status = sub.status /\ sub'.ref = sub.ref
        /\ sub'.called /\ sub'.amount = sub.amount
    BY <1>0, <2>1 DEF Subscription
  <2>3. \A p \in DOMAIN plans : plans[p].ref # sub.ref
    BY <2>1 DEF Inv, OnePlanPerReference
  <2>4. \A s \in Requests : requests[s].step \notin {"post", "rejected"}
    BY <2>1, NobodyCalls
  <2>5. TypeOK'
    <3>1. [NoRequest EXCEPT !.step = "post", !.ref = sub.ref] \in Request
      BY <2>2 DEF NoRequest, Request, Steps, PlanStatus, Live
    <3> QED BY <2>1, <2>2, <3>1 DEF Inv, TypeOK, Versions
  <2>6. InFlight'
    <3>1. ASSUME NEW s \in Requests, s # r
          PROVE  /\ requests'[s].step \notin {"post", "rejected"}
                 /\ Answering(requests[s])'
      BY <3>1, <2>1, <2>4 DEF Inv, TypeOK, InFlight, Answering
    <3>2. requests'[r].step = "post" /\ requests'[r].ref = sub.ref
      BY <2>1 DEF Inv, TypeOK, NoRequest
    <3>3. Calling(requests[r])' /\ Answering(requests[r])'
      BY <2>1, <2>2, <2>3, <3>2 DEF Calling, Answering
    <3> QED BY <3>1, <3>2, <3>3 DEF InFlight, Calling
  <2>7. OnePlanPerReference' /\ RowSound'
    BY <2>1, <2>2, <2>3 DEF Inv, OnePlanPerReference, RowSound
  <2>8. ItemsSound' /\ WorkerSound'
    BY <2>1 DEF Inv, ItemsSound, WorkerSound, Versions, Unlocked, Pending
  <2>9. DivergenceNamed' /\ NoForgottenPlan'
    BY <2>1, <2>2 DEF Inv, DivergenceNamed, NoForgottenPlan, LivePlans, Versions
  <2> QED BY <2>5, <2>6, <2>7, <2>8, <2>9 DEF Inv
<1> QED BY <1>1, <1>2

\* The one POST of a reservation: the preapproval it makes is the only one that
\* carries the reference, and the only one that can be alive.
LEMMA PostStep ==
    ASSUME Inv, NEW r \in Requests, requests[r].step = "post",
           plans' = Append(plans, [ref |-> requests[r].ref, status |-> "PENDING",
                                   amount |-> sub.amount]),
           Holds(r, "save", Len(plans) + 1, "PENDING") \/ Ends(r),
           UNCHANGED <<open, sub, price, changes, worker>>
    PROVE  Inv'
<1> DEFINE ref == requests[r].ref
           n == Len(plans) + 1
           plan == [ref |-> ref, status |-> "PENDING", amount |-> sub.amount]
<1>0. /\ sub.status = "CREATING" /\ sub.called /\ ref = sub.ref /\ sub.id = 0
      /\ sub.ref # 0 /\ sub.amount \in Prices
      /\ \A p \in DOMAIN plans : plans[p].ref # sub.ref
      /\ open
  BY DEF Inv, InFlight, Calling, RowSound
<1>1. /\ plans \in Seq(Plan) /\ Len(plans) \in Nat /\ DOMAIN plans = 1..Len(plans)
      /\ Len(changes) \in Nat /\ sub \in Subscription
      /\ changes \in Seq(Change) /\ DOMAIN changes = 1..Len(changes)
  BY LenProperties DEF Inv, TypeOK
<1>2. sub.ref \in 1..MaxKeys /\ ref \in 1..MaxKeys /\ ref \in Nat
  BY <1>0, <1>1, BoundIsNatural DEF Inv, RowSound, Subscription
<1>3. plan \in Plan
  BY <1>0, <1>2 DEF Plan, PlanStatus, Live
<1>4. /\ plans' \in Seq(Plan) /\ Len(plans') = n
      /\ \A p \in 1..Len(plans) : plans'[p] = plans[p]
      /\ plans'[n] = plan
  BY <1>1, <1>3, AppendProperties
<1>5. DOMAIN plans' = DOMAIN plans \cup {n} /\ n \notin DOMAIN plans /\ n \in Nat
  BY <1>1, <1>4, LenProperties
<1>6. plan.ref = sub.ref /\ plan.status = "PENDING" /\ plan.amount = sub.amount
  BY <1>0
<1>7. \A s \in Requests :
         \/ requests'[s] = NoRequest
         \/ s = r /\ requests'[s] = [step |-> "save", ref |-> ref, id |-> n,
                                     seen |-> "PENDING"]
         \/ requests'[s] = requests[s] /\ requests[s].step \notin {"post", "rejected"}
  <2>1. ASSUME NEW s \in Requests, s # r
        PROVE  requests'[s] = requests[s] /\ requests[s].step \notin {"post", "rejected"}
    BY <2>1 DEF Inv, TypeOK, InFlight, Holds, Ends
  <2>2. CASE Holds(r, "save", n, "PENDING")
    BY <2>1, <2>2, <1>4, <1>6 DEF Inv, TypeOK, Holds
  <2>3. CASE Ends(r)
    BY <2>1, <2>3 DEF Inv, TypeOK, Ends
  <2> QED BY <2>2, <2>3
<1> HIDE DEF plan, ref, n
<1>8. TypeOK'
  <2>1. requests' \in [Requests -> Request]
    <3>1. DOMAIN requests' = Requests /\ requests' = [s \in Requests |-> requests'[s]]
      BY DEF Inv, TypeOK, Holds, Ends
    <3>2. NoRequest \in Request
      BY QuietRequest DEF Placeable
    <3>3. [step |-> "save", ref |-> ref, id |-> n, seen |-> "PENDING"] \in Request
      BY <1>2, <1>5 DEF Request, Steps, PlanStatus, Live
    <3>4. \A s \in Requests : requests'[s] \in Request
      BY <1>7, <3>2, <3>3 DEF Inv, TypeOK
    <3> QED BY <3>1, <3>4
  <2>2. ASSUME NEW c \in Versions, changes[c].id # 0
        PROVE  plans'[changes[c].id].ref = changes[c].ref
    <3>1. plans[changes[c].id].ref = changes[c].ref
      BY <2>2 DEF Inv, TypeOK
    <3>2. changes[c].id \in DOMAIN plans
      BY <2>2 DEF Inv, ItemsSound
    <3> QED BY <3>1, <3>2, <1>1, <1>4
  <2> QED BY <1>0, <1>4, <2>1, <2>2 DEF Inv, TypeOK, Versions, Live
<1>9. InFlight'
  <2>1. ASSUME NEW s \in Requests
        PROVE  requests'[s].step \notin {"post", "rejected"} /\ Answering(requests[s])'
    <3>1. CASE requests'[s] = NoRequest
      BY <3>1 DEF NoRequest, Answering
    <3>2. CASE requests'[s] = [step |-> "save", ref |-> ref, id |-> n, seen |-> "PENDING"]
      BY <3>2, <1>0, <1>4, <1>5, <1>6 DEF Answering, ref
    <3>3. CASE requests'[s] = requests[s] /\ requests[s].step \notin {"post", "rejected"}
      BY <3>3, <1>1, <1>4, <1>5 DEF Inv, InFlight, Answering
    <3> QED BY <1>7, <3>1, <3>2, <3>3
  <2> QED BY <2>1 DEF InFlight, Calling
<1>10. OnePlanPerReference'
  <2>1. \A p \in DOMAIN plans : plans'[p] = plans[p] /\ plans[p].ref # sub.ref
    BY <1>0, <1>1, <1>4
  <2>2. sub.ref <= sub.ref
    BY <1>1 DEF Subscription
  <2>3. \A p, q \in DOMAIN plans' : plans'[p].ref = plans'[q].ref => p = q
    BY <1>4, <1>5, <1>6, <2>1 DEF Inv, OnePlanPerReference
  <2> QED BY <1>0, <1>4, <1>5, <1>6, <2>1, <2>2, <2>3 DEF Inv, OnePlanPerReference
<1>11. RowSound'
  BY DEF Inv, RowSound
<1>12. ItemsSound' /\ WorkerSound'
  <2>1. ItemsSound'
    BY <1>5 DEF Inv, ItemsSound, Versions
  <2>2. worker.step # "commit"
    BY <1>0 DEF Inv, WorkerSound, Outdated, Live
  <2>3. WorkerSound'
    BY <2>2 DEF Inv, WorkerSound, Pending, Versions, Outdated
  <2> QED BY <2>1, <2>3
<1>13. DivergenceNamed'
  BY <1>0, <1>1, <1>4, <1>5 DEF Inv, TypeOK, DivergenceNamed, LivePlans
<1>14. NoForgottenPlan'
  <2>1. LivePlans = {}
    BY <1>0 DEF Inv, NoForgottenPlan, LivePlans
  <2>2. LivePlans' = {n}
    BY <2>1, <1>1, <1>4, <1>5, <1>6 DEF LivePlans
  <2> QED BY <2>2, <1>0, <1>4, <1>6 DEF NoForgottenPlan
<1> QED BY <1>8, <1>9, <1>10, <1>11, <1>12, <1>13, <1>14 DEF Inv

\* A POST that fails or is rejected changes nothing at the provider.
LEMMA CreateStep ==
    ASSUME Inv, NEW r \in Requests, CreateSubscription(r)
    PROVE  Inv'
<1>1. CASE UNCHANGED plans /\ Goes(r, "rejected", requests[r].ref)
  <2>1. PICK q : q = [NoRequest EXCEPT !.step = "rejected", !.ref = requests[r].ref]
    OBVIOUS
  <2>2. q.step = "rejected" /\ q.ref = requests[r].ref
    BY <2>1 DEF NoRequest
  <2>3. requests[r].step = "post" /\ requests[r].ref \in Nat
    BY DEF CreateSubscription, Inv, TypeOK, Request
  <2>4. Placeable(r, q)
    <3>1. q \in Request
      BY <2>1, <2>3 DEF NoRequest, Request, Steps, PlanStatus, Live
    <3>2. Calling(q) /\ Answering(q)
      BY <2>2, <2>3 DEF Inv, InFlight, Calling, Answering
    <3>3. \A s \in Requests : requests[s].step \in {"post", "rejected"} => s = r
      BY <2>3 DEF Inv, InFlight
    <3> QED BY <3>1, <3>2, <3>3 DEF Placeable
  <2> QED BY <1>1, <2>1, <2>4, RequestStep DEF CreateSubscription, Goes
<1>2. CASE plans' = Append(plans, [ref |-> requests[r].ref, status |-> "PENDING",
                                   amount |-> sub.amount])
           /\ (Holds(r, "save", Len(plans) + 1, "PENDING") \/ Ends(r))
  BY <1>2, PostStep DEF CreateSubscription
<1> QED BY <1>1, <1>2 DEF CreateSubscription

\* Ending a request is harmless.
LEMMA EndStep ==
    ASSUME Inv, NEW r \in Requests, Ends(r),
           UNCHANGED <<open, sub, plans, price, changes, worker>>
    PROVE  Inv'
  BY QuietRequest, RequestStep DEF Ends

\* What an answer in hand says of its preapproval.
LEMMA AnswerInHand ==
    ASSUME Inv, NEW r \in Requests, requests[r].step \in {"save", "update", "record"}
    PROVE  /\ requests[r].id \in DOMAIN plans
           /\ requests[r].ref = plans[requests[r].id].ref
           /\ requests[r].seen \in PlanStatus
           /\ requests[r].seen = "CANCELLED" =>
                 plans[requests[r].id].status = "CANCELLED"
  BY DEF Inv, InFlight, Answering, TypeOK, Request

\* The row is a record: setting a field to what it holds changes nothing.
LEMMA SameRow ==
    ASSUME Inv, NEW s
    PROVE  [sub EXCEPT !.status = s] = [sub EXCEPT !.id = sub.id, !.status = s]
  BY DEF Inv, TypeOK, Subscription

\* The answer of the POST is saved into the reservation that waits for it.
LEMMA SaveStep ==
    ASSUME Inv, NEW r \in Requests, SaveSubscriptionCheckout(r)
    PROVE  Inv'
<1> DEFINE q == requests[r]
<1>1. CASE sub.ref = q.ref /\ sub.status = "CREATING" /\ sub.called
  <2>1. Takeable(q.id, q.seen)
    BY <1>1, AnswerInHand DEF Takeable, SaveSubscriptionCheckout, Inv, RowSound
  <2> QED BY <1>1, <2>1, AnswerApplied DEF SaveSubscriptionCheckout, RowTakes, Ends
<1>2. CASE ~(sub.ref = q.ref /\ sub.status = "CREATING" /\ sub.called)
  BY <1>2, EndStep DEF SaveSubscriptionCheckout
<1> QED BY <1>1, <1>2

\* Whatever Applied makes of an answer, the row may take it.
LEMMA AppliedTakeable ==
    ASSUME Inv, NEW r \in Requests, requests[r].step \in {"save", "update", "record"},
           sub.ref = requests[r].ref, sub.id = requests[r].id \/ sub.status = "CREATING"
    PROVE  Takeable(requests[r].id, Applied(requests[r].seen))
  BY AnswerInHand DEF Takeable, Applied, PlanStatus

\* A refreshed row belongs to the preapproval that was read.
LEMMA UpdateStep ==
    ASSUME Inv, NEW r \in Requests, UpdateSubscriptionFromProvider(r)
    PROVE  Inv'
<1> DEFINE q == requests[r]
<1>1. CASE sub.id = q.id /\ sub.ref = q.ref
  <2>1. Takeable(q.id, Applied(q.seen))
    BY <1>1, AppliedTakeable DEF UpdateSubscriptionFromProvider
  <2>2. RowTakes(q.id, Applied(q.seen))
    BY <1>1, SameRow DEF UpdateSubscriptionFromProvider, RowTakes
  <2> QED BY <2>1, <2>2, AnswerApplied DEF UpdateSubscriptionFromProvider, Ends
<1>2. CASE ~(sub.id = q.id /\ sub.ref = q.ref)
  BY <1>2, EndStep DEF UpdateSubscriptionFromProvider
<1> QED BY <1>1, <1>2

\* A webhook speaks about the row's preapproval, or attaches it.
LEMMA RecordStep ==
    ASSUME Inv, NEW r \in Requests, RecordSubscriptionWebhook(r)
    PROVE  Inv'
<1> DEFINE q == requests[r]
<1>1. CASE Attachable(q)
  <2>1. Takeable(q.id, Applied(q.seen))
    BY <1>1, AppliedTakeable DEF RecordSubscriptionWebhook, Attachable
  <2>2. RowTakes(q.id, Applied(q.seen))
    BY <1>1 DEF RecordSubscriptionWebhook, RowTakes
  <2> QED BY <2>1, <2>2, AnswerApplied DEF RecordSubscriptionWebhook, Ends
<1>2. CASE ~Attachable(q)
  BY <1>2, EndStep DEF RecordSubscriptionWebhook
<1> QED BY <1>1, <1>2

\* A confirmed rejection releases the reservation, which has no preapproval.
LEMMA RejectStep ==
    ASSUME Inv, NEW r \in Requests, RejectSubscriptionCheckout(r)
    PROVE  Inv'
<1> DEFINE q == requests[r]
<1>0. /\ sub.status = "CREATING" /\ q.ref = sub.ref /\ sub.id = 0
      /\ \A p \in DOMAIN plans : plans[p].ref # sub.ref
      /\ sub \in Subscription /\ requests \in [Requests -> Request]
  BY DEF RejectSubscriptionCheckout, Inv, TypeOK, InFlight, Calling, RowSound
<1>1. /\ sub' = [sub EXCEPT !.status = "CANCELLED"]
      /\ requests' = [requests EXCEPT ![r] = NoRequest]
      /\ Unlocked
      /\ UNCHANGED <<open, plans, price, changes, worker>>
  BY <1>0 DEF RejectSubscriptionCheckout, Ends
<1>2. /\ sub' \in Subscription /\ sub'.status = "CANCELLED"
      /\ sub'.id = 0 /\ sub'.ref = sub.ref
      /\ sub'.called = sub.called /\ sub'.amount = sub.amount
  BY <1>0, <1>1 DEF Subscription, Status
<1>3. LivePlans = {} /\ LivePlans' = {}
  BY <1>0, <1>1 DEF Inv, NoForgottenPlan, LivePlans
<1>4. TypeOK'
  BY <1>1, <1>2, QuietRequest DEF Inv, TypeOK, Placeable, Versions, Live
<1>5. InFlight'
  <2>1. PlansOnlyMove
    BY <1>1 DEF PlansOnlyMove
  <2>2. \A s \in Requests :
           \/ requests'[s] = NoRequest
           \/ requests'[s] = requests[s] /\ requests[s].step \notin {"post", "rejected"}
    BY <1>0, <1>1 DEF Inv, InFlight, RejectSubscriptionCheckout
  <2> QED BY <2>1, <2>2, NobodyCallsAfter
<1>6. OnePlanPerReference' /\ RowSound'
  BY <1>0, <1>1, <1>2 DEF Inv, OnePlanPerReference, RowSound
<1>7. ItemsSound' /\ WorkerSound'
  BY <1>1 DEF Inv, ItemsSound, WorkerSound, Versions, Unlocked, Pending
<1>8. DivergenceNamed' /\ NoForgottenPlan'
  BY <1>3 DEF DivergenceNamed, NoForgottenPlan
<1> QED BY <1>4, <1>5, <1>6, <1>7, <1>8 DEF Inv

\* Reading a preapproval leaves an answer in hand, true when it was read.
LEMMA ReadStep ==
    ASSUME Inv, NEW r \in Requests, NEW p \in DOMAIN plans,
           NEW step \in {"save", "update", "record"},
           Holds(r, step, p, plans[p].status),
           UNCHANGED <<open, sub, plans, price, changes, worker>>
    PROVE  Inv'
<1>1. PICK q : q = [step |-> step, ref |-> plans[p].ref, id |-> p,
                    seen |-> plans[p].status]
  OBVIOUS
<1>2. plans[p] \in Plan /\ p \in Nat
  BY LenProperties, ElementOfSeq DEF Inv, TypeOK
<1>3. plans[p].ref \in Nat /\ plans[p].status \in PlanStatus
  BY <1>2, BoundIsNatural DEF Plan
<1>4. Placeable(r, q)
  BY <1>1, <1>2, <1>3 DEF Placeable, Request, Steps, Calling, Answering
<1> QED BY <1>1, <1>4, RequestStep DEF Holds

\* The owner's read and the notification only read.
LEMMA ReadsStep ==
    ASSUME Inv, NEW r \in Requests,
           ReadSubscription(r) \/ \E p \in DOMAIN plans : ApplySubscriptionWebhook(r, p)
    PROVE  Inv'
<1>1. CASE ReadSubscription(r)
  <2>1. CASE \E p \in Found(sub.ref) : Holds(r, "save", p, plans[p].status)
    BY <1>1, <2>1, ReadStep DEF ReadSubscription, Found
  <2>2. CASE sub.status \in Live /\ Holds(r, "update", sub.id, plans[sub.id].status)
    <3>1. sub.id \in DOMAIN plans
      BY <2>2 DEF Inv, TypeOK
    <3> QED BY <1>1, <2>2, <3>1, ReadStep DEF ReadSubscription
  <2> QED BY <1>1, <2>1, <2>2 DEF ReadSubscription
<1>2. CASE \E p \in DOMAIN plans : ApplySubscriptionWebhook(r, p)
  BY <1>2, ReadStep DEF ApplySubscriptionWebhook
<1> QED BY <1>1, <1>2

-----------------------------------------------------------------------------
(* The provider's preapprovals move *)

\* Preapproval p takes the status s; one that is cancelled stays so.
PlanTakes(p, s) ==
    /\ p \in DOMAIN plans /\ s \in PlanStatus
    /\ s = "CANCELLED" \/ plans[p].status # "CANCELLED"
    /\ plans' = [plans EXCEPT ![p].status = s]

\* Nothing but the status of p changes, and nothing comes alive.
LEMMA PlanMoved ==
    ASSUME Inv, NEW p, NEW s, PlanTakes(p, s)
    PROVE  /\ plans' \in Seq(Plan) /\ DOMAIN plans' = DOMAIN plans
           /\ \A i \in DOMAIN plans :
                 /\ plans'[i].ref = plans[i].ref
                 /\ plans'[i].amount = plans[i].amount
                 /\ plans'[i].status = IF i = p THEN s ELSE plans[i].status
           /\ PlansOnlyMove /\ LivePlans' \subseteq LivePlans
<1> USE DEF PlanTakes
<1>1. plans \in Seq(Plan) /\ p \in 1..Len(plans) /\ DOMAIN plans = 1..Len(plans)
  BY LenProperties DEF Inv, TypeOK
<1>2. plans[p] \in Plan
  BY <1>1, ElementOfSeq
<1>3. [plans[p] EXCEPT !.status = s] \in Plan
  BY <1>2 DEF Plan
<1>4. plans' \in Seq(Plan) /\ DOMAIN plans' = DOMAIN plans
  BY <1>1, <1>3, ExceptSeq, LenProperties
<1>5. \A i \in DOMAIN plans :
         plans'[i] = IF i = p THEN [plans[p] EXCEPT !.status = s] ELSE plans[i]
  BY <1>1
<1>6. \A i \in DOMAIN plans :
         /\ plans'[i].ref = plans[i].ref
         /\ plans'[i].amount = plans[i].amount
         /\ plans'[i].status = IF i = p THEN s ELSE plans[i].status
  BY <1>2, <1>5 DEF Plan
<1>7. PlansOnlyMove /\ LivePlans' \subseteq LivePlans
  BY <1>4, <1>6 DEF PlansOnlyMove, LivePlans
<1> QED BY <1>4, <1>6, <1>7

\* What a cancellation of p makes of the preapprovals.
LEMMA CancelledHere ==
    ASSUME Inv, NEW p, PlanTakes(p, "CANCELLED")
    PROVE  /\ plans' \in Seq(Plan) /\ DOMAIN plans' = DOMAIN plans /\ PlansOnlyMove
           /\ \A i \in DOMAIN plans :
                 plans'[i].ref = plans[i].ref /\ plans'[i].amount = plans[i].amount
           /\ LivePlans' \subseteq LivePlans
           /\ p \in DOMAIN plans /\ plans'[p].status = "CANCELLED"
<1>1. PICK s : s = "CANCELLED"
  OBVIOUS
<1>2. PlanTakes(p, s)
  BY <1>1
<1>3. /\ plans' \in Seq(Plan) /\ DOMAIN plans' = DOMAIN plans /\ PlansOnlyMove
      /\ \A i \in DOMAIN plans :
            /\ plans'[i].ref = plans[i].ref
            /\ plans'[i].amount = plans[i].amount
            /\ plans'[i].status = IF i = p THEN s ELSE plans[i].status
      /\ LivePlans' \subseteq LivePlans
  BY <1>2, PlanMoved
<1>4. p \in DOMAIN plans
  BY <1>2 DEF PlanTakes
<1> QED BY <1>1, <1>3, <1>4

\* The row stays as it is while its preapproval moves.
LEMMA PlanMovedRows ==
    ASSUME Inv, NEW p, NEW s, PlanTakes(p, s),
           UNCHANGED <<open, sub, price, changes, worker>>
    PROVE  RowsInv'
<1> USE PlanMoved
<1>1. OnePlanPerReference' /\ RowSound'
  BY DEF Inv, OnePlanPerReference, RowSound
<1>2. ItemsSound'
  BY DEF Inv, ItemsSound, Versions
<1>3. WorkerSound'
  BY DEF Inv, WorkerSound, ItemsSound, Outdated, Pending, Versions
<1>4. DivergenceNamed'
  BY DEF Inv, DivergenceNamed, LivePlans, Versions
<1>5. NoForgottenPlan'
  BY DEF Inv, NoForgottenPlan, LivePlans
<1> QED BY <1>1, <1>2, <1>3, <1>4, <1>5 DEF RowsInv

\* The references the rows name are those their preapprovals carry.
LEMMA PlanMovedTypes ==
    ASSUME Inv, NEW p, NEW s, PlanTakes(p, s),
           UNCHANGED <<open, sub, price, changes, worker>>,
           requests' \in [Requests -> Request]
    PROVE  TypeOK'
<1>1. ASSUME NEW c \in Versions, changes[c].id # 0
      PROVE  plans'[changes[c].id].ref = changes[c].ref
  <2>1. plans[changes[c].id].ref = changes[c].ref /\ changes[c].id \in DOMAIN plans
    BY <1>1 DEF Inv, TypeOK, ItemsSound
  <2> QED BY <2>1, PlanMoved
<1> QED BY <1>1, PlanMoved DEF Inv, TypeOK, Versions

\* The requests that are not touched keep their answers.
LEMMA PlanMovedRequests ==
    ASSUME Inv, NEW p, NEW s, PlanTakes(p, s), UNCHANGED <<open, sub, requests>>
    PROVE  InFlight'
<1>1. ASSUME NEW r \in Requests
      PROVE  Calling(requests[r])' /\ Answering(requests[r])'
  BY PlanMoved DEF Inv, InFlight, Calling, Answering, PlansOnlyMove
<1> QED BY <1>1 DEF Inv, InFlight

\* The buyer authorizes and the buyer or the provider cancels.
LEMMA PlanMovesStep ==
    ASSUME Inv, NEW p \in DOMAIN plans, PlanMoves(p)
    PROVE  Inv'
<1>1. PICK s : PlanTakes(p, s)
  BY DEF PlanMoves, PlanTakes, PlanStatus, Live
<1> QED BY <1>1, PlanMovedTypes, PlanMovedRequests, PlanMovedRows
        DEF PlanMoves, Inv, RowsInv, TypeOK

\* A cancellation at the provider whose answer may be lost.
LEMMA CancelStep ==
    ASSUME Inv, NEW r \in Requests, CancelSubscription(r)
    PROVE  Inv'
<1>1. PlanTakes(sub.id, "CANCELLED")
  BY DEF CancelSubscription, PlanTakes, PlanStatus, Inv, TypeOK
<1>2. UNCHANGED <<open, sub, price, changes, worker>> /\ sub.status \in Live
  BY DEF CancelSubscription
<1>3. RowsInv'
  BY <1>1, <1>2, PlanMovedRows
<1>4. CASE UNCHANGED requests
  BY <1>1, <1>2, <1>3, <1>4, PlanMovedTypes, PlanMovedRequests DEF Inv, RowsInv, TypeOK
<1>5. CASE Holds(r, "update", sub.id, "CANCELLED")
  <2>1. PICK q : /\ q = [step |-> "update", ref |-> plans'[sub.id].ref, id |-> sub.id,
                         seen |-> "CANCELLED"]
                 /\ requests' = [requests EXCEPT ![r] = q]
    BY <1>5 DEF Holds
  <2>2. /\ sub.id \in DOMAIN plans' /\ plans'[sub.id].status = "CANCELLED"
        /\ plans'[sub.id] \in Plan /\ sub.id \in Nat
    <3>1. /\ plans' \in Seq(Plan) /\ DOMAIN plans' = DOMAIN plans
          /\ plans'[sub.id].status = "CANCELLED" /\ sub.id \in DOMAIN plans
      BY <1>1, CancelledHere
    <3> QED BY <3>1, ElementOfSeq, LenProperties DEF Inv, TypeOK, Subscription
  <2>3. q \in Request
    BY <2>1, <2>2, BoundIsNatural DEF Request, Plan, Steps, PlanStatus
  <2>4. TypeOK'
    BY <1>1, <1>2, <2>1, <2>3, PlanMovedTypes DEF Inv, TypeOK
  <2>5. \A s \in Requests :
           /\ requests[s].step \notin {"post", "rejected"}
           /\ requests'[s] = IF s = r THEN q ELSE requests[s]
    BY <1>2, <2>1, NobodyCalls DEF Inv, TypeOK, Live
  <2>6. ASSUME NEW s \in Requests
        PROVE  requests'[s].step \notin {"post", "rejected"} /\ Answering(requests[s])'
    <3>1. CASE s = r
      BY <3>1, <2>1, <2>2, <2>5 DEF Answering
    <3>2. CASE s # r
      BY <3>2, <1>1, <2>5, PlanMoved DEF Inv, InFlight, Answering, PlansOnlyMove
    <3> QED BY <3>1, <3>2
  <2>7. InFlight'
    BY <2>6 DEF InFlight, Calling
  <2> QED BY <1>3, <2>4, <2>7 DEF Inv, RowsInv
<1> QED BY <1>4, <1>5 DEF CancelSubscription

-----------------------------------------------------------------------------
(* Closing the brand *)

\* A brand is closed only over a subscription that is over, and nothing of a
\* subscription that is over is alive at the provider.
LEMMA DeleteBrandStep == Inv /\ DeleteBrand => Inv'
<1> SUFFICES ASSUME Inv, DeleteBrand
             PROVE  Inv'
  OBVIOUS
<1>1. /\ open' = FALSE /\ Unlocked
      /\ sub.status \in {"NOT_CONFIGURED", "CANCELLED"}
      /\ UNCHANGED <<sub, plans, requests, price, changes, worker>>
  BY DEF DeleteBrand, NoActiveSubscription
<1>2. LivePlans = {}
  <2>1. ASSUME NEW p \in LivePlans PROVE FALSE
    <3>1. plans[p].ref = sub.ref /\ sub.status = "NOT_CONFIGURED" /\ p \in DOMAIN plans
      BY <1>1 DEF Inv, NoForgottenPlan, LivePlans
    <3>2. plans[p] \in Plan
      BY <3>1, ElementOfSeq, LenProperties DEF Inv, TypeOK
    <3> QED BY <3>1, <3>2, BoundIsNatural DEF Inv, RowSound, Plan
  <2> QED BY <2>1
<1>3. TypeOK'
  BY <1>1 DEF Inv, TypeOK, Versions
<1>4. InFlight' /\ OnePlanPerReference' /\ RowSound'
  BY <1>1 DEF Inv, InFlight, Calling, Answering, OnePlanPerReference, RowSound
<1>5. ItemsSound' /\ WorkerSound'
  BY <1>1 DEF Inv, ItemsSound, WorkerSound, Versions, Unlocked, Pending
<1>6. DivergenceNamed' /\ NoForgottenPlan'
  BY <1>1, <1>2 DEF DivergenceNamed, NoForgottenPlan, LivePlans
<1> QED BY <1>3, <1>4, <1>5, <1>6 DEF Inv

\* Deleting the last owner's account cancels at the provider first, so that a
\* transaction that fails afterwards leaves a row that says too much, never a
\* preapproval that nobody can cancel.
LEMMA AnonymizeStep == Inv /\ AnonymizeAccount => Inv'
<1> SUFFICES ASSUME Inv, AnonymizeAccount
             PROVE  Inv'
  OBVIOUS
<1>1. /\ PlanTakes(sub.id, "CANCELLED") /\ sub.status \in Live /\ open /\ Unlocked
      /\ UNCHANGED <<requests, price, changes, worker>>
  BY DEF AnonymizeAccount, PlanTakes, PlanStatus, Inv, TypeOK
<1>2. CASE UNCHANGED <<open, sub>>
  BY <1>1, <1>2, PlanMovedTypes, PlanMovedRequests, PlanMovedRows DEF Inv, RowsInv, TypeOK
<1>3. CASE open' = FALSE /\ sub' = [sub EXCEPT !.status = "CANCELLED"]
  <2>1. /\ sub' \in Subscription /\ sub'.status = "CANCELLED"
        /\ sub'.id = sub.id /\ sub'.ref = sub.ref
        /\ sub'.called = sub.called /\ sub'.amount = sub.amount
    BY <1>3 DEF Inv, TypeOK, Subscription, Status
  <2>2. /\ plans' \in Seq(Plan) /\ DOMAIN plans' = DOMAIN plans /\ PlansOnlyMove
        /\ \A i \in DOMAIN plans :
              plans'[i].ref = plans[i].ref /\ plans'[i].amount = plans[i].amount
        /\ LivePlans' \subseteq LivePlans /\ plans'[sub.id].status = "CANCELLED"
    BY <1>1, CancelledHere
  <2>3. LivePlans' = {}
    <3>1. ASSUME NEW p \in LivePlans' PROVE FALSE
      <4>1. p \in LivePlans /\ p # sub.id
        BY <2>2, <3>1 DEF LivePlans
      <4>2. plans[p].ref = sub.ref /\ plans[sub.id].ref = sub.ref
            /\ p \in DOMAIN plans /\ sub.id \in DOMAIN plans
        BY <1>1, <4>1 DEF Inv, TypeOK, NoForgottenPlan, LivePlans
      <4> QED BY <4>1, <4>2 DEF Inv, OnePlanPerReference
    <3> QED BY <3>1
  <2>4. TypeOK'
    <3>1. ASSUME NEW c \in Versions, changes[c].id # 0
          PROVE  plans'[changes[c].id].ref = changes[c].ref
      <4>1. plans[changes[c].id].ref = changes[c].ref /\ changes[c].id \in DOMAIN plans
        BY <3>1 DEF Inv, TypeOK, ItemsSound
      <4> QED BY <4>1, <2>2
    <3> QED BY <1>1, <1>3, <2>1, <2>2, <3>1 DEF Inv, TypeOK, Versions, Live
  <2>5. InFlight'
    <3>1. \A r \in Requests : requests[r].step \notin {"post", "rejected"}
      BY <1>1, NobodyCalls DEF Live
    <3> QED BY <1>1, <2>2, <3>1, NobodyCallsAfter
  <2>6. OnePlanPerReference' /\ RowSound'
    BY <1>1, <1>3, <2>1, <2>2 DEF Inv, OnePlanPerReference, RowSound
  <2>7. ItemsSound' /\ WorkerSound'
    BY <1>1, <2>2 DEF Inv, ItemsSound, WorkerSound, Versions, Unlocked, Pending
  <2>8. DivergenceNamed' /\ NoForgottenPlan'
    BY <2>3 DEF DivergenceNamed, NoForgottenPlan
  <2> QED BY <2>4, <2>5, <2>6, <2>7, <2>8 DEF Inv
<1> QED BY <1>2, <1>3 DEF AnonymizeAccount

-----------------------------------------------------------------------------
(* Price changes *)

ItemStatus == {"PENDING", "APPLIED", "SKIPPED", "FAILED"}

\* The item of change c takes the status s.
ItemTakes(c, s) ==
    /\ c \in Versions /\ changes[c].status # "none" /\ s \in ItemStatus
    /\ changes' = [changes EXCEPT ![c].status = s]

\* Nothing but the status of the item changes.
LEMMA ItemMoved ==
    ASSUME Inv, NEW c, NEW s, ItemTakes(c, s)
    PROVE  /\ changes' \in Seq(Change) /\ DOMAIN changes' = DOMAIN changes
           /\ Len(changes') = Len(changes)
           /\ \A d \in DOMAIN changes :
                 /\ changes'[d].id = changes[d].id
                 /\ changes'[d].ref = changes[d].ref
                 /\ changes'[d].unit = changes[d].unit
                 /\ changes'[d].status = IF d = c THEN s ELSE changes[d].status
<1> USE DEF ItemTakes
<1>1. changes \in Seq(Change) /\ c \in 1..Len(changes) /\ DOMAIN changes = 1..Len(changes)
  BY LenProperties DEF Inv, TypeOK, Versions
<1>2. changes[c] \in Change
  BY <1>1, ElementOfSeq
<1>3. [changes[c] EXCEPT !.status = s] \in Change
  BY <1>2 DEF Change, ItemStatus
<1>4. /\ changes' \in Seq(Change) /\ DOMAIN changes' = DOMAIN changes
      /\ Len(changes') = Len(changes)
  BY <1>1, <1>3, ExceptSeq, LenProperties
<1>5. \A d \in DOMAIN changes :
         changes'[d] = IF d = c THEN [changes[c] EXCEPT !.status = s] ELSE changes[d]
  BY <1>1
<1>6. \A d \in DOMAIN changes :
         /\ changes'[d].id = changes[d].id
         /\ changes'[d].ref = changes[d].ref
         /\ changes'[d].unit = changes[d].unit
         /\ changes'[d].status = IF d = c THEN s ELSE changes[d].status
  BY <1>2, <1>5 DEF Change
<1> QED BY <1>4, <1>6

\* What an item's status does not touch.
LEMMA ItemMovedFrame ==
    ASSUME Inv, NEW c, NEW s, ItemTakes(c, s),
           UNCHANGED <<open, sub, plans, requests, price>>,
           worker' \in [step: {"idle", "put", "commit", "fail"}, change: Nat]
    PROVE  /\ TypeOK' /\ InFlight' /\ OnePlanPerReference' /\ RowSound'
           /\ ItemsSound' /\ NoForgottenPlan'
<1> USE ItemMoved
<1>1. TypeOK'
  BY DEF Inv, TypeOK, Versions
<1>2. InFlight' /\ OnePlanPerReference'
  BY DEF Inv, InFlight, Calling, Answering, OnePlanPerReference
<1>3. RowSound'
  BY DEF Inv, RowSound
<1>4. ItemsSound'
  BY DEF Inv, ItemsSound, Versions, ItemTakes
<1>5. NoForgottenPlan'
  BY DEF Inv, NoForgottenPlan, LivePlans
<1> QED BY <1>1, <1>2, <1>3, <1>4, <1>5

\* A new price, with an item for the brand or without: the items of older
\* changes no longer have to carry the price in force.
LEMMA ChangePriceStep ==
    ASSUME Inv, NEW unit \in Prices, NEW b \in BOOLEAN, ChangeSubscriptionPrice(unit, b)
    PROVE  Inv'
<1> DEFINE n == Len(changes) + 1
<1>0. /\ changes \in Seq(Change) /\ Len(changes) \in Nat /\ DOMAIN changes = 1..Len(changes)
      /\ sub \in Subscription /\ unit \in Nat
      /\ Unlocked /\ WithinBound /\ price' = unit
      /\ UNCHANGED <<open, sub, plans, requests, worker>>
  BY LenProperties, PricesArePositive DEF Inv, TypeOK, ChangeSubscriptionPrice
<1>1. PICK item :
         /\ changes' = Append(changes, item)
         /\ \/ item = NoItem
            \/ /\ open /\ sub.status \in Live
               /\ item = [status |-> "PENDING", unit |-> unit, ref |-> sub.ref, id |-> sub.id]
  BY DEF ChangeSubscriptionPrice
<1>2. item \in Change
  BY <1>0, <1>1 DEF Change, NoItem, Subscription
<1>3. /\ item.status # "none" => item.unit = unit /\ item.id = sub.id /\ sub.status \in Live
      /\ item.id # 0 => item.id = sub.id /\ item.ref = sub.ref
  BY <1>1 DEF NoItem
<1>4. /\ changes' \in Seq(Change) /\ Len(changes') = n
      /\ \A d \in 1..Len(changes) : changes'[d] = changes[d]
      /\ changes'[n] = item
  BY <1>0, <1>1, <1>2, AppendProperties
<1>5. /\ DOMAIN changes' = DOMAIN changes \cup {n} /\ n \notin DOMAIN changes
      /\ DOMAIN changes' = 1..n
      /\ \A d \in DOMAIN changes : changes'[d] = changes[d] /\ d # n
  BY <1>0, <1>4, LenProperties
<1>6. TypeOK'
  <2>1. \A d \in DOMAIN changes' : changes'[d].id # 0 =>
           plans[changes'[d].id].ref = changes'[d].ref
    BY <1>3, <1>4, <1>5 DEF Inv, TypeOK, Versions
  <2> QED BY <1>0, <1>4, <2>1 DEF Inv, TypeOK, Versions
<1>7. InFlight' /\ OnePlanPerReference' /\ NoForgottenPlan'
  BY <1>0 DEF Inv, InFlight, Calling, Answering, OnePlanPerReference,
              NoForgottenPlan, LivePlans
<1>8. RowSound'
  <2>1. sub.ref + (Len(changes) + 1) <= MaxKeys
    BY <1>0, BoundIsNatural DEF WithinBound, Subscription
  <2>2. sub.ref + Len(changes') <= MaxKeys
    BY <1>4, <2>1
  <2> QED BY <1>0, <2>2 DEF Inv, RowSound
<1>9. ItemsSound'
  BY <1>0, <1>3, <1>4, <1>5 DEF Inv, TypeOK, ItemsSound, Versions
<1>10. WorkerSound'
  BY <1>0, <1>5 DEF Inv, WorkerSound, Unlocked, Pending, Versions
<1>11. DivergenceNamed'
  BY <1>0, <1>5 DEF Inv, DivergenceNamed, LivePlans, Versions
<1> QED BY <1>6, <1>7, <1>8, <1>9, <1>10, <1>11 DEF Inv

\* Only a failed item is retried, and the worker's item is pending.
LEMMA RetryStep ==
    ASSUME Inv, NEW c \in Versions, RetrySubscriptionPriceChange(c)
    PROVE  Inv'
<1>1. /\ ItemTakes(c, "PENDING") /\ changes[c].status = "FAILED"
      /\ UNCHANGED <<open, sub, plans, requests, price, worker>>
  BY DEF RetrySubscriptionPriceChange, ItemTakes, ItemStatus
<1>2. PICK s : s = "PENDING"
  OBVIOUS
<1>3. /\ DOMAIN changes' = DOMAIN changes /\ Len(changes') = Len(changes)
      /\ \A d \in DOMAIN changes :
            /\ changes'[d].id = changes[d].id
            /\ changes'[d].ref = changes[d].ref
            /\ changes'[d].unit = changes[d].unit
            /\ changes'[d].status = IF d = c THEN s ELSE changes[d].status
  BY <1>1, <1>2, ItemMoved
<1>4. WorkerSound'
  BY <1>1, <1>2, <1>3 DEF Inv, WorkerSound, Pending, Versions, Outdated
<1>5. DivergenceNamed'
  BY <1>1, <1>2, <1>3 DEF Inv, DivergenceNamed, LivePlans, Versions
<1>6. worker' \in [step: {"idle", "put", "commit", "fail"}, change: Nat]
  BY <1>1 DEF Inv, TypeOK
<1> QED BY <1>1, <1>4, <1>5, <1>6, ItemMovedFrame DEF Inv

\* The worker skips an item that no longer speaks about this subscription, finds
\* it applied, or takes it up.
LEMMA BeginStep ==
    ASSUME Inv, NEW c \in Pending, BeginApply(c)
    PROVE  Inv'
<1>0. /\ worker.step = "idle" /\ c \in Versions /\ changes[c].status = "PENDING"
      /\ UNCHANGED <<open, sub, plans, requests, price>>
  BY DEF BeginApply, Pending
<1>1. CASE changes' = [changes EXCEPT ![c].status = "SKIPPED"] /\ UNCHANGED worker
  <2>1. PICK s : s = "SKIPPED" /\ ItemTakes(c, s)
    BY <1>0, <1>1 DEF ItemTakes, ItemStatus
  <2>2. /\ DOMAIN changes' = DOMAIN changes
        /\ \A d \in DOMAIN changes :
              /\ changes'[d].id = changes[d].id
              /\ changes'[d].unit = changes[d].unit
              /\ changes'[d].status = IF d = c THEN s ELSE changes[d].status
    BY <2>1, ItemMoved
  <2>3. WorkerSound'
    BY <1>0, <1>1 DEF WorkerSound
  <2>4. DivergenceNamed'
    BY <1>0, <2>1, <2>2 DEF Inv, DivergenceNamed, LivePlans, Versions
  <2> QED BY <1>0, <1>1, <2>1, <2>3, <2>4, ItemMovedFrame DEF Inv, TypeOK
<1>2. CASE /\ ~Outdated(c) /\ sub.amount = changes[c].unit
           /\ changes' = [changes EXCEPT ![c].status = "APPLIED"] /\ UNCHANGED worker
  <2>1. PICK s : s = "APPLIED" /\ ItemTakes(c, s)
    BY <1>0, <1>2 DEF ItemTakes, ItemStatus
  <2>2. /\ DOMAIN changes' = DOMAIN changes
        /\ \A d \in DOMAIN changes :
              /\ changes'[d].id = changes[d].id
              /\ changes'[d].unit = changes[d].unit
              /\ changes'[d].status = IF d = c THEN s ELSE changes[d].status
    BY <2>1, ItemMoved
  <2>3. WorkerSound'
    BY <1>0, <1>2 DEF WorkerSound
  <2>4. DivergenceNamed'
    <3> SUFFICES ASSUME NEW p \in LivePlans, p = sub.id, plans[p].amount # sub.amount
                 PROVE  \E d \in Versions' : /\ changes'[d].id = p
                                             /\ changes'[d].unit = plans[p].amount
                                             /\ changes'[d].status \in {"PENDING", "FAILED", "SKIPPED"}
      BY <1>0 DEF DivergenceNamed, LivePlans
    <3>1. PICK d \in Versions : /\ changes[d].id = p
                                /\ changes[d].unit = plans[p].amount
                                /\ changes[d].status \in {"PENDING", "FAILED", "SKIPPED"}
      BY DEF Inv, DivergenceNamed
    <3>2. d # c
      BY <1>2, <3>1
    <3> QED BY <2>2, <3>1, <3>2 DEF Versions
  <2> QED BY <1>0, <1>2, <2>1, <2>3, <2>4, ItemMovedFrame DEF Inv, TypeOK
<1>3. CASE ~Outdated(c) /\ WorkerGoes("put", c) /\ UNCHANGED changes
  <2>1. worker' = [step |-> "put", change |-> c]
    BY <1>3 DEF WorkerGoes
  <2>2. worker' \in [step: {"idle", "put", "commit", "fail"}, change: Nat]
    BY <1>0, <2>1, LenProperties DEF Inv, TypeOK, Versions
  <2>3. TypeOK'
    BY <1>0, <1>3, <2>2 DEF Inv, TypeOK, Versions
  <2>4. InFlight' /\ OnePlanPerReference' /\ RowSound'
    BY <1>0, <1>3 DEF Inv, InFlight, Calling, Answering, OnePlanPerReference, RowSound
  <2>5. ItemsSound' /\ DivergenceNamed' /\ NoForgottenPlan'
    BY <1>0, <1>3 DEF Inv, ItemsSound, Versions, DivergenceNamed, NoForgottenPlan, LivePlans
  <2>6. WorkerSound'
    BY <1>0, <1>3, <2>1 DEF WorkerSound, Outdated, Pending, Versions
  <2> QED BY <2>3, <2>4, <2>5, <2>6 DEF Inv
<1> QED BY <1>1, <1>2, <1>3 DEF BeginApply

\* A worker that stops gives its locks back and leaves no trace.
LEMMA WorkerStops ==
    ASSUME Inv, worker'.step \in {"idle", "fail"},
           worker'.step = "fail" => worker'.change = worker.change /\ worker.step # "idle",
           worker' \in [step: {"idle", "put", "commit", "fail"}, change: Nat],
           UNCHANGED <<open, sub, plans, requests, price, changes>>
    PROVE  Inv'
<1>1. TypeOK'
  BY DEF Inv, TypeOK, Versions
<1>2. InFlight' /\ OnePlanPerReference' /\ RowSound'
  BY DEF Inv, InFlight, Calling, Answering, OnePlanPerReference, RowSound
<1>3. ItemsSound' /\ DivergenceNamed' /\ NoForgottenPlan'
  BY DEF Inv, ItemsSound, Versions, DivergenceNamed, NoForgottenPlan, LivePlans
<1>4. WorkerSound'
  BY DEF Inv, WorkerSound, Pending, Versions
<1> QED BY <1>1, <1>2, <1>3, <1>4 DEF Inv

\* The amount of the change in force reaches the provider, although the answer
\* may be lost; until the commit the item is pending and says so.
LEMMA PutStep == Inv /\ PutAmount => Inv'
<1> SUFFICES ASSUME Inv, PutAmount
             PROVE  Inv'
  OBVIOUS
<1> DEFINE c == worker.change
           p == changes[c].id
<1>0. /\ worker.step = "put" /\ c \in Versions /\ changes[c].status = "PENDING"
      /\ ~Outdated(c) /\ c \in Nat
      /\ UNCHANGED <<open, sub, requests, price, changes>>
  BY DEF PutAmount, Inv, TypeOK, WorkerSound, Pending
<1>1. CASE UNCHANGED plans /\ WorkerGoes("fail", c)
  <2>1. worker' = [step |-> "fail", change |-> c]
    BY <1>1 DEF WorkerGoes
  <2> QED BY <1>0, <1>1, <2>1, WorkerStops
<1>2. CASE /\ plans' = [plans EXCEPT ![p].amount = changes[c].unit]
           /\ \E step \in {"commit", "fail"} : WorkerGoes(step, c)
  <2>1. /\ p \in DOMAIN plans /\ changes[c].unit \in Prices
        /\ sub.status \in Live /\ sub.id = p /\ open
    BY <1>0 DEF Inv, ItemsSound, Outdated
  <2>2. /\ plans \in Seq(Plan) /\ p \in 1..Len(plans) /\ DOMAIN plans = 1..Len(plans)
    BY <2>1, LenProperties DEF Inv, TypeOK
  <2>3. plans[p] \in Plan
    BY <2>2, ElementOfSeq
  <2>4. [plans[p] EXCEPT !.amount = changes[c].unit] \in Plan
    BY <2>1, <2>3 DEF Plan
  <2>5. plans' \in Seq(Plan) /\ DOMAIN plans' = DOMAIN plans
    BY <1>2, <2>2, <2>4, ExceptSeq, LenProperties
  <2>6. \A i \in DOMAIN plans :
           plans'[i] = IF i = p THEN [plans[p] EXCEPT !.amount = changes[c].unit] ELSE plans[i]
    BY <1>2, <2>2
  <2>7. \A i \in DOMAIN plans :
           /\ plans'[i].ref = plans[i].ref
           /\ plans'[i].status = plans[i].status
           /\ plans'[i].amount = IF i = p THEN changes[c].unit ELSE plans[i].amount
    BY <2>3, <2>6 DEF Plan
  <2>8. PICK step \in {"commit", "fail"} : worker' = [step |-> step, change |-> c]
    BY <1>2 DEF WorkerGoes
  <2>9. worker' \in [step: {"idle", "put", "commit", "fail"}, change: Nat]
        /\ worker'.change = c /\ worker'.step = step
    BY <1>0, <2>8
  <2> HIDE DEF c, p
  <2>10. TypeOK'
    <3>1. ASSUME NEW d \in Versions, changes[d].id # 0
          PROVE  plans'[changes[d].id].ref = changes[d].ref
      <4>1. plans[changes[d].id].ref = changes[d].ref /\ changes[d].id \in DOMAIN plans
        BY <3>1 DEF Inv, TypeOK, ItemsSound
      <4> QED BY <4>1, <2>7
    <3> QED BY <1>0, <2>5, <2>7, <2>9, <3>1 DEF Inv, TypeOK, Versions
  <2>11. InFlight'
    BY <1>0, <2>5, <2>7 DEF Inv, InFlight, Calling, Answering
  <2>12. OnePlanPerReference' /\ RowSound'
    BY <1>0, <2>1, <2>5, <2>7 DEF Inv, OnePlanPerReference, RowSound, Live
  <2>13. ItemsSound'
    BY <1>0, <2>5 DEF Inv, ItemsSound, Versions
  <2>14. NoForgottenPlan'
    BY <1>0, <2>5, <2>7 DEF Inv, NoForgottenPlan, LivePlans
  <2>15. WorkerSound'
    BY <1>0, <2>1, <2>7, <2>9 DEF WorkerSound, Outdated, Pending, Versions, p
  <2>16. DivergenceNamed'
    <3> SUFFICES ASSUME sub.id \in DOMAIN plans
                 PROVE  \E d \in Versions : /\ changes[d].id = sub.id
                                            /\ changes[d].unit = plans'[sub.id].amount
                                            /\ changes[d].status \in {"PENDING", "FAILED", "SKIPPED"}
      BY <1>0, <2>5 DEF DivergenceNamed, LivePlans, Versions
    <3> QED BY <1>0, <2>1, <2>7 DEF p
  <2> QED BY <2>10, <2>11, <2>12, <2>13, <2>14, <2>15, <2>16 DEF Inv
<1> QED BY <1>1, <1>2 DEF PutAmount

\* The row takes the amount the provider bills and the item is applied, in one
\* commit.
LEMMA CommitStep == Inv /\ CommitApply => Inv'
<1> SUFFICES ASSUME Inv, CommitApply
             PROVE  Inv'
  OBVIOUS
<1> DEFINE c == worker.change
<1>0. /\ worker.step = "commit" /\ c \in Versions /\ changes[c].status = "PENDING"
      /\ ~Outdated(c) /\ plans[changes[c].id].amount = changes[c].unit
      /\ worker' = [step |-> "idle", change |-> 0]
      /\ sub' = [sub EXCEPT !.amount = changes[c].unit]
      /\ UNCHANGED <<open, plans, requests, price>>
  BY DEF CommitApply, Inv, WorkerSound, Pending, WorkerRests
<1>1. PICK s : s = "APPLIED" /\ ItemTakes(c, s)
  BY <1>0 DEF CommitApply, ItemTakes, ItemStatus
<1>2. /\ changes' \in Seq(Change) /\ DOMAIN changes' = DOMAIN changes
      /\ Len(changes') = Len(changes)
      /\ \A d \in DOMAIN changes :
            /\ changes'[d].id = changes[d].id
            /\ changes'[d].ref = changes[d].ref
            /\ changes'[d].unit = changes[d].unit
            /\ changes'[d].status = IF d = c THEN s ELSE changes[d].status
  BY <1>1, ItemMoved
<1>3. /\ changes[c].unit \in Prices /\ changes[c].id = sub.id /\ sub.status \in Live
      /\ sub.id \in DOMAIN plans /\ open
  BY <1>0 DEF Inv, TypeOK, ItemsSound, Outdated
<1>4. /\ sub' \in Subscription /\ sub'.amount = changes[c].unit
      /\ sub'.id = sub.id /\ sub'.ref = sub.ref /\ sub'.status = sub.status
      /\ sub'.called = sub.called
  BY <1>0, <1>3, PricesArePositive DEF Inv, TypeOK, Subscription
<1>5. TypeOK'
  <2>1. worker' \in [step: {"idle", "put", "commit", "fail"}, change: Nat]
    BY <1>0
  <2> QED BY <1>0, <1>2, <1>4, <2>1 DEF Inv, TypeOK, Versions
<1>6. InFlight' /\ OnePlanPerReference' /\ RowSound'
  BY <1>0, <1>2, <1>3, <1>4
  DEF Inv, InFlight, Calling, Answering, OnePlanPerReference, RowSound, Live
<1>7. ItemsSound' /\ WorkerSound'
  BY <1>0, <1>1, <1>2 DEF Inv, ItemsSound, WorkerSound, Versions
<1>8. NoForgottenPlan'
  BY <1>0, <1>4 DEF Inv, NoForgottenPlan, LivePlans
<1>9. DivergenceNamed'
  BY <1>0, <1>3, <1>4 DEF DivergenceNamed, LivePlans
<1> QED BY <1>5, <1>6, <1>7, <1>8, <1>9 DEF Inv

\* A failed item still says that the provider may bill another amount.
LEMMA FailStep == Inv /\ FailApply => Inv'
<1> SUFFICES ASSUME Inv, FailApply
             PROVE  Inv'
  OBVIOUS
<1> DEFINE c == worker.change
<1>0. /\ worker.step = "fail" /\ c \in Versions /\ changes[c].status = "PENDING"
      /\ worker' = [step |-> "idle", change |-> 0]
      /\ UNCHANGED <<open, sub, plans, requests, price>>
  BY DEF FailApply, Inv, WorkerSound, Pending, WorkerRests
<1>1. PICK s : s = "FAILED" /\ ItemTakes(c, s)
  BY <1>0 DEF FailApply, ItemTakes, ItemStatus
<1>2. /\ DOMAIN changes' = DOMAIN changes
      /\ \A d \in DOMAIN changes :
            /\ changes'[d].id = changes[d].id
            /\ changes'[d].unit = changes[d].unit
            /\ changes'[d].status = IF d = c THEN s ELSE changes[d].status
  BY <1>1, ItemMoved
<1>3. WorkerSound'
  BY <1>0 DEF WorkerSound
<1>4. DivergenceNamed'
  BY <1>0, <1>1, <1>2 DEF Inv, DivergenceNamed, LivePlans, Versions
<1>5. worker' \in [step: {"idle", "put", "commit", "fail"}, change: Nat]
  BY <1>0
<1> QED BY <1>0, <1>1, <1>3, <1>4, <1>5, ItemMovedFrame DEF Inv

-----------------------------------------------------------------------------
(* The specification keeps the invariant *)

\* Whatever a handler does.
LEMMA HandlersStep == Inv /\ Handlers => Inv'
<1> SUFFICES ASSUME Inv, Handlers
             PROVE  Inv'
  OBVIOUS
<1>1. PICK r \in Requests :
         \/ ReserveSubscriptionCheckout(r)
         \/ Answered(r) \/ Stop(r)
         \/ ReadSubscription(r) \/ CancelSubscription(r)
         \/ \E p \in DOMAIN plans : ApplySubscriptionWebhook(r, p)
  BY DEF Handlers
<1>2. CASE Answered(r)
  BY <1>2, ClaimStep, CreateStep, SaveStep, RejectStep, UpdateStep, RecordStep DEF Answered
<1>3. CASE Stop(r)
  BY <1>3, EndStep DEF Stop
<1>4. CASE ReserveSubscriptionCheckout(r) \/ CancelSubscription(r)
  BY <1>4, ReserveStep, CancelStep
<1>5. CASE ReadSubscription(r) \/ \E p \in DOMAIN plans : ApplySubscriptionWebhook(r, p)
  BY <1>5, ReadsStep
<1> QED BY <1>1, <1>2, <1>3, <1>4, <1>5

\* Whatever the worker does.
LEMMA WorkerStep ==
    Inv /\ (Apply \/ PutAmount \/ CommitApply \/ FailApply \/ StopWorker) => Inv'
<1> SUFFICES ASSUME Inv, Apply \/ PutAmount \/ CommitApply \/ FailApply \/ StopWorker
             PROVE  Inv'
  OBVIOUS
<1>1. CASE Apply
  BY <1>1, BeginStep DEF Apply
<1>2. CASE StopWorker
  <2>1. worker' = [step |-> "idle", change |-> 0]
    BY <1>2 DEF StopWorker, WorkerRests
  <2> QED BY <1>2, <2>1, WorkerStops DEF StopWorker
<1> QED BY <1>1, <1>2, PutStep, CommitStep, FailStep

\* Every step keeps the invariant.
LEMMA NextInv == Inv /\ [Next]_vars => Inv'
<1> SUFFICES ASSUME Inv, [Next]_vars
             PROVE  Inv'
  OBVIOUS
<1>1. CASE Handlers
  BY <1>1, HandlersStep
<1>2. CASE Administration
  BY <1>2, ChangePriceStep, RetryStep DEF Administration
<1>3. CASE DeleteBrand \/ AnonymizeAccount
  BY <1>3, DeleteBrandStep, AnonymizeStep
<1>4. CASE \E p \in DOMAIN plans : PlanMoves(p)
  BY <1>4, PlanMovesStep
<1>5. CASE Apply \/ PutAmount \/ CommitApply \/ FailApply \/ StopWorker
  BY <1>5, WorkerStep
<1>6. CASE UNCHANGED vars
  BY <1>6, StutterInv
<1> QED BY <1>1, <1>2, <1>3, <1>4, <1>5, <1>6 DEF Next

\* Every reachable state of the checkout, the webhooks and the price worker
\* satisfies the inductive invariant.
THEOREM InvariantTheorem == Spec => []Inv
  BY InitInv, NextInv, PTL DEF Spec

-----------------------------------------------------------------------------
(* What follows *)

\* The rows stay well formed, and when the provider bills an amount the row does
\* not have (a put whose answer was lost, a stopped worker) some price change of
\* that subscription is not reported as applied.
THEOREM RowsShowDivergence == Spec => []SubscriptionInv
<1>1. Inv => SubscriptionInv
  BY DEF Inv, DivergenceNamed, SubscriptionInv, DivergenceShows
<1> QED BY <1>1, InvariantTheorem, PTL

\* No lost answer, second request, rejection, cancellation, account deletion or
\* closed brand leaves a preapproval alive that the brand's row cannot cancel,
\* and none leaves two.
THEOREM NoPlanIsForgotten == Spec => []NoForgottenPlan
<1>1. Inv => NoForgottenPlan
  BY DEF Inv
<1> QED BY <1>1, InvariantTheorem, PTL

\* An answer read before a cancellation never brings the subscription back:
\* every handler that writes the row looks at its status again.
THEOREM CancellationIsFinal == Spec => CancelledStays
<1> DEFINE A == sub.status = "CANCELLED" /\ sub'.ref = sub.ref => sub'.status = "CANCELLED"
<1>1. Inv /\ [Next]_vars => [A]_sub
  <2> SUFFICES ASSUME Inv, [Next]_vars, sub' # sub, sub.status = "CANCELLED",
                      sub'.ref = sub.ref
               PROVE  sub'.status = "CANCELLED"
    OBVIOUS
  <2>0. sub \in Subscription /\ sub.ref \in Nat
    BY DEF Inv, TypeOK, Subscription
  <2>1. CASE Handlers
    <3>1. PICK r \in Requests :
             \/ ReserveSubscriptionCheckout(r)
             \/ Answered(r) \/ Stop(r)
             \/ ReadSubscription(r) \/ CancelSubscription(r)
             \/ \E p \in DOMAIN plans : ApplySubscriptionWebhook(r, p)
      BY <2>1 DEF Handlers
    <3>2. CASE ReserveSubscriptionCheckout(r)
      BY <2>0, <3>2 DEF ReserveSubscriptionCheckout
    <3>3. CASE Answered(r)
      BY <2>0, <3>3
      DEF Answered, ClaimSubscriptionProviderCall, Claimable, CreateSubscription,
          SaveSubscriptionCheckout, RejectSubscriptionCheckout,
          UpdateSubscriptionFromProvider, RecordSubscriptionWebhook, Applied, Subscription
    <3>4. UNCHANGED sub
             \/ ReserveSubscriptionCheckout(r) \/ Answered(r)
      BY <3>1 DEF Stop, ReadSubscription, CancelSubscription, ApplySubscriptionWebhook
    <3> QED BY <3>2, <3>3, <3>4
  <2>2. CASE CommitApply
    BY <2>2 DEF CommitApply, Inv, WorkerSound, Outdated, Live
  <2>3. CASE AnonymizeAccount
    BY <2>3 DEF AnonymizeAccount, Live
  <2>4. Handlers \/ CommitApply \/ AnonymizeAccount \/ UNCHANGED sub
    BY DEF Next, vars, Administration, ChangeSubscriptionPrice,
           RetrySubscriptionPriceChange, DeleteBrand, PlanMoves, Apply, BeginApply,
           PutAmount, FailApply, StopWorker
  <2> QED BY <2>1, <2>2, <2>3, <2>4
<1> QED BY <1>1, InvariantTheorem, PTL DEF Spec, CancelledStays

\* The provider's amount changes only to the price in force, for the brand's
\* current subscription and while the brand is open: the worker holds the rows
\* it has checked until the provider answers.
THEOREM OnlyThePriceInForce == Spec => BillsThePriceInForce
<1> DEFINE A == \A p \in DOMAIN plans :
                   plans'[p].amount # plans[p].amount
                       => plans'[p].amount = price /\ p = sub.id /\ open
<1>1. Inv /\ [Next]_vars => [A]_plans
  <2> SUFFICES ASSUME Inv, [Next]_vars, NEW p \in DOMAIN plans,
                      plans'[p].amount # plans[p].amount
               PROVE  plans'[p].amount = price /\ p = sub.id /\ open
    OBVIOUS
  <2>0. plans \in Seq(Plan) /\ plans[p] \in Plan /\ p \in 1..Len(plans)
    BY ElementOfSeq, LenProperties DEF Inv, TypeOK
  <2>1. ASSUME NEW r \in Requests, CreateSubscription(r)
        PROVE  FALSE
    <3>1. requests[r].ref \in 1..MaxKeys /\ sub.amount \in Prices
      <4>1. requests[r].ref \in Nat /\ requests[r].ref = sub.ref /\ sub.ref # 0
            /\ sub.amount \in Prices /\ sub.ref + Len(changes) <= MaxKeys
        BY <2>1 DEF CreateSubscription, Inv, TypeOK, InFlight, Calling, RowSound, Request
      <4> QED BY <4>1, BoundIsNatural, LenProperties DEF Inv, TypeOK
    <3>2. [ref |-> requests[r].ref, status |-> "PENDING", amount |-> sub.amount] \in Plan
      BY <3>1 DEF Plan, PlanStatus, Live
    <3>3. plans'[p] = plans[p]
      BY <2>0, <2>1, <3>2, AppendProperties DEF CreateSubscription
    <3> QED BY <3>3
  <2>2. ASSUME NEW i, NEW s, PlanTakes(i, s)
        PROVE  FALSE
    BY <2>2, PlanMoved
  <2>3. \A r \in Requests : ~CancelSubscription(r)
    BY <2>2 DEF CancelSubscription, PlanTakes, PlanStatus, Inv, TypeOK
  <2>4. ~AnonymizeAccount
    BY <2>2 DEF AnonymizeAccount, PlanTakes, PlanStatus, Inv, TypeOK
  <2>5. \A i \in DOMAIN plans : ~PlanMoves(i)
    BY <2>2 DEF PlanMoves, PlanTakes, PlanStatus, Live
  <2>6. CASE PutAmount
    <3> DEFINE c == worker.change
    <3>1. /\ plans' = [plans EXCEPT ![changes[c].id].amount = changes[c].unit]
          /\ ~Outdated(c) /\ c \in Versions /\ changes[c].status = "PENDING"
      BY <2>6 DEF PutAmount, Inv, WorkerSound, Pending
    <3>2. changes[c].id = sub.id /\ open /\ c = Len(changes) /\ changes[c].unit = price
      BY <3>1 DEF Outdated, Inv, ItemsSound
    <3>3. p = changes[c].id
      BY <2>0, <3>1
    <3>4. plans'[p].amount = changes[c].unit
      BY <2>0, <3>1, <3>3 DEF Plan
    <3> QED BY <3>2, <3>3, <3>4
  <2>7. PutAmount
    BY <2>1, <2>3, <2>4, <2>5
    DEF Next, vars, Handlers, Answered, ReserveSubscriptionCheckout,
        ClaimSubscriptionProviderCall, SaveSubscriptionCheckout,
        RejectSubscriptionCheckout, UpdateSubscriptionFromProvider,
        RecordSubscriptionWebhook, Stop, ReadSubscription, ApplySubscriptionWebhook,
        Administration, ChangeSubscriptionPrice, RetrySubscriptionPriceChange,
        DeleteBrand, Apply, BeginApply, CommitApply, FailApply, StopWorker
  <2> QED BY <2>6, <2>7
<1> QED BY <1>1, InvariantTheorem, PTL DEF Spec, BillsThePriceInForce

=============================================================================
