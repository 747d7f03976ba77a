--------------------------- MODULE BranchProration ---------------------------
(***************************************************************************)
(* Selling an extra branch to a brand with a running subscription:         *)
(* quote, one-off payment, raise of the recurring amount at Mercado Pago,  *)
(* branch.  The local rows (ops, sub) change in ReconcileBranch, one       *)
(* database transaction that keeps the brand, subscription and operation   *)
(* rows locked while it talks to the provider; the provider (plan,         *)
(* payments) changes at once, whatever becomes of that transaction.        *)
(*                                                                         *)
(* ReconcileBranch is one step per provider call here; what it does        *)
(* between two calls belongs to the step of the first.  Every call may     *)
(* fail, or take effect and have its answer lost; the process may stop     *)
(* between any two steps.  The worker, the owner's polling and payment     *)
(* webhooks all start the same ReconcileBranch.                            *)
(*                                                                         *)
(* The simulator used in development is not modelled.  Amounts are counted *)
(* in branches: while an operation is active the unit price is fixed.      *)
(* As in LoyaltyLedger, an operator named after another with a suffix is   *)
(* that operator with one mistake in it and is not part of Spec.           *)
(***************************************************************************)
EXTENDS Integers, Sequences, FiniteSets

CONSTANTS
    Operations,    \* quotes, each confirmed as at most one branch_operations row
    MaxPayments,   \* bound: payments a buyer makes on one checkout
    MaxCycle,      \* bound: renewals of the subscription
    None

ASSUME BoundsAreNaturals == MaxPayments \in Nat /\ MaxCycle \in Nat
ASSUME NoneIsNoOperation == None \notin Operations

VARIABLES
    ops,        \* branch_quotes and branch_operations
    expired,    \* quotes past their expires_at
    entitled,   \* the actor still owns the brand, and the brand is open
    sub,        \* suscripciones_marca
    plan,       \* the preapproval at Mercado Pago
    payments,   \* per operation, its payments at Mercado Pago, oldest first
    rec         \* the ReconcileBranch that holds the brand's lock

rows == <<ops, sub>>
provider == <<plan, payments>>
vars == <<ops, expired, entitled, sub, plan, payments, rec>>

Active == {"PAYMENT_PENDING", "PLAN_UPDATING", "REFUND_PENDING"}
Statuses == Active \cup {"none", "quoted", "COMPLETED", "PAYMENT_REJECTED",
                         "REFUNDED", "FAILED"}
PaymentStatuses == {"pending", "approved", "rejected", "refunded"}
Steps == {"idle", "find", "checkout", "read", "put", "verify", "restore",
          "undo", "undone", "refund", "confirm", "duplicates"}

Row == [status: Statuses, code: {"", "QUOTE_EXPIRED", "RETRY", "PLAN_UPDATE_FAILED"},
        required: BOOLEAN,               \* the quote asks for a payment
        count: Nat, cycle: Nat,          \* subscription_snapshot
        checkout: BOOLEAN, planStarted: BOOLEAN,
        payment: Nat, paid: PaymentStatuses, inTime: BOOLEAN]
NoRow == [status |-> "none", code |-> "", required |-> FALSE, count |-> 0,
          cycle |-> 0, checkout |-> FALSE, planStarted |-> FALSE,
          payment |-> 0, paid |-> "pending", inTime |-> FALSE]
Payment == [status: PaymentStatuses, inTime: BOOLEAN]
Reconcile == [step: Steps, op: Operations \cup {None}, row: Row,
              eligible: BOOLEAN, late: BOOLEAN]
NoReconcile == [step |-> "idle", op |-> None, row |-> NoRow,
                eligible |-> FALSE, late |-> FALSE]

\* The rows have their types, and the step ReconcileBranch has reached agrees
\* with the status it will save.
TypeOK ==
    /\ ops \in [Operations -> Row]
    /\ expired \subseteq Operations
    /\ entitled \in BOOLEAN
    /\ sub \in [status: {"AUTHORIZED", "CANCELLED"}, count: Nat, cycle: Nat]
    /\ plan \in [status: {"authorized", "cancelled"}, amount: Nat, cycle: Nat]
    /\ payments \in [Operations -> Seq(Payment)]
    /\ rec \in Reconcile
    /\ rec.step # "idle" => rec.op \in Operations
    /\ rec.step \in {"read", "put", "verify"} => rec.row.status = "PLAN_UPDATING"
    /\ rec.step \in {"restore", "undo", "undone", "refund", "confirm"}
           => rec.row.status = "REFUND_PENDING"
    /\ rec.step \in {"refund", "confirm"} => rec.row.payment \in 1..Len(payments[rec.op])

Init ==
    /\ ops = [o \in Operations |-> NoRow]
    /\ expired = {}
    /\ entitled = TRUE
    /\ sub = [status |-> "AUTHORIZED", count |-> 1, cycle |-> 0]
    /\ plan = [status |-> "authorized", amount |-> 1, cycle |-> 0]
    /\ payments = [o \in Operations |-> <<>>]
    /\ rec = NoReconcile

Unlocked == rec.step = "idle"
NoneActive(others) == \A o \in others : ops[o].status \notin Active

-----------------------------------------------------------------------------
(* The owner *)

\* The subscription is as the quote found it (lockBranchBilling).
Unchanged(row) ==
    sub = [status |-> "AUTHORIZED", count |-> row.count, cycle |-> row.cycle]
EligibleAnyCycle(row) ==
    entitled /\ sub.status = "AUTHORIZED" /\ sub.count = row.count
Eligible(row) == entitled /\ Unchanged(row)

\* A quote made in the trial, or whose prorated amount rounds to 0, is free.
Quote(o) ==
    /\ Unlocked
    /\ ops[o].status = "none"
    /\ entitled /\ sub.status = "AUTHORIZED"
    /\ \E required \in BOOLEAN :
         ops' = [ops EXCEPT ![o] = [NoRow EXCEPT !.status = "quoted",
                    !.required = required, !.count = sub.count, !.cycle = sub.cycle]]
    /\ UNCHANGED <<expired, entitled, sub, provider, rec>>

\* A confirmation repeated with its key returns the operation it made.
Confirm(o) ==
    /\ Unlocked
    /\ ops[o].status = "quoted"
    /\ o \notin expired
    /\ Eligible(ops[o])
    /\ NoneActive(Operations)
    /\ ops' = [ops EXCEPT ![o].status =
                  IF ops[o].required THEN "PAYMENT_PENDING" ELSE "PLAN_UPDATING"]
    /\ UNCHANGED <<expired, entitled, sub, provider, rec>>

QuoteExpires(o) ==
    /\ ops[o].status # "none" /\ o \notin expired
    /\ expired' = expired \cup {o}
    /\ UNCHANGED <<rows, entitled, provider, rec>>

\* The actor stops being an owner, or the brand closes.
LoseBrand ==
    /\ entitled /\ entitled' = FALSE
    /\ UNCHANGED <<rows, expired, provider, rec>>

\* CancelSubscriptionLocked: the provider first, then the row, unless the
\* transaction is lost in between.
CancelSubscription ==
    /\ Unlocked
    /\ NoneActive(Operations)
    /\ entitled /\ sub.status # "CANCELLED" /\ plan.status = "authorized"
    /\ plan' = [plan EXCEPT !.status = "cancelled"]
    /\ sub' \in {sub, [sub EXCEPT !.status = "CANCELLED"]}
    /\ UNCHANGED <<ops, expired, entitled, payments, rec>>

-----------------------------------------------------------------------------
(* Mercado Pago and its webhooks *)

\* The buyer knows the checkout from the operation's row; the preference takes
\* new payments until the quote's deadline, and may be paid twice.
Pay(o) ==
    /\ ops[o].checkout /\ o \notin expired
    /\ Len(payments[o]) < MaxPayments
    /\ payments' = [payments EXCEPT ![o] =
                      Append(@, [status |-> "pending", inTime |-> FALSE])]
    /\ UNCHANGED <<rows, expired, entitled, plan, rec>>

\* A pending payment settles, before the deadline or after it.
Settles(o, i) ==
    /\ payments[o][i].status = "pending"
    /\ \E status \in {"approved", "rejected"} :
         payments' = [payments EXCEPT ![o][i] =
                        [status |-> status, inTime |-> o \notin expired]]
    /\ UNCHANGED <<rows, expired, entitled, plan, rec>>

PlanRenews ==
    /\ plan.status = "authorized" /\ plan.cycle < MaxCycle
    /\ plan' = [plan EXCEPT !.cycle = @ + 1]
    /\ UNCHANGED <<rows, expired, entitled, payments, rec>>

PlanCancelled ==
    /\ plan.status = "authorized"
    /\ plan' = [plan EXCEPT !.status = "cancelled"]
    /\ UNCHANGED <<rows, expired, entitled, payments, rec>>

\* recordSubscriptionWebhook and UpdateSubscriptionFromProvider store what the
\* provider showed at some earlier time; a cancellation is final, and a closed
\* brand's subscription is always stored as cancelled.
SyncSubscription ==
    /\ Unlocked
    /\ sub.status # "CANCELLED"
    /\ \/ \E c \in 0..plan.cycle : sub' = [sub EXCEPT !.cycle = c]
       \/ /\ plan.status = "cancelled" \/ ~entitled
          /\ sub' = [sub EXCEPT !.status = "CANCELLED"]
    /\ UNCHANGED <<ops, expired, entitled, provider, rec>>

-----------------------------------------------------------------------------
(* ReconcileBranch: its transaction *)

Go(step, row) ==
    /\ rec' = [rec EXCEPT !.step = step, !.row = row]
    /\ UNCHANGED ops

\* The transaction commits, unless the brand has another active operation
\* (branch_operations_single_active_brand): then it can only be lost.
Save(row) ==
    /\ row.status \in Active => NoneActive(Operations \ {rec.op})
    /\ ops' = [ops EXCEPT ![rec.op] = row]
    /\ rec' = NoReconcile

SaveAs(row, status, code) ==
    Save([row EXCEPT !.status = status, !.code = code])

TryLater(row) == SaveAs(row, row.status, "RETRY")

At(step) == rec.step = step

Open(o, step, status) ==
    rec' = [step |-> step, op |-> o, row |-> [ops[o] EXCEPT !.status = status],
            eligible |-> Eligible(ops[o]), late |-> o \in expired]

BeginReconcile(o) ==
    LET row == ops[o]
    IN  /\ Unlocked
        /\ \/ /\ row.status = "COMPLETED" /\ row.payment # 0
              /\ Open(o, "duplicates", "COMPLETED")
           \/ /\ row.status \in {"PAYMENT_PENDING", "FAILED"}
              /\ Open(o, "find", row.status)
           \/ /\ row.status = "PLAN_UPDATING" /\ Eligible(row) /\ row.planStarted
              /\ Open(o, "read", "PLAN_UPDATING")
           \/ /\ \/ row.status = "REFUND_PENDING"
                 \/ row.status = "PLAN_UPDATING" /\ ~Eligible(row)
              /\ Open(o, "restore", "REFUND_PENDING")
        /\ UNCHANGED <<rows, expired, entitled, provider>>

\* The first visit in PLAN_UPDATING only records that the next one will
\* change the provider's amount.
RecordPlanIntent(o) ==
    /\ Unlocked
    /\ ops[o].status = "PLAN_UPDATING" /\ Eligible(ops[o]) /\ ~ops[o].planStarted
    /\ ops' = [ops EXCEPT ![o].planStarted = TRUE, ![o].code = ""]
    /\ UNCHANGED <<expired, entitled, sub, provider, rec>>

\* The process stops, the call's deadline passes or the commit fails.
Crash ==
    /\ ~Unlocked
    /\ rec' = NoReconcile
    /\ UNCHANGED <<rows, expired, entitled, provider>>

-----------------------------------------------------------------------------
(* ReconcileBranch: the payment *)

Approved(o) == {i \in 1..Len(payments[o]) : payments[o][i].status = "approved"}

\* FindBranchPayment keeps the newest approved payment (the newest of all if
\* none is approved, 0 if there is none) and refunds every other approved one.
Kept(o) ==
    IF Approved(o) = {} THEN Len(payments[o])
    ELSE CHOOSE i \in Approved(o) : \A j \in Approved(o) : i >= j
Extras(o) == Approved(o) \ {Kept(o)}

Refunded(o, ids) ==
    [payments EXCEPT ![o] =
        [i \in 1..Len(@) |-> IF i \in ids THEN [@[i] EXCEPT !.status = "refunded"]
                                          ELSE @[i]]]

SettlementNeverLate(row) ==
    \/ row.paid = "pending" /\ SaveAs(row, row.status, "")
    \/ row.paid # "pending" /\ SaveAs([row EXCEPT !.planStarted = TRUE], "PLAN_UPDATING", "")

Settlement(row) ==
    \/ /\ row.paid = "rejected"
       /\ SaveAs(row, "PAYMENT_REJECTED", "")
    \/ /\ row.paid = "refunded"
       /\ SaveAs(row, "REFUNDED", "")
    \/ /\ row.paid = "pending"
       /\ IF rec.late THEN SaveAs(row, "FAILED", "QUOTE_EXPIRED")
                      ELSE SaveAs(row, row.status, "")
    \/ /\ row.paid = "approved" /\ row.inTime /\ rec.eligible
       /\ SaveAs([row EXCEPT !.planStarted = TRUE], "PLAN_UPDATING", "")
    \/ /\ row.paid = "approved" /\ ~(row.inTime /\ rec.eligible)
       /\ Go("restore", [row EXCEPT !.status = "REFUND_PENDING"])

FindPayment ==
    LET o == rec.op
        kept == Kept(o)
        row == IF kept = 0 THEN rec.row
               ELSE [rec.row EXCEPT !.payment = kept, !.paid = payments[o][kept].status,
                                    !.inTime = payments[o][kept].inTime]
    IN  /\ At("find")
        /\ payments' = Refunded(o, Extras(o))
        /\ IF kept = 0 /\ ~row.checkout /\ ~rec.late /\ rec.eligible
           THEN Go("checkout", row)
           ELSE Settlement(row)
        /\ UNCHANGED <<expired, entitled, sub, plan>>

\* The preference has the operation's idempotency key: asking again returns it.
CreateCheckout ==
    /\ At("checkout") /\ rec.row.required
    /\ SaveAs([rec.row EXCEPT !.checkout = TRUE], rec.row.status, "")
    /\ UNCHANGED <<expired, entitled, sub, provider>>

\* A completed operation keeps its own payment, later approvals are refunded.
DuplicatesKeepingNewest(o) == Extras(o)
Duplicates(o) == Approved(o) \ {ops[o].payment}

RefundDuplicates ==
    /\ At("duplicates")
    /\ payments' = Refunded(rec.op, Duplicates(rec.op))
    /\ SaveAs(rec.row, "COMPLETED", "")
    /\ UNCHANGED <<expired, entitled, sub, plan>>

-----------------------------------------------------------------------------
(* ReconcileBranch: the recurring amount *)

PlanIntact(row) == plan.status = "authorized" /\ plan.cycle = row.cycle

\* The branch and the quantity change commit with COMPLETED.
Activate(row) ==
    /\ sub' = [sub EXCEPT !.count = @ + 1]
    /\ SaveAs(row, "COMPLETED", "")

ReadPlan ==
    LET row == rec.row
        refund == [row EXCEPT !.status = "REFUND_PENDING"]
    IN  /\ At("read")
        /\ \/ PlanIntact(row) /\ plan.amount = row.count + 1 /\ Activate(row)
           \/ /\ PlanIntact(row) /\ plan.amount = row.count
              /\ Go("put", row) /\ UNCHANGED sub
           \/ /\ ~PlanIntact(row) \/ plan.amount \notin {row.count, row.count + 1}
              /\ Go("restore", refund) /\ UNCHANGED sub
        /\ UNCHANGED <<expired, entitled, provider>>

SetAmount(amount) ==
    /\ plan.status = "authorized"
    /\ plan' = [plan EXCEPT !.amount = amount]
    /\ UNCHANGED <<expired, entitled, sub, payments>>

PutPlan == At("put") /\ SetAmount(rec.row.count + 1) /\ Go("verify", rec.row)

PutAnswerLost == At("put") /\ SetAmount(rec.row.count + 1) /\ TryLater(rec.row)

PutRejected ==
    /\ At("put")
    /\ Go("restore", [rec.row EXCEPT !.status = "REFUND_PENDING"])
    /\ UNCHANGED <<expired, entitled, sub, provider>>

VerifyPlan ==
    LET row == rec.row
    IN  /\ At("verify")
        /\ IF PlanIntact(row) /\ plan.amount = row.count + 1
           THEN Activate(row)
           ELSE TryLater(row) /\ UNCHANGED sub
        /\ UNCHANGED <<expired, entitled, provider>>

-----------------------------------------------------------------------------
(* ReconcileBranch: undoing it *)

AfterRestore(row) ==
    \/ ~row.required /\ SaveAs(row, "FAILED", "PLAN_UPDATE_FAILED")
    \/ row.required /\ row.payment = 0 /\ TryLater(row)
    \/ row.required /\ row.payment # 0 /\ row.paid = "refunded" /\ SaveAs(row, "REFUNDED", "")
    \/ row.required /\ row.payment # 0 /\ row.paid # "refunded" /\ Go("refund", row)

\* If the amount may have been raised it is put back before the refund; where
\* the subscription has moved on meanwhile the operation waits for a person.
NeedsReview(row) ==
    row.planStarted /\ \/ ~PlanIntact(row)
                       \/ ~Unchanged(row)
                       \/ plan.amount \notin {row.count, row.count + 1}

RaisedNever(row) == FALSE
Raised(row) == row.planStarted /\ plan.amount = row.count + 1

Restore ==
    LET row == rec.row
    IN  /\ At("restore")
        /\ IF NeedsReview(row) THEN TryLater(row)
           ELSE IF Raised(row) THEN Go("undo", row)
           ELSE AfterRestore(row)
        /\ UNCHANGED <<expired, entitled, sub, provider>>

PutBack == At("undo") /\ SetAmount(rec.row.count) /\ Go("undone", rec.row)

PutBackAnswerLost == At("undo") /\ SetAmount(rec.row.count) /\ TryLater(rec.row)

\* A cancelled subscription does not change its amount.
PutBackRefused ==
    /\ At("undo") /\ plan.status = "cancelled"
    /\ TryLater(rec.row)
    /\ UNCHANGED <<expired, entitled, sub, provider>>

VerifyPutBack ==
    LET row == rec.row
    IN  /\ At("undone")
        /\ IF PlanIntact(row) /\ plan.amount = row.count
           THEN AfterRestore(row) ELSE TryLater(row)
        /\ UNCHANGED <<expired, entitled, sub, provider>>

RefundPayment ==
    /\ At("refund")
    /\ payments' = Refunded(rec.op, {rec.row.payment})
    /\ Go("confirm", rec.row)
    /\ UNCHANGED <<expired, entitled, sub, plan>>

RefundAnswerLost ==
    /\ At("refund")
    /\ payments' = Refunded(rec.op, {rec.row.payment})
    /\ TryLater(rec.row)
    /\ UNCHANGED <<expired, entitled, sub, plan>>

\* Accepted, and not yet made.
RefundUnderway ==
    /\ At("refund")
    /\ Go("confirm", rec.row)
    /\ UNCHANGED <<expired, entitled, sub, provider>>

\* FindBranchPayment once more: what it finds has to be refunded.
FoundRefundedUnchecked(o) == payments[o] # <<>>
FoundRefunded(o) == payments[o][Kept(o)].status = "refunded"

ConfirmRefund ==
    LET row == rec.row
        o == rec.op
    IN  /\ At("confirm")
        /\ payments' = Refunded(o, Extras(o))
        /\ IF FoundRefunded(o)
           THEN SaveAs([row EXCEPT !.paid = "refunded"], "REFUNDED", "")
           ELSE TryLater(row)
        /\ UNCHANGED <<expired, entitled, sub, plan>>

\* A provider call fails without effect, or, where one call refunds several
\* payments, after some of them; the operation is tried again later.
ProviderFails ==
    /\ ~Unlocked
    /\ LET spared == CASE rec.step \in {"find", "confirm"} -> Extras(rec.op)
                       [] rec.step = "duplicates" -> Duplicates(rec.op)
                       [] OTHER -> {}
       IN  \E done \in SUBSET spared : payments' = Refunded(rec.op, done)
    /\ TryLater(rec.row)
    /\ UNCHANGED <<expired, entitled, sub, plan>>

-----------------------------------------------------------------------------
Owner ==
    \/ \E o \in Operations : Quote(o) \/ Confirm(o) \/ QuoteExpires(o)
    \/ LoseBrand
    \/ CancelSubscription

MercadoPago ==
    \/ \E o \in Operations :
          Pay(o) \/ \E i \in 1..Len(payments[o]) : Settles(o, i)
    \/ PlanRenews
    \/ PlanCancelled
    \/ SyncSubscription

\* The calls of ReconcileBranch that are answered.
Answered ==
    \/ FindPayment \/ CreateCheckout \/ RefundDuplicates
    \/ ReadPlan \/ PutPlan \/ PutRejected \/ VerifyPlan
    \/ Restore \/ PutBack \/ PutBackRefused \/ VerifyPutBack
    \/ RefundPayment \/ ConfirmRefund

Unanswered ==
    \/ PutAnswerLost \/ PutBackAnswerLost \/ RefundAnswerLost \/ RefundUnderway
    \/ ProviderFails \/ Crash

Reconciliation ==
    \/ \E o \in Operations : BeginReconcile(o) \/ RecordPlanIntent(o)
    \/ Answered
    \/ Unanswered

Next == Owner \/ MercadoPago \/ Reconciliation

Spec == Init /\ [][Next]_vars

\* PendingBranchOperations: what the worker visits every three seconds.
Pollable(o) ==
    \/ ops[o].status \in Active
    \/ ops[o].status = "FAILED" /\ ops[o].code = "QUOTE_EXPIRED"
    \/ ops[o].status = "COMPLETED" /\ ops[o].payment # 0

Poll(o) == Pollable(o) /\ (BeginReconcile(o) \/ RecordPlanIntent(o))

\* The worker keeps polling, time passes, and from some time on Mercado Pago
\* and the database answer.  Neither the buyer nor webhooks are assumed.
FairSpec ==
    /\ Spec
    /\ \A o \in Operations : WF_vars(QuoteExpires(o)) /\ SF_vars(Poll(o))
    /\ WF_vars(Answered)
    /\ <>[][Unanswered => Answered]_vars

-----------------------------------------------------------------------------
(* Properties *)

\* Once nothing is under way Mercado Pago charges for exactly the branches the
\* brand has, whatever was lost between the provider and the database
\* (ReconcileBranch's plan_update_started, readback and restore).
ChargedForItsBranches ==
    /\ Unlocked
    /\ \A o \in Operations : ops[o].status \notin {"PLAN_UPDATING", "REFUND_PENDING"}
    => plan.amount = sub.count

\* A finished branch keeps the payment it was bought with: what is refunded
\* as a duplicate afterwards is another one (ReconcileBranchDuplicatePayments).
BranchKeepsItsPayment ==
    [][ \A o \in Operations :
          ops[o].status = "COMPLETED" /\ ops[o].payment \in Approved(o)
          => payments'[o][ops[o].payment] = payments[o][ops[o].payment] ]_vars

\* REFUNDED is only said of a payment Mercado Pago has given back.
RefundedMeansRefunded ==
    \A o \in Operations :
        ops[o].status = "REFUNDED" =>
            payments[o][ops[o].payment].status = "refunded"

\* A branch is added to the subscription the quote was made for: same
\* quantity, same renewal date, still authorized, and its amount already
\* raised at the provider (lockBranchBilling, rechecked in PLAN_UPDATING).
ActivatedOnQuotedTerms ==
    [][ sub'.count # sub.count =>
          /\ Unchanged(rec.row)
          /\ plan.amount = sub'.count ]_vars

\* An operation that waits for its payment or for the plan does not wait for
\* ever: the deadline, the readback or the refund path ends it.
WaitingEnds ==
    \A o \in Operations :
        /\ ops[o].status = "PAYMENT_PENDING" ~> ops[o].status # "PAYMENT_PENDING"
        /\ ops[o].status = "PLAN_UPDATING" ~> ops[o].status # "PLAN_UPDATING"

\* A refund that was decided completes, as long as nobody touches the
\* subscription and the checkout was paid once.
RefundEnds(o) == ops[o].status = "REFUND_PENDING" ~> ops[o].status # "REFUND_PENDING"
Untouched(o) ==
    ops[o].status = "REFUND_PENDING" => PlanIntact(ops[o]) /\ Unchanged(ops[o])

SinglePaymentRefundEnds ==
    \A o \in Operations :
        [](Untouched(o) /\ Len(payments[o]) <= 1) => RefundEnds(o)

\* The rows stay well formed, and the amount billed is that of the branches.
BranchInv == TypeOK /\ ChargedForItsBranches

\* The worker's loop brings every operation it polls to an end.
WaitsAndRefundsEnd == WaitingEnds /\ SinglePaymentRefundEnds

=============================================================================
