--------------------------- MODULE ReferralBilling ---------------------------
(***************************************************************************)
(* What a referral costs and earns.  A referred brand pays its first       *)
(* DiscountCharges invoices at a discount; each of its first RewardCharges *)
(* earns its referrer a reward, which Finance settles with an influencer   *)
(* or which a merchant's own invoices are credited with.                   *)
(*                                                                         *)
(* Webhooks read the invoice and its payment at Mercado Pago and apply     *)
(* what they read in a later transaction; payments may be refunded in      *)
(* between.  RecordReferralInvoice and ApplyNextSubscriptionPriceChange    *)
(* hold the subscription row locked while they change the amount at the    *)
(* provider: each is one step, which may take effect at the provider and   *)
(* leave the rows as they were (a lost answer, a stop, a failed commit).   *)
(*                                                                         *)
(* Amounts are a price and whether it is discounted; rewards and credits   *)
(* count one each.  A partial refund and a charge back are refunds to the  *)
(* code.  The subscription stays the same one all along:                   *)
(* SubscriptionBilling has the price changes of one that ends.  An         *)
(* operator named after another with a suffix is that operator with one    *)
(* mistake in it and is not part of Spec.                                  *)
(***************************************************************************)
EXTENDS Integers, Sequences, FiniteSets

CONSTANTS
    Requests,         \* webhooks and allocations that run at the same time
    Keys,             \* Idempotency-Keys of credit allocations
    DiscountCharges,  \* discount_charges of the attribution
    RewardCharges,    \* reward_charges
    OwnPayments,      \* payments of the referring merchant's own subscription
    Capacity,         \* the rewards one own payment can be credited with
    MaxInvoices,      \* bound: invoices of the referred brand
    MaxPrice,         \* bound: prices, from 0, the one of the attribution
    MaxChanges,       \* bound: bulk price changes
    MaxEvents,        \* bound: invoices, price changes, own refunds and credits together
    None

ASSUME TermsAreNaturals ==
    {DiscountCharges, RewardCharges, Capacity, MaxInvoices, MaxPrice, MaxChanges,
     MaxEvents} \subseteq Nat
ASSUME NoneNamesNothing == None \notin Requests \cup OwnPayments \cup Keys

VARIABLES
    source,       \* source_kind of the attribution
    plan,         \* the amount the provider bills
    row,          \* the amount of suscripciones_marca, and after how many changes
    history,      \* subscription_price_history
    changes,      \* subscription_price_changes with their item for this brand
    invoices,     \* at Mercado Pago: amount, creation and payment
    charges,      \* referral_charges, by invoice
    rewards,      \* referral_rewards, by invoice
    own,          \* the status of the own payments
    allocations,  \* referral_merchant_credit_allocations, by key
    lock,         \* the allocation that holds the referring brand's row
    requests      \* calls that have read the provider

vars == <<source, plan, row, history, changes, invoices, charges, rewards, own,
          allocations, lock, requests>>

InvoiceIds == 1..MaxInvoices
Amount == [price: 0..MaxPrice, discounted: BOOLEAN]
PaymentStatus == {"scheduled", "approved", "refunded"}
Invoice == [amount: Amount, at: Nat, payment: PaymentStatus]
\* A change is known by the price_version it made; "none" has no item here.
Change == [status: {"none", "PENDING", "FAILED", "SKIPPED", "APPLIED"}, price: 0..MaxPrice]
Charge == [status: {"none", "APPROVED", "REFUNDED"}, index: 0..MaxInvoices]
NoCharge == [status |-> "none", index |-> 0]
RewardStatus == {"none", "PENDING", "SETTLED", "VOID", "RECOVERY_DUE"}
Allocation == [status: {"none", "RECORDED", "RECOVERY_DUE"}, payment: OwnPayments \cup {None}]
NoAllocation == [status |-> "none", payment |-> None]
Request == [step: {"idle", "record", "reverse", "allocate", "insert"},
            about: InvoiceIds \cup OwnPayments \cup {None},
            seen: PaymentStatus, key: Keys \cup {None}]
NoRequest == [step |-> "idle", about |-> None, seen |-> "scheduled", key |-> None]

Recorded == {i \in InvoiceIds : charges[i].status # "none"}
Paid == Cardinality(Recorded)                      \* count(*) FROM referral_charges
\* referralRewardMinor: no reward past reward_charges.
Rewarded(index) == index <= RewardCharges
DiscountedAt(index) == index <= DiscountCharges

\* The rows have their types, and the paid sequence has no gap: every charge
\* has an index of its own, refunded ones included.
TypeOK ==
    /\ source \in {"INFLUENCER", "MERCHANT"}
    /\ plan \in Amount
    /\ row \in [price: 0..MaxPrice, discounted: BOOLEAN, from: Nat]
    /\ history \subseteq [amount: Amount, from: Nat, until: Nat]
    /\ changes \in Seq(Change)
    /\ invoices \in Seq(Invoice)
    /\ charges \in [InvoiceIds -> Charge]
    /\ rewards \in [InvoiceIds -> RewardStatus]
    /\ own \in [OwnPayments -> {"approved", "refunded"}]
    /\ allocations \in [Keys -> Allocation]
    /\ lock \in Requests \cup {None}
    /\ requests \in [Requests -> Request]
    /\ {charges[i].index : i \in Recorded} = 1..Cardinality(Recorded)

Init ==
    /\ source \in {"INFLUENCER", "MERCHANT"}
    /\ plan = [price |-> 0, discounted |-> DiscountedAt(1)]
    /\ row = [price |-> 0, discounted |-> DiscountedAt(1), from |-> 0]
    /\ history = {}
    /\ changes = <<>>
    /\ invoices = <<>>
    /\ charges = [i \in InvoiceIds |-> NoCharge]
    /\ rewards = [i \in InvoiceIds |-> "none"]
    /\ own = [p \in OwnPayments |-> "approved"]
    /\ allocations = [k \in Keys |-> NoAllocation]
    /\ lock = None
    /\ requests = [r \in Requests |-> NoRequest]

billing == <<source, plan, row, history, changes>>
ledger == <<charges, rewards, allocations>>
provider == <<invoices, own>>

WithinBound ==
    Len(invoices) + Len(changes)
      + Cardinality({p \in OwnPayments : own[p] = "refunded"})
      + Cardinality({k \in Keys : allocations[k].status # "none"}) < MaxEvents

Idle(r) == requests[r].step = "idle"
Ends(r) == requests' = [requests EXCEPT ![r] = NoRequest]
Goes(r, request) == requests' = [requests EXCEPT ![r] = request]

-----------------------------------------------------------------------------
(* Mercado Pago *)

IssueInvoice ==
    /\ Len(invoices) < MaxInvoices /\ WithinBound
    /\ invoices' = Append(invoices, [amount |-> plan, at |-> row.from,
                                     payment |-> "scheduled"])
    /\ UNCHANGED <<billing, ledger, own, lock, requests>>

PaymentMoves(i) ==
    /\ \/ /\ invoices[i].payment = "scheduled"
          /\ invoices' = [invoices EXCEPT ![i].payment = "approved"]
       \/ /\ invoices[i].payment = "approved"
          /\ invoices' = [invoices EXCEPT ![i].payment = "refunded"]
    /\ UNCHANGED <<billing, ledger, own, lock, requests>>

OwnRefund(p) ==
    /\ own[p] = "approved" /\ WithinBound
    /\ own' = [own EXCEPT ![p] = "refunded"]
    /\ UNCHANGED <<billing, ledger, invoices, lock, requests>>

-----------------------------------------------------------------------------
(* Webhooks *)

\* Topic subscription_authorized_payment.  An invoice without a payment is
\* answered at once.
ReadInvoice(r, i) ==
    /\ Idle(r) /\ invoices[i].payment # "scheduled"
    /\ Goes(r, [NoRequest EXCEPT !.step = "record", !.about = i,
                                 !.seen = invoices[i].payment])
    /\ UNCHANGED <<billing, ledger, provider, lock>>

\* Topic payment: the notification of a refund.  A payment the ledger does not
\* know is answered and forgotten (ReferralInvoiceForPayment).
ReadPayment(r, i) ==
    /\ Idle(r) /\ invoices[i].payment = "refunded" /\ i \in Recorded
    /\ Goes(r, [NoRequest EXCEPT !.step = "reverse", !.about = i,
                                 !.seen = "refunded"])
    /\ UNCHANGED <<billing, ledger, provider, lock>>

\* The merchant's own charges are in the ledger: its payments are known.
ReadOwnPayment(r, p) ==
    /\ Idle(r) /\ own[p] = "refunded"
    /\ Goes(r, [NoRequest EXCEPT !.step = "reverse", !.about = p, !.seen = "refunded"])
    /\ UNCHANGED <<billing, ledger, provider, lock>>

\* The amount of invoice i is the one of its place in the paid sequence, or was
\* in force when the provider created it.
InvoiceMatches(i, index) ==
    LET amount == invoices[i].amount IN
    \/ amount = [price |-> row.price, discounted |-> DiscountedAt(index)]
    \/ \E h \in history : /\ h.amount = amount
                          /\ h.from <= invoices[i].at /\ invoices[i].at < h.until

Full == [price |-> row.price, discounted |-> FALSE]
RewardAfterRefundPendingOnly(status) == IF status = "PENDING" THEN "VOID" ELSE status
RewardAfterRefund(status) ==
    CASE status = "PENDING" -> "VOID"
      [] status = "SETTLED" -> "RECOVERY_DUE"
      [] OTHER -> status

\* A refund undoes an approved charge and what it earned.
UndoCharge(i) ==
    /\ charges' = IF charges[i].status = "APPROVED"
                  THEN [charges EXCEPT ![i].status = "REFUNDED"] ELSE charges
    /\ rewards' = IF i \in Recorded
                  THEN [rewards EXCEPT ![i] = RewardAfterRefund(@)] ELSE rewards

AddCharge(i, index) ==
    /\ charges' = [charges EXCEPT ![i] = [status |-> "APPROVED", index |-> index]]
    /\ rewards' = [rewards EXCEPT ![i] = IF Rewarded(index) THEN "PENDING" ELSE "none"]

\* The last discounted charge: from here on the provider bills the full price.
Advance(index) == index = DiscountCharges /\ DiscountCharges > 0

\* RecordReferralInvoice: one transaction on the locked subscription row.  The
\* provider may refuse the full price, or take it and the commit fail: the
\* webhook is then sent again.
RecordReferralInvoice(r) ==
    LET i == requests[r].about
        index == Paid + 1 IN
    /\ requests[r].step = "record"
    /\ Ends(r)
    /\ \/ requests[r].seen = "refunded" /\ UndoCharge(i) /\ UNCHANGED billing
       \/ /\ requests[r].seen = "approved" /\ i \notin Recorded /\ InvoiceMatches(i, index)
          /\ IF Advance(index)
             THEN /\ plan' = Full
                  /\ \/ /\ row' = [row EXCEPT !.discounted = FALSE]
                        /\ AddCharge(i, index)
                     \/ UNCHANGED <<row, charges, rewards>>
             ELSE AddCharge(i, index) /\ UNCHANGED <<plan, row>>
          /\ UNCHANGED <<source, history, changes>>
    /\ UNCHANGED <<allocations, provider, lock>>

\* An error, a crash, or nothing left to do.
Stop(r) ==
    /\ ~Idle(r)
    /\ Ends(r)
    /\ lock' = IF lock = r THEN None ELSE lock
    /\ UNCHANGED <<billing, ledger, provider>>

\* ReverseReferralPayment does not lock the subscription or the brand.
ReverseReferralPayment(r) ==
    LET about == requests[r].about IN
    /\ requests[r].step = "reverse"
    /\ Ends(r)
    /\ IF about \in OwnPayments
       THEN /\ allocations' = [k \in Keys |->
                 IF allocations[k].payment = about /\ allocations[k].status = "RECORDED"
                 THEN [allocations[k] EXCEPT !.status = "RECOVERY_DUE"] ELSE allocations[k]]
            /\ UNCHANGED <<charges, rewards>>
       ELSE UndoCharge(about) /\ UNCHANGED allocations
    /\ UNCHANGED <<billing, provider, lock>>

-----------------------------------------------------------------------------
(* Finance and administration *)

SettleReferralReward(i) ==
    /\ source = "INFLUENCER" /\ rewards[i] = "PENDING"
    /\ rewards' = [rewards EXCEPT ![i] = "SETTLED"]
    /\ UNCHANGED <<billing, charges, allocations, provider, lock, requests>>

\* RecordManualMerchantCredit reads the payment back before its transaction.
RecordManualMerchantCredit(r, k, p) ==
    /\ Idle(r) /\ source = "MERCHANT" /\ WithinBound
    /\ own[p] = "approved"
    /\ Goes(r, [NoRequest EXCEPT !.step = "allocate", !.about = p, !.key = k])
    /\ UNCHANGED <<billing, ledger, provider, lock>>

Allocated == {k \in Keys : allocations[k].status # "none"}
AllocatedTo(p) == {k \in Allocated : allocations[k].payment = p}
Accrued == {i \in InvoiceIds : rewards[i] = "PENDING"}

BeginAllocationUnlocked(r) ==
    LET q == requests[r] IN
    /\ q.step = "allocate"
    /\ q.key \notin Allocated
    /\ Cardinality(Allocated) < Cardinality(Accrued)
    /\ Cardinality(AllocatedTo(q.about)) < Capacity
    /\ Goes(r, [q EXCEPT !.step = "insert"])
    /\ UNCHANGED <<billing, ledger, provider, lock>>

\* RecordMerchantCreditAllocation under the lock of the referring brand: the
\* rewards it counts are not locked.  A repeated key returns its allocation.
BeginAllocation(r) ==
    LET q == requests[r] IN
    /\ q.step = "allocate"
    /\ lock = None /\ lock' = r
    /\ q.key \notin Allocated
    /\ Cardinality(Allocated) < Cardinality(Accrued)
    /\ Cardinality(AllocatedTo(q.about)) < Capacity
    /\ Goes(r, [q EXCEPT !.step = "insert"])
    /\ UNCHANGED <<billing, ledger, provider>>

InsertAllocation(r) ==
    LET q == requests[r] IN
    /\ q.step = "insert"
    /\ allocations' = [allocations EXCEPT ![q.key] =
                          [status |-> "RECORDED", payment |-> q.about]]
    /\ lock' = IF lock = r THEN None ELSE lock
    /\ Ends(r)
    /\ UNCHANGED <<billing, charges, rewards, provider>>

-----------------------------------------------------------------------------
(* Bulk price changes *)

ChangeSubscriptionPrice(price, includeExisting) ==
    /\ Len(changes) < MaxChanges /\ WithinBound
    /\ changes' = Append(changes, [status |-> IF includeExisting THEN "PENDING" ELSE "none",
                                   price |-> price])
    /\ UNCHANGED <<source, plan, row, history, ledger, provider, lock, requests>>

RetrySubscriptionPriceChange(c) ==
    /\ changes[c].status = "FAILED"
    /\ changes' = [changes EXCEPT ![c].status = "PENDING"]
    /\ UNCHANGED <<source, plan, row, history, ledger, provider, lock, requests>>

\* The discount that is left is counted again whenever an item is tried: a charge
\* that was refunded used it up all the same.
NewAmountOfApproved(price) ==
    [price |-> price, discounted |->
        Cardinality({i \in Recorded : charges[i].status = "APPROVED"}) < DiscountCharges]
NewAmount(price) == [price |-> price, discounted |-> Paid < DiscountCharges]

ItemIs(c, status) == changes' = [changes EXCEPT ![c].status = status]

\* ApplyNextSubscriptionPriceChange takes the oldest pending item.
Chosen(c) ==
    /\ changes[c].status = "PENDING"
    /\ \A d \in 1..(c-1) : changes[d].status # "PENDING"
Current == [price |-> row.price, discounted |-> row.discounted]

\* A newer price is set, or the row already has this one: nothing is sent.
CloseItem(c) ==
    /\ Chosen(c)
    /\ \/ c # Len(changes) /\ ItemIs(c, "SKIPPED")
       \/ c = Len(changes) /\ Current = NewAmount(changes[c].price) /\ ItemIs(c, "APPLIED")
    /\ UNCHANGED <<source, plan, row, history, ledger, provider, lock, requests>>

Sendable(c) ==
    /\ Chosen(c)
    /\ c = Len(changes) /\ Current # NewAmount(changes[c].price)

\* The amount is sent and everything commits: the old amount keeps its interval.
ApplyItem(c) ==
    LET amount == NewAmount(changes[c].price) IN
    /\ Sendable(c)
    /\ plan' = amount
    /\ row' = [price |-> amount.price, discounted |-> amount.discounted,
               from |-> row.from + 1]
    /\ history' = history \cup {[amount |-> Current, from |-> row.from, until |-> row.from + 1]}
    /\ ItemIs(c, "APPLIED")
    /\ UNCHANGED <<source, ledger, provider, lock, requests>>

\* The call fails, or takes effect all the same and its answer or the commit is
\* lost.  After an error the item is FAILED in a transaction of its own; after a
\* stop or a failed commit it stays PENDING.
ItemFails(c) ==
    /\ Sendable(c)
    /\ plan' \in {plan, NewAmount(changes[c].price)}
    /\ \E status \in {"FAILED", "PENDING"} : ItemIs(c, status)
    /\ UNCHANGED <<source, row, history, ledger, provider, lock, requests>>

-----------------------------------------------------------------------------

Webhooks == \E r \in Requests :
    \/ \E i \in DOMAIN invoices : ReadInvoice(r, i) \/ ReadPayment(r, i)
    \/ \E p \in OwnPayments : ReadOwnPayment(r, p)
    \/ RecordReferralInvoice(r) \/ ReverseReferralPayment(r) \/ Stop(r)
Finance ==
    \/ \E i \in InvoiceIds : SettleReferralReward(i)
    \/ \E r \in Requests :
         \/ \E k \in Keys, p \in OwnPayments : RecordManualMerchantCredit(r, k, p)
         \/ BeginAllocation(r) \/ InsertAllocation(r)

Next ==
    \/ IssueInvoice
    \/ \E price \in 0..MaxPrice, includeExisting \in BOOLEAN :
          ChangeSubscriptionPrice(price, includeExisting)
    \/ \E c \in DOMAIN changes :
          \/ RetrySubscriptionPriceChange(c)
          \/ CloseItem(c) \/ ApplyItem(c) \/ ItemFails(c)
    \/ \E i \in DOMAIN invoices : PaymentMoves(i)
    \/ \E p \in OwnPayments : OwnRefund(p)
    \/ Webhooks \/ Finance

Spec == Init /\ [][Next]_vars

-----------------------------------------------------------------------------
(* Properties *)

\* A reward that is owed or paid stands on a charge that was not refunded, and
\* a paid one is never simply dropped: it becomes RECOVERY_DUE.
RewardFollowsCharge ==
    /\ \A i \in InvoiceIds :
          rewards[i] \in {"PENDING", "SETTLED"} => charges[i].status = "APPROVED"
    /\ \A i \in InvoiceIds :
          charges[i].status = "REFUNDED" => invoices[i].payment = "refunded"

\* README.md: with the last discounted charge the full price is requested for
\* the next one.  Bulk price changes, calls and commits that fail, late retries and
\* refunds do not bring a discount back, and do not end one early at the provider
\* except while the last discounted charge waits to be recorded again.
DiscountEndsInTime ==
    /\ Paid >= DiscountCharges => ~plan.discounted
    /\ ~plan.discounted => Paid + 1 >= DiscountCharges

\* The provider bills what the row says but for what a failure left behind: the
\* full price, if the last discounted charge was not committed after it was sent;
\* or the amount of a price change whose item does not say APPLIED.
PlanFollowsRow ==
    \/ plan = Current
    \/ plan = Full /\ Paid + 1 = DiscountCharges
    \/ \E c \in DOMAIN changes : /\ changes[c].status \in {"PENDING", "FAILED", "SKIPPED"}
                                 /\ plan = NewAmount(changes[c].price)

\* Two allocations at a time never credit a merchant with more rewards than it
\* ever earned, nor one of its payments with more than it holds.
CreditIsCovered ==
    /\ Cardinality(Allocated) <= Cardinality({i \in InvoiceIds : rewards[i] # "none"})
    /\ \A p \in OwnPayments : Cardinality(AllocatedTo(p)) <= Capacity

\* The rows stay well formed, and the discount lasts at the provider as long as
\* it lasts in the row and in the ledger of charges.
ReferralInv == TypeOK /\ PlanFollowsRow /\ DiscountEndsInTime

=============================================================================
