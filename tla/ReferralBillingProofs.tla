------------------------ MODULE ReferralBillingProofs ------------------------
(***************************************************************************)
(* Proofs about ReferralBilling for any terms of the referral, any number  *)
(* of invoices and price changes, and any sets of requests, keys and own   *)
(* payments.                                                               *)
(***************************************************************************)
EXTENDS ReferralBilling, FiniteSetTheorems, TLAPS

-----------------------------------------------------------------------------
(* The inductive invariant *)

\* The rewards that were ever earned, whatever became of them.
Earned == {i \in InvoiceIds : rewards[i] # "none"}

\* A charge is of an invoice that exists, and earned what it earned when it
\* was recorded.
ChargesSound ==
    /\ Len(invoices) <= MaxInvoices
    /\ Recorded \subseteq DOMAIN invoices
    /\ Earned \subseteq Recorded

\* What a request was told by the provider before its transaction: a refund is
\* still one when it is applied.
Told(q) ==
    /\ q.step = "record" =>
          /\ q.about \in DOMAIN invoices
          /\ q.seen = "refunded" => invoices[q.about].payment = "refunded"
    /\ q.step = "reverse" =>
          \/ q.about \in OwnPayments
          \/ q.about \in DOMAIN invoices /\ invoices[q.about].payment = "refunded"
    /\ q.step \in {"allocate", "insert"} => q.about \in OwnPayments /\ q.key \in Keys

RequestsTold == \A r \in Requests : Told(requests[r])

\* What an allocation counted under the lock is true until it inserts its row:
\* nobody else has the lock, and rewards that were counted stay earned.
Room(q) ==
    /\ q.key \notin Allocated
    /\ Cardinality(Allocated) < Cardinality(Earned)
    /\ Cardinality(AllocatedTo(q.about)) < Capacity

InsertsHaveRoom == \A r \in Requests :
    requests[r].step = "insert" => lock = r /\ Room(requests[r])

Inv ==
    /\ TypeOK
    /\ PlanFollowsRow
    /\ DiscountEndsInTime
    /\ ChargesSound
    /\ RewardFollowsCharge
    /\ RequestsTold
    /\ InsertsHaveRoom
    /\ IsFiniteSet(Allocated)
    /\ CreditIsCovered

\* The terms of the referral and the bounds are natural numbers.
LEMMA IntegerBounds ==
    /\ DiscountCharges \in Nat /\ RewardCharges \in Nat /\ Capacity \in Nat
    /\ MaxInvoices \in Nat /\ MaxPrice \in Nat /\ MaxChanges \in Nat /\ MaxEvents \in Nat
  BY TermsAreNaturals

\* The sets that the model counts are sets of invoices: they are finite.
LEMMA ChargesAreCounted ==
    /\ IsFiniteSet(Recorded) /\ Paid \in Nat
    /\ IsFiniteSet(Earned) /\ Cardinality(Earned) \in Nat
    /\ IsFiniteSet(Accrued) /\ Accrued \subseteq Earned
    /\ Cardinality(Accrued) <= Cardinality(Earned)
<1>1. IsFiniteSet(InvoiceIds)
  BY IntegerBounds, FS_Interval DEF InvoiceIds
<1>2. IsFiniteSet(Recorded) /\ IsFiniteSet(Earned)
  BY <1>1, FS_Subset DEF Recorded, Earned
<1>3. Accrued \subseteq Earned
  BY DEF Accrued, Earned
<1> QED BY <1>2, <1>3, FS_Subset, FS_CardinalityType DEF Paid

\* The next charge has a place of its own in the sequence.
LEMMA OneMoreCharge ==
    ASSUME NEW i \in InvoiceIds, i \notin Recorded
    PROVE  /\ Paid + 1 \in 1..MaxInvoices
           /\ IsFiniteSet(Recorded \cup {i})
           /\ Cardinality(Recorded \cup {i}) = Paid + 1
<1>1. /\ IsFiniteSet(InvoiceIds) /\ Cardinality(InvoiceIds) = MaxInvoices
  BY IntegerBounds, FS_Interval DEF InvoiceIds
<1>2. /\ IsFiniteSet(Recorded \cup {i})
      /\ Cardinality(Recorded \cup {i}) = Paid + 1
  BY ChargesAreCounted, FS_AddElement DEF Paid
<1>3. Recorded \cup {i} \in SUBSET InvoiceIds
  BY DEF Recorded
<1>4. Cardinality(Recorded \cup {i}) <= MaxInvoices
  BY <1>1, <1>3, FS_Subset
<1> QED BY <1>2, <1>4, ChargesAreCounted, IntegerBounds

\* The rows the model fills in are of the right type.
LEMMA EmptyRowsTyped ==
    /\ NoRequest \in Request /\ NoRequest.step = "idle"
    /\ NoCharge \in Charge /\ NoCharge.status = "none"
    /\ NoAllocation \in Allocation /\ NoAllocation.status = "none"
  BY IntegerBounds DEF NoRequest, Request, NoCharge, Charge, NoAllocation, Allocation,
                       PaymentStatus

\* A referral before its first invoice.
LEMMA InitInv == Init => Inv
<1> SUFFICES ASSUME Init PROVE Inv
  OBVIOUS
<1>1. Recorded = {} /\ Earned = {} /\ Allocated = {} /\ Accrued = {}
  BY EmptyRowsTyped DEF Init, Recorded, Earned, Allocated, Accrued
<1>2. Paid = 0
  BY <1>1, FS_EmptySet DEF Paid
<1>3. TypeOK
  <2>1. /\ plan \in Amount
        /\ row \in [price: 0..MaxPrice, discounted: BOOLEAN, from: Nat]
    BY IntegerBounds DEF Init, Amount, DiscountedAt
  <2>2. /\ history \subseteq [amount: Amount, from: Nat, until: Nat]
        /\ changes \in Seq(Change)
        /\ invoices \in Seq(Invoice)
        /\ rewards \in [InvoiceIds -> RewardStatus]
        /\ own \in [OwnPayments -> {"approved", "refunded"}]
        /\ lock \in Requests \cup {None}
        /\ source \in {"INFLUENCER", "MERCHANT"}
    BY DEF Init, RewardStatus
  <2>3. /\ charges \in [InvoiceIds -> Charge]
        /\ allocations \in [Keys -> Allocation]
        /\ requests \in [Requests -> Request]
    BY EmptyRowsTyped DEF Init
  <2>4. {charges[i].index : i \in Recorded} = 1..Cardinality(Recorded)
    BY <1>1, <1>2 DEF Paid
  <2> QED BY <2>1, <2>2, <2>3, <2>4 DEF TypeOK
<1>4. PlanFollowsRow /\ DiscountEndsInTime
  <2>1. /\ plan = [price |-> row.price, discounted |-> row.discounted]
        /\ plan.discounted <=> 1 <= DiscountCharges
    BY DEF Init, DiscountedAt
  <2>2. PlanFollowsRow
    BY <2>1 DEF PlanFollowsRow, Current
  <2>3. DiscountEndsInTime
    BY <1>2, <2>1, IntegerBounds DEF DiscountEndsInTime
  <2> QED BY <2>2, <2>3
<1>5. ChargesSound /\ RewardFollowsCharge
  BY <1>1, IntegerBounds DEF Init, ChargesSound, RewardFollowsCharge, NoCharge
<1>6. RequestsTold /\ InsertsHaveRoom
  BY EmptyRowsTyped DEF Init, RequestsTold, InsertsHaveRoom, Told
<1>7. CreditIsCovered /\ IsFiniteSet(Allocated)
  <2>1. \A p \in OwnPayments : AllocatedTo(p) = {}
    BY <1>1 DEF AllocatedTo
  <2>2. Cardinality({i \in InvoiceIds : rewards[i] # "none"}) = 0
    BY <1>1, FS_EmptySet DEF Earned
  <2> QED BY <1>1, <2>1, <2>2, FS_EmptySet, IntegerBounds DEF CreditIsCovered
<1> QED BY <1>3, <1>4, <1>5, <1>6, <1>7 DEF Inv

-----------------------------------------------------------------------------
(* What a step may do to the credits and to those who wait to insert one *)

\* The allocations are of the same rewards and payments.
SameCredits ==
    /\ Allocated' = Allocated
    /\ \A p \in OwnPayments : AllocatedTo(p)' = AllocatedTo(p)

\* Whoever is about to insert an allocation waits and keeps the lock.
InsertsWait == \A r \in Requests :
    requests'[r].step = "insert" => requests'[r] = requests[r] /\ lock' = lock

\* What was credited stays covered, and what was counted stays so, for any step
\* that leaves the allocations and takes no reward from the earned ones.
LEMMA CreditsKept ==
    ASSUME Inv, SameCredits, InsertsWait, Earned \subseteq Earned',
           Cardinality(Earned) <= Cardinality(Earned'), Cardinality(Earned') \in Nat
    PROVE  /\ InsertsHaveRoom'
           /\ IsFiniteSet(Allocated)'
           /\ CreditIsCovered'
<1>1. /\ Cardinality(Allocated) \in Nat /\ Cardinality(Earned) \in Nat
      /\ IsFiniteSet(Allocated)
  BY ChargesAreCounted, FS_CardinalityType DEF Inv
<1>2. ASSUME NEW r \in Requests, requests'[r].step = "insert"
      PROVE  lock' = r /\ Room(requests[r])' /\ requests'[r] = requests[r]
  <2>1. /\ requests'[r] = requests[r] /\ lock' = lock
        /\ lock = r /\ Room(requests[r])
        /\ requests[r].about \in OwnPayments
    BY <1>2 DEF InsertsWait, Inv, InsertsHaveRoom, RequestsTold, Told
  <2> DEFINE q == requests[r]
  <2>2. /\ q.key \notin Allocated'
        /\ Cardinality(Allocated') < Cardinality(Earned')
        /\ AllocatedTo(q.about)' = AllocatedTo(q.about)
    BY <1>1, <2>1 DEF SameCredits, Room
  <2> QED BY <2>1, <2>2 DEF Room
<1>3. InsertsHaveRoom'
  BY <1>2 DEF InsertsHaveRoom
<1>4. CreditIsCovered'
  BY <1>1 DEF SameCredits, Inv, CreditIsCovered, Earned
<1> QED BY <1>1, <1>3, <1>4 DEF SameCredits

-----------------------------------------------------------------------------
(* What a step may do to the charges and their rewards *)

\* The books of the referral are untouched.
LEMMA SameCharges ==
    ASSUME UNCHANGED <<charges, rewards>>
    PROVE  /\ Recorded' = Recorded /\ Paid' = Paid /\ Earned' = Earned
           /\ Accrued' = Accrued
  BY DEF Recorded, Paid, Earned, Accrued

\* A refund changes the status of a charge and of its reward, and no more: the
\* places in the sequence and what was ever earned stay.
LEMMA UndoneCharge ==
    ASSUME Inv, NEW i \in DOMAIN invoices, invoices[i].payment = "refunded",
           UndoCharge(i), invoices' = invoices
    PROVE  /\ charges' \in [InvoiceIds -> Charge]
           /\ rewards' \in [InvoiceIds -> RewardStatus]
           /\ Recorded' = Recorded /\ Paid' = Paid /\ Earned' = Earned
           /\ \A j \in InvoiceIds : charges'[j].index = charges[j].index
           /\ ChargesSound' /\ RewardFollowsCharge'
<1>1. /\ i \in InvoiceIds
      /\ charges \in [InvoiceIds -> Charge] /\ rewards \in [InvoiceIds -> RewardStatus]
      /\ Earned \subseteq Recorded
  BY IntegerBounds DEF Inv, TypeOK, ChargesSound, InvoiceIds
<1>2. \A j \in InvoiceIds :
        /\ charges'[j] = IF j = i /\ charges[i].status = "APPROVED"
                         THEN [charges[i] EXCEPT !.status = "REFUNDED"] ELSE charges[j]
        /\ rewards'[j] = IF j = i /\ i \in Recorded
                         THEN RewardAfterRefund(rewards[i]) ELSE rewards[j]
  BY <1>1 DEF UndoCharge
<1>3. /\ charges' \in [InvoiceIds -> Charge]
      /\ rewards' \in [InvoiceIds -> RewardStatus]
  <2>1. [charges[i] EXCEPT !.status = "REFUNDED"] \in Charge
    BY <1>1 DEF Charge
  <2>2. RewardAfterRefund(rewards[i]) \in RewardStatus
    BY <1>1 DEF RewardAfterRefund, RewardStatus
  <2> QED BY <1>1, <2>1, <2>2 DEF UndoCharge
<1>4. \A j \in InvoiceIds :
        /\ charges'[j].index = charges[j].index
        /\ charges'[j].status = "none" <=> charges[j].status = "none"
        /\ charges'[j].status = IF j = i /\ charges[i].status = "APPROVED"
                                THEN "REFUNDED" ELSE charges[j].status
  BY <1>1, <1>2 DEF Charge
<1>5. \A j \in InvoiceIds : rewards'[j] = "none" <=> rewards[j] = "none"
  BY <1>1, <1>2 DEF RewardAfterRefund, RewardStatus
<1>6. Recorded' = Recorded
  BY <1>4 DEF Recorded
<1>7. Earned' = Earned
  BY <1>5 DEF Earned
<1>8. ChargesSound'
  BY <1>6, <1>7 DEF Inv, ChargesSound
<1>9. RewardFollowsCharge'
  <2>1. ASSUME NEW j \in InvoiceIds, rewards'[j] \in {"PENDING", "SETTLED"}
        PROVE  charges'[j].status = "APPROVED"
    <3>1. rewards[j] \in {"PENDING", "SETTLED"} /\ ~(j = i /\ i \in Recorded)
      BY <1>1, <1>2, <2>1 DEF RewardAfterRefund, RewardStatus
    <3>2. charges[j].status = "APPROVED" /\ j \in Recorded
      BY <3>1 DEF Inv, RewardFollowsCharge, Recorded
    <3> QED BY <1>4, <3>1, <3>2
  <2>2. \A j \in InvoiceIds :
          charges'[j].status = "REFUNDED" => invoices'[j].payment = "refunded"
    BY <1>4 DEF Inv, RewardFollowsCharge
  <2> QED BY <2>1, <2>2 DEF RewardFollowsCharge
<1> QED BY <1>3, <1>4, <1>6, <1>7, <1>8, <1>9 DEF Paid

\* A new charge takes the next place, and earns a reward or not.
LEMMA AddedCharge ==
    ASSUME Inv, NEW i \in DOMAIN invoices, i \notin Recorded,
           AddCharge(i, Paid + 1), invoices' = invoices
    PROVE  /\ charges' \in [InvoiceIds -> Charge]
           /\ rewards' \in [InvoiceIds -> RewardStatus]
           /\ Paid' = Paid + 1 /\ Earned \subseteq Earned'
           /\ {charges'[j].index : j \in Recorded'} = 1..Cardinality(Recorded')
           /\ ChargesSound' /\ RewardFollowsCharge'
<1>1. /\ i \in InvoiceIds
      /\ charges \in [InvoiceIds -> Charge] /\ rewards \in [InvoiceIds -> RewardStatus]
      /\ Earned \subseteq Recorded
      /\ charges[i].status = "none" /\ rewards[i] = "none"
  BY IntegerBounds DEF Inv, TypeOK, ChargesSound, InvoiceIds, Recorded, Earned
<1>2. Paid \in Nat /\ Paid + 1 \in 1..MaxInvoices /\ Cardinality(Recorded \cup {i}) = Paid + 1
  BY <1>1, OneMoreCharge, ChargesAreCounted
<1> DEFINE new == [status |-> "APPROVED", index |-> Paid + 1]
           reward == IF Rewarded(Paid + 1) THEN "PENDING" ELSE "none"
<1>3. new \in Charge /\ reward \in RewardStatus
  BY <1>2, IntegerBounds DEF Charge, RewardStatus
<1>4. /\ charges' = [charges EXCEPT ![i] = new]
      /\ rewards' = [rewards EXCEPT ![i] = reward]
  BY DEF AddCharge
<1> HIDE DEF reward
<1>5. /\ charges' \in [InvoiceIds -> Charge]
      /\ rewards' \in [InvoiceIds -> RewardStatus]
  BY <1>1, <1>3, <1>4
<1>6. Recorded' = Recorded \cup {i}
  BY <1>1, <1>4 DEF Recorded
<1>7. Paid' = Paid + 1
  BY <1>2, <1>6 DEF Paid
<1>8. Earned \subseteq Earned' /\ Earned' \subseteq Recorded'
  BY <1>1, <1>4, <1>6 DEF Earned
<1>9. {charges'[j].index : j \in Recorded'} = 1..Cardinality(Recorded')
  <2>1. {charges[j].index : j \in Recorded} = 1..Paid
    BY DEF Inv, TypeOK, Paid
  <2>2. \A j \in Recorded : charges'[j].index = charges[j].index
    BY <1>1, <1>4 DEF Recorded
  <2>3. charges'[i].index = Paid + 1
    BY <1>1, <1>4
  <2>4. {charges'[j].index : j \in Recorded'} = (1..Paid) \cup {Paid + 1}
    BY <1>6, <2>1, <2>2, <2>3
  <2> QED BY <1>2, <1>6, <2>4
<1>10. ChargesSound'
  BY <1>6, <1>8 DEF Inv, ChargesSound
<1>11. RewardFollowsCharge'
  BY <1>1, <1>4 DEF Inv, RewardFollowsCharge
<1> QED BY <1>5, <1>7, <1>8, <1>9, <1>10, <1>11

\* What the books of the referral are made of, for the steps that leave them:
\* the invoices may only grow, and a refunded one stays refunded.
LEMMA BooksKept ==
    ASSUME Inv, UNCHANGED <<charges, rewards>>,
           DOMAIN invoices \subseteq DOMAIN invoices', Len(invoices') <= MaxInvoices,
           \A i \in DOMAIN invoices :
               invoices[i].payment = "refunded" => invoices'[i].payment = "refunded"
    PROVE  ChargesSound' /\ RewardFollowsCharge'
<1>1. ChargesSound'
  BY SameCharges DEF Inv, ChargesSound
<1>2. ASSUME NEW i \in InvoiceIds, charges'[i].status = "REFUNDED"
      PROVE  invoices'[i].payment = "refunded"
  <2>1. i \in DOMAIN invoices
    BY <1>2 DEF Inv, ChargesSound, Recorded
  <2> QED BY <1>2, <2>1 DEF Inv, RewardFollowsCharge
<1> QED BY <1>1, <1>2 DEF Inv, RewardFollowsCharge

\* The amount of a price is discounted or not, as the number of charges says.
LEMMA AmountOfPrice ==
    ASSUME NEW price \in 0..MaxPrice
    PROVE  /\ NewAmount(price) \in Amount
           /\ NewAmount(price).price = price
           /\ NewAmount(price).discounted <=> Paid < DiscountCharges
<1> DEFINE d == Paid < DiscountCharges
<1>1. d \in BOOLEAN
  OBVIOUS
<1>2. NewAmount(price) = [price |-> price, discounted |-> d]
  BY DEF NewAmount
<1> HIDE DEF d
<1>3. NewAmount(price).discounted = d
  BY <1>2
<1>4. NewAmount(price).discounted <=> Paid < DiscountCharges
  BY <1>1, <1>3 DEF d
<1> QED BY <1>1, <1>2, <1>4 DEF Amount

\* It is the same until the discount ends.
LEMMA AmountStays ==
    ASSUME Paid' < DiscountCharges <=> Paid < DiscountCharges
    PROVE  \A price : NewAmount(price)' = NewAmount(price)
<1> DEFINE d == Paid < DiscountCharges
           e == Paid' < DiscountCharges
<1>1. d = e
  OBVIOUS
<1>2. \A price : /\ NewAmount(price) = [price |-> price, discounted |-> d]
                 /\ NewAmount(price)' = [price |-> price, discounted |-> e]
  BY DEF NewAmount
<1> HIDE DEF d, e
<1> QED BY <1>1, <1>2

\* The amounts stay related when neither they nor the items nor the number of
\* charges move.
LEMMA AmountsKept ==
    ASSUME Inv, UNCHANGED <<plan, row, changes>>, Paid' = Paid
    PROVE  PlanFollowsRow' /\ DiscountEndsInTime'
<1>1. \A price : NewAmount(price)' = NewAmount(price)
  BY AmountStays
<1> QED BY <1>1 DEF Inv, PlanFollowsRow, DiscountEndsInTime, Full, Current

\* A request that starts or ends concerns itself only.
LEMMA OneRequest ==
    ASSUME Inv, NEW r \in Requests, NEW q \in Request, q.step # "insert",
           requests' = [requests EXCEPT ![r] = q], invoices' = invoices, Told(q),
           \A s \in Requests \ {r} : requests[s].step = "insert" => lock' = lock
    PROVE  /\ requests' \in [Requests -> Request]
           /\ RequestsTold' /\ InsertsWait
<1>1. \A s \in Requests : requests'[s] = IF s = r THEN q ELSE requests[s]
  BY DEF Inv, TypeOK
<1>2. requests' \in [Requests -> Request]
  BY DEF Inv, TypeOK
<1>3. \A s \in Requests : Told(requests'[s])
  BY <1>1 DEF Inv, RequestsTold
<1>4. RequestsTold'
  BY <1>3 DEF RequestsTold, Told
<1>5. InsertsWait
  BY <1>1 DEF InsertsWait
<1> QED BY <1>2, <1>4, <1>5

\* The requests as they are, with the books of the provider going on.
LEMMA SameRequests ==
    ASSUME Inv, UNCHANGED <<requests, lock>>, DOMAIN invoices \subseteq DOMAIN invoices',
           \A i \in DOMAIN invoices :
               invoices[i].payment = "refunded" => invoices'[i].payment = "refunded"
    PROVE  RequestsTold' /\ InsertsWait
<1>1. ASSUME NEW r \in Requests PROVE Told(requests[r])'
  <2>1. Told(requests[r])
    BY DEF Inv, RequestsTold
  <2> QED BY <2>1 DEF Told
<1> QED BY <1>1 DEF RequestsTold, InsertsWait

\* A step that leaves the table of allocations leaves the credits.
LEMMA NothingAllocated ==
    allocations' = allocations => SameCredits
  BY DEF SameCredits, Allocated, AllocatedTo

-----------------------------------------------------------------------------
(* The actions *)

\* The provider issues an invoice.
LEMMA IssueInvoiceInv == Inv /\ IssueInvoice => Inv'
<1> SUFFICES ASSUME Inv, IssueInvoice PROVE Inv'
  OBVIOUS
<1> DEFINE new == [amount |-> plan, at |-> row.from, payment |-> "scheduled"]
<1>1. /\ invoices \in Seq(Invoice) /\ new \in Invoice
      /\ invoices' = Append(invoices, new) /\ Len(invoices) < MaxInvoices
  BY DEF IssueInvoice, Inv, TypeOK, Invoice, PaymentStatus
<1> HIDE DEF new
<1>2. /\ invoices' \in Seq(Invoice) /\ Len(invoices') = Len(invoices) + 1
      /\ \A i \in DOMAIN invoices : i \in DOMAIN invoices' /\ invoices'[i] = invoices[i]
  BY <1>1
<1>3. UNCHANGED <<billing, ledger, own, lock, requests>>
  BY DEF IssueInvoice
<1>4. Len(invoices') <= MaxInvoices
  BY <1>1, <1>2, IntegerBounds
<1>5. Recorded' = Recorded /\ Paid' = Paid /\ Earned' = Earned
  BY <1>3, SameCharges DEF ledger
<1>6. TypeOK'
  BY <1>2, <1>3, <1>5 DEF Inv, TypeOK, billing, ledger
<1>7. PlanFollowsRow' /\ DiscountEndsInTime'
  BY <1>3, <1>5, AmountsKept DEF billing
<1>8. ChargesSound' /\ RewardFollowsCharge'
  BY <1>2, <1>3, <1>4, BooksKept DEF ledger
<1>9. RequestsTold' /\ InsertsWait
  BY <1>2, <1>3, SameRequests
<1>10. InsertsHaveRoom' /\ IsFiniteSet(Allocated)' /\ CreditIsCovered'
  BY <1>3, <1>5, <1>9, CreditsKept, NothingAllocated, ChargesAreCounted DEF ledger
<1> QED BY <1>6, <1>7, <1>8, <1>9, <1>10 DEF Inv

\* A payment is approved or refunded.
LEMMA PaymentMovesInv == \A i \in DOMAIN invoices : Inv /\ PaymentMoves(i) => Inv'
<1> SUFFICES ASSUME NEW i \in DOMAIN invoices, Inv, PaymentMoves(i) PROVE Inv'
  OBVIOUS
<1>1. PICK s \in {"approved", "refunded"} :
        /\ invoices' = [invoices EXCEPT ![i].payment = s]
        /\ invoices[i].payment # "refunded"
  BY DEF PaymentMoves
<1>2. invoices \in Seq(Invoice) /\ invoices[i] \in Invoice
  BY DEF Inv, TypeOK
<1>3. [invoices[i] EXCEPT !.payment = s] \in Invoice
  BY <1>2 DEF Invoice, PaymentStatus
<1>4. /\ invoices' \in Seq(Invoice) /\ Len(invoices') = Len(invoices)
      /\ \A j \in DOMAIN invoices :
            /\ j \in DOMAIN invoices'
            /\ invoices[j].payment = "refunded" => invoices'[j] = invoices[j]
  BY <1>1, <1>2, <1>3
<1>5. UNCHANGED <<billing, ledger, own, lock, requests>>
  BY DEF PaymentMoves
<1>6. Len(invoices') <= MaxInvoices
  BY <1>4 DEF Inv, ChargesSound
<1>7. Recorded' = Recorded /\ Paid' = Paid /\ Earned' = Earned
  BY <1>5, SameCharges DEF ledger
<1>8. TypeOK'
  BY <1>4, <1>5, <1>7 DEF Inv, TypeOK, billing, ledger
<1>9. PlanFollowsRow' /\ DiscountEndsInTime'
  BY <1>5, <1>7, AmountsKept DEF billing
<1>10. ChargesSound' /\ RewardFollowsCharge'
  BY <1>4, <1>5, <1>6, BooksKept DEF ledger
<1>11. RequestsTold' /\ InsertsWait
  BY <1>4, <1>5, SameRequests
<1>12. InsertsHaveRoom' /\ IsFiniteSet(Allocated)' /\ CreditIsCovered'
  BY <1>5, <1>7, <1>11, CreditsKept, NothingAllocated, ChargesAreCounted DEF ledger
<1> QED BY <1>8, <1>9, <1>10, <1>11, <1>12 DEF Inv

\* Steps that leave the amounts, the invoices, the charges and their rewards:
\* what remains to be shown of them is about requests and credits.
LEMMA BooksUntouched ==
    ASSUME Inv, UNCHANGED <<billing, invoices, charges, rewards>>
    PROVE  /\ Recorded' = Recorded /\ Paid' = Paid /\ Earned' = Earned
           /\ PlanFollowsRow' /\ DiscountEndsInTime'
           /\ ChargesSound' /\ RewardFollowsCharge'
           /\ {charges'[i].index : i \in Recorded'} = 1..Cardinality(Recorded')
<1>1. Recorded' = Recorded /\ Paid' = Paid /\ Earned' = Earned
  BY SameCharges
<1>2. PlanFollowsRow' /\ DiscountEndsInTime'
  BY <1>1, AmountsKept DEF billing
<1>3. ChargesSound' /\ RewardFollowsCharge'
  BY BooksKept DEF Inv, ChargesSound
<1>4. {charges'[i].index : i \in Recorded'} = 1..Cardinality(Recorded')
  BY <1>1 DEF Inv, TypeOK
<1> QED BY <1>1, <1>2, <1>3, <1>4

\* The merchant's own payment is refunded.
LEMMA OwnRefundInv == \A p \in OwnPayments : Inv /\ OwnRefund(p) => Inv'
<1> SUFFICES ASSUME NEW p \in OwnPayments, Inv, OwnRefund(p) PROVE Inv'
  OBVIOUS
<1>1. /\ own' \in [OwnPayments -> {"approved", "refunded"}]
      /\ UNCHANGED <<billing, ledger, invoices, lock, requests>>
  BY DEF OwnRefund, Inv, TypeOK
<1>2. TypeOK'
  BY <1>1, BooksUntouched DEF Inv, TypeOK, billing, ledger
<1>3. RequestsTold' /\ InsertsWait
  BY <1>1, SameRequests
<1>4. InsertsHaveRoom' /\ IsFiniteSet(Allocated)' /\ CreditIsCovered'
  BY <1>1, <1>3, BooksUntouched, CreditsKept, NothingAllocated, ChargesAreCounted
  DEF ledger
<1> QED BY <1>1, <1>2, <1>3, <1>4, BooksUntouched DEF Inv, ledger

\* A request reads, ends, or takes the lock, and nothing else changes.
LEMMA OnlyRequests ==
    ASSUME Inv, UNCHANGED <<billing, ledger, provider>>, lock' \in Requests \cup {None},
           NEW r \in Requests, NEW q \in Request, q.step # "insert", Told(q),
           requests' = [requests EXCEPT ![r] = q],
           \A s \in Requests \ {r} : requests[s].step = "insert" => lock' = lock
    PROVE  Inv'
<1>1. /\ requests' \in [Requests -> Request]
      /\ RequestsTold' /\ InsertsWait
  BY OneRequest DEF provider
<1>2. TypeOK'
  BY <1>1, BooksUntouched DEF Inv, TypeOK, billing, ledger, provider
<1>3. InsertsHaveRoom' /\ IsFiniteSet(Allocated)' /\ CreditIsCovered'
  BY <1>1, BooksUntouched, CreditsKept, NothingAllocated, ChargesAreCounted
  DEF ledger, provider
<1> QED BY <1>1, <1>2, <1>3, BooksUntouched DEF Inv, ledger, provider

\* A webhook reads the provider.
LEMMA ReadsInv ==
    \A r \in Requests :
        /\ \A i \in DOMAIN invoices : Inv /\ ReadInvoice(r, i) => Inv'
        /\ \A i \in DOMAIN invoices : Inv /\ ReadPayment(r, i) => Inv'
        /\ \A p \in OwnPayments : Inv /\ ReadOwnPayment(r, p) => Inv'
<1> SUFFICES ASSUME NEW r \in Requests, Inv
             PROVE  /\ \A i \in DOMAIN invoices : ReadInvoice(r, i) \/ ReadPayment(r, i) => Inv'
                    /\ \A p \in OwnPayments : ReadOwnPayment(r, p) => Inv'
  OBVIOUS
<1>1. ASSUME NEW i \in DOMAIN invoices
      PROVE  i \in InvoiceIds /\ invoices[i].payment \in PaymentStatus
  <2>1. i \in 1..Len(invoices) /\ invoices[i] \in Invoice
    BY DEF Inv, TypeOK
  <2> QED BY <2>1, IntegerBounds DEF Inv, ChargesSound, InvoiceIds, Invoice
<1>2. ASSUME NEW i \in DOMAIN invoices, ReadInvoice(r, i) PROVE Inv'
  <2> DEFINE q == [NoRequest EXCEPT !.step = "record", !.about = i,
                                    !.seen = invoices[i].payment]
  <2>1. q \in Request /\ q.step = "record" /\ q.about = i /\ q.seen = invoices[i].payment
    BY <1>1, EmptyRowsTyped DEF NoRequest, Request
  <2>2. /\ requests' = [requests EXCEPT ![r] = q]
        /\ UNCHANGED <<billing, ledger, provider, lock>>
    BY <1>2 DEF ReadInvoice, Goes
  <2>3. Told(q)
    BY <2>1 DEF Told
  <2> HIDE DEF q
  <2> QED BY <2>1, <2>2, <2>3, OnlyRequests DEF Inv, TypeOK
<1>3. ASSUME NEW i \in DOMAIN invoices, ReadPayment(r, i) PROVE Inv'
  <2> DEFINE q == [NoRequest EXCEPT !.step = "reverse", !.about = i, !.seen = "refunded"]
  <2>1. q \in Request /\ q.step = "reverse" /\ q.about = i
    BY <1>1, EmptyRowsTyped DEF NoRequest, Request, PaymentStatus
  <2>2. /\ requests' = [requests EXCEPT ![r] = q]
        /\ UNCHANGED <<billing, ledger, provider, lock>>
        /\ invoices[i].payment = "refunded"
    BY <1>3 DEF ReadPayment, Goes
  <2>3. Told(q)
    BY <2>1, <2>2 DEF Told
  <2> HIDE DEF q
  <2> QED BY <2>1, <2>2, <2>3, OnlyRequests DEF Inv, TypeOK
<1>4. ASSUME NEW p \in OwnPayments, ReadOwnPayment(r, p) PROVE Inv'
  <2> DEFINE q == [NoRequest EXCEPT !.step = "reverse", !.about = p, !.seen = "refunded"]
  <2>1. q \in Request /\ q.step = "reverse" /\ q.about = p
    BY EmptyRowsTyped DEF NoRequest, Request, PaymentStatus
  <2>2. /\ requests' = [requests EXCEPT ![r] = q]
        /\ UNCHANGED <<billing, ledger, provider, lock>>
    BY <1>4 DEF ReadOwnPayment, Goes
  <2>3. Told(q)
    BY <2>1 DEF Told
  <2> HIDE DEF q
  <2> QED BY <2>1, <2>2, <2>3, OnlyRequests DEF Inv, TypeOK
<1> QED BY <1>2, <1>3, <1>4

\* An administrator asks for a credit.
LEMMA RecordManualMerchantCreditInv ==
    \A r \in Requests, k \in Keys, p \in OwnPayments :
        Inv /\ RecordManualMerchantCredit(r, k, p) => Inv'
<1> SUFFICES ASSUME NEW r \in Requests, NEW k \in Keys, NEW p \in OwnPayments,
                    Inv, RecordManualMerchantCredit(r, k, p)
             PROVE  Inv'
  OBVIOUS
<1> DEFINE q == [NoRequest EXCEPT !.step = "allocate", !.about = p, !.key = k]
<1>1. q \in Request /\ q.step = "allocate" /\ q.about = p /\ q.key = k
  BY EmptyRowsTyped DEF NoRequest, Request
<1>2. /\ requests' = [requests EXCEPT ![r] = q]
      /\ UNCHANGED <<billing, ledger, provider, lock>>
  BY DEF RecordManualMerchantCredit, Goes
<1>3. Told(q)
  BY <1>1 DEF Told
<1> HIDE DEF q
<1> QED BY <1>1, <1>2, <1>3, OnlyRequests DEF Inv, TypeOK

\* A request stops: if it held the lock, nobody else was about to insert.
LEMMA StopInv == \A r \in Requests : Inv /\ Stop(r) => Inv'
<1> SUFFICES ASSUME NEW r \in Requests, Inv, Stop(r) PROVE Inv'
  OBVIOUS
<1>1. /\ requests' = [requests EXCEPT ![r] = NoRequest]
      /\ lock' = IF lock = r THEN None ELSE lock
      /\ UNCHANGED <<billing, ledger, provider>>
  BY DEF Stop, Ends
<1>2. \A s \in Requests \ {r} : requests[s].step = "insert" => lock' = lock
  BY <1>1 DEF Inv, InsertsHaveRoom
<1>3. lock' \in Requests \cup {None}
  BY <1>1 DEF Inv, TypeOK
<1>4. NoRequest \in Request /\ NoRequest.step = "idle" /\ Told(NoRequest)
  BY EmptyRowsTyped DEF Told
<1> QED BY <1>1, <1>2, <1>3, <1>4, OnlyRequests

\* With the lock, an allocation counts what is there and goes on to insert.
LEMMA BeginAllocationInv == \A r \in Requests : Inv /\ BeginAllocation(r) => Inv'
<1> SUFFICES ASSUME NEW r \in Requests, Inv, BeginAllocation(r) PROVE Inv'
  OBVIOUS
<1>0. PICK q : q = requests[r]
  OBVIOUS
<1> DEFINE next == [q EXCEPT !.step = "insert"]
<1>1. /\ q \in Request /\ Told(q) /\ q.step = "allocate"
      /\ lock = None /\ lock' = r /\ q.key \notin Allocated
      /\ Cardinality(Allocated) < Cardinality(Accrued)
      /\ Cardinality(AllocatedTo(q.about)) < Capacity
      /\ requests' = [requests EXCEPT ![r] = next]
      /\ UNCHANGED <<billing, ledger, provider>>
  BY <1>0 DEF BeginAllocation, Goes, Inv, TypeOK, RequestsTold
<1>2. /\ next \in Request /\ next.step = "insert"
      /\ next.about = q.about /\ next.key = q.key
  BY <1>1 DEF Request
<1> HIDE DEF next
<1>3. \A s \in Requests : requests[s].step # "insert"
  BY <1>1, NoneNamesNothing DEF Inv, InsertsHaveRoom
<1>4. \A s \in Requests : requests'[s] = IF s = r THEN next ELSE requests[s]
  BY <1>1 DEF Inv, TypeOK
<1>5. requests' \in [Requests -> Request]
  BY <1>1, <1>2 DEF Inv, TypeOK
<1>6. TypeOK'
  BY <1>1, <1>5, BooksUntouched DEF Inv, TypeOK, billing, ledger, provider
<1>7. RequestsTold'
  <2>1. \A s \in Requests : Told(requests'[s])
    BY <1>1, <1>2, <1>4 DEF Inv, RequestsTold, Told
  <2> QED BY <1>1, <2>1 DEF RequestsTold, Told, provider
<1>8. /\ Earned' = Earned /\ Allocated' = Allocated
      /\ \A p \in OwnPayments : AllocatedTo(p)' = AllocatedTo(p)
  BY <1>1, BooksUntouched, NothingAllocated DEF SameCredits, ledger, provider
<1>9. Room(next)'
  <2>1. Cardinality(Allocated) < Cardinality(Earned)
    BY <1>1, ChargesAreCounted, FS_CardinalityType DEF Inv
  <2>2. AllocatedTo(next.about)' = AllocatedTo(q.about)
    BY <1>1, <1>2, <1>8 DEF Told
  <2> QED BY <1>1, <1>2, <1>8, <2>1, <2>2 DEF Room
<1>10. InsertsHaveRoom'
  <2>1. ASSUME NEW s \in Requests, requests'[s].step = "insert"
        PROVE  lock' = s /\ requests'[s] = next
    BY <1>1, <1>3, <1>4, <2>1
  <2> QED BY <1>9, <2>1 DEF InsertsHaveRoom, Room
<1>11. IsFiniteSet(Allocated)' /\ CreditIsCovered'
  BY <1>8 DEF Inv, CreditIsCovered, Earned
<1> QED BY <1>1, <1>6, <1>7, <1>10, <1>11, BooksUntouched DEF Inv, ledger, provider

\* The allocation is inserted: it is one more, and there was room for it.
LEMMA InsertAllocationInv == \A r \in Requests : Inv /\ InsertAllocation(r) => Inv'
<1> SUFFICES ASSUME NEW r \in Requests, Inv, InsertAllocation(r) PROVE Inv'
  OBVIOUS
<1>0. PICK q : q = requests[r]
  OBVIOUS
<1> DEFINE new == [status |-> "RECORDED", payment |-> q.about]
<1>1. /\ q.key \in Keys /\ q.about \in OwnPayments
      /\ lock = r /\ Room(q)
      /\ allocations' = [allocations EXCEPT ![q.key] = new]
      /\ lock' = None
      /\ requests' = [requests EXCEPT ![r] = NoRequest]
      /\ UNCHANGED <<billing, charges, rewards, provider>>
      /\ allocations \in [Keys -> Allocation]
  BY <1>0 DEF InsertAllocation, Ends, Inv, TypeOK, InsertsHaveRoom, RequestsTold, Told
<1>2. new \in Allocation /\ allocations' \in [Keys -> Allocation]
  BY <1>1 DEF Allocation
<1>3. Allocated' = Allocated \cup {q.key}
  BY <1>1 DEF Allocated
<1>4. \A p \in OwnPayments :
        AllocatedTo(p)' = IF p = q.about THEN AllocatedTo(p) \cup {q.key} ELSE AllocatedTo(p)
  <2>1. q.key \notin Allocated
    BY <1>1 DEF Room
  <2> QED BY <1>1, <1>3, <2>1 DEF AllocatedTo
<1>5. /\ IsFiniteSet(Allocated')
      /\ Cardinality(Allocated') = Cardinality(Allocated) + 1
  BY <1>1, <1>3, FS_AddElement DEF Inv, Room
<1>6. /\ requests' \in [Requests -> Request]
      /\ RequestsTold' /\ \A s \in Requests : requests'[s].step # "insert"
  <2>1. \A s \in Requests : requests[s].step = "insert" => s = r
    BY <1>1 DEF Inv, InsertsHaveRoom
  <2>2. NoRequest \in Request /\ NoRequest.step = "idle" /\ Told(NoRequest)
    BY EmptyRowsTyped DEF Told
  <2>3. /\ requests' \in [Requests -> Request]
        /\ RequestsTold'
    BY <1>1, <2>1, <2>2, OneRequest DEF provider
  <2>4. \A s \in Requests : requests'[s] = IF s = r THEN NoRequest ELSE requests[s]
    BY <1>1 DEF Inv, TypeOK
  <2> QED BY <2>1, <2>2, <2>3, <2>4
<1>7. TypeOK'
  BY <1>1, <1>2, <1>6, BooksUntouched DEF Inv, TypeOK, billing, provider
<1>8. CreditIsCovered'
  <2>1. Cardinality(Allocated') <= Cardinality(Earned')
    BY <1>1, <1>5, BooksUntouched, ChargesAreCounted, FS_CardinalityType
    DEF Inv, Room, provider
  <2>2. ASSUME NEW p \in OwnPayments
        PROVE  Cardinality(AllocatedTo(p)') <= Capacity
    <3>1. CASE p # q.about
      BY <1>4, <3>1 DEF Inv, CreditIsCovered
    <3>2. CASE p = q.about
      <4>1. AllocatedTo(p) \in SUBSET Allocated /\ q.key \notin AllocatedTo(p)
        BY <1>1 DEF AllocatedTo, Room
      <4>2. IsFiniteSet(AllocatedTo(p)) /\ Cardinality(AllocatedTo(p)) \in Nat
        BY <4>1, FS_Subset, FS_CardinalityType DEF Inv
      <4>3. Cardinality(AllocatedTo(p)') = Cardinality(AllocatedTo(p)) + 1
        BY <1>4, <3>2, <4>1, <4>2, FS_AddElement
      <4>4. Cardinality(AllocatedTo(p)) < Capacity
        BY <1>1, <3>2 DEF Room
      <4> QED BY <4>2, <4>3, <4>4, IntegerBounds
    <3> QED BY <3>1, <3>2
  <2> QED BY <2>1, <2>2 DEF CreditIsCovered, Earned
<1> QED BY <1>1, <1>5, <1>6, <1>7, <1>8, BooksUntouched DEF Inv, InsertsHaveRoom, provider

\* Steps that change the books of the referral and end the request that did.
LEMMA BooksGoOn ==
    ASSUME Inv, NEW r \in Requests, requests[r].step # "insert",
           requests' = [requests EXCEPT ![r] = NoRequest],
           UNCHANGED <<source, history, changes, allocations, provider, lock>>,
           charges' \in [InvoiceIds -> Charge],
           rewards' \in [InvoiceIds -> RewardStatus],
           {charges'[i].index : i \in Recorded'} = 1..Cardinality(Recorded'),
           Earned \subseteq Earned',
           plan' \in Amount,
           row' \in [price: 0..MaxPrice, discounted: BOOLEAN, from: Nat],
           PlanFollowsRow', DiscountEndsInTime', ChargesSound', RewardFollowsCharge'
    PROVE  Inv'
<1>1. NoRequest \in Request /\ NoRequest.step = "idle" /\ Told(NoRequest)
  BY EmptyRowsTyped DEF Told
<1>2. /\ requests' \in [Requests -> Request]
      /\ RequestsTold' /\ InsertsWait
  BY <1>1, OneRequest DEF provider
<1>3. TypeOK'
  BY <1>2 DEF Inv, TypeOK, provider
<1>4. Cardinality(Earned) <= Cardinality(Earned') /\ Cardinality(Earned') \in Nat
  <2>1. IsFiniteSet(Earned')
    <3>1. Earned' \subseteq InvoiceIds
      BY DEF Earned
    <3>2. IsFiniteSet(InvoiceIds)
      BY IntegerBounds, FS_Interval DEF InvoiceIds
    <3> QED BY <3>1, <3>2, FS_Subset
  <2> QED BY <2>1, FS_Subset, FS_CardinalityType
<1>5. InsertsHaveRoom' /\ IsFiniteSet(Allocated)' /\ CreditIsCovered'
  BY <1>2, <1>4, CreditsKept, NothingAllocated
<1> QED BY <1>2, <1>3, <1>5 DEF Inv

\* A refund is applied, by either kind of webhook.
LEMMA UndoInv ==
    ASSUME Inv, NEW r \in Requests, requests[r].step # "insert",
           NEW i \in DOMAIN invoices, invoices[i].payment = "refunded", UndoCharge(i),
           requests' = [requests EXCEPT ![r] = NoRequest],
           UNCHANGED <<billing, allocations, provider, lock>>
    PROVE  Inv'
<1>1. /\ charges' \in [InvoiceIds -> Charge]
      /\ rewards' \in [InvoiceIds -> RewardStatus]
      /\ Recorded' = Recorded /\ Paid' = Paid /\ Earned' = Earned
      /\ \A j \in InvoiceIds : charges'[j].index = charges[j].index
      /\ ChargesSound' /\ RewardFollowsCharge'
  BY UndoneCharge DEF provider
<1>2. {charges'[j].index : j \in Recorded'} = 1..Cardinality(Recorded')
  <2>1. {charges[j].index : j \in Recorded} = 1..Cardinality(Recorded)
    BY DEF Inv, TypeOK
  <2>2. \A j \in Recorded : charges'[j].index = charges[j].index
    BY <1>1 DEF Recorded
  <2>3. {charges'[j].index : j \in Recorded'} = {charges[j].index : j \in Recorded}
    BY <1>1, <2>2
  <2> QED BY <1>1, <2>1, <2>3
<1>3. PlanFollowsRow' /\ DiscountEndsInTime'
  BY <1>1, AmountsKept DEF billing
<1> QED BY <1>1, <1>2, <1>3, BooksGoOn DEF Inv, TypeOK, billing

\* An approved invoice is recorded.  The last discounted one is where the
\* amount at the provider and the row may part: the commit may fail.
LEMMA RecordReferralInvoiceInv == \A r \in Requests : Inv /\ RecordReferralInvoice(r) => Inv'
<1> SUFFICES ASSUME NEW r \in Requests, Inv, RecordReferralInvoice(r) PROVE Inv'
  OBVIOUS
<1>0. PICK i : i = requests[r].about
  OBVIOUS
<1> DEFINE index == Paid + 1
<1>1. /\ requests[r].step = "record" /\ i \in DOMAIN invoices
      /\ requests[r].seen = "refunded" => invoices[i].payment = "refunded"
      /\ requests' = [requests EXCEPT ![r] = NoRequest]
      /\ UNCHANGED <<allocations, provider, lock>>
  BY <1>0 DEF RecordReferralInvoice, Ends, Inv, RequestsTold, Told
<1>2. CASE requests[r].seen = "refunded" /\ UndoCharge(i) /\ UNCHANGED billing
  BY <1>1, <1>2, UndoInv
<1>3. CASE /\ i \notin Recorded /\ UNCHANGED <<source, history, changes>>
           /\ AddCharge(i, index) /\ UNCHANGED <<plan, row>> /\ ~Advance(index)
  <2>1. /\ charges' \in [InvoiceIds -> Charge]
        /\ rewards' \in [InvoiceIds -> RewardStatus]
        /\ Paid' = Paid + 1 /\ Earned \subseteq Earned'
        /\ {charges'[j].index : j \in Recorded'} = 1..Cardinality(Recorded')
        /\ ChargesSound' /\ RewardFollowsCharge'
    BY <1>1, <1>3, AddedCharge DEF provider
  <2>2. Paid \in Nat /\ Paid + 1 # DiscountCharges
    BY <1>3, ChargesAreCounted, IntegerBounds DEF Advance
  <2>3. PlanFollowsRow'
    <3>1. Paid' < DiscountCharges <=> Paid < DiscountCharges
      BY <2>1, <2>2, IntegerBounds
    <3>2. \A price : NewAmount(price)' = NewAmount(price)
      BY <3>1, AmountStays
    <3> QED BY <1>3, <2>2, <3>2 DEF Inv, PlanFollowsRow, Current
  <2>4. DiscountEndsInTime'
    BY <1>3, <2>1, <2>2, IntegerBounds DEF Inv, DiscountEndsInTime
  <2> QED BY <1>1, <1>3, <2>1, <2>3, <2>4, BooksGoOn DEF Inv, TypeOK
<1>4. CASE /\ i \notin Recorded /\ UNCHANGED <<source, history, changes>>
           /\ Advance(index) /\ plan' = Full
           /\ row' = [row EXCEPT !.discounted = FALSE] /\ AddCharge(i, index)
  <2>1. /\ charges' \in [InvoiceIds -> Charge]
        /\ rewards' \in [InvoiceIds -> RewardStatus]
        /\ Paid' = Paid + 1 /\ Earned \subseteq Earned'
        /\ {charges'[j].index : j \in Recorded'} = 1..Cardinality(Recorded')
        /\ ChargesSound' /\ RewardFollowsCharge'
    BY <1>1, <1>4, AddedCharge DEF provider
  <2>2. /\ row' \in [price: 0..MaxPrice, discounted: BOOLEAN, from: Nat]
        /\ row'.price = row.price /\ row'.discounted = FALSE
        /\ plan' \in Amount /\ plan' = [price |-> row.price, discounted |-> FALSE]
    BY <1>4 DEF Inv, TypeOK, Full, Amount
  <2>3. PlanFollowsRow'
    BY <2>2 DEF PlanFollowsRow, Current
  <2>4. DiscountEndsInTime'
    BY <1>4, <2>1, <2>2, ChargesAreCounted, IntegerBounds DEF Advance, DiscountEndsInTime
  <2> QED BY <1>1, <1>4, <2>1, <2>2, <2>3, <2>4, BooksGoOn
<1>5. CASE /\ i \notin Recorded /\ UNCHANGED <<source, history, changes>>
           /\ Advance(index) /\ plan' = Full /\ UNCHANGED <<row, charges, rewards>>
  <2>1. Recorded' = Recorded /\ Paid' = Paid /\ Earned' = Earned
    BY <1>5, SameCharges
  <2>2. plan' \in Amount /\ plan' = [price |-> row.price, discounted |-> FALSE]
    BY <1>5 DEF Inv, TypeOK, Full, Amount
  <2>3. PlanFollowsRow'
    BY <1>5, <2>1 DEF PlanFollowsRow, Full, Advance
  <2>4. DiscountEndsInTime'
    BY <1>5, <2>1, <2>2, ChargesAreCounted, IntegerBounds DEF Advance, DiscountEndsInTime
  <2>5. ChargesSound' /\ RewardFollowsCharge'
    BY <1>1, <1>5, BooksKept DEF Inv, ChargesSound, provider
  <2>6. /\ charges' \in [InvoiceIds -> Charge]
        /\ rewards' \in [InvoiceIds -> RewardStatus]
        /\ row' \in [price: 0..MaxPrice, discounted: BOOLEAN, from: Nat]
        /\ {charges'[j].index : j \in Recorded'} = 1..Cardinality(Recorded')
    BY <1>5, <2>1 DEF Inv, TypeOK
  <2> QED BY <1>1, <1>5, <2>1, <2>2, <2>3, <2>4, <2>5, <2>6, BooksGoOn
<1> QED BY <1>0, <1>2, <1>3, <1>4, <1>5 DEF RecordReferralInvoice

\* The notification of a refund is applied.
LEMMA ReverseReferralPaymentInv == \A r \in Requests : Inv /\ ReverseReferralPayment(r) => Inv'
<1> SUFFICES ASSUME NEW r \in Requests, Inv, ReverseReferralPayment(r) PROVE Inv'
  OBVIOUS
<1>0. PICK about : about = requests[r].about
  OBVIOUS
<1>1. /\ requests[r].step = "reverse"
      /\ requests' = [requests EXCEPT ![r] = NoRequest]
      /\ UNCHANGED <<billing, provider, lock>>
      /\ \/ about \in OwnPayments
         \/ about \in DOMAIN invoices /\ invoices[about].payment = "refunded"
  BY <1>0 DEF ReverseReferralPayment, Ends, Inv, RequestsTold, Told
<1>2. CASE about \notin OwnPayments
  BY <1>0, <1>1, <1>2, UndoInv DEF ReverseReferralPayment
<1>3. CASE about \in OwnPayments
  <2>1. /\ allocations' = [k \in Keys |->
              IF allocations[k].payment = about /\ allocations[k].status = "RECORDED"
              THEN [allocations[k] EXCEPT !.status = "RECOVERY_DUE"] ELSE allocations[k]]
        /\ UNCHANGED <<charges, rewards>>
    BY <1>0, <1>3 DEF ReverseReferralPayment
  <2>2. ASSUME NEW k \in Keys
        PROVE  /\ allocations'[k] \in Allocation
               /\ allocations'[k].payment = allocations[k].payment
               /\ allocations'[k].status = "none" <=> allocations[k].status = "none"
    <3>1. allocations[k] \in Allocation
      BY DEF Inv, TypeOK
    <3> QED BY <2>1, <3>1 DEF Allocation
  <2>3. allocations' \in [Keys -> Allocation]
    BY <2>1, <2>2
  <2>4. SameCredits
    BY <2>2 DEF SameCredits, Allocated, AllocatedTo
  <2>5. NoRequest \in Request /\ NoRequest.step = "idle" /\ Told(NoRequest)
    BY EmptyRowsTyped DEF Told
  <2>6. requests' \in [Requests -> Request] /\ RequestsTold' /\ InsertsWait
    BY <1>1, <2>5, OneRequest DEF provider
  <2>7. TypeOK'
    BY <1>1, <2>1, <2>3, <2>6, BooksUntouched DEF Inv, TypeOK, billing, provider
  <2>8. InsertsHaveRoom' /\ IsFiniteSet(Allocated)' /\ CreditIsCovered'
    BY <1>1, <2>1, <2>4, <2>6, BooksUntouched, CreditsKept, ChargesAreCounted DEF provider
  <2> QED BY <1>1, <2>1, <2>6, <2>7, <2>8, BooksUntouched DEF Inv, provider
<1> QED BY <1>2, <1>3

\* Finance settles a reward.
LEMMA SettleReferralRewardInv == \A i \in InvoiceIds : Inv /\ SettleReferralReward(i) => Inv'
<1> SUFFICES ASSUME NEW i \in InvoiceIds, Inv, SettleReferralReward(i) PROVE Inv'
  OBVIOUS
<1>1. /\ rewards[i] = "PENDING" /\ rewards' = [rewards EXCEPT ![i] = "SETTLED"]
      /\ UNCHANGED <<billing, charges, allocations, provider, lock, requests>>
      /\ rewards \in [InvoiceIds -> RewardStatus]
  BY DEF SettleReferralReward, Inv, TypeOK
<1>2. rewards' \in [InvoiceIds -> RewardStatus]
  BY <1>1 DEF RewardStatus
<1>3. Recorded' = Recorded /\ Paid' = Paid
  BY <1>1 DEF Recorded, Paid
<1>4. Earned' = Earned
  BY <1>1 DEF Earned
<1>5. TypeOK'
  BY <1>1, <1>2, <1>3 DEF Inv, TypeOK, billing, provider
<1>6. PlanFollowsRow' /\ DiscountEndsInTime'
  BY <1>1, <1>3, AmountsKept DEF billing
<1>7. ChargesSound' /\ RewardFollowsCharge'
  BY <1>1, <1>3, <1>4 DEF Inv, ChargesSound, RewardFollowsCharge, provider
<1>8. RequestsTold' /\ InsertsWait
  BY <1>1, SameRequests DEF provider
<1>9. InsertsHaveRoom' /\ IsFiniteSet(Allocated)' /\ CreditIsCovered'
  BY <1>1, <1>4, <1>8, CreditsKept, NothingAllocated, ChargesAreCounted
<1> QED BY <1>5, <1>6, <1>7, <1>8, <1>9 DEF Inv

-----------------------------------------------------------------------------
(* Bulk price changes *)

\* What a step of a price change has to show: amounts of their types, and
\* related to each other and to the charges.
LEMMA PriceStep ==
    ASSUME Inv, UNCHANGED <<source, ledger, provider, lock, requests>>,
           plan' \in Amount,
           row' \in [price: 0..MaxPrice, discounted: BOOLEAN, from: Nat],
           history' \subseteq [amount: Amount, from: Nat, until: Nat],
           changes' \in Seq(Change), PlanFollowsRow', DiscountEndsInTime'
    PROVE  Inv'
<1>1. Recorded' = Recorded /\ Paid' = Paid /\ Earned' = Earned
  BY SameCharges DEF ledger
<1>2. TypeOK'
  BY <1>1 DEF Inv, TypeOK, ledger, provider
<1>3. ChargesSound' /\ RewardFollowsCharge'
  BY BooksKept DEF Inv, ChargesSound, ledger, provider
<1>4. RequestsTold' /\ InsertsWait
  BY SameRequests DEF provider
<1>5. InsertsHaveRoom' /\ IsFiniteSet(Allocated)' /\ CreditIsCovered'
  BY <1>1, <1>4, CreditsKept, NothingAllocated, ChargesAreCounted DEF ledger
<1> QED BY <1>2, <1>3, <1>4, <1>5 DEF Inv

\* An item asks for one of the prices.
LEMMA PriceOfChange ==
  ASSUME Inv, NEW c \in DOMAIN changes PROVE changes[c].price \in 0..MaxPrice
<1>1. changes \in Seq(Change) /\ changes[c] \in Change
  BY DEF Inv, TypeOK
<1> QED BY <1>1 DEF Change

\* An item changes its status only.
LEMMA ItemStatus ==
    ASSUME Inv, NEW c \in DOMAIN changes,
           NEW status \in {"PENDING", "FAILED", "SKIPPED", "APPLIED"}, ItemIs(c, status)
    PROVE  /\ changes' \in Seq(Change) /\ DOMAIN changes' = DOMAIN changes
           /\ \A d \in DOMAIN changes :
                 /\ changes'[d].price = changes[d].price
                 /\ changes'[d].status = IF d = c THEN status ELSE changes[d].status
<1>1. changes \in Seq(Change) /\ changes[c] \in Change
  BY DEF Inv, TypeOK
<1>2. [changes[c] EXCEPT !.status = status] \in Change
  BY <1>1 DEF Change
<1>3. changes' = [changes EXCEPT ![c] = [changes[c] EXCEPT !.status = status]]
  BY DEF ItemIs
<1>4. /\ [changes[c] EXCEPT !.status = status].status = status
      /\ [changes[c] EXCEPT !.status = status].price = changes[c].price
  BY <1>1 DEF Change
<1> HIDE DEF ItemIs
<1> QED BY <1>1, <1>2, <1>3, <1>4

\* An administrator sets a price.
LEMMA ChangeSubscriptionPriceInv ==
    ASSUME Inv, NEW price \in 0..MaxPrice, NEW includeExisting \in BOOLEAN,
           ChangeSubscriptionPrice(price, includeExisting)
    PROVE  Inv'
<1> DEFINE new == [status |-> IF includeExisting THEN "PENDING" ELSE "none", price |-> price]
<1>1. /\ changes \in Seq(Change) /\ new \in Change /\ changes' = Append(changes, new)
      /\ UNCHANGED <<source, plan, row, history, ledger, provider, lock, requests>>
  BY DEF ChangeSubscriptionPrice, Inv, TypeOK, Change
<1> HIDE DEF new
<1>2. /\ changes' \in Seq(Change)
      /\ \A c \in DOMAIN changes : c \in DOMAIN changes' /\ changes'[c] = changes[c]
  BY <1>1
<1>3. Paid' = Paid
  BY <1>1, SameCharges DEF ledger
<1>4. \A amount : NewAmount(amount)' = NewAmount(amount)
  BY <1>3, AmountStays
<1>5. PlanFollowsRow' /\ DiscountEndsInTime'
  BY <1>1, <1>2, <1>3, <1>4 DEF Inv, PlanFollowsRow, DiscountEndsInTime, Full, Current
<1> QED BY <1>1, <1>2, <1>5, PriceStep DEF Inv, TypeOK

\* A step that moves an item and leaves both amounts: the item still owns up to
\* what it may have sent, unless what it sent is what the row says.
LEMMA ItemMoves ==
    ASSUME Inv, NEW c \in DOMAIN changes,
           NEW status \in {"PENDING", "FAILED", "SKIPPED", "APPLIED"}, ItemIs(c, status),
           status = "APPLIED" => Current = NewAmount(changes[c].price),
           UNCHANGED <<source, plan, row, history, ledger, provider, lock, requests>>
    PROVE  Inv'
<1>1. /\ changes' \in Seq(Change) /\ DOMAIN changes' = DOMAIN changes
      /\ \A d \in DOMAIN changes :
            /\ changes'[d].price = changes[d].price
            /\ changes'[d].status = IF d = c THEN status ELSE changes[d].status
  BY ItemStatus
<1>2. Paid' = Paid
  BY SameCharges DEF ledger
<1>3. \A amount : NewAmount(amount)' = NewAmount(amount)
  BY <1>2, AmountStays
<1>4. PlanFollowsRow'
  <2>1. CASE plan = Current \/ (plan = Full /\ Paid + 1 = DiscountCharges)
    BY <1>2, <2>1 DEF PlanFollowsRow, Full, Current
  <2>2. ASSUME NEW d \in DOMAIN changes,
               changes[d].status \in {"PENDING", "FAILED", "SKIPPED"},
               plan = NewAmount(changes[d].price)
        PROVE  PlanFollowsRow'
    <3>1. CASE d = c /\ status = "APPLIED"
      BY <2>2, <3>1 DEF PlanFollowsRow, Current
    <3>2. CASE ~(d = c /\ status = "APPLIED")
      BY <1>1, <1>3, <2>2, <3>2 DEF PlanFollowsRow
    <3> QED BY <3>1, <3>2
  <2> QED BY <2>1, <2>2 DEF Inv, PlanFollowsRow
<1>5. DiscountEndsInTime'
  BY <1>2 DEF Inv, DiscountEndsInTime
<1> QED BY <1>1, <1>4, <1>5, PriceStep DEF Inv, TypeOK

\* A failed item is to be tried again.
LEMMA RetrySubscriptionPriceChangeInv ==
    ASSUME Inv, NEW c \in DOMAIN changes, RetrySubscriptionPriceChange(c)
    PROVE  Inv'
<1>1. ItemIs(c, "PENDING")
  BY DEF RetrySubscriptionPriceChange, ItemIs
<1> QED BY <1>1, ItemMoves DEF RetrySubscriptionPriceChange

\* An item is closed without a call.
LEMMA CloseItemInv == ASSUME Inv, NEW c \in DOMAIN changes, CloseItem(c) PROVE Inv'
<1>1. CASE ItemIs(c, "SKIPPED")
  BY <1>1, ItemMoves DEF CloseItem
<1>2. CASE Current = NewAmount(changes[c].price) /\ ItemIs(c, "APPLIED")
  BY <1>2, ItemMoves DEF CloseItem
<1> QED BY <1>1, <1>2 DEF CloseItem

\* An item is applied: row and provider say the same, and the discount that is
\* left was counted from the charges.
LEMMA ApplyItemInv == ASSUME Inv, NEW c \in DOMAIN changes, ApplyItem(c) PROVE Inv'
<1>1. PICK amount : amount = NewAmount(changes[c].price)
  OBVIOUS
<1>2. /\ plan' = amount /\ ItemIs(c, "APPLIED")
      /\ row' = [price |-> amount.price, discounted |-> amount.discounted,
                 from |-> row.from + 1]
      /\ history' = history \cup
            {[amount |-> Current, from |-> row.from, until |-> row.from + 1]}
      /\ UNCHANGED <<source, ledger, provider, lock, requests>>
  BY <1>1 DEF ApplyItem
<1>3. changes[c].price \in 0..MaxPrice
  BY PriceOfChange
<1>4. amount \in Amount /\ (amount.discounted <=> Paid < DiscountCharges)
  BY <1>1, <1>3, AmountOfPrice
<1>5. changes' \in Seq(Change)
  BY <1>2, ItemStatus
<1>6. /\ row.from \in Nat /\ row.from + 1 \in Nat /\ Current \in Amount
  BY DEF Inv, TypeOK, Amount, Current
<1>7. /\ row' \in [price: 0..MaxPrice, discounted: BOOLEAN, from: Nat]
      /\ amount = [price |-> row'.price, discounted |-> row'.discounted]
  BY <1>2, <1>4, <1>6 DEF Amount
<1>8. history' \subseteq [amount: Amount, from: Nat, until: Nat]
  BY <1>2, <1>6 DEF Inv, TypeOK
<1>9. PlanFollowsRow'
  BY <1>2, <1>7 DEF PlanFollowsRow, Current
<1>10. DiscountEndsInTime'
  <2>1. Paid' = Paid
    BY <1>2, SameCharges DEF ledger
  <2> QED BY <1>2, <1>4, <2>1, ChargesAreCounted, IntegerBounds DEF DiscountEndsInTime
<1> QED BY <1>2, <1>4, <1>5, <1>7, <1>8, <1>9, <1>10, PriceStep

\* A call that fails may have sent its amount: the item does not say APPLIED.
LEMMA ItemFailsInv == ASSUME Inv, NEW c \in DOMAIN changes, ItemFails(c) PROVE Inv'
<1>1. PICK status \in {"FAILED", "PENDING"} : ItemIs(c, status)
  BY DEF ItemFails
<1>2. UNCHANGED <<source, row, history, ledger, provider, lock, requests>>
  BY DEF ItemFails
<1>3. CASE plan' = plan
  BY <1>1, <1>2, <1>3, ItemMoves
<1>4. CASE plan' = NewAmount(changes[c].price)
  <2>1. changes[c].price \in 0..MaxPrice
    BY PriceOfChange
  <2>2. /\ changes' \in Seq(Change) /\ c \in DOMAIN changes'
        /\ changes'[c].price = changes[c].price /\ changes'[c].status = status
    BY <1>1, ItemStatus
  <2>3. Paid' = Paid
    BY <1>2, SameCharges DEF ledger
  <2>4. \A amount : NewAmount(amount)' = NewAmount(amount)
    BY <2>3, AmountStays
  <2>5. plan' \in Amount /\ (plan'.discounted <=> Paid < DiscountCharges)
    BY <1>4, <2>1, AmountOfPrice
  <2>6. PlanFollowsRow'
    BY <1>1, <1>4, <2>2, <2>4 DEF PlanFollowsRow
  <2>7. DiscountEndsInTime'
    BY <2>3, <2>5, ChargesAreCounted, IntegerBounds DEF DiscountEndsInTime
  <2> QED BY <1>2, <2>2, <2>5, <2>6, <2>7, PriceStep DEF Inv, TypeOK
<1> QED BY <1>3, <1>4 DEF ItemFails

\* Every step, and no step, preserves the invariant.
LEMMA NextInv == Inv /\ [Next]_vars => Inv'
<1> SUFFICES ASSUME Inv, [Next]_vars PROVE Inv'
  OBVIOUS
<1>1. CASE \/ IssueInvoice
           \/ \E price \in 0..MaxPrice, includeExisting \in BOOLEAN :
                 ChangeSubscriptionPrice(price, includeExisting)
           \/ \E c \in DOMAIN changes :
                 \/ RetrySubscriptionPriceChange(c)
                 \/ CloseItem(c) \/ ApplyItem(c) \/ ItemFails(c)
  BY <1>1, IssueInvoiceInv, ChangeSubscriptionPriceInv, RetrySubscriptionPriceChangeInv,
     CloseItemInv, ApplyItemInv, ItemFailsInv
<1>2. CASE \/ \E i \in DOMAIN invoices : PaymentMoves(i)
           \/ \E p \in OwnPayments : OwnRefund(p)
  BY <1>2, PaymentMovesInv, OwnRefundInv
<1>3. CASE Webhooks
  BY <1>3, ReadsInv, RecordReferralInvoiceInv, ReverseReferralPaymentInv, StopInv
  DEF Webhooks
<1>4. CASE Finance
  BY <1>4, SettleReferralRewardInv, RecordManualMerchantCreditInv, BeginAllocationInv,
     InsertAllocationInv DEF Finance
<1>5. CASE UNCHANGED vars
  <2>1. UNCHANGED <<billing, ledger, provider, lock, requests>>
    BY <1>5 DEF vars, billing, ledger, provider
  <2>2. RequestsTold' /\ InsertsWait
    BY <2>1, SameRequests DEF provider
  <2>3. TypeOK'
    BY <2>1, BooksUntouched DEF Inv, TypeOK, billing, ledger, provider
  <2>4. InsertsHaveRoom' /\ IsFiniteSet(Allocated)' /\ CreditIsCovered'
    BY <2>1, <2>2, BooksUntouched, CreditsKept, NothingAllocated, ChargesAreCounted
    DEF ledger, provider
  <2> QED BY <2>1, <2>2, <2>3, <2>4, BooksUntouched DEF Inv, ledger, provider
<1> QED BY <1>1, <1>2, <1>3, <1>4, <1>5 DEF Next

-----------------------------------------------------------------------------
(* What a step may never do *)

\* A recorded charge keeps its place, whatever is refunded; a reward that was
\* settled is settled or to be recovered, and one that was dropped or is to be
\* recovered never comes back.
Forward == \A i \in InvoiceIds :
    /\ i \in Recorded => /\ i \in Recorded'
                         /\ charges'[i].index = charges[i].index
                         /\ charges[i].status = "REFUNDED" => charges'[i] = charges[i]
    /\ rewards[i] = "SETTLED" => rewards'[i] \in {"SETTLED", "RECOVERY_DUE"}
    /\ rewards[i] \in {"VOID", "RECOVERY_DUE"} => rewards'[i] = rewards[i]

RecordsGoForward == [][Forward]_vars

\* A refund moves its charge and reward forward.
LEMMA UndoGoesForward == ASSUME Inv, NEW i \in InvoiceIds, UndoCharge(i) PROVE Forward
<1>1. charges \in [InvoiceIds -> Charge] /\ rewards \in [InvoiceIds -> RewardStatus]
  BY DEF Inv, TypeOK
<1>2. \A j \in InvoiceIds :
        /\ charges'[j] = IF j = i /\ charges[i].status = "APPROVED"
                         THEN [charges[i] EXCEPT !.status = "REFUNDED"] ELSE charges[j]
        /\ rewards'[j] = IF j = i /\ i \in Recorded
                         THEN RewardAfterRefund(rewards[i]) ELSE rewards[j]
  BY <1>1 DEF UndoCharge
<1>3. \A j \in InvoiceIds :
        /\ charges'[j].index = charges[j].index
        /\ charges'[j].status = "none" <=> charges[j].status = "none"
        /\ charges[j].status = "REFUNDED" => charges'[j] = charges[j]
  BY <1>1, <1>2 DEF Charge
<1>4. \A j \in InvoiceIds :
        /\ rewards[j] = "SETTLED" => rewards'[j] \in {"SETTLED", "RECOVERY_DUE"}
        /\ rewards[j] \in {"VOID", "RECOVERY_DUE"} => rewards'[j] = rewards[j]
  BY <1>2 DEF RewardAfterRefund
<1> QED BY <1>3, <1>4 DEF Forward, Recorded

\* A new charge is of an invoice that had none and had earned nothing.
LEMMA AddGoesForward ==
    ASSUME Inv, NEW i \in InvoiceIds, i \notin Recorded, NEW index, AddCharge(i, index)
    PROVE  Forward
<1>1. /\ charges \in [InvoiceIds -> Charge] /\ rewards \in [InvoiceIds -> RewardStatus]
      /\ charges[i].status = "none" /\ rewards[i] = "none"
  BY DEF Inv, TypeOK, ChargesSound, Recorded, Earned
<1>2. \A j \in InvoiceIds \ {i} : charges'[j] = charges[j] /\ rewards'[j] = rewards[j]
  BY <1>1 DEF AddCharge
<1> QED BY <1>1, <1>2 DEF Forward, Recorded

\* Charges and rewards go forward in every step.
LEMMA StepsGoForward == ASSUME Inv, [Next]_vars PROVE Forward
<1>1. CASE UNCHANGED <<charges, rewards>>
  BY <1>1 DEF Forward, Recorded
<1>2. ASSUME NEW i \in InvoiceIds, SettleReferralReward(i) PROVE Forward
  BY <1>2 DEF SettleReferralReward, Inv, TypeOK, Forward, Recorded
<1>3. ASSUME NEW r \in Requests, RecordReferralInvoice(r) PROVE Forward
  <2>1. /\ requests[r].about \in InvoiceIds
        /\ \/ UndoCharge(requests[r].about)
           \/ requests[r].about \notin Recorded /\ AddCharge(requests[r].about, Paid + 1)
           \/ UNCHANGED <<charges, rewards>>
    <3>1. requests[r].about \in DOMAIN invoices
      BY <1>3 DEF RecordReferralInvoice, Inv, RequestsTold, Told
    <3>2. requests[r].about \in InvoiceIds
      BY <3>1, IntegerBounds DEF Inv, TypeOK, ChargesSound, InvoiceIds
    <3> QED BY <1>3, <3>2 DEF RecordReferralInvoice
  <2> QED BY <1>1, <2>1, UndoGoesForward, AddGoesForward
<1>4. ASSUME NEW r \in Requests, ReverseReferralPayment(r) PROVE Forward
  <2>1. CASE requests[r].about \in OwnPayments
    BY <1>1, <1>4, <2>1 DEF ReverseReferralPayment
  <2>2. CASE requests[r].about \notin OwnPayments
    <3>1. requests[r].about \in DOMAIN invoices /\ UndoCharge(requests[r].about)
      BY <1>4, <2>2 DEF ReverseReferralPayment, Inv, RequestsTold, Told
    <3>2. requests[r].about \in InvoiceIds
      BY <3>1, IntegerBounds DEF Inv, TypeOK, ChargesSound, InvoiceIds
    <3> QED BY <3>1, <3>2, UndoGoesForward
  <2> QED BY <2>1, <2>2
<1>5. CASE Next
  BY <1>1, <1>2, <1>3, <1>4, <1>5
  DEF Next, Webhooks, Finance, IssueInvoice, PaymentMoves, OwnRefund,
      ReadInvoice, ReadPayment, ReadOwnPayment, Stop, RecordManualMerchantCredit,
      BeginAllocation, InsertAllocation, ChangeSubscriptionPrice, CloseItem, ApplyItem,
      RetrySubscriptionPriceChange, ItemFails, ledger
<1> QED BY <1>1, <1>5 DEF vars

-----------------------------------------------------------------------------
(* The theorems *)

\* The invariant holds whatever webhooks, refunds, price changes and credits
\* interleave.
THEOREM InvariantTheorem == Spec => []Inv
<1> QED BY InitInv, NextInv, PTL DEF Spec

\* For any terms of the referral the paid sequence has no gap, the discount
\* ends at the provider with the last discounted charge and not before, however
\* often a price change fails after its call and is tried again.  The provider
\* bills what the row says but for what a failure left: the full price while the
\* last discounted charge is not recorded, or the amount of a price change whose
\* item is still open, FAILED or SKIPPED (RecordReferralInvoice,
\* ApplyNextSubscriptionPriceChange).
THEOREM DiscountsEndInTime == Spec => []ReferralInv
<1>1. Inv => ReferralInv
  BY DEF Inv, ReferralInv
<1> QED BY <1>1, InvariantTheorem, PTL

\* A reward is owed or paid only on a charge that was not refunded, also when
\* the refund was read before the charge was recorded
\* (RecordReferralInvoice, ReverseReferralPayment).
THEOREM RewardsFollowCharges == Spec => []RewardFollowsCharge
<1>1. Inv => RewardFollowsCharge
  BY DEF Inv
<1> QED BY <1>1, InvariantTheorem, PTL

\* However many allocations run at once and whatever is refunded meanwhile,
\* the credits given are covered by rewards that were earned, and no own
\* payment is credited beyond its capacity (RecordMerchantCreditAllocation).
THEOREM CreditsAreCovered == Spec => []CreditIsCovered
<1>1. Inv => CreditIsCovered
  BY DEF Inv
<1> QED BY <1>1, InvariantTheorem, PTL

\* Nothing that was charged, paid out or dropped is ever rewritten: charges and
\* rewards only go forward (AddCharge's place, RewardAfterRefund).
THEOREM NothingIsRewritten == Spec => RecordsGoForward
<1>1. Inv /\ [Next]_vars => [Forward]_vars
  BY StepsGoForward
<1> QED BY <1>1, InvariantTheorem, PTL DEF Spec, RecordsGoForward

=============================================================================
