------------------------ MODULE BranchProrationProofs ------------------------
(***************************************************************************)
(* Proofs about BranchProration for any number of operations, payments and *)
(* renewals.                                                               *)
(***************************************************************************)
EXTENDS BranchProration, SequenceTheorems, WellFoundedInduction, TLAPS

-----------------------------------------------------------------------------
(* The inductive invariant *)

\* branch_operations_single_active_brand
OneActive ==
    \A o, p \in Operations : ops[o].status \in Active /\ ops[p].status \in Active => o = p

\* The payment a row names exists; once it was seen approved it is approved or
\* given back, and once it was seen given back it is.
PaymentSeen(o, row) ==
    /\ row.payment \in 0..Len(payments[o])
    /\ row.payment = 0 => row.paid = "pending"
    /\ row.paid = "approved" => payments[o][row.payment].status \in {"approved", "refunded"}
    /\ row.paid = "refunded" => payments[o][row.payment].status = "refunded"

\* An operation that asks for no payment, or is not confirmed, has none.
NothingPaid(o, row) ==
    /\ payments[o] = <<>> /\ ~row.checkout
    /\ row.payment = 0 /\ row.paid = "pending"

\* What the status of a saved operation says of it: until its payment is
\* approved it never touches the plan, and while it may have touched it the
\* brand has the branches it was quoted for.
OpSound(o, row) ==
    /\ PaymentSeen(o, row)
    /\ ~row.required \/ row.status \in {"none", "quoted"} => NothingPaid(o, row)
    /\ row.status \in {"none", "quoted"} => ~row.planStarted
    /\ row.status = "PAYMENT_PENDING" =>
          row.required /\ ~row.planStarted /\ row.count = sub.count
    /\ row.status = "FAILED" /\ row.required => ~row.planStarted
    /\ row.status = "PLAN_UPDATING" =>
          row.count = sub.count /\ (row.required => row.paid = "approved")
    /\ row.status = "REFUND_PENDING" =>
          /\ row.planStarted => row.count = sub.count
          /\ row.required => row.paid \in {"approved", "refunded"}
    /\ row.status = "REFUNDED" => row.paid = "refunded"

OpsSound == \A o \in Operations : OpSound(o, ops[o])

\* The provider charges for one branch more than the brand has only for an
\* operation whose row says that it changed the plan and has not ended.
AmountExplained ==
    \/ plan.amount = sub.count
    \/ /\ plan.amount = sub.count + 1
       /\ \E o \in Operations : /\ ops[o].status \in {"PLAN_UPDATING", "REFUND_PENDING"}
                                /\ ops[o].planStarted

Finding == {"find", "checkout"}
Raising == {"read", "put", "verify"}
Undoing == {"restore", "undo", "undone", "refund", "confirm"}

\* What ReconcileBranch holds in memory against the row it locked: the terms
\* of the quote do not change, and the subscription it checked is locked.
RowInHand(o, row) ==
    /\ row.required = ops[o].required /\ row.count = ops[o].count
    /\ row.cycle = ops[o].cycle /\ row.planStarted = ops[o].planStarted
    /\ PaymentSeen(o, row)
    /\ ~row.required => NothingPaid(o, row)
    /\ rec.step \in Finding =>
          /\ ops[o].status \in {"PAYMENT_PENDING", "FAILED"}
          /\ row.status = ops[o].status
          /\ rec.eligible => Unchanged(row)
    /\ rec.step \in Raising =>
          ops[o].status = "PLAN_UPDATING" /\ row = ops[o] /\ row.planStarted /\ Unchanged(row)
    /\ rec.step \in Undoing =>
          /\ ops[o].status \in {"PAYMENT_PENDING", "FAILED", "PLAN_UPDATING", "REFUND_PENDING"}
          /\ row.required => row.paid \in {"approved", "refunded"}
          /\ row.planStarted => ops[o].status \in {"PLAN_UPDATING", "REFUND_PENDING"}
    /\ rec.step \in {"refund", "confirm"} =>
          row.required /\ (row.planStarted => plan.amount = row.count)
    /\ rec.step = "undo" => row.planStarted
    /\ rec.step = "duplicates" => ops[o].status = "COMPLETED" /\ row = ops[o]

InHand == rec.step # "idle" => RowInHand(rec.op, rec.row)

Inv ==
    /\ TypeOK
    /\ OneActive
    /\ OpsSound
    /\ AmountExplained
    /\ InHand

-----------------------------------------------------------------------------
(* Frames *)

\* Nothing is quoted and nothing is paid.
LEMMA InitInv == Init => Inv
<1> SUFFICES ASSUME Init
             PROVE  Inv
  OBVIOUS
<1>0. NoRow \in Row
  BY DEF NoRow, Row, Statuses, PaymentStatuses
<1>1. TypeOK
  <2>1. ops \in [Operations -> Row] /\ payments \in [Operations -> Seq(Payment)]
    BY <1>0 DEF Init
  <2>2. /\ sub \in [status: {"AUTHORIZED", "CANCELLED"}, count: Nat, cycle: Nat]
        /\ plan \in [status: {"authorized", "cancelled"}, amount: Nat, cycle: Nat]
    BY DEF Init
  <2>3. rec \in Reconcile /\ rec.step = "idle"
    BY <1>0 DEF Init, NoReconcile, Reconcile, Steps
  <2>4. expired \subseteq Operations /\ entitled \in BOOLEAN
    BY DEF Init
  <2> QED BY <2>1, <2>2, <2>3, <2>4 DEF TypeOK
<1>2. OneActive
  BY DEF Init, OneActive, NoRow, Active
<1>3. OpsSound
  <2>1. ASSUME NEW o \in Operations
        PROVE  PaymentSeen(o, ops[o]) /\ NothingPaid(o, ops[o])
    <3>1. /\ ops[o].payment = 0 /\ ops[o].paid = "pending" /\ ~ops[o].checkout
          /\ payments[o] = <<>> /\ Len(payments[o]) = 0
      BY DEF Init, NoRow
    <3> QED BY <3>1 DEF PaymentSeen, NothingPaid
  <2>2. \A o \in Operations : ops[o].status = "none" /\ ~ops[o].planStarted
    BY DEF Init, NoRow
  <2> QED BY <2>1, <2>2 DEF OpsSound, OpSound
<1>4. AmountExplained /\ InHand
  BY DEF Init, AmountExplained, InHand, NoReconcile
<1> QED BY <1>1, <1>2, <1>3, <1>4 DEF Inv

\* A step that changes nothing keeps the invariant.
LEMMA StutterInv == Inv /\ UNCHANGED vars => Inv'
  BY DEF Inv, vars, rows, provider, TypeOK, OneActive, OpsSound, OpSound, PaymentSeen,
         NothingPaid, AmountExplained, InHand, RowInHand, Unchanged

\* What Mercado Pago and its refunds may do to the payments: none disappears,
\* a refund is final, an approved one can only be refunded, and a checkout that
\* does not exist is not paid.
PaymentsMove ==
    /\ payments' \in [Operations -> Seq(Payment)]
    /\ \A o \in Operations :
          /\ Len(payments'[o]) \in Nat /\ Len(payments[o]) <= Len(payments'[o])
          /\ payments[o] = <<>> /\ ~ops[o].checkout => payments'[o] = <<>>
          /\ \A i \in 1..Len(payments[o]) :
                /\ payments[o][i].status = "refunded" => payments'[o][i].status = "refunded"
                /\ payments[o][i].status = "approved" =>
                      payments'[o][i].status \in {"approved", "refunded"}

\* No payment at all is one way to move.
LEMMA PaymentsStay == Inv /\ UNCHANGED payments => PaymentsMove
  BY LenProperties DEF Inv, TypeOK, PaymentsMove

\* What a row says of its payments stays true.
LEMMA SeenStays ==
    ASSUME Inv, PaymentsMove, NEW o \in Operations, NEW row, PaymentSeen(o, row)
    PROVE  /\ PaymentSeen(o, row)'
           /\ NothingPaid(o, row) /\ ~ops[o].checkout => NothingPaid(o, row)'
<1>0. Len(payments[o]) \in Nat /\ Len(payments'[o]) \in Nat
  BY LenProperties DEF Inv, TypeOK, PaymentsMove
<1>1. row.payment \in 0..Len(payments'[o])
  BY <1>0 DEF PaymentsMove, PaymentSeen
<1>2. row.paid \in {"approved", "refunded"} => row.payment \in 1..Len(payments[o])
  BY <1>0 DEF PaymentSeen
<1> QED BY <1>1, <1>2 DEF PaymentsMove, PaymentSeen, NothingPaid

\* An operation that is not touched stays sound while the subscription keeps
\* its quantity.
LEMMA OpStays ==
    ASSUME Inv, PaymentsMove, NEW o \in Operations, sub'.count = sub.count
    PROVE  OpSound(o, ops[o]) /\ (ops'[o] = ops[o] => OpSound(o, ops[o])')
<1>1. OpSound(o, ops[o])
  BY DEF Inv, OpsSound
<1>2. ASSUME ops'[o] = ops[o]
      PROVE  OpSound(o, ops[o])'
  <2>1. PaymentSeen(o, ops[o]) /\ (NothingPaid(o, ops[o]) => ~ops[o].checkout)
    BY <1>1 DEF OpSound, NothingPaid
  <2>2. PICK row : row = ops[o]
    OBVIOUS
  <2>3. PaymentSeen(o, row)' /\ (NothingPaid(o, row) => NothingPaid(o, row)')
    BY <2>1, <2>2, SeenStays
  <2>4. OpSound(o, row)
    BY <1>1, <2>2
  <2>5. ops'[o] = row
    BY <1>2, <2>2
  <2> QED BY <2>3, <2>4, <2>5 DEF OpSound, PaymentSeen, NothingPaid
<1> QED BY <1>1, <1>2

-----------------------------------------------------------------------------
(* Steps outside ReconcileBranch *)

\* What the transaction in progress holds stays true while the rows and the
\* quantities stay.
LEMMA InHandStays ==
    ASSUME Inv, PaymentsMove, UNCHANGED <<ops, sub, rec>>,
           plan'.amount = plan.amount
    PROVE  InHand'
<1> SUFFICES ASSUME rec.step # "idle"
             PROVE  RowInHand(rec.op, rec.row)'
  BY DEF InHand
<1>1. RowInHand(rec.op, rec.row) /\ rec.op \in Operations
  BY DEF Inv, InHand, TypeOK
<1>2. PICK o, row : o \in Operations /\ o = rec.op /\ row = rec.row
  BY <1>1
<1>3. PaymentSeen(o, row)
  BY <1>1, <1>2 DEF RowInHand
<1>4. PaymentSeen(o, row)' /\ (NothingPaid(o, row) /\ ~ops[o].checkout => NothingPaid(o, row)')
  BY <1>2, <1>3, SeenStays
<1>5. ~row.required => NothingPaid(o, row)'
  BY <1>1, <1>2, <1>4 DEF RowInHand, Inv, OpsSound, OpSound, NothingPaid
<1> QED BY <1>1, <1>2, <1>4, <1>5 DEF RowInHand, PaymentSeen, NothingPaid, Unchanged

\* A step that leaves the rows, the quantities and the transaction in progress.
LEMMA ProviderStep ==
    ASSUME Inv, PaymentsMove, UNCHANGED <<ops, sub, rec>>,
           expired' \subseteq Operations, entitled' \in BOOLEAN,
           plan' \in [status: {"authorized", "cancelled"}, amount: Nat, cycle: Nat],
           plan'.amount = plan.amount
    PROVE  Inv'
<1>1. TypeOK'
  <2>1. ASSUME rec.step \in {"refund", "confirm"}
        PROVE  rec.row.payment \in 1..Len(payments'[rec.op])
    <3>1. rec.op \in Operations /\ rec.row.payment \in 1..Len(payments[rec.op])
      BY <2>1 DEF Inv, TypeOK
    <3> QED BY <3>1, LenProperties DEF Inv, TypeOK, PaymentsMove
  <2> QED BY <2>1 DEF Inv, TypeOK, PaymentsMove
<1>2. OneActive'
  BY DEF Inv, OneActive
<1>3. OpsSound'
  BY OpStays DEF OpsSound
<1>4. AmountExplained'
  BY DEF Inv, AmountExplained
<1> QED BY <1>1, <1>2, <1>3, <1>4, InHandStays DEF Inv

\* While no transaction is in progress the subscription may be stored as
\* cancelled or renewed: its quantity stays.
LEMMA SubscriptionStep ==
    ASSUME Inv, Unlocked, UNCHANGED <<ops, expired, entitled, payments, rec>>,
           sub' \in [status: {"AUTHORIZED", "CANCELLED"}, count: Nat, cycle: Nat],
           sub'.count = sub.count,
           plan' \in [status: {"authorized", "cancelled"}, amount: Nat, cycle: Nat],
           plan'.amount = plan.amount
    PROVE  Inv'
<1>1. TypeOK' /\ OneActive' /\ AmountExplained'
  BY DEF Inv, TypeOK, OneActive, AmountExplained
<1>2. OpsSound'
  BY OpStays, PaymentsStay DEF OpsSound
<1>3. InHand'
  BY DEF InHand, Unlocked
<1> QED BY <1>1, <1>2, <1>3 DEF Inv

\* The subscription cancelled by the owner, or stored as the provider shows it.
LEMMA SubscriptionSteps ==
    ASSUME Inv, CancelSubscription \/ SyncSubscription
    PROVE  Inv'
<1>1. CASE CancelSubscription
  <2>1. /\ sub' \in [status: {"AUTHORIZED", "CANCELLED"}, count: Nat, cycle: Nat]
        /\ sub'.count = sub.count
    BY <1>1 DEF CancelSubscription, Inv, TypeOK
  <2>2. /\ plan' \in [status: {"authorized", "cancelled"}, amount: Nat, cycle: Nat]
        /\ plan'.amount = plan.amount
    BY <1>1 DEF CancelSubscription, Inv, TypeOK
  <2> QED BY <1>1, <2>1, <2>2, SubscriptionStep DEF CancelSubscription
<1>2. CASE SyncSubscription
  <2>1. plan.cycle \in Nat
    BY DEF Inv, TypeOK
  <2>2. /\ sub' \in [status: {"AUTHORIZED", "CANCELLED"}, count: Nat, cycle: Nat]
        /\ sub'.count = sub.count
    BY <1>2, <2>1 DEF SyncSubscription, Inv, TypeOK
  <2> QED BY <1>2, <2>2, SubscriptionStep DEF SyncSubscription, provider, Inv, TypeOK
<1> QED BY <1>1, <1>2

\* Time passes, the brand is lost, the plan renews or is cancelled.
LEMMA OutsideSteps ==
    ASSUME Inv, LoseBrand \/ PlanRenews \/ PlanCancelled
                \/ \E o \in Operations : QuoteExpires(o)
    PROVE  Inv'
<1>1. UNCHANGED <<ops, sub, rec, payments>>
  BY DEF LoseBrand, PlanRenews, PlanCancelled, QuoteExpires, rows, provider
<1>2. /\ plan' \in [status: {"authorized", "cancelled"}, amount: Nat, cycle: Nat]
      /\ plan'.amount = plan.amount
  BY DEF Inv, TypeOK, LoseBrand, PlanRenews, PlanCancelled, QuoteExpires, provider
<1>3. expired' \subseteq Operations /\ entitled' \in BOOLEAN
  BY DEF Inv, TypeOK, LoseBrand, PlanRenews, PlanCancelled, QuoteExpires
<1> QED BY <1>1, <1>2, <1>3, PaymentsStay, ProviderStep

\* A buyer pays, perhaps twice: a new payment at the end.
LEMMA PayStep ==
    ASSUME Inv, NEW o \in Operations, Pay(o)
    PROVE  Inv' /\ PaymentsMove
<1> DEFINE new == [status |-> "pending", inTime |-> FALSE]
<1>1. /\ payments[o] \in Seq(Payment) /\ new \in Payment
      /\ payments' = [payments EXCEPT ![o] = Append(payments[o], new)]
      /\ ops[o].checkout
      /\ UNCHANGED <<ops, sub, expired, entitled, plan, rec>>
  BY DEF Pay, Inv, TypeOK, Payment, PaymentStatuses, rows
<1> HIDE DEF new
<1>2. PICK s \in Seq(Payment) : s = Append(payments[o], new)
  BY <1>1, AppendProperties
<1>3. /\ Len(s) = Len(payments[o]) + 1
      /\ \A i \in 1..Len(payments[o]) : s[i] = payments[o][i]
  BY <1>1, <1>2, AppendProperties
<1>4. payments' \in [Operations -> Seq(Payment)]
  BY <1>1, <1>2 DEF Inv, TypeOK
<1>5. \A p \in Operations : payments'[p] = IF p = o THEN s ELSE payments[p]
  BY <1>1, <1>2 DEF Inv, TypeOK
<1>6. \A p \in Operations : Len(payments[p]) \in Nat
  BY LenProperties DEF Inv, TypeOK
<1>7. PaymentsMove
  <2>1. ASSUME NEW p \in Operations
        PROVE  /\ Len(payments'[p]) \in Nat /\ Len(payments[p]) <= Len(payments'[p])
               /\ payments[p] = <<>> /\ ~ops[p].checkout => payments'[p] = <<>>
               /\ \A i \in 1..Len(payments[p]) : payments'[p][i] = payments[p][i]
    <3>1. CASE p = o
      BY <3>1, <1>1, <1>3, <1>5, <1>6
    <3>2. CASE p # o
      BY <3>2, <1>5, <1>6
    <3> QED BY <3>1, <3>2
  <2> QED BY <1>4, <2>1 DEF PaymentsMove
<1> QED BY <1>1, <1>7, ProviderStep DEF Inv, TypeOK

\* Some payments of o take other statuses, as a settlement or a refund gives
\* them: what is approved is only refunded, what is refunded stays so.
Revised(o, ids, status) ==
    /\ payments' \in [Operations -> Seq(Payment)]
    /\ \A p \in Operations : p # o => payments'[p] = payments[p]
    /\ Len(payments'[o]) = Len(payments[o])
    /\ \A i \in 1..Len(payments[o]) :
          IF i \in ids THEN payments'[o][i].status = status
                       ELSE payments'[o][i] = payments[o][i]

\* A settlement or a refund moves payments forward only.
LEMMA RevisedMoves ==
    ASSUME Inv, NEW o \in Operations, NEW ids, NEW status, Revised(o, ids, status),
           \/ status = "refunded"
           \/ \A i \in ids : payments[o][i].status = "pending"
    PROVE  PaymentsMove
<1>1. \A p \in Operations : /\ Len(payments[p]) \in Nat /\ Len(payments'[p]) \in Nat
                            /\ payments[p] \in Seq(Payment) /\ payments'[p] \in Seq(Payment)
  BY LenProperties DEF Inv, TypeOK, Revised
<1>2. ASSUME NEW p \in Operations
      PROVE  /\ Len(payments[p]) <= Len(payments'[p])
             /\ payments[p] = <<>> => payments'[p] = <<>>
             /\ \A i \in 1..Len(payments[p]) :
                /\ payments[p][i].status = "refunded" => payments'[p][i].status = "refunded"
                /\ payments[p][i].status = "approved" =>
                      payments'[p][i].status \in {"approved", "refunded"}
  <2>1. CASE p # o
    BY <2>1, <1>1 DEF Revised
  <2>2. CASE p = o
    <3>1. Len(payments[p]) = Len(payments'[p])
      BY <2>2 DEF Revised
    <3>2. payments[p] = <<>> => payments'[p] = <<>>
      BY <3>1, <1>1, EmptySeq
    <3>3. \A i \in 1..Len(payments[p]) :
             \/ payments'[p][i] = payments[p][i]
             \/ payments'[p][i].status = "refunded"
             \/ payments[p][i].status = "pending"
      BY <2>2 DEF Revised
    <3> QED BY <1>1, <3>1, <3>2, <3>3
  <2> QED BY <2>1, <2>2
<1> QED BY <1>1, <1>2 DEF PaymentsMove, Revised

\* A pending payment settles.
LEMMA SettlesStep ==
    ASSUME Inv, NEW o \in Operations, NEW i \in 1..Len(payments[o]), Settles(o, i)
    PROVE  Inv' /\ PaymentsMove
<1>1. /\ payments[o] \in Seq(Payment) /\ payments[o][i].status = "pending"
      /\ UNCHANGED <<ops, sub, expired, entitled, plan, rec>>
  BY DEF Settles, Inv, TypeOK, rows
<1>2. PICK status \in {"approved", "rejected"} :
         payments' = [payments EXCEPT ![o][i] = [status |-> status, inTime |-> o \notin expired]]
  BY DEF Settles
<1>3. PICK new \in Payment : new.status = status
         /\ payments' = [payments EXCEPT ![o] = [payments[o] EXCEPT ![i] = new]]
  <2>1. PICK new : new = [status |-> status, inTime |-> o \notin expired]
    OBVIOUS
  <2>2. new \in Payment /\ new.status = status
    BY <2>1 DEF Payment, PaymentStatuses
  <2>3. payments' = [payments EXCEPT ![o][i] = new]
    BY <1>2, <2>1
  <2> QED BY <2>2, <2>3
<1>4. PICK s \in Seq(Payment) : s = [payments[o] EXCEPT ![i] = new]
  BY <1>1, ExceptSeq
<1>5. /\ Len(s) = Len(payments[o])
      /\ \A j \in 1..Len(payments[o]) : s[j] = IF j = i THEN new ELSE payments[o][j]
  BY <1>1, <1>4, ExceptSeq, LenProperties
<1>6. payments' \in [Operations -> Seq(Payment)]
      /\ \A p \in Operations : payments'[p] = IF p = o THEN s ELSE payments[p]
  BY <1>3, <1>4 DEF Inv, TypeOK
<1>7. Revised(o, {i}, status)
  BY <1>3, <1>5, <1>6 DEF Revised
<1>8. PaymentsMove
  BY <1>1, <1>7, RevisedMoves
<1> QED BY <1>1, <1>8, ProviderStep DEF Inv, TypeOK

\* What Refunded makes of the payments.
LEMMA RefundsRevise ==
    ASSUME Inv, NEW o \in Operations, NEW ids, payments' = Refunded(o, ids)
    PROVE  Revised(o, ids, "refunded") /\ PaymentsMove
<1> DEFINE n == Len(payments[o])
           s == [i \in 1..n |-> IF i \in ids THEN [payments[o][i] EXCEPT !.status = "refunded"]
                                             ELSE payments[o][i]]
<1>1. payments[o] \in Seq(Payment) /\ n \in Nat
  BY LenProperties DEF Inv, TypeOK
<1>2. \A i \in 1..n : payments[o][i] \in Payment
  BY <1>1, ElementOfSeq
<1>3. ASSUME NEW i \in 1..n
      PROVE  /\ s[i] \in Payment
             /\ IF i \in ids THEN s[i].status = "refunded" ELSE s[i] = payments[o][i]
  BY <1>2 DEF Payment, PaymentStatuses
<1>4. s \in Seq(Payment) /\ Len(s) = n
  <2>1. s = [i \in 1..n |-> s[i]]
    OBVIOUS
  <2> HIDE DEF s
  <2>2. s \in [1..n -> Payment]
    BY <2>1, <1>3
  <2> QED BY <2>2, <1>1, IsASeq, LenProperties
<1>5. payments' = [payments EXCEPT ![o] = s]
  BY DEF Refunded
<1> HIDE DEF s
<1>6. payments' \in [Operations -> Seq(Payment)]
      /\ \A p \in Operations : payments'[p] = IF p = o THEN s ELSE payments[p]
  BY <1>4, <1>5 DEF Inv, TypeOK
<1>7. Revised(o, ids, "refunded")
  BY <1>3, <1>4, <1>6 DEF Revised
<1> QED BY <1>7, RevisedMoves

-----------------------------------------------------------------------------
(* Steps that write a row *)

\* A row that says that its operation changed the plan and has not ended.
Explains(row) == row.status \in {"PLAN_UPDATING", "REFUND_PENDING"} /\ row.planStarted

\* The row of o becomes row and the transaction that held the brand is over.
RowWritten(o, row) ==
    /\ row \in Row
    /\ ops' = [ops EXCEPT ![o] = row]
    /\ rec' = NoReconcile \/ (rec' = rec /\ Unlocked)
    /\ row.status \in Active => NoneActive(Operations \ {o})
    /\ UNCHANGED <<expired, entitled>>

\* A row is written while the subscription keeps its quantity.
LEMMA RowStep ==
    ASSUME Inv, PaymentsMove, NEW o \in Operations, NEW row, RowWritten(o, row),
           sub' \in [status: {"AUTHORIZED", "CANCELLED"}, count: Nat, cycle: Nat],
           plan' \in [status: {"authorized", "cancelled"}, amount: Nat, cycle: Nat],
           sub'.count = sub.count, OpSound(o, row)', AmountExplained'
    PROVE  Inv'
<1>1. \A p \in Operations : ops'[p] = IF p = o THEN row ELSE ops[p]
  BY DEF RowWritten, Inv, TypeOK
<1>2. rec'.step = "idle" /\ rec' \in Reconcile
  <2>1. NoReconcile \in Reconcile /\ NoReconcile.step = "idle"
    BY DEF NoReconcile, Reconcile, Steps, NoRow, Row, Statuses, PaymentStatuses
  <2> QED BY <2>1 DEF RowWritten, Unlocked, Inv, TypeOK
<1>3. TypeOK'
  BY <1>2 DEF RowWritten, Inv, TypeOK, PaymentsMove
<1>4. OneActive'
  BY <1>1 DEF RowWritten, Inv, OneActive, NoneActive
<1>5. OpsSound'
  <2>1. ASSUME NEW p \in Operations
        PROVE  OpSound(p, ops[p])'
    <3>1. CASE p = o
      <4>1. ops'[p] = row
        BY <1>1, <3>1
      <4> QED BY <4>1, <3>1 DEF OpSound, PaymentSeen, NothingPaid
    <3>2. CASE p # o
      BY <1>1, <3>2, OpStays
    <3> QED BY <3>1, <3>2
  <2> QED BY <2>1 DEF OpsSound
<1>6. InHand'
  BY <1>2 DEF InHand
<1> QED BY <1>3, <1>4, <1>5, <1>6 DEF Inv

\* The amount stays explained when the row keeps explaining what it explained.
LEMMA StillExplained ==
    ASSUME Inv, NEW o \in Operations, NEW row, ops' = [ops EXCEPT ![o] = row],
           Explains(ops[o]) => Explains(row),
           sub'.count = sub.count, plan'.amount = plan.amount
    PROVE  AmountExplained'
<1>1. \A p \in Operations : ops'[p] = IF p = o THEN row ELSE ops[p]
  BY DEF Inv, TypeOK
<1>2. AmountExplained
  BY DEF Inv
<1>3. CASE plan.amount = sub.count
  BY <1>3 DEF AmountExplained
<1>4. CASE /\ plan.amount = sub.count + 1 /\ \E p \in Operations : Explains(ops[p])
  <2>1. PICK p \in Operations : Explains(ops[p])
    BY <1>4
  <2>2. Explains(ops'[p])
    BY <1>1, <2>1
  <2> QED BY <1>4, <2>2 DEF AmountExplained, Explains
<1> QED BY <1>2, <1>3, <1>4 DEF AmountExplained, Explains

\* Fields of a row that is written with one of them changed.
LEMMA RowFields ==
    ASSUME NEW row \in Row, NEW status \in Statuses, NEW code,
           code \in {"", "QUOTE_EXPIRED", "RETRY", "PLAN_UPDATE_FAILED"}
    PROVE  /\ [row EXCEPT !.status = status, !.code = code] \in Row
           /\ [row EXCEPT !.status = status] \in Row
           /\ [row EXCEPT !.planStarted = TRUE] \in Row
           /\ [row EXCEPT !.checkout = TRUE] \in Row
           /\ [row EXCEPT !.paid = "refunded"] \in Row
  BY DEF Row, PaymentStatuses

\* A quote is made on the subscription as it is.
LEMMA QuoteStep ==
    ASSUME Inv, NEW o \in Operations, Quote(o)
    PROVE  Inv'
<1>0. PICK required \in BOOLEAN :
         ops' = [ops EXCEPT ![o] = [NoRow EXCEPT !.status = "quoted",
                    !.required = required, !.count = sub.count, !.cycle = sub.cycle]]
  BY DEF Quote
<1>1. PICK row :
         /\ row = [NoRow EXCEPT !.status = "quoted", !.required = required,
                                !.count = sub.count, !.cycle = sub.cycle]
         /\ ops' = [ops EXCEPT ![o] = row]
  BY <1>0
<1>2. /\ Unlocked /\ ops[o].status = "none"
      /\ UNCHANGED <<expired, entitled, sub, plan, payments, rec>>
  BY DEF Quote, provider
<1>3. /\ row.status = "quoted" /\ row.payment = 0 /\ row.paid = "pending"
      /\ ~row.checkout /\ ~row.planStarted /\ row \in Row
  BY <1>1 DEF NoRow, Row, Statuses, PaymentStatuses, Inv, TypeOK
<1>4. OpSound(o, ops[o]) /\ payments[o] = <<>> /\ Len(payments[o]) = 0
  BY <1>2 DEF Inv, OpsSound, OpSound, NothingPaid
<1>5. OpSound(o, row)'
  BY <1>2, <1>3, <1>4 DEF OpSound, PaymentSeen, NothingPaid
<1>6. AmountExplained'
  BY <1>1, <1>2, StillExplained DEF Explains
<1>7. RowWritten(o, row)
  BY <1>1, <1>2, <1>3 DEF RowWritten, Active
<1> QED BY <1>2, <1>5, <1>6, <1>7, RowStep, PaymentsStay DEF Inv, TypeOK

\* A quote is confirmed on the subscription it was made for, and by one
\* operation at a time.
LEMMA ConfirmStep ==
    ASSUME Inv, NEW o \in Operations, Confirm(o)
    PROVE  Inv'
<1>1. PICK status : status = IF ops[o].required THEN "PAYMENT_PENDING" ELSE "PLAN_UPDATING"
  OBVIOUS
<1>2. PICK row : row = [ops[o] EXCEPT !.status = status]
  OBVIOUS
<1>3. /\ Unlocked /\ ops[o].status = "quoted" /\ sub.count = ops[o].count
      /\ NoneActive(Operations) /\ ops' = [ops EXCEPT ![o] = row] /\ ops[o] \in Row
      /\ UNCHANGED <<expired, entitled, sub, plan, payments, rec>>
  BY <1>1, <1>2 DEF Confirm, Eligible, Unchanged, provider, Inv, TypeOK
<1>4. /\ row.status = status /\ row.payment = ops[o].payment /\ row.paid = ops[o].paid
      /\ row.required = ops[o].required /\ row.checkout = ops[o].checkout
      /\ row.planStarted = ops[o].planStarted /\ row.count = ops[o].count
      /\ row \in Row
  BY <1>1, <1>2, <1>3 DEF Row, Statuses, Active
<1>5. OpSound(o, ops[o])
  BY DEF Inv, OpsSound
<1>6. OpSound(o, row)'
  BY <1>1, <1>3, <1>4, <1>5 DEF OpSound, PaymentSeen, NothingPaid
<1>7. AmountExplained'
  BY <1>3, StillExplained DEF Explains
<1>8. RowWritten(o, row)
  BY <1>3, <1>4 DEF RowWritten, NoneActive
<1> QED BY <1>3, <1>6, <1>7, <1>8, RowStep, PaymentsStay DEF Inv, TypeOK

\* The intent to change the plan is recorded before the plan is changed.
LEMMA IntentStep ==
    ASSUME Inv, NEW o \in Operations, RecordPlanIntent(o)
    PROVE  Inv'
<1>1. PICK row : row = [ops[o] EXCEPT !.planStarted = TRUE, !.code = ""]
  OBVIOUS
<1>2. /\ Unlocked /\ ops[o].status = "PLAN_UPDATING" /\ ops[o] \in Row
      /\ ops' = [ops EXCEPT ![o] = row]
      /\ UNCHANGED <<expired, entitled, sub, plan, payments, rec>>
  BY <1>1 DEF RecordPlanIntent, provider, Inv, TypeOK
<1>3. /\ row.status = "PLAN_UPDATING" /\ row.payment = ops[o].payment
      /\ row.paid = ops[o].paid /\ row.planStarted /\ row.count = ops[o].count
      /\ row.required = ops[o].required /\ row.checkout = ops[o].checkout
      /\ row \in Row
  BY <1>1, <1>2 DEF Row
<1>4. OpSound(o, ops[o])
  BY DEF Inv, OpsSound
<1>5. OpSound(o, row)'
  BY <1>2, <1>3, <1>4 DEF OpSound, PaymentSeen, NothingPaid
<1>6. AmountExplained'
  BY <1>2, <1>3, StillExplained DEF Explains
<1>7. NoneActive(Operations \ {o})
  BY <1>2 DEF Inv, OneActive, NoneActive, Active
<1>8. RowWritten(o, row)
  BY <1>2, <1>3, <1>7 DEF RowWritten
<1> QED BY <1>2, <1>5, <1>6, <1>8, RowStep, PaymentsStay DEF Inv, TypeOK

-----------------------------------------------------------------------------
(* ReconcileBranch takes the lock, goes on or gives up *)

\* A stopped process leaves what it saved.
LEMMA CrashStep == Inv /\ Crash => Inv'
<1> SUFFICES ASSUME Inv, Crash
             PROVE  Inv'
  OBVIOUS
<1>1. /\ rec' = NoReconcile
      /\ UNCHANGED <<ops, sub, expired, entitled, plan, payments>>
  BY DEF Crash, rows, provider
<1>2. NoReconcile \in Reconcile /\ NoReconcile.step = "idle"
  BY DEF NoReconcile, Reconcile, Steps, NoRow, Row, Statuses, PaymentStatuses
<1>3. TypeOK' /\ OneActive' /\ AmountExplained'
  BY <1>1, <1>2 DEF Inv, TypeOK, OneActive, AmountExplained
<1>4. OpsSound'
  BY <1>1, OpStays, PaymentsStay DEF OpsSound
<1>5. InHand'
  BY <1>1, <1>2 DEF InHand
<1> QED BY <1>3, <1>4, <1>5 DEF Inv

\* The step and the status in memory agree.
StepFits(step, op, row) ==
    /\ step \in Raising => row.status = "PLAN_UPDATING"
    /\ step \in Undoing => row.status = "REFUND_PENDING"
    /\ step \in {"refund", "confirm"} => row.payment \in 1..Len(payments[op])

\* ReconcileBranch reaches a step with a row in hand.
Reaches(o, step, row) ==
    /\ o \in Operations /\ row \in Row /\ step \in Steps
    /\ rec' \in Reconcile /\ rec'.op = o /\ rec'.step = step /\ rec'.row = row
    /\ UNCHANGED <<ops, expired, entitled, sub>>

\* What is in hand at the step it reaches is what the invariant asks for.
LEMMA ReachStep ==
    ASSUME Inv, PaymentsMove, NEW o, NEW step, NEW row, Reaches(o, step, row),
           plan' \in [status: {"authorized", "cancelled"}, amount: Nat, cycle: Nat],
           AmountExplained', StepFits(step, o, row)', RowInHand(o, row)'
    PROVE  Inv'
<1> USE DEF Reaches
<1>1. TypeOK'
  <2>1. /\ rec'.step # "idle" => rec'.op \in Operations
        /\ rec'.step \in {"read", "put", "verify"} => rec'.row.status = "PLAN_UPDATING"
        /\ rec'.step \in {"restore", "undo", "undone", "refund", "confirm"}
              => rec'.row.status = "REFUND_PENDING"
        /\ rec'.step \in {"refund", "confirm"} =>
              rec'.row.payment \in 1..Len(payments'[rec'.op])
    BY DEF StepFits, Raising, Undoing
  <2> QED BY <2>1 DEF Inv, TypeOK, PaymentsMove
<1>2. OneActive'
  BY DEF Inv, OneActive
<1>3. OpsSound'
  BY OpStays DEF OpsSound
<1>4. InHand'
  BY DEF InHand
<1> QED BY <1>1, <1>2, <1>3, <1>4 DEF Inv

\* A transaction begins with the row it locked, which it only marks as to be
\* refunded where the terms have changed.
LEMMA BeginStep ==
    ASSUME Inv, NEW o \in Operations, BeginReconcile(o)
    PROVE  Inv'
<1>1. PICK step, status, row :
         /\ row = [ops[o] EXCEPT !.status = status]
         /\ rec' = [step |-> step, op |-> o, row |-> row, eligible |-> Eligible(ops[o]),
                    late |-> o \in expired]
         /\ \/ step = "duplicates" /\ status = "COMPLETED" /\ ops[o].status = "COMPLETED"
            \/ /\ step = "find" /\ status = ops[o].status
               /\ ops[o].status \in {"PAYMENT_PENDING", "FAILED"}
            \/ /\ step = "read" /\ status = "PLAN_UPDATING" /\ ops[o].status = "PLAN_UPDATING"
               /\ Eligible(ops[o]) /\ ops[o].planStarted
            \/ /\ step = "restore" /\ status = "REFUND_PENDING"
               /\ ops[o].status \in {"REFUND_PENDING", "PLAN_UPDATING"}
  BY DEF BeginReconcile, Open
<1>2. UNCHANGED <<ops, sub, expired, entitled, plan, payments>> /\ ops[o] \in Row
  BY DEF BeginReconcile, rows, provider, Inv, TypeOK
<1>3. status \in Statuses /\ step \in Steps /\ Eligible(ops[o]) \in BOOLEAN
  BY <1>1 DEF Statuses, Active, Steps, Eligible, Unchanged, Inv, TypeOK
<1>4. /\ row \in Row /\ row.status = status /\ row.required = ops[o].required
      /\ row.count = ops[o].count /\ row.cycle = ops[o].cycle
      /\ row.planStarted = ops[o].planStarted /\ row.payment = ops[o].payment
      /\ row.paid = ops[o].paid /\ row.checkout = ops[o].checkout
  BY <1>1, <1>2, <1>3 DEF Row
<1>5. status = ops[o].status => row = ops[o]
  BY <1>1, <1>2 DEF Row
<1>6. /\ rec' \in Reconcile /\ rec'.op = o /\ rec'.step = step /\ rec'.row = row
      /\ rec'.eligible = Eligible(ops[o])
  BY <1>1, <1>3, <1>4 DEF Reconcile
<1>7. Reaches(o, step, row)
  BY <1>2, <1>3, <1>4, <1>6 DEF Reaches
<1>8. AmountExplained'
  BY <1>2 DEF Inv, AmountExplained
<1>9. StepFits(step, o, row)'
  BY <1>1, <1>4 DEF StepFits, Raising, Undoing
<1>10. RowInHand(o, row)'
  <2>1. OpSound(o, ops[o])
    BY DEF Inv, OpsSound
  <2>2. PaymentSeen(o, row)' /\ (~row.required => NothingPaid(o, row)')
    BY <1>2, <1>4, <2>1 DEF OpSound, PaymentSeen, NothingPaid
  <2>3. Eligible(ops[o]) => Unchanged(row)'
    BY <1>2, <1>4 DEF Eligible, Unchanged
  <2>4. CASE step = "duplicates" /\ status = "COMPLETED" /\ ops[o].status = "COMPLETED"
    BY <2>2, <2>4, <1>2, <1>4, <1>5, <1>6 DEF RowInHand, Finding, Raising, Undoing
  <2>5. CASE /\ step = "find" /\ status = ops[o].status
             /\ ops[o].status \in {"PAYMENT_PENDING", "FAILED"}
    BY <2>2, <2>3, <2>5, <1>2, <1>4, <1>6 DEF RowInHand, Finding, Raising, Undoing
  <2>6. CASE /\ step = "read" /\ status = "PLAN_UPDATING" /\ ops[o].status = "PLAN_UPDATING"
             /\ Eligible(ops[o]) /\ ops[o].planStarted
    BY <2>2, <2>3, <2>6, <1>2, <1>4, <1>5, <1>6 DEF RowInHand, Finding, Raising, Undoing
  <2>7. CASE /\ step = "restore" /\ status = "REFUND_PENDING"
             /\ ops[o].status \in {"REFUND_PENDING", "PLAN_UPDATING"}
    <3>1. row.required => row.paid \in {"approved", "refunded"}
      BY <2>1, <2>7, <1>4 DEF OpSound
    <3> QED BY <2>2, <2>7, <3>1, <1>2, <1>4, <1>6 DEF RowInHand, Finding, Raising, Undoing
  <2> QED BY <2>4, <2>5, <2>6, <2>7, <1>1
<1> QED BY <1>2, <1>7, <1>8, <1>9, <1>10, ReachStep, PaymentsStay DEF Inv, TypeOK

\* Rows that differ in their status and code only.
SameTerms(row, other) ==
    /\ row.required = other.required /\ row.count = other.count
    /\ row.cycle = other.cycle /\ row.planStarted = other.planStarted
    /\ row.payment = other.payment /\ row.paid = other.paid
    /\ row.checkout = other.checkout

\* What is in hand, spelled out.
LEMMA Hand ==
    ASSUME Inv, rec.step # "idle"
    PROVE  /\ rec.op \in Operations /\ rec.row \in Row /\ ops[rec.op] \in Row
           /\ RowInHand(rec.op, rec.row) /\ OpSound(rec.op, ops[rec.op])
           /\ StepFits(rec.step, rec.op, rec.row)
           /\ rec.step \in Finding \cup Raising \cup Undoing \cup {"duplicates"}
  BY DEF Inv, TypeOK, InHand, OpsSound, Reconcile, StepFits, Steps, Finding, Raising, Undoing

\* What is in hand of the payments stays true while they move.
LEMMA HandSeen ==
    ASSUME Inv, PaymentsMove, rec.step # "idle", NEW o, o = rec.op,
           NEW row, SameTerms(row, rec.row)
    PROVE  /\ PaymentSeen(o, row)'
           /\ ~row.required => NothingPaid(o, row)'
<1>1. o \in Operations
  BY Hand
<1>2. PaymentSeen(o, row) /\ (~row.required => NothingPaid(o, row) /\ ~ops[o].checkout)
  BY Hand DEF RowInHand, OpSound, SameTerms, PaymentSeen, NothingPaid
<1> QED BY <1>1, <1>2, SeenStays

\* The row in hand may be saved as it is.
LEMMA HandSaved ==
    ASSUME Inv, PaymentsMove, rec.step # "idle", NEW o, o = rec.op,
           NEW row, SameTerms(row, rec.row), row.status = rec.row.status,
           sub'.count = sub.count
    PROVE  OpSound(o, row)' /\ (Explains(ops[o]) => Explains(row))
<1>1. /\ RowInHand(o, rec.row) /\ OpSound(o, ops[o]) /\ StepFits(rec.step, o, rec.row)
      /\ rec.step \in Finding \cup Raising \cup Undoing \cup {"duplicates"}
  BY Hand
<1>2. PaymentSeen(o, row)' /\ (~row.required => NothingPaid(o, row)')
  BY HandSeen
<1>3. CASE rec.step \in Finding
  BY <1>1, <1>2, <1>3 DEF RowInHand, OpSound, SameTerms, Explains
<1>4. CASE rec.step \in Raising \cup {"duplicates"}
  <2>1. rec.row = ops[o] /\ rec.row.status \in {"PLAN_UPDATING", "COMPLETED"}
    BY <1>1, <1>4 DEF RowInHand, Raising
  <2> QED BY <1>1, <1>2, <2>1 DEF OpSound, SameTerms, Explains
<1>5. CASE rec.step \in Undoing
  <2>1. rec.row.status = "REFUND_PENDING"
    BY <1>1, <1>5 DEF StepFits
  <2>2. row.planStarted => row.count = sub.count
    BY <1>1, <1>5 DEF RowInHand, OpSound, SameTerms
  <2>3. row.required => row.paid \in {"approved", "refunded"}
    BY <1>1, <1>5 DEF RowInHand, SameTerms
  <2>4. Explains(ops[o]) => Explains(row)
    BY <1>1, <2>1 DEF RowInHand, SameTerms, Explains
  <2> QED BY <1>2, <2>1, <2>2, <2>3, <2>4 DEF OpSound
<1> QED BY <1>1, <1>3, <1>4, <1>5

\* What is saved is written over the row that was locked.
LEMMA Saved ==
    ASSUME Inv, rec.step # "idle", NEW row \in Row, NEW status \in Statuses,
           NEW code \in {"", "QUOTE_EXPIRED", "RETRY", "PLAN_UPDATE_FAILED"},
           SaveAs(row, status, code), UNCHANGED <<expired, entitled>>
    PROVE  \E saved : /\ RowWritten(rec.op, saved) /\ SameTerms(saved, row)
                      /\ saved.status = status
<1>1. PICK saved : saved = [row EXCEPT !.status = status, !.code = code]
  OBVIOUS
<1>2. saved \in Row /\ saved.status = status /\ SameTerms(saved, row)
  BY <1>1 DEF Row, SameTerms
<1>3. RowWritten(rec.op, saved)
  BY <1>1, <1>2 DEF SaveAs, Save, RowWritten
<1> QED BY <1>2, <1>3

\* Trying later keeps the invariant, also when the provider has just taken an
\* amount that the saved row explains.
LEMMA LaterStep ==
    ASSUME Inv, PaymentsMove, rec.step # "idle", TryLater(rec.row),
           UNCHANGED <<expired, entitled, sub>>,
           plan' \in [status: {"authorized", "cancelled"}, amount: Nat, cycle: Nat],
           \/ plan'.amount = plan.amount
           \/ plan'.amount = sub.count
           \/ plan'.amount = sub.count + 1 /\ Explains(rec.row)
    PROVE  Inv'
<1>1. PICK o, row : /\ o = rec.op /\ RowWritten(o, row) /\ SameTerms(row, rec.row)
                    /\ row.status = rec.row.status
  <2>1. rec.row \in Row /\ rec.row.status \in Statuses
    BY Hand DEF Row
  <2>2. SaveAs(rec.row, rec.row.status, "RETRY")
    BY DEF TryLater
  <2>3. \E saved : /\ RowWritten(rec.op, saved) /\ SameTerms(saved, rec.row)
                   /\ saved.status = rec.row.status
    BY <2>1, <2>2, Saved
  <2> QED BY <2>3
<1>2. o \in Operations /\ ops' = [ops EXCEPT ![o] = row]
  BY <1>1, Hand DEF RowWritten
<1>3. OpSound(o, row)' /\ (Explains(ops[o]) => Explains(row))
  BY <1>1, HandSaved
<1>4. AmountExplained'
  <2>1. CASE plan'.amount = plan.amount
    BY <2>1, <1>2, <1>3, StillExplained
  <2>2. CASE plan'.amount = sub.count
    BY <2>2 DEF AmountExplained
  <2>3. CASE plan'.amount = sub.count + 1 /\ Explains(rec.row)
    <3>1. ops'[o] = row /\ Explains(row)
      BY <2>3, <1>1, <1>2 DEF Explains, SameTerms, Inv, TypeOK
    <3> QED BY <2>3, <1>2, <3>1 DEF AmountExplained, Explains
  <2> QED BY <2>1, <2>2, <2>3
<1> QED BY <1>1, <1>2, <1>3, <1>4, RowStep DEF Inv, TypeOK

-----------------------------------------------------------------------------
(* ReconcileBranch saves *)

\* A row with these terms may be saved with this status (see OpSound).
MaySave(row, status) ==
    /\ status \in Active \cup {"COMPLETED", "PAYMENT_REJECTED", "REFUNDED", "FAILED"}
    /\ status = "PAYMENT_PENDING" =>
          row.required /\ ~row.planStarted /\ row.count = sub.count
    /\ status = "FAILED" /\ row.required => ~row.planStarted
    /\ status = "PLAN_UPDATING" =>
          row.count = sub.count /\ (row.required => row.paid = "approved")
    /\ status = "REFUND_PENDING" =>
          /\ row.planStarted => row.count = sub.count
          /\ row.required => row.paid \in {"approved", "refunded"}
    /\ status = "REFUNDED" => row.paid = "refunded"

\* The row knows its payments, before and after this step.
Seen(o, row) == PaymentSeen(o, row) /\ (~row.required => NothingPaid(o, row))

\* A transaction commits without a change of the subscription or of the plan.
LEMMA SaveStep ==
    ASSUME Inv, PaymentsMove, rec.step # "idle", NEW o, o = rec.op,
           NEW row \in Row, NEW status,
           NEW code \in {"", "QUOTE_EXPIRED", "RETRY", "PLAN_UPDATE_FAILED"},
           SaveAs(row, status, code), UNCHANGED <<expired, entitled, sub, plan>>,
           Seen(o, row)', MaySave(row, status),
           \/ ~Explains(ops[o])
           \/ plan.amount = sub.count
           \/ status \in {"PLAN_UPDATING", "REFUND_PENDING"} /\ row.planStarted
    PROVE  Inv'
<1>0. status \in Statuses
  BY DEF MaySave, Statuses
<1>1. PICK saved : /\ RowWritten(rec.op, saved) /\ SameTerms(saved, row)
                   /\ saved.status = status
  BY <1>0, Saved
<1>2. o \in Operations /\ ops' = [ops EXCEPT ![o] = saved] /\ RowWritten(o, saved)
  BY <1>1, Hand DEF RowWritten
<1>3. OpSound(o, saved)'
  <2>1. PaymentSeen(o, saved)' /\ (~saved.required => NothingPaid(o, saved)')
    BY <1>1 DEF Seen, SameTerms, PaymentSeen, NothingPaid
  <2>2. status \notin {"none", "quoted"}
    BY DEF MaySave, Active
  <2> QED BY <1>1, <2>1, <2>2 DEF OpSound, MaySave, SameTerms
<1>4. AmountExplained'
  <2>1. CASE plan.amount = sub.count
    BY <2>1 DEF AmountExplained
  <2>2. CASE \/ ~Explains(ops[o])
             \/ status \in {"PLAN_UPDATING", "REFUND_PENDING"} /\ row.planStarted
    <3>1. Explains(ops[o]) => Explains(saved)
      BY <2>2, <1>1 DEF Explains, SameTerms
    <3> QED BY <1>2, <3>1, StillExplained
  <2> QED BY <2>1, <2>2
<1> QED BY <1>2, <1>3, <1>4, RowStep DEF Inv, TypeOK

\* ReconcileBranch goes on to another step with the lock it has.
LEMMA GoReaches ==
    ASSUME Inv, rec.step # "idle", NEW step \in Steps, NEW row \in Row,
           Go(step, row), UNCHANGED <<expired, entitled, sub>>
    PROVE  Reaches(rec.op, step, row) /\ rec'.eligible = rec.eligible
<1>1. rec' = [rec EXCEPT !.step = step, !.row = row]
  BY DEF Go
<1>2. /\ rec' \in Reconcile /\ rec'.op = rec.op /\ rec'.step = step /\ rec'.row = row
      /\ rec'.eligible = rec.eligible
  BY <1>1 DEF Inv, TypeOK, Reconcile
<1> QED BY <1>2, Hand DEF Reaches, Go

\* Among the elements of a nonempty set of numbers below n one is the greatest.
LEMMA GreatestNumber ==
    ASSUME NEW n \in Nat, NEW S, S \subseteq 1..n, S # {}
    PROVE  \E i \in S : \A j \in S : i >= j
<1> DEFINE T == {k \in Nat : n - k \in S}
           R == {ss \in Nat \X Nat : ss[1] < ss[2]}
<1>1. T # {} /\ T \subseteq Nat
  <2>1. PICK i \in S : TRUE
    OBVIOUS
  <2>2. n - i \in Nat /\ n - (n - i) = i
    OBVIOUS
  <2> QED BY <2>1, <2>2
<1>2. IsWellFoundedOn(R, Nat)
  BY NatLessThanWellFounded, Zenon DEF OpToRel
<1>3. \A x, y \in Nat : x < y => <<x, y>> \in R
  OBVIOUS
<1> HIDE DEF R
<1>4. PICK k \in T : \A m \in T : ~ (<<m, k>> \in R)
  BY <1>1, <1>2, WFMin
<1>5. \A m \in T : ~(m < k)
  BY <1>1, <1>3, <1>4
<1>6. ASSUME NEW j \in S
      PROVE  n - k >= j
  <2>1. n - j \in Nat /\ n - (n - j) = j
    OBVIOUS
  <2>2. n - j \in T /\ k \in Nat
    BY <2>1
  <2>3. ~(n - j < k)
    BY <1>5, <2>2
  <2> QED BY <2>2, <2>3
<1> QED BY <1>6

\* FindBranchPayment keeps an approved payment if there is one, and otherwise
\* the newest; it never refunds the one it keeps.
LEMMA KeptPayment ==
    ASSUME Inv, NEW o \in Operations
    PROVE  /\ Approved(o) # {} => Kept(o) \in Approved(o)
           /\ Kept(o) \in 0..Len(payments[o])
           /\ Kept(o) \notin Extras(o)
           /\ Approved(o) = {} => Kept(o) = Len(payments[o])
<1>1. Len(payments[o]) \in Nat
  BY LenProperties DEF Inv, TypeOK
<1>2. Approved(o) \subseteq 1..Len(payments[o])
  BY DEF Approved
<1>3. ASSUME Approved(o) # {}
      PROVE  Kept(o) \in Approved(o)
  <2>1. \E i \in Approved(o) : \A j \in Approved(o) : i >= j
    BY <1>1, <1>2, <1>3, GreatestNumber
  <2>2. Kept(o) = CHOOSE i \in Approved(o) : \A j \in Approved(o) : i >= j
    BY <1>3 DEF Kept
  <2> QED BY <2>1, <2>2
<1>4. Approved(o) = {} => Kept(o) = Len(payments[o])
  BY DEF Kept
<1> QED BY <1>1, <1>2, <1>3, <1>4 DEF Extras

-----------------------------------------------------------------------------
(* ReconcileBranch and the payment *)

\* The row in hand once FindBranchPayment has told what it found.
FoundRow(o) ==
    IF Kept(o) = 0 THEN rec.row
    ELSE [rec.row EXCEPT !.payment = Kept(o), !.paid = payments[o][Kept(o)].status,
                         !.inTime = payments[o][Kept(o)].inTime]

\* The payment that was found is the one that is kept, and only an operation
\* that asks for a payment has one.
LEMMA FoundSeen ==
    ASSUME Inv, rec.step # "idle", NEW o, o = rec.op, NEW row, row = FoundRow(o),
           Revised(o, Extras(o), "refunded"), PaymentsMove
    PROVE  /\ row \in Row /\ Seen(o, row)'
           /\ row.required = rec.row.required /\ row.count = rec.row.count
           /\ row.cycle = rec.row.cycle /\ row.planStarted = rec.row.planStarted
           /\ row.status = rec.row.status /\ row.checkout = rec.row.checkout
<1>0. o \in Operations /\ rec.row \in Row /\ RowInHand(o, rec.row)
  BY Hand
<1>1. CASE Kept(o) = 0
  <2>1. row = rec.row
    BY <1>1 DEF FoundRow
  <2>2. Seen(o, row)'
    BY <2>1, HandSeen DEF SameTerms, Seen
  <2> QED BY <1>0, <2>1, <2>2
<1>2. CASE Kept(o) # 0
  <2>1. PICK k : k = Kept(o)
    OBVIOUS
  <2>2. k \in 1..Len(payments[o]) /\ k \notin Extras(o) /\ payments[o] \in Seq(Payment)
    BY <1>0, <1>2, <2>1, KeptPayment, LenProperties DEF Inv, TypeOK
  <2>3. payments[o][k] \in Payment /\ k \in Nat
    BY <2>2, ElementOfSeq
  <2>4. PICK paid, inTime : paid = payments[o][k].status /\ inTime = payments[o][k].inTime
    OBVIOUS
  <2>5. paid \in PaymentStatuses /\ inTime \in BOOLEAN
    BY <2>3, <2>4 DEF Payment
  <2>6. row = [rec.row EXCEPT !.payment = k, !.paid = paid, !.inTime = inTime]
    BY <1>2, <2>1, <2>4 DEF FoundRow
  <2>7. /\ row \in Row /\ row.payment = k /\ row.paid = paid
        /\ row.required = rec.row.required /\ row.count = rec.row.count
        /\ row.cycle = rec.row.cycle /\ row.planStarted = rec.row.planStarted
        /\ row.status = rec.row.status /\ row.checkout = rec.row.checkout
    BY <1>0, <2>3, <2>5, <2>6 DEF Row
  <2>8. row.required
    <3>1. payments[o] # <<>>
      BY <2>2
    <3> QED BY <1>0, <2>7, <3>1 DEF RowInHand, NothingPaid
  <2>9. payments'[o][k] = payments[o][k] /\ Len(payments'[o]) = Len(payments[o])
        /\ Len(payments[o]) \in Nat
    BY <2>2, LenProperties DEF Revised
  <2>10. PaymentSeen(o, row)'
    BY <2>2, <2>4, <2>7, <2>9 DEF PaymentSeen
  <2> QED BY <2>7, <2>8, <2>10 DEF Seen
<1> QED BY <1>1, <1>2

\* What was found settles the operation; a payment that came too late or for
\* terms that changed starts the refund.
LEMMA FindStep == Inv /\ FindPayment => Inv'
<1> SUFFICES ASSUME Inv, FindPayment
             PROVE  Inv'
  OBVIOUS
<1>1. PICK o, row : o = rec.op /\ row = FoundRow(o)
  OBVIOUS
<1>2. /\ rec.step = "find" /\ payments' = Refunded(o, Extras(o))
      /\ Go("checkout", row) \/ Settlement(row)
      /\ UNCHANGED <<expired, entitled, sub, plan>>
  BY <1>1 DEF FindPayment, At, FoundRow
<1>3. /\ o \in Operations /\ RowInHand(o, rec.row) /\ OpSound(o, ops[o])
      /\ ops[o] \in Row /\ rec.row \in Row
  BY <1>1, <1>2, Hand
<1>4. Revised(o, Extras(o), "refunded") /\ PaymentsMove
  BY <1>2, <1>3, RefundsRevise
<1>5. /\ row \in Row /\ Seen(o, row)'
      /\ row.required = rec.row.required /\ row.count = rec.row.count
      /\ row.cycle = rec.row.cycle /\ row.planStarted = rec.row.planStarted
      /\ row.status = rec.row.status /\ row.checkout = rec.row.checkout
  BY <1>1, <1>2, <1>4, FoundSeen
<1>6. /\ ops[o].status \in {"PAYMENT_PENDING", "FAILED"} /\ row.status = ops[o].status
      /\ row.required = ops[o].required /\ row.count = ops[o].count
      /\ row.cycle = ops[o].cycle /\ row.planStarted = ops[o].planStarted
      /\ rec.eligible => Unchanged(row)
      /\ ops[o].status = "PAYMENT_PENDING" =>
            row.required /\ ~row.planStarted /\ row.count = sub.count
      /\ row.required => ~row.planStarted
      /\ ~Explains(ops[o])
      /\ row.paid # "pending" => row.required
  <2>1. row.paid # "pending" => row.required
    BY <1>5 DEF Seen, NothingPaid
  <2> QED BY <1>2, <1>3, <1>5, <2>1
          DEF RowInHand, Finding, Unchanged, Explains, OpSound
<1>7. CASE Go("checkout", row)
  <2>1. Reaches(o, "checkout", row) /\ rec'.eligible = rec.eligible
    BY <1>1, <1>2, <1>5, <1>7, GoReaches DEF Steps
  <2>2. rec'.step = "checkout" /\ UNCHANGED <<ops, sub>>
    BY <2>1 DEF Reaches
  <2>3. RowInHand(o, row)'
    BY <1>5, <1>6, <2>1, <2>2 DEF RowInHand, Seen, Finding, Raising, Undoing, Unchanged
  <2>4. StepFits("checkout", o, row)' /\ AmountExplained'
    BY <1>2, <2>2 DEF StepFits, Raising, Undoing, AmountExplained, Inv
  <2> QED BY <1>2, <1>4, <2>1, <2>3, <2>4, ReachStep DEF Inv, TypeOK
<1>8. ASSUME NEW status, NEW code \in {"", "QUOTE_EXPIRED", "RETRY", "PLAN_UPDATE_FAILED"},
             SaveAs(row, status, code), MaySave(row, status)
      PROVE  Inv'
  BY <1>1, <1>2, <1>4, <1>5, <1>6, <1>8, SaveStep
<1>9. CASE Settlement(row)
  <2>1. CASE row.paid = "rejected" /\ SaveAs(row, "PAYMENT_REJECTED", "")
    BY <2>1, <1>8 DEF MaySave
  <2>2. CASE row.paid = "refunded" /\ SaveAs(row, "REFUNDED", "")
    BY <2>2, <1>8 DEF MaySave
  <2>3. CASE SaveAs(row, "FAILED", "QUOTE_EXPIRED")
    BY <2>3, <1>6, <1>8 DEF MaySave
  <2>4. CASE SaveAs(row, row.status, "")
    BY <2>4, <1>6, <1>8 DEF MaySave, Active
  <2>5. CASE /\ row.paid = "approved" /\ rec.eligible
             /\ SaveAs([row EXCEPT !.planStarted = TRUE], "PLAN_UPDATING", "")
    <3>1. PICK started : started = [row EXCEPT !.planStarted = TRUE]
      OBVIOUS
    <3>2. /\ started \in Row /\ started.planStarted /\ started.count = row.count
          /\ started.required = row.required /\ started.paid = row.paid
          /\ started.payment = row.payment /\ started.checkout = row.checkout
      BY <3>1, <1>5 DEF Row
    <3>3. row.count = sub.count
      <4>1. sub = [status |-> "AUTHORIZED", count |-> row.count, cycle |-> row.cycle]
        BY <2>5, <1>6 DEF Unchanged
      <4> QED BY ONLY <4>1
    <3>4. MaySave(started, "PLAN_UPDATING")
      BY <2>5, <3>2, <3>3 DEF MaySave, Active
    <3>5. Seen(o, started)'
      BY <1>5, <3>2 DEF Seen, PaymentSeen, NothingPaid
    <3> QED BY <2>5, <3>1, <3>2, <3>4, <3>5, <1>1, <1>2, <1>4, <1>6, SaveStep
  <2>6. CASE /\ row.paid = "approved"
             /\ Go("restore", [row EXCEPT !.status = "REFUND_PENDING"])
    <3>1. PICK marked : marked = [row EXCEPT !.status = "REFUND_PENDING"]
      OBVIOUS
    <3>2. /\ marked \in Row /\ SameTerms(marked, row) /\ marked.status = "REFUND_PENDING"
      BY <3>1, <1>5 DEF Row, Statuses, Active, SameTerms
    <3>3. Reaches(o, "restore", marked)
      BY <1>1, <1>2, <2>6, <3>1, <3>2, GoReaches DEF Steps
    <3>4. rec'.step = "restore" /\ UNCHANGED <<ops, sub>>
      BY <3>3 DEF Reaches
    <3>5. RowInHand(o, marked)'
      BY <1>5, <1>6, <2>6, <3>2, <3>4
      DEF RowInHand, Seen, PaymentSeen, NothingPaid, Finding, Raising, Undoing, SameTerms
    <3>6. StepFits("restore", o, marked)' /\ AmountExplained'
      BY <1>2, <3>2, <3>4 DEF StepFits, Raising, Undoing, AmountExplained, Inv
    <3> QED BY <1>2, <1>4, <3>3, <3>5, <3>6, ReachStep DEF Inv, TypeOK
  <2> QED BY <1>9, <2>1, <2>2, <2>3, <2>4, <2>5, <2>6 DEF Settlement
<1> QED BY <1>2, <1>7, <1>9

\* The checkout of an operation that asks for a payment.
LEMMA CheckoutStep == Inv /\ CreateCheckout => Inv'
<1> SUFFICES ASSUME Inv, CreateCheckout
             PROVE  Inv'
  OBVIOUS
<1>1. PICK o, row : o = rec.op /\ row = [rec.row EXCEPT !.checkout = TRUE]
  OBVIOUS
<1>2. /\ rec.step = "checkout" /\ rec.row.required
      /\ UNCHANGED <<expired, entitled, sub, plan, payments>>
      /\ SaveAs(row, rec.row.status, "")
  BY <1>1 DEF CreateCheckout, At, provider
<1>3. /\ o \in Operations /\ RowInHand(o, rec.row) /\ OpSound(o, ops[o]) /\ rec.row \in Row
  BY <1>1, <1>2, Hand
<1>4. /\ row \in Row /\ row.status = rec.row.status /\ row.required = rec.row.required
      /\ row.count = rec.row.count /\ row.planStarted = rec.row.planStarted
      /\ row.payment = rec.row.payment /\ row.paid = rec.row.paid
  BY <1>1, <1>3 DEF Row
<1>5. PaymentsMove
  BY <1>2, PaymentsStay
<1>6. Seen(o, row)'
  <2>1. PaymentSeen(o, row)'
    BY <1>2, <1>3, <1>4 DEF RowInHand, PaymentSeen
  <2> QED BY <2>1, <1>2, <1>4 DEF Seen
<1>7. /\ ops[o].status \in {"PAYMENT_PENDING", "FAILED"} /\ ~Explains(ops[o])
      /\ MaySave(row, rec.row.status)
  BY <1>2, <1>3, <1>4 DEF RowInHand, Finding, Explains, MaySave, Active, OpSound
<1> QED BY <1>1, <1>2, <1>4, <1>5, <1>6, <1>7, SaveStep

\* A completed operation looks for payments to give back and stays as it is.
LEMMA DuplicatesStep == Inv /\ RefundDuplicates => Inv'
<1> SUFFICES ASSUME Inv, RefundDuplicates
             PROVE  Inv'
  OBVIOUS
<1>1. PICK o, row : o = rec.op /\ row = rec.row
  OBVIOUS
<1>2. /\ rec.step = "duplicates" /\ payments' = Refunded(o, Duplicates(o))
      /\ UNCHANGED <<expired, entitled, sub, plan>>
      /\ SaveAs(row, "COMPLETED", "")
  BY <1>1 DEF RefundDuplicates, At
<1>3. o \in Operations /\ RowInHand(o, row) /\ row \in Row
  BY <1>1, <1>2, Hand
<1>4. PaymentsMove
  BY <1>2, <1>3, RefundsRevise
<1>5. Seen(o, row)'
  BY <1>1, <1>2, <1>4, HandSeen DEF SameTerms, Seen
<1>6. ~Explains(ops[o]) /\ MaySave(row, "COMPLETED")
  BY <1>2, <1>3 DEF RowInHand, Explains, MaySave
<1> QED BY <1>1, <1>2, <1>3, <1>4, <1>5, <1>6, SaveStep

-----------------------------------------------------------------------------
(* ReconcileBranch and the recurring amount *)

\* The branch and the quantity commit together, when the provider already
\* charges for one more.
LEMMA ActivateStep ==
    ASSUME Inv, NEW o, o = rec.op, NEW row, row = rec.row, rec.step \in Raising,
           plan.amount = row.count + 1, Activate(row),
           UNCHANGED <<expired, entitled, plan, payments>>
    PROVE  Inv'
<1>0. rec.step # "idle"
  BY DEF Raising
<1>1. /\ o \in Operations /\ row \in Row /\ row = ops[o] /\ ops[o].status = "PLAN_UPDATING"
      /\ Unchanged(row) /\ OpSound(o, ops[o])
  BY <1>0, Hand DEF RowInHand
<1>2. row.count = sub.count
  <2>1. sub = [status |-> "AUTHORIZED", count |-> row.count, cycle |-> row.cycle]
    BY <1>1 DEF Unchanged
  <2> QED BY ONLY <2>1
<1>3. /\ sub' \in [status: {"AUTHORIZED", "CANCELLED"}, count: Nat, cycle: Nat]
      /\ sub'.count = sub.count + 1
  <2>1. PICK n \in Nat : n = sub.count + 1
    BY DEF Inv, TypeOK
  <2>2. sub' = [sub EXCEPT !.count = n]
    BY <2>1 DEF Activate
  <2> QED BY <2>1, <2>2 DEF Inv, TypeOK
<1>4. PICK saved : /\ saved = [row EXCEPT !.status = "COMPLETED", !.code = ""]
                   /\ ops' = [ops EXCEPT ![o] = saved] /\ rec' = NoReconcile
  BY DEF Activate, SaveAs, Save
<1>5. saved \in Row /\ saved.status = "COMPLETED" /\ SameTerms(saved, row)
  BY <1>1, <1>4 DEF Row, Statuses, SameTerms
<1>6. \A p \in Operations : ops'[p] = IF p = o THEN saved ELSE ops[p]
  BY <1>4 DEF Inv, TypeOK
<1>7. \A p \in Operations : p # o => ops[p].status \notin Active
  BY <1>1 DEF Inv, OneActive, Active
<1>8. TypeOK' /\ InHand'
  <2>1. NoReconcile \in Reconcile /\ NoReconcile.step = "idle"
    BY DEF NoReconcile, Reconcile, Steps, NoRow, Row, Statuses, PaymentStatuses
  <2>2. ops' \in [Operations -> Row]
    BY <1>4, <1>5 DEF Inv, TypeOK
  <2> QED BY <1>3, <1>4, <2>1, <2>2 DEF Inv, TypeOK, InHand
<1>9. OneActive'
  BY <1>5, <1>6, <1>7 DEF OneActive, Active
<1>10. OpsSound'
  <2>1. ASSUME NEW p \in Operations
        PROVE  OpSound(p, ops[p])'
    <3>1. CASE p = o
      <4>1. ops'[p] = saved /\ PaymentSeen(p, row) /\ (~row.required => NothingPaid(p, row))
        BY <3>1, <1>1, <1>6 DEF OpSound
      <4> QED BY <4>1, <1>5 DEF OpSound, PaymentSeen, NothingPaid, SameTerms
    <3>2. CASE p # o
      <4>1. ops'[p] = ops[p] /\ OpSound(p, ops[p]) /\ ops[p].status \notin Active
        BY <3>2, <1>6, <1>7 DEF Inv, OpsSound
      <4> QED BY <4>1 DEF OpSound, PaymentSeen, NothingPaid, Active
    <3> QED BY <3>1, <3>2
  <2> QED BY <2>1 DEF OpsSound
<1>11. AmountExplained'
  BY <1>2, <1>3 DEF AmountExplained
<1> QED BY <1>8, <1>9, <1>10, <1>11 DEF Inv

\* Steps between two provider calls, with nothing at the provider changed but
\* its amount, and the row as it is or marked to be refunded.
LEMMA MoveOn ==
    ASSUME Inv, PaymentsMove, rec.step # "idle", NEW o, o = rec.op,
           NEW step \in Steps, NEW row \in Row, SameTerms(row, rec.row),
           Go(step, row), UNCHANGED <<expired, entitled, sub>>,
           plan' \in [status: {"authorized", "cancelled"}, amount: Nat, cycle: Nat],
           AmountExplained',
           \/ step \in Raising /\ rec.step \in Raising /\ row = rec.row
           \/ /\ step \in Undoing /\ row.status = "REFUND_PENDING"
              /\ step = "undo" => row.planStarted
              /\ rec.step \in Raising \cup Undoing
              /\ step \in {"refund", "confirm"} =>
                    /\ row.required /\ row.payment # 0
                    /\ row.planStarted => plan'.amount = row.count
    PROVE  Inv'
<1>1. /\ RowInHand(o, rec.row) /\ OpSound(o, ops[o]) /\ StepFits(rec.step, o, rec.row)
      /\ o \in Operations
  BY Hand
<1>2. Reaches(o, step, row) /\ rec'.step = step /\ UNCHANGED <<ops, sub>>
  BY GoReaches DEF Reaches
<1>3. PaymentSeen(o, row)' /\ (~row.required => NothingPaid(o, row)')
  BY HandSeen
<1>4. CASE step \in Raising /\ rec.step \in Raising /\ row = rec.row
  <2>1. RowInHand(o, row)'
    BY <1>1, <1>2, <1>3, <1>4
    DEF RowInHand, Finding, Raising, Undoing, Unchanged
  <2>2. StepFits(step, o, row)'
    BY <1>1, <1>4 DEF StepFits, Raising, Undoing
  <2> QED BY <1>2, <2>1, <2>2, ReachStep
<1>5. CASE /\ step \in Undoing /\ row.status = "REFUND_PENDING"
           /\ step = "undo" => row.planStarted
           /\ rec.step \in Raising \cup Undoing
           /\ step \in {"refund", "confirm"} =>
                 /\ row.required /\ row.payment # 0
                 /\ row.planStarted => plan'.amount = row.count
  <2>1. /\ ops[o].status \in {"PAYMENT_PENDING", "FAILED", "PLAN_UPDATING", "REFUND_PENDING"}
        /\ row.required => row.paid \in {"approved", "refunded"}
        /\ row.planStarted => ops[o].status \in {"PLAN_UPDATING", "REFUND_PENDING"}
    <3>1. CASE rec.step \in Raising
      BY <3>1, <1>1 DEF RowInHand, OpSound, SameTerms
    <3>2. CASE rec.step \in Undoing
      BY <3>2, <1>1 DEF RowInHand, SameTerms
    <3> QED BY <3>1, <3>2, <1>5
  <2>2. /\ row.required = ops[o].required /\ row.count = ops[o].count
        /\ row.cycle = ops[o].cycle /\ row.planStarted = ops[o].planStarted
    BY <1>1 DEF RowInHand, SameTerms
  <2>3. RowInHand(o, row)'
    BY <1>2, <1>3, <1>5, <2>1, <2>2 DEF RowInHand, Finding, Raising, Undoing
  <2>4. StepFits(step, o, row)'
    BY <1>3, <1>5 DEF StepFits, Raising, Undoing, PaymentSeen
  <2> QED BY <1>2, <2>3, <2>4, ReachStep
<1> QED BY <1>4, <1>5

\* An amount the provider takes: nothing else of the plan changes.
LEMMA AmountSet ==
    ASSUME Inv, NEW amount \in Nat, SetAmount(amount)
    PROVE  /\ plan' \in [status: {"authorized", "cancelled"}, amount: Nat, cycle: Nat]
           /\ plan'.amount = amount
           /\ UNCHANGED <<expired, entitled, sub, payments>>
  BY DEF SetAmount, Inv, TypeOK

\* While the plan is being raised the row is the one the brand was quoted.
LEMMA RaisingHand ==
    ASSUME Inv, rec.step \in Raising
    PROVE  /\ rec.step # "idle" /\ rec.row = ops[rec.op] /\ Explains(rec.row)
           /\ rec.row.count = sub.count /\ rec.row.count \in Nat
           /\ rec.op \in Operations /\ ops[rec.op].status = "PLAN_UPDATING"
           /\ rec.row \in Row
<1>1. rec.step # "idle"
  BY DEF Raising
<1>2. /\ rec.row = ops[rec.op] /\ ops[rec.op].status = "PLAN_UPDATING" /\ rec.row.planStarted
      /\ OpSound(rec.op, ops[rec.op]) /\ rec.row \in Row /\ rec.op \in Operations
  BY <1>1, Hand DEF RowInHand
<1> QED BY <1>1, <1>2 DEF Explains, OpSound, Row

\* The readback: raised already, to be raised, or moved on without us.
LEMMA ReadStep == Inv /\ ReadPlan => Inv'
<1> SUFFICES ASSUME Inv, ReadPlan
             PROVE  Inv'
  OBVIOUS
<1>1. PICK o, row, refund : /\ o = rec.op /\ row = rec.row
                            /\ refund = [row EXCEPT !.status = "REFUND_PENDING"]
  OBVIOUS
<1>2. /\ rec.step = "read" /\ rec.step \in Raising
      /\ UNCHANGED <<expired, entitled, plan, payments>>
  BY DEF ReadPlan, At, Raising, provider
<1>3. PaymentsMove
  BY <1>2, PaymentsStay
<1>4. row \in Row /\ refund \in Row /\ SameTerms(refund, row) /\ SameTerms(row, row)
      /\ refund.status = "REFUND_PENDING"
  BY <1>1, <1>2, RaisingHand DEF Row, Statuses, Active, SameTerms
<1>5. CASE plan.amount = row.count + 1 /\ Activate(row)
  BY <1>1, <1>2, <1>5, ActivateStep
<1>6. CASE Go("put", row) /\ UNCHANGED sub
  <2>1. AmountExplained'
    BY <1>2, <1>6 DEF Go, AmountExplained, Inv
  <2> QED BY <2>1, <1>1, <1>2, <1>3, <1>4, <1>6, RaisingHand, MoveOn
          DEF Inv, TypeOK, Raising, Steps
<1>7. CASE Go("restore", refund) /\ UNCHANGED sub
  <2>1. AmountExplained'
    BY <1>2, <1>7 DEF Go, AmountExplained, Inv
  <2> QED BY <2>1, <1>1, <1>2, <1>3, <1>4, <1>7, RaisingHand, MoveOn
          DEF Inv, TypeOK, Raising, Undoing, Steps
<1> QED BY <1>1, <1>5, <1>6, <1>7 DEF ReadPlan

\* The raise itself: made and answered, made with its answer lost, or refused.
\* The saved row says already that it may have been made.
LEMMA PutStep == Inv /\ (PutPlan \/ PutAnswerLost \/ PutRejected) => Inv'
<1> SUFFICES ASSUME Inv, PutPlan \/ PutAnswerLost \/ PutRejected
             PROVE  Inv'
  OBVIOUS
<1>1. PICK o, row, n : o = rec.op /\ row = rec.row /\ n = row.count + 1
  OBVIOUS
<1>2. rec.step = "put" /\ rec.step \in Raising
  BY DEF PutPlan, PutAnswerLost, PutRejected, At, Raising
<1>3. /\ row \in Row /\ SameTerms(row, row) /\ row = ops[o] /\ Explains(row) /\ n \in Nat
      /\ n = sub.count + 1 /\ o \in Operations /\ rec.step # "idle"
  BY <1>1, <1>2, RaisingHand DEF SameTerms
<1>4. CASE PutPlan
  <2>1. SetAmount(n) /\ Go("verify", row)
    BY <1>1, <1>4 DEF PutPlan
  <2>2. /\ plan' \in [status: {"authorized", "cancelled"}, amount: Nat, cycle: Nat]
        /\ plan'.amount = n /\ UNCHANGED <<expired, entitled, sub, payments>>
    BY <2>1, <1>3, AmountSet
  <2>3. AmountExplained'
    BY <1>3, <2>1, <2>2 DEF Go, AmountExplained, Explains
  <2> QED BY <1>1, <1>2, <1>3, <2>1, <2>2, <2>3, PaymentsStay, MoveOn DEF Raising, Steps
<1>5. CASE PutAnswerLost
  <2>1. SetAmount(n) /\ TryLater(rec.row)
    BY <1>1, <1>5 DEF PutAnswerLost
  <2>2. /\ plan' \in [status: {"authorized", "cancelled"}, amount: Nat, cycle: Nat]
        /\ plan'.amount = n /\ UNCHANGED <<expired, entitled, sub, payments>>
    BY <2>1, <1>3, AmountSet
  <2> QED BY <1>1, <1>3, <2>1, <2>2, PaymentsStay, LaterStep
<1>6. CASE PutRejected
  <2>1. PICK refund : refund = [row EXCEPT !.status = "REFUND_PENDING"]
    OBVIOUS
  <2>2. refund \in Row /\ SameTerms(refund, row) /\ refund.status = "REFUND_PENDING"
    BY <1>3, <2>1 DEF Row, Statuses, Active, SameTerms
  <2>3. /\ Go("restore", refund)
        /\ UNCHANGED <<expired, entitled, sub, plan, payments>>
    BY <1>1, <1>6, <2>1 DEF PutRejected, provider
  <2>4. AmountExplained'
    BY <2>3 DEF Go, AmountExplained, Inv
  <2> QED BY <1>1, <1>2, <1>3, <2>2, <2>3, <2>4, PaymentsStay, MoveOn
          DEF Inv, TypeOK, Raising, Undoing, Steps
<1> QED BY <1>4, <1>5, <1>6

\* The branch is only added after a readback of the raised amount.
LEMMA VerifyStep == Inv /\ VerifyPlan => Inv'
<1> SUFFICES ASSUME Inv, VerifyPlan
             PROVE  Inv'
  OBVIOUS
<1>1. /\ rec.step \in Raising /\ UNCHANGED <<expired, entitled, plan, payments>>
  BY DEF VerifyPlan, At, Raising, provider
<1>2. CASE plan.amount = rec.row.count + 1 /\ Activate(rec.row)
  BY <1>1, <1>2, ActivateStep
<1>3. CASE TryLater(rec.row) /\ UNCHANGED sub
  BY <1>1, <1>3, RaisingHand, PaymentsStay, LaterStep DEF Inv, TypeOK
<1> QED BY <1>2, <1>3 DEF VerifyPlan

-----------------------------------------------------------------------------
(* ReconcileBranch and the refund *)

\* While an operation is undone its row is marked to be refunded, and if it has
\* touched the plan the brand still has the branches of the quote.
LEMMA UndoingHand ==
    ASSUME Inv, rec.step \in Undoing
    PROVE  /\ rec.step # "idle" /\ rec.row.status = "REFUND_PENDING"
           /\ rec.op \in Operations /\ rec.row \in Row /\ rec.row.count \in Nat
           /\ rec.row.planStarted => rec.row.count = sub.count
           /\ Explains(ops[rec.op]) => rec.row.planStarted
           /\ rec.row.required => rec.row.paid \in {"approved", "refunded"}
           /\ rec.row.planStarted = ops[rec.op].planStarted
<1>1. rec.step # "idle"
  BY DEF Undoing
<1>2. /\ RowInHand(rec.op, rec.row) /\ OpSound(rec.op, ops[rec.op])
      /\ StepFits(rec.step, rec.op, rec.row) /\ rec.row \in Row /\ rec.op \in Operations
  BY <1>1, Hand
<1>3. rec.row.planStarted => rec.row.count = sub.count
  BY <1>2 DEF RowInHand, OpSound
<1>4. /\ rec.row.planStarted = ops[rec.op].planStarted
      /\ rec.row.required => rec.row.paid \in {"approved", "refunded"}
      /\ rec.row.status = "REFUND_PENDING"
  BY <1>2 DEF RowInHand, StepFits
<1> QED BY <1>1, <1>2, <1>3, <1>4 DEF Explains, Row

\* Once the amount is that of the quote the operation ends, or goes on to its
\* refund.
LEMMA AfterRestoreStep ==
    ASSUME Inv, rec.step \in Undoing, AfterRestore(rec.row),
           rec.row.planStarted => plan.amount = rec.row.count,
           UNCHANGED <<expired, entitled, sub, plan, payments>>
    PROVE  Inv'
<1>1. PICK o, row : o = rec.op /\ row = rec.row
  OBVIOUS
<1>2. /\ rec.step # "idle" /\ row.status = "REFUND_PENDING" /\ row \in Row
      /\ ~Explains(ops[o]) \/ plan.amount = sub.count
      /\ PaymentsMove
  BY <1>1, UndoingHand, PaymentsStay
<1>3. SameTerms(row, row) /\ Seen(o, row)'
  BY <1>1, <1>2, HandSeen DEF SameTerms, Seen
<1>4. CASE ~row.required /\ SaveAs(row, "FAILED", "PLAN_UPDATE_FAILED")
  <2>1. MaySave(row, "FAILED")
    BY <1>4 DEF MaySave
  <2> QED BY <1>1, <1>2, <1>3, <1>4, <2>1, SaveStep
<1>5. CASE TryLater(row)
  BY <1>1, <1>2, <1>5, LaterStep DEF Inv, TypeOK
<1>6. CASE row.paid = "refunded" /\ SaveAs(row, "REFUNDED", "")
  <2>1. MaySave(row, "REFUNDED")
    BY <1>6 DEF MaySave
  <2> QED BY <1>1, <1>2, <1>3, <1>6, <2>1, SaveStep
<1>7. CASE row.required /\ row.payment # 0 /\ Go("refund", row)
  <2>1. AmountExplained'
    BY <1>7 DEF Go, AmountExplained, Inv
  <2> QED BY <1>1, <1>2, <1>3, <1>7, <2>1, MoveOn
          DEF Inv, TypeOK, Undoing, Raising, Steps
<1> QED BY <1>1, <1>4, <1>5, <1>6, <1>7 DEF AfterRestore

\* Undoing looks at the plan first: an amount nobody can explain waits for a
\* person, a raised one is put back.
LEMMA RestoreStep == Inv /\ Restore => Inv'
<1> SUFFICES ASSUME Inv, Restore
             PROVE  Inv'
  OBVIOUS
<1>1. PICK o, row : o = rec.op /\ row = rec.row
  OBVIOUS
<1>2. /\ rec.step \in Undoing /\ UNCHANGED <<expired, entitled, sub, plan, payments>>
      /\ rec.step # "idle" /\ row.status = "REFUND_PENDING" /\ row \in Row
  BY <1>1, UndoingHand DEF Restore, At, Undoing, provider
<1>3. CASE TryLater(row)
  BY <1>1, <1>2, <1>3, PaymentsStay, LaterStep DEF Inv, TypeOK
<1>4. CASE Raised(row) /\ Go("undo", row)
  <2>1. AmountExplained'
    BY <1>2, <1>4 DEF Go, AmountExplained, Inv
  <2>2. SameTerms(row, row)
    BY DEF SameTerms
  <2> QED BY <1>1, <1>2, <1>4, <2>1, <2>2, PaymentsStay, MoveOn
          DEF Inv, TypeOK, Undoing, Raising, Steps, Raised
<1>5. CASE ~NeedsReview(row) /\ ~Raised(row) /\ AfterRestore(row)
  <2>1. row.planStarted => plan.amount = row.count
    BY <1>5 DEF NeedsReview, Raised
  <2> QED BY <1>1, <1>2, <1>5, <2>1, AfterRestoreStep
<1> QED BY <1>1, <1>3, <1>4, <1>5 DEF Restore

\* The amount is put back, read back, and only then is the payment given back.
LEMMA PutBackStep ==
    Inv /\ (PutBack \/ PutBackAnswerLost \/ PutBackRefused \/ VerifyPutBack) => Inv'
<1> SUFFICES ASSUME Inv, PutBack \/ PutBackAnswerLost \/ PutBackRefused \/ VerifyPutBack
             PROVE  Inv'
  OBVIOUS
<1>1. PICK o, row, n : o = rec.op /\ row = rec.row /\ n = row.count
  OBVIOUS
<1>2. /\ rec.step \in Undoing /\ rec.step # "idle" /\ row.status = "REFUND_PENDING"
      /\ row \in Row /\ n \in Nat /\ SameTerms(row, row)
  BY <1>1, UndoingHand
  DEF PutBack, PutBackAnswerLost, PutBackRefused, VerifyPutBack, At, Undoing, SameTerms
<1>3. ASSUME rec.step = "undo"
      PROVE  n = sub.count
  BY <1>1, <1>2, <1>3, Hand, UndoingHand DEF RowInHand
<1>4. CASE PutBack
  <2>1. SetAmount(n) /\ Go("undone", row) /\ rec.step = "undo"
    BY <1>1, <1>4 DEF PutBack, At
  <2>2. /\ plan' \in [status: {"authorized", "cancelled"}, amount: Nat, cycle: Nat]
        /\ plan'.amount = n /\ UNCHANGED <<expired, entitled, sub, payments>>
    BY <2>1, <1>2, AmountSet
  <2>3. AmountExplained'
    BY <1>3, <2>1, <2>2 DEF AmountExplained
  <2> QED BY <1>1, <1>2, <2>1, <2>2, <2>3, PaymentsStay, MoveOn
          DEF Undoing, Raising, Steps
<1>5. CASE PutBackAnswerLost
  <2>1. SetAmount(n) /\ TryLater(rec.row) /\ rec.step = "undo"
    BY <1>1, <1>5 DEF PutBackAnswerLost, At
  <2>2. /\ plan' \in [status: {"authorized", "cancelled"}, amount: Nat, cycle: Nat]
        /\ plan'.amount = n /\ UNCHANGED <<expired, entitled, sub, payments>>
    BY <2>1, <1>2, AmountSet
  <2> QED BY <1>2, <1>3, <2>1, <2>2, PaymentsStay, LaterStep
<1>6. CASE TryLater(rec.row) /\ UNCHANGED <<expired, entitled, sub, plan, payments>>
  BY <1>2, <1>6, PaymentsStay, LaterStep DEF Inv, TypeOK
<1>7. CASE VerifyPutBack
  <2>1. UNCHANGED <<expired, entitled, sub, plan, payments>>
    BY <1>7 DEF VerifyPutBack, provider
  <2>2. \/ plan.amount = row.count /\ AfterRestore(row)
        \/ TryLater(row)
    BY <1>1, <1>7 DEF VerifyPutBack
  <2> QED BY <1>1, <1>2, <1>6, <2>1, <2>2, AfterRestoreStep
<1> QED BY <1>4, <1>5, <1>6, <1>7 DEF PutBackRefused, provider

\* A refund step: some payments of the operation are given back.
LEMMA RefundMoves ==
    ASSUME Inv, NEW o \in Operations, NEW ids,
           payments' = Refunded(o, ids) \/ UNCHANGED payments
    PROVE  PaymentsMove
  BY RefundsRevise, PaymentsStay

\* The refund is asked for: made, made with its answer lost, or only accepted.
LEMMA RefundStep ==
    Inv /\ (RefundPayment \/ RefundAnswerLost \/ RefundUnderway) => Inv'
<1> SUFFICES ASSUME Inv, RefundPayment \/ RefundAnswerLost \/ RefundUnderway
             PROVE  Inv'
  OBVIOUS
<1>1. PICK o, row : o = rec.op /\ row = rec.row
  OBVIOUS
<1>2. /\ rec.step = "refund" /\ rec.step \in Undoing /\ rec.step # "idle"
      /\ UNCHANGED <<expired, entitled, sub, plan>>
      /\ payments' = Refunded(o, {row.payment}) \/ UNCHANGED payments
      /\ Go("confirm", row) \/ TryLater(row)
  BY <1>1 DEF RefundPayment, RefundAnswerLost, RefundUnderway, At, Undoing, provider
<1>3. /\ row.status = "REFUND_PENDING" /\ row \in Row /\ o \in Operations
      /\ row.required /\ row.payment # 0
      /\ row.planStarted => plan.amount = row.count
  BY <1>1, <1>2, UndoingHand, Hand DEF RowInHand, StepFits
<1>4. PaymentsMove /\ SameTerms(row, row)
  BY <1>2, <1>3, RefundMoves DEF SameTerms
<1>5. CASE TryLater(row)
  BY <1>1, <1>2, <1>4, <1>5, LaterStep DEF Inv, TypeOK
<1>6. CASE Go("confirm", row)
  <2>1. AmountExplained'
    BY <1>2, <1>6 DEF Go, AmountExplained, Inv
  <2> QED BY <1>1, <1>2, <1>3, <1>4, <1>6, <2>1, MoveOn
          DEF Inv, TypeOK, Undoing, Raising, Steps
<1> QED BY <1>2, <1>5, <1>6

\* Reading the payment back: when the one that counts is given back none is
\* approved any more, hence the one the row names is given back too.
LEMMA ConfirmRefundStep == Inv /\ ConfirmRefund => Inv'
<1> SUFFICES ASSUME Inv, ConfirmRefund
             PROVE  Inv'
  OBVIOUS
<1>1. PICK o, row : o = rec.op /\ row = rec.row
  OBVIOUS
<1>2. /\ rec.step = "confirm" /\ rec.step \in Undoing /\ rec.step # "idle"
      /\ UNCHANGED <<expired, entitled, sub, plan>>
      /\ payments' = Refunded(o, Extras(o))
  BY <1>1 DEF ConfirmRefund, At, Undoing
<1>3. /\ row.status = "REFUND_PENDING" /\ row \in Row /\ o \in Operations
      /\ row.required /\ row.payment \in 1..Len(payments[o])
      /\ row.planStarted => plan.amount = row.count /\ row.count = sub.count
      /\ row.paid \in {"approved", "refunded"} /\ PaymentSeen(o, row)
      /\ Explains(ops[o]) => row.planStarted
  BY <1>1, <1>2, UndoingHand, Hand DEF RowInHand, StepFits
<1>4. PaymentsMove /\ Revised(o, Extras(o), "refunded")
  BY <1>2, <1>3, RefundsRevise
<1>5. CASE TryLater(row)
  BY <1>1, <1>2, <1>4, <1>5, LaterStep DEF Inv, TypeOK
<1>6. CASE FoundRefunded(o) /\ SaveAs([row EXCEPT !.paid = "refunded"], "REFUNDED", "")
  <2>1. PICK back : back = [row EXCEPT !.paid = "refunded"]
    OBVIOUS
  <2>2. /\ back \in Row /\ back.paid = "refunded" /\ back.payment = row.payment
        /\ back.required
    BY <1>3, <2>1 DEF Row, PaymentStatuses
  <2>3. Approved(o) = {}
    BY <1>3, <1>6, KeptPayment DEF FoundRefunded, Approved
  <2>4. payments[o][row.payment].status = "refunded"
    BY <1>3, <2>3 DEF PaymentSeen, Approved
  <2>5. payments'[o][row.payment].status = "refunded"
    BY <1>3, <1>4, <2>4 DEF PaymentsMove
  <2>6. row.payment \in 0..Len(payments'[o]) /\ row.payment # 0
    BY <1>3, <1>4, LenProperties DEF PaymentsMove, Inv, TypeOK
  <2>7. Seen(o, back)'
    BY <2>2, <2>5, <2>6 DEF Seen, PaymentSeen
  <2>8. MaySave(back, "REFUNDED")
    BY <2>2 DEF MaySave
  <2>9. ~Explains(ops[o]) \/ plan.amount = sub.count
    BY <1>3
  <2> QED BY <1>1, <1>2, <1>4, <1>6, <2>1, <2>2, <2>7, <2>8, <2>9, SaveStep
<1> QED BY <1>1, <1>5, <1>6 DEF ConfirmRefund

\* A call that fails, perhaps after some of its refunds.
LEMMA FailsStep == Inv /\ ProviderFails => Inv'
<1> SUFFICES ASSUME Inv, ProviderFails
             PROVE  Inv'
  OBVIOUS
<1>1. /\ rec.step # "idle" /\ TryLater(rec.row) /\ UNCHANGED <<expired, entitled, sub, plan>>
      /\ \E done : payments' = Refunded(rec.op, done)
  BY DEF ProviderFails, Unlocked
<1>2. PaymentsMove
  BY <1>1, Hand, RefundMoves
<1> QED BY <1>1, <1>2, LaterStep DEF Inv, TypeOK

-----------------------------------------------------------------------------
(* The specification keeps the invariant *)

\* Every step keeps the invariant.
LEMMA NextInv == Inv /\ [Next]_vars => Inv'
<1> SUFFICES ASSUME Inv, [Next]_vars
             PROVE  Inv'
  OBVIOUS
<1>1. CASE Owner
  BY <1>1, QuoteStep, ConfirmStep, OutsideSteps, SubscriptionSteps DEF Owner
<1>2. CASE MercadoPago
  BY <1>2, PayStep, SettlesStep, OutsideSteps, SubscriptionSteps DEF MercadoPago
<1>3. CASE \E o \in Operations : BeginReconcile(o) \/ RecordPlanIntent(o)
  BY <1>3, BeginStep, IntentStep
<1>4. CASE Answered
  BY <1>4, FindStep, CheckoutStep, DuplicatesStep, ReadStep, PutStep, VerifyStep,
     RestoreStep, PutBackStep, RefundStep, ConfirmRefundStep DEF Answered
<1>5. CASE Unanswered
  BY <1>5, PutStep, PutBackStep, RefundStep, FailsStep, CrashStep DEF Unanswered
<1>6. CASE UNCHANGED vars
  BY <1>6, StutterInv
<1> QED BY <1>1, <1>2, <1>3, <1>4, <1>5, <1>6 DEF Next, Reconciliation

\* Every reachable state of the owner, Mercado Pago and ReconcileBranch
\* satisfies the inductive invariant.
THEOREM InvariantTheorem == Spec => []Inv
  BY InitInv, NextInv, PTL DEF Spec

-----------------------------------------------------------------------------
(* What follows *)

\* Once nothing is under way Mercado Pago charges for exactly the branches the
\* brand has: a lost answer, a crash between the provider and the commit, or a
\* late payment of an old operation leaves no other amount.
THEOREM ChargesAreRight == Spec => []BranchInv
<1>1. Inv => BranchInv
  BY DEF Inv, AmountExplained, BranchInv, ChargedForItsBranches
<1> QED BY <1>1, InvariantTheorem, PTL

\* REFUNDED is only said of a payment that Mercado Pago has given back, also
\* where the buyer paid twice and the readback finds another payment.
THEOREM RefundsAreReal == Spec => []RefundedMeansRefunded
<1>1. Inv => RefundedMeansRefunded
  BY DEF Inv, OpsSound, OpSound, PaymentSeen, RefundedMeansRefunded
<1> QED BY <1>1, InvariantTheorem, PTL

\* No step refunds the payment a finished branch was bought with.
THEOREM BranchPaymentsAreKept == Spec => BranchKeepsItsPayment
<1> DEFINE Keeps(o) == ops[o].status = "COMPLETED" /\ ops[o].payment \in Approved(o)
                          => payments'[o][ops[o].payment] = payments[o][ops[o].payment]
           A == \A o \in Operations : Keeps(o)
<1>1. Inv /\ [Next]_vars => [A]_vars
  <2> SUFFICES ASSUME Inv, Next, NEW o \in Operations,
                      ops[o].status = "COMPLETED", ops[o].payment \in Approved(o)
               PROVE  payments'[o][ops[o].payment] = payments[o][ops[o].payment]
    OBVIOUS
  <2> DEFINE k == ops[o].payment
  <2>0. k \in 1..Len(payments[o]) /\ payments[o][k].status = "approved"
        /\ payments[o] \in Seq(Payment)
    BY DEF Approved, Inv, TypeOK
  <2>1. ASSUME NEW p \in Operations, Pay(p)
        PROVE  payments'[o][k] = payments[o][k]
    <3>1. PICK new : /\ new \in Payment
                     /\ payments' = [payments EXCEPT ![p] = Append(payments[p], new)]
      BY <2>1 DEF Pay, Payment, PaymentStatuses
    <3>2. CASE p = o
      <4>1. payments'[o] = Append(payments[o], new)
        BY <3>1, <3>2 DEF Inv, TypeOK
      <4> QED BY <2>0, <3>1, <4>1, AppendProperties
    <3>3. CASE p # o
      BY <3>1, <3>3 DEF Inv, TypeOK
    <3> QED BY <3>2, <3>3
  <2>2. ASSUME NEW p \in Operations, NEW i \in 1..Len(payments[p]), Settles(p, i)
        PROVE  payments'[o][k] = payments[o][k]
    <3>1. PICK new : payments' = [payments EXCEPT ![p][i] = new]
      BY <2>2 DEF Settles
    <3>2. p # o \/ i # k
      BY <2>0, <2>2 DEF Settles
    <3> QED BY <2>0, <3>1, <3>2 DEF Inv, TypeOK
  <2>3. ASSUME NEW p \in Operations, NEW ids, payments' = Refunded(p, ids),
               p # o \/ k \notin ids
        PROVE  payments'[o][k] = payments[o][k]
    BY <2>0, <2>3, RefundsRevise DEF Revised
  <2>4. CASE UNCHANGED payments
    BY <2>4
  <2>5. CASE FindPayment \/ RefundPayment \/ RefundAnswerLost \/ ConfirmRefund
             \/ RefundDuplicates \/ ProviderFails
    <3>1. PICK p, ids : p = rec.op /\ payments' = Refunded(p, ids)
             /\ (rec.step = "duplicates" => ids \subseteq Duplicates(p))
             /\ (rec.step \notin Finding \cup Undoing \cup {"duplicates"} => ids = {})
             /\ rec.step # "idle"
      <4>1. CASE ProviderFails
        <5>1. PICK done : payments' = Refunded(rec.op, done) /\
                 done \subseteq CASE rec.step \in {"find", "confirm"} -> Extras(rec.op)
                                  [] rec.step = "duplicates" -> Duplicates(rec.op)
                                  [] OTHER -> {}
          BY <4>1 DEF ProviderFails
        <5>2. rec.step # "idle"
          BY <4>1 DEF ProviderFails, Unlocked
        <5> QED BY <5>1, <5>2 DEF Finding, Undoing
      <4>2. CASE FindPayment \/ RefundPayment \/ RefundAnswerLost \/ ConfirmRefund
                 \/ RefundDuplicates
        BY <4>2 DEF FindPayment, RefundPayment, RefundAnswerLost, ConfirmRefund,
                    RefundDuplicates, At, Finding, Undoing
      <4> QED BY <2>5, <4>1, <4>2
    <3>2. p \in Operations /\ RowInHand(p, rec.row)
      BY <3>1, Hand
    <3>3. p # o \/ k \notin ids
      <4>1. CASE rec.step \in Finding \cup Undoing
        BY <3>2, <4>1 DEF RowInHand
      <4>2. CASE rec.step = "duplicates"
        BY <3>1, <4>2 DEF Duplicates
      <4> QED BY <3>1, <4>1, <4>2
    <3> QED BY <2>3, <3>1, <3>2, <3>3
  <2>6. \/ \E p \in Operations : Pay(p) \/ \E i \in 1..Len(payments[p]) : Settles(p, i)
        \/ UNCHANGED payments
        \/ FindPayment \/ RefundPayment \/ RefundAnswerLost \/ ConfirmRefund
        \/ RefundDuplicates \/ ProviderFails
    BY DEF Next, Owner, MercadoPago, Reconciliation, Answered, Unanswered, Quote, Confirm,
           QuoteExpires, LoseBrand, CancelSubscription, PlanRenews, PlanCancelled,
           SyncSubscription, BeginReconcile, RecordPlanIntent, Crash, CreateCheckout,
           ReadPlan, PutPlan, PutAnswerLost, PutRejected, VerifyPlan, Restore, PutBack,
           PutBackAnswerLost, PutBackRefused, VerifyPutBack, RefundUnderway, SetAmount,
           provider
  <2> QED BY <2>1, <2>2, <2>4, <2>5, <2>6
<1> QED BY <1>1, InvariantTheorem, PTL DEF Spec, BranchKeepsItsPayment

\* The branch is added to the subscription the quote was made for: same
\* quantity, same renewal, still authorized, its amount raised already.
THEOREM QuotedTermsHold == Spec => ActivatedOnQuotedTerms
<1> DEFINE A == sub'.count # sub.count => Unchanged(rec.row) /\ plan.amount = sub'.count
<1>1. Inv /\ [Next]_vars => [A]_vars
  <2> SUFFICES ASSUME Inv, Next, sub'.count # sub.count
               PROVE  Unchanged(rec.row) /\ plan.amount = sub'.count
    OBVIOUS
  <2>1. sub.count \in Nat
    BY DEF Inv, TypeOK
  <2>2. ~CancelSubscription /\ ~SyncSubscription
    BY DEF CancelSubscription, SyncSubscription, Inv, TypeOK
  <2>3. ReadPlan \/ VerifyPlan
    BY <2>2
    DEF Next, Owner, MercadoPago, Reconciliation, Answered, Unanswered, Quote, Confirm,
        QuoteExpires, LoseBrand, PlanRenews, PlanCancelled, Pay, Settles,
        BeginReconcile, RecordPlanIntent, Crash, FindPayment, CreateCheckout,
        RefundDuplicates, PutPlan, PutAnswerLost, PutRejected, Restore, PutBack,
        PutBackAnswerLost, PutBackRefused, VerifyPutBack, RefundPayment,
        RefundAnswerLost, RefundUnderway, ConfirmRefund, ProviderFails, SetAmount, rows
  <2>4. /\ rec.step \in Raising /\ plan.amount = rec.row.count + 1
        /\ sub' = [sub EXCEPT !.count = @ + 1]
    BY <2>3 DEF ReadPlan, VerifyPlan, At, Raising, Activate
  <2>5. rec.row.count = sub.count
    BY <2>4, RaisingHand
  <2>6. sub'.count = sub.count + 1
    BY <2>4 DEF Inv, TypeOK
  <2>7. Unchanged(rec.row)
    BY <2>4, RaisingHand, Hand DEF RowInHand
  <2> QED BY <2>4, <2>5, <2>6, <2>7
<1> QED BY <1>1, InvariantTheorem, PTL DEF Spec, ActivatedOnQuotedTerms

=============================================================================
