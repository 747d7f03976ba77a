------------------------ MODULE LoyaltyLedgerProofs ------------------------
(***************************************************************************)
(* Proofs about LoyaltyLedger for any sets of customers, staff, keys,      *)
(* previews and concurrent transactions, in three parts.                   *)
(*                                                                         *)
(* The first has Inv: the rows are well formed and a preview counts once.  *)
(* The second has BooksInv, on top of it: what the rows say of each other  *)
(* (a card, its history, its notifications, the keys that replay it and    *)
(* the accounts behind it).  What it adds is Current: what a request       *)
(* checked on its snapshot is still true of the rows at any time it might  *)
(* commit, because whoever changes one of them rolls it back.              *)
(* The third maps the state to that of IdealLedger and every commit to one *)
(* of its steps.                                                           *)
(***************************************************************************)
EXTENDS LedgerRefinement, SequenceTheorems, FiniteSetTheorems, WellFoundedInduction, TLAPS

-----------------------------------------------------------------------------
(* Part one: the inductive invariant of the rows *)

BenefitsPriced ==
    \A b \in Benefits :
        benefits[b].state # "absent" => benefits[b].requirement \in Requirements

\* What CreatePreview guarantees of the row it inserts.
Filled(row) ==
    /\ row.actor \in Staff
    /\ row.customer \in Customers
    /\ row.amount >= 1
    /\ row.kind = "CANJE" => row.before >= row.amount

PreviewsFilled ==
    \A p \in Previews :
        /\ previews[p].state = "unused" => previews[p] = NoPreview
        /\ previews[p].state \in {"open", "consumed"} => Filled(previews[p])

\* What a transaction in progress may rely on.  For a confirmation the point
\* is the last conjunct: its preview is open for as long as it is in progress.
PreviewInFlight(x) ==
    /\ x.preview \in Previews
    /\ previews[x.preview].state = "unused"
    /\ x.row.state = "open"
    /\ Filled(x.row)

ConfirmInFlight(x) ==
    /\ x.actor \in Staff
    /\ x.key \in Keys
    /\ x.preview \in Previews
    /\ previews[x.preview].state = "open"
    /\ x.balance = previews[x.preview].before

ReversalInFlight(x) ==
    /\ x.actor \in Staff
    /\ x.movement \in 1..Len(movements)
    /\ movements[x.movement].kind = "ACUMULACION"
          => x.balance >= movements[x.movement].amount

InFlight ==
    /\ \A t \in Transactions :
          /\ txns[t].kind = "preview" => PreviewInFlight(txns[t])
          /\ txns[t].kind = "confirm" => ConfirmInFlight(txns[t])
          /\ txns[t].kind = "reversal" => ReversalInFlight(txns[t])
    /\ \A t, u \in Transactions :
          /\ txns[t].kind = "preview" /\ txns[u].kind = "preview"
          /\ txns[t].preview = txns[u].preview
          => t = u

\* A preview that became a movement never becomes open again.
MovedPreviewsSpent ==
    \A i \in 1..Len(movements) :
        previews[movements[i].preview].state \in {"consumed", "gone"}

Inv ==
    /\ TypeOK
    /\ BenefitsPriced
    /\ PreviewsFilled
    /\ InFlight
    /\ MovedPreviewsSpent
    /\ OneMovementPerPreview

-----------------------------------------------------------------------------
(* The rows the model fills in are of the right type. *)
LEMMA DefaultRowsTyped ==
    /\ NoPreview \in PreviewRow /\ NoPreview.state = "unused"
    /\ Gone \in PreviewRow /\ Gone.state = "gone"
    /\ Idle \in Transaction /\ Idle.kind = "idle"
    /\ NoCard \in CardRow
    /\ FreeKey \in KeyRow
  BY DEF NoPreview, PreviewRow, Gone, Idle, Transaction, NoCard, CardRow,
         FreeKey, KeyRow, Kinds, Types

\* A brand before its first movement.
LEMMA InitInv == Init => Inv
<1> SUFFICES ASSUME Init PROVE Inv
  OBVIOUS
<1>1. TypeOK
  <2>1. /\ program \in [type: Types, active: BOOLEAN]
        /\ brandOpen \in BOOLEAN /\ branchOpen \in BOOLEAN
        /\ access \in BOOLEAN
        /\ live \subseteq Customers \cup Staff
        /\ authorized \subseteq Staff
    BY DEF Init
  <2>2. benefits \in [Benefits -> BenefitRow]
    BY DEF Init, BenefitRow
  <2>3. /\ cards \in [Customers -> CardRow]
        /\ previews \in [Previews -> PreviewRow]
        /\ keys \in [Keys -> KeyRow]
        /\ txns \in [Transactions -> Transaction]
    BY DefaultRowsTyped DEF Init
  <2>4. /\ ledger \in [Customers -> Seq(Entry)]
        /\ movements \in Seq(Movement)
    BY DEF Init
  <2>5. announced \in [Customers -> [notices: Nat, pushes: SUBSET (Nat \ {0})]]
    BY DEF Init
  <2> QED BY <2>1, <2>2, <2>3, <2>4, <2>5 DEF TypeOK
<1>2. BenefitsPriced /\ PreviewsFilled /\ InFlight
  BY DefaultRowsTyped DEF Init, BenefitsPriced, PreviewsFilled, InFlight
<1>3. MovedPreviewsSpent /\ OneMovementPerPreview
  BY DEF Init, MovedPreviewsSpent, OneMovementPerPreview
<1> QED BY <1>1, <1>2, <1>3 DEF Inv

-----------------------------------------------------------------------------
(* How a step may leave the transactions in progress *)

\* One that goes on unchanged locks none of the rows that were written.
Continued(rows) ==
    \A u \in Transactions :
        \/ txns'[u].kind \in {"idle", "erasure"}
        \/ /\ txns'[u] = txns[u]
           /\ Locks(txns[u]) \cap rows = {}

\* ts is txns but for transactions that ended and erasures that missed a row.
Trimmed(ts) ==
    /\ ts \in [Transactions -> Transaction]
    /\ \A u \in Transactions : ts[u].kind \in {"idle", "erasure"} \/ ts[u] = txns[u]

\* Rolling back leaves nobody with a lock on a row that was written.
LEMMA RollBackContinues ==
    ASSUME NEW ts, Trimmed(ts), NEW rows, txns' = RollBack(ts, rows)
    PROVE  /\ txns' \in [Transactions -> Transaction]
           /\ Continued(rows)
           /\ \A u \in Transactions : ts[u].kind = "idle" => txns'[u].kind = "idle"
  BY DefaultRowsTyped DEF RollBack, Trimmed, Continued

\* Where nothing is written everybody goes on.
LEMMA SameContinues ==
    ASSUME TypeOK
    PROVE  /\ Trimmed(txns)
           /\ txns' = txns => Continued({}) /\ txns' \in [Transactions -> Transaction]
  BY DEF TypeOK, Trimmed, Continued

\* A transaction that ends is idle; the others go on.
LEMMA FinishTrims ==
    ASSUME TypeOK, NEW t \in Transactions
    PROVE  Trimmed(Finish(t)) /\ Finish(t)[t].kind = "idle"
  BY DefaultRowsTyped DEF TypeOK, Finish, Trimmed

\* A row inserted after a deletion began is not seen by it, and no more.
LEMMA MissTrims ==
    ASSUME NEW ts, Trimmed(ts), NEW row \in Insertable, NEW accounts
    PROVE  /\ Trimmed(Miss(ts, row, accounts))
           /\ \A u \in Transactions :
                 ts[u].kind = "idle" => Miss(ts, row, accounts)[u].kind = "idle"
<1>1. ASSUME NEW u \in Transactions
      PROVE  /\ Miss(ts, row, accounts)[u] \in Transaction
             /\ Miss(ts, row, accounts)[u].kind = ts[u].kind
             /\ Miss(ts, row, accounts)[u] = ts[u] \/ ts[u].kind = "erasure"
  <2>1. ts[u] \in Transaction
    BY DEF Trimmed
  <2>2. [ts[u] EXCEPT !.missed = ts[u].missed \cup {row}] \in Transaction
    BY <2>1 DEF Transaction
  <2>3. [ts[u] EXCEPT !.missed = ts[u].missed \cup {row}].kind = ts[u].kind
    BY <2>1 DEF Transaction
  <2> QED BY <2>1, <2>2, <2>3 DEF Miss
<1>2. Miss(ts, row, accounts) \in [Transactions -> Transaction]
  BY <1>1 DEF Miss
<1> QED BY <1>1, <1>2 DEF Trimmed

\* Transactions that only ended, or missed a row, go on where nothing is written.
LEMMA TrimmedContinues ==
    ASSUME Trimmed(txns') PROVE Continued({}) /\ txns' \in [Transactions -> Transaction]
  BY DEF Trimmed, Continued

\* How a writer other than a preview or a confirmation may treat a preview:
\* leave it, let it expire, or lock it and remove it.
PreviewKept(p, rows) ==
    \/ previews'[p] = previews[p]
    \/ /\ previews[p].state # "unused"
       /\ \/ previews'[p] = [previews[p] EXCEPT !.expired = TRUE]
          \/ /\ <<"preview", p>> \in rows
             /\ previews'[p] = Gone

\* A confirmation holds its preview locked.
LEMMA ConfirmLocksPreview ==
    ASSUME NEW x \in Transaction, x.kind = "confirm"
    PROVE  <<"preview", x.preview>> \in Locks(x)
  BY DEF Locks, ConfirmLocks, ConfirmRows

\* An expired preview says what it said.
LEMMA ExpiredRow ==
    ASSUME NEW row \in PreviewRow
    PROVE  LET later == [row EXCEPT !.expired = TRUE]
           IN  /\ later \in PreviewRow
               /\ later.state = row.state /\ later.before = row.before
               /\ Filled(row) => Filled(later)
  BY DEF PreviewRow, Filled

\* What a transaction computed from its snapshot stays right while it goes on.
LEMMA ContinuedKeepsInFlight ==
    ASSUME Inv, NEW rows, Continued(rows), movements' = movements,
           \A p \in Previews : PreviewKept(p, rows)
    PROVE  InFlight'
<1> USE DEF Inv
<1>1. ASSUME NEW t \in Transactions, txns'[t].kind \notin {"idle", "erasure"}
      PROVE  txns'[t] = txns[t] /\ Locks(txns[t]) \cap rows = {}
  BY <1>1 DEF Continued
<1>2. ASSUME NEW t \in Transactions, txns'[t].kind = "preview"
      PROVE  PreviewInFlight(txns[t])'
  <2>1. PreviewInFlight(txns[t]) /\ txns'[t] = txns[t]
    BY <1>1, <1>2 DEF InFlight
  <2>2. previews'[txns[t].preview] = previews[txns[t].preview]
    BY <2>1 DEF PreviewInFlight, PreviewKept
  <2> QED BY <2>1, <2>2 DEF PreviewInFlight, Filled
<1>3. ASSUME NEW t \in Transactions, txns'[t].kind = "confirm"
      PROVE  ConfirmInFlight(txns[t])'
  <2>1. /\ ConfirmInFlight(txns[t]) /\ txns'[t] = txns[t]
        /\ Locks(txns[t]) \cap rows = {}
    BY <1>1, <1>3 DEF InFlight
  <2>2. /\ previews'[txns[t].preview].state = previews[txns[t].preview].state
        /\ previews'[txns[t].preview].before = previews[txns[t].preview].before
    <3>1. <<"preview", txns[t].preview>> \in Locks(txns[t])
      BY <1>3, <2>1, ConfirmLocksPreview DEF TypeOK
    <3>2. /\ txns[t].preview \in Previews
          /\ previews[txns[t].preview] \in PreviewRow
      BY <2>1 DEF ConfirmInFlight, TypeOK
    <3> QED BY <2>1, <3>1, <3>2, ExpiredRow DEF PreviewKept
  <2> QED BY <2>1, <2>2 DEF ConfirmInFlight
<1>4. ASSUME NEW t \in Transactions, txns'[t].kind = "reversal"
      PROVE  ReversalInFlight(txns[t])'
  BY <1>1, <1>4 DEF InFlight, ReversalInFlight
<1>5. ASSUME NEW t \in Transactions, NEW u \in Transactions,
             txns'[t].kind = "preview", txns'[u].kind = "preview",
             txns'[t].preview = txns'[u].preview
      PROVE  t = u
  BY <1>1, <1>5 DEF InFlight
<1> QED BY <1>2, <1>3, <1>4, <1>5 DEF InFlight

\* Every recorded movement has its type.
LEMMA MovementsTyped ==
    ASSUME TypeOK
    PROVE  /\ Len(movements) \in Nat
           /\ \A i \in 1..Len(movements) : movements[i] \in Movement
  BY DEF TypeOK

\* The fields of a movement have theirs.
LEMMA MovementFields ==
    ASSUME NEW move \in Movement
    PROVE  /\ move.preview \in Previews /\ move.key \in Keys
           /\ move.customer \in Customers /\ move.kind \in Kinds
           /\ move.type \in Types /\ move.amount \in Nat /\ move.amount >= 1
  BY DEF Movement

\* Previews that are kept, expire or are removed stay filled in and spent.
LEMMA KeptPreviewsStaySound ==
    ASSUME Inv, NEW rows, movements' = movements,
           previews' = [p \in Previews |-> previews'[p]],
           \A p \in Previews : PreviewKept(p, rows)
    PROVE  /\ previews' \in [Previews -> PreviewRow]
           /\ PreviewsFilled'
           /\ MovedPreviewsSpent'
           /\ OneMovementPerPreview'
<1> USE DEF Inv
<1>1. ASSUME NEW p \in Previews
      PROVE  /\ previews'[p] \in PreviewRow
             /\ previews'[p].state = "unused" => previews'[p] = NoPreview
             /\ previews'[p].state \in {"open", "consumed"} => Filled(previews'[p])
             /\ previews[p].state \in {"consumed", "gone"}
                   => previews'[p].state \in {"consumed", "gone"}
  <2>1. CASE previews'[p] = previews[p]
    BY <2>1 DEF PreviewsFilled, TypeOK
  <2>2. CASE previews'[p] = Gone
    BY <2>2, DefaultRowsTyped
  <2>3. CASE /\ previews[p].state # "unused"
             /\ previews'[p] = [previews[p] EXCEPT !.expired = TRUE]
    <3>1. previews[p] \in PreviewRow
      BY DEF TypeOK
    <3>2. /\ previews'[p] \in PreviewRow
          /\ previews'[p].state = previews[p].state
          /\ Filled(previews[p]) => Filled(previews'[p])
      BY <2>3, <3>1, ExpiredRow
    <3> QED BY <2>3, <3>2 DEF PreviewsFilled
  <2> QED BY <2>1, <2>2, <2>3 DEF PreviewKept
<1>2. previews' \in [Previews -> PreviewRow]
  BY <1>1
<1>3. \A i \in 1..Len(movements) : movements[i].preview \in Previews
  BY MovementsTyped, MovementFields
<1>4. MovedPreviewsSpent'
  BY <1>1, <1>3 DEF MovedPreviewsSpent
<1> QED BY <1>1, <1>2, <1>4 DEF PreviewsFilled, OneMovementPerPreview

-----------------------------------------------------------------------------
(* Steps that only start or end a transaction *)

\* A step that only starts or ends a transaction preserves the invariant.
LEMMA TxnStep ==
    ASSUME Inv, NEW t \in Transactions, NEW x \in Transaction,
           txns' = [txns EXCEPT ![t] = x],
           UNCHANGED <<brandVars, live, cards, ledger, previews, keys, announced,
                       movements>>,
           x.kind = "preview" =>
              /\ PreviewInFlight(x)
              /\ \A u \in Transactions :
                    txns[u].kind = "preview" => txns[u].preview # x.preview,
           x.kind = "confirm" => ConfirmInFlight(x),
           x.kind = "reversal" => ReversalInFlight(x)
    PROVE  Inv'
<1> USE DEF Inv
<1>1. TypeOK'
  BY DEF TypeOK, brandVars
<1>2. /\ txns'[t] = x
      /\ \A u \in Transactions \ {t} : txns'[u] = txns[u]
  BY DEF TypeOK
<1>3. ASSUME NEW u \in Transactions
      PROVE  /\ txns'[u].kind = "preview" => PreviewInFlight(txns[u])'
             /\ txns'[u].kind = "confirm" => ConfirmInFlight(txns[u])'
             /\ txns'[u].kind = "reversal" => ReversalInFlight(txns[u])'
  <2>1. CASE u = t
    BY <1>2, <2>1 DEF PreviewInFlight, ConfirmInFlight, ReversalInFlight
  <2>2. CASE u # t
    BY <1>2, <2>2 DEF InFlight, PreviewInFlight, ConfirmInFlight, ReversalInFlight
  <2> QED BY <2>1, <2>2
<1>4. ASSUME NEW u \in Transactions, NEW v \in Transactions,
             txns'[u].kind = "preview", txns'[v].kind = "preview",
             txns'[u].preview = txns'[v].preview
      PROVE  u = v
  BY <1>2, <1>4 DEF InFlight
<1>5. InFlight'
  BY <1>3, <1>4 DEF InFlight
<1>6. /\ BenefitsPriced' /\ PreviewsFilled'
      /\ MovedPreviewsSpent' /\ OneMovementPerPreview'
  BY DEF BenefitsPriced, PreviewsFilled, Filled, MovedPreviewsSpent,
         OneMovementPerPreview, brandVars
<1> QED BY <1>1, <1>5, <1>6

\* A transaction that fails writes nothing.
LEMMA AbortInv ==
    ASSUME Inv, NEW t \in Transactions, Abort(t)
    PROVE  Inv'
  BY TxnStep, DefaultRowsTyped DEF Abort, Finish

\* The balances of a card are natural numbers.
LEMMA BalanceTyped ==
    ASSUME TypeOK, NEW c \in Customers, NEW type \in Types
    PROVE  cards[c].balance[type] \in Nat /\ Balance(c) \in Nat
<1>1. cards[c] \in CardRow /\ program.type \in Types
  BY DEF TypeOK
<1> QED BY <1>1 DEF CardRow, Balance

\* CreatePreview takes its snapshot and checks the request.
LEMMA BeginPreviewInv ==
    ASSUME Inv, NEW t \in Transactions, NEW p \in Previews, NEW s \in Staff,
           NEW c \in Customers, NEW kind \in Kinds,
           NEW b \in Benefits \cup {None}, BeginPreview(t, p, s, c, kind, b)
    PROVE  Inv'
<1> USE DEF Inv
<1>1. PICK n \in Amounts(kind, b) :
         txns' = [txns EXCEPT ![t] =
                    [Idle EXCEPT !.kind = "preview", !.actor = s, !.preview = p,
                       !.row = [state |-> "open", expired |-> FALSE,
                                actor |-> s, customer |-> c, kind |-> kind,
                                benefit |-> b, type |-> program.type,
                                card |-> cards[c].state = "active",
                                before |-> Balance(c), amount |-> n]]]
  BY DEF BeginPreview
<1> DEFINE row == [state |-> "open", expired |-> FALSE,
                   actor |-> s, customer |-> c, kind |-> kind,
                   benefit |-> b, type |-> program.type,
                   card |-> cards[c].state = "active",
                   before |-> Balance(c), amount |-> n]
           x == [Idle EXCEPT !.kind = "preview", !.actor = s, !.preview = p,
                             !.row = row]
<1>2. program.type \in Types /\ Balance(c) \in Nat
  BY BalanceTyped DEF TypeOK
<1>a. n \in Amounts(kind, b)
  BY <1>1
<1>b. \A r \in Requirements \cup CreditAmounts : r \in Nat /\ r >= 1
  BY AmountsPositive
<1>3. n \in Nat /\ n >= 1
  <2>1. CASE kind = "CANJE"
    <3>1. b \in Benefits /\ benefits[b].state = "active"
      BY <2>1 DEF BeginPreview
    <3>2. benefits[b].requirement \in Requirements
      BY <3>1 DEF BenefitsPriced
    <3> QED BY <1>a, <1>b, <2>1, <3>2 DEF Amounts
  <2>2. CASE kind # "CANJE"
    BY <1>a, <1>b, <2>2 DEF Amounts
  <2> QED BY <2>1, <2>2
<1>4. kind = "CANJE" => Balance(c) >= n
  BY <1>1 DEF BeginPreview, Amounts
<1>5. row \in PreviewRow
  BY <1>2, <1>3 DEF PreviewRow
<1>6. x \in Transaction /\ x.kind = "preview" /\ x.preview = p /\ x.row = row
  BY <1>5 DEF Idle, Transaction
<1>7. PreviewInFlight(x)
  BY <1>3, <1>4, <1>6 DEF PreviewInFlight, Filled, BeginPreview
<1>8. \A u \in Transactions : txns[u].kind = "preview" => txns[u].preview # p
  BY DEF BeginPreview
<1>9. UNCHANGED <<brandVars, live, cards, ledger, previews, keys, announced,
                  movements>>
  BY DEF BeginPreview
<1>10. txns' = [txns EXCEPT ![t] = x]
  BY <1>1
<1> HIDE DEF x, row
<1> QED BY <1>6, <1>7, <1>8, <1>9, <1>10, TxnStep

\* ConfirmMovement takes its snapshot and checks the request.
LEMMA BeginConfirmInv ==
    ASSUME Inv, NEW t \in Transactions, NEW s \in Staff, NEW k \in Keys,
           NEW p \in Previews, BeginConfirm(t, s, k, p)
    PROVE  Inv'
<1> DEFINE x == [Idle EXCEPT !.kind = "confirm", !.actor = s, !.key = k,
                             !.preview = p, !.balance = previews[p].before]
<1>1. previews[p].before \in Nat
  BY DEF Inv, TypeOK, PreviewRow
<1>2. /\ x \in Transaction /\ x.kind = "confirm" /\ x.actor = s /\ x.key = k
      /\ x.preview = p /\ x.balance = previews[p].before
  BY <1>1, DefaultRowsTyped DEF Idle, Transaction
<1>3. previews[p].state = "open"
  BY DEF BeginConfirm, ConfirmPasses
<1>4. ConfirmInFlight(x)
  BY <1>2, <1>3 DEF ConfirmInFlight
<1>5. /\ txns' = [txns EXCEPT ![t] = x]
      /\ UNCHANGED <<brandVars, live, cards, ledger, previews, keys, announced,
                     movements>>
  BY DEF BeginConfirm
<1> HIDE DEF x
<1> QED BY <1>2, <1>4, <1>5, TxnStep

\* ReverseBrandMovement takes its snapshot and finds the movement covered.
LEMMA BeginReversalInv ==
    ASSUME Inv, NEW t \in Transactions, NEW s \in Staff,
           NEW m \in 1..Len(movements), BeginReversal(t, s, m)
    PROVE  Inv'
<1> DEFINE move == movements[m]
           balance == cards[move.customer].balance[move.type]
           x == [Idle EXCEPT !.kind = "reversal", !.actor = s, !.movement = m,
                             !.balance = balance]
<1>1. m \in Nat /\ move.customer \in Customers /\ move.type \in Types
  BY MovementsTyped, MovementFields DEF Inv
<1>2. balance \in Nat
  BY <1>1, BalanceTyped DEF Inv
<1>3. /\ x \in Transaction /\ x.kind = "reversal" /\ x.actor = s
      /\ x.movement = m /\ x.balance = balance
  BY <1>1, <1>2, DefaultRowsTyped DEF Idle, Transaction
<1>4. move.kind = "ACUMULACION" => balance >= move.amount
  BY DEF BeginReversal, ReversalPasses, Covered
<1>5. ReversalInFlight(x)
  BY <1>3, <1>4 DEF ReversalInFlight
<1>6. /\ txns' = [txns EXCEPT ![t] = x]
      /\ UNCHANGED <<brandVars, live, cards, ledger, previews, keys, announced,
                     movements>>
  BY DEF BeginReversal
<1> HIDE DEF x
<1> QED BY <1>3, <1>5, <1>6, TxnStep

\* AnonymizeAccount takes its snapshot.
LEMMA BeginErasureInv ==
    ASSUME Inv, NEW t \in Transactions, NEW u \in Customers \cup Staff,
           BeginErasure(t, u)
    PROVE  Inv'
<1> DEFINE closes == brandOpen /\ u \in Managers /\ Managers \cap live = {u}
           x == [Idle EXCEPT !.kind = "erasure", !.actor = u, !.closes = closes]
<1>1. closes \in BOOLEAN
  BY DEF Inv, TypeOK
<1> HIDE DEF closes
<1>2. x \in Transaction /\ x.kind = "erasure"
  BY <1>1, DefaultRowsTyped DEF Idle, Transaction
<1>3. /\ txns' = [txns EXCEPT ![t] = x]
      /\ UNCHANGED <<brandVars, live, cards, ledger, previews, keys, announced,
                     movements>>
  BY DEF BeginErasure, closes
<1> HIDE DEF x
<1> QED BY <1>2, <1>3, TxnStep

-----------------------------------------------------------------------------
(* Commits *)

\* A card row after Post, and the entry it appends.
LEMMA PostTyped ==
    ASSUME TypeOK, NEW c \in Customers, NEW m \in Nat \ {0},
           NEW kind \in Kinds \cup {"REVERSAL"}, NEW type \in Types,
           NEW before \in Nat, NEW after \in Nat,
           Post(c, m, kind, type, before, after)
    PROVE  /\ cards' \in [Customers -> CardRow]
           /\ ledger' \in [Customers -> Seq(Entry)]
<1>1. cards[c] \in CardRow /\ ledger[c] \in Seq(Entry)
  BY DEF TypeOK
<1>2. [state |-> "active",
       balance |-> [cards[c].balance EXCEPT ![type] = after],
       version |-> (IF cards[c].state = "none" THEN 1 ELSE cards[c].version) + 1]
         \in CardRow
  BY <1>1 DEF CardRow
<1>3. cards' \in [Customers -> CardRow]
  BY <1>2 DEF Post, TypeOK
<1>4. [movement |-> m, kind |-> kind, before |-> before, after |-> after] \in Entry
  BY DEF Entry
<1>5. Append(ledger[c], [movement |-> m, kind |-> kind, before |-> before,
                         after |-> after]) \in Seq(Entry)
  BY <1>1, <1>4
<1>6. ledger' \in [Customers -> Seq(Entry)]
  BY <1>5 DEF Post, TypeOK
<1> QED BY <1>3, <1>6

\* Notifications have their types.
LEMMA AnnouncedTyped ==
    ASSUME TypeOK, NEW c \in Customers, NEW queued \in SUBSET (Nat \ {0})
    PROVE  Announced(c, queued)
              \in [Customers -> [notices: Nat, pushes: SUBSET (Nat \ {0})]]
<1> DEFINE Row == [notices: Nat, pushes: SUBSET (Nat \ {0})]
           old == announced[c]
           new == [notices |-> old.notices + 1, pushes |-> old.pushes \cup queued]
<1>1. announced \in [Customers -> Row]
  BY DEF TypeOK
<1>2. old.notices \in Nat /\ old.pushes \in SUBSET (Nat \ {0})
  BY <1>1
<1>3. old.pushes \cup queued \in SUBSET (Nat \ {0})
  BY <1>2
<1>4. new \in Row
  BY <1>2, <1>3
<1>5. Announced(c, queued) = [announced EXCEPT ![c] = new]
  BY DEF Announced
<1> HIDE DEF new, Row
<1> QED BY <1>1, <1>4, <1>5 DEF Row

\* A preview is stored filled in.
LEMMA CommitPreviewInv ==
    ASSUME Inv, NEW t \in Transactions, CommitPreview(t)
    PROVE  Inv'
<1> USE DEF Inv
<1> DEFINE p == txns[t].preview
           row == txns[t].row
<1>1. /\ txns[t].kind = "preview"
      /\ previews' = [previews EXCEPT ![p] = row]
      /\ txns' = Miss(Finish(t), <<"preview", p>>, {row.actor, row.customer})
      /\ UNCHANGED <<brandVars, live, cards, ledger, keys, announced, movements>>
  BY DEF CommitPreview
<1>2. /\ p \in Previews /\ previews[p].state = "unused"
      /\ row \in PreviewRow /\ row.state = "open" /\ Filled(row)
  BY <1>1 DEF InFlight, PreviewInFlight, TypeOK, Transaction
<1>3. /\ previews'[p] = row
      /\ \A q \in Previews \ {p} : previews'[q] = previews[q]
  BY <1>1, <1>2 DEF TypeOK
<1>4. /\ previews' \in [Previews -> PreviewRow]
      /\ txns' \in [Transactions -> Transaction]
      /\ txns'[t].kind = "idle"
      /\ \A u \in Transactions :
            txns'[u].kind \notin {"idle", "erasure"} => u # t /\ txns'[u] = txns[u]
  <2>1. <<"preview", p>> \in Insertable
    BY <1>2 DEF Insertable
  <2>2. Trimmed(txns') /\ txns'[t].kind = "idle"
    BY <1>1, <2>1, FinishTrims, MissTrims
  <2> QED BY <1>1, <1>2, <2>2 DEF TypeOK, Trimmed
<1>5. TypeOK'
  BY <1>1, <1>4 DEF TypeOK, brandVars
<1>6. BenefitsPriced' /\ PreviewsFilled'
  BY <1>1, <1>2, <1>3 DEF BenefitsPriced, PreviewsFilled, Filled, brandVars
<1>7. MovedPreviewsSpent' /\ OneMovementPerPreview'
  <2>1. \A i \in 1..Len(movements) : movements[i].preview \in Previews
    BY MovementsTyped, MovementFields
  <2>2. \A i \in 1..Len(movements) : movements[i].preview # p
    BY <1>2 DEF MovedPreviewsSpent
  <2> QED BY <1>1, <1>3, <2>1, <2>2 DEF MovedPreviewsSpent, OneMovementPerPreview
<1>8. InFlight'
  <2>1. ASSUME NEW u \in Transactions, txns'[u].kind = "preview"
        PROVE  PreviewInFlight(txns[u])'
    <3>1. u # t /\ txns'[u] = txns[u] /\ txns[u].preview # p
      BY <1>1, <1>4, <2>1 DEF InFlight
    <3> QED BY <1>3, <2>1, <3>1 DEF InFlight, PreviewInFlight, Filled
  <2>2. ASSUME NEW u \in Transactions, txns'[u].kind = "confirm"
        PROVE  ConfirmInFlight(txns[u])'
    <3>1. txns'[u] = txns[u] /\ ConfirmInFlight(txns[u])
      BY <1>4, <2>2 DEF InFlight
    <3> QED BY <1>2, <1>3, <3>1 DEF ConfirmInFlight
  <2>3. ASSUME NEW u \in Transactions, txns'[u].kind = "reversal"
        PROVE  ReversalInFlight(txns[u])'
    BY <1>1, <1>4, <2>3 DEF InFlight, ReversalInFlight
  <2>4. ASSUME NEW u \in Transactions, NEW v \in Transactions,
               txns'[u].kind = "preview", txns'[v].kind = "preview",
               txns'[u].preview = txns'[v].preview
        PROVE  u = v
    BY <1>4, <2>4 DEF InFlight
  <2> QED BY <2>1, <2>2, <2>3, <2>4 DEF InFlight
<1> QED BY <1>5, <1>6, <1>7, <1>8

\* A reversal never takes a balance below zero.
LEMMA CommitReversalInv ==
    ASSUME Inv, NEW t \in Transactions, CommitReversal(t)
    PROVE  Inv'
<1> USE DEF Inv
<1> DEFINE x == txns[t]
           move == movements[x.movement]
           after == IF move.kind = "CANJE" THEN x.balance + move.amount
                                           ELSE x.balance - move.amount
           rows == {<<"card", move.customer>>}
<1>1. /\ x.kind = "reversal"
      /\ Post(move.customer, x.movement, "REVERSAL", move.type, x.balance, after)
      /\ announced' = Announced(move.customer, {})
      /\ txns' = RollBack(Finish(t), rows)
      /\ UNCHANGED <<brandVars, live, previews, keys, movements>>
  BY DEF CommitReversal
<1>2. x \in Transaction /\ ReversalInFlight(x)
  BY <1>1 DEF InFlight, TypeOK
<1>3. /\ x.movement \in Nat \ {0} /\ x.balance \in Nat
      /\ move \in Movement
  <2>1. x.movement \in 1..Len(movements)
    BY <1>2 DEF ReversalInFlight
  <2>2. Len(movements) \in Nat /\ movements[x.movement] \in Movement
    BY <2>1, MovementsTyped
  <2> QED BY <1>2, <2>1, <2>2 DEF Transaction
<1>4. /\ move.customer \in Customers /\ move.type \in Types
      /\ move.kind \in Kinds /\ move.amount \in Nat
  BY <1>3, MovementFields
<1>5. after \in Nat
  BY <1>2, <1>3, <1>4 DEF ReversalInFlight, Kinds
<1> HIDE DEF after, rows
<1>6. cards' \in [Customers -> CardRow] /\ ledger' \in [Customers -> Seq(Entry)]
  BY <1>1, <1>3, <1>4, <1>5, PostTyped
<1>7. announced' \in [Customers -> [notices: Nat, pushes: SUBSET (Nat \ {0})]]
  BY <1>1, <1>4, AnnouncedTyped
<1>8. txns' \in [Transactions -> Transaction] /\ Continued(rows)
  BY <1>1, FinishTrims, RollBackContinues
<1>9. TypeOK'
  BY <1>1, <1>6, <1>7, <1>8 DEF TypeOK, brandVars
<1>10. /\ BenefitsPriced' /\ PreviewsFilled'
       /\ MovedPreviewsSpent' /\ OneMovementPerPreview'
  BY <1>1 DEF BenefitsPriced, PreviewsFilled, Filled, MovedPreviewsSpent,
              OneMovementPerPreview, brandVars
<1>11. InFlight'
  <2>1. movements' = movements /\ \A p \in Previews : PreviewKept(p, rows)
    BY <1>1 DEF PreviewKept
  <2> QED BY <1>8, <2>1, ContinuedKeepsInFlight
<1> QED BY <1>9, <1>10, <1>11

\* A confirmation spends its preview and never overdraws the card.
LEMMA CommitConfirmInv ==
    ASSUME Inv, NEW t \in Transactions, CommitConfirm(t)
    PROVE  Inv'
<1> USE DEF Inv
<1> DEFINE x == txns[t]
           row == previews[x.preview]
           m == Len(movements) + 1
           after == IF row.kind = "CANJE" THEN x.balance - row.amount
                                          ELSE x.balance + row.amount
           move == [preview |-> x.preview, key |-> x.key,
                    customer |-> row.customer, kind |-> row.kind,
                    type |-> row.type, amount |-> row.amount]
           answer == [state |-> "completed", actor |-> x.actor,
                      preview |-> x.preview, movement |-> m]
           rows == {<<"card", row.customer>>, <<"preview", x.preview>>,
                    <<"key", x.key>>}
<1>1. /\ x.kind = "confirm"
      /\ Post(row.customer, m, row.kind, row.type, x.balance, after)
      /\ previews' = [previews EXCEPT ![x.preview].state = "consumed"]
      /\ keys' = [keys EXCEPT ![x.key] = answer]
      /\ movements' = Append(movements, move)
      /\ announced' = Announced(row.customer, {m})
      /\ txns' = RollBack(IF cards[row.customer].state = "none"
                          THEN Miss(Finish(t), <<"card", row.customer>>, {row.customer})
                          ELSE Finish(t), rows)
      /\ UNCHANGED <<brandVars, live>>
  BY DEF CommitConfirm
<1>2. /\ x \in Transaction /\ x.actor \in Staff /\ x.key \in Keys
      /\ x.preview \in Previews /\ row.state = "open" /\ x.balance = row.before
  BY <1>1 DEF InFlight, TypeOK, ConfirmInFlight
<1>3. row \in PreviewRow /\ Filled(row)
  BY <1>2 DEF TypeOK, PreviewsFilled
<1>4. /\ row.customer \in Customers /\ row.kind \in Kinds /\ row.type \in Types
      /\ row.before \in Nat /\ row.amount \in Nat \ {0}
  BY <1>3 DEF PreviewRow, Filled
<1>5. after \in Nat /\ x.balance \in Nat
  BY <1>2, <1>3, <1>4 DEF Filled
<1>6. m \in Nat \ {0} /\ move \in Movement
  BY <1>2, <1>4, MovementsTyped DEF Movement
<1> HIDE DEF after, m
<1>7. cards' \in [Customers -> CardRow] /\ ledger' \in [Customers -> Seq(Entry)]
  BY <1>1, <1>4, <1>5, <1>6, PostTyped
<1>8. announced' \in [Customers -> [notices: Nat, pushes: SUBSET (Nat \ {0})]]
  BY <1>1, <1>4, <1>6, AnnouncedTyped
<1>9. keys' \in [Keys -> KeyRow]
  <2>1. answer \in KeyRow
    BY <1>2, <1>6 DEF KeyRow
  <2> QED BY <1>1, <2>1 DEF TypeOK
<1>10. /\ previews'[x.preview] = [row EXCEPT !.state = "consumed"]
       /\ \A q \in Previews \ {x.preview} : previews'[q] = previews[q]
  BY <1>1, <1>2 DEF TypeOK
<1>11. /\ previews' \in [Previews -> PreviewRow]
       /\ previews'[x.preview].state = "consumed"
       /\ Filled(previews'[x.preview])
  <2>1. LET spent == [row EXCEPT !.state = "consumed"]
        IN  spent \in PreviewRow /\ spent.state = "consumed" /\ Filled(spent)
    BY <1>3 DEF PreviewRow, Filled
  <2>2. previews' = [previews EXCEPT ![x.preview] = [row EXCEPT !.state = "consumed"]]
    BY <1>1
  <2> QED BY <1>10, <2>1, <2>2 DEF TypeOK
<1>12. /\ txns' \in [Transactions -> Transaction]
       /\ txns'[t].kind = "idle"
       /\ Continued(rows)
  <2> DEFINE ts == IF cards[row.customer].state = "none"
                   THEN Miss(Finish(t), <<"card", row.customer>>, {row.customer})
                   ELSE Finish(t)
  <2>1. <<"card", row.customer>> \in Insertable
    BY <1>4 DEF Insertable
  <2>2. Trimmed(ts) /\ ts[t].kind = "idle"
    BY <2>1, FinishTrims, MissTrims
  <2> HIDE DEF rows, ts
  <2>3. txns' = RollBack(ts, rows)
    BY <1>1 DEF ts
  <2> QED BY <2>2, <2>3, RollBackContinues
<1>13. /\ movements' \in Seq(Movement)
       /\ Len(movements') = m
       /\ movements'[m] = move
       /\ \A i \in 1..Len(movements) : movements'[i] = movements[i]
       /\ Len(movements) \in Nat
  BY <1>1, <1>6 DEF TypeOK, m
<1>14. TypeOK'
  BY <1>1, <1>7, <1>8, <1>9, <1>11, <1>12, <1>13 DEF TypeOK, brandVars
<1>15. BenefitsPriced' /\ PreviewsFilled'
  BY <1>1, <1>10, <1>11 DEF BenefitsPriced, PreviewsFilled, Filled, brandVars
<1>16. \A i \in 1..Len(movements) :
          movements[i].preview \in Previews \ {x.preview}
  BY <1>2, MovementsTyped, MovementFields DEF MovedPreviewsSpent
<1>17. m = Len(movements) + 1
  BY DEF m
<1>18. MovedPreviewsSpent'
  <2>1. ASSUME NEW i \in 1..m
        PROVE  previews'[movements'[i].preview].state \in {"consumed", "gone"}
    <3>1. CASE i = m
      BY <1>11, <1>13, <3>1
    <3>2. CASE i # m
      <4>1. i \in 1..Len(movements)
        BY <1>13, <1>17, <3>2
      <4>2. previews'[movements'[i].preview] = previews[movements[i].preview]
        BY <1>10, <1>13, <1>16, <4>1
      <4> QED BY <4>1, <4>2 DEF MovedPreviewsSpent
    <3> QED BY <3>1, <3>2
  <2> QED BY <1>13, <2>1 DEF MovedPreviewsSpent
<1>19. OneMovementPerPreview'
  BY <1>13, <1>16, <1>17 DEF OneMovementPerPreview
<1>20. ASSUME NEW u \in Transactions, txns'[u].kind \notin {"idle", "erasure"}
       PROVE  u # t /\ txns'[u] = txns[u] /\ Locks(txns[u]) \cap rows = {}
  BY <1>12, <1>20 DEF Continued
<1>21. /\ \A u \in Transactions :
            /\ txns'[u].kind = "preview" => PreviewInFlight(txns[u])'
            /\ txns'[u].kind = "confirm" => ConfirmInFlight(txns[u])'
            /\ txns'[u].kind = "reversal" => ReversalInFlight(txns[u])'
       /\ \A u, v \in Transactions :
            /\ txns'[u].kind = "preview" /\ txns'[v].kind = "preview"
            /\ txns'[u].preview = txns'[v].preview
            => u = v
  <2>1. ASSUME NEW u \in Transactions, txns'[u].kind = "preview"
        PROVE  PreviewInFlight(txns[u])'
    <3>1. PreviewInFlight(txns[u]) /\ txns'[u] = txns[u]
      BY <1>20, <2>1 DEF InFlight
    <3>2. txns[u].preview # x.preview
      BY <1>2, <3>1 DEF PreviewInFlight
    <3> QED BY <1>10, <3>1, <3>2 DEF PreviewInFlight, Filled
  <2>2. ASSUME NEW u \in Transactions, txns'[u].kind = "confirm"
        PROVE  ConfirmInFlight(txns[u])'
    <3>1. ConfirmInFlight(txns[u]) /\ txns'[u] = txns[u] /\ txns[u].kind = "confirm"
      BY <1>20, <2>2 DEF InFlight
    <3>2. txns[u].preview # x.preview
      <4>1. <<"preview", txns[u].preview>> \in Locks(txns[u])
        BY <3>1, ConfirmLocksPreview DEF TypeOK
      <4> QED BY <1>20, <2>2, <4>1
    <3> QED BY <1>10, <3>1, <3>2 DEF ConfirmInFlight
  <2>3. ASSUME NEW u \in Transactions, txns'[u].kind = "reversal"
        PROVE  ReversalInFlight(txns[u])'
    <3>1. ReversalInFlight(txns[u]) /\ txns'[u] = txns[u]
      BY <1>20, <2>3 DEF InFlight
    <3> QED BY <1>13, <1>17, <3>1 DEF ReversalInFlight
  <2>4. ASSUME NEW u \in Transactions, NEW v \in Transactions,
               txns'[u].kind = "preview", txns'[v].kind = "preview",
               txns'[u].preview = txns'[v].preview
        PROVE  u = v
    BY <1>20, <2>4 DEF InFlight
  <2> QED BY <2>1, <2>2, <2>3, <2>4
<1>22. InFlight'
  BY <1>21 DEF InFlight
<1> QED BY <1>14, <1>15, <1>18, <1>19, <1>22

-----------------------------------------------------------------------------
(* Everybody else's writes *)

\* What a step that is no handler's has to show: its rows are of their types,
\* benefits keep a price, and previews are kept as PreviewKept says.
LEMMA OtherStep ==
    ASSUME Inv, NEW rows, Continued(rows), txns' \in [Transactions -> Transaction],
           movements' = movements,
           previews' = [p \in Previews |-> previews'[p]],
           \A p \in Previews : PreviewKept(p, rows),
           program' \in [type: Types, active: BOOLEAN],
           brandOpen' \in BOOLEAN, branchOpen' \in BOOLEAN, access' \in BOOLEAN,
           live' \subseteq Customers \cup Staff, authorized' \subseteq Staff,
           benefits' \in [Benefits -> BenefitRow], BenefitsPriced',
           cards' \in [Customers -> CardRow],
           ledger' \in [Customers -> Seq(Entry)],
           keys' \in [Keys -> KeyRow],
           announced' \in [Customers -> [notices: Nat, pushes: SUBSET (Nat \ {0})]]
    PROVE  Inv'
<1>1. InFlight'
  BY ContinuedKeepsInFlight
<1>2. /\ previews' \in [Previews -> PreviewRow]
      /\ PreviewsFilled' /\ MovedPreviewsSpent' /\ OneMovementPerPreview'
  BY KeptPreviewsStaySound
<1>4. movements' \in Seq(Movement)
  BY DEF Inv, TypeOK
<1>5. TypeOK'
  BY <1>2, <1>4 DEF TypeOK
<1> QED BY <1>1, <1>2, <1>5 DEF Inv

\* Previews that stay as they are are kept.
LEMMA SamePreviews ==
    ASSUME TypeOK, NEW rows, previews' = previews
    PROVE  /\ previews' = [p \in Previews |-> previews'[p]]
           /\ \A p \in Previews : PreviewKept(p, rows)
  BY DEF TypeOK, PreviewKept

\* A new benefit has a price.
LEMMA CreateBenefitInv ==
    ASSUME Inv, NEW b \in Benefits, NEW n \in Requirements, CreateBenefit(b, n)
    PROVE  Inv'
<1> DEFINE row == [state |-> "active", requirement |-> n]
<1>1. row \in BenefitRow
  BY DEF BenefitRow
<1>2. benefits' = [benefits EXCEPT ![b] = row]
  BY DEF CreateBenefit
<1>3. benefits' \in [Benefits -> BenefitRow]
  BY <1>1, <1>2 DEF Inv, TypeOK
<1>4. BenefitsPriced'
  BY <1>2 DEF Inv, TypeOK, BenefitsPriced
<1>5. /\ txns' = Miss(txns, <<"benefit", b>>, {})
      /\ UNCHANGED <<program, brandOpen, branchOpen, access, authorized, live, cards, ledger,
                     previews, keys, announced, movements>>
  BY DEF CreateBenefit
<1>6. Continued({}) /\ txns' \in [Transactions -> Transaction]
  <2>1. <<"benefit", b>> \in Insertable
    BY DEF Insertable
  <2>2. Trimmed(txns')
    BY <1>5, <2>1, SameContinues, MissTrims DEF Inv
  <2> QED BY <2>2, TrimmedContinues
<1>7. /\ previews' = [p \in Previews |-> previews'[p]]
      /\ \A p \in Previews : PreviewKept(p, {})
  BY <1>5, SamePreviews DEF Inv
<1> QED BY <1>3, <1>4, <1>5, <1>6, <1>7, OtherStep DEF Inv, TypeOK

\* An edited benefit has a price, and rolls back who read the old one.
LEMMA ReplaceBenefitInv ==
    ASSUME Inv, NEW b \in Benefits, NEW n \in Requirements,
           NEW state \in {"active", "retired"}, ReplaceBenefit(b, n, state)
    PROVE  Inv'
<1> DEFINE row == [state |-> state, requirement |-> n]
           rows == {<<"benefit", b>>}
<1>1. row \in BenefitRow
  BY DEF BenefitRow
<1>2. benefits' = [benefits EXCEPT ![b] = row]
  BY DEF ReplaceBenefit
<1>3. benefits' \in [Benefits -> BenefitRow]
  BY <1>1, <1>2 DEF Inv, TypeOK
<1>4. BenefitsPriced'
  BY <1>2 DEF Inv, TypeOK, BenefitsPriced
<1>5. /\ txns' = RollBack(txns, rows)
      /\ UNCHANGED <<program, brandOpen, branchOpen, access, authorized, live, cards, ledger,
                     previews, keys, announced, movements>>
  BY DEF ReplaceBenefit
<1>6. /\ previews' = [p \in Previews |-> previews'[p]]
      /\ \A p \in Previews : PreviewKept(p, rows)
  BY <1>5, SamePreviews DEF Inv
<1> HIDE DEF rows
<1>7. Continued(rows) /\ txns' \in [Transactions -> Transaction]
  BY <1>5, SameContinues, RollBackContinues DEF Inv
<1> QED BY <1>3, <1>4, <1>5, <1>6, <1>7, OtherStep DEF Inv, TypeOK

\* A benefit that runs out keeps its price.
LEMMA BenefitLapsesInv ==
    ASSUME Inv, NEW b \in Benefits, BenefitLapses(b)
    PROVE  Inv'
<1> DEFINE row == [benefits[b] EXCEPT !.state = "lapsed"]
<1>1. row \in BenefitRow /\ row.requirement \in Requirements
  BY DEF Inv, TypeOK, BenefitRow, BenefitsPriced, BenefitLapses
<1>2. benefits' = [benefits EXCEPT ![b] = row]
  BY DEF BenefitLapses
<1>3. benefits' \in [Benefits -> BenefitRow]
  BY <1>1, <1>2 DEF Inv, TypeOK
<1>4. BenefitsPriced'
  BY <1>1, <1>2 DEF Inv, TypeOK, BenefitsPriced
<1>5. UNCHANGED <<program, brandOpen, branchOpen, access, authorized, live, cards, ledger,
                  previews, keys, announced, txns, movements>>
  BY DEF BenefitLapses
<1>6. Continued({}) /\ txns' \in [Transactions -> Transaction]
  BY <1>5, SameContinues DEF Inv
<1>7. /\ previews' = [p \in Previews |-> previews'[p]]
      /\ \A p \in Previews : PreviewKept(p, {})
  BY <1>5, SamePreviews DEF Inv
<1> QED BY <1>3, <1>4, <1>5, <1>6, <1>7, OtherStep DEF Inv, TypeOK

\* The program changes; whoever has its row locked starts again.
LEMMA UpdateProgramInv ==
    ASSUME Inv, NEW type \in Types, NEW active \in BOOLEAN,
           UpdateProgram(type, active)
    PROVE  Inv'
<1>1. /\ program' = [type |-> type, active |-> active]
      /\ txns' = RollBack(txns, {<<"program">>})
      /\ UNCHANGED <<brandOpen, branchOpen, access, authorized, benefits, live, cards, ledger,
                     previews, keys, announced, movements>>
  BY DEF UpdateProgram
<1>2. program' \in [type: Types, active: BOOLEAN]
  BY <1>1
<1>3. /\ previews' = [p \in Previews |-> previews'[p]]
      /\ \A p \in Previews : PreviewKept(p, {<<"program">>})
  BY <1>1, SamePreviews DEF Inv
<1>4. BenefitsPriced'
  BY <1>1 DEF Inv, BenefitsPriced
<1>5. Continued({<<"program">>}) /\ txns' \in [Transactions -> Transaction]
  BY <1>1, SameContinues, RollBackContinues DEF Inv
<1> QED BY <1>1, <1>2, <1>3, <1>4, <1>5, OtherStep DEF Inv, TypeOK

\* Staff get or lose access to a branch.
LEMMA SetBranchAccessInv ==
    ASSUME Inv, NEW s \in Staff, SetBranchAccess(s)
    PROVE  Inv'
<1>1. UNCHANGED <<program, brandOpen, branchOpen, access, benefits, live, cards, ledger,
                  previews, keys, announced, txns, movements>>
  BY DEF SetBranchAccess
<1>2. authorized' \subseteq Staff
  BY DEF SetBranchAccess, Inv, TypeOK
<1>3. Continued({}) /\ txns' \in [Transactions -> Transaction]
  BY <1>1, SameContinues DEF Inv
<1>4. /\ previews' = [p \in Previews |-> previews'[p]]
      /\ \A p \in Previews : PreviewKept(p, {})
  BY <1>1, SamePreviews DEF Inv
<1>5. BenefitsPriced'
  BY <1>1 DEF Inv, BenefitsPriced
<1> QED BY <1>1, <1>2, <1>3, <1>4, <1>5, OtherStep DEF Inv, TypeOK

\* Closing a brand leaves cards of their type.
LEMMA ClosedCardsTyped ==
    ASSUME TypeOK, NEW missed
    PROVE  ClosedCards(missed) \in [Customers -> CardRow]
<1> SUFFICES ASSUME NEW c \in Customers
             PROVE  ClosedCards(missed)[c] \in CardRow
  BY DEF ClosedCards
<1>1. cards[c] \in CardRow
  BY DEF TypeOK
<1>2. [cards[c] EXCEPT !.state = "closed", !.version = cards[c].version + 1]
         \in CardRow
  <2>1. cards[c].version + 1 \in Nat
    BY <1>1 DEF CardRow
  <2> QED BY <1>1, <2>1 DEF CardRow
<1> QED BY <1>1, <1>2 DEF ClosedCards

\* Retired benefits have their types.
LEMMA RetiredBenefitsTyped ==
    ASSUME TypeOK, BenefitsPriced, NEW missed
    PROVE  /\ RetiredBenefits(missed) \in [Benefits -> BenefitRow]
           /\ \A b \in Benefits : RetiredBenefits(missed)[b].state # "absent"
                 => RetiredBenefits(missed)[b].requirement \in Requirements
<1>1. ASSUME NEW b \in Benefits
      PROVE  /\ RetiredBenefits(missed)[b] \in BenefitRow
             /\ RetiredBenefits(missed)[b].state # "absent"
                   => RetiredBenefits(missed)[b].requirement \in Requirements
  <2>1. benefits[b] \in BenefitRow
    BY DEF TypeOK
  <2>2. \/ RetiredBenefits(missed)[b] = benefits[b]
        \/ /\ benefits[b].state \in {"active", "lapsed"}
           /\ RetiredBenefits(missed)[b] = [benefits[b] EXCEPT !.state = "retired"]
    BY DEF RetiredBenefits
  <2> QED BY <2>1, <2>2 DEF BenefitRow, BenefitsPriced
<1>2. RetiredBenefits(missed) \in [Benefits -> BenefitRow]
  BY <1>1 DEF RetiredBenefits
<1> QED BY <1>1, <1>2

\* A brand is closed.
LEMMA DeleteBrandInv ==
    ASSUME Inv, DeleteBrand
    PROVE  Inv'
<1> DEFINE rows == {<<"brand">>} \cup ClosedRows
<1>1. /\ brandOpen' = FALSE /\ branchOpen' = FALSE
      /\ access' = FALSE
      /\ program' = [program EXCEPT !.active = FALSE]
      /\ authorized' = {}
      /\ benefits' = RetiredBenefits({})
      /\ cards' = ClosedCards({})
      /\ txns' = RollBack(txns, rows)
      /\ UNCHANGED <<live, ledger, previews, keys, announced, movements>>
  BY DEF DeleteBrand
<1>2. program' \in [type: Types, active: BOOLEAN]
  BY <1>1 DEF Inv, TypeOK
<1>3. cards' \in [Customers -> CardRow]
  BY <1>1, ClosedCardsTyped DEF Inv
<1>4. benefits' \in [Benefits -> BenefitRow] /\ BenefitsPriced'
  BY <1>1, RetiredBenefitsTyped DEF Inv, BenefitsPriced
<1> HIDE DEF rows
<1>5. /\ previews' = [p \in Previews |-> previews'[p]]
      /\ \A p \in Previews : PreviewKept(p, rows)
  BY <1>1, SamePreviews DEF Inv
<1>6. Continued(rows) /\ txns' \in [Transactions -> Transaction]
  BY <1>1, SameContinues, RollBackContinues DEF Inv
<1> QED BY <1>1, <1>2, <1>3, <1>4, <1>5, <1>6, OtherStep DEF Inv, TypeOK

\* A branch closes; whoever shares its row starts again.
LEMMA DeleteBranchInv ==
    ASSUME Inv, DeleteBranch
    PROVE  Inv'
<1>1. /\ branchOpen' = FALSE
      /\ txns' = RollBack(txns, {<<"branch">>})
      /\ UNCHANGED <<program, brandOpen, access, authorized, benefits, live, cards, ledger,
                     previews, keys, announced, movements>>
  BY DEF DeleteBranch
<1>2. /\ previews' = [p \in Previews |-> previews'[p]]
      /\ \A p \in Previews : PreviewKept(p, {<<"branch">>})
  BY <1>1, SamePreviews DEF Inv
<1>3. BenefitsPriced'
  BY <1>1 DEF Inv, BenefitsPriced
<1>4. Continued({<<"branch">>}) /\ txns' \in [Transactions -> Transaction]
  BY <1>1, SameContinues, RollBackContinues DEF Inv
<1> QED BY <1>1, <1>2, <1>3, <1>4, OtherStep DEF Inv, TypeOK

\* A customer is deleted, with card, history and keys.
LEMMA CommitCustomerErasureInv ==
    ASSUME Inv, NEW t \in Transactions, CommitCustomerErasure(t)
    PROVE  Inv'
<1> DEFINE x == txns[t]
           c == x.actor
           kept == <<"card", c>> \in x.missed
           redacted == {k \in Keys : /\ keys[k].movement # 0
                                     /\ movements[keys[k].movement].customer = c}
           rows == {<<"user", c>>, <<"card", c>>}
                     \cup {<<"preview", p>> : p \in Owned(c)}
                     \cup {<<"key", k>> : k \in redacted}
<1>1. /\ c \in Customers
      /\ live' = live \ {c}
      /\ cards' = IF kept THEN cards ELSE [cards EXCEPT ![c] = NoCard]
      /\ ledger' = IF kept THEN ledger ELSE [ledger EXCEPT ![c] = <<>>]
      /\ previews' = [p \in Previews |-> IF Removed(p, x) THEN Gone ELSE previews[p]]
      /\ keys' = [k \in Keys |-> IF k \in redacted
                                 THEN [keys[k] EXCEPT !.movement = 0]
                                 ELSE keys[k]]
      /\ announced' = [announced EXCEPT ![c] = [notices |-> 0, pushes |-> {}]]
      /\ txns' = RollBack(Finish(t), rows)
      /\ UNCHANGED <<brandVars, movements>>
  BY DEF CommitCustomerErasure
<1>2. /\ cards' \in [Customers -> CardRow]
      /\ ledger' \in [Customers -> Seq(Entry)]
  BY <1>1, DefaultRowsTyped DEF Inv, TypeOK
<1>3. announced' \in [Customers -> [notices: Nat, pushes: SUBSET (Nat \ {0})]]
  BY <1>1 DEF Inv, TypeOK
<1>4. keys' \in [Keys -> KeyRow]
  <2> SUFFICES ASSUME NEW k \in Keys PROVE keys'[k] \in KeyRow
    BY <1>1
  <2>1. keys[k] \in KeyRow
    BY DEF Inv, TypeOK
  <2> HIDE DEF redacted
  <2> QED BY <1>1, <2>1 DEF KeyRow
<1>5. ASSUME NEW p \in Previews PROVE PreviewKept(p, rows)
  <2>1. CASE Removed(p, x)
    <3>1. p \in Owned(c)
      BY <2>1 DEF Removed
    <3>2. previews[p].state # "unused"
      BY <1>1, <3>1, NoneIsNoId DEF Inv, PreviewsFilled, NoPreview, Owned
    <3>3. previews'[p] = Gone /\ <<"preview", p>> \in rows
      BY <1>1, <2>1, <3>1
    <3> QED BY <3>2, <3>3 DEF PreviewKept
  <2>2. CASE ~Removed(p, x)
    BY <1>1, <2>2 DEF PreviewKept
  <2> QED BY <2>1, <2>2
<1>6. previews' = [p \in Previews |-> previews'[p]]
  BY <1>1
<1>7. BenefitsPriced'
  BY <1>1 DEF Inv, BenefitsPriced, brandVars
<1> HIDE DEF rows, redacted, kept, x
<1>8. Continued(rows) /\ txns' \in [Transactions -> Transaction]
  BY <1>1, FinishTrims, RollBackContinues DEF Inv
<1> QED BY <1>1, <1>2, <1>3, <1>4, <1>5, <1>6, <1>7, <1>8, OtherStep
        DEF Inv, TypeOK, brandVars

\* Somebody of the staff is deleted, and with the last owner the brand closes.
LEMMA CommitStaffErasureInv ==
    ASSUME Inv, NEW t \in Transactions, CommitStaffErasure(t)
    PROVE  Inv'
<1> DEFINE x == txns[t]
           s == x.actor
           scoped == {k \in Keys : keys[k].actor = s}
           rows == {<<"user", s>>}
                     \cup {<<"preview", p>> : p \in Owned(s)}
                     \cup {<<"key", k>> : k \in scoped}
                     \cup IF x.closes
                          THEN {<<"brand">>} \cup ClosedRows \cup
                               {<<"preview", p>> : p \in Previews}
                          ELSE {}
<1>1. /\ s \in Staff
      /\ live' = live \ {s}
      /\ authorized' = IF x.closes THEN {} ELSE authorized \ {s}
      /\ brandOpen' = (brandOpen /\ ~x.closes)
      /\ branchOpen' = (branchOpen /\ ~x.closes)
      /\ access' = (access /\ ~x.closes)
      /\ program' = [program EXCEPT !.active = @ /\ ~x.closes]
      /\ benefits' = IF x.closes THEN RetiredBenefits(x.missed) ELSE benefits
      /\ cards' = IF x.closes THEN ClosedCards(x.missed) ELSE cards
      /\ previews' = [p \in Previews |->
                        IF Removed(p, x) THEN Gone
                        ELSE IF x.closes /\ previews[p].state = "open"
                                        /\ <<"preview", p>> \notin x.missed
                             THEN [previews[p] EXCEPT !.expired = TRUE]
                             ELSE previews[p]]
      /\ keys' = [k \in Keys |-> IF k \in scoped THEN Scrubbed(k) ELSE keys[k]]
      /\ txns' = RollBack(Finish(t), rows)
      /\ UNCHANGED <<ledger, announced, movements>>
  BY DEF CommitStaffErasure
<1>2. /\ live' \subseteq Customers \cup Staff /\ authorized' \subseteq Staff
      /\ brandOpen' \in BOOLEAN /\ branchOpen' \in BOOLEAN /\ access' \in BOOLEAN
  BY <1>1 DEF Inv, TypeOK
<1>3. program' \in [type: Types, active: BOOLEAN]
  <2>1. program \in [type: Types, active: BOOLEAN]
    BY DEF Inv, TypeOK
  <2>2. (program.active /\ ~x.closes) \in BOOLEAN
    OBVIOUS
  <2> QED BY <1>1, <2>1, <2>2
<1>4. benefits' \in [Benefits -> BenefitRow] /\ BenefitsPriced'
  <2>1. benefits \in [Benefits -> BenefitRow] /\ BenefitsPriced
    BY DEF Inv, TypeOK
  <2>2. CASE x.closes
    BY <1>1, <2>2, RetiredBenefitsTyped DEF Inv, BenefitsPriced
  <2>3. CASE ~x.closes
    BY <1>1, <2>1, <2>3 DEF BenefitsPriced
  <2> QED BY <2>2, <2>3
<1>5. cards' \in [Customers -> CardRow]
  BY <1>1, ClosedCardsTyped DEF Inv, TypeOK
<1>6. keys' \in [Keys -> KeyRow]
  <2> SUFFICES ASSUME NEW k \in Keys PROVE keys'[k] \in KeyRow
    BY <1>1
  <2>1. keys[k] \in KeyRow
    BY DEF Inv, TypeOK
  <2>2. Scrubbed(k) \in KeyRow
    BY <2>1 DEF KeyRow, Scrubbed
  <2> HIDE DEF scoped
  <2> QED BY <1>1, <2>1, <2>2
<1>7. ASSUME NEW p \in Previews PROVE PreviewKept(p, rows)
  <2>1. CASE Removed(p, x)
    <3>1. p \in Owned(s)
      BY <2>1 DEF Removed
    <3>2. previews[p].state # "unused"
      BY <1>1, <3>1, NoneIsNoId DEF Inv, PreviewsFilled, NoPreview, Owned
    <3>3. previews'[p] = Gone /\ <<"preview", p>> \in rows
      BY <1>1, <2>1, <3>1
    <3> QED BY <3>2, <3>3 DEF PreviewKept
  <2>2. CASE ~Removed(p, x)
    BY <1>1, <2>2 DEF PreviewKept
  <2> QED BY <2>1, <2>2
<1>8. previews' = [p \in Previews |-> previews'[p]]
  BY <1>1
<1>9. /\ ledger' \in [Customers -> Seq(Entry)]
      /\ announced' \in [Customers -> [notices: Nat, pushes: SUBSET (Nat \ {0})]]
      /\ movements' = movements
  BY <1>1 DEF Inv, TypeOK
<1> HIDE DEF rows, scoped, x
<1>10. Continued(rows) /\ txns' \in [Transactions -> Transaction]
  BY <1>1, FinishTrims, RollBackContinues DEF Inv
<1> QED BY <1>2, <1>3, <1>4, <1>5, <1>6, <1>7, <1>8, <1>9, <1>10, OtherStep

\* A preview runs out.
LEMMA ExpirePreviewInv ==
    ASSUME Inv, NEW p \in Previews, ExpirePreview(p)
    PROVE  Inv'
<1>1. /\ previews[p].state # "unused"
      /\ previews' = [previews EXCEPT ![p].expired = TRUE]
      /\ UNCHANGED <<brandVars, live, cards, ledger, keys, announced, txns,
                     movements>>
  BY DEF ExpirePreview
<1>2. \A q \in Previews : PreviewKept(q, {})
  BY <1>1 DEF Inv, TypeOK, PreviewKept
<1>3. previews' = [q \in Previews |-> previews'[q]]
  BY <1>1 DEF Inv, TypeOK
<1>4. Continued({}) /\ txns' \in [Transactions -> Transaction]
  BY <1>1, SameContinues DEF Inv
<1>5. BenefitsPriced'
  BY <1>1 DEF Inv, BenefitsPriced, brandVars
<1> QED BY <1>1, <1>2, <1>3, <1>4, <1>5, OtherStep DEF Inv, TypeOK, brandVars

\* Retention removes a preview.
LEMMA PrunePreviewInv ==
    ASSUME Inv, NEW p \in Previews, PrunePreview(p)
    PROVE  Inv'
<1>1. /\ previews[p].state # "unused"
      /\ previews' = [previews EXCEPT ![p] = Gone]
      /\ txns' = RollBack(txns, {<<"preview", p>>})
      /\ UNCHANGED <<brandVars, live, cards, ledger, keys, announced, movements>>
  BY DEF PrunePreview
<1>2. \A q \in Previews : PreviewKept(q, {<<"preview", p>>})
  BY <1>1 DEF Inv, TypeOK, PreviewKept
<1>3. previews' = [q \in Previews |-> previews'[q]]
  BY <1>1 DEF Inv, TypeOK
<1>4. BenefitsPriced'
  BY <1>1 DEF Inv, BenefitsPriced, brandVars
<1>5. Continued({<<"preview", p>>}) /\ txns' \in [Transactions -> Transaction]
  BY <1>1, SameContinues, RollBackContinues DEF Inv
<1> QED BY <1>1, <1>2, <1>3, <1>4, <1>5, OtherStep DEF Inv, TypeOK, brandVars

\* Retention removes a key.
LEMMA PruneKeyInv ==
    ASSUME Inv, NEW k \in Keys, PruneKey(k)
    PROVE  Inv'
<1>1. /\ keys' = [keys EXCEPT ![k] = FreeKey]
      /\ UNCHANGED <<brandVars, live, cards, ledger, previews, announced, txns,
                     movements>>
  BY DEF PruneKey
<1>2. keys' \in [Keys -> KeyRow]
  BY <1>1, DefaultRowsTyped DEF Inv, TypeOK
<1>3. Continued({}) /\ txns' \in [Transactions -> Transaction]
  BY <1>1, SameContinues DEF Inv
<1>4. /\ previews' = [q \in Previews |-> previews'[q]]
      /\ \A q \in Previews : PreviewKept(q, {})
  BY <1>1, SamePreviews DEF Inv
<1>5. BenefitsPriced'
  BY <1>1 DEF Inv, BenefitsPriced, brandVars
<1> QED BY <1>1, <1>2, <1>3, <1>4, <1>5, OtherStep DEF Inv, TypeOK, brandVars

-----------------------------------------------------------------------------
(* The theorems *)

\* Every step, and no step, preserves the invariant.
LEMMA NextInv == Inv /\ [Next]_vars => Inv'
<1> SUFFICES ASSUME Inv, [Next]_vars PROVE Inv'
  OBVIOUS
<1>1. CASE Handlers
  BY <1>1, BeginPreviewInv, CommitPreviewInv, BeginConfirmInv, CommitConfirmInv,
     BeginReversalInv, CommitReversalInv, BeginErasureInv,
     CommitCustomerErasureInv, CommitStaffErasureInv, AbortInv DEF Handlers
<1>2. CASE Management
  BY <1>2, CreateBenefitInv, ReplaceBenefitInv, BenefitLapsesInv,
     UpdateProgramInv, SetBranchAccessInv, DeleteBrandInv, DeleteBranchInv DEF Management
<1>3. CASE Retention
  BY <1>3, ExpirePreviewInv, PrunePreviewInv, PruneKeyInv DEF Retention
<1>4. CASE UNCHANGED vars
  <2>1. /\ UNCHANGED <<program, brandOpen, branchOpen, access, live, authorized, benefits, cards>>
        /\ UNCHANGED <<ledger, previews, keys, announced, txns, movements>>
    BY <1>4 DEF vars
  <2>2. Continued({}) /\ txns' \in [Transactions -> Transaction]
    BY <2>1, SameContinues DEF Inv
  <2>3. /\ previews' = [p \in Previews |-> previews'[p]]
        /\ \A p \in Previews : PreviewKept(p, {})
    BY <2>1, SamePreviews DEF Inv
  <2>4. BenefitsPriced'
    BY <2>1 DEF Inv, BenefitsPriced
  <2> QED BY <2>1, <2>2, <2>3, <2>4, OtherStep DEF Inv, TypeOK
<1> QED BY <1>1, <1>2, <1>3, <1>4 DEF Next

\* The inductive invariant holds of every reachable state: in particular a
\* confirmation in progress still finds its preview open, at the
\* balance it read (the row lock ConfirmMovement takes on the preview).
THEOREM InductiveInvariant == Spec => []Inv
<1>1. Init => Inv
  BY InitInv
<1>2. Inv /\ [Next]_vars => Inv'
  BY NextInv
<1> QED BY <1>1, <1>2, PTL DEF Spec

\* Balances, versions and ledger rows stay natural numbers: no interleaving of
\* confirmations, reversals and closures takes a balance below zero (the CHECK
\* constraints of tarjetas and historial_movimientos never fire).
THEOREM TypeCorrect == Spec => []TypeOK
<1>1. Inv => TypeOK
  BY DEF Inv
<1> QED BY <1>1, InductiveInvariant, PTL

\* However many clients retry with however many keys, and whatever retention
\* and deletions remove meanwhile, a preview becomes at most one movement
\* (ConfirmMovement).
THEOREM PreviewConfirmedAtMostOnce == Spec => []OneMovementPerPreview
<1>1. Inv => OneMovementPerPreview
  BY DEF Inv
<1> QED BY <1>1, InductiveInvariant, PTL

-----------------------------------------------------------------------------
(* Part two: the inductive invariant of the books *)

\* Some benefit was configured: UpdateProgram no longer changes the type.
\* CreatePreview requires it, so whatever was previewed keeps its type.
Catalogued == \E b \in Benefits : benefits[b].state # "absent"

Amount == CreditAmounts \cup Requirements \cup {1}

\* What CreatePreview takes from the program and from the catalogue.
Offered(row) ==
    /\ Catalogued
    /\ row.type = program.type
    /\ row.amount \in Amount
    /\ row.kind = "CANJE" => row.benefit \in Benefits

PreviewsOffered ==
    \A p \in Previews :
        previews[p].state \in {"open", "consumed"} => Offered(previews[p])

MovementsOffered ==
    \A i \in 1..Len(movements) :
        /\ Catalogued
        /\ movements[i].type = program.type
        /\ movements[i].amount \in Amount

PreviewCurrent(x) ==
    /\ x.row.customer \in live
    /\ Offered(x.row)

ConfirmCurrent(x) ==
    LET row == previews[x.preview]
    IN  /\ x.actor \in live
        /\ row.customer \in live
        /\ brandOpen /\ program.active /\ access
        /\ row.kind = "ACUMULACION" => branchOpen
        /\ x.balance = cards[row.customer].balance[program.type]
        /\ row.kind = "CANJE" =>
              /\ benefits[row.benefit].requirement = row.amount
              /\ benefits[row.benefit].state \in {"active", "lapsed"}

ReversalCurrent(x) ==
    LET c == movements[x.movement].customer
    IN  /\ x.actor \in live
        /\ c \in live
        /\ x.balance = cards[c].balance[program.type]
        /\ Recorded(c, x.movement)
        /\ ~Reversed(c, x.movement)

\* No card appears behind an erasure's back, and a preview that does is not
\* confirmed while it is in progress.  An owner who does not take the brand
\* along leaves it to another.
ErasureCurrent(x) ==
    /\ x.actor \in Customers \cup Staff
    /\ \A c \in Customers : <<"card", c>> \notin x.missed
    /\ \A p \in Previews :
          /\ <<"preview", p>> \in x.missed
          /\ previews[p].customer = x.actor
          => previews[p].state = "open"
    /\ x.actor \in Managers /\ ~x.closes
          => ~brandOpen \/ \E s \in Managers \ {x.actor} : s \in live

Current ==
    \A t \in Transactions :
        /\ txns[t].kind = "preview" => PreviewCurrent(txns[t])
        /\ txns[t].kind = "confirm" => ConfirmCurrent(txns[t])
        /\ txns[t].kind = "reversal" => ReversalCurrent(txns[t])
        /\ txns[t].kind = "erasure" => ErasureCurrent(txns[t])

\* SetBranchAccess never touches an owner's membership.
OwnersReach ==
    brandOpen => \A s \in Managers : s \in live => s \in authorized

BooksInv ==
    /\ Inv
    /\ Current
    /\ PreviewsOffered
    /\ MovementsOffered
    /\ BalanceFollowsLedger
    /\ RowsAreJustified
    /\ EveryRowAnnouncedOnce
    /\ KeyReplaysItsMovement
    /\ DeletedCustomerLeavesNothing
    /\ OwnersReach
    /\ Managers # {} => NoOrphanBrand

-----------------------------------------------------------------------------
(* How a commit may treat the rows others rely on *)

SameTerms(p) ==
    /\ previews'[p].customer = previews[p].customer
    /\ previews'[p].kind = previews[p].kind
    /\ previews'[p].benefit = previews[p].benefit
    /\ previews'[p].type = previews[p].type
    /\ previews'[p].amount = previews[p].amount

\* A preview is inserted, left with its terms, removed, or consumed together
\* with a write to its customer's card.
PreviewWritten(p, rows) ==
    \/ previews[p].state = "unused" /\ previews'[p].state = "open"
    \/ SameTerms(p) /\ previews'[p].state = previews[p].state
    \/ <<"preview", p>> \in rows /\ previews'[p] = Gone
    \/ /\ <<"preview", p>> \in rows /\ <<"card", previews[p].customer>> \in rows
       /\ SameTerms(p)
       /\ previews[p].state = "open" /\ previews'[p].state = "consumed"

BenefitWritten(b, rows) ==
    \/ <<"benefit", b>> \in rows
    \/ <<"program">> \in rows
    \/ /\ benefits[b].state \in {"active", "lapsed"}
             => benefits'[b].state \in {"active", "lapsed"}
       /\ benefits'[b].requirement = benefits[b].requirement
    \/ benefits[b].state = "absent"

\* Whatever a request in progress may have read and the step changes is in
\* rows.
Written(rows) ==
    /\ Catalogued => Catalogued' /\ program'.type = program.type
    /\ \A a \in live : a \in live' \/ <<"user", a>> \in rows
    /\ \A c \in Customers \cap live : c \in live' \/ <<"card", c>> \in rows
    /\ \A c \in Customers :
          \/ <<"card", c>> \in rows
          \/ ledger'[c] = ledger[c] /\ cards'[c].balance = cards[c].balance
    /\ \/ <<"program">> \in rows
       \/ /\ program'.active = program.active
          /\ brandOpen' = brandOpen /\ access' = access
    /\ brandOpen' => brandOpen
    /\ branchOpen => branchOpen' \/ <<"branch">> \in rows
    /\ \A b \in Benefits : BenefitWritten(b, rows)
    /\ \A p \in Previews : PreviewWritten(p, rows)
    /\ Len(movements') \in Nat /\ Len(movements') >= Len(movements)
    /\ \A m \in 1..Len(movements) : movements'[m] = movements[m]

\* An erasure that goes on locks none of the rows that were written; what it
\* misses from now on is a benefit, a preview just made or a card just opened.
ErasuresContinue(rows) ==
    \A u \in Transactions :
        txns'[u].kind = "erasure" =>
            /\ txns[u].kind = "erasure"
            /\ txns'[u].actor = txns[u].actor /\ txns'[u].closes = txns[u].closes
            /\ Locks(txns'[u]) \cap rows = {}
            /\ \A c \in Customers : <<"card", c>> \in txns'[u].missed =>
                  \/ <<"card", c>> \in txns[u].missed
                  \/ <<"card", c>> \in rows /\ (txns[u].closes \/ txns[u].actor = c)
            /\ \A p \in Previews : <<"preview", p>> \in txns'[u].missed =>
                  \/ <<"preview", p>> \in txns[u].missed
                  \/ previews'[p].state = "open"

\* The rows each kind of request locks.
LEMMA LockedRows ==
    ASSUME NEW x
    PROVE  /\ x.kind = "preview" => <<"user", x.row.customer>> \in Locks(x)
           /\ x.kind = "confirm" =>
                 LET p == previews[x.preview]
                 IN  /\ {<<"preview", x.preview>>, <<"user", p.customer>>,
                         <<"user", x.actor>>, <<"program">>,
                         <<"card", p.customer>>} \subseteq Locks(x)
                     /\ p.kind = "CANJE" => <<"benefit", p.benefit>> \in Locks(x)
                     /\ p.kind # "CANJE" => <<"branch">> \in Locks(x)
           /\ x.kind = "reversal" =>
                 {<<"card", movements[x.movement].customer>>, <<"user", x.actor>>}
                    \subseteq Locks(x)
           /\ x.kind = "erasure" =>
                 /\ {<<"user", x.actor>>, <<"card", x.actor>>} \subseteq Locks(x)
                 /\ x.actor \in Managers =>
                       \A s \in Managers : <<"user", s>> \in Locks(x)
                 /\ x.closes => ClosedRows \subseteq Locks(x)
<1>1. x.kind = "preview" => <<"user", x.row.customer>> \in Locks(x)
  BY DEF Locks, PreviewLocks
<1>2. ASSUME x.kind = "confirm"
      PROVE  LET p == previews[x.preview]
             IN  /\ {<<"preview", x.preview>>, <<"user", p.customer>>,
                     <<"user", x.actor>>, <<"program">>,
                     <<"card", p.customer>>} \subseteq Locks(x)
                 /\ p.kind = "CANJE" => <<"benefit", p.benefit>> \in Locks(x)
                 /\ p.kind # "CANJE" => <<"branch">> \in Locks(x)
  BY <1>2 DEF Locks, ConfirmLocks, ConfirmRows
<1>3. x.kind = "reversal" =>
         {<<"card", movements[x.movement].customer>>, <<"user", x.actor>>}
            \subseteq Locks(x)
  BY DEF Locks, ReversalLocks
<1>4. ASSUME x.kind = "erasure"
      PROVE  /\ {<<"user", x.actor>>, <<"card", x.actor>>} \subseteq Locks(x)
             /\ x.actor \in Managers =>
                   \A s \in Managers : <<"user", s>> \in Locks(x)
             /\ x.closes => ClosedRows \subseteq Locks(x)
  <2>1. Locks(x) = ErasureLocks(x)
    BY <1>4 DEF Locks
  <2>2. {<<"user", x.actor>>, <<"card", x.actor>>} \subseteq Locks(x)
    BY <2>1 DEF ErasureLocks, ErasureRows
  <2>3. ASSUME x.actor \in Managers, NEW s \in Managers
        PROVE  <<"user", s>> \in Locks(x)
    BY <2>1, <2>3 DEF ErasureLocks, OwnerRows
  <2>4. x.closes => ClosedRows \subseteq Locks(x)
    BY <2>1 DEF ErasureLocks, ErasureRows
  <2> QED BY <2>2, <2>3, <2>4
<1> QED BY <1>1, <1>2, <1>3, <1>4

-----------------------------------------------------------------------------
(* What a request checked stays true until it commits or is rolled back *)

\* What CreatePreview read of the program and the catalogue outlives the step.
LEMMA OfferedStays ==
    ASSUME NEW rows, Written(rows), NEW row, Offered(row)
    PROVE  Offered(row)'
  BY DEF Written, Offered, Amount

\* A preview not rolled back still names a live customer (FOR SHARE on usuarios).
LEMMA PreviewStaysCurrent ==
    ASSUME NEW rows, Written(rows), NEW x, x.kind = "preview", PreviewCurrent(x),
           Locks(x) \cap rows = {}
    PROVE  PreviewCurrent(x)'
<1>1. <<"user", x.row.customer>> \notin rows
  BY LockedRows
<1>2. x.row.customer \in live' /\ Offered(x.row)'
  BY <1>1, OfferedStays DEF PreviewCurrent, Written
<1> QED BY <1>2 DEF PreviewCurrent, Offered, Amount

\* A confirmation not rolled back by a write to the rows it locks still finds them
\* as it read them, the brand and the demo access it does not lock included.
LEMMA ConfirmStaysCurrent ==
    ASSUME BooksInv, NEW rows, Written(rows), NEW x, x.kind = "confirm",
           ConfirmInFlight(x), ConfirmCurrent(x), Locks(x) \cap rows = {}
    PROVE  ConfirmCurrent(x)'
<1> DEFINE row == previews[x.preview]
<1>1. /\ <<"preview", x.preview>> \notin rows /\ <<"user", row.customer>> \notin rows
      /\ <<"user", x.actor>> \notin rows /\ <<"program">> \notin rows
      /\ <<"card", row.customer>> \notin rows
      /\ row.kind = "CANJE" => <<"benefit", row.benefit>> \notin rows
      /\ row.kind # "CANJE" => <<"branch">> \notin rows
  BY LockedRows
<1>2. x.preview \in Previews /\ row.state = "open"
  BY DEF ConfirmInFlight
<1>3. SameTerms(x.preview)
  BY <1>1, <1>2 DEF Written, PreviewWritten
<1>4. row.customer \in Customers /\ Offered(row)
  BY <1>2 DEF BooksInv, Inv, PreviewsFilled, Filled, PreviewsOffered
<1>5. program'.type = program.type
  BY <1>4 DEF Offered, Written
<1>6. x.actor \in live' /\ row.customer \in live'
  BY <1>1 DEF ConfirmCurrent, Written
<1>7. brandOpen' /\ program'.active /\ access'
  BY <1>1 DEF ConfirmCurrent, Written
<1>8. x.balance = cards'[row.customer].balance[program'.type]
  BY <1>1, <1>4, <1>5 DEF ConfirmCurrent, Written
<1>9. row.kind = "CANJE" =>
         /\ benefits'[row.benefit].requirement = row.amount
         /\ benefits'[row.benefit].state \in {"active", "lapsed"}
  BY <1>1, <1>4 DEF ConfirmCurrent, Written, BenefitWritten, Offered
<1>10. row.kind = "ACUMULACION" => branchOpen'
  BY <1>1 DEF ConfirmCurrent, Written
<1> QED BY <1>3, <1>6, <1>7, <1>8, <1>9, <1>10 DEF ConfirmCurrent, SameTerms

\* A reversal not rolled back still finds its card's balance and its movement
\* recorded and not reversed (FOR UPDATE on tarjetas).
LEMMA ReversalStaysCurrent ==
    ASSUME BooksInv, NEW rows, Written(rows), NEW x, x.kind = "reversal",
           ReversalInFlight(x), ReversalCurrent(x), Locks(x) \cap rows = {}
    PROVE  ReversalCurrent(x)'
<1> DEFINE c == movements[x.movement].customer
<1>1. <<"card", c>> \notin rows /\ <<"user", x.actor>> \notin rows
  BY LockedRows
<1>2. x.movement \in 1..Len(movements)
  BY DEF ReversalInFlight
<1>3. c \in Customers
  BY <1>2, MovementsTyped, MovementFields DEF BooksInv, Inv
<1>4. movements'[x.movement] = movements[x.movement]
  BY <1>2 DEF Written
<1>5. ledger'[c] = ledger[c] /\ cards'[c].balance = cards[c].balance
  BY <1>1, <1>3 DEF Written
<1>6. program'.type = program.type
  BY <1>2 DEF Written, BooksInv, MovementsOffered
<1>7. x.actor \in live'
  BY <1>1 DEF ReversalCurrent, Written
<1>8. c \in live'
  BY <1>1, <1>3 DEF ReversalCurrent, Written
<1>9. (Recorded(c, x.movement) /\ ~Reversed(c, x.movement))'
  BY <1>4, <1>5 DEF ReversalCurrent, Recorded, Reversed
<1> QED BY <1>4, <1>5, <1>6, <1>7, <1>8, <1>9 DEF ReversalCurrent

\* An erasure still has every card in sight, and leaves its brand to another owner.
LEMMA ErasureStaysCurrent ==
    ASSUME BooksInv, NEW rows, Written(rows), ErasuresContinue(rows),
           NEW u \in Transactions, txns'[u].kind = "erasure"
    PROVE  ErasureCurrent(txns[u])'
<1> DEFINE x == txns[u]
           y == txns'[u]
<1>1. /\ x.kind = "erasure" /\ y.actor = x.actor /\ y.closes = x.closes
      /\ Locks(y) \cap rows = {}
  BY DEF ErasuresContinue
<1>2. ErasureCurrent(x)
  BY <1>1 DEF BooksInv, Current
<1>3. /\ <<"card", x.actor>> \notin rows
      /\ x.actor \in Managers => \A s \in Managers : <<"user", s>> \notin rows
      /\ x.closes => ClosedRows \cap rows = {}
  <2>1. /\ {<<"user", y.actor>>, <<"card", y.actor>>} \subseteq Locks(y)
        /\ y.actor \in Managers => \A s \in Managers : <<"user", s>> \in Locks(y)
        /\ y.closes => ClosedRows \subseteq Locks(y)
    BY LockedRows
  <2> QED BY <1>1, <2>1
<1>4. ASSUME NEW c \in Customers, <<"card", c>> \in y.missed
      PROVE  FALSE
  <2>1. <<"card", c>> \in ClosedRows
    BY DEF ClosedRows
  <2>2. <<"card", c>> \in rows /\ (x.closes \/ x.actor = c)
    BY <1>2, <1>4 DEF ErasuresContinue, ErasureCurrent
  <2> QED BY <1>3, <2>1, <2>2
<1>5. ASSUME NEW p \in Previews, <<"preview", p>> \in y.missed,
             previews'[p].customer = x.actor
      PROVE  previews'[p].state = "open"
  <2> SUFFICES ASSUME <<"preview", p>> \in x.missed
               PROVE  previews'[p].state = "open"
    BY <1>5 DEF ErasuresContinue
  <2>1. PreviewWritten(p, rows)
    BY DEF Written
  <2>2. CASE previews[p].state = "unused" /\ previews'[p].state = "open"
    BY <2>2
  <2>3. CASE SameTerms(p) /\ previews'[p].state = previews[p].state
    BY <1>2, <1>5, <2>3 DEF ErasureCurrent, SameTerms
  <2>4. CASE previews'[p] = Gone
    BY <1>2, <1>5, <2>4, NoneIsNoId, AccountsDisjoint
       DEF Gone, NoPreview, ErasureCurrent
  <2>5. CASE <<"card", previews[p].customer>> \in rows /\ SameTerms(p)
    BY <1>3, <1>5, <2>5 DEF SameTerms
  <2> QED BY <2>1, <2>2, <2>3, <2>4, <2>5 DEF PreviewWritten
<1>6. ASSUME x.actor \in Managers, ~x.closes
      PROVE  ~brandOpen' \/ \E s \in Managers \ {x.actor} : s \in live'
  BY <1>2, <1>3, <1>6 DEF ErasureCurrent, Written
<1> QED BY <1>1, <1>2, <1>4, <1>5, <1>6 DEF ErasureCurrent

\* The four together: Written is all a commit owes to the requests in progress.
LEMMA StaysCurrent ==
    ASSUME BooksInv, NEW rows, Written(rows), Continued(rows), ErasuresContinue(rows)
    PROVE  Current'
<1>1. ASSUME NEW u \in Transactions, txns'[u].kind \notin {"idle", "erasure"}
      PROVE  txns'[u] = txns[u] /\ Locks(txns[u]) \cap rows = {}
  BY <1>1 DEF Continued
<1>2. ASSUME NEW u \in Transactions, txns'[u].kind = "preview"
      PROVE  PreviewCurrent(txns[u])'
  <2>1. txns'[u] = txns[u] /\ Locks(txns[u]) \cap rows = {}
    BY <1>1, <1>2
  <2>2. PreviewCurrent(txns[u])
    BY <1>2, <2>1 DEF BooksInv, Current
  <2>3. \A x : x = txns[u] => PreviewCurrent(x)'
    BY <1>2, <2>1, <2>2, PreviewStaysCurrent
  <2> QED BY <2>1, <2>3 DEF PreviewCurrent
<1>3. ASSUME NEW u \in Transactions, txns'[u].kind = "confirm"
      PROVE  ConfirmCurrent(txns[u])'
  <2>1. txns'[u] = txns[u] /\ Locks(txns[u]) \cap rows = {}
    BY <1>1, <1>3
  <2>2. ConfirmCurrent(txns[u]) /\ ConfirmInFlight(txns[u])
    BY <1>3, <2>1 DEF BooksInv, Current, Inv, InFlight
  <2>3. \A x : x = txns[u] => ConfirmCurrent(x)'
    BY <1>3, <2>1, <2>2, ConfirmStaysCurrent
  <2> QED BY <2>1, <2>3 DEF ConfirmCurrent
<1>4. ASSUME NEW u \in Transactions, txns'[u].kind = "reversal"
      PROVE  ReversalCurrent(txns[u])'
  <2>1. txns'[u] = txns[u] /\ Locks(txns[u]) \cap rows = {}
    BY <1>1, <1>4
  <2>2. ReversalCurrent(txns[u]) /\ ReversalInFlight(txns[u])
    BY <1>4, <2>1 DEF BooksInv, Current, Inv, InFlight
  <2>3. \A x : x = txns[u] => ReversalCurrent(x)'
    BY <1>4, <2>1, <2>2, ReversalStaysCurrent
  <2> QED BY <2>1, <2>3 DEF ReversalCurrent
<1> QED BY <1>2, <1>3, <1>4, ErasureStaysCurrent DEF Current

-----------------------------------------------------------------------------
(* How the transactions in progress come out of a step *)

\* An erasure whose missed rows grew by nothing.
LEMMA SameErasures ==
    ASSUME txns' = txns
    PROVE  ErasuresContinue({})
  BY DEF ErasuresContinue

\* Among the transactions before the rollback, those that had missed row.
MissedOne(ts, row, accounts) ==
    \A u \in Transactions : ts[u].kind = "erasure" =>
        /\ txns[u].kind = "erasure"
        /\ ts[u].actor = txns[u].actor /\ ts[u].closes = txns[u].closes
        /\ \/ ts[u].missed = txns[u].missed
           \/ /\ ts[u].missed = txns[u].missed \cup {row}
              /\ txns[u].closes \/ txns[u].actor \in accounts

\* A commit adds at most its own insert to what the erasures in progress missed.
LEMMA FinishMisses ==
    ASSUME TypeOK, NEW t \in Transactions, NEW row, NEW accounts
    PROVE  /\ MissedOne(Finish(t), row, accounts)
           /\ MissedOne(Miss(Finish(t), row, accounts), row, accounts)
           /\ MissedOne(txns, row, accounts)
           /\ MissedOne(Miss(txns, row, accounts), row, accounts)
<1>1. ASSUME NEW ts, ts = txns \/ ts = Finish(t), NEW u \in Transactions,
             ts[u].kind = "erasure"
      PROVE  ts[u] = txns[u] /\ ts[u] \in Transaction
  BY <1>1, DefaultRowsTyped DEF TypeOK, Finish
<1>2. ASSUME NEW ts, ts = txns \/ ts = Finish(t), NEW u \in Transactions,
             Miss(ts, row, accounts)[u].kind = "erasure"
      PROVE  /\ txns[u].kind = "erasure"
             /\ Miss(ts, row, accounts)[u].actor = txns[u].actor
             /\ Miss(ts, row, accounts)[u].closes = txns[u].closes
             /\ \/ Miss(ts, row, accounts)[u].missed = txns[u].missed
                \/ /\ Miss(ts, row, accounts)[u].missed = txns[u].missed \cup {row}
                   /\ txns[u].closes \/ txns[u].actor \in accounts
  <2> DEFINE later == [ts[u] EXCEPT !.missed = ts[u].missed \cup {row}]
  <2>1. ts[u].kind = "erasure"
    <3>1. CASE ts[u].kind = "erasure"
      BY <3>1
    <3>2. CASE ts[u].kind # "erasure"
      BY <1>2, <3>2 DEF Miss
    <3> QED BY <3>1, <3>2
  <2>2. ts[u] = txns[u] /\ ts[u] \in Transaction
    BY <1>1, <1>2, <2>1
  <2>3. /\ later.kind = "erasure" /\ later.actor = ts[u].actor
        /\ later.closes = ts[u].closes /\ later.missed = ts[u].missed \cup {row}
    BY <2>1, <2>2 DEF Transaction
  <2>4. \/ Miss(ts, row, accounts)[u] = ts[u]
        \/ /\ Miss(ts, row, accounts)[u] = later
           /\ ts[u].closes \/ ts[u].actor \in accounts
    BY DEF Miss
  <2> HIDE DEF later
  <2> QED BY <2>1, <2>2, <2>3, <2>4
<1> QED BY <1>1, <1>2 DEF MissedOne

\* Erasures after a step that wrote rows and inserted row behind their back.
LEMMA MissedContinue ==
    ASSUME NEW ts, NEW row, NEW accounts, MissedOne(ts, row, accounts), NEW rows,
           txns' = RollBack(ts, rows) \/ (txns' = ts /\ rows = {}),
           \A c \in Customers : row = <<"card", c>> => row \in rows /\ accounts = {c},
           \A p \in Previews : row = <<"preview", p>> => previews'[p].state = "open"
    PROVE  ErasuresContinue(rows)
<1> SUFFICES ASSUME NEW u \in Transactions, txns'[u].kind = "erasure"
             PROVE  /\ txns[u].kind = "erasure"
                    /\ txns'[u].actor = txns[u].actor
                    /\ txns'[u].closes = txns[u].closes
                    /\ Locks(txns'[u]) \cap rows = {}
                    /\ \A c \in Customers : <<"card", c>> \in txns'[u].missed =>
                          \/ <<"card", c>> \in txns[u].missed
                          \/ /\ <<"card", c>> \in rows
                             /\ txns[u].closes \/ txns[u].actor = c
                    /\ \A p \in Previews : <<"preview", p>> \in txns'[u].missed =>
                          \/ <<"preview", p>> \in txns[u].missed
                          \/ previews'[p].state = "open"
  BY DEF ErasuresContinue
<1>1. txns'[u] = ts[u] /\ Locks(txns'[u]) \cap rows = {}
  BY DEF RollBack, Idle
<1> QED BY <1>1 DEF MissedOne

\* A rollback that no insert goes with.
LEMMA RollBackErasures ==
    ASSUME TypeOK, NEW t \in Transactions, NEW ts, ts = txns \/ ts = Finish(t),
           NEW rows, txns' = RollBack(ts, rows)
    PROVE  ErasuresContinue(rows)
<1>1. MissedOne(ts, <<"brand">>, {})
  BY FinishMisses
<1>2. /\ \A c \in Customers : <<"brand">> # <<"card", c>>
      /\ \A p \in Previews : <<"brand">> # <<"preview", p>>
  OBVIOUS
<1> QED BY <1>1, <1>2, MissedContinue

\* Rolling others back hides no insert from the ones that stay.
LEMMA RollBackAlone ==
    ASSUME TypeOK, NEW rows, txns' = RollBack(txns, rows)
    PROVE  ErasuresContinue(rows)
  BY RollBackErasures DEF ErasuresContinue

-----------------------------------------------------------------------------
(* What a row in a card's ledger changes: Post *)

\* A card's rows are entries of movements.
LEMMA LedgerTyped ==
    ASSUME TypeOK, NEW c \in Customers
    PROVE  /\ ledger[c] \in Seq(Entry)
           /\ Len(ledger[c]) \in Nat
           /\ \A i \in 1..Len(ledger[c]) :
                 /\ ledger[c][i] \in Entry
                 /\ ledger[c][i].before \in Nat /\ ledger[c][i].after \in Nat
<1>1. ledger[c] \in Seq(Entry)
  BY DEF TypeOK
<1>2. \A i \in 1..Len(ledger[c]) : ledger[c][i] \in Entry
  BY <1>1, ElementOfSeq
<1> QED BY <1>1, <1>2, LenProperties DEF Entry

\* The row is the last of its card's ledger, and the card shows its balance.
Posted(c, m, kind, type, before, after) ==
    LET n == Len(ledger[c])
    IN  /\ \A d \in Customers \ {c} : cards'[d] = cards[d] /\ ledger'[d] = ledger[d]
        /\ cards'[c].balance[type] = after
        /\ \A u \in Types \ {type} : cards'[c].balance[u] = cards[c].balance[u]
        /\ n \in Nat /\ Len(ledger'[c]) = n + 1
        /\ \A i \in 1..n : ledger'[c][i] = ledger[c][i]
        /\ ledger'[c][n + 1] = [movement |-> m, kind |-> kind,
                                before |-> before, after |-> after]

\* Post adds one row to one card's history and moves its balance to the row's end
\* (updateCard and insertMovement write in one transaction).
LEMMA PostAppends ==
    ASSUME TypeOK, NEW c \in Customers, NEW m, NEW kind, NEW type \in Types,
           NEW before, NEW after, m \in Nat \ {0}, kind \in Kinds \cup {"REVERSAL"},
           before \in Nat, after \in Nat, Post(c, m, kind, type, before, after)
    PROVE  Posted(c, m, kind, type, before, after)
<1> DEFINE entry == [movement |-> m, kind |-> kind, before |-> before, after |-> after]
           card == [state |-> "active",
                    balance |-> [cards[c].balance EXCEPT ![type] = after],
                    version |-> (IF cards[c].state = "none"
                                 THEN 1 ELSE cards[c].version) + 1]
<1>1. /\ cards' = [cards EXCEPT ![c] = card]
      /\ ledger' = [ledger EXCEPT ![c] = Append(ledger[c], entry)]
  BY DEF Post
<1>2. /\ cards \in [Customers -> CardRow] /\ ledger \in [Customers -> Seq(Entry)]
      /\ cards[c].balance \in [Types -> Nat]
  BY DEF TypeOK, CardRow
<1>3. entry \in Entry
  BY DEF Entry
<1>4. \A d \in Customers \ {c} : cards'[d] = cards[d] /\ ledger'[d] = ledger[d]
  BY <1>1, <1>2
<1>5. cards'[c].balance = [cards[c].balance EXCEPT ![type] = after]
  BY <1>1, <1>2
<1>6. /\ cards'[c].balance[type] = after
      /\ \A u \in Types \ {type} : cards'[c].balance[u] = cards[c].balance[u]
  BY <1>2, <1>5
<1>7. ledger[c] \in Seq(Entry) /\ ledger'[c] = Append(ledger[c], entry)
  BY <1>1, <1>2
<1> HIDE DEF entry, card
<1>8. /\ Len(ledger[c]) \in Nat /\ Len(ledger'[c]) = Len(ledger[c]) + 1
      /\ \A i \in 1..Len(ledger[c]) : ledger'[c][i] = ledger[c][i]
      /\ ledger'[c][Len(ledger[c]) + 1] = entry
  BY <1>3, <1>7, AppendProperties, LenProperties
<1> QED BY <1>4, <1>6, <1>8 DEF entry, Posted

\* The new row starts from the balance the card showed.
LEMMA PostKeepsBalance ==
    ASSUME TypeOK, BalanceFollowsLedger,
           NEW c \in Customers, NEW m, NEW kind, NEW before, NEW after,
           m \in Nat \ {0}, kind \in Kinds \cup {"REVERSAL"},
           before \in Nat, after \in Nat,
           before = cards[c].balance[program.type],
           Post(c, m, kind, program.type, before, after),
           program'.type = program.type
    PROVE  BalanceFollowsLedger'
<1> SUFFICES ASSUME NEW d \in Customers
             PROVE  /\ \A i \in 1..Len(ledger'[d]) :
                         ledger'[d][i].before =
                            IF i = 1 THEN 0 ELSE ledger'[d][i-1].after
                    /\ cards'[d].balance[program'.type] = LastAfter(d)'
                    /\ \A type \in Types \ {program'.type} :
                         cards'[d].balance[type] = 0
  BY DEF BalanceFollowsLedger
<1>1. program.type \in Types
  BY DEF TypeOK
<1>2. /\ \A i \in 1..Len(ledger[d]) :
            ledger[d][i].before = IF i = 1 THEN 0 ELSE ledger[d][i-1].after
      /\ cards[d].balance[program.type] = LastAfter(d)
      /\ \A type \in Types \ {program.type} : cards[d].balance[type] = 0
  BY DEF BalanceFollowsLedger
<1>p. /\ \A e \in Customers \ {c} : cards'[e] = cards[e] /\ ledger'[e] = ledger[e]
      /\ cards'[c].balance[program.type] = after
      /\ \A u \in Types \ {program.type} : cards'[c].balance[u] = cards[c].balance[u]
      /\ Len(ledger[c]) \in Nat /\ Len(ledger'[c]) = Len(ledger[c]) + 1
      /\ \A i \in 1..Len(ledger[c]) : ledger'[c][i] = ledger[c][i]
      /\ ledger'[c][Len(ledger[c]) + 1].before = before
      /\ ledger'[c][Len(ledger[c]) + 1].after = after
  <2>1. Posted(c, m, kind, program.type, before, after)
    BY <1>1, PostAppends
  <2> QED BY <2>1 DEF Posted
<1>3. CASE d # c
  <2>1. cards'[d] = cards[d] /\ ledger'[d] = ledger[d]
    BY <1>3, <1>p
  <2> QED BY <1>2, <2>1 DEF LastAfter
<1>4. CASE d = c
  <2> DEFINE n == Len(ledger[c])
  <2>1. /\ cards'[c].balance[program.type] = after
        /\ \A u \in Types \ {program.type} :
              cards'[c].balance[u] = cards[c].balance[u]
        /\ n \in Nat /\ Len(ledger'[c]) = n + 1
        /\ \A i \in 1..n : ledger'[c][i] = ledger[c][i]
        /\ ledger'[c][n + 1].before = before
        /\ ledger'[c][n + 1].after = after
    BY <1>p
  <2>2. before = IF n = 0 THEN 0 ELSE ledger[c][n].after
    <3>1. ledger[c] = <<>> <=> n = 0
      BY LedgerTyped, EmptySeq
    <3> QED BY <1>2, <1>4, <3>1 DEF LastAfter
  <2> HIDE DEF n
  <2>3. ASSUME NEW i \in 1..(n + 1)
        PROVE  ledger'[c][i].before =
                  IF i = 1 THEN 0 ELSE ledger'[c][i-1].after
    <3>1. CASE i = n + 1
      BY <2>1, <2>2, <3>1
    <3>2. CASE i # n + 1
      <4>1. i \in 1..n /\ (i # 1 => i - 1 \in 1..n)
        BY <2>1, <3>2
      <4>2. ledger[c][i].before = IF i = 1 THEN 0 ELSE ledger[c][i-1].after
        BY <1>2, <1>4, <4>1 DEF n
      <4> QED BY <2>1, <4>1, <4>2
    <3> QED BY <3>1, <3>2
  <2>4. LastAfter(c)' = after
    <3>1. ledger'[c] # <<>>
      BY <2>1
    <3> QED BY <2>1, <3>1 DEF LastAfter
  <2> QED BY <1>2, <1>4, <2>1, <2>3, <2>4
<1> QED BY <1>3, <1>4

\* The history of movements only grows.
MovementsGrow ==
    /\ Len(movements) \in Nat /\ Len(movements') \in Nat
    /\ Len(movements') >= Len(movements)
    /\ \A i \in 1..Len(movements) : movements'[i] = movements[i]

\* A row stays justified while the rows up to it stay.
LEMMA RowStaysJustified ==
    ASSUME MovementsGrow, NEW c \in Customers, NEW i \in Nat, RowIsJustified(c, i),
           \A j \in 1..i : ledger'[c][j] = ledger[c][j], i >= 1
    PROVE  RowIsJustified(c, i)'
<1> DEFINE e == ledger[c][i]
<1>1. e.movement \in 1..Len(movements)
  BY DEF RowIsJustified
<1>2. /\ e.movement \in 1..Len(movements')
      /\ movements'[e.movement] = movements[e.movement]
  BY <1>1 DEF MovementsGrow
<1>3. \A j \in 1..(i-1) : ledger'[c][j] = ledger[c][j]
  OBVIOUS
<1>4. ledger'[c][i] = e
  OBVIOUS
<1> HIDE DEF e
<1>5. (Change(e))' = Change(e) /\ Change(ledger'[c][i]) = Change(e)
  BY <1>4 DEF Change, e
<1> QED BY <1>2, <1>3, <1>4, <1>5 DEF RowIsJustified, e, Change

\* What a new row for movement m must satisfy.
Justified(c, m, kind, before, after) ==
    LET move == movements'[m]
    IN  /\ m \in 1..Len(movements')
        /\ move.customer = c
        /\ IF kind = "REVERSAL"
           THEN /\ after - before = IF move.kind = "CANJE" THEN move.amount
                                                           ELSE -move.amount
                /\ \E j \in 1..Len(ledger[c]) : /\ ledger[c][j].movement = m
                                                /\ ledger[c][j].kind = move.kind
                /\ ~Reversed(c, m)
           ELSE /\ kind = move.kind
                /\ after - before = IF move.kind = "CANJE" THEN -move.amount
                                                           ELSE move.amount
                /\ ~Recorded(c, m)

\* A justified row after justified rows keeps the history justified.
LEMMA PostKeepsJustified ==
    ASSUME TypeOK, RowsAreJustified, MovementsGrow, NEW c \in Customers,
           NEW m, NEW kind, NEW type, NEW before, NEW after,
           Posted(c, m, kind, type, before, after),
           Justified(c, m, kind, before, after)
    PROVE  RowsAreJustified'
<1> DEFINE n == Len(ledger[c])
<1>1. /\ \A d \in Customers \ {c} : ledger'[d] = ledger[d]
      /\ n \in Nat /\ Len(ledger'[c]) = n + 1
      /\ \A i \in 1..n : ledger'[c][i] = ledger[c][i]
      /\ ledger'[c][n + 1] = [movement |-> m, kind |-> kind,
                              before |-> before, after |-> after]
  BY DEF Posted
<1>2. \A d \in Customers : Len(ledger[d]) \in Nat
  BY LedgerTyped
<1> HIDE DEF n
<1>3. ASSUME NEW d \in Customers, NEW i \in 1..Len(ledger'[d])
      PROVE  RowIsJustified(d, i)'
  <2>1. CASE d # c
    <3>1. ledger'[d] = ledger[d] /\ RowIsJustified(d, i) /\ i \in Nat /\ i >= 1
      BY <1>1, <1>2, <2>1 DEF RowsAreJustified
    <3> QED BY <3>1, RowStaysJustified
  <2>2. CASE d = c /\ i # n + 1
    <3>1. i \in 1..n /\ \A j \in 1..i : j \in 1..n
      BY <1>1, <2>2
    <3>2. RowIsJustified(d, i) /\ i \in Nat /\ i >= 1
      BY <2>2, <3>1 DEF RowsAreJustified, n
    <3>3. \A j \in 1..i : ledger'[d][j] = ledger[d][j]
      BY <1>1, <2>2, <3>1
    <3> QED BY <3>2, <3>3, RowStaysJustified
  <2>3. CASE d = c /\ i = n + 1
    <3>1. /\ ledger'[d][i].movement = m /\ ledger'[d][i].kind = kind
          /\ Change(ledger'[d][i]) = after - before
      BY <1>1, <2>3 DEF Change
    <3>2. \A j \in 1..n : j \in 1..(i - 1) /\ ledger'[d][j] = ledger[c][j]
      BY <1>1, <2>3
    <3>3. kind = "REVERSAL" =>
             \E j \in 1..(i - 1) : /\ ledger'[d][j].movement = m
                                   /\ ledger'[d][j].kind = movements'[m].kind
      BY <3>2 DEF Justified, n
    <3> QED BY <2>3, <3>1, <3>3 DEF RowIsJustified, Justified, Change
  <2> QED BY <2>1, <2>2, <2>3
<1>4. ASSUME NEW d \in Customers, NEW i \in 1..Len(ledger'[d]),
             NEW j \in 1..Len(ledger'[d]),
             ledger'[d][i].movement = ledger'[d][j].movement,
             (ledger'[d][i].kind = "REVERSAL") = (ledger'[d][j].kind = "REVERSAL")
      PROVE  i = j
  <2>1. CASE d # c
    BY <1>1, <1>4, <2>1 DEF RowsAreJustified
  <2>2. CASE d = c /\ i # n + 1 /\ j # n + 1
    <3>1. i \in 1..n /\ j \in 1..n
      BY <1>1, <2>2
    <3>2. ledger'[d][i] = ledger[d][i] /\ ledger'[d][j] = ledger[d][j]
      BY <1>1, <2>2, <3>1
    <3> QED BY <1>4, <2>2, <3>1, <3>2 DEF RowsAreJustified, n
  <2>3. ASSUME NEW k \in 1..n,
               ledger[c][k].movement = m,
               (ledger[c][k].kind = "REVERSAL") = (kind = "REVERSAL")
        PROVE  FALSE
    BY <2>3 DEF Justified, Recorded, Reversed, n
  <2>4. CASE d = c /\ i = n + 1 /\ j # n + 1
    <3>1. j \in 1..n /\ ledger'[d][j] = ledger[c][j]
      BY <1>1, <2>4
    <3> QED BY <1>1, <1>4, <2>3, <2>4, <3>1
  <2>5. CASE d = c /\ i # n + 1 /\ j = n + 1
    <3>1. i \in 1..n /\ ledger'[d][i] = ledger[c][i]
      BY <1>1, <2>5
    <3> QED BY <1>1, <1>4, <2>3, <2>5, <3>1
  <2> QED BY <2>1, <2>2, <2>4, <2>5
<1> QED BY <1>3, <1>4 DEF RowsAreJustified

\* A row is announced with the commit that writes it, and queues a push unless
\* it is a reversal.
LEMMA PostAnnounces ==
    ASSUME TypeOK, EveryRowAnnouncedOnce, NEW c \in Customers,
           NEW m, NEW kind, NEW type, NEW before, NEW after,
           Posted(c, m, kind, type, before, after),
           announced' = Announced(c, IF kind = "REVERSAL" THEN {} ELSE {m})
    PROVE  EveryRowAnnouncedOnce'
<1> DEFINE n == Len(ledger[c])
           queued == IF kind = "REVERSAL" THEN {} ELSE {m}
           Pushed(d) == {ledger[d][i].movement :
                           i \in {j \in 1..Len(ledger[d]) :
                                    ledger[d][j].kind # "REVERSAL"}}
<1>1. /\ \A d \in Customers \ {c} : ledger'[d] = ledger[d]
      /\ n \in Nat /\ Len(ledger'[c]) = n + 1
      /\ \A i \in 1..n : ledger'[c][i] = ledger[c][i]
      /\ ledger'[c][n + 1].movement = m /\ ledger'[c][n + 1].kind = kind
  BY DEF Posted
<1>2. /\ announced'[c].notices = announced[c].notices + 1
      /\ announced'[c].pushes = announced[c].pushes \cup queued
      /\ \A d \in Customers \ {c} : announced'[d] = announced[d]
  BY DEF Announced, TypeOK
<1>3. \A d \in Customers : /\ announced[d].notices = Len(ledger[d])
                           /\ announced[d].pushes = Pushed(d)
  BY DEF EveryRowAnnouncedOnce
<1>4. Pushed(c)' = Pushed(c) \cup queued
  <2>1. ASSUME NEW x \in Pushed(c) \cup queued
        PROVE  x \in Pushed(c)'
    <3>1. CASE x \in Pushed(c)
      <4>1. PICK i \in 1..n : ledger[c][i].kind # "REVERSAL" /\ x = ledger[c][i].movement
        BY <3>1
      <4>2. /\ i \in 1..(n + 1)
            /\ ledger'[c][i].kind # "REVERSAL" /\ x = ledger'[c][i].movement
        BY <1>1, <4>1
      <4> QED BY <1>1, <4>2
    <3>2. CASE x \in queued
      BY <1>1, <3>2
    <3> QED BY <2>1, <3>1, <3>2
  <2>2. ASSUME NEW x \in Pushed(c)'
        PROVE  x \in Pushed(c) \cup queued
    <3>1. PICK i \in 1..(n + 1) : /\ ledger'[c][i].kind # "REVERSAL"
                                  /\ x = ledger'[c][i].movement
      BY <1>1, <2>2
    <3>2. CASE i = n + 1
      BY <1>1, <3>1, <3>2
    <3>3. CASE i # n + 1
      <4>1. i \in 1..n
        BY <1>1, <3>3
      <4> QED BY <1>1, <3>1, <4>1
    <3> QED BY <3>2, <3>3
  <2> QED BY <2>1, <2>2
<1> SUFFICES ASSUME NEW d \in Customers
             PROVE  /\ announced'[d].notices = Len(ledger'[d])
                    /\ announced'[d].pushes = Pushed(d)'
  BY DEF EveryRowAnnouncedOnce
<1>5. CASE d # c
  <2>1. ledger'[d] = ledger[d] /\ announced'[d] = announced[d]
    BY <1>1, <1>2, <1>5
  <2>2. Pushed(d)' = Pushed(d)
    BY <2>1
  <2> QED BY <1>3, <2>1, <2>2
<1>6. CASE d = c
  <2>1. announced'[c].pushes = Pushed(c)'
    BY <1>2, <1>3, <1>4
  <2>2. announced'[c].notices = Len(ledger'[c])
    BY <1>1, <1>2, <1>3
  <2> QED BY <1>6, <2>1, <2>2
<1> QED BY <1>5, <1>6

-----------------------------------------------------------------------------
(* What stays true of the rows a step does not write *)

\* Previews and movements stay on the terms of the program they were made under.
LEMMA TermsStayOffered ==
    ASSUME BooksInv, NEW rows, Written(rows),
           \A p \in Previews :
              previews[p].state = "unused" /\ previews'[p].state = "open"
              => Offered(previews[p])'
    PROVE  PreviewsOffered'
<1> SUFFICES ASSUME NEW p \in Previews, previews'[p].state \in {"open", "consumed"}
             PROVE  Offered(previews[p])'
  BY DEF PreviewsOffered, Offered, Amount
<1>1. PreviewWritten(p, rows)
  BY DEF Written
<1>2. CASE previews[p].state = "unused" /\ previews'[p].state = "open"
  BY <1>2
<1>3. CASE SameTerms(p) /\ previews[p].state \in {"open", "consumed"}
  <2>1. Offered(previews[p])
    BY <1>3 DEF BooksInv, PreviewsOffered
  <2>2. Catalogued' /\ program'.type = program.type
    BY <2>1 DEF Offered, Written
  <2> QED BY <1>3, <2>1, <2>2 DEF Offered, SameTerms, Amount
<1>4. CASE previews'[p] = Gone
  BY <1>4, DefaultRowsTyped
<1> QED BY <1>1, <1>2, <1>3, <1>4 DEF PreviewWritten

\* The program's type matters to nothing while it may still change.
LEMMA SameBooks ==
    ASSUME BooksInv, NEW rows, Written(rows),
           program'.type # program.type => \A c \in Customers : ledger[c] = <<>>,
           program'.type \in Types,
           \A c \in Customers : cards'[c].balance = cards[c].balance,
           UNCHANGED <<ledger, announced, movements>>
    PROVE  /\ BalanceFollowsLedger' /\ RowsAreJustified' /\ EveryRowAnnouncedOnce'
           /\ MovementsOffered'
<1>1. RowsAreJustified' /\ EveryRowAnnouncedOnce'
  BY DEF BooksInv, RowsAreJustified, RowIsJustified, EveryRowAnnouncedOnce
<1>2. MovementsOffered'
  BY DEF BooksInv, MovementsOffered, Written
<1>3. BalanceFollowsLedger'
  <2>1. CASE program'.type = program.type
    BY <2>1 DEF BooksInv, BalanceFollowsLedger, LastAfter
  <2>2. CASE program'.type # program.type
    <3> SUFFICES ASSUME NEW c \in Customers
                 PROVE  /\ Len(ledger[c]) = 0
                        /\ LastAfter(c)' = 0
                        /\ \A type \in Types : cards[c].balance[type] = 0
      BY DEF BalanceFollowsLedger
    <3>1. ledger[c] = <<>> /\ LastAfter(c) = 0 /\ LastAfter(c)' = 0
      BY <2>2 DEF LastAfter
    <3> QED BY <3>1 DEF BooksInv, BalanceFollowsLedger
  <2> QED BY <2>1, <2>2
<1> QED BY <1>1, <1>2, <1>3

\* So they do when a movement is appended.
LEMMA GrowthKeepsOffers ==
    ASSUME BooksInv, NEW rows, Written(rows), MovementsGrow,
           \A i \in 1..Len(movements') : i > Len(movements) =>
              /\ Catalogued /\ movements'[i].type = program.type
              /\ movements'[i].amount \in Amount
    PROVE  MovementsOffered'
<1> SUFFICES ASSUME NEW i \in 1..Len(movements')
             PROVE  /\ Catalogued' /\ movements'[i].type = program'.type
                    /\ movements'[i].amount \in Amount
  BY DEF MovementsOffered, Amount
<1>1. CASE i > Len(movements)
  BY <1>1 DEF Written
<1>2. CASE ~(i > Len(movements))
  <2>1. i \in 1..Len(movements) /\ movements'[i] = movements[i]
    BY <1>2 DEF MovementsGrow
  <2> QED BY <2>1 DEF Written, BooksInv, MovementsOffered
<1> QED BY <1>1, <1>2

-----------------------------------------------------------------------------
(* Steps that only start or end a transaction *)

\* A step that only begins or ends a request keeps the books, if what the request
\* read is current.
LEMMA BooksTxnStep ==
    ASSUME BooksInv, Inv', NEW t \in Transactions, NEW x \in Transaction,
           txns' = [txns EXCEPT ![t] = x],
           UNCHANGED <<brandVars, live, cards, ledger, previews, keys, announced,
                       movements>>,
           x.kind = "preview" => PreviewCurrent(x),
           x.kind = "confirm" => ConfirmCurrent(x),
           x.kind = "reversal" => ReversalCurrent(x),
           x.kind = "erasure" => ErasureCurrent(x)
    PROVE  BooksInv'
<1>1. UNCHANGED <<program, brandOpen, branchOpen, access, authorized, benefits, live, cards,
                  ledger, previews, keys, announced, movements>>
  BY DEF brandVars
<1>2. /\ txns'[t] = x
      /\ \A u \in Transactions \ {t} : txns'[u] = txns[u]
  BY DEF BooksInv, Inv, TypeOK
<1>3. Current'
  <2> SUFFICES ASSUME NEW u \in Transactions
               PROVE  /\ txns'[u].kind = "preview" => PreviewCurrent(txns[u])'
                      /\ txns'[u].kind = "confirm" => ConfirmCurrent(txns[u])'
                      /\ txns'[u].kind = "reversal" => ReversalCurrent(txns[u])'
                      /\ txns'[u].kind = "erasure" => ErasureCurrent(txns[u])'
    BY DEF Current
  <2>1. /\ txns'[u].kind = "preview" => PreviewCurrent(txns'[u])
        /\ txns'[u].kind = "confirm" => ConfirmCurrent(txns'[u])
        /\ txns'[u].kind = "reversal" => ReversalCurrent(txns'[u])
        /\ txns'[u].kind = "erasure" => ErasureCurrent(txns'[u])
    BY <1>2 DEF BooksInv, Current
  <2>2. txns'[u].kind = "preview" => PreviewCurrent(txns[u])'
    BY <1>1, <2>1 DEF PreviewCurrent, Offered, Amount, Catalogued
  <2>3. txns'[u].kind = "confirm" => ConfirmCurrent(txns[u])'
    BY <1>1, <2>1 DEF ConfirmCurrent
  <2>4. txns'[u].kind = "reversal" => ReversalCurrent(txns[u])'
    BY <1>1, <2>1 DEF ReversalCurrent, Recorded, Reversed
  <2>5. txns'[u].kind = "erasure" => ErasureCurrent(txns[u])'
    BY <1>1, <2>1 DEF ErasureCurrent
  <2> QED BY <2>2, <2>3, <2>4, <2>5
<1>4. PreviewsOffered' /\ MovementsOffered'
  BY <1>1 DEF BooksInv, PreviewsOffered, MovementsOffered, Offered, Amount, Catalogued
<1>5. BalanceFollowsLedger' /\ RowsAreJustified' /\ EveryRowAnnouncedOnce'
  BY <1>1 DEF BooksInv, BalanceFollowsLedger, LastAfter, RowsAreJustified,
              RowIsJustified, EveryRowAnnouncedOnce
<1>6. /\ KeyReplaysItsMovement' /\ DeletedCustomerLeavesNothing' /\ OwnersReach'
      /\ Managers # {} => NoOrphanBrand'
  BY <1>1 DEF BooksInv, KeyReplaysItsMovement, DeletedCustomerLeavesNothing,
              OwnersReach, NoOrphanBrand
<1> QED BY <1>3, <1>4, <1>5, <1>6 DEF BooksInv

\* A rollback keeps the books.
LEMMA AbortBooks ==
    ASSUME BooksInv, Inv', NEW t \in Transactions, Abort(t)
    PROVE  BooksInv'
  BY BooksTxnStep, DefaultRowsTyped DEF Abort, Finish

\* CreatePreview reads what it will insert.
LEMMA BeginPreviewBooks ==
    ASSUME BooksInv, Inv', NEW t \in Transactions, NEW p \in Previews,
           NEW s \in Staff, NEW c \in Customers, NEW kind \in Kinds,
           NEW b \in Benefits \cup {None}, BeginPreview(t, p, s, c, kind, b)
    PROVE  BooksInv'
<1>1. PICK n \in Amounts(kind, b) :
         txns' = [txns EXCEPT ![t] =
                    [Idle EXCEPT !.kind = "preview", !.actor = s, !.preview = p,
                       !.row = [state |-> "open", expired |-> FALSE,
                                actor |-> s, customer |-> c, kind |-> kind,
                                benefit |-> b, type |-> program.type,
                                card |-> cards[c].state = "active",
                                before |-> Balance(c), amount |-> n]]]
  BY DEF BeginPreview
<1> DEFINE row == [state |-> "open", expired |-> FALSE,
                   actor |-> s, customer |-> c, kind |-> kind,
                   benefit |-> b, type |-> program.type,
                   card |-> cards[c].state = "active",
                   before |-> Balance(c), amount |-> n]
           x == [Idle EXCEPT !.kind = "preview", !.actor = s, !.preview = p,
                             !.row = row]
<1>2. /\ c \in live /\ Catalogued
      /\ (kind = "CANJE") <=> (b # None)
  BY DEF BeginPreview, Catalogued
<1>3. n \in Amount
  <2>1. CASE kind = "CANJE"
    <3>1. b \in Benefits /\ benefits[b].state # "absent"
      BY <1>2, <2>1 DEF BeginPreview
    <3> QED BY <1>1, <2>1, <3>1 DEF Amounts, Amount, BooksInv, Inv, BenefitsPriced
  <2>2. CASE kind # "CANJE"
    BY <1>1, <2>2 DEF Amounts, Amount
  <2> QED BY <2>1, <2>2
<1>4. Offered(row)
  BY <1>2, <1>3 DEF Offered
<1>5. x.kind = "preview" /\ x.row = row /\ row.customer = c
  BY DEF Idle
<1>6. txns' = [txns EXCEPT ![t] = x]
  BY <1>1
<1>7. UNCHANGED <<brandVars, live, cards, ledger, previews, keys, announced,
                  movements>>
  BY DEF BeginPreview
<1>8. x \in Transaction
  <2>1. txns'[t] = x
    BY <1>6 DEF BooksInv, Inv, TypeOK
  <2> QED BY <2>1 DEF Inv, TypeOK
<1> HIDE DEF x, row
<1>9. PreviewCurrent(x)
  BY <1>2, <1>4, <1>5 DEF PreviewCurrent
<1> QED BY <1>5, <1>6, <1>7, <1>8, <1>9, BooksTxnStep

\* ConfirmMovement checks the terms on its snapshot.
LEMMA BeginConfirmBooks ==
    ASSUME BooksInv, Inv', NEW t \in Transactions, NEW s \in Staff, NEW k \in Keys,
           NEW p \in Previews, BeginConfirm(t, s, k, p)
    PROVE  BooksInv'
<1> DEFINE x == [Idle EXCEPT !.kind = "confirm", !.actor = s, !.key = k,
                             !.preview = p, !.balance = previews[p].before]
<1>1. /\ x.kind = "confirm" /\ x.actor = s /\ x.preview = p
      /\ x.balance = previews[p].before
  BY DEF Idle
<1>2. /\ txns' = [txns EXCEPT ![t] = x]
      /\ UNCHANGED <<brandVars, live, cards, ledger, previews, keys, announced,
                     movements>>
      /\ ConfirmPasses(s, k, p)
  BY DEF BeginConfirm
<1>3. x \in Transaction
  <2>1. txns'[t] = x
    BY <1>2 DEF BooksInv, Inv, TypeOK
  <2> QED BY <2>1 DEF Inv, TypeOK
<1> HIDE DEF x
<1>4. ConfirmCurrent(x)
  BY <1>1, <1>2 DEF ConfirmCurrent, ConfirmPasses, TermsHold, CanOperate
<1> QED BY <1>1, <1>2, <1>3, <1>4, BooksTxnStep

\* ReverseBrandMovement checks the movement and the card on its snapshot.
LEMMA BeginReversalBooks ==
    ASSUME BooksInv, Inv', NEW t \in Transactions, NEW s \in Staff,
           NEW m \in 1..Len(movements), BeginReversal(t, s, m)
    PROVE  BooksInv'
<1> DEFINE c == movements[m].customer
           x == [Idle EXCEPT !.kind = "reversal", !.actor = s, !.movement = m,
                             !.balance = cards[c].balance[movements[m].type]]
<1>1. /\ x.kind = "reversal" /\ x.actor = s /\ x.movement = m
      /\ x.balance = cards[c].balance[movements[m].type]
  BY DEF Idle
<1>2. /\ txns' = [txns EXCEPT ![t] = x]
      /\ UNCHANGED <<brandVars, live, cards, ledger, previews, keys, announced,
                     movements>>
      /\ ReversalPasses(s, m)
  BY DEF BeginReversal
<1>3. x \in Transaction
  <2>1. txns'[t] = x
    BY <1>2 DEF BooksInv, Inv, TypeOK
  <2> QED BY <2>1 DEF Inv, TypeOK
<1>4. movements[m].type = program.type /\ c \in Customers
  BY MovementsTyped, MovementFields DEF BooksInv, Inv, MovementsOffered
<1>5. /\ s \in live /\ cards[c].state = "active"
      /\ Recorded(c, m) /\ ~Reversed(c, m)
  BY <1>2 DEF ReversalPasses, MayReverse
<1>6. c \in live
  BY <1>4, <1>5 DEF BooksInv, DeletedCustomerLeavesNothing, NoCard
<1> HIDE DEF x
<1>7. ReversalCurrent(x)
  BY <1>1, <1>4, <1>5, <1>6 DEF ReversalCurrent
<1> QED BY <1>1, <1>2, <1>3, <1>7, BooksTxnStep

\* AnonymizeAccount decides on its snapshot whether the brand closes.
LEMMA BeginErasureBooks ==
    ASSUME BooksInv, Inv', NEW t \in Transactions, NEW u \in Customers \cup Staff,
           BeginErasure(t, u)
    PROVE  BooksInv'
<1> DEFINE closes == brandOpen /\ u \in Managers /\ Managers \cap live = {u}
           x == [Idle EXCEPT !.kind = "erasure", !.actor = u, !.closes = closes]
<1>1. x.kind = "erasure" /\ x.actor = u /\ x.closes = closes /\ x.missed = {}
  BY DEF Idle
<1>2. /\ txns' = [txns EXCEPT ![t] = x]
      /\ UNCHANGED <<brandVars, live, cards, ledger, previews, keys, announced,
                     movements>>
      /\ u \in live
  BY DEF BeginErasure
<1>3. x \in Transaction
  <2>1. txns'[t] = x
    BY <1>2 DEF BooksInv, Inv, TypeOK
  <2> QED BY <2>1 DEF Inv, TypeOK
<1>4. u \in Managers /\ ~closes => ~brandOpen \/ \E s \in Managers \ {u} : s \in live
  BY <1>2
<1> HIDE DEF x, closes
<1>5. ErasureCurrent(x)
  BY <1>1, <1>4 DEF ErasureCurrent
<1> QED BY <1>1, <1>2, <1>3, <1>5, BooksTxnStep

-----------------------------------------------------------------------------
(* Steps that write no ledger row *)

\* How such a step may treat a preview.
PreviewQuiet(p, rows) ==
    \/ SameTerms(p) /\ previews'[p].state = previews[p].state
    \/ <<"preview", p>> \in rows /\ previews'[p] = Gone
    \/ /\ previews[p].state = "unused" /\ previews'[p].state = "open"
       /\ Offered(previews[p])' /\ previews'[p].customer \in live

\* A step that writes no row of a card, of its history or of a key keeps the books.
LEMMA QuietStep ==
    ASSUME BooksInv, Inv', NEW rows, Written(rows), Continued(rows),
           ErasuresContinue(rows),
           program'.type # program.type => \A c \in Customers : ledger[c] = <<>>,
           \A c \in Customers : /\ cards'[c].balance = cards[c].balance
                                /\ cards[c] = NoCard => cards'[c] = NoCard,
           \A p \in Previews : PreviewQuiet(p, rows),
           \A k \in Keys : keys'[k] = keys[k] \/ keys'[k].movement = 0,
           Customers \cap live' = Customers \cap live,
           UNCHANGED <<ledger, announced, movements>>,
           OwnersReach', Managers # {} => NoOrphanBrand'
    PROVE  BooksInv'
<1>1. Current'
  BY StaysCurrent
<1>2. PreviewsOffered'
  <2> SUFFICES ASSUME NEW p \in Previews, previews[p].state = "unused",
                      previews'[p].state = "open"
               PROVE  Offered(previews[p])'
    BY TermsStayOffered
  <2> QED BY DefaultRowsTyped DEF PreviewQuiet
<1>3. program'.type \in Types
  BY DEF Inv, TypeOK
<1>4. /\ BalanceFollowsLedger' /\ RowsAreJustified' /\ EveryRowAnnouncedOnce'
      /\ MovementsOffered'
  BY <1>3, SameBooks
<1>5. KeyReplaysItsMovement'
  BY DEF BooksInv, KeyReplaysItsMovement
<1>6. DeletedCustomerLeavesNothing'
  <2> SUFFICES ASSUME NEW c \in Customers, c \notin live'
               PROVE  /\ cards'[c] = NoCard
                      /\ ledger'[c] = <<>>
                      /\ announced'[c].pushes = {}
                      /\ \A p \in Previews : previews'[p].customer = c
                                               => previews'[p].state = "open"
                      /\ \A k \in Keys : keys'[k].movement # 0
                              => movements'[keys'[k].movement].customer # c
    BY DEF DeletedCustomerLeavesNothing
  <2>1. /\ c \notin live /\ cards[c] = NoCard
        /\ ledger[c] = <<>> /\ announced[c].pushes = {}
        /\ \A p \in Previews : previews[p].customer = c => previews[p].state = "open"
        /\ \A k \in Keys : keys[k].movement # 0
                => movements[keys[k].movement].customer # c
    BY DEF BooksInv, DeletedCustomerLeavesNothing
  <2>2. ASSUME NEW p \in Previews, previews'[p].customer = c
        PROVE  previews'[p].state = "open"
    <3>1. previews'[p] # Gone
      BY <2>2, NoneIsNoId DEF Gone, NoPreview
    <3> QED BY <2>1, <2>2, <3>1 DEF PreviewQuiet, SameTerms
  <2> QED BY <2>1, <2>2
<1> QED BY <1>1, <1>2, <1>4, <1>5, <1>6 DEF BooksInv

\* A step that leaves the accounts and the brand open or closed as they are.
LEMMA SameOwners ==
    ASSUME BooksInv, UNCHANGED <<live, brandOpen>>,
           \A s \in Managers : s \in authorized => s \in authorized'
    PROVE  OwnersReach' /\ (Managers # {} => NoOrphanBrand')
  BY DEF BooksInv, OwnersReach, NoOrphanBrand

\* An unwritten preview keeps its terms.
LEMMA SameTermsRefl ==
    ASSUME UNCHANGED previews, NEW rows
    PROVE  \A p \in Previews : PreviewQuiet(p, rows)
  BY DEF PreviewQuiet, SameTerms

\* Unwritten previews are a case of PreviewWritten.
LEMMA QuietPreviewsAreWritten ==
    ASSUME NEW rows, \A p \in Previews : PreviewQuiet(p, rows)
    PROVE  \A p \in Previews : PreviewWritten(p, rows)
  BY DEF PreviewQuiet, PreviewWritten

\* Written, for a step that leaves cards, history and accounts alone.
LEMMA QuietlyWritten ==
    ASSUME BooksInv, NEW rows,
           \A p \in Previews : PreviewQuiet(p, rows),
           \A b \in Benefits : BenefitWritten(b, rows),
           Catalogued => Catalogued' /\ program'.type = program.type,
           \A a \in live : a \in live' \/ (<<"user", a>> \in rows /\ a \notin Customers),
           \A c \in Customers : cards'[c].balance = cards[c].balance,
           \/ <<"program">> \in rows
           \/ /\ program'.active = program.active
              /\ brandOpen' = brandOpen /\ access' = access,
           brandOpen' => brandOpen,
           branchOpen => branchOpen' \/ <<"branch">> \in rows,
           UNCHANGED <<ledger, movements>>
    PROVE  Written(rows)
<1>1. \A p \in Previews : PreviewWritten(p, rows)
  BY QuietPreviewsAreWritten
<1>2. /\ Len(movements') \in Nat /\ Len(movements') >= Len(movements)
      /\ \A m \in 1..Len(movements) : movements'[m] = movements[m]
  BY MovementsTyped DEF BooksInv, Inv
<1>3. /\ \A a \in live : a \in live' \/ <<"user", a>> \in rows
      /\ \A c \in Customers \cap live : c \in live' \/ <<"card", c>> \in rows
      /\ \A c \in Customers :
            \/ <<"card", c>> \in rows
            \/ ledger'[c] = ledger[c] /\ cards'[c].balance = cards[c].balance
  OBVIOUS
<1> QED BY <1>1, <1>2, <1>3, Zenon DEF Written

\* CreateBenefit inserts a row nobody has read.
LEMMA CreateBenefitBooks ==
    ASSUME BooksInv, Inv', NEW b \in Benefits, NEW n \in Requirements,
           CreateBenefit(b, n)
    PROVE  BooksInv'
<1>1. /\ benefits[b].state = "absent"
      /\ benefits' = [benefits EXCEPT ![b] = [state |-> "active", requirement |-> n]]
      /\ txns' = Miss(txns, <<"benefit", b>>, {})
      /\ UNCHANGED <<program, brandOpen, branchOpen, access, authorized, live, cards, ledger,
                     previews, keys, announced, movements>>
  BY DEF CreateBenefit
<1>2. \A p \in Previews : PreviewQuiet(p, {})
  BY <1>1, SameTermsRefl
<1>3. \A d \in Benefits : BenefitWritten(d, {})
  BY <1>1 DEF BenefitWritten, BooksInv, Inv, TypeOK
<1>4. Catalogued => Catalogued' /\ program'.type = program.type
  BY <1>1 DEF Catalogued, BooksInv, Inv, TypeOK
<1>5. Written({})
  BY <1>1, <1>2, <1>3, <1>4, QuietlyWritten
<1>6. Continued({})
  <2>1. <<"benefit", b>> \in Insertable
    BY DEF Insertable
  <2> QED BY <1>1, <2>1, SameContinues, MissTrims, TrimmedContinues DEF BooksInv, Inv
<1>7. ErasuresContinue({})
  <2>1. MissedOne(txns', <<"benefit", b>>, {})
    <3>1. \A t \in Transactions :
             MissedOne(Miss(txns, <<"benefit", b>>, {}), <<"benefit", b>>, {})
      BY FinishMisses DEF BooksInv, Inv
    <3>2. CASE Transactions = {}
      BY <3>2 DEF MissedOne
    <3> QED BY <1>1, <3>1, <3>2
  <2>2. /\ \A c \in Customers : <<"benefit", b>> # <<"card", c>>
        /\ \A p \in Previews : <<"benefit", b>> # <<"preview", p>>
    OBVIOUS
  <2> QED BY <2>1, <2>2, MissedContinue
<1>8. OwnersReach' /\ (Managers # {} => NoOrphanBrand')
  BY <1>1, SameOwners
<1> QED BY <1>1, <1>2, <1>5, <1>6, <1>7, <1>8, QuietStep

\* UpdateBenefit locks the row whose price a redemption checked.
LEMMA ReplaceBenefitBooks ==
    ASSUME BooksInv, Inv', NEW b \in Benefits, NEW n \in Requirements,
           NEW state \in {"active", "retired"}, ReplaceBenefit(b, n, state)
    PROVE  BooksInv'
<1> DEFINE rows == {<<"benefit", b>>}
<1>1. /\ benefits[b].state # "absent"
      /\ benefits' = [benefits EXCEPT ![b] = [state |-> state, requirement |-> n]]
      /\ txns' = RollBack(txns, rows)
      /\ UNCHANGED <<program, brandOpen, branchOpen, access, authorized, live, cards, ledger,
                     previews, keys, announced, movements>>
  BY DEF ReplaceBenefit
<1>2. \A p \in Previews : PreviewQuiet(p, rows)
  BY <1>1, SameTermsRefl
<1>3. \A d \in Benefits : BenefitWritten(d, rows)
  BY <1>1 DEF BenefitWritten, BooksInv, Inv, TypeOK
<1>4. Catalogued => Catalogued' /\ program'.type = program.type
  BY <1>1 DEF Catalogued, BooksInv, Inv, TypeOK
<1>5. Written(rows)
  BY <1>1, <1>2, <1>3, <1>4, QuietlyWritten
<1> HIDE DEF rows
<1>6. Continued(rows)
  BY <1>1, SameContinues, RollBackContinues DEF BooksInv, Inv
<1>7. ErasuresContinue(rows)
  BY <1>1, RollBackAlone DEF BooksInv, Inv
<1>8. OwnersReach' /\ (Managers # {} => NoOrphanBrand')
  BY <1>1, SameOwners
<1> QED BY <1>1, <1>2, <1>5, <1>6, <1>7, <1>8, QuietStep

\* A date that passes leaves the price alone.
LEMMA BenefitLapsesBooks ==
    ASSUME BooksInv, Inv', NEW b \in Benefits, BenefitLapses(b)
    PROVE  BooksInv'
<1>1. /\ benefits[b].state = "active"
      /\ benefits' = [benefits EXCEPT ![b].state = "lapsed"]
      /\ txns' = txns
      /\ UNCHANGED <<program, brandOpen, branchOpen, access, authorized, live, cards, ledger,
                     previews, keys, announced, movements>>
  BY DEF BenefitLapses
<1>2. \A p \in Previews : PreviewQuiet(p, {})
  BY <1>1, SameTermsRefl
<1>3. /\ benefits'[b].state = "lapsed"
      /\ benefits'[b].requirement = benefits[b].requirement
      /\ \A d \in Benefits \ {b} : benefits'[d] = benefits[d]
  BY <1>1 DEF BooksInv, Inv, TypeOK, BenefitRow
<1>4. \A d \in Benefits : BenefitWritten(d, {})
  BY <1>3 DEF BenefitWritten
<1>5. Catalogued => Catalogued' /\ program'.type = program.type
  BY <1>1, <1>3 DEF Catalogued
<1>6. Written({})
  BY <1>1, <1>2, <1>4, <1>5, QuietlyWritten
<1>7. Continued({}) /\ ErasuresContinue({})
  BY <1>1, SameContinues, SameErasures DEF BooksInv, Inv
<1>8. OwnersReach' /\ (Managers # {} => NoOrphanBrand')
  BY <1>1, SameOwners
<1> QED BY <1>1, <1>2, <1>6, <1>7, <1>8, QuietStep

\* UpdateProgram locks the program, and keeps its type once a benefit exists.
LEMMA UpdateProgramBooks ==
    ASSUME BooksInv, Inv', NEW type \in Types, NEW active \in BOOLEAN,
           UpdateProgram(type, active)
    PROVE  BooksInv'
<1> DEFINE rows == {<<"program">>}
<1>1. /\ type # program.type => TypeMayChange
      /\ program' = [type |-> type, active |-> active]
      /\ txns' = RollBack(txns, rows)
      /\ UNCHANGED <<brandOpen, branchOpen, access, authorized, benefits, live, cards, ledger,
                     previews, keys, announced, movements>>
  BY DEF UpdateProgram
<1>2. \A p \in Previews : PreviewQuiet(p, rows)
  BY <1>1, SameTermsRefl
<1>3. \A d \in Benefits : BenefitWritten(d, rows)
  BY DEF BenefitWritten
<1>4. Catalogued => Catalogued' /\ program'.type = program.type
  BY <1>1 DEF Catalogued, TypeMayChange
<1>5. Written(rows)
  BY <1>1, <1>2, <1>3, <1>4, QuietlyWritten
<1> HIDE DEF rows
<1>6. Continued(rows)
  BY <1>1, SameContinues, RollBackContinues DEF BooksInv, Inv
<1>7. ErasuresContinue(rows)
  BY <1>1, RollBackAlone DEF BooksInv, Inv
<1>8. OwnersReach' /\ (Managers # {} => NoOrphanBrand')
  BY <1>1, SameOwners
<1>9. program'.type # program.type => \A c \in Customers : ledger[c] = <<>>
  BY <1>1 DEF TypeMayChange
<1> QED BY <1>1, <1>2, <1>5, <1>6, <1>7, <1>8, <1>9, QuietStep

\* UpdateStaff never touches an owner's membership.
LEMMA SetBranchAccessBooks ==
    ASSUME BooksInv, Inv', NEW s \in Staff, SetBranchAccess(s)
    PROVE  BooksInv'
<1>1. /\ s \notin Managers
      /\ authorized' = IF s \in authorized THEN authorized \ {s}
                                           ELSE authorized \cup {s}
      /\ txns' = txns
      /\ UNCHANGED <<program, brandOpen, branchOpen, access, benefits, live, cards, ledger,
                     previews, keys, announced, movements>>
  BY DEF SetBranchAccess
<1>2. \A p \in Previews : PreviewQuiet(p, {})
  BY <1>1, SameTermsRefl
<1>3. Written({})
  <2>1. /\ Catalogued => Catalogued' /\ program'.type = program.type
        /\ \A b \in Benefits : BenefitWritten(b, {})
    BY <1>1 DEF Catalogued, BenefitWritten
  <2> QED BY <1>1, <1>2, <2>1, QuietlyWritten
<1>4. Continued({}) /\ ErasuresContinue({})
  BY <1>1, SameContinues, SameErasures DEF BooksInv, Inv
<1>5. OwnersReach' /\ (Managers # {} => NoOrphanBrand')
  <2>1. \A m \in Managers : m \in authorized => m \in authorized'
    BY <1>1
  <2> QED BY <1>1, <2>1, SameOwners
<1> QED BY <1>1, <1>2, <1>3, <1>4, <1>5, QuietStep

\* Closing a card keeps what it shows, and opens none.
LEMMA ClosedCardsKeep ==
    ASSUME TypeOK, NEW missed, NEW c \in Customers
    PROVE  /\ ClosedCards(missed)[c].balance = cards[c].balance
           /\ cards[c] = NoCard => ClosedCards(missed)[c] = NoCard
<1>1. cards[c] \in CardRow
  BY DEF TypeOK
<1>2. [cards[c] EXCEPT !.state = "closed", !.version = cards[c].version + 1].balance
         = cards[c].balance
  BY <1>1 DEF CardRow
<1>3. cards[c] = NoCard => cards[c].state # "active"
  BY DEF NoCard
<1> QED BY <1>2, <1>3 DEF ClosedCards

\* Retiring the catalogue keeps every benefit row.
LEMMA RetiredBenefitsKeep ==
    ASSUME TypeOK, NEW missed, benefits' = RetiredBenefits(missed)
    PROVE  Catalogued => Catalogued'
<1> SUFFICES ASSUME NEW b \in Benefits, benefits[b].state # "absent"
             PROVE  benefits'[b].state # "absent"
  BY DEF Catalogued
<1>1. benefits[b] \in BenefitRow
  BY DEF TypeOK
<1>2. [benefits[b] EXCEPT !.state = "retired"].state = "retired"
  BY <1>1 DEF BenefitRow
<1> QED BY <1>2 DEF RetiredBenefits

\* DeleteBrand locks everything a request could still rely on.
LEMMA DeleteBrandBooks ==
    ASSUME BooksInv, Inv', DeleteBrand
    PROVE  BooksInv'
<1> DEFINE rows == {<<"brand">>} \cup ClosedRows
<1>1. /\ brandOpen' = FALSE /\ branchOpen' = FALSE
      /\ program' = [program EXCEPT !.active = FALSE]
      /\ benefits' = RetiredBenefits({})
      /\ cards' = ClosedCards({})
      /\ txns' = RollBack(txns, rows)
      /\ UNCHANGED <<live, ledger, previews, keys, announced, movements>>
  BY DEF DeleteBrand
<1>2. \A p \in Previews : PreviewQuiet(p, rows)
  BY <1>1, SameTermsRefl
<1>3. /\ <<"program">> \in rows /\ <<"branch">> \in rows
      /\ \A c \in Customers : <<"card", c>> \in rows
  BY DEF ClosedRows
<1>4. program'.type = program.type
  BY <1>1 DEF BooksInv, Inv, TypeOK
<1>5. Catalogued => Catalogued'
  BY <1>1, RetiredBenefitsKeep DEF BooksInv, Inv
<1>10. \A c \in Customers : /\ cards'[c].balance = cards[c].balance
                            /\ cards[c] = NoCard => cards'[c] = NoCard
  BY <1>1, ClosedCardsKeep DEF BooksInv, Inv
<1> HIDE DEF rows
<1>6. Written(rows)
  <2>1. \A b \in Benefits : BenefitWritten(b, rows)
    BY <1>3 DEF BenefitWritten
  <2> QED BY <1>1, <1>2, <1>3, <1>4, <1>5, <1>10, <2>1, QuietlyWritten
<1>7. Continued(rows)
  BY <1>1, SameContinues, RollBackContinues DEF BooksInv, Inv
<1>8. ErasuresContinue(rows)
  BY <1>1, RollBackAlone DEF BooksInv, Inv
<1>9. OwnersReach' /\ NoOrphanBrand'
  BY <1>1 DEF OwnersReach, NoOrphanBrand
<1> QED BY <1>1, <1>2, <1>4, <1>6, <1>7, <1>8, <1>9, <1>10, QuietStep

\* DeleteBranch writes the row a credit shares; a redemption goes on without it.
LEMMA DeleteBranchBooks ==
    ASSUME BooksInv, Inv', DeleteBranch
    PROVE  BooksInv'
<1> DEFINE rows == {<<"branch">>}
<1>1. /\ branchOpen' = FALSE
      /\ txns' = RollBack(txns, rows)
      /\ UNCHANGED <<program, brandOpen, access, authorized, benefits, live, cards, ledger,
                     previews, keys, announced, movements>>
  BY DEF DeleteBranch
<1>2. \A p \in Previews : PreviewQuiet(p, rows)
  BY <1>1, SameTermsRefl
<1>3. Written(rows)
  <2>1. /\ Catalogued => Catalogued' /\ program'.type = program.type
        /\ \A b \in Benefits : BenefitWritten(b, rows)
        /\ <<"branch">> \in rows
    BY <1>1 DEF Catalogued, BenefitWritten
  <2> QED BY <1>1, <1>2, <2>1, QuietlyWritten
<1> HIDE DEF rows
<1>4. Continued(rows)
  BY <1>1, SameContinues, RollBackContinues DEF BooksInv, Inv
<1>5. ErasuresContinue(rows)
  BY <1>1, RollBackAlone DEF BooksInv, Inv
<1>6. OwnersReach' /\ (Managers # {} => NoOrphanBrand')
  BY <1>1, SameOwners
<1> QED BY <1>1, <1>2, <1>3, <1>4, <1>5, <1>6, QuietStep

\* The inserted preview is on current terms, and erasures under way miss it.
LEMMA CommitPreviewBooks ==
    ASSUME BooksInv, Inv', NEW t \in Transactions, CommitPreview(t)
    PROVE  BooksInv'
<1>0. PICK p \in Previews : p = txns[t].preview
  BY DEF CommitPreview, BooksInv, Inv, InFlight, PreviewInFlight
<1> DEFINE row == txns[t].row
           seen == {row.actor, row.customer}
<1>1. /\ txns[t].kind = "preview"
      /\ previews' = [previews EXCEPT ![p] = row]
      /\ txns' = Miss(Finish(t), <<"preview", p>>, seen)
      /\ UNCHANGED <<program, brandOpen, branchOpen, access, authorized, benefits, live, cards,
                     ledger, keys, announced, movements>>
  BY <1>0 DEF CommitPreview, brandVars
<1>2. /\ previews[p].state = "unused" /\ row.state = "open"
      /\ row.customer \in live /\ Offered(row)
  BY <1>0, <1>1 DEF BooksInv, Inv, InFlight, PreviewInFlight, Current, PreviewCurrent
<1>3. /\ previews'[p] = row
      /\ \A q \in Previews \ {p} : previews'[q] = previews[q]
  BY <1>1, <1>2 DEF BooksInv, Inv, TypeOK
<1>4. Offered(previews[p])'
  BY <1>1, <1>2, <1>3 DEF Offered, Catalogued, Amount
<1>5. ASSUME NEW q \in Previews PROVE PreviewQuiet(q, {})
  <2>1. CASE q = p
    BY <1>2, <1>3, <1>4, <2>1 DEF PreviewQuiet
  <2>2. CASE q # p
    BY <1>3, <2>2 DEF PreviewQuiet, SameTerms
  <2> QED BY <2>1, <2>2
<1>6. Written({})
  <2>1. /\ Catalogued => Catalogued' /\ program'.type = program.type
        /\ \A b \in Benefits : BenefitWritten(b, {})
    BY <1>1 DEF Catalogued, BenefitWritten
  <2> QED BY <1>1, <1>5, <2>1, QuietlyWritten
<1>7. Continued({})
  <2>1. <<"preview", p>> \in Insertable
    BY DEF Insertable
  <2> HIDE DEF seen
  <2> QED BY <1>1, <2>1, FinishTrims, MissTrims, TrimmedContinues DEF BooksInv, Inv
<1>8. ErasuresContinue({})
  <2> HIDE DEF seen
  <2>1. MissedOne(txns', <<"preview", p>>, seen)
    BY <1>1, FinishMisses DEF BooksInv, Inv
  <2>2. /\ \A c \in Customers : <<"preview", p>> # <<"card", c>>
        /\ \A q \in Previews : <<"preview", p>> = <<"preview", q>>
                                 => previews'[q].state = "open"
    BY <1>2, <1>3
  <2> QED BY <2>1, <2>2, MissedContinue
<1>9. OwnersReach' /\ (Managers # {} => NoOrphanBrand')
  BY <1>1, SameOwners
<1> QED BY <1>1, <1>5, <1>6, <1>7, <1>8, <1>9, QuietStep

\* Expiry changes no terms.
LEMMA ExpirePreviewBooks ==
    ASSUME BooksInv, Inv', NEW p \in Previews, ExpirePreview(p)
    PROVE  BooksInv'
<1>1. /\ previews' = [previews EXCEPT ![p].expired = TRUE]
      /\ txns' = txns
      /\ UNCHANGED <<program, brandOpen, branchOpen, access, authorized, benefits, live, cards,
                     ledger, keys, announced, movements>>
  BY DEF ExpirePreview, brandVars
<1>2. ASSUME NEW q \in Previews PROVE PreviewQuiet(q, {})
  BY <1>1 DEF PreviewQuiet, SameTerms, BooksInv, Inv, TypeOK, PreviewRow
<1>3. Written({})
  <2>1. /\ Catalogued => Catalogued' /\ program'.type = program.type
        /\ \A b \in Benefits : BenefitWritten(b, {})
    BY <1>1 DEF Catalogued, BenefitWritten
  <2> QED BY <1>1, <1>2, <2>1, QuietlyWritten
<1>4. Continued({}) /\ ErasuresContinue({})
  BY <1>1, SameContinues, SameErasures DEF BooksInv, Inv
<1>5. OwnersReach' /\ (Managers # {} => NoOrphanBrand')
  BY <1>1, SameOwners
<1> QED BY <1>1, <1>2, <1>3, <1>4, <1>5, QuietStep

\* Retention locks the preview it removes.
LEMMA PrunePreviewBooks ==
    ASSUME BooksInv, Inv', NEW p \in Previews, PrunePreview(p)
    PROVE  BooksInv'
<1> DEFINE rows == {<<"preview", p>>}
<1>1. /\ previews' = [previews EXCEPT ![p] = Gone]
      /\ txns' = RollBack(txns, rows)
      /\ UNCHANGED <<program, brandOpen, branchOpen, access, authorized, benefits, live, cards,
                     ledger, keys, announced, movements>>
  BY DEF PrunePreview, brandVars
<1>2. ASSUME NEW q \in Previews PROVE PreviewQuiet(q, rows)
  BY <1>1 DEF PreviewQuiet, SameTerms, BooksInv, Inv, TypeOK
<1>3. Written(rows)
  <2>1. /\ Catalogued => Catalogued' /\ program'.type = program.type
        /\ \A b \in Benefits : BenefitWritten(b, rows)
    BY <1>1 DEF Catalogued, BenefitWritten
  <2> QED BY <1>1, <1>2, <2>1, QuietlyWritten
<1> HIDE DEF rows
<1>4. Continued(rows)
  BY <1>1, SameContinues, RollBackContinues DEF BooksInv, Inv
<1>5. ErasuresContinue(rows)
  BY <1>1, RollBackAlone DEF BooksInv, Inv
<1>6. OwnersReach' /\ (Managers # {} => NoOrphanBrand')
  BY <1>1, SameOwners
<1> QED BY <1>1, <1>2, <1>3, <1>4, <1>5, <1>6, QuietStep

\* A pruned key answers nothing.
LEMMA PruneKeyBooks ==
    ASSUME BooksInv, Inv', NEW k \in Keys, PruneKey(k)
    PROVE  BooksInv'
<1>1. /\ keys' = [keys EXCEPT ![k] = FreeKey]
      /\ txns' = txns
      /\ UNCHANGED <<program, brandOpen, branchOpen, access, authorized, benefits, live, cards,
                     ledger, previews, announced, movements>>
  BY DEF PruneKey, brandVars
<1>2. \A p \in Previews : PreviewQuiet(p, {})
  BY <1>1, SameTermsRefl
<1>3. Written({})
  <2>1. /\ Catalogued => Catalogued' /\ program'.type = program.type
        /\ \A b \in Benefits : BenefitWritten(b, {})
    BY <1>1 DEF Catalogued, BenefitWritten
  <2> QED BY <1>1, <1>2, <2>1, QuietlyWritten
<1>4. Continued({}) /\ ErasuresContinue({})
  BY <1>1, SameContinues, SameErasures DEF BooksInv, Inv
<1>5. OwnersReach' /\ (Managers # {} => NoOrphanBrand')
  BY <1>1, SameOwners
<1>6. \A j \in Keys : keys'[j] = keys[j] \/ keys'[j].movement = 0
  BY <1>1 DEF FreeKey, BooksInv, Inv, TypeOK
<1> QED BY <1>1, <1>2, <1>3, <1>4, <1>5, <1>6, QuietStep

\* DELETE /me of an operator, with the brand or without it.
LEMMA CommitStaffErasureBooks ==
    ASSUME BooksInv, Inv', NEW t \in Transactions, CommitStaffErasure(t)
    PROVE  BooksInv'
<1> DEFINE x == txns[t]
           s == x.actor
           scoped == {k \in Keys : keys[k].actor = s}
           rows == {<<"user", s>>}
                     \cup {<<"preview", p>> : p \in Owned(s)}
                     \cup {<<"key", k>> : k \in scoped}
                     \cup IF x.closes
                          THEN {<<"brand">>} \cup ClosedRows \cup
                               {<<"preview", p>> : p \in Previews}
                          ELSE {}
<1>1. /\ x.kind = "erasure" /\ s \in Staff
      /\ live' = live \ {s}
      /\ authorized' = IF x.closes THEN {} ELSE authorized \ {s}
      /\ brandOpen' = (brandOpen /\ ~x.closes)
      /\ branchOpen' = (branchOpen /\ ~x.closes)
      /\ access' = (access /\ ~x.closes)
      /\ program' = [program EXCEPT !.active = @ /\ ~x.closes]
      /\ benefits' = IF x.closes THEN RetiredBenefits(x.missed) ELSE benefits
      /\ cards' = IF x.closes THEN ClosedCards(x.missed) ELSE cards
      /\ previews' = [p \in Previews |->
                        IF Removed(p, x) THEN Gone
                        ELSE IF x.closes /\ previews[p].state = "open"
                                        /\ <<"preview", p>> \notin x.missed
                             THEN [previews[p] EXCEPT !.expired = TRUE]
                             ELSE previews[p]]
      /\ keys' = [k \in Keys |-> IF k \in scoped THEN Scrubbed(k) ELSE keys[k]]
      /\ txns' = RollBack(Finish(t), rows)
      /\ UNCHANGED <<ledger, announced, movements>>
  BY DEF CommitStaffErasure
<1>2. ASSUME NEW p \in Previews PROVE PreviewQuiet(p, rows)
  <2>1. CASE Removed(p, x)
    BY <1>1, <2>1 DEF Removed, PreviewQuiet
  <2>2. CASE ~Removed(p, x)
    <3>1. previews[p] \in PreviewRow
      BY DEF BooksInv, Inv, TypeOK
    <3>2. \/ previews'[p] = previews[p]
          \/ previews'[p] = [previews[p] EXCEPT !.expired = TRUE]
      BY <1>1, <2>2
    <3> QED BY <3>1, <3>2 DEF PreviewQuiet, SameTerms, PreviewRow
  <2> QED BY <2>1, <2>2
<1>3. /\ <<"user", s>> \in rows
      /\ x.closes => <<"program">> \in rows /\ <<"branch">> \in rows
  BY DEF ClosedRows
<1>4. \A k \in Keys : keys'[k] = keys[k] \/ keys'[k].movement = 0
  <2> SUFFICES ASSUME NEW k \in Keys PROVE Scrubbed(k).movement = 0
    BY <1>1
  <2>1. keys[k] \in KeyRow
    BY DEF BooksInv, Inv, TypeOK
  <2> QED BY <2>1 DEF KeyRow, Scrubbed
<1> HIDE DEF rows, scoped
<1>5. program'.type = program.type
  BY <1>1 DEF BooksInv, Inv, TypeOK
<1>6. Catalogued => Catalogued'
  <2>1. CASE x.closes
    BY <1>1, <2>1, RetiredBenefitsKeep DEF BooksInv, Inv
  <2>2. CASE ~x.closes
    BY <1>1, <2>2 DEF Catalogued
  <2> QED BY <2>1, <2>2
<1>7. \A b \in Benefits : BenefitWritten(b, rows)
  BY <1>1, <1>3 DEF BenefitWritten
<1>8. \/ <<"program">> \in rows
      \/ /\ program'.active = program.active
         /\ brandOpen' = brandOpen /\ access' = access
  <2>1. ASSUME ~x.closes
        PROVE  program'.active = program.active
    <3>1. (program.active /\ ~x.closes) = program.active
      BY <2>1 DEF BooksInv, Inv, TypeOK
    <3> QED BY <1>1, <3>1 DEF BooksInv, Inv, TypeOK
  <2>2. ASSUME ~x.closes
        PROVE  brandOpen' = brandOpen /\ access' = access
    BY <1>1, <2>2, Zenon DEF BooksInv, Inv, TypeOK
  <2> QED BY <1>3, <2>1, <2>2
<1>9. \A c \in Customers : /\ cards'[c].balance = cards[c].balance
                           /\ cards[c] = NoCard => cards'[c] = NoCard
  BY <1>1, ClosedCardsKeep DEF BooksInv, Inv
<1>10. Written(rows)
  <2>1. \A a \in live : a \in live' \/ (<<"user", a>> \in rows /\ a \notin Customers)
    BY <1>1, <1>3, AccountsDisjoint
  <2>2. /\ brandOpen' => brandOpen
        /\ branchOpen => branchOpen' \/ <<"branch">> \in rows
    BY <1>1, <1>3
  <2> QED BY <1>1, <1>2, <1>5, <1>6, <1>7, <1>8, <1>9, <2>1, <2>2, QuietlyWritten
<1>11. Continued(rows)
  BY <1>1, FinishTrims, RollBackContinues DEF BooksInv, Inv
<1>12. ErasuresContinue(rows)
  BY <1>1, RollBackErasures DEF BooksInv, Inv
<1>13. ErasureCurrent(x)
  BY <1>1 DEF BooksInv, Current
<1>14. OwnersReach'
  BY <1>1 DEF BooksInv, OwnersReach
<1>15. ASSUME Managers # {}, brandOpen'
       PROVE  \E m \in Managers : m \in live' /\ m \in authorized'
  <2>1. brandOpen /\ ~x.closes
    BY <1>1, <1>15
  <2>2. \E m \in Managers : m \in live /\ m # s
    <3>1. CASE s \in Managers
      BY <1>13, <2>1, <3>1 DEF ErasureCurrent
    <3>2. CASE s \notin Managers
      BY <1>15, <2>1, <3>2 DEF BooksInv, NoOrphanBrand
    <3> QED BY <3>1, <3>2
  <2> QED BY <1>1, <2>1, <2>2 DEF BooksInv, OwnersReach
<1>16. Customers \cap live' = Customers \cap live
  BY <1>1, AccountsDisjoint
<1>17. Managers # {} => NoOrphanBrand'
  BY <1>15 DEF NoOrphanBrand
<1> QED BY <1>1, <1>2, <1>4, <1>5, <1>9, <1>10, <1>11, <1>12, <1>14, <1>16, <1>17,
           QuietStep

-----------------------------------------------------------------------------
(* Steps that write the ledger *)

\* What a row written for a live customer leaves of deleted ones.
LEMMA PostKeepsDeleted ==
    ASSUME BooksInv, NEW c \in Customers, c \in live, live' = live,
           \A d \in Customers \ {c} :
              /\ cards'[d] = cards[d] /\ ledger'[d] = ledger[d]
              /\ announced'[d] = announced[d],
           \A p \in Previews :
              /\ previews'[p].customer = previews[p].customer
              /\ previews'[p].state = previews[p].state \/ previews[p].customer = c,
           \A k \in Keys : keys'[k].movement # 0 =>
              \/ /\ keys'[k] = keys[k]
                 /\ movements'[keys[k].movement] = movements[keys[k].movement]
              \/ movements'[keys'[k].movement].customer = c
    PROVE  DeletedCustomerLeavesNothing'
<1> SUFFICES ASSUME NEW d \in Customers, d \notin live
             PROVE  /\ cards'[d] = NoCard
                    /\ ledger'[d] = <<>>
                    /\ announced'[d].pushes = {}
                    /\ \A p \in Previews : previews'[p].customer = d
                                             => previews'[p].state = "open"
                    /\ \A k \in Keys : keys'[k].movement # 0
                            => movements'[keys'[k].movement].customer # d
  BY DEF DeletedCustomerLeavesNothing
<1>1. /\ cards[d] = NoCard
      /\ ledger[d] = <<>> /\ announced[d].pushes = {}
      /\ \A p \in Previews : previews[p].customer = d => previews[p].state = "open"
      /\ \A k \in Keys : keys[k].movement # 0
              => movements[keys[k].movement].customer # d
  BY DEF BooksInv, DeletedCustomerLeavesNothing
<1>2. d # c
  OBVIOUS
<1> QED BY <1>1, <1>2

\* Announcing one customer's row leaves the others' notifications.
LEMMA AnnouncedElsewhere ==
    ASSUME TypeOK, NEW c \in Customers, NEW queued, announced' = Announced(c, queued)
    PROVE  \A d \in Customers \ {c} : announced'[d] = announced[d]
  BY DEF TypeOK, Announced

\* ReverseBrandMovement gives back what the movement took, once.
LEMMA CommitReversalBooks ==
    ASSUME BooksInv, Inv', NEW t \in Transactions, CommitReversal(t)
    PROVE  BooksInv'
<1> USE DEF Inv
<1>1. PICK m \in 1..Len(movements) : txns[t].kind = "reversal" /\ m = txns[t].movement
  BY DEF CommitReversal, BooksInv, InFlight, ReversalInFlight
<1> DEFINE move == movements[m]
<1>2. PICK c \in Customers : c = move.customer
  BY MovementsTyped, MovementFields DEF BooksInv
<1>3. PICK before \in Nat : before = txns[t].balance
  BY DEF BooksInv, TypeOK, Transaction
<1> DEFINE after == IF move.kind = "CANJE" THEN before + move.amount
                                           ELSE before - move.amount
           rows == {<<"card", c>>}
<1>4. /\ Post(c, m, "REVERSAL", move.type, before, after)
      /\ announced' = Announced(c, {})
      /\ txns' = RollBack(Finish(t), rows)
      /\ UNCHANGED <<program, brandOpen, branchOpen, access, authorized, benefits, live,
                     previews, keys, movements>>
  BY <1>1, <1>2, <1>3 DEF CommitReversal, brandVars
<1>5. /\ ReversalInFlight(txns[t]) /\ ReversalCurrent(txns[t])
  BY <1>1 DEF BooksInv, InFlight, Current
<1>6. /\ move.type = program.type /\ move.kind \in Kinds
      /\ move.amount \in Nat /\ m \in Nat \ {0} /\ program.type \in Types
  BY MovementsTyped, MovementFields DEF BooksInv, MovementsOffered, TypeOK
<1>7. after \in Nat
  <2>1. CASE move.kind = "CANJE"
    BY <1>3, <1>6, <2>1
  <2>2. CASE move.kind # "CANJE"
    <3>1. before >= move.amount
      BY <1>1, <1>3, <1>5, <1>6, <2>2 DEF ReversalInFlight, Kinds
    <3> QED BY <1>3, <1>6, <2>2, <3>1
  <2> QED BY <2>1, <2>2
<1>8. /\ c \in live
      /\ before = cards[c].balance[program.type]
      /\ Recorded(c, m) /\ ~Reversed(c, m)
  BY <1>1, <1>2, <1>3, <1>5 DEF ReversalCurrent
<1>9. /\ after - before = IF move.kind = "CANJE" THEN move.amount ELSE -move.amount
  BY <1>6
<1> HIDE DEF after
<1>10. Posted(c, m, "REVERSAL", program.type, before, after)
  BY <1>4, <1>6, <1>7, PostAppends DEF BooksInv
<1>11. BalanceFollowsLedger'
  BY <1>4, <1>6, <1>7, <1>8, PostKeepsBalance DEF BooksInv
<1>12. MovementsGrow
  BY <1>4, MovementsTyped DEF MovementsGrow, BooksInv
<1>13. RowsAreJustified'
  <2>1. \E j \in 1..Len(ledger[c]) : /\ ledger[c][j].movement = m
                                     /\ ledger[c][j].kind = move.kind
    BY <1>8 DEF Recorded, BooksInv, RowsAreJustified, RowIsJustified
  <2>2. Justified(c, m, "REVERSAL", before, after)
    BY <1>2, <1>4, <1>8, <1>9, <2>1 DEF Justified
  <2> QED BY <1>10, <1>12, <2>2, PostKeepsJustified DEF BooksInv
<1>14. EveryRowAnnouncedOnce'
  BY <1>4, <1>10, PostAnnounces DEF BooksInv
<1>15. /\ \A d \in Customers \ {c} :
             /\ cards'[d] = cards[d] /\ ledger'[d] = ledger[d]
             /\ announced'[d] = announced[d]
  BY <1>4, <1>10, AnnouncedElsewhere DEF Posted, BooksInv
<1>16. DeletedCustomerLeavesNothing'
  BY <1>4, <1>8, <1>15, PostKeepsDeleted
<1>17. Written(rows)
  <2>1. /\ Catalogued => Catalogued' /\ program'.type = program.type
        /\ \A b \in Benefits : BenefitWritten(b, rows)
    BY <1>4 DEF Catalogued, BenefitWritten
  <2>2. \A p \in Previews : PreviewWritten(p, rows)
    BY <1>4 DEF PreviewWritten, SameTerms
  <2>3. \A d \in Customers :
          \/ <<"card", d>> \in rows
          \/ ledger'[d] = ledger[d] /\ cards'[d].balance = cards[d].balance
    BY <1>15
  <2> HIDE DEF rows
  <2> QED BY <1>4, <1>12, <2>1, <2>2, <2>3 DEF Written, MovementsGrow
<1> HIDE DEF rows
<1>18. Current'
  <2>1. Continued(rows)
    BY <1>4, FinishTrims, RollBackContinues DEF BooksInv
  <2>2. ErasuresContinue(rows)
    BY <1>4, RollBackErasures DEF BooksInv
  <2> QED BY <1>17, <2>1, <2>2, StaysCurrent
<1>19. PreviewsOffered'
  BY <1>4, <1>17, TermsStayOffered
<1>20. MovementsOffered'
  BY <1>4, <1>12, <1>17, GrowthKeepsOffers
<1>21. KeyReplaysItsMovement'
  BY <1>4 DEF BooksInv, KeyReplaysItsMovement
<1>22. OwnersReach' /\ (Managers # {} => NoOrphanBrand')
  BY <1>4, SameOwners
<1> QED BY <1>11, <1>13, <1>14, <1>16, <1>18, <1>19, <1>20, <1>21, <1>22
        DEF BooksInv

\* ConfirmMovement adds the movement, its row, its notice and its answer together.
LEMMA CommitConfirmBooks ==
    ASSUME BooksInv, Inv', NEW t \in Transactions, CommitConfirm(t)
    PROVE  BooksInv'
<1> USE DEF Inv
<1>1. PICK p \in Previews, k \in Keys :
         txns[t].kind = "confirm" /\ p = txns[t].preview /\ k = txns[t].key
  BY DEF CommitConfirm, BooksInv, InFlight, ConfirmInFlight
<1> DEFINE row == previews[p]
<1>2. /\ ConfirmInFlight(txns[t]) /\ ConfirmCurrent(txns[t])
  BY <1>1 DEF BooksInv, InFlight, Current
<1>3. /\ row \in PreviewRow /\ row.state = "open" /\ Filled(row) /\ Offered(row)
  BY <1>1, <1>2 DEF BooksInv, TypeOK, ConfirmInFlight, PreviewsFilled, PreviewsOffered
<1>4. PICK c \in Customers : c = row.customer
  BY <1>3 DEF Filled
<1>5. PICK before \in Nat : before = txns[t].balance
  BY DEF BooksInv, TypeOK, Transaction
<1>6. PICK m \in Nat \ {0} : m = Len(movements) + 1
  BY MovementsTyped DEF BooksInv
<1>7. PICK kind \in Kinds : kind = row.kind
  BY <1>3 DEF PreviewRow
<1> DEFINE after == IF kind = "CANJE" THEN before - row.amount
                                      ELSE before + row.amount
           rows == {<<"card", c>>, <<"preview", p>>, <<"key", k>>}
           move == [preview |-> p, key |-> k, customer |-> c, kind |-> kind,
                    type |-> row.type, amount |-> row.amount]
           opened == IF cards[c].state = "none"
                     THEN Miss(Finish(t), <<"card", c>>, {c}) ELSE Finish(t)
<1>8. /\ Post(c, m, kind, row.type, before, after)
      /\ previews' = [previews EXCEPT ![p].state = "consumed"]
      /\ keys' = [keys EXCEPT ![k] = [state |-> "completed", actor |-> txns[t].actor,
                                      preview |-> p, movement |-> m]]
      /\ movements' = Append(movements, move)
      /\ announced' = Announced(c, {m})
      /\ txns' = RollBack(opened, rows)
      /\ UNCHANGED <<program, brandOpen, branchOpen, access, authorized, benefits, live>>
  BY <1>1, <1>4, <1>5, <1>6, <1>7 DEF CommitConfirm, brandVars
<1>9. /\ row.type = program.type /\ row.amount \in Nat /\ row.amount \in Amount
      /\ program.type \in Types /\ Catalogued
      /\ kind = "CANJE" => before >= row.amount
  <2>1. kind = "CANJE" => before >= row.amount
    BY <1>1, <1>2, <1>3, <1>5, <1>7 DEF ConfirmInFlight, Filled
  <2> QED BY <1>3, <2>1 DEF PreviewRow, Offered, BooksInv, TypeOK
<1>10. /\ after \in Nat
       /\ after - before = IF kind = "CANJE" THEN -row.amount ELSE row.amount
  BY <1>9
<1>11. /\ c \in live
       /\ before = cards[c].balance[program.type]
  BY <1>1, <1>2, <1>4, <1>5 DEF ConfirmCurrent
<1> HIDE DEF after
<1>12. Posted(c, m, kind, program.type, before, after)
  BY <1>8, <1>9, <1>10, PostAppends DEF BooksInv
<1>13. BalanceFollowsLedger'
  BY <1>8, <1>9, <1>10, <1>11, PostKeepsBalance DEF BooksInv
<1>14. /\ MovementsGrow
       /\ Len(movements') = m /\ movements'[m] = move
  <2>1. movements \in Seq(Movement) /\ movements' \in Seq(Movement)
    BY DEF BooksInv, TypeOK
  <2> HIDE DEF move
  <2>2. /\ Len(movements') = Len(movements) + 1
        /\ movements'[Len(movements) + 1] = move
        /\ \A i \in 1..Len(movements) : movements'[i] = movements[i]
    BY <1>8, <2>1, AppendProperties
  <2> QED BY <1>6, <2>1, <2>2, LenProperties DEF MovementsGrow
<1>15. RowsAreJustified'
  <2>1. ~Recorded(c, m)
    <3>1. \A i \in 1..Len(ledger[c]) : ledger[c][i].movement \in 1..Len(movements)
      BY DEF BooksInv, RowsAreJustified, RowIsJustified
    <3>2. m \notin 1..Len(movements)
      BY <1>6
    <3> QED BY <3>1, <3>2 DEF Recorded
  <2>2. kind # "REVERSAL"
    BY DEF Kinds
  <2>3. Justified(c, m, kind, before, after)
    BY <1>10, <1>14, <2>1, <2>2 DEF Justified
  <2> QED BY <1>12, <1>14, <2>3, PostKeepsJustified DEF BooksInv
<1>16. EveryRowAnnouncedOnce'
  <2>1. announced' = Announced(c, IF kind = "REVERSAL" THEN {} ELSE {m})
    BY <1>8 DEF Kinds
  <2> QED BY <1>12, <2>1, PostAnnounces DEF BooksInv
<1>17. /\ \A d \in Customers \ {c} :
             /\ cards'[d] = cards[d] /\ ledger'[d] = ledger[d]
             /\ announced'[d] = announced[d]
  BY <1>8, <1>12, AnnouncedElsewhere DEF Posted, BooksInv
<1>18. /\ SameTerms(p) /\ previews'[p].state = "consumed"
       /\ \A q \in Previews \ {p} : previews'[q] = previews[q]
  <2>1. /\ previews'[p] = [row EXCEPT !.state = "consumed"]
        /\ \A q \in Previews \ {p} : previews'[q] = previews[q]
    BY <1>8 DEF BooksInv, TypeOK
  <2> QED BY <1>3, <2>1 DEF PreviewRow, SameTerms
<1>19. /\ keys'[k].movement = m /\ keys'[k].preview = p
       /\ \A j \in Keys \ {k} : keys'[j] = keys[j]
  BY <1>8 DEF BooksInv, TypeOK
<1>20. KeyReplaysItsMovement'
  <2> SUFFICES ASSUME NEW j \in Keys, keys'[j].movement # 0
               PROVE  /\ keys'[j].movement \in 1..Len(movements')
                      /\ movements'[keys'[j].movement].key = j
                      /\ movements'[keys'[j].movement].preview = keys'[j].preview
    BY DEF KeyReplaysItsMovement
  <2>1. CASE j = k
    BY <1>14, <1>19, <2>1
  <2>2. CASE j # k
    <3>1. /\ keys'[j] = keys[j] /\ keys[j].movement \in 1..Len(movements)
          /\ movements[keys[j].movement].key = j
          /\ movements[keys[j].movement].preview = keys[j].preview
      BY <1>19, <2>2 DEF BooksInv, KeyReplaysItsMovement
    <3> QED BY <1>14, <3>1 DEF MovementsGrow
  <2> QED BY <2>1, <2>2
<1>21. DeletedCustomerLeavesNothing'
  <2>1. \A q \in Previews :
           /\ previews'[q].customer = previews[q].customer
           /\ previews'[q].state = previews[q].state \/ previews[q].customer = c
    BY <1>4, <1>18 DEF SameTerms
  <2>2. \A j \in Keys : keys'[j].movement # 0 =>
           \/ /\ keys'[j] = keys[j]
              /\ movements'[keys[j].movement] = movements[keys[j].movement]
           \/ movements'[keys'[j].movement].customer = c
    BY <1>14, <1>19 DEF BooksInv, KeyReplaysItsMovement, MovementsGrow
  <2> QED BY <1>8, <1>11, <1>17, <2>1, <2>2, PostKeepsDeleted
<1>22. Written(rows)
  <2>1. /\ Catalogued => Catalogued' /\ program'.type = program.type
        /\ \A b \in Benefits : BenefitWritten(b, rows)
    BY <1>8 DEF Catalogued, BenefitWritten
  <2>2. \A q \in Previews : PreviewWritten(q, rows)
    BY <1>3, <1>4, <1>18 DEF PreviewWritten, SameTerms
  <2>3. \A d \in Customers :
          \/ <<"card", d>> \in rows
          \/ ledger'[d] = ledger[d] /\ cards'[d].balance = cards[d].balance
    BY <1>17
  <2> HIDE DEF rows
  <2> QED BY <1>8, <1>14, <2>1, <2>2, <2>3 DEF Written, MovementsGrow
<1>23. Continued(rows) /\ ErasuresContinue(rows)
  <2>1. <<"card", c>> \in Insertable
    BY DEF Insertable
  <2>2. Trimmed(opened) /\ MissedOne(opened, <<"card", c>>, {c})
    BY <2>1, FinishTrims, MissTrims, FinishMisses DEF BooksInv
  <2>3. /\ \A d \in Customers : <<"card", c>> = <<"card", d>>
                                  => <<"card", c>> \in rows /\ {c} = {d}
        /\ \A q \in Previews : <<"card", c>> # <<"preview", q>>
    OBVIOUS
  <2> HIDE DEF rows, opened
  <2>4. Continued(rows)
    BY <1>8, <2>2, RollBackContinues
  <2>5. ErasuresContinue(rows)
    BY <1>8, <2>2, <2>3, MissedContinue
  <2> QED BY <2>4, <2>5
<1> HIDE DEF rows
<1>24. Current'
  BY <1>22, <1>23, StaysCurrent
<1>25. PreviewsOffered'
  <2>1. \A q \in Previews :
          ~(previews[q].state = "unused" /\ previews'[q].state = "open")
    BY <1>3, <1>18
  <2> QED BY <1>22, <2>1, TermsStayOffered
<1>26. MovementsOffered'
  <2>1. \A i \in 1..Len(movements') : i > Len(movements) => i = m
    BY <1>6, <1>14 DEF MovementsGrow
  <2> QED BY <1>9, <1>14, <1>22, <2>1, GrowthKeepsOffers
<1>27. OwnersReach' /\ (Managers # {} => NoOrphanBrand')
  BY <1>8, SameOwners
<1> QED BY <1>13, <1>15, <1>16, <1>20, <1>21, <1>24, <1>25, <1>26, <1>27
        DEF BooksInv

\* DELETE /me of a customer: the card, its history, its previews and the answers
\* that quote it go in one commit.
LEMMA CommitCustomerErasureBooks ==
    ASSUME BooksInv, Inv', NEW t \in Transactions, CommitCustomerErasure(t)
    PROVE  BooksInv'
<1> USE DEF Inv
<1>1. PICK c \in Customers : c = txns[t].actor /\ txns[t].kind = "erasure"
  BY DEF CommitCustomerErasure
<1> DEFINE x == txns[t]
           redacted == {k \in Keys : /\ keys[k].movement # 0
                                     /\ movements[keys[k].movement].customer = c}
           rows == {<<"user", c>>, <<"card", c>>}
                     \cup {<<"preview", p>> : p \in Owned(c)}
                     \cup {<<"key", k>> : k \in redacted}
<1>2. ErasureCurrent(x)
  BY <1>1 DEF BooksInv, Current
<1>3. <<"card", c>> \notin x.missed
  BY <1>2 DEF ErasureCurrent
<1>4. /\ live' = live \ {c}
      /\ cards' = [cards EXCEPT ![c] = NoCard]
      /\ ledger' = [ledger EXCEPT ![c] = <<>>]
      /\ previews' = [p \in Previews |-> IF Removed(p, x) THEN Gone ELSE previews[p]]
      /\ keys' = [k \in Keys |-> IF k \in redacted
                                 THEN [keys[k] EXCEPT !.movement = 0]
                                 ELSE keys[k]]
      /\ announced' = [announced EXCEPT ![c] = [notices |-> 0, pushes |-> {}]]
      /\ txns' = RollBack(Finish(t), rows)
      /\ UNCHANGED <<program, brandOpen, branchOpen, access, authorized, benefits, movements>>
  BY <1>1, <1>3 DEF CommitCustomerErasure, brandVars
<1>5. /\ cards'[c] = NoCard /\ ledger'[c] = <<>>
      /\ announced'[c] = [notices |-> 0, pushes |-> {}]
      /\ \A d \in Customers \ {c} : /\ cards'[d] = cards[d] /\ ledger'[d] = ledger[d]
                                    /\ announced'[d] = announced[d]
  BY <1>4 DEF BooksInv, TypeOK
<1>6. ASSUME NEW p \in Previews
      PROVE  \/ previews'[p] = previews[p]
             \/ <<"preview", p>> \in rows /\ previews'[p] = Gone
  BY <1>1, <1>4 DEF Removed
<1>7. \A k \in Keys : /\ keys'[k] = keys[k] \/ keys'[k].movement = 0
                      /\ k \in redacted => keys'[k].movement = 0
  <2>1. ASSUME NEW k \in Keys, k \in redacted
        PROVE  keys'[k].movement = 0
    <3>1. keys[k] \in KeyRow /\ keys'[k] = [keys[k] EXCEPT !.movement = 0]
      BY <1>4, <2>1 DEF BooksInv, TypeOK
    <3> QED BY <3>1 DEF KeyRow
  <2> HIDE DEF redacted
  <2> QED BY <1>4, <2>1
<1>8. BalanceFollowsLedger'
  <2> SUFFICES ASSUME NEW d \in Customers
               PROVE  /\ \A i \in 1..Len(ledger'[d]) :
                           ledger'[d][i].before =
                              IF i = 1 THEN 0 ELSE ledger'[d][i-1].after
                      /\ cards'[d].balance[program'.type] = LastAfter(d)'
                      /\ \A type \in Types \ {program'.type} :
                           cards'[d].balance[type] = 0
    BY DEF BalanceFollowsLedger
  <2>1. CASE d = c
    <3>1. program'.type \in Types
      BY DEF TypeOK
    <3>2. \A type \in Types : cards'[d].balance[type] = 0
      BY <1>5, <2>1 DEF NoCard
    <3> QED BY <1>5, <2>1, <3>1, <3>2 DEF LastAfter
  <2>2. CASE d # c
    BY <1>4, <1>5, <2>2 DEF BooksInv, BalanceFollowsLedger, LastAfter
  <2> QED BY <2>1, <2>2
<1>9. RowsAreJustified'
  <2> SUFFICES ASSUME NEW d \in Customers, d # c
               PROVE  /\ \A i \in 1..Len(ledger[d]) : RowIsJustified(d, i)'
                      /\ ledger'[d] = ledger[d]
    BY <1>5 DEF RowsAreJustified, BooksInv
  <2>1. ledger'[d] = ledger[d]
    BY <1>5
  <2>2. MovementsGrow /\ Len(ledger[d]) \in Nat
    BY <1>4, MovementsTyped, LedgerTyped DEF MovementsGrow, BooksInv
  <2>3. \A i \in 1..Len(ledger[d]) : RowIsJustified(d, i)
    BY DEF BooksInv, RowsAreJustified
  <2> QED BY <2>1, <2>2, <2>3, RowStaysJustified
<1>10. EveryRowAnnouncedOnce'
  <2> SUFFICES ASSUME NEW d \in Customers
               PROVE  /\ announced'[d].notices = Len(ledger'[d])
                      /\ announced'[d].pushes =
                           {ledger'[d][i].movement :
                              i \in {j \in 1..Len(ledger'[d]) :
                                       ledger'[d][j].kind # "REVERSAL"}}
    BY DEF EveryRowAnnouncedOnce
  <2>1. CASE d = c
    BY <1>5, <2>1
  <2>2. CASE d # c
    <3>1. ledger'[d] = ledger[d] /\ announced'[d] = announced[d]
      BY <1>5, <2>2
    <3> QED BY <3>1 DEF BooksInv, EveryRowAnnouncedOnce
  <2> QED BY <2>1, <2>2
<1>11. KeyReplaysItsMovement'
  BY <1>4, <1>7 DEF BooksInv, KeyReplaysItsMovement
<1>12. DeletedCustomerLeavesNothing'
  <2> SUFFICES ASSUME NEW d \in Customers, d \notin live'
               PROVE  /\ cards'[d] = NoCard
                      /\ ledger'[d] = <<>>
                      /\ announced'[d].pushes = {}
                      /\ \A p \in Previews : previews'[p].customer = d
                                               => previews'[p].state = "open"
                      /\ \A k \in Keys : keys'[k].movement # 0
                              => movements'[keys'[k].movement].customer # d
    BY DEF DeletedCustomerLeavesNothing
  <2>0. Gone.customer # d
    BY NoneIsNoId DEF Gone, NoPreview
  <2>1. CASE d = c
    <3>1. ASSUME NEW p \in Previews, previews'[p].customer = c
          PROVE  previews'[p].state = "open"
      <4>1. ~Removed(p, x) /\ previews'[p] = previews[p]
        BY <1>4, <2>0, <2>1, <3>1
      <4>2. <<"preview", p>> \in x.missed
        BY <1>1, <3>1, <4>1 DEF Removed, Owned
      <4> QED BY <1>1, <1>2, <3>1, <4>1, <4>2 DEF ErasureCurrent
    <3>2. ASSUME NEW k \in Keys, keys'[k].movement # 0
          PROVE  movements'[keys'[k].movement].customer # c
      BY <1>4, <1>7, <3>2
    <3> QED BY <1>5, <2>1, <3>1, <3>2
  <2>2. CASE d # c
    <3>1. /\ d \notin live /\ cards[d] = NoCard
          /\ ledger[d] = <<>> /\ announced[d].pushes = {}
          /\ \A p \in Previews : previews[p].customer = d => previews[p].state = "open"
          /\ \A k \in Keys : keys[k].movement # 0
                  => movements[keys[k].movement].customer # d
      BY <1>4, <2>2 DEF BooksInv, DeletedCustomerLeavesNothing
    <3>2. \A k \in Keys : keys'[k].movement # 0
                  => movements'[keys'[k].movement].customer # d
      BY <1>4, <1>7, <3>1
    <3> QED BY <1>5, <1>6, <2>0, <2>2, <3>1, <3>2
  <2> QED BY <2>1, <2>2
<1>13. <<"user", c>> \in rows /\ <<"card", c>> \in rows
  OBVIOUS
<1> HIDE DEF rows, redacted
<1>14. Written(rows)
  <2>1. /\ Catalogued => Catalogued' /\ program'.type = program.type
        /\ \A b \in Benefits : BenefitWritten(b, rows)
    BY <1>4 DEF Catalogued, BenefitWritten
  <2>2. \A p \in Previews : PreviewWritten(p, rows)
    BY <1>6 DEF PreviewWritten, SameTerms
  <2>3. \A d \in Customers :
          \/ <<"card", d>> \in rows
          \/ ledger'[d] = ledger[d] /\ cards'[d].balance = cards[d].balance
    BY <1>5, <1>13
  <2>4. /\ \A a \in live : a \in live' \/ <<"user", a>> \in rows
        /\ \A d \in Customers \cap live : d \in live' \/ <<"card", d>> \in rows
    BY <1>4, <1>13
  <2>5. /\ Len(movements') \in Nat /\ Len(movements') >= Len(movements)
        /\ \A m \in 1..Len(movements) : movements'[m] = movements[m]
    BY <1>4, MovementsTyped DEF BooksInv
  <2> QED BY <1>4, <2>1, <2>2, <2>3, <2>4, <2>5 DEF Written
<1>15. Current'
  <2>1. Continued(rows)
    BY <1>4, FinishTrims, RollBackContinues DEF BooksInv
  <2>2. ErasuresContinue(rows)
    BY <1>4, RollBackErasures DEF BooksInv
  <2> QED BY <1>14, <2>1, <2>2, StaysCurrent
<1>16. PreviewsOffered'
  <2>1. \A p \in Previews :
          ~(previews[p].state = "unused" /\ previews'[p].state = "open")
    BY <1>6, DefaultRowsTyped
  <2> QED BY <1>14, <2>1, TermsStayOffered
<1>17. MovementsOffered'
  BY <1>4, <1>14 DEF BooksInv, MovementsOffered, Written
<1>18. c \notin Managers
  BY AccountsDisjoint, ManagersAreStaff
<1>19. OwnersReach' /\ (Managers # {} => NoOrphanBrand')
  BY <1>4, <1>18 DEF BooksInv, OwnersReach, NoOrphanBrand
<1> QED BY <1>8, <1>9, <1>10, <1>11, <1>12, <1>15, <1>16, <1>17, <1>19
        DEF BooksInv

-----------------------------------------------------------------------------
(* The theorems *)

\* An empty program has nothing to disagree about.
LEMMA InitBooks == Init => BooksInv
<1> SUFFICES ASSUME Init PROVE BooksInv
  OBVIOUS
<1>1. Inv
  BY InitInv
<1>2. Current /\ PreviewsOffered /\ MovementsOffered
  BY DEF Init, Current, PreviewsOffered, MovementsOffered, Idle, NoPreview
<1>3. BalanceFollowsLedger /\ RowsAreJustified /\ EveryRowAnnouncedOnce
  <2>1. \A c \in Customers : /\ ledger[c] = <<>> /\ Len(ledger[c]) = 0
                             /\ announced[c].notices = 0 /\ announced[c].pushes = {}
                             /\ \A type \in Types : cards[c].balance[type] = 0
    BY DEF Init, NoCard
  <2>2. program.type \in Types
    BY <1>1 DEF Inv, TypeOK
  <2> QED BY <2>1, <2>2 DEF BalanceFollowsLedger, LastAfter, RowsAreJustified,
                            EveryRowAnnouncedOnce
<1>4. KeyReplaysItsMovement /\ DeletedCustomerLeavesNothing
  BY DEF Init, KeyReplaysItsMovement, DeletedCustomerLeavesNothing, FreeKey
<1>5. OwnersReach /\ (Managers # {} => NoOrphanBrand)
  BY ManagersAreStaff DEF Init, OwnersReach, NoOrphanBrand
<1> QED BY <1>1, <1>2, <1>3, <1>4, <1>5 DEF BooksInv

\* Every step keeps the books.
LEMMA NextBooks == BooksInv /\ [Next]_vars => BooksInv'
<1> SUFFICES ASSUME BooksInv, [Next]_vars PROVE BooksInv'
  OBVIOUS
<1>1. Inv'
  BY NextInv DEF BooksInv
<1>2. CASE Handlers
  BY <1>1, <1>2, BeginPreviewBooks, CommitPreviewBooks, BeginConfirmBooks,
     CommitConfirmBooks, BeginReversalBooks, CommitReversalBooks, BeginErasureBooks,
     CommitCustomerErasureBooks, CommitStaffErasureBooks, AbortBooks DEF Handlers
<1>3. CASE Management
  BY <1>1, <1>3, CreateBenefitBooks, ReplaceBenefitBooks, BenefitLapsesBooks,
     UpdateProgramBooks, SetBranchAccessBooks, DeleteBrandBooks,
     DeleteBranchBooks DEF Management
<1>4. CASE Retention
  BY <1>1, <1>4, ExpirePreviewBooks, PrunePreviewBooks, PruneKeyBooks DEF Retention
<1>5. CASE UNCHANGED vars
  <2>1. /\ UNCHANGED <<program, brandOpen, branchOpen, access, live, authorized, benefits, cards>>
        /\ UNCHANGED <<ledger, previews, keys, announced, txns, movements>>
    BY <1>5 DEF vars
  <2>2. \A p \in Previews : PreviewQuiet(p, {})
    BY <2>1, SameTermsRefl
  <2>3. Written({})
    <3>1. /\ Catalogued => Catalogued' /\ program'.type = program.type
          /\ \A b \in Benefits : BenefitWritten(b, {})
      BY <2>1 DEF Catalogued, BenefitWritten
    <3> QED BY <2>1, <2>2, <3>1, QuietlyWritten
  <2>4. Continued({}) /\ ErasuresContinue({})
    BY <2>1, SameContinues, SameErasures DEF BooksInv, Inv
  <2>5. OwnersReach' /\ (Managers # {} => NoOrphanBrand')
    BY <2>1, SameOwners
  <2> QED BY <1>1, <2>1, <2>2, <2>3, <2>4, <2>5, QuietStep
<1> QED BY <1>2, <1>3, <1>4, <1>5 DEF Next

\* The inductive invariant of the books holds of every reachable state: what a
\* request checked on its snapshot still stands when it commits (the row locks
\* of ConfirmMovement, ReverseBrandMovement and AnonymizeAccount).
THEOREM BooksInvariant == Spec => []BooksInv
<1> QED BY InitBooks, NextBooks, PTL DEF Spec

\* However confirmations, reversals, deletions and closures interleave, a card
\* shows what its history adds up to, every row is backed by one movement or
\* takes one back once, stamps and points never mix, and every row was announced
\* with its commit (movement.go, brand_movement_reversal.go).
THEOREM BooksAreConsistent == Spec => []LedgerIsConsistent
<1>1. BooksInv => LedgerIsConsistent
  <2> SUFFICES ASSUME BooksInv PROVE ProgramTypeFrozen
    BY DEF BooksInv, LedgerIsConsistent
  <2> QED BY DEF BooksInv, PreviewsOffered, MovementsOffered, Offered,
                 ProgramTypeFrozen
<1> QED BY <1>1, BooksInvariant, PTL

\* Whatever retries, retention and deletions do meanwhile, a completed key
\* answers with the movement its own request made, or with nothing
\* (claimIdempotency, IdempotentResult.Replayed).
THEOREM KeysReplayTheirMovement == Spec => []KeyReplaysItsMovement
<1>1. BooksInv => KeyReplaysItsMovement
  BY DEF BooksInv
<1> QED BY <1>1, BooksInvariant, PTL

\* No request in flight brings back a card, a row, a push or an answer of a
\* customer whose account is deleted (AnonymizeAccount).
THEOREM DeletedCustomersStayDeleted == Spec => []DeletedCustomerLeavesNothing
<1>1. BooksInv => DeletedCustomerLeavesNothing
  BY DEF BooksInv
<1> QED BY <1>1, BooksInvariant, PTL

\* A brand that was created with an owner stays with one who can act for it as
\* long as it is open, however many owners leave at once (AnonymizeAccount).
THEOREM OpenBrandHasOwner ==
    ASSUME Managers # {}
    PROVE  Spec => []NoOrphanBrand
<1>1. BooksInv => NoOrphanBrand
  BY DEF BooksInv
<1> QED BY <1>1, BooksInvariant, PTL

\* A movement commits only while the brand is open, its program active and its
\* customer live, a credit only while its branch is open, and a redemption at the
\* price its benefit has at that instant, though ConfirmMovement read the brand, the
\* branch and the demo access without a lock.  Of a redemption's branch and of the
\* operator's access it says nothing: either may be gone by then.
THEOREM ConfirmsOnCurrentTerms == Spec => ConfirmedOnCurrentTerms
<1> DEFINE Terms ==
       Len(movements') > Len(movements) =>
          LET move == movements'[Len(movements')]
              row == previews[move.preview]
          IN  /\ brandOpen /\ program.active /\ access
              /\ move.kind = "ACUMULACION" => branchOpen
              /\ move.customer \in live
              /\ move.kind = "CANJE" =>
                   /\ benefits[row.benefit].requirement = move.amount
                   /\ benefits[row.benefit].state \in {"active", "lapsed"}
<1>1. BooksInv /\ [Next]_vars => [Terms]_vars
  <2> SUFFICES ASSUME BooksInv, Next, Len(movements') > Len(movements) PROVE Terms
    OBVIOUS
  <2>1. movements' # movements
    BY MovementsTyped DEF BooksInv, Inv
  <2>2. \E t \in Transactions : CommitConfirm(t)
    <3>1. ASSUME Handlers PROVE \E t \in Transactions : CommitConfirm(t)
      <4>1. PICK t \in Transactions :
               \/ \E p \in Previews, s \in Staff, c \in Customers, kind \in Kinds,
                    b \in Benefits \cup {None} : BeginPreview(t, p, s, c, kind, b)
               \/ CommitPreview(t)
               \/ \E s \in Staff, k \in Keys, p \in Previews : BeginConfirm(t, s, k, p)
               \/ CommitConfirm(t)
               \/ \E s \in Staff, m \in 1..Len(movements) : BeginReversal(t, s, m)
               \/ CommitReversal(t)
               \/ \E u \in Customers \cup Staff : BeginErasure(t, u)
               \/ CommitCustomerErasure(t)
               \/ CommitStaffErasure(t)
               \/ Abort(t)
        BY <3>1 DEF Handlers
      <4>2. ~ \E p \in Previews, s \in Staff, c \in Customers, kind \in Kinds,
                 b \in Benefits \cup {None} : BeginPreview(t, p, s, c, kind, b)
        <5> SUFFICES ASSUME NEW p \in Previews, NEW s \in Staff, NEW c \in Customers,
                            NEW kind \in Kinds, NEW b \in Benefits \cup {None},
                            BeginPreview(t, p, s, c, kind, b)
                     PROVE  FALSE
          OBVIOUS
        <5>1. UNCHANGED movements
          BY DEF BeginPreview
        <5> QED BY <2>1, <5>1
      <4>3. ~CommitPreview(t) /\ ~Abort(t)
        BY <2>1 DEF CommitPreview, Abort
      <4>4. ~ \E s \in Staff, k \in Keys, p \in Previews : BeginConfirm(t, s, k, p)
        BY <2>1 DEF BeginConfirm
      <4>5. ~ \E s \in Staff, m \in 1..Len(movements) : BeginReversal(t, s, m)
        BY <2>1 DEF BeginReversal
      <4>6. ~CommitReversal(t)
        BY <2>1 DEF CommitReversal
      <4>7. ~ \E u \in Customers \cup Staff : BeginErasure(t, u)
        BY <2>1 DEF BeginErasure
      <4>8. ~CommitCustomerErasure(t)
        BY <2>1 DEF CommitCustomerErasure
      <4>9. ~CommitStaffErasure(t)
        BY <2>1 DEF CommitStaffErasure
      <4> QED BY <4>1, <4>2, <4>3, <4>4, <4>5, <4>6, <4>7, <4>8, <4>9
    <3>2. ~Management
      <4>1. \A b \in Benefits, n \in Requirements : ~CreateBenefit(b, n)
        BY <2>1 DEF CreateBenefit
      <4>2. \A b \in Benefits, n \in Requirements, state \in {"active", "retired"} :
               ~ReplaceBenefit(b, n, state)
        BY <2>1 DEF ReplaceBenefit
      <4>3. \A b \in Benefits : ~BenefitLapses(b)
        BY <2>1 DEF BenefitLapses
      <4>4. \A type \in Types, active \in BOOLEAN : ~UpdateProgram(type, active)
        BY <2>1 DEF UpdateProgram
      <4>5. \A s \in Staff : ~SetBranchAccess(s)
        BY <2>1 DEF SetBranchAccess
      <4>6. ~DeleteBrand /\ ~DeleteBranch
        BY <2>1 DEF DeleteBrand, DeleteBranch
      <4> QED BY <4>1, <4>2, <4>3, <4>4, <4>5, <4>6 DEF Management
    <3>3. ~Retention
      BY <2>1 DEF Retention, ExpirePreview, PrunePreview, PruneKey
    <3> QED BY <3>1, <3>2, <3>3 DEF Next
  <2>3. PICK t \in Transactions : CommitConfirm(t)
    BY <2>2
  <2> DEFINE row == previews[txns[t].preview]
             move == [preview |-> txns[t].preview, key |-> txns[t].key,
                      customer |-> row.customer, kind |-> row.kind,
                      type |-> row.type, amount |-> row.amount]
  <2>4. txns[t].kind = "confirm" /\ movements' = Append(movements, move)
    BY <2>3 DEF CommitConfirm
  <2>5. ConfirmCurrent(txns[t])
    BY <2>4 DEF BooksInv, Current
  <2>6. /\ Len(movements') = Len(movements) + 1
        /\ movements'[Len(movements) + 1] = move
    <3>1. movements \in Seq(Movement) /\ movements' \in Seq(Movement)
      BY NextInv DEF BooksInv, Inv, TypeOK
    <3> HIDE DEF move
    <3> QED BY <2>4, <3>1, AppendProperties, LenProperties
  <2> QED BY <2>5, <2>6 DEF ConfirmCurrent
<1> QED BY <1>1, BooksInvariant, PTL DEF Spec, ConfirmedOnCurrentTerms

\* A confirmation or a reversal never commits for an operator whose account is
\* already deleted (the foreign key of the row it inserts).
THEOREM LiveOperatorsWrite == Spec => WrittenByLiveOperator
<1> DEFINE Live ==
       \A t \in Transactions :
          /\ txns[t].kind \in {"confirm", "reversal"}
          /\ \E c \in Customers : Len(ledger'[c]) > Len(ledger[c])
          /\ txns'[t].kind = "idle"
          => txns[t].actor \in live
<1>1. BooksInv => Live
  BY DEF BooksInv, Current, ConfirmCurrent, ReversalCurrent
<1>2. BooksInv /\ [Next]_vars => [Live]_vars
  BY <1>1
<1> QED BY <1>2, BooksInvariant, PTL DEF Spec, WrittenByLiveOperator

-----------------------------------------------------------------------------
(* Part three: LoyaltyLedger implements IdealLedger.  Every commit is a       *)
(* booking, a taking back, a forgotten account, or changes nothing that a     *)
(* customer was promised.  First the mapped state.                            *)

Balances == [c \in Customers |-> cards[c].balance[program.type]]
Bookings == [p \in Previews |-> Booking(p)]

Stands(c, m) == Recorded(c, m) /\ ~Reversed(c, m)

\* What a preview is in the books once movement m came of it.
BookedAs(m) ==
    [state |-> IF Stands(movements[m].customer, m) THEN "standing" ELSE "settled",
     customer |-> movements[m].customer, delta |-> Signed(movements[m])]

\* A preview has one confirmation, so Booking has no choice to make.
LEMMA SoleConfirmation ==
    ASSUME OneMovementPerPreview, NEW m \in 1..Len(movements)
    PROVE  Confirmations(movements[m].preview) = {m}
  BY DEF OneMovementPerPreview, Confirmations

\* The booking of a preview that became a movement.
LEMMA BookingOfOne ==
    ASSUME NEW p, NEW m, Confirmations(p) = {m}
    PROVE  Booking(p) = BookedAs(m)
<1>1. m = CHOOSE n \in Confirmations(p) : TRUE
  OBVIOUS
<1> QED BY <1>1 DEF Booking, BookedAs, Stands

\* A preview without confirmation is unbooked; any other has a movement.
LEMMA BookingCases ==
    ASSUME NEW p
    PROVE  /\ Confirmations(p) = {} => Booking(p) = Ideal!Unbooked
           /\ Confirmations(p) # {} => \E m \in 1..Len(movements) : movements[m].preview = p
  BY DEF Booking, Confirmations, Ideal!Unbooked

-----------------------------------------------------------------------------
(* Each commit against the abstract books *)

\* Expiry, retention, management and requests that only begin or roll back: no
\* balance and no booking changes (a change of the program's type, which
\* UpdateProgram allows on empty cards only, shows 0 for 0).
LEMMA QuietBooks ==
    ASSUME BooksInv, Inv', UNCHANGED <<ledger, movements>>,
           \A c \in Customers : cards'[c].balance = cards[c].balance,
           program'.type # program.type => \A c \in Customers : ledger[c] = <<>>
    PROVE  UNCHANGED <<Balances, Bookings>>
<1>1. Balances' = Balances
  <2> SUFFICES ASSUME NEW c \in Customers
               PROVE  cards[c].balance[program'.type] = cards[c].balance[program.type]
    BY DEF Balances
  <2>1. CASE program'.type = program.type
    BY <2>1
  <2>2. CASE program'.type # program.type
    <3>1. program.type \in Types /\ program'.type \in Types
      BY DEF BooksInv, Inv, TypeOK
    <3>2. cards[c].balance[program.type] = 0 /\ cards[c].balance[program'.type] = 0
      BY <2>2, <3>1 DEF BooksInv, BalanceFollowsLedger, LastAfter
    <3> QED BY <3>2
  <2> QED BY <2>1, <2>2
<1>2. Bookings' = Bookings
  BY DEF Bookings, Booking, Confirmations, Recorded, Reversed, Signed
<1> QED BY <1>1, <1>2

\* What one row says of its own movement and leaves as it was of the others.
RowAdded(c, m, kind) ==
    /\ \A d \in Customers : \A n : d # c \/ n # m => (Stands(d, n)' <=> Stands(d, n))
    /\ Recorded(c, m)' <=> Recorded(c, m) \/ kind # "REVERSAL"
    /\ Reversed(c, m)' <=> Reversed(c, m) \/ kind = "REVERSAL"

\* A posted row adds exactly what RowAdded says.
LEMMA PostRecords ==
    ASSUME NEW c \in Customers, NEW m, NEW kind, NEW type, NEW before, NEW after,
           Posted(c, m, kind, type, before, after)
    PROVE  RowAdded(c, m, kind)
<1> DEFINE n == Len(ledger[c])
<1>1. /\ \A d \in Customers \ {c} : ledger'[d] = ledger[d]
      /\ n \in Nat /\ Len(ledger'[c]) = n + 1
      /\ \A i \in 1..n : ledger'[c][i] = ledger[c][i]
      /\ ledger'[c][n + 1].movement = m /\ ledger'[c][n + 1].kind = kind
  BY DEF Posted
<1>2. ASSUME NEW d \in Customers, d # c, NEW o
      PROVE  (Recorded(d, o)' <=> Recorded(d, o)) /\ (Reversed(d, o)' <=> Reversed(d, o))
  BY <1>1, <1>2 DEF Recorded, Reversed
<1>3. \A i : i \in 1..Len(ledger'[c]) <=> i \in 1..n \/ i = n + 1
  BY <1>1
<1>4. ASSUME NEW o
      PROVE  /\ Recorded(c, o)' <=> Recorded(c, o) \/ (o = m /\ kind # "REVERSAL")
             /\ Reversed(c, o)' <=> Reversed(c, o) \/ (o = m /\ kind = "REVERSAL")
  <2> HIDE DEF n
  <2> QED BY <1>1, <1>3 DEF Recorded, Reversed, n
<1> QED BY <1>2, <1>4 DEF RowAdded, Stands

\* The booking of a preview follows its own movement and nothing else.
LEMMA SameBooking ==
    ASSUME BooksInv, NEW p \in Previews, MovementsGrow,
           Confirmations(p)' = Confirmations(p),
           \A n \in Confirmations(p), c \in Customers :
              c = movements[n].customer => (Stands(c, n)' <=> Stands(c, n))
    PROVE  Booking(p)' = Booking(p)
<1>1. CASE Confirmations(p) = {}
  BY <1>1 DEF Booking
<1>2. CASE Confirmations(p) # {}
  <2>1. PICK n \in 1..Len(movements) : n \in Confirmations(p) /\ movements[n].preview = p
    BY <1>2 DEF Confirmations
  <2>2. PICK c \in Customers : c = movements[n].customer
    BY MovementsTyped, MovementFields DEF BooksInv, Inv
  <2>3. Confirmations(p) = {n}
    BY <2>1, SoleConfirmation DEF BooksInv, Inv
  <2>4. Confirmations(p)' = {n} /\ movements'[n] = movements[n]
    BY <2>3 DEF MovementsGrow
  <2>5. Booking(p) = [state |-> IF Stands(c, n) THEN "standing" ELSE "settled",
                      customer |-> c, delta |-> Signed(movements[n])]
    BY <2>2, <2>3, BookingOfOne DEF BookedAs
  <2>6. n = CHOOSE k \in Confirmations(p)' : TRUE
    BY <2>4
  <2>7. Booking(p)' = [state |-> IF Stands(c, n)' THEN "standing" ELSE "settled",
                       customer |-> c, delta |-> Signed(movements[n])]
    BY <2>2, <2>4, <2>6 DEF Booking, Stands
  <2>8. Stands(c, n)' <=> Stands(c, n)
    BY <2>1, <2>2
  <2> QED BY <2>5, <2>7, <2>8
<1> QED BY <1>1, <1>2

\* The amount a movement moves: never none, and within MaxDelta.
LEMMA SignedBounds ==
    ASSUME NEW move, NEW n \in Amount, move.amount = n
    PROVE  /\ Signed(move) \in (-MaxDelta..MaxDelta) \ {0}
           /\ Signed(move) = IF move.kind = "CANJE" THEN -n ELSE n
<1>1. n \in Nat /\ n >= 1 /\ n <= MaxDelta /\ MaxDelta \in Nat
  BY AmountsPositive, DeltaCoversAmounts DEF Amount
<1> QED BY <1>1 DEF Signed

\* The balance a card shows, after a row was posted to it.
LEMMA PostedBalances ==
    ASSUME BooksInv, NEW c \in Customers, NEW m, NEW kind, NEW before, NEW after,
           Posted(c, m, kind, program.type, before, after), UNCHANGED program
    PROVE  Balances' = [Balances EXCEPT ![c] = after]
  BY DEF Posted, Balances

\* IdealLedger's Book over the mapped state.
BookStep(p) ==
    LET b == Bookings'[p]
    IN  /\ Bookings[p].state = "unbooked" /\ b.state = "standing"
        /\ b.customer \in Customers /\ b.delta \in (-MaxDelta..MaxDelta) \ {0}
        /\ Bookings' = [Bookings EXCEPT ![p] = b]
        /\ Balances[b.customer] + b.delta >= 0
        /\ Balances' = [Balances EXCEPT ![b.customer] = @ + b.delta]

\* ConfirmMovement books its preview: unbooked before, for nobody else after.
LEMMA ConfirmBooks ==
    ASSUME BooksInv, BooksInv', NEW t \in Transactions, CommitConfirm(t)
    PROVE  \E p \in Previews : BookStep(p)
<1> USE DEF Inv
<1>1. PICK p \in Previews : txns[t].kind = "confirm" /\ p = txns[t].preview
  BY DEF CommitConfirm, BooksInv, InFlight, ConfirmInFlight
<1> DEFINE row == previews[p]
<1>2. ConfirmInFlight(txns[t]) /\ ConfirmCurrent(txns[t])
  BY <1>1 DEF BooksInv, InFlight, Current
<1>3. /\ row \in PreviewRow /\ row.state = "open" /\ Filled(row) /\ Offered(row)
  BY <1>1, <1>2 DEF BooksInv, TypeOK, ConfirmInFlight, PreviewsFilled, PreviewsOffered
<1>4. PICK c \in Customers : c = row.customer
  BY <1>3 DEF Filled
<1>5. PICK before \in Nat : before = txns[t].balance
  BY DEF BooksInv, TypeOK, Transaction
<1>6. PICK m \in Nat \ {0} : m = Len(movements) + 1
  BY MovementsTyped DEF BooksInv
<1>7. PICK kind \in Kinds, n \in Amount : kind = row.kind /\ n = row.amount
  BY <1>3 DEF PreviewRow, Offered
<1> DEFINE after == IF kind = "CANJE" THEN before - n ELSE before + n
           move == [preview |-> p, key |-> txns[t].key, customer |-> c,
                    kind |-> kind, type |-> row.type, amount |-> n]
<1>8. /\ Post(c, m, kind, row.type, before, after)
      /\ movements' = Append(movements, move)
      /\ UNCHANGED program
  BY <1>1, <1>4, <1>5, <1>6, <1>7 DEF CommitConfirm, brandVars
<1>9. /\ row.type = program.type /\ n \in Nat /\ program.type \in Types
      /\ kind = "CANJE" => before >= n
      /\ before = cards[c].balance[program.type]
  <2>1. kind = "CANJE" => before >= n
    BY <1>1, <1>2, <1>3, <1>5, <1>7 DEF ConfirmInFlight, Filled
  <2>2. before = cards[c].balance[program.type]
    BY <1>1, <1>2, <1>4, <1>5 DEF ConfirmCurrent
  <2> QED BY <1>3, <1>7, <2>1, <2>2 DEF PreviewRow, Offered, BooksInv, TypeOK
<1>10. after \in Nat
  BY <1>9
<1> HIDE DEF after
<1>11. Posted(c, m, kind, program.type, before, after)
  BY <1>8, <1>9, <1>10, PostAppends DEF BooksInv
<1>12. /\ MovementsGrow
       /\ Len(movements') = m /\ movements'[m] = move
  <2>1. movements \in Seq(Movement) /\ movements' \in Seq(Movement)
    BY DEF BooksInv, TypeOK
  <2> HIDE DEF move
  <2>2. /\ Len(movements') = Len(movements) + 1
        /\ movements'[Len(movements) + 1] = move
        /\ \A i \in 1..Len(movements) : movements'[i] = movements[i]
    BY <1>8, <2>1, AppendProperties
  <2> QED BY <1>6, <2>1, <2>2, LenProperties DEF MovementsGrow
<1>13. RowAdded(c, m, kind) /\ kind # "REVERSAL"
  BY <1>11, PostRecords DEF Kinds
<1>14. Confirmations(p) = {}
  BY <1>3 DEF BooksInv, MovedPreviewsSpent, Confirmations
<1>15. Confirmations(p)' = {m}
  <2>1. m \in 1..Len(movements') /\ movements'[m].preview = p
    BY <1>6, <1>12
  <2> QED BY <2>1 DEF Confirmations, BooksInv, OneMovementPerPreview
<1>16. Stands(c, m)'
  <2>1. ~Reversed(c, m)
    <3>1. \A i \in 1..Len(ledger[c]) : ledger[c][i].movement \in 1..Len(movements)
      BY DEF BooksInv, RowsAreJustified, RowIsJustified
    <3>2. m \notin 1..Len(movements)
      BY <1>6
    <3> QED BY <3>1, <3>2 DEF Reversed
  <2> QED BY <1>13, <2>1 DEF RowAdded, Stands
<1>17. Booking(p)' = [state |-> "standing", customer |-> c, delta |-> Signed(move)]
  <2>1. m = CHOOSE k \in Confirmations(p)' : TRUE
    BY <1>15
  <2>2. movements'[m].customer = c
    BY <1>12
  <2> QED BY <1>12, <1>15, <1>16, <2>1, <2>2 DEF Booking, Stands
<1>18. /\ Signed(move) \in (-MaxDelta..MaxDelta) \ {0}
       /\ after = before + Signed(move) /\ after >= 0
  <2>1. move.amount = n /\ move.kind = kind
    OBVIOUS
  <2> HIDE DEF move
  <2>2. /\ Signed(move) \in (-MaxDelta..MaxDelta) \ {0}
        /\ Signed(move) = IF kind = "CANJE" THEN -n ELSE n
    BY <2>1, SignedBounds
  <2> QED BY <1>9, <1>10, <2>2 DEF after
<1>19. \A q \in Previews \ {p} : Booking(q)' = Booking(q)
  <2> SUFFICES ASSUME NEW q \in Previews \ {p} PROVE Booking(q)' = Booking(q)
    OBVIOUS
  <2>1. Confirmations(q)' = Confirmations(q)
    <3>1. \A i : i \in 1..Len(movements') <=> i \in 1..Len(movements) \/ i = m
      BY <1>6, <1>12, MovementsTyped DEF BooksInv
    <3>2. \A i \in 1..Len(movements) : movements'[i] = movements[i]
      BY <1>12 DEF MovementsGrow
    <3>3. movements'[m].preview # q
      BY <1>12
    <3> QED BY <3>1, <3>2, <3>3 DEF Confirmations
  <2>2. \A i \in Confirmations(q) : i # m
    BY <1>6 DEF Confirmations
  <2> QED BY <1>12, <1>13, <2>1, <2>2, SameBooking DEF RowAdded
<1> HIDE DEF move
<1>20. Bookings' = [Bookings EXCEPT ![p] = Booking(p)']
  BY <1>19 DEF Bookings
<1>21. Balances' = [Balances EXCEPT ![c] = after] /\ Balances[c] = before
  BY <1>8, <1>9, <1>11, PostedBalances DEF Balances
<1>22. Booking(p).state = "unbooked"
  BY <1>14 DEF Booking
<1>23. Bookings[p].state = "unbooked" /\ Bookings'[p] = Booking(p)'
  BY <1>22 DEF Bookings
<1>24. Balances' = [Balances EXCEPT ![c] = Balances[c] + Signed(move)]
  BY <1>18, <1>21
<1>25. BookStep(p)
  <2>1. PICK b : b = Bookings'[p]
    OBVIOUS
  <2>2. /\ b.state = "standing" /\ b.customer = c /\ b.delta = Signed(move)
        /\ Bookings' = [Bookings EXCEPT ![p] = b]
    BY <1>17, <1>20, <1>23, <2>1
  <2>3. Balances' = [Balances EXCEPT ![b.customer] = @ + b.delta]
    BY <1>24, <2>2
  <2>4. Balances[b.customer] + b.delta >= 0
    BY <1>18, <1>21, <2>2
  <2>5. b.customer \in Customers /\ b.delta \in (-MaxDelta..MaxDelta) \ {0}
    BY <1>18, <2>2
  <2> QED BY <1>23, <2>1, <2>2, <2>3, <2>4, <2>5 DEF BookStep
<1> QED BY <1>25

\* IdealLedger's TakeBack over the mapped state.
TakeBackStep(p) ==
    LET b == Bookings[p]
    IN  /\ b.state = "standing"
        /\ Balances[b.customer] - b.delta >= 0
        /\ Balances' = [Balances EXCEPT ![b.customer] = @ - b.delta]
        /\ Bookings' = [Bookings EXCEPT ![p].state = "settled"]

\* ReverseBrandMovement takes back the preview its movement came of.
LEMMA ReversalTakesBack ==
    ASSUME BooksInv, BooksInv', NEW t \in Transactions, CommitReversal(t)
    PROVE  \E p \in Previews : TakeBackStep(p)
<1> USE DEF Inv
<1>1. PICK m \in 1..Len(movements) : txns[t].kind = "reversal" /\ m = txns[t].movement
  BY DEF CommitReversal, BooksInv, InFlight, ReversalInFlight
<1> DEFINE move == movements[m]
<1>2. PICK p \in Previews, c \in Customers : p = move.preview /\ c = move.customer
  BY MovementsTyped, MovementFields DEF BooksInv
<1>3. PICK before \in Nat : before = txns[t].balance
  BY DEF BooksInv, TypeOK, Transaction
<1> DEFINE after == IF move.kind = "CANJE" THEN before + move.amount
                                           ELSE before - move.amount
<1>4. /\ Post(c, m, "REVERSAL", move.type, before, after)
      /\ UNCHANGED <<program, movements>>
  BY <1>1, <1>2, <1>3 DEF CommitReversal, brandVars
<1>5. /\ ReversalInFlight(txns[t]) /\ ReversalCurrent(txns[t])
  BY <1>1 DEF BooksInv, InFlight, Current
<1>6. /\ move.type = program.type /\ move.kind \in Kinds /\ move.amount \in Amount
      /\ move.amount \in Nat /\ m \in Nat \ {0} /\ program.type \in Types
  BY MovementsTyped, MovementFields DEF BooksInv, MovementsOffered, TypeOK
<1>7. /\ before = cards[c].balance[program.type]
      /\ Recorded(c, m) /\ ~Reversed(c, m)
  BY <1>1, <1>2, <1>3, <1>5 DEF ReversalCurrent
<1>8. after \in Nat
  BY <1>1, <1>3, <1>5, <1>6 DEF ReversalInFlight, Kinds
<1>9. after = before - Signed(move)
  BY <1>6 DEF Signed
<1> HIDE DEF after
<1>10. Posted(c, m, "REVERSAL", program.type, before, after)
  BY <1>4, <1>6, <1>8, PostAppends DEF BooksInv
<1>11. RowAdded(c, m, "REVERSAL")
  BY <1>10, PostRecords
<1>12. Confirmations(p) = {m} /\ Confirmations(p)' = {m}
  BY <1>2, <1>4, SoleConfirmation DEF BooksInv, Confirmations
<1>13. Booking(p) = [state |-> "standing", customer |-> c, delta |-> Signed(move)]
  BY <1>2, <1>7, <1>12, BookingOfOne DEF BookedAs, Stands
<1>14. Booking(p)' = [state |-> "settled", customer |-> c, delta |-> Signed(move)]
  <2>1. m = CHOOSE k \in Confirmations(p)' : TRUE
    BY <1>12
  <2>2. ~Stands(c, m)'
    BY <1>11 DEF RowAdded, Stands
  <2> QED BY <1>2, <1>4, <1>12, <2>1, <2>2 DEF Booking, Stands
<1>15. \A q \in Previews \ {p} : Booking(q)' = Booking(q)
  <2> SUFFICES ASSUME NEW q \in Previews \ {p} PROVE Booking(q)' = Booking(q)
    OBVIOUS
  <2>1. Confirmations(q)' = Confirmations(q) /\ m \notin Confirmations(q)
    BY <1>2, <1>4 DEF Confirmations
  <2>2. MovementsGrow
    BY <1>4, MovementsTyped DEF MovementsGrow, BooksInv
  <2> QED BY <1>11, <2>1, <2>2, SameBooking DEF RowAdded
<1>16. Bookings' = [Bookings EXCEPT ![p].state = "settled"] /\ Bookings[p] = Booking(p)
  <2>1. [Booking(p) EXCEPT !.state = "settled"] = Booking(p)'
    BY <1>13, <1>14
  <2> QED BY <1>15, <2>1 DEF Bookings
<1>17. Balances' = [Balances EXCEPT ![c] = after] /\ Balances[c] = before
  BY <1>4, <1>7, <1>10, PostedBalances DEF Balances
<1> HIDE DEF move
<1>18. TakeBackStep(p)
  <2>1. PICK b : b = Bookings[p]
    OBVIOUS
  <2>2. b.state = "standing" /\ b.customer = c /\ b.delta = Signed(move)
    BY <1>13, <1>16, <2>1
  <2>3. Balances' = [Balances EXCEPT ![b.customer] = @ - b.delta]
    BY <1>9, <1>17, <2>2
  <2>4. Balances[b.customer] - b.delta >= 0
    BY <1>8, <1>9, <1>17, <2>2
  <2> QED BY <1>16, <2>1, <2>2, <2>3, <2>4 DEF TakeBackStep
<1> QED BY <1>18

\* IdealLedger's Forget over the mapped state.
ForgetStep(c) ==
    /\ Balances' = [Balances EXCEPT ![c] = 0]
    /\ Bookings' = [p \in Previews |->
                      IF Bookings[p].customer = c
                      THEN [Bookings[p] EXCEPT !.state = "settled"] ELSE Bookings[p]]

\* AnonymizeAccount forgets what stood for the customer, and nobody else's.
LEMMA ErasureForgets ==
    ASSUME BooksInv, BooksInv', NEW t \in Transactions, CommitCustomerErasure(t)
    PROVE  \E c \in Customers : ForgetStep(c)
<1> USE DEF Inv
<1>1. PICK c \in Customers : c = txns[t].actor /\ txns[t].kind = "erasure"
  BY DEF CommitCustomerErasure
<1>2. <<"card", c>> \notin txns[t].missed
  BY <1>1 DEF BooksInv, Current, ErasureCurrent
<1>3. /\ cards' = [cards EXCEPT ![c] = NoCard]
      /\ ledger' = [ledger EXCEPT ![c] = <<>>]
      /\ UNCHANGED <<program, movements>>
  BY <1>1, <1>2 DEF CommitCustomerErasure, brandVars
<1>4. /\ cards'[c] = NoCard /\ ledger'[c] = <<>>
      /\ \A d \in Customers \ {c} : cards'[d] = cards[d] /\ ledger'[d] = ledger[d]
  BY <1>3 DEF BooksInv, TypeOK
<1>5. Balances' = [Balances EXCEPT ![c] = 0]
  <2>1. NoCard.balance[program.type] = 0
    BY DEF NoCard, BooksInv, TypeOK
  <2>2. /\ cards'[c].balance[program'.type] = 0
        /\ \A d \in Customers \ {c} :
              cards'[d].balance[program'.type] = cards[d].balance[program.type]
    BY <1>3, <1>4, <2>1
  <2> QED BY <2>2 DEF Balances
<1>6. ASSUME NEW p \in Previews
      PROVE  Booking(p)' = IF Booking(p).customer = c
                           THEN [Booking(p) EXCEPT !.state = "settled"] ELSE Booking(p)
  <2>1. CASE Confirmations(p) = {}
    <3>1. Booking(p).customer # c
      BY <2>1, NoneIsNoId DEF Booking
    <3> QED BY <1>3, <2>1, <3>1 DEF Booking, Confirmations
  <2>2. CASE Confirmations(p) # {}
    <3>1. PICK m \in 1..Len(movements) : movements[m].preview = p
      BY <2>2, BookingCases
    <3>2. PICK d \in Customers : d = movements[m].customer
      BY MovementsTyped, MovementFields DEF BooksInv
    <3>3. Confirmations(p) = {m} /\ Confirmations(p)' = {m}
      BY <1>3, <3>1, SoleConfirmation DEF BooksInv, Confirmations
    <3>4. Booking(p) = [state |-> IF Stands(d, m) THEN "standing" ELSE "settled",
                        customer |-> d, delta |-> Signed(movements[m])]
      BY <3>2, <3>3, BookingOfOne DEF BookedAs
    <3>5. Booking(p)' = [state |-> IF Stands(d, m)' THEN "standing" ELSE "settled",
                         customer |-> d, delta |-> Signed(movements[m])]
      <4>1. m = CHOOSE k \in Confirmations(p)' : TRUE
        BY <3>3
      <4> QED BY <1>3, <3>2, <3>3, <4>1 DEF Booking, Stands
    <3>6. CASE d = c
      <4>1. ~Stands(d, m)'
        BY <1>4, <3>6 DEF Stands, Recorded
      <4> QED BY <3>4, <3>5, <3>6, <4>1
    <3>7. CASE d # c
      <4>1. Stands(d, m)' <=> Stands(d, m)
        BY <1>4, <3>7 DEF Stands, Recorded, Reversed
      <4> QED BY <3>4, <3>5, <3>7, <4>1
    <3> QED BY <3>6, <3>7
  <2> QED BY <2>1, <2>2
<1>7. ForgetStep(c)
  BY <1>5, <1>6 DEF ForgetStep, Bookings
<1> QED BY <1>7

-----------------------------------------------------------------------------
(* The theorem *)

\* The remaining steps leave every card's history and its balance alone.
LEMMA OtherSteps ==
    ASSUME BooksInv, BooksInv', [Next]_vars,
           \A t \in Transactions : ~CommitConfirm(t) /\ ~CommitReversal(t)
                                     /\ ~CommitCustomerErasure(t)
    PROVE  UNCHANGED <<Balances, Bookings>>
<1> USE DEF Inv
<1> DEFINE Quiet == /\ UNCHANGED <<ledger, movements>>
                    /\ \A c \in Customers : cards'[c].balance = cards[c].balance
                    /\ program'.type # program.type
                          => \A c \in Customers : ledger[c] = <<>>
<1>1. ASSUME NEW missed
      PROVE  \A c \in Customers : ClosedCards(missed)[c].balance = cards[c].balance
  <2> SUFFICES ASSUME NEW c \in Customers
               PROVE  ClosedCards(missed)[c].balance = cards[c].balance
    OBVIOUS
  <2>1. cards[c] \in CardRow
    BY DEF BooksInv, TypeOK
  <2> QED BY <2>1 DEF ClosedCards, CardRow
<1>2. ASSUME Handlers PROVE Quiet
  <2>1. PICK t \in Transactions :
           \/ \E p \in Previews, s \in Staff, c \in Customers, kind \in Kinds,
                b \in Benefits \cup {None} : BeginPreview(t, p, s, c, kind, b)
           \/ CommitPreview(t)
           \/ \E s \in Staff, k \in Keys, p \in Previews : BeginConfirm(t, s, k, p)
           \/ \E s \in Staff, m \in 1..Len(movements) : BeginReversal(t, s, m)
           \/ \E u \in Customers \cup Staff : BeginErasure(t, u)
           \/ CommitStaffErasure(t)
           \/ Abort(t)
    BY <1>2 DEF Handlers
  <2>2. CASE \E p \in Previews, s \in Staff, c \in Customers, kind \in Kinds,
               b \in Benefits \cup {None} : BeginPreview(t, p, s, c, kind, b)
    <3>1. PICK p \in Previews, s \in Staff, c \in Customers, kind \in Kinds,
               b \in Benefits \cup {None} : BeginPreview(t, p, s, c, kind, b)
      BY <2>2
    <3>2. UNCHANGED <<program, cards, ledger, movements>>
      BY <3>1 DEF BeginPreview, brandVars
    <3> QED BY <3>2
  <2>3. CASE CommitPreview(t)
    BY <2>3 DEF CommitPreview, brandVars
  <2>4. CASE \E s \in Staff, k \in Keys, p \in Previews : BeginConfirm(t, s, k, p)
    BY <2>4 DEF BeginConfirm, brandVars
  <2>5. CASE \E s \in Staff, m \in 1..Len(movements) : BeginReversal(t, s, m)
    BY <2>5 DEF BeginReversal, brandVars
  <2>6. CASE \E u \in Customers \cup Staff : BeginErasure(t, u)
    BY <2>6 DEF BeginErasure, brandVars
  <2>7. CASE CommitStaffErasure(t)
    <3>1. /\ UNCHANGED <<ledger, movements>>
          /\ cards' = cards \/ cards' = ClosedCards(txns[t].missed)
          /\ \E active \in BOOLEAN : program' = [program EXCEPT !.active = active]
      BY <2>7 DEF CommitStaffErasure, BooksInv, TypeOK
    <3>2. program'.type = program.type
      BY <3>1 DEF BooksInv, TypeOK
    <3> QED BY <1>1, <3>1, <3>2
  <2>8. CASE Abort(t)
    BY <2>8 DEF Abort, brandVars
  <2> QED BY <2>1, <2>2, <2>3, <2>4, <2>5, <2>6, <2>7, <2>8
<1>3. ASSUME Management PROVE Quiet
  <2>1. ASSUME NEW b \in Benefits, NEW n \in Requirements, CreateBenefit(b, n)
        PROVE  Quiet
    BY <2>1 DEF CreateBenefit
  <2>2. ASSUME NEW b \in Benefits, NEW n \in Requirements,
               NEW state \in {"active", "retired"}, ReplaceBenefit(b, n, state)
        PROVE  Quiet
    BY <2>2 DEF ReplaceBenefit
  <2>3. ASSUME NEW b \in Benefits, BenefitLapses(b)
        PROVE  Quiet
    BY <2>3 DEF BenefitLapses
  <2>4. ASSUME NEW type \in Types, NEW active \in BOOLEAN, UpdateProgram(type, active)
        PROVE  Quiet
    BY <2>4 DEF UpdateProgram, TypeMayChange
  <2>5. ASSUME NEW s \in Staff, SetBranchAccess(s)
        PROVE  Quiet
    BY <2>5 DEF SetBranchAccess
  <2>6. ASSUME DeleteBrand PROVE Quiet
    <3>1. program'.type = program.type
      BY <2>6 DEF DeleteBrand, BooksInv, TypeOK
    <3>2. UNCHANGED <<ledger, movements>> /\ cards' = ClosedCards({})
      BY <2>6 DEF DeleteBrand
    <3> QED BY <1>1, <3>1, <3>2
  <2>7. ASSUME DeleteBranch PROVE Quiet
    BY <2>7 DEF DeleteBranch
  <2> HIDE DEF Quiet
  <2> QED BY <1>3, <2>1, <2>2, <2>3, <2>4, <2>5, <2>6, <2>7 DEF Management
<1>4. ASSUME Retention PROVE Quiet
  BY <1>4 DEF Retention, ExpirePreview, PrunePreview, PruneKey, brandVars
<1>5. ASSUME UNCHANGED vars PROVE Quiet
  BY <1>5 DEF vars
<1>6. Quiet
  BY <1>2, <1>3, <1>4, <1>5 DEF Next
<1> QED BY <1>6, QuietBooks DEF BooksInv

\* The initial books: nothing booked, nobody with a balance.
LEMMA InitIdeal == Init => Ideal!IdealInit
<1> SUFFICES ASSUME Init PROVE Ideal!IdealInit
  OBVIOUS
<1>1. \A c \in Customers : cards[c].balance[program.type] = 0
  BY DEF Init, NoCard
<1>2. \A p \in Previews : Booking(p) = Ideal!Unbooked
  BY BookingCases DEF Init
<1> QED BY <1>1, <1>2 DEF Ideal!IdealInit

\* Every step of the service books, takes back, forgets, or changes none of it.
LEMMA StepMapped ==
    ASSUME BooksInv, BooksInv', [Next]_vars
    PROVE  \/ \E p \in Previews : BookStep(p) \/ TakeBackStep(p)
           \/ \E c \in Customers : ForgetStep(c)
           \/ UNCHANGED <<Balances, Bookings>>
  BY ConfirmBooks, ReversalTakesBack, ErasureForgets, OtherSteps

\* Those are the steps of IdealLedger.
LEMMA StepIdeal ==
    BooksInv /\ BooksInv' /\ [Next]_vars => [Ideal!IdealNext]_(Ideal!idealVars)
<1> SUFFICES ASSUME BooksInv, BooksInv', [Next]_vars
             PROVE  Ideal!IdealNext \/ UNCHANGED Ideal!idealVars
  OBVIOUS
<1>1. ASSUME NEW p \in Previews, BookStep(p) PROVE Ideal!IdealNext
  <2>1. Ideal!Book(p)
    BY <1>1 DEF BookStep, Ideal!Book, Bookings, Balances
  <2> QED BY <2>1 DEF Ideal!IdealNext
<1>2. ASSUME NEW p \in Previews, TakeBackStep(p) PROVE Ideal!IdealNext
  <2>1. Ideal!TakeBack(p)
    BY <1>2 DEF TakeBackStep, Ideal!TakeBack, Bookings, Balances
  <2> QED BY <2>1 DEF Ideal!IdealNext
<1>3. ASSUME NEW c \in Customers, ForgetStep(c) PROVE Ideal!IdealNext
  <2>1. Ideal!Forget(c)
    BY <1>3 DEF ForgetStep, Ideal!Forget, Bookings, Balances
  <2> QED BY <2>1 DEF Ideal!IdealNext
<1>4. ASSUME UNCHANGED <<Balances, Bookings>> PROVE UNCHANGED Ideal!idealVars
  BY <1>4 DEF Ideal!idealVars, Balances, Bookings
<1> QED BY <1>1, <1>2, <1>3, <1>4, StepMapped

\* Whatever interleaves and whatever retention or a deletion removes, a customer
\* and a shop see a previewed operation count at most once, be taken back at most
\* once by the same amount, and no balance change otherwise.
THEOREM LedgerImplementsIdeal == Spec => ImplementsIdealLedger
<1> QED BY InitIdeal, StepIdeal, BooksInvariant, PTL
        DEF Spec, ImplementsIdealLedger, Ideal!IdealSpec

-----------------------------------------------------------------------------
(* Sums over finite sets, by the least counterexample *)

\* MapThenSumSet's recursion over the subsets of S.
SumOn(g, b, S) ==
    g = [s \in SUBSET S |->
           IF s = {} THEN 0
           ELSE LET x == CHOOSE x \in s : TRUE IN b[x].delta + g[s \ {x}]]

Total(b, S) == (CHOOSE g : SumOn(g, b, S))[S]

\* A set of numbers has a least one: what induction on a size comes down to.
LEMMA LeastNumber ==
    ASSUME NEW T \in SUBSET Nat, T # {}
    PROVE  \E n \in T : \A m \in T : n <= m
<1> DEFINE R == {ss \in Nat \X Nat : ss[1] < ss[2]}
<1>1. IsWellFoundedOn(R, Nat)
  BY NatLessThanWellFounded, Zenon DEF OpToRel
<1>2. \A x, y \in Nat : x < y => <<x, y>> \in R
  OBVIOUS
<1> HIDE DEF R
<1>3. PICK x \in T : \A y \in T : ~ (<<y, x>> \in R)
  BY <1>1, WFMin
<1>4. \A y \in T : ~(y < x) /\ y \in Nat /\ x \in Nat
  BY <1>2, <1>3
<1> QED BY <1>4

\* Among subsets of a finite set one has no element whose removal leaves another.
LEMMA SmallestSubset ==
    ASSUME NEW S, IsFiniteSet(S), NEW T, T \subseteq SUBSET S, T # {}
    PROVE  \E s \in T : \A x \in s : s \ {x} \notin T
<1> DEFINE Sizes == {Cardinality(s) : s \in T}
<1>1. ASSUME NEW s \in T
      PROVE  /\ Cardinality(s) \in Nat
             /\ \A x \in s : Cardinality(s \ {x}) = Cardinality(s) - 1
  <2>1. IsFiniteSet(s)
    BY FS_Subset
  <2> QED BY <2>1, FS_CardinalityType, FS_RemoveElement
<1>2. Sizes \in SUBSET Nat /\ Sizes # {}
  BY <1>1
<1>3. PICK n \in Sizes : \A m \in Sizes : n <= m
  <2> HIDE DEF Sizes
  <2> QED BY <1>2, LeastNumber
<1>4. PICK s \in T : n = Cardinality(s)
  BY <1>3
<1>5. ASSUME NEW x \in s, s \ {x} \in T PROVE FALSE
  <2>1. n <= Cardinality(s \ {x})
    BY <1>3, <1>5
  <2> QED BY <1>1, <1>4, <2>1
<1> QED BY <1>5

\* The recursion read one step at a time.
LEMMA SumOnStep ==
    ASSUME NEW g, NEW b, NEW S, SumOn(g, b, S), NEW s \in SUBSET S
    PROVE  /\ s = {} => g[s] = 0
           /\ s # {} => \E x \in s : /\ x = CHOOSE y \in s : TRUE
                                     /\ g[s] = b[x].delta + g[s \ {x}]
<1>1. g[s] = IF s = {} THEN 0
             ELSE LET x == CHOOSE x \in s : TRUE IN b[x].delta + g[s \ {x}]
  BY DEF SumOn
<1>2. s # {} => (CHOOSE y \in s : TRUE) \in s
  OBVIOUS
<1> QED BY <1>1, <1>2

\* It gives one value to each subset, whatever set it started from.
LEMMA SumUnique ==
    ASSUME NEW g, NEW h, NEW a, NEW b, NEW S, NEW U, IsFiniteSet(S), S \subseteq U,
           SumOn(g, a, S), SumOn(h, b, U), \A o \in S : a[o].delta = b[o].delta
    PROVE  \A s \in SUBSET S : g[s] = h[s]
<1> DEFINE T == {s \in SUBSET S : g[s] # h[s]}
<1> SUFFICES ASSUME T # {} PROVE FALSE
  OBVIOUS
<1>1. PICK s \in T : \A x \in s : s \ {x} \notin T
  <2>1. T \subseteq SUBSET S
    OBVIOUS
  <2> HIDE DEF T
  <2> QED BY <2>1, SmallestSubset
<1>2. s \in SUBSET S /\ s \in SUBSET U
  BY <1>1
<1>3. s # {}
  BY <1>1, <1>2, SumOnStep
<1>4. PICK x \in s : /\ x = CHOOSE y \in s : TRUE
                     /\ g[s] = a[x].delta + g[s \ {x}]
  BY <1>2, <1>3, SumOnStep
<1>5. h[s] = b[x].delta + h[s \ {x}]
  <2>1. PICK z \in s : /\ z = CHOOSE y \in s : TRUE
                       /\ h[s] = b[z].delta + h[s \ {z}]
    BY <1>2, <1>3, SumOnStep
  <2> QED BY <1>4, <2>1
<1>6. g[s \ {x}] = h[s \ {x}]
  BY <1>1, <1>2
<1> QED BY <1>1, <1>2, <1>4, <1>5, <1>6

\* There is such a sum: built one size of subsets after the other.
LEMMA SumExists ==
    ASSUME NEW b, NEW S, IsFiniteSet(S)
    PROVE  \E g : SumOn(g, b, S)
<1> DEFINE Small(n) == {s \in SUBSET S : Cardinality(s) <= n}
           Up(g, n) == [s \in Small(n) |->
                          IF s = {} THEN 0
                          ELSE LET x == CHOOSE x \in s : TRUE
                               IN  b[x].delta + g[s \ {x}]]
           Missing == {n \in Nat : ~ \E g : g = Up(g, n)}
<1>1. ASSUME NEW s \in SUBSET S
      PROVE  /\ IsFiniteSet(s) /\ Cardinality(s) \in Nat
             /\ Cardinality(s) <= Cardinality(S) /\ Cardinality(S) \in Nat
             /\ \A x \in s : Cardinality(s \ {x}) = Cardinality(s) - 1
             /\ Cardinality(s) = 0 => s = {}
  <2>1. IsFiniteSet(s) /\ Cardinality(s) <= Cardinality(S)
    BY FS_Subset
  <2> QED BY <2>1, FS_CardinalityType, FS_RemoveElement, FS_EmptySet
<1>2. Missing = {}
  <2> SUFFICES ASSUME Missing # {} PROVE FALSE
    OBVIOUS
  <2>1. PICK n \in Missing : \A m \in Missing : n <= m
    <3>1. Missing \in SUBSET Nat
      OBVIOUS
    <3> HIDE DEF Missing
    <3> QED BY <3>1, LeastNumber
  <2>2. CASE n = 0
    <3> DEFINE g == [s \in Small(0) |-> 0]
    <3>1. \A s \in Small(0) : s = {}
      BY <1>1
    <3>2. g = Up(g, 0)
      BY <3>1
    <3> QED BY <2>1, <2>2, <3>2
  <2>3. CASE n # 0
    <3>1. n \in Nat /\ n - 1 \in Nat /\ n - 1 \notin Missing
      <4>1. n \in Nat /\ Missing \subseteq Nat
        BY <2>1
      <4> HIDE DEF Missing
      <4> QED BY <2>1, <2>3, <4>1
    <3>2. PICK g : g = Up(g, n - 1)
      BY <3>1
    <3> DEFINE h == Up(g, n)
    <3>3. ASSUME NEW s \in Small(n), s # {}, NEW x \in s
          PROVE  h[s \ {x}] = g[s \ {x}]
      <4>1. s \ {x} \in Small(n - 1) /\ s \ {x} \in Small(n)
        BY <1>1, <3>1, <3>3
      <4> HIDE DEF Small
      <4> QED BY <3>2, <4>1
    <3>4. ASSUME NEW s \in Small(n), s # {}
          PROVE  (CHOOSE x \in s : TRUE) \in s
      BY <3>4
    <3>5. h = Up(h, n)
      <4> SUFFICES ASSUME NEW s \in Small(n) PROVE h[s] = Up(h, n)[s]
        OBVIOUS
      <4>1. CASE s = {}
        BY <4>1
      <4>2. CASE s # {}
        <5>1. PICK x \in s : x = CHOOSE y \in s : TRUE
          BY <3>4, <4>2
        <5>2. h[s] = b[x].delta + g[s \ {x}]
          BY <4>2, <5>1
        <5>3. Up(h, n)[s] = b[x].delta + h[s \ {x}]
          BY <4>2, <5>1
        <5> HIDE DEF h
        <5> QED BY <3>3, <4>2, <5>2, <5>3
      <4> QED BY <4>1, <4>2
    <3>6. ~ \E f : f = Up(f, n)
      BY <2>1
    <3> HIDE DEF h, Up
    <3> QED BY <3>5, <3>6
  <2> QED BY <2>2, <2>3
<1>3. PICK g : g = Up(g, Cardinality(S))
  <2>1. Cardinality(S) \in Nat
    BY FS_CardinalityType
  <2> QED BY <1>2, <2>1
<1>4. Small(Cardinality(S)) = SUBSET S
  BY <1>1
<1>5. SumOn(g, b, S)
  BY <1>3, <1>4 DEF SumOn
<1> QED BY <1>5

\* Sums of integers are integers, and any element may be taken out first.
LEMMA SumAnyOrder ==
    ASSUME NEW g, NEW b, NEW S, IsFiniteSet(S), SumOn(g, b, S),
           \A o \in S : b[o].delta \in Int
    PROVE  \A s \in SUBSET S :
              /\ g[s] \in Int
              /\ \A x \in s : g[s] = g[s \ {x}] + b[x].delta
<1>1. ASSUME NEW s \in SUBSET S PROVE g[s] \in Int
  <2> DEFINE T == {r \in SUBSET S : g[r] \notin Int}
  <2> SUFFICES ASSUME T # {} PROVE FALSE
    OBVIOUS
  <2>1. PICK r \in T : \A x \in r : r \ {x} \notin T
    <3>1. T \subseteq SUBSET S
      OBVIOUS
    <3> HIDE DEF T
    <3> QED BY <3>1, SmallestSubset
  <2>2. r \in SUBSET S /\ r # {}
    BY <2>1, SumOnStep
  <2>3. PICK x \in r : g[r] = b[x].delta + g[r \ {x}]
    BY <2>2, SumOnStep
  <2>4. g[r \ {x}] \in Int /\ b[x].delta \in Int
    BY <2>1, <2>2
  <2> QED BY <2>1, <2>3, <2>4
<1>2. ASSUME NEW s \in SUBSET S
      PROVE  \A x \in s : g[s] = g[s \ {x}] + b[x].delta
  <2> DEFINE T == {r \in SUBSET S : \E x \in r : g[r] # g[r \ {x}] + b[x].delta}
  <2> SUFFICES ASSUME T # {} PROVE FALSE
    OBVIOUS
  <2>1. PICK r \in T : \A x \in r : r \ {x} \notin T
    <3>1. T \subseteq SUBSET S
      OBVIOUS
    <3> HIDE DEF T
    <3> QED BY <3>1, SmallestSubset
  <2>2. PICK x \in r : g[r] # g[r \ {x}] + b[x].delta
    BY <2>1
  <2>3. r \in SUBSET S /\ r # {}
    BY <2>1
  <2>4. PICK y \in r : g[r] = b[y].delta + g[r \ {y}]
    BY <2>3, SumOnStep
  <2>5. /\ g[r \ {x}] \in Int /\ g[r \ {y}] \in Int /\ g[(r \ {x}) \ {y}] \in Int
        /\ b[x].delta \in Int /\ b[y].delta \in Int
    BY <1>1, <2>3
  <2>6. PICK u \in Int, v \in Int : u = b[x].delta /\ v = b[y].delta
    BY <2>5
  <2>7. PICK p \in Int, q \in Int : p = g[r \ {x}] /\ q = g[r \ {y}]
    BY <2>5
  <2>8. g[r] # p + u /\ g[r] = v + q
    BY <2>2, <2>4, <2>6, <2>7
  <2>9. CASE x = y
    BY <2>6, <2>7, <2>8, <2>9
  <2>10. CASE x # y
    <3>1. PICK z \in Int : z = g[(r \ {x}) \ {y}]
      BY <2>5
    <3>2. (r \ {x}) \ {y} = (r \ {y}) \ {x}
      OBVIOUS
    <3>3. r \ {x} \in SUBSET S /\ r \ {y} \in SUBSET S
      BY <2>3
    <3>4. p = z + v
      BY <2>1, <2>6, <2>7, <2>10, <3>1, <3>3
    <3>5. q = z + u
      BY <2>1, <2>6, <2>7, <2>10, <3>1, <3>2, <3>3
    <3> QED BY <2>8, <3>4, <3>5
  <2> QED BY <2>9, <2>10
<1> QED BY <1>1, <1>2

\* Nothing adds up to nothing, one more element to its amount more, and equal
\* amounts to equal sums.
LEMMA TotalNone ==
    ASSUME NEW b PROVE Total(b, {}) = 0
<1>1. PICK g : g = CHOOSE f : SumOn(f, b, {})
  OBVIOUS
<1>2. SumOn(g, b, {})
  BY <1>1, SumExists, FS_EmptySet
<1> QED BY <1>1, <1>2, SumOnStep DEF Total

\* Bookings of the same amounts have the same sum.
LEMMA TotalSame ==
    ASSUME NEW a, NEW b, NEW S, IsFiniteSet(S), \A o \in S : a[o].delta = b[o].delta
    PROVE  Total(a, S) = Total(b, S)
<1>1. PICK g, h : /\ g = (CHOOSE f : SumOn(f, a, S))
                  /\ h = (CHOOSE f : SumOn(f, b, S))
  OBVIOUS
<1>2. SumOn(g, a, S) /\ SumOn(h, b, S)
  BY <1>1, SumExists
<1> QED BY <1>1, <1>2, SumUnique DEF Total

\* A booking can be taken out of a sum, which it changes by its delta.
LEMMA TotalOne ==
    ASSUME NEW b, NEW S, IsFiniteSet(S), NEW x \in S, \A o \in S : b[o].delta \in Int
    PROVE  /\ Total(b, S \ {x}) \in Int
           /\ Total(b, S) = Total(b, S \ {x}) + b[x].delta
<1>1. PICK g, h : /\ g = (CHOOSE f : SumOn(f, b, S \ {x}))
                  /\ h = (CHOOSE f : SumOn(f, b, S))
  OBVIOUS
<1>2. IsFiniteSet(S \ {x}) /\ SumOn(g, b, S \ {x}) /\ SumOn(h, b, S)
  BY <1>1, SumExists, FS_RemoveElement
<1>3. g[S \ {x}] = h[S \ {x}]
  BY <1>2, SumUnique
<1>4. S \in SUBSET S /\ S \ {x} \in SUBSET S
  OBVIOUS
<1>5. h[S \ {x}] \in Int /\ h[S] = h[S \ {x}] + b[x].delta
  <2>1. \A s \in SUBSET S : /\ h[s] \in Int
                            /\ \A y \in s : h[s] = h[s \ {y}] + b[y].delta
    <3>1. SumOn(h, b, S) /\ IsFiniteSet(S) /\ \A o \in S : b[o].delta \in Int
      BY <1>2
    <3> QED BY ONLY <3>1, SumAnyOrder
  <2> QED BY <1>4, <2>1
<1> QED BY <1>1, <1>3, <1>5 DEF Total

-----------------------------------------------------------------------------
(* A balance is the sum of what stands *)

StandingOf(c) ==
    {p \in Previews : Bookings[p].state = "standing" /\ Bookings[p].customer = c}

SumsStand ==
    \A c \in Customers :
        /\ IsFiniteSet(StandingOf(c))
        /\ \A p \in StandingOf(c) : Bookings[p].delta \in Int
        /\ Balances[c] = Total(Bookings, StandingOf(c))

\* What an operation adds to, or leaves out of, the bookings that stand.
LEMMA SumsFollow ==
    ASSUME SumsStand, NEW p \in Previews, NEW c \in Customers, NEW b,
           Bookings' = [Bookings EXCEPT ![p] = b], b.customer = c, b.delta \in Int,
           \/ /\ Bookings[p].state # "standing" /\ b.state = "standing"
              /\ Balances' = [Balances EXCEPT ![c] = @ + b.delta]
           \/ /\ Bookings[p].state = "standing" /\ Bookings[p].customer = c
              /\ Bookings[p].delta = b.delta /\ b.state # "standing"
              /\ Balances' = [Balances EXCEPT ![c] = @ - b.delta]
    PROVE  SumsStand'
<1>1. PICK old, new : old = Bookings /\ new = Bookings'
  OBVIOUS
<1>2. /\ \A q \in Previews \ {p} : new[q] = old[q]
      /\ new[p] = b
  BY <1>1 DEF Bookings
<1>3. ASSUME NEW d \in Customers, d # c
      PROVE  /\ StandingOf(d)' = StandingOf(d) /\ Balances'[d] = Balances[d]
             /\ \A q \in StandingOf(d) : new[q].delta = old[q].delta
  <2>1. Balances'[d] = Balances[d]
    BY <1>3 DEF Balances
  <2>2. p \notin StandingOf(d) /\ p \notin StandingOf(d)'
    BY <1>1, <1>2, <1>3 DEF StandingOf
  <2>3. \A q \in Previews \ {p} : q \in StandingOf(d)' <=> q \in StandingOf(d)
    BY <1>1, <1>2 DEF StandingOf
  <2>4. StandingOf(d) \subseteq Previews /\ StandingOf(d)' \subseteq Previews
    BY DEF StandingOf
  <2>5. StandingOf(d)' = StandingOf(d)
    BY <2>2, <2>3, <2>4
  <2>6. \A q \in StandingOf(d) : new[q].delta = old[q].delta
    BY <1>2, <2>2, <2>4
  <2> QED BY <2>1, <2>5, <2>6
<1>4. PICK S, U : S = StandingOf(c) /\ U = StandingOf(c)'
  OBVIOUS
<1>5. /\ IsFiniteSet(S) /\ \A q \in S : old[q].delta \in Int
      /\ Balances[c] = Total(old, S)
  BY <1>1, <1>4 DEF SumsStand
<1>6. /\ \A q \in Previews \ {p} : q \in U <=> q \in S
      /\ S \subseteq Previews /\ U \subseteq Previews
  BY <1>1, <1>2, <1>4 DEF StandingOf
<1>7. /\ p \in S <=> old[p].state = "standing" /\ old[p].customer = c
      /\ p \in U <=> b.state = "standing"
  BY <1>1, <1>2, <1>4 DEF StandingOf
<1>8. /\ IsFiniteSet(U) /\ \A q \in U : new[q].delta \in Int
      /\ Balances'[c] = Total(new, U)
  <2>1. CASE /\ old[p].state # "standing" /\ b.state = "standing"
             /\ Balances' = [Balances EXCEPT ![c] = @ + b.delta]
    <3>1. U = S \cup {p} /\ U \ {p} = S /\ p \in U
      BY <1>6, <1>7, <2>1
    <3>2. IsFiniteSet(U) /\ \A q \in U : new[q].delta \in Int
      BY <1>2, <1>5, <1>6, <3>1, FS_AddElement
    <3>3. Total(new, U) = Total(new, S) + b.delta
      BY <1>2, <3>1, <3>2, TotalOne
    <3>4. Total(new, S) = Total(old, S)
      BY <1>2, <1>5, <1>6, <1>7, <2>1, TotalSame
    <3>5. Balances'[c] = Balances[c] + b.delta
      BY <2>1 DEF Balances
    <3> QED BY <1>5, <3>2, <3>3, <3>4, <3>5
  <2>2. CASE /\ old[p].state = "standing" /\ old[p].customer = c
             /\ old[p].delta = b.delta /\ b.state # "standing"
             /\ Balances' = [Balances EXCEPT ![c] = @ - b.delta]
    <3>1. U = S \ {p} /\ p \in S
      BY <1>6, <1>7, <2>2
    <3>2. IsFiniteSet(U) /\ \A q \in U : new[q].delta \in Int
      BY <1>2, <1>5, <1>6, <3>1, FS_RemoveElement
    <3>3. Total(old, U) \in Int /\ Total(old, S) = Total(old, U) + b.delta
      BY <1>5, <2>2, <3>1, TotalOne
    <3>4. Total(new, U) = Total(old, U)
      BY <1>2, <1>6, <3>1, <3>2, TotalSame
    <3>5. Balances'[c] = Balances[c] - b.delta
      BY <2>2 DEF Balances
    <3> QED BY <1>5, <3>2, <3>3, <3>4, <3>5
  <2> QED BY <1>1, <2>1, <2>2
<1>9. ASSUME NEW d \in Customers
      PROVE  /\ IsFiniteSet(StandingOf(d)')
             /\ \A q \in StandingOf(d)' : Bookings'[q].delta \in Int
             /\ Balances'[d] = Total(Bookings', StandingOf(d)')
  <2>1. CASE d = c
    BY <1>1, <1>4, <1>8, <2>1
  <2>2. CASE d # c
    <3>1. /\ IsFiniteSet(StandingOf(d)) /\ Balances[d] = Total(old, StandingOf(d))
          /\ \A q \in StandingOf(d) : old[q].delta \in Int
      BY <1>1 DEF SumsStand
    <3>2. Total(new, StandingOf(d)) = Total(old, StandingOf(d))
      BY <1>3, <2>2, <3>1, TotalSame
    <3> QED BY <1>1, <1>3, <2>2, <3>1, <3>2
  <2> QED BY <2>1, <2>2
<1> QED BY <1>9 DEF SumsStand

\* A new service owes nothing.
LEMMA InitSums == Init => SumsStand
<1> SUFFICES ASSUME Init, NEW c \in Customers
             PROVE  /\ StandingOf(c) = {} /\ Balances[c] = 0
                    /\ IsFiniteSet({}) /\ Total(Bookings, {}) = 0
  BY DEF SumsStand
<1>1. Balances[c] = 0
  BY DEF Init, NoCard, Balances
<1>2. \A p \in Previews : Bookings[p].state = "unbooked"
  BY DEF Init, Bookings, Booking, Confirmations
<1>3. StandingOf(c) = {}
  BY <1>2 DEF StandingOf
<1>4. Total(Bookings, {}) = 0
  <2>1. PICK b : b = Bookings
    OBVIOUS
  <2> QED BY <2>1, TotalNone
<1> QED BY <1>1, <1>3, <1>4, FS_EmptySet

\* A deleted account's balance is 0 and nothing stands for it any more.
LEMMA SumsForget ==
    ASSUME SumsStand, NEW c \in Customers, ForgetStep(c)
    PROVE  SumsStand'
<1>1. PICK old, new : old = Bookings /\ new = Bookings'
  OBVIOUS
<1>2. ASSUME NEW p \in Previews
      PROVE  new[p] = IF old[p].customer = c
                      THEN [old[p] EXCEPT !.state = "settled"] ELSE old[p]
  BY <1>1 DEF ForgetStep
<1>3. ASSUME NEW d \in Customers
      PROVE  /\ IsFiniteSet(StandingOf(d)')
             /\ \A q \in StandingOf(d)' : new[q].delta \in Int
             /\ Balances'[d] = Total(new, StandingOf(d)')
  <2>1. CASE d = c
    <3>1. \A p \in Previews : ~(new[p].state = "standing" /\ new[p].customer = c)
      <4> SUFFICES ASSUME NEW p \in Previews, new[p].customer = c
                   PROVE  new[p].state # "standing"
        OBVIOUS
      <4>1. Booking(p)' \in [state : {"unbooked", "standing", "settled"},
                             customer : {new[p].customer}, delta : {new[p].delta}]
        BY <1>1 DEF Bookings, Booking
      <4>2. Booking(p) \in [state : {"unbooked", "standing", "settled"},
                            customer : {old[p].customer}, delta : {old[p].delta}]
        BY <1>1 DEF Bookings, Booking
      <4>3. old[p] = Booking(p)
        BY <1>1 DEF Bookings
      <4>4. CASE old[p].customer = c
        <5>1. new[p] = [old[p] EXCEPT !.state = "settled"]
          BY <1>2, <4>4
        <5> QED BY <4>2, <4>3, <5>1
      <4>5. CASE old[p].customer # c
        BY <1>2, <4>5
      <4> QED BY <4>4, <4>5
    <3>2. StandingOf(d)' = {}
      BY <1>1, <2>1, <3>1 DEF StandingOf
    <3>3. Balances'[d] = 0
      BY <2>1 DEF ForgetStep, Balances
    <3> QED BY <3>2, <3>3, TotalNone, FS_EmptySet
  <2>2. CASE d # c
    <3>1. \A p \in Previews : old[p].customer = d => new[p] = old[p]
      BY <1>2, <2>2
    <3>2. ASSUME NEW p \in Previews, new[p].customer = d PROVE new[p] = old[p]
      <4>1. CASE old[p].customer = c
        <5>1. old[p] = Booking(p)
          BY <1>1 DEF Bookings
        <5>2. Booking(p) \in [state : {"unbooked", "standing", "settled"},
                              customer : {old[p].customer}, delta : {old[p].delta}]
          BY <1>1 DEF Bookings, Booking
        <5>3. new[p].customer = c
          BY <1>2, <4>1, <5>1, <5>2
        <5> QED BY <2>2, <3>2, <5>3
      <4>2. CASE old[p].customer # c
        BY <1>2, <4>2
      <4> QED BY <4>1, <4>2
    <3>3. StandingOf(d)' = StandingOf(d)
      BY <1>1, <3>1, <3>2 DEF StandingOf
    <3>4. \A p \in StandingOf(d) : new[p] = old[p]
      BY <1>1, <3>1 DEF StandingOf
    <3>5. /\ IsFiniteSet(StandingOf(d)) /\ Balances[d] = Total(old, StandingOf(d))
          /\ \A p \in StandingOf(d) : old[p].delta \in Int
      BY <1>1 DEF SumsStand
    <3>6. Total(new, StandingOf(d)) = Total(old, StandingOf(d))
      BY <3>4, <3>5, TotalSame
    <3>7. Balances'[d] = Balances[d]
      BY <2>2 DEF ForgetStep, Balances
    <3> QED BY <3>3, <3>4, <3>5, <3>6, <3>7
  <2> QED BY <2>1, <2>2
<1> QED BY <1>1, <1>3 DEF SumsStand

\* Every step keeps the sums.
LEMMA NextSums == BooksInv /\ BooksInv' /\ SumsStand /\ [Next]_vars => SumsStand'
<1> SUFFICES ASSUME BooksInv, BooksInv', SumsStand, [Next]_vars PROVE SumsStand'
  OBVIOUS
<1>1. ASSUME NEW p \in Previews, BookStep(p) PROVE SumsStand'
  <2>1. PICK b : b = Bookings'[p]
    OBVIOUS
  <2>2. PICK c \in Customers : c = b.customer
    BY <1>1, <2>1 DEF BookStep
  <2>3. /\ Bookings[p].state = "unbooked" /\ b.state = "standing"
        /\ b.delta \in (-MaxDelta..MaxDelta) \ {0}
        /\ Bookings' = [Bookings EXCEPT ![p] = b]
        /\ Balances' = [Balances EXCEPT ![c] = @ + b.delta]
    BY <1>1, <2>1, <2>2 DEF BookStep
  <2>4. b.delta \in Int
    BY <2>3, DeltaCoversAmounts
  <2> QED BY <2>2, <2>3, <2>4, SumsFollow
<1>2. ASSUME NEW p \in Previews, TakeBackStep(p) PROVE SumsStand'
  <2>1. PICK b : b = [Bookings[p] EXCEPT !.state = "settled"]
    OBVIOUS
  <2>2. Booking(p) = Bookings[p] /\ Bookings[p].state = "standing"
    BY <1>2 DEF TakeBackStep, Bookings
  <2>3. PICK m \in 1..Len(movements) : Confirmations(p) = {m}
    <3>1. Confirmations(p) # {}
      BY <2>2 DEF Booking
    <3> QED BY <3>1, BookingCases, SoleConfirmation DEF BooksInv, Inv
  <2>4. Booking(p) = BookedAs(m) /\ movements[m].customer \in Customers
    BY <2>3, BookingOfOne, MovementsTyped, MovementFields DEF BooksInv, Inv
  <2>5. PICK c \in Customers : c = movements[m].customer
    BY <2>4
  <2>6. /\ b.state = "settled" /\ b.customer = c
        /\ Bookings[p].customer = c /\ Bookings[p].delta = b.delta
    BY <2>1, <2>2, <2>4, <2>5 DEF BookedAs
  <2>7. p \in StandingOf(c) /\ b.delta \in Int
    BY <2>2, <2>6 DEF StandingOf, SumsStand
  <2>8. /\ Bookings' = [Bookings EXCEPT ![p] = b]
        /\ Balances' = [Balances EXCEPT ![c] = @ - b.delta]
    BY <1>2, <2>1, <2>6 DEF TakeBackStep
  <2> QED BY <2>2, <2>6, <2>7, <2>8, SumsFollow
<1>3. ASSUME NEW c \in Customers, ForgetStep(c) PROVE SumsStand'
  BY <1>3, SumsForget
<1>4. ASSUME UNCHANGED <<Balances, Bookings>> PROVE SumsStand'
  BY <1>4 DEF SumsStand, StandingOf
<1> QED BY <1>1, <1>2, <1>3, <1>4, StepMapped

\* A card shows what its history adds up to, never a negative balance, and that is
\* the sum of the confirmed operations of its customer that nobody reversed
\* (saldo_sellos and saldo_puntos against historial_movimientos and
\* reversiones_movimiento).
THEOREM BooksAreBalanced == Spec => []BooksBalance
<1>1. SumsStand => BalanceIsSumOfStanding
  <2> SUFFICES ASSUME SumsStand PROVE BalanceIsSumOfStanding
    OBVIOUS
  <2>1. \A c \in Customers : Balances[c] = Total(Bookings, StandingOf(c))
    BY DEF SumsStand
  <2> QED BY <2>1, Zenon
          DEF BalanceIsSumOfStanding, Ideal!BalanceIsSumOfStanding, Ideal!Standing,
              Ideal!MapThenSumSet, Ideal!MapThenFoldSet, Total, SumOn, StandingOf,
              Balances, Bookings
<1>2. Spec => []SumsStand
  BY InitSums, NextSums, BooksInvariant, PTL DEF Spec
<1> QED BY <1>1, <1>2, TypeCorrect, BooksAreConsistent, PTL DEF BooksBalance

=============================================================================
