---------------------------- MODULE LoyaltyLedger ----------------------------
(***************************************************************************)
(* The stamp and point ledger of one brand: previews, confirmations,       *)
(* reversals, and everything else that writes the rows they depend on.     *)
(*                                                                         *)
(* CreatePreview runs at REPEATABLE READ; ConfirmMovement,                 *)
(* ReverseBrandMovement and AnonymizeAccount at SERIALIZABLE.  Each is two *)
(* steps here: Begin takes the snapshot and passes the handler's checks on *)
(* it (a request that fails a check rolls back, writes nothing and is no   *)
(* step at all), Commit writes.  Between them any other transaction may    *)
(* commit.  What PostgreSQL adds is in Locks and RollBack: a transaction   *)
(* that locks (FOR UPDATE, FOR SHARE, a foreign key, a write) a row        *)
(* somebody changed after its snapshot fails with 40001, and does so here  *)
(* when the other commits; a row it only reads (membership, branch, brand, *)
(* demo access) keeps the snapshot's value, and a row inserted after the   *)
(* snapshot stays out of its sight (missed).                               *)
(* service.retry is a new Begin with the same request.                     *)
(*                                                                         *)
(* The operators named after another one with a suffix that says what they *)
(* lack (ConfirmLocksNoCard, ConfirmPassesTwice, ...) are that operator    *)
(* with one mistake in it.  Nothing in Spec uses them: they are there to   *)
(* show, put in its place, that a property would notice the mistake.       *)
(***************************************************************************)
EXTENDS Integers, Sequences

CONSTANTS
    Customers,      \* CLIENTE_FINAL accounts
    Staff,          \* PERSONAL_MARCA accounts of the brand
    Managers,       \* the staff who are PROPIETARIO; the brand closes with the last
    Benefits,       \* ids of beneficios rows
    Previews,       \* preview UUIDs
    Keys,           \* Idempotency-Key values clients send
    Transactions,   \* concurrent request handlers
    CreditAmounts,  \* points a credit may ask for (1..100000 in the code)
    Requirements,   \* costs a benefit may have
    Closable,       \* the branch is not the primary one, and the brand has others open
    None            \* SQL NULL

ASSUME ManagersAreStaff == Managers \subseteq Staff
ASSUME AmountsPositive ==
    /\ CreditAmounts \subseteq Nat \ {0}
    /\ Requirements \subseteq Nat \ {0}
ASSUME NoneIsNoId ==
    None \notin Customers \cup Staff \cup Benefits \cup Previews \cup Keys
ASSUME ClosableIsBoolean == Closable \in BOOLEAN
ASSUME AccountsDisjoint == Customers \cap Staff = {}

Types == {"SELLOS", "PUNTOS"}
Kinds == {"ACUMULACION", "CANJE"}

VARIABLES
    program,     \* programas_fidelidad: its tipo and activo
    brandOpen,   \* marcas.activo
    branchOpen,  \* sucursales.activo of the branch where the movements are made
    access,      \* accesos_demo.activo
    live,        \* usuarios with activo and no deleted_at
    authorized,  \* staff with an active membership that reaches the branch
    benefits,    \* beneficios
    cards,       \* tarjetas
    ledger,      \* per card, the rows of historial_movimientos and
                 \* reversiones_movimiento in the order of the card's row lock
    previews,    \* previews_movimiento
    keys,        \* solicitudes_idempotentes of the confirmations
    announced,   \* per customer, pg_notify calls that were committed and
                 \* the movements queued in web_push_notifications
    txns,        \* transactions in progress
    movements    \* history variable: every movement ever committed

brandVars == <<program, brandOpen, branchOpen, access, authorized, benefits>>
vars == <<program, brandOpen, branchOpen, access, live, authorized, benefits,
          cards, ledger, previews, keys, announced, txns, movements>>

-----------------------------------------------------------------------------
(* Rows *)

BenefitRow == [state: {"absent", "active", "lapsed", "retired"},
               requirement: Requirements \cup {0}]
CardRow == [state: {"none", "active", "closed"},
            balance: [Types -> Nat], version: Nat]
PreviewRow == [state: {"unused", "open", "consumed", "gone"}, expired: BOOLEAN,
               actor: Staff \cup {None}, customer: Customers \cup {None},
               kind: Kinds, benefit: Benefits \cup {None}, type: Types,
               card: BOOLEAN,   \* it references the customer's card
               before: Nat, amount: Nat]
KeyRow == [state: {"free", "completed"}, actor: Staff \cup {None},
           preview: Previews \cup {None}, movement: Nat]
Entry == [movement: Nat \ {0}, kind: Kinds \cup {"REVERSAL"},
          before: Nat, after: Nat]
Movement == [preview: Previews, key: Keys, customer: Customers, kind: Kinds,
             type: Types, amount: Nat \ {0}]
Insertable == ({"preview"} \X Previews) \cup ({"benefit"} \X Benefits)
                 \cup ({"card"} \X Customers)
Transaction == [kind: {"idle", "preview", "confirm", "reversal", "erasure"},
                actor: Customers \cup Staff \cup {None},
                key: Keys \cup {None}, preview: Previews \cup {None},
                movement: Nat, row: PreviewRow,
                balance: Nat,      \* the saldo its snapshot showed
                closes: BOOLEAN,   \* an erasure that takes the brand with it
                missed: SUBSET Insertable]   \* inserted since its snapshot

NoCard == [state |-> "none", balance |-> [t \in Types |-> 0], version |-> 0]
NoPreview == [state |-> "unused", expired |-> FALSE, actor |-> None,
              customer |-> None, kind |-> "ACUMULACION", benefit |-> None,
              type |-> "SELLOS", card |-> FALSE, before |-> 0, amount |-> 0]
Gone == [NoPreview EXCEPT !.state = "gone"]
FreeKey == [state |-> "free", actor |-> None, preview |-> None, movement |-> 0]
Idle == [kind |-> "idle", actor |-> None, key |-> None,
         preview |-> None, movement |-> 0, row |-> NoPreview, balance |-> 0,
         closes |-> FALSE, missed |-> {}]

TypeOK ==
    /\ program \in [type: Types, active: BOOLEAN]
    /\ brandOpen \in BOOLEAN
    /\ branchOpen \in BOOLEAN
    /\ access \in BOOLEAN
    /\ live \subseteq Customers \cup Staff
    /\ authorized \subseteq Staff
    /\ benefits \in [Benefits -> BenefitRow]
    /\ cards \in [Customers -> CardRow]
    /\ ledger \in [Customers -> Seq(Entry)]
    /\ previews \in [Previews -> PreviewRow]
    /\ keys \in [Keys -> KeyRow]
    /\ announced \in [Customers -> [notices: Nat, pushes: SUBSET (Nat \ {0})]]
    /\ txns \in [Transactions -> Transaction]
    /\ movements \in Seq(Movement)

Init ==
    /\ program \in [type: Types, active: {TRUE}]
    /\ brandOpen = TRUE
    /\ branchOpen = TRUE
    /\ access = TRUE
    /\ live = Customers \cup Staff
    /\ authorized = Staff
    /\ benefits = [b \in Benefits |-> [state |-> "absent", requirement |-> 0]]
    /\ cards = [c \in Customers |-> NoCard]
    /\ ledger = [c \in Customers |-> <<>>]
    /\ previews = [p \in Previews |-> NoPreview]
    /\ keys = [k \in Keys |-> FreeKey]
    /\ announced = [c \in Customers |-> [notices |-> 0, pushes |-> {}]]
    /\ txns = [t \in Transactions |-> Idle]
    /\ movements = <<>>

-----------------------------------------------------------------------------
(* Row locks *)

\* The rows a transaction locks before it commits.  A foreign key from the
\* row it inserts locks the account it names (historial_movimientos,
\* reversiones_movimiento and previews_movimiento all name the operator).
PreviewLocks(x) ==
    {<<"user", x.row.customer>>, <<"user", x.actor>>}
        \cup IF x.row.kind = "CANJE" THEN {<<"benefit", x.row.benefit>>} ELSE {}

\* registrar_compra_resena, the trigger of the row a credit inserts, shares the branch.
ConfirmRows(x) ==
    LET p == previews[x.preview]
    IN  {<<"key", x.key>>, <<"preview", x.preview>>,
         <<"user", p.customer>>, <<"user", x.actor>>}
            \cup {IF p.kind = "CANJE" THEN <<"benefit", p.benefit>> ELSE <<"branch">>}
ConfirmLocksNoProgram(x) ==
    ConfirmRows(x) \cup {<<"card", previews[x.preview].customer>>}
ConfirmLocks(x) ==
    ConfirmRows(x) \cup {<<"program">>, <<"card", previews[x.preview].customer>>}

ReversalLocksNoCard(x) == {<<"user", x.actor>>}
ReversalLocksNoOperatorKey(x) == {<<"card", movements[x.movement].customer>>}
ReversalLocks(x) ==
    {<<"card", movements[x.movement].customer>>, <<"user", x.actor>>}

\* An erasure's rows: its account, what hangs from it, and, for staff, the
\* brand.  AnonymizeAccount and the handlers it races with being serializable,
\* two more conflicts count as locks: a card inserted where it looked for
\* cards, and another owner leaving while it decides whether one remains.
Owned(u) == {p \in Previews : previews[p].actor = u \/ previews[p].customer = u}

ClosedRows ==
    {<<"program">>, <<"branch">>}
                    \cup {<<"card", c>> : c \in Customers}
                    \cup {<<"benefit", b>> : b \in Benefits}

ErasureRows(x) ==
    {<<"user", x.actor>>}
        \cup ({<<"preview", p>> : p \in Owned(x.actor)} \ x.missed)
        \cup (IF x.actor \in Staff THEN {<<"brand">>} ELSE {})
        \cup (IF x.closes THEN ClosedRows ELSE {})
OwnerRows(x) == IF x.actor \in Managers THEN {<<"user", s>> : s \in Managers} ELSE {}

ErasureLocksNoCard(x) == ErasureRows(x) \cup OwnerRows(x)
ErasureLocksNoOwners(x) == ErasureRows(x) \cup {<<"card", x.actor>>}
ErasureLocks(x) == ErasureRows(x) \cup OwnerRows(x) \cup {<<"card", x.actor>>}

Locks(x) ==
    CASE x.kind = "preview"  -> PreviewLocks(x)
      [] x.kind = "confirm"  -> ConfirmLocks(x)
      [] x.kind = "reversal" -> ReversalLocks(x)
      [] x.kind = "erasure"  -> ErasureLocks(x)
      [] OTHER -> {}

\* A committed write to rows: whoever locks one of them from an older
\* snapshot can only fail.
RollBack(ts, rows) ==
    [t \in Transactions |->
        IF Locks(ts[t]) \cap rows = {} THEN ts[t] ELSE Idle]

Finish(t) == [txns EXCEPT ![t] = Idle]

\* A committed insert, which the erasures in progress that should have dealt
\* with it do not see.
Miss(ts, row, accounts) ==
    [t \in Transactions |->
        IF ts[t].kind = "erasure" /\ (ts[t].closes \/ ts[t].actor \in accounts)
        THEN [ts[t] EXCEPT !.missed = @ \cup {row}]
        ELSE ts[t]]

\* The transaction rolls back: deadlocked, a lost connection, an
\* elapsed deadline, or a serialization failure PostgreSQL chose to raise.
Abort(t) ==
    /\ txns[t].kind # "idle"
    /\ txns' = Finish(t)
    /\ UNCHANGED <<brandVars, live, cards, ledger, previews, keys, announced,
                   movements>>

-----------------------------------------------------------------------------
(* POST /movements/preview *)

CanOperate(s) ==
    s \in authorized /\ s \in live /\ brandOpen /\ branchOpen /\ program.active
    /\ access

\* saldo of the column of the program's type; no active card counts as 0.
Balance(c) ==
    IF cards[c].state = "active" THEN cards[c].balance[program.type] ELSE 0

\* Stamps are given one by one, points as asked; a redemption costs what the
\* benefit requires.
Amounts(kind, b) ==
    IF kind = "CANJE" THEN {benefits[b].requirement}
    ELSE IF program.type = "PUNTOS" THEN CreditAmounts ELSE {1}

BeginPreview(t, p, s, c, kind, b) ==
    /\ txns[t].kind = "idle"
    /\ previews[p].state = "unused"
    /\ \A u \in Transactions : txns[u].kind = "preview" => txns[u].preview # p
    /\ (kind = "CANJE") <=> (b # None)
    /\ CanOperate(s)
    /\ \E configured \in Benefits : benefits[configured].state = "active"
    /\ c \in live
    /\ kind = "CANJE" => /\ benefits[b].state = "active"
                         /\ Balance(c) >= benefits[b].requirement
    /\ \E n \in Amounts(kind, b) :
         txns' = [txns EXCEPT ![t] =
                    [Idle EXCEPT !.kind = "preview", !.actor = s, !.preview = p,
                       !.row = [state |-> "open", expired |-> FALSE,
                                actor |-> s, customer |-> c, kind |-> kind,
                                benefit |-> b, type |-> program.type,
                                card |-> cards[c].state = "active",
                                before |-> Balance(c), amount |-> n]]]
    /\ UNCHANGED <<brandVars, live, cards, ledger, previews, keys, announced,
                   movements>>

CommitPreview(t) ==
    /\ txns[t].kind = "preview"
    /\ previews' = [previews EXCEPT ![txns[t].preview] = txns[t].row]
    /\ txns' = Miss(Finish(t), <<"preview", txns[t].preview>>,
                  {txns[t].row.actor, txns[t].row.customer})
    /\ UNCHANGED <<brandVars, live, cards, ledger, keys, announced, movements>>

\* Five minutes pass.
ExpirePreview(p) ==
    /\ previews[p].state \in {"open", "consumed"}
    /\ ~previews[p].expired
    /\ previews' = [previews EXCEPT ![p].expired = TRUE]
    /\ UNCHANGED <<brandVars, live, cards, ledger, keys, announced, txns,
                   movements>>

-----------------------------------------------------------------------------
(* POST /movements/confirm-accumulation and /confirm-redemption *)

\* claimIdempotency: a key that is already completed is replayed, or refused
\* if its request differs, without a write.
Claimable(k) == keys[k].state = "free"

\* A request names a preview and repeats its operator, branch, operation, QR
\* and benefit: one that differs is PREVIEW_CHANGED, so the model's requests
\* carry the operator only.
TermsHold(s, k, p) ==
    LET row == previews[p]
        balance == cards[row.customer].balance[program.type]
    IN  /\ Claimable(k)
        /\ row.actor = s
        /\ ~row.expired
        /\ CanOperate(s)
        /\ program.type = row.type
        /\ row.customer \in live
        /\ cards[row.customer].state \in
              IF row.kind = "ACUMULACION" THEN {"none", "active"} ELSE {"active"}
        /\ row.kind = "CANJE" => /\ benefits[row.benefit].state = "active"
                                 /\ benefits[row.benefit].requirement = row.amount
                                 /\ balance >= row.amount
        /\ balance = row.before
ConfirmPassesTwice(s, k, p) ==
    previews[p].state \in {"open", "consumed"} /\ TermsHold(s, k, p)
ConfirmPasses(s, k, p) == previews[p].state = "open" /\ TermsHold(s, k, p)

BeginConfirm(t, s, k, p) ==
    /\ txns[t].kind = "idle"
    /\ ConfirmPasses(s, k, p)
    /\ txns' = [txns EXCEPT ![t] =
                  [Idle EXCEPT !.kind = "confirm", !.actor = s, !.key = k,
                               !.preview = p, !.balance = previews[p].before]]
    /\ UNCHANGED <<brandVars, live, cards, ledger, previews, keys, announced,
                   movements>>

\* One more row in the card's ledger: the balance, the card version and the
\* notification that rides on the commit move together.
Post(c, m, kind, type, before, after) ==
    /\ cards' = [cards EXCEPT ![c] =
                   [state |-> "active",
                    balance |-> [@.balance EXCEPT ![type] = after],
                    version |-> (IF @.state = "none" THEN 1 ELSE @.version) + 1]]
    /\ ledger' = [ledger EXCEPT ![c] =
                    Append(@, [movement |-> m, kind |-> kind,
                               before |-> before, after |-> after])]

\* pg_notify and the push queue take part in the transaction.
Announced(c, queued) ==
    [announced EXCEPT ![c] =
        [notices |-> @.notices + 1, pushes |-> @.pushes \cup queued]]

CommitConfirm(t) ==
    LET x == txns[t]
        row == previews[x.preview]
        c == row.customer
        m == Len(movements) + 1
    IN  /\ x.kind = "confirm"
        /\ Post(c, m, row.kind, row.type, x.balance,
                IF row.kind = "CANJE" THEN x.balance - row.amount
                                      ELSE x.balance + row.amount)
        /\ previews' = [previews EXCEPT ![x.preview].state = "consumed"]
        /\ keys' = [keys EXCEPT ![x.key] =
                      [state |-> "completed", actor |-> x.actor,
                       preview |-> x.preview, movement |-> m]]
        /\ movements' = Append(movements,
                          [preview |-> x.preview, key |-> x.key, customer |-> c,
                           kind |-> row.kind, type |-> row.type,
                           amount |-> row.amount])
        /\ announced' = Announced(c, {m})
        /\ txns' = RollBack(IF cards[c].state = "none"
                        THEN Miss(Finish(t), <<"card", c>>, {c}) ELSE Finish(t),
                        {<<"card", c>>, <<"preview", x.preview>>, <<"key", x.key>>})
        /\ UNCHANGED <<brandVars, live>>

-----------------------------------------------------------------------------
(* POST /brands/{id}/movements/{operation}/reverse *)

Recorded(c, m) ==
    \E i \in 1..Len(ledger[c]) :
        ledger[c][i].movement = m /\ ledger[c][i].kind # "REVERSAL"

Reversed(c, m) ==
    \E i \in 1..Len(ledger[c]) :
        ledger[c][i].movement = m /\ ledger[c][i].kind = "REVERSAL"

\* A movement that already has its reversal answers with that one and writes
\* nothing.
MayReverse(s, m) ==
    LET c == movements[m].customer
    IN  /\ s \in authorized /\ s \in live
        /\ cards[c].state = "active"
        /\ Recorded(c, m)
Covered(m) ==
    LET move == movements[m]
    IN  move.kind = "ACUMULACION"
            => cards[move.customer].balance[move.type] >= move.amount

ReversalPasses(s, m) ==
    MayReverse(s, m) /\ ~Reversed(movements[m].customer, m) /\ Covered(m)

BeginReversal(t, s, m) ==
    /\ txns[t].kind = "idle"
    /\ ReversalPasses(s, m)
    /\ txns' = [txns EXCEPT ![t] =
                  [Idle EXCEPT !.kind = "reversal", !.actor = s, !.movement = m,
                     !.balance = cards[movements[m].customer].balance[movements[m].type]]]
    /\ UNCHANGED <<brandVars, live, cards, ledger, previews, keys, announced,
                   movements>>

CommitReversal(t) ==
    LET x == txns[t]
        move == movements[x.movement]
        c == move.customer
    IN  /\ x.kind = "reversal"
        /\ Post(c, x.movement, "REVERSAL", move.type, x.balance,
                IF move.kind = "CANJE" THEN x.balance + move.amount
                                       ELSE x.balance - move.amount)
        /\ announced' = Announced(c, {})
        /\ txns' = RollBack(Finish(t), {<<"card", c>>})
        /\ UNCHANGED <<brandVars, live, previews, keys, movements>>

-----------------------------------------------------------------------------
(* What the brand's managers change under way *)

SomeManager == \E s \in Managers : s \in authorized /\ s \in live

CreateBenefit(b, n) ==
    /\ SomeManager /\ brandOpen /\ program.active
    /\ benefits[b].state = "absent"
    /\ benefits' = [benefits EXCEPT ![b] = [state |-> "active", requirement |-> n]]
    /\ txns' = Miss(txns, <<"benefit", b>>, {})
    /\ UNCHANGED <<program, brandOpen, branchOpen, access, authorized, live,
                   cards, ledger, previews, keys, announced, movements>>

\* PUT replaces the cost and may retire the benefit or bring it back; DELETE
\* is the same row update with the old cost.
ReplaceBenefit(b, n, state) ==
    /\ SomeManager
    /\ benefits[b].state # "absent"
    /\ benefits' = [benefits EXCEPT ![b] = [state |-> state, requirement |-> n]]
    /\ txns' = RollBack(txns, {<<"benefit", b>>})
    /\ UNCHANGED <<program, brandOpen, branchOpen, access, authorized, live,
                   cards, ledger, previews, keys, announced, movements>>

\* expires_on passes: no row changes, so no lock notices.
BenefitLapses(b) ==
    /\ benefits[b].state = "active"
    /\ benefits' = [benefits EXCEPT ![b].state = "lapsed"]
    /\ UNCHANGED <<program, brandOpen, branchOpen, access, authorized, live,
                   cards, ledger, previews, keys, announced, txns, movements>>

\* The type is frozen by the first movement and by the first benefit row.
TypeMayChange ==
    /\ \A c \in Customers : ledger[c] = <<>>
    /\ \A b \in Benefits : benefits[b].state = "absent"

UpdateProgram(type, active) ==
    /\ SomeManager
    /\ type # program.type => TypeMayChange
    /\ program' = [type |-> type, active |-> active]
    /\ txns' = RollBack(txns, {<<"program">>})
    /\ UNCHANGED <<brandOpen, branchOpen, access, authorized, benefits, live,
                   cards, ledger, previews, keys, announced, movements>>

\* UpdateStaff and DeleteStaff write membership rows nobody locks.
SetBranchAccess(s) ==
    /\ SomeManager /\ brandOpen
    /\ s \in Staff \ Managers /\ s \in live
    /\ authorized' = IF s \in authorized THEN authorized \ {s}
                                         ELSE authorized \cup {s}
    /\ UNCHANGED <<program, brandOpen, branchOpen, access, benefits, live,
                   cards, ledger, previews, keys, announced, txns, movements>>

-----------------------------------------------------------------------------
(* Closing the brand and deleting accounts *)

ClosedCards(missed) ==
    [c \in Customers |->
        IF cards[c].state = "active" /\ <<"card", c>> \notin missed
        THEN [cards[c] EXCEPT !.state = "closed", !.version = @ + 1]
        ELSE cards[c]]

RetiredBenefits(missed) ==
    [b \in Benefits |->
        IF benefits[b].state \in {"active", "lapsed"} /\ <<"benefit", b>> \notin missed
        THEN [benefits[b] EXCEPT !.state = "retired"]
        ELSE benefits[b]]

\* DELETE /brands/{id}: memberships, access and catalogue go; the previews
\* stay and are refused at confirmation.  It is READ COMMITTED and has locked
\* the program when it looks for benefits and cards: no insert escapes it.
DeleteBrand ==
    /\ SomeManager /\ brandOpen
    /\ brandOpen' = FALSE
    /\ branchOpen' = FALSE
    /\ access' = FALSE
    /\ program' = [program EXCEPT !.active = FALSE]
    /\ authorized' = {}
    /\ benefits' = RetiredBenefits({})
    /\ cards' = ClosedCards({})
    /\ txns' = RollBack(txns, {<<"brand">>} \cup ClosedRows)
    /\ UNCHANGED <<live, ledger, previews, keys, announced, movements>>

\* DELETE /brands/{id}/branches/{id}: other branches stay open.  It writes the row of the
\* branch and nothing else.
DeleteBranch ==
    /\ SomeManager /\ brandOpen /\ branchOpen /\ Closable
    /\ branchOpen' = FALSE
    /\ txns' = RollBack(txns, {<<"branch">>})
    /\ UNCHANGED <<program, brandOpen, access, authorized, benefits, live,
                   cards, ledger, previews, keys, announced, movements>>

\* DELETE /me.  The brand closes with its last owner, as the snapshot has it.
BeginErasure(t, u) ==
    /\ txns[t].kind = "idle"
    /\ u \in live
    /\ txns' = [txns EXCEPT ![t] =
                  [Idle EXCEPT !.kind = "erasure", !.actor = u,
                     !.closes = brandOpen /\ u \in Managers
                                          /\ Managers \cap live = {u}]]
    /\ UNCHANGED <<brandVars, live, cards, ledger, previews, keys, announced,
                   movements>>

Removed(p, x) == p \in Owned(x.actor) /\ <<"preview", p>> \notin x.missed

\* A customer's account, card, ledger and previews are removed and stored
\* confirmation answers are redacted.  A preview it cannot see but that
\* references the card makes the removal of the card fail.
CommitCustomerErasure(t) ==
    LET x == txns[t]
        c == x.actor
        kept == <<"card", c>> \in x.missed
        redacted == {k \in Keys : /\ keys[k].movement # 0
                                  /\ movements[keys[k].movement].customer = c}
    IN  /\ x.kind = "erasure" /\ c \in Customers
        /\ \A p \in Owned(c) : ~Removed(p, x) => ~previews[p].card
        /\ live' = live \ {c}
        /\ cards' = IF kept THEN cards ELSE [cards EXCEPT ![c] = NoCard]
        /\ ledger' = IF kept THEN ledger ELSE [ledger EXCEPT ![c] = <<>>]
        /\ previews' = [p \in Previews |-> IF Removed(p, x) THEN Gone ELSE previews[p]]
        /\ keys' = [k \in Keys |-> IF k \in redacted
                                   THEN [keys[k] EXCEPT !.movement = 0]
                                   ELSE keys[k]]
        /\ announced' = [announced EXCEPT ![c] = [notices |-> 0, pushes |-> {}]]
        /\ txns' = RollBack(Finish(t), {<<"user", c>>, <<"card", c>>}
                                \cup {<<"preview", p>> : p \in Owned(c)}
                                \cup {<<"key", k>> : k \in redacted})
        /\ UNCHANGED <<brandVars, movements>>

\* What is left of a confirmation key whose operator is deleted: it stays
\* completed, with no owner, no fingerprint and no answer.
ScrubbedKeepingAnswer(k) ==
    [keys[k] EXCEPT !.actor = None, !.preview = None]
Scrubbed(k) ==
    [keys[k] EXCEPT !.actor = None, !.preview = None, !.movement = 0]

\* A staff member's previews are removed; if the brand closes, everybody
\* else's open ones expire at once.
CommitStaffErasure(t) ==
    LET x == txns[t]
        s == x.actor
        scoped == {k \in Keys : keys[k].actor = s}
    IN  /\ x.kind = "erasure" /\ s \in Staff
        /\ live' = live \ {s}
        /\ authorized' = IF x.closes THEN {} ELSE authorized \ {s}
        /\ brandOpen' = (brandOpen /\ ~x.closes)
        /\ branchOpen' = (branchOpen /\ ~x.closes)
        /\ access' = (access /\ ~x.closes)
        /\ program' = [program EXCEPT !.active = @ /\ ~x.closes]
        /\ benefits' = IF x.closes THEN RetiredBenefits(x.missed) ELSE benefits
        /\ cards' = IF x.closes THEN ClosedCards(x.missed) ELSE cards
        /\ previews' = [p \in Previews |->
                          IF Removed(p, x) THEN Gone
                          ELSE IF x.closes /\ previews[p].state = "open"
                                          /\ <<"preview", p>> \notin x.missed
                               THEN [previews[p] EXCEPT !.expired = TRUE]
                               ELSE previews[p]]
        /\ keys' = [k \in Keys |-> IF k \in scoped
                                   THEN Scrubbed(k) ELSE keys[k]]
        /\ txns' = RollBack(Finish(t), {<<"user", s>>}
                                \cup {<<"preview", p>> : p \in Owned(s)}
                                \cup {<<"key", k>> : k \in scoped}
                                \cup IF x.closes
                                     THEN {<<"brand">>} \cup ClosedRows \cup
                                          {<<"preview", p>> : p \in Previews}
                                     ELSE {})
        /\ UNCHANGED <<ledger, announced, movements>>

-----------------------------------------------------------------------------
(* Retention (ApplyRetention), in any order the two periods allow *)

PrunePreview(p) ==
    /\ previews[p].state \in {"open", "consumed"} /\ previews[p].expired
    /\ previews' = [previews EXCEPT ![p] = Gone]
    /\ txns' = RollBack(txns, {<<"preview", p>>})
    /\ UNCHANGED <<brandVars, live, cards, ledger, keys, announced, movements>>

PruneKey(k) ==
    /\ keys[k].state = "completed"
    /\ keys' = [keys EXCEPT ![k] = FreeKey]
    /\ UNCHANGED <<brandVars, live, cards, ledger, previews, announced, txns,
                   movements>>

-----------------------------------------------------------------------------
Handlers ==
    \E t \in Transactions :
        \/ \E p \in Previews, s \in Staff, c \in Customers, kind \in Kinds,
              b \in Benefits \cup {None} : BeginPreview(t, p, s, c, kind, b)
        \/ CommitPreview(t)
        \/ \E s \in Staff, k \in Keys, p \in Previews : BeginConfirm(t, s, k, p)
        \/ CommitConfirm(t)
        \/ \E s \in Staff, m \in 1..Len(movements) : BeginReversal(t, s, m)
        \/ CommitReversal(t)
        \/ \E u \in Customers \cup Staff : BeginErasure(t, u)
        \/ CommitCustomerErasure(t)
        \/ CommitStaffErasure(t)
        \/ Abort(t)

Management ==
    \/ \E b \in Benefits, n \in Requirements :
          \/ CreateBenefit(b, n)
          \/ \E state \in {"active", "retired"} : ReplaceBenefit(b, n, state)
    \/ \E b \in Benefits : BenefitLapses(b)
    \/ \E type \in Types, active \in BOOLEAN : UpdateProgram(type, active)
    \/ \E s \in Staff : SetBranchAccess(s)
    \/ DeleteBrand \/ DeleteBranch

Retention ==
    \/ \E p \in Previews : ExpirePreview(p) \/ PrunePreview(p)
    \/ \E k \in Keys : PruneKey(k)

Next == Handlers \/ Management \/ Retention

Spec == Init /\ [][Next]_vars

-----------------------------------------------------------------------------
(* Properties *)

\* A preview is confirmed at most once, whichever keys the retries carry and
\* even after retention has dropped the key or the preview (ConfirmMovement's
\* claimIdempotency, FOR UPDATE on the preview, consumed_at).
OneMovementPerPreview ==
    \A i, j \in 1..Len(movements) :
        movements[i].preview = movements[j].preview => i = j

\* A card's rows, in order, take its balance from 0 to where it stands: each
\* starts where the previous one ended, and the last ends at the balance of
\* the program's column; the other column is never touched.  No committed
\* confirmation or reversal is lost by another (FOR UPDATE on tarjetas).
LastAfter(c) ==
    IF ledger[c] = <<>> THEN 0 ELSE ledger[c][Len(ledger[c])].after

BalanceFollowsLedger ==
    \A c \in Customers :
        /\ \A i \in 1..Len(ledger[c]) :
              ledger[c][i].before = IF i = 1 THEN 0 ELSE ledger[c][i-1].after
        /\ cards[c].balance[program.type] = LastAfter(c)
        /\ \A type \in Types \ {program.type} : cards[c].balance[type] = 0

\* Every row moves the balance by exactly what was previewed, in the direction
\* of its operation; a reversal moves it back, after the movement, and only
\* once (reversiones_movimiento.movimiento_id is UNIQUE).
Change(e) == e.after - e.before

RowIsJustified(c, i) ==
    LET e == ledger[c][i]
        move == movements[e.movement]
    IN  /\ e.movement \in 1..Len(movements)
        /\ move.customer = c
        /\ IF e.kind = "REVERSAL"
           THEN /\ Change(e) = IF move.kind = "CANJE" THEN move.amount
                                                      ELSE -move.amount
                /\ \E j \in 1..(i-1) : /\ ledger[c][j].movement = e.movement
                                       /\ ledger[c][j].kind = move.kind
           ELSE /\ e.kind = move.kind
                /\ Change(e) = IF move.kind = "CANJE" THEN -move.amount
                                                      ELSE move.amount

RowsAreJustified ==
    \A c \in Customers :
        /\ \A i \in 1..Len(ledger[c]) : RowIsJustified(c, i)
        /\ \A i, j \in 1..Len(ledger[c]) :
              /\ ledger[c][i].movement = ledger[c][j].movement
              /\ (ledger[c][i].kind = "REVERSAL") = (ledger[c][j].kind = "REVERSAL")
              => i = j

\* A completed key whose answer is not redacted replays the movement its own
\* request made, so a client that lost the response learns what happened and
\* nothing else (IdempotentResult.Replayed).
KeyReplaysItsMovement ==
    \A k \in Keys :
        keys[k].movement # 0 =>
            /\ keys[k].movement \in 1..Len(movements)
            /\ movements[keys[k].movement].key = k
            /\ movements[keys[k].movement].preview = keys[k].preview

\* Stamps and points never mix: a preview or a movement made under one program
\* type is never settled under the other (UpdateProgram's two checks, against
\* handlers that read the type without locking the program).
ProgramTypeFrozen ==
    /\ \A p \in Previews :
          previews[p].state \in {"open", "consumed"} => previews[p].type = program.type
    /\ \A i \in 1..Len(movements) : movements[i].type = program.type

\* A committed row notifies its card's owner once, and a confirmation queues
\* its push; replays and repeated reversals add nothing.
EveryRowAnnouncedOnce ==
    \A c \in Customers :
        /\ announced[c].notices = Len(ledger[c])
        /\ announced[c].pushes =
              {ledger[c][i].movement :
                  i \in {j \in 1..Len(ledger[c]) : ledger[c][j].kind # "REVERSAL"}}

\* After a customer's account is deleted nothing of it is left behind or comes
\* back, whatever was in flight (AnonymizeAccount): at most a preview that was
\* being made meanwhile, and that one is never confirmed.
DeletedCustomerLeavesNothing ==
    \A c \in Customers \ live :
        /\ cards[c] = NoCard
        /\ ledger[c] = <<>>
        /\ announced[c].pushes = {}
        /\ \A p \in Previews : previews[p].customer = c => previews[p].state = "open"
        /\ \A k \in Keys : keys[k].movement # 0
                             => movements[keys[k].movement].customer # c

\* Owners who leave at the same time cannot leave a shared brand open and
\* without an owner (the brand lock and the isolation of AnonymizeAccount).
NoOrphanBrand == brandOpen => \E s \in Managers : s \in live /\ s \in authorized

\* A movement commits only under an open brand, an active program and a live
\* customer, a credit only at an open branch, and a redemption at the price its
\* benefit has at that instant: of what ConfirmMovement checked this cannot have
\* changed before its commit, though it locks neither the brand, the branch nor the
\* demo access.  Not claimed, because nothing locks it: that a redemption's branch is
\* still open, and that the operator still reaches the branch.
ConfirmedOnCurrentTerms ==
    [][ Len(movements') > Len(movements) =>
          LET move == movements'[Len(movements')]
              row == previews[move.preview]
          IN  /\ brandOpen /\ program.active /\ access
              /\ move.kind = "ACUMULACION" => branchOpen
              /\ move.customer \in live
              /\ move.kind = "CANJE" =>
                   /\ benefits[row.benefit].requirement = move.amount
                   /\ benefits[row.benefit].state \in {"active", "lapsed"} ]_vars

\* A confirmation or a reversal never commits for an operator whose account is
\* already deleted: the row it inserts references the operator.
WrittenByLiveOperator ==
    [][ \A t \in Transactions :
          /\ txns[t].kind \in {"confirm", "reversal"}
          /\ \E c \in Customers : Len(ledger'[c]) > Len(ledger[c])
          /\ txns'[t].kind = "idle"
          => txns[t].actor \in live ]_vars

\* What a card shows, what its history says, what was announced of it and the
\* program it was written under agree, whatever committed in between.
LedgerIsConsistent ==
    /\ BalanceFollowsLedger
    /\ RowsAreJustified
    /\ ProgramTypeFrozen
    /\ EveryRowAnnouncedOnce

=============================================================================
