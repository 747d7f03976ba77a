-------------------------- MODULE LedgerRefinement --------------------------
(***************************************************************************)
(* LoyaltyLedger, with its snapshots, row locks, keys, retention and       *)
(* closures, implements IdealLedger.                                       *)
(***************************************************************************)
EXTENDS LoyaltyLedger

CONSTANT MaxDelta   \* no operation moves more (a benefit may cost 10000000)

ASSUME DeltaCoversAmounts ==
    /\ MaxDelta \in Nat
    /\ \A n \in CreditAmounts \cup Requirements \cup {1} : n <= MaxDelta

\* The movement a preview became; its entry in the customer's ledger says
\* whether it stands.
Confirmations(p) == {m \in 1..Len(movements) : movements[m].preview = p}

Signed(move) == IF move.kind = "CANJE" THEN -move.amount ELSE move.amount

Booking(p) ==
    IF Confirmations(p) = {}
    THEN [state |-> "unbooked", customer |-> None, delta |-> 0]
    ELSE LET m == CHOOSE n \in Confirmations(p) : TRUE
             c == movements[m].customer
         IN  [state |-> IF Recorded(c, m) /\ ~Reversed(c, m)
                        THEN "standing" ELSE "settled",
              customer |-> c, delta |-> Signed(movements[m])]

Ideal == INSTANCE IdealLedger WITH
            Operations <- Previews,
            balance <- [c \in Customers |-> cards[c].balance[program.type]],
            booked <- [p \in Previews |-> Booking(p)]

\* A card shows the sum of the confirmed movements of its customer that were
\* not reversed (saldo_sellos, saldo_puntos against historial_movimientos and
\* reversiones_movimiento).
BalanceIsSumOfStanding == Ideal!BalanceIsSumOfStanding

\* The books balance, in the service's own terms and in the customer's: rows have
\* their types and no balance is negative, and each card agrees with its rows and with
\* the operations that stand.
BooksBalance == TypeOK /\ LedgerIsConsistent /\ BalanceIsSumOfStanding

\* Every committed transaction is one booking, one taking back, one
\* forgotten account, or nothing a customer could see in a balance.
ImplementsIdealLedger == Ideal!IdealSpec
=============================================================================
