----------------------------- MODULE IdealLedger -----------------------------
(***************************************************************************)
(* What a customer and a shop are promised of a balance, with no           *)
(* transactions, retries, keys or expiries: a previewed operation counts   *)
(* at most once, by the amount that was shown; it may be taken back once,  *)
(* by the same amount; the balance is the sum of what stands and is never  *)
(* negative; an account that is deleted keeps nothing.                     *)
(***************************************************************************)
EXTENDS Integers, FiniteSetsExt

CONSTANTS
    Customers,
    Operations,   \* previewed operations
    MaxDelta,     \* the largest change one operation makes (never none)
    None

VARIABLES
    balance,      \* per customer
    booked        \* per operation: whose balance it changed, and by how much

idealVars == <<balance, booked>>

Unbooked == [state |-> "unbooked", customer |-> None, delta |-> 0]

IdealInit ==
    /\ balance = [c \in Customers |-> 0]
    /\ booked = [o \in Operations |-> Unbooked]

\* Any booking that the balance covers.
Book(o) ==
    LET b == booked'[o]
    IN  /\ booked[o].state = "unbooked" /\ b.state = "standing"
        /\ b.customer \in Customers /\ b.delta \in (-MaxDelta..MaxDelta) \ {0}
        /\ booked' = [booked EXCEPT ![o] = b]
        /\ balance[b.customer] + b.delta >= 0
        /\ balance' = [balance EXCEPT ![b.customer] = @ + b.delta]

TakeBack(o) ==
    LET b == booked[o]
    IN  /\ b.state = "standing"
        /\ balance[b.customer] - b.delta >= 0
        /\ balance' = [balance EXCEPT ![b.customer] = @ - b.delta]
        /\ booked' = [booked EXCEPT ![o].state = "settled"]

Forget(c) ==
    /\ balance' = [balance EXCEPT ![c] = 0]
    /\ booked' = [o \in Operations |->
                    IF booked[o].customer = c
                    THEN [booked[o] EXCEPT !.state = "settled"] ELSE booked[o]]

IdealNext ==
    \/ \E o \in Operations : Book(o) \/ TakeBack(o)
    \/ \E c \in Customers : Forget(c)

IdealSpec == IdealInit /\ [][IdealNext]_idealVars

\* The balance is the sum of the operations that stand.
Standing(c) == {o \in Operations : booked[o].state = "standing"
                                   /\ booked[o].customer = c}

BalanceIsSumOfStanding ==
    \A c \in Customers :
        balance[c] = MapThenSumSet(LAMBDA o : booked[o].delta, Standing(c))
=============================================================================
