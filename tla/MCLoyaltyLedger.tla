--------------------------- MODULE MCLoyaltyLedger ---------------------------
(* Small instances of LoyaltyLedger for TLC. *)
EXTENDS LedgerRefinement, TLC

Symmetry == Permutations(Keys) \cup Permutations(Previews)
                \cup Permutations(Transactions)
CrossedSymmetry == Symmetry \cup Permutations(Customers)
OwnersSymmetry == Symmetry \cup Permutations(Managers)
=============================================================================
