----------------------------- MODULE MCIdentity -----------------------------
(* Instances of Identity for model checking. *)
EXTENDS Identity, TLC

Symmetry == Permutations(Requests)

=============================================================================
