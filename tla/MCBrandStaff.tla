----------------------------- MODULE MCBrandStaff -----------------------------
(* A small instance of BrandStaff. *)
EXTENDS BrandStaff, TLC

Symmetric == Permutations(Staff) \cup Permutations(Requests)

=============================================================================
