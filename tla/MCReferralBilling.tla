-------------------------- MODULE MCReferralBilling --------------------------
(* Instances of ReferralBilling for model checking. *)
EXTENDS ReferralBilling, TLC

Symmetry == Permutations(Requests) \cup Permutations(Keys)

=============================================================================
