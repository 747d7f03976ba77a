------------------------ MODULE MCSubscriptionBilling ------------------------
(* Instances of SubscriptionBilling for model checking. *)
EXTENDS SubscriptionBilling, TLC

Symmetry == Permutations(Requests)

=============================================================================
