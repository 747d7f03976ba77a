---------------------------- MODULE MCDeliveries ----------------------------
(* Instances of Deliveries for model checking. *)
EXTENDS Deliveries, TLC

=============================================================================
