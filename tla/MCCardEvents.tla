----------------------------- MODULE MCCardEvents -----------------------------
(* A small instance of CardEvents. *)
EXTENDS CardEvents

=============================================================================
