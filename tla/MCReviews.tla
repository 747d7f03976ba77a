------------------------------- MODULE MCReviews -------------------------------
(* A small instance of Reviews. *)
EXTENDS Reviews

=============================================================================
