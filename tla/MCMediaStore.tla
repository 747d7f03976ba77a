---------------------------- MODULE MCMediaStore ----------------------------
(* Instances of MediaStore for model checking. *)
EXTENDS MediaStore, TLC

=============================================================================
