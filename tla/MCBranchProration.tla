-------------------------- MODULE MCBranchProration --------------------------
(* Instances of BranchProration for model checking. *)
EXTENDS BranchProration, TLC

Symmetry == Permutations(Operations)

=============================================================================
