---------------------------- MODULE MCEditBatch ----------------------------
(* The symmetry of EditBatch's runs. *)
EXTENDS EditBatch, TLC

Symmetry == Permutations(Tasks)
=============================================================================
