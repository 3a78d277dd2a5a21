------------------------------ MODULE MCEngine ------------------------------
(* Small instances of Engine for TLC. *)
EXTENDS Engine, TLC

MCSymmetry == Permutations(Proc) \cup Permutations(Root)
=============================================================================
