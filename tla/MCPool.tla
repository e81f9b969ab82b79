------------------------------- MODULE MCPool -------------------------------
(* Instances of Pool for TLC.  The name of a block says nothing about it.  *)
EXTENDS Pool, TLC

Symmetry == Permutations(Blocks)
=============================================================================
