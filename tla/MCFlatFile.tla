----------------------------- MODULE MCFlatFile -----------------------------
(* Instances of FlatFile for TLC.  Keys are told apart only by comparison, *)
(* and contents are only passed on.                                        *)
EXTENDS FlatFile, TLC

Symmetry == Permutations(Keys) \union Permutations(Contents)
=============================================================================
