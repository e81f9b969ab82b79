------------------------------- MODULE MCCalls -------------------------------
(* Instances of Calls for TLC.  Functions differ by their names only.      *)
EXTENDS Calls, TLC

Symmetry == Permutations(Funcs)

AnyOrPlain == {{}, AllHabits}
Creates == {{"creates"}}
CallsFirst == {{"first"}}
=============================================================================
