----------------------------- MODULE MCSelfUpdate -----------------------------
(* Instances of SelfUpdate for TLC: the baseline and one or two updates. *)
EXTENDS SelfUpdate, TLC

CONSTANTS boot, a, b

OneUpdate  == {boot, a}
TwoUpdates == {boot, a, b}

Symmetry == Permutations({a, b})

==============================================================================
