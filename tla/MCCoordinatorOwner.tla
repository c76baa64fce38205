-------------------------- MODULE MCCoordinatorOwner ---------------------------
(* Small instances of CoordinatorOwner for TLC. *)
EXTENDS CoordinatorOwner, TLC

CONSTANTS k1, k2, t1, t2, c1, c2, i1, i2

OneKey == {k1}
TwoKeys == {k1, k2}
OneTarget == {t1}
TwoTargets == {t1, t2}
TwoCalls == {c1, c2}
OneToken == {i1}
TwoTokens == {i1, i2}

\* Calls, tokens and targets are only compared.
Symmetry ==
    Permutations(TwoCalls) \cup Permutations(TwoTokens) \cup Permutations(TwoTargets)
===============================================================================
