----------------------------- MODULE MCCoordinator -----------------------------
(* Small instances of CoordinatorMachine for TLC. *)
EXTENDS CoordinatorMachine, TLC

CONSTANTS t1, t2

MCTargets == {t1, t2}

\* Targets are only compared.
TargetSymmetry == Permutations(MCTargets)
===============================================================================
