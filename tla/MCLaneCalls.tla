------------------------------ MODULE MCLaneCalls ------------------------------
(* A small instance of LaneCalls for TLC. *)
EXTENDS LaneCalls

CONSTANTS c1, c2, c3

MCCalls == {c1, c2, c3}

\* One call is heavier than the others.
MCWeight == (c1 :> 1) @@ (c2 :> 1) @@ (c3 :> 2)

\* Calls of one weight are only compared.
Symmetry == Permutations({c1, c2})
===============================================================================
