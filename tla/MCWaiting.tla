------------------------------- MODULE MCWaiting -------------------------------
(* Four calls, two of which opted out of waiting through a failure, in a room  *)
(* for two; the sequence numbers run out after three.                          *)
EXTENDS RouteWaiting, TLC

CONSTANTS c1, c2, c3, c4

MCCalls == {c1, c2, c3, c4}
MCRejecting == {c1, c2}
MCBytes == (c1 :> 1) @@ (c2 :> 2) @@ (c3 :> 1) @@ (c4 :> 2)

===============================================================================
