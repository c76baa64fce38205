------------------------------ MODULE MCRoutes ------------------------------
(* ClusterRoutes for TLC: room for two families, two lookups at one time, two   *)
(* classes of traffic with one call each.  Each history of directories sets up   *)
(* one of the hard cases; Targets keeps the calls to the brokers it is about.    *)
EXTENDS ClusterRoutes

CONSTANTS e1, e2, c1, c2

MCDirectories ==
    {\* both lanes of broker 1 make room for broker 3 while broker 2 keeps its lane
     <<(1 :> e1) @@ (2 :> e1), (2 :> e1) @@ (3 :> e2)>>,
     \* a broker with both of its lanes moves to another endpoint
     <<(1 :> e1), (1 :> e2)>>,
     \* a broker moves beside one that stays
     <<(2 :> e1) @@ (4 :> e1), (2 :> e1) @@ (4 :> e2)>>,
     \* a broker moves away and back
     <<(4 :> e1), (4 :> e2), (4 :> e1)>>,
     \* a broker gives way to another one and comes back alone
     <<(4 :> e1) @@ (5 :> e1), (3 :> e2) @@ (5 :> e1), (4 :> e1)>>}

MCClassOf == (c1 :> 1) @@ (c2 :> 2)

MCTargets == (c1 :> {1, 4}) @@ (c2 :> {1, 2, 3, 5})
=============================================================================
