----------------------------- MODULE LaneFamilies -----------------------------
(* The physical lanes of a cluster (reactor/direct_plaintext/cluster_runtime): *)
(* the vector of lanes, the slot table from a lane's owner to its index, and   *)
(* the broker families that reserve one owner for each class of traffic and    *)
(* activate a lane for it when a route is first demanded.  The operators read   *)
(* and build the record c of ClusterRoutes: c.lanes, c.slots, c.families, ...   *)
(*                                                                             *)
(* An owner is <<incarnation, traffic>>.  The code's allocator counts up and    *)
(* never returns an identity twice; Incarnation takes the least number that    *)
(* nothing refers to any more, which no reader can tell from a fresh one.       *)
EXTENDS Integers, FiniteSets, Sequences, SequencesExt, FiniteSetsExt

CONSTANTS
    Traffic,          \* the classes of traffic, in their stable order
    FamilyCapacity,   \* metadata.broker_directory.max_brokers
    None

\* A partial function without one key, and with one key set.
Without(f, key) == [k \in DOMAIN f \ {key} |-> f[k]]
With(f, key, value) == (key :> value) @@ f

-------------------------------------------------------------------------------
(* Lanes.  A lane is the part of LaneLifecycle its cluster can tell apart.     *)

\* A lane started for an endpoint with the addresses a lookup of it returned.
NewLane(owner, endpoint, addresses) ==
    [owner |-> owner, endpoint |-> endpoint, addresses |-> addresses,
     phase |-> "Connecting", epoch |-> 1]

IsTerminal(lane) == lane.phase \in {"Closed", "Reclaimable"}

Reclaimable(lane) == lane.phase = "Reclaimable"

CanAdmit(lane) == lane.phase = "Available"

\* Whether the lane is in a failed generation (its epoch is the failed one).
InFailure(lane) ==
    lane.phase \in {"Backoff", "RefreshPending", "RefreshResolving", "RefreshBackoff"}

\* A connected lane drains its calls first; a lane without a connection closes.
DrainLane(lane) ==
    CASE lane.phase \in {"Connecting", "Available"} -> [lane EXCEPT !.phase = "Draining"]
      [] InFailure(lane) -> [lane EXCEPT !.phase = "Closed"]
      [] OTHER -> lane

-------------------------------------------------------------------------------
(* Slots.                                                                       *)

PushLane(c, lane) ==
    [c EXCEPT !.lanes = Append(@, lane),
              !.slots = With(@, lane.owner, Len(c.lanes) + 1)]

\* Vec::swap_remove: the last lane takes the place of the removed one.
SwapRemoved(lanes, index) ==
    IF index = Len(lanes) THEN Front(lanes) ELSE [Front(lanes) EXCEPT ![index] = Last(lanes)]

\* Variant: the lane that takes the place keeps its old slot.
RemoveLaneAtKeepingSlots(c, owner, index) ==
    [c EXCEPT !.lanes = SwapRemoved(@, index), !.slots = Without(@, owner)]

RemoveLaneAt(c, owner, index) ==
    LET lanes == SwapRemoved(c.lanes, index)
        slots == Without(c.slots, owner)
    IN  [c EXCEPT !.lanes = lanes,
                  !.slots = IF index \in DOMAIN lanes
                            THEN With(slots, lanes[index].owner, index)
                            ELSE slots]

\* The lane set holds one lane for each class of each family, and the seed.
LaneCapacity == FamilyCapacity * Cardinality(Traffic) + 1

-------------------------------------------------------------------------------
(* Families.                                                                    *)

\* A family reserves an owner for every class and has no lane yet.
NewFamily(incarnation, endpoint) ==
    [incarnation |-> incarnation, endpoint |-> endpoint, active |-> {}, retiring |-> FALSE]

OwnerOf(family, traffic) == <<family.incarnation, traffic>>

Reserves(family, owner) == owner[1] = family.incarnation /\ owner[2] \in Traffic

\* Where one class of a family stands: its lane is active, dormant, or the three
\* tables disagree about it.
FamilyLaneState(c, family, traffic) ==
    LET owner == OwnerOf(family, traffic)
        at == {i \in DOMAIN c.lanes : c.lanes[i].owner = owner}
    IN  CASE /\ traffic \in family.active
             /\ owner \in DOMAIN c.slots
             /\ at = {c.slots[owner]} -> "Active"
          [] /\ traffic \notin family.active
             /\ owner \notin DOMAIN c.slots
             /\ at = {} -> "Dormant"
          [] OTHER -> "Diverged"

\* Whether some class of a broker's family is in disagreement.
Diverged(c, broker) ==
    \E t \in Traffic : FamilyLaneState(c, c.families[broker], t) = "Diverged"

\* The lane a broker's traffic may use now: its family is at the endpoint, is
\* not on its way out, and the class is active.
CurrentPhysicalOwner(c, broker, traffic, endpoint) ==
    IF /\ broker \in DOMAIN c.families
       /\ ~c.families[broker].retiring
       /\ c.families[broker].endpoint = endpoint
       /\ FamilyLaneState(c, c.families[broker], traffic) = "Active"
    THEN OwnerOf(c.families[broker], traffic)
    ELSE None

LaneOf(c, owner) == c.lanes[c.slots[owner]]

\* The active lanes of a family.
FamilyRemovals(c, broker) ==
    {OwnerOf(c.families[broker], t) : t \in c.families[broker].active}

FamilyReclaimable(c, broker) ==
    \A owner \in FamilyRemovals(c, broker) : Reclaimable(LaneOf(c, owner))

\* Retiring a family drains every lane of it that is not already terminal.
BeginFamilyRetirement(c, broker) ==
    LET drained == {c.slots[owner] : owner \in FamilyRemovals(c, broker)}
    IN  [c EXCEPT !.families[broker].retiring = TRUE,
                  !.lanes = [i \in DOMAIN @ |->
                               IF i \in drained /\ ~IsTerminal(@[i])
                               THEN DrainLane(@[i]) ELSE @[i]]]

\* The lanes of a family are removed from the highest index down, so that a
\* removal never moves a lane that is still to be removed.
RemovalOrder(c, broker) ==
    SetToSortSeq(FamilyRemovals(c, broker), LAMBDA a, b : c.slots[a] > c.slots[b])

RemoveLanes(c, broker) ==
    FoldLeft(LAMBDA acc, owner : RemoveLaneAt(acc, owner, c.slots[owner]),
             c, RemovalOrder(c, broker))

-------------------------------------------------------------------------------
(* Ownership.                                                                   *)

\* The least incarnation nothing refers to: no family, no lane, no route that
\* still names an installed owner, no refresh that is being looked up.
Incarnation(c, referred) ==
    LET used == {c.families[b].incarnation : b \in DOMAIN c.families}
                  \cup {c.lanes[i].owner[1] : i \in DOMAIN c.lanes}
                  \cup {owner[1] : owner \in DOMAIN c.slots}
                  \cup {owner[1] : owner \in referred}
    IN  CHOOSE n \in 1 .. Cardinality(used) + 1 :
            n \notin used /\ \A m \in 1 .. n - 1 : m \in used

\* Every slot names its lane, and every lane is claimed exactly once: by the
\* seed or by an active class of one family (validate_cluster_ownership).
OwnershipHolds(c) ==
    LET claims == {c.seed} \cup UNION {FamilyRemovals(c, b) : b \in DOMAIN c.families}
    IN  /\ Cardinality(DOMAIN c.slots) = Len(c.lanes)
        /\ \A i \in DOMAIN c.lanes :
              /\ c.lanes[i].owner \in DOMAIN c.slots \cap claims
              /\ c.slots[c.lanes[i].owner] = i
        /\ c.seed \in DOMAIN c.slots
        /\ \A b \in DOMAIN c.families : ~Diverged(c, b) /\ ~Reserves(c.families[b], c.seed)
        /\ \A a, b \in DOMAIN c.families :
              c.families[a].incarnation = c.families[b].incarnation => a = b
===============================================================================
