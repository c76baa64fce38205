----------------------------- MODULE ClusterRoutes -----------------------------
(* The discovered routes of a cluster (reactor/direct_plaintext/               *)
(* cluster_runtime): for every broker and class of traffic the route the       *)
(* current directory advertises, the calls that wait for it, the lookup of its *)
(* endpoint, the evidence kept for a family that is still busy, and the        *)
(* physical lane the route is installed on.  One action is one call of the     *)
(* host: a routed request, an answer of the resolver, a new directory, one     *)
(* drive of the cluster, one endpoint refresh, the start of the drain.         *)
(*                                                                             *)
(* The round-robin cursors (route_cursor, route_install_cursor, refresh_cursor,  *)
(* routes_first) only choose where a turn starts.  A turn of the model starts    *)
(* anywhere, so that what holds here holds at every position of the cursors.     *)
(*                                                                             *)
(* The lanes are those of LaneLifecycle seen from outside; the seed lane, its   *)
(* waiting calls and the resolver's permits are modelled in NameResolution and  *)
(* the queue of one route in RouteWaiting.  last_dns_failure is only reported   *)
(* in observations and is left out.                                             *)
EXTENDS LaneFamilies, BrokerResolution

CONSTANTS
    Brokers,          \* broker identities, numbers in their map order
    Directories,      \* bound: the sequences of directories the seed may bring, each
                      \* directory a partial function from Brokers to endpoints
    Calls,            \* routed calls
    ClassOf,          \* the traffic class of each call
    Targets,          \* bound: the brokers each call may be sent to
    Rejecting,        \* the calls that reject after a route failure
    Budget,           \* metadata.admission_budget
    LaneTurnBudget,   \* metadata.lane_turn_budget
    PermitLimit,      \* lookups the resolver takes at one time
    Expiring,         \* bound: the calls whose deadline may pass
    Fragile,          \* bound: the classes whose connections may fail
    MaxDnsEpoch,      \* bound: lookups of one route state
    MaxLaneEpoch      \* bound: connection generations of one lane

ASSUME ClusterBounds ==
    /\ Brokers \subseteq Nat /\ Traffic \subseteq Nat
    /\ {FamilyCapacity, Budget, LaneTurnBudget, PermitLimit,
        MaxDnsEpoch, MaxLaneEpoch} \subseteq Nat \ {0}
    /\ Rejecting \cup Expiring \subseteq Calls /\ Fragile \subseteq Traffic
    /\ ClassOf \in [Calls -> Traffic] /\ Targets \in [Calls -> SUBSET Brokers]
    /\ \A h \in Directories : h # <<>> /\ \A g \in DOMAIN h :
          DOMAIN h[g] \subseteq Brokers /\ Cardinality(DOMAIN h[g]) <= FamilyCapacity

VARIABLES
    cluster,     \* ClusterRuntime
    lookups,     \* route lookups the resolver has not answered
    refreshes    \* endpoint refreshes the resolver has not answered

vars == <<cluster, lookups, refreshes>>

\* Map order of the route lanes: by broker, then by class.
LaneBefore(a, b) == a[1] < b[1] \/ (a[1] = b[1] /\ a[2] < b[2])

Sorted(lanes) ==
    [i \in 1 .. Cardinality(lanes) |->
        CHOOSE l \in lanes : Cardinality({m \in lanes : LaneBefore(m, l)}) = i - 1]

\* The position a round-robin cursor reaches; positions count from 0.
AdvanceCursor(cursor, selected, count) ==
    IF count = 0 THEN 0 ELSE ((cursor % count) + selected) % count

\* The positions a cursor may be at.
Cursors(count) == IF count = 0 THEN {0} ELSE 0 .. count - 1

SeedOwner == <<0, 0>>

\* The cluster after the seed is up and its first directory is installed.
FreshCluster(directory) ==
    [lanes |-> <<NewLane(SeedOwner, None, None)>>,
     slots |-> (SeedOwner :> 1),
     families |-> <<>>,
     seed |-> SeedOwner,
     generation |-> 1,
     directory |-> directory,
     routes |-> <<>>,
     draining |-> FALSE,
     fault |-> "None"]

\* Any error ends the host: every waiting call fails and the runtime is dropped.
Fail(why) == [FreshCluster(<<>>) EXCEPT !.fault = why]

Init == cluster \in {FreshCluster(h[1]) : h \in Directories} /\ lookups = {} /\ refreshes = {}

Running == cluster.fault = "None"

-------------------------------------------------------------------------------
(* The state of one route.                                                      *)

NewRouteState(broker, route) ==
    [advertised |-> route, installed |-> None, resolution |-> NewResolution(broker),
     nextEpoch |-> 1, pending |-> None, waiting |-> <<>>,
     failed |-> FALSE, lastFailedEpoch |-> 0]

\* A directory still advertises the broker: the calls that wait move to the new
\* route, unless the endpoint changed, which fails them.
RetainRoute(s, route) ==
    LET known == s.advertised # None
        routeChanged == known /\ s.advertised # route
        endpointChanged == known /\ s.advertised.endpoint # route.endpoint
        SameEndpoint(x) == x # None /\ x.route.endpoint = route.endpoint
    IN  [s EXCEPT
           !.advertised = route,
           !.failed = @ /\ ~routeChanged,
           !.waiting = IF endpointChanged THEN <<>> ELSE @,
           !.installed = IF SameEndpoint(@) THEN [@ EXCEPT !.route = route] ELSE @,
           !.pending = IF SameEndpoint(@) THEN [@ EXCEPT !.route = route] ELSE None]

Retire(s) ==
    [s EXCEPT !.advertised = None, !.pending = None, !.failed = FALSE, !.waiting = <<>>]

MarkInstalled(s, route, owner) ==
    [s EXCEPT !.installed = [route |-> route, owner |-> owner], !.pending = None]

\* Variant: any lookup in flight is taken for one of this route.
NeedsResolutionWhenIdle(s, route, physical) ==
    /\ physical = None
    /\ s.resolution.phase # "Resolving"
    /\ ~(s.pending # None /\ s.pending.route = route)

NeedsResolution(s, route, physical) ==
    /\ physical = None
    /\ ~(s.resolution.phase = "Resolving" /\ s.resolution.route = route)
    /\ ~(s.pending # None /\ s.pending.route = route)

\* The route the current directory gives a broker.
RouteTo(c, broker) ==
    IF broker \in DOMAIN c.directory
    THEN [broker |-> broker, gen |-> c.generation, endpoint |-> c.directory[broker]]
    ELSE None

RouteIsCurrent(c, route) == RouteTo(c, route.broker) = route

\* The lane of LaneFamilies a route lane may use for its advertised endpoint.
PhysicalOwner(c, l, endpoint) == CurrentPhysicalOwner(c, l[1], l[2], endpoint)

\* Whether reading that lane meets tables that disagree.
LaneDiverged(c, l, endpoint) ==
    /\ l[1] \in DOMAIN c.families
    /\ ~c.families[l[1]].retiring
    /\ c.families[l[1]].endpoint = endpoint
    /\ FamilyLaneState(c, c.families[l[1]], l[2]) = "Diverged"

\* Owners some route or some unanswered refresh still names.
Referred(c) ==
    {c.routes[l].installed.owner : l \in {x \in DOMAIN c.routes : c.routes[x].installed # None}}
      \cup {k.owner : k \in refreshes}

-------------------------------------------------------------------------------
(* A routed request (host submit_broker_route, runtime submit_route).           *)

AdvertisedRoutes(c) == {l \in DOMAIN c.routes : c.routes[l].advertised # None}

\* Room for a route that has no state yet; a rotation keeps the empty routes of
\* the families that are still up beside those of the next directory.
RouteCapacity == FamilyCapacity * Cardinality(Traffic)

HasRouteRoom(c, l) ==
    \/ l \in DOMAIN c.routes
    \/ /\ Cardinality(AdvertisedRoutes(c)) < RouteCapacity
       /\ Cardinality(DOMAIN c.routes) < 2 * RouteCapacity

\* The route's state, inserted when it is new, with the submitted route retained.
RetainedState(c, l, route) ==
    RetainRoute(IF l \in DOMAIN c.routes THEN c.routes[l] ELSE NewRouteState(l[1], route), route)

Await(s, call) == [s EXCEPT !.waiting = Append(@, [call |-> call, due |-> FALSE])]

\* A route with a physical lane: behind calls that wait already, on the lane when
\* it admits, and waiting otherwise.  A terminal lane fails the call.
SubmitToPhysical(c, s, call, route, owner, refused) ==
    LET installed == MarkInstalled(s, route, owner)
        lane == LaneOf(c, owner)
    IN  IF /\ ~refused
           /\ installed.waiting # <<>> \/ (~IsTerminal(lane) /\ ~CanAdmit(lane))
        THEN Await(installed, call)
        ELSE installed

\* An effect identity no lookup and no machine refers to.
FreshEffect(c) ==
    LET used == {k.effect : k \in lookups}
                  \cup {c.routes[l].resolution.effect : l \in DOMAIN c.routes}
    IN  CHOOSE n \in 1 .. Cardinality(used) + 1 :
            n \notin used /\ \A m \in 1 .. n - 1 : m \in used

PermitFree == Cardinality(lookups) + Cardinality(refreshes) < PermitLimit

\* The lookup a waiting call starts: one machine step, one resolver request.
StartResolution(c, l, s, route, effect) ==
    LET started == Start(s.resolution, route, s.nextEpoch, effect)
        next == [s EXCEPT !.resolution = started.machine, !.nextEpoch = @ + 1]
    IN  IF started.effect = "Resolve"
        THEN /\ cluster' = [c EXCEPT !.routes = With(@, l, next)]
             /\ lookups' = lookups \cup {[lane |-> l, epoch |-> s.nextEpoch,
                                          effect |-> effect, endpoint |-> route.endpoint]}
        ELSE cluster' = Fail("resolution start diverged") /\ UNCHANGED lookups

\* A request for a broker the directory advertises.  A request that fails before
\* it is retained (a stale route, a draining cluster, no permit, no room) changes
\* nothing.  refused: the queue does not take the call (its deadline has passed
\* or the queue is full).
SubmitRoute(call, broker, refused) ==
    LET l == <<broker, ClassOf[call]>>
        route == RouteTo(cluster, broker)
        s == RetainedState(cluster, l, route)
        physical == PhysicalOwner(cluster, l, route.endpoint)
        needs == NeedsResolution(s, route, physical)
        Retained(t) == cluster' = [cluster EXCEPT !.routes = With(@, l, t)]
    IN  /\ Running /\ ~cluster.draining
        /\ route # None
        /\ \A x \in DOMAIN cluster.routes :
              \A i \in DOMAIN cluster.routes[x].waiting : cluster.routes[x].waiting[i].call # call
        /\ HasRouteRoom(cluster, l)
        /\ refused => call \in Expiring
        /\ needs => PermitFree /\ s.nextEpoch <= MaxDnsEpoch
        /\ IF LaneDiverged(cluster, l, route.endpoint)
           THEN cluster' = Fail("family diverged") /\ UNCHANGED lookups
           ELSE IF call \in Rejecting /\ s.failed
           THEN Retained(s) /\ UNCHANGED lookups
           ELSE IF physical # None
           THEN /\ Retained(SubmitToPhysical(cluster, s, call, route, physical, refused))
                /\ UNCHANGED lookups
           ELSE IF refused
           THEN Retained(s) /\ UNCHANGED lookups
           ELSE IF needs
           THEN StartResolution(cluster, l, Await(s, call), route, FreshEffect(cluster))
           ELSE Retained(Await(s, call)) /\ UNCHANGED lookups
        /\ UNCHANGED refreshes

-------------------------------------------------------------------------------
(* A new directory (install_directory).  An older one, or the same one again,   *)
(* changes nothing.                                                             *)

InstallDirectory(directory) ==
    LET next == [cluster EXCEPT !.generation = @ + 1, !.directory = directory]
        Kept(l) == IF RouteTo(next, l[1]) = None
                   THEN Retire(cluster.routes[l])
                   ELSE RetainRoute(cluster.routes[l], RouteTo(next, l[1]))
        kept == {l \in DOMAIN cluster.routes :
                    Kept(l).advertised # None \/ l[1] \in DOMAIN cluster.families}
    IN  /\ Running /\ ~cluster.draining
        /\ cluster' = [next EXCEPT !.routes = [l \in kept |-> Kept(l)]]
        /\ UNCHANGED <<lookups, refreshes>>

-------------------------------------------------------------------------------
(* Starting lanes for a resolved endpoint (activate_resolved_lane).             *)

\* Whether the evidence must wait: the family is at another endpoint, is on its
\* way out, or there is no room for one more family.
MustDefer(c, l, endpoint) ==
    IF l[1] \in DOMAIN c.families
    THEN c.families[l[1]].retiring \/ c.families[l[1]].endpoint # endpoint
    ELSE Cardinality(DOMAIN c.families) >= FamilyCapacity

\* Activates one class of a broker's family, creating the family when there is
\* none.  opened: the plan is built and the connection attempt starts.
ActivateLane(c, l, evidence, opened) ==
    LET endpoint == evidence.route.endpoint
        exists == l[1] \in DOMAIN c.families
        family == IF exists THEN c.families[l[1]]
                  ELSE NewFamily(Incarnation(c, Referred(c)), endpoint)
        owner == OwnerOf(family, l[2])
        active == [family EXCEPT !.active = @ \cup {l[2]}]
        pushed == PushLane(c, NewLane(owner, endpoint, evidence.addresses))
    IN  IF exists /\ (family.retiring \/ family.endpoint # endpoint)
        THEN Fail("family endpoint changed before replacement")
        ELSE IF exists /\ FamilyLaneState(c, family, l[2]) = "Diverged"
        THEN Fail("family diverged")
        ELSE IF exists /\ l[2] \in family.active
        THEN [c EXCEPT !.routes[l] = MarkInstalled(@, evidence.route, owner)]
        ELSE IF ~exists /\ Cardinality(DOMAIN c.families) >= FamilyCapacity
        THEN Fail("family capacity reached")
        ELSE IF Len(c.lanes) >= LaneCapacity
        THEN Fail("lane capacity reached")
        ELSE IF ~opened
        THEN Fail("lane not started")
        ELSE [pushed EXCEPT !.families = With(@, l[1], active),
                            !.routes[l] = MarkInstalled(@, evidence.route, owner)]

-------------------------------------------------------------------------------
(* An answer of the resolver (complete_route_resolution).                       *)

\* Fresh evidence is kept for later when the family must go first, and starts a
\* lane now otherwise.
InstallResolution(c, l, evidence, opened) ==
    IF MustDefer(c, l, evidence.route.endpoint)
    THEN [c EXCEPT !.routes[l].pending = evidence]
    ELSE ActivateLane(c, l, evidence, opened)

\* Whether an answer is looked at: the lookup the route waits for is still for the
\* route the directory advertises.  An answer that is not leaves the machine where
\* it is, resolving the older route.
AnswerCounts(c, l) ==
    /\ ~c.draining
    /\ l \in DOMAIN c.routes
    /\ c.routes[l].resolution.phase = "Resolving"
    /\ c.routes[l].advertised = c.routes[l].resolution.route
    /\ RouteIsCurrent(c, c.routes[l].resolution.route)

ResolutionCompleted(c, k, ok, opened) ==
    LET done == Complete(c.routes[k.lane].resolution, k.epoch, k.effect, ok)
        next == [c EXCEPT !.routes[k.lane].resolution = done.machine]
        evidence == [route |-> done.machine.route, addresses |-> k.endpoint]
    IN  CASE done.effect = "None" -> c
          [] done.effect = "Failed" ->
               [next EXCEPT !.routes[k.lane].pending = None, !.routes[k.lane].waiting = <<>>]
          [] done.effect = "Resolved" -> InstallResolution(next, k.lane, evidence, opened)

\* The epochs of a route count from 1 again once its machine waits for nothing and
\* the resolver holds nothing of it: no reader can then tell an epoch from a new one.
Rebased(c, l, outstanding) ==
    IF /\ c.fault = "None"
       /\ l \in DOMAIN c.routes
       /\ c.routes[l].resolution.phase # "Resolving"
       /\ \A k \in outstanding : k.lane # l
    THEN [c EXCEPT !.routes[l].nextEpoch = 1, !.routes[l].resolution.epoch = 0]
    ELSE c

CompleteRouteResolution(k, ok, opened) ==
    /\ Running
    /\ lookups' = lookups \ {k}
    /\ cluster' = IF AnswerCounts(cluster, k.lane)
                  THEN Rebased(ResolutionCompleted(cluster, k, ok, opened), k.lane, lookups \ {k})
                  ELSE cluster
    /\ UNCHANGED refreshes

-------------------------------------------------------------------------------
(* One turn over the routes (route_turn, route_failure).  A step of the turn     *)
(* looks at one route and settles, rejects or admits at most one call.           *)

DropEntry(waiting, i) == SubSeq(waiting, 1, i - 1) \o SubSeq(waiting, i + 1, Len(waiting))

\* The first waiting call that satisfies a test, 0 when there is none.
FirstEntry(waiting, Test(_)) ==
    LET hits == {i \in DOMAIN waiting : Test(waiting[i])}
    IN  IF hits = {} THEN 0 ELSE Min(hits)

Idle(c) == [cluster |-> c, worked |-> FALSE]

\* One call leaves the route it waits on.
Leaves(c, l, i) ==
    [cluster |-> [c EXCEPT !.routes[l].waiting = DropEntry(@, i)], worked |-> TRUE]

ExpireOne(c, l) ==
    LET i == FirstEntry(c.routes[l].waiting, LAMBDA w : w.due)
    IN  IF i = 0 THEN Idle(c) ELSE Leaves(c, l, i)

\* The physical lane of a route that is still advertised.
AdvertisedOwner(c, l) ==
    IF c.routes[l].advertised = None THEN None
    ELSE PhysicalOwner(c, l, c.routes[l].advertised.endpoint)

\* A drain, or a lane that has closed for good, fails the calls in order; behind a
\* route failure only the calls that asked for it are rejected.
FailOneWaiting(c, l) ==
    LET owner == AdvertisedOwner(c, l)
        s == c.routes[l]
        terminal == c.draining \/ (owner # None /\ IsTerminal(LaneOf(c, owner)))
        rejected == FirstEntry(s.waiting, LAMBDA w : w.call \in Rejecting)
    IN  IF terminal /\ s.waiting # <<>> THEN Leaves(c, l, 1)
        ELSE IF ~terminal /\ s.failed /\ rejected # 0 THEN Leaves(c, l, rejected)
        ELSE Idle(c)

\* An admitting lane takes the first call and forgets the route's failure.
AdmitOne(c, l) ==
    LET owner == AdvertisedOwner(c, l)
        s == c.routes[l]
        forgiven == [c EXCEPT !.routes[l].failed = FALSE]
    IN  IF owner = None \/ ~CanAdmit(LaneOf(c, owner)) THEN Idle(c)
        ELSE IF s.waiting = <<>> THEN Idle(forgiven)
        ELSE Leaves(forgiven, l, 1)

\* Whether one step of the turn reads tables that disagree.
StepDiverges(c, l) ==
    /\ c.routes[l].advertised # None
    /\ LaneDiverged(c, l, c.routes[l].advertised.endpoint)

StepOn(kind, c, l) ==
    IF kind = "Expire" THEN ExpireOne(c, l)
    ELSE IF StepDiverges(c, l) /\ ~(kind = "Fail" /\ c.draining)
    THEN [cluster |-> Fail("family diverged"), worked |-> FALSE]
    ELSE IF kind = "Fail" THEN FailOneWaiting(c, l)
    ELSE AdmitOne(c, l)

RECURSIVE RoundRobin(_, _, _, _, _, _)

\* Goes round the selected routes until the budget is spent or none has work.
RoundRobin(kind, c, turn, budget, cursor, idle) ==
    IF c.fault # "None" \/ budget = 0 \/ idle = Len(turn)
    THEN [cluster |-> c, budget |-> budget]
    ELSE LET step == StepOn(kind, c, turn[cursor + 1])
             next == (cursor + 1) % Len(turn)
         IN  IF step.worked
             THEN RoundRobin(kind, step.cluster, turn, budget - 1, next, 0)
             ELSE RoundRobin(kind, step.cluster, turn, budget, next, idle + 1)

\* The routes of this turn, from the cursor on.
RouteTurn(c, cursor, budget) ==
    LET lanes == Sorted(DOMAIN c.routes)
    IN  [i \in 1 .. Min({Len(lanes), LaneTurnBudget, budget}) |->
            lanes[AdvanceCursor(cursor, i - 1, Len(lanes)) + 1]]

ServeTurn(c, turn, budget) ==
    LET expired == RoundRobin("Expire", c, turn, budget, 0, 0)
        failed == RoundRobin("Fail", expired.cluster, turn, expired.budget, 0, 0)
    IN  RoundRobin("Admit", failed.cluster, turn, failed.budget, 0, 0).cluster

ServeRoutes(c, cursor, budget) == ServeTurn(c, RouteTurn(c, cursor, budget), budget)

\* Whether a turn has something to do now, for the host that decides to sleep.
RouteWaitingHasLocalWork(c) ==
    \E l \in DOMAIN c.routes :
        LET owner == AdvertisedOwner(c, l)
            s == c.routes[l]
        IN  /\ s.waiting # <<>>
            /\ \/ c.draining
               \/ s.failed /\ \E i \in DOMAIN s.waiting : s.waiting[i].call \in Rejecting
               \/ StepDiverges(c, l)
               \/ owner # None /\ (CanAdmit(LaneOf(c, owner)) \/ IsTerminal(LaneOf(c, owner)))

-------------------------------------------------------------------------------
(* Reconciling kept evidence with the families (route_install).                 *)

PendingLanes(c, broker) ==
    {l \in DOMAIN c.routes : l[1] = broker /\ c.routes[l].pending # None}

StaleFamily(c, broker, endpoint) ==
    /\ broker \in DOMAIN c.families
    /\ c.families[broker].retiring \/ c.families[broker].endpoint # endpoint

\* The brokers with something to install or to take down.
InstallBrokers(c) ==
    {l[1] : l \in {x \in DOMAIN c.routes :
                     LET s == c.routes[x]
                     IN  /\ s.pending # None
                         /\ \/ s.waiting # <<>>
                            \/ StaleFamily(c, x[1], s.pending.route.endpoint)}}
      \cup {b \in DOMAIN c.families : c.families[b].retiring}

IsAdvertised(c, broker) == broker \in DOMAIN c.directory

\* The family that makes room for another broker: none the directory advertises;
\* the first that can go at once or can be told to go, else the first that is going.
ReplacementVictim(c, target) ==
    LET old == {b \in DOMAIN c.families : b # target /\ ~IsAdvertised(c, b)}
        ready == {b \in old : FamilyReclaimable(c, b) \/ ~c.families[b].retiring}
    IN  IF ready # {} THEN Min(ready) ELSE IF old # {} THEN Min(old) ELSE None

\* Variant: a retiring family counts as progress before its lanes are gone.
CanProgressWhileBusy(c, broker) ==
    \/ broker \in DOMAIN c.families /\ c.families[broker].retiring
    \/ PendingLanes(c, broker) # {}

\* Whether a step for this broker would change something now.
CanProgress(c, broker) ==
    LET exists == broker \in DOMAIN c.families
        victim == ReplacementVictim(c, broker)
    IN  IF exists /\ c.families[broker].retiring
        THEN FamilyReclaimable(c, broker)
        ELSE /\ PendingLanes(c, broker) # {}
             /\ \/ exists
                \/ Cardinality(DOMAIN c.families) < FamilyCapacity
                \/ /\ victim # None
                   /\ ~c.families[victim].retiring \/ FamilyReclaimable(c, victim)

\* Removing a family whose lanes are all gone forgets the routes no directory
\* advertises and the owners the others were installed on.
RemoveTerminalFamily(c, broker) ==
    LET bare == RemoveLanes(c, broker)
        families == Without(c.families, broker)
        kept == {l \in DOMAIN c.routes : l[1] # broker \/ c.routes[l].advertised # None}
    IN  [bare EXCEPT
           !.families = families,
           !.routes = [l \in kept |-> IF l[1] = broker
                                      THEN [c.routes[l] EXCEPT !.installed = None]
                                      ELSE c.routes[l]]]

\* The evidence of a broker that is still current; the rest is dropped.
DropStaleEvidence(c, broker) ==
    LET stale == {l \in PendingLanes(c, broker) :
                     \/ c.routes[l].advertised # c.routes[l].pending.route
                     \/ ~RouteIsCurrent(c, c.routes[l].pending.route)}
    IN  [c EXCEPT !.routes = [l \in DOMAIN @ |->
            IF l \in stale THEN [@[l] EXCEPT !.pending = None] ELSE @[l]]]

\* The routes that still have a call to wait for.
Demands(c, broker) ==
    {l \in PendingLanes(c, broker) :
        \E i \in DOMAIN c.routes[l].waiting : ~c.routes[l].waiting[i].due}

\* A fresh family, all of its demanded lanes at once, in the place of a retired one
\* when there is one.  A lane that does not start takes the host down.
PublishFamily(c, broker, retired, endpoint, demands, opened) ==
    LET room == IF retired = None THEN c ELSE RemoveTerminalFamily(c, retired)
        family == [NewFamily(Incarnation(c, Referred(c)), endpoint) EXCEPT
                     !.active = {l[2] : l \in demands}]
        cleared == [room EXCEPT !.routes = [l \in DOMAIN @ |->
                      IF l[1] = broker THEN [@[l] EXCEPT !.installed = None] ELSE @[l]]]
        Publish(acc, l) ==
            LET owner == OwnerOf(family, l[2])
                evidence == acc.routes[l].pending
                pushed == PushLane(acc, NewLane(owner, endpoint, evidence.addresses))
            IN  [pushed EXCEPT !.routes[l] = MarkInstalled(@, evidence.route, owner)]
    IN  IF \/ (broker \in DOMAIN c.families) # (retired = broker)
           \/ Cardinality(DOMAIN room.families) >= FamilyCapacity
           \/ retired # None /\ retired # broker /\ IsAdvertised(c, retired)
           \/ retired # None /\ ~FamilyReclaimable(c, retired)
           \/ Len(room.lanes) + Cardinality(demands) > LaneCapacity
        THEN Fail("replacement diverged")
        ELSE IF ~opened
        THEN Fail("lane not started")
        ELSE [FoldLeft(Publish, cleared, Sorted(demands)) EXCEPT
                !.families = With(@, broker, family)]

\* A broker without a family: publish one when there is room, else make room.
MakeRoom(c, broker, endpoint, demands, opened) ==
    LET victim == ReplacementVictim(c, broker)
    IN  IF demands = {} THEN c
        ELSE IF Cardinality(DOMAIN c.families) < FamilyCapacity
        THEN PublishFamily(c, broker, None, endpoint, demands, opened)
        ELSE IF victim = None THEN Fail("no retired family capacity")
        ELSE IF ~c.families[victim].retiring THEN BeginFamilyRetirement(c, victim)
        ELSE IF FamilyReclaimable(c, victim)
        THEN PublishFamily(c, broker, victim, endpoint, demands, opened)
        ELSE c

\* One broker's step with its evidence filtered: activate a class of a current
\* family, retire a stale one, replace or remove one that has gone, or make room.
Reconcile(c, broker, endpoint, demands, opened) ==
    LET first == Sorted(demands)[1]
    IN  IF broker \notin DOMAIN c.families
        THEN MakeRoom(c, broker, endpoint, demands, opened)
        ELSE IF ~StaleFamily(c, broker, endpoint)
        THEN IF demands = {} THEN c
             ELSE ActivateLane(c, first, c.routes[first].pending, opened)
        ELSE IF ~c.families[broker].retiring THEN BeginFamilyRetirement(c, broker)
        ELSE IF ~FamilyReclaimable(c, broker) THEN c
        ELSE IF demands = {} THEN RemoveTerminalFamily(c, broker)
        ELSE PublishFamily(c, broker, broker, endpoint, demands, opened)

\* A family on its way out that nothing is pending for goes with its last lane.
ReapRetiring(c, broker) ==
    IF /\ broker \in DOMAIN c.families
       /\ c.families[broker].retiring
       /\ FamilyReclaimable(c, broker)
    THEN RemoveTerminalFamily(c, broker)
    ELSE c

\* One broker: its stale evidence is dropped and the rest names one endpoint.
InstallFor(c, broker, opened) ==
    LET targets == {c.routes[l].pending.route.endpoint : l \in PendingLanes(c, broker)}
    IN  IF targets = {} THEN ReapRetiring(c, broker)
        ELSE IF Cardinality(targets) > 1 THEN Fail("pending endpoints diverged")
        ELSE Reconcile(c, broker, CHOOSE e \in targets : TRUE, Demands(c, broker), opened)

\* Whether asking a family for its lanes meets tables that disagree.
FamiliesDiverge(c) == \E b \in DOMAIN c.families : Diverged(c, b)

\* The brokers a drive may reconcile, each the first from some cursor.
ReadyBrokers(c) ==
    IF FamiliesDiverge(c) THEN {} ELSE {b \in InstallBrokers(c) : CanProgress(c, b)}

\* One broker per drive; none when no broker is ready.
DriveInstalls(c, broker, opened) ==
    IF c.fault # "None" \/ InstallBrokers(c) = {} THEN c
    ELSE IF FamiliesDiverge(c) THEN Fail("family diverged")
    ELSE IF broker = None THEN c
    ELSE InstallFor(DropStaleEvidence(c, broker), broker, opened)

-------------------------------------------------------------------------------
(* Route failures (sync_route_failures): a failed generation of the installed    *)
(* lane marks the route once; an available lane nobody waits for clears it.      *)

SyncFailures(c) ==
    LET Owned(s) == /\ s.installed # None
                    /\ s.installed.owner \in DOMAIN c.slots
                    /\ c.slots[s.installed.owner] \in DOMAIN c.lanes
        Synced(s) ==
            IF ~Owned(s) THEN s
            ELSE LET lane == LaneOf(c, s.installed.owner)
                 IN  IF InFailure(lane)
                     THEN [s EXCEPT !.failed = @ \/ s.lastFailedEpoch # lane.epoch,
                                    !.lastFailedEpoch = lane.epoch]
                     ELSE [s EXCEPT !.failed = @ /\ ~(CanAdmit(lane) /\ s.waiting = <<>>)]
    IN  IF c.fault # "None" THEN c
        ELSE [c EXCEPT !.routes = [l \in DOMAIN @ |-> Synced(@[l])]]

-------------------------------------------------------------------------------
(* One drive of the cluster.                                                    *)

\* What a lane may become while the set of connections is driven: a reconnect
\* starts the next epoch; a draining lane closes, and is reclaimable once the
\* connection set has let go of it.
LaneStep(lane) ==
    LET To(phases) == {[lane EXCEPT !.phase = p] : p \in phases}
        failures == IF lane.owner[2] \in Fragile
                    THEN {"Backoff", "RefreshPending", "Closed"} ELSE {}
        Reconnected == [lane EXCEPT !.phase = "Connecting", !.epoch = @ + 1]
    IN  {lane} \cup
        CASE lane.phase = "Connecting" -> To({"Available"} \cup failures)
          [] lane.phase = "Available" -> To(failures)
          [] lane.phase = "Backoff" ->
               IF lane.epoch < MaxLaneEpoch THEN {Reconnected} ELSE {}
          [] lane.phase = "RefreshBackoff" -> To({"RefreshPending"})
          [] lane.phase = "Draining" -> To({"Closed"})
          [] lane.phase = "Closed" -> To({"Reclaimable"})
          [] lane.phase \in {"RefreshPending", "RefreshResolving", "Reclaimable"} -> {}

\* The lanes after one turn of the connection set, which serves a bounded number of
\* lanes.  The seed lane is NameResolution's.
LaneMoves(lanes) ==
    LET turns == {turn \in SUBSET {i \in DOMAIN lanes : lanes[i].owner # SeedOwner} :
                     Cardinality(turn) <= LaneTurnBudget}
        After(turn) == {[i \in DOMAIN lanes |-> IF i \in turn THEN f[i] ELSE lanes[i]] :
                           f \in {g \in [turn -> UNION {LaneStep(lanes[i]) : i \in turn}] :
                                     \A i \in turn : g[i] \in LaneStep(lanes[i])}}
    IN  UNION {After(turn) : turn \in turns}

\* The broker a drive reconciles is one that is ready when the routes are served.
Reconciled(served) ==
    LET ready == IF served.fault = "None" THEN ReadyBrokers(served) ELSE {}
    IN  IF ready = {}
        THEN {SyncFailures(DriveInstalls(served, None, TRUE))}
        ELSE {SyncFailures(DriveInstalls(served, b, opened)) : b \in ready, opened \in BOOLEAN}

\* The lanes move, the routes are served with what the seed's calls left of the
\* budget, one broker is reconciled, failures are marked.  Expiring calls before
\* the lanes move reads no lane, so the order of the two is immaterial.
Drive(moved, cursor, budget) ==
    /\ Running
    /\ cluster' \in Reconciled(ServeRoutes([cluster EXCEPT !.lanes = moved], cursor, budget))
    /\ UNCHANGED <<lookups, refreshes>>

\* Time reaches the deadline of a call that waits.
DeadlinePasses(l, i) ==
    /\ Running /\ ~cluster.draining
    /\ cluster.routes[l].waiting[i].call \in Expiring
    /\ ~cluster.routes[l].waiting[i].due
    /\ cluster' = [cluster EXCEPT !.routes[l].waiting[i].due = TRUE]
    /\ UNCHANGED <<lookups, refreshes>>

-------------------------------------------------------------------------------
(* Endpoint refreshes: a lane that ran out of addresses asks for new ones.       *)

FamilyEndpointIsCurrent(c, broker) ==
    broker \in DOMAIN c.directory /\ c.directory[broker] = c.families[broker].endpoint

\* Whether the class of a family is one whose refresh may be taken now.
RefreshReady(c, l) ==
    LET family == c.families[l[1]]
    IN  /\ ~family.retiring
        /\ l[2] \in family.active
        /\ FamilyEndpointIsCurrent(c, l[1])
        /\ LaneOf(c, OwnerOf(family, l[2])).phase = "RefreshPending"

SetPhase(c, owner, phase) == [c EXCEPT !.lanes[c.slots[owner]].phase = phase]

\* One refresh of a lane that is ready, when the resolver has a permit for it.
ScheduleRefresh(l) ==
    LET owner == OwnerOf(cluster.families[l[1]], l[2])
        lane == LaneOf(cluster, owner)
    IN  /\ Running
        /\ IF ~OwnershipHolds(cluster)
           THEN cluster' = Fail("refresh shape diverged") /\ UNCHANGED refreshes
           ELSE /\ RefreshReady(cluster, l)
                /\ PermitFree
                /\ cluster' = SetPhase(cluster, owner, "RefreshResolving")
                /\ refreshes' = refreshes \cup
                     {[owner |-> owner, epoch |-> lane.epoch, endpoint |-> lane.endpoint]}
        /\ UNCHANGED lookups

\* The family that reserves an owner, none for an owner whose lane is gone.
RefreshFamily(c, owner) ==
    IF owner \in DOMAIN c.slots
    THEN {b \in DOMAIN c.families : Reserves(c.families[b], owner)}
    ELSE {}

\* The answer of a refresh for a lane that is still its family's.  An answer for an
\* endpoint the directory has left puts the refresh back; it must never be used.
RefreshAnswered(c, broker, k, ok) ==
    LET lane == LaneOf(c, k.owner)
        next == [lane EXCEPT !.phase = "Connecting", !.epoch = @ + 1, !.addresses = k.endpoint]
    IN  IF FamilyLaneState(c, c.families[broker], k.owner[2]) # "Active"
        THEN Fail("family diverged")
        ELSE IF c.families[broker].retiring \/ IsTerminal(lane)
        THEN c
        ELSE IF lane.phase # "RefreshResolving" \/ lane.epoch # k.epoch
        THEN Fail("refresh fence diverged")
        ELSE IF ~FamilyEndpointIsCurrent(c, broker)
        THEN SetPhase(c, k.owner, "RefreshPending")
        ELSE IF ~ok
        THEN SetPhase(c, k.owner, "RefreshBackoff")
        ELSE [c EXCEPT !.lanes[c.slots[k.owner]] = next]

CompleteRefresh(k, ok) ==
    LET broker == RefreshFamily(cluster, k.owner)
    IN  /\ Running
        /\ ok => k.epoch < MaxLaneEpoch
        /\ cluster' = IF broker = {} THEN cluster
                      ELSE RefreshAnswered(cluster, CHOOSE b \in broker : TRUE, k, ok)
        /\ refreshes' = refreshes \ {k}
        /\ UNCHANGED lookups

-------------------------------------------------------------------------------
(* The start of the drain (begin_cluster_drain).                                *)

BeginClusterDrain ==
    /\ Running /\ ~cluster.draining
    /\ cluster' = IF ~OwnershipHolds(cluster) THEN Fail("ownership diverged")
                  ELSE [cluster EXCEPT
                          !.draining = TRUE,
                          !.routes = [l \in DOMAIN @ |->
                             [@[l] EXCEPT !.pending = None, !.failed = FALSE]],
                          !.lanes = [i \in DOMAIN @ |->
                             IF IsTerminal(@[i]) THEN @[i] ELSE DrainLane(@[i])]]
    /\ UNCHANGED <<lookups, refreshes>>

-------------------------------------------------------------------------------
Next ==
    \/ \E call \in Calls, refused \in BOOLEAN : \E broker \in Targets[call] :
          SubmitRoute(call, broker, refused)
    \/ \E h \in Directories :
          /\ cluster.generation < Len(h) /\ h[cluster.generation] = cluster.directory
          /\ InstallDirectory(h[cluster.generation + 1])
    \/ \E k \in lookups, ok, opened \in BOOLEAN : CompleteRouteResolution(k, ok, opened)
    \/ \E moved \in LaneMoves(cluster.lanes), budget \in 0 .. Budget :
          \E cursor \in Cursors(IF budget = 0 THEN 0 ELSE Cardinality(DOMAIN cluster.routes)) :
             Drive(moved, cursor, budget)
    \/ \E l \in DOMAIN cluster.routes : \E i \in DOMAIN cluster.routes[l].waiting :
          DeadlinePasses(l, i)
    \/ \E l \in (DOMAIN cluster.families) \X Traffic : ScheduleRefresh(l)
    \/ \E k \in refreshes, ok \in BOOLEAN : CompleteRefresh(k, ok)
    \/ BeginClusterDrain

Spec == Init /\ [][Next]_vars

-------------------------------------------------------------------------------
(* Properties.                                                                  *)

\* The error paths that guard the agreement of the lane vector, the slot table, the
\* families and the route states (route_install_publish preflight, the endpoint-
\* refresh fences, validate_cluster_ownership) are never taken: the only error that
\* ends the host is a lane that does not start.
NoHostFault == cluster.fault \in {"None", "lane not started"}

\* The lanes that a step hands the answer of a lookup: the ones it starts, and the
\* ones whose refresh it ends with a new connection attempt.
Addressed(before, after) ==
    {i \in DOMAIN after.lanes :
        LET lane == after.lanes[i]
            old == {j \in DOMAIN before.lanes : before.lanes[j].owner = lane.owner}
        IN  \/ old = {}
            \/ /\ lane.phase = "Connecting"
               /\ \E j \in old : before.lanes[j].phase = "RefreshResolving"}

\* A broker's calls only go to addresses that were looked up for the endpoint the
\* current directory gives that broker, and no lane starts a connection to looked up
\* addresses of an endpoint its broker has left, whatever directories, late answers,
\* kept evidence, retirements and refreshes came between (current_physical_owner,
\* the epoch and effect of a lookup, family_endpoint_is_current).
RightAddresses ==
    /\ [](\A l \in DOMAIN cluster.routes :
             LET owner == AdvertisedOwner(cluster, l)
             IN  owner # None => /\ l[1] \in DOMAIN cluster.directory
                                 /\ LaneOf(cluster, owner).addresses = cluster.directory[l[1]])
    /\ [][\A i \in Addressed(cluster, cluster') :
            \E b \in DOMAIN cluster'.families \cap DOMAIN cluster'.directory :
                /\ Reserves(cluster'.families[b], cluster'.lanes[i].owner)
                /\ cluster'.lanes[i].addresses = cluster'.directory[b]]_vars

\* What a waiting call is waiting for: a lane, evidence for one, or a lookup.
Backed(l) ==
    LET s == cluster.routes[l]
        m == s.resolution
    IN  \/ AdvertisedOwner(cluster, l) # None
        \/ s.pending # None /\ s.pending.route = s.advertised
        \/ \E k \in lookups : k.lane = l /\ Answers(m, k.epoch, k.effect)
                              /\ m.route = s.advertised

\* The one case without: the lookup was started under an older directory that gave
\* the broker the same endpoint, and its answer is not looked at.
Overtaken(l) ==
    LET s == cluster.routes[l]
    IN  /\ s.resolution.phase = "Resolving"
        /\ s.resolution.route.gen < s.advertised.gen
        /\ s.resolution.route.endpoint = s.advertised.endpoint

\* No call and no lane is left waiting for something that will not come: every call
\* that waits for a route waits for its lane, for evidence that is kept for it or for
\* a lookup whose answer counts (or its lookup was overtaken by a directory that
\* kept the endpoint), and every lane whose refresh is being resolved is the owner
\* of exactly one refresh the resolver has not answered.
NothingStranded ==
    /\ ~cluster.draining =>
          \A l \in DOMAIN cluster.routes :
              cluster.routes[l].waiting # <<>> =>
                  /\ cluster.routes[l].advertised = RouteTo(cluster, l[1])
                  /\ Backed(l) \/ Overtaken(l)
    /\ \A i \in DOMAIN cluster.lanes :
          cluster.lanes[i].phase = "RefreshResolving" =>
              Cardinality({k \in refreshes : /\ k.owner = cluster.lanes[i].owner
                                             /\ k.epoch = cluster.lanes[i].epoch
                                             /\ k.endpoint = cluster.lanes[i].endpoint}) = 1

\* The reactor does not sleep on work and does not spin without it.  It is told that
\* routes have local work exactly when a turn would fail, reject or admit a call, and
\* that an install can progress only when a drive then changes a lane, a family or a
\* route; a call past its deadline is the timer's work.
ReadyMeansWork ==
    LET due == \E l \in DOMAIN cluster.routes :
                  \E i \in DOMAIN cluster.routes[l].waiting : cluster.routes[l].waiting[i].due
    IN  Running =>
          /\ RouteWaitingHasLocalWork(cluster) <=>
               \E l \in DOMAIN cluster.routes :
                   FailOneWaiting(cluster, l).worked \/ AdmitOne(cluster, l).worked
          /\ ~due => \A b \in ReadyBrokers(cluster) : DriveInstalls(cluster, b, TRUE) # cluster

\* A connection failure of the lane a route is installed on marks the route failed, so
\* that the calls that asked for it are rejected rather than left waiting.
FailureStamped ==
    [][\A l \in DOMAIN cluster.routes \cap DOMAIN cluster'.routes :
          LET s == cluster'.routes[l]
              owner == s.installed.owner
              failing == /\ s.installed # None
                         /\ owner \in DOMAIN cluster.slots \cap DOMAIN cluster'.slots
                         /\ ~InFailure(LaneOf(cluster, owner))
                         /\ InFailure(LaneOf(cluster', owner))
          IN  failing => s.failed]_vars

===============================================================================
