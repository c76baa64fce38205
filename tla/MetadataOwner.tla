----------------------------- MODULE MetadataOwner -----------------------------
(***************************************************************************)
(* The reactor's metadata owner (`MetadataOwner`) and the host phases      *)
(* around it: the one Metadata call on the seed connection, calls that     *)
(* wait for a controller, broker or partition-leader route, topic views,   *)
(* and invalidations that wait for newer evidence.                         *)
(*                                                                         *)
(* The reactor thread runs each command and each turn to completion, so a  *)
(* handler is one action, written as an operator from owner to owner.  It  *)
(* interleaves with the seed's answers, the callers and the clock.  Every  *)
(* `Err(...)` of the owner ends the host: it is kept in owner.fault and    *)
(* nothing follows.                                                        *)
(***************************************************************************)
EXTENDS Metadata

CONSTANTS
    Calls,              \* public calls and topic views
    NamedBrokers,       \* brokers a call may name
    Responses,          \* what the seed may answer: see SnapshotFromResponse
    Timeouts,           \* durations a call may be submitted with
    WaitLimit,          \* call limit of each of the three wait queues
    InvalidationLimits, \* bound: values of MetadataLimits::invalidation_waiters
    TurnBudget,         \* admission budget of each scan
    SeedStates,         \* conditions of the seed connection in this instance
    MaxStamp            \* bound: stamps after which no repair is demanded

ASSUME OwnerBounds ==
    /\ {WaitLimit, TurnBudget} \cup InvalidationLimits \subseteq Nat \ {0}
    /\ Timeouts \subseteq Nat
    /\ SeedStates \subseteq {"Absent", "Unready", "Ready"}

VARIABLES
    owner,      \* the MetadataOwner and what it completed
    seed,       \* the seed connection, as the owner sees it
    clock,      \* CausalSequence.next
    woken       \* an event reached the host since its last turn

vars == <<owner, seed, clock, woken>>

-------------------------------------------------------------------------------
(* State.  line is the order of a WaitQueue, scan its scan_remaining, due    *)
(* its due_pending.                                                          *)
(*                                                                           *)
(* A call is Fresh, Waiting in a line, Served (by the route `fact`) or Ended *)
(* (failed, or answered with a view).  A served call whose response is a     *)
(* failure holds a RouteFailureToken (Held), stamped `observed`; when the    *)
(* token is used, the status is what its invalidation was told: Pending      *)
(* until then, Applied, Unavailable, CapacityReached, or Declined when       *)
(* nothing was withdrawn.  renewed remembers, for the properties, that since *)
(* that failure a fetch of the token's query, begun after it, was applied.   *)

Lines == {"Cluster", "Partition", "View"}

LineOf(d) ==
    CASE d.kind \in {"Controller", "Broker"} -> "Cluster"
      [] d.kind = "Partition" -> "Partition"
      [] d.kind = "View" -> "View"

QueryOf(d) == IF LineOf(d) = "Cluster" THEN "Cluster" ELSE d.topic

NoFetch == [op |-> 0, generation |-> 0, evidence |-> 0, query |-> "Cluster"]
NoResponse ==
    [brokers |-> {}, controller |-> NoBroker, error |-> TRUE,
     leaders |-> [p \in Partitions |-> [broker |-> NoBroker, epoch |-> 0]]]
NoPending == [fetch |-> NoFetch, answer |-> "None", response |-> NoResponse]

\* RouteFact: a broker route has the topic "Cluster".
Fact(topic, partition, broker, epoch) ==
    [topic |-> topic, partition |-> partition, broker |-> broker, epoch |-> epoch]
NoFact == Fact("Cluster", 0, NoBroker, 0)

NewOwner ==
    [machine |-> MetadataNew, pending |-> NoPending, requested |-> NoFetch,
     initial |-> TRUE,
     line |-> [l \in Lines |-> <<>>], scan |-> [l \in Lines |-> 0],
     due |-> [l \in Lines |-> FALSE],
     barriers |-> <<>>, barrierScan |-> 0, subscribers |-> 0,
     call |-> [c \in Calls |-> [status |-> "Fresh", fact |-> NoFact,
                               observed |-> 0, renewed |-> FALSE]],
     fault |-> "None", state |-> "Running"]

\* The host ends and drops the owner.
Faulted(o, error) == [NewOwner EXCEPT !.call = o.call, !.fault = error]

\* An operation identity no live holder has; the source counts upwards.
ReserveOperation(o) ==
    Min((1..4) \ {o.machine.op, o.pending.fetch.op, o.requested.op})

Settle(o, ids, status) ==
    [o EXCEPT !.call = [c \in Calls |->
        IF c \in ids THEN [@[c] EXCEPT !.status = status] ELSE @[c]]]

InStatus(o, status) == {c \in Calls : o.call[c].status = status}

-------------------------------------------------------------------------------
(* Interpretation of a transition.  x is the context of one phase: the seed, *)
(* and the evidence stamp the host drew for the phase.  A seed whose window  *)
(* is full fails the call at once; that is FetchFailed taken next, and the   *)
(* end of a call of that window wakes the host.                              *)

Submit(o, fetch, x) ==
    IF o.pending # NoPending THEN Faulted(o, "UnexpectedEffect")
    ELSE [o EXCEPT !.pending = [NoPending EXCEPT !.fetch = fetch]]

Interpret(o, t, x) ==
    LET o1 == [o EXCEPT !.machine = t.machine]
        fetch == [op |-> t.effect.op, generation |-> t.effect.generation,
                  evidence |-> x.evidence, query |-> t.effect.query]
    IN  CASE t.effect.kind = "None" -> o1
          [] t.effect.kind = "GenerationExhausted" ->
                Faulted(o1, "GenerationExhausted")
          [] t.effect.kind = "Fetch" ->
                IF x.seed = "Ready" THEN Submit(o1, fetch, x)
                ELSE IF o.requested # NoFetch THEN Faulted(o1, "UnexpectedEffect")
                ELSE [o1 EXCEPT !.requested = fetch]

-------------------------------------------------------------------------------
(* The outcome of the pending call.                                          *)

\* TopicViewRequirement::accepts_terminal_from
AcceptsTerminal(w, evidence) == w.need = "AfterOutcome" => evidence > w.bound

MarkTerminal(o, topic, evidence) ==
    [o EXCEPT !.line["View"] =
        [i \in DOMAIN @ |->
            IF @[i].demand.topic = topic /\ AcceptsTerminal(@[i], evidence)
            THEN [@[i] EXCEPT !.terminal = TRUE] ELSE @[i]]]

\* History: the failed calls whose query this fetch, begun after their failure, asked.
Renewing(o, fetch) ==
    [o EXCEPT !.call = [c \in Calls |->
        [@[c] EXCEPT !.renewed =
            \/ @
            \/ /\ o.call[c].status \in {"Held", "Pending"}
               /\ o.call[c].fact.topic = fetch.query
               /\ fetch.evidence > o.call[c].observed]]]

\* s is what snapshot_from_response made of the answer.
Concluded(o, pending, s, x) ==
    LET fetch  == pending.fetch
        next   == ReserveOperation(o)
        marked == IF fetch.query # "Cluster" /\ (pending.response.error \/ s = NoSnapshot)
                  THEN MarkTerminal(o, fetch.query, fetch.evidence) ELSE o
        done   == IF s = NoSnapshot THEN Fail(o.machine, fetch.op, next)
                  ELSE Succeed(o.machine, fetch.op, s, next)
    IN  Interpret(IF s # NoSnapshot /\ done.disposition = "Applied"
                  THEN Renewing(marked, fetch) ELSE marked, done, x)

\* Variant: the answered call is released only after its outcome is applied.
ObserveLate(o, x) ==
    LET p == o.pending
        s == IF p.answer = "Answered"
             THEN SnapshotFromResponse(p.response, p.fetch.generation,
                     p.fetch.evidence, p.fetch.query, o.machine.current)
             ELSE NoSnapshot
    IN  [Concluded(o, p, s, x) EXCEPT !.pending = NoPending]

Observe(o, x) ==
    LET p == o.pending
        s == IF p.answer = "Answered"
             THEN SnapshotFromResponse(p.response, p.fetch.generation,
                     p.fetch.evidence, p.fetch.query, o.machine.current)
             ELSE NoSnapshot
    IN  Concluded([o EXCEPT !.pending = NoPending], p, s, x)

\* begin_scan of the four owners of waiters.
BeginScans(o) ==
    [o EXCEPT !.scan = [l \in Lines |-> Len(o.line[l])],
              !.barrierScan = Len(o.barriers)]

StartInitial(o, x) ==
    IF o.fault # "None" \/ ~o.initial \/ x.seed # "Ready" THEN o
    ELSE Interpret([o EXCEPT !.initial = FALSE],
                   Refresh(o.machine, "Cluster", ReserveOperation(o)), x)

Observed(o, submitted, x) ==
    IF o.fault # "None" THEN o
    ELSE IF o.pending.answer # "None" THEN StartInitial(BeginScans(Observe(o, x)), x)
    ELSE StartInitial(IF submitted THEN BeginScans(o) ELSE o, x)

Drive(o, x) ==
    IF x.seed = "Ready" /\ o.requested # NoFetch
    THEN Observed(Submit([o EXCEPT !.requested = NoFetch, !.initial = FALSE],
                         o.requested, x), TRUE, x)
    ELSE Observed(o, FALSE, x)

-------------------------------------------------------------------------------
(* Waiting calls and topic views.                                            *)

\* A waiter is [call, demand, left, need, bound, terminal]: left is the time to
\* its deadline, need and bound are the TopicViewRequirement of a view.
SatisfiedBy(s, w) ==
    CASE w.need = "Current" -> TRUE
      [] w.need = "NewerThan" -> s.generation > w.bound
      [] w.need = "AfterOutcome" ->
            s.counts[w.demand.topic] # 0 /\ s.counts[w.demand.topic] > w.bound

\* The snapshot holds what the waiter asks for.
Supplied(s, w) ==
    LET d == w.demand
    IN  CASE d.kind = "Controller" -> s.controller # NoBroker
          [] d.kind = "Broker" -> d.broker \in s.brokers
          [] d.kind = "Partition" -> s.leaders[d.topic][d.partition] # NoLeader
          [] d.kind = "View" ->
                s # NoSnapshot /\ SatisfiedBy(s, w) /\ s.counts[d.topic] # 0

FactOf(s, d) ==
    CASE d.kind = "Controller" -> Fact("Cluster", 0, s.controller, 0)
      [] d.kind = "Broker" -> Fact("Cluster", 0, d.broker, 0)
      [] d.kind = "Partition" ->
            Fact(d.topic, d.partition, s.leaders[d.topic][d.partition].broker,
                 s.leaders[d.topic][d.partition].epoch)

\* The call leaves with its route, or the view with its projection.
Supply(o, w) ==
    IF w.demand.kind = "View" THEN Settle(o, {w.call}, "Ended")
    ELSE [Settle(o, {w.call}, "Served") EXCEPT
            !.call[w.call].fact = FactOf(o.machine.current, w.demand)]

\* Variant: a waiter without a pending query is kept.
ExamineKeeping(o, l, w) ==
    CASE w.left = 0 -> Settle(o, {w.call}, "Ended")
      [] w.left > 0 /\ w.terminal -> Settle(o, {w.call}, "Ended")
      [] w.left > 0 /\ ~w.terminal ->
            IF Supplied(o.machine.current, w) THEN Supply(o, w)
            ELSE [o EXCEPT !.line[l] = Append(@, w)]

\* The waiter w left the front of line l.
Examine(o, l, w) ==
    CASE w.left = 0 -> Settle(o, {w.call}, "Ended")
      [] w.left > 0 /\ w.terminal -> Settle(o, {w.call}, "Ended")
      [] w.left > 0 /\ ~w.terminal ->
            IF Supplied(o.machine.current, w) THEN Supply(o, w)
            ELSE IF ~QueryPending(o.machine, QueryOf(w.demand))
            THEN Settle(o, {w.call}, "Ended")
            ELSE [o EXCEPT !.line[l] = Append(@, w)]

DueIn(line) == {i \in DOMAIN line : line[i].left = 0}

ExpireFirst(o, l, i) ==
    [Settle(o, {o.line[l][i].call}, "Ended") EXCEPT !.line[l] = RemoveAt(@, i)]

\* One unit of a scan's budget: a pending scan examines the front; only without
\* one at its start does it expire what is due.
ScanStep(o, l, expiring) ==
    IF expiring
    THEN IF DueIn(o.line[l]) = {} THEN o
         ELSE ExpireFirst(o, l, Min(DueIn(o.line[l])))
    ELSE IF o.scan[l] = 0 THEN o
    ELSE IF o.line[l] = <<>> THEN [o EXCEPT !.scan[l] = 0]
    ELSE Examine([o EXCEPT !.scan[l] = @ - 1, !.line[l] = Tail(@)], l,
                 o.line[l][1])

ScanLine(o, l) ==
    LET expiring == o.scan[l] = 0
        scanned[n \in 0..TurnBudget] ==
            IF n = 0 THEN o ELSE ScanStep(scanned[n - 1], l, expiring)
        done == scanned[TurnBudget]
    IN  [done EXCEPT !.due[l] = DueIn(done.line[l]) # {}]

DrainControllerWaiters(o) == ScanLine(o, "Cluster")
DrainPartitionWaiters(o) == ScanLine(o, "Partition")
DrainTopicViewWaiters(o) == ScanLine(o, "View")

-------------------------------------------------------------------------------
(* Invalidation barriers: [target, subscribers] in the order they were made. *)

Revoked(m, target) ==
    IF target.topic = "Cluster" THEN ControllerPending(m, target.broker)
    ELSE PartitionPending(m, target)

\* Variant: a barrier is lifted by the end of the query alone.
SettledEarly(m, target) ==
    IF QueryPending(m, target.topic) THEN "None" ELSE "Applied"

\* InvalidationTarget::settled; "None" while it must wait.
Settled(m, target) ==
    IF ~Revoked(m, target) THEN "Applied"
    ELSE IF QueryPending(m, target.topic) THEN "None" ELSE "Unavailable"

ScanBarrier(o) ==
    LET b == o.barriers[1]
        rest == [o EXCEPT !.barriers = Tail(@), !.barrierScan = @ - 1]
        disposition == Settled(o.machine, b.target)
    IN  IF disposition = "None" THEN [rest EXCEPT !.barriers = Append(@, b)]
        ELSE [Settle(rest, b.subscribers, disposition) EXCEPT
                !.subscribers = @ - Cardinality(b.subscribers)]

DrainInvalidationWaiters(o) ==
    LET scanned[n \in 0..TurnBudget] ==
            IF n = 0 THEN o
            ELSE IF scanned[n - 1].barrierScan = 0 THEN scanned[n - 1]
            ELSE ScanBarrier(scanned[n - 1])
    IN  scanned[TurnBudget]

\* join_controller, join_partition, push_controller and push_partition.
Subscribe(o, fact, c) ==
    LET Same(b) == SameAssignment(b.target, fact)
        at == CHOOSE n \in DOMAIN o.barriers : Same(o.barriers[n])
    IN  [Settle(o, {c}, "Pending") EXCEPT
            !.subscribers = @ + 1,
            !.barriers = IF \E n \in DOMAIN @ : Same(@[n])
                         THEN [@ EXCEPT ![at].subscribers = @ \cup {c}]
                         ELSE Append(@, [target |-> fact, subscribers |-> {c}])]

\* t is the machine's transition for the invalidation by the token of call c.
\* The limit may be any of those under study: what holds of it holds of each.
OwnerInvalidate(o, c, t, limit, x) ==
    LET fact == o.call[c].fact
        told ==
          CASE t.disposition \in {"Applied", "Queued", "Coalesced"} ->
                 IF o.subscribers < limit
                 THEN Subscribe(o, fact, c) ELSE Settle(o, {c}, "CapacityReached")
            [] t.disposition = "IgnoredStale" -> Settle(o, {c}, "Declined")
            [] t.disposition = "QueryCapacityReached" -> Settle(o, {c}, "Declined")
    IN  Interpret(told, t, x)

InvalidateBrokerRoute(o, c, limit, x) ==
    OwnerInvalidate(o, c, InvalidateController(o.machine, o.call[c].fact.broker,
                              o.call[c].observed, ReserveOperation(o)), limit, x)

InvalidatePartitionRoute(o, c, limit, x) ==
    OwnerInvalidate(o, c, InvalidatePartition(o.machine, o.call[c].fact,
                              o.call[c].observed, ReserveOperation(o)), limit, x)

-------------------------------------------------------------------------------
(* Host commands.                                                            *)

Context == [seed |-> seed, evidence |-> clock]

\* A stamp that no fetch carries is indistinguishable from one not drawn.
Stamped(new) ==
    clock' = IF clock \in {new.pending.fetch.evidence, new.requested.evidence}
             THEN clock + 1 ELSE clock

Running == owner.state = "Running" /\ owner.fault = "None"

Command(new) ==
    /\ owner' = new
    /\ Stamped(new)
    /\ woken' = TRUE
    /\ UNCHANGED seed

Waiter(c, kind, topic, partition, broker, timeout) ==
    [call |-> c, left |-> timeout, need |-> "Current", bound |-> 0, terminal |-> FALSE,
     demand |-> [kind |-> kind, topic |-> topic, partition |-> partition,
                 broker |-> broker]]

\* Admission of w whose demand makes the machine take transition t; fits: the
\* byte limit leaves room.  A full query queue retracts the waiter.
Wait(o, w, fits, t, x) ==
    LET l == LineOf(w.demand)
    IN  IF \/ w.left = 0 \/ ~fits \/ Len(o.line[l]) = WaitLimit
           \/ t.disposition = "QueryCapacityReached"
        THEN Settle(o, {w.call}, "Ended")
        ELSE Interpret([Settle(o, {w.call}, "Waiting") EXCEPT
                            !.line[l] = Append(@, w)], t, x)

WaitForClusterRoute(o, w, fits, x) ==
    Wait(o, w, fits, Resolve(o.machine, "Cluster", ReserveOperation(o)), x)

WaitForPartition(o, w, fits, x) ==
    Wait(o, w, fits, Resolve(o.machine, w.demand.topic, ReserveOperation(o)), x)

WaitForTopicView(o, w, fits, x) ==
    Wait(o, w, fits, Admit(o.machine, w.demand.topic, ReserveOperation(o),
                           w.need # "Current"), x)

Fresh(c) == Running /\ owner.call[c].status = "Fresh"

\* A route that is known is taken at once, even by an expired call: the lane
\* it is submitted to rejects it.
SubmitController(c) ==
    /\ Fresh(c)
    /\ \E timeout \in Timeouts, fits \in BOOLEAN :
         LET w == Waiter(c, "Controller", "Cluster", 0, NoBroker, timeout)
         IN  Command(IF Supplied(owner.machine.current, w) THEN Supply(owner, w)
                     ELSE WaitForClusterRoute(owner, w, fits, Context))

SubmitBroker(c) ==
    /\ Fresh(c)
    /\ \E timeout \in Timeouts, fits \in BOOLEAN, b \in NamedBrokers :
         LET w == Waiter(c, "Broker", "Cluster", 0, b, timeout)
         IN  Command(IF Supplied(owner.machine.current, w) THEN Supply(owner, w)
                     ELSE WaitForClusterRoute(owner, w, fits, Context))

SubmitPartitionLeader(c) ==
    /\ Fresh(c)
    /\ \E timeout \in Timeouts, fits \in BOOLEAN, t \in Topics, p \in Partitions :
         LET w == Waiter(c, "Partition", t, p, NoBroker, timeout)
         IN  Command(IF Supplied(owner.machine.current, w) THEN Supply(owner, w)
                     ELSE WaitForPartition(owner, w, fits, Context))

\* newer: the caller names the generation it has seen.
ProcessTopicView(c) ==
    /\ Fresh(c)
    /\ \E timeout \in Timeouts, fits, newer \in BOOLEAN, t \in Topics :
         LET view == Waiter(c, "View", t, 0, NoBroker, timeout)
             w == IF newer THEN [view EXCEPT !.need = "NewerThan",
                                             !.bound = owner.machine.current.generation]
                  ELSE view
         IN  Command(IF w.left > 0 /\ Supplied(owner.machine.current, w)
                     THEN Supply(owner, w)
                     ELSE WaitForTopicView(owner, w, fits, Context))

\* The view consumes the token of a failed call.
ProcessTopicViewAfterFailure(c, failed) ==
    /\ Fresh(c) /\ owner.call[failed].status = "Held"
    /\ \E timeout \in Timeouts, fits \in BOOLEAN, t \in Topics :
         LET w == [Waiter(c, "View", t, 0, NoBroker, timeout) EXCEPT
                      !.need = "AfterOutcome", !.bound = owner.call[failed].observed]
         IN  Command(Settle(WaitForTopicView(owner, w, fits, Context),
                            {failed}, "Declined"))

\* invalidate_broker_route and invalidate_partition of the host.
InvalidateRoute(c, limit) ==
    /\ Running
    /\ owner.call[c].status = "Held"
    /\ Command(IF seed = "Absent" THEN Settle(owner, {c}, "Declined")
               ELSE IF owner.call[c].fact.topic = "Cluster"
               THEN InvalidateBrokerRoute(owner, c, limit, Context)
               ELSE InvalidatePartitionRoute(owner, c, limit, Context))

\* A coordinator route named a broker the directory lacks.
ResolveCoordinatorDirectory ==
    /\ Running
    /\ clock < MaxStamp
    /\ Command(Interpret(owner,
           Resolve(owner.machine, "Cluster", ReserveOperation(owner)), Context))

\* Reactor::start_drain: the waiters fail and the owner is dropped.
Shutdown ==
    /\ Running
    /\ owner' = [NewOwner EXCEPT !.state = "Draining",
                    !.call = Settle(Settle(owner, InStatus(owner, "Waiting"), "Ended"),
                                    InStatus(owner, "Pending"), "Unavailable").call]
    /\ UNCHANGED <<seed, clock, woken>>

-------------------------------------------------------------------------------
(* The host's turn: continue_metadata.  After it the host sleeps until an    *)
(* event, a deadline the owner reported, or at once if work is left.         *)

HasPendingWaitScan(o) ==
    \/ \E l \in Lines : o.scan[l] # 0 \/ o.due[l]
    \/ o.barrierScan # 0

TurnDue ==
    woken \/ HasPendingWaitScan(owner) \/ \E l \in Lines : DueIn(owner.line[l]) # {}

Drained(o) ==
    IF o.fault # "None" THEN o
    ELSE DrainInvalidationWaiters(DrainTopicViewWaiters(
            DrainPartitionWaiters(DrainControllerWaiters(o))))

Turn ==
    /\ Running
    /\ TurnDue
    /\ \E driven \in {IF seed = "Absent" THEN owner ELSE Drive(owner, Context)} :
         owner' = Drained(driven) /\ Stamped(driven)
    /\ woken' = FALSE
    /\ UNCHANGED seed

-------------------------------------------------------------------------------
(* What happens around the owner.                                            *)

AnswerPending(answer, response) ==
    /\ Running
    /\ owner.pending # NoPending /\ owner.pending.answer = "None"
    /\ owner' = [owner EXCEPT !.pending.answer = answer,
                              !.pending.response = response]
    /\ woken' = TRUE
    /\ UNCHANGED <<seed, clock>>

\* The seed answers, or the call fails (its own timeout if nothing else).
FetchAnswered(response) == AnswerPending("Answered", response)
FetchFailed == AnswerPending("Failed", NoResponse)

SeedChanges(s) ==
    /\ Running
    /\ s # seed
    /\ seed' = s
    /\ woken' = TRUE
    /\ UNCHANGED <<owner, clock>>

\* The response of a call on its route is a failure, observed at the next stamp.
CallFails(c) ==
    /\ Running
    /\ owner.call[c].status = "Served"
    /\ owner' = [Settle(owner, {c}, "Held") EXCEPT !.call[c].observed = clock,
                                                  !.call[c].renewed = FALSE]
    /\ clock' = clock + 1
    /\ UNCHANGED <<seed, woken>>

\* Time passes; only the time left to a deadline is told apart.
Tick ==
    /\ Running
    /\ \E l \in Lines : \E i \in DOMAIN owner.line[l] : owner.line[l][i].left > 0
    /\ owner' = [owner EXCEPT !.line = [l \in Lines |-> [i \in DOMAIN @[l] |->
                    [@[l][i] EXCEPT !.left = IF @ = 0 THEN 0 ELSE @ - 1]]]]
    /\ UNCHANGED <<seed, clock, woken>>

Init ==
    /\ owner = NewOwner
    /\ seed \in SeedStates
    /\ clock = 1
    /\ woken = TRUE

Next ==
    \/ \E c \in Calls :
         \/ SubmitController(c) \/ SubmitBroker(c) \/ SubmitPartitionLeader(c)
         \/ ProcessTopicView(c) \/ CallFails(c)
         \/ \E limit \in InvalidationLimits : InvalidateRoute(c, limit)
         \/ \E failed \in Calls : ProcessTopicViewAfterFailure(c, failed)
    \/ ResolveCoordinatorDirectory
    \/ Shutdown
    \/ Turn
    \/ \E response \in Responses : FetchAnswered(response)
    \/ FetchFailed
    \/ \E s \in SeedStates : SeedChanges(s)
    \/ Tick

Spec == Init /\ [][Next]_vars

-------------------------------------------------------------------------------
(* Properties.                                                               *)

Holders == {o \in {owner.pending.fetch, owner.requested} : o # NoFetch}

\* MetadataOwnerError::UnexpectedEffect ends the whole host.  The machine
\* refreshes exactly while the owner holds the one fetch it started, sent or
\* waiting for the seed, and under the identity the machine will accept.
FetchOwned ==
    /\ owner.fault # "UnexpectedEffect"
    /\ owner.fault = "None" =>
         LET m == owner.machine
         IN  /\ Cardinality(Holders) = IF m.phase = "Refreshing" THEN 1 ELSE 0
             /\ \A f \in Holders :
                  f.op = m.op /\ f.query = m.query /\ f.generation = m.generation

\* The invalidation by the call's token withdrew its route.
Withdrawn(c) ==
    owner.call[c].status \in {"Pending", "Applied", "CapacityReached", "Unavailable"}

\* MetadataRevocations::apply: after a withdrawal was accepted, no controller
\* (no leader of that partition) is current that rests on a fetch begun before
\* the failure was observed, whatever fetches were in flight or queued, and
\* whatever they asked for.
CausalFacts ==
    Running =>
        \A c \in Calls : Withdrawn(c) =>
            LET held == owner.call[c]
                s    == owner.machine.current
                leader == s.leaders[held.fact.topic][held.fact.partition]
            IN  IF held.fact.topic = "Cluster"
                THEN s.controller # NoBroker => s.evidence > held.observed
                ELSE leader # NoLeader => leader.evidence > held.observed

\* InvalidationDisposition::Applied is told only after a fetch of the token's
\* own query, begun after its failure was observed, succeeded; the counter that
\* bounds subscribers counts the invalidations still waiting.
BarrierSound ==
    /\ [](Running => owner.subscribers = Cardinality(InStatus(owner, "Pending"))
            /\ owner.subscribers <= Max(InvalidationLimits))
    /\ [][\A c \in Calls :
            owner.call[c].status = "Pending" /\ owner'.call[c].status = "Applied" =>
                owner'.call[c].renewed]_vars

\* A waiter never sleeps until its deadline for want of a scan: a fetch of its
\* query is in flight or queued (whose end starts a scan), or the scan under way
\* has yet to examine it; and one whose route became known is being scanned.
\* (A view that must follow an outcome awaits its own fetch in any case.)
WaitBacked ==
    Running =>
        \A l \in Lines : \A i \in DOMAIN owner.line[l] :
            LET w == owner.line[l][i]
            IN  i > owner.scan[l] =>
                    /\ QueryPending(owner.machine, QueryOf(w.demand))
                    /\ w.need # "AfterOutcome" => ~Supplied(owner.machine.current, w)
===============================================================================
