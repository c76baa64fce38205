------------------------------- MODULE Metadata -------------------------------
(***************************************************************************)
(* Cluster metadata policy (`MetadataMachine`): the last coherent snapshot *)
(* under a generation of its own, at most one fetch in flight, distinct    *)
(* queries queued behind it, and the causal withdrawal of a failed         *)
(* controller or partition leader.                                         *)
(*                                                                         *)
(* The machine is a pure function of its state and one input, so it is     *)
(* written as operators that yield the transition the source returns: the  *)
(* next state, the at most one effect, and the disposition.                *)
(***************************************************************************)
EXTENDS Integers, FiniteSets, SequencesExt

CONSTANTS
    Brokers,        \* broker identities
    NoBroker,       \* absent controller or leader (-1 on the wire)
    Topics,
    Partitions,     \* partitions of every topic
    QueryLimit,     \* MetadataQueryLimits::pending_queries
    TopicLimit,     \* PartitionLeaderLimits::max_topics
    MaxGeneration   \* last representable MetadataGeneration (u64::MAX)

ASSUME MetadataBounds ==
    /\ NoBroker \notin Brokers
    /\ {QueryLimit, TopicLimit, MaxGeneration} \subseteq Nat \ {0}

-------------------------------------------------------------------------------
(* Snapshots.  A leader epoch of 0 is one the broker did not supply, a count *)
(* of evidence 0 a topic nothing is known about.                             *)

Leader(broker, epoch, evidence) ==
    [broker |-> broker, epoch |-> epoch, evidence |-> evidence]
NoLeader == Leader(NoBroker, 0, 0)

NoSnapshot ==
    [generation |-> 0, evidence |-> 0, brokers |-> {}, controller |-> NoBroker,
     leaders |-> [t \in Topics |-> [p \in Partitions |-> NoLeader]],
     counts |-> [t \in Topics |-> 0]]

\* MetadataSnapshot::partition_route: a route carries the evidence of the fact.
PartitionRoute(s, t, p) ==
    [topic |-> t, partition |-> p, broker |-> s.leaders[t][p].broker,
     epoch |-> s.leaders[t][p].epoch, evidence |-> s.leaders[t][p].evidence]

\* PartitionRoute::is_same_assignment
SameAssignment(r, q) ==
    /\ r.topic = q.topic /\ r.partition = q.partition
    /\ r.broker = q.broker /\ r.epoch = q.epoch

RevokeController(s) == [s EXCEPT !.controller = NoBroker]
RevokePartition(s, t, p) == [s EXCEPT !.leaders[t][p] = NoLeader]

\* assignment_regresses
Regresses(previous, current) ==
    /\ NoLeader \notin {previous, current}
    /\ previous.epoch # 0 /\ current.epoch # 0
    /\ \/ current.epoch < previous.epoch
       \/ current.epoch = previous.epoch /\ current.broker # previous.broker

RegressesFrom(s, old) ==
    \E t \in Topics, p \in Partitions : Regresses(old.leaders[t][p], s.leaders[t][p])

-------------------------------------------------------------------------------
(* A response is [brokers, controller, error, leaders]: error is the error   *)
(* code of the topic, leaders maps the partitions to broker and epoch.       *)
(* snapshot_from_response yields NoSnapshot where the source returns Err.    *)

KnownTopics(counts) == {t \in Topics : counts[t] # 0}

Coherent(s) ==
    /\ s.controller \in s.brokers \cup {NoBroker}
    /\ \A t \in Topics, p \in Partitions :
         s.leaders[t][p] # NoLeader => s.leaders[t][p].broker \in s.brokers
    /\ Cardinality(KnownTopics(s.counts)) <= TopicLimit

\* Leaders of other topics survive while their broker is listed.
RetainedLeaders(leaders, t, brokers) ==
    [u \in Topics |-> [p \in Partitions |->
        IF u # t /\ leaders[u][p].broker \in brokers THEN leaders[u][p] ELSE NoLeader]]

TopicLeaders(response, evidence) ==
    [p \in Partitions |->
        IF response.error \/ response.leaders[p].broker = NoBroker THEN NoLeader
        ELSE Leader(response.leaders[p].broker, response.leaders[p].epoch, evidence)]

\* A cluster response keeps every count and no leader.
SnapshotFromResponse(response, generation, evidence, query, current) ==
    LET cluster == [NoSnapshot EXCEPT
                        !.generation = generation, !.evidence = evidence,
                        !.brokers = response.brokers,
                        !.controller = response.controller,
                        !.counts = current.counts]
        s == IF query = "Cluster" THEN cluster
             ELSE [cluster EXCEPT
                     !.leaders = [RetainedLeaders(current.leaders, query, response.brokers)
                                    EXCEPT ![query] = TopicLeaders(response, evidence)],
                     !.counts[query] = IF response.error THEN 0 ELSE evidence]
    IN  IF Coherent(s) THEN s ELSE NoSnapshot

-------------------------------------------------------------------------------
(* State.  generation is next_generation of Empty and target_generation of   *)
(* Refreshing.  Fields a phase does not carry hold their resting value.      *)

NoRevocation == [broker |-> NoBroker, after |-> 0]

MetadataNew ==
    [phase |-> "Empty", current |-> NoSnapshot, op |-> 0, query |-> "Cluster",
     generation |-> 1, queued |-> <<>>,
     controller |-> NoRevocation,   \* MetadataRevocations::controller
     partitions |-> {}]             \* MetadataRevocations::partitions

Ready(m, s) ==
    [m EXCEPT !.phase = "Ready", !.current = s, !.op = 0, !.query = "Cluster",
              !.generation = 0, !.queued = <<>>]

QueryPending(m, query) ==
    m.phase = "Refreshing" /\ (m.query = query \/ Contains(m.queued, query))

ControllerPending(m, broker) ==
    m.controller # NoRevocation /\ m.controller.broker = broker
PartitionRevocations(m, route) == {r \in m.partitions : SameAssignment(r, route)}
PartitionPending(m, route) == PartitionRevocations(m, route) # {}

-------------------------------------------------------------------------------
(* Transitions.                                                              *)

NoEffect == [kind |-> "None", op |-> 0, generation |-> 0, query |-> "Cluster"]

Transition(m, effect, disposition) ==
    [machine |-> m, effect |-> effect, disposition |-> disposition]

Fetch(m) ==
    Transition(m, [kind |-> "Fetch", op |-> m.op, generation |-> m.generation,
                   query |-> m.query], "Applied")
Exhausted(m) ==
    Transition(m, [NoEffect EXCEPT !.kind = "GenerationExhausted"], "Applied")
Plain(m, disposition) == Transition(m, NoEffect, disposition)

Start(m, current, op, generation, query, queued) ==
    Fetch([m EXCEPT !.phase = "Refreshing", !.current = current, !.op = op,
                    !.query = query, !.generation = generation, !.queued = queued])

\* follows: QueryRecency::MustFollowCurrent (a refresh), not CurrentMaySatisfy.
Admit(m, query, op, follows) ==
    CASE m.phase = "Refreshing" ->
            IF (m.query = query /\ ~follows) \/ Contains(m.queued, query)
            THEN Plain(m, "Coalesced")
            ELSE IF Len(m.queued) >= QueryLimit THEN Plain(m, "QueryCapacityReached")
            ELSE Plain([m EXCEPT !.queued = Append(@, query)], "Queued")
      [] m.phase = "Empty" -> Start(m, NoSnapshot, op, m.generation, query, <<>>)
      [] m.phase = "Ready" ->
            IF m.current.generation = MaxGeneration THEN Exhausted(m)
            ELSE Start(m, m.current, op, m.current.generation + 1, query, <<>>)

Resolve(m, query, op) == Admit(m, query, op, FALSE)
Refresh(m, query, op) == Admit(m, query, op, TRUE)

-------------------------------------------------------------------------------
(* Withdrawal of a failed route.                                             *)

WithdrawController(m, broker, observed) ==
    [m EXCEPT !.current = RevokeController(@),
              !.controller = [broker |-> broker,
                  after |-> IF @.broker = broker THEN Max({@.after, observed})
                            ELSE observed]]

WithdrawPartition(m, route, observed) ==
    LET same == PartitionRevocations(m, route)
    IN  [m EXCEPT !.current = RevokePartition(@, route.topic, route.partition),
                  !.partitions = (@ \ same) \cup
                      {[topic |-> route.topic, partition |-> route.partition,
                        broker |-> route.broker, epoch |-> route.epoch,
                        after |-> Max({r.after : r \in same} \cup {observed})]}]

\* A withdrawal that the query queue cannot follow up is not made.
Followed(t, withdrawn) ==
    IF t.disposition = "QueryCapacityReached" THEN t
    ELSE [t EXCEPT !.machine = withdrawn]

InvalidateController(m, broker, observed, op) ==
    LET t == Refresh(m, "Cluster", op)
    IN  CASE ControllerPending(m, broker) ->
                IF observed <= m.controller.after THEN Plain(m, "Coalesced")
                ELSE Followed(t, WithdrawController(t.machine, broker, observed))
          [] ~ControllerPending(m, broker) ->
                IF m.current.controller # broker \/ m.current.evidence > observed
                THEN Plain(m, "IgnoredStale")
                ELSE Followed(t, WithdrawController(t.machine, broker, observed))

InvalidatePartition(m, route, observed, op) ==
    LET t == Refresh(m, route.topic, op)
        current == PartitionRoute(m.current, route.topic, route.partition)
    IN  CASE PartitionPending(m, route) ->
                IF \A r \in PartitionRevocations(m, route) : observed <= r.after
                THEN Plain(m, "Coalesced")
                ELSE Followed(t, WithdrawPartition(t.machine, route, observed))
          [] ~PartitionPending(m, route) ->
                IF ~SameAssignment(current, route) \/ current.evidence > observed
                THEN Plain(m, "IgnoredStale")
                ELSE Followed(t, WithdrawPartition(t.machine, route, observed))

-------------------------------------------------------------------------------
(* Outcomes of the one fetch the machine owns.                               *)

\* Variant: any answer to the right query lifts a withdrawal.
LiftedByAny(query, wanted, evidence, after) == query = wanted

\* A withdrawal is lifted by its own query, begun after the failure.
Lifted(query, wanted, evidence, after) == query = wanted /\ evidence > after

\* MetadataRevocations::apply; the machine that remains has s as its current.
ApplyRevocations(m, s, query) ==
    LET kept    == {r \in m.partitions : ~Lifted(query, r.topic, s.evidence, r.after)}
        revoked == [t \in Topics |-> [p \in Partitions |->
                      IF \E r \in kept : r.topic = t /\ r.partition = p
                      THEN NoLeader ELSE s.leaders[t][p]]]
        lifted  == Lifted(query, "Cluster", s.evidence, m.controller.after)
    IN  [m EXCEPT
            !.partitions = kept,
            !.controller = IF lifted THEN NoRevocation ELSE @,
            !.current = [s EXCEPT
                !.leaders = revoked,
                !.controller = IF m.controller = NoRevocation \/ lifted THEN @
                               ELSE NoBroker]]

Fail(m, op, next) ==
    IF m.phase # "Refreshing" \/ m.op # op THEN Plain(m, "IgnoredStale")
    ELSE IF m.queued # <<>>
    THEN Start(m, m.current, next, m.generation, Head(m.queued), Tail(m.queued))
    ELSE IF m.current # NoSnapshot THEN Plain(Ready(m, m.current), "Applied")
    ELSE Plain([m EXCEPT !.phase = "Empty", !.op = 0, !.query = "Cluster"], "Applied")

\* The machine m already holds the new snapshot.
Installed(m, next) ==
    IF m.queued = <<>> THEN Plain(Ready(m, m.current), "Applied")
    ELSE IF m.current.generation = MaxGeneration THEN Exhausted(Ready(m, m.current))
    ELSE Start(m, m.current, next, m.current.generation + 1, Head(m.queued),
               Tail(m.queued))

Succeed(m, op, s, next) ==
    IF \/ m.phase # "Refreshing" \/ m.op # op \/ s.generation # m.generation
    THEN Plain(m, "IgnoredStale")
    ELSE IF m.query # "Cluster" /\ RegressesFrom(s, m.current)
    THEN [Fail(m, op, next) EXCEPT !.disposition = "RejectedLeaderEpochRegression"]
    ELSE Installed(ApplyRevocations(m, s, m.query), next)
===============================================================================
