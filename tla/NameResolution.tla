---------------------------- MODULE NameResolution ----------------------------
(***************************************************************************)
(* Name resolution in a clustered reactor: the host thread's bounded       *)
(* lookup ownership (`NameResolution`: permits, effect identities, the     *)
(* fallback queue), the bootstrap owner that feeds it, the blocking DNS    *)
(* worker thread behind two bounded channels, the replaceable seed lane    *)
(* that bootstrap results install, and the worker's shutdown grace.        *)
(*                                                                         *)
(* A host turn is two actions, Begin (commands, then refresh scheduling)   *)
(* and Drive (retry, outcomes, submissions, seed installation, lane I/O),  *)
(* so that the worker thread runs between a submission and the drain that  *)
(* follows it.  The broker routes and lanes that also ask for lookups are  *)
(* clients here: when they ask is free, what they do with an answer is     *)
(* left to other modules.  Every error a handler returns ends the host and *)
(* is recorded in host.fault.                                              *)
(***************************************************************************)
EXTENDS Bootstrap, FiniteSets, SequencesExt

CONSTANTS
    Brokers,            \* broker lanes whose routes ask for lookups
    RefreshLanes,       \* broker lanes that ask for endpoint refreshes
    PendingCapacity,    \* ResolverLimits.pending_capacity
    RequestCapacity,    \* ResolverLimits.request_capacity
    OutcomeCapacity,    \* ResolverLimits.outcome_capacity
    OutcomeBudget,      \* ResolverLimits.outcome_budget
    MaxEffect,          \* last representable EffectId (u64::MAX)
    Grace,              \* WORKER_SHUTDOWN_GRACE
    Jitters,            \* samples of the bootstrap entropy
    WakeResults,        \* results of WakeHandle::wake: TRUE is Ok
    DebugAssertions     \* is debug_assert_eq! evaluated by this build?

ASSUME ResolutionBounds ==
    /\ MaxEpoch >= 2
    /\ {PendingCapacity, RequestCapacity, OutcomeCapacity, OutcomeBudget,
        MaxEffect} \subseteq Nat \ {0}
    /\ Grace \in Nat
    /\ Jitters \subseteq Nat /\ Jitters # {}
    /\ WakeResults \subseteq BOOLEAN /\ TRUE \in WakeResults
    /\ DebugAssertions \in BOOLEAN

VARIABLES
    host,       \* the reactor's state, and the two channels to the worker
    worker,     \* the DNS thread
    wake,       \* is a wake-up of the host's poller outstanding?
    now,        \* the host's Moment
    tried       \* endpoints looked up in the current bootstrap pass (history)

vars == <<host, worker, wake, now, tried>>

-------------------------------------------------------------------------------
(* State.                                                                    *)

\* ResolutionOwner: who is owed the answer of a lookup.
BootstrapOwned == <<"Bootstrap">>
BrokerOwned(l) == <<"Broker", l>>
DirectOwned(l) == <<"Direct", l>>
\* A DnsRequest.  The names looked up for clients are not told apart.
Request(effect, owner, epoch) ==
    [effect |-> effect, owner |-> owner, epoch |-> epoch]

NoSeed == [generation |-> 0, endpoint |-> 0]
Inactive == [stage |-> "Inactive", generation |-> 0]

\* The seed lane as the seed owner sees it; LaneLifecycle has its inside.
\* None: no lane.  Live: any non-terminal state without a due refresh.
\* Refreshing: address evidence is exhausted.  Draining.  Retired: closed on
\* request.  Rejected: closed for any other reason.
Reclaimable(h) == h.lane \in {"Retired", "Rejected"}

Idle(h) == h.step = "Rest"
Failed(h) == h.fault # "None"
Fail(h, error) == [h EXCEPT !.fault = error]

-------------------------------------------------------------------------------
(* Permits: PendingResolutions, ResolverEffectIds and ResolverOwnership.     *)

Denied(h) == [host |-> h, permit |-> 0]

Without(f, x) == [y \in DOMAIN f \ {x} |-> f[y]]
With(f, x, v) == [y \in DOMAIN f \cup {x} |-> IF y = x THEN v ELSE f[y]]

TryReserve(h, owner) ==
    LET effect == h.nextEffect
        spent  == [h EXCEPT !.nextEffect = IF effect < MaxEffect THEN effect + 1
                                           ELSE 0]
    IN  CASE Len(h.pending) + h.reserved >= PendingCapacity -> Denied(h)
          [] effect = 0 -> Denied(Fail(h, "IdentityExhausted"))
          [] Cardinality(DOMAIN h.owners) = PendingCapacity -> Denied(spent)
          [] OTHER -> [host |-> [spent EXCEPT
                                    !.owners = With(@, effect, owner),
                                    !.reserved = @ + 1],
                       permit |-> effect]

\* The removal is the argument of a debug_assert_eq!, so that only a build
\* with debug assertions performs it.
Cancel(h, permit) ==
    [h EXCEPT !.reserved = @ - 1,
              !.owners = IF DebugAssertions THEN Without(@, permit) ELSE @]

\* Variant: a full worker queue drops the request.
SubmitDropping(h, permit, request) ==
    CASE ~h.connected ->
            [Fail(h, "WorkerClosed") EXCEPT !.reserved = @ - 1,
                                            !.owners = Without(@, permit)]
      [] h.connected /\ Len(h.requests) < RequestCapacity ->
            [h EXCEPT !.reserved = @ - 1, !.requests = Append(@, request)]
      [] OTHER -> [h EXCEPT !.reserved = @ - 1]

Submit(h, permit, request) ==
    CASE ~h.connected ->
            [Fail(h, "WorkerClosed") EXCEPT !.reserved = @ - 1,
                                            !.owners = Without(@, permit)]
      [] h.connected /\ Len(h.requests) < RequestCapacity ->
            [h EXCEPT !.reserved = @ - 1, !.requests = Append(@, request)]
      [] OTHER ->
            [h EXCEPT !.reserved = @ - 1, !.pending = Append(@, request)]

\* PendingResolutions::retry: what fits the worker queue leaves in FIFO order.
RetryPending(h) ==
    LET admitted == Least(Len(h.pending), RequestCapacity - Len(h.requests))
    IN  CASE ~h.connected /\ h.pending # <<>> -> Fail(h, "WorkerClosed")
          [] ~h.connected -> h
          [] OTHER ->
                [h EXCEPT
                    !.requests = @ \o SubSeq(h.pending, 1, admitted),
                    !.pending = SubSeq(@, admitted + 1, Len(@)),
                    !.progress = @ \/ admitted > 0,
                    !.more = @ \/ (admitted = RequestCapacity
                                   /\ admitted < Len(h.pending))]

-------------------------------------------------------------------------------
(* The bootstrap lookup.                                                     *)

\* Variant: the lookup is not flagged as in flight.
BeginLookupUnflagged(h, permit) ==
    [Submit(h, permit, Request(permit, BootstrapOwned, h.boot.machine.epoch))
        EXCEPT !.progress = TRUE]

BeginLookup(h, permit) ==
    [Submit(h, permit, Request(permit, BootstrapOwned, h.boot.machine.epoch))
        EXCEPT !.inFlight = TRUE, !.progress = TRUE]

RestartBootstrap(h) ==
    LET r == TryReserve(h, BootstrapOwned)
        t == OwnerRestart(r.host.boot, r.permit)
        g == [r.host EXCEPT !.boot = t.state]
    IN  CASE h.inFlight -> h
          [] ~h.inFlight /\ r.permit = 0 -> r.host
          [] ~h.inFlight /\ r.permit # 0 /\ t.action = "Resolve" ->
                BeginLookup(g, r.permit)
          [] OTHER -> Fail(Cancel(g, r.permit), t.action)

RestartExhaustedBootstrap(h, t) ==
    LET r == TryReserve(h, BootstrapOwned)
        a == OwnerRetryElapsed(r.host.boot, t, r.permit)
        g == [r.host EXCEPT !.boot = a.state]
    IN  CASE h.inFlight \/ ~RetryDue(h.boot, t) -> h
          [] r.permit = 0 -> r.host
          [] a.action = "Resolve" -> BeginLookup(g, r.permit)
          [] a.action = "None" -> Cancel(g, r.permit)
          [] OTHER -> Fail(Cancel(g, r.permit), a.action)

\* The Bootstrap arm of NameResolution::drive: the permit for the next lookup
\* of the pass is taken before the machine knows whether it needs one.
CompleteBootstrap(h, outcome, t, jitter) ==
    LET r == TryReserve([h EXCEPT !.inFlight = FALSE], BootstrapOwned)
        a == OwnerComplete(r.host.boot, outcome, r.permit, t, jitter)
        g == [r.host EXCEPT !.boot = a.state]
        seed == [generation |-> h.boot.machine.epoch,
                 endpoint |-> h.boot.machine.endpoint]
    IN  CASE Failed(r.host) -> r.host
          [] r.permit = 0 -> Fail(r.host, "ReservationUnavailable")
          [] a.action = "Resolve" -> BeginLookup(g, r.permit)
          [] a.action = "Install" /\ h.resolved = NoSeed ->
                [Cancel(g, r.permit) EXCEPT !.resolved = seed]
          [] a.action = "Install" /\ h.resolved # NoSeed ->
                Fail(Cancel(g, r.permit), "UnexpectedEffect")
          [] a.action = "RetryScheduled" -> Cancel(g, r.permit)
          [] OTHER -> Fail(Cancel(g, r.permit), a.action)

\* Variant: ownership is released after the completion is interpreted.
ApplyOutcomeLate(h, outcome, t, jitter) ==
    LET g == IF h.owners[outcome.effect] = BootstrapOwned
             THEN CompleteBootstrap(h, outcome, t, jitter) ELSE h
    IN  IF Failed(h) \/ outcome.effect \notin DOMAIN h.owners THEN h
        ELSE [g EXCEPT !.owners = Without(@, outcome.effect)]

\* One drained outcome.  Answers for clients leave this module.
ApplyOutcome(h, outcome, t, jitter) ==
    LET g == [h EXCEPT !.owners = Without(@, outcome.effect)]
    IN  CASE Failed(h) \/ outcome.effect \notin DOMAIN h.owners -> h
          [] h.owners[outcome.effect] = BootstrapOwned ->
                CompleteBootstrap(g, outcome, t, jitter)
          [] OTHER -> g

\* Resolver::drain_into and the loop over what it collected.  A disconnected
\* channel is an error even when outcomes were collected before it.
DrainOutcomes(h, t, jitter) ==
    LET drained == Least(Len(h.outcomes), OutcomeBudget)
        g == [h EXCEPT !.outcomes = SubSeq(@, drained + 1, Len(@)),
                       !.progress = @ \/ drained > 0,
                       !.more = @ \/ drained = OutcomeBudget]
    IN  IF ~h.connected /\ drained < OutcomeBudget THEN Fail(g, "WorkerLost")
        ELSE FoldLeft(LAMBDA acc, o : ApplyOutcome(acc, o, t, jitter),
                      g, SubSeq(h.outcomes, 1, drained))

-------------------------------------------------------------------------------
(* The seed slot: installation, rotation, replacement.                       *)

CaptureSeedFailure(h) ==
    [h EXCEPT !.seedFailed = @ \/ (~h.draining /\ h.lane = "Rejected")]

WaitingOpen(h) == ~h.draining /\ ~h.seedFailed

\* Does the bootstrap slot name the installed seed?
SlotCurrent(h) ==
    h.seedBoot.stage # "Inactive" => h.seedBoot.generation = h.seed.generation

\* Variant: the retired seed's restart is not recorded.
PrepareSeedRestartForgotten(h) ==
    LET g == CaptureSeedFailure(h)
    IN  IF g.seedBoot = Inactive /\ WaitingOpen(g) /\ g.seed # NoSeed
           /\ g.lane = "Refreshing"
        THEN [g EXCEPT !.lane = "Retired"]
        ELSE g

\* prepare_seed_bootstrap_restart: a seed whose addresses are exhausted is
\* retired, and its bootstrap restart becomes pending.
PrepareSeedRestart(h) ==
    LET g == CaptureSeedFailure(h)
    IN  CASE ~SlotCurrent(g) -> Fail(g, "SeedDiverged")
          [] /\ SlotCurrent(g)
             /\ g.seedBoot = Inactive /\ WaitingOpen(g)
             /\ g.seed # NoSeed /\ g.lane = "Refreshing" ->
                [g EXCEPT !.lane = "Retired",
                          !.seedBoot = [stage |-> "RestartPending",
                                        generation |-> g.seed.generation]]
          [] OTHER -> g

ScheduleSeedRestart(h) ==
    LET g == RestartBootstrap(h)
    IN  IF g.inFlight /\ ~h.inFlight /\ ~Failed(g)
        THEN [CaptureSeedFailure(g) EXCEPT !.seedBoot.stage = "ResolutionOwned"]
        ELSE g

ScheduleLaneRefresh(h, l) ==
    LET r == TryReserve(h, DirectOwned(l))
    IN  IF r.permit = 0 THEN r.host
        ELSE [Submit(r.host, r.permit, Request(r.permit, DirectOwned(l), 0))
                EXCEPT !.refreshing = @ \ {l}, !.progress = TRUE]

\* schedule_cluster_address_refresh; l is the broker lane the rotation offers.
ScheduleRefreshes(h, l) ==
    LET g == PrepareSeedRestart(h)
    IN  CASE Failed(g) -> g
          [] ~Failed(g) /\ g.seedBoot.stage = "RestartPending" ->
                ScheduleSeedRestart(g)
          [] ~Failed(g) /\ g.seedBoot.stage # "RestartPending"
             /\ l \in g.refreshing -> ScheduleLaneRefresh(g, l)
          [] OTHER -> g

BlocksReplacement(h) == h.draining \/ (h.seedFailed /\ h.waiting)

\* try_retry_pending_resolved_seed and replace_reclaimable_seed.
RetryPendingSeed(h) ==
    LET g == CaptureSeedFailure(h)
    IN  CASE h.pendingSeed = NoSeed \/ Failed(h) -> h
          [] h.seed = NoSeed -> Fail(h, "SeedNotInstalled")
          [] h.pendingSeed.generation <= h.seed.generation ->
                [h EXCEPT !.pendingSeed = NoSeed]
          [] ~SlotCurrent(h) -> Fail(h, "SeedDiverged")
          [] h.seedBoot.stage = "RestartPending" -> h
          [] BlocksReplacement(g) \/ ~Reclaimable(g) -> g
          [] OTHER -> [g EXCEPT !.seed = h.pendingSeed, !.lane = "Live",
                                !.pendingSeed = NoSeed, !.seedFailed = FALSE,
                                !.seedBoot = Inactive]

ReplaceSeed(h, seed) ==
    LET g == [h EXCEPT !.pendingSeed = seed]
    IN  CASE ~SlotCurrent(h) -> Fail(h, "SeedDiverged")
          [] SlotCurrent(h)
             /\ (\/ seed.generation <= h.seed.generation
                 \/ h.draining
                 \/ seed.generation <= h.pendingSeed.generation) -> h
          [] OTHER -> IF h.seedBoot.stage = "RestartPending" THEN g
                      ELSE RetryPendingSeed(g)

\* Reactor::install_resolved_seed.
InstallResolvedSeed(h) ==
    LET g == [h EXCEPT !.resolved = NoSeed]
    IN  CASE Failed(h) \/ h.resolved = NoSeed -> h
          [] h.seed = NoSeed -> [g EXCEPT !.seed = h.resolved, !.lane = "Live"]
          [] OTHER -> ReplaceSeed(g, h.resolved)

-------------------------------------------------------------------------------
(* Shutdown.                                                                 *)

\* start_drain: the resolution owner is dropped, which closes both channels,
\* and the cluster starts to drain its lanes.
StartDrain(h, t) ==
    [CaptureSeedFailure(h) EXCEPT
        !.state = "Draining", !.graceAt = Least(t + Grace, MaxMoment),
        !.outcomes = <<>>, !.owners = <<>>, !.pending = <<>>, !.reserved = 0,
        !.boot = NewBootstrap, !.inFlight = FALSE, !.refreshing = {},
        !.pendingSeed = NoSeed, !.draining = TRUE, !.seedBoot = Inactive,
        !.lane = CASE h.lane = "Live" -> "Draining"
                   [] h.lane = "Refreshing" -> "Retired"
                   [] OTHER -> h.lane]

\* cluster_is_terminal.
ClusterTerminal(h) ==
    /\ h.draining /\ ~h.waiting
    /\ h.pendingSeed = NoSeed
    /\ h.lane = "None" \/ Reclaimable(h)

\* Variant: an unfinished worker is waited for without end.
FinishShutdownPatient(h, t, finished) ==
    IF h.state = "Draining" /\ ClusterTerminal(h) /\ finished
    THEN [h EXCEPT !.state = "Shutdown", !.more = FALSE]
    ELSE h

\* finish_shutdown_if_terminal and WorkerShutdown::poll: an unfinished worker
\* is abandoned at the end of its grace.
FinishShutdown(h, t, finished) ==
    IF h.state = "Draining" /\ ClusterTerminal(h)
       /\ (finished \/ t >= h.graceAt)
    THEN [h EXCEPT !.state = "Shutdown", !.more = FALSE]
    ELSE h

-------------------------------------------------------------------------------
(* The host turn.                                                            *)

Commands ==
    [kind : {"None", "Shutdown", "Seed"}]
        \cup [kind : {"Route"}, lane : Brokers, asks : BOOLEAN]

\* submit_cluster_broker_route for a route without a current lookup.  The
\* route may still need none once the request is admitted.
SubmitRoute(h, l, asks) ==
    LET r == TryReserve(h, BrokerOwned(l))
    IN  CASE r.permit = 0 -> r.host
          [] r.permit # 0 /\ asks ->
                Submit(r.host, r.permit, Request(r.permit, BrokerOwned(l), 0))
          [] OTHER -> Cancel(r.host, r.permit)

\* submit_seed, when the seed lane cannot admit the request at once.
SubmitSeed(h) ==
    LET g == CaptureSeedFailure(h)
    IN  [g EXCEPT !.waiting = @ \/ WaitingOpen(g)]

ProcessCommand(h, command, t) ==
    CASE command.kind = "Route" -> SubmitRoute(h, command.lane, command.asks)
      [] command.kind = "Seed" -> SubmitSeed(h)
      [] command.kind = "Shutdown" -> StartDrain(h, t)
      [] OTHER -> h

\* The first half of drive_at, up to and with the refresh scheduling.
BeginTurn(h, command, l, t, finished) ==
    LET g == [ProcessCommand([h EXCEPT !.more = FALSE], command, t) EXCEPT
                 !.step = "Scheduled", !.progress = command.kind # "None"]
        f == FinishShutdown(g, t, finished)
    IN  IF Failed(f) \/ f.state # "Running" THEN f ELSE ScheduleRefreshes(f, l)

\* ClusterRuntime::drive, as far as the seed lane and its waiters go: event is
\* where the lane's own turn leaves it, admits whether it admits the waiters.
DriveLanes(h, event, admits, exhausted) ==
    LET g == CaptureSeedFailure(
                 [h EXCEPT !.lane = event,
                           !.refreshing = @ \cup exhausted,
                           !.progress = @ \/ event # h.lane \/ exhausted # {}])
        settles == g.waiting /\ (~WaitingOpen(g) \/ (g.lane = "Live" /\ admits))
    IN  [g EXCEPT !.waiting = @ /\ ~settles, !.progress = @ \/ settles]

\* broker_has_local_io and worker_shutdown_pending.
LocalWork(h) ==
    \/ h.lane = "Refreshing" \/ h.refreshing # {}
    \/ h.waiting /\ ~WaitingOpen(h)
    \/ h.state = "Draining"

EndTurn(h) ==
    [h EXCEPT !.step = "Rest", !.progress = FALSE,
              !.more = h.progress /\ (h.more \/ LocalWork(h))]

Resolve(h, t, jitter) ==
    LET g == RestartExhaustedBootstrap(h, t)
        d == IF Failed(g) THEN g ELSE DrainOutcomes(g, t, jitter)
        p == IF Failed(d) THEN d ELSE RetryPending(d)
    IN  InstallResolvedSeed(p)

\* The second half of drive_at.
DriveTurn(h, event, admits, exhausted, t, jitter, finished) ==
    LET g == IF h.state = "Running" THEN Resolve(h, t, jitter) ELSE h
        d == RetryPendingSeed(DriveLanes(g, event, admits, exhausted))
    IN  IF Failed(g) THEN g ELSE EndTurn(FinishShutdown(d, t, finished))

\* Where the seed lane's turn may leave it.
LaneEvents(lane) ==
    CASE lane = "Live" -> {"Live", "Refreshing", "Rejected"}
      [] lane = "Draining" -> {"Draining", "Retired"}
      [] OTHER -> {lane}

Settling(l) == DirectOwned(l) \in Range(host.owners)

Running == ~Failed(host) /\ host.state # "Shutdown"

\* Calandria runs a turn when the last one asked for another at once, when the
\* poller is woken, or at the deadline the host named.  A draining host names
\* a deadline every WORKER_SHUTDOWN_OBSERVATION_INTERVAL.
Due ==
    /\ Running /\ host.step = "Rest"
    /\ wake \/ host.more \/ host.state = "Draining" \/ RetryDue(host.boot, now)

\* What the pass of the machine has asked for, after a step of the host.
Record ==
    LET m == host'.boot.machine
    IN  tried' = IF m.phase # "Resolving" THEN tried
                 ELSE IF m.epoch # host.boot.machine.epoch THEN {m.endpoint}
                 ELSE tried \cup {m.endpoint}

\* A command wakes the host that it is sent to.
Begin ==
    /\ Running /\ host.step = "Rest"
    /\ \E command \in Commands, l \in RefreshLanes :
        /\ command.kind # "None" \/ Due
        /\ command.kind # "None" => host.state = "Running"
        /\ l \in host.refreshing \/ host.refreshing = {}
        /\ host' = BeginTurn(host, command, l, now, worker.stage = "Exited")
    /\ Record
    /\ wake' = FALSE
    /\ UNCHANGED <<worker, now>>

Drive ==
    /\ Running /\ host.step = "Scheduled"
    /\ \E jitter \in Jitters, admits \in BOOLEAN,
          exhausted \in SUBSET {l \in RefreshLanes : ~Settling(l)} :
        LET resolved == IF host.state = "Running"
                        THEN Resolve(host, now, jitter) ELSE host
        IN  \E event \in LaneEvents(resolved.lane) :
                /\ exhausted # {} => host.state = "Running"
                /\ host' = DriveTurn(host, event, admits, exhausted, now, jitter,
                                     worker.stage = "Exited")
    /\ Record
    /\ UNCHANGED <<worker, wake, now>>

-------------------------------------------------------------------------------
(* The worker thread, and the world.                                         *)

\* Dropping the resolver closes the host's end of both channels.  Buffered
\* requests are still received; an outcome can no longer be sent.
HostGone == Failed(host) \/ host.state # "Running"

NoHand == Request(0, BootstrapOwned, 0)

\* Leaving the worker's loop drops its ends of the channels and wakes the host
\* a last time; w is whether that wake-up succeeds.
Exit(w) ==
    /\ worker' = [worker EXCEPT !.stage = "Exited", !.hand = NoHand]
    /\ wake' = (wake \/ w)
    /\ host' = [host EXCEPT !.connected = FALSE, !.requests = <<>>]

WorkerReceive ==
    /\ worker.stage = "Receiving"
    /\ host.requests # <<>>
    /\ worker' = [worker EXCEPT !.stage = "Resolving",
                                !.hand = Head(host.requests)]
    /\ host' = [host EXCEPT !.requests = Tail(@)]
    /\ UNCHANGED <<wake, now, tried>>

WorkerHangUp ==
    /\ \/ worker.stage = "Receiving" /\ host.requests = <<>>
       \/ worker.stage = "Sending"
    /\ HostGone
    /\ Exit(TRUE)
    /\ UNCHANGED <<now, tried>>

\* The blocking lookup: ok is whether it yields a usable address.
WorkerResolve(ok) ==
    /\ worker.stage = "Resolving"
    /\ worker' = [worker EXCEPT !.stage = "Sending", !.ok = ok]
    /\ UNCHANGED <<host, wake, now, tried>>

WorkerSend ==
    /\ worker.stage = "Sending" /\ ~HostGone
    /\ Len(host.outcomes) < OutcomeCapacity
    /\ host' = [host EXCEPT !.outcomes =
                    Append(@, [effect |-> worker.hand.effect,
                               owner |-> worker.hand.owner,
                               epoch |-> worker.hand.epoch, ok |-> worker.ok])]
    /\ worker' = [stage |-> "Waking", hand |-> NoHand, ok |-> FALSE]
    /\ UNCHANGED <<wake, now, tried>>

\* Variant: the worker does not wake the host.
WorkerWakeSilently ==
    /\ worker.stage = "Waking"
    /\ worker' = [worker EXCEPT !.stage = "Receiving"]
    /\ UNCHANGED <<host, wake, now, tried>>

WorkerWake ==
    /\ worker.stage = "Waking"
    /\ \/ /\ worker' = [worker EXCEPT !.stage = "Receiving"]
          /\ wake' = TRUE
          /\ UNCHANGED host
       \/ FALSE \in WakeResults /\ \E w \in WakeResults : Exit(w)
    /\ UNCHANGED <<now, tried>>

\* Sockets, timers and other owners wake the host as well.
OtherWake ==
    /\ Running /\ ~wake
    /\ wake' = TRUE
    /\ UNCHANGED <<host, worker, now, tried>>

Tick ==
    /\ Running /\ now < MaxMoment
    /\ now' = now + 1
    /\ UNCHANGED <<host, worker, wake, tried>>

\* NameResolution::with_resolver: bootstrap holds the first identity.
Init ==
    /\ host = [state |-> "Running", step |-> "Rest", fault |-> "None",
               more |-> TRUE, progress |-> FALSE, graceAt |-> 0,
               boot |-> OwnerStart(1).state, inFlight |-> TRUE,
               nextEffect |-> IF MaxEffect > 1 THEN 2 ELSE 0,
               owners |-> [e \in {1} |-> BootstrapOwned],
               pending |-> <<>>, reserved |-> 0,
               requests |-> <<Request(1, BootstrapOwned, 1)>>,
               outcomes |-> <<>>, connected |-> TRUE,
               resolved |-> NoSeed, seed |-> NoSeed, lane |-> "None",
               seedBoot |-> Inactive, pendingSeed |-> NoSeed,
               waiting |-> FALSE, seedFailed |-> FALSE, draining |-> FALSE,
               refreshing |-> {}]
    /\ worker = [stage |-> "Receiving", hand |-> NoHand, ok |-> FALSE]
    /\ wake = FALSE
    /\ now = 0
    /\ tried = {0}

WorkerStep ==
    WorkerReceive \/ WorkerHangUp \/ WorkerSend \/ WorkerWake
        \/ \E ok \in BOOLEAN : WorkerResolve(ok)

Next == Begin \/ Drive \/ WorkerStep \/ OtherWake \/ Tick

Spec == Init /\ [][Next]_vars

\* Calandria runs every due turn, and the clock advances.  Nothing is assumed
\* of the worker: a lookup may block for ever.
HostFairness ==
    /\ <>[]Due => []<><<Begin>>_vars
    /\ <>[](Running /\ host.step = "Scheduled") => []<><<Drive>>_vars
    /\ WF_vars(Tick)

\* The worker thread runs, and every lookup returns.
WorkerFairness ==
    /\ WF_vars(WorkerReceive) /\ WF_vars(WorkerHangUp)
    /\ WF_vars(WorkerSend) /\ WF_vars(WorkerWake)
    /\ WF_vars(\E ok \in BOOLEAN : WorkerResolve(ok))

\* A draining lane is gone in the end (LaneLifecycle shows it).
DrainFairness ==
    <>[](host.lane = "Draining") => []<><<Drive /\ host'.lane # "Draining">>_vars

HostSpec == Spec /\ HostFairness /\ DrainFairness

-------------------------------------------------------------------------------
(* Properties.                                                               *)

Serving == host.state = "Running" /\ ~Failed(host) /\ host.connected

\* Every lookup between its submission and the drain of its outcome.
Lookups ==
    Range(host.pending) \cup Range(host.requests) \cup Range(host.outcomes)
        \cup (IF worker.stage \in {"Resolving", "Sending"} THEN {worker.hand}
              ELSE {})

\* Ownership is held for the lookups under way, each by the owner that asked,
\* and for nothing else; between handlers no permit is outstanding
\* (permit.rs: "a DNS reservation must be submitted or cancelled").
PermitsBalanced ==
    Serving =>
        /\ host.reserved = 0
        /\ DOMAIN host.owners = {r.effect : r \in Lookups}
        /\ \A r \in Lookups : host.owners[r.effect] = r.owner

\* No interleaving of clients, worker, clock and seed brings the host down:
\* what ends it is an exhausted integer domain or the loss of the worker.
\* A completed bootstrap lookup always finds a permit (ReservationUnavailable),
\* the owner never meets an effect it did not ask for (UnexpectedEffect), and
\* the seed slot never diverges.
HostSurvives ==
    /\ host.fault \in {"None", "IdentityExhausted", "EpochExhausted",
                       "DeadlineOverflow", "WorkerLost", "WorkerClosed"}
    /\ host.fault \in {"WorkerLost", "WorkerClosed"} => FALSE \in WakeResults

\* bootstrap_in_flight, the machine's Resolving state and the lookup itself
\* agree: there is one bootstrap lookup while the machine waits for one, with
\* the identity and epoch that it waits for, and none otherwise.  A pass that
\* reports exhaustion has looked up every configured endpoint; a backoff is
\* armed exactly while such a pass has no successor, and only where nothing else
\* would restart bootstrap: before the first seed, or for a seed whose
\* replacement the resolution owns.
OneBootstrapLookup ==
    LET m    == host.boot.machine
        mine == {r \in Lookups : r.owner = BootstrapOwned}
    IN  Serving =>
            /\ host.inFlight <=> m.phase = "Resolving"
            /\ host.inFlight <=> mine # {}
            /\ \A r \in mine : r.effect = m.effect /\ r.epoch = m.epoch
            /\ m.phase = "Exhausted" => tried = 0..Endpoints - 1
            /\ host.boot.retry.phase = "Waiting" <=> m.phase = "Exhausted"
            /\ host.boot.retry.phase = "Waiting" =>
                   host.seed = NoSeed \/ host.seedBoot.stage = "ResolutionOwned"

\* A seed always has its successor on the way.  A resolved bootstrap pass is the
\* installed seed by the end of its turn, never stale, retained or lost behind
\* the lane it replaces; and the restart of a retired seed is pending, or a
\* lookup or a backoff for its successor is under way.
SeedSucceeded ==
    Serving =>
        /\ host.boot.machine.phase = "Resolved" /\ host.resolved = NoSeed =>
               /\ host.seed.generation = host.boot.machine.epoch
               /\ (host.seed.endpoint + 1) % Endpoints = host.boot.cursor
               /\ host.pendingSeed = NoSeed
        /\ host.lane = "Retired" <=> host.seedBoot # Inactive
        /\ SlotCurrent(host)
        /\ host.seedBoot.stage = "ResolutionOwned" =>
               host.inFlight \/ host.boot.retry.phase = "Waiting"

\* The host is gone or shuts down, or the worker is.
Stopped == Failed(host) \/ host.state # "Running" \/ ~host.connected

\* While the host serves and lookups return, every lookup is answered, and an
\* exhausted seed leads to a new bootstrap pass without help from a command:
\* whatever holds the permits wakes the host when it lets go.
LookupsAnswered ==
    WorkerFairness =>
        /\ \A e \in 1..MaxEffect :
              e \in DOMAIN host.owners ~> e \notin DOMAIN host.owners \/ Stopped
        /\ host.lane = "Refreshing"
              ~> host.seedBoot.stage = "ResolutionOwned" \/ Stopped

\* A shutdown completes even when a lookup blocks the worker for ever.
ShutdownCompletes == host.state = "Draining" ~> host.state = "Shutdown"
===============================================================================
