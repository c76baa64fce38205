---------------------------- MODULE LaneLifecycle -----------------------------
(***************************************************************************)
(* One broker lane of the reactor (`DirectLane`): the broker policy and    *)
(* the address rotation composed with the replaceable Bornera connection   *)
(* generation, the Kafka session on it, the DNS refresh fence, and the     *)
(* owner drain.  Requests are left to other modules.                       *)
(*                                                                         *)
(* The reactor thread runs every lane step to completion, so each handler  *)
(* is one action.  What it interleaves with are the Bornera engine, whose  *)
(* events queue up in lane.events until the lane drains them, the resolver *)
(* thread, whose lookups stand in `lookups`, the clock, and the host.      *)
(* Every `Err(...)` an owner returns ends the host: it is recorded in      *)
(* lane.fault and the lane takes no further step.                          *)
(***************************************************************************)
EXTENDS Broker, EndpointDialer, Sequences

CONSTANTS
    MaxTimer,       \* last representable lifecycle TimerId (u64::MAX)
    Jitters,        \* samples of the lane's entropy
    AddressCounts,  \* sizes of resolver answers
    InitialSizes    \* addresses the lane is created with; 0 is a direct address

ASSUME LaneBounds ==
    /\ MaxTimer \in Nat
    /\ Jitters \subseteq Nat /\ Jitters # {}
    /\ AddressCounts \subseteq Nat \ {0}
    /\ InitialSizes \subseteq Nat

VARIABLES
    lane,       \* the DirectLane, and the engine's view of its connection
    now,        \* the host's Moment
    lookups,    \* failed epochs of this lane's unanswered DNS requests
    history     \* what the properties remember; no handler reads it

vars == <<lane, now, lookups, history>>

-------------------------------------------------------------------------------
(* State.  The close reasons are abstracted to what the lifecycle tells      *)
(* apart: a requested close, a completed drain, a permanent authentication   *)
(* failure, and every other (recoverable) failure.                           *)

Settled == {"Requested", "Drained", "Rejected"}
NoReport == [epoch |-> 0, sound |-> FALSE]
NoEngine == [phase |-> "None", reason |-> "None"]

LivePhases == {"Connecting", "Available", "Draining"}

Event(kind, reason) == [kind |-> kind, reason |-> reason]

\* finish_lane, before its first connection attempt.
NewLane(size) ==
    [broker |-> BrokerStart(BrokerNew(1)).state, dialer |-> NewDialer(size),
     timer |-> 1, fence |-> 0, conn |-> 0, session |-> "Closed",
     cause |-> "None", engine |-> NoEngine, events |-> <<>>,
     admitting |-> FALSE, report |-> NoReport, terminal |-> FALSE,
     fault |-> "None"]

\* A handler in progress: the lane and the broker effect still to interpret.
Doing(l, effect) == [lane |-> l, effect |-> effect]

Fault(l, kind) == [l EXCEPT !.fault = kind]

\* DirectLaneAccess::host_fatal
HostFatal(l) ==
    IF l.fault = "None" THEN l
    ELSE [l EXCEPT !.admitting = FALSE, !.fence = 0, !.terminal = TRUE]

\* DirectLifecycle::apply: an input the machine does not apply is an error.
Apply(l, t) ==
    IF t.disposition = "Applied"
    THEN Doing([l EXCEPT !.broker = t.state], t.effect)
    ELSE Doing(Fault(l, "Invariant"), NoEffect)

-------------------------------------------------------------------------------
(* The end of a generation.                                                  *)

CloseRequestedGeneration(l, epoch) ==
    LET begun == Apply(l, BeginDrain(l.broker))
    IN  IF begun.effect # Emit("DrainConnection", epoch, 0, 0)
        THEN Doing(Fault(l, "Invariant"), NoEffect)
        ELSE Apply(begun.lane, ConnectionDrained(begun.lane.broker, epoch))

\* DirectLifecycle::generation_ended.  reserve_reconnect consumes a timer
\* identity and one jitter sample.
GenerationEnded(l, epoch, reason, exhausted, jitter) ==
    LET reconnect == [timer |-> l.timer, now |-> now, jitter |-> jitter]
        reserved  == [l EXCEPT !.timer = @ + 1]
    IN  CASE l.broker.phase \notin LivePhases ->
                Doing(Fault(l, "Invariant"), NoEffect)
          [] l.broker.phase = "Draining" ->
                Apply(l, ConnectionDrained(l.broker, epoch))
          [] l.broker.phase # "Draining" /\ reason \in {"Requested", "Drained"} ->
                CloseRequestedGeneration(l, epoch)
          [] l.broker.phase # "Draining" /\ reason = "Rejected" ->
                Apply(l, ConnectionRejected(l.broker, epoch))
          [] l.broker.phase # "Draining" /\ reason \notin Settled
             /\ l.timer > MaxTimer ->
                Doing(Fault(l, "Timers"), NoEffect)
          [] OTHER ->
                Apply(reserved,
                      IF exhausted
                      THEN EndpointExhausted(l.broker, epoch, reconnect)
                      ELSE ConnectionFailed(l.broker, epoch, reconnect))

\* DirectEndpointRefresh::after_failure and the ownership it is stored under.
OwnRefresh(d, epoch) ==
    LET l == d.lane
        suspended == RefreshIs(l.broker, epoch, "Pending")
    IN  CASE l.fault # "None" \/ l.broker.phase = "Closed" -> d
          [] l.fault = "None" /\ suspended /\ l.fence = 0 ->
                Doing([l EXCEPT !.fence = epoch], d.effect)
          [] OTHER -> Doing(Fault(l, "Invariant"), d.effect)

\* DirectLaneAccess::end_generation.  Only a recoverable failure is charged to
\* the address.
EndGeneration(l, epoch, reason, jitter) ==
    LET charged   == reason \notin Settled
        exhausted == charged /\ PassExhausted(l.dialer)
        rotated   == IF charged THEN [l EXCEPT !.dialer = DialFailed(@)] ELSE l
        ended     == GenerationEnded(rotated, epoch, reason, exhausted, jitter)
    IN  IF exhausted THEN OwnRefresh(ended, epoch) ELSE ended

\* settle_policy_close: a closed policy makes the lane terminal.
SettlePolicyClose(l) ==
    IF l.fault = "None" /\ l.broker.phase = "Closed"
    THEN [l EXCEPT !.terminal = TRUE] ELSE l

-------------------------------------------------------------------------------
(* Effects of the broker policy.                                             *)

\* open_generation; dial is the outcome of the synchronous connection attempt.
OpenGeneration(l, epoch, dial) ==
    LET picked == [l EXCEPT !.dialer = OpenCandidate(@)]
    IN  CASE l.conn # 0 \/ ~HasCandidate(l.dialer) -> Fault(l, "Invariant")
          [] l.conn = 0 /\ HasCandidate(l.dialer) /\ dial = "Fatal" ->
                Fault(picked, "Host")
          [] l.conn = 0 /\ HasCandidate(l.dialer) /\ dial = "Refused" -> picked
          [] OTHER ->
                [picked EXCEPT
                    !.conn = epoch, !.session = "AwaitingTransport",
                    !.cause = "None", !.admitting = FALSE, !.report = NoReport,
                    !.terminal = FALSE, !.events = <<>>,
                    !.engine = [NoEngine EXCEPT !.phase = "Opening"]]

\* KafkaSessionEffect::CloseSession.  The first close of an engine names its
\* reason; negotiation and authentication failures reach it as Requested.
EngineUp == {"Opening", "Open", "Draining"}

CloseSession(l, reason, engineReason) ==
    IF l.conn = 0 THEN Fault(l, "Invariant")
    ELSE LET closed == [l EXCEPT !.session = "Closing", !.admitting = FALSE,
                                 !.cause = reason]
         IN  IF l.engine.phase \notin EngineUp THEN closed
             ELSE [closed EXCEPT
                      !.engine = [phase |-> "Closing", reason |-> engineReason],
                      !.events = Append(@, Event("Closing", engineReason))]

Establishing == {"AwaitingTransport", "Negotiating", "Authenticating"}

\* Variant: a session that is still being established ignores the drain.
DrainSessionWhenReady(l) ==
    IF l.session = "Ready"
    THEN [l EXCEPT !.session = "Draining", !.admitting = FALSE,
                   !.engine.phase = IF @ \in EngineUp THEN "Draining" ELSE @]
    ELSE l

\* KafkaSessionInput::BeginDrain with its effect.
DrainSession(l) ==
    CASE l.session \in Establishing -> CloseSession(l, "Requested", "Requested")
      [] l.session = "Ready" ->
            [l EXCEPT !.session = "Draining", !.admitting = FALSE,
                      !.engine.phase = IF @ \in EngineUp THEN "Draining" ELSE @]
      [] OTHER -> l

DrainConnection(l, epoch) ==
    IF l.conn # epoch THEN Fault(l, "Invariant") ELSE DrainSession(l)

Reconnecting(l, effect) ==
    /\ l.broker.phase = "Backoff"
    /\ l.broker.epoch = effect.epoch
    /\ l.broker.timer = effect.timer
    /\ l.broker.deadline = effect.at

RefreshRetrying(l, effect) ==
    /\ RefreshIs(l.broker, effect.epoch, "Backoff")
    /\ l.broker.refresh.timer = effect.timer
    /\ l.broker.refresh.deadline = effect.at

\* A connection attempt that failed at once ends its generation in place.
OpenConnection(l, epoch, dial, jitter) ==
    LET opened == OpenGeneration(l, epoch, dial)
        ended  == EndGeneration(opened, epoch, "Failure", jitter)
    IN  IF opened.fault # "None" \/ opened.conn = epoch
        THEN Doing(opened, NoEffect)
        ELSE Doing(SettlePolicyClose(ended.lane), ended.effect)

\* Timers live in the broker state; their effects only have to agree with it.
CheckTimer(d) ==
    IF \/ d.effect.kind = "ScheduleReconnect" /\ ~Reconnecting(d.lane, d.effect)
       \/ d.effect.kind = "ScheduleEndpointRefreshRetry"
          /\ ~RefreshRetrying(d.lane, d.effect)
    THEN Fault(d.lane, "Invariant") ELSE d.lane

\* interpret_lifecycle_effects
Interpret(d, dial, jitter) ==
    CASE d.lane.fault # "None" -> d.lane
      [] d.lane.fault = "None" /\ d.effect.kind = "OpenConnection" ->
            CheckTimer(OpenConnection(d.lane, d.effect.epoch, dial, jitter))
      [] d.lane.fault = "None" /\ d.effect.kind = "DrainConnection" ->
            DrainConnection(d.lane, d.effect.epoch)
      [] OTHER -> CheckTimer(d)

\* settle_generation_lifecycle
SettleGeneration(l, epoch, reason, jitter) ==
    HostFatal(SettlePolicyClose(
        Interpret(EndGeneration(l, epoch, reason, jitter), "Connects", jitter)))

-------------------------------------------------------------------------------
(* Session progress.                                                         *)

\* mark_generation_ready
MarkReady(l, epoch) ==
    LET ready == Apply(l, ConnectionReady(l.broker, epoch))
    IN  IF ready.lane.fault # "None" THEN ready.lane
        ELSE [ready.lane EXCEPT !.dialer = DialReady(@)]

\* KafkaSessionEffect::SessionReady.  An engine already closing ignores it.
BecomeReady(l) ==
    LET ready == MarkReady([l EXCEPT !.session = "Ready"], l.conn)
    IN  IF ready.fault # "None" \/ l.engine.phase # "Open" THEN ready
        ELSE [ready EXCEPT !.events = Append(@, Event("AdmissionOpened", "None"))]

\* settle_admission_opened
AdmissionOpened(l) ==
    LET ready == IF l.broker.phase = "Connecting" THEN MarkReady(l, l.conn) ELSE l
    IN  [ready EXCEPT !.admitting = ready.broker.phase = "Available"]

\* session_drained_by_engine
SessionDrainedByEngine(l) ==
    IF l.session = "Draining"
    THEN [l EXCEPT !.session = "Closing", !.cause = "Drained"] ELSE l

\* Variant: the reason the engine closed with is taken over the session's own.
EffectiveOfEngine(l, engineReason) == engineReason

\* The session's own reason to close outranks the one the engine reports.
Effective(l, engineReason) == IF l.cause # "None" THEN l.cause ELSE engineReason

\* Variant: the retired connection is not forgotten.
RetireKeepsConnection(l) ==
    [l EXCEPT !.session = "Closed", !.cause = "None",
              !.engine = NoEngine, !.events = <<>>, !.admitting = FALSE,
              !.report = NoReport]

Retire(l) ==
    [l EXCEPT !.session = "Closed", !.cause = "None", !.conn = 0,
              !.engine = NoEngine, !.events = <<>>, !.admitting = FALSE,
              !.report = NoReport]
-------------------------------------------------------------------------------
(* Events of the engine, in the order it published them.                     *)

\* An operation of the session that fails because its connection closed is an
\* outcome, drained ahead of the closing event.  It ends a negotiation; an
\* authentication waits for the close itself.
OperationClosed(l) ==
    IF l.session = "Negotiating" THEN CloseSession(l, "Failure", "Requested") ELSE l

\* settle_event, ConnectionEvent::Closed
Closed(l, reason, jitter) ==
    LET m == IF reason = "Drained" THEN SessionDrainedByEngine(l) ELSE l
    IN  SettleGeneration(Retire(m), l.conn, Effective(m, reason), jitter)

SettleEvent(l, event, jitter) ==
    CASE event.kind = "TransportOpened" ->
            IF l.session = "AwaitingTransport"
            THEN [l EXCEPT !.session = "Negotiating"] ELSE l
      [] event.kind = "OperationClosed" -> OperationClosed(l)
      [] event.kind = "AdmissionOpened" -> AdmissionOpened(l)
      [] event.kind = "Closing" ->
            [IF event.reason = "Drained" THEN SessionDrainedByEngine(l) ELSE l
               EXCEPT !.admitting = FALSE]
      [] event.kind = "Closed" -> Closed(l, event.reason, jitter)

\* recovered_close_reason: the newest close among the events of the report.
RecoveredReason(events) ==
    LET closes == {i \in DOMAIN events : events[i].kind \in {"Closing", "Closed"}}
    IN  IF closes = {} THEN "Failure"
        ELSE events[CHOOSE i \in closes : \A j \in closes : j <= i].reason

\* settle_recovery.  A report that does not permit another connection on the
\* same selector ends the host.
SettleRecovery(l, jitter) ==
    LET admitted == \E i \in DOMAIN l.events : l.events[i].kind = "AdmissionOpened"
        ready == IF admitted /\ l.broker.phase = "Connecting"
                 THEN MarkReady(l, l.report.epoch) ELSE l
        reason == Effective(l, RecoveredReason(l.events))
    IN  CASE ready.fault # "None" -> HostFatal(Retire(ready))
          [] ready.fault = "None" /\ ~l.report.sound ->
                HostFatal(Fault(Retire(ready), "Host"))
          [] OTHER -> SettleGeneration(Retire(ready), l.report.epoch, reason, jitter)

SettlePending(l, jitter) ==
    IF l.report = NoReport THEN l ELSE SettleRecovery(l, jitter)

-------------------------------------------------------------------------------
(* What the properties remember.                                             *)

Waiting == {"Backoff", "Refreshing"}

\* The step from lane l to lane m ends a generation that will be replaced.
Fails(l, m) ==
    /\ m.broker.phase \in Waiting
    /\ l.broker.phase \in Waiting => l.broker.epoch # m.broker.epoch

Opens(l, m) == m.conn # 0 /\ m.conn # l.conn

Remember(l, m, observed) ==
    [failedAt |-> IF Fails(l, m) THEN now ELSE history.failedAt,
     streak   |-> CASE m.broker.phase = "Available" -> 0
                    [] Fails(l, m) -> history.streak + 1
                    [] OTHER -> history.streak,
     opened   |-> IF Opens(l, m) THEN m.conn ELSE history.opened,
     seen     |-> history.seen \cup observed]

Step(m, observed) ==
    /\ lane' = m
    /\ history' = Remember(lane, lane', observed)

Running == lane.fault = "None"

-------------------------------------------------------------------------------
(* The engine (Bornera, external) as the lane observes it.                   *)

EngineStep(phase, reason, published) ==
    /\ Step([lane EXCEPT !.engine = [phase |-> phase, reason |-> reason],
                         !.events = @ \o published], {})
    /\ UNCHANGED <<now, lookups>>

EngineOpens ==
    /\ Running /\ lane.conn # 0 /\ lane.engine.phase = "Opening"
    /\ EngineStep("Open", "None", <<Event("TransportOpened", "None")>>)

\* The connection fails, or an operation deadline or the drain deadline ends it.
EngineLoses ==
    /\ Running /\ lane.conn # 0 /\ lane.engine.phase \in EngineUp
    /\ EngineStep("Closing", "Failure",
            (IF lane.session \in {"Negotiating", "Authenticating"}
             THEN <<Event("OperationClosed", "None")>> ELSE <<>>)
            \o <<Event("Closing", "Failure")>>)

EngineDrains ==
    /\ Running /\ lane.conn # 0 /\ lane.engine.phase = "Draining"
    /\ EngineStep("Closing", "Drained", <<Event("Closing", "Drained")>>)

EngineCloses ==
    /\ Running /\ lane.conn # 0 /\ lane.engine.phase = "Closing"
    /\ EngineStep("Closed", lane.engine.reason,
                  <<Event("Closed", lane.engine.reason)>>)

\* The engine fails under the lane, which captures its recovery report: at a
\* turn, or at any of the calls the session makes on it (capture_recovery).
EngineFails(sound) ==
    /\ Running /\ lane.conn # 0
    /\ Step([lane EXCEPT !.conn = 0, !.admitting = FALSE, !.engine = NoEngine,
                         !.report = [epoch |-> lane.conn, sound |-> sound]], {})
    /\ UNCHANGED <<now, lookups>>

-------------------------------------------------------------------------------
(* Lane steps.                                                               *)

\* drain_engine, one published item at a time.
DrainEngine(jitter) ==
    /\ Running /\ lane.conn # 0 /\ lane.events # <<>>
    /\ Step(HostFatal(SettleEvent([lane EXCEPT !.events = Tail(@)],
                                  Head(lane.events), jitter)), {})
    /\ UNCHANGED <<now, lookups>>

\* A reply or a local outcome advances the session's own exchange, unless that
\* exchange has already been failed with its connection.
ExchangeOpen ==
    /\ Running /\ lane.conn # 0
    /\ \A i \in DOMAIN lane.events : lane.events[i].kind # "OperationClosed"

Negotiated ==
    /\ ExchangeOpen /\ lane.session = "Negotiating"
    /\ \/ Step([lane EXCEPT !.session = "Authenticating"], {})
       \/ Step(HostFatal(BecomeReady(lane)), {})
    /\ UNCHANGED <<now, lookups>>

Authenticated ==
    /\ ExchangeOpen /\ lane.session = "Authenticating"
    /\ Step(HostFatal(BecomeReady(lane)), {})
    /\ UNCHANGED <<now, lookups>>

\* A failed or expired negotiation, and an authentication that timed out or
\* found no local capacity: worth another attempt.
SessionFails ==
    /\ ExchangeOpen /\ lane.session \in {"Negotiating", "Authenticating"}
    /\ Step(HostFatal(CloseSession(lane, "Failure", "Requested")), {})
    /\ UNCHANGED <<now, lookups>>

AuthenticationRejected ==
    /\ ExchangeOpen /\ lane.session = "Authenticating"
    /\ Step(HostFatal(CloseSession(lane, "Rejected", "Requested")), {"Rejected"})
    /\ UNCHANGED <<now, lookups>>

\* A public response fails to decode (settle_public_outcome), so requests had
\* been admitted.
ProtocolFails ==
    /\ Running /\ lane.conn # 0 /\ lane.session \in {"Ready", "Draining"}
    /\ lane.admitting \/ lane.session = "Draining"
    /\ Step(HostFatal(CloseSession(lane, "Failure", "Failure")), {})
    /\ UNCHANGED <<now, lookups>>

SettlePendingRecovery(jitter) ==
    /\ Running /\ lane.report # NoReport
    /\ Step(SettleRecovery(lane, jitter), {})
    /\ UNCHANGED <<now, lookups>>

\* DirectLifecycle::fire_due and fire_due_reconnect
FireDue(b) ==
    IF b.phase = "Backoff" THEN ReconnectElapsed(b, b.epoch, b.timer, now)
    ELSE EndpointRefreshRetryElapsed(b, b.epoch, b.refresh.timer, now)

Due(b) ==
    \/ b.phase = "Backoff" /\ b.deadline <= now
    \/ RefreshIs(b, b.epoch, "Backoff") /\ b.refresh.deadline <= now

FireDueReconnect(dial, jitter) ==
    /\ Running /\ Due(lane.broker)
    /\ Step(HostFatal(Interpret(Apply(lane, FireDue(lane.broker)), dial, jitter)), {})
    /\ UNCHANGED <<now, lookups>>

-------------------------------------------------------------------------------
(* DNS refresh.                                                              *)

RefreshNeeded ==
    /\ Running
    /\ lane.fence # 0
    /\ RefreshIs(lane.broker, lane.fence, "Pending")

\* schedule_direct_address_refresh, once a resolver permit is reserved.
TakeRefresh ==
    /\ RefreshNeeded
    /\ Step(Apply(lane, EndpointRefreshStarted(lane.broker, lane.fence)).lane, {})
    /\ lookups' = Append(lookups, lane.fence)
    /\ UNCHANGED now

\* defer_endpoint_refresh with require_endpoint_refresh.
Defer(l) ==
    IF l.fence # 0 /\ RefreshIs(l.broker, l.fence, "Resolving")
    THEN Apply(l, EndpointRefreshDeferred(l.broker, l.fence)).lane
    ELSE Fault(l, "Invariant")

\* The resolver thread is gone: the lane is restored and the host ends.
ResolverGone ==
    /\ RefreshNeeded
    /\ LET taken == Apply(lane, EndpointRefreshStarted(lane.broker, lane.fence)).lane
           restored == Defer(taken)
       IN  Step(IF restored.fault = "None" THEN Fault(restored, "Host") ELSE restored, {})
    /\ UNCHANGED <<now, lookups>>

\* fail_endpoint_refresh.  NoUsableAddress reserves no retry.
FailRefresh(l, failure, jitter) ==
    LET reserves == failure # "NoUsableAddress" /\ l.timer <= MaxTimer
        schedule == [timer |-> IF reserves THEN l.timer ELSE 0,
                     now |-> now, jitter |-> jitter]
        failed == Apply([l EXCEPT !.timer = IF reserves THEN @ + 1 ELSE @],
                        EndpointRefreshFailed(l.broker, l.fence, failure, schedule))
        released == IF failed.lane.broker.phase = "Closed"
                    THEN [failed.lane EXCEPT !.fence = 0] ELSE failed.lane
    IN  SettlePolicyClose(Interpret(Doing(released, failed.effect), "Connects", jitter))

\* finish_endpoint_refresh
FinishRefresh(l, size, dial, jitter) ==
    LET refreshed == Apply(l, EndpointRefreshed(l.broker, l.fence, now))
        renewed   == [refreshed.lane EXCEPT !.dialer = NewDialer(size), !.fence = 0]
    IN  Interpret(Doing(renewed, refreshed.effect), dial, jitter)

\* The fence checks of complete_endpoint_refresh_outcome.
Fenced(l, epoch) == l.fence = epoch /\ RefreshIs(l.broker, epoch, "Resolving")

Answered(i) == SubSeq(lookups, 1, i - 1) \o SubSeq(lookups, i + 1, Len(lookups))

LateAnswer(i) ==
    /\ Running /\ lane.terminal
    /\ lookups' = Answered(i)
    /\ UNCHANGED <<lane, now, history>>

RefreshSucceeds(i, size, dial, jitter) ==
    /\ Running /\ ~lane.terminal
    /\ Step(HostFatal(IF Fenced(lane, lookups[i])
                      THEN FinishRefresh(lane, size, dial, jitter)
                      ELSE Fault(lane, "Invariant")), {})
    /\ lookups' = Answered(i)
    /\ UNCHANGED now

RefreshFails(i, failure, jitter) ==
    /\ Running /\ ~lane.terminal
    /\ Step(HostFatal(IF Fenced(lane, lookups[i])
                      THEN FailRefresh(lane, failure, jitter)
                      ELSE Fault(lane, "Invariant")),
            IF failure = "NoUsableAddress" THEN {"Unusable"} ELSE {})
    /\ lookups' = Answered(i)
    /\ UNCHANGED now

\* restore_superseded_refresh: the lane's route changed while it resolved.
RefreshSuperseded(i) ==
    /\ Running /\ ~lane.terminal
    /\ Step(HostFatal(IF lane.fence = lookups[i] THEN Defer(lane)
                      ELSE Fault(lane, "Invariant")), {})
    /\ lookups' = Answered(i)
    /\ UNCHANGED now

-------------------------------------------------------------------------------
(* Drain and time.                                                           *)

\* begin_lifecycle_drain
LifecycleDrain(l) ==
    LET t == BeginDrain(l.broker)
        begun == Interpret(Doing([l EXCEPT !.broker = t.state], t.effect), "Connects", 0)
    IN  IF begun.fault = "None" /\ begun.broker.phase = "Closed"
        THEN [begun EXCEPT !.fence = 0, !.terminal = TRUE] ELSE begun

\* begin_session_drain
SessionDrain(jitter) ==
    /\ Running
    /\ LET settled == SettlePending([lane EXCEPT !.admitting = FALSE], jitter)
       IN  Step(HostFatal(IF settled.fault # "None" THEN settled
                          ELSE LifecycleDrain(settled)), {"Asked"})
    /\ UNCHANGED <<now, lookups>>

Tick ==
    /\ Running /\ now < MaxMoment
    /\ now' = now + 1
    /\ UNCHANGED <<lane, lookups, history>>

-------------------------------------------------------------------------------
DialOutcomes == {"Connects", "Refused", "Fatal"}
DnsFailures == {"NameNotFound", "Temporary", "NoUsableAddress"}

\* start_lane: a fatal first attempt creates no lane.
InitialLane(size, dial, jitter) ==
    OpenConnection(NewLane(size), 1, dial, jitter).lane

Init ==
    /\ now = 0
    /\ lookups = <<>>
    /\ \E size \in InitialSizes, dial \in DialOutcomes \ {"Fatal"}, jitter \in Jitters :
          lane = InitialLane(size, dial, jitter)
    /\ history = [failedAt |-> 0, opened |-> lane.conn, seen |-> {},
                  streak |-> IF lane.broker.phase \in Waiting THEN 1 ELSE 0]

EngineSteps ==
    \/ EngineOpens
    \/ EngineLoses
    \/ EngineDrains
    \/ EngineCloses
    \/ \E sound \in BOOLEAN : EngineFails(sound)

SessionSteps == Negotiated \/ Authenticated \/ SessionFails
                  \/ AuthenticationRejected \/ ProtocolFails

Drains == \E jitter \in Jitters : DrainEngine(jitter)
Recovers == \E jitter \in Jitters : SettlePendingRecovery(jitter)
Fires == \E dial \in DialOutcomes, jitter \in Jitters : FireDueReconnect(dial, jitter)

Answers ==
    \E i \in DOMAIN lookups :
        \/ LateAnswer(i)
        \/ \E size \in AddressCounts, dial \in DialOutcomes, jitter \in Jitters :
              RefreshSucceeds(i, size, dial, jitter)
        \/ \E failure \in DnsFailures, jitter \in Jitters :
              RefreshFails(i, failure, jitter)

Supersedes == \E i \in DOMAIN lookups : RefreshSuperseded(i)

Next ==
    \/ EngineSteps
    \/ SessionSteps
    \/ Drains
    \/ Recovers
    \/ Fires
    \/ TakeRefresh
    \/ ResolverGone
    \/ Answers
    \/ Supersedes
    \/ \E jitter \in Jitters : SessionDrain(jitter)
    \/ Tick

Spec == Init /\ [][Next]_vars

\* A turn of the host on this lane, and the states in which one has work.
Turn == Drains \/ Recovers \/ Fires \/ TakeRefresh

TurnDue ==
    /\ Running
    /\ \/ lane.conn # 0 /\ lane.events # <<>>
       \/ lane.report # NoReport
       \/ Due(lane.broker)
       \/ RefreshNeeded

\* Time passes; a closing or draining engine ends by its own deadlines; the host
\* drives every lane with work (weak fairness of Turn, TurnDue being the states
\* that enable it); the resolver answers, and the route of a lane is not
\* replaced under its lookups forever (strong fairness of Answers).
Fairness ==
    /\ WF_vars(Tick)
    /\ WF_vars(EngineDrains \/ EngineCloses)
    /\ <>[]TurnDue => []<><<Turn>>_vars
    /\ []<>(Running /\ lookups # <<>>) => []<><<Answers>>_vars

FairSpec == Spec /\ Fairness

-------------------------------------------------------------------------------
(* Properties.                                                               *)

\* No interleaving of engine events, resolver answers, timers and drain reaches
\* one of the lane's internal-divergence errors ("direct lifecycle rejected a
\* current transition", "... outside a live broker phase", "... opened before
\* retiring its prior generation", "... fence diverged" and their like), each of
\* which would end the whole driver.  A broker phase that names a generation has
\* exactly that generation, connected or captured for recovery; every other
\* phase has none; public requests are admitted only on a connected, ready
\* generation the policy calls available, so that a stale AdmissionOpened event
\* never reopens a lane that is closing or replaced.  The refresh fence exists
\* exactly while the policy is suspended on it, and one DNS request is
\* outstanding exactly while the policy says it is resolving.
GenerationOwned ==
    /\ lane.fault # "Invariant"
    /\ Running =>
        /\ lane.broker.phase \in LivePhases <=> lane.conn + lane.report.epoch # 0
        /\ lane.conn # 0 => lane.conn = lane.broker.epoch /\ lane.report = NoReport
        /\ lane.report # NoReport => lane.report.epoch = lane.broker.epoch
        /\ lane.terminal <=> lane.broker.phase = "Closed"
        /\ lane.admitting =>
               lane.broker.phase = "Available" /\ lane.session = "Ready" /\ lane.conn # 0
        /\ lane.fence = IF lane.broker.phase = "Refreshing"
                        THEN lane.broker.epoch ELSE 0
        /\ Len(lookups) <= 1
        /\ ~lane.terminal =>
              (lookups # <<>> <=> RefreshIs(lane.broker, lane.fence, "Resolving"))

\* The lane turns to DNS exactly when every address of the current answer has
\* failed in a row, not one earlier and not one later.
FullPass ==
    Running /\ ~IsDirect(lane.dialer) =>
        /\ lane.broker.phase = "Refreshing" =>
              lane.dialer.missed = 0..(lane.dialer.size - 1)
        /\ lane.dialer.missed = 0..(lane.dialer.size - 1) =>
              lane.broker.phase \in {"Refreshing", "Closed"}

\* A lane that gives up says why truthfully: it reports a requested close only
\* if its owner asked, a permanent authentication failure only after such a
\* verdict (never for a connection lost while authenticating), and unusable
\* addresses only after the resolver said so.
TruthfulClose ==
    Running /\ lane.broker.phase = "Closed" =>
        /\ lane.broker.reason = "Requested" => "Asked" \in history.seen
        /\ lane.broker.reason = "AuthenticationFailed" => "Rejected" \in history.seen
        /\ lane.broker.reason = "EndpointResolutionFailed" =>
              "Unusable" \in history.seen

\* The deadline of a waiting lane lies within the jittered exponential backoff
\* of its run of consecutive failures, whatever DNS refreshes came between; and
\* a step that opens a connection opens a newer generation than any before, not
\* before that backoff has passed, and never after the owner asked for a drain.
SoundReopen ==
    /\ [](Running /\ lane.broker.phase \in Waiting =>
            /\ lane.broker.retry = history.streak
            /\ lane.broker.deadline \in
                  (history.failedAt + DelayFloor(history.streak))
                  .. (history.failedAt + DelayCap(history.streak)))
    /\ [][Opens(lane, lane') =>
            /\ lane'.conn > history.opened
            /\ now >= history.failedAt + DelayFloor(history.streak)
            /\ "Asked" \notin history.seen]_vars

\* Nothing keeps a lane in between: a drain ends in a terminal lane, and a
\* failed generation is replaced or given up, unless the host ends first.
LaneProgresses ==
    /\ "Asked" \in history.seen ~> (lane.terminal \/ ~Running)
    /\ \A e \in 1..MaxEpoch :
          (lane.broker.phase \in Waiting /\ lane.broker.epoch = e)
              ~> (~Running \/ lane.broker.phase \notin Waiting \/ lane.broker.epoch # e)
===============================================================================
