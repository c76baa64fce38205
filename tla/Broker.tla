-------------------------------- MODULE Broker --------------------------------
(***************************************************************************)
(* The long-lived broker policy above one replaceable connection at a time *)
(* (`BrokerMachine`): which connection generation may exist, when the next *)
(* one may open, and when endpoint evidence must be refreshed first.       *)
(*                                                                         *)
(* The machine is a pure function of its state and one input, so it is     *)
(* written as operators.  Each takes the state b, yields the transition    *)
(* the source returns (next state, the at most one effect, disposition)    *)
(* and is driven by the module that owns the state.                        *)
(***************************************************************************)
EXTENDS Backoff

CONSTANTS
    MaxEpoch,       \* last representable ConnectionEpoch (u64::MAX)
    MaxMoment       \* last representable Moment (u64::MAX nanoseconds)

ASSUME BrokerBounds ==
    /\ MaxEpoch \in Nat \ {0}
    /\ MaxMoment \in Nat

-------------------------------------------------------------------------------
(* State.  A field that the current phase of the source's enum does not      *)
(* carry holds its resting value, so that equal states are equal records.    *)
(* epoch is the named generation: the current one, or the failed one.        *)
(* Retry ordinals are one-based; 0 is the source's None.                     *)

NoRefresh == [stage |-> "None", last |-> 0, timer |-> 0, deadline |-> 0]

At(phase, epoch) ==
    [phase |-> phase, epoch |-> epoch, next |-> 0, retry |-> 0, timer |-> 0,
     deadline |-> 0, refresh |-> NoRefresh, reason |-> "None"]

BrokerNew(epoch) == At("Dormant", epoch)

NoEffect == [kind |-> "None", epoch |-> 0, timer |-> 0, at |-> 0]

Emit(kind, epoch, timer, at) ==
    [kind |-> kind, epoch |-> epoch, timer |-> timer, at |-> at]

Applied(b, effect) ==
    [state |-> b, effect |-> effect, disposition |-> "Applied"]
Ignored(b) ==
    [state |-> b, effect |-> NoEffect, disposition |-> "Ignored"]
IgnoredStale(b) ==
    [state |-> b, effect |-> NoEffect, disposition |-> "IgnoredStale"]

BrokerClose(reason) ==
    Applied([At("Closed", 0) EXCEPT !.reason = reason], NoEffect)

Connect(epoch, retry) ==
    Applied([At("Connecting", epoch) EXCEPT !.retry = retry],
            Emit("OpenConnection", epoch, 0, 0))

BrokerStart(b) ==
    IF b.phase = "Dormant" THEN Connect(b.epoch, 0) ELSE Ignored(b)

ConnectionReady(b, epoch) ==
    IF b.phase = "Connecting" /\ b.epoch = epoch
    THEN Applied(At("Available", epoch), NoEffect)
    ELSE IgnoredStale(b)

ConnectionRejected(b, epoch) ==
    IF b.phase = "Connecting" /\ b.epoch = epoch
    THEN BrokerClose("AuthenticationFailed")
    ELSE IgnoredStale(b)

\* The reconnect input is [timer, now, jitter].  A new ordinal follows the one
\* that created a failed attempt; an available generation starts a new series.
NextRetry(b) == IF b.phase = "Connecting" THEN b.retry + 1 ELSE 1

ScheduleReconnect(b) ==
    Applied(b, Emit("ScheduleReconnect", b.epoch, b.timer, b.deadline))

ConnectionFailed(b, epoch, reconnect) ==
    LET deadline == reconnect.now + Delay(NextRetry(b), reconnect.jitter)
    IN  CASE ~(b.phase \in {"Connecting", "Available"} /\ b.epoch = epoch) ->
                IgnoredStale(b)
          [] NextRetry(b) > MaxRetry -> BrokerClose("RetryExhausted")
          [] epoch + 1 > MaxEpoch    -> BrokerClose("EpochExhausted")
          [] deadline > MaxMoment    -> BrokerClose("ClockOverflow")
          [] OTHER ->
                ScheduleReconnect(
                    [At("Backoff", epoch) EXCEPT
                        !.next = epoch + 1, !.retry = NextRetry(b),
                        !.timer = reconnect.timer, !.deadline = deadline])

\* The same recovery generation, held back until endpoint evidence is fresh.
EndpointExhausted(b, epoch, reconnect) ==
    LET recovery == ConnectionFailed(b, epoch, reconnect)
    IN  IF recovery.effect.kind # "ScheduleReconnect" THEN recovery
        ELSE Applied([recovery.state EXCEPT
                         !.phase = "Refreshing",
                         !.refresh = [NoRefresh EXCEPT !.stage = "Pending"]],
                     NoEffect)

ReconnectElapsed(b, epoch, timer, now) ==
    CASE ~(b.phase = "Backoff" /\ b.epoch = epoch /\ b.timer = timer) ->
            IgnoredStale(b)
      [] now < b.deadline -> ScheduleReconnect(b)
      [] OTHER -> Connect(b.next, b.retry)

-------------------------------------------------------------------------------
(* Endpoint refresh: Pending -> Resolving -> (Backoff ->) Pending ...        *)

RefreshIs(b, epoch, stage) ==
    b.phase = "Refreshing" /\ b.epoch = epoch /\ b.refresh.stage = stage

EndpointRefreshStarted(b, epoch) ==
    IF RefreshIs(b, epoch, "Pending")
    THEN Applied([b EXCEPT !.refresh.stage = "Resolving"], NoEffect)
    ELSE IgnoredStale(b)

EndpointRefreshDeferred(b, epoch) ==
    IF RefreshIs(b, epoch, "Resolving")
    THEN Applied([b EXCEPT !.refresh.stage = "Pending"], NoEffect)
    ELSE IgnoredStale(b)

ScheduleRefreshRetry(b) ==
    Applied(b, Emit("ScheduleEndpointRefreshRetry", b.epoch, b.refresh.timer,
                    b.refresh.deadline))

\* schedule.timer = 0 is the source's None: no retry resources were available.
EndpointRefreshFailed(b, epoch, failure, schedule) ==
    LET retry    == b.refresh.last + 1
        deadline == schedule.now + Delay(retry, schedule.jitter)
    IN  CASE ~RefreshIs(b, epoch, "Resolving") -> IgnoredStale(b)
          [] failure = "NoUsableAddress" -> BrokerClose("EndpointResolutionFailed")
          [] schedule.timer = 0   -> BrokerClose("RetryResourcesUnavailable")
          [] retry > MaxRetry     -> BrokerClose("RetryExhausted")
          [] deadline > MaxMoment -> BrokerClose("ClockOverflow")
          [] OTHER ->
                ScheduleRefreshRetry(
                    [b EXCEPT !.refresh = [stage |-> "Backoff", last |-> retry,
                                           timer |-> schedule.timer,
                                           deadline |-> deadline]])

EndpointRefreshRetryElapsed(b, epoch, timer, now) ==
    CASE ~(RefreshIs(b, epoch, "Backoff") /\ b.refresh.timer = timer) ->
            IgnoredStale(b)
      [] now < b.refresh.deadline -> ScheduleRefreshRetry(b)
      [] OTHER ->
            Applied([b EXCEPT !.refresh = [NoRefresh EXCEPT
                                  !.stage = "Pending", !.last = b.refresh.last]],
                    NoEffect)

\* Variant: fresh addresses forget the backoff that the failure had earned.
EndpointRefreshedAtOnce(b, epoch, now) ==
    IF RefreshIs(b, epoch, "Resolving") THEN Connect(b.next, b.retry)
    ELSE IgnoredStale(b)

\* Fresh addresses never shorten the backoff that the failure had earned.
EndpointRefreshed(b, epoch, now) ==
    CASE ~RefreshIs(b, epoch, "Resolving") -> IgnoredStale(b)
      [] now < b.deadline ->
            ScheduleReconnect([b EXCEPT !.phase = "Backoff",
                                        !.refresh = NoRefresh])
      [] OTHER -> Connect(b.next, b.retry)

-------------------------------------------------------------------------------
(* Shutdown.                                                                 *)

BeginDrain(b) ==
    LET closed == [At("Closed", 0) EXCEPT !.reason = "Requested"]
    IN  CASE b.phase \in {"Connecting", "Available"} ->
                Applied(At("Draining", b.epoch),
                        Emit("DrainConnection", b.epoch, 0, 0))
          [] b.phase = "Backoff" ->
                Applied(closed, Emit("CancelReconnect", 0, b.timer, 0))
          [] b.phase = "Refreshing" /\ b.refresh.stage = "Backoff" ->
                Applied(closed,
                        Emit("CancelEndpointRefreshRetry", 0, b.refresh.timer, 0))
          [] b.phase = "Dormant"
             \/ (b.phase = "Refreshing" /\ b.refresh.stage # "Backoff") ->
                Applied(closed, NoEffect)
          [] OTHER -> Ignored(b)

ConnectionDrained(b, epoch) ==
    IF b.phase = "Draining" /\ b.epoch = epoch
    THEN BrokerClose("Requested")
    ELSE IgnoredStale(b)
===============================================================================
