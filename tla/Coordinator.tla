----------------------------- MODULE Coordinator ------------------------------
(***************************************************************************)
(* Discovery policy for one coordinator key (`CoordinatorMachine`): the    *)
(* last successful route, at most one discovery in flight, bounded retries *)
(* of a transient rejection, and the causal withdrawal of a failed route.  *)
(*                                                                         *)
(* The machine is a pure function of its state and one input, so it is     *)
(* written as operators that yield the transition the source returns: the  *)
(* next state, the at most one effect, and the disposition.                *)
(***************************************************************************)
EXTENDS Integers

CONSTANTS
    Targets,        \* what a discovery may answer: (BrokerId, BrokerEndpoint)
    NoTarget,       \* the target field of an absent route or revocation
    MaxEpoch,       \* last representable CoordinatorEpoch (u64::MAX)
    MaxMoment,      \* last representable Moment (u64::MAX nanoseconds)
    RetryBackoff,   \* DISCOVERY_RETRY_BACKOFF
    MaxRetries      \* MAX_DISCOVERY_RETRIES

ASSUME CoordinatorBounds ==
    /\ NoTarget \notin Targets
    /\ MaxEpoch \in Nat \ {0}
    /\ MaxMoment \in Nat
    /\ RetryBackoff \in Nat \ {0}
    /\ MaxRetries \in Nat

-------------------------------------------------------------------------------
(* State.  A field that the current phase of the source's enum does not      *)
(* carry holds its resting value.  epoch is next_epoch of Unknown and        *)
(* target_epoch of Discovering and Retrying; Ready keeps it in its route.    *)

\* The key of a route is the key of its machine.
Route(target, epoch, evidence) ==
    [target |-> target, epoch |-> epoch, evidence |-> evidence]
NoRoute == Route(NoTarget, 0, 0)

NoRevocation == [target |-> NoTarget, after |-> 0]

Phases == {"Unknown", "Discovering", "Retrying", "Ready"}
Followups == {"None", "Refresh", "Revocation"}

Unknown(epoch) ==
    [phase |-> "Unknown", current |-> NoRoute, op |-> 0, epoch |-> epoch,
     followup |-> "None", retries |-> 0, at |-> 0, revocation |-> NoRevocation]

CoordinatorNew == Unknown(1)

Ready(m, route) ==
    [Unknown(0) EXCEPT !.phase = "Ready", !.current = route,
                       !.revocation = m.revocation]

\* A route is current in every phase but Unknown, also during rediscovery.
Current(m) == m.current
InDiscovery(m) == m.phase \in {"Discovering", "Retrying"}
RevocationPending(m, route) == m.revocation.target = route.target

-------------------------------------------------------------------------------
(* Transitions.                                                              *)

NoEffect == [kind |-> "None", op |-> 0, epoch |-> 0, at |-> 0]
Find(op, epoch) == [kind |-> "Find", op |-> op, epoch |-> epoch, at |-> 0]
WaitUntil(m) == [kind |-> "WaitUntil", op |-> m.op, epoch |-> m.epoch, at |-> m.at]

Transition(m, effect, disposition) ==
    [machine |-> m, effect |-> effect, disposition |-> disposition]

Applied(m)   == Transition(m, NoEffect, "Applied")
Known(m)     == Transition(m, NoEffect, "AlreadyKnown")
Coalesced(m) == Transition(m, NoEffect, "Coalesced")
Queued(m)    == Transition(m, NoEffect, "RefreshQueued")
Stale(m)     == Transition(m, NoEffect, "IgnoredStale")
Wait(m)      == Transition(m, WaitUntil(m), "Applied")
Exhausted(m) == Transition(m, [NoEffect EXCEPT !.kind = "EpochExhausted"],
                           "Applied")

Start(m, current, op, epoch) ==
    Transition([Unknown(epoch) EXCEPT !.phase = "Discovering",
                    !.current = current, !.op = op, !.revocation = m.revocation],
               Find(op, epoch), "Applied")

-------------------------------------------------------------------------------
(* Demand: resolution, explicit refresh, and the withdrawal of a route.      *)

Resolve(m, op) ==
    CASE m.phase = "Unknown" -> Start(m, NoRoute, op, m.epoch)
      [] InDiscovery(m)      -> Coalesced(m)
      [] m.phase = "Ready"   -> Known(m)

Refresh(m, op) ==
    CASE InDiscovery(m) /\ m.followup # "None" -> Coalesced(m)
      [] InDiscovery(m) /\ m.followup = "None" ->
            Queued([m EXCEPT !.followup = "Refresh"])
      [] m.phase = "Unknown" -> Start(m, NoRoute, op, m.epoch)
      [] m.phase = "Ready" ->
            IF m.current.epoch = MaxEpoch THEN Exhausted(m)
            ELSE Start(m, m.current, op, m.current.epoch + 1)

\* The active discovery can no longer install what it returns.
SupersedeDiscovery(m, revocation) ==
    LET withdrawn == [m EXCEPT !.current = NoRoute, !.followup = "Revocation",
                               !.revocation = revocation]
    IN  IF m.followup = "Revocation" THEN Coalesced(withdrawn)
        ELSE Queued(withdrawn)

\* A failure observed on a route does not reach a route another target serves,
\* nor one whose evidence is already later than the failure.
Refuted(m, target, observed) ==
    m.current.target = target /\ m.current.evidence <= observed

Invalidate(m, target, observed, op) ==
    LET revocation == [target |-> target, after |-> observed]
    IN  CASE m.revocation.target = target ->
                IF observed <= m.revocation.after THEN Coalesced(m)
                ELSE Refresh([m EXCEPT !.revocation = revocation], op)
          [] m.revocation.target # target /\ ~Refuted(m, target, observed) -> Stale(m)
          [] m.revocation.target # target /\ Refuted(m, target, observed) ->
                IF InDiscovery(m) THEN SupersedeDiscovery(m, revocation)
                ELSE IF m.current.epoch = MaxEpoch THEN Exhausted(m)
                ELSE Start([m EXCEPT !.revocation = revocation], NoRoute, op,
                           m.current.epoch + 1)

\* Withdrawal without an observed failure compares the whole route.
Withdraw(m, route, op) ==
    CASE m.phase = "Unknown" \/ m.current # route -> Stale(m)
      [] m.phase = "Ready" /\ m.current = route ->
            IF route.epoch = MaxEpoch THEN Exhausted(m)
            ELSE Start(m, NoRoute, op, route.epoch + 1)
      [] InDiscovery(m) /\ m.current = route -> SupersedeDiscovery(m, m.revocation)

-------------------------------------------------------------------------------
(* Outcomes of the one discovery the machine owns.                           *)

Owns(m, op, epoch) == m.op = op /\ m.epoch = epoch

\* Variant: an answer is installed whenever it was asked for, however early.
AcceptsAny(revocation, evidence) == TRUE

\* CoordinatorRevocation::accepts
Accepts(revocation, evidence) == evidence > revocation.after

\* Variant: the followup reuses the epoch of the answer it supersedes.
ContinueSameEpoch(m, route, op) ==
    LET kept == IF m.followup = "Refresh" THEN route ELSE NoRoute
    IN  Start(m, kept, op, m.epoch)

\* The outcome of a discovery whose answer a queued followup supersedes.
Continue(m, route, op) ==
    LET kept == IF m.followup = "Refresh" THEN route ELSE NoRoute
    IN  IF m.epoch < MaxEpoch THEN Start(m, kept, op, m.epoch + 1)
        ELSE IF m.followup = "Refresh" THEN Exhausted(Ready(m, route))
        ELSE Exhausted([Unknown(m.epoch) EXCEPT !.revocation = m.revocation])

Succeed(m, op, epoch, target, evidence, next) ==
    LET route    == Route(target, m.epoch, evidence)
        cleared  == [m EXCEPT !.revocation = NoRevocation]
        revoked  == m.revocation # NoRevocation
    IN  CASE m.phase # "Discovering" \/ ~Owns(m, op, epoch) -> Stale(m)
          [] m.phase = "Discovering" /\ Owns(m, op, epoch) ->
                IF revoked /\ ~Accepts(m.revocation, evidence)
                THEN IF m.epoch = MaxEpoch THEN Exhausted(Unknown(m.epoch))
                     ELSE Start(m, NoRoute, next, m.epoch + 1)
                ELSE IF m.followup = "None" \/ (revoked /\ m.followup = "Revocation")
                THEN Applied(Ready(cleared, route))
                ELSE Continue(cleared, route, next)

Fail(m, op, epoch, next) ==
    CASE ~InDiscovery(m) \/ ~Owns(m, op, epoch) -> Stale(m)
      [] InDiscovery(m) /\ Owns(m, op, epoch) ->
            CASE m.followup = "Refresh" -> Start(m, m.current, next, m.epoch)
              [] m.followup = "Revocation" -> Start(m, NoRoute, next, m.epoch)
              [] m.followup = "None" ->
                    IF m.revocation = NoRevocation /\ m.current # NoRoute
                    THEN Applied(Ready(m, m.current))
                    ELSE Applied(Unknown(m.epoch))

-------------------------------------------------------------------------------
(* Bounded retry of a transient rejection.                                   *)

Reject(m, op, epoch, now, next) ==
    CASE m.phase # "Discovering" \/ ~Owns(m, op, epoch) -> Stale(m)
      [] m.phase = "Discovering" /\ Owns(m, op, epoch) ->
            IF m.retries + 1 > MaxRetries \/ now + RetryBackoff > MaxMoment
            THEN Fail(m, op, epoch, next)
            ELSE Wait([m EXCEPT !.phase = "Retrying", !.retries = @ + 1,
                                !.at = now + RetryBackoff])

RetryElapsed(m, op, epoch, now, next) ==
    CASE m.phase # "Retrying" \/ ~Owns(m, op, epoch) -> Stale(m)
      [] m.phase = "Retrying" /\ Owns(m, op, epoch) ->
            IF now < m.at THEN Wait(m)
            ELSE Transition([m EXCEPT !.phase = "Discovering", !.op = next, !.at = 0],
                            Find(next, m.epoch), "Applied")
===============================================================================
