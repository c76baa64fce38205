------------------------------ MODULE Bootstrap -------------------------------
(***************************************************************************)
(* Discovery of the first broker: `BootstrapMachine` walks the configured  *)
(* endpoints round robin until one resolves, `BootstrapRetryMachine` spaces *)
(* complete failed passes, and `BootstrapOwner` joins the two and numbers  *)
(* the passes.  All three are functions of their state and one input, so   *)
(* they are operators on the owner record b; the module that drives them   *)
(* owns the state.                                                         *)
(***************************************************************************)
EXTENDS Backoff

CONSTANTS
    Endpoints,      \* number of configured bootstrap endpoints
    MaxEpoch,       \* last representable ConnectionEpoch (u64::MAX)
    MaxMoment       \* last representable Moment (u64::MAX nanoseconds)

ASSUME BootstrapBounds ==
    /\ Endpoints \in Nat \ {0}
    /\ MaxEpoch \in Nat \ {0}
    /\ MaxMoment \in Nat

\* Endpoints are named by their index in the configured set.  0 stands for
\* None in nextEpoch, and for the fields a phase does not carry.
Dormant ==
    [phase |-> "Dormant", epoch |-> 0, effect |-> 0, endpoint |-> 0,
     remaining |-> 0]

NewBootstrap ==
    [machine |-> Dormant, cursor |-> 0,
     retry |-> [phase |-> "Ready", ordinal |-> 1, at |-> 0], nextEpoch |-> 2]

\* A transition: the next owner state and the one effect or action it yields.
Yields(b, action) == [state |-> b, action |-> action]

-------------------------------------------------------------------------------
(* BootstrapMachine.                                                         *)

\* BootstrapCursor::select_next feeding the next lookup of one pass.
Select(b, epoch, effect, remaining) ==
    Yields([b EXCEPT
               !.cursor = (@ + 1) % Endpoints,
               !.machine = [phase |-> "Resolving", epoch |-> epoch,
                            effect |-> effect, endpoint |-> b.cursor,
                            remaining |-> remaining]],
           "Resolve")

MachineStart(b, epoch, effect) ==
    IF b.machine.phase # "Dormant" /\ epoch <= b.machine.epoch
    THEN Yields(b, "None")
    ELSE Select(b, epoch, effect, Endpoints - 1)

MachineComplete(b, outcome, retryEffect) ==
    LET m == b.machine
    IN  CASE ~(/\ m.phase = "Resolving"
               /\ outcome.epoch = m.epoch /\ outcome.effect = m.effect) ->
                Yields(b, "None")
          [] outcome.ok ->
                Yields([b EXCEPT !.machine = [Dormant EXCEPT
                            !.phase = "Resolved", !.epoch = m.epoch]], "Resolved")
          [] ~outcome.ok /\ m.remaining = 0 ->
                Yields([b EXCEPT !.machine = [Dormant EXCEPT
                            !.phase = "Exhausted", !.epoch = m.epoch]], "Exhausted")
          [] OTHER -> Select(b, m.epoch, retryEffect, m.remaining - 1)

-------------------------------------------------------------------------------
(* BootstrapRetryMachine.                                                    *)

\* BootstrapOwner::retry_deadline, as the question the host asks of it.
RetryDue(b, now) == b.retry.phase = "Waiting" /\ b.retry.at <= now

RetryExhausted(b, now, jitter) ==
    LET at == now + Delay(b.retry.ordinal, jitter)
    IN  CASE b.retry.phase # "Ready" -> Yields(b, "None")
          [] at > MaxMoment -> Yields(b, "DeadlineOverflow")
          [] OTHER -> Yields([b EXCEPT !.retry.phase = "Waiting", !.retry.at = at],
                             "WaitUntil")

RetrySucceeded(b) ==
    [b EXCEPT !.retry = [phase |-> "Ready", ordinal |-> 1, at |-> 0]]

RetryElapsed(b, now) ==
    CASE b.retry.phase # "Waiting" -> Yields(b, "None")
      [] now < b.retry.at -> Yields(b, "WaitUntil")
      [] OTHER -> Yields([b EXCEPT !.retry =
                             [phase |-> "Ready", at |-> 0,
                              ordinal |-> Least(b.retry.ordinal + 1, MaxRetry)]],
                         "Restart")

-------------------------------------------------------------------------------
(* BootstrapOwner.  Its actions are Resolve, Install, RetryScheduled; None   *)
(* when nothing is due; or the name of the error it returns.                 *)

OwnerInterpret(t) ==
    CASE t.action = "Resolve"  -> t
      [] t.action = "Resolved" -> Yields(RetrySucceeded(t.state), "Install")
      [] OTHER -> Yields(t.state, "UnexpectedEffect")

OwnerComplete(b, outcome, retryEffect, now, jitter) ==
    LET t == MachineComplete(b, outcome, retryEffect)
        r == RetryExhausted(t.state, now, jitter)
    IN  CASE t.action # "Exhausted" -> OwnerInterpret(t)
          [] r.action = "WaitUntil" -> Yields(r.state, "RetryScheduled")
          [] r.action = "DeadlineOverflow" -> r
          [] OTHER -> Yields(r.state, "UnexpectedEffect")

OwnerRestart(b, effect) ==
    LET raw == b.nextEpoch
        t   == MachineStart([b EXCEPT !.nextEpoch =
                                IF raw < MaxEpoch THEN raw + 1 ELSE 0],
                            raw, effect)
    IN  CASE raw = 0 -> Yields(b, "EpochExhausted")
          [] t.action = "Resolve" -> t
          [] OTHER -> Yields(t.state, "UnexpectedEffect")

OwnerRetryElapsed(b, now, effect) ==
    LET t == RetryElapsed(b, now)
    IN  IF t.action = "Restart" THEN OwnerRestart(t.state, effect)
        ELSE Yields(t.state, "None")

OwnerStart(effect) == OwnerInterpret(MachineStart(NewBootstrap, 1, effect))
===============================================================================
