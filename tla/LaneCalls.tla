------------------------------- MODULE LaneCalls -------------------------------
(* The public calls of one lane (reactor/direct_plaintext): calls that queue     *)
(* until the Kafka session is ready, the semantic context each call leaves       *)
(* behind when the connection engine accepts its frame, and the settlement of    *)
(* every owner when the engine answers, closes, or fails.                        *)
(*                                                                               *)
(* The session and the reconnection of the lane are those of LaneLifecycle seen  *)
(* from outside: a generation is open or not, admits calls or not; when it ends  *)
(* the broker retries, closes or fails.  The engine is the bornera library:      *)
(* what it may answer is a parameter of the action.  Its work happens inside the *)
(* turn that a drive of the lane makes, between PrepareDrive and FinishDrive.    *)
(* A step that returns Err ends the host: lane.fault is set, nothing follows.    *)
EXTENDS Naturals, Sequences, FiniteSets, FiniteSetsExt, SequencesExt, Functions, TLC

CONSTANTS
    Calls,          \* public calls
    Weight,         \* bytes a call retains while it queues, and its context later
    PendingLimit,   \* PendingRequests::count_limit
    PendingBytes,   \* PendingRequests::byte_limit
    ContextLimit,   \* ContextState::max_contexts
    ContextBytes,   \* ContextState::max_retained_bytes
    Budgets,        \* bound: values of DirectLane::submission_budget
    MaxTimeout,     \* bound: time a call has left when it reaches the lane
    StampBudgets    \* bound: positions the causal sequence may still have

ASSUME LaneCallsBounds ==
    /\ Weight \in [Calls -> Nat \ {0}]
    /\ {PendingLimit, PendingBytes, ContextLimit, ContextBytes} \cup Budgets
          \subseteq Nat \ {0}
    /\ MaxTimeout \in Nat /\ StampBudgets \subseteq Nat

VARIABLES
    lane,      \* DirectLane, the engine behind it and what calls were told
    left,      \* time to each call's deadline
    wired,     \* calls of which bytes reached the transport
    turn       \* the turn under way: what prepare_drive left for finish_drive

vars == <<lane, left, wired, turn>>

-------------------------------------------------------------------------------
(* State.  A call is Idle, Held by the lane, or told Replied, NotSent or         *)
(* PossiblySent.  The engine's operations are numbered; an operation that is     *)
(* forgotten gives its number back.                                              *)

Operations == 1 .. Cardinality(Calls)
Empty == <<>>
NoRecovery == [outcomes |-> Empty, ops |-> Empty, reusable |-> FALSE,
               diverged |-> FALSE, captured |-> FALSE]
EngineGone == [phase |-> "None", ops |-> Empty, outcomes |-> Empty, events |-> Empty]
NoTurn == [remaining |-> 0, due |-> FALSE, running |-> FALSE]

NewLane(stamps) ==
    [connected |-> TRUE, admits |-> FALSE, draining |-> FALSE, terminal |-> FALSE,
     runnable |-> TRUE, pending |-> Empty, queued |-> 0,
     published |-> Empty, reserved |-> 0, retained |-> 0, poisoned |-> FALSE,
     engine |-> [EngineGone EXCEPT !.phase = "Opening"], recovery |-> NoRecovery,
     told |-> [c \in Calls |-> "Idle"], stamps |-> stamps, fault |-> FALSE]

Sorted(ops) == SetToSortSeq(ops, LAMBDA a, b : a < b)

Smaller(a, b) == IF a <= b THEN a ELSE b

Weigh(calls) == FoldLeft(LAMBDA sum, c : sum + Weight[c], 0, calls)

-------------------------------------------------------------------------------
(* What a call is told.  A failure that is observed takes a position of the      *)
(* causal sequence; without one the call is told all the same and the handler    *)
(* fails.                                                                        *)

Tell(l, c, report) == [l EXCEPT !.told[c] = report]

Observed(l, c, report) ==
    IF l.stamps = 0 THEN [Tell(l, c, report) EXCEPT !.fault = TRUE]
    ELSE [Tell(l, c, report) EXCEPT !.stamps = @ - 1]

TellAll(l, calls, report, observed) ==
    FoldLeft(LAMBDA a, c : IF observed THEN Observed(a, c, report) ELSE Tell(a, c, report),
             l, calls)

-------------------------------------------------------------------------------
(* OperationContexts: reservations and published contexts under one bound.       *)

Owned(l) == l.reserved + Cardinality(DOMAIN l.published)

CanReserve(l, c) ==
    Owned(l) < ContextLimit /\ l.retained + Weight[c] <= ContextBytes

ReserveContext(l, c) == [l EXCEPT !.reserved = @ + 1, !.retained = @ + Weight[c]]

\* Variant: the aborted reservation keeps its place.
RollbackBytesOnly(l, c) == [l EXCEPT !.retained = @ - Weight[c]]

Rollback(l, c) ==
    IF l.reserved = 0 \/ l.retained < Weight[c] THEN [l EXCEPT !.poisoned = TRUE]
    ELSE [l EXCEPT !.reserved = @ - 1, !.retained = @ - Weight[c]]

\* The engine's operation is not published yet: its numbers are fresh.
PublishReserved(l, op, c) ==
    [l EXCEPT !.reserved = @ - 1, !.published = (op :> c) @@ @]

Release(l, ops) ==
    LET weight == Weigh([i \in 1 .. Cardinality(ops) |-> l.published[Sorted(ops)[i]]])
        kept   == [l EXCEPT !.published = Restrict(@, (DOMAIN @) \ ops)]
    IN  IF l.retained < weight THEN [kept EXCEPT !.poisoned = TRUE]
        ELSE [kept EXCEPT !.retained = @ - weight]

ContextsClear(l) ==
    /\ l.reserved = 0 /\ l.published = Empty
    /\ l.retained = 0 /\ ~l.poisoned

\* DirectLaneAccess::fail_remaining, in key order.
FailRemaining(l, observed) ==
    LET keys  == Sorted(DOMAIN l.published)
        calls == [i \in DOMAIN keys |-> l.published[keys[i]]]
    IN  TellAll(Release(l, DOMAIN l.published), calls, "PossiblySent", observed)

-------------------------------------------------------------------------------
(* PendingRequests: first in, first out, every call with its deadline.           *)

Push(l, c, time) ==
    IF \/ time = 0
       \/ Len(l.pending) = PendingLimit \/ l.queued + Weight[c] > PendingBytes
    THEN Tell(l, c, "NotSent")
    ELSE [Tell(l, c, "Held") EXCEPT !.pending = Append(@, c), !.queued = @ + Weight[c]]

Pop(l) == [l EXCEPT !.pending = Tail(@), !.queued = @ - Weight[Head(l.pending)]]

DueCalls(l) == SelectSeq(l.pending, LAMBDA c : left[c] = 0)

\* The calls one turn expires.
Expired(l, budget) == SubSeq(DueCalls(l), 1, Smaller(budget, Len(DueCalls(l))))

ExpireDue(l, budget) ==
    LET due == Expired(l, budget)
    IN  [TellAll(l, due, "NotSent", FALSE) EXCEPT
            !.pending = SelectSeq(@, LAMBDA c : c \notin ToSet(due)),
            !.queued = @ - Weigh(due)]

FailPending(l, observed) ==
    [TellAll(l, l.pending, "NotSent", observed) EXCEPT
        !.pending = Empty, !.queued = @ - Weigh(l.pending)]

-------------------------------------------------------------------------------
(* Failures that end the host, after every owner the lane holds is settled.      *)


HostFatal(l) ==
    LET closed == [l EXCEPT !.admits = FALSE, !.runnable = FALSE, !.terminal = TRUE]
    IN  [FailPending(FailRemaining(closed, FALSE), FALSE) EXCEPT !.fault = TRUE]

\* generation_invariant_fatal: the engine no longer knows the generation.
InvariantFatal(l, observed) ==
    LET closed == [l EXCEPT !.admits = FALSE, !.runnable = FALSE, !.connected = FALSE,
                            !.engine = EngineGone, !.terminal = TRUE]
    IN  [FailPending(FailRemaining(closed, observed), observed) EXCEPT !.fault = TRUE]

\* The engine hands over what it still owns.
CaptureRecovery(l, kind, diverged) ==
    [l EXCEPT !.connected = FALSE, !.admits = FALSE, !.runnable = FALSE,
        !.engine = EngineGone,
        !.recovery = [outcomes |-> l.engine.outcomes, ops |-> l.engine.ops,
                      reusable |-> kind = "Reusable", diverged |-> diverged,
                      captured |-> TRUE]]

\* recover_failed_generation and abandon_generation; the session's own accesses
\* have no causal sequence at hand.
RecoverWith(l, kind, diverged, observed) ==
    IF kind = "Lost" THEN InvariantFatal(l, observed)
    ELSE CaptureRecovery(l, kind, diverged)

Recover(l, kind, diverged) == RecoverWith(l, kind, diverged, TRUE)

\* An access of the session to its connection (begin_drain, finalize) fails: the
\* engine no longer knows the connection, its owner failed, or it refuses.
AccessFails(l, access, kind) ==
    CASE access = "Stale" -> InvariantFatal(l, FALSE)
      [] access = "Owner" -> RecoverWith(l, kind, FALSE, FALSE)
      [] access = "Refused" -> [l EXCEPT !.fault = TRUE]

\* Outcomes that were drained and not settled go ahead of those handed over.
Prepend(l, outcomes) ==
    IF l.recovery.captured THEN [l EXCEPT !.recovery.outcomes = outcomes \o @] ELSE l

\* map_err(host_fatal): a failure settles whatever the lane still holds.
OrFatal(l) == IF l.fault THEN HostFatal(l) ELSE l

\* The end of a generation as the broker decides it (LaneLifecycle): another
\* one follows, the lane is closed and what waits for it fails, or the decision
\* itself fails (no timer identity is left).  A lane that drains is closed.
SettleLifecycle(l, fate) ==
    IF fate = "Retries" /\ ~l.draining THEN l
    ELSE IF fate = "Fails" /\ ~l.draining THEN HostFatal(l)
    ELSE OrFatal(FailPending([l EXCEPT !.terminal = TRUE, !.runnable = FALSE], TRUE))

\* The engine closes: every operation fails with the delivery it reached, and
\* the closure is announced behind those outcomes.
Delivery(op) == IF op.written THEN "PossiblySent" ELSE "NotSent"

CloseEngine(l) ==
    LET ops    == l.engine.ops
        keys   == Sorted(DOMAIN ops)
        failed == [i \in DOMAIN keys |->
                    [op |-> keys[i], call |-> ops[keys[i]].call, kind |-> "Failed",
                     delivery |-> Delivery(ops[keys[i]])]]
    IN  [l EXCEPT !.engine = [phase |-> "Closed", ops |-> Empty,
                              outcomes |-> @.outcomes \o failed,
                              events |-> Append(@.events, "Closed")]]

-------------------------------------------------------------------------------
(* Outcomes and events of the engine.                                            *)

\* KafkaSessionInput::ProtocolFailed closes the session and the generation.
ProtocolFailed(l, access, kind) ==
    LET closing == [l EXCEPT !.admits = FALSE]
    IN  IF l.engine.phase = "Closed" THEN closing
        ELSE IF access = "Ok" THEN [CloseEngine(closing) EXCEPT !.runnable = TRUE]
        ELSE AccessFails(closing, access, kind)

\* PublicResponseContext::complete: the frame bears the correlation the context
\* is bound to, and decodes.
Completes(o, c) == o.kind = "Reply" /\ o.call = c

\* settle_public_outcome for a context that has been released.
SettlePublic(l, o, c) ==
    IF o.kind = "Failed" THEN Observed(l, c, o.delivery)
    ELSE IF l.stamps > 0 /\ Completes(o, c) THEN Observed(l, c, "Replied")
    ELSE Observed(l, c, "PossiblySent")

\* settle_outcome while the session lives.  An outcome without a context is a
\* divergence of the two owners.
SettleOutcome(l, o, access, kind) ==
    IF o.op \notin DOMAIN l.published THEN Recover(l, kind, TRUE)
    ELSE LET c       == l.published[o.op]
             settled == SettlePublic(Release(l, {o.op}), o, c)
         IN  IF settled.fault \/ o.kind = "Failed" \/ Completes(o, c) THEN settled
             ELSE ProtocolFailed(settled, access, kind)

Stopped(l) == l.fault \/ l.recovery.captured

\* The outcomes collected in one drain; those behind a failure stay unsettled.
DrainOutcomes(l, access, kind) ==
    FoldLeft(LAMBDA a, o :
               IF Stopped(a.lane) THEN [a EXCEPT !.rest = Append(@, o)]
               ELSE [a EXCEPT !.lane = SettleOutcome(@, o, access, kind)],
             [lane |-> [l EXCEPT !.engine.outcomes = Empty, !.engine.events = Empty],
              rest |-> Empty],
             l.engine.outcomes)

\* The generation is retired; a context that was left behind had no owner.
Retire(emptied, diverged, access, fate) ==
    LET gone == [emptied EXCEPT !.connected = FALSE, !.runnable = FALSE,
                                !.engine = EngineGone]
    IN  IF emptied.fault THEN emptied
        ELSE IF access = "Stale" THEN InvariantFatal(emptied, TRUE)
        ELSE IF access # "Ok" THEN [emptied EXCEPT !.fault = TRUE]
        ELSE IF diverged
        THEN [FailPending(gone, TRUE) EXCEPT !.terminal = TRUE, !.fault = TRUE]
        ELSE SettleLifecycle(gone, fate)

\* ConnectionEvent::Closed.
SettleClosed(l, access, fate) ==
    Retire(FailRemaining([l EXCEPT !.admits = FALSE], TRUE), l.published # Empty,
           access, fate)

SettleEvent(l, event, access, fate) ==
    IF event = "Opened" THEN [l EXCEPT !.admits = ~l.draining]
    ELSE SettleClosed(l, access, fate)

DrainEvents(l, events, access, fate) ==
    FoldLeft(LAMBDA a, e : IF Stopped(a) THEN a ELSE SettleEvent(a, e, access, fate),
             l, events)

-------------------------------------------------------------------------------
(* Recovery: every owner the engine handed over is settled with the delivery it  *)
(* reached, then whatever context is left.                                       *)

\* The contexts are exactly those of the owners handed over.
OwnersAgree(l) ==
    DOMAIN l.published =
        {o.op : o \in ToSet(l.recovery.outcomes)} \cup DOMAIN l.recovery.ops

\* Variant: what the engine still owned is reported as never sent.
FailReleasedUnsent(l, op) ==
    IF op \notin DOMAIN l.published THEN l
    ELSE Observed(Release(l, {op}), l.published[op], "NotSent")

FailReleased(l, op) ==
    IF op \notin DOMAIN l.published THEN l
    ELSE Observed(Release(l, {op}), l.published[op], Delivery(l.recovery.ops[op]))

SettleOwners(l) ==
    LET outcomes == FoldLeft(
            LAMBDA a, o : IF o.op \notin DOMAIN a.published THEN a
                          ELSE SettlePublic(Release(a, {o.op}), o, a.published[o.op]),
            l, l.recovery.outcomes)
        ops == FoldLeft(FailReleased, outcomes, Sorted(DOMAIN l.recovery.ops))
    IN  FailRemaining(ops, TRUE)

\* The lane may go on if the owners were settled and agreed (recovery_can_reconnect).
Conclude(settled, agreed, fate) ==
    IF ~settled.fault /\ agreed /\ ContextsClear(settled)
    THEN SettleLifecycle(settled, fate)
    ELSE [FailPending(settled, TRUE) EXCEPT !.terminal = TRUE, !.fault = TRUE]

SettleRecovery(l, fate) ==
    Conclude([SettleOwners([l EXCEPT !.fault = FALSE]) EXCEPT
                 !.recovery = NoRecovery, !.admits = FALSE,
                 !.connected = FALSE, !.runnable = FALSE],
             l.recovery.reusable /\ ~l.recovery.diverged /\ OwnersAgree(l), fate)

SettlePending(l, fate) ==
    IF l.recovery.captured THEN SettleRecovery(l, fate) ELSE l

-------------------------------------------------------------------------------
(* Admission.  `answer` is what the preparation and the engine make of the call: *)
(*   Unavailable  no version is negotiated, or the request cannot be prepared    *)
(*   Refused      reserve or commit rejects it, or its frame cannot be encoded   *)
(*   Failed       the engine's owner failed while it took the call               *)
(*   StaleReserve, StaleCommit   the engine no longer knows the connection       *)
(*   Accepted     the operation is the engine's                                  *)
(*   AcceptedFailed   likewise, and the engine's owner failed                    *)

CanAdmit(l) == ~l.recovery.captured /\ l.connected /\ l.admits

FreshOperation(l) ==
    CHOOSE op \in Operations :
        /\ op \notin DOMAIN l.engine.ops \cup DOMAIN l.published
        /\ \A n \in 1 .. op - 1 : n \in DOMAIN l.engine.ops \cup DOMAIN l.published

CommitPublic(l, c, answer, kind) ==
    LET op       == FreshOperation(l)
        accepted == [PublishReserved(l, op, c) EXCEPT
                        !.engine.ops = (op :> [call |-> c, written |-> FALSE,
                                               known |-> FALSE]) @@ @,
                        !.told[c] = "Held"]
        aborted  == Tell(Rollback(l, c), c, "NotSent")
    IN  CASE answer = "Accepted" -> [accepted EXCEPT !.runnable = TRUE]
          [] answer = "AcceptedFailed" -> Recover(accepted, kind, FALSE)
          [] answer = "Failed" -> Recover(aborted, kind, FALSE)
          [] answer = "StaleReserve" -> InvariantFatal(aborted, TRUE)
          [] answer = "StaleCommit" ->
                InvariantFatal(Observed(Rollback(l, c), c, "NotSent"), TRUE)
          [] OTHER -> aborted

AdmitReady(l, c, time, answer, kind) ==
    IF answer = "Unavailable" \/ time = 0 THEN Tell(l, c, "NotSent")
    ELSE IF l.poisoned THEN Recover(Tell(l, c, "NotSent"), kind, TRUE)
    ELSE IF ~CanReserve(l, c) THEN Tell(l, c, "NotSent")
    ELSE CommitPublic(ReserveContext(l, c), c, answer, kind)

\* Bound: the first admission of a turn meets the given answer, the others are
\* accepted.
AdmitPending(l, budget, answer, kind) ==
    FoldLeft(LAMBDA a, i :
               IF a.pending = Empty \/ Stopped(a) \/ a.terminal THEN a
               ELSE AdmitReady(Pop(a), Head(a.pending), left[Head(a.pending)],
                               IF i = 1 THEN answer ELSE "Accepted", kind),
             l, [i \in 1 .. (IF CanAdmit(l) THEN budget ELSE 0) |-> i])

-------------------------------------------------------------------------------
(* Actions of the host.  A parameter that has no part in a step takes one value.  *)

Answers == {"Unavailable", "Refused", "Failed", "StaleReserve", "StaleCommit",
            "Accepted", "AcceptedFailed"}
Kinds == {"Reusable", "Fatal", "Lost"}
Accesses == {"Ok", "Owner", "Stale", "Refused"}
Dials == {"Connects", "Refused", "Fatal"}
Fates == {"Retries", "Closes", "Fails"}

\* Only a failure of the engine's owner is followed by a recovery.
Failing == {"Failed", "AcceptedFailed"}

\* Between turns, while the host lives.
Running == ~lane.fault /\ ~turn.running

SubmitRequest(c, time, answer, kind) ==
    /\ Running /\ ~lane.draining
    /\ lane.told[c] = "Idle"
    /\ answer \notin Failing => kind = "Reusable"
    /\ ~CanAdmit(lane) => answer = "Accepted"
    /\ left' = [left EXCEPT ![c] = time]
    /\ lane' = IF lane.terminal THEN Tell(lane, c, "NotSent")
               ELSE IF ~CanAdmit(lane) THEN Push(lane, c, time)
               ELSE AdmitReady(lane, c, time, answer, kind)
    /\ UNCHANGED <<wired, turn>>

\* OpenConnection: open_generation, and the end of a generation that is refused
\* at once.  A dial that is Fatal stands for every step of open_generation that
\* fails: the session plan, the addresses, the selector, the epoch.
OpenGeneration(l, dial, fate) ==
    IF ~ContextsClear(l) \/ dial = "Fatal" THEN HostFatal(l)
    ELSE IF dial = "Refused" THEN SettleLifecycle([l EXCEPT !.runnable = FALSE], fate)
    ELSE [l EXCEPT !.connected = TRUE, !.admits = FALSE, !.runnable = TRUE,
                   !.engine = [EngineGone EXCEPT !.phase = "Opening"]]

CanReopen(l) == ~l.connected /\ ~l.recovery.captured /\ ~l.terminal /\ ~l.draining

\* complete_endpoint_refresh_outcome: addresses that arrive open a generation;
\* a resolution that fails leaves the lane as a refused dial does.
CompleteRefresh(dial, fate) ==
    /\ Running /\ CanReopen(lane)
    /\ dial # "Refused" => fate = "Retries"
    /\ lane' = OpenGeneration(lane, dial, fate)
    /\ UNCHANGED <<left, wired, turn>>

\* The budget of a turn may be any of those under study: what holds of it holds
\* of each.  What remains of it beyond the queue makes no difference: nothing is
\* queued during a turn.
PrepareDrive(budget, reopens, dial, fate) ==
    LET waiting == [lane EXCEPT !.runnable = FALSE]
        opened  == IF reopens THEN OpenGeneration(waiting, dial, fate) ELSE waiting
        expired == ExpireDue(opened, budget)
    IN  /\ Running
        /\ reopens => CanReopen(lane)
        /\ ~reopens => dial = "Connects"
        /\ ~lane.recovery.captured /\ dial # "Refused" => fate = "Retries"
        /\ lane' = IF opened.fault THEN opened ELSE SettlePending(expired, fate)
        /\ turn' = IF lane'.fault THEN NoTurn
                   ELSE [remaining |-> Smaller(budget - Len(Expired(opened, budget)),
                                               Len(lane'.pending)),
                         due |-> Len(DueCalls(expired)) > 0, running |-> TRUE]
        /\ UNCHANGED <<left, wired>>

\* Whatever was drained and not settled is settled as a recovery that cannot be
\* reused.
SettleDrained(l, rest) ==
    IF ~l.recovery.captured THEN HostFatal(l)
    ELSE SettlePending(Prepend([l EXCEPT !.recovery.diverged = TRUE], rest), "Retries")

\* totalize_drive_failure.
Totalize(l, rest, kind) ==
    SettleDrained(IF ~l.recovery.captured /\ l.connected THEN Recover(l, kind, TRUE) ELSE l,
                  rest)

\* The turn's result holds the next deadline of the operations it has seen.
Scheduled(l) ==
    [l EXCEPT !.engine.ops = [op \in DOMAIN @ |-> [@[op] EXCEPT !.known = TRUE]]]

Checked(l, rest, kind) == IF l.fault THEN Totalize(l, rest, kind) ELSE l

\* The events follow the outcomes that were settled; a recovery takes the rest.
Publish(drain, events, access, kind, fate) ==
    IF drain.lane.recovery.captured /\ ~drain.lane.fault
    THEN Prepend(drain.lane, drain.rest)
    ELSE Checked(DrainEvents(drain.lane, events, access, fate), drain.rest, kind)

\* drain_engine and, for a failed turn of the engine, totalize_set_failure.
Drained(l, result, access, kind, fate) ==
    CASE ~l.connected -> IF result = "TurnFails" THEN InvariantFatal(l, TRUE) ELSE l
      [] l.connected /\ result = "TurnFails" ->
            SettlePending(Recover(l, kind, FALSE), fate)
      [] l.connected /\ result = "Stale" -> InvariantFatal(l, TRUE)
      [] l.connected /\ result = "OutcomesFail" -> Recover(l, kind, FALSE)
      [] l.connected /\ result = "EventsFail" ->
            Prepend(Recover([l EXCEPT !.engine.outcomes = Empty], kind, FALSE),
                    l.engine.outcomes)
      [] l.connected /\ result = "Done" ->
            Publish(DrainOutcomes(Scheduled(l), access, kind), l.engine.events,
                    access, kind, fate)

\* finish_drive: a held recovery is settled before and after the admission.
Rearm(l) ==
    [l EXCEPT !.runnable = @ \/ (turn.due /\ l.connected /\ ~l.terminal)]

Admitted(l, fate) == IF l.fault THEN l ELSE Rearm(SettlePending(l, fate))

AdmitTurn(l, answer, kind, fate) ==
    IF l.fault \/ l.terminal THEN l
    ELSE Admitted(AdmitPending(l, turn.remaining, answer, kind), fate)

Finished(l, answer, kind, fate) ==
    IF l.fault THEN l ELSE AdmitTurn(SettlePending(l, fate), answer, kind, fate)

Results == {"Done", "TurnFails", "OutcomesFail", "EventsFail", "Stale"}

\* A turn of the engine fires every deadline that has passed.
DueOperations(l) == {op \in DOMAIN l.engine.ops : left[l.engine.ops[op].call] = 0}

\* The drain makes the session finalize its connection, or retires it.
Accessing(l) ==
    \/ \E o \in ToSet(l.engine.outcomes) : o.kind = "Garbled"
    \/ "Closed" \in ToSet(l.engine.events)

\* What a step meets, where it makes a difference.
Met(all, usual, meets) == IF meets THEN all ELSE {usual}

FinishDrive(result, access) ==
    LET retires == result = "Done" /\ "Closed" \in ToSet(lane.engine.events)
        admits  == /\ result = "Done" /\ access = "Ok" /\ ~retires
                   /\ lane.pending # Empty /\ turn.remaining > 0
                   /\ lane.admits \/ "Opened" \in ToSet(lane.engine.events)
        recovers(answer) == \/ result \notin {"Done", "Stale"} \/ access # "Ok"
                            \/ answer \in Failing
                            \/ lane.stamps < Len(lane.engine.outcomes)
        ends(answer, kind) == \/ retires /\ access = "Ok"
                              \/ /\ recovers(answer) /\ kind = "Reusable"
                                 /\ access \in {"Ok", "Owner"}
    IN  /\ turn.running
        /\ result = "Done" => DueOperations(lane) = {}
        /\ result \notin {"Done", "TurnFails"} => lane.connected
        /\ access # "Ok" => result = "Done" /\ Accessing(lane)
        /\ \E answer \in Met(Answers, "Accepted", admits) :
           \E kind \in Met(Kinds, "Reusable", lane.connected /\ recovers(answer)) :
           \E fate \in Met(Fates, "Retries", ends(answer, kind)) :
              lane' = Finished(Drained(lane, result, access, kind, fate),
                               answer, kind, fate)
        /\ turn' = NoTurn
        /\ UNCHANGED <<left, wired>>

\* DirectSetOwner::wait: the selector fails while the host waits on it.
WaitFails(kind) ==
    /\ Running
    /\ lane' = IF lane.connected THEN RecoverWith(lane, kind, FALSE, FALSE)
               ELSE InvariantFatal(lane, FALSE)
    /\ UNCHANGED <<left, wired, turn>>

\* DrainConnection: a ready session lets the engine finish what it owns, one that
\* is being established is closed, one that is closing has nothing to do.
DrainConnection(l, access, kind) ==
    CASE l.engine.phase = "Closed" -> l
      [] l.engine.phase # "Closed" /\ access # "Ok" -> OrFatal(AccessFails(l, access, kind))
      [] l.engine.phase = "Open" /\ access = "Ok" ->
            [l EXCEPT !.engine.phase = "Draining", !.runnable = TRUE]
      [] OTHER -> [CloseEngine(l) EXCEPT !.runnable = TRUE]

\* begin_lifecycle_drain: a lane between generations is closed at once.
DrainLane(l, access, kind) ==
    IF l.connected THEN DrainConnection(l, access, kind)
    ELSE [l EXCEPT !.terminal = TRUE, !.runnable = FALSE]

DrainSettled(l, access, kind) ==
    IF l.fault THEN l
    ELSE DrainLane([FailPending(l, FALSE) EXCEPT !.draining = TRUE], access, kind)

\* begin_session_drain: what waits fails, what the engine owns may finish.
BeginDrain(access, kind, fate) ==
    /\ Running /\ ~lane.draining /\ ~lane.terminal
    /\ ~lane.recovery.captured => fate = "Retries"
    /\ access # "Ok" => lane.connected
    /\ access # "Owner" => kind = "Reusable"
    /\ lane' = DrainSettled(SettlePending([lane EXCEPT !.admits = FALSE], fate),
                            access, kind)
    /\ UNCHANGED <<left, wired, turn>>

Tick ==
    /\ Running
    /\ \E c \in Calls : lane.told[c] = "Held" /\ left[c] > 0
    /\ left' = [c \in Calls |->
                  IF lane.told[c] = "Held" /\ left[c] > 0 THEN left[c] - 1 ELSE left[c]]
    /\ UNCHANGED <<lane, wired, turn>>

-------------------------------------------------------------------------------
(* The engine, inside a turn.                                                    *)

Turning == turn.running /\ lane.connected

EngineOpens ==
    /\ Turning /\ lane.engine.phase = "Opening"
    /\ lane' = [lane EXCEPT !.engine.phase = "Open",
                            !.engine.events = Append(@, "Opened")]
    /\ UNCHANGED <<left, wired, turn>>

EngineWrites(op) ==
    /\ Turning /\ ~lane.engine.ops[op].written
    /\ lane' = [lane EXCEPT !.engine.ops[op].written = TRUE]
    /\ wired' = wired \cup {lane.engine.ops[op].call}
    /\ UNCHANGED <<left, turn>>

\* The operation ends with an outcome for the lane.
Outcome(l, op, kind, delivery) ==
    [l EXCEPT !.engine.ops = Restrict(@, (DOMAIN @) \ {op}),
              !.engine.outcomes = Append(@, [op |-> op, call |-> l.engine.ops[op].call,
                                             kind |-> kind, delivery |-> delivery])]

\* A reply of the broker, or one that does not decode.
EngineReplies(op, kind) ==
    /\ Turning /\ lane.engine.ops[op].written
    /\ lane' = Outcome(lane, op, kind, "PossiblySent")
    /\ UNCHANGED <<left, wired, turn>>

\* A deadline that passes after a possible send closes the connection.
EngineExpires(op) ==
    LET expired == Outcome(lane, op, "Failed", Delivery(lane.engine.ops[op]))
    IN  /\ Turning /\ op \in DueOperations(lane)
        /\ lane' = IF lane.engine.ops[op].written THEN CloseEngine(expired) ELSE expired
        /\ UNCHANGED <<left, wired, turn>>

\* The transport is lost, or the drain ends.
EngineCloses ==
    /\ Turning /\ lane.engine.phase # "Closed"
    /\ lane' = CloseEngine(lane)
    /\ UNCHANGED <<left, wired, turn>>

Init ==
    /\ \E stamps \in StampBudgets : lane = NewLane(stamps)
    /\ left = [c \in Calls |-> 0]
    /\ wired = {}
    /\ turn = NoTurn

Next ==
    \/ \E c \in Calls, time \in 0 .. MaxTimeout, answer \in Answers, kind \in Kinds :
          SubmitRequest(c, time, answer, kind)
    \/ \E dial \in Dials, fate \in Fates : CompleteRefresh(dial, fate)
    \/ \E budget \in Budgets, reopens \in BOOLEAN, dial \in Dials, fate \in Fates :
          PrepareDrive(budget, reopens, dial, fate)
    \/ \E result \in Results, access \in Accesses : FinishDrive(result, access)
    \/ \E kind \in Kinds : WaitFails(kind)
    \/ \E access \in Accesses, kind \in Kinds, fate \in Fates :
          BeginDrain(access, kind, fate)
    \/ Tick
    \/ EngineOpens
    \/ \E op \in DOMAIN lane.engine.ops : EngineWrites(op)
    \/ \E op \in DOMAIN lane.engine.ops, kind \in {"Reply", "Garbled"} :
          EngineReplies(op, kind)
    \/ \E op \in DOMAIN lane.engine.ops : EngineExpires(op)
    \/ EngineCloses

-------------------------------------------------------------------------------
(* When the host drives the lane without being woken from outside.               *)

\* Variant: what a partial drain of the queue leaves behind is not work.
HasLocalWorkIgnoringQueue(l) == ~l.terminal /\ (l.recovery.captured \/ l.runnable)

HasLocalWork(l) ==
    ~l.terminal /\ \/ l.recovery.captured
                   \/ l.runnable
                   \/ l.admits /\ l.pending # Empty

Spec == Init /\ [][Next]_vars

-------------------------------------------------------------------------------
(* Properties.                                                                   *)

\* What the engine and a captured recovery own for the lane: operation to call.
EngineOwns(l) ==
    LET outcomes == ToSet(l.engine.outcomes) \cup ToSet(l.recovery.outcomes)
        live     == {<<op, l.engine.ops[op].call>> : op \in DOMAIN l.engine.ops}
        handed   == {<<op, l.recovery.ops[op].call>> : op \in DOMAIN l.recovery.ops}
    IN  live \cup handed \cup {<<o.op, o.call>> : o \in outcomes}

\* commit_preparation, commit_public and the settlements: whichever step of an
\* admission fails, and however the engine ends, the published contexts are those
\* of the operations the engine or its recovery report still owns, each with its
\* own call; no reservation outlives its handler, and the two byte counters are
\* the weights of what is retained.
ContextsExact ==
    ~lane.fault =>
        /\ {<<op, lane.published[op]>> : op \in DOMAIN lane.published} = EngineOwns(lane)
        /\ lane.reserved = 0 /\ ~lane.poisoned
        /\ lane.retained = MapThenSumSet(LAMBDA op : Weight[lane.published[op]],
                                         DOMAIN lane.published)
        /\ lane.queued = MapThenSumSet(LAMBDA c : Weight[c], ToSet(lane.pending))

\* Delivery::NotSent in a RequestError promises that no byte of the call reached
\* the transport, also when the engine failed, was abandoned or lost its
\* connection in between; a reply is only given for a call that was sent.
TruthfulReport ==
    \A c \in Calls : /\ lane.told[c] = "NotSent" => c \notin wired
                     /\ lane.told[c] = "Replied" => c \in wired


\* DirectSetOwner::has_local_work and next_deadline: between two turns every call
\* the lane holds has something that brings the host back to it without the
\* outside world.  A queued call the session could take is work that is ready,
\* also when the turn's budget ended before it, a failed admission left nothing
\* else to do or a recovery was captured while the host waited; any other queued
\* call has its own deadline, and an operation that of a live engine.
NoLostWakeup ==
    Running =>
        \A c \in Calls : lane.told[c] = "Held" =>
            \/ HasLocalWork(lane)
            \/ c \in ToSet(lane.pending) /\ ~lane.terminal /\ ~CanAdmit(lane)
            \/ /\ lane.connected
               /\ \E op \in DOMAIN lane.engine.ops :
                      lane.engine.ops[op].call = c /\ lane.engine.ops[op].known
===============================================================================
