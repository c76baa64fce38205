----------------------------- MODULE Connection -----------------------------
(***************************************************************************)
(* The policy machine of one connection epoch (kafka-driver-core,          *)
(* connection/): transport opening, ApiVersions negotiation, SASL, the     *)
(* bounded FIFO of calls awaiting a response, draining and closing.        *)
(*                                                                         *)
(* Every input of ConnectionInput is an action and may arrive at any time. *)
(* A machine owns one epoch and one transport; an input that names another *)
(* one, or an identity the machine does not hold, is answered stale and    *)
(* changes nothing, which here is the absence of a step.                   *)
(*                                                                         *)
(* The effects a transition returns are applied in order to the variables  *)
(* of the second group: timers scheduled and cancelled, calls completed    *)
(* and failed.  adm and handed are history.                                *)
(***************************************************************************)
EXTENDS KafkaSession, Sequences

CONSTANTS
  Calls,               \* call identities; each is submitted at most once
  Effects,             \* effect identities the driver hands out and reuses
  Timers,              \* timer identities the driver hands out and reuses
  MaxInFlight,         \* ConnectionLimits::max_in_flight
  MaxCorrelation,      \* the largest correlation id, i32::MAX in the code
  MaxMoment,           \* bound on the driver clock
  TransportFailures    \* TransportFailure values the model distinguishes

ASSUME IdentityAssumption ==
  NoId \notin (Calls \cup Effects \cup Timers)

ASSUME MaxInFlightAssumption == MaxInFlight \in Nat \ {0}

ASSUME MaxCorrelationAssumption == MaxCorrelation \in Nat

ASSUME MaxMomentAssumption == MaxMoment \in Nat

ASSUME TransportFailuresAssumption == "TimedOut" \in TransportFailures

VARIABLES
  phase,        \* the StateData variant; Active is split into its two modes
  reason,       \* CloseReason of Closing and Closed
  stage,        \* effect, timer and deadline of Opening and Negotiating
  auth,         \* the AuthenticationMachine owned by Authenticating
  session,      \* the KafkaSessionMachine
  pending,      \* PendingQueue of an active connection
  nextCorr,     \* CorrelationAllocator::next

  now,          \* the driver clock
  armed,        \* timers scheduled and neither fired nor cancelled
  outcome,      \* how each call was settled towards its submitter
  adm,          \* order in which a call was admitted, 0 if it was not
  admissions,   \* how many calls were admitted
  handed        \* calls whose frame the transport writer accepted

machine == <<phase, reason, stage, auth, session, pending, nextCorr>>
history == <<outcome, adm, admissions, handed>>
vars == <<machine, now, armed, history>>

Moments == 0..MaxMoment
Correlations == 0..MaxCorrelation
Phases == {"Dormant", "Opening", "Negotiating", "Authenticating", "Ready",
           "Draining", "Closing", "Closed"}
Active == {"Ready", "Draining"}
Over == {"Closing", "Closed"}
NoStage == [effect |-> NoId, timer |-> NoId, deadline |-> 0]
NoOutcome ==
  [kind |-> "None", failure |-> NoFailure, reason |-> NoReason,
   delivery |-> "NotSent"]
Completed == [NoOutcome EXCEPT !.kind = "Completed", !.delivery = "PossiblySent"]
Failed(f, r, dl) ==
  [kind |-> "Failed", failure |-> f, reason |-> r, delivery |-> dl]

PendingCalls == {pending[i].call : i \in DOMAIN pending}
PendingTimers == {pending[i].timer : i \in DOMAIN pending}
CorrelationInUse(k) == \E i \in DOMAIN pending : pending[i].corr = k

\* Variant: the delivery knowledge is lost when a call is failed.
DeliveryForgotten(c) == "NotSent"

\* Delivery knowledge of a pending call.
DeliveryOf(c) ==
  IF \E i \in DOMAIN pending :
       pending[i].call = c /\ pending[i].delivery = "PossiblySent"
    THEN "PossiblySent" ELSE "NotSent"

Init ==
  /\ phase = "Dormant"
  /\ reason = NoReason
  /\ stage = NoStage
  /\ auth = AuthDormant
  /\ session = SessionInitial
  /\ pending = <<>>
  /\ nextCorr = 0
  /\ now = 0
  /\ armed = {}
  /\ outcome = [c \in Calls |-> NoOutcome]
  /\ adm = [c \in Calls |-> 0]
  /\ admissions = 0
  /\ handed = {}

(***************************************************************************)
(* Leaving a state.  A stage or an active connection is dropped with it.   *)
(***************************************************************************)

\* Leaves a stage that holds no call; cancelled is the set of timers the
\* transition's effects cancel.
LeaveStage(to, kind, cause, cancelled) ==
  /\ phase' = to
  /\ reason' = Reason(kind, cause)
  /\ stage' = NoStage
  /\ auth' = AuthDormant
  /\ armed' = armed \ cancelled
  /\ UNCHANGED <<pending, nextCorr, now, history>>

\* begin_active_close and finish_active_close with append_failures: every
\* pending call is failed, one of them (culprit) with a failure of its own.
LeaveActive(to, kind, cause, culprit, failure) ==
  LET r == Reason(kind, cause)
  IN  /\ phase' = to
      /\ reason' = r
      /\ outcome' = [c \in Calls |->
           IF c \notin PendingCalls THEN outcome[c]
           ELSE IF c = culprit THEN Failed(failure, NoReason, DeliveryOf(c))
           ELSE Failed("ConnectionClosed", r, DeliveryOf(c))]
      /\ armed' = armed \ PendingTimers
      /\ pending' = <<>>
      /\ nextCorr' = 0
      /\ UNCHANGED <<stage, auth, now, adm, admissions, handed>>

\* ActiveConnection::new in mode Ready.
BecomeReady(cancelled) ==
  /\ phase' = "Ready"
  /\ stage' = NoStage
  /\ auth' = AuthDormant
  /\ armed' = armed \ cancelled
  /\ UNCHANGED <<reason, pending, nextCorr, now, history>>

(***************************************************************************)
(* Opening the transport.                                                  *)
(***************************************************************************)

Start(e, t, d) ==
  /\ phase = "Dormant"
  /\ phase' = "Opening"
  /\ stage' = [effect |-> e, timer |-> t, deadline |-> d]
  /\ armed' = armed \cup {t}
  /\ UNCHANGED <<reason, auth, session, pending, nextCorr, now, history>>

\* Variant: the open deadline is cancelled after the next one is scheduled.
TransportOpenedCancelLast(e, e2, t, d) ==
  /\ phase = "Opening" /\ stage.effect = e
  /\ session' = SessionTransportOpened(session, now, d)
  /\ d > now
  /\ phase' = "Negotiating"
  /\ stage' = [effect |-> e2, timer |-> t, deadline |-> d]
  /\ armed' = (armed \cup {t}) \ {stage.timer}
  /\ UNCHANGED <<reason, auth, pending, nextCorr, now, history>>

\* begin_negotiation, with the cancellation of the open deadline put in
\* front of its effects.
TransportOpened(e, e2, t, d) ==
  /\ phase = "Opening" /\ stage.effect = e
  /\ session.phase = "AwaitingTransport"
  /\ session' = SessionTransportOpened(session, now, d)
  /\ IF d <= now
       THEN LeaveStage("Closing", "NegotiationFailed", "Timeout", {stage.timer})
       ELSE /\ phase' = "Negotiating"
            /\ stage' = [effect |-> e2, timer |-> t, deadline |-> d]
            /\ armed' = (armed \ {stage.timer}) \cup {t}
            /\ UNCHANGED <<reason, auth, pending, nextCorr, now, history>>

\* The session is not told that the transport never opened.
TransportOpenFailed(e, f) ==
  /\ phase = "Opening" /\ stage.effect = e
  /\ LeaveStage("Closed", "OpenFailed", f, {stage.timer})
  /\ UNCHANGED session

\* A timer that fired before its deadline is scheduled again.
OpenDeadlineElapsed(t) ==
  /\ phase = "Opening" /\ stage.timer = t
  /\ UNCHANGED session
  /\ IF now < stage.deadline
       THEN /\ armed' = (armed \ {t}) \cup {t}
            /\ UNCHANGED <<phase, reason, stage, auth, pending, nextCorr, now,
                           history>>
       ELSE LeaveStage("Closing", "OpenFailed", "TimedOut", {t})

(***************************************************************************)
(* Negotiating the API versions.                                           *)
(***************************************************************************)

\* The stage and the session both wait for the answer to effect e.
AwaitsApiVersions(e) ==
  /\ phase = "Negotiating" /\ stage.effect = e
  /\ session.phase = "Negotiating"

\* finish_negotiation_failure.
NegotiationFailed(f) ==
  LeaveStage("Closing", "NegotiationFailed", f, {stage.timer})

\* finish_authentication_setup_failure.
AuthenticationSetupFailed(f) ==
  LeaveStage("Closing", "AuthenticationFailed", f, {stage.timer})

ApiVersionsNegotiated(e, caps) ==
  /\ AwaitsApiVersions(e)
  /\ session' = SessionApiVersionsSucceeded(session, caps)
  /\ \/ caps.len > MaxCapabilities /\ NegotiationFailed("Capacity")
     \/ /\ caps.len <= MaxCapabilities /\ HasPolicy
        /\ AuthenticationSetupFailed("Protocol")
     \/ /\ caps.len <= MaxCapabilities /\ ~HasPolicy
        /\ BecomeReady({stage.timer})

ApiVersionsFailed(e, f) ==
  /\ AwaitsApiVersions(e)
  /\ session' = SessionApiVersionsFailed(session, f)
  /\ NegotiationFailed(f)

NegotiationDeadlineElapsed(t) ==
  /\ phase = "Negotiating" /\ stage.timer = t
  /\ SessionTakesDeadline(session)
  /\ session' = SessionDeadlineElapsed(session, now)
  /\ IF now < stage.deadline
       THEN /\ armed' = (armed \ {t}) \cup {t}
            /\ UNCHANGED <<phase, reason, stage, auth, pending, nextCorr, now,
                           history>>
       ELSE LeaveStage("Closing", "NegotiationFailed", "Timeout", {t})

(***************************************************************************)
(* Authenticating.                                                         *)
(***************************************************************************)

\* begin_authentication: the child is started, and kept unless it failed.
ApiVersionsNegotiatedWithAuthentication(e, caps, e2, t, d) ==
  LET child == AuthStart(e2, t, now, d)
  IN  /\ AwaitsApiVersions(e)
      /\ session' = SessionApiVersionsWithAuthentication(session, caps, now, d)
      /\ \/ caps.len > MaxCapabilities /\ NegotiationFailed("Capacity")
         \/ /\ caps.len <= MaxCapabilities /\ ~(HasPolicy /\ caps.sasl)
            /\ AuthenticationSetupFailed("Protocol")
         \/ /\ caps.len <= MaxCapabilities /\ HasPolicy /\ caps.sasl
            /\ child.stage = "Failed"
            /\ AuthenticationSetupFailed(child.failure)
         \/ /\ caps.len <= MaxCapabilities /\ HasPolicy /\ caps.sasl
            /\ child.stage = "Handshaking"
            /\ phase' = "Authenticating"
            /\ auth' = child
            /\ stage' = NoStage
            /\ armed' = (armed \ {stage.timer}) \cup {t}
            /\ UNCHANGED <<reason, pending, nextCorr, now, history>>

\* authentication_input after the child took the input: what the connection
\* does depends on the state the child has reached.
FollowChild(child) ==
  \/ child.stage = "Succeeded" /\ BecomeReady({child.timer})
  \/ /\ child.stage = "Failed"
     /\ LeaveStage("Closing", "AuthenticationFailed", child.failure,
                   {child.timer})
  \/ /\ AuthTimed(child)
     /\ auth' = child
     /\ UNCHANGED <<phase, reason, stage, pending, nextCorr, now, armed,
                    history>>

HandshakeAccepted(e) ==
  /\ phase = "Authenticating"
  /\ auth.stage = "Handshaking" /\ auth.effect = e
  /\ session' = SessionHandshakeSucceeded(session)
  /\ FollowChild(AuthHandshakeAccepted(auth))

HandshakeFailed(e, f) ==
  /\ phase = "Authenticating"
  /\ auth.stage = "Handshaking" /\ auth.effect = e
  /\ session' = SessionAuthenticationFailed(session, f)
  /\ FollowChild(AuthFail(auth, f))

ExchangeContinued(e, r) ==
  /\ phase = "Authenticating" /\ AuthAwaitsRound(auth, e, r)
  /\ session' = SessionExchangeContinued(session, r)
  /\ FollowChild(AuthContinue(auth))

ExchangeSucceeded(e, r) ==
  /\ phase = "Authenticating" /\ AuthAwaitsRound(auth, e, r)
  /\ session' = SessionExchangeSucceeded(session, r)
  /\ FollowChild(AuthSucceed(auth))

ExchangeFailed(e, r, f) ==
  /\ phase = "Authenticating" /\ AuthAwaitsRound(auth, e, r)
  /\ session' = SessionExchangeFailed(session, r, f)
  /\ FollowChild(AuthFail(auth, f))

AuthenticationDeadlineElapsed(t) ==
  /\ phase = "Authenticating" /\ AuthTimed(auth) /\ auth.timer = t
  /\ session' = SessionDeadlineElapsed(session, now)
  /\ IF now < auth.deadline
       THEN /\ armed' = (armed \ {t}) \cup {t}
            /\ UNCHANGED <<phase, reason, stage, auth, pending, nextCorr, now,
                           history>>
       ELSE FollowChild(AuthFail(auth, "Timeout"))

(***************************************************************************)
(* Calls on an active connection.                                          *)
(***************************************************************************)

\* failure_for_closed_state, and the reason a ConnectionClosed carries.
FailureForClosedState ==
  CASE phase = "Draining" -> "Draining"
    [] phase \in Over -> "ConnectionClosed"
    [] OTHER -> "NotReady"

\* The early returns of submit that fail the call, in their order.
SubmitRefusal(d) ==
  CASE phase # "Ready" -> FailureForClosedState
    [] phase = "Ready" /\ d <= now -> "DeadlineExceeded"
    [] phase = "Ready" /\ d > now /\ Len(pending) >= MaxInFlight ->
         "CapacityReached"
    [] OTHER -> NoFailure

\* The caller hands in a call for the first time.
Fresh(c) == outcome[c] = NoOutcome /\ adm[c] = 0

SubmitRefused(c, d) ==
  /\ Fresh(c)
  /\ SubmitRefusal(d) # NoFailure
  /\ outcome' = [outcome EXCEPT ![c] = Failed(SubmitRefusal(d), reason, "NotSent")]
  /\ UNCHANGED <<machine, now, armed, adm, admissions, handed>>

\* has_identities: a conflicting submission is an error and changes nothing.
IdentitiesFree(e, t) ==
  \A i \in DOMAIN pending : pending[i].effect # e /\ pending[i].timer # t

Candidate(k) == (nextCorr + k) % (MaxCorrelation + 1)

\* Variant: the next candidate is taken without asking whether it is in use.
FirstFreeUnchecked(k) == k = 0

\* CorrelationAllocator::allocate tries one candidate more than are in use;
\* k is the first one that is free.
FirstFree(k) ==
  /\ ~CorrelationInUse(Candidate(k))
  /\ \A j \in 0..(k - 1) : CorrelationInUse(Candidate(j))

SubmitAdmitted(c, e, t, d) ==
  /\ Fresh(c)
  /\ SubmitRefusal(d) = NoFailure
  /\ IdentitiesFree(e, t)
  /\ \E k \in 0..Len(pending) :
       /\ FirstFree(k)
       /\ pending' = Append(pending,
            [call |-> c, corr |-> Candidate(k), effect |-> e, timer |-> t,
             deadline |-> d, delivery |-> "NotSent", phase |-> "AwaitingWrite"])
       /\ nextCorr' = Candidate(k + 1)
  /\ armed' = armed \cup {t}
  /\ adm' = [adm EXCEPT ![c] = admissions + 1]
  /\ admissions' = admissions + 1
  /\ UNCHANGED <<phase, reason, stage, auth, session, now, outcome, handed>>

\* Every candidate is in use; the allocator has still moved past them.
SubmitExhausted(c, e, t, d) ==
  /\ Fresh(c)
  /\ SubmitRefusal(d) = NoFailure
  /\ IdentitiesFree(e, t)
  /\ \A k \in 0..Len(pending) : CorrelationInUse(Candidate(k))
  /\ nextCorr' = Candidate(Len(pending) + 1)
  /\ outcome' = [outcome EXCEPT ![c] =
       Failed("CorrelationSpaceExhausted", NoReason, "NotSent")]
  /\ UNCHANGED <<phase, reason, stage, auth, session, pending, now, armed, adm,
                 admissions, handed>>

\* The writer accepted the complete frame (mark_submitted).
WriteSubmitted(i) ==
  /\ phase \in Active
  /\ pending[i].phase = "AwaitingWrite"
  /\ pending' = [pending EXCEPT ![i].phase = "AwaitingResponse",
                                ![i].delivery = "PossiblySent"]
  /\ handed' = handed \cup {pending[i].call}
  /\ UNCHANGED <<phase, reason, stage, auth, session, nextCorr, now, armed,
                 outcome, adm, admissions>>

\* VecDeque::remove
Without(s, i) ==
  [j \in 1..(Len(s) - 1) |-> IF j < i THEN s[j] ELSE s[j + 1]]

\* Variant: the front leaves the queue instead of the entry found.
SettleFront(i, o) ==
  /\ pending' = Tail(pending)
  /\ armed' = armed \ {pending[i].timer}
  /\ outcome' = [outcome EXCEPT ![pending[i].call] = o]
  /\ UNCHANGED <<session, phase, reason, nextCorr, stage, auth, now, adm,
                 admissions, handed>>

\* The queue lost entry i whose call got outcome o; the last call of a
\* draining connection closes it.
Settle(i, o) ==
  /\ pending' = Without(pending, i)
  /\ armed' = armed \ {pending[i].timer}
  /\ outcome' = [outcome EXCEPT ![pending[i].call] = o]
  /\ IF phase = "Draining" /\ Len(pending) = 1
       THEN /\ session' = SessionDrained(session)
            /\ phase' = "Closing"
            /\ reason' = Reason("Drained", NoFailure)
            /\ nextCorr' = 0
       ELSE UNCHANGED <<session, phase, reason, nextCorr>>
  /\ UNCHANGED <<stage, auth, now, adm, admissions, handed>>

AbortUnsentCall(i) ==
  /\ phase \in Active
  /\ pending[i].phase = "AwaitingWrite"
  /\ Settle(i, Failed("LocallyRejected", NoReason, "NotSent"))

\* The session is not told; it learns when the transport has closed.
WriteFailed(i, f) ==
  /\ phase \in Active
  /\ pending[i].phase = "AwaitingWrite"
  /\ LeaveActive("Closing", "TransportLost", f, NoId, NoFailure)
  /\ UNCHANGED session

\* The front of the queue is waiting for a response.
FrontAwaitsResponse ==
  pending # <<>> /\ Head(pending).phase = "AwaitingResponse"

\* Variant: a response completes whichever call has its correlation id.
ResponseMatchedAnywhere(k) ==
  /\ phase \in Active
  /\ \E i \in DOMAIN pending :
       /\ pending[i].corr = k /\ pending[i].phase = "AwaitingResponse"
       /\ Settle(i, Completed)

ResponseReceived(k) ==
  /\ phase \in Active
  /\ \/ /\ ~FrontAwaitsResponse
        /\ session' = SessionProtocolFailed(session)
        /\ LeaveActive("Closing", "UnexpectedResponse", NoFailure, NoId,
                       NoFailure)
     \/ /\ FrontAwaitsResponse /\ Head(pending).corr # k
        /\ session' = SessionProtocolFailed(session)
        /\ LeaveActive("Closing", "CorrelationMismatch", NoFailure,
                       Head(pending).call, "CorrelationMismatch")
     \/ /\ FrontAwaitsResponse /\ Head(pending).corr = k
        /\ Settle(1, Completed)

\* The driver could not decode a response.
ResponseRejected(fault) ==
  /\ phase \in Active
  /\ session' = SessionProtocolFailed(session)
  /\ LeaveActive("Closing", fault, NoFailure, NoId, NoFailure)

\* Variant: a timer that fired early is not scheduled again.
CallDeadlineLost(i) ==
  /\ phase \in Active
  /\ IF now < pending[i].deadline
       THEN /\ armed' = armed \ {pending[i].timer}
            /\ UNCHANGED <<phase, reason, stage, auth, pending, nextCorr, now,
                           history>>
       ELSE LeaveActive("Closing", "DeadlineExceeded", pending[i].call,
                        pending[i].call, "DeadlineExceeded")
  /\ UNCHANGED session

CallDeadlineElapsed(i) ==
  /\ phase \in Active
  /\ IF now < pending[i].deadline
       THEN /\ armed' = (armed \ {pending[i].timer}) \cup {pending[i].timer}
            /\ UNCHANGED <<phase, reason, stage, auth, pending, nextCorr, now,
                           history>>
       ELSE LeaveActive("Closing", "DeadlineExceeded", pending[i].call,
                        pending[i].call, "DeadlineExceeded")
  /\ UNCHANGED session

(***************************************************************************)
(* Draining and closing.                                                   *)
(***************************************************************************)

\* The timer of the stage that is under way.
StageTimer ==
  IF phase = "Authenticating" THEN {auth.timer} ELSE {stage.timer}

BeginDrain ==
  \/ /\ phase = "Dormant"
     /\ LeaveStage("Closed", "Requested", NoFailure, {})
     /\ UNCHANGED session
  \/ /\ phase = "Opening"
     /\ LeaveStage("Closing", "Requested", NoFailure, StageTimer)
     /\ UNCHANGED session
  \/ /\ phase \in {"Negotiating", "Authenticating"}
     /\ session' = SessionBeginDrain(session)
     /\ LeaveStage("Closing", "Requested", NoFailure, StageTimer)
  \/ /\ phase = "Ready" /\ pending = <<>>
     /\ session' = SessionDrained(SessionBeginDrain(session))
     /\ LeaveActive("Closing", "Drained", NoFailure, NoId, NoFailure)
  \/ /\ phase = "Ready" /\ pending # <<>>
     /\ session' = SessionBeginDrain(session)
     /\ phase' = "Draining"
     /\ UNCHANGED <<reason, stage, auth, pending, nextCorr, now, armed, history>>

\* Variant: the reported failure replaces the reason of a close under way.
TransportClosedRenames(f) ==
  /\ session' = SessionClosed(session)
  /\ phase \in Active \cup {"Closing"}
  /\ LeaveActive("Closed", "TransportLost", f, NoId, NoFailure)

TransportClosed(f) ==
  /\ session' = SessionClosed(session)
  /\ \/ /\ phase \in {"Opening", "Negotiating", "Authenticating"}
        /\ LeaveStage("Closed", "TransportLost", f, StageTimer)
     \/ /\ phase \in Active
        /\ LeaveActive("Closed", "TransportLost", f, NoId, NoFailure)
     \/ /\ phase = "Closing"
        /\ phase' = "Closed"
        /\ UNCHANGED <<reason, stage, auth, pending, nextCorr, now, armed,
                       history>>

Tick ==
  /\ now < MaxMoment
  /\ now' = now + 1
  /\ UNCHANGED <<machine, armed, history>>

Submit ==
  \E c \in Calls, d \in Moments :
    \/ SubmitRefused(c, d)
    \/ \E e \in Effects, t \in Timers :
         SubmitAdmitted(c, e, t, d) \/ SubmitExhausted(c, e, t, d)

PendingInput ==
  \E i \in DOMAIN pending :
    \/ WriteSubmitted(i)
    \/ AbortUnsentCall(i)
    \/ \E f \in TransportFailures : WriteFailed(i, f)
    \/ CallDeadlineElapsed(i)

Response ==
  \/ \E k \in Correlations : ResponseReceived(k)
  \/ \E fault \in {"UnexpectedResponse", "MalformedResponse"} :
       ResponseRejected(fault)

OpeningInput ==
  \/ \E e \in Effects, t \in Timers, d \in Moments : Start(e, t, d)
  \/ \E e, e2 \in Effects, t \in Timers, d \in Moments :
       TransportOpened(e, e2, t, d)
  \/ \E e \in Effects, f \in TransportFailures : TransportOpenFailed(e, f)
  \/ \E t \in Timers : OpenDeadlineElapsed(t)

NegotiationInput ==
  \/ \E e \in Effects, caps \in Capabilities : ApiVersionsNegotiated(e, caps)
  \/ \E e, e2 \in Effects, caps \in Capabilities, t \in Timers, d \in Moments :
       ApiVersionsNegotiatedWithAuthentication(e, caps, e2, t, d)
  \/ \E e \in Effects, f \in NegotiationFailures : ApiVersionsFailed(e, f)
  \/ \E t \in Timers : NegotiationDeadlineElapsed(t)

AuthenticationInput ==
  \E e \in Effects :
    \/ HandshakeAccepted(e)
    \/ \E f \in AuthFailures : HandshakeFailed(e, f)
    \/ \E r \in 1..MaxExchangeRounds :
         \/ ExchangeContinued(e, r)
         \/ ExchangeSucceeded(e, r)
         \/ \E f \in AuthFailures : ExchangeFailed(e, r, f)

Next ==
  \/ OpeningInput
  \/ NegotiationInput
  \/ AuthenticationInput
  \/ \E t \in Timers : AuthenticationDeadlineElapsed(t)
  \/ Submit
  \/ PendingInput
  \/ Response
  \/ BeginDrain
  \/ \E f \in TransportFailures : TransportClosed(f)
  \/ Tick

Spec == Init /\ [][Next]_vars

(***************************************************************************)
(* What the driver around the machine guarantees: its clock advances, a    *)
(* scheduled timer is delivered once it is due, and a transport that was   *)
(* told to close reports that it has closed.  A timer that is not armed is *)
(* owed no delivery.                                                       *)
(***************************************************************************)
DueTimerFires ==
  \/ \E t \in armed :
       \/ now >= stage.deadline
          /\ (OpenDeadlineElapsed(t) \/ NegotiationDeadlineElapsed(t))
       \/ now >= auth.deadline /\ AuthenticationDeadlineElapsed(t)
  \/ \E i \in DOMAIN pending :
       /\ pending[i].timer \in armed /\ now >= pending[i].deadline
       /\ CallDeadlineElapsed(i)

CloseReported ==
  phase = "Closing" /\ \E f \in TransportFailures : TransportClosed(f)

Fairness == WF_vars(Tick) /\ WF_vars(DueTimerFires) /\ WF_vars(CloseReported)

FairSpec == Spec /\ Fairness

(***************************************************************************)
(* Properties.                                                             *)
(***************************************************************************)

Ids(S) == S \cup {NoId}

PendingEntries ==
  [call : Calls, corr : Correlations, effect : Effects, timer : Timers,
   deadline : Moments, delivery : {"NotSent", "PossiblySent"},
   phase : {"AwaitingWrite", "AwaitingResponse"}]

Causes == AuthFailures \cup NegotiationFailures \cup TransportFailures
            \cup Calls \cup {NoFailure}

ReasonKinds ==
  {"None", "Requested", "Drained", "OpenFailed", "NegotiationFailed",
   "AuthenticationFailed", "TransportLost", "UnexpectedResponse",
   "MalformedResponse", "CorrelationMismatch", "DeadlineExceeded",
   "TransportClosed", "ProtocolFailed"}

Reasons == [kind : ReasonKinds, cause : Causes]

CallFailures ==
  {NoFailure, "NotReady", "Draining", "ConnectionClosed", "DeadlineExceeded",
   "CapacityReached", "CorrelationSpaceExhausted", "LocallyRejected",
   "CorrelationMismatch"}

Stages == [effect : Ids(Effects), timer : Ids(Timers), deadline : Moments]

AuthStates ==
  [stage : AuthStages, effect : Ids(Effects), round : 0..MaxExchangeRounds,
   timer : Ids(Timers), deadline : Moments,
   failure : AuthFailures \cup {NoFailure}]

SessionStates ==
  [phase : SessionPhases, stage : AuthStages, round : 0..MaxExchangeRounds,
   deadline : Moments, reason : Reasons]

Outcomes ==
  [kind : {"None", "Completed", "Failed"}, failure : CallFailures,
   reason : Reasons, delivery : {"NotSent", "PossiblySent"}]

\* Every variable holds a value of the code's type, and the queue stays
\* within max_in_flight (PendingQueue::is_full).
TypeOK ==
  /\ phase \in Phases
  /\ reason \in Reasons
  /\ stage \in Stages
  /\ auth \in AuthStates
  /\ session \in SessionStates
  /\ pending \in Seq(PendingEntries) /\ Len(pending) <= MaxInFlight
  /\ nextCorr \in Correlations
  /\ now \in Moments
  /\ armed \subseteq Timers
  /\ outcome \in [Calls -> Outcomes]
  /\ adm \in [Calls -> Nat]
  /\ admissions \in Nat
  /\ handed \subseteq Calls

\* A call that was admitted is either in the queue once or settled, never
\* both and never neither, whichever of the inputs that end it comes first
\* (append_failures, pop_front, remove_awaiting_write).
CallAccounting ==
  /\ \A i, j \in DOMAIN pending : pending[i].call = pending[j].call => i = j
  /\ \A c \in PendingCalls : adm[c] # 0
  /\ \A c \in Calls :
       adm[c] # 0 => (c \in PendingCalls <=> outcome[c] = NoOutcome)

\* Responses complete calls in the order of their admission: when a call has
\* completed, no call admitted before it is still waiting.
FifoCompletion ==
  \A c, d \in Calls :
    outcome[c].kind = "Completed" /\ adm[d] # 0 /\ adm[d] < adm[c]
      => outcome[d] # NoOutcome

\* The delivery a failed call reports is the truth about the writer: NotSent
\* exactly when the writer never accepted its frame (Delivery, the basis on
\* which a caller may retry), and only a call that was sent completes.
TruthfulDelivery ==
  \A c \in Calls :
    outcome[c] # NoOutcome =>
      (outcome[c].delivery = "PossiblySent" <=> c \in handed)

\* Identities name one pending call each, across the wrap of the correlation
\* counter and the reuse of effect and timer identities: a response, a write
\* result or a timer can never be attributed to two calls.
UniqueIdentities ==
  \A i, j \in DOMAIN pending :
    i # j => /\ pending[i].corr # pending[j].corr
             /\ pending[i].effect # pending[j].effect
             /\ pending[i].timer # pending[j].timer

\* The timers the present state answers to.
OwnedTimers ==
  CASE phase \in {"Opening", "Negotiating"} -> {stage.timer}
    [] phase = "Authenticating" -> {auth.timer}
    [] OTHER -> PendingTimers

\* Scheduled timers are exactly those the state owns: none leaks past a
\* close, none that a deadline depends on is lost when a timer fires early or
\* when a stage reuses the identity of the one before it (the order of
\* CancelDeadline and Schedule in the effects).
TimersExact == armed = OwnedTimers

\* Where the connection and the session both know a close reason of their own
\* they agree on it.
SameReason ==
  LET protocol == {"UnexpectedResponse", "MalformedResponse",
                   "CorrelationMismatch"}
  IN  CASE session.reason.kind = "ProtocolFailed" -> reason.kind \in protocol
        [] session.reason.kind = "TransportClosed" -> TRUE
        [] OTHER -> session.reason = reason

\* The session policy follows the connection: while a stage is under way both
\* are in it with the same round and deadline, so the session never answers
\* stale to an input the authentication child accepted (the debug_assert of
\* authentication_input); afterwards they agree on why the epoch ended.
SessionMirrors ==
  /\ phase \in {"Dormant", "Opening"} => session = SessionInitial
  /\ phase = "Negotiating" =>
       session.phase = "Negotiating" /\ session.deadline = stage.deadline
  /\ phase = "Authenticating" =>
       /\ session.phase = "Authenticating" /\ session.stage = auth.stage
       /\ session.round = auth.round /\ session.deadline = auth.deadline
       /\ AuthTimed(auth)
  /\ phase \in Active => session.phase = phase
  /\ session.phase \in {"Negotiating", "Authenticating"} =>
       phase = session.phase
  /\ session.phase \in Over => phase \in Over /\ SameReason
  /\ session.phase = "Closed" => phase = "Closed"

\* A call failed because the connection closed names the reason for which the
\* connection really closed, also when it was refused later; at most one call
\* is blamed for a close, and only for a close of that kind.
HonestBlame ==
  /\ \A c \in Calls : outcome[c].failure = "ConnectionClosed" =>
       phase \in Over /\ outcome[c].reason = reason
  /\ \A c, d \in Calls :
       LET Blamed(x) == adm[x] # 0 /\ outcome[x].failure \in
                          {"CorrelationMismatch", "DeadlineExceeded"}
       IN  /\ Blamed(c) => reason.kind = outcome[c].failure
           /\ Blamed(c) /\ Blamed(d) => c = d

\* An outcome is delivered once: no later input changes it.
SettledOnce ==
  [][\A c \in Calls : outcome[c] # NoOutcome => outcome'[c] = outcome[c]]_vars

\* Nothing of an epoch lasts for ever, whatever the peer does: opening,
\* negotiating and authenticating end in an active connection or in a close,
\* a drain or a close that has begun reaches Closed, and every admitted call is
\* settled.
StagesEnd ==
  /\ phase \in {"Opening", "Negotiating", "Authenticating"} ~>
       phase \in Active \cup Over
  /\ phase \in {"Draining", "Closing"} ~> phase = "Closed"
  /\ \A c \in Calls : adm[c] # 0 ~> outcome[c] # NoOutcome

=============================================================================
