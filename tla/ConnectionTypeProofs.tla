------------------------ MODULE ConnectionTypeProofs ------------------------
(***************************************************************************)
(* The types of Connection are invariant, for every set of calls and       *)
(* identities, every capacity, correlation range and number of rounds, and *)
(* the session policy stays in step with the connection that drives it.    *)
(***************************************************************************)
EXTENDS Connection, Integers, TLAPS

\* What remove_awaiting_write and pop_front do to the queue.
LEMMA WithoutFacts ==
  ASSUME NEW S, NEW s \in Seq(S), NEW i \in 1..Len(s)
  PROVE  /\ Without(s, i) \in Seq(S)
         /\ Len(Without(s, i)) = Len(s) - 1
         /\ \A j \in 1..(Len(s) - 1) :
              Without(s, i)[j] = IF j < i THEN s[j] ELSE s[j + 1]
<1>1. Len(s) \in Nat /\ Len(s) - 1 \in Nat /\ s \in [1..Len(s) -> S]
  OBVIOUS
<1>2. Without(s, i) \in [1..(Len(s) - 1) -> S]
  BY <1>1 DEF Without
<1>3. Len(Without(s, i)) = Len(s) - 1
  BY <1>1 DEF Without
<1>4. Without(s, i) \in Seq(S)
  BY <1>1, <1>2 DEF Without
<1> QED
  BY <1>1, <1>3, <1>4 DEF Without

-----------------------------------------------------------------------------
(* Type correctness. *)

USE DEF NoFailure

\* A close reason built from a known kind and cause is a reason.
LEMMA ReasonType ==
  ASSUME NEW k \in ReasonKinds, NEW f \in Causes
  PROVE  Reason(k, f) \in Reasons
  BY DEF Reason, Reasons

\* The constant records the handlers store have the types of their fields.
LEMMA ConstantTypes ==
  /\ NoReason \in Reasons
  /\ NoStage \in Stages
  /\ AuthDormant \in AuthStates
  /\ SessionInitial \in SessionStates
  /\ NoOutcome \in Outcomes
  /\ Completed \in Outcomes
  /\ 0 \in Moments /\ 0 \in Correlations
<1>1. NoReason \in Reasons
  BY ReasonType DEF NoReason, Reason, Reasons, ReasonKinds, Causes
<1>2. 0 \in Moments /\ 0 \in Correlations /\ 0 \in 0..MaxExchangeRounds
  BY MaxMomentAssumption, MaxCorrelationAssumption, MaxExchangeRoundsAssumption
  DEF Moments, Correlations
<1>3. NoStage \in Stages
  BY <1>2 DEF NoStage, Stages, Ids
<1>4. AuthDormant \in AuthStates
  BY <1>2 DEF AuthDormant, AuthStates, AuthStages, Ids
<1>5. SessionInitial \in SessionStates
  BY <1>1, <1>2 DEF SessionInitial, SessionStates, SessionPhases, AuthStages
<1>6. NoOutcome \in Outcomes
  BY <1>1 DEF NoOutcome, Outcomes, CallFailures
<1>7. Completed \in Outcomes
  BY ZenonT(60), <1>6 DEF Completed, NoOutcome, Outcomes
<1> QED
  BY <1>1, <1>2, <1>3, <1>4, <1>5, <1>6, <1>7

\* Closing the session yields a session state.
LEMMA SessionCloseType ==
  ASSUME NEW k \in ReasonKinds, NEW f \in Causes
  PROVE  SessionClose(k, f) \in SessionStates
  BY ZenonT(60), ReasonType, ConstantTypes
  DEF SessionClose, SessionInitial, SessionStates, SessionPhases

\* Every input leaves the session in a state of its type.
LEMMA SessionTypes ==
  ASSUME NEW s \in SessionStates
  PROVE  /\ \A n, d \in Moments :
              SessionTransportOpened(s, n, d) \in SessionStates
         /\ \A caps \in Capabilities :
              SessionApiVersionsSucceeded(s, caps) \in SessionStates
         /\ \A caps \in Capabilities, n, d \in Moments :
              SessionApiVersionsWithAuthentication(s, caps, n, d)
                \in SessionStates
         /\ \A f \in NegotiationFailures :
              SessionApiVersionsFailed(s, f) \in SessionStates
         /\ \A f \in AuthFailures :
              SessionAuthenticationFailed(s, f) \in SessionStates
         /\ SessionHandshakeSucceeded(s) \in SessionStates
         /\ \A r \in 1..MaxExchangeRounds :
              /\ SessionExchangeContinued(s, r) \in SessionStates
              /\ SessionExchangeSucceeded(s, r) \in SessionStates
              /\ \A f \in AuthFailures :
                   SessionExchangeFailed(s, r, f) \in SessionStates
         /\ \A n \in Moments : SessionDeadlineElapsed(s, n) \in SessionStates
         /\ SessionBeginDrain(s) \in SessionStates
         /\ SessionDrained(s) \in SessionStates
         /\ SessionProtocolFailed(s) \in SessionStates
         /\ SessionClosed(s) \in SessionStates
<1> USE SessionCloseType, NegotiationFailuresAssumption, AuthFailuresAssumption
<1> USE DEF SessionStates, SessionPhases
<1>1. \A n, d \in Moments : SessionTransportOpened(s, n, d) \in SessionStates
  BY ZenonT(60) DEF SessionTransportOpened, ReasonKinds, Causes
<1>2. SessionReady \in SessionStates
  BY ConstantTypes DEF SessionReady
<1>3. \A caps \in Capabilities :
        SessionApiVersionsSucceeded(s, caps) \in SessionStates
  BY <1>2 DEF SessionApiVersionsSucceeded, ReasonKinds, Causes
<1>4. ASSUME NEW caps \in Capabilities, NEW n \in Moments, NEW d \in Moments
      PROVE  SessionApiVersionsWithAuthentication(s, caps, n, d) \in SessionStates
  <2>1. [s EXCEPT !.phase = "Authenticating", !.stage = "Handshaking",
                  !.deadline = d] \in SessionStates
    BY ZenonT(60) DEF AuthStages
  <2>2. /\ SessionClose("NegotiationFailed", "Capacity") \in SessionStates
        /\ SessionClose("AuthenticationFailed", "Protocol") \in SessionStates
        /\ SessionClose("AuthenticationFailed", "Timeout") \in SessionStates
    BY DEF ReasonKinds, Causes
  <2> HIDE DEF SessionStates
  <2> QED
    BY <2>1, <2>2 DEF SessionApiVersionsWithAuthentication
<1>5. \A f \in NegotiationFailures :
        SessionApiVersionsFailed(s, f) \in SessionStates
  BY DEF SessionApiVersionsFailed, ReasonKinds, Causes
<1>6. \A f \in AuthFailures : SessionAuthenticationFailed(s, f) \in SessionStates
  BY DEF SessionAuthenticationFailed, ReasonKinds, Causes
<1>7. \A r \in 1..MaxExchangeRounds, f \in AuthFailures :
        SessionExchangeFailed(s, r, f) \in SessionStates
  BY <1>6 DEF SessionExchangeFailed
<1>8. SessionHandshakeSucceeded(s) \in SessionStates
  <2>1. 1 \in 0..MaxExchangeRounds
    BY MaxExchangeRoundsAssumption
  <2>2. [s EXCEPT !.stage = "Exchanging", !.round = 1] \in SessionStates
    BY ZenonT(60), <2>1 DEF AuthStages
  <2> HIDE DEF SessionStates
  <2> QED
    BY <2>2 DEF SessionHandshakeSucceeded
<1>9. ASSUME NEW r \in 1..MaxExchangeRounds
      PROVE  SessionExchangeContinued(s, r) \in SessionStates
  <2>1. SessionClose("AuthenticationFailed", "TooManyRounds") \in SessionStates
    BY DEF ReasonKinds, Causes
  <2>2. CASE r + 1 <= MaxExchangeRounds
    <3>1. r + 1 \in 0..MaxExchangeRounds
      BY <2>2, MaxExchangeRoundsAssumption
    <3>2. [s EXCEPT !.round = r + 1] \in SessionStates
      BY <3>1
    <3> HIDE DEF SessionStates
    <3> QED
      BY <2>1, <3>2 DEF SessionExchangeContinued
  <2>3. CASE ~(r + 1 <= MaxExchangeRounds)
    <3>1. r + 1 > MaxExchangeRounds
      BY <2>3, MaxExchangeRoundsAssumption
    <3> HIDE DEF SessionStates
    <3> QED
      BY <2>1, <3>1 DEF SessionExchangeContinued
  <2> QED
    BY <2>2, <2>3
<1>10. \A r \in 1..MaxExchangeRounds :
         SessionExchangeSucceeded(s, r) \in SessionStates
  BY <1>2 DEF SessionExchangeSucceeded
<1>11. \A n \in Moments : SessionDeadlineElapsed(s, n) \in SessionStates
  BY DEF SessionDeadlineElapsed, ReasonKinds, Causes
<1>12. SessionBeginDrain(s) \in SessionStates
  BY DEF SessionBeginDrain, ReasonKinds, Causes
<1>13. SessionDrained(s) \in SessionStates
  BY DEF SessionDrained, ReasonKinds, Causes
<1>14. SessionProtocolFailed(s) \in SessionStates
  BY DEF SessionProtocolFailed, ReasonKinds, Causes
<1>15. SessionClosed(s) \in SessionStates
  BY DEF SessionClosed, ReasonKinds, Causes
<1> HIDE DEF SessionStates, SessionPhases
<1> QED
  BY <1>1, <1>3, <1>4, <1>5, <1>6, <1>7, <1>8, <1>9, <1>10, <1>11, <1>12,
     <1>13, <1>14, <1>15

\* Every step of the authentication child keeps its type.
LEMMA AuthTypes ==
  ASSUME NEW a \in AuthStates, NEW e \in Effects, NEW t \in Timers,
         NEW n \in Moments, NEW d \in Moments
  PROVE  /\ AuthStart(e, t, n, d) \in AuthStates
         /\ AuthHandshakeAccepted(a) \in AuthStates
         /\ AuthContinue(a) \in AuthStates
         /\ AuthSucceed(a) \in AuthStates
         /\ \A f \in AuthFailures : AuthFail(a, f) \in AuthStates
<1>1. \A x \in AuthStates, f \in AuthFailures : AuthFail(x, f) \in AuthStates
  BY ZenonT(60) DEF AuthFail, AuthStates, AuthStages
<1>2. AuthStart(e, t, n, d) \in AuthStates
  <2>1. AuthFail(AuthDormant, "Timeout") \in AuthStates
    BY <1>1, ConstantTypes, AuthFailuresAssumption
  <2>2. [AuthDormant EXCEPT !.stage = "Handshaking", !.effect = e,
                            !.timer = t, !.deadline = d] \in AuthStates
    BY ZenonT(60), ConstantTypes DEF AuthStates, AuthStages, Ids
  <2> QED
    BY <2>1, <2>2 DEF AuthStart
<1>3. AuthHandshakeAccepted(a) \in AuthStates
  <2>1. 1 \in 0..MaxExchangeRounds
    BY MaxExchangeRoundsAssumption
  <2> QED
    BY ZenonT(60), <2>1 DEF AuthHandshakeAccepted, AuthStates, AuthStages
<1>4. AuthContinue(a) \in AuthStates
  <2>1. AuthFail(a, "TooManyRounds") \in AuthStates
    BY <1>1, AuthFailuresAssumption
  <2>2. CASE a.round + 1 <= MaxExchangeRounds
    <3>1. a.round + 1 \in 0..MaxExchangeRounds
      BY <2>2, MaxExchangeRoundsAssumption DEF AuthStates
    <3>2. [a EXCEPT !.round = a.round + 1] \in AuthStates
      BY <3>1 DEF AuthStates
    <3> QED
      BY <2>1, <3>2 DEF AuthContinue
  <2>3. CASE ~(a.round + 1 <= MaxExchangeRounds)
    BY <2>1, <2>3, MaxExchangeRoundsAssumption DEF AuthContinue, AuthStates
  <2> QED
    BY <2>2, <2>3
<1>5. AuthSucceed(a) \in AuthStates
  BY DEF AuthSucceed, AuthStates, AuthStages
<1> QED
  BY <1>1, <1>2, <1>3, <1>4, <1>5

\* Leaving a stage or an active connection keeps the type.
LEMMA LeaveStageType ==
  ASSUME TypeOK, NEW to \in Phases, NEW k \in ReasonKinds, NEW f \in Causes,
         NEW S, LeaveStage(to, k, f, S), session' \in SessionStates
  PROVE  TypeOK'
<1>1. reason' \in Reasons /\ stage' \in Stages /\ auth' \in AuthStates
  BY ReasonType, ConstantTypes DEF LeaveStage
<1> QED
  BY <1>1 DEF LeaveStage, TypeOK, history

\* Delivery is one of the two values the failure carries.
LEMMA DeliveryType == \A c : DeliveryOf(c) \in {"NotSent", "PossiblySent"}
  BY DEF DeliveryOf

\* A failed outcome is an outcome.
LEMMA FailedType ==
  ASSUME NEW f \in CallFailures, NEW r \in Reasons,
         NEW dl \in {"NotSent", "PossiblySent"}
  PROVE  Failed(f, r, dl) \in Outcomes
  BY DEF Failed, Outcomes

\* The empty queue is a queue.
LEMMA EmptyQueueType == <<>> \in Seq(PendingEntries) /\ Len(<<>>) = 0
  OBVIOUS

\* Leaving the ready or draining phase, which fails every pending call,
\* keeps the types.
LEMMA LeaveActiveType ==
  ASSUME TypeOK, NEW to \in Phases, NEW k \in ReasonKinds, NEW f \in Causes,
         NEW c, NEW g \in CallFailures,
         LeaveActive(to, k, f, c, g), session' \in SessionStates
  PROVE  TypeOK'
<1>1. reason' \in Reasons /\ reason' = Reason(k, f)
  BY ReasonType DEF LeaveActive
<1>2. outcome' \in [Calls -> Outcomes]
  <2>1. \A x \in Calls :
          /\ Failed(g, NoReason, DeliveryOf(x)) \in Outcomes
          /\ Failed("ConnectionClosed", Reason(k, f), DeliveryOf(x)) \in Outcomes
    BY <1>1, FailedType, DeliveryType, ConstantTypes DEF CallFailures
  <2>2. \A x \in Calls : outcome[x] \in Outcomes
    BY DEF TypeOK
  <2> QED
    BY <2>1, <2>2 DEF LeaveActive
<1>3. pending' \in Seq(PendingEntries) /\ Len(pending') <= MaxInFlight
  BY EmptyQueueType, MaxInFlightAssumption DEF LeaveActive
<1> QED
  BY <1>1, <1>2, <1>3, ConstantTypes DEF LeaveActive, TypeOK

\* Entering the ready phase keeps the types.
LEMMA BecomeReadyType ==
  ASSUME TypeOK, NEW S, BecomeReady(S), session' \in SessionStates
  PROVE  TypeOK'
<1>1. stage' \in Stages /\ auth' \in AuthStates
  BY ConstantTypes DEF BecomeReady
<1> QED
  BY <1>1 DEF BecomeReady, TypeOK, Phases, history

\* Following the authentication machine into its next stage keeps the types.
LEMMA FollowChildType ==
  ASSUME TypeOK, NEW child \in AuthStates, FollowChild(child),
         child.stage = "Failed" => child.failure \in AuthFailures,
         session' \in SessionStates
  PROVE  TypeOK'
<1>1. CASE child.stage = "Succeeded" /\ BecomeReady({child.timer})
  BY <1>1, BecomeReadyType
<1>2. CASE /\ child.stage = "Failed"
           /\ LeaveStage("Closing", "AuthenticationFailed", child.failure,
                         {child.timer})
  BY <1>2, LeaveStageType DEF Phases, ReasonKinds, Causes
<1>3. CASE /\ AuthTimed(child)
           /\ auth' = child
           /\ UNCHANGED <<phase, reason, stage, pending, nextCorr, now, armed,
                          history>>
  BY <1>3 DEF TypeOK, history
<1> QED
  BY <1>1, <1>2, <1>3 DEF FollowChild

\* Starting, opening and the opening deadline keep the types.
LEMMA OpeningTypes ==
  ASSUME TypeOK, OpeningInput
  PROVE  TypeOK'
<1> USE DEF Phases, ReasonKinds
<1>1. ASSUME NEW e \in Effects, NEW t \in Timers, NEW d \in Moments, Start(e, t, d)
      PROVE  TypeOK'
  <2>1. [effect |-> e, timer |-> t, deadline |-> d] \in Stages
    BY DEF Stages, Ids
  <2> QED
    BY <1>1, <2>1 DEF Start, TypeOK, history
<1>2. ASSUME NEW e \in Effects, NEW e2 \in Effects, NEW t \in Timers,
             NEW d \in Moments, TransportOpened(e, e2, t, d)
      PROVE  TypeOK'
  <2>1. session' \in SessionStates
    BY ZenonT(60), <1>2, SessionTypes DEF TransportOpened, TypeOK
  <2>2. [effect |-> e2, timer |-> t, deadline |-> d] \in Stages
    BY DEF Stages, Ids
  <2>3. CASE d <= now
    BY <1>2, <2>1, <2>3, LeaveStageType, NegotiationFailuresAssumption
    DEF TransportOpened, Causes
  <2>4. CASE ~(d <= now)
    BY <1>2, <2>1, <2>2, <2>4 DEF TransportOpened, TypeOK, history
  <2> QED
    BY <2>3, <2>4
<1>3. ASSUME NEW e \in Effects, NEW f \in TransportFailures,
             TransportOpenFailed(e, f)
      PROVE  TypeOK'
  <2>1. session' \in SessionStates
    BY <1>3 DEF TransportOpenFailed, TypeOK
  <2> QED
    BY <1>3, <2>1, LeaveStageType DEF TransportOpenFailed, Causes
<1>4. ASSUME NEW t \in Timers, OpenDeadlineElapsed(t)
      PROVE  TypeOK'
  <2>1. session' \in SessionStates
    BY <1>4 DEF OpenDeadlineElapsed, TypeOK
  <2>2. CASE now < stage.deadline
    BY <1>4, <2>2 DEF OpenDeadlineElapsed, TypeOK, history
  <2>3. CASE ~(now < stage.deadline)
    BY <1>4, <2>1, <2>3, LeaveStageType, TransportFailuresAssumption
    DEF OpenDeadlineElapsed, Causes
  <2> QED
    BY <2>2, <2>3
<1> QED
  BY <1>1, <1>2, <1>3, <1>4 DEF OpeningInput

\* Every negotiation input keeps the types.
LEMMA NegotiationTypes ==
  ASSUME TypeOK, NegotiationInput
  PROVE  TypeOK'
<1> USE DEF Phases, ReasonKinds
<1> USE NegotiationFailuresAssumption, AuthFailuresAssumption
<1>1. ASSUME session' \in SessionStates, NEW f \in NegotiationFailures,
             NegotiationFailed(f)
      PROVE  TypeOK'
  BY <1>1, LeaveStageType DEF NegotiationFailed, Causes
<1>2. ASSUME session' \in SessionStates, NEW f \in AuthFailures,
             AuthenticationSetupFailed(f)
      PROVE  TypeOK'
  BY <1>2, LeaveStageType DEF AuthenticationSetupFailed, Causes
<1>3. ASSUME NEW e \in Effects, NEW caps \in Capabilities,
             ApiVersionsNegotiated(e, caps)
      PROVE  TypeOK'
  <2>1. session' \in SessionStates
    BY ZenonT(60), <1>3, SessionTypes DEF ApiVersionsNegotiated, TypeOK
  <2> QED
    BY <1>1, <1>2, <1>3, <2>1, BecomeReadyType DEF ApiVersionsNegotiated
<1>4. ASSUME NEW e \in Effects, NEW f \in NegotiationFailures,
             ApiVersionsFailed(e, f)
      PROVE  TypeOK'
  <2>1. session' \in SessionStates
    BY <1>4, SessionCloseType
    DEF ApiVersionsFailed, SessionApiVersionsFailed, TypeOK, Causes
  <2> QED
    BY <1>1, <1>4, <2>1 DEF ApiVersionsFailed
<1>5. ASSUME NEW t \in Timers, NegotiationDeadlineElapsed(t)
      PROVE  TypeOK'
  <2>1. session' \in SessionStates
    BY <1>5, SessionCloseType
    DEF NegotiationDeadlineElapsed, SessionDeadlineElapsed, TypeOK, Causes
  <2>2. CASE now < stage.deadline
    BY <1>5, <2>1, <2>2 DEF NegotiationDeadlineElapsed, TypeOK, history
  <2>3. CASE ~(now < stage.deadline)
    BY <1>5, <2>1, <2>3, LeaveStageType DEF NegotiationDeadlineElapsed, Causes
  <2> QED
    BY <2>2, <2>3
<1>6. ASSUME NEW e \in Effects, NEW e2 \in Effects, NEW caps \in Capabilities,
             NEW t \in Timers, NEW d \in Moments,
             ApiVersionsNegotiatedWithAuthentication(e, caps, e2, t, d)
      PROVE  TypeOK'
  <2> DEFINE child == AuthStart(e2, t, now, d)
  <2>1. session' \in SessionStates
    BY ZenonT(60), <1>6, SessionTypes
    DEF ApiVersionsNegotiatedWithAuthentication, TypeOK
  <2>2. child \in AuthStates
    BY ZenonT(60), AuthTypes DEF TypeOK
  <2>3. child.stage = "Failed" => child.failure \in AuthFailures
    BY DEF AuthStart, AuthFail, AuthDormant
  <2>4. CASE caps.len > MaxCapabilities /\ NegotiationFailed("Capacity")
    BY <1>1, <2>1, <2>4
  <2>5. CASE AuthenticationSetupFailed("Protocol")
    BY <1>2, <2>1, <2>5
  <2>6. CASE child.stage = "Failed" /\ AuthenticationSetupFailed(child.failure)
    BY <1>2, <2>1, <2>3, <2>6
  <2>7. CASE /\ phase' = "Authenticating"
             /\ auth' = child
             /\ stage' = NoStage
             /\ armed' = (armed \ {stage.timer}) \cup {t}
             /\ UNCHANGED <<reason, pending, nextCorr, now, history>>
    BY <2>1, <2>2, <2>7, ConstantTypes DEF TypeOK, history
  <2> QED
    BY <1>6, <2>4, <2>5, <2>6, <2>7 DEF ApiVersionsNegotiatedWithAuthentication
<1> QED
  BY <1>3, <1>4, <1>5, <1>6 DEF NegotiationInput

\* Every answer to an authentication effect keeps the types.
LEMMA AuthenticationTypes ==
  ASSUME TypeOK, AuthenticationInput
  PROVE  TypeOK'
<1>1. PICK e \in Effects :
        \/ HandshakeAccepted(e)
        \/ \E f \in AuthFailures : HandshakeFailed(e, f)
        \/ \E r \in 1..MaxExchangeRounds :
             \/ ExchangeContinued(e, r)
             \/ ExchangeSucceeded(e, r)
             \/ \E f \in AuthFailures : ExchangeFailed(e, r, f)
  BY DEF AuthenticationInput
<1>2. auth \in AuthStates /\ session \in SessionStates
  BY DEF TypeOK
<1>3. \A f \in AuthFailures : AuthFail(auth, f).failure = f
  BY <1>2 DEF AuthFail, AuthStates
<1>4. \A f \in AuthFailures : AuthFail(auth, f) \in AuthStates
  BY ZenonT(60), <1>2 DEF AuthFail, AuthStates, AuthStages
<1>5. AuthHandshakeAccepted(auth) \in AuthStates /\ AuthSucceed(auth) \in AuthStates
  <2>1. 1 \in 0..MaxExchangeRounds
    BY MaxExchangeRoundsAssumption
  <2> QED
    BY ZenonT(60), <1>2, <2>1 DEF AuthHandshakeAccepted, AuthSucceed, AuthStates, AuthStages
<1>6. CASE HandshakeAccepted(e)
  <2>1. AuthHandshakeAccepted(auth).stage = "Exchanging"
    BY <1>2 DEF AuthHandshakeAccepted, AuthStates
  <2>2. session' \in SessionStates
    BY <1>2, <1>6, SessionTypes DEF HandshakeAccepted
  <2> QED
    BY <1>5, <1>6, <2>1, <2>2, FollowChildType DEF HandshakeAccepted
<1>7. ASSUME NEW f \in AuthFailures, HandshakeFailed(e, f)
      PROVE  TypeOK'
  <2>1. session' \in SessionStates
    BY ZenonT(60), <1>2, <1>7, SessionTypes DEF HandshakeFailed
  <2> QED
    BY <1>3, <1>4, <1>7, <2>1, FollowChildType DEF HandshakeFailed
<1>8. ASSUME NEW r \in 1..MaxExchangeRounds, ExchangeContinued(e, r)
      PROVE  TypeOK'
  <2>1. session' \in SessionStates
    BY <1>2, <1>8, SessionTypes DEF ExchangeContinued
  <2>2. AuthContinue(auth) \in AuthStates
    <3>1. CASE auth.round + 1 <= MaxExchangeRounds
      <4>1. auth.round + 1 \in 0..MaxExchangeRounds
        BY <1>2, <3>1, MaxExchangeRoundsAssumption DEF AuthStates
      <4>2. [auth EXCEPT !.round = auth.round + 1] \in AuthStates
        BY <1>2, <4>1 DEF AuthStates
      <4> QED
        BY <1>2, <4>2, <3>1, MaxExchangeRoundsAssumption
        DEF AuthContinue, AuthStates
    <3>2. CASE ~(auth.round + 1 <= MaxExchangeRounds)
      BY <1>2, <1>4, <3>2, MaxExchangeRoundsAssumption, AuthFailuresAssumption
      DEF AuthContinue, AuthStates
    <3> QED
      BY <3>1, <3>2
  <2>3. AuthContinue(auth).stage = "Failed" =>
          AuthContinue(auth).failure \in AuthFailures
    <3>1. AuthFail(auth, "TooManyRounds").failure \in AuthFailures
      BY <1>3, AuthFailuresAssumption
    <3>2. [auth EXCEPT !.round = @ + 1].stage = "Exchanging"
      BY <1>2, <1>8 DEF ExchangeContinued, AuthAwaitsRound, AuthStates
    <3> QED
      BY <3>1, <3>2 DEF AuthContinue
  <2> QED
    BY <1>8, <2>1, <2>2, <2>3, FollowChildType DEF ExchangeContinued
<1>9. ASSUME NEW r \in 1..MaxExchangeRounds, ExchangeSucceeded(e, r)
      PROVE  TypeOK'
  <2>1. session' \in SessionStates
    BY <1>2, <1>9, SessionTypes DEF ExchangeSucceeded
  <2>2. AuthSucceed(auth).stage = "Succeeded"
    BY <1>2 DEF AuthSucceed, AuthStates
  <2> QED
    BY <1>5, <1>9, <2>1, <2>2, FollowChildType DEF ExchangeSucceeded
<1>10. ASSUME NEW r \in 1..MaxExchangeRounds, NEW f \in AuthFailures,
              ExchangeFailed(e, r, f)
       PROVE  TypeOK'
  <2>1. session' \in SessionStates
    BY <1>2, <1>10, SessionTypes DEF ExchangeFailed
  <2> QED
    BY <1>3, <1>4, <1>10, <2>1, FollowChildType DEF ExchangeFailed
<1> QED
  BY <1>1, <1>6, <1>7, <1>8, <1>9, <1>10

\* The authentication deadline keeps the types.
LEMMA AuthenticationDeadlineType ==
  ASSUME TypeOK, NEW t \in Timers, AuthenticationDeadlineElapsed(t)
  PROVE  TypeOK'
<1>1. session' \in SessionStates
  BY ZenonT(60), SessionTypes DEF AuthenticationDeadlineElapsed, TypeOK
<1>2. AuthFail(auth, "Timeout") \in AuthStates
      /\ AuthFail(auth, "Timeout").failure \in AuthFailures
  BY ZenonT(60), AuthFailuresAssumption DEF AuthFail, TypeOK, AuthStates, AuthStages
<1>3. CASE now < auth.deadline
  BY <1>1, <1>3 DEF AuthenticationDeadlineElapsed, TypeOK, history
<1>4. CASE ~(now < auth.deadline)
  BY <1>1, <1>2, <1>4, FollowChildType DEF AuthenticationDeadlineElapsed
<1> QED
  BY <1>3, <1>4

\* Every correlation id the allocator tries is a correlation id.
LEMMA CandidateType ==
  ASSUME nextCorr \in Correlations, NEW k \in Nat
  PROVE  Candidate(k) \in Correlations
  BY MaxCorrelationAssumption DEF Candidate, Correlations

\* What refuses a submission is a call failure.
LEMMA RefusalType == \A d : SubmitRefusal(d) \in CallFailures
  BY DEF SubmitRefusal, FailureForClosedState, CallFailures

\* A submission that is not refused found a ready connection with a free
\* slot, and a deadline still ahead.
LEMMA NotRefused ==
  ASSUME TypeOK, NEW d \in Moments, SubmitRefusal(d) = NoFailure
  PROVE  phase = "Ready" /\ now < d /\ Len(pending) < MaxInFlight
<1>1. d \in Int /\ now \in Int /\ Len(pending) \in Int /\ MaxInFlight \in Int
  BY MaxInFlightAssumption, MaxMomentAssumption DEF TypeOK, Moments
<1>2. FailureForClosedState # NoFailure
  BY DEF FailureForClosedState
<1>3. phase = "Ready"
  BY <1>2 DEF SubmitRefusal
<1>4. d > now
  BY <1>1, <1>3 DEF SubmitRefusal
<1>5. ~(Len(pending) >= MaxInFlight)
  BY <1>3, <1>4 DEF SubmitRefusal
<1> QED
  BY <1>1, <1>3, <1>4, <1>5

\* A submission, refused, admitted or exhausting the allocator, keeps the
\* types; an admitted one found a free slot.
LEMMA SubmitTypes ==
  ASSUME TypeOK, Submit
  PROVE  TypeOK'
<1>1. PICK c \in Calls, d \in Moments :
        \/ SubmitRefused(c, d)
        \/ \E e \in Effects, t \in Timers :
             SubmitAdmitted(c, e, t, d) \/ SubmitExhausted(c, e, t, d)
  BY DEF Submit
<1>2. CASE SubmitRefused(c, d)
  <2>1. Failed(SubmitRefusal(d), reason, "NotSent") \in Outcomes
    BY FailedType, RefusalType DEF TypeOK
  <2> QED
    BY <1>2, <2>1 DEF SubmitRefused, TypeOK, machine
<1>3. ASSUME NEW e \in Effects, NEW t \in Timers, SubmitAdmitted(c, e, t, d)
      PROVE  TypeOK'
  <2>1. PICK k \in 0..Len(pending) :
          /\ pending' = Append(pending,
               [call |-> c, corr |-> Candidate(k), effect |-> e, timer |-> t,
                deadline |-> d, delivery |-> "NotSent",
                phase |-> "AwaitingWrite"])
          /\ nextCorr' = Candidate(k + 1)
    BY <1>3 DEF SubmitAdmitted
  <2>2. Candidate(k) \in Correlations /\ Candidate(k + 1) \in Correlations
    BY CandidateType DEF TypeOK
  <2>3. [call |-> c, corr |-> Candidate(k), effect |-> e, timer |-> t,
         deadline |-> d, delivery |-> "NotSent", phase |-> "AwaitingWrite"]
          \in PendingEntries
    BY <2>2 DEF PendingEntries
  <2>4. pending' \in Seq(PendingEntries) /\ Len(pending') = Len(pending) + 1
    BY <2>1, <2>3 DEF TypeOK
  <2>5. Len(pending) < MaxInFlight
    BY <1>3, NotRefused DEF SubmitAdmitted
  <2>6. Len(pending') <= MaxInFlight
    BY <2>4, <2>5, MaxInFlightAssumption DEF TypeOK
  <2> QED
    BY <1>3, <2>1, <2>2, <2>4, <2>6 DEF SubmitAdmitted, TypeOK
<1>4. ASSUME NEW e \in Effects, NEW t \in Timers, SubmitExhausted(c, e, t, d)
      PROVE  TypeOK'
  <2>1. Failed("CorrelationSpaceExhausted", NoReason, "NotSent") \in Outcomes
    BY FailedType, ConstantTypes DEF CallFailures
  <2>2. Candidate(Len(pending) + 1) \in Correlations
    BY CandidateType DEF TypeOK
  <2> QED
    BY <1>4, <2>1, <2>2 DEF SubmitExhausted, TypeOK
<1> QED
  BY <1>1, <1>2, <1>3, <1>4

\* Settling one pending call keeps the types.
LEMMA SettleType ==
  ASSUME TypeOK, NEW i \in DOMAIN pending, NEW o \in Outcomes, Settle(i, o)
  PROVE  TypeOK'
<1>1. pending \in Seq(PendingEntries) /\ i \in 1..Len(pending)
  BY SMTT(60) DEF TypeOK
<1>2. pending' \in Seq(PendingEntries) /\ Len(pending') <= MaxInFlight
  <2>1. pending' = Without(pending, i) /\ Len(pending) <= MaxInFlight
    BY DEF Settle, TypeOK
  <2>2. pending' \in Seq(PendingEntries) /\ Len(pending') = Len(pending) - 1
    BY <1>1, <2>1, WithoutFacts
  <2> QED
    BY <1>1, <2>1, <2>2, MaxInFlightAssumption
<1>3. pending[i].call \in Calls
  <2>1. pending[i] \in PendingEntries
    BY <1>1
  <2> QED
    BY <2>1 DEF PendingEntries
<1>4. outcome' \in [Calls -> Outcomes]
  BY <1>3 DEF Settle, TypeOK
<1>5. session' \in SessionStates /\ reason' \in Reasons /\ phase' \in Phases
      /\ nextCorr' \in Correlations
  <2>1. SessionDrained(session) \in SessionStates
    BY SessionTypes DEF TypeOK
  <2>2. Reason("Drained", NoFailure) \in Reasons
    BY ReasonType DEF ReasonKinds, Causes
  <2> QED
    BY <2>1, <2>2, ConstantTypes DEF Settle, TypeOK, Phases
<1> QED
  BY <1>2, <1>4, <1>5 DEF Settle, TypeOK

\* Every input about one pending call keeps the types.
LEMMA PendingTypes ==
  ASSUME TypeOK, PendingInput
  PROVE  TypeOK'
<1> USE DEF Phases, ReasonKinds, CallFailures
<1>1. PICK i \in DOMAIN pending :
        \/ WriteSubmitted(i)
        \/ AbortUnsentCall(i)
        \/ \E f \in TransportFailures : WriteFailed(i, f)
        \/ CallDeadlineElapsed(i)
  BY DEF PendingInput
<1>2. pending \in Seq(PendingEntries) /\ i \in 1..Len(pending)
      /\ pending[i] \in PendingEntries
  BY DEF TypeOK
<1>3. CASE WriteSubmitted(i)
  <2>1. [pending[i] EXCEPT !.phase = "AwaitingResponse",
                           !.delivery = "PossiblySent"] \in PendingEntries
    BY ZenonT(60), <1>2 DEF PendingEntries
  <2>2. pending' = [pending EXCEPT ![i] =
           [pending[i] EXCEPT !.phase = "AwaitingResponse",
                              !.delivery = "PossiblySent"]]
    BY ZenonT(60), <1>2, <1>3 DEF WriteSubmitted, PendingEntries
  <2>3. pending' \in Seq(PendingEntries) /\ Len(pending') = Len(pending)
    BY <1>2, <2>1, <2>2
  <2>4. pending[i].call \in Calls
    BY SMTT(60), <1>2 DEF PendingEntries
  <2> QED
    BY <1>3, <2>3, <2>4 DEF WriteSubmitted, TypeOK
<1>4. CASE AbortUnsentCall(i)
  <2>1. Failed("LocallyRejected", NoReason, "NotSent") \in Outcomes
    BY FailedType, ConstantTypes
  <2>2. Settle(i, Failed("LocallyRejected", NoReason, "NotSent"))
    BY <1>4 DEF AbortUnsentCall
  <2> QED
    BY <2>1, <2>2, SettleType
<1>5. ASSUME NEW f \in TransportFailures, WriteFailed(i, f)
      PROVE  TypeOK'
  <2>1. session' \in SessionStates
    BY <1>5 DEF WriteFailed, TypeOK
  <2> QED
    BY <1>5, <2>1, LeaveActiveType DEF WriteFailed, Causes
<1>6. CASE CallDeadlineElapsed(i)
  <2>1. session' \in SessionStates
    BY <1>6 DEF CallDeadlineElapsed, TypeOK
  <2>2. pending[i].call \in Causes /\ pending[i].timer \in Timers
    BY SMTT(60), <1>2 DEF PendingEntries, Causes
  <2>3. CASE now < pending[i].deadline
    BY SMTT(60), <1>6, <2>1, <2>2, <2>3 DEF CallDeadlineElapsed, TypeOK, history
  <2>4. CASE ~(now < pending[i].deadline)
    BY <1>6, <2>1, <2>2, <2>4, LeaveActiveType DEF CallDeadlineElapsed
  <2> QED
    BY <2>3, <2>4
<1> QED
  BY <1>1, <1>3, <1>4, <1>5, <1>6

\* A response frame, expected or not, keeps the types.
LEMMA ResponseTypes ==
  ASSUME TypeOK, Response
  PROVE  TypeOK'
<1> USE DEF Phases, ReasonKinds, CallFailures, Causes
<1>1. SessionProtocolFailed(session) \in SessionStates
  BY SessionTypes DEF TypeOK
<1>2. ASSUME NEW k \in Correlations, ResponseReceived(k)
      PROVE  TypeOK'
  <2>1. CASE ~FrontAwaitsResponse
    BY ZenonT(60), <1>1, <1>2, <2>1, LeaveActiveType DEF ResponseReceived
  <2>2. CASE FrontAwaitsResponse /\ Head(pending).corr # k
    BY SMTT(180), <1>1, <1>2, <2>2, LeaveActiveType DEF ResponseReceived
  <2>3. CASE FrontAwaitsResponse /\ Head(pending).corr = k
    <3>1. 1 \in DOMAIN pending
      BY SMTT(60), <2>3 DEF FrontAwaitsResponse, TypeOK
    <3> QED
      BY <1>2, <2>3, <3>1, SettleType, ConstantTypes DEF ResponseReceived
  <2> QED
    BY <2>1, <2>2, <2>3
<1>3. ASSUME NEW fault \in {"UnexpectedResponse", "MalformedResponse"},
             ResponseRejected(fault)
      PROVE  TypeOK'
  BY <1>1, <1>3, LeaveActiveType DEF ResponseRejected
<1> QED
  BY <1>2, <1>3 DEF Response

\* Beginning to drain keeps the types.
LEMMA DrainTypes ==
  ASSUME TypeOK, BeginDrain
  PROVE  TypeOK'
<1> USE DEF Phases, ReasonKinds, CallFailures, Causes
<1>1. session \in SessionStates /\ SessionBeginDrain(session) \in SessionStates
      /\ SessionDrained(SessionBeginDrain(session)) \in SessionStates
  BY SessionTypes DEF TypeOK
<1>2. CASE phase = "Dormant"
  BY SMTT(60), <1>1, <1>2, LeaveStageType DEF BeginDrain
<1>3. CASE phase = "Opening"
  BY <1>1, <1>3, LeaveStageType DEF BeginDrain
<1>4. CASE phase \in {"Negotiating", "Authenticating"}
  BY SMTT(60), <1>1, <1>4, LeaveStageType DEF BeginDrain
<1>5. CASE phase = "Ready" /\ pending = <<>>
  BY <1>1, <1>5, LeaveActiveType DEF BeginDrain
<1>6. CASE phase = "Ready" /\ pending # <<>>
  BY <1>1, <1>6 DEF BeginDrain, TypeOK, history
<1> QED
  BY <1>2, <1>3, <1>4, <1>5, <1>6 DEF BeginDrain

\* The report that the transport closed keeps the types.
LEMMA ClosedTypes ==
  ASSUME TypeOK, NEW f \in TransportFailures, TransportClosed(f)
  PROVE  TypeOK'
<1> USE DEF Phases, ReasonKinds, CallFailures, Causes
<1>1. session' \in SessionStates
  BY SessionTypes DEF TypeOK, TransportClosed
<1>2. CASE phase \in {"Opening", "Negotiating", "Authenticating"}
  BY SMTT(60), <1>1, <1>2, LeaveStageType DEF TransportClosed, Active
<1>3. CASE phase \in Active
  BY <1>1, <1>3, LeaveActiveType DEF TransportClosed, Active
<1>4. CASE phase = "Closing"
  BY <1>1, <1>4 DEF TransportClosed, Active, TypeOK, history
<1> QED
  BY <1>2, <1>3, <1>4 DEF TransportClosed

\* TypeOK is inductive: every input keeps it.
LEMMA TypeStep == TypeOK /\ [Next]_vars => TypeOK'
<1> SUFFICES ASSUME TypeOK, [Next]_vars
             PROVE  TypeOK'
  OBVIOUS
<1>1. CASE Tick
  BY <1>1, MaxMomentAssumption DEF Tick, TypeOK, machine, history, Moments
<1>2. CASE UNCHANGED vars
  BY <1>2 DEF vars, machine, history, TypeOK
<1> QED
  BY <1>1, <1>2, OpeningTypes, NegotiationTypes, AuthenticationTypes,
     AuthenticationDeadlineType, SubmitTypes, PendingTypes, ResponseTypes,
     DrainTypes, ClosedTypes DEF Next

\* TypeOK holds of a new connection.
LEMMA TypeInit == Init => TypeOK
  BY ConstantTypes, EmptyQueueType, MaxInFlightAssumption
  DEF Init, TypeOK, Phases

\* The machine never leaves its types, and never holds more calls than
\* max_in_flight.
THEOREM TypeCorrect == Spec => []TypeOK
  BY TypeInit, TypeStep, PTL DEF Spec

-----------------------------------------------------------------------------
(* The session.  The round in which the child starts is the one the session  *)
(* has kept since the transport opened.                                      *)

MirrorInv ==
  /\ SessionMirrors
  /\ phase = "Negotiating" => session.round = 0

\* A session that closes by itself names the reason it was given.
LEMMA SessionCloseFields ==
  ASSUME NEW k, NEW f
  PROVE  /\ SessionClose(k, f).phase = "Closing"
         /\ SessionClose(k, f).reason = Reason(k, f)
         /\ Reason(k, f).kind = k
  BY DEF SessionClose, SessionInitial, Reason

\* Where a session starts and where it is handed to the calls.
LEMMA SessionInitialFields ==
  /\ SessionInitial.phase = "AwaitingTransport" /\ SessionInitial.round = 0
  /\ SessionReady.phase = "Ready"
  BY DEF SessionInitial, SessionReady

\* The connection is over; the session is too and agrees, or was not told.
LEMMA MirrorOver ==
  ASSUME phase' \in Over,
         session'.phase \notin {"Negotiating", "Authenticating"},
         session'.phase \in Over => SameReason',
         session'.phase = "Closed" => phase' = "Closed"
  PROVE  MirrorInv'
  BY DEF MirrorInv, SessionMirrors, Over, Active

\* Connection and session close in one step for one reason.
LEMMA MirrorCloses ==
  ASSUME phase' \in Over, NEW k, NEW f, reason' = Reason(k, f),
         session' = SessionClose(k, f),
         k \notin {"ProtocolFailed", "TransportClosed"}
  PROVE  MirrorInv'
<1>1. session'.phase = "Closing" /\ session'.reason = reason'
      /\ session'.reason.kind = k
  BY SessionCloseFields
<1>2. SameReason'
  BY <1>1 DEF SameReason
<1> QED BY <1>1, <1>2, MirrorOver

\* The session agreed to a transport loss: it closes with the connection.
LEMMA SessionClosedFields ==
  ASSUME TypeOK
  PROVE  /\ SessionClosed(session).phase = "Closed"
         /\ \/ SessionClosed(session).reason = session.reason
               /\ session.phase \in Over
            \/ SessionClosed(session).reason.kind = "TransportClosed"
               /\ session.phase \notin Over
<1>1. session \in SessionStates
  BY DEF TypeOK
<1>2. CASE session.phase \in Over
  BY <1>1, <1>2 DEF SessionClosed, Over, SessionStates
<1>3. CASE session.phase \notin Over
  BY <1>3 DEF SessionClosed, Over, SessionClose, SessionInitial, Reason
<1> QED BY <1>2, <1>3

\* Neither machine moves.
LEMMA MirrorUntouched ==
  ASSUME MirrorInv, UNCHANGED <<phase, reason, stage, auth, session>>
  PROVE  MirrorInv'
  BY DEF MirrorInv, SessionMirrors, SameReason

\* Both machines leave the opening of the transport together.
LEMMA MirrorOpening ==
  ASSUME TypeOK, MirrorInv, OpeningInput
  PROVE  MirrorInv'
<1>1. ASSUME NEW e, NEW t, NEW d, Start(e, t, d)
      PROVE  MirrorInv'
  <2>1. session' = SessionInitial /\ phase' = "Opening"
    BY <1>1 DEF Start, MirrorInv, SessionMirrors
  <2> QED BY <2>1, SessionInitialFields DEF MirrorInv, SessionMirrors, Active, Over
<1>2. ASSUME NEW e, NEW e2, NEW t, NEW d, TransportOpened(e, e2, t, d)
      PROVE  MirrorInv'
  <2>1. /\ session = SessionInitial /\ session.phase = "AwaitingTransport"
        /\ session.round = 0
    BY <1>2, SessionInitialFields DEF TransportOpened, MirrorInv, SessionMirrors
  <2>2. CASE d <= now
    <3>1. session' = SessionClose("NegotiationFailed", "Timeout")
      BY <1>2, <2>1, <2>2 DEF TransportOpened, SessionTransportOpened
    <3> QED BY <1>2, <2>2, <3>1, MirrorCloses DEF TransportOpened, LeaveStage, Over
  <2>3. CASE ~(d <= now)
    <3>1. session' = [session EXCEPT !.phase = "Negotiating", !.deadline = d]
      BY <1>2, <2>1, <2>3 DEF TransportOpened, SessionTransportOpened
    <3>2. /\ session'.phase = "Negotiating" /\ session'.deadline = d
          /\ session'.round = 0
      BY <2>1, <3>1 DEF TypeOK, SessionStates
    <3>3. phase' = "Negotiating" /\ stage'.deadline = d
      BY <1>2, <2>3 DEF TransportOpened
    <3> QED BY <3>2, <3>3 DEF MirrorInv, SessionMirrors, Active, Over
  <2> QED BY <2>2, <2>3
<1>3. ASSUME \/ \E e, f : TransportOpenFailed(e, f)
             \/ \E t : OpenDeadlineElapsed(t) /\ ~(now < stage.deadline)
      PROVE  MirrorInv'
  <2>1. session' = SessionInitial /\ phase' \in Over
    BY <1>3 DEF TransportOpenFailed, OpenDeadlineElapsed, MirrorInv,
                SessionMirrors, LeaveStage, Over
  <2> QED BY <2>1, SessionInitialFields, MirrorOver DEF Over
<1>4. ASSUME NEW t, OpenDeadlineElapsed(t), now < stage.deadline
      PROVE  MirrorInv'
  BY <1>4, MirrorUntouched DEF OpenDeadlineElapsed
<1> QED BY <1>1, <1>2, <1>3, <1>4 DEF OpeningInput

\* What both machines make of the answer to ApiVersions.
LEMMA MirrorNegotiation ==
  ASSUME TypeOK, MirrorInv, NegotiationInput
  PROVE  MirrorInv'
<1> DEFINE Fails(k, f) ==
      /\ session' = SessionClose(k, f)
      /\ LeaveStage("Closing", k, f, {stage.timer})
<1>1. ASSUME NEW k \in {"NegotiationFailed", "AuthenticationFailed"}, NEW f, Fails(k, f)
      PROVE  MirrorInv'
  BY <1>1, MirrorCloses DEF LeaveStage, Over
<1>2. ASSUME phase' = "Ready", session' = SessionReady
      PROVE  MirrorInv'
  BY <1>2, SessionInitialFields DEF MirrorInv, SessionMirrors, Active, Over
<1> HIDE DEF Fails
<1>3. ASSUME NEW e, NEW caps \in Capabilities, ApiVersionsNegotiated(e, caps)
      PROVE  MirrorInv'
  <2>1. session.phase = "Negotiating" /\ HasPolicy \in BOOLEAN
    BY <1>3, HasPolicyAssumption DEF ApiVersionsNegotiated, AwaitsApiVersions
  <2>2. caps.len \in Nat /\ MaxCapabilities \in Nat
    BY MaxCapabilitiesAssumption DEF Capabilities
  <2>3. CASE caps.len > MaxCapabilities /\ NegotiationFailed("Capacity")
    <3>1. Fails("NegotiationFailed", "Capacity")
      BY <1>3, <2>1, <2>2, <2>3
      DEF ApiVersionsNegotiated, SessionApiVersionsSucceeded, NegotiationFailed, Fails
    <3> QED BY <1>1, <3>1
  <2>4. CASE caps.len <= MaxCapabilities /\ HasPolicy
             /\ AuthenticationSetupFailed("Protocol")
    <3>1. Fails("AuthenticationFailed", "Protocol")
      BY <1>3, <2>1, <2>2, <2>4
      DEF ApiVersionsNegotiated, SessionApiVersionsSucceeded,
          AuthenticationSetupFailed, Fails
    <3> QED BY <1>1, <3>1
  <2>5. CASE caps.len <= MaxCapabilities /\ ~HasPolicy /\ BecomeReady({stage.timer})
    <3>1. session' = SessionReady /\ phase' = "Ready"
      BY <1>3, <2>1, <2>2, <2>5
      DEF ApiVersionsNegotiated, SessionApiVersionsSucceeded, BecomeReady
    <3> QED BY <1>2, <3>1
  <2> QED BY <1>3, <2>3, <2>4, <2>5 DEF ApiVersionsNegotiated
<1>4. ASSUME NEW e, NEW caps \in Capabilities, NEW e2, NEW t, NEW d \in Moments,
             ApiVersionsNegotiatedWithAuthentication(e, caps, e2, t, d)
      PROVE  MirrorInv'
  <2> DEFINE child == AuthStart(e2, t, now, d)
  <2>1. /\ session.phase = "Negotiating" /\ session.round = 0
        /\ session' = SessionApiVersionsWithAuthentication(session, caps, now, d)
    BY <1>4 DEF ApiVersionsNegotiatedWithAuthentication, AwaitsApiVersions, MirrorInv
  <2>2. caps.len \in Nat /\ MaxCapabilities \in Nat /\ d \in Int /\ now \in Int
    BY MaxCapabilitiesAssumption, MaxMomentAssumption
    DEF Capabilities, TypeOK, Moments
  <2>3. CASE caps.len > MaxCapabilities /\ NegotiationFailed("Capacity")
    <3>1. Fails("NegotiationFailed", "Capacity")
      BY <2>1, <2>2, <2>3
      DEF SessionApiVersionsWithAuthentication, NegotiationFailed, Fails
    <3> QED BY <1>1, <3>1
  <2>4. CASE caps.len <= MaxCapabilities /\ ~(HasPolicy /\ caps.sasl)
             /\ AuthenticationSetupFailed("Protocol")
    <3>1. Fails("AuthenticationFailed", "Protocol")
      BY <2>1, <2>2, <2>4
      DEF SessionApiVersionsWithAuthentication, AuthenticationSetupFailed, Fails
    <3> QED BY <1>1, <3>1
  <2>5. CASE caps.len <= MaxCapabilities /\ HasPolicy /\ caps.sasl
             /\ child.stage = "Failed" /\ AuthenticationSetupFailed(child.failure)
    <3>1. d <= now /\ child.failure = "Timeout"
      BY <2>5 DEF AuthStart, AuthFail, AuthDormant
    <3>2. session' = SessionClose("AuthenticationFailed", "Timeout")
      BY <2>1, <2>2, <2>5, <3>1 DEF SessionApiVersionsWithAuthentication
    <3>3. Fails("AuthenticationFailed", "Timeout")
      BY <2>5, <3>1, <3>2 DEF AuthenticationSetupFailed, Fails
    <3> QED BY <1>1, <3>3
  <2>6. CASE caps.len <= MaxCapabilities /\ HasPolicy /\ caps.sasl
             /\ child.stage = "Handshaking" /\ phase' = "Authenticating"
             /\ auth' = child
    <3>1. ~(d <= now)
      BY <2>6 DEF AuthStart, AuthFail, AuthDormant
    <3>2. auth'.stage = "Handshaking" /\ auth'.round = 0 /\ auth'.deadline = d
      BY <2>6, <3>1 DEF AuthStart, AuthDormant
    <3>3. session' = [session EXCEPT !.phase = "Authenticating",
                                     !.stage = "Handshaking", !.deadline = d]
      BY <2>1, <2>2, <2>6, <3>1 DEF SessionApiVersionsWithAuthentication
    <3>4. /\ session'.phase = "Authenticating" /\ session'.stage = "Handshaking"
          /\ session'.deadline = d /\ session'.round = 0
      BY <2>1, <3>3 DEF TypeOK, SessionStates
    <3> QED BY <2>6, <3>2, <3>4 DEF MirrorInv, SessionMirrors, Active, Over, AuthTimed
  <2> QED BY <1>4, <2>3, <2>4, <2>5, <2>6 DEF ApiVersionsNegotiatedWithAuthentication
<1>5. ASSUME NEW e, NEW f, ApiVersionsFailed(e, f)
      PROVE  MirrorInv'
  <2>1. Fails("NegotiationFailed", f)
    BY <1>5 DEF ApiVersionsFailed, AwaitsApiVersions, SessionApiVersionsFailed,
                NegotiationFailed, Fails
  <2> QED BY <1>1, <2>1
<1>6. ASSUME NEW t, NegotiationDeadlineElapsed(t)
      PROVE  MirrorInv'
  <2>1. /\ session.phase = "Negotiating" /\ session.deadline = stage.deadline
        /\ session' = SessionDeadlineElapsed(session, now)
    BY <1>6 DEF NegotiationDeadlineElapsed, MirrorInv, SessionMirrors
  <2>2. now \in Int /\ stage.deadline \in Int
    BY MaxMomentAssumption DEF TypeOK, Moments, Stages
  <2>3. CASE now < stage.deadline
    <3>1. session' = session
      BY <2>1, <2>2, <2>3 DEF SessionDeadlineElapsed
    <3> QED BY <1>6, <2>3, <3>1, MirrorUntouched DEF NegotiationDeadlineElapsed
  <2>4. CASE ~(now < stage.deadline)
    <3>1. session' = SessionClose("NegotiationFailed", "Timeout")
      BY <2>1, <2>2, <2>4 DEF SessionDeadlineElapsed, SessionTakesDeadline
    <3> QED BY <1>6, <2>4, <3>1, MirrorCloses DEF NegotiationDeadlineElapsed, LeaveStage, Over
  <2> QED BY <2>3, <2>4
<1> QED BY <1>3, <1>4, <1>5, <1>6 DEF NegotiationInput

\* The session takes what the child took, round by round.
LEMMA MirrorAuthentication ==
  ASSUME TypeOK, MirrorInv, phase = "Authenticating",
         \/ AuthenticationInput
         \/ \E t \in Timers : AuthenticationDeadlineElapsed(t)
  PROVE  MirrorInv'
<1>1. /\ session.phase = "Authenticating" /\ session.stage = auth.stage
      /\ session.round = auth.round /\ session.deadline = auth.deadline
      /\ AuthTimed(auth)
  BY DEF MirrorInv, SessionMirrors
<1>2. auth \in AuthStates /\ session \in SessionStates
  BY DEF TypeOK
<1>3. ASSUME NEW f, session' = SessionClose("AuthenticationFailed", f),
             FollowChild(AuthFail(auth, f))
      PROVE  MirrorInv'
  <2>1. AuthFail(auth, f).stage = "Failed" /\ AuthFail(auth, f).failure = f
    BY <1>2 DEF AuthFail, AuthStates
  <2>2. phase' = "Closing" /\ reason' = Reason("AuthenticationFailed", f)
    BY <1>3, <2>1 DEF FollowChild, AuthTimed, LeaveStage
  <2> QED BY <1>3, <2>2, MirrorCloses DEF Over
<1>4. ASSUME NEW child, child.stage \in {"Handshaking", "Exchanging"},
             FollowChild(child),
             session'.phase = "Authenticating", session'.stage = child.stage,
             session'.round = child.round, session'.deadline = child.deadline
      PROVE  MirrorInv'
  <2>1. auth' = child /\ phase' = phase
    BY <1>4 DEF FollowChild
  <2> QED BY <1>4, <2>1 DEF MirrorInv, SessionMirrors, AuthTimed, Active, Over
<1>5. ASSUME NEW e, HandshakeAccepted(e)
      PROVE  MirrorInv'
  <2> DEFINE child == AuthHandshakeAccepted(auth)
  <2>1. child.stage = "Exchanging" /\ child.round = 1 /\ child.deadline = auth.deadline
    BY <1>2 DEF AuthHandshakeAccepted, AuthStates
  <2>2. session' = [session EXCEPT !.stage = "Exchanging", !.round = 1]
    BY <1>1, <1>5
    DEF HandshakeAccepted, SessionHandshakeSucceeded, SessionTakesHandshake
  <2>3. /\ session'.phase = "Authenticating" /\ session'.stage = "Exchanging"
        /\ session'.round = 1 /\ session'.deadline = auth.deadline
    BY <1>1, <1>2, <2>2 DEF SessionStates
  <2>4. FollowChild(child)
    BY <1>5 DEF HandshakeAccepted
  <2> HIDE DEF child
  <2> QED BY <1>4, <2>1, <2>3, <2>4
<1>6. ASSUME NEW e, NEW f, HandshakeFailed(e, f)
      PROVE  MirrorInv'
  BY <1>1, <1>3, <1>6 DEF HandshakeFailed, SessionAuthenticationFailed
<1>7. ASSUME NEW e, NEW r \in 1..MaxExchangeRounds, ExchangeContinued(e, r)
      PROVE  MirrorInv'
  <2> DEFINE child == AuthContinue(auth)
  <2>1. /\ auth.round = r /\ auth.stage = "Exchanging" /\ SessionTakesRound(session, r)
        /\ session' = SessionExchangeContinued(session, r) /\ FollowChild(child)
    BY <1>1, <1>7 DEF ExchangeContinued, AuthAwaitsRound, SessionTakesRound
  <2>2. CASE r + 1 > MaxExchangeRounds
    <3>1. child = AuthFail(auth, "TooManyRounds")
      BY <2>1, <2>2 DEF AuthContinue
    <3>2. session' = SessionClose("AuthenticationFailed", "TooManyRounds")
      BY <2>1, <2>2 DEF SessionExchangeContinued
    <3> QED BY <1>3, <2>1, <3>1, <3>2
  <2>3. CASE ~(r + 1 > MaxExchangeRounds)
    <3>1. child = [auth EXCEPT !.round = r + 1]
      BY <2>1, <2>3 DEF AuthContinue
    <3>2. session' = [session EXCEPT !.round = r + 1]
      BY <2>1, <2>3 DEF SessionExchangeContinued
    <3>3. child.stage = "Exchanging" /\ child.round = r + 1
          /\ child.deadline = auth.deadline
      BY <1>2, <2>1, <3>1 DEF AuthStates
    <3>4. /\ session'.phase = "Authenticating" /\ session'.stage = "Exchanging"
          /\ session'.round = r + 1 /\ session'.deadline = auth.deadline
      BY <1>1, <1>2, <2>1, <3>2 DEF SessionStates
    <3> HIDE DEF child
    <3> QED BY <1>4, <2>1, <3>3, <3>4
  <2> QED BY <2>2, <2>3
<1>8. ASSUME NEW e, NEW r, ExchangeSucceeded(e, r)
      PROVE  MirrorInv'
  <2>1. AuthSucceed(auth).stage = "Succeeded"
    BY <1>2 DEF AuthSucceed, AuthStates
  <2>2. phase' = "Ready" /\ session' = SessionReady
    BY <1>1, <1>8, <2>1
    DEF ExchangeSucceeded, AuthAwaitsRound, SessionExchangeSucceeded,
        SessionTakesRound, FollowChild, AuthTimed, BecomeReady
  <2> QED BY <2>2, SessionInitialFields DEF MirrorInv, SessionMirrors, Active, Over
<1>9. ASSUME NEW e, NEW r, NEW f, ExchangeFailed(e, r, f)
      PROVE  MirrorInv'
  BY <1>1, <1>3, <1>9
  DEF ExchangeFailed, AuthAwaitsRound, SessionExchangeFailed, SessionTakesRound,
      SessionAuthenticationFailed
<1>10. ASSUME NEW t, AuthenticationDeadlineElapsed(t)
       PROVE  MirrorInv'
  <2>1. now \in Int /\ auth.deadline \in Int
    BY MaxMomentAssumption DEF TypeOK, Moments, AuthStates
  <2>2. CASE now < auth.deadline
    <3>1. session' = session
      BY <1>1, <1>10, <2>1, <2>2 DEF AuthenticationDeadlineElapsed, SessionDeadlineElapsed
    <3> QED BY <1>10, <2>2, <3>1, MirrorUntouched DEF AuthenticationDeadlineElapsed
  <2>3. CASE ~(now < auth.deadline)
    <3>1. session' = SessionClose("AuthenticationFailed", "Timeout")
      BY <1>1, <1>10, <2>1, <2>3
      DEF AuthenticationDeadlineElapsed, SessionDeadlineElapsed, SessionTakesDeadline
    <3> QED BY <1>3, <1>10, <2>3, <3>1 DEF AuthenticationDeadlineElapsed
  <2> QED BY <2>2, <2>3
<1> QED BY <1>5, <1>6, <1>7, <1>8, <1>9, <1>10 DEF AuthenticationInput

\* Inputs of the calls: the session hears of protocol failures and of the
\* end of a drain, never of a write failure or of a deadline.
LEMMA MirrorCalls ==
  ASSUME TypeOK, MirrorInv, Submit \/ PendingInput \/ Response
  PROVE  MirrorInv'
<1>1. CASE Submit
  BY <1>1, MirrorUntouched
  DEF Submit, SubmitRefused, SubmitAdmitted, SubmitExhausted, machine
<1>2. ASSUME phase \in Active, NEW to \in Over, NEW k, NEW f, NEW x, NEW g,
             LeaveActive(to, k, f, x, g), UNCHANGED session
      PROVE  MirrorInv'
  <2>1. session'.phase \in Active /\ phase' \in Over
    BY <1>2 DEF MirrorInv, SessionMirrors, LeaveActive
  <2> QED BY <2>1, MirrorOver DEF Active, Over
<1>3. ASSUME phase \in Active, NEW f, NEW x, NEW g,
             NEW k \in {"UnexpectedResponse", "MalformedResponse", "CorrelationMismatch"},
             LeaveActive("Closing", k, f, x, g),
             session' = SessionProtocolFailed(session)
      PROVE  MirrorInv'
  <2>1. session' = SessionClose("ProtocolFailed", NoFailure)
    BY <1>3 DEF MirrorInv, SessionMirrors, SessionProtocolFailed, Active
  <2>2. session'.phase = "Closing" /\ session'.reason.kind = "ProtocolFailed"
    BY <2>1, SessionCloseFields
  <2>3. phase' = "Closing" /\ reason'.kind = k
    BY <1>3 DEF LeaveActive, Reason
  <2>4. SameReason'
    BY <2>2, <2>3 DEF SameReason
  <2> QED BY <2>2, <2>3, <2>4, MirrorOver DEF Over
<1>4. ASSUME phase \in Active, NEW i, NEW o, Settle(i, o)
      PROVE  MirrorInv'
  <2>1. CASE phase = "Draining" /\ Len(pending) = 1
    <3>1. session' = SessionClose("Drained", NoFailure) /\ phase' = "Closing"
          /\ reason' = Reason("Drained", NoFailure)
      BY <1>4, <2>1 DEF Settle, SessionDrained, MirrorInv, SessionMirrors, Active
    <3> QED BY <3>1, MirrorCloses DEF Over
  <2>2. CASE ~(phase = "Draining" /\ Len(pending) = 1)
    BY <1>4, <2>2, MirrorUntouched DEF Settle
  <2> QED BY <2>1, <2>2
<1>5. CASE PendingInput
  <2>1. PICK i \in DOMAIN pending :
          \/ WriteSubmitted(i)
          \/ AbortUnsentCall(i)
          \/ \E f \in TransportFailures : WriteFailed(i, f)
          \/ CallDeadlineElapsed(i)
    BY <1>5 DEF PendingInput
  <2>2. CASE WriteSubmitted(i)
    BY <2>2, MirrorUntouched DEF WriteSubmitted
  <2>3. CASE AbortUnsentCall(i)
    BY <1>4, <2>3 DEF AbortUnsentCall
  <2>4. CASE \E f \in TransportFailures : WriteFailed(i, f)
    BY <1>2, <2>4 DEF WriteFailed, Over
  <2>5. CASE CallDeadlineElapsed(i)
    <3>1. CASE now < pending[i].deadline
      BY <2>5, <3>1, MirrorUntouched DEF CallDeadlineElapsed
    <3>2. CASE ~(now < pending[i].deadline)
      BY <1>2, <2>5, <3>2 DEF CallDeadlineElapsed, Over
    <3> QED BY <3>1, <3>2
  <2> QED BY <2>1, <2>2, <2>3, <2>4, <2>5
<1>6. CASE Response
  BY <1>3, <1>4, <1>6 DEF Response, ResponseReceived, ResponseRejected
<1> QED BY <1>1, <1>5, <1>6

\* Drain and loss of the transport.
LEMMA MirrorEnds ==
  ASSUME TypeOK, MirrorInv, BeginDrain \/ \E f \in TransportFailures : TransportClosed(f)
  PROVE  MirrorInv'
<1>1. CASE BeginDrain
  <2>1. CASE phase \in {"Dormant", "Opening"}
    <3>1. session' = SessionInitial /\ phase' \in Over
      BY <1>1, <2>1 DEF BeginDrain, LeaveStage, MirrorInv, SessionMirrors, Over
    <3> QED BY <3>1, SessionInitialFields, MirrorOver DEF Over
  <2>2. CASE phase \in {"Negotiating", "Authenticating"}
    <3>1. session' = SessionClose("Requested", NoFailure) /\ phase' = "Closing"
          /\ reason' = Reason("Requested", NoFailure)
      BY <1>1, <2>2
      DEF BeginDrain, LeaveStage, MirrorInv, SessionMirrors, SessionBeginDrain
    <3> QED BY <3>1, MirrorCloses DEF Over
  <2>3. CASE phase = "Ready"
    <3>1. /\ SessionBeginDrain(session) = [session EXCEPT !.phase = "Draining"]
          /\ SessionBeginDrain(session).phase = "Draining"
      BY <2>3 DEF MirrorInv, SessionMirrors, Active, SessionBeginDrain, TypeOK, SessionStates
    <3>2. CASE pending = <<>>
      <4>1. session' = SessionClose("Drained", NoFailure) /\ phase' = "Closing"
            /\ reason' = Reason("Drained", NoFailure)
        BY <1>1, <2>3, <3>1, <3>2 DEF BeginDrain, LeaveActive, SessionDrained
      <4> QED BY <4>1, MirrorCloses DEF Over
    <3>3. CASE pending # <<>>
      BY <1>1, <2>3, <3>1, <3>3
      DEF BeginDrain, MirrorInv, SessionMirrors, Active, Over
    <3> QED BY <3>2, <3>3
  <2> QED BY <1>1, <2>1, <2>2, <2>3 DEF BeginDrain
<1>2. ASSUME NEW f \in TransportFailures, TransportClosed(f)
      PROVE  MirrorInv'
  <2>1. session' = SessionClosed(session) /\ phase' = "Closed"
    BY <1>2 DEF TransportClosed, LeaveStage, LeaveActive
  <2>2. SameReason'
    <3>1. CASE session.phase \in Over
      <4>1. phase \in Over /\ SameReason
        BY <3>1 DEF MirrorInv, SessionMirrors
      <4>2. reason' = reason
        BY <1>2, <4>1 DEF TransportClosed, Active, Over
      <4>3. session'.reason = session.reason
        BY <2>1, <3>1, SessionClosedFields
      <4> QED BY <4>1, <4>2, <4>3 DEF SameReason
    <3>2. CASE session.phase \notin Over
      BY <2>1, <3>2, SessionClosedFields DEF SameReason
    <3> QED BY <3>1, <3>2
  <2>3. session'.phase = "Closed"
    BY <2>1, SessionClosedFields
  <2> QED BY <2>1, <2>2, <2>3, MirrorOver DEF Over
<1> QED BY <1>1, <1>2

\* MirrorInv is inductive relative to TypeOK.
LEMMA MirrorStep == TypeOK /\ MirrorInv /\ [Next]_vars => MirrorInv'
<1> SUFFICES ASSUME TypeOK, MirrorInv, [Next]_vars
             PROVE  MirrorInv'
  OBVIOUS
<1>1. CASE OpeningInput
  BY <1>1, MirrorOpening
<1>2. CASE NegotiationInput
  BY <1>2, MirrorNegotiation
<1>3. CASE AuthenticationInput \/ \E t \in Timers : AuthenticationDeadlineElapsed(t)
  <2>1. phase = "Authenticating"
    BY <1>3 DEF AuthenticationInput, HandshakeAccepted, HandshakeFailed,
      ExchangeContinued, ExchangeSucceeded, ExchangeFailed,
      AuthenticationDeadlineElapsed
  <2> QED BY <1>3, <2>1, MirrorAuthentication
<1>4. CASE Submit \/ PendingInput \/ Response
  BY <1>4, MirrorCalls
<1>5. CASE BeginDrain \/ \E f \in TransportFailures : TransportClosed(f)
  BY <1>5, MirrorEnds
<1>6. CASE Tick \/ UNCHANGED vars
  BY <1>6, MirrorUntouched DEF Tick, vars, machine
<1> QED BY <1>1, <1>2, <1>3, <1>4, <1>5, <1>6 DEF Next

\* A new session waits for the transport of a new connection.
LEMMA MirrorInit == Init => MirrorInv
  BY SessionInitialFields DEF Init, MirrorInv, SessionMirrors, Active, Over

\* The KafkaSessionMachine and the connection that drives it agree on the
\* stage, on the deadline, on the round and on why they closed: neither of
\* the two copies of the deadline and of the round can drift.
THEOREM SessionFollows == Spec => []SessionMirrors
<1>1. Init => MirrorInv
  BY MirrorInit
<1>2. TypeOK /\ MirrorInv /\ [Next]_vars => MirrorInv'
  BY MirrorStep
<1>3. MirrorInv => SessionMirrors
  BY DEF MirrorInv
<1> QED BY <1>1, <1>2, <1>3, TypeCorrect, PTL DEF Spec
=============================================================================
