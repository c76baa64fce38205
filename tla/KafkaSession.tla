---------------------------- MODULE KafkaSession ----------------------------
(***************************************************************************)
(* Transport-independent Kafka session policy                              *)
(* (kafka-driver-core, connection/session/): ApiVersions negotiation, SASL *)
(* stages, drain and close.  Each input is a function from the session     *)
(* state to the next one and returns its argument where the code answers   *)
(* Ignored or IgnoredStale.  The owner of the session applies them; the    *)
(* effects it ignores are left out.                                        *)
(***************************************************************************)
EXTENDS SaslAuthentication

CONSTANTS
  HasPolicy,           \* whether an AuthenticationPolicy is configured
  MaxCapabilities,     \* KafkaSessionLimits::max_capabilities
  NegotiationFailures  \* NegotiationFailure values the model distinguishes

ASSUME HasPolicyAssumption == HasPolicy \in BOOLEAN

ASSUME MaxCapabilitiesAssumption == MaxCapabilities \in Nat \ {0}

ASSUME NegotiationFailuresAssumption ==
  {"Timeout", "Capacity"} \subseteq NegotiationFailures

SessionPhases ==
  {"AwaitingTransport", "Negotiating", "Authenticating", "Ready", "Draining",
   "Closing", "Closed"}

\* A negotiated capability set: how many APIs it holds, and whether it names
\* a version for both SASL APIs of the policy.
Capabilities == [len : 0..(MaxCapabilities + 1), sasl : BOOLEAN]

Reason(kind, cause) == [kind |-> kind, cause |-> cause]

NoReason == Reason("None", NoFailure)

SessionInitial ==
  [phase |-> "AwaitingTransport", stage |-> "Dormant", round |-> 0,
   deadline |-> 0, reason |-> NoReason]

\* KafkaSessionMachine::close: stage data is dropped with the state.
SessionClose(kind, cause) ==
  [SessionInitial EXCEPT !.phase = "Closing", !.reason = Reason(kind, cause)]

SessionReady == [SessionInitial EXCEPT !.phase = "Ready"]

SessionTransportOpened(s, now, d) ==
  CASE s.phase # "AwaitingTransport" -> s
    [] s.phase = "AwaitingTransport" /\ d <= now ->
         SessionClose("NegotiationFailed", "Timeout")
    [] OTHER -> [s EXCEPT !.phase = "Negotiating", !.deadline = d]

SessionApiVersionsSucceeded(s, caps) ==
  CASE s.phase # "Negotiating" -> s
    [] s.phase = "Negotiating" /\ caps.len > MaxCapabilities ->
         SessionClose("NegotiationFailed", "Capacity")
    [] s.phase = "Negotiating" /\ caps.len <= MaxCapabilities /\ HasPolicy ->
         SessionClose("AuthenticationFailed", "Protocol")
    [] OTHER -> SessionReady

SessionApiVersionsWithAuthentication(s, caps, now, d) ==
  CASE s.phase # "Negotiating" -> s
    [] s.phase = "Negotiating" /\ caps.len > MaxCapabilities ->
         SessionClose("NegotiationFailed", "Capacity")
    [] s.phase = "Negotiating" /\ caps.len <= MaxCapabilities
         /\ ~(HasPolicy /\ caps.sasl) ->
         SessionClose("AuthenticationFailed", "Protocol")
    [] s.phase = "Negotiating" /\ caps.len <= MaxCapabilities
         /\ HasPolicy /\ caps.sasl /\ d <= now ->
         SessionClose("AuthenticationFailed", "Timeout")
    [] OTHER -> [s EXCEPT !.phase = "Authenticating", !.stage = "Handshaking",
                          !.deadline = d]

SessionApiVersionsFailed(s, f) ==
  IF s.phase = "Negotiating" THEN SessionClose("NegotiationFailed", f) ELSE s

SessionAuthenticationFailed(s, f) ==
  IF s.phase = "Authenticating"
    THEN SessionClose("AuthenticationFailed", f) ELSE s

\* Whether the session takes a handshake success, an exchange answer or an
\* elapsed deadline instead of answering IgnoredStale.
SessionTakesHandshake(s) ==
  s.phase = "Authenticating" /\ s.stage = "Handshaking"

SessionTakesRound(s, r) ==
  s.phase = "Authenticating" /\ s.stage = "Exchanging" /\ s.round = r

SessionTakesDeadline(s) == s.phase \in {"Negotiating", "Authenticating"}

SessionHandshakeSucceeded(s) ==
  IF SessionTakesHandshake(s)
    THEN [s EXCEPT !.stage = "Exchanging", !.round = 1] ELSE s

SessionExchangeContinued(s, r) ==
  CASE ~SessionTakesRound(s, r) -> s
    [] SessionTakesRound(s, r) /\ r + 1 > MaxExchangeRounds ->
         SessionClose("AuthenticationFailed", "TooManyRounds")
    [] OTHER -> [s EXCEPT !.round = r + 1]

SessionExchangeSucceeded(s, r) ==
  IF SessionTakesRound(s, r) THEN SessionReady ELSE s

SessionExchangeFailed(s, r, f) ==
  IF SessionTakesRound(s, r) THEN SessionAuthenticationFailed(s, f) ELSE s

SessionDeadlineElapsed(s, now) ==
  CASE ~SessionTakesDeadline(s) \/ now < s.deadline -> s
    [] s.phase = "Negotiating" /\ now >= s.deadline ->
         SessionClose("NegotiationFailed", "Timeout")
    [] OTHER -> SessionClose("AuthenticationFailed", "Timeout")

SessionBeginDrain(s) ==
  CASE s.phase \in {"AwaitingTransport", "Negotiating", "Authenticating"} ->
         SessionClose("Requested", NoFailure)
    [] s.phase = "Ready" -> [s EXCEPT !.phase = "Draining"]
    [] OTHER -> s

SessionDrained(s) ==
  IF s.phase = "Draining" THEN SessionClose("Drained", NoFailure) ELSE s

SessionProtocolFailed(s) ==
  IF s.phase \in {"Closing", "Closed"}
    THEN s ELSE SessionClose("ProtocolFailed", NoFailure)

SessionClosed(s) ==
  CASE s.phase = "Closed" -> s
    [] s.phase = "Closing" -> [s EXCEPT !.phase = "Closed"]
    [] OTHER -> [SessionClose("TransportClosed", NoFailure)
                   EXCEPT !.phase = "Closed"]

=============================================================================
