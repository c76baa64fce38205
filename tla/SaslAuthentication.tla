------------------------- MODULE SaslAuthentication -------------------------
(***************************************************************************)
(* The secret-free SASL child of one connection epoch                      *)
(* (kafka-driver-core, authentication/): a mechanism handshake followed by *)
(* a bounded number of challenge-response rounds, all under one deadline.  *)
(* The machine is a set of functions from a child state to the next one;   *)
(* the connection that owns the child decides when each of them runs.      *)
(* All rounds of an attempt reuse one effect identity, so a late answer is *)
(* fenced by its round number alone.                                       *)
(***************************************************************************)
EXTENDS Naturals

CONSTANTS
  MaxExchangeRounds,   \* AuthenticationLimits::max_exchange_rounds, a NonZeroU8
  AuthFailures,        \* AuthenticationFailure values the model distinguishes
  NoId                 \* the absent identity

ASSUME MaxExchangeRoundsAssumption == MaxExchangeRounds \in 1..255

ASSUME AuthFailuresAssumption ==
  {"Timeout", "TooManyRounds", "Protocol"} \subseteq AuthFailures

AuthStages == {"Dormant", "Handshaking", "Exchanging", "Succeeded", "Failed"}

NoFailure == "NoFailure"

AuthDormant ==
  [stage |-> "Dormant", effect |-> NoId, round |-> 0, timer |-> NoId,
   deadline |-> 0, failure |-> NoFailure]

AuthFail(a, f) == [a EXCEPT !.stage = "Failed", !.failure = f]

\* A stage that owns the attempt's deadline timer.
AuthTimed(a) == a.stage \in {"Handshaking", "Exchanging"}

AuthStart(e, t, now, d) ==
  IF d <= now
    THEN AuthFail(AuthDormant, "Timeout")
    ELSE [AuthDormant EXCEPT !.stage = "Handshaking", !.effect = e,
                             !.timer = t, !.deadline = d]

AuthHandshakeAccepted(a) == [a EXCEPT !.stage = "Exchanging", !.round = 1]

\* Whether an exchange answer names the round the child is waiting for.
AuthAwaitsRound(a, e, r) ==
  a.stage = "Exchanging" /\ a.effect = e /\ a.round = r

\* Variant: the last permitted round is refused.
AuthContinueShort(a) ==
  IF a.round + 1 >= MaxExchangeRounds
    THEN AuthFail(a, "TooManyRounds")
    ELSE [a EXCEPT !.round = @ + 1]

AuthContinue(a) ==
  IF a.round + 1 > MaxExchangeRounds
    THEN AuthFail(a, "TooManyRounds")
    ELSE [a EXCEPT !.round = @ + 1]

AuthSucceed(a) == [a EXCEPT !.stage = "Succeeded"]

=============================================================================
