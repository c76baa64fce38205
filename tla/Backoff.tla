------------------------------- MODULE Backoff --------------------------------
(***************************************************************************)
(* The capped exponential delay with bounded jitter (`BackoffPolicy`) that *)
(* broker reconnection, endpoint refresh and bootstrap discovery share.   *)
(* Retry ordinals are one-based.                                           *)
(***************************************************************************)
EXTENDS Integers

CONSTANTS
    MaxRetry,       \* last representable RetryOrdinal (u32::MAX)
    BaseDelay,      \* BackoffPolicy.base_nanos
    MaxDelay        \* BackoffPolicy.max_nanos

ASSUME BackoffPolicyValid ==
    /\ MaxRetry \in Nat \ {0}
    /\ BaseDelay \in Nat \ {0}
    /\ MaxDelay \in Nat
    /\ BaseDelay <= MaxDelay

MaxShift == 63

Least(a, b) == IF a <= b THEN a ELSE b

\* The jitter-free ceiling of the delay before one retry.
DelayCap(retry) == Least(BaseDelay * 2^Least(retry - 1, MaxShift), MaxDelay)

DelayFloor(retry) == (DelayCap(retry) + 1) \div 2

Delay(retry, jitter) ==
    DelayFloor(retry) + (jitter % (DelayCap(retry) - DelayFloor(retry) + 1))
===============================================================================
