------------------------------ MODULE WaitingRoom ------------------------------
(***************************************************************************)
(* What waiting for a route promises, without the indices that keep it: a  *)
(* call waits at most once, leaves with one outcome, is admitted only from *)
(* the front, and is turned away out of order only when its time is up or  *)
(* when it asked not to outlive a failure of its route.                    *)
(***************************************************************************)
CONSTANTS Calls, Rejecting

VARIABLES waiting,   \* the calls in the room
          before,    \* who entered before whom, among those
          outcome    \* how each call left; "None" before it does

vars == <<waiting, before, outcome>>

Init ==
    /\ waiting = {}
    /\ before = {}
    /\ outcome = [c \in Calls |-> "None"]

Fresh(c) == c \notin waiting /\ outcome[c] = "None"

Enter(c) ==
    /\ Fresh(c)
    /\ waiting' = waiting \cup {c}
    /\ before' = before \cup (waiting \X {c})
    /\ UNCHANGED outcome

TurnAway(c) ==
    /\ Fresh(c)
    /\ outcome' = [outcome EXCEPT ![c] = "Refused"]
    /\ UNCHANGED <<waiting, before>>

First(c) == \A b \in waiting : <<b, c>> \notin before

Leaves(c, how) ==
    /\ c \in waiting
    /\ waiting' = waiting \ {c}
    /\ before' = {p \in before : p[1] # c /\ p[2] # c}
    /\ outcome' = [outcome EXCEPT ![c] = how]

AdmitFirst(c) == First(c) /\ Leaves(c, "Admitted")

FailFirst(c) == First(c) /\ Leaves(c, "Failed")

Expire(c) == Leaves(c, "Expired")

Reject(c) == c \in Rejecting /\ Leaves(c, "Rejected")

FailEveryone ==
    /\ waiting # {}
    /\ outcome' = [c \in Calls |-> IF c \in waiting THEN "Failed" ELSE outcome[c]]
    /\ waiting' = {}
    /\ before' = {}

Next ==
    \/ FailEveryone
    \/ \E c \in Calls : \/ Enter(c) \/ TurnAway(c) \/ AdmitFirst(c)
                        \/ FailFirst(c) \/ Expire(c) \/ Reject(c)

Spec == Init /\ [][Next]_vars

===============================================================================
