-------------------------- MODULE CoordinatorMachine --------------------------
(***************************************************************************)
(* One coordinator machine under every order of inputs its identities have *)
(* to fence.  Finds that were sent stay answerable: an answer may be late, *)
(* repeated, or belong to a superseded discovery.  Callers keep the routes *)
(* they were given; the failure of a call on such a route is stamped when  *)
(* it is observed and its invalidation is delivered at any later time, any *)
(* number of times.  Evidence and outcome stamps come from one counter     *)
(* (`CausalSequence`).                                                     *)
(***************************************************************************)
EXTENDS Coordinator

CONSTANTS
    MaxOp,      \* bound: discoveries the machine may start
    MaxStamp    \* bound: positions of the causal sequence

ASSUME MachineBounds == MaxOp \in Nat /\ MaxStamp \in Nat

VARIABLES
    machine,
    finds,      \* every Find sent: [op, epoch, evidence]
    failures,   \* observed failures of calls on a route: [target, observed]
    clock,      \* CausalSequence.next
    now,
    ops,        \* operation identities consumed
    history     \* what the properties remember; no transition reads it

vars == <<machine, finds, failures, clock, now, ops, history>>

\* served    every route that was current
\* floor     the least evidence a route may rest on after the withdrawals
\* installed the greatest epoch of a route that was current
NewHistory == [served |-> {}, floor |-> 0, installed |-> 0]

Init ==
    /\ machine = CoordinatorNew
    /\ finds = {}
    /\ failures = {}
    /\ clock = 1
    /\ now = 0
    /\ ops = 0
    /\ history = NewHistory

-------------------------------------------------------------------------------
(* The owner applies one transition: a Find begins at the next position of   *)
(* the causal sequence under the identity the input reserved.                *)

NextOp == ops + 1

Greater(a, b) == IF a >= b THEN a ELSE b

Effected(t) ==
    /\ machine' = t.machine
    /\ IF t.effect.kind = "Find"
       THEN /\ ops < MaxOp /\ clock < MaxStamp
            /\ finds' = finds \cup {[op |-> t.effect.op, epoch |-> t.effect.epoch,
                                     evidence |-> clock]}
            /\ ops' = NextOp
            /\ clock' = clock + 1
       ELSE UNCHANGED <<finds, ops, clock>>

Remember(t, floor) ==
    LET new == t.machine.current
    IN  history' =
          [served    |-> IF new = NoRoute THEN history.served
                         ELSE history.served \cup {new},
           floor     |-> Greater(history.floor, floor),
           installed |-> Greater(history.installed, new.epoch)]

Accepted(t) ==
    t.disposition # "IgnoredStale" /\ t.effect.kind # "EpochExhausted"

Apply(t) ==
    /\ Effected(t)
    /\ Remember(t, 0)
    /\ UNCHANGED <<failures, now>>

Demand == Apply(Resolve(machine, NextOp))

RefreshDemand == Apply(Refresh(machine, NextOp))

\* A call on a route that was handed out fails; its response is stamped.
CallFails(route) ==
    /\ clock < MaxStamp
    /\ failures' = failures \cup {[target |-> route.target, observed |-> clock]}
    /\ clock' = clock + 1
    /\ UNCHANGED <<machine, finds, now, ops, history>>

InvalidateFailure(f) ==
    LET t == Invalidate(machine, f.target, f.observed, NextOp)
    IN  /\ Effected(t)
        /\ Remember(t, IF Accepted(t) THEN f.observed + 1 ELSE 0)
        /\ UNCHANGED <<failures, now>>

WithdrawRoute(route) ==
    LET t == Withdraw(machine, route, NextOp)
    IN  /\ Effected(t)
        /\ Remember(t, IF Accepted(t) THEN clock ELSE 0)
        /\ UNCHANGED <<failures, now>>

FindSucceeds(f, target) ==
    Apply(Succeed(machine, f.op, f.epoch, target, f.evidence, NextOp))

FindFails(f) == Apply(Fail(machine, f.op, f.epoch, NextOp))

FindRejected(f) == Apply(Reject(machine, f.op, f.epoch, now, NextOp))

RetryTimer == Apply(RetryElapsed(machine, machine.op, machine.epoch, now, NextOp))

Tick ==
    /\ now < MaxMoment
    /\ now' = now + 1
    /\ UNCHANGED <<machine, finds, failures, clock, ops, history>>

Next ==
    \/ Demand
    \/ RefreshDemand
    \/ \E route \in history.served : CallFails(route)
    \/ \E f \in failures : InvalidateFailure(f)
    \/ \E route \in history.served : WithdrawRoute(route)
    \/ \E f \in finds, target \in Targets : FindSucceeds(f, target)
    \/ \E f \in finds : FindFails(f)
    \/ \E f \in finds : FindRejected(f)
    \/ RetryTimer
    \/ Tick

Spec == Init /\ [][Next]_vars

-------------------------------------------------------------------------------
(* Properties.                                                               *)

RouteSet == [target : Targets, epoch : Nat \ {0}, evidence : Nat \ {0}]

MachineSet ==
    [phase : Phases, current : RouteSet \cup {NoRoute}, op : Nat, epoch : Nat,
     followup : Followups, retries : Nat, at : Nat,
     revocation : [target : Targets, after : Nat] \cup {NoRevocation}]

\* Every component of the machine and its environment has its type.
MachineTypeOK ==
    /\ machine \in MachineSet
    /\ finds \subseteq [op : Nat \ {0}, epoch : Nat \ {0}, evidence : Nat \ {0}]
    /\ failures \subseteq [target : Targets, observed : Nat \ {0}]
    /\ clock \in Nat \ {0}
    /\ now \in Nat
    /\ ops \in Nat
    /\ history \in [served : SUBSET RouteSet, floor : Nat, installed : Nat]

\* CoordinatorMachine::revocation_pending: a withdrawn target is withdrawn only
\* while a discovery that can lift the withdrawal is under way, and nothing is
\* served meanwhile.
RevocationOwned ==
    machine.revocation # NoRevocation =>
        InDiscovery(machine) /\ machine.current = NoRoute

\* CoordinatorMachine::succeed: after a withdrawal was accepted, no route is
\* current that rests on a discovery begun before the failure was observed (or,
\* for a withdrawal without an observed failure, before the withdrawal), no
\* matter which discoveries were in flight and in which order they answer.
CausalRoute ==
    machine.current # NoRoute => machine.current.evidence >= history.floor

\* CoordinatorMachine::start: every route that becomes current bears an epoch
\* greater than every route before it, also across withdrawals and failures.
EpochsIncrease ==
    [][machine'.current \notin {NoRoute, machine.current}
        => machine'.current.epoch > history.installed]_vars
===============================================================================
