--------------------------- MODULE BrokerResolution ---------------------------
(* The name-resolution policy of one broker identity                          *)
(* (kafka-driver-core, broker_resolution): at most one lookup is current, and *)
(* an answer is applied only when its epoch and its effect are those of the   *)
(* lookup the machine is waiting for.  A route is [broker, gen, endpoint]: the *)
(* broker and the directory generation name it, the endpoint is what that     *)
(* generation advertises for it.                                              *)
EXTENDS Integers

NewResolution(broker) ==
    [broker |-> broker, phase |-> "Dormant", route |-> [broker |-> broker, gen |-> 0],
     epoch |-> 0, effect |-> 0]

Unmoved(m) == [machine |-> m, effect |-> "None"]

Moved(m, effect) == [machine |-> m, effect |-> effect]

\* Whether the machine already holds a route or a lookup this demand may not replace.
Outranked(m, route, epoch) ==
    /\ m.phase # "Dormant"
    /\ route.gen < m.route.gen \/ epoch <= m.epoch

Start(m, route, epoch, effect) ==
    IF route.broker # m.broker \/ Outranked(m, route, epoch)
    THEN Unmoved(m)
    ELSE Moved([m EXCEPT !.phase = "Resolving", !.route = route,
                         !.epoch = epoch, !.effect = effect],
               "Resolve")

\* Variant: any answer counts for the lookup the machine waits for.
AnswersAny(m, epoch, effect) == m.phase = "Resolving"

\* Whether the answer is the one the machine waits for.
Answers(m, epoch, effect) ==
    m.phase = "Resolving" /\ epoch = m.epoch /\ effect = m.effect

\* An applied answer releases the effect; a stale one leaves the machine alone.
Complete(m, epoch, effect, ok) ==
    IF ~Answers(m, epoch, effect)
    THEN Unmoved(m)
    ELSE LET phase == IF ok THEN "Resolved" ELSE "Failed"
         IN  Moved([m EXCEPT !.phase = phase, !.effect = 0], phase)
===============================================================================
