--------------------------- MODULE CoordinatorProofs ---------------------------
(***************************************************************************)
(* The types, the causal order of routes and the growth of epochs, for     *)
(* every set of targets, every retry bound and any number of discoveries.  *)
(*                                                                         *)
(* The machine is a function, so the argument is about its operators: one  *)
(* lemma for each input shows that the transition it yields is Sound, and  *)
(* one lemma about the environment that a Sound transition keeps the       *)
(* invariant.                                                              *)
(***************************************************************************)
EXTENDS CoordinatorMachine, TLAPS

\* The answer to the discovery under way is not installed on its evidence alone.
Guarded(m) == m.followup = "Revocation" \/ m.revocation # NoRevocation

\* What a machine knows of the withdrawals (floor) and of its past (installed).
Local(m, floor, installed) ==
    /\ m.revocation # NoRevocation =>
          /\ InDiscovery(m) /\ m.current = NoRoute
          /\ floor <= m.revocation.after + 1
    /\ m.current # NoRoute =>
          m.current.evidence >= floor /\ m.current.epoch = installed
    /\ m.phase = "Unknown" => m.current = NoRoute
    /\ m.phase = "Ready" => m.current # NoRoute
    /\ m.phase # "Ready" => m.epoch > installed

\* A Find belongs to the discovery that the machine begins with it.
Began(t, next) ==
    /\ t.machine.phase = "Discovering"
    /\ t.machine.op = next /\ t.effect.op = next
    /\ t.machine.epoch = t.effect.epoch

\* Without a Find a discovery goes on as it was, guarded if the floor rose.
Carried(m, t, floor, raised) ==
    t.machine.phase = "Discovering" =>
        /\ m.phase = "Discovering"
        /\ m.op = t.machine.op /\ m.epoch = t.machine.epoch
        /\ Guarded(m) \/ raised > floor => Guarded(t.machine)

Sound(m, t, next, floor, raised, installed) ==
    /\ t.machine \in MachineSet
    /\ Local(t.machine, raised, Greater(installed, t.machine.current.epoch))
    /\ t.machine.current \notin {NoRoute, m.current} =>
          t.machine.current.epoch > installed
    /\ t.effect.kind = "Find" => Began(t, next)
    /\ t.effect.kind # "Find" => Carried(m, t, floor, raised)

-------------------------------------------------------------------------------
(* The building blocks of transitions.                                       *)

\* Absent routes and revocations differ from every present one.
LEMMA AbsentValues ==
    /\ NoRoute \notin RouteSet
    /\ NoRoute.target = NoTarget /\ NoRoute.epoch = 0 /\ NoRoute.evidence = 0
    /\ NoRevocation.target = NoTarget /\ NoRevocation.after = 0
    /\ NoRevocation \notin [target : Targets, after : Nat]
    /\ \A r \in RouteSet : r.target \in Targets /\ r.target # NoTarget
    /\ \A r \in [target : Targets, after : Nat] : r.target # NoTarget
  BY CoordinatorBounds DEF NoRoute, NoRevocation, Route, RouteSet


Revocations == [target : Targets, after : Nat] \cup {NoRevocation}

\* What Unknown, Ready and Start build.
LEMMA UnknownFacts ==
    ASSUME NEW epoch \in Nat
    PROVE  LET u == Unknown(epoch)
           IN  /\ u \in MachineSet
               /\ u.phase = "Unknown" /\ u.current = NoRoute /\ u.epoch = epoch
               /\ u.followup = "None" /\ u.revocation = NoRevocation
  BY DEF Unknown, MachineSet, Phases, Followups

LEMMA ReadyFacts ==
    ASSUME NEW m \in MachineSet, NEW route \in RouteSet
    PROVE  LET r == Ready(m, route)
           IN  /\ r \in MachineSet
               /\ r.phase = "Ready" /\ r.current = route
               /\ r.followup = "None" /\ r.revocation = m.revocation
<1>1. Unknown(0) \in MachineSet /\ Unknown(0).followup = "None"
  BY UnknownFacts
<1> QED
  BY <1>1 DEF Ready, MachineSet, Phases

LEMMA StartFacts ==
    ASSUME NEW m \in MachineSet, NEW current \in RouteSet \cup {NoRoute},
           NEW op \in Nat, NEW epoch \in Nat
    PROVE  LET t == Start(m, current, op, epoch)
           IN  /\ t.machine \in MachineSet
               /\ t.machine.phase = "Discovering" /\ t.machine.current = current
               /\ t.machine.op = op /\ t.machine.epoch = epoch
               /\ t.machine.followup = "None"
               /\ t.machine.revocation = m.revocation
               /\ t.effect.kind = "Find" /\ t.effect.op = op
               /\ t.effect.epoch = epoch
<1>1. Unknown(epoch) \in MachineSet /\ Unknown(epoch).epoch = epoch
      /\ Unknown(epoch).followup = "None"
  BY UnknownFacts
<1> QED
  BY <1>1 DEF Start, Transition, Find, MachineSet, Phases

\* A transition without a Find: its machine and the kind of its effect.
LEMMA QuietFacts ==
    ASSUME NEW m
    PROVE  \A t \in {Applied(m), Known(m), Coalesced(m), Queued(m), Stale(m),
                     Wait(m), Exhausted(m)} :
               t.machine = m /\ t.effect.kind # "Find"
  BY DEF Applied, Known, Coalesced, Queued, Stale, Wait, Exhausted, Transition,
         NoEffect, WaitUntil

-------------------------------------------------------------------------------
(* Every input yields a Sound transition.                                    *)

\* A transition that keeps the machine, and the floor unless a revocation holds it.
LEMMA UnchangedSound ==
    ASSUME NEW m \in MachineSet, NEW t, NEW next, NEW floor \in Nat,
           NEW raised \in Nat, NEW installed \in Nat,
           Local(m, floor, installed), t.machine = m, t.effect.kind # "Find",
           \/ raised = floor
           \/ m.revocation # NoRevocation /\ raised <= m.revocation.after + 1
    PROVE  Sound(m, t, next, floor, raised, installed)
<1>1. m.current.epoch \in Nat
  BY AbsentValues DEF MachineSet, RouteSet
<1>2. Local(m, raised, Greater(installed, m.current.epoch))
  BY <1>1, AbsentValues DEF Local, Greater, MachineSet, RouteSet
<1>3. Carried(m, t, floor, raised)
  BY DEF Carried, Guarded
<1> QED
  BY <1>2, <1>3 DEF Sound

\* A discovery started from scratch or behind the current route.
LEMMA StartSound ==
    ASSUME NEW m \in MachineSet, NEW old, NEW current \in RouteSet \cup {NoRoute},
           NEW next \in Nat, NEW epoch \in Nat, NEW floor \in Nat,
           NEW raised \in Nat, NEW installed \in Nat,
           epoch > installed,
           current # NoRoute =>
               /\ current.evidence >= raised /\ current.epoch >= installed
               /\ current.epoch < epoch /\ m.revocation = NoRevocation
               /\ current = old.current \/ current.epoch > installed,
           m.revocation # NoRevocation => raised <= m.revocation.after + 1
    PROVE  Sound(old, Start(m, current, next, epoch), next, floor, raised, installed)
<1> DEFINE t == Start(m, current, next, epoch)
<1>1. /\ t.machine \in MachineSet
      /\ t.machine.phase = "Discovering" /\ t.machine.current = current
      /\ t.machine.op = next /\ t.machine.epoch = epoch
      /\ t.machine.followup = "None" /\ t.machine.revocation = m.revocation
      /\ t.effect.kind = "Find" /\ t.effect.op = next /\ t.effect.epoch = epoch
  BY StartFacts
<1> HIDE DEF t
<1>2. current.epoch \in Nat
  BY AbsentValues DEF RouteSet
<1>3. Local(t.machine, raised, Greater(installed, current.epoch))
  BY <1>1, <1>2, AbsentValues DEF Local, Greater, InDiscovery
<1>4. Sound(old, t, next, floor, raised, installed)
  BY <1>1, <1>3 DEF Sound, Began
<1> QED
  BY <1>4 DEF t

LEMMA ResolveSound ==
    ASSUME NEW m \in MachineSet, NEW next \in Nat, NEW floor \in Nat,
           NEW installed \in Nat, Local(m, floor, installed)
    PROVE  Sound(m, Resolve(m, next), next, floor, floor, installed)
<1>1. CASE m.phase = "Unknown"
  <2>1. Resolve(m, next) = Start(m, NoRoute, next, m.epoch)
    BY <1>1 DEF Resolve, InDiscovery
  <2>2. m.epoch \in Nat /\ m.epoch > installed /\ m.revocation = NoRevocation
    BY <1>1 DEF Local, InDiscovery, MachineSet
  <2> QED
    BY <2>1, <2>2, StartSound
<1>2. CASE m.phase # "Unknown"
  <2>1. Resolve(m, next) \in {Coalesced(m), Known(m)}
    BY <1>2 DEF Resolve, InDiscovery, MachineSet, Phases
  <2>2. Resolve(m, next).machine = m /\ Resolve(m, next).effect.kind # "Find"
    BY <2>1, QuietFacts
  <2> QED
    BY <2>2, UnchangedSound
<1> QED
  BY <1>1, <1>2

\* SupersedeDiscovery guards the discovery under way and serves nothing.
LEMMA SupersedeSound ==
    ASSUME NEW m \in MachineSet, NEW revocation \in Revocations, NEW next,
           NEW floor \in Nat, NEW raised \in Nat, NEW installed \in Nat,
           Local(m, floor, installed), InDiscovery(m),
           revocation # NoRevocation => raised <= revocation.after + 1
    PROVE  Sound(m, SupersedeDiscovery(m, revocation), next, floor, raised, installed)
<1> DEFINE w == [m EXCEPT !.current = NoRoute, !.followup = "Revocation",
                          !.revocation = revocation]
           t == SupersedeDiscovery(m, revocation)
<1>1. t.machine = w /\ t.effect.kind # "Find"
  BY QuietFacts DEF SupersedeDiscovery
<1>2. /\ w \in MachineSet
      /\ w.phase = m.phase /\ w.op = m.op /\ w.epoch = m.epoch
      /\ w.current = NoRoute /\ w.followup = "Revocation"
      /\ w.revocation = revocation
  BY DEF MachineSet, Followups, Revocations
<1> HIDE DEF w, t
<1>3. Greater(installed, w.current.epoch) = installed
  BY <1>2, AbsentValues DEF Greater
<1>4. Local(w, raised, installed)
  BY <1>2 DEF Local, InDiscovery
<1>5. Carried(m, t, floor, raised)
  BY <1>1, <1>2 DEF Carried, Guarded
<1>6. Sound(m, t, next, floor, raised, installed)
  BY <1>1, <1>2, <1>3, <1>4, <1>5 DEF Sound
<1> QED
  BY <1>6 DEF t

\* Refresh, also for a machine whose revocation Invalidate has just renewed (w).
LEMMA RefreshSound ==
    ASSUME NEW m \in MachineSet, NEW w \in MachineSet, NEW next \in Nat,
           NEW floor \in Nat, NEW raised \in Nat, NEW installed \in Nat,
           Local(w, raised, installed),
           w.phase = m.phase, w.current = m.current, w.op = m.op,
           w.epoch = m.epoch, w.followup = m.followup,
           w = m \/ w.revocation # NoRevocation,
           raised = floor \/ w.revocation # NoRevocation
    PROVE  Sound(m, Refresh(w, next), next, floor, raised, installed)
<1>0. w.epoch \in Nat /\ w.current.epoch \in Nat
  BY AbsentValues DEF MachineSet, RouteSet
<1>1. CASE w.phase = "Unknown"
  <2>1. Refresh(w, next) = Start(w, NoRoute, next, w.epoch)
    BY <1>1 DEF Refresh, InDiscovery
  <2>2. w.epoch > installed /\ w.revocation = NoRevocation
    BY <1>1 DEF Local, InDiscovery
  <2>3. Sound(m, Start(w, NoRoute, next, w.epoch), next, floor, raised, installed)
    BY <1>0, <2>2, StartSound
  <2> QED
    BY <2>1, <2>3
<1>2. CASE w.phase = "Ready" /\ w.current.epoch # MaxEpoch
  <2>1. Refresh(w, next) = Start(w, w.current, next, w.current.epoch + 1)
    BY <1>2 DEF Refresh, InDiscovery
  <2>2. /\ w.current \in RouteSet /\ w.revocation = NoRevocation
        /\ w.current.evidence >= raised /\ w.current.epoch = installed
    BY <1>2 DEF Local, InDiscovery, MachineSet
  <2>3. w.current.epoch + 1 \in Nat /\ w.current.epoch + 1 > installed
        /\ w.current.epoch < w.current.epoch + 1
    BY <1>0, <2>2
  <2>4. Sound(m, Start(w, w.current, next, w.current.epoch + 1), next, floor,
              raised, installed)
    BY <2>2, <2>3, StartSound
  <2> QED
    BY <2>1, <2>4
<1>3. CASE w.phase = "Ready" /\ w.current.epoch = MaxEpoch
  <2>1. Refresh(w, next) = Exhausted(w)
    BY <1>3 DEF Refresh, InDiscovery
  <2>2. w = m /\ raised = floor
    BY <1>3 DEF Local, InDiscovery
  <2>3. Exhausted(w).machine = m /\ Exhausted(w).effect.kind # "Find"
    BY <2>2, QuietFacts
  <2> QED
    BY <2>1, <2>2, <2>3, UnchangedSound
<1>4. CASE InDiscovery(w)
  <2> DEFINE q == [w EXCEPT !.followup = "Refresh"]
             t == Refresh(w, next)
  <2>1. /\ w.followup # "None" => t = Coalesced(w)
        /\ w.followup = "None" => t = Queued(q)
    BY <1>4 DEF Refresh, InDiscovery
  <2>2. /\ w.followup # "None" => t.machine = w
        /\ w.followup = "None" => t.machine = q
        /\ t.effect.kind # "Find"
    BY <2>1, QuietFacts
  <2>3. /\ q \in MachineSet /\ q.phase = w.phase /\ q.current = w.current
        /\ q.op = w.op /\ q.epoch = w.epoch /\ q.followup = "Refresh"
        /\ q.revocation = w.revocation
    BY DEF MachineSet, Followups
  <2> HIDE DEF q, t
  <2>4. /\ t.machine \in MachineSet /\ t.machine.phase = w.phase
        /\ t.machine.current = w.current /\ t.machine.op = w.op
        /\ t.machine.epoch = w.epoch /\ t.machine.revocation = w.revocation
        /\ w.followup = "Revocation" => t.machine.followup = "Revocation"
    BY <2>2, <2>3
  <2>5. Local(t.machine, raised, Greater(installed, t.machine.current.epoch))
    BY <1>0, <1>4, <2>4, AbsentValues DEF Local, Greater, InDiscovery, MachineSet
  <2>6. Carried(m, t, floor, raised)
    BY <2>4 DEF Carried, Guarded
  <2>7. Sound(m, t, next, floor, raised, installed)
    BY <2>2, <2>4, <2>5, <2>6 DEF Sound
  <2> QED
    BY <2>7 DEF t
<1> QED
  BY <1>1, <1>2, <1>3, <1>4 DEF InDiscovery, MachineSet, Phases

\* Invalidate raises the floor past the observed failure when it is accepted.
LEMMA InvalidateSound ==
    ASSUME NEW m \in MachineSet, NEW target \in Targets, NEW observed \in Nat,
           NEW next \in Nat, NEW floor \in Nat, NEW raised \in Nat,
           NEW installed \in Nat, Local(m, floor, installed),
           raised = IF Accepted(Invalidate(m, target, observed, next))
                    THEN Greater(floor, observed + 1) ELSE floor
    PROVE  Sound(m, Invalidate(m, target, observed, next), next, floor, raised,
                 installed)
<1> DEFINE revocation == [target |-> target, after |-> observed]
           w == [m EXCEPT !.revocation = revocation]
           t == Invalidate(m, target, observed, next)
<1>1. /\ revocation \in Revocations /\ revocation.after = observed
      /\ revocation # NoRevocation
  BY CoordinatorBounds DEF Revocations, NoRevocation
<1> HIDE DEF revocation
<1>2. /\ w \in MachineSet /\ w.phase = m.phase /\ w.current = m.current
      /\ w.op = m.op /\ w.epoch = m.epoch /\ w.followup = m.followup
      /\ w.revocation = revocation
  BY <1>1 DEF MachineSet, Revocations
<1>3. raised >= floor /\ (raised = floor \/ raised = observed + 1)
  BY DEF Greater
<1>4. /\ m.revocation \in Revocations /\ m.current \in RouteSet \cup {NoRoute}
      /\ m.current.epoch \in Nat /\ m.current.evidence \in Nat
  BY AbsentValues DEF MachineSet, RouteSet, Revocations
<1>5. CASE m.revocation.target = target
  <2>1. m.revocation # NoRevocation /\ m.revocation.after \in Nat
    BY <1>4, <1>5, AbsentValues, CoordinatorBounds DEF Revocations
  <2>2. /\ InDiscovery(m) /\ m.current = NoRoute
        /\ floor <= m.revocation.after + 1
    BY <2>1 DEF Local
  <2>3. CASE observed <= m.revocation.after
    <3>1. t = Coalesced(m)
      BY <1>5, <2>3 DEF Invalidate
    <3>2. t.machine = m /\ t.effect.kind # "Find"
      BY <3>1, QuietFacts
    <3>3. raised <= m.revocation.after + 1
      BY <1>3, <2>1, <2>2, <2>3
    <3> QED
      BY <2>1, <3>2, <3>3, UnchangedSound
  <2>4. CASE ~(observed <= m.revocation.after)
    <3>1. t = Refresh(w, next)
      BY <1>5, <2>4 DEF Invalidate, revocation
    <3>2. raised <= revocation.after + 1
      BY <1>1, <1>3, <2>1, <2>2, <2>4
    <3>3. Local(w, raised, installed)
      BY <1>2, <2>2, <3>2 DEF Local, InDiscovery
    <3>4. Sound(m, Refresh(w, next), next, floor, raised, installed)
      <4> HIDE DEF w
      <4> QED  BY <1>1, <1>2, <3>3, RefreshSound
    <3> QED
      BY <3>1, <3>4
  <2> QED
    BY <2>3, <2>4
<1>6. CASE m.revocation.target # target /\ ~Refuted(m, target, observed)
  <2>1. t = Stale(m)
    BY <1>6 DEF Invalidate
  <2>2. t.machine = m /\ t.effect.kind # "Find"
    BY <2>1, QuietFacts
  <2>3. raised = floor
    BY <2>1 DEF Accepted, Stale, Transition
  <2> QED
    BY <2>2, <2>3, UnchangedSound
<1>7. CASE m.revocation.target # target /\ Refuted(m, target, observed)
  <2>1. m.current # NoRoute /\ m.current.evidence <= observed
    BY <1>7, AbsentValues, CoordinatorBounds DEF Refuted
  <2>2. /\ m.current.epoch = installed /\ floor <= observed
        /\ m.phase # "Unknown"
    BY <1>4, <2>1 DEF Local
  <2>3. raised <= observed + 1
    BY <1>3, <2>2
  <2>4. CASE InDiscovery(m)
    <3>1. t = SupersedeDiscovery(m, revocation)
      BY <1>7, <2>4 DEF Invalidate, revocation
    <3>2. Sound(m, SupersedeDiscovery(m, revocation), next, floor, raised, installed)
      BY <1>1, <2>3, <2>4, SupersedeSound
    <3> QED
      BY <3>1, <3>2
  <2>5. CASE ~InDiscovery(m) /\ m.current.epoch = MaxEpoch
    <3>1. t = Exhausted(m)
      BY <1>7, <2>5 DEF Invalidate
    <3>2. t.machine = m /\ t.effect.kind # "Find"
      BY <3>1, QuietFacts
    <3>3. raised = floor
      BY <3>1 DEF Accepted, Exhausted, Transition, NoEffect
    <3> QED
      BY <3>2, <3>3, UnchangedSound
  <2>6. CASE ~InDiscovery(m) /\ m.current.epoch # MaxEpoch
    <3>1. t = Start(w, NoRoute, next, m.current.epoch + 1)
      BY <1>7, <2>6 DEF Invalidate, revocation
    <3>2. m.current.epoch + 1 \in Nat /\ m.current.epoch + 1 > installed
      BY <1>4, <2>2
    <3>3. Sound(m, Start(w, NoRoute, next, m.current.epoch + 1), next, floor,
                raised, installed)
      <4> HIDE DEF w
      <4> QED  BY <1>1, <1>2, <2>3, <3>2, StartSound
    <3> QED
      BY <3>1, <3>3
  <2> QED
    BY <2>4, <2>5, <2>6
<1> QED
  BY <1>5, <1>6, <1>7

\* Withdraw may raise the floor to any position, here the present one.
LEMMA WithdrawSound ==
    ASSUME NEW m \in MachineSet, NEW route \in RouteSet, NEW next \in Nat,
           NEW floor \in Nat, NEW position \in Nat, NEW raised \in Nat,
           NEW installed \in Nat, Local(m, floor, installed),
           raised = IF Accepted(Withdraw(m, route, next)) THEN position ELSE floor
    PROVE  Sound(m, Withdraw(m, route, next), next, floor, raised, installed)
<1> DEFINE t == Withdraw(m, route, next)
<1>1. CASE m.phase = "Unknown" \/ m.current # route
  <2>1. t = Stale(m)
    BY <1>1 DEF Withdraw, InDiscovery
  <2>2. t.machine = m /\ t.effect.kind # "Find"
    BY <2>1, QuietFacts
  <2>3. raised = floor
    BY <2>1 DEF Accepted, Stale, Transition
  <2> QED
    BY <2>2, <2>3, UnchangedSound
<1>2. CASE m.phase # "Unknown" /\ m.current = route
  <2>1. /\ m.current # NoRoute /\ m.revocation = NoRevocation
        /\ m.current.epoch = installed /\ route.epoch \in Nat
    BY <1>2, AbsentValues DEF Local, RouteSet
  <2>2. CASE InDiscovery(m)
    <3>1. t = SupersedeDiscovery(m, m.revocation)
      BY <1>2, <2>2 DEF Withdraw, InDiscovery
    <3>2. Sound(m, SupersedeDiscovery(m, m.revocation), next, floor, raised, installed)
      BY <2>1, <2>2, SupersedeSound DEF Revocations
    <3> QED
      BY <3>1, <3>2
  <2>3. CASE m.phase = "Ready" /\ route.epoch = MaxEpoch
    <3>1. t = Exhausted(m)
      BY <1>2, <2>3 DEF Withdraw, InDiscovery
    <3>2. t.machine = m /\ t.effect.kind # "Find"
      BY <3>1, QuietFacts
    <3>3. raised = floor
      BY <3>1 DEF Accepted, Exhausted, Transition, NoEffect
    <3> QED
      BY <3>2, <3>3, UnchangedSound
  <2>4. CASE m.phase = "Ready" /\ route.epoch # MaxEpoch
    <3>1. t = Start(m, NoRoute, next, route.epoch + 1)
      BY <1>2, <2>4 DEF Withdraw, InDiscovery
    <3>2. route.epoch + 1 \in Nat /\ route.epoch + 1 > installed
      BY <1>2, <2>1
    <3>3. Sound(m, Start(m, NoRoute, next, route.epoch + 1), next, floor, raised,
                installed)
      BY <2>1, <3>2, StartSound
    <3> QED
      BY <3>1, <3>3
  <2> QED
    BY <1>2, <2>2, <2>3, <2>4 DEF InDiscovery, MachineSet, Phases
<1> QED
  BY <1>1, <1>2

\* A machine at rest, in Unknown or Ready, where a discovery ended.
LEMMA RestSound ==
    ASSUME NEW m \in MachineSet, NEW u \in MachineSet, NEW t, NEW next,
           NEW floor \in Nat, NEW installed \in Nat,
           t.machine = u, t.effect.kind # "Find", u.revocation = NoRevocation,
           \/ u.phase = "Unknown" /\ u.current = NoRoute /\ u.epoch > installed
           \/ /\ u.phase = "Ready" /\ u.current \in RouteSet
              /\ u.current.evidence >= floor
              /\ \/ u.current.epoch > installed
                 \/ u.current = m.current /\ u.current.epoch = installed
    PROVE  Sound(m, t, next, floor, floor, installed)
<1>1. u.current.epoch \in Nat
  BY AbsentValues DEF MachineSet, RouteSet
<1>2. Local(u, floor, Greater(installed, u.current.epoch))
  BY <1>1, AbsentValues DEF Local, Greater, MachineSet
<1>3. Carried(m, t, floor, floor)
  BY DEF Carried
<1> QED
  BY <1>2, <1>3, AbsentValues DEF Sound

\* Succeed: an answer that rests on evidence below the floor is not installed.
LEMMA SucceedSound ==
    ASSUME NEW m \in MachineSet, NEW op, NEW epoch, NEW target \in Targets,
           NEW evidence \in Nat \ {0}, NEW next \in Nat, NEW floor \in Nat,
           NEW installed \in Nat, Local(m, floor, installed),
           m.phase = "Discovering" /\ Owns(m, op, epoch) =>
               evidence >= floor \/ Guarded(m)
    PROVE  Sound(m, Succeed(m, op, epoch, target, evidence, next), next, floor,
                 floor, installed)
<1> DEFINE t == Succeed(m, op, epoch, target, evidence, next)
           route == Route(target, m.epoch, evidence)
           cleared == [m EXCEPT !.revocation = NoRevocation]
           revoked == m.revocation # NoRevocation
<1>1. CASE m.phase # "Discovering" \/ ~Owns(m, op, epoch)
  <2>1. t = Stale(m)
    BY <1>1 DEF Succeed
  <2>2. t.machine = m /\ t.effect.kind # "Find"
    BY <2>1, QuietFacts
  <2> QED
    BY <2>2, UnchangedSound
<1>2. CASE m.phase = "Discovering" /\ Owns(m, op, epoch)
  <2>1. m.epoch \in Nat /\ m.epoch > installed /\ m.followup \in Followups
    BY <1>2 DEF Local, MachineSet
  <2>2. route \in RouteSet /\ route.epoch = m.epoch /\ route.evidence = evidence
        /\ route # NoRoute
    BY <2>1, AbsentValues DEF Route, RouteSet
  <2>3. /\ cleared \in MachineSet /\ cleared.revocation = NoRevocation
        /\ cleared.epoch = m.epoch /\ cleared.followup = m.followup
    BY DEF MachineSet
  <2> HIDE DEF route, cleared, t
  <2>4. CASE revoked /\ ~Accepts(m.revocation, evidence) /\ m.epoch = MaxEpoch
    <3>1. t = Exhausted(Unknown(m.epoch))
      BY <1>2, <2>4 DEF t, Succeed
    <3>2. t.machine = Unknown(m.epoch) /\ t.effect.kind # "Find"
      BY <3>1, QuietFacts
    <3>3. /\ Unknown(m.epoch) \in MachineSet /\ Unknown(m.epoch).phase = "Unknown"
          /\ Unknown(m.epoch).current = NoRoute
          /\ Unknown(m.epoch).epoch = m.epoch
          /\ Unknown(m.epoch).revocation = NoRevocation
      BY <2>1, UnknownFacts
    <3> QED
      BY <2>1, <3>2, <3>3, RestSound DEF t
  <2>5. CASE revoked /\ ~Accepts(m.revocation, evidence) /\ m.epoch # MaxEpoch
    <3>1. t = Start(m, NoRoute, next, m.epoch + 1)
      BY <1>2, <2>5 DEF t, Succeed
    <3>2. floor <= m.revocation.after + 1
      BY <2>5 DEF Local
    <3>3. m.epoch + 1 \in Nat /\ m.epoch + 1 > installed
      BY <2>1
    <3>4. Sound(m, Start(m, NoRoute, next, m.epoch + 1), next, floor, floor, installed)
      BY <3>2, <3>3, StartSound
    <3> QED
      BY <3>1, <3>4 DEF t
  <2>6. CASE /\ ~(revoked /\ ~Accepts(m.revocation, evidence))
             /\ m.followup = "None" \/ (revoked /\ m.followup = "Revocation")
    <3>1. t = Applied(Ready(cleared, route))
      BY <1>2, <2>6 DEF t, Succeed, cleared, route
    <3>2. t.machine = Ready(cleared, route) /\ t.effect.kind # "Find"
      BY <3>1, QuietFacts
    <3>3. LET r == Ready(cleared, route)
          IN  /\ r \in MachineSet /\ r.phase = "Ready" /\ r.current = route
              /\ r.revocation = NoRevocation
      BY <2>2, <2>3, ReadyFacts
    <3>4. evidence >= floor
      <4>1. CASE revoked
        BY <2>6, <4>1 DEF Local, Accepts, MachineSet
      <4>2. CASE ~revoked
        BY <1>2, <2>6, <4>2 DEF Guarded
      <4> QED  BY <4>1, <4>2
    <3> QED
      BY <2>1, <2>2, <3>2, <3>3, <3>4, RestSound DEF t
  <2>7. CASE /\ ~(revoked /\ ~Accepts(m.revocation, evidence))
             /\ ~(m.followup = "None" \/ (revoked /\ m.followup = "Revocation"))
    <3> DEFINE kept == IF m.followup = "Refresh" THEN route ELSE NoRoute
    <3>1. t = Continue(cleared, route, next)
      BY <1>2, <2>7 DEF t, Succeed, cleared, route
    <3>2. m.followup = "Refresh" => evidence >= floor
      <4>1. CASE revoked
        BY <2>7, <4>1 DEF Local, Accepts, MachineSet
      <4>2. CASE ~revoked
        BY <1>2, <4>2 DEF Guarded
      <4> QED  BY <4>1, <4>2
    <3>3. CASE m.epoch < MaxEpoch
      <4>1. t = Start(cleared, kept, next, m.epoch + 1)
        BY <2>3, <3>1, <3>3 DEF Continue
      <4>2. /\ kept \in RouteSet \cup {NoRoute}
            /\ kept # NoRoute =>
                 /\ kept.evidence >= floor /\ kept.epoch >= installed
                 /\ kept.epoch < m.epoch + 1 /\ cleared.revocation = NoRevocation
                 /\ kept = m.current \/ kept.epoch > installed
            /\ cleared.revocation # NoRevocation =>
                 floor <= cleared.revocation.after + 1
        BY <2>1, <2>2, <2>3, <3>2
      <4>3. /\ m.epoch + 1 \in Nat /\ m.epoch + 1 > installed
            /\ m.epoch < m.epoch + 1
        BY <2>1
      <4> HIDE DEF kept
      <4>4. Sound(m, Start(cleared, kept, next, m.epoch + 1), next, floor, floor,
                  installed)
        BY <2>1, <2>3, <4>2, <4>3, StartSound
      <4> QED
        BY <4>1, <4>4 DEF t
    <3>4. CASE ~(m.epoch < MaxEpoch) /\ m.followup = "Refresh"
      <4>1. t = Exhausted(Ready(cleared, route))
        BY <2>3, <3>1, <3>4 DEF Continue
      <4>2. t.machine = Ready(cleared, route) /\ t.effect.kind # "Find"
        BY <4>1, QuietFacts
      <4>3. LET r == Ready(cleared, route)
            IN  /\ r \in MachineSet /\ r.phase = "Ready" /\ r.current = route
                /\ r.revocation = NoRevocation
        BY <2>2, <2>3, ReadyFacts
      <4> QED
        BY <2>1, <2>2, <3>2, <3>4, <4>2, <4>3, RestSound DEF t
    <3>5. CASE ~(m.epoch < MaxEpoch) /\ m.followup # "Refresh"
      <4> DEFINE u == [Unknown(m.epoch) EXCEPT !.revocation = cleared.revocation]
      <4>1. t = Exhausted(u)
        BY <2>3, <3>1, <3>5 DEF Continue
      <4>2. t.machine = u /\ t.effect.kind # "Find"
        BY <4>1, QuietFacts
      <4>3. /\ Unknown(m.epoch) \in MachineSet /\ Unknown(m.epoch).phase = "Unknown"
            /\ Unknown(m.epoch).current = NoRoute
            /\ Unknown(m.epoch).epoch = m.epoch
        BY <2>1, UnknownFacts
      <4>4. /\ u \in MachineSet /\ u.phase = "Unknown" /\ u.current = NoRoute
            /\ u.epoch = m.epoch /\ u.revocation = NoRevocation
        BY <2>3, <4>3 DEF MachineSet
      <4> QED
        BY <2>1, <4>2, <4>4, RestSound DEF t
    <3> QED
      BY <3>3, <3>4, <3>5
  <2> QED
    BY <2>4, <2>5, <2>6, <2>7
<1> QED
  BY <1>1, <1>2

\* Fail: a followup starts over, else the machine rests on what it still serves.
LEMMA FailSound ==
    ASSUME NEW m \in MachineSet, NEW op, NEW epoch, NEW next \in Nat,
           NEW floor \in Nat, NEW installed \in Nat, Local(m, floor, installed)
    PROVE  Sound(m, Fail(m, op, epoch, next), next, floor, floor, installed)
<1> DEFINE t == Fail(m, op, epoch, next)
<1>1. CASE ~InDiscovery(m) \/ ~Owns(m, op, epoch)
  <2>1. t = Stale(m)
    BY <1>1 DEF Fail
  <2>2. t.machine = m /\ t.effect.kind # "Find"
    BY <2>1, QuietFacts
  <2> QED
    BY <2>2, UnchangedSound
<1>2. CASE InDiscovery(m) /\ Owns(m, op, epoch)
  <2>1. /\ m.epoch \in Nat /\ m.epoch > installed /\ m.followup \in Followups
        /\ m.current \in RouteSet \cup {NoRoute}
    BY <1>2 DEF Local, MachineSet, InDiscovery
  <2>2. /\ m.revocation # NoRevocation => floor <= m.revocation.after + 1
        /\ m.current # NoRoute =>
             /\ m.current.evidence >= floor /\ m.current.epoch = installed
             /\ m.revocation = NoRevocation
    BY DEF Local
  <2>3. CASE m.followup \in {"Refresh", "Revocation"}
    <3> DEFINE kept == IF m.followup = "Refresh" THEN m.current ELSE NoRoute
    <3>1. t = Start(m, kept, next, m.epoch)
      BY <1>2, <2>3 DEF Fail
    <3>2. /\ kept \in RouteSet \cup {NoRoute}
          /\ kept # NoRoute =>
               /\ kept.evidence >= floor /\ kept.epoch >= installed
               /\ kept.epoch < m.epoch /\ m.revocation = NoRevocation
               /\ kept = m.current \/ kept.epoch > installed
      BY <2>1, <2>2 DEF RouteSet
    <3> HIDE DEF kept
    <3>3. Sound(m, Start(m, kept, next, m.epoch), next, floor, floor, installed)
      BY <2>1, <2>2, <3>2, StartSound
    <3> QED
      BY <3>1, <3>3
  <2>4. CASE /\ m.followup = "None"
             /\ m.revocation = NoRevocation /\ m.current # NoRoute
    <3>1. t = Applied(Ready(m, m.current))
      BY <1>2, <2>4 DEF Fail
    <3>2. t.machine = Ready(m, m.current) /\ t.effect.kind # "Find"
      BY <3>1, QuietFacts
    <3>3. LET r == Ready(m, m.current)
          IN  /\ r \in MachineSet /\ r.phase = "Ready" /\ r.current = m.current
              /\ r.revocation = NoRevocation
      BY <2>1, <2>4, ReadyFacts
    <3> QED
      BY <2>1, <2>2, <2>4, <3>2, <3>3, RestSound
  <2>5. CASE /\ m.followup = "None"
             /\ ~(m.revocation = NoRevocation /\ m.current # NoRoute)
    <3>1. t = Applied(Unknown(m.epoch))
      BY <1>2, <2>5 DEF Fail
    <3>2. t.machine = Unknown(m.epoch) /\ t.effect.kind # "Find"
      BY <3>1, QuietFacts
    <3>3. /\ Unknown(m.epoch) \in MachineSet /\ Unknown(m.epoch).phase = "Unknown"
          /\ Unknown(m.epoch).current = NoRoute
          /\ Unknown(m.epoch).epoch = m.epoch
          /\ Unknown(m.epoch).revocation = NoRevocation
      BY <2>1, UnknownFacts
    <3> QED
      BY <2>1, <3>2, <3>3, RestSound
  <2> QED
    BY <2>1, <2>3, <2>4, <2>5 DEF Followups
<1> QED
  BY <1>1, <1>2

\* Reject: the discovery waits for its retry, or fails.
LEMMA RejectSound ==
    ASSUME NEW m \in MachineSet, NEW op, NEW epoch, NEW at \in Nat,
           NEW next \in Nat, NEW floor \in Nat, NEW installed \in Nat,
           Local(m, floor, installed)
    PROVE  Sound(m, Reject(m, op, epoch, at, next), next, floor, floor, installed)
<1> DEFINE t == Reject(m, op, epoch, at, next)
           w == [m EXCEPT !.phase = "Retrying", !.retries = @ + 1,
                          !.at = at + RetryBackoff]
<1>1. CASE m.phase # "Discovering" \/ ~Owns(m, op, epoch)
  <2>1. t = Stale(m)
    BY <1>1 DEF Reject
  <2>2. t.machine = m /\ t.effect.kind # "Find"
    BY <2>1, QuietFacts
  <2> QED
    BY <2>2, UnchangedSound
<1>2. CASE m.phase = "Discovering" /\ Owns(m, op, epoch)
  <2>1. CASE m.retries + 1 > MaxRetries \/ at + RetryBackoff > MaxMoment
    <3>1. t = Fail(m, op, epoch, next)
      BY <1>2, <2>1 DEF Reject
    <3>2. Sound(m, Fail(m, op, epoch, next), next, floor, floor, installed)
      BY FailSound
    <3> QED
      BY <3>1, <3>2
  <2>2. CASE ~(m.retries + 1 > MaxRetries \/ at + RetryBackoff > MaxMoment)
    <3>1. t = Wait(w)
      BY <1>2, <2>2 DEF Reject
    <3>2. t.machine = w /\ t.effect.kind # "Find"
      BY <3>1, QuietFacts
    <3>3. /\ w \in MachineSet /\ w.phase = "Retrying" /\ w.current = m.current
          /\ w.epoch = m.epoch /\ w.revocation = m.revocation
      <4>1. at + RetryBackoff \in Nat /\ m.retries + 1 \in Nat
        BY CoordinatorBounds DEF MachineSet
      <4> QED
        BY <4>1 DEF MachineSet, Phases
    <3> HIDE DEF w, t
    <3>4. m.current.epoch \in Nat
      BY AbsentValues DEF MachineSet, RouteSet
    <3>5. Local(w, floor, Greater(installed, w.current.epoch))
      BY <1>2, <3>3, <3>4, AbsentValues DEF Local, Greater, InDiscovery, MachineSet
    <3>6. Carried(m, t, floor, floor)
      BY <3>2, <3>3 DEF Carried
    <3>7. Sound(m, t, next, floor, floor, installed)
      BY <3>2, <3>3, <3>5, <3>6 DEF Sound
    <3> QED
      BY <3>7 DEF t
  <2> QED
    BY <2>1, <2>2
<1> QED
  BY <1>1, <1>2

\* RetryElapsed: the retry is a new Find of the same discovery.
LEMMA RetrySound ==
    ASSUME NEW m \in MachineSet, NEW op, NEW epoch, NEW at \in Nat,
           NEW next \in Nat, NEW floor \in Nat, NEW installed \in Nat,
           Local(m, floor, installed)
    PROVE  Sound(m, RetryElapsed(m, op, epoch, at, next), next, floor, floor,
                 installed)
<1> DEFINE t == RetryElapsed(m, op, epoch, at, next)
           w == [m EXCEPT !.phase = "Discovering", !.op = next, !.at = 0]
<1>1. CASE m.phase # "Retrying" \/ ~Owns(m, op, epoch) \/ at < m.at
  <2>1. t \in {Stale(m), Wait(m)}
    BY <1>1 DEF RetryElapsed
  <2>2. t.machine = m /\ t.effect.kind # "Find"
    BY <2>1, QuietFacts
  <2> QED
    BY <2>2, UnchangedSound
<1>2. CASE m.phase = "Retrying" /\ Owns(m, op, epoch) /\ ~(at < m.at)
  <2>1. t = Transition(w, Find(next, m.epoch), "Applied")
    BY <1>2 DEF RetryElapsed
  <2>2. /\ t.machine = w /\ t.effect.kind = "Find" /\ t.effect.op = next
        /\ t.effect.epoch = m.epoch
    BY <2>1 DEF Transition, Find
  <2>3. /\ w \in MachineSet /\ w.phase = "Discovering" /\ w.current = m.current
        /\ w.epoch = m.epoch /\ w.revocation = m.revocation /\ w.op = next
    BY DEF MachineSet, Phases
  <2> HIDE DEF w, t
  <2>4. m.current.epoch \in Nat
    BY AbsentValues DEF MachineSet, RouteSet
  <2>5. Local(w, floor, Greater(installed, w.current.epoch))
    BY <1>2, <2>3, <2>4, AbsentValues DEF Local, Greater, InDiscovery, MachineSet
  <2>6. Sound(m, t, next, floor, floor, installed)
    BY <2>2, <2>3, <2>5 DEF Sound, Began
  <2> QED
    BY <2>6 DEF t
<1> QED
  BY <1>1, <1>2

-------------------------------------------------------------------------------
(* The invariant.                                                            *)

\* Finds and failures precede the clock, and an answer that the machine would
\* install rests on evidence at or above the floor.
Ordered ==
    /\ history.floor <= clock
    /\ \A f \in failures : f.observed < clock
    /\ \A f \in finds :
          /\ f.op <= ops /\ f.evidence < clock
          /\ machine.phase = "Discovering" /\ Owns(machine, f.op, f.epoch) =>
                f.evidence >= history.floor \/ Guarded(machine)

CoordinatorInv ==
    /\ MachineTypeOK
    /\ Local(machine, history.floor, history.installed)
    /\ Ordered

\* A step that makes another route current gives it a greater epoch.
NewerRoute ==
    machine'.current \notin {NoRoute, machine.current} =>
        machine'.current.epoch > history.installed

\* The environment of a Sound transition keeps the invariant.
LEMMA SoundKeeps ==
    ASSUME CoordinatorInv, NEW t, NEW floor \in Nat,
           Sound(machine, t, NextOp, history.floor, Greater(history.floor, floor),
                 history.installed),
           floor <= clock,
           Effected(t), Remember(t, floor), UNCHANGED <<failures, now>>
    PROVE  CoordinatorInv' /\ NewerRoute
<1>1. /\ machine' = t.machine /\ machine' \in MachineSet
      /\ Local(machine', Greater(history.floor, floor),
               Greater(history.installed, machine'.current.epoch))
      /\ NewerRoute
  BY DEF Effected, Sound, NewerRoute
<1>2. /\ machine \in MachineSet /\ clock \in Nat \ {0} /\ now \in Nat /\ ops \in Nat
      /\ finds \subseteq [op : Nat \ {0}, epoch : Nat \ {0}, evidence : Nat \ {0}]
      /\ failures \subseteq [target : Targets, observed : Nat \ {0}]
      /\ history.served \subseteq RouteSet /\ history.floor \in Nat
      /\ history.installed \in Nat
  BY DEF CoordinatorInv, MachineTypeOK
<1>3. /\ history'.served \subseteq RouteSet
      /\ history'.floor = Greater(history.floor, floor)
      /\ history'.installed = Greater(history.installed, machine'.current.epoch)
  BY <1>1, <1>2 DEF Remember, MachineSet
<1>4. machine'.current.epoch \in Nat
  BY <1>1, AbsentValues DEF MachineSet, RouteSet
<1>5. history' \in [served : SUBSET RouteSet, floor : Nat, installed : Nat]
  <2>1. history'.floor \in Nat /\ history'.installed \in Nat
    BY <1>2, <1>3, <1>4 DEF Greater
  <2>2. PICK s, f, i : history' = [served |-> s, floor |-> f, installed |-> i]
    BY DEF Remember
  <2>3. s \subseteq RouteSet /\ f \in Nat /\ i \in Nat
    BY <1>3, <2>1, <2>2
  <2> QED
    BY Zenon, <2>2, <2>3
<1>6. CASE t.effect.kind = "Find"
  <2> DEFINE new == [op |-> t.effect.op, epoch |-> t.effect.epoch, evidence |-> clock]
  <2>1. /\ finds' = finds \cup {new} /\ ops' = ops + 1 /\ clock' = clock + 1
    BY <1>6 DEF Effected, NextOp
  <2>2. /\ machine'.op = ops + 1 /\ t.effect.op = ops + 1
        /\ machine'.epoch = t.effect.epoch /\ machine'.phase = "Discovering"
    BY <1>1, <1>6 DEF Sound, Began, NextOp
  <2>3. machine'.epoch \in Nat \ {0}
    BY <1>1, <1>2, <1>4, <2>2 DEF Local, MachineSet, Greater
  <2>4. new \in [op : Nat \ {0}, epoch : Nat \ {0}, evidence : Nat \ {0}]
    BY SMTT(30), <1>2, <2>2, <2>3
  <2>5. MachineTypeOK'
    BY SMTT(30), <1>1, <1>2, <1>5, <2>1, <2>4 DEF MachineTypeOK
  <2>6. history'.floor <= clock /\ clock \in Nat
    BY <1>2, <1>3 DEF Greater, CoordinatorInv, Ordered
  <2>7. \A f \in finds : f.op <= ops /\ f.evidence < clock /\ f.op \in Nat
                         /\ f.evidence \in Nat
    BY <1>2 DEF CoordinatorInv, Ordered
  <2>8. Ordered'
    <3>1. \A f \in failures : f.observed < clock + 1
      BY SMTT(30), <1>2 DEF CoordinatorInv, Ordered
    <3>2. \A f \in finds : /\ f.op <= ops + 1 /\ f.evidence < clock + 1
                           /\ f.op # machine'.op
      BY <1>2, <2>2, <2>7
    <3>3. /\ new.op <= ops + 1 /\ new.evidence < clock + 1
          /\ new.evidence >= history'.floor
      BY <1>2, <2>2, <2>6
    <3>4. history'.floor <= clock + 1
      BY <1>2, <1>3, <2>6 DEF Greater
    <3> QED
      BY <2>1, <3>1, <3>2, <3>3, <3>4 DEF Ordered, Owns
  <2> QED
    BY <1>1, <1>3, <2>5, <2>8 DEF CoordinatorInv
<1>7. CASE t.effect.kind # "Find"
  <2>1. finds' = finds /\ ops' = ops /\ clock' = clock
    BY <1>7 DEF Effected
  <2>2. MachineTypeOK'
    BY <1>1, <1>2, <1>5, <2>1 DEF MachineTypeOK
  <2>3. history'.floor <= clock
    BY <1>2, <1>3 DEF Greater, CoordinatorInv, Ordered
  <2>4. Carried(machine, t, history.floor, history'.floor)
    BY <1>3, <1>7 DEF Sound
  <2>5. history'.floor = history.floor \/ history'.floor > history.floor
    BY <1>2, <1>3 DEF Greater
  <2>6. Ordered'
    BY <1>1, <1>2, <2>1, <2>3, <2>4, <2>5
    DEF CoordinatorInv, Ordered, Owns, Carried
  <2> QED
    BY <1>1, <1>3, <2>2, <2>6 DEF CoordinatorInv
<1> QED
  BY <1>1, <1>6, <1>7

\* Every step keeps the invariant, and makes only newer routes current.
LEMMA CoordinatorStep ==
    CoordinatorInv /\ [Next]_vars => CoordinatorInv' /\ (NewerRoute \/ UNCHANGED vars)
<1> SUFFICES ASSUME CoordinatorInv, [Next]_vars
             PROVE  CoordinatorInv' /\ (NewerRoute \/ UNCHANGED vars)
  OBVIOUS
<1> DEFINE fl == history.floor
           in == history.installed
<1>1. /\ machine \in MachineSet /\ clock \in Nat \ {0} /\ now \in Nat /\ ops \in Nat
      /\ finds \subseteq [op : Nat \ {0}, epoch : Nat \ {0}, evidence : Nat \ {0}]
      /\ failures \subseteq [target : Targets, observed : Nat \ {0}]
      /\ history.served \subseteq RouteSet /\ fl \in Nat /\ in \in Nat
      /\ Local(machine, fl, in) /\ fl <= clock
  BY DEF CoordinatorInv, MachineTypeOK, Ordered
<1>2. NextOp \in Nat
  BY <1>1 DEF NextOp
<1>3. Greater(fl, 0) = fl /\ 0 <= clock /\ 0 \in Nat
  BY <1>1 DEF Greater
\* Inputs that leave the floor alone.
<1>4. ASSUME NEW t, Sound(machine, t, NextOp, fl, fl, in), Apply(t)
      PROVE  CoordinatorInv' /\ NewerRoute
  BY <1>3, <1>4, SoundKeeps DEF Apply
<1>5. CASE Demand
  BY <1>1, <1>2, <1>4, <1>5, ResolveSound DEF Demand
<1>6. CASE RefreshDemand
  BY <1>1, <1>2, <1>4, <1>6, RefreshSound DEF RefreshDemand
<1>7. ASSUME NEW route \in history.served, CallFails(route)
      PROVE  CoordinatorInv' /\ NewerRoute
  <2> DEFINE new == [target |-> route.target, observed |-> clock]
  <2>1. /\ failures' = failures \cup {new} /\ clock' = clock + 1
        /\ machine' = machine /\ finds' = finds /\ now' = now /\ ops' = ops
        /\ history' = history
    BY <1>7 DEF CallFails
  <2>2. new \in [target : Targets, observed : Nat \ {0}]
    BY <1>1, <1>7 DEF RouteSet
  <2>3. MachineTypeOK'
    BY <1>1, <2>1, <2>2 DEF CoordinatorInv, MachineTypeOK
  <2>4. \A f \in failures : f.observed < clock + 1
    BY <1>1 DEF CoordinatorInv, Ordered
  <2>5. \A f \in finds : f.evidence < clock + 1
    BY <1>1 DEF CoordinatorInv, Ordered
  <2>6. history.floor <= clock + 1 /\ new.observed < clock + 1
    BY <1>1
  <2>7. Ordered'
    BY <2>1, <2>4, <2>5, <2>6 DEF CoordinatorInv, Ordered, Owns, Guarded
  <2>8. Local(machine, fl, in)'
    BY <1>1, <2>1
  <2> QED
    BY <2>1, <2>3, <2>7, <2>8 DEF CoordinatorInv, NewerRoute
<1>8. ASSUME NEW f \in failures, InvalidateFailure(f)
      PROVE  CoordinatorInv' /\ NewerRoute
  <2> DEFINE t == Invalidate(machine, f.target, f.observed, NextOp)
             a == IF Accepted(t) THEN f.observed + 1 ELSE 0
  <2>1. f.target \in Targets /\ f.observed \in Nat /\ f.observed < clock
    BY <1>1 DEF CoordinatorInv, Ordered
  <2>2. a \in Nat /\ a <= clock /\ Greater(fl, a) \in Nat
    BY <1>1, <2>1 DEF Greater
  <2>3. Greater(fl, a) = IF Accepted(t) THEN Greater(fl, f.observed + 1) ELSE fl
    BY <1>3
  <2>4. Sound(machine, t, NextOp, fl, Greater(fl, a), in)
    BY <1>1, <1>2, <2>1, <2>2, <2>3, InvalidateSound
  <2>5. Effected(t) /\ Remember(t, a) /\ UNCHANGED <<failures, now>>
    BY <1>8 DEF InvalidateFailure
  <2> HIDE DEF t, a
  <2> QED
    BY <2>2, <2>4, <2>5, SoundKeeps
<1>9. ASSUME NEW route \in history.served, WithdrawRoute(route)
      PROVE  CoordinatorInv' /\ NewerRoute
  <2> DEFINE t == Withdraw(machine, route, NextOp)
             a == IF Accepted(t) THEN clock ELSE 0
  <2>1. a \in Nat /\ a <= clock /\ Greater(fl, a) \in Nat
    BY <1>1 DEF Greater
  <2>2. Greater(fl, a) = IF Accepted(t) THEN Greater(fl, clock) ELSE fl
    BY <1>3
  <2>3. Sound(machine, t, NextOp, fl, Greater(fl, a), in)
    BY <1>1, <1>2, <2>1, <2>2, WithdrawSound DEF Greater
  <2>4. Effected(t) /\ Remember(t, a) /\ UNCHANGED <<failures, now>>
    BY <1>9 DEF WithdrawRoute
  <2> HIDE DEF t, a
  <2> QED
    BY <2>1, <2>3, <2>4, SoundKeeps
<1>10. ASSUME NEW f \in finds, NEW target \in Targets, FindSucceeds(f, target)
       PROVE  CoordinatorInv' /\ NewerRoute
  <2>1. /\ f.evidence \in Nat \ {0}
        /\ machine.phase = "Discovering" /\ Owns(machine, f.op, f.epoch) =>
              f.evidence >= fl \/ Guarded(machine)
    BY <1>1 DEF CoordinatorInv, Ordered
  <2>2. Sound(machine, Succeed(machine, f.op, f.epoch, target, f.evidence, NextOp),
              NextOp, fl, fl, in)
    BY <1>1, <1>2, <2>1, SucceedSound
  <2> QED
    BY <1>4, <1>10, <2>2 DEF FindSucceeds
<1>11. ASSUME NEW f \in finds, FindFails(f)
       PROVE  CoordinatorInv' /\ NewerRoute
  BY <1>1, <1>2, <1>4, <1>11, FailSound DEF FindFails
<1>12. ASSUME NEW f \in finds, FindRejected(f)
       PROVE  CoordinatorInv' /\ NewerRoute
  BY <1>1, <1>2, <1>4, <1>12, RejectSound DEF FindRejected
<1>13. CASE RetryTimer
  BY <1>1, <1>2, <1>4, <1>13, RetrySound DEF RetryTimer
<1>14. CASE Tick
  <2>1. /\ now' = now + 1 /\ machine' = machine /\ finds' = finds
        /\ failures' = failures /\ clock' = clock /\ ops' = ops /\ history' = history
    BY <1>14 DEF Tick
  <2>2. MachineTypeOK'
    BY <1>1, <2>1 DEF CoordinatorInv, MachineTypeOK
  <2>3. Ordered' /\ Local(machine, fl, in)'
    BY <1>1, <2>1 DEF CoordinatorInv, Ordered, Owns, Guarded
  <2> QED
    BY <2>1, <2>2, <2>3 DEF CoordinatorInv, NewerRoute
<1>15. CASE UNCHANGED vars
  BY <1>15 DEF vars, CoordinatorInv, MachineTypeOK, Local, Ordered, Owns, Guarded,
               InDiscovery
<1> QED
  BY <1>5, <1>6, <1>7, <1>8, <1>9, <1>10, <1>11, <1>12, <1>13, <1>14, <1>15 DEF Next

\* The machine starts without a route, a withdrawal or a discovery.
LEMMA CoordinatorStart == Init => CoordinatorInv
<1> SUFFICES ASSUME Init PROVE CoordinatorInv
  OBVIOUS
<1>1. /\ machine = Unknown(1) /\ finds = {} /\ failures = {} /\ clock = 1 /\ now = 0
      /\ ops = 0 /\ history = [served |-> {}, floor |-> 0, installed |-> 0]
  BY DEF Init, CoordinatorNew, NewHistory
<1>2. /\ machine \in MachineSet /\ machine.phase = "Unknown"
      /\ machine.current = NoRoute /\ machine.epoch = 1
      /\ machine.revocation = NoRevocation
  BY <1>1, UnknownFacts
<1>3. MachineTypeOK
  BY <1>1, <1>2 DEF MachineTypeOK
<1>4. Local(machine, history.floor, history.installed)
  BY <1>1, <1>2 DEF Local
<1>5. Ordered
  BY <1>1 DEF Ordered
<1> QED
  BY <1>3, <1>4, <1>5 DEF CoordinatorInv

\* The invariant holds throughout.
LEMMA CoordinatorInvariant == Spec => []CoordinatorInv
<1>1. Init => CoordinatorInv
  BY CoordinatorStart
<1>2. CoordinatorInv /\ [Next]_vars => CoordinatorInv'
  BY CoordinatorStep
<1> QED
  BY <1>1, <1>2, PTL DEF Spec

\* Types: identities, epochs and stamps of machine and environment.
THEOREM MachineTypeCorrect == Spec => []MachineTypeOK
<1>1. CoordinatorInv => MachineTypeOK
  BY DEF CoordinatorInv
<1> QED
  BY <1>1, CoordinatorInvariant, PTL

\* CoordinatorMachine::succeed never installs, and no path keeps, a route that
\* rests on evidence from before an accepted withdrawal, however late the answers
\* and the failures arrive and however many discoveries were superseded.
THEOREM RoutesAreCausal == Spec => []CausalRoute
<1>1. CoordinatorInv => CausalRoute
  BY DEF CoordinatorInv, Local, CausalRoute
<1> QED
  BY <1>1, CoordinatorInvariant, PTL

\* A withdrawal is pending only while a discovery that can lift it is under way,
\* and nothing is served meanwhile (CoordinatorMachine::revocation_pending).
THEOREM RevocationsAreOwned == Spec => []RevocationOwned
<1>1. CoordinatorInv => RevocationOwned
  BY DEF CoordinatorInv, Local, RevocationOwned
<1> QED
  BY <1>1, CoordinatorInvariant, PTL

\* CoordinatorMachine::start: a route that becomes current bears a greater epoch
\* than every route before it.
THEOREM EpochsGrow == Spec => EpochsIncrease
<1> DEFINE Newer == machine'.current \notin {NoRoute, machine.current}
                      => machine'.current.epoch > history.installed
<1>1. CoordinatorInv /\ [Next]_vars => [Newer]_vars
  BY CoordinatorStep DEF NewerRoute
<1> QED
  BY <1>1, CoordinatorInvariant, PTL DEF Spec, EpochsIncrease
================================================================================
