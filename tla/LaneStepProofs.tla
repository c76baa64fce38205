--------------------------- MODULE LaneStepProofs ---------------------------
(***************************************************************************)
(* The steps of timers, of the resolver and of the engine keep the         *)
(* invariant of the lane.                                                  *)
(***************************************************************************)
EXTENDS LaneProofs

-----------------------------------------------------------------------------
(* An attempt to open a generation, and the close of a lane without one.     *)

\* A connection attempt interpreted as an effect of the policy.
LEMMA InterpretOpen ==
  ASSUME BoundedDelays, now \in Nat, NEW k, MayOpen(k), NEW dial \in DialOutcomes, NEW j \in Nat,
         NEW m, m = Interpret(Doing(k, Emit("OpenConnection", k.broker.epoch, 0, 0)), dial, j)
  PROVE  /\ m \in Lanes
         /\ \/ m.fault = "Host" /\ m.conn = 0
            \/ OpenedAs(k, m)
            \/ SettledAs(Picked(k), m, "Failure") /\ Ending(Picked(k), "Failure")
<1> DEFINE d == OpenConnection(k, k.broker.epoch, dial, j)
<1>1. k.fault = "None"
  BY DEF MayOpen
<1>2. m = CheckTimer(d)
  BY <1>1 DEF Interpret, Doing, Emit
<1>3. /\ d.lane \in Lanes /\ Agrees(d.lane, d.effect)
      /\ \/ d.lane.fault = "Host" /\ d.lane.conn = 0
         \/ OpenedAs(k, d.lane)
         \/ SettledAs(Picked(k), d.lane, "Failure") /\ Ending(Picked(k), "Failure")
  BY OpenConnectionFacts
<1> HIDE DEF d
<1>4. m = d.lane
  BY <1>2, <1>3 DEF CheckTimer, Agrees
<1> QED BY <1>3, <1>4

\* Choosing the candidate of an attempt goes on with the pass.
LEMMA PickedPasses ==
  ASSUME NEW k, MayOpen(k), Passing(k)
  PROVE  /\ Passing(Picked(k)) /\ Picked(k).broker = k.broker
<1>1. k \in Lanes /\ k.dialer \in Dialers /\ k.dialer.phase = "Idle"
      /\ k.broker.phase = "Connecting" /\ Rotating(k.dialer) /\ Partial(k.dialer)
  BY DEF MayOpen, Lanes, Passing
<1>2. Picked(k).broker = k.broker /\ Picked(k).dialer = OpenCandidate(k.dialer)
  BY <1>1 DEF Picked, Lanes
<1> QED BY <1>1, <1>2, CandidatePasses DEF Passing

\* A step that attempts the next generation, once its backoff has passed.
LEMMA Attempts ==
  ASSUME BoundedDelays, LaneInv, Running, lane.broker.phase \in Waiting,
         now >= lane.broker.deadline,
         NEW k, MayOpen(k), Passing(k),
         k.broker.epoch = lane.broker.next, k.broker.retry = lane.broker.retry,
         NEW m \in Lanes,
         \/ m.fault = "Host" /\ m.conn = 0
         \/ OpenedAs(k, m)
         \/ SettledAs(Picked(k), m, "Failure") /\ Ending(Picked(k), "Failure"),
         Step(HostFatal(m), {}), now' = now, lookups' = <<>>
  PROVE  Good
<1>1. /\ Owned(lane) /\ Truthful(lane, history.seen) /\ Paced(lane, history) /\ LaneTypes
  BY DEF LaneInv
<1>2. lookups' \in Seq(Nat)
  OBVIOUS
<1>3. /\ lane.broker.epoch \in Nat /\ lane.broker.next = lane.broker.epoch + 1
      /\ lane.broker.deadline \in Nat
      /\ history.opened \in Nat /\ history.opened <= lane.broker.epoch
      /\ k.broker.phase = "Connecting" /\ k.broker.retry = history.streak
      /\ lane.broker.deadline >= history.failedAt + DelayFloor(history.streak)
      /\ history.failedAt + DelayFloor(history.streak) \in Nat
      /\ "Asked" \notin history.seen
  <2>1. /\ lane.broker.epoch \in Nat /\ lane.broker.deadline \in Nat
        /\ history.opened \in Nat /\ history.failedAt \in Nat /\ history.streak \in Nat
    BY <1>1, Zenon DEF LaneTypes, Lanes, Brokers, Histories
  <2>2. /\ lane.broker.next = lane.broker.epoch + 1 /\ history.opened <= lane.broker.epoch
        /\ lane.broker.retry = history.streak /\ history.streak # 0
        /\ lane.broker.deadline \in (history.failedAt + DelayFloor(history.streak))
                                    ..(history.failedAt + DelayCap(history.streak))
    BY <1>1 DEF Owned, Paced, Waiting
  <2>3. DelayFloor(history.streak) \in Nat /\ DelayCap(history.streak) \in Nat
    BY <2>1, <2>2, Zenon DEF BoundedDelays
  <2>4. k.broker.phase = "Connecting" /\ "Asked" \notin history.seen
    BY <1>1, Zenon DEF MayOpen, Truthful, Waiting
  <2> QED BY <2>1, <2>2, <2>3, <2>4
<1>4. /\ k.broker.epoch # lane.broker.epoch /\ history.opened <= k.broker.epoch
      /\ k.broker.epoch > history.opened /\ k.broker.epoch \in Nat /\ k.broker.epoch # 0
      /\ now >= history.failedAt + DelayFloor(history.streak) /\ now \in Nat
  BY <1>1, <1>3 DEF LaneTypes
<1>5. CASE m.fault # "None"
  <2>1. HostFatal(m) \in Lanes /\ HostFatal(m).fault # "None" /\ HostFatal(m).conn = 0
    BY <1>5, HostFatalFacts DEF SettledAs, OpenedAs
  <2> QED BY <1>2, <2>1, Faulted
<1>6. CASE m.fault = "None"
  <2>1. lane' = m /\ history' = Remember(lane, m, {})
    BY <1>6, HostFatalFacts DEF Step
  <2>2. history' \in Histories /\ history'.seen = history.seen
    <3>1. history' \in Histories /\ history'.seen = history.seen \cup {}
      BY <1>1, <2>1, RememberTypes, Zenon
    <3> QED BY <3>1
  <2>3. LaneTypes'
    BY <1>1, <2>1, <2>2 DEF LaneTypes
  <2>4. Verdicts(m, history.seen)
    <3>1. m.cause = "None"
          /\ m.broker.reason \notin {"EndpointResolutionFailed", "AuthenticationFailed"}
      <4>1. CASE OpenedAs(k, m)
        BY <4>1 DEF OpenedAs, MayOpen
      <4>2. CASE SettledAs(Picked(k), m, "Failure") /\ Ending(Picked(k), "Failure")
        BY <1>6, <4>2, EndTruth
      <4> QED BY <1>6, <4>1, <4>2
    <3> QED BY <3>1 DEF Verdicts
  <2>5. CASE OpenedAs(k, m)
    <3>1. Owned(m) /\ Passing(m) /\ Unasked(m)
      BY <2>5, OpenOwned
    <3>2. /\ m.broker.phase = "Connecting" /\ m.broker = k.broker /\ m.conn = k.broker.epoch
          /\ ~Fails(lane, m) /\ lane.conn = 0
      BY <1>1, <1>3, <2>5 DEF OpenedAs, Fails, Waiting, Owned, Retired, LivePhases
    <3>3. Opens(lane, m)
      BY <1>4, <3>2 DEF Opens
    <3>4. history'.opened = k.broker.epoch /\ history'.streak = history.streak
      BY <1>1, <2>1, <3>2, <3>3, RememberTypes
    <3>5. Paced(m, history')
      BY <1>3, <1>4, <3>2, <3>4 DEF Paced, Waiting
    <3>6. Looking(m, <<>>)
      BY <3>2 DEF Looking, RefreshIs
    <3>7. Truthful(m, history.seen)
      BY <1>3, <2>4, <3>1 DEF Truthful
    <3>8. LaneInv'
      BY <2>1, <2>2, <2>3, <3>1, <3>5, <3>6, <3>7 DEF LaneInv
    <3> QED BY <1>3, <1>4, <2>1, <3>2, <3>8 DEF Good, Reopens
  <2>6. CASE SettledAs(Picked(k), m, "Failure") /\ Ending(Picked(k), "Failure")
    <3> DEFINE p == Picked(k)
    <3>1. Passing(p) /\ p.broker = k.broker
      BY PickedPasses
    <3>2. SettledAs(p, m, "Failure") /\ Ending(p, "Failure")
      BY <2>6
    <3> HIDE DEF p
    <3>3. /\ Owned(m) /\ Passing(m) /\ Retired(m)
      BY <1>4, <1>6, <3>1, <3>2, EndOwned
    <3>4. Paced(m, history') /\ ~Opens(lane, m)
      BY <1>1, <1>3, <1>4, <1>6, <2>1, <3>1, <3>2, EndPaced
    <3>5. Unasked(m)
      BY <1>3, <1>6, <3>1, <3>2, EndTruth
    <3>6. Looking(m, <<>>)
      <4>1. EndedAs(p, m, "Failure")
        BY <1>6, <3>2 DEF SettledAs
      <4>2. ~RefreshIs(m.broker, m.fence, "Resolving")
        BY <4>1 DEF EndedAs, GivenUp, Replaces, RefreshIs
      <4> QED BY <4>2 DEF Looking
    <3>7. Truthful(m, history.seen)
      BY <1>3, <2>4, <3>5 DEF Truthful
    <3>8. LaneInv'
      BY <2>1, <2>2, <2>3, <3>3, <3>4, <3>6, <3>7 DEF LaneInv
    <3> QED BY <2>1, <3>4, <3>8 DEF Good, Reopens
  <2> QED BY <1>6, <2>5, <2>6
<1> QED BY <1>5, <1>6

\* A step that leaves the lane without a generation and given up.
LEMMA Closes ==
  ASSUME LaneInv, NEW m \in Lanes, m.fault = "None", Retired(m), m.broker.phase = "Closed",
         m.fence = 0, m.terminal, Rotating(m.dialer),
         NEW seen \in SUBSET Observations,
         m.broker.reason = "Requested" => "Asked" \in history.seen \cup seen,
         m.broker.reason = "AuthenticationFailed" => "Rejected" \in history.seen \cup seen,
         m.broker.reason = "EndpointResolutionFailed" =>
            "Unusable" \in history.seen \cup seen,
         Step(m, seen), now' = now, lookups' \in Seq(Nat), Len(lookups') <= 1
  PROVE  Good
<1>1. LaneTypes /\ lane' = m /\ history' = Remember(lane, m, seen)
  BY DEF LaneInv, Step
<1>2. ~Opens(lane, m)
  BY DEF Opens, Retired
<1>3. history' \in Histories /\ history'.seen = history.seen \cup seen
  BY <1>1, RememberTypes
<1>4. LaneTypes'
  BY <1>1, <1>3 DEF LaneTypes
<1>5. Owned(m)
  BY RetiredOwns DEF LivePhases, Waiting
<1>6. Passing(m) /\ Looking(m, lookups')
  BY DEF Passing, Looking
<1>7. /\ m.cause = "None" /\ m.session = "Closed" /\ m.events = <<>>
      /\ m.engine.phase = "None" /\ m.engine.reason = "None"
  BY DEF Retired, NoEngine
<1>8. Truthful(m, history.seen \cup seen)
  <2>1. Verdicts(m, history.seen \cup seen)
    BY <1>7 DEF Verdicts
  <2>2. "Asked" \notin history.seen \cup seen => Unasked(m)
    BY <1>7 DEF Unasked
  <2> QED BY <2>1, <2>2 DEF Truthful
<1>9. Paced(m, history')
  BY DEF Paced, Waiting
<1>10. LaneInv'
  BY <1>1, <1>3, <1>4, <1>5, <1>6, <1>8, <1>9 DEF LaneInv
<1> QED BY <1>1, <1>2, <1>10 DEF Good, Reopens

-----------------------------------------------------------------------------
(* Waiting lanes: timers and DNS.                                            *)

\* A step after which the same failed generation still waits.
LEMMA KeepsWaiting ==
  ASSUME LaneInv, Running, lane.broker.phase \in Waiting,
         NEW m \in Lanes, m.fault = "None", Retired(m), ~m.terminal, Passing(m),
         m.dialer.phase = "Idle", m.broker.phase \in Waiting,
         m.broker.epoch = lane.broker.epoch, m.broker.next = lane.broker.next,
         m.broker.retry = lane.broker.retry, m.broker.deadline = lane.broker.deadline,
         m.broker.reason = lane.broker.reason,
         m.fence = IF m.broker.phase = "Refreshing" THEN m.broker.epoch ELSE 0,
         Step(m, {}), now' = now, lookups' \in Seq(Nat), Looking(m, lookups')
  PROVE  Good
<1>1. /\ LaneTypes /\ lane' = m /\ history' = Remember(lane, m, {})
      /\ Owned(lane) /\ Truthful(lane, history.seen) /\ Paced(lane, history)
  BY DEF LaneInv, Step
<1>2. ~Opens(lane, m) /\ ~Fails(lane, m) /\ m.broker.phase # "Available"
  BY DEF Opens, Retired, Fails, Waiting
<1>3. /\ history' \in Histories /\ history'.seen = history.seen
      /\ history'.opened = history.opened /\ history'.failedAt = history.failedAt
      /\ history'.streak = history.streak
  <2>1. /\ history' \in Histories /\ history'.seen = history.seen \cup {}
        /\ history'.opened = history.opened /\ history'.failedAt = history.failedAt
        /\ history'.streak = history.streak
    BY <1>1, <1>2, RememberTypes, Zenon
  <2> QED BY <2>1
<1>4. LaneTypes'
  BY <1>1, <1>3 DEF LaneTypes
<1>5. Owned(m)
  BY <1>1, RetiredOwns, Zenon DEF LivePhases, Waiting, Owned
<1>6. Truthful(m, history.seen)
  <2>1. /\ m.cause = "None" /\ m.session = "Closed" /\ m.events = <<>>
        /\ m.engine.phase = "None" /\ m.engine.reason = "None"
    BY DEF Retired, NoEngine
  <2>2. "Asked" \notin history.seen /\ Unasked(lane) /\ Verdicts(lane, history.seen)
    BY <1>1 DEF Truthful, Waiting
  <2>3. Unasked(m) /\ Verdicts(m, history.seen)
    BY <2>1, <2>2 DEF Unasked, Verdicts, Waiting
  <2> QED BY <2>2, <2>3 DEF Truthful
<1>7. Paced(m, history')
  BY <1>1, <1>3 DEF Paced, Waiting
<1>8. LaneInv'
  BY <1>1, <1>3, <1>4, <1>5, <1>6, <1>7 DEF LaneInv
<1> QED BY <1>1, <1>2, <1>8 DEF Good, Reopens

\* What is known of a waiting lane.
LEMMA WaitingFacts ==
  ASSUME LaneInv, Running, lane.broker.phase \in Waiting
  PROVE  /\ lane \in Lanes /\ lane.fault = "None" /\ Retired(lane) /\ ~lane.terminal
         /\ lane.broker \in Brokers /\ lane.dialer \in Dialers
         /\ lane.dialer.phase = "Idle" /\ Rotating(lane.dialer)
         /\ lane.broker.phase = "Refreshing" => FullyMissed(lane.dialer)
         /\ lane.broker.phase = "Backoff" => Partial(lane.dialer)
         /\ lane.broker.epoch \in Nat /\ lane.broker.epoch # 0
         /\ lane.broker.next = lane.broker.epoch + 1
         /\ lane.fence = (IF lane.broker.phase = "Refreshing" THEN lane.broker.epoch ELSE 0)
         /\ lookups = (IF RefreshIs(lane.broker, lane.broker.epoch, "Resolving")
                       THEN <<lane.fence>> ELSE <<>>)
         /\ "Asked" \notin history.seen /\ lane.timer \in Nat /\ lane.conn = 0
<1>1. /\ lane \in Lanes /\ Owned(lane) /\ Looking(lane, lookups) /\ Passing(lane)
      /\ Truthful(lane, history.seen)
  BY DEF LaneInv, LaneTypes
<1>2. /\ lane.broker \in Brokers /\ lane.dialer \in Dialers /\ lane.broker.epoch \in Nat
      /\ lane.timer \in Nat
  BY <1>1 DEF Lanes, Brokers
<1>3. /\ Retired(lane) /\ ~lane.terminal /\ lane.dialer.phase = "Idle"
      /\ lane.broker.epoch # 0 /\ lane.broker.next = lane.broker.epoch + 1
      /\ lane.fence = IF lane.broker.phase = "Refreshing" THEN lane.broker.epoch ELSE 0
  BY <1>1 DEF Owned, LivePhases, Waiting
<1>4. lookups = IF RefreshIs(lane.broker, lane.broker.epoch, "Resolving")
                THEN <<lane.fence>> ELSE <<>>
  BY <1>1, <1>3 DEF Looking, RefreshIs
<1> QED BY <1>1, <1>2, <1>3, <1>4 DEF Running, Passing, Truthful, Waiting, Retired

\* Another stage of the same refresh.
LEMMA StageFields ==
  ASSUME NEW b \in Brokers, NEW f \in Refreshes
  PROVE  /\ [b EXCEPT !.refresh = f] \in Brokers /\ [b EXCEPT !.refresh = f].refresh = f
         /\ [b EXCEPT !.refresh = f].phase = b.phase /\ [b EXCEPT !.refresh = f].epoch = b.epoch
         /\ [b EXCEPT !.refresh = f].next = b.next /\ [b EXCEPT !.refresh = f].retry = b.retry
         /\ [b EXCEPT !.refresh = f].deadline = b.deadline
         /\ [b EXCEPT !.refresh = f].reason = b.reason
  BY DEF Brokers

\* m is the lane with its refresh at another stage, and perhaps another timer.
Restages(m, f, t) ==
    \/ m = [lane EXCEPT !.broker = [lane.broker EXCEPT !.refresh = f]]
    \/ m = [lane EXCEPT !.broker = [lane.broker EXCEPT !.refresh = f], !.timer = t]

\* A step that moves a refresh to another stage.
LEMMA Restaged ==
  ASSUME LaneInv, Running, lane.broker.phase = "Refreshing", NEW f \in Refreshes,
         NEW t \in Nat, NEW m, Restages(m, f, t),
         Step(m, {}), now' = now,
         lookups' = IF f.stage = "Resolving" THEN <<lane.fence>> ELSE <<>>
  PROVE  Good
<1>1. PICK b : b = [lane.broker EXCEPT !.refresh = f]
  BY Zenon
<1>2. lane.broker.phase \in Waiting
  BY DEF Waiting
<1>3. /\ lane \in Lanes /\ lane.fault = "None" /\ Retired(lane) /\ ~lane.terminal
      /\ lane.broker \in Brokers /\ lane.dialer.phase = "Idle" /\ Rotating(lane.dialer)
      /\ FullyMissed(lane.dialer) /\ lane.fence = lane.broker.epoch /\ lane.fence \in Nat
  BY <1>2, WaitingFacts
<1>4. /\ b \in Brokers /\ b.refresh = f /\ b.phase = "Refreshing"
      /\ b.epoch = lane.broker.epoch /\ b.next = lane.broker.next
      /\ b.retry = lane.broker.retry /\ b.deadline = lane.broker.deadline
      /\ b.reason = lane.broker.reason
  BY <1>1, <1>3, StageFields
<1>5. /\ m \in Lanes /\ m.fault = "None" /\ Retired(m) /\ ~m.terminal /\ m.broker = b
      /\ m.dialer = lane.dialer /\ m.fence = lane.fence
  <2>1. CASE m = [lane EXCEPT !.broker = b]
    BY <1>3, <1>4, <2>1 DEF Lanes, Retired
  <2>2. CASE m = [lane EXCEPT !.broker = b, !.timer = t]
    BY <1>3, <1>4, <2>2, Zenon DEF Lanes, Retired
  <2> QED BY <1>1, <2>1, <2>2 DEF Restages
<1>6. Passing(m)
  BY <1>3, <1>4, <1>5 DEF Passing
<1>7. lookups' \in Seq(Nat) /\ Looking(m, lookups')
  BY <1>3, <1>4, <1>5 DEF Looking, RefreshIs
<1> QED BY <1>2, <1>3, <1>4, <1>5, <1>6, <1>7, KeepsWaiting DEF Waiting

\* The stages of a refresh differ.
LEMMA RefreshStages ==
  ASSUME NEW f \in Refreshes, NEW st \in {"Pending", "Resolving"}
  PROVE  [f EXCEPT !.stage = st] \in Refreshes /\ [f EXCEPT !.stage = st].stage = st
  BY DEF Refreshes

\* The host takes the refresh request of the lane.
LEMMA TakeRefreshStep ==
  ASSUME LaneInv, TakeRefresh
  PROVE  Good
<1>1. /\ Running /\ RefreshIs(lane.broker, lane.fence, "Pending")
      /\ lane.broker.phase = "Refreshing" /\ lane.broker.phase \in Waiting
  BY DEF TakeRefresh, RefreshNeeded, RefreshIs, Waiting
<1>2. /\ lookups = <<>> /\ lane.broker \in Brokers /\ lane.broker.refresh \in Refreshes
      /\ lane.timer \in Nat
  BY <1>1, WaitingFacts DEF RefreshIs, Brokers
<1> DEFINE f == [lane.broker.refresh EXCEPT !.stage = "Resolving"]
<1>3. f \in Refreshes /\ f.stage = "Resolving"
  BY <1>2, RefreshStages, Zenon
<1>4. EndpointRefreshStarted(lane.broker, lane.fence) =
        Applied([lane.broker EXCEPT !.refresh = f], NoEffect)
  BY <1>1, <1>2 DEF EndpointRefreshStarted
<1> HIDE DEF f
<1>5. Step([lane EXCEPT !.broker = [lane.broker EXCEPT !.refresh = f]], {})
  BY <1>4, DoneFields DEF TakeRefresh
<1>6. lookups' = <<lane.fence>> /\ now' = now
  BY <1>2 DEF TakeRefresh
<1>7. Restages([lane EXCEPT !.broker = [lane.broker EXCEPT !.refresh = f]], f, lane.timer)
  BY DEF Restages
<1> QED BY <1>1, <1>2, <1>3, <1>5, <1>6, <1>7, Restaged

\* The lane is restored for a later attempt.
LEMMA DeferFacts ==
  ASSUME NEW l, NEW b \in Brokers, l.broker = b, l.fence # 0, RefreshIs(b, l.fence, "Resolving"),
         NEW f, f = [b.refresh EXCEPT !.stage = "Pending"]
  PROVE  /\ f \in Refreshes /\ f.stage = "Pending"
         /\ Defer(l) = [l EXCEPT !.broker = [b EXCEPT !.refresh = f]]
<1>1. b.refresh \in Refreshes
  BY DEF Brokers
<1>2. EndpointRefreshDeferred(b, l.fence) = Applied([b EXCEPT !.refresh = f], NoEffect)
  BY <1>1 DEF EndpointRefreshDeferred
<1>3. Defer(l) = Apply(l, EndpointRefreshDeferred(b, l.fence)).lane
  BY DEF Defer
<1>4. Defer(l) = [l EXCEPT !.broker = [b EXCEPT !.refresh = f]]
  BY <1>2, <1>3, DoneFields
<1>5. f \in Refreshes /\ f.stage = "Pending"
  BY <1>1, RefreshStages, Zenon
<1> QED BY <1>4, <1>5

\* The resolver takes no request: the refresh is deferred.
LEMMA ResolverGoneStep ==
  ASSUME LaneInv, ResolverGone
  PROVE  Good
<1>1. /\ Running /\ RefreshIs(lane.broker, lane.fence, "Pending") /\ lane.fence # 0
      /\ lane.broker.phase = "Refreshing" /\ lane.broker.phase \in Waiting
      /\ now' = now /\ lookups' = lookups
  BY DEF ResolverGone, RefreshNeeded, RefreshIs, Waiting
<1>2. /\ lane \in Lanes /\ lane.broker \in Brokers /\ lane.broker.refresh \in Refreshes
      /\ lane.conn = 0 /\ lookups \in Seq(Nat) /\ lane.fault = "None"
  BY <1>1, WaitingFacts DEF RefreshIs, Brokers, LaneInv, LaneTypes
<1> DEFINE f == [lane.broker.refresh EXCEPT !.stage = "Resolving"]
           b == [lane.broker EXCEPT !.refresh = f]
           taken == Apply(lane, EndpointRefreshStarted(lane.broker, lane.fence)).lane
           g == [b.refresh EXCEPT !.stage = "Pending"]
           m == Defer(taken)
<1>3. f \in Refreshes /\ f.stage = "Resolving"
  BY <1>2, RefreshStages, Zenon
<1>4. EndpointRefreshStarted(lane.broker, lane.fence) = Applied(b, NoEffect)
  BY <1>1, <1>2 DEF EndpointRefreshStarted
<1> HIDE DEF f
<1>5. /\ b \in Brokers /\ b.refresh = f /\ b.phase = "Refreshing"
      /\ b.epoch = lane.broker.epoch
  BY <1>1, <1>2, <1>3, StageFields
<1> HIDE DEF b
<1>6. taken = [lane EXCEPT !.broker = b]
  BY <1>4, DoneFields
<1>7. /\ taken \in Lanes /\ taken.broker = b /\ taken.fence = lane.fence
      /\ taken.conn = 0 /\ taken.fault = "None"
  BY <1>2, <1>5, <1>6 DEF Lanes
<1>8. Step(IF m.fault = "None" THEN Fault(m, "Host") ELSE m, {})
  BY DEF ResolverGone
<1> HIDE DEF taken
<1>9. RefreshIs(b, taken.fence, "Resolving")
  BY <1>1, <1>3, <1>5, <1>7 DEF RefreshIs
<1>10. g \in Refreshes /\ m = [taken EXCEPT !.broker = [b EXCEPT !.refresh = g]]
  BY <1>1, <1>5, <1>7, <1>9, DeferFacts
<1> HIDE DEF g, m
<1>11. [b EXCEPT !.refresh = g] \in Brokers
  BY <1>5, <1>10, StageFields
<1>12. m \in Lanes /\ m.fault = "None" /\ m.conn = 0
  BY <1>7, <1>10, <1>11 DEF Lanes
<1>13. Fault(m, "Host") \in Lanes /\ Fault(m, "Host").fault = "Host" /\ Fault(m, "Host").conn = 0
  BY <1>12 DEF Fault, Lanes
<1>14. Step(Fault(m, "Host"), {})
  BY <1>8, <1>12
<1> QED BY <1>1, <1>2, <1>13, <1>14, Faulted

\* At most one answer is outstanding, so taking it leaves none.
LEMMA AnsweredAll ==
  ASSUME LaneInv, Running, NEW i \in DOMAIN lookups
  PROVE  Answered(i) = <<>> /\ i = 1 /\ Len(lookups) = 1
<1>1. lookups \in Seq(Nat) /\ Len(lookups) <= 1
  BY DEF LaneInv, LaneTypes, Looking
<1>2. i = 1 /\ Len(lookups) = 1
  <2>1. Len(lookups) \in Nat /\ DOMAIN lookups = 1..Len(lookups)
    BY <1>1
  <2>2. i \in 1..Len(lookups)
    BY <2>1
  <2> QED BY <1>1, <2>1, <2>2
<1>3. SubSeq(lookups, 1, 0) = <<>> /\ SubSeq(lookups, 2, 1) = <<>>
  BY <1>1
<1> QED BY <1>2, <1>3 DEF Answered

\* An answer for a lane that is not terminal finds the fence it left.
LEMMA AnswerFenced ==
  ASSUME LaneInv, Running, ~lane.terminal, NEW i \in DOMAIN lookups
  PROVE  /\ lookups[i] = lane.fence /\ Fenced(lane, lookups[i])
         /\ RefreshIs(lane.broker, lane.fence, "Resolving") /\ lane.fence # 0
         /\ lane.broker.phase = "Refreshing" /\ lane.broker.phase \in Waiting
<1>1. i = 1 /\ Len(lookups) = 1
  BY AnsweredAll
<1>2. Looking(lane, lookups) /\ Owned(lane)
  BY DEF LaneInv
<1>3. RefreshIs(lane.broker, lane.fence, "Resolving") /\ lookups = <<lane.fence>>
  BY <1>1, <1>2 DEF Looking
<1>4. lane.broker.phase = "Refreshing" /\ lane.broker.epoch # 0
  BY <1>2, <1>3 DEF RefreshIs, Owned
<1> QED BY <1>1, <1>3, <1>4 DEF Fenced, RefreshIs, Waiting

\* An answer for a lane that has closed.
LEMMA LateAnswerStep ==
  ASSUME LaneInv, NEW i \in DOMAIN lookups, LateAnswer(i)
  PROVE  Good
<1>1. /\ Running /\ lane.terminal /\ lookups' = <<>> /\ lane' = lane /\ now' = now
      /\ history' = history
  BY AnsweredAll DEF LateAnswer
<1>2. Looking(lane, <<>>)
  BY <1>1 DEF Looking
<1>3. LaneTypes'
  BY <1>1 DEF LaneInv, LaneTypes
<1> QED BY <1>1, <1>2, <1>3 DEF Good, LaneInv, Running, Reopens, Opens

\* Time passes.
LEMMA TickStep ==
  ASSUME LaneInv, Tick
  PROVE  Good
<1>1. LaneTypes'
  BY DEF LaneInv, LaneTypes, Tick
<1> QED BY <1>1 DEF Tick, Good, LaneInv, Running, Reopens, Opens

\* The route of the lane is replaced under its lookup.
LEMMA RefreshSupersededStep ==
  ASSUME LaneInv, NEW i \in DOMAIN lookups, RefreshSuperseded(i)
  PROVE  Good
<1>1. Running /\ ~lane.terminal /\ now' = now /\ lookups' = <<>>
  BY AnsweredAll DEF RefreshSuperseded
<1>2. /\ lookups[i] = lane.fence /\ RefreshIs(lane.broker, lane.fence, "Resolving")
      /\ lane.fence # 0 /\ lane.broker.phase = "Refreshing" /\ lane.broker.phase \in Waiting
  BY <1>1, AnswerFenced
<1>3. lane \in Lanes /\ lane.broker \in Brokers /\ lane.timer \in Nat /\ lane.fault = "None"
  BY <1>1, <1>2, WaitingFacts
<1> DEFINE f == [lane.broker.refresh EXCEPT !.stage = "Pending"]
           m == [lane EXCEPT !.broker = [lane.broker EXCEPT !.refresh = f]]
<1>4. f \in Refreshes /\ f.stage = "Pending" /\ Defer(lane) = m
  BY <1>2, <1>3, DeferFacts
<1>5. m.fault = "None"
  BY <1>3 DEF Lanes
<1> HIDE DEF f
<1>6. Step(HostFatal(m), {})
  BY <1>2, <1>4 DEF RefreshSuperseded
<1>7. Step(m, {})
  BY <1>5, <1>6 DEF HostFatal
<1>8. Restages(m, f, lane.timer)
  BY DEF Restages
<1> HIDE DEF m
<1> QED BY <1>1, <1>2, <1>3, <1>4, <1>7, <1>8, Restaged

\* interpret_lifecycle_effects, on a lane whose policy names the attempt.
LEMMA AttemptsNext ==
  ASSUME BoundedDelays, LaneInv, Running, lane.broker.phase \in Waiting,
         now >= lane.broker.deadline,
         NEW dial \in DialOutcomes, NEW j \in Nat, NEW k, MayOpen(k), Passing(k),
         k.broker.epoch = lane.broker.next, k.broker.retry = lane.broker.retry,
         Step(HostFatal(Interpret(
            Doing(k, Emit("OpenConnection", lane.broker.next, 0, 0)), dial, j)), {}),
         now' = now, lookups' = <<>>
  PROVE  Good
<1>1. now \in Nat
  BY DEF LaneInv, LaneTypes
<1>2. PICK m : m = Interpret(Doing(k, Emit("OpenConnection", k.broker.epoch, 0, 0)), dial, j)
  OBVIOUS
<1>3. /\ m \in Lanes
      /\ \/ m.fault = "Host" /\ m.conn = 0
         \/ OpenedAs(k, m)
         \/ SettledAs(Picked(k), m, "Failure") /\ Ending(Picked(k), "Failure")
  BY <1>1, <1>2, InterpretOpen
<1>4. Step(HostFatal(m), {})
  BY <1>2
<1> QED BY <1>3, <1>4, Attempts

\* A retry or refresh timer fires.
LEMMA FireDueStep ==
  ASSUME BoundedDelays, LaneInv, NEW dial \in DialOutcomes, NEW j \in Nat, FireDueReconnect(dial, j)
  PROVE  Good
<1>1. Running /\ Due(lane.broker) /\ now' = now /\ lookups' = lookups
  BY DEF FireDueReconnect
<1>2. lane.broker.phase \in Waiting
  BY <1>1 DEF Due, RefreshIs, Waiting
<1>3. /\ lane \in Lanes /\ lane.fault = "None" /\ Retired(lane) /\ ~lane.terminal
      /\ lane.broker \in Brokers /\ lane.dialer.phase = "Idle" /\ Rotating(lane.dialer)
      /\ lane.broker.phase = "Backoff" => Partial(lane.dialer) /\ lane.fence = 0
      /\ lane.broker.epoch \in Nat /\ lane.broker.next = lane.broker.epoch + 1
      /\ lookups = (IF RefreshIs(lane.broker, lane.broker.epoch, "Resolving")
                    THEN <<lane.fence>> ELSE <<>>)
      /\ lane.timer \in Nat
  BY <1>1, <1>2, WaitingFacts
<1>4. lane.broker.retry \in Nat /\ lane.broker.deadline \in Nat /\ now \in Nat
      /\ lane.broker.refresh \in Refreshes /\ lane.broker.next \in Nat
  BY <1>3 DEF Brokers, LaneInv, LaneTypes
<1>5. Step(HostFatal(Interpret(Apply(lane, FireDue(lane.broker)), dial, j)), {})
  BY DEF FireDueReconnect
<1>6. CASE lane.broker.phase = "Backoff"
  <2>1. lane.broker.deadline <= now /\ lookups = <<>>
    BY <1>1, <1>3, <1>6 DEF Due, RefreshIs
  <2>2. PICK c \in Brokers :
           /\ Connect(lane.broker.next, lane.broker.retry) =
                Applied(c, Emit("OpenConnection", lane.broker.next, 0, 0))
           /\ c.phase = "Connecting" /\ c.epoch = lane.broker.next
           /\ c.retry = lane.broker.retry /\ c.reason = "None"
    BY <1>4, ConnectFields
  <2>3. FireDue(lane.broker) = Connect(lane.broker.next, lane.broker.retry)
    BY <1>4, <1>6, <2>1 DEF FireDue, ReconnectElapsed
  <2>4. PICK k : k = [lane EXCEPT !.broker = c]
    BY Zenon
  <2>5. Apply(lane, FireDue(lane.broker)) =
          Doing(k, Emit("OpenConnection", lane.broker.next, 0, 0))
    BY <2>2, <2>3, <2>4, ApplyApplied
  <2>6. /\ k \in Lanes /\ k.fault = "None" /\ Retired(k) /\ ~k.terminal /\ k.broker = c
        /\ k.dialer = lane.dialer /\ k.fence = 0
    BY <1>3, <1>6, <2>4 DEF Lanes, Retired
  <2>7. MayOpen(k) /\ Passing(k)
    BY <1>3, <1>4, <1>6, <2>2, <2>6 DEF MayOpen, Passing
  <2>8. Step(HostFatal(Interpret(
            Doing(k, Emit("OpenConnection", lane.broker.next, 0, 0)), dial, j)), {})
    BY <1>5, <2>5
  <2> QED BY <1>1, <1>2, <2>1, <2>2, <2>6, <2>7, <2>8, <1>4, AttemptsNext
<1>7. CASE RefreshIs(lane.broker, lane.broker.epoch, "Backoff")
                /\ lane.broker.refresh.deadline <= now
  <2> DEFINE f == [NoRefresh EXCEPT !.stage = "Pending", !.last = lane.broker.refresh.last]
             m == [lane EXCEPT !.broker = [lane.broker EXCEPT !.refresh = f]]
  <2>1. /\ f \in Refreshes /\ f.stage = "Pending"
        /\ lane.broker.refresh.deadline \in Nat
    BY <1>4, Zenon DEF NoRefresh, Refreshes
  <2>2. FireDue(lane.broker) = Applied([lane.broker EXCEPT !.refresh = f], NoEffect)
    BY <1>4, <1>7, <2>1 DEF FireDue, EndpointRefreshRetryElapsed, RefreshIs
  <2> HIDE DEF f
  <2>3. Apply(lane, FireDue(lane.broker)) = Doing(m, NoEffect)
    BY <2>2, ApplyApplied
  <2>4. m.fault = "None"
    BY <1>3 DEF Lanes
  <2> HIDE DEF m
  <2>5. Interpret(Doing(m, NoEffect), dial, j) = m
    <3>1. Doing(m, NoEffect).lane = m /\ Agrees(m, NoEffect)
          /\ Doing(m, NoEffect).effect = NoEffect
      BY DEF Doing, Agrees, NoEffect
    <3> QED BY <3>1, TimerEffects
  <2>6. Step(m, {})
    BY <1>5, <2>3, <2>4, <2>5 DEF HostFatal
  <2>7. lookups = <<>> /\ lane.broker.phase = "Refreshing"
    BY <1>3, <1>7 DEF RefreshIs
  <2>8. Restages(m, f, lane.timer)
    BY DEF Restages, m
  <2> QED BY <1>1, <1>3, <2>1, <2>6, <2>7, <2>8, Restaged
<1> QED BY <1>1, <1>6, <1>7 DEF Due

-----------------------------------------------------------------------------
(* The resolver's answers.                                                   *)

\* The resolver answers with addresses, and the lane dials the first.
LEMMA RefreshSucceedsStep ==
  ASSUME BoundedDelays, LaneInv, NEW i \in DOMAIN lookups, NEW size \in Nat,
         NEW dial \in DialOutcomes,
         NEW j \in Nat, RefreshSucceeds(i, size, dial, j)
  PROVE  Good
<1>1. Running /\ ~lane.terminal /\ now' = now /\ lookups' = <<>>
  BY AnsweredAll DEF RefreshSucceeds
<1>2. /\ Fenced(lane, lookups[i]) /\ RefreshIs(lane.broker, lane.fence, "Resolving")
      /\ lane.broker.phase = "Refreshing" /\ lane.broker.phase \in Waiting
  BY <1>1, AnswerFenced
<1>3. /\ lane \in Lanes /\ lane.fault = "None" /\ Retired(lane)
      /\ lane.broker \in Brokers /\ lane.broker.epoch \in Nat
      /\ lane.broker.next = lane.broker.epoch + 1
  BY <1>1, <1>2, WaitingFacts
<1>4. /\ lane.broker.retry \in Nat /\ lane.broker.deadline \in Nat /\ now \in Nat
      /\ lane.broker.next \in Nat
  BY <1>3 DEF Brokers, LaneInv, LaneTypes
<1>5. Step(HostFatal(FinishRefresh(lane, size, dial, j)), {})
  BY <1>2 DEF RefreshSucceeds
<1>6. /\ NewDialer(size) \in Dialers /\ Rotating(NewDialer(size))
      /\ Partial(NewDialer(size)) /\ NewDialer(size).phase = "Idle"
  BY NewPass
<1>7. ASSUME NEW c \in Brokers, NEW effect,
             EndpointRefreshed(lane.broker, lane.fence, now) = Applied(c, effect)
      PROVE  \E k \in Lanes :
               /\ FinishRefresh(lane, size, dial, j) = Interpret(Doing(k, effect), dial, j)
               /\ k.fault = "None" /\ Retired(k) /\ ~k.terminal /\ k.broker = c
               /\ k.dialer = NewDialer(size) /\ k.fence = 0
  <2>1. PICK q \in Lanes : q = [lane EXCEPT !.broker = c]
    BY <1>3, Zenon DEF Lanes
  <2>2. /\ Apply(lane, Applied(c, effect)).lane = q
        /\ Apply(lane, Applied(c, effect)).effect = effect
    BY <2>1, DoneFields
  <2>3. PICK k \in Lanes : k = [q EXCEPT !.dialer = NewDialer(size), !.fence = 0]
    BY <1>6, Zenon DEF Lanes
  <2>4. FinishRefresh(lane, size, dial, j) = Interpret(Doing(k, effect), dial, j)
    BY <1>7, <2>2, <2>3 DEF FinishRefresh
  <2>5. /\ k.fault = "None" /\ Retired(k) /\ ~k.terminal /\ k.broker = c
        /\ k.dialer = NewDialer(size) /\ k.fence = 0
    BY <1>1, <1>3, <2>1, <2>3 DEF Lanes, Retired
  <2> QED BY <2>3, <2>4, <2>5, Zenon
<1>8. CASE now < lane.broker.deadline
  <2> DEFINE c == [lane.broker EXCEPT !.phase = "Backoff", !.refresh = NoRefresh]
  <2>1. /\ c \in Brokers /\ c.phase = "Backoff" /\ c.epoch = lane.broker.epoch
        /\ c.next = lane.broker.next /\ c.retry = lane.broker.retry
        /\ c.deadline = lane.broker.deadline /\ c.reason = lane.broker.reason
    BY <1>3, Zenon DEF Brokers, BrokerPhases, Waiting, NoRefresh, Refreshes
  <2>2. EndpointRefreshed(lane.broker, lane.fence, now) =
          Applied(c, Emit("ScheduleReconnect", c.epoch, c.timer, c.deadline))
    BY <1>2, <1>8 DEF EndpointRefreshed, ScheduleReconnect
  <2> HIDE DEF c
  <2> DEFINE effect == Emit("ScheduleReconnect", c.epoch, c.timer, c.deadline)
  <2>3. PICK k \in Lanes :
          /\ FinishRefresh(lane, size, dial, j) = Interpret(Doing(k, effect), dial, j)
          /\ k.fault = "None" /\ Retired(k) /\ ~k.terminal /\ k.broker = c
          /\ k.dialer = NewDialer(size) /\ k.fence = 0
    BY <1>7, <2>1, <2>2
  <2>4. Agrees(k, effect)
    BY <2>1, <2>3 DEF Agrees, Reconnecting, Emit
  <2> HIDE DEF effect
  <2>5. Interpret(Doing(k, effect), dial, j) = k
    <3>1. Doing(k, effect).lane = k /\ Doing(k, effect).effect = effect
      BY DEF Doing
    <3> QED BY <2>4, <3>1, TimerEffects
  <2>6. Step(k, {})
    BY <1>5, <2>3, <2>5 DEF HostFatal
  <2>7. Passing(k) /\ Looking(k, <<>>) /\ <<>> \in Seq(Nat)
    BY <1>6, <2>1, <2>3 DEF Passing, Looking, RefreshIs
  <2> QED BY <1>1, <1>2, <1>6, <2>1, <2>3, <2>6, <2>7, KeepsWaiting DEF Waiting
<1>9. CASE ~(now < lane.broker.deadline)
  <2>1. PICK c \in Brokers :
           /\ Connect(lane.broker.next, lane.broker.retry) =
                Applied(c, Emit("OpenConnection", lane.broker.next, 0, 0))
           /\ c.phase = "Connecting" /\ c.epoch = lane.broker.next
           /\ c.retry = lane.broker.retry /\ c.reason = "None"
    BY <1>4, ConnectFields
  <2>2. EndpointRefreshed(lane.broker, lane.fence, now) =
          Connect(lane.broker.next, lane.broker.retry)
    BY <1>2, <1>9 DEF EndpointRefreshed
  <2> DEFINE effect == Emit("OpenConnection", lane.broker.next, 0, 0)
  <2>3. PICK k \in Lanes :
          /\ FinishRefresh(lane, size, dial, j) = Interpret(Doing(k, effect), dial, j)
          /\ k.fault = "None" /\ Retired(k) /\ ~k.terminal /\ k.broker = c
          /\ k.dialer = NewDialer(size) /\ k.fence = 0
    BY <1>7, <2>1, <2>2
  <2>4. MayOpen(k) /\ Passing(k)
    BY <1>3, <1>4, <1>6, <2>1, <2>3 DEF MayOpen, Passing
  <2>5. Step(HostFatal(Interpret(Doing(k, effect), dial, j)), {})
    BY <1>5, <2>3
  <2>6. now >= lane.broker.deadline
    BY <1>4, <1>9
  <2> QED BY <1>1, <1>2, <2>1, <2>3, <2>4, <2>5, <2>6, AttemptsNext, ZenonT(60)
<1> QED BY <1>8, <1>9

\* The policy gives up resolving or schedules another attempt.
RefreshOutcome(b, failure, tr) ==
    \/ \E r \in CloseReasons :
          /\ tr = BrokerClose(r) /\ r \notin {"Requested", "AuthenticationFailed"}
          /\ r = "EndpointResolutionFailed" => failure = "NoUsableAddress"
    \/ \E f \in Refreshes :
          /\ tr = ScheduleRefreshRetry([b EXCEPT !.refresh = f])
          /\ f.stage = "Backoff" /\ failure # "NoUsableAddress"

\* A failed lookup is retried later or gives the lane up.
LEMMA RefreshFailedOutcomes ==
  ASSUME BoundedDelays, NEW b \in Brokers, NEW epoch, RefreshIs(b, epoch, "Resolving"), NEW failure,
         NEW t \in Nat, NEW n \in Nat, NEW j \in Nat,
         NEW sc, sc = [timer |-> t, now |-> n, jitter |-> j]
  PROVE  RefreshOutcome(b, failure, EndpointRefreshFailed(b, epoch, failure, sc))
<1> DEFINE retry == b.refresh.last + 1
           deadline == n + Delay(retry, j)
           f == [stage |-> "Backoff", last |-> retry, timer |-> t, deadline |-> deadline]
<1>1. retry \in Nat \ {0}
  BY DEF Brokers, Refreshes
<1> HIDE DEF retry
<1>2. deadline \in Nat
  BY <1>1 DEF BoundedDelays
<1>3. sc.timer = t /\ sc.now = n /\ sc.jitter = j
  OBVIOUS
<1>4. f \in Refreshes /\ f.stage = "Backoff"
  BY <1>1, <1>2, <1>3 DEF Refreshes
<1>5. CASE failure = "NoUsableAddress"
  BY <1>5 DEF EndpointRefreshFailed, CloseReasons, RefreshOutcome
<1>6. CASE failure # "NoUsableAddress" /\ (t = 0 \/ retry > MaxRetry \/ deadline > MaxMoment)
  <2>1. \E r \in {"RetryResourcesUnavailable", "RetryExhausted", "ClockOverflow"} :
           EndpointRefreshFailed(b, epoch, failure, sc) = BrokerClose(r)
    BY <1>3, <1>6 DEF EndpointRefreshFailed, retry
  <2> QED BY <2>1 DEF CloseReasons, RefreshOutcome
<1>7. CASE failure # "NoUsableAddress" /\ ~(t = 0 \/ retry > MaxRetry \/ deadline > MaxMoment)
  <2>1. EndpointRefreshFailed(b, epoch, failure, sc) =
          ScheduleRefreshRetry([b EXCEPT !.refresh = f])
    BY <1>3, <1>7 DEF EndpointRefreshFailed, retry
  <2> QED BY <1>4, <1>7, <2>1 DEF RefreshOutcome
<1> QED BY <1>5, <1>6, <1>7

\* The resolver answers with a failure.
LEMMA RefreshFailsStep ==
  ASSUME BoundedDelays, LaneInv, NEW i \in DOMAIN lookups, NEW failure \in DnsFailures,
         NEW j \in Nat,
         RefreshFails(i, failure, j)
  PROVE  Good
<1> DEFINE seen == IF failure = "NoUsableAddress" THEN {"Unusable"} ELSE {}
           reserves == failure # "NoUsableAddress" /\ lane.timer <= MaxTimer
           t == IF reserves THEN lane.timer ELSE 0
           u == IF reserves THEN lane.timer + 1 ELSE lane.timer
           sc == [timer |-> t, now |-> now, jitter |-> j]
           k == [lane EXCEPT !.timer = u]
           tr == EndpointRefreshFailed(lane.broker, lane.fence, failure, sc)
<1>1. Running /\ ~lane.terminal /\ now' = now /\ lookups' = <<>>
  BY AnsweredAll DEF RefreshFails
<1>2. /\ Fenced(lane, lookups[i]) /\ RefreshIs(lane.broker, lane.fence, "Resolving")
      /\ lane.broker.phase = "Refreshing" /\ lane.broker.phase \in Waiting
  BY <1>1, AnswerFenced
<1>3. /\ lane \in Lanes /\ lane.fault = "None" /\ Retired(lane) /\ Rotating(lane.dialer)
      /\ lane.broker \in Brokers /\ lane.timer \in Nat /\ now \in Nat
  BY <1>1, <1>2, WaitingFacts DEF LaneInv, LaneTypes
<1>4. Step(HostFatal(FailRefresh(lane, failure, j)), seen)
  BY <1>2 DEF RefreshFails
<1>5. t \in Nat /\ u \in Nat
  BY <1>3
<1>6. k \in Lanes /\ k.fault = "None" /\ Retired(k) /\ ~k.terminal
      /\ k.dialer = lane.dialer /\ k.fence = lane.fence /\ k.broker = lane.broker
  BY <1>1, <1>3, <1>5 DEF Lanes, Retired
<1>7. ASSUME NEW c \in Brokers, NEW effect, tr = Applied(c, effect)
      PROVE  FailRefresh(lane, failure, j) =
               LET a == [k EXCEPT !.broker = c]
                   r == IF c.phase = "Closed" THEN [a EXCEPT !.fence = 0] ELSE a
               IN  SettlePolicyClose(Interpret(Doing(r, effect), "Connects", j))
  <2>1. [lane EXCEPT !.timer = IF reserves THEN @ + 1 ELSE @] = k
    OBVIOUS
  <2>2. [k EXCEPT !.broker = c].broker = c
    BY <1>6 DEF Lanes
  <2> HIDE DEF k, sc, tr
  <2>3. /\ Apply(k, tr).lane = [k EXCEPT !.broker = c] /\ Apply(k, tr).effect = effect
    BY <1>7, DoneFields
  <2> QED BY <2>1, <2>2, <2>3, Zenon DEF FailRefresh, sc, tr
<1>8. seen \in SUBSET Observations /\ <<>> \in Seq(Nat) /\ Len(<<>>) = 0
  BY DEF Observations
<1> HIDE DEF k, t, u
<1>9. ASSUME NEW r \in CloseReasons, tr = BrokerClose(r),
             r \notin {"Requested", "AuthenticationFailed"},
             r = "EndpointResolutionFailed" => failure = "NoUsableAddress"
      PROVE  Good
  <2> DEFINE c == [At("Closed", 0) EXCEPT !.reason = r]
             a == [k EXCEPT !.broker = c]
             q == [a EXCEPT !.fence = 0]
             m == [q EXCEPT !.terminal = TRUE]
  <2>1. c \in Brokers /\ c.phase = "Closed" /\ c.reason = r
    BY ClosedFields
  <2>2. tr = Applied(c, NoEffect)
    BY <1>9 DEF BrokerClose
  <2> HIDE DEF c, tr
  <2>3. /\ q \in Lanes /\ q.fault = "None" /\ Retired(q) /\ q.broker = c
        /\ q.dialer = lane.dialer /\ q.fence = 0
    BY <1>6, <2>1, Zenon DEF Lanes, Retired
  <2>4. FailRefresh(lane, failure, j) =
          SettlePolicyClose(Interpret(Doing(q, NoEffect), "Connects", j))
    BY <1>7, <2>1, <2>2, Zenon
  <2> HIDE DEF q
  <2>5. Interpret(Doing(q, NoEffect), "Connects", j) = q
    <3>1. Doing(q, NoEffect).lane = q /\ Agrees(q, NoEffect)
          /\ Doing(q, NoEffect).effect = NoEffect
      BY DEF Doing, Agrees, NoEffect
    <3> QED BY <3>1, TimerEffects
  <2>6. FailRefresh(lane, failure, j) = m
    BY <2>1, <2>3, <2>4, <2>5, Zenon DEF SettlePolicyClose
  <2>7. /\ m \in Lanes /\ m.fault = "None" /\ Retired(m) /\ m.broker = c
        /\ m.dialer = lane.dialer /\ m.fence = 0 /\ m.terminal
    BY <2>3, Zenon DEF Lanes, Retired
  <2> HIDE DEF m
  <2>8. Step(m, seen)
    BY <1>4, <2>6, <2>7 DEF HostFatal
  <2>9. r = "EndpointResolutionFailed" => "Unusable" \in history.seen \cup seen
    BY <1>9
  <2> HIDE DEF seen
  <2> QED BY <1>1, <1>3, <1>8, <1>9, <2>1, <2>7, <2>8, <2>9, Closes
<1>10. ASSUME NEW f \in Refreshes,
              tr = ScheduleRefreshRetry([lane.broker EXCEPT !.refresh = f]),
              f.stage = "Backoff", failure # "NoUsableAddress"
       PROVE  Good
  <2> DEFINE c == [lane.broker EXCEPT !.refresh = f]
             m == [lane EXCEPT !.broker = c, !.timer = u]
             effect == Emit("ScheduleEndpointRefreshRetry", c.epoch, c.refresh.timer,
                            c.refresh.deadline)
  <2>1. /\ c \in Brokers /\ c.refresh = f /\ c.phase = "Refreshing"
        /\ c.epoch = lane.broker.epoch
    BY <1>2, <1>3, StageFields
  <2>2. tr = Applied(c, effect)
    BY <1>10 DEF ScheduleRefreshRetry
  <2>3. [k EXCEPT !.broker = c] = m
    BY <1>3, Zenon DEF k, Lanes
  <2>4. /\ m \in Lanes /\ m.fault = "None" /\ m.broker = c
    BY <1>3, <1>5, <2>1, Zenon DEF Lanes
  <2> HIDE DEF c, m, tr
  <2>5. FailRefresh(lane, failure, j) =
          SettlePolicyClose(Interpret(Doing(m, effect), "Connects", j))
    BY <1>7, <2>1, <2>2, <2>3, Zenon
  <2>6. Interpret(Doing(m, effect), "Connects", j) = m
    <3>1. /\ effect.kind = "ScheduleEndpointRefreshRetry" /\ effect.epoch = c.epoch
          /\ effect.timer = c.refresh.timer /\ effect.at = c.refresh.deadline
      BY DEF Emit
    <3>2. RefreshRetrying(m, effect)
      BY <1>10, <2>1, <2>4, <3>1 DEF RefreshRetrying, RefreshIs
    <3>3. Doing(m, effect).lane = m /\ Doing(m, effect).effect = effect
      BY DEF Doing
    <3> HIDE DEF effect
    <3> QED BY <2>4, <3>1, <3>2, <3>3 DEF Interpret, CheckTimer
  <2>7. FailRefresh(lane, failure, j) = m
    BY <2>1, <2>4, <2>5, <2>6 DEF SettlePolicyClose
  <2>8. Step(m, {})
    BY <1>4, <1>10, <2>4, <2>7 DEF HostFatal
  <2>9. Restages(m, f, u)
    BY DEF Restages, m, c
  <2>10. lookups' = IF f.stage = "Resolving" THEN <<lane.fence>> ELSE <<>>
    BY <1>1, <1>10
  <2> QED BY <1>1, <1>2, <1>5, <1>10, <2>8, <2>9, <2>10, Restaged
<1>11. RefreshOutcome(lane.broker, failure, tr)
  <2> HIDE DEF sc
  <2>1. sc = [timer |-> t, now |-> now, jitter |-> j]
    BY DEF sc
  <2> QED BY <1>2, <1>3, <1>5, <2>1, RefreshFailedOutcomes
<1> HIDE DEF tr
<1> QED BY <1>9, <1>10, <1>11, ZenonT(60) DEF RefreshOutcome

-----------------------------------------------------------------------------
(* The engine.                                                               *)

\* A step of the engine publishes what it has to say.
LEMMA EnginePublishes ==
  ASSUME LaneInv, Running, lane.conn # 0, NEW phase, NEW reason,
         [phase |-> phase, reason |-> reason] \in Engines,
         NEW published \in Seq(Events),
         \A k \in DOMAIN published : published[k].kind # "AdmissionOpened",
         "Asked" \notin history.seen =>
            /\ phase # "Draining" /\ Unbidden(lane, reason)
            /\ \A k \in DOMAIN published : Unbidden(lane, published[k].reason),
         EngineStep(phase, reason, published)
  PROVE  Good
<1>1. /\ lane \in Lanes /\ Owned(lane) /\ Truthful(lane, history.seen)
      /\ lane.events \in Seq(Events) /\ lane.fault = "None"
      /\ history.seen \in SUBSET Observations
  BY DEF LaneInv, LaneTypes, Lanes, Running, Histories
<1> DEFINE e == [phase |-> phase, reason |-> reason]
           es == lane.events \o published
<1>2. PICK m : m = [lane EXCEPT !.engine = e, !.events = es]
  OBVIOUS
<1>3. Step(m, {}) /\ now' = now /\ lookups' = lookups
  BY <1>2 DEF EngineStep
<1>4. es \in Seq(Events) /\ Admits(es) = Admits(lane.events)
  BY <1>1, ConcatEvents, ConcatAdmits
<1>5. e.phase = phase /\ e.reason = reason /\ e \in Engines
  OBVIOUS
<1>6. "Asked" \notin history.seen =>
        \A i \in DOMAIN es : Unbidden(lane, es[i].reason)
  <2> SUFFICES ASSUME "Asked" \notin history.seen, NEW i \in DOMAIN es
               PROVE  Unbidden(lane, es[i].reason)
    OBVIOUS
  <2>1. CASE i \in DOMAIN lane.events
    <3>1. es[i] = lane.events[i]
      BY <1>1, <2>1, ConcatEvents
    <3>2. Unasked(lane)
      BY <1>1 DEF Truthful
    <3> QED BY <2>1, <3>1, <3>2 DEF Unasked, Unbidden
  <2>2. CASE i \notin DOMAIN lane.events
    <3>1. lane.events \in Seq(Events) /\ es = lane.events \o published
      BY <1>1
    <3>2. \A n \in DOMAIN es :
            n \in DOMAIN lane.events \/ \E k \in DOMAIN published : es[n] = published[k]
      BY <3>1, ConcatEvents, Zenon
    <3>3. PICK k \in DOMAIN published : es[i] = published[k]
      BY <2>2, <3>2
    <3> QED BY <3>3
  <2> QED BY <2>1, <2>2
<1> HIDE DEF e, es
<1>7. /\ m \in Lanes /\ m.engine = e /\ m.events = es /\ m.fault = "None"
      /\ m.broker = lane.broker /\ m.dialer = lane.dialer /\ m.fence = lane.fence
      /\ m.terminal = lane.terminal /\ m.conn = lane.conn /\ m.session = lane.session
      /\ m.cause = lane.cause /\ m.admitting = lane.admitting /\ m.report = lane.report
  BY <1>1, <1>2, <1>4, <1>5, Zenon DEF Lanes
<1>8. Owned(m)
  BY <1>1, <1>4, <1>7, ZenonT(60) DEF Owned, Retired
<1>9. Truthful(m, history.seen \cup {})
  <2>1. "Asked" \notin history.seen => Unasked(m)
    BY <1>1, <1>5, <1>6, <1>7 DEF Truthful, Unasked, Unbidden
  <2>2. Truthful(m, history.seen)
    BY <1>1, <1>7, <2>1 DEF Truthful, Verdicts
  <2> QED BY <2>2, ZenonT(60)
<1> QED BY <1>3, <1>7, <1>8, <1>9, PolicyKept

\* The transport opens.
LEMMA EngineOpensStep ==
  ASSUME LaneInv, EngineOpens
  PROVE  Good
<1>1. PICK e : e = Event("TransportOpened", "None")
  OBVIOUS
<1>2. e \in Events /\ e.kind = "TransportOpened" /\ e.reason = "None"
  BY <1>1 DEF Event, Events, EngineReasons
<1>3. <<e>> \in Seq(Events) /\ \A k \in DOMAIN <<e>> : <<e>>[k] = e
  BY <1>2, OneEvent
<1>4. [phase |-> "Open", reason |-> "None"] \in Engines
  BY DEF Engines, EngineUp, EngineReasons
<1>5. Running /\ lane.conn # 0 /\ EngineStep("Open", "None", <<e>>)
  BY <1>1 DEF EngineOpens
<1>6. Unbidden(lane, "None")
  BY DEF Unbidden
<1> QED BY <1>2, <1>3, <1>4, <1>5, <1>6, EnginePublishes, Zenon

\* The engine loses the connection.
LEMMA EngineLosesStep ==
  ASSUME LaneInv, EngineLoses
  PROVE  Good
<1> DEFINE o == Event("OperationClosed", "None")
           c == Event("Closing", "Failure")
           ps == (IF lane.session \in {"Negotiating", "Authenticating"}
                  THEN <<o>> ELSE <<>>) \o <<c>>
<1>1. /\ Running /\ lane.conn # 0 /\ EngineStep("Closing", "Failure", ps)
  BY DEF EngineLoses
<1>2. /\ o \in Events /\ o.kind # "AdmissionOpened" /\ o.reason = "None"
      /\ c \in Events /\ c.kind # "AdmissionOpened" /\ c.reason = "Failure"
  BY DEF Event, Events, EngineReasons
<1>3. [phase |-> "Closing", reason |-> "Failure"] \in Engines
  BY DEF Engines, EngineUp, EngineReasons
<1>4. Unbidden(lane, "Failure") /\ Unbidden(lane, "None")
  BY DEF Unbidden
<1> HIDE DEF o, c
<1>5. ps \in Seq(Events) /\ \A k \in DOMAIN ps : ps[k] \in {o, c}
  <2>1. CASE lane.session \in {"Negotiating", "Authenticating"}
    <3>1. ps = <<o>> \o <<c>>
      BY <2>1
    <3>2. PICK a : a = <<o>> /\ a \in Seq(Events) /\ \A k \in DOMAIN a : a[k] = o
      BY <1>2, OneEvent, Zenon
    <3>3. PICK z : z = <<c>> /\ z \in Seq(Events) /\ \A k \in DOMAIN z : z[k] = c
      BY <1>2, OneEvent, Zenon
    <3> QED BY <3>1, <3>2, <3>3, ConcatEvents
  <2>2. CASE lane.session \notin {"Negotiating", "Authenticating"}
    <3>1. ps = <<>> \o <<c>>
      BY <2>2
    <3>2. ps = <<c>>
      BY <3>1
    <3> QED BY <1>2, <3>2
  <2> QED BY <2>1, <2>2
<1> HIDE DEF ps
<1>6. /\ \A k \in DOMAIN ps : ps[k].kind # "AdmissionOpened"
      /\ \A k \in DOMAIN ps : Unbidden(lane, ps[k].reason)
  BY <1>2, <1>4, <1>5
<1> QED BY <1>1, <1>3, <1>4, <1>5, <1>6, EnginePublishes

\* The engine has drained.
LEMMA EngineDrainsStep ==
  ASSUME LaneInv, EngineDrains
  PROVE  Good
<1>1. PICK e : e = Event("Closing", "Drained")
  OBVIOUS
<1>2. e \in Events /\ e.kind = "Closing"
  BY <1>1 DEF Event, Events, EngineReasons
<1>3. <<e>> \in Seq(Events) /\ \A k \in DOMAIN <<e>> : <<e>>[k] = e
  BY <1>2, OneEvent
<1>4. [phase |-> "Closing", reason |-> "Drained"] \in Engines
  BY DEF Engines, EngineUp, EngineReasons
<1>5. /\ Running /\ lane.conn # 0 /\ lane.engine.phase = "Draining"
      /\ EngineStep("Closing", "Drained", <<e>>)
  BY <1>1 DEF EngineDrains
<1>6. "Asked" \in history.seen
  BY <1>5 DEF LaneInv, Truthful, Unasked
<1> QED BY <1>2, <1>3, <1>4, <1>5, <1>6, EnginePublishes, Zenon

\* The engine reports its close.
LEMMA EngineClosesStep ==
  ASSUME LaneInv, EngineCloses
  PROVE  Good
<1>1. PICK e : e = Event("Closed", lane.engine.reason)
  OBVIOUS
<1>2. lane.engine.reason \in EngineReasons
  BY DEF LaneInv, LaneTypes, Lanes, Engines
<1>3. e \in Events /\ e.kind = "Closed" /\ e.reason = lane.engine.reason
  BY <1>1, <1>2 DEF Event, Events
<1>4. <<e>> \in Seq(Events) /\ \A k \in DOMAIN <<e>> : <<e>>[k] = e
  BY <1>3, OneEvent
<1>5. [phase |-> "Closed", reason |-> lane.engine.reason] \in Engines
  BY <1>2 DEF Engines
<1>6. /\ Running /\ lane.conn # 0
      /\ EngineStep("Closed", lane.engine.reason, <<e>>)
  BY <1>1 DEF EngineCloses
<1>7. "Asked" \notin history.seen => Unbidden(lane, lane.engine.reason)
  BY <1>6 DEF LaneInv, Truthful, Unasked, Unbidden
<1> QED BY <1>3, <1>4, <1>5, <1>6, <1>7, EnginePublishes, Zenon

\* The engine fails under the lane.
LEMMA EngineFailsStep ==
  ASSUME LaneInv, NEW sound \in BOOLEAN, EngineFails(sound)
  PROVE  Good
<1>1. /\ lane \in Lanes /\ Owned(lane) /\ Truthful(lane, history.seen)
      /\ lane.fault = "None" /\ Running /\ lane.conn # 0 /\ lane.conn \in Nat
  BY DEF LaneInv, LaneTypes, Lanes, Running, EngineFails
<1>2. PICK r : r = [epoch |-> lane.conn, sound |-> sound]
  BY ZenonT(60)
<1>3. r \in [epoch : Nat, sound : BOOLEAN] /\ r.epoch = lane.conn
  BY <1>1, <1>2
<1>4. PICK m : m = [lane EXCEPT !.conn = 0, !.admitting = FALSE, !.engine = NoEngine,
                                !.report = r]
  OBVIOUS
<1>5. Step(m, {}) /\ now' = now /\ lookups' = lookups
  BY <1>2, <1>4 DEF EngineFails
<1>6. NoEngine \in Engines /\ NoEngine.phase = "None" /\ NoEngine.reason = "None"
  BY DEF NoEngine, Engines, EngineReasons
<1>7. /\ m \in Lanes /\ m.engine = NoEngine /\ m.events = lane.events /\ m.fault = "None"
      /\ m.broker = lane.broker /\ m.dialer = lane.dialer /\ m.fence = lane.fence
      /\ m.terminal = lane.terminal /\ m.conn = 0 /\ m.session = lane.session
      /\ m.cause = lane.cause /\ ~m.admitting /\ m.report = r
  BY <1>1, <1>3, <1>4, <1>6, ZenonT(60) DEF Lanes
<1>8. lane.broker.phase \in LivePhases /\ lane.broker.epoch = lane.conn
  BY <1>1 DEF Owned, Retired
<1>9. Owned(m)
  BY <1>1, <1>3, <1>7, <1>8 DEF Owned
<1>10. Truthful(m, history.seen \cup {})
  <2>1. Truthful(m, history.seen)
    BY <1>1, <1>6, <1>7 DEF Truthful, Verdicts, Unasked
  <2> QED BY <2>1
<1> QED BY <1>1, <1>5, <1>7, <1>9, <1>10, PolicyKept
=============================================================================
