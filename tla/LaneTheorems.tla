---------------------------- MODULE LaneTheorems ----------------------------
(***************************************************************************)
(* Recovery, the drain of the owner, and what holds of one broker lane for *)
(* every backoff policy, every number of addresses, epochs, retries and    *)
(* timers, and every bound of the model.                                   *)
(***************************************************************************)
EXTENDS LaneStepProofs, LaneSessionProofs, FiniteSetTheorems

-----------------------------------------------------------------------------
(* Recovery of a failed engine.                                              *)

\* k is the lane, which may have stopped admitting requests.
Same(k) ==
    /\ k \in Lanes /\ k.fault = "None" /\ k.broker = lane.broker /\ k.dialer = lane.dialer
    /\ k.fence = lane.fence /\ k.terminal = lane.terminal /\ k.conn = lane.conn
    /\ k.session = lane.session /\ k.cause = lane.cause /\ k.engine = lane.engine
    /\ k.events = lane.events /\ k.report = lane.report
    /\ ~k.admitting \/ k.admitting = lane.admitting

\* The generation of the lane was settled, for a reason it can account for.
Recovered(m) ==
    \E q, r :
        /\ Ending(q, r) /\ SettledAs(q, m, r)
        /\ q.broker = lane.broker /\ q.dialer = lane.dialer
        /\ "Asked" \notin history.seen => r \notin {"Requested", "Drained"}
        /\ "Rejected" \notin history.seen => r # "Rejected"

\* settle_recovery
LEMMA SettleRecoveryFacts ==
  ASSUME BoundedDelays, NewestCloses, LaneInv, Running, NEW k, Same(k),
         lane.report # NoReport, NEW j \in Nat,
         NEW m, m = SettleRecovery(k, j)
  PROVE  /\ m \in Lanes /\ m.conn = 0 /\ (m.fault = "None" => Recovered(m))
<1>1. /\ lane \in Lanes /\ Owned(lane) /\ Truthful(lane, history.seen)
  BY DEF LaneInv, LaneTypes
<1>2. /\ lane.broker.phase \in LivePhases /\ lane.conn = 0
      /\ lane.report.epoch = lane.broker.epoch /\ ~lane.terminal /\ lane.fence = 0
      /\ lane.cause = "Rejected" => lane.broker.phase \in {"Connecting", "Draining"}
      /\ Admits(lane.events) # {} => lane.broker.phase # "Connecting"
  BY <1>1 DEF Owned, Retired, LivePhases
<1>3. /\ k \in Lanes /\ k.fault = "None" /\ k.broker = lane.broker /\ k.dialer = lane.dialer
      /\ k.fence = 0 /\ ~k.terminal /\ k.cause = lane.cause /\ k.events = lane.events
      /\ k.report = lane.report /\ k.events \in Seq(Events) /\ k.cause \in Causes
  BY <1>2 DEF Same, Lanes
<1>4. PICK r : r = Effective(k, RecoveredReason(k.events))
  OBVIOUS
<1>5. (\E i \in DOMAIN k.events : k.events[i].kind = "AdmissionOpened")
        => k.broker.phase # "Connecting"
  BY <1>2, <1>3 DEF Admits
<1>6. m = IF ~k.report.sound THEN HostFatal(Fault(Retire(k), "Host"))
          ELSE SettleGeneration(Retire(k), lane.broker.epoch, r, j)
  BY <1>2, <1>3, <1>4, <1>5 DEF SettleRecovery
<1>7. CASE ~k.report.sound
  <2>1. Retire(k) \in Lanes /\ Retired(Retire(k))
    BY <1>3, RetireFacts
  <2>2. PICK f : f = Fault(Retire(k), "Host")
    OBVIOUS
  <2>3. f \in Lanes /\ f.fault = "Host" /\ f.conn = 0
    BY <2>1, <2>2 DEF Fault, Lanes, Retired
  <2> QED BY <1>6, <1>7, <2>2, <2>3, HostFatalFacts
<1>8. CASE k.report.sound
  <2>1. /\ RecoveredReason(k.events) \in EngineReasons
        /\ \/ RecoveredReason(k.events) = "Failure"
           \/ \E i \in DOMAIN k.events : RecoveredReason(k.events) = k.events[i].reason
    BY <1>3 DEF NewestCloses
  <2>2. r \in Causes /\ (r = "Rejected" => lane.cause = "Rejected")
    BY <1>3, <1>4, <2>1 DEF Effective, Causes, EngineReasons
  <2>3. "Asked" \notin history.seen => r \notin {"Requested", "Drained"}
    BY <1>1, <1>3, <1>4, <2>1 DEF Effective, Truthful, Unasked
  <2>4. "Rejected" \notin history.seen => r # "Rejected"
    BY <1>1, <2>2 DEF Truthful, Verdicts
  <2>5. PICK q : q = Retire(k)
    OBVIOUS
  <2>6. /\ Ending(q, r) /\ q.broker = lane.broker /\ q.dialer = lane.dialer
        /\ SettledAs(q, SettleGeneration(q, lane.broker.epoch, r, j), r)
    BY <1>2, <1>3, <2>2, <2>5, RetiresSettles
  <2>7. SettledAs(q, m, r)
    BY <1>6, <1>8, <2>5, <2>6
  <2>8. Recovered(m)
    BY <2>3, <2>4, <2>6, <2>7 DEF Recovered
  <2> QED BY <2>7, <2>8 DEF SettledAs
<1> QED BY <1>7, <1>8

\* The host settles a generation whose engine failed.
LEMMA RecoveryStep ==
  ASSUME BoundedDelays, NewestCloses, LaneInv, NEW j \in Nat, SettlePendingRecovery(j)
  PROVE  Good
<1>1. /\ Running /\ lane.report # NoReport /\ Step(SettleRecovery(lane, j), {})
      /\ now' = now /\ lookups' = lookups /\ lookups \in Seq(Nat)
  BY DEF SettlePendingRecovery, LaneInv, LaneTypes
<1>2. Same(lane)
  BY <1>1 DEF Same, LaneInv, LaneTypes, Running
<1>3. PICK m : m = SettleRecovery(lane, j)
  OBVIOUS
<1>4. m \in Lanes /\ m.conn = 0 /\ (m.fault = "None" => Recovered(m))
  BY <1>1, <1>2, <1>3, SettleRecoveryFacts
<1>5. CASE m.fault # "None"
  BY <1>1, <1>3, <1>4, <1>5, Faulted
<1>6. CASE m.fault = "None"
  <2>1. PICK q, r :
          /\ Ending(q, r) /\ SettledAs(q, m, r)
          /\ q.broker = lane.broker /\ q.dialer = lane.dialer
          /\ "Asked" \notin history.seen => r \notin {"Requested", "Drained"}
          /\ "Rejected" \notin history.seen => r # "Rejected"
    BY <1>4, <1>6 DEF Recovered
  <2> QED BY <1>1, <1>3, <2>1, Settles
<1> QED BY <1>5, <1>6

-----------------------------------------------------------------------------
(* The owner's drain.                                                        *)

\* The drain of a lane without a generation, one that recovery just ended
\* included.
LEMMA DrainsIdle ==
  ASSUME LaneInv, NEW k \in Lanes, k.fault = "None", Retired(k),
         k.broker.phase \in Waiting \cup {"Closed"}, Rotating(k.dialer),
         k.broker.reason = "AuthenticationFailed" => "Rejected" \in history.seen,
         k.broker.reason = "EndpointResolutionFailed" => "Unusable" \in history.seen,
         Step(HostFatal(LifecycleDrain(k)), {"Asked"}), now' = now, lookups' = lookups,
         Len(lookups) <= 1
  PROVE  Good
<1>1. PICK m : m = LifecycleDrain(k)
  OBVIOUS
<1>2. /\ m \in Lanes /\ m.fault = "None" /\ Retired(m) /\ m.broker.phase = "Closed"
      /\ m.fence = 0 /\ m.terminal /\ m.dialer = k.dialer
      /\ m.broker.reason = "Requested"
         \/ (k.broker.phase = "Closed" /\ m.broker.reason = k.broker.reason)
  BY <1>1, DrainIdle
<1>3. Step(m, {"Asked"})
  BY <1>1, <1>2 DEF HostFatal
<1>4. {"Asked"} \in SUBSET Observations /\ lookups \in Seq(Nat)
  BY DEF Observations, LaneInv, LaneTypes
<1>5. /\ m.broker.reason = "AuthenticationFailed" => "Rejected" \in history.seen \cup {"Asked"}
      /\ m.broker.reason = "EndpointResolutionFailed" =>
            "Unusable" \in history.seen \cup {"Asked"}
  BY <1>2
<1> QED BY <1>2, <1>3, <1>4, <1>5, Closes

\* The drained generation of k, which is still connected.
DrainingOf(k, m) ==
    /\ m \in Lanes /\ m.fault = "None" /\ m.broker = At("Draining", k.broker.epoch)
    /\ m.dialer = k.dialer /\ m.fence = k.fence /\ m.terminal = k.terminal
    /\ m.conn = k.conn /\ m.report = k.report /\ ~m.admitting
    /\ m.session \notin Establishing
    /\ m.cause \in {k.cause, "Requested"}
    /\ m.cause # "None" => m.session = "Closing"
    /\ Admits(m.events) = Admits(k.events)

\* begin_lifecycle_drain of a lane with a connection, at whatever point its
\* session has reached.
LEMMA DrainLive ==
  ASSUME NEW k \in Lanes, k.fault = "None", k.broker.phase \in {"Connecting", "Available"},
         k.conn # 0, k.conn = k.broker.epoch, k.cause # "None" => k.session = "Closing",
         ~k.admitting, NEW m, m = LifecycleDrain(k)
  PROVE  DrainingOf(k, m)
<1>1. PICK b : b = [k EXCEPT !.broker = At("Draining", k.broker.epoch)]
  BY Zenon
<1>2. k.broker.epoch \in Nat
  BY DEF Lanes, Brokers
<1>3. /\ At("Draining", k.broker.epoch) \in Brokers
      /\ At("Draining", k.broker.epoch).phase = "Draining"
  <2>1. "Draining" \in BrokerPhases
    BY DEF BrokerPhases, LivePhases, Waiting
  <2> QED BY <1>2, <2>1, AtFields
<1>4. /\ b \in Lanes /\ b.fault = "None" /\ b.broker = At("Draining", k.broker.epoch)
      /\ b.dialer = k.dialer /\ b.fence = k.fence /\ b.terminal = k.terminal
      /\ b.conn = k.conn /\ b.report = k.report /\ ~b.admitting /\ b.session = k.session
      /\ b.cause = k.cause /\ b.events = k.events /\ b.engine = k.engine
  BY <1>1, <1>3 DEF Lanes
<1>5. PICK e : e = Emit("DrainConnection", k.broker.epoch, 0, 0)
  OBVIOUS
<1>6. e.kind = "DrainConnection" /\ e.epoch = k.broker.epoch
  BY <1>5 DEF Emit
<1>7. /\ BeginDrain(k.broker).state = At("Draining", k.broker.epoch)
      /\ BeginDrain(k.broker).effect = e
  BY <1>5 DEF BeginDrain, Applied
<1>8. PICK d : d = Doing(b, e)
  OBVIOUS
<1>9. d.lane = b /\ d.effect = e
  BY <1>8 DEF Doing
<1>10. Interpret(d, "Connects", 0) = DrainSession(b)
  BY <1>4, <1>6, <1>9 DEF Interpret, DrainConnection
<1>11. m = IF /\ DrainSession(b).fault = "None" /\ DrainSession(b).broker.phase = "Closed"
           THEN [DrainSession(b) EXCEPT !.fence = 0, !.terminal = TRUE] ELSE DrainSession(b)
  BY <1>1, <1>7, <1>8, <1>10, ZenonT(60) DEF LifecycleDrain
<1>12. CASE b.session \in Establishing
  <2>1. PICK c : c = CloseSession(b, "Requested", "Requested")
    OBVIOUS
  <2>2. ClosesFor(b, c, "Requested")
    BY <1>4, <2>1, CloseSessionFacts DEF Causes, EngineReasons
  <2>3. DrainSession(b) = c
    BY <1>12, <2>1 DEF DrainSession, Establishing
  <2>4. m = c
    BY <1>3, <1>4, <1>11, <2>2, <2>3 DEF ClosesFor
  <2> QED BY <1>4, <2>2, <2>4 DEF DrainingOf, ClosesFor, Establishing
<1>13. CASE b.session = "Ready"
  <2>1. PICK c : c = [b EXCEPT !.session = "Draining", !.admitting = FALSE,
                               !.engine.phase = IF @ \in EngineUp THEN "Draining" ELSE @]
    OBVIOUS
  <2>2. DrainSession(b) = c
    BY <1>13, <2>1 DEF DrainSession, Establishing
  <2>3. "Draining" \in Sessions /\ b.engine \in Engines
    BY <1>4 DEF Sessions, Lanes
  <2>4. [b.engine EXCEPT !.phase = IF @ \in EngineUp THEN "Draining" ELSE @] \in Engines
    BY <2>3 DEF Engines, EngineUp
  <2>5. c \in Lanes
    BY <1>4, <2>1, <2>3, <2>4, ZenonT(60) DEF Lanes
  <2>6. /\ c.fault = b.fault /\ c.broker = b.broker /\ c.dialer = b.dialer
        /\ c.fence = b.fence /\ c.terminal = b.terminal /\ c.conn = b.conn
        /\ c.report = b.report /\ ~c.admitting /\ c.session = "Draining"
        /\ c.cause = b.cause /\ c.events = b.events
    BY <1>4, <2>1 DEF Lanes
  <2>7. m = c
    BY <1>3, <1>4, <1>11, <2>2, <2>6
  <2>8. c.cause = "None"
    BY <1>4, <1>13, <2>6
  <2> QED BY <1>4, <2>5, <2>6, <2>7, <2>8 DEF DrainingOf, Establishing
<1>14. CASE b.session \notin Establishing /\ b.session # "Ready"
  <2>1. DrainSession(b) = b
    BY <1>14 DEF DrainSession
  <2>2. m = b
    BY <1>3, <1>4, <1>11, <2>1
  <2> QED BY <1>4, <1>14, <2>2 DEF DrainingOf
<1> QED BY <1>12, <1>13, <1>14

\* The drain of a connected lane.
LEMMA DrainsLive ==
  ASSUME LaneInv, Running, lane.conn # 0,
         lane.broker.phase \in {"Connecting", "Available"},
         NEW k, Same(k), ~k.admitting,
         Step(HostFatal(LifecycleDrain(k)), {"Asked"}), now' = now, lookups' = lookups
  PROVE  Good
<1>1. /\ lane \in Lanes /\ Owned(lane) /\ lane.conn = lane.broker.epoch
      /\ lane.report = NoReport /\ ~lane.terminal /\ lane.fence = 0
      /\ Truthful(lane, history.seen) /\ Partial(lane.dialer) /\ Passing(lane)
      /\ lookups = <<>> /\ lookups \in Seq(Nat) /\ lane.broker.epoch \in Nat
  BY ConnectedFacts DEF LaneInv, LaneTypes, Lanes, Brokers
<1>2. /\ k \in Lanes /\ k.fault = "None" /\ k.broker = lane.broker /\ k.conn = lane.conn
      /\ k.dialer = lane.dialer /\ k.fence = 0 /\ ~k.terminal /\ k.report = NoReport
      /\ k.cause = lane.cause /\ k.events = lane.events /\ k.session = lane.session
  BY <1>1 DEF Same
<1>3. PICK m : m = LifecycleDrain(k)
  OBVIOUS
<1>4. k.cause # "None" => k.session = "Closing"
  BY <1>1, <1>2 DEF Owned
<1>5. DrainingOf(k, m)
  BY <1>1, <1>2, <1>3, <1>4, DrainLive
<1>6. "Draining" \in BrokerPhases
  BY DEF BrokerPhases, LivePhases
<1>7. /\ m.broker.phase = "Draining" /\ m.broker.epoch = lane.broker.epoch
      /\ m.broker.reason = "None"
  BY <1>1, <1>2, <1>5, <1>6, AtFields DEF DrainingOf
<1>8. /\ m \in Lanes /\ m.fault = "None" /\ m.dialer = lane.dialer /\ m.fence = 0
      /\ ~m.terminal /\ m.conn = lane.conn /\ m.report = NoReport /\ ~m.admitting
      /\ m.session \notin Establishing /\ m.cause \in {lane.cause, "Requested"}
      /\ m.cause # "None" => m.session = "Closing"
      /\ Admits(m.events) = Admits(lane.events)
  BY <1>2, <1>5 DEF DrainingOf
<1>9. Owned(m)
  <2>1. m.broker.phase \in LivePhases /\ m.broker.phase \notin Waiting
    BY <1>7 DEF LivePhases, Waiting
  <2>2. \A i, j \in Admits(m.events) : i = j
    BY <1>1, <1>8 DEF Owned
  <2> QED BY <1>1, <1>7, <1>8, <2>1, <2>2 DEF Owned
<1>10. Step(m, {"Asked"})
  BY <1>3, <1>8 DEF HostFatal
<1>11. LaneTypes /\ lane' = m /\ history' = Remember(lane, m, {"Asked"})
  BY <1>10 DEF LaneInv, Step
<1>12. ~Opens(lane, m) /\ ~Fails(lane, m)
  BY <1>7, <1>8 DEF Opens, Fails, Waiting
<1>13. /\ history' \in Histories /\ history'.seen = history.seen \cup {"Asked"}
       /\ history'.opened = history.opened
  BY <1>8, <1>11, <1>12, RememberTypes DEF Observations
<1>14. Paced(m, history')
  <2>1. Paced(lane, history)
    BY DEF LaneInv
  <2> QED BY <1>7, <1>13, <2>1 DEF Paced, Waiting
<1>15. Looking(m, lookups') /\ Passing(m)
  BY <1>1, <1>7, <1>8 DEF Looking, Passing, RefreshIs
<1>16. Truthful(m, history'.seen)
  BY <1>1, <1>7, <1>8, <1>13 DEF Truthful, Verdicts
<1>17. LaneTypes'
  BY <1>1, <1>8, <1>11, <1>13 DEF LaneTypes
<1>18. LaneInv'
  BY <1>9, <1>11, <1>14, <1>15, <1>16, <1>17 DEF LaneInv
<1> QED BY <1>11, <1>12, <1>18 DEF Good, Reopens

\* The owner asks for a drain.
LEMMA SessionDrainStep ==
  ASSUME BoundedDelays, NewestCloses, LaneInv, NEW j \in Nat, SessionDrain(j)
  PROVE  Good
<1>1. PICK k : k = [lane EXCEPT !.admitting = FALSE]
  BY Zenon
<1>2. PICK s : s = SettlePending(k, j)
  OBVIOUS
<1>3. /\ Running /\ now' = now /\ lookups' = lookups
      /\ Step(HostFatal(IF s.fault # "None" THEN s ELSE LifecycleDrain(s)), {"Asked"})
  BY <1>1, <1>2 DEF SessionDrain
<1>4. /\ lane \in Lanes /\ lane.fault = "None" /\ Owned(lane) /\ Looking(lane, lookups)
      /\ Passing(lane) /\ Truthful(lane, history.seen) /\ lookups \in Seq(Nat)
  BY <1>3 DEF LaneInv, LaneTypes, Running
<1>5. Same(k) /\ ~k.admitting
  BY <1>1, <1>4, ZenonT(60) DEF Same, Lanes
<1>6. /\ k \in Lanes /\ k.fault = "None" /\ k.broker = lane.broker /\ k.dialer = lane.dialer
      /\ k.fence = lane.fence /\ k.terminal = lane.terminal /\ k.conn = lane.conn
      /\ k.session = lane.session /\ k.cause = lane.cause /\ k.engine = lane.engine
      /\ k.events = lane.events /\ k.report = lane.report
  BY <1>5 DEF Same
<1>7. Len(lookups) <= 1 /\ Rotating(lane.dialer)
  BY <1>4 DEF Looking, Passing
<1>8. {"Asked"} \in SUBSET Observations
  BY DEF Observations
<1>9. CASE lane.report = NoReport
  <2>1. s = k
    BY <1>2, <1>6, <1>9 DEF SettlePending
  <2>2. Step(HostFatal(LifecycleDrain(k)), {"Asked"})
    BY <1>3, <1>6, <2>1
  <2>3. CASE lane.broker.phase \in {"Connecting", "Available"}
    <3>1. lane.conn # 0
      BY <1>4, <1>9, <2>3 DEF Owned, LivePhases, NoReport
    <3> QED BY <1>3, <1>5, <2>2, <2>3, <3>1, DrainsLive
  <2>4. CASE lane.broker.phase = "Draining"
    <3>1. BeginDrain(k.broker) = Ignored(k.broker)
      BY <1>6, <2>4 DEF BeginDrain
    <3>2. [k EXCEPT !.broker = k.broker] = k
      BY <1>6 DEF Lanes
    <3>3. PICK d : d = Doing(k, NoEffect)
      OBVIOUS
    <3>4. d.lane = k /\ d.effect = NoEffect
      BY <3>3 DEF Doing
    <3>5. Interpret(d, "Connects", 0) = k
      BY <1>6, <3>4 DEF Interpret, CheckTimer, NoEffect
    <3>6. LifecycleDrain(k) = k
      <4>1. /\ BeginDrain(k.broker).state = k.broker /\ BeginDrain(k.broker).effect = NoEffect
        BY <3>1 DEF Ignored
      <4> QED BY <1>6, <2>4, <3>2, <3>3, <3>5, <4>1 DEF LifecycleDrain
    <3>7. Step(k, {"Asked"})
      BY <1>6, <2>2, <3>6 DEF HostFatal
    <3>8. Owned(k)
      BY <1>4, <1>5, <1>6, <2>4 DEF Owned, Retired
    <3>9. Truthful(k, history.seen \cup {"Asked"})
      BY <1>4, <1>6, <2>4 DEF Truthful, Verdicts
    <3> QED BY <1>3, <1>6, <1>8, <3>7, <3>8, <3>9, PolicyKept
  <2>5. CASE lane.broker.phase \notin LivePhases
    <3>1. lane.broker.phase \in Waiting \cup {"Closed"}
      BY <1>4, <2>5 DEF Lanes, Brokers, BrokerPhases
    <3>2. Retired(k)
      BY <1>4, <1>5, <1>6, <2>5 DEF Owned, Retired
    <3>3. /\ k.broker.reason = "AuthenticationFailed" => "Rejected" \in history.seen
          /\ k.broker.reason = "EndpointResolutionFailed" => "Unusable" \in history.seen
      BY <1>4, <1>6 DEF Truthful, Verdicts
    <3> QED BY <1>3, <1>6, <1>7, <2>2, <3>1, <3>2, <3>3, DrainsIdle
  <2> QED BY <2>3, <2>4, <2>5 DEF LivePhases
<1>10. CASE lane.report # NoReport
  <2>1. s = SettleRecovery(k, j)
    BY <1>2, <1>6, <1>10 DEF SettlePending
  <2>2. s \in Lanes /\ s.conn = 0 /\ (s.fault = "None" => Recovered(s))
    BY <1>3, <1>5, <1>10, <2>1, SettleRecoveryFacts
  <2>3. CASE s.fault # "None"
    <3>1. Step(HostFatal(s), {"Asked"})
      BY <1>3, <2>3
    <3>2. HostFatal(s) \in Lanes /\ HostFatal(s).fault = s.fault /\ HostFatal(s).conn = 0
      BY <2>2, HostFatalFacts
    <3> QED BY <1>3, <1>4, <1>8, <2>3, <3>1, <3>2, Faulted
  <2>4. CASE s.fault = "None"
    <3>1. Step(HostFatal(LifecycleDrain(s)), {"Asked"})
      BY <1>3, <2>4
    <3>2. PICK q, r :
            /\ Ending(q, r) /\ SettledAs(q, s, r)
            /\ q.broker = lane.broker /\ q.dialer = lane.dialer
            /\ "Asked" \notin history.seen => r \notin {"Requested", "Drained"}
            /\ "Rejected" \notin history.seen => r # "Rejected"
      BY <2>2, <2>4 DEF Recovered
    <3>3. q.broker.epoch # 0 /\ Passing(q)
      BY <1>4, <3>2 DEF Owned, Passing, Ending, LivePhases
    <3>4. Passing(s) /\ Retired(s) /\ s.broker.phase \in Waiting \cup {"Closed"}
      BY <2>4, <3>2, <3>3, EndOwned
    <3>5. /\ s.broker.reason # "EndpointResolutionFailed"
          /\ s.broker.reason = "AuthenticationFailed" => "Rejected" \in history.seen
      BY <2>4, <3>2, EndTruth
    <3>6. Rotating(s.dialer)
      BY <3>4 DEF Passing
    <3> QED BY <1>3, <1>7, <2>2, <2>4, <3>1, <3>4, <3>5, <3>6, DrainsIdle
  <2> QED BY <2>3, <2>4
<1> QED BY <1>9, <1>10

-----------------------------------------------------------------------------
(* Arithmetic.                                                               *)

\* A power of two counts the subsets of a finite set, hence is positive.
LEMMA PowerPositive == \A k \in Nat : 2^k \in Nat \ {0}
<1> SUFFICES ASSUME NEW k \in Nat PROVE 2^k \in Nat \ {0}
  OBVIOUS
<1>1. IsFiniteSet(1..k) /\ Cardinality(1..k) = k
  <2>1. IsFiniteSet(1..k) /\ Cardinality(1..k) = IF 1 > k THEN 0 ELSE k - 1 + 1
    BY FS_Interval
  <2> QED BY <2>1
<1>2. IsFiniteSet(SUBSET (1..k)) /\ Cardinality(SUBSET (1..k)) = 2^Cardinality(1..k)
  BY <1>1, FS_SUBSET, ZenonT(60)
<1>3. Cardinality(SUBSET (1..k)) \in Nat
  BY <1>2, FS_CardinalityType
<1>4. Cardinality(SUBSET (1..k)) # 0
  <2>1. SUBSET (1..k) # {}
    BY Zenon
  <2> QED BY <1>2, <2>1, FS_EmptySet
<1> QED BY <1>1, <1>2, <1>3, <1>4

\* The jittered delay lies between half the ceiling and the ceiling.
LEMMA DelayBounds ==
  ASSUME NEW r \in Nat \ {0}, NEW j \in Nat
  PROVE  /\ DelayFloor(r) \in Nat /\ DelayCap(r) \in Nat /\ Delay(r, j) \in Nat
         /\ DelayFloor(r) <= Delay(r, j) /\ Delay(r, j) <= DelayCap(r)
<1>1. Least(r - 1, MaxShift) \in Nat
  BY DEF Least, MaxShift
<1>2. PICK p \in Nat \ {0} : p = 2^Least(r - 1, MaxShift)
  BY <1>1, PowerPositive
<1>3. BaseDelay * p \in Nat \ {0}
  BY <1>2, BackoffPolicyValid
<1>4. DelayCap(r) \in Nat \ {0}
  BY <1>2, <1>3, BackoffPolicyValid DEF DelayCap, Least
<1>5. DelayFloor(r) \in Nat /\ DelayFloor(r) <= DelayCap(r)
  BY <1>4 DEF DelayFloor
<1>6. DelayCap(r) - DelayFloor(r) + 1 \in Nat \ {0}
  BY <1>4, <1>5
<1>7. j % (DelayCap(r) - DelayFloor(r) + 1) \in 0..(DelayCap(r) - DelayFloor(r))
  BY <1>4, <1>5, <1>6
<1> QED BY <1>4, <1>5, <1>7 DEF Delay

\* The delays of the backoff policy are bounded.
LEMMA DelaysAreBounded == BoundedDelays
  BY DelayBounds DEF BoundedDelays

\* A set of naturals has a least element; a bounded one has a greatest.
LEMMA LeastOf ==
  ASSUME NEW T \in SUBSET Nat, T # {}
  PROVE  \E x \in T : \A y \in T : x <= y
<1>1. IsWellFoundedOn(OpToRel(<, Nat), Nat)
  BY NatLessThanWellFounded
<1>2. PICK x \in T : \A y \in T : ~(<<y, x>> \in OpToRel(<, Nat))
  BY <1>1, WFMin, ZenonT(60)
<1>3. ASSUME NEW y \in T PROVE x <= y
  <2>1. ~(<<y, x>> \in OpToRel(<, Nat))
    BY <1>2
  <2>2. ~(y < x)
    BY <2>1 DEF OpToRel
  <2> QED BY <2>2
<1> QED BY <1>3

\* A bounded nonempty set of naturals has a greatest element.
LEMMA GreatestOf ==
  ASSUME NEW n \in Nat, NEW S \in SUBSET (1..n), S # {}
  PROVE  \E x \in S : \A y \in S : y <= x
<1> DEFINE T == {n - x : x \in S}
<1>1. T \in SUBSET Nat /\ T # {}
  <2>1. \A x \in S : n - x \in Nat
    OBVIOUS
  <2>2. PICK x \in S : TRUE
    BY Zenon
  <2>3. n - x \in T
    OBVIOUS
  <2>4. T \subseteq Nat
    BY <2>1
  <2> QED BY <2>3, <2>4
<1>2. PICK t \in T : \A u \in T : t <= u
  BY <1>1, LeastOf, ZenonT(60)
<1>3. PICK x \in S : t = n - x
  BY <1>2
<1>4. ASSUME NEW y \in S PROVE y <= x
  <2>1. n - x <= n - y
    BY <1>2, <1>3, ZenonT(60)
  <2> QED BY <2>1
<1> QED BY <1>4

\* recovered_close_reason names the reason of some event, or a failure.
LEMMA RecoveredFacts ==
  ASSUME NEW es \in Seq(Events)
  PROVE  /\ RecoveredReason(es) \in EngineReasons
         /\ \/ RecoveredReason(es) = "Failure"
            \/ \E i \in DOMAIN es : RecoveredReason(es) = es[i].reason
<1> DEFINE closes == {i \in DOMAIN es : es[i].kind \in {"Closing", "Closed"}}
           last == CHOOSE i \in closes : \A k \in closes : k <= i
<1>1. CASE closes = {}
  BY <1>1 DEF RecoveredReason, EngineReasons
<1>2. CASE closes # {}
  <2>1. Len(es) \in Nat /\ closes \in SUBSET (1..Len(es))
    OBVIOUS
  <2> HIDE DEF closes
  <2>2. \E i \in closes : \A k \in closes : k <= i
    BY <1>2, <2>1, GreatestOf, ZenonT(60)
  <2>3. last \in closes
    BY <2>2
  <2> HIDE DEF last
  <2>4. RecoveredReason(es) = es[last].reason
    BY <1>2 DEF RecoveredReason, closes, last
  <2>5. last \in DOMAIN es
    BY <2>3 DEF closes
  <2>6. es[last] \in Events
    BY <2>5
  <2> QED BY <2>4, <2>5, <2>6 DEF Events
<1> QED BY <1>1, <1>2

\* Recovery finds the newest close of a report.
LEMMA NewestIsFound == NewestCloses
  BY RecoveredFacts DEF NewestCloses

-----------------------------------------------------------------------------
(* The steps and the theorems.                                               *)

\* Every step keeps it.
LEMMA NextHolds ==
  ASSUME LaneInv, Next
  PROVE  Good
<1>1. Jitters \subseteq Nat /\ AddressCounts \subseteq Nat
  BY LaneBounds
<1>2. CASE EngineSteps
  BY <1>2, EngineOpensStep, EngineLosesStep, EngineDrainsStep, EngineClosesStep,
     EngineFailsStep DEF EngineSteps
<1>3. CASE SessionSteps
  BY <1>3, NegotiatedStep, SessionFailsStep, AuthenticationRejectedStep, ProtocolFailsStep
     DEF SessionSteps
<1>4. CASE Drains
  BY <1>1, <1>4, DelaysAreBounded, DrainEngineStep DEF Drains
<1>5. CASE Recovers
  BY <1>1, <1>5, DelaysAreBounded, NewestIsFound, RecoveryStep DEF Recovers
<1>6. CASE Fires
  BY <1>1, <1>6, DelaysAreBounded, FireDueStep DEF Fires
<1>7. CASE TakeRefresh \/ ResolverGone \/ Tick
  BY <1>7, TakeRefreshStep, ResolverGoneStep, TickStep
<1>8. CASE Answers
  <2>1. PICK i \in DOMAIN lookups :
          \/ LateAnswer(i)
          \/ \E size \in AddressCounts, dial \in DialOutcomes, jitter \in Jitters :
                RefreshSucceeds(i, size, dial, jitter)
          \/ \E failure \in DnsFailures, jitter \in Jitters :
                RefreshFails(i, failure, jitter)
    BY <1>8 DEF Answers
  <2>2. CASE LateAnswer(i)
    BY <2>2, LateAnswerStep
  <2>3. ASSUME NEW size \in AddressCounts, NEW dial \in DialOutcomes, NEW jitter \in Jitters,
               RefreshSucceeds(i, size, dial, jitter)
        PROVE  Good
    BY <1>1, <2>3, DelaysAreBounded, RefreshSucceedsStep
  <2>4. ASSUME NEW failure \in DnsFailures, NEW jitter \in Jitters,
               RefreshFails(i, failure, jitter)
        PROVE  Good
    BY <1>1, <2>4, DelaysAreBounded, RefreshFailsStep
  <2> QED BY <2>1, <2>2, <2>3, <2>4
<1>9. CASE Supersedes
  BY <1>9, RefreshSupersededStep DEF Supersedes
<1>10. CASE \E jitter \in Jitters : SessionDrain(jitter)
  BY <1>1, <1>10, DelaysAreBounded, NewestIsFound, SessionDrainStep
<1> QED BY <1>2, <1>3, <1>4, <1>5, <1>6, <1>7, <1>8, <1>9, <1>10 DEF Next

\* So does every step that changes nothing.
LEMMA StepHolds ==
  ASSUME LaneInv, [Next]_vars
  PROVE  Good
<1>1. CASE Next
  BY <1>1, NextHolds
<1>2. CASE UNCHANGED vars
  <2>1. lane' = lane /\ now' = now /\ lookups' = lookups /\ history' = history
    BY <1>2 DEF vars
  <2>2. LaneInv'
    BY <2>1 DEF LaneInv, LaneTypes, Running
  <2> QED BY <2>1, <2>2 DEF Good, Reopens, Opens
<1> QED BY <1>1, <1>2

\* The inductive invariant holds always.
LEMMA LaneInvariant == Spec => []LaneInv
<1>1. Init => LaneInv
  BY InitHolds, DelaysAreBounded
<1>2. LaneInv /\ [Next]_vars => LaneInv'
  BY StepHolds DEF Good
<1> QED BY <1>1, <1>2, PTL DEF Spec

\* Whatever the order of engine events, timers, resolver answers, engine
\* failures and drains, no internal-divergence error of the lane is reached; the
\* policy names the generation that is connected or captured for recovery; only
\* an available one admits requests; and the refresh fence and the one
\* outstanding lookup exist exactly while the policy waits for them.
THEOREM LaneOwnsItsGeneration == Spec => []GenerationOwned
  BY OwnedMeans, LaneInvariant, PTL

\* A lane asks DNS again exactly when every address of the current answer
\* failed since the last success, for every number of addresses.
THEOREM PassesAreFull == Spec => []FullPass
<1>1. LaneInv => FullPass
  <2> SUFFICES ASSUME LaneInv, Running, ~IsDirect(lane.dialer)
               PROVE  /\ lane.broker.phase = "Refreshing" =>
                            lane.dialer.missed = 0..(lane.dialer.size - 1)
                      /\ lane.dialer.missed = 0..(lane.dialer.size - 1) =>
                            lane.broker.phase \in {"Refreshing", "Closed"}
    BY DEF FullPass
  <2>1. Passing(lane) /\ lane.dialer \in Dialers /\ lane.dialer.size # 0
    BY DEF LaneInv, LaneTypes, Lanes, IsDirect
  <2>2. CASE lane.broker.phase = "Refreshing"
    BY <2>1, <2>2 DEF Passing, FullyMissed
  <2>3. CASE lane.broker.phase \notin {"Refreshing", "Closed"}
    BY <2>1, <2>3, PartialIsNotFull DEF Passing
  <2> QED BY <2>2, <2>3
<1> QED BY <1>1, LaneInvariant, PTL

\* A closed lane blames the owner only if asked, the credentials only if they
\* were rejected, and the addresses only if the resolver called them unusable.
THEOREM ClosesTruthfully == Spec => []TruthfulClose
<1>1. LaneInv => TruthfulClose
  BY DEF LaneInv, Truthful, Unasked, Verdicts, TruthfulClose
<1> QED BY <1>1, LaneInvariant, PTL

\* Waits follow the jittered backoff of the run of failures, across refreshes;
\* a connection is always of a newer generation than any before, never opened
\* before its wait is over and never after the owner asked for a drain.
THEOREM ReopensSoundly == Spec => SoundReopen
<1> DEFINE Waits ==
      Running /\ lane.broker.phase \in Waiting =>
            /\ lane.broker.retry = history.streak
            /\ lane.broker.deadline \in
                  (history.failedAt + DelayFloor(history.streak))
                  .. (history.failedAt + DelayCap(history.streak))
<1>1. LaneInv => Waits
  BY DEF LaneInv, Paced
<1>2. LaneInv /\ [Next]_vars => [Reopens]_vars
  BY StepHolds DEF Good
<1>3. Spec => []Waits
  BY <1>1, LaneInvariant, PTL
<1>4. Spec => [][Reopens]_vars
  BY <1>2, LaneInvariant, PTL DEF Spec
<1> QED BY <1>3, <1>4, PTL DEF SoundReopen, Reopens
=============================================================================
