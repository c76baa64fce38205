------------------------- MODULE LaneSessionProofs --------------------------
(***************************************************************************)
(* The steps of the session, and the events drained from the engine, keep  *)
(* the invariant of the lane.                                              *)
(***************************************************************************)
EXTENDS LaneProofs

-----------------------------------------------------------------------------
(* The end of a generation.                                                  *)

\* A step that settles the end of the lane's generation.
LEMMA Settles ==
  ASSUME LaneInv, Running, NEW k, k.broker = lane.broker, k.dialer = lane.dialer,
         NEW r, Ending(k, r), NEW m, SettledAs(k, m, r),
         "Asked" \notin history.seen => r \notin {"Requested", "Drained"},
         "Rejected" \notin history.seen => r # "Rejected",
         Step(m, {}), now' = now, lookups' = lookups
  PROVE  Good
<1>1. /\ LaneTypes /\ lane' = m /\ history' = Remember(lane, m, {})
      /\ m \in Lanes /\ m.conn = 0 /\ lookups \in Seq(Nat)
  BY DEF LaneInv, Step, SettledAs, LaneTypes
<1>2. CASE m.fault # "None"
  BY <1>1, <1>2, Faulted
<1>3. CASE m.fault = "None"
  <2>1. /\ Owned(lane) /\ Looking(lane, lookups) /\ Passing(lane)
        /\ Truthful(lane, history.seen) /\ Paced(lane, history)
    BY DEF LaneInv
  <2>2. /\ lane.broker.phase \in LivePhases /\ lane.broker.phase # "Closed"
        /\ lane.broker.phase \notin Waiting
    BY DEF Ending, LivePhases, Waiting
  <2>3. k.broker.epoch # 0 /\ Passing(k)
    BY <2>1, <2>2 DEF Owned, Passing
  <2>4. /\ Owned(m) /\ Passing(m) /\ Retired(m) /\ m.broker.phase \in Waiting \cup {"Closed"}
    BY <1>3, <2>3, EndOwned
  <2>5. Paced(m, history') /\ ~Opens(lane, m)
    BY <1>1, <1>3, <2>1, <2>2, EndPaced DEF Paced
  <2>6. history' \in Histories /\ history'.seen = history.seen
    <3>1. history' \in Histories /\ history'.seen = history.seen \cup {}
      BY <1>1, RememberTypes, Zenon
    <3> QED BY <3>1
  <2>7. Truthful(m, history.seen)
    <3>1. /\ lane.broker.phase # "Draining" /\ r \notin {"Requested", "Drained"} => Unasked(m)
          /\ lane.broker.phase = "Draining" => m.broker.phase = "Closed"
          /\ m.cause = "None" /\ m.broker.reason # "EndpointResolutionFailed"
          /\ r # "Rejected" => m.broker.reason # "AuthenticationFailed"
      BY <1>3, EndTruth
    <3>2. Verdicts(m, history.seen)
      BY <3>1 DEF Verdicts
    <3>3. CASE "Asked" \notin history.seen
      BY <2>1, <3>1, <3>2, <3>3 DEF Truthful, Unasked
    <3>4. CASE "Asked" \in history.seen
      BY <2>1, <2>2, <3>1, <3>2, <3>4 DEF Truthful
    <3> QED BY <3>3, <3>4
  <2>8. Looking(m, lookups)
    <3>1. ~lane.terminal /\ lookups = <<>>
      BY <2>1, <2>2 DEF Looking, Owned, RefreshIs, Waiting
    <3>2. ~RefreshIs(m.broker, m.fence, "Resolving")
      <4>1. EndedAs(k, m, r)
        BY <1>3 DEF SettledAs
      <4> QED BY <4>1 DEF EndedAs, GivenUp, Replaces, RefreshIs
    <3> QED BY <3>1, <3>2 DEF Looking
  <2>9. LaneTypes'
    BY <1>1, <2>6 DEF LaneTypes
  <2>10. LaneInv'
    BY <1>1, <2>4, <2>5, <2>6, <2>7, <2>8, <2>9 DEF LaneInv
  <2> QED BY <1>1, <2>5, <2>10 DEF Good, Reopens
<1> QED BY <1>2, <1>3

-----------------------------------------------------------------------------
(* The session.                                                              *)

\* m is l with its session closing for this cause.
ClosesFor(l, m, cause) ==
    /\ m \in Lanes /\ m.fault = l.fault /\ m.broker = l.broker /\ m.dialer = l.dialer
    /\ m.fence = l.fence /\ m.terminal = l.terminal /\ m.conn = l.conn
    /\ m.report = l.report /\ m.timer = l.timer
    /\ m.session = "Closing" /\ ~m.admitting /\ m.cause = cause
    /\ Admits(m.events) = Admits(l.events)

\* KafkaSessionEffect::CloseSession, on a lane that has a connection.
LEMMA CloseSessionFacts ==
  ASSUME NEW l \in Lanes, l.conn # 0, NEW cause \in Causes, NEW er \in {"Failure", "Requested"},
         NEW m, m = CloseSession(l, cause, er)
  PROVE  /\ ClosesFor(l, m, cause)
         /\ Unasked(l) /\ cause \notin {"None", "Requested", "Drained"} => Unasked(m)
<1>1. "Closing" \in Sessions /\ l.events \in Seq(Events) /\ l.engine \in Engines
  BY DEF Sessions, Lanes
<1>2. PICK c : c = [l EXCEPT !.session = "Closing", !.admitting = FALSE, !.cause = cause]
  OBVIOUS
<1>3. /\ c \in Lanes /\ c.fault = l.fault /\ c.broker = l.broker /\ c.dialer = l.dialer
      /\ c.fence = l.fence /\ c.terminal = l.terminal /\ c.conn = l.conn
      /\ c.report = l.report /\ c.timer = l.timer
      /\ c.session = "Closing" /\ ~c.admitting /\ c.cause = cause
      /\ c.events = l.events /\ c.engine = l.engine
  BY <1>1, <1>2, Zenon DEF Lanes
<1>4. CASE l.engine.phase \notin EngineUp
  <2>1. m = c
    BY <1>2, <1>4 DEF CloseSession
  <2> QED BY <1>3, <2>1 DEF ClosesFor, Unasked
<1>5. CASE l.engine.phase \in EngineUp
  <2> DEFINE e == Event("Closing", er)
             n == [phase |-> "Closing", reason |-> er]
             es == Append(l.events, e)
  <2>1. m = [c EXCEPT !.engine = n, !.events = es]
    BY <1>2, <1>3, <1>5 DEF CloseSession
  <2>2. e \in Events /\ e.kind = "Closing" /\ e.reason = er
    BY DEF Event, Events, EngineReasons
  <2>3. n \in Engines /\ n.phase = "Closing" /\ n.reason = er
    BY DEF Engines, EngineReasons
  <2> HIDE DEF e, n
  <2>4. es = l.events \o <<e>> /\ <<e>> \in Seq(Events) /\ \A k \in DOMAIN <<e>> : <<e>>[k] = e
    BY <1>1, <2>2, AppendEvents
  <2>5. PICK ps \in Seq(Events) : ps = <<e>>
    BY <2>4, Zenon
  <2> HIDE DEF es
  <2>6. es \in Seq(Events) /\ Admits(es) = Admits(l.events)
    BY <1>1, <2>2, <2>4, <2>5, ConcatEvents, ConcatAdmits, Zenon
  <2>7. \A i \in DOMAIN es : (i \in DOMAIN l.events /\ es[i] = l.events[i]) \/ es[i] = e
    BY <1>1, <2>4, <2>5, ConcatEvents
  <2>8. /\ m \in Lanes /\ m.fault = l.fault /\ m.broker = l.broker /\ m.dialer = l.dialer
        /\ m.fence = l.fence /\ m.terminal = l.terminal /\ m.conn = l.conn
        /\ m.report = l.report /\ m.timer = l.timer
        /\ m.session = "Closing" /\ ~m.admitting /\ m.cause = cause
        /\ m.events = es /\ m.engine = n
    BY <1>3, <2>1, <2>3, <2>6, ZenonT(60) DEF Lanes
  <2>9. ClosesFor(l, m, cause)
    BY <2>6, <2>8 DEF ClosesFor
  <2>10. ASSUME Unasked(l), cause \notin {"None", "Requested", "Drained"} PROVE Unasked(m)
    BY <2>2, <2>3, <2>7, <2>8, <2>10 DEF Unasked
  <2> QED BY <2>9, <2>10
<1> QED BY <1>4, <1>5

\* A closing session keeps its lane in order.
LEMMA CloseOwned ==
  ASSUME NEW l, Owned(l), l.conn # 0, NEW m, NEW cause, ClosesFor(l, m, cause),
         cause = "Rejected" => l.broker.phase \in {"Connecting", "Draining"},
         Admits(l.events) # {} => l.broker.phase # "Available"
  PROVE  Owned(m)
<1>1. l.broker.phase \in LivePhases
  BY DEF Owned, Retired
<1> QED BY <1>1 DEF Owned, ClosesFor, Establishing

\* A step that closes the session of the lane, perhaps after taking an event.
LEMMA SessionCloses ==
  ASSUME LaneInv, Running, NEW l \in Lanes, Owned(l), l.conn # 0, l.conn = lane.conn,
         l.fault = "None", l.broker = lane.broker, l.dialer = lane.dialer,
         l.fence = lane.fence, l.terminal = lane.terminal,
         Unasked(lane) => Unasked(l),
         NEW cause \in {"Failure", "Rejected"}, NEW er \in {"Failure", "Requested"},
         cause = "Rejected" => l.broker.phase = "Connecting",
         Admits(l.events) # {} => l.broker.phase # "Available",
         Step(HostFatal(CloseSession(l, cause, er)),
              IF cause = "Rejected" THEN {"Rejected"} ELSE {}),
         now' = now, lookups' = lookups
  PROVE  Good
<1> DEFINE seen == IF cause = "Rejected" THEN {"Rejected"} ELSE {}
<1>1. PICK m : m = CloseSession(l, cause, er)
  OBVIOUS
<1>2. cause \in Causes
  BY DEF Causes, EngineReasons
<1>3. /\ ClosesFor(l, m, cause) /\ (Unasked(l) => Unasked(m))
  BY <1>1, <1>2, CloseSessionFacts
<1>4. Owned(m)
  BY <1>3, CloseOwned
<1>5. /\ m \in Lanes /\ m.fault = "None" /\ m.broker = lane.broker
      /\ m.dialer = lane.dialer /\ m.fence = lane.fence /\ m.terminal = lane.terminal
      /\ m.conn = lane.conn /\ m.cause = cause
  BY <1>3 DEF ClosesFor
<1>6. Step(m, seen)
  BY <1>1, <1>5 DEF HostFatal
<1>7. seen \in SUBSET Observations /\ "Asked" \notin seen
  BY DEF Observations
<1>8. Truthful(m, history.seen \cup seen)
  <2>1. Truthful(lane, history.seen)
    BY DEF LaneInv
  <2>2. Verdicts(m, history.seen \cup seen)
    BY <1>5, <2>1 DEF Truthful, Verdicts
  <2> QED BY <1>3, <1>5, <1>7, <2>1, <2>2 DEF Truthful
<1> HIDE DEF seen
<1> QED BY <1>4, <1>5, <1>6, <1>7, <1>8, PolicyKept

\* What is known of a connected lane.
LEMMA ConnectedFacts ==
  ASSUME LaneInv, Running, lane.conn # 0
  PROVE  /\ lane \in Lanes /\ lane.fault = "None" /\ Owned(lane)
         /\ lane.broker \in Brokers /\ lane.dialer \in Dialers /\ lane.events \in Seq(Events)
         /\ lane.broker.phase \in LivePhases /\ lane.conn = lane.broker.epoch
         /\ lane.report = NoReport /\ lane.conn \in Nat /\ ~lane.terminal /\ lane.fence = 0
         /\ Truthful(lane, history.seen) /\ Passing(lane) /\ Partial(lane.dialer)
         /\ lookups = <<>> /\ now \in Nat /\ history.seen \in SUBSET Observations
         /\ lane.session \in Establishing =>
              lane.broker.phase = "Connecting" /\ Admits(lane.events) = {} /\ lane.cause = "None"
<1>1. /\ lane \in Lanes /\ Owned(lane) /\ Looking(lane, lookups) /\ Passing(lane)
      /\ Truthful(lane, history.seen) /\ now \in Nat /\ history.seen \in SUBSET Observations
  BY DEF LaneInv, LaneTypes, Histories
<1>2. /\ lane.broker \in Brokers /\ lane.dialer \in Dialers /\ lane.events \in Seq(Events)
      /\ lane.conn \in Nat
  BY <1>1 DEF Lanes
<1>3. /\ lane.broker.phase \in LivePhases /\ lane.conn = lane.broker.epoch
      /\ lane.report = NoReport /\ ~lane.terminal /\ lane.fence = 0
  BY <1>1 DEF Owned, Retired, LivePhases
<1>4. Partial(lane.dialer) /\ lookups = <<>>
  BY <1>1, <1>3 DEF Passing, Looking, LivePhases, RefreshIs
<1>5. lane.session \in Establishing =>
        lane.broker.phase = "Connecting" /\ Admits(lane.events) = {} /\ lane.cause = "None"
  BY <1>1 DEF Owned, Establishing
<1> QED BY <1>1, <1>2, <1>3, <1>4, <1>5 DEF Running

\* The session fails while it is established.
LEMMA SessionFailsStep ==
  ASSUME LaneInv, SessionFails
  PROVE  Good
<1>1. /\ Running /\ lane.conn # 0 /\ lane.session \in Establishing
      /\ now' = now /\ lookups' = lookups
      /\ Step(HostFatal(CloseSession(lane, "Failure", "Requested")), {})
  BY DEF SessionFails, ExchangeOpen, Establishing
<1>2. /\ lane \in Lanes /\ lane.fault = "None" /\ Owned(lane) /\ Admits(lane.events) = {}
  BY <1>1, ConnectedFacts
<1>3. (IF "Failure" = "Rejected" THEN {"Rejected"} ELSE {}) = {}
  OBVIOUS
<1> QED BY <1>1, <1>2, <1>3, SessionCloses

\* The broker rejects the credentials for good.
LEMMA AuthenticationRejectedStep ==
  ASSUME LaneInv, AuthenticationRejected
  PROVE  Good
<1>1. /\ Running /\ lane.conn # 0 /\ lane.session \in Establishing
      /\ now' = now /\ lookups' = lookups
      /\ Step(HostFatal(CloseSession(lane, "Rejected", "Requested")), {"Rejected"})
  BY DEF AuthenticationRejected, ExchangeOpen, Establishing
<1>2. /\ lane \in Lanes /\ lane.fault = "None" /\ Owned(lane) /\ Admits(lane.events) = {}
      /\ lane.broker.phase = "Connecting"
  BY <1>1, ConnectedFacts
<1> QED BY <1>1, <1>2, SessionCloses

\* A response breaks the protocol.
LEMMA ProtocolFailsStep ==
  ASSUME LaneInv, ProtocolFails
  PROVE  Good
<1>1. /\ Running /\ lane.conn # 0 /\ (lane.admitting \/ lane.session = "Draining")
      /\ now' = now /\ lookups' = lookups
      /\ Step(HostFatal(CloseSession(lane, "Failure", "Failure")), {})
  BY DEF ProtocolFails
<1>2. lane \in Lanes /\ lane.fault = "None" /\ Owned(lane)
  BY <1>1, ConnectedFacts
<1>3. Admits(lane.events) # {} => lane.broker.phase # "Available"
  BY <1>1, <1>2 DEF Owned
<1>4. (IF "Failure" = "Rejected" THEN {"Rejected"} ELSE {}) = {}
  OBVIOUS
<1> QED BY <1>1, <1>2, <1>3, <1>4, SessionCloses

-----------------------------------------------------------------------------
(* A session becomes ready.                                                  *)

\* KafkaSessionEffect::SessionReady, on a lane whose policy still connects.
LEMMA BecomeReadyFacts ==
  ASSUME NEW l \in Lanes, l.fault = "None", l.broker.phase = "Connecting",
         l.broker.epoch = l.conn, Admits(l.events) = {}, NEW m, m = BecomeReady(l)
  PROVE  /\ m \in Lanes /\ m.fault = "None" /\ m.broker = At("Available", l.conn)
         /\ m.dialer = DialReady(l.dialer) /\ m.fence = l.fence /\ m.terminal = l.terminal
         /\ m.conn = l.conn /\ m.session = "Ready" /\ m.cause = l.cause
         /\ m.engine = l.engine /\ m.admitting = l.admitting /\ m.report = l.report
         /\ m.events = l.events \/ m.events = Append(l.events, Event("AdmissionOpened", "None"))
<1> DEFINE e == Event("AdmissionOpened", "None")
           b == At("Available", l.conn)
           d == DialReady(l.dialer)
<1>1. /\ "Ready" \in Sessions /\ l.events \in Seq(Events) /\ l.dialer \in Dialers
      /\ l.conn \in Nat
  BY DEF Sessions, Lanes
<1>2. d \in Dialers /\ b \in Brokers
  BY <1>1, DialerTypes, AtFields DEF BrokerPhases, LivePhases
<1>3. PICK s \in Lanes : s = [l EXCEPT !.session = "Ready"]
  BY <1>1, Zenon DEF Lanes
<1>4. /\ s.broker = l.broker /\ s.session = "Ready" /\ s.dialer = l.dialer /\ s.fault = "None"
      /\ s.fence = l.fence /\ s.terminal = l.terminal /\ s.conn = l.conn
      /\ s.cause = l.cause /\ s.engine = l.engine /\ s.admitting = l.admitting
      /\ s.report = l.report /\ s.events = l.events
  BY <1>3 DEF Lanes
<1>5. ConnectionReady(s.broker, l.conn) = Applied(b, NoEffect)
  BY <1>4 DEF ConnectionReady
<1> HIDE DEF b, d
<1>6. Apply(s, ConnectionReady(s.broker, l.conn)).lane = [s EXCEPT !.broker = b]
  BY <1>5, DoneFields
<1>7. PICK r \in Lanes : r = [s EXCEPT !.broker = b, !.dialer = d]
  BY <1>2, Zenon DEF Lanes
<1>8. MarkReady(s, l.conn) = r
  <2>1. PICK a \in Lanes : a = [s EXCEPT !.broker = b]
    BY <1>2, Zenon DEF Lanes
  <2>2. a.fault = "None" /\ a.dialer = l.dialer
    BY <1>4, <2>1 DEF Lanes
  <2>3. MarkReady(s, l.conn) = [a EXCEPT !.dialer = d]
    BY <1>6, <2>1, <2>2, Zenon DEF MarkReady, d
  <2> QED BY <1>7, <2>1, <2>3
<1>9. /\ r.broker = b /\ r.session = "Ready" /\ r.dialer = d /\ r.fault = "None"
      /\ r.fence = l.fence /\ r.terminal = l.terminal /\ r.conn = l.conn
      /\ r.cause = l.cause /\ r.engine = l.engine /\ r.admitting = l.admitting
      /\ r.report = l.report /\ r.events = l.events
  BY <1>4, <1>7 DEF Lanes
<1>10. m = r \/ m = [r EXCEPT !.events = Append(l.events, e)]
  BY <1>3, <1>8, <1>9, Zenon DEF BecomeReady
<1>11. e \in Events
  BY DEF Event, Events, EngineReasons
<1> HIDE DEF e
<1>12. Append(l.events, e) \in Seq(Events)
  BY <1>1, <1>11
<1>13. CASE m = r
  BY <1>9, <1>13 DEF b, d
<1>14. CASE m = [r EXCEPT !.events = Append(l.events, e)]
  <2>1. PICK es \in Seq(Events) : es = Append(l.events, e)
    BY <1>12, Zenon
  <2>2. /\ m \in Lanes /\ m.broker = b /\ m.session = "Ready" /\ m.dialer = d
        /\ m.fault = "None" /\ m.fence = l.fence /\ m.terminal = l.terminal
        /\ m.conn = l.conn /\ m.cause = l.cause /\ m.engine = l.engine
        /\ m.admitting = l.admitting /\ m.report = l.report /\ m.events = es
    BY <1>9, <1>14, <2>1, ZenonT(60) DEF Lanes
  <2> QED BY <2>1, <2>2 DEF b, d, e
<1> QED BY <1>10, <1>13, <1>14

\* The first and only admission event.
LEMMA FirstAdmission ==
  ASSUME NEW es \in Seq(Events), Admits(es) = {}, NEW e, e = Event("AdmissionOpened", "None")
  PROVE  /\ Append(es, e) \in Seq(Events)
         /\ \A i, j \in Admits(Append(es, e)) : i = j
         /\ \A i \in DOMAIN Append(es, e) :
              (i \in DOMAIN es /\ Append(es, e)[i] = es[i]) \/ Append(es, e)[i].reason = "None"
<1>1. e \in Events /\ e.reason = "None"
  BY DEF Event, Events, EngineReasons
<1>2. /\ Append(es, e) \in Seq(Events) /\ Len(es) \in Nat /\ DOMAIN es = 1..Len(es)
      /\ DOMAIN Append(es, e) = 1..(Len(es) + 1) /\ Append(es, e)[Len(es) + 1] = e
  BY <1>1
<1>3. ASSUME NEW i \in 1..(Len(es) + 1), i # Len(es) + 1
      PROVE  i \in DOMAIN es /\ Append(es, e)[i] = es[i]
  BY <1>1, <1>2, <1>3
<1>4. ASSUME NEW i \in Admits(Append(es, e)) PROVE i = Len(es) + 1
  <2>1. i \in 1..(Len(es) + 1) /\ Append(es, e)[i].kind = "AdmissionOpened"
    BY <1>2 DEF Admits
  <2>2. i # Len(es) + 1 => i \in Admits(es)
    BY <1>3, <2>1 DEF Admits
  <2> QED BY <2>2
<1>5. ASSUME NEW i \in DOMAIN Append(es, e)
      PROVE  (i \in DOMAIN es /\ Append(es, e)[i] = es[i]) \/ Append(es, e)[i].reason = "None"
  BY <1>1, <1>2, <1>3
<1> QED BY <1>2, <1>4, <1>5

\* A session that becomes ready makes its lane available, once.
LEMMA BecomesReady ==
  ASSUME LaneInv, Running, lane.conn # 0, lane.session \in Establishing,
         Step(HostFatal(BecomeReady(lane)), {}), now' = now, lookups' = lookups
  PROVE  Good
<1>1. /\ lane \in Lanes /\ lane.fault = "None" /\ Owned(lane) /\ lane.dialer \in Dialers
      /\ lane.events \in Seq(Events) /\ lane.conn = lane.broker.epoch
      /\ lane.report = NoReport /\ lane.conn \in Nat /\ ~lane.terminal /\ lane.fence = 0
      /\ Truthful(lane, history.seen) /\ Passing(lane) /\ Partial(lane.dialer)
      /\ lookups = <<>> /\ lane.broker.phase = "Connecting" /\ Admits(lane.events) = {}
      /\ lane.cause = "None" /\ LaneTypes /\ Paced(lane, history)
  BY ConnectedFacts DEF LaneInv
<1>2. PICK m : m = BecomeReady(lane)
  OBVIOUS
<1>3. /\ m \in Lanes /\ m.fault = "None" /\ m.broker = At("Available", lane.conn)
      /\ m.dialer = DialReady(lane.dialer) /\ m.fence = lane.fence
      /\ m.terminal = lane.terminal /\ m.conn = lane.conn /\ m.session = "Ready"
      /\ m.cause = lane.cause /\ m.engine = lane.engine
      /\ m.admitting = lane.admitting /\ m.report = lane.report
      /\ \/ m.events = lane.events
         \/ m.events = Append(lane.events, Event("AdmissionOpened", "None"))
  BY <1>1, <1>2, BecomeReadyFacts
<1>4. m.broker.phase = "Available" /\ m.broker.epoch = lane.conn /\ m.broker.reason = "None"
  BY <1>1, <1>3, AtFields DEF BrokerPhases, LivePhases
<1>5. /\ \A i, j \in Admits(m.events) : i = j
      /\ \A i \in DOMAIN m.events :
           (i \in DOMAIN lane.events /\ m.events[i] = lane.events[i])
           \/ m.events[i].reason = "None"
  <2>1. CASE m.events = lane.events
    BY <1>1, <2>1 DEF Owned
  <2>2. CASE m.events = Append(lane.events, Event("AdmissionOpened", "None"))
    <3>1. lane.events \in Seq(Events) /\ Admits(lane.events) = {}
      BY <1>1, Zenon DEF Lanes
    <3>2. PICK e : e = Event("AdmissionOpened", "None")
      OBVIOUS
    <3>3. m.events = Append(lane.events, e)
      BY <2>2, <3>2
    <3> QED BY <3>1, <3>2, <3>3, FirstAdmission, Zenon
  <2> QED BY <1>3, <2>1, <2>2
<1>6. Step(m, {}) /\ lane' = m /\ history' = Remember(lane, m, {})
  BY <1>2, <1>3 DEF HostFatal, Step
<1>7. ~Opens(lane, m)
  BY <1>3 DEF Opens
<1>8. /\ history' \in Histories /\ history'.seen = history.seen
      /\ history'.opened = history.opened /\ history'.streak = 0
  <2>1. /\ history' \in Histories /\ history'.seen = history.seen \cup {}
        /\ history'.opened = history.opened /\ history'.streak = 0
    BY <1>1, <1>3, <1>4, <1>6, <1>7, RememberTypes, ZenonT(60)
  <2> QED BY <2>1
<1>9. LaneTypes'
  BY <1>1, <1>3, <1>6, <1>8 DEF LaneTypes
<1>10. Owned(m)
  BY <1>1, <1>3, <1>4, <1>5, ZenonT(60) DEF Owned, LivePhases, Waiting, Establishing
<1>11. Passing(m)
  BY <1>1, <1>3, <1>4, ReadyPasses, Zenon DEF Passing
<1>12. Looking(m, <<>>)
  BY <1>4 DEF Looking, RefreshIs
<1>13. Truthful(m, history.seen)
  <2>1. "Asked" \notin history.seen /\ Unasked(lane) /\ Verdicts(lane, history.seen)
    BY <1>1 DEF Truthful
  <2>2. Unasked(m)
    BY <1>1, <1>3, <1>4, <1>5, <2>1 DEF Unasked
  <2>3. Verdicts(m, history.seen)
    BY <1>3, <1>4, <2>1 DEF Verdicts
  <2> QED BY <2>1, <2>2, <2>3 DEF Truthful
<1>14. Paced(m, history')
  BY <1>1, <1>4, <1>8 DEF Paced, Waiting
<1>15. LaneInv'
  BY <1>1, <1>6, <1>8, <1>9, <1>10, <1>11, <1>12, <1>13, <1>14 DEF LaneInv
<1> QED BY <1>6, <1>7, <1>15 DEF Good, Reopens

\* The session is established.
LEMMA NegotiatedStep ==
  ASSUME LaneInv, Negotiated \/ Authenticated
  PROVE  Good
<1>1. /\ Running /\ lane.conn # 0 /\ lane.session \in Establishing
      /\ now' = now /\ lookups' = lookups
  BY DEF Negotiated, Authenticated, ExchangeOpen, Establishing
<1>2. CASE Step(HostFatal(BecomeReady(lane)), {})
  BY <1>1, <1>2, BecomesReady
<1>3. CASE Step([lane EXCEPT !.session = "Authenticating"], {})
  <2>1. /\ lane \in Lanes /\ lane.fault = "None" /\ Owned(lane)
        /\ Truthful(lane, history.seen) /\ lane.broker.phase = "Connecting"
        /\ lane.cause = "None"
    BY <1>1, ConnectedFacts
  <2>2. "Authenticating" \in Sessions
    BY DEF Sessions, Establishing
  <2>3. PICK m : m = [lane EXCEPT !.session = "Authenticating"]
    BY Zenon
  <2>4. /\ m \in Lanes /\ m.engine = lane.engine /\ m.events = lane.events /\ m.fault = "None"
        /\ m.broker = lane.broker /\ m.dialer = lane.dialer /\ m.fence = lane.fence
        /\ m.terminal = lane.terminal /\ m.conn = lane.conn /\ m.session = "Authenticating"
        /\ m.cause = lane.cause /\ m.admitting = lane.admitting /\ m.report = lane.report
    BY <2>1, <2>2, <2>3 DEF Lanes
  <2>5. Owned(m)
    BY <2>1, <2>4 DEF Owned, LivePhases, Establishing
  <2>6. Truthful(m, history.seen \cup {})
    <3>1. Truthful(m, history.seen)
      BY <2>1, <2>4 DEF Truthful, Verdicts, Unasked
    <3> QED BY <3>1
  <2> QED BY <1>1, <1>3, <2>3, <2>4, <2>5, <2>6, PolicyKept, ZenonT(60)
<1> QED BY <1>2, <1>3 DEF Negotiated, Authenticated

-----------------------------------------------------------------------------
(* Events of the engine.                                                     *)

\* l is the lane with its next event taken.
Taken(l) ==
    /\ l \in Lanes /\ l.fault = "None" /\ l.broker = lane.broker /\ l.dialer = lane.dialer
    /\ l.fence = lane.fence /\ l.terminal = lane.terminal /\ l.conn = lane.conn
    /\ l.session = lane.session /\ l.cause = lane.cause /\ l.engine = lane.engine
    /\ l.admitting = lane.admitting /\ l.report = lane.report
    /\ Owned(l) /\ (Unasked(lane) => Unasked(l))

\* The lane with its first event taken.
LEMMA TakenFacts ==
  ASSUME LaneInv, Running, lane.conn # 0, lane.events # <<>>,
         NEW l, l = [lane EXCEPT !.events = Tail(lane.events)]
  PROVE  /\ Taken(l) /\ Head(lane.events) \in Events
         /\ "Asked" \notin history.seen => Unbidden(lane, Head(lane.events).reason)
         /\ Head(lane.events).kind = "AdmissionOpened" =>
              /\ lane.broker.phase # "Connecting" /\ Admits(l.events) = {}
              /\ lane.broker.phase = "Available" => lane.session = "Ready"
<1>1. /\ lane \in Lanes /\ lane.fault = "None" /\ Owned(lane) /\ lane.events \in Seq(Events)
      /\ lane.broker.phase \in LivePhases /\ Truthful(lane, history.seen)
  BY ConnectedFacts
<1>2. PICK es : es = Tail(lane.events)
  BY Zenon
<1>3. /\ Head(lane.events) \in Events /\ es \in Seq(Events)
      /\ 1 \in DOMAIN lane.events /\ Head(lane.events) = lane.events[1]
      /\ \A i \in DOMAIN es : i + 1 \in DOMAIN lane.events /\ es[i] = lane.events[i + 1]
  BY <1>1, <1>2, TailEvents
<1>4. \A i, j \in Admits(lane.events) : i = j
  BY <1>1, Zenon DEF Owned
<1>5. /\ Admits(es) # {} => Admits(lane.events) # {}
      /\ \A i, j \in Admits(es) : i = j
      /\ Head(lane.events).kind = "AdmissionOpened" =>
            Admits(lane.events) # {} /\ Admits(es) = {}
  BY <1>1, <1>2, <1>4, TailAdmits, Zenon
<1>6. /\ l \in Lanes /\ l.fault = "None" /\ l.broker = lane.broker /\ l.dialer = lane.dialer
      /\ l.fence = lane.fence /\ l.terminal = lane.terminal /\ l.conn = lane.conn
      /\ l.session = lane.session /\ l.cause = lane.cause /\ l.engine = lane.engine
      /\ l.admitting = lane.admitting /\ l.report = lane.report /\ l.events = es
  BY <1>1, <1>2, <1>3, Zenon DEF Lanes
<1>7. Owned(l)
  <2>1. /\ l.admitting => /\ l.broker.phase = "Available" /\ l.session = "Ready"
                           /\ l.conn # 0 /\ Admits(l.events) = {}
        /\ Admits(l.events) # {} => l.broker.phase # "Connecting"
        /\ Admits(l.events) # {} /\ l.broker.phase = "Available" => l.session = "Ready"
        /\ \A i, j \in Admits(l.events) : i = j
    BY <1>1, <1>5, <1>6, ZenonT(60) DEF Owned
  <2>2. l.broker.phase \in LivePhases
    BY <1>1, <1>6
  <2> QED BY <1>1, <1>6, <2>1, <2>2 DEF Owned
<1>8. Unasked(lane) => Unasked(l)
  BY <1>3, <1>6 DEF Unasked
<1>9. "Asked" \notin history.seen => Unbidden(lane, Head(lane.events).reason)
  BY <1>1, <1>3 DEF Truthful, Unasked, Unbidden
<1>10. Head(lane.events).kind = "AdmissionOpened" =>
        /\ lane.broker.phase # "Connecting" /\ Admits(l.events) = {}
        /\ lane.broker.phase = "Available" => lane.session = "Ready"
  BY <1>1, <1>5, <1>6, ZenonT(60) DEF Owned
<1> QED BY <1>3, <1>6, <1>7, <1>8, <1>9, <1>10 DEF Taken

\* A step that takes an event and changes no more than the session's progress.
LEMMA TakesEvent ==
  ASSUME LaneInv, Running, lane.conn # 0, NEW m \in Lanes, m.fault = "None",
         m.broker = lane.broker, m.dialer = lane.dialer, m.fence = lane.fence,
         m.terminal = lane.terminal, m.conn = lane.conn, Owned(m),
         "Asked" \notin history.seen => Unasked(m), m.cause # "Rejected" \/ m.cause = lane.cause,
         Step(HostFatal(m), {}), now' = now, lookups' = lookups
  PROVE  Good
<1>1. Step(m, {})
  BY DEF HostFatal
<1>2. Truthful(lane, history.seen)
  BY DEF LaneInv
<1>3. Truthful(m, history.seen \cup {})
  <2>1. Truthful(m, history.seen)
    BY <1>2 DEF Truthful, Verdicts
  <2> QED BY <2>1
<1> QED BY <1>1, <1>3, PolicyKept

\* session_drained_by_engine
LEMMA DrainedByEngineFacts ==
  ASSUME NEW l \in Lanes, Owned(l), l.conn # 0, NEW m, m = SessionDrainedByEngine(l)
  PROVE  /\ m \in Lanes /\ m.fault = l.fault /\ m.broker = l.broker /\ m.dialer = l.dialer
         /\ m.fence = l.fence /\ m.terminal = l.terminal /\ m.conn = l.conn /\ Owned(m)
         /\ m.cause \in {l.cause, "Drained"} /\ m.admitting = l.admitting
<1>1. CASE l.session # "Draining"
  BY <1>1 DEF SessionDrainedByEngine
<1>2. CASE l.session = "Draining"
  <2>1. m = [l EXCEPT !.session = "Closing", !.cause = "Drained"]
    BY <1>2 DEF SessionDrainedByEngine
  <2>2. "Closing" \in Sessions /\ "Drained" \in Causes
    BY DEF Sessions, Causes, EngineReasons
  <2>3. /\ m \in Lanes /\ m.engine = l.engine /\ m.events = l.events /\ m.fault = l.fault
        /\ m.broker = l.broker /\ m.dialer = l.dialer /\ m.fence = l.fence
        /\ m.terminal = l.terminal /\ m.conn = l.conn /\ m.session = "Closing"
        /\ m.cause = "Drained" /\ m.admitting = l.admitting /\ m.report = l.report
    BY <2>1, <2>2, ZenonT(60) DEF Lanes
  <2>4. l.broker.phase = "Draining"
    BY <1>2 DEF Owned
  <2>5. Owned(m)
    BY <2>3, <2>4 DEF Owned, LivePhases, Establishing
  <2> QED BY <2>3, <2>5
<1> QED BY <1>1, <1>2

\* host_fatal keeps what settling made of a lane.
LEMMA SettledFatal ==
  ASSUME NEW k, NEW m, NEW r, SettledAs(k, m, r)
  PROVE  SettledAs(k, HostFatal(m), r)
<1>1. CASE m.fault = "None"
  BY <1>1 DEF HostFatal
<1>2. CASE m.fault # "None"
  BY <1>2, HostFatalFacts DEF SettledAs
<1> QED BY <1>1, <1>2

\* A generation that ends: its lane is retired and settled for reason r.
LEMMA RetiresSettles ==
  ASSUME BoundedDelays, LaneInv, Running, NEW q \in Lanes, q.fault = "None",
         q.broker = lane.broker, q.dialer = lane.dialer, q.fence = 0, ~q.terminal,
         lane.broker.phase \in LivePhases, NEW r \in Causes, NEW j \in Nat,
         r = "Rejected" => lane.broker.phase \in {"Connecting", "Draining"}
  PROVE  /\ Ending(Retire(q), r) /\ Retire(q).broker = lane.broker
         /\ Retire(q).dialer = lane.dialer
         /\ SettledAs(Retire(q), SettleGeneration(Retire(q), lane.broker.epoch, r, j), r)
<1>1. PICK k : k = Retire(q)
  OBVIOUS
<1>2. /\ k \in Lanes /\ Retired(k) /\ k.fault = "None" /\ k.broker = lane.broker
      /\ k.dialer = lane.dialer /\ k.fence = 0 /\ ~k.terminal
  BY <1>1, RetireFacts
<1>3. Ending(k, r)
  BY <1>2 DEF Ending
<1>4. now \in Nat
  BY DEF LaneInv, LaneTypes
<1>5. SettledAs(k, SettleGeneration(k, k.broker.epoch, r, j), r)
  BY <1>3, <1>4, SettleGenerationFacts
<1> QED BY <1>1, <1>2, <1>3, <1>5

\* The engine reported that it closed: the generation is settled.
LEMMA ClosedEventStep ==
  ASSUME BoundedDelays, LaneInv, Running, lane.conn # 0, NEW l, Taken(l),
         NEW reason \in EngineReasons,
         "Asked" \notin history.seen => Unbidden(lane, reason), NEW j \in Nat,
         Step(HostFatal(Closed(l, reason, j)), {}), now' = now, lookups' = lookups
  PROVE  Good
<1>1. PICK q : q = IF reason = "Drained" THEN SessionDrainedByEngine(l) ELSE l
  OBVIOUS
<1>2. /\ l \in Lanes /\ Owned(l) /\ l.conn # 0 /\ l.fault = "None" /\ l.broker = lane.broker
      /\ l.dialer = lane.dialer /\ l.fence = lane.fence /\ l.terminal = lane.terminal
      /\ l.cause = lane.cause /\ l.conn = lane.conn
  BY DEF Taken
<1>3. /\ q \in Lanes /\ q.fault = "None" /\ q.broker = lane.broker /\ q.dialer = lane.dialer
      /\ q.fence = lane.fence /\ q.terminal = lane.terminal /\ Owned(q)
      /\ q.cause = lane.cause \/ (reason = "Drained" /\ q.cause = "Drained")
  BY <1>1, <1>2, DrainedByEngineFacts
<1>4. PICK r : r = Effective(q, reason)
  OBVIOUS
<1>5. /\ r \in Causes /\ q.cause \in Causes /\ (r = "Rejected" => q.cause = "Rejected")
  BY <1>3, <1>4 DEF Effective, Causes, EngineReasons, Lanes
<1>6. /\ lane.broker.phase \in LivePhases /\ lane.conn = lane.broker.epoch
      /\ ~lane.terminal /\ lane.fence = 0 /\ Truthful(lane, history.seen)
  BY ConnectedFacts
<1>7. r = "Rejected" => lane.broker.phase \in {"Connecting", "Draining"}
  BY <1>3, <1>5 DEF Owned
<1>8. "Asked" \notin history.seen => r \notin {"Requested", "Drained"}
  BY <1>3, <1>4, <1>6 DEF Effective, Truthful, Unasked, Unbidden
<1>9. "Rejected" \notin history.seen => r # "Rejected"
  BY <1>3, <1>5, <1>6 DEF Truthful, Verdicts
<1>10. Closed(l, reason, j) = SettleGeneration(Retire(q), lane.broker.epoch, r, j)
  BY <1>1, <1>2, <1>4, <1>6 DEF Closed
<1>11. PICK k, m : k = Retire(q) /\ m = HostFatal(Closed(l, reason, j))
  OBVIOUS
<1>12. /\ Ending(k, r) /\ k.broker = lane.broker /\ k.dialer = lane.dialer
       /\ SettledAs(k, SettleGeneration(k, lane.broker.epoch, r, j), r)
  BY <1>3, <1>5, <1>6, <1>7, <1>11, RetiresSettles
<1>13. SettledAs(k, m, r)
  BY <1>10, <1>11, <1>12, SettledFatal
<1>14. Step(m, {})
  BY <1>11
<1> QED BY <1>8, <1>9, <1>12, <1>13, <1>14, Settles

\* The host drains one event of the engine.
LEMMA DrainEngineStep ==
  ASSUME BoundedDelays, LaneInv, NEW j \in Nat, DrainEngine(j)
  PROVE  Good
<1>1. /\ Running /\ lane.conn # 0 /\ lane.events # <<>> /\ now' = now /\ lookups' = lookups
  BY DEF DrainEngine
<1>2. PICK l : l = [lane EXCEPT !.events = Tail(lane.events)]
  BY Zenon
<1>3. PICK e : e = Head(lane.events)
  OBVIOUS
<1>4. /\ Taken(l) /\ e \in Events
      /\ "Asked" \notin history.seen => Unbidden(lane, e.reason)
      /\ e.kind = "AdmissionOpened" =>
            /\ lane.broker.phase # "Connecting" /\ Admits(l.events) = {}
            /\ lane.broker.phase = "Available" => lane.session = "Ready"
  BY <1>1, <1>2, <1>3, TakenFacts, Zenon
<1>5. Step(HostFatal(SettleEvent(l, e, j)), {})
  BY <1>2, <1>3 DEF DrainEngine
<1>6. /\ l \in Lanes /\ l.fault = "None" /\ l.broker = lane.broker /\ l.dialer = lane.dialer
      /\ l.fence = lane.fence /\ l.terminal = lane.terminal /\ l.conn = lane.conn
      /\ l.session = lane.session /\ l.cause = lane.cause /\ l.engine = lane.engine
      /\ l.admitting = lane.admitting /\ l.report = lane.report
      /\ Owned(l) /\ (Unasked(lane) => Unasked(l)) /\ l.conn # 0
  BY <1>1, <1>4 DEF Taken
<1>7. "Asked" \notin history.seen => Unasked(l)
  BY <1>1, <1>6 DEF LaneInv, Truthful
<1>8. l.broker.phase \in LivePhases /\ e.reason \in EngineReasons
  BY <1>1, <1>4, <1>6, ConnectedFacts DEF Events
<1>9. ASSUME SettleEvent(l, e, j) = l PROVE Good
  BY <1>1, <1>5, <1>6, <1>7, <1>9, TakesEvent
<1>10. CASE e.kind = "TransportOpened"
  <2>1. CASE l.session # "AwaitingTransport"
    BY <1>9, <1>10, <2>1 DEF SettleEvent
  <2>2. CASE l.session = "AwaitingTransport"
    <3>1. PICK m : m = [l EXCEPT !.session = "Negotiating"]
      BY ZenonT(60)
    <3>2. SettleEvent(l, e, j) = m
      BY <1>10, <2>2, <3>1 DEF SettleEvent
    <3>3. "Negotiating" \in Sessions
      BY DEF Sessions, Establishing
    <3>4. /\ m \in Lanes /\ m.engine = l.engine /\ m.events = l.events /\ m.fault = "None"
          /\ m.broker = l.broker /\ m.dialer = l.dialer /\ m.fence = l.fence
          /\ m.terminal = l.terminal /\ m.conn = l.conn /\ m.session = "Negotiating"
          /\ m.cause = l.cause /\ m.admitting = l.admitting /\ m.report = l.report
      BY <1>6, <3>1, <3>3 DEF Lanes
    <3>5. l.broker.phase = "Connecting" /\ l.cause = "None"
      BY <1>6, <2>2 DEF Owned, Establishing
    <3>6. Owned(m)
      BY <1>6, <1>8, <3>4, <3>5 DEF Owned, Establishing
    <3>7. "Asked" \notin history.seen => Unasked(m)
      BY <1>7, <3>4 DEF Unasked
    <3> QED BY <1>1, <1>5, <1>6, <3>2, <3>4, <3>6, <3>7, TakesEvent
  <2> QED BY <2>1, <2>2
<1>11. CASE e.kind = "OperationClosed"
  <2>1. CASE l.session # "Negotiating"
    BY <1>9, <1>11, <2>1 DEF SettleEvent, OperationClosed
  <2>2. CASE l.session = "Negotiating"
    <3>1. SettleEvent(l, e, j) = CloseSession(l, "Failure", "Requested")
      BY <1>11, <2>2 DEF SettleEvent, OperationClosed
    <3>2. l.broker.phase = "Connecting"
      BY <1>6, <2>2 DEF Owned, Establishing
    <3>3. (IF "Failure" = "Rejected" THEN {"Rejected"} ELSE {}) = {}
      OBVIOUS
    <3> QED BY <1>1, <1>5, <1>6, <3>1, <3>2, <3>3, SessionCloses, Zenon
  <2> QED BY <2>1, <2>2
<1>12. CASE e.kind = "AdmissionOpened"
  <2>1. PICK m : m = [l EXCEPT !.admitting = (l.broker.phase = "Available")]
    BY Zenon
  <2>2. SettleEvent(l, e, j) = m
    BY <1>4, <1>6, <1>12, <2>1 DEF SettleEvent, AdmissionOpened
  <2>3. /\ m \in Lanes /\ m.engine = l.engine /\ m.events = l.events /\ m.fault = "None"
        /\ m.broker = l.broker /\ m.dialer = l.dialer /\ m.fence = l.fence
        /\ m.terminal = l.terminal /\ m.conn = l.conn /\ m.session = l.session
        /\ m.cause = l.cause /\ m.admitting = (l.broker.phase = "Available")
        /\ m.report = l.report
    BY <1>6, <2>1, ZenonT(60) DEF Lanes
  <2>4. Owned(m)
    BY <1>4, <1>6, <1>8, <1>12, <2>3, ZenonT(60) DEF Owned
  <2>5. "Asked" \notin history.seen => Unasked(m)
    BY <1>7, <2>3 DEF Unasked
  <2> QED BY <1>1, <1>5, <1>6, <2>2, <2>3, <2>4, <2>5, TakesEvent
<1>13. CASE e.kind = "Closing"
  <2>1. PICK q : q = IF e.reason = "Drained" THEN SessionDrainedByEngine(l) ELSE l
    OBVIOUS
  <2>2. /\ q \in Lanes /\ q.fault = "None" /\ q.broker = l.broker /\ q.dialer = l.dialer
        /\ q.fence = l.fence /\ q.terminal = l.terminal /\ q.conn = l.conn /\ Owned(q)
        /\ q.cause \in {l.cause, "Drained"}
    BY <1>6, <2>1, DrainedByEngineFacts
  <2>3. PICK m : m = [q EXCEPT !.admitting = FALSE]
    BY Zenon
  <2>4. SettleEvent(l, e, j) = m
    BY <1>13, <2>1, <2>3 DEF SettleEvent
  <2>5. /\ m \in Lanes /\ m.engine = q.engine /\ m.events = q.events /\ m.fault = "None"
        /\ m.broker = q.broker /\ m.dialer = q.dialer /\ m.fence = q.fence
        /\ m.terminal = q.terminal /\ m.conn = q.conn /\ m.session = q.session
        /\ m.cause = q.cause /\ ~m.admitting /\ m.report = q.report
    BY <2>2, <2>3, ZenonT(60) DEF Lanes
  <2>6. Owned(m)
    <3>1. q.broker.phase \in LivePhases
      BY <1>8, <2>2
    <3> QED BY <2>2, <2>5, <3>1 DEF Owned
  <2>7. "Asked" \notin history.seen => Unasked(m)
    <3>1. "Asked" \notin history.seen => q = l
      BY <1>4, <2>1 DEF Unbidden
    <3> QED BY <1>7, <2>5, <3>1 DEF Unasked
  <2> QED BY <1>1, <1>5, <1>6, <2>2, <2>4, <2>5, <2>6, <2>7, TakesEvent
<1>14. CASE e.kind = "Closed"
  <2>1. SettleEvent(l, e, j) = Closed(l, e.reason, j)
    BY <1>14 DEF SettleEvent
  <2> QED BY <1>1, <1>4, <1>5, <1>8, <2>1, ClosedEventStep
<1> QED BY <1>4, <1>10, <1>11, <1>12, <1>13, <1>14 DEF Events
=============================================================================
