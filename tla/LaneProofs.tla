----------------------------- MODULE LaneProofs -----------------------------
(***************************************************************************)
(* The inductive invariant of one broker lane: what the functions of the   *)
(* policy and of the dialer return, the invariant and what it contains,    *)
(* what the end of a generation and a new one mean for it, and that it     *)
(* holds initially.                                                        *)
(***************************************************************************)
EXTENDS LaneLifecycle, TLAPS

-----------------------------------------------------------------------------
(* Types.                                                                    *)

BrokerPhases == LivePhases \cup Waiting \cup {"Closed"}

CloseReasons ==
    {"None", "Requested", "AuthenticationFailed", "RetryExhausted", "EpochExhausted",
     "ClockOverflow", "EndpointResolutionFailed", "RetryResourcesUnavailable"}

Refreshes ==
    [stage : {"None", "Pending", "Resolving", "Backoff"}, last : Nat, timer : Nat,
     deadline : Nat]

Brokers ==
    [phase : BrokerPhases, epoch : Nat, next : Nat, retry : Nat, timer : Nat,
     deadline : Nat, refresh : Refreshes, reason : CloseReasons]

Dialers ==
    [size : Nat, next : Nat, failures : Nat,
     phase : {"Idle", "Candidate", "Connected"}, selected : Nat, missed : SUBSET Nat]

Sessions == Establishing \cup {"Ready", "Draining", "Closing", "Closed"}

EngineReasons == {"None", "Failure", "Requested", "Drained"}

Causes == EngineReasons \cup {"Rejected"}

Engines ==
    [phase : EngineUp \cup {"None", "Closing", "Closed"}, reason : EngineReasons]

Events ==
    [kind : {"TransportOpened", "OperationClosed", "AdmissionOpened", "Closing", "Closed"},
     reason : EngineReasons]

Lanes ==
    [broker : Brokers, dialer : Dialers, timer : Nat, fence : Nat, conn : Nat,
     session : Sessions, cause : Causes, engine : Engines, events : Seq(Events),
     admitting : BOOLEAN, report : [epoch : Nat, sound : BOOLEAN],
     terminal : BOOLEAN, fault : {"None", "Host", "Timers"}]

\* A lane without a generation.
Retired(l) ==
    /\ l.conn = 0 /\ l.report = NoReport /\ l.events = <<>>
    /\ l.session = "Closed" /\ l.cause = "None" /\ l.engine = NoEngine
    /\ ~l.admitting

\* BackoffPolicy::delay lies between half the ceiling and the ceiling, whatever
\* the jitter.  The last module proves it.
BoundedDelays ==
    \A r \in Nat \ {0}, j \in Nat :
        /\ DelayFloor(r) \in Nat /\ DelayCap(r) \in Nat /\ Delay(r, j) \in Nat
        /\ DelayFloor(r) <= Delay(r, j) /\ Delay(r, j) <= DelayCap(r)

\* The close that recovery finds is one of the report, or a failure.  The last
\* module proves it.
NewestCloses ==
    \A es \in Seq(Events) :
        /\ RecoveredReason(es) \in EngineReasons
        /\ \/ RecoveredReason(es) = "Failure"
           \/ \E i \in DOMAIN es : RecoveredReason(es) = es[i].reason

-----------------------------------------------------------------------------
(* The broker policy.                                                        *)

\* A policy that has just entered a phase.
LEMMA AtFields ==
  ASSUME NEW p \in BrokerPhases, NEW e \in Nat
  PROVE  /\ At(p, e) \in Brokers /\ At(p, e).phase = p /\ At(p, e).epoch = e
         /\ At(p, e).reason = "None" /\ At(p, e).retry = 0
  BY DEF At, NoRefresh, Refreshes, Brokers, BrokerPhases, CloseReasons

\* The recovery generation that a failure of b schedules.
Recovery(b, rc) ==
    [At("Backoff", b.epoch) EXCEPT
        !.next = b.epoch + 1, !.retry = NextRetry(b), !.timer = rc.timer,
        !.deadline = rc.now + Delay(NextRetry(b), rc.jitter)]

Suspension(b, rc) ==
    [Recovery(b, rc) EXCEPT !.phase = "Refreshing",
                            !.refresh = [NoRefresh EXCEPT !.stage = "Pending"]]

Exhaustions == {"RetryExhausted", "EpochExhausted", "ClockOverflow"}

\* A failed generation is given up for lack of resources or is recovered.
LEMMA FailureOutcomes ==
  ASSUME NEW b \in Brokers, b.phase \in {"Connecting", "Available"}, NEW rc
  PROVE  /\ \/ \E r \in Exhaustions : ConnectionFailed(b, b.epoch, rc) = BrokerClose(r)
            \/ ConnectionFailed(b, b.epoch, rc) = ScheduleReconnect(Recovery(b, rc))
         /\ \/ \E r \in Exhaustions : EndpointExhausted(b, b.epoch, rc) = BrokerClose(r)
            \/ EndpointExhausted(b, b.epoch, rc) = Applied(Suspension(b, rc), NoEffect)
<1>1. \/ \E r \in Exhaustions : ConnectionFailed(b, b.epoch, rc) = BrokerClose(r)
      \/ ConnectionFailed(b, b.epoch, rc) = ScheduleReconnect(Recovery(b, rc))
  BY DEF ConnectionFailed, Recovery, Exhaustions
<1>2. \A r : BrokerClose(r).effect.kind = "None"
  BY DEF BrokerClose, Applied, NoEffect
<1>3. /\ ScheduleReconnect(Recovery(b, rc)).effect.kind = "ScheduleReconnect"
      /\ ScheduleReconnect(Recovery(b, rc)).state = Recovery(b, rc)
  BY DEF ScheduleReconnect, Applied, Emit
<1> QED BY <1>1, <1>2, <1>3, Zenon DEF EndpointExhausted, Suspension

\* What the recovery generation looks like.
LEMMA RecoveryFields ==
  ASSUME BoundedDelays, NEW b \in Brokers, b.phase \in {"Connecting", "Available"},
         NEW t \in Nat, NEW n \in Nat, NEW j \in Nat,
         NEW rc, rc = [timer |-> t, now |-> n, jitter |-> j]
  PROVE  /\ Recovery(b, rc) \in Brokers /\ Suspension(b, rc) \in Brokers
         /\ Recovery(b, rc).phase = "Backoff" /\ Suspension(b, rc).phase = "Refreshing"
         /\ Suspension(b, rc).refresh.stage = "Pending"
         /\ \A w \in {Recovery(b, rc), Suspension(b, rc)} :
              /\ w.epoch = b.epoch /\ w.next = b.epoch + 1 /\ w.reason = "None"
              /\ w.retry = NextRetry(b) /\ NextRetry(b) \in Nat \ {0}
              /\ w.deadline \in (n + DelayFloor(w.retry))..(n + DelayCap(w.retry))
<1>1. NextRetry(b) \in Nat \ {0} /\ b.epoch \in Nat
  BY DEF NextRetry, Brokers
<1>2. /\ n + Delay(NextRetry(b), j) \in Nat
      /\ n + Delay(NextRetry(b), j) \in
           (n + DelayFloor(NextRetry(b)))..(n + DelayCap(NextRetry(b)))
  BY <1>1 DEF BoundedDelays
<1> DEFINE dl == n + Delay(NextRetry(b), j)
           nr == NextRetry(b)
<1>3. rc.timer = t /\ rc.now = n /\ rc.jitter = j
  OBVIOUS
<1>4. Recovery(b, rc) =
        [At("Backoff", b.epoch) EXCEPT
            !.next = b.epoch + 1, !.retry = nr, !.timer = t, !.deadline = dl]
  BY <1>3 DEF Recovery
<1>5. /\ At("Backoff", b.epoch) \in Brokers
      /\ At("Backoff", b.epoch).phase = "Backoff" /\ At("Backoff", b.epoch).epoch = b.epoch
      /\ At("Backoff", b.epoch).reason = "None"
  BY <1>1, AtFields DEF BrokerPhases, Waiting
<1>6. dl \in Nat /\ nr \in Nat \ {0} /\ nr = NextRetry(b)
      /\ dl \in (n + DelayFloor(nr))..(n + DelayCap(nr))
  BY <1>1, <1>2
<1> HIDE DEF dl, nr
<1>7. /\ Recovery(b, rc) \in Brokers /\ Recovery(b, rc).phase = "Backoff"
      /\ Recovery(b, rc).epoch = b.epoch /\ Recovery(b, rc).next = b.epoch + 1
      /\ Recovery(b, rc).retry = nr /\ Recovery(b, rc).deadline = dl
      /\ Recovery(b, rc).reason = "None"
  <2>1. PICK a \in Brokers : a = At("Backoff", b.epoch)
    BY <1>5
  <2>2. Recovery(b, rc) = [a EXCEPT !.next = b.epoch + 1, !.retry = nr,
                                    !.timer = t, !.deadline = dl]
    BY <1>4, <2>1
  <2>3. b.epoch + 1 \in Nat
    BY <1>1
  <2>4. Recovery(b, rc) \in Brokers
    BY <1>6, <2>2, <2>3, ZenonT(60) DEF Brokers
  <2> QED BY <1>5, <2>1, <2>2, <2>4, Zenon DEF Brokers
<1>8. /\ [NoRefresh EXCEPT !.stage = "Pending"] \in Refreshes
      /\ [NoRefresh EXCEPT !.stage = "Pending"].stage = "Pending"
  BY DEF NoRefresh, Refreshes
<1>9. /\ Suspension(b, rc) \in Brokers /\ Suspension(b, rc).phase = "Refreshing"
      /\ Suspension(b, rc).epoch = b.epoch /\ Suspension(b, rc).next = b.epoch + 1
      /\ Suspension(b, rc).retry = nr /\ Suspension(b, rc).deadline = dl
      /\ Suspension(b, rc).reason = "None" /\ Suspension(b, rc).refresh.stage = "Pending"
  BY <1>7, <1>8, Zenon DEF Suspension, Brokers, BrokerPhases, Waiting
<1> QED BY <1>6, <1>7, <1>9

\* A closed policy.
LEMMA ClosedFields ==
  ASSUME NEW r \in CloseReasons
  PROVE  /\ [At("Closed", 0) EXCEPT !.reason = r] \in Brokers
         /\ [At("Closed", 0) EXCEPT !.reason = r].phase = "Closed"
         /\ [At("Closed", 0) EXCEPT !.reason = r].reason = r
<1>1. At("Closed", 0) \in Brokers /\ At("Closed", 0).phase = "Closed"
  BY AtFields DEF BrokerPhases
<1> QED BY <1>1 DEF Brokers

\* DirectLifecycle::apply of an input the policy takes.
LEMMA ApplyApplied ==
  ASSUME NEW l, NEW b, NEW e
  PROVE  Apply(l, Applied(b, e)) = Doing([l EXCEPT !.broker = b], e)
  BY DEF Apply, Applied, Doing

\* The fields of a handler in progress.
LEMMA DoneFields ==
  ASSUME NEW l, NEW b, NEW e
  PROVE  /\ Apply(l, Applied(b, e)).lane = [l EXCEPT !.broker = b]
         /\ Apply(l, Applied(b, e)).effect = e
  BY DEF Apply, Applied, Doing

\* The policy connects the next generation.
LEMMA ConnectFields ==
  ASSUME NEW e \in Nat, NEW r \in Nat
  PROVE  \E c \in Brokers :
           /\ Connect(e, r) = Applied(c, Emit("OpenConnection", e, 0, 0))
           /\ c.phase = "Connecting" /\ c.epoch = e /\ c.retry = r /\ c.reason = "None"
<1>1. PICK a \in Brokers : /\ a = At("Connecting", e) /\ a.phase = "Connecting"
                           /\ a.epoch = e /\ a.reason = "None"
  BY AtFields DEF BrokerPhases, LivePhases
<1>2. /\ [a EXCEPT !.retry = r] \in Brokers /\ [a EXCEPT !.retry = r].phase = "Connecting"
      /\ [a EXCEPT !.retry = r].epoch = e /\ [a EXCEPT !.retry = r].retry = r
      /\ [a EXCEPT !.retry = r].reason = "None"
  BY <1>1 DEF Brokers
<1>3. Connect(e, r) = Applied([a EXCEPT !.retry = r], Emit("OpenConnection", e, 0, 0))
  BY <1>1 DEF Connect
<1> QED BY <1>2, <1>3, Zenon

-----------------------------------------------------------------------------
(* The end of a generation and the attempt to open one.                      *)

\* The rotation keeps its types.
LEMMA DialerTypes ==
  ASSUME NEW d \in Dialers
  PROVE  /\ OpenCandidate(d) \in Dialers /\ DialReady(d) \in Dialers
         /\ DialFailed(d) \in Dialers
<1>1. OpenCandidate(d) \in Dialers
  <2>1. CASE IsDirect(d) \/ d.phase # "Idle"
    BY <2>1 DEF OpenCandidate
  <2>2. CASE ~(IsDirect(d) \/ d.phase # "Idle")
    <3>1. d.size \in Nat \ {0} /\ d.next \in Nat
      BY <2>2 DEF IsDirect, Dialers
    <3>2. (d.next + 1) % d.size \in Nat
      BY <3>1
    <3> QED BY <2>2, <3>1, <3>2, Zenon DEF OpenCandidate, Dialers
  <2> QED BY <2>1, <2>2
<1>2. DialReady(d) \in Dialers
  BY Zenon DEF DialReady, Dialers
<1>3. DialFailed(d) \in Dialers
  <2>1. CASE d.phase = "Connected"
    BY <2>1, Zenon DEF DialFailed, Dialers
  <2>2. CASE d.phase = "Candidate"
    <3>1. PICK n \in Nat : n = IF PassExhausted(d) THEN 0 ELSE d.failures + 1
      BY DEF Dialers
    <3>2. PICK S \in SUBSET Nat : S = d.missed \cup {d.selected}
      BY Zenon DEF Dialers
    <3>3. DialFailed(d) = [d EXCEPT !.failures = n, !.phase = "Idle", !.selected = 0,
                                    !.missed = S]
      BY <2>2, <3>1, <3>2 DEF DialFailed, Dialers
    <3>4. [d EXCEPT !.failures = n, !.phase = "Idle", !.selected = 0, !.missed = S]
            \in Dialers
      BY Zenon DEF Dialers
    <3> QED BY <3>3, <3>4
  <2>3. CASE d.phase \notin {"Connected", "Candidate"}
    BY <2>3 DEF DialFailed
  <2> QED BY <2>1, <2>2, <2>3
<1> QED BY <1>1, <1>2, <1>3

\* The policy gives up the generation of l, which ended for this reason.
GivenUp(l, b, reason) ==
    /\ b.phase = "Closed"
    /\ b.reason = "Requested" =>
          l.broker.phase = "Draining" \/ reason \in {"Requested", "Drained"}
    /\ b.reason = "AuthenticationFailed" => reason = "Rejected"
    /\ b.reason # "EndpointResolutionFailed"

\* The policy waits to replace the generation of l.
Replaces(l, b) ==
    /\ b.phase = IF PassExhausted(l.dialer) THEN "Refreshing" ELSE "Backoff"
    /\ b.phase = "Refreshing" => b.refresh.stage = "Pending"
    /\ b.epoch = l.broker.epoch /\ b.next = b.epoch + 1 /\ b.reason = "None"
    /\ b.retry = NextRetry(l.broker) /\ b.retry \in Nat \ {0}
    /\ b.deadline \in (now + DelayFloor(b.retry))..(now + DelayCap(b.retry))

\* m is what the end of the generation of l leaves.
EndedAs(l, m, reason) ==
    /\ Retired(m)
    /\ m.dialer = IF reason \in Settled THEN l.dialer ELSE DialFailed(l.dialer)
    /\ \/ GivenUp(l, m.broker, reason) /\ m.fence = 0
       \/ /\ l.broker.phase # "Draining" /\ reason \notin Settled
          /\ Replaces(l, m.broker)
          /\ m.fence = IF PassExhausted(l.dialer) THEN l.broker.epoch ELSE 0

\* A lane whose generation is about to be settled.
Ending(l, reason) ==
    /\ l \in Lanes /\ l.fault = "None" /\ Retired(l)
    /\ l.broker.phase \in LivePhases /\ l.fence = 0 /\ ~l.terminal
    /\ reason \in Causes
    /\ reason = "Rejected" => l.broker.phase \in {"Connecting", "Draining"}

\* What the policy made of the end of l's generation; x says whether the
\* addresses are exhausted.
PolicyCloses(l, d, reason, b) ==
    /\ GivenUp(l, b, reason)
    /\ \/ d.lane = [l EXCEPT !.broker = b]
       \/ d.lane = [l EXCEPT !.broker = b, !.timer = l.timer + 1]
    /\ d.effect = NoEffect

\* Or to wait.
PolicyWaits(l, d, reason, x, b) ==
    /\ l.broker.phase # "Draining" /\ reason \notin Settled
    /\ b.phase = IF x THEN "Refreshing" ELSE "Backoff"
    /\ b.phase = "Refreshing" => b.refresh.stage = "Pending"
    /\ b.epoch = l.broker.epoch /\ b.next = b.epoch + 1 /\ b.reason = "None"
    /\ b.retry = NextRetry(l.broker) /\ b.retry \in Nat \ {0}
    /\ b.deadline \in (now + DelayFloor(b.retry))..(now + DelayCap(b.retry))
    /\ d.lane = [l EXCEPT !.timer = l.timer + 1, !.broker = b]
    /\ d.effect = IF x THEN NoEffect
                  ELSE Emit("ScheduleReconnect", b.epoch, b.timer, b.deadline)

\* DirectLifecycle::generation_ended, called with the rotated address.
LEMMA GenerationEndedFacts ==
  ASSUME BoundedDelays, now \in Nat, NEW l, NEW reason, Ending(l, reason), NEW j \in Nat,
         NEW x \in BOOLEAN, x => reason \notin Settled,
         NEW d, d = GenerationEnded(l, l.broker.epoch, reason, x, j)
  PROVE  \/ d = Doing(Fault(l, "Timers"), NoEffect)
         \/ \E b \in Brokers : PolicyCloses(l, d, reason, b)
         \/ \E b \in Brokers : PolicyWaits(l, d, reason, x, b)
<1> DEFINE e == l.broker.epoch
           rc == [timer |-> l.timer, now |-> now, jitter |-> j]
           reserved == [l EXCEPT !.timer = l.timer + 1]
<1>1. /\ l \in Lanes /\ l.broker \in Brokers /\ l.timer \in Nat /\ e \in Nat
      /\ l.broker.phase \in LivePhases
  BY DEF Ending, Lanes, Brokers
<1>2. ASSUME NEW r \in CloseReasons, NEW k,
             k = l \/ k = reserved, d = Apply(k, BrokerClose(r)),
             r = "Requested" =>
               l.broker.phase = "Draining" \/ reason \in {"Requested", "Drained"},
             r = "AuthenticationFailed" => reason = "Rejected",
             r # "EndpointResolutionFailed"
      PROVE  \E b \in Brokers : PolicyCloses(l, d, reason, b)
  <2>1. PICK b \in Brokers : b = [At("Closed", 0) EXCEPT !.reason = r]
    BY ClosedFields, Zenon
  <2>2. GivenUp(l, b, reason)
    BY <1>2, <2>1, ClosedFields DEF GivenUp
  <2>3. d.lane = [k EXCEPT !.broker = b] /\ d.effect = NoEffect
    BY <1>2, <2>1, DoneFields DEF BrokerClose
  <2>4. CASE k = l
    BY <2>2, <2>3, <2>4, Zenon DEF PolicyCloses
  <2>5. CASE k = reserved
    <3>1. [reserved EXCEPT !.broker = b] = [l EXCEPT !.broker = b, !.timer = l.timer + 1]
      BY <1>1, Zenon DEF Lanes
    <3> QED BY <2>2, <2>3, <2>5, <3>1, Zenon DEF PolicyCloses
  <2> QED BY <1>2, <2>4, <2>5
<1>3. CASE l.broker.phase = "Draining"
  <2>1. d = Apply(l, BrokerClose("Requested"))
    BY <1>3 DEF GenerationEnded, ConnectionDrained, LivePhases
  <2> QED BY <1>2, <1>3, <2>1 DEF CloseReasons
<1>4. CASE l.broker.phase # "Draining" /\ reason \in {"Requested", "Drained"}
  <2>1. d = CloseRequestedGeneration(l, e)
    BY <1>1, <1>4 DEF GenerationEnded, Settled
  <2> DEFINE begun == Doing([l EXCEPT !.broker = At("Draining", e)],
                        Emit("DrainConnection", e, 0, 0))
  <2>2. Apply(l, BeginDrain(l.broker)) = begun
    BY <1>1, <1>4, ApplyApplied DEF BeginDrain, LivePhases
  <2>3. /\ begun.effect = Emit("DrainConnection", e, 0, 0)
        /\ begun.lane = [l EXCEPT !.broker = At("Draining", e)]
    BY DEF Doing
  <2>4. begun.lane.broker = At("Draining", e)
    BY <1>1, <2>3 DEF Lanes
  <2>5. ConnectionDrained(begun.lane.broker, e) = BrokerClose("Requested")
    BY <2>4, AtFields, <1>1 DEF ConnectionDrained, BrokerPhases, LivePhases
  <2>6. d = Apply(begun.lane, BrokerClose("Requested"))
    BY <2>1, <2>2, <2>3, <2>5 DEF CloseRequestedGeneration
  <2>7. PICK b \in Brokers : b = [At("Closed", 0) EXCEPT !.reason = "Requested"]
    BY ClosedFields DEF CloseReasons
  <2> HIDE DEF begun
  <2>8. d.lane = [begun.lane EXCEPT !.broker = b] /\ d.effect = NoEffect
    BY <2>6, <2>7, DoneFields DEF BrokerClose
  <2>9. [[l EXCEPT !.broker = At("Draining", e)] EXCEPT !.broker = b] = [l EXCEPT !.broker = b]
    BY <1>1, Zenon DEF Lanes
  <2>10. d.lane = [l EXCEPT !.broker = b]
    BY <2>3, <2>8, <2>9
  <2>11. GivenUp(l, b, reason)
    BY <1>4, <2>7, ClosedFields DEF GivenUp, CloseReasons
  <2> QED BY <2>8, <2>10, <2>11, Zenon DEF PolicyCloses
<1>5. CASE l.broker.phase # "Draining" /\ reason = "Rejected"
  <2>1. l.broker.phase = "Connecting"
    BY <1>5 DEF Ending
  <2>2. d = Apply(l, BrokerClose("AuthenticationFailed"))
    BY <1>1, <1>5, <2>1 DEF GenerationEnded, ConnectionRejected, Settled
  <2> QED BY <1>2, <1>5, <2>2 DEF CloseReasons
<1>6. CASE l.broker.phase # "Draining" /\ reason \notin Settled
  <2>1. CASE l.timer > MaxTimer
    BY <1>1, <1>6, <2>1 DEF GenerationEnded, Settled
  <2>2. CASE ~(l.timer > MaxTimer)
    <3>1. d = Apply(reserved, IF x THEN EndpointExhausted(l.broker, e, rc)
                              ELSE ConnectionFailed(l.broker, e, rc))
      BY <1>1, <1>6, <2>2 DEF GenerationEnded, Settled
    <3>2. l.broker.phase \in {"Connecting", "Available"}
      BY <1>1, <1>6 DEF LivePhases
    <3> HIDE DEF rc
    <3>3. CASE \E r \in Exhaustions : d = Apply(reserved, BrokerClose(r))
      BY <1>2, <3>3 DEF Exhaustions, CloseReasons
    <3>4. CASE d = Apply(reserved, ScheduleReconnect(Recovery(l.broker, rc))) /\ ~x
      <4>1. PICK b \in Brokers : b = Recovery(l.broker, rc)
        BY <1>1, <3>2, RecoveryFields DEF rc
      <4>2. d.lane = [reserved EXCEPT !.broker = b]
            /\ d.effect = Emit("ScheduleReconnect", b.epoch, b.timer, b.deadline)
        <5> HIDE DEF reserved
        <5> QED BY <3>4, <4>1, DoneFields DEF ScheduleReconnect
      <4>3. [reserved EXCEPT !.broker = b] = [l EXCEPT !.timer = l.timer + 1, !.broker = b]
        BY <1>1 DEF Lanes
      <4>4. /\ b.phase = "Backoff"
            /\ b.epoch = l.broker.epoch /\ b.next = b.epoch + 1 /\ b.reason = "None"
            /\ b.retry = NextRetry(l.broker) /\ b.retry \in Nat \ {0}
            /\ b.deadline \in (now + DelayFloor(b.retry))..(now + DelayCap(b.retry))
        BY <1>1, <3>2, <4>1, RecoveryFields DEF rc
      <4> QED BY <1>6, <3>4, <4>2, <4>3, <4>4, Zenon DEF PolicyWaits
    <3>5. CASE d = Apply(reserved, Applied(Suspension(l.broker, rc), NoEffect)) /\ x
      <4>1. PICK b \in Brokers : b = Suspension(l.broker, rc)
        BY <1>1, <3>2, RecoveryFields DEF rc
      <4>2. d.lane = [reserved EXCEPT !.broker = b] /\ d.effect = NoEffect
        <5>1. d = Apply(reserved, Applied(b, NoEffect))
          BY <3>5, <4>1, Zenon
        <5> HIDE DEF reserved
        <5> QED BY <5>1, DoneFields
      <4>3. [reserved EXCEPT !.broker = b] = [l EXCEPT !.timer = l.timer + 1, !.broker = b]
        BY <1>1 DEF Lanes
      <4>4. /\ b.phase = "Refreshing" /\ b.refresh.stage = "Pending"
            /\ b.epoch = l.broker.epoch /\ b.next = b.epoch + 1 /\ b.reason = "None"
            /\ b.retry = NextRetry(l.broker) /\ b.retry \in Nat \ {0}
            /\ b.deadline \in (now + DelayFloor(b.retry))..(now + DelayCap(b.retry))
        BY <1>1, <3>2, <4>1, RecoveryFields DEF rc
      <4> QED BY <1>6, <3>5, <4>2, <4>3, <4>4, Zenon DEF PolicyWaits
    <3> QED BY <1>1, <3>1, <3>2, <3>3, <3>4, <3>5, FailureOutcomes
  <2> QED BY <2>1, <2>2
<1> QED BY <1>3, <1>4, <1>5, <1>6 DEF Ending, Causes, EngineReasons, Settled

\* Interpreting the effect needs no more than that it agrees with the policy.
Agrees(m, effect) ==
    /\ effect.kind \in {"None", "ScheduleReconnect"}
    /\ effect.kind = "ScheduleReconnect" => Reconnecting(m, effect)

\* DirectLaneAccess::end_generation.
LEMMA EndGenerationFacts ==
  ASSUME BoundedDelays, now \in Nat, NEW l, NEW reason, Ending(l, reason), NEW j \in Nat,
         NEW d, d = EndGeneration(l, l.broker.epoch, reason, j)
  PROVE  /\ d.lane \in Lanes /\ ~d.lane.terminal /\ d.lane.conn = 0
         /\ Agrees(d.lane, d.effect)
         /\ d.lane.fault = "Timers" \/ (d.lane.fault = "None" /\ EndedAs(l, d.lane, reason))
<1> DEFINE x == reason \notin Settled /\ PassExhausted(l.dialer)
           dl == IF reason \in Settled THEN l.dialer ELSE DialFailed(l.dialer)
           k == IF reason \in Settled THEN l ELSE [l EXCEPT !.dialer = DialFailed(l.dialer)]
           g == GenerationEnded(k, l.broker.epoch, reason, x, j)
<1>1. l \in Lanes /\ l.dialer \in Dialers /\ l.broker \in Brokers /\ l.timer \in Nat
  BY DEF Ending, Lanes
<1>2. dl \in Dialers /\ x \in BOOLEAN
  BY <1>1, DialerTypes
<1>3. /\ k \in Lanes /\ k.broker = l.broker /\ k.dialer = dl /\ k.fault = "None"
      /\ Retired(k) /\ k.fence = 0 /\ ~k.terminal /\ k.timer = l.timer
  <2>1. CASE reason \in Settled
    BY <2>1 DEF Ending
  <2>2. CASE reason \notin Settled
    BY <1>1, <1>2, <2>2 DEF Ending, Lanes, Retired
  <2> QED BY <2>1, <2>2
<1>4. Ending(k, reason)
  BY <1>3 DEF Ending
<1>5. d = IF x THEN OwnRefresh(g, l.broker.epoch) ELSE g
  BY DEF EndGeneration
<1> HIDE DEF dl, k, x, g
<1>6. x => reason \notin Settled
  BY DEF x
<1>7. CASE g = Doing(Fault(k, "Timers"), NoEffect)
  <2>1. g.lane = [k EXCEPT !.fault = "Timers"]
    BY <1>7 DEF Doing, Fault
  <2>2. /\ g.lane \in Lanes /\ g.lane.fault = "Timers" /\ g.lane.terminal = k.terminal
        /\ g.lane.conn = 0
    BY <1>3, <2>1 DEF Lanes, Retired
  <2>3. d = g
    BY <1>5, <2>2 DEF OwnRefresh
  <2>4. Agrees(d.lane, d.effect)
    BY <1>7, <2>3 DEF Doing, NoEffect, Agrees
  <2> QED BY <1>3, <2>2, <2>3, <2>4
<1>8. ASSUME NEW b \in Brokers, PolicyCloses(k, g, reason, b)
      PROVE  /\ d.lane \in Lanes /\ ~d.lane.terminal
             /\ d.lane.fault = "None" /\ EndedAs(l, d.lane, reason)
             /\ Agrees(d.lane, d.effect)
  <2>1. k.timer + 1 \in Nat
    BY <1>3 DEF Lanes
  <2>2. /\ g.lane \in Lanes /\ g.lane.fault = "None" /\ ~g.lane.terminal
        /\ g.lane.broker = b /\ g.lane.dialer = dl /\ g.lane.fence = 0
        /\ Retired(g.lane)
    <3>1. CASE g.lane = [k EXCEPT !.broker = b]
      BY <1>3, <3>1 DEF Lanes, Retired
    <3>2. CASE g.lane = [k EXCEPT !.broker = b, !.timer = k.timer + 1]
      BY <1>3, <2>1, <3>2, ZenonT(60) DEF Lanes, Retired
    <3> QED BY <1>8, <3>1, <3>2 DEF PolicyCloses
  <2>3. d = g
    BY <1>5, <1>8, <2>2 DEF OwnRefresh, RefreshIs, GivenUp, PolicyCloses
  <2>4. GivenUp(l, b, reason)
    BY <1>3, <1>8 DEF GivenUp, PolicyCloses
  <2>5. Agrees(d.lane, d.effect)
    BY <1>8, <2>3 DEF Agrees, NoEffect, PolicyCloses
  <2> QED BY <2>2, <2>3, <2>4, <2>5 DEF EndedAs, dl
<1>9. ASSUME NEW b \in Brokers, PolicyWaits(k, g, reason, x, b)
      PROVE  /\ d.lane \in Lanes /\ ~d.lane.terminal
             /\ d.lane.fault = "None" /\ EndedAs(l, d.lane, reason)
             /\ Agrees(d.lane, d.effect)
  <2>1. k.timer + 1 \in Nat /\ b.epoch \in Nat
    <3>1. k.timer \in Nat
      BY <1>3, Zenon DEF Lanes
    <3>2. b.epoch \in Nat
      BY Zenon DEF Brokers
    <3> QED BY <3>1, <3>2
  <2>2. /\ g.lane \in Lanes /\ g.lane.fault = "None" /\ ~g.lane.terminal
        /\ g.lane.broker = b /\ g.lane.dialer = dl /\ g.lane.fence = 0
        /\ Retired(g.lane)
    BY <1>3, <1>9, <2>1, ZenonT(60) DEF Lanes, Retired, PolicyWaits
  <2>3. x <=> PassExhausted(l.dialer)
    BY <1>9 DEF x, PolicyWaits
  <2>4. Replaces(l, b)
    BY <1>3, <1>9, <2>3 DEF Replaces, PolicyWaits
  <2>5. CASE x
    <3>1. d = Doing([g.lane EXCEPT !.fence = b.epoch], NoEffect)
      BY <1>3, <1>5, <1>9, <2>2, <2>5 DEF OwnRefresh, RefreshIs, PolicyWaits
    <3>2. d.lane = [g.lane EXCEPT !.fence = b.epoch] /\ d.effect = NoEffect
      BY <3>1 DEF Doing
    <3>3. /\ d.lane \in Lanes /\ d.lane.fault = "None" /\ ~d.lane.terminal
          /\ d.lane.broker = b /\ d.lane.dialer = dl /\ d.lane.fence = b.epoch
          /\ Retired(d.lane)
      BY <2>1, <2>2, <3>2 DEF Lanes, Retired
    <3>4. EndedAs(l, d.lane, reason)
      BY <1>3, <1>9, <2>3, <2>4, <2>5, <3>3 DEF EndedAs, dl, PolicyWaits
    <3> QED BY <3>2, <3>3, <3>4 DEF Agrees, NoEffect
  <2>6. CASE ~x
    <3>1. EndedAs(l, g.lane, reason)
      BY <1>3, <1>9, <2>2, <2>3, <2>4, <2>6 DEF EndedAs, dl, PolicyWaits
    <3>2. Agrees(g.lane, g.effect)
      BY <1>9, <2>2, <2>6 DEF Agrees, Reconnecting, Emit, PolicyWaits
    <3> QED BY <1>5, <2>2, <2>6, <3>1, <3>2
  <2> QED BY <2>5, <2>6
<1>10. \/ g = Doing(Fault(k, "Timers"), NoEffect)
       \/ \E b \in Brokers : PolicyCloses(k, g, reason, b)
       \/ \E b \in Brokers : PolicyWaits(k, g, reason, x, b)
  <2>1. g = GenerationEnded(k, k.broker.epoch, reason, x, j)
    BY <1>3 DEF g
  <2> QED BY <1>2, <1>4, <1>6, <2>1, GenerationEndedFacts
<1> QED BY <1>7, <1>8, <1>9, <1>10, Zenon DEF EndedAs, Retired

\* m is what settling the end of l's generation leaves behind.
SettledAs(l, m, reason) ==
    /\ m \in Lanes /\ m.conn = 0
    /\ \/ m.fault = "Timers"
       \/ /\ m.fault = "None" /\ EndedAs(l, m, reason)
          /\ m.terminal <=> m.broker.phase = "Closed"

\* The same before a policy that gave up makes the lane terminal.
Unsettled(l, m, reason) ==
    /\ m \in Lanes /\ ~m.terminal /\ m.conn = 0
    /\ m.fault = "Timers" \/ (m.fault = "None" /\ EndedAs(l, m, reason))

\* settle_policy_close after the effects were interpreted.
LEMMA PolicyCloseFacts ==
  ASSUME NEW l, NEW reason, NEW m, Unsettled(l, m, reason)
  PROVE  SettledAs(l, SettlePolicyClose(m), reason)
<1> USE DEF Unsettled
<1>1. CASE m.fault = "None" /\ m.broker.phase = "Closed"
  <2>1. SettlePolicyClose(m) = [m EXCEPT !.terminal = TRUE]
    BY <1>1 DEF SettlePolicyClose
  <2>2. /\ SettlePolicyClose(m) \in Lanes /\ SettlePolicyClose(m).fault = "None"
        /\ SettlePolicyClose(m).terminal /\ SettlePolicyClose(m).broker = m.broker
        /\ SettlePolicyClose(m).conn = m.conn
        /\ SettlePolicyClose(m).dialer = m.dialer /\ SettlePolicyClose(m).fence = m.fence
        /\ Retired(m) => Retired(SettlePolicyClose(m))
    BY <1>1, <2>1, Zenon DEF Lanes, Retired
  <2> QED BY <1>1, <2>2 DEF SettledAs, EndedAs
<1>2. CASE ~(m.fault = "None" /\ m.broker.phase = "Closed")
  BY <1>2 DEF SettlePolicyClose, SettledAs
<1> QED BY <1>1, <1>2

\* DirectLaneAccess::host_fatal keeps a faulted lane's fault and touches no other.
LEMMA HostFatalFacts ==
  ASSUME NEW m \in Lanes
  PROVE  /\ HostFatal(m) \in Lanes /\ HostFatal(m).fault = m.fault
         /\ HostFatal(m).conn = m.conn
         /\ m.fault = "None" => HostFatal(m) = m
  BY Zenon DEF HostFatal, Lanes

\* Effects that only name a timer change nothing.
LEMMA TimerEffects ==
  ASSUME NEW d, d.lane.fault # "None" \/ Agrees(d.lane, d.effect), NEW dial, NEW j
  PROVE  Interpret(d, dial, j) = d.lane
  BY DEF Interpret, CheckTimer, Agrees

\* settle_generation_lifecycle
LEMMA SettleGenerationFacts ==
  ASSUME BoundedDelays, now \in Nat, NEW l, NEW reason, Ending(l, reason), NEW j \in Nat
  PROVE  SettledAs(l, SettleGeneration(l, l.broker.epoch, reason, j), reason)
<1> DEFINE d == EndGeneration(l, l.broker.epoch, reason, j)
           m == SettlePolicyClose(d.lane)
<1>1. /\ d.lane \in Lanes /\ ~d.lane.terminal /\ d.lane.conn = 0
      /\ \/ d.lane.fault = "Timers"
         \/ /\ d.lane.fault = "None" /\ EndedAs(l, d.lane, reason)
            /\ Agrees(d.lane, d.effect)
  BY EndGenerationFacts
<1>2. SettleGeneration(l, l.broker.epoch, reason, j) =
        HostFatal(SettlePolicyClose(Interpret(d, "Connects", j)))
  BY DEF SettleGeneration
<1> HIDE DEF d
<1>3. Interpret(d, "Connects", j) = d.lane
  BY <1>1, TimerEffects
<1>4. SettledAs(l, m, reason)
  <2>1. Unsettled(l, d.lane, reason)
    BY <1>1 DEF Unsettled
  <2> QED BY <2>1, PolicyCloseFacts
<1>5. SettleGeneration(l, l.broker.epoch, reason, j) = HostFatal(m)
  BY <1>2, <1>3
<1> HIDE DEF m
<1>6. m \in Lanes /\ m.conn = 0 /\ (m.fault = "Timers" \/ m.fault = "None")
  BY <1>4 DEF SettledAs
<1>7. CASE m.fault = "None"
  BY <1>4, <1>5, <1>6, <1>7, HostFatalFacts
<1>8. CASE m.fault = "Timers"
  BY <1>5, <1>6, <1>8, HostFatalFacts DEF SettledAs
<1> QED BY <1>6, <1>7, <1>8

\* m has the connection that l attempted.
OpenedAs(l, m) ==
    /\ m.fault = "None" /\ m.broker = l.broker /\ m.fence = l.fence
    /\ m.dialer = OpenCandidate(l.dialer)
    /\ m.conn = l.broker.epoch /\ m.report = NoReport /\ m.events = <<>>
    /\ m.session = "AwaitingTransport" /\ m.cause = "None"
    /\ m.engine.phase = "Opening" /\ m.engine.reason = "None"
    /\ ~m.admitting /\ ~m.terminal

\* A lane that may open the generation its policy names.
MayOpen(l) ==
    /\ l \in Lanes /\ l.fault = "None" /\ Retired(l)
    /\ l.broker.phase = "Connecting" /\ l.broker.epoch # 0 /\ l.broker.reason = "None"
    /\ l.fence = 0 /\ ~l.terminal /\ l.dialer.phase = "Idle"

\* l with the candidate of the attempt chosen.
Picked(l) == [l EXCEPT !.dialer = OpenCandidate(l.dialer)]

\* The attempt connects, is refused at once and settled, or ends the host.
LEMMA OpenConnectionFacts ==
  ASSUME BoundedDelays, now \in Nat, NEW l, MayOpen(l), NEW dial \in DialOutcomes, NEW j \in Nat,
         NEW d, d = OpenConnection(l, l.broker.epoch, dial, j)
  PROVE  /\ d.lane \in Lanes
         /\ Agrees(d.lane, d.effect)
         /\ \/ d.lane.fault = "Host" /\ d.lane.conn = 0
            \/ OpenedAs(l, d.lane)
            \/ SettledAs(Picked(l), d.lane, "Failure") /\ Ending(Picked(l), "Failure")
<1> DEFINE e == l.broker.epoch
           p == Picked(l)
           o == OpenGeneration(l, e, dial)
           g == EndGeneration(o, e, "Failure", j)
<1>1. /\ l \in Lanes /\ l.dialer \in Dialers /\ l.fault = "None" /\ l.conn = 0
      /\ HasCandidate(l.dialer) /\ e \in Nat /\ e # 0
  BY DEF MayOpen, Lanes, Retired, HasCandidate, Brokers
<1>2. OpenCandidate(l.dialer) \in Dialers
  BY <1>1, DialerTypes
<1>3. /\ p \in Lanes /\ p.fault = "None" /\ p.broker = l.broker /\ Retired(p)
      /\ p.fence = 0 /\ ~p.terminal /\ p.dialer = OpenCandidate(l.dialer) /\ p.conn = 0
  BY <1>1, <1>2 DEF Picked, MayOpen, Lanes, Retired
<1>4. d = IF o.fault # "None" \/ o.conn = e THEN Doing(o, NoEffect)
          ELSE Doing(SettlePolicyClose(g.lane), g.effect)
  BY DEF OpenConnection
<1>5. CASE dial = "Fatal"
  <2>1. o = [p EXCEPT !.fault = "Host"]
    BY <1>1, <1>5 DEF OpenGeneration, Picked, Fault
  <2>2. o \in Lanes /\ o.fault = "Host" /\ o.conn = 0
    BY <1>3, <2>1 DEF Lanes
  <2> HIDE DEF o
  <2> QED BY <1>4, <2>2 DEF Doing, Agrees, NoEffect
<1>6. CASE dial = "Refused"
  <2>1. o = p
    BY <1>1, <1>6 DEF OpenGeneration, Picked
  <2>2. d = Doing(SettlePolicyClose(g.lane), g.effect)
    BY <1>1, <1>3, <1>4, <2>1
  <2>3. g = EndGeneration(p, p.broker.epoch, "Failure", j)
    BY <1>3, <2>1
  <2>4. Ending(p, "Failure")
    BY <1>3 DEF Ending, MayOpen, LivePhases, Causes, EngineReasons
  <2> HIDE DEF g, p
  <2>5. /\ g.lane \in Lanes /\ ~g.lane.terminal /\ g.lane.conn = 0
        /\ Agrees(g.lane, g.effect)
        /\ g.lane.fault = "Timers" \/ (g.lane.fault = "None" /\ EndedAs(p, g.lane, "Failure"))
    BY <2>3, <2>4, EndGenerationFacts
  <2>6. SettledAs(p, SettlePolicyClose(g.lane), "Failure")
    <3>1. Unsettled(p, g.lane, "Failure")
      BY <2>5 DEF Unsettled
    <3> QED BY <3>1, PolicyCloseFacts
  <2>7. d.lane = SettlePolicyClose(g.lane) /\ d.effect = g.effect
    BY <2>2 DEF Doing
  <2>8. Agrees(d.lane, d.effect)
    <3>1. d.lane.fault = g.lane.fault /\ d.lane.broker = g.lane.broker
      BY <2>5, <2>7 DEF SettlePolicyClose, Lanes
    <3> QED BY <2>5, <2>7, <3>1 DEF Agrees, Reconnecting
  <2> QED BY <2>4, <2>6, <2>7, <2>8 DEF SettledAs, p
<1>7. CASE dial = "Connects"
  <2>1. o = [p EXCEPT !.conn = e, !.session = "AwaitingTransport",
                      !.cause = "None", !.admitting = FALSE, !.report = NoReport,
                      !.terminal = FALSE, !.events = <<>>,
                      !.engine = [NoEngine EXCEPT !.phase = "Opening"]]
    BY <1>1, <1>7 DEF OpenGeneration, Picked
  <2>2. /\ [NoEngine EXCEPT !.phase = "Opening"] \in Engines
        /\ [NoEngine EXCEPT !.phase = "Opening"].phase = "Opening"
        /\ [NoEngine EXCEPT !.phase = "Opening"].reason = "None"
    BY DEF NoEngine, Engines, EngineUp, EngineReasons
  <2>3. NoReport \in [epoch : Nat, sound : BOOLEAN] /\ <<>> \in Seq(Events)
        /\ "AwaitingTransport" \in Sessions /\ "None" \in Causes
    BY DEF NoReport, Sessions, Establishing, Causes, EngineReasons
  <2> HIDE DEF p
  <2>4. o \in Lanes /\ OpenedAs(l, o) /\ o.conn = e
    <3>1. [p EXCEPT !.conn = e, !.session = "AwaitingTransport", !.cause = "None",
                    !.admitting = FALSE] \in Lanes
      BY <1>1, <1>3, <2>3, Zenon DEF Lanes
    <3>2. PICK q \in Lanes : q = [p EXCEPT !.conn = e, !.session = "AwaitingTransport",
                                         !.cause = "None", !.admitting = FALSE]
      BY <3>1
    <3>3. o = [q EXCEPT !.report = NoReport, !.terminal = FALSE, !.events = <<>>,
                        !.engine = [NoEngine EXCEPT !.phase = "Opening"]]
      BY <2>1, <3>2
    <3> HIDE DEF o
    <3>4. /\ q.fault = "None" /\ q.broker = l.broker /\ q.fence = l.fence
          /\ q.dialer = OpenCandidate(l.dialer) /\ q.conn = e
          /\ q.session = "AwaitingTransport" /\ q.cause = "None" /\ ~q.admitting
      BY <1>3, <3>2 DEF Lanes, MayOpen
    <3>5. o \in Lanes
      BY <2>2, <2>3, <3>2, <3>3, ZenonT(60) DEF Lanes
    <3>6. OpenedAs(l, o) /\ o.conn = e
      BY <2>2, <3>2, <3>3, <3>4, ZenonT(60) DEF Lanes, OpenedAs
    <3> QED BY <3>5, <3>6
  <2> HIDE DEF o
  <2> QED BY <1>4, <2>4 DEF Doing, Agrees, NoEffect
<1> QED BY <1>5, <1>6, <1>7 DEF DialOutcomes

-----------------------------------------------------------------------------
(* The rotation.  The addresses missed since the last success are the ones   *)
(* just behind the next candidate, as many as failures were counted.         *)

\* How far address x lies behind the next candidate.
Behind(d, x) == IF x < d.next THEN d.next - x ELSE d.next + d.size - x

\* What holds at every point of the rotation.
Rotating(d) ==
    /\ d.size = 0 => d.phase = "Idle"
    /\ d.size # 0 =>
        /\ d.next < d.size /\ d.failures < d.size /\ d.selected < d.size
        /\ d.phase = "Connected" => d.failures = 0
        /\ d.phase = "Candidate" =>
              d.next = IF d.selected + 1 = d.size THEN 0 ELSE d.selected + 1

\* Every address failed since the last success.
FullyMissed(d) == d.size # 0 /\ d.missed = 0..(d.size - 1)

\* A pass that is still going on.
Partial(d) ==
    d.size # 0 =>
        \A x : x \in d.missed <=>
            /\ x \in 0..(d.size - 1)
            /\ Behind(d, x) \in IF d.phase = "Candidate"
                                THEN 2..(d.failures + 1) ELSE 1..d.failures

\* A pass that is going on has not missed every address.
LEMMA PartialIsNotFull ==
  ASSUME NEW d \in Dialers, Rotating(d), Partial(d), d.size # 0
  PROVE  d.missed # 0..(d.size - 1)
<1>1. d.next \in 0..(d.size - 1) /\ d.size \in Nat /\ d.failures \in Nat /\ d.failures < d.size
  BY DEF Dialers, Rotating
<1>2. CASE d.phase # "Candidate"
  <2>1. Behind(d, d.next) = d.size
    BY <1>1 DEF Behind
  <2>2. d.next \notin d.missed
    BY <1>1, <1>2, <2>1 DEF Partial
  <2> QED BY <1>1, <2>2
<1>3. CASE d.phase = "Candidate"
  <2>1. d.selected \in 0..(d.size - 1) /\ Behind(d, d.selected) = 1
    BY <1>1, <1>3 DEF Rotating, Dialers, Behind
  <2>2. d.selected \notin d.missed
    BY <1>1, <1>3, <2>1 DEF Partial
  <2> QED BY <2>1, <2>2, Zenon
<1> QED BY <1>2, <1>3

\* A new answer starts a new pass.
LEMMA NewPass ==
  ASSUME NEW n \in Nat
  PROVE  /\ NewDialer(n) \in Dialers /\ Rotating(NewDialer(n)) /\ Partial(NewDialer(n))
         /\ NewDialer(n).phase = "Idle"
  BY DEF NewDialer, Dialers, Rotating, Partial

\* Choosing the next candidate goes on with the pass.
LEMMA CandidatePasses ==
  ASSUME NEW d \in Dialers, Rotating(d), Partial(d), d.phase = "Idle"
  PROVE  Rotating(OpenCandidate(d)) /\ Partial(OpenCandidate(d))
<1> DEFINE c == OpenCandidate(d)
<1>1. CASE d.size = 0
  BY <1>1 DEF OpenCandidate, IsDirect
<1>2. CASE d.size # 0
  <2>1. d.size \in Nat \ {0} /\ d.next \in 0..(d.size - 1) /\ d.failures \in Nat
        /\ d.failures < d.size
    BY <1>2 DEF Dialers, Rotating
  <2>2. (d.next + 1) % d.size = IF d.next + 1 = d.size THEN 0 ELSE d.next + 1
    BY <2>1
  <2>3. c = [d EXCEPT !.next = (d.next + 1) % d.size, !.phase = "Candidate",
                      !.selected = d.next]
    BY <1>2 DEF OpenCandidate, IsDirect
  <2>4. /\ c.size = d.size /\ c.phase = "Candidate" /\ c.selected = d.next
        /\ c.failures = d.failures /\ c.missed = d.missed
        /\ c.next = IF d.next + 1 = d.size THEN 0 ELSE d.next + 1
    BY <2>2, <2>3 DEF Dialers
  <2> HIDE DEF c
  <2>5. Rotating(c)
    BY <1>2, <2>1, <2>4 DEF Rotating
  <2>6. ASSUME NEW x \in 0..(d.size - 1)
        PROVE  Behind(c, x) = IF x = d.next THEN 1 ELSE Behind(d, x) + 1
    BY <2>1, <2>4 DEF Behind
  <2>7. ASSUME NEW x \in 0..(d.size - 1)
        PROVE  Behind(c, x) \in 2..(d.failures + 1) <=> Behind(d, x) \in 1..d.failures
    <3>1. Behind(d, x) \in Nat /\ (x = d.next => Behind(d, x) = d.size)
      BY <2>1 DEF Behind
    <3>2. CASE x = d.next
      BY <2>1, <2>6, <3>1, <3>2
    <3>3. CASE x # d.next
      BY <2>1, <2>6, <3>1, <3>3
    <3> QED BY <3>2, <3>3
  <2>8. Partial(c)
    BY <2>4, <2>7 DEF Partial
  <2> QED BY <2>5, <2>8 DEF c
<1> QED BY <1>1, <1>2

\* A candidate that becomes ready starts a new pass.
LEMMA ReadyPasses ==
  ASSUME NEW d \in Dialers, Rotating(d), Partial(d)
  PROVE  Rotating(DialReady(d)) /\ Partial(DialReady(d))
<1>1. CASE d.phase # "Candidate"
  BY <1>1 DEF DialReady
<1>2. CASE d.phase = "Candidate"
  <2> DEFINE c == DialReady(d)
  <2>1. /\ c.size = d.size /\ c.phase = "Connected" /\ c.selected = d.selected
        /\ c.failures = 0 /\ c.missed = {} /\ c.next = d.next
    BY <1>2 DEF DialReady, Dialers
  <2> HIDE DEF c
  <2>2. Rotating(c) /\ Partial(c)
    BY <1>2, <2>1 DEF Rotating, Partial, Dialers
  <2> QED BY <2>2 DEF c
<1> QED BY <1>1, <1>2

\* A failure continues the pass, or completes it exactly when the dialer says so.
LEMMA FailurePasses ==
  ASSUME NEW d \in Dialers, Rotating(d), Partial(d)
  PROVE  /\ Rotating(DialFailed(d)) /\ DialFailed(d).phase = "Idle"
         /\ DialFailed(d).size = d.size
         /\ IF PassExhausted(d) THEN FullyMissed(DialFailed(d)) ELSE Partial(DialFailed(d))
<1> DEFINE c == DialFailed(d)
<1>1. CASE d.phase = "Idle"
  BY <1>1 DEF DialFailed, PassExhausted
<1>2. CASE d.phase = "Connected"
  <2>1. /\ c.size = d.size /\ c.phase = "Idle" /\ c.selected = 0
        /\ c.failures = 0 /\ c.missed = d.missed /\ c.next = d.selected
    BY <1>2, Zenon DEF DialFailed, Dialers
  <2>2. d.size # 0 /\ d.failures = 0 /\ d.size \in Nat /\ d.next < d.size
    BY <1>2 DEF Rotating, Dialers
  <2>3. \A x : x \notin d.missed
    BY <1>2, <2>2 DEF Partial
  <2> HIDE DEF c
  <2>4. Rotating(c) /\ Partial(c)
    BY <1>2, <2>1, <2>2, <2>3 DEF Rotating, Partial
  <2> QED BY <1>2, <2>1, <2>4 DEF c, PassExhausted
<1>3. CASE d.phase = "Candidate"
  <2>1. d.size \in Nat \ {0} /\ d.next \in 0..(d.size - 1) /\ d.failures \in Nat
        /\ d.failures < d.size /\ d.selected \in 0..(d.size - 1)
        /\ d.next = IF d.selected + 1 = d.size THEN 0 ELSE d.selected + 1
    BY <1>3 DEF Dialers, Rotating
  <2>2. /\ c.size = d.size /\ c.phase = "Idle" /\ c.selected = 0 /\ c.next = d.next
        /\ c.failures = (IF PassExhausted(d) THEN 0 ELSE d.failures + 1)
        /\ c.missed = d.missed \cup {d.selected}
    BY <1>3, Zenon DEF DialFailed, Dialers
  <2>3. PassExhausted(d) <=> d.failures + 1 = d.size
    BY <1>3, <2>1 DEF PassExhausted
  <2>4. ASSUME NEW x \in 0..(d.size - 1)
        PROVE  Behind(d, x) \in 1..d.size /\ (Behind(d, x) = 1 <=> x = d.selected)
    BY <2>1 DEF Behind
  <2>5. \A x : x \in c.missed <=>
          x \in 0..(d.size - 1) /\ Behind(d, x) \in 1..(d.failures + 1)
    <3>1. ASSUME NEW x
          PROVE  x \in d.missed <=>
                   x \in 0..(d.size - 1) /\ Behind(d, x) \in 2..(d.failures + 1)
      BY <1>3, <2>1 DEF Partial
    <3>2. ASSUME NEW x \in 0..(d.size - 1)
          PROVE  Behind(d, x) \in 1..(d.failures + 1) <=>
                   x = d.selected \/ Behind(d, x) \in 2..(d.failures + 1)
      BY <2>1, <2>4
    <3> QED BY <2>1, <2>2, <3>1, <3>2
  <2> HIDE DEF c
  <2>6. Rotating(c)
    BY <2>1, <2>2, <2>3 DEF Rotating
  <2>7. CASE PassExhausted(d)
    <3>1. \A x : x \in c.missed <=> x \in 0..(d.size - 1)
      BY <2>1, <2>3, <2>4, <2>5, <2>7
    <3>2. FullyMissed(c)
      BY <2>1, <2>2, <3>1 DEF FullyMissed
    <3> QED BY <2>2, <2>6, <2>7, <3>2 DEF c
  <2>8. CASE ~PassExhausted(d)
    <3>1. \A x : Behind(c, x) = Behind(d, x)
      BY <2>2 DEF Behind
    <3>2. Partial(c)
      BY <2>2, <2>5, <2>8, <3>1 DEF Partial
    <3> QED BY <2>2, <2>6, <2>8, <3>2 DEF c
  <2> QED BY <2>7, <2>8
<1> QED BY <1>1, <1>2, <1>3 DEF Dialers

-----------------------------------------------------------------------------
(* The inductive invariant.                                                  *)

\* Where the queued events announce an admission.
Admits(events) == {i \in DOMAIN events : events[i].kind = "AdmissionOpened"}

\* Who owns the generation; with what the events still to be drained can say.
Owned(l) ==
    /\ l.broker.phase # "Closed" => l.broker.epoch # 0
    /\ l.broker.phase \in Waiting =>
          l.broker.next = l.broker.epoch + 1 /\ l.dialer.phase = "Idle"
    /\ l.broker.phase \notin LivePhases => Retired(l)
    /\ l.broker.phase \in LivePhases =>
          \/ l.conn = l.broker.epoch /\ l.report = NoReport
          \/ l.conn = 0 /\ l.report.epoch = l.broker.epoch
    /\ l.terminal <=> l.broker.phase = "Closed"
    /\ l.fence = IF l.broker.phase = "Refreshing" THEN l.broker.epoch ELSE 0
    /\ l.conn # 0 /\ l.session \in Establishing => l.broker.phase = "Connecting"
    /\ l.conn # 0 /\ l.session = "Draining" => l.broker.phase = "Draining"
    /\ l.cause = "Rejected" => l.broker.phase \in {"Connecting", "Draining"}
    /\ l.cause # "None" => l.session = "Closing"
    /\ l.admitting => /\ l.broker.phase = "Available" /\ l.session = "Ready"
                      /\ l.conn # 0 /\ Admits(l.events) = {}
    /\ Admits(l.events) # {} => l.broker.phase # "Connecting"
    /\ Admits(l.events) # {} /\ l.broker.phase = "Available" => l.session = "Ready"
    /\ \A i, j \in Admits(l.events) : i = j

\* One lookup is out exactly while the policy resolves.
Looking(l, q) ==
    /\ Len(q) <= 1
    /\ ~l.terminal => q = IF RefreshIs(l.broker, l.fence, "Resolving")
                          THEN <<l.fence>> ELSE <<>>

\* DNS is asked exactly after a full pass.
Passing(l) ==
    /\ Rotating(l.dialer)
    /\ l.broker.phase = "Refreshing" => FullyMissed(l.dialer)
    /\ l.broker.phase \notin {"Refreshing", "Closed"} => Partial(l.dialer)

\* Nothing in the lane speaks of a requested close.
Unasked(l) ==
    /\ l.broker.phase # "Draining" /\ l.session # "Draining"
    /\ l.broker.reason # "Requested"
    /\ l.cause \notin {"Requested", "Drained"}
    /\ l.engine.phase # "Draining" /\ l.engine.reason # "Drained"
    /\ l.engine.reason = "Requested" => l.cause # "None"
    /\ \A i \in DOMAIN l.events :
          /\ l.events[i].reason # "Drained"
          /\ l.events[i].reason = "Requested" => l.cause # "None"

\* What the lane says of credentials and addresses was observed.
Verdicts(l, seen) ==
    /\ "Rejected" \notin seen =>
          l.cause # "Rejected" /\ l.broker.reason # "AuthenticationFailed"
    /\ "Unusable" \notin seen => l.broker.reason # "EndpointResolutionFailed"

\* The lane reports what happened.
Truthful(l, seen) ==
    /\ "Asked" \notin seen => Unasked(l)
    /\ "Asked" \in seen => l.broker.phase \in {"Draining", "Closed"}
    /\ Verdicts(l, seen)

\* The policy counts the failures that happened and waits accordingly.
Paced(l, h) ==
    /\ l.broker.phase # "Closed" => h.opened <= l.broker.epoch
    /\ l.broker.phase = "Connecting" => l.broker.retry = h.streak
    /\ l.broker.phase = "Available" => h.streak = 0
    /\ l.broker.phase \in Waiting =>
        /\ l.broker.retry = h.streak /\ h.streak # 0
        /\ l.broker.deadline \in (h.failedAt + DelayFloor(h.streak))
                                 ..(h.failedAt + DelayCap(h.streak))

Observations == {"Asked", "Rejected", "Unusable"}

Histories == [failedAt : Nat, streak : Nat, opened : Nat, seen : SUBSET Observations]

LaneTypes ==
    /\ lane \in Lanes /\ now \in Nat /\ lookups \in Seq(Nat) /\ history \in Histories

\* The inductive invariant.
LaneInv ==
    /\ LaneTypes
    /\ Running => /\ Owned(lane) /\ Looking(lane, lookups) /\ Passing(lane)
                  /\ Truthful(lane, history.seen) /\ Paced(lane, history)

\* What SoundReopen says of a step.
Reopens ==
    Opens(lane, lane') =>
        /\ lane'.conn > history.opened
        /\ now >= history.failedAt + DelayFloor(history.streak)
        /\ "Asked" \notin history.seen

\* The invariant contains the ownership of generations.
LEMMA OwnedMeans == LaneInv => GenerationOwned
<1> SUFFICES ASSUME LaneInv
             PROVE  GenerationOwned
  OBVIOUS
<1>1. lane \in Lanes
  BY DEF LaneInv, LaneTypes
<1>2. lane.fault # "Invariant"
  BY <1>1 DEF Lanes
<1>3. ASSUME Running
      PROVE  /\ lane.broker.phase \in LivePhases <=> lane.conn + lane.report.epoch # 0
             /\ lane.conn # 0 => lane.conn = lane.broker.epoch /\ lane.report = NoReport
             /\ lane.report # NoReport => lane.report.epoch = lane.broker.epoch
  <2>1. Owned(lane) /\ lane.conn \in Nat /\ lane.report.epoch \in Nat
    BY <1>1, <1>3 DEF LaneInv, Lanes
  <2>2. CASE lane.broker.phase \in LivePhases
    BY <2>1, <2>2 DEF Owned, LivePhases, NoReport
  <2>3. CASE lane.broker.phase \notin LivePhases
    BY <2>1, <2>3 DEF Owned, Retired, NoReport
  <2> QED BY <2>2, <2>3
<1>4. Running =>
        /\ Len(lookups) <= 1
        /\ ~lane.terminal =>
              (lookups # <<>> <=> RefreshIs(lane.broker, lane.fence, "Resolving"))
  <2>1. Running => Looking(lane, lookups)
    BY DEF LaneInv
  <2>2. <<lane.fence>> # <<>>
    OBVIOUS
  <2>3. CASE RefreshIs(lane.broker, lane.fence, "Resolving")
    BY <2>1, <2>2, <2>3 DEF Looking
  <2>4. CASE ~RefreshIs(lane.broker, lane.fence, "Resolving")
    BY <2>1, <2>4 DEF Looking
  <2> QED BY <2>3, <2>4
<1>5. Running => Owned(lane)
  BY DEF LaneInv
<1>6. Running =>
        /\ lane.terminal <=> lane.broker.phase = "Closed"
        /\ lane.admitting =>
               lane.broker.phase = "Available" /\ lane.session = "Ready" /\ lane.conn # 0
        /\ lane.fence = IF lane.broker.phase = "Refreshing" THEN lane.broker.epoch ELSE 0
  BY <1>5 DEF Owned
<1>7. CASE Running
  BY <1>2, <1>3, <1>4, <1>6, <1>7 DEF GenerationOwned
<1>8. CASE ~Running
  BY <1>2, <1>8 DEF GenerationOwned
<1> QED BY <1>7, <1>8

-----------------------------------------------------------------------------
(* The queue of engine events.                                               *)

\* An event of a concatenation is an event of one of its parts.
LEMMA ConcatEvents ==
  ASSUME NEW es \in Seq(Events), NEW ps \in Seq(Events)
  PROVE  /\ es \o ps \in Seq(Events)
         /\ \A i \in DOMAIN es : i \in DOMAIN (es \o ps) /\ (es \o ps)[i] = es[i]
         /\ \A i \in DOMAIN (es \o ps) :
              \/ i \in DOMAIN es
              \/ \E k \in DOMAIN ps : (es \o ps)[i] = ps[k]
<1>1. /\ es \o ps \in Seq(Events) /\ Len(es) \in Nat /\ Len(ps) \in Nat
      /\ DOMAIN es = 1..Len(es) /\ DOMAIN ps = 1..Len(ps)
      /\ DOMAIN (es \o ps) = 1..(Len(es) + Len(ps))
  OBVIOUS
<1>2. ASSUME NEW i \in 1..Len(es)
      PROVE  i \in DOMAIN (es \o ps) /\ (es \o ps)[i] = es[i]
  BY <1>1
<1>3. ASSUME NEW i \in 1..(Len(es) + Len(ps)), i \notin 1..Len(es)
      PROVE  \E k \in DOMAIN ps : (es \o ps)[i] = ps[k]
  <2>1. i - Len(es) \in 1..Len(ps)
    BY <1>1, <1>3
  <2>2. (es \o ps)[i] = ps[i - Len(es)]
    BY <1>1, <1>3
  <2> QED BY <1>1, <2>1, <2>2
<1> QED BY <1>1, <1>2, <1>3

\* Events that announce no admission leave the announced ones where they are.
LEMMA ConcatAdmits ==
  ASSUME NEW es \in Seq(Events), NEW ps \in Seq(Events),
         \A k \in DOMAIN ps : ps[k].kind # "AdmissionOpened"
  PROVE  Admits(es \o ps) = Admits(es)
<1>1. \A i : i \in Admits(es \o ps) <=> i \in Admits(es)
  <2>1. ASSUME NEW i, i \in Admits(es) PROVE i \in Admits(es \o ps)
    BY <2>1, ConcatEvents DEF Admits
  <2>2. ASSUME NEW i, i \in Admits(es \o ps) PROVE i \in Admits(es)
    <3>1. i \in DOMAIN (es \o ps) /\ (es \o ps)[i].kind = "AdmissionOpened"
      BY <2>2 DEF Admits
    <3>2. i \in DOMAIN es
      BY <3>1, ConcatEvents
    <3>3. (es \o ps)[i] = es[i]
      BY <3>2, ConcatEvents
    <3> QED BY <3>1, <3>2, <3>3 DEF Admits
  <2> QED BY <2>1, <2>2
<1> QED BY <1>1, Zenon

\* One more event.
LEMMA OneEvent ==
  ASSUME NEW e \in Events
  PROVE  <<e>> \in Seq(Events) /\ \A k \in DOMAIN <<e>> : <<e>>[k] = e
<1>1. DOMAIN <<e>> = {1} /\ <<e>>[1] = e
  OBVIOUS
<1> QED BY <1>1

\* One event more.
LEMMA AppendEvents ==
  ASSUME NEW es \in Seq(Events), NEW e \in Events
  PROVE  /\ Append(es, e) = es \o <<e>> /\ <<e>> \in Seq(Events)
         /\ \A k \in DOMAIN <<e>> : <<e>>[k] = e
<1>1. <<e>> \in Seq(Events) /\ Append(es, e) = es \o <<e>>
  OBVIOUS
<1>2. DOMAIN <<e>> = {1} /\ <<e>>[1] = e
  OBVIOUS
<1> QED BY <1>1, <1>2

\* The events that are left when the first is taken.
LEMMA TailEvents ==
  ASSUME NEW es \in Seq(Events), es # <<>>
  PROVE  /\ Head(es) \in Events /\ Tail(es) \in Seq(Events)
         /\ 1 \in DOMAIN es /\ Head(es) = es[1]
         /\ \A i \in DOMAIN Tail(es) :
              i \in Nat \ {0} /\ i + 1 \in DOMAIN es /\ Tail(es)[i] = es[i + 1]
<1>1. /\ Len(es) \in Nat \ {0} /\ DOMAIN es = 1..Len(es) /\ Tail(es) \in Seq(Events)
      /\ Len(Tail(es)) = Len(es) - 1 /\ DOMAIN Tail(es) = 1..(Len(es) - 1)
      /\ Head(es) = es[1] /\ Head(es) \in Events
  OBVIOUS
<1>2. ASSUME NEW i \in 1..(Len(es) - 1)
      PROVE  i \in Nat \ {0} /\ i + 1 \in DOMAIN es /\ Tail(es)[i] = es[i + 1]
  BY <1>1
<1> QED BY <1>1, <1>2

\* Taking the first event takes its admission, and no other.
LEMMA TailAdmits ==
  ASSUME NEW es \in Seq(Events), es # <<>>, \A i, j \in Admits(es) : i = j
  PROVE  /\ Admits(Tail(es)) # {} => Admits(es) # {}
         /\ \A i, j \in Admits(Tail(es)) : i = j
         /\ Head(es).kind = "AdmissionOpened" => Admits(es) # {} /\ Admits(Tail(es)) = {}
<1>1. ASSUME NEW i \in Admits(Tail(es)) PROVE i \in Nat \ {0} /\ i + 1 \in Admits(es)
  BY TailEvents DEF Admits
<1>2. ASSUME NEW i \in Admits(Tail(es)), NEW j \in Admits(Tail(es)) PROVE i = j
  <2>1. i + 1 = j + 1 /\ i \in Nat /\ j \in Nat
    BY <1>1
  <2> QED BY <2>1
<1>3. Head(es).kind = "AdmissionOpened" => 1 \in Admits(es)
  BY TailEvents DEF Admits
<1>4. ASSUME Head(es).kind = "AdmissionOpened", NEW i \in Admits(Tail(es)) PROVE FALSE
  <2>1. i + 1 = 1 /\ i \in Nat \ {0}
    BY <1>1, <1>3, <1>4
  <2> QED BY <2>1
<1> QED BY <1>1, <1>2, <1>3, <1>4

\* A reason to close that nobody asked for.
Unbidden(l, reason) ==
    reason # "Drained" /\ (reason = "Requested" => l.cause # "None")

-----------------------------------------------------------------------------
(* What the end of a generation and a new one mean for each part.            *)

\* An empty queue announces no admission.
LEMMA NoAdmits == Admits(<<>>) = {}
  BY DEF Admits

\* A lane without a generation owns none.
LEMMA RetiredOwns ==
  ASSUME NEW m, Retired(m), m.broker.phase \notin LivePhases,
         m.broker.phase # "Closed" => m.broker.epoch # 0,
         m.broker.phase \in Waiting =>
            m.broker.next = m.broker.epoch + 1 /\ m.dialer.phase = "Idle",
         m.terminal <=> m.broker.phase = "Closed",
         m.fence = IF m.broker.phase = "Refreshing" THEN m.broker.epoch ELSE 0
  PROVE  Owned(m)
<1>1. Admits(m.events) = {} /\ m.conn = 0 /\ m.cause = "None" /\ ~m.admitting
  BY NoAdmits DEF Retired
<1> QED BY <1>1 DEF Owned

\* The end of a generation leaves a lane without one, at the right point of the
\* pass.
LEMMA EndOwned ==
  ASSUME NEW k, NEW r, Ending(k, r), k.broker.epoch # 0, Passing(k),
         NEW m, SettledAs(k, m, r), m.fault = "None"
  PROVE  /\ Owned(m) /\ Passing(m) /\ Retired(m)
         /\ m.broker.phase \in Waiting \cup {"Closed"}
<1>1. /\ m \in Lanes /\ EndedAs(k, m, r) /\ (m.terminal <=> m.broker.phase = "Closed")
      /\ Retired(m)
  BY DEF SettledAs, EndedAs
<1>2. /\ k.dialer \in Dialers /\ Rotating(k.dialer) /\ Partial(k.dialer)
  BY DEF Ending, Lanes, Passing, LivePhases
<1>3. Rotating(m.dialer)
  BY <1>1, <1>2, FailurePasses DEF EndedAs
<1>4. CASE GivenUp(k, m.broker, r) /\ m.fence = 0
  <2>1. m.broker.phase = "Closed"
    BY <1>4 DEF GivenUp
  <2>2. Owned(m)
    BY <1>1, <1>4, <2>1, RetiredOwns DEF LivePhases, Waiting
  <2> QED BY <1>1, <1>3, <2>1, <2>2 DEF Passing
<1>5. CASE /\ r \notin Settled /\ Replaces(k, m.broker)
           /\ m.fence = IF PassExhausted(k.dialer) THEN k.broker.epoch ELSE 0
  <2>1. m.dialer = DialFailed(k.dialer)
    BY <1>1, <1>5 DEF EndedAs
  <2>2. /\ m.broker.phase = IF PassExhausted(k.dialer) THEN "Refreshing" ELSE "Backoff"
        /\ m.broker.epoch = k.broker.epoch /\ m.broker.next = m.broker.epoch + 1
    BY <1>5 DEF Replaces
  <2>3. Owned(m)
    BY <1>1, <1>2, <1>5, <2>1, <2>2, FailurePasses, RetiredOwns DEF LivePhases, Waiting
  <2>4. Passing(m)
    BY <1>2, <1>3, <2>1, <2>2, FailurePasses DEF Passing
  <2> QED BY <1>1, <2>2, <2>3, <2>4 DEF Waiting
<1> QED BY <1>1, <1>4, <1>5 DEF EndedAs

\* A new connection is the generation the policy names.
LEMMA OpenOwned ==
  ASSUME NEW k, MayOpen(k), Passing(k), NEW m \in Lanes, OpenedAs(k, m)
  PROVE  Owned(m) /\ Passing(m) /\ Unasked(m)
<1>1. k.dialer \in Dialers /\ Rotating(k.dialer) /\ Partial(k.dialer) /\ k.dialer.phase = "Idle"
  BY DEF MayOpen, Lanes, Passing
<1>2. /\ m.broker = k.broker /\ m.broker.phase = "Connecting" /\ m.broker.epoch # 0
      /\ m.conn = m.broker.epoch /\ m.report = NoReport /\ m.events = <<>>
      /\ m.session = "AwaitingTransport" /\ m.cause = "None" /\ m.fence = 0
      /\ m.engine.phase = "Opening" /\ m.engine.reason = "None"
      /\ ~m.admitting /\ ~m.terminal
  BY DEF OpenedAs, MayOpen
<1>3. Admits(m.events) = {}
  BY <1>2, NoAdmits
<1>4. Owned(m)
  BY <1>2, <1>3 DEF Owned, LivePhases, Waiting
<1>5. Passing(m)
  BY <1>1, <1>2, CandidatePasses DEF OpenedAs, Passing
<1>6. Unasked(m)
  BY <1>2 DEF Unasked, MayOpen
<1> QED BY <1>4, <1>5, <1>6

\* What a settled generation says of why it closed.
LEMMA EndTruth ==
  ASSUME NEW k, NEW r, Ending(k, r), NEW m, SettledAs(k, m, r), m.fault = "None"
  PROVE  /\ k.broker.phase # "Draining" /\ r \notin {"Requested", "Drained"} => Unasked(m)
         /\ k.broker.phase = "Draining" => m.broker.phase = "Closed"
         /\ m.cause = "None" /\ m.broker.reason # "EndpointResolutionFailed"
         /\ r # "Rejected" => m.broker.reason # "AuthenticationFailed"
<1>1. EndedAs(k, m, r) /\ Retired(m)
  BY DEF SettledAs, EndedAs
<1>2. /\ m.cause = "None" /\ m.session = "Closed" /\ m.events = <<>>
      /\ m.engine.phase = "None" /\ m.engine.reason = "None"
  BY <1>1 DEF Retired, NoEngine
<1>3. CASE GivenUp(k, m.broker, r)
  BY <1>2, <1>3 DEF GivenUp, Unasked
<1>4. CASE k.broker.phase # "Draining" /\ r \notin Settled /\ Replaces(k, m.broker)
  BY <1>2, <1>4 DEF Replaces, Unasked
<1> QED BY <1>1, <1>3, <1>4 DEF EndedAs

\* What a step adds to the history.
LEMMA RememberTypes ==
  ASSUME LaneTypes, NEW m \in Lanes, NEW seen \in SUBSET Observations
  PROVE  /\ Remember(lane, m, seen) \in Histories
         /\ Remember(lane, m, seen).seen = history.seen \cup seen
         /\ Remember(lane, m, seen).opened =
              IF Opens(lane, m) THEN m.conn ELSE history.opened
         /\ Remember(lane, m, seen).failedAt =
              IF Fails(lane, m) THEN now ELSE history.failedAt
         /\ m.broker.phase = "Available" => Remember(lane, m, seen).streak = 0
         /\ m.broker.phase # "Available" => Remember(lane, m, seen).streak =
              IF Fails(lane, m) THEN history.streak + 1 ELSE history.streak
<1>1. /\ m.conn \in Nat /\ history.failedAt \in Nat /\ history.streak \in Nat
      /\ history.opened \in Nat /\ history.seen \in SUBSET Observations /\ now \in Nat
  BY DEF LaneTypes, Lanes, Histories
<1> DEFINE h == Remember(lane, m, seen)
<1>2. /\ h.seen = history.seen \cup seen
      /\ h.opened = IF Opens(lane, m) THEN m.conn ELSE history.opened
      /\ h.failedAt = IF Fails(lane, m) THEN now ELSE history.failedAt
      /\ m.broker.phase = "Available" => h.streak = 0
      /\ m.broker.phase # "Available" =>
           h.streak = IF Fails(lane, m) THEN history.streak + 1 ELSE history.streak
  BY DEF Remember, Fails, Waiting
<1>3. /\ h.seen \in SUBSET Observations /\ h.opened \in Nat /\ h.failedAt \in Nat
      /\ h.streak \in Nat
  BY <1>1, <1>2
<1>4. h = [failedAt |-> h.failedAt, streak |-> h.streak, opened |-> h.opened,
           seen |-> h.seen]
  BY DEF Remember
<1> HIDE DEF h
<1>5. h \in Histories
  BY <1>3, <1>4 DEF Histories
<1> QED BY <1>2, <1>5 DEF h

\* A failure is one more of the run, and is waited for from now on.
LEMMA EndPaced ==
  ASSUME LaneTypes, NEW k, NEW r, Ending(k, r), NEW m, SettledAs(k, m, r),
         m.fault = "None",
         k.broker.phase = "Connecting" => k.broker.retry = history.streak,
         k.broker.phase = "Available" => history.streak = 0,
         history.opened <= k.broker.epoch,
         lane.broker.phase \in Waiting => lane.broker.epoch # k.broker.epoch,
         NEW seen \in SUBSET Observations
  PROVE  Paced(m, Remember(lane, m, seen)) /\ ~Opens(lane, m)
<1> DEFINE h == Remember(lane, m, seen)
<1>1. EndedAs(k, m, r) /\ Retired(m) /\ m \in Lanes
  BY DEF SettledAs, EndedAs
<1>2. ~Opens(lane, m)
  BY <1>1 DEF Retired, Opens
<1>3. /\ h.opened = history.opened
      /\ h.failedAt = IF Fails(lane, m) THEN now ELSE history.failedAt
      /\ m.broker.phase # "Available" => h.streak =
           IF Fails(lane, m) THEN history.streak + 1 ELSE history.streak
  BY <1>1, <1>2, RememberTypes
<1>4. CASE GivenUp(k, m.broker, r)
  BY <1>2, <1>4 DEF GivenUp, Paced, Waiting
<1>5. CASE k.broker.phase # "Draining" /\ Replaces(k, m.broker)
  <2>1. /\ m.broker.phase \in Waiting /\ m.broker.phase \notin {"Available", "Connecting", "Closed"}
        /\ m.broker.epoch = k.broker.epoch /\ m.broker.retry = NextRetry(k.broker)
        /\ m.broker.retry \in Nat \ {0}
        /\ m.broker.deadline \in (now + DelayFloor(m.broker.retry))
                                 ..(now + DelayCap(m.broker.retry))
    BY <1>5 DEF Replaces, Waiting
  <2>2. Fails(lane, m)
    BY <2>1 DEF Fails
  <2>3. h.failedAt = now /\ h.streak = history.streak + 1
    BY <1>3, <2>1, <2>2
  <2>4. history.streak \in Nat /\ k.broker.phase \in {"Connecting", "Available"}
    BY <1>5 DEF LaneTypes, Histories, Ending, LivePhases
  <2>5. m.broker.retry = history.streak + 1
    BY <2>1, <2>4 DEF NextRetry
  <2> HIDE DEF h
  <2>6. Paced(m, h)
    BY <1>3, <2>1, <2>3, <2>5 DEF Paced
  <2> QED BY <1>2, <2>6 DEF h
<1> QED BY <1>1, <1>4, <1>5 DEF EndedAs

\* begin_lifecycle_drain of a lane without a generation closes it.
LEMMA DrainIdle ==
  ASSUME NEW k \in Lanes, k.fault = "None", Retired(k),
         k.broker.phase \in Waiting \cup {"Closed"}, NEW m, m = LifecycleDrain(k)
  PROVE  /\ m \in Lanes /\ m.fault = "None" /\ Retired(m) /\ m.broker.phase = "Closed"
         /\ m.fence = 0 /\ m.terminal /\ m.dialer = k.dialer
         /\ m.broker.reason = "Requested"
            \/ (k.broker.phase = "Closed" /\ m.broker.reason = k.broker.reason)
<1>1. PICK t : t = BeginDrain(k.broker)
  OBVIOUS
<1>2. /\ t.state \in Brokers /\ t.state.phase = "Closed"
      /\ t.effect.kind \notin {"OpenConnection", "DrainConnection", "ScheduleReconnect",
                               "ScheduleEndpointRefreshRetry"}
      /\ \/ t.state.reason = "Requested"
         \/ k.broker.phase = "Closed" /\ t.state.reason = k.broker.reason
  <2> DEFINE c == [At("Closed", 0) EXCEPT !.reason = "Requested"]
  <2>1. c \in Brokers /\ c.phase = "Closed" /\ c.reason = "Requested"
    BY ClosedFields DEF CloseReasons
  <2>2. k.broker \in Brokers
    BY DEF Lanes
  <2>3. CASE k.broker.phase = "Closed"
    <3>1. t = Ignored(k.broker)
      BY <1>1, <2>3 DEF BeginDrain
    <3> QED BY <2>2, <2>3, <3>1 DEF Ignored, NoEffect
  <2>4. CASE k.broker.phase \in Waiting
    <3> HIDE DEF c
    <3>1. \/ t = Applied(c, Emit("CancelReconnect", 0, k.broker.timer, 0))
          \/ t = Applied(c, Emit("CancelEndpointRefreshRetry", 0, k.broker.refresh.timer, 0))
          \/ t = Applied(c, NoEffect)
      BY <1>1, <2>4 DEF BeginDrain, Waiting, c
    <3> QED BY <2>1, <3>1 DEF Applied, Emit, NoEffect
  <2> QED BY <2>3, <2>4
<1>3. PICK b : b = [k EXCEPT !.broker = t.state]
  BY ZenonT(60)
<1>4. /\ b \in Lanes /\ b.fault = "None" /\ Retired(b) /\ b.broker = t.state
      /\ b.dialer = k.dialer
  BY <1>2, <1>3 DEF Lanes, Retired
<1>5. PICK d : d = Doing(b, t.effect)
  OBVIOUS
<1>6. d.lane = b /\ d.effect = t.effect
  BY <1>5 DEF Doing
<1>7. Interpret(d, "Connects", 0) = b
  BY <1>2, <1>4, <1>6 DEF Interpret, CheckTimer
<1>8. m = IF /\ Interpret(d, "Connects", 0).fault = "None"
             /\ Interpret(d, "Connects", 0).broker.phase = "Closed"
          THEN [Interpret(d, "Connects", 0) EXCEPT !.fence = 0, !.terminal = TRUE]
          ELSE Interpret(d, "Connects", 0)
  BY <1>1, <1>3, <1>5 DEF LifecycleDrain
<1>9. m = [b EXCEPT !.fence = 0, !.terminal = TRUE]
  BY <1>2, <1>4, <1>7, <1>8, Zenon
<1>10. /\ m \in Lanes /\ m.fault = "None" /\ m.broker = t.state /\ m.fence = 0 /\ m.terminal
       /\ m.dialer = k.dialer
  <2>0. PICK a \in Lanes : a = [b EXCEPT !.fence = 0]
    BY <1>4, Zenon DEF Lanes
  <2>1. m \in Lanes
    <3>1. m = [a EXCEPT !.terminal = TRUE]
      BY <1>4, <1>9, <2>0 DEF Lanes
    <3> QED BY <3>1, ZenonT(60) DEF Lanes
  <2>2. m.fault = b.fault /\ m.broker = b.broker /\ m.dialer = b.dialer
    BY <1>4, <1>9 DEF Lanes
  <2>3. m.fence = 0 /\ m.terminal
    BY <1>4, <1>9 DEF Lanes
  <2> QED BY <1>4, <2>1, <2>2, <2>3
<1>11. Retired(m)
  BY <1>4, <1>9 DEF Lanes, Retired
<1> QED BY <1>2, <1>10, <1>11

-----------------------------------------------------------------------------
(* Kinds of steps.                                                           *)

\* What every step must establish.
Good == LaneInv' /\ Reopens

\* A step that leaves the policy alone.
LEMMA PolicyKept ==
  ASSUME LaneInv, Running, NEW m \in Lanes, m.fault = "None",
         m.broker = lane.broker, m.dialer = lane.dialer, m.fence = lane.fence,
         m.terminal = lane.terminal, m.conn \in {lane.conn, 0}, Owned(m),
         NEW seen \in SUBSET Observations, Truthful(m, history.seen \cup seen),
         Step(m, seen), now' = now, lookups' = lookups
  PROVE  Good
<1>1. LaneTypes /\ lane' = m /\ history' = Remember(lane, m, seen)
  BY DEF LaneInv, Step
<1>2. ~Opens(lane, m) /\ ~Fails(lane, m)
  BY DEF Opens, Fails
<1>3. /\ history' \in Histories /\ history'.seen = history.seen \cup seen
      /\ history'.opened = history.opened /\ history'.failedAt = history.failedAt
      /\ m.broker.phase = "Available" => history'.streak = 0
      /\ m.broker.phase # "Available" => history'.streak = history.streak
  BY <1>1, <1>2, RememberTypes
<1>4. Paced(lane, history) /\ Looking(lane, lookups) /\ Passing(lane)
  BY DEF LaneInv
<1>5. Paced(m, history')
  BY <1>3, <1>4 DEF Paced, Waiting
<1>6. Looking(m, lookups') /\ Passing(m)
  BY <1>4 DEF Looking, Passing
<1>7. LaneTypes'
  BY <1>1, <1>3 DEF LaneTypes
<1>8. LaneInv'
  BY <1>1, <1>3, <1>5, <1>6, <1>7 DEF LaneInv
<1> QED BY <1>1, <1>2, <1>8 DEF Good, Reopens

\* A step that ends the host.
LEMMA Faulted ==
  ASSUME LaneInv, NEW m \in Lanes, m.fault # "None", m.conn \in {lane.conn, 0},
         NEW seen \in SUBSET Observations,
         Step(m, seen), now' = now, lookups' \in Seq(Nat)
  PROVE  Good
<1>1. LaneTypes /\ lane' = m /\ history' = Remember(lane, m, seen)
  BY DEF LaneInv, Step
<1>2. ~Opens(lane, m)
  BY DEF Opens
<1>3. history' \in Histories
  BY <1>1, RememberTypes
<1>4. LaneTypes'
  BY <1>1, <1>3 DEF LaneTypes
<1> QED BY <1>1, <1>2, <1>4 DEF Good, Reopens, LaneInv, Running

\* retire_generation forgets everything about the generation, nothing else.
LEMMA RetireFacts ==
  ASSUME NEW l \in Lanes
  PROVE  /\ Retire(l) \in Lanes /\ Retired(Retire(l)) /\ Retire(l).fault = l.fault
         /\ Retire(l).broker = l.broker /\ Retire(l).dialer = l.dialer
         /\ Retire(l).fence = l.fence /\ Retire(l).terminal = l.terminal
         /\ Retire(l).timer = l.timer
<1>1. /\ NoReport \in [epoch : Nat, sound : BOOLEAN] /\ <<>> \in Seq(Events)
      /\ "Closed" \in Sessions /\ "None" \in Causes /\ NoEngine \in Engines
  BY DEF NoReport, Sessions, Causes, EngineReasons, Engines, NoEngine
<1>2. PICK q \in Lanes :
        q = [l EXCEPT !.session = "Closed", !.cause = "None", !.conn = 0]
  BY <1>1, Zenon DEF Lanes
<1>3. Retire(l) = [q EXCEPT !.engine = NoEngine, !.events = <<>>, !.admitting = FALSE,
                            !.report = NoReport]
  BY <1>2 DEF Retire
<1>4. Retire(l) \in Lanes
  BY <1>1, <1>3, ZenonT(60) DEF Lanes
<1> QED BY <1>2, <1>3, <1>4 DEF Retired, Lanes

-----------------------------------------------------------------------------
(* The initial states.                                                       *)

\* A new lane may open its first generation.
LEMMA NewLaneOpens ==
  ASSUME NEW size \in Nat, NEW l, l = NewLane(size)
  PROVE  /\ MayOpen(l) /\ Passing(l) /\ l.broker.epoch = 1 /\ l.broker.retry = 0
<1>1. PICK b : b = BrokerStart(BrokerNew(1)).state
  OBVIOUS
<1>2. /\ b \in Brokers /\ b.phase = "Connecting" /\ b.epoch = 1 /\ b.retry = 0
      /\ b.reason = "None"
  <2>1. b = Connect(1, 0).state
    BY <1>1, AtFields DEF BrokerStart, BrokerNew, At
  <2>2. PICK c \in Brokers :
          /\ Connect(1, 0) = Applied(c, Emit("OpenConnection", 1, 0, 0))
          /\ c.phase = "Connecting" /\ c.epoch = 1 /\ c.retry = 0 /\ c.reason = "None"
    BY ConnectFields
  <2>3. b = c
    BY <2>1, <2>2 DEF Applied
  <2> QED BY <2>2, <2>3
<1>3. /\ NewDialer(size) \in Dialers /\ Rotating(NewDialer(size)) /\ Partial(NewDialer(size))
      /\ NewDialer(size).phase = "Idle"
  BY NewPass
<1>4. /\ l.broker = b /\ l.dialer = NewDialer(size) /\ l.fault = "None" /\ l.fence = 0
      /\ ~l.terminal /\ Retired(l)
  BY <1>1 DEF NewLane, Retired
<1>5. l \in Lanes
  <2>1. /\ NoReport \in [epoch : Nat, sound : BOOLEAN] /\ <<>> \in Seq(Events)
        /\ "Closed" \in Sessions /\ "None" \in Causes /\ NoEngine \in Engines
    BY DEF NoReport, Sessions, Causes, EngineReasons, Engines, NoEngine
  <2> QED BY <1>1, <1>2, <1>3, <2>1 DEF NewLane, Lanes
<1>6. MayOpen(l)
  BY <1>2, <1>3, <1>4, <1>5 DEF MayOpen
<1>7. Passing(l)
  BY <1>2, <1>3, <1>4 DEF Passing
<1> QED BY <1>2, <1>4, <1>6, <1>7

\* The invariant holds when the first attempt was made.
LEMMA InitHolds ==
  ASSUME BoundedDelays, Init
  PROVE  LaneInv
<1>1. PICK size \in InitialSizes, dial \in DialOutcomes \ {"Fatal"}, j \in Jitters :
        lane = InitialLane(size, dial, j)
  BY DEF Init
<1>2. size \in Nat /\ j \in Nat /\ dial \in DialOutcomes /\ now \in Nat /\ now = 0
  BY <1>1, LaneBounds DEF Init
<1>3. PICK l : l = NewLane(size)
  OBVIOUS
<1>4. MayOpen(l) /\ Passing(l) /\ l.broker.epoch = 1 /\ l.broker.retry = 0
  BY <1>2, <1>3, NewLaneOpens
<1>5. PICK d : d = OpenConnection(l, l.broker.epoch, dial, j)
  OBVIOUS
<1>6. lane = d.lane
  BY <1>1, <1>3, <1>4, <1>5 DEF InitialLane
<1>7. /\ lane \in Lanes
      /\ \/ lane.fault = "Host" /\ lane.conn = 0
         \/ OpenedAs(l, lane)
         \/ SettledAs(Picked(l), lane, "Failure") /\ Ending(Picked(l), "Failure")
  BY <1>2, <1>4, <1>5, <1>6, OpenConnectionFacts
<1>8. /\ lookups = <<>> /\ lookups \in Seq(Nat)
      /\ history = [failedAt |-> 0, opened |-> lane.conn, seen |-> {},
                    streak |-> IF lane.broker.phase \in Waiting THEN 1 ELSE 0]
  BY DEF Init
<1>9. /\ history.failedAt = 0 /\ history.opened = lane.conn /\ history.seen = {}
      /\ history.streak = IF lane.broker.phase \in Waiting THEN 1 ELSE 0
  BY <1>8
<1>10. history \in Histories
  BY <1>7, <1>8 DEF Histories, Lanes
<1>11. LaneTypes
  BY <1>2, <1>7, <1>8, <1>10 DEF LaneTypes
<1>12. CASE OpenedAs(l, lane)
  <2>1. Owned(lane) /\ Passing(lane) /\ Unasked(lane)
    BY <1>4, <1>7, <1>12, OpenOwned
  <2>2. /\ lane.broker.phase = "Connecting" /\ lane.broker.epoch = 1 /\ lane.broker.retry = 0
        /\ lane.conn = 1 /\ lane.broker.reason = "None" /\ lane.cause = "None"
    BY <1>4, <1>12 DEF OpenedAs, MayOpen
  <2>3. Looking(lane, lookups)
    BY <1>8, <2>2 DEF Looking, RefreshIs
  <2>4. Truthful(lane, history.seen)
    BY <1>9, <2>1, <2>2 DEF Truthful, Verdicts
  <2>5. Paced(lane, history)
    BY <1>9, <2>2 DEF Paced, Waiting
  <2> QED BY <1>11, <2>1, <2>3, <2>4, <2>5 DEF LaneInv
<1>13. CASE /\ SettledAs(Picked(l), lane, "Failure") /\ Ending(Picked(l), "Failure")
            /\ lane.fault = "None"
  <2>1. PICK p : p = Picked(l)
    OBVIOUS
  <2>2. /\ p.broker = l.broker /\ Passing(p) /\ p.broker.phase = "Connecting"
    <3>1. l \in Lanes /\ l.dialer \in Dialers /\ l.dialer.phase = "Idle"
          /\ l.broker.phase = "Connecting"
      BY <1>4 DEF MayOpen, Lanes
    <3>2. Rotating(l.dialer) /\ Partial(l.dialer)
      BY <1>4, <3>1 DEF Passing
    <3>3. p.broker = l.broker /\ p.dialer = OpenCandidate(l.dialer)
      BY <2>1, <3>1 DEF Picked, Lanes
    <3> QED BY <3>1, <3>2, <3>3, CandidatePasses DEF Passing
  <2>3. /\ SettledAs(p, lane, "Failure") /\ Ending(p, "Failure") /\ p.broker.epoch # 0
        /\ p.broker.retry = 0
    BY <1>4, <1>13, <2>1, <2>2
  <2>4. /\ Owned(lane) /\ Passing(lane) /\ Retired(lane)
        /\ lane.broker.phase \in Waiting \cup {"Closed"}
    BY <1>13, <2>2, <2>3, EndOwned
  <2>5. /\ Unasked(lane) /\ lane.cause = "None"
        /\ lane.broker.reason # "EndpointResolutionFailed"
        /\ lane.broker.reason # "AuthenticationFailed"
    BY <1>13, <2>2, <2>3, EndTruth
  <2>6. Truthful(lane, history.seen)
    BY <1>9, <2>5 DEF Truthful, Verdicts
  <2>7. EndedAs(p, lane, "Failure")
    BY <1>13, <2>3 DEF SettledAs
  <2>8. Looking(lane, lookups)
    <3>1. ~RefreshIs(lane.broker, lane.fence, "Resolving")
      BY <2>7 DEF EndedAs, GivenUp, Replaces, RefreshIs
    <3> QED BY <1>8, <3>1 DEF Looking
  <2>9. lane.conn = 0
    BY <2>4 DEF Retired
  <2>10. Paced(lane, history)
    <3>1. CASE lane.broker.phase = "Closed"
      BY <3>1 DEF Paced, Waiting
    <3>2. CASE lane.broker.phase \in Waiting
      <4>1. Replaces(p, lane.broker)
        BY <2>7, <3>2 DEF EndedAs, GivenUp, Waiting
      <4>2. /\ lane.broker.retry = 1 /\ lane.broker.epoch = 1
            /\ lane.broker.deadline \in (0 + DelayFloor(1))..(0 + DelayCap(1))
        BY <1>2, <1>4, <2>2, <2>3, <4>1 DEF Replaces, NextRetry
      <4>3. history.streak = 1 /\ history.opened = 0 /\ history.failedAt = 0
        BY <1>9, <2>9, <3>2
      <4> QED BY <3>2, <4>2, <4>3 DEF Paced, Waiting
    <3> QED BY <2>4, <3>1, <3>2
  <2> QED BY <1>11, <2>4, <2>6, <2>8, <2>10 DEF LaneInv
<1>14. CASE lane.fault # "None"
  BY <1>11, <1>14 DEF LaneInv, Running
<1> QED BY <1>7, <1>12, <1>13, <1>14
=============================================================================
