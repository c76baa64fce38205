--------------------------- MODULE CoordinatorOwner ----------------------------
(***************************************************************************)
(* The reactor's coordinator registry (`CoordinatorOwner`) and the host    *)
(* phases around it: one machine per key with at most one FindCoordinator  *)
(* call, calls that wait for a route, invalidations that wait for newer    *)
(* evidence, and the seed broker connection the discoveries go out on.     *)
(*                                                                         *)
(* The reactor thread runs each command and each turn to completion, so a  *)
(* handler is one action, written as an operator from owner to owner.  It  *)
(* interleaves with the seed broker's answers, the directory, the callers  *)
(* and the clock.  Every `Err(...)` of the owner ends the host: it is kept *)
(* in owner.fault and nothing follows.                                     *)
(***************************************************************************)
EXTENDS Coordinator, Sequences, FiniteSets

CONSTANTS
    Keys,               \* coordinator keys callers name
    Calls,              \* public calls routed by coordinator key
    Tokens,             \* route-failure tokens of failed calls
    Timeouts,           \* durations a call may be submitted with
    KeyLimit,           \* CoordinatorLimits::keys
    WaitLimit,          \* CoordinatorLimits::waiting_calls
    InvalidationLimit,  \* CoordinatorLimits::invalidation_waiters
    TurnBudget,         \* CoordinatorLimits::turn_budget
    SeedStates          \* conditions of the seed connection in this instance

ASSUME OwnerBounds ==
    /\ {KeyLimit, WaitLimit, InvalidationLimit, TurnBudget} \subseteq Nat \ {0}
    /\ Timeouts \subseteq Nat
    /\ SeedStates \subseteq {"Absent", "Down", "Queueing", "Ready", "Unsupported"}

VARIABLES
    owner,      \* the CoordinatorOwner and what it completed
    seed,       \* the seed connection, as the owner sees it
    directory,  \* targets the metadata directory lists under their endpoint
    clock,      \* CausalSequence.next
    now,        \* the host's Moment
    woken       \* an event reached the host since its last turn

vars == <<owner, seed, directory, clock, now, woken>>

-------------------------------------------------------------------------------
(* State.  entries is the Vec's order of keys.  A call or token that the     *)
(* owner completed holds the completion it received.                         *)

NoPending == [op |-> 0, epoch |-> 0, evidence |-> 0, answer |-> "None"]
NoInvalidation == [target |-> NoTarget, subscribers |-> {}]

\* The key, target and outcome stamp a route-failure token carries.
NoRouteFailure == [key |-> NoTarget, target |-> NoTarget, observed |-> 0]

NewEntry == [machine |-> CoordinatorNew, pending |-> NoPending,
             requested |-> FALSE, invalidation |-> NoInvalidation]

NewOwner ==
    [entries |-> <<>>, entry |-> [k \in Keys |-> NewEntry], cursor |-> 0,
     waiting |-> <<>>, scan |-> 0, subscribers |-> 0,
     call |-> [c \in Calls |-> "Fresh"], token |-> [i \in Tokens |-> "Free"],
     held |-> [i \in Tokens |-> NoRouteFailure], served |-> {},
     fault |-> "None", state |-> "Running"]

Inserted(o, key) == \E i \in 1..Len(o.entries) : o.entries[i] = key

\* The seed as BrokerRpc: None, is_ready, and whether a version was negotiated.
Present(s)  == s # "Absent"
IsReady(s)  == s \in {"Ready", "Unsupported"}
HasVersion(s) == s \in {"Ready", "Queueing"}

\* An operation identity no live holder has; the source counts upwards.
LiveOps(o) == {o.entry[k].machine.op : k \in Keys}
                \cup {o.entry[k].pending.op : k \in Keys}
ReserveOperation(o) ==
    CHOOSE n \in 1..(2 * Cardinality(Keys) + 1) :
        n \notin LiveOps(o) /\ \A j \in 1..(n - 1) : j \in LiveOps(o)

Faulted(o, error) == [o EXCEPT !.fault = error]

Complete(statuses, ids, status) ==
    [i \in DOMAIN statuses |-> IF i \in ids THEN status ELSE statuses[i]]

DiscoveryPending(o, key) ==
    Inserted(o, key)
        /\ (o.entry[key].requested \/ InDiscovery(o.entry[key].machine))

\* CoordinatorWaiters::begin_scan
BeginScan(o) == [o EXCEPT !.scan = Len(o.waiting)]

-------------------------------------------------------------------------------
(* Invalidation barriers.                                                    *)

\* Variant: a barrier is lifted by the first outcome, whatever it showed.
SettleInvalidationEarly(o, key) ==
    LET e == o.entry[key]
    IN  IF e.invalidation = NoInvalidation THEN o
        ELSE [o EXCEPT
                !.token = Complete(@, e.invalidation.subscribers,
                    IF e.machine.phase = "Unknown" THEN "Unavailable" ELSE "Applied"),
                !.subscribers = @ - Cardinality(e.invalidation.subscribers),
                !.entry[key].invalidation = NoInvalidation]

SettleInvalidation(o, key) ==
    LET e == o.entry[key]
    IN  IF \/ e.invalidation = NoInvalidation
           \/ RevocationPending(e.machine, e.invalidation)
        THEN o
        ELSE [o EXCEPT
                !.token = Complete(@, e.invalidation.subscribers,
                    IF e.machine.phase = "Unknown" THEN "Unavailable" ELSE "Applied"),
                !.subscribers = @ - Cardinality(e.invalidation.subscribers),
                !.entry[key].invalidation = NoInvalidation]

Subscribe(o, key, target, i) ==
    [o EXCEPT !.entry[key].invalidation =
                    [target |-> target, subscribers |-> @.subscribers \cup {i}],
              !.subscribers = @ + 1,
              !.token[i] = "Pending"]

-------------------------------------------------------------------------------
(* Interpretation of a machine's effects.  x is the context of one phase:    *)
(* the seed, the keys whose call the seed's full window refuses at once, the *)
(* evidence stamp the host drew for the phase, and the time.                 *)

AfterRejection(o, key, last) ==
    LET o1 == BeginScan([o EXCEPT !.entry[key].machine = last.machine])
    IN  IF last.effect.kind = "None" THEN SettleInvalidation(o1, key)
        ELSE Faulted(o1, "UnexpectedEffect")

\* A Find that a failure started has no followup: the loop ends in a second pass.
RejectAgain(o, key, first) ==
    LET o1 == [o EXCEPT !.entry[key].machine = first.machine]
    IN  IF first.effect.kind # "Find" THEN AfterRejection(o, key, first)
        ELSE AfterRejection(o, key,
                Fail(first.machine, first.effect.op, first.effect.epoch,
                     ReserveOperation(o1)))

RejectFind(o, key, op, epoch) ==
    RejectAgain(o, key, Fail(o.entry[key].machine, op, epoch, ReserveOperation(o)))

\* Variant: a discovery the seed does not support is forgotten.
SubmitForgetting(o, key, find, x) ==
    CASE o.entry[key].pending # NoPending -> Faulted(o, "UnexpectedEffect")
      [] o.entry[key].pending = NoPending /\ ~HasVersion(x.seed) -> o
      [] o.entry[key].pending = NoPending /\ HasVersion(x.seed) ->
            [o EXCEPT !.entry[key].pending =
                [op |-> find.op, epoch |-> find.epoch, evidence |-> x.evidence,
                 answer |-> IF key \in x.refused THEN "Refused" ELSE "None"]]

Submit(o, key, find, x) ==
    CASE o.entry[key].pending # NoPending -> Faulted(o, "UnexpectedEffect")
      [] o.entry[key].pending = NoPending /\ ~HasVersion(x.seed) ->
            RejectFind(o, key, find.op, find.epoch)
      [] o.entry[key].pending = NoPending /\ HasVersion(x.seed) ->
            [o EXCEPT !.entry[key].pending =
                [op |-> find.op, epoch |-> find.epoch, evidence |-> x.evidence,
                 answer |-> IF key \in x.refused THEN "Refused" ELSE "None"]]

Interpret(o, key, t, x) ==
    LET o1 == [o EXCEPT !.entry[key].machine = t.machine]
    IN  CASE t.effect.kind = "None" -> o1
          [] t.effect.kind = "Find" -> Submit(o1, key, t.effect, x)
          [] t.effect.kind = "WaitUntil" ->
                IF t.machine.phase = "Retrying" /\ WaitUntil(t.machine) = t.effect
                THEN o1 ELSE Faulted(o1, "UnexpectedEffect")
          [] t.effect.kind = "EpochExhausted" -> Faulted(o1, "EpochExhausted")

-------------------------------------------------------------------------------
(* The phases of a turn pass on the owner and what is left of the budget.    *)
(* Each sweeps the entries from the cursor, moves the cursor past an entry   *)
(* it worked on, and goes on from the moved cursor.                          *)

Sweep(p, Eligible(_, _), Step(_, _)) ==
    LET len == Len(p.owner.entries)
        swept[n \in 0..len] ==
            IF n = 0 THEN p
            ELSE LET prior == swept[n - 1]
                     index == (prior.owner.cursor + (n - 1)) % len
                     key   == prior.owner.entries[index + 1]
                 IN  IF /\ prior.left > 0 /\ prior.owner.fault = "None"
                        /\ Eligible(prior.owner, key)
                     THEN [owner |-> [Step(prior.owner, key) EXCEPT
                                         !.cursor = (index + 1) % len],
                           left  |-> prior.left - 1]
                     ELSE prior
    IN  swept[len]

RetryHasDemand(o, key, at) ==
    \/ o.entry[key].invalidation # NoInvalidation
    \/ \E i \in 1..Len(o.waiting) :
          o.waiting[i].key = key /\ o.waiting[i].deadline > at

FireRetry(o, key, x) ==
    LET m  == o.entry[key].machine
        op == ReserveOperation(o)
    IN  IF o.entry[key].pending # NoPending THEN Faulted(o, "UnexpectedEffect")
        ELSE IF RetryHasDemand(o, key, x.now)
        THEN Interpret(o, key, RetryElapsed(m, m.op, m.epoch, x.now, op), x)
        ELSE BeginScan(SettleInvalidation(
                Interpret(o, key, Fail(m, m.op, m.epoch, op), x), key))

FireDueRetries(p, x) ==
    Sweep(p,
          LAMBDA o, key : o.entry[key].machine.phase = "Retrying"
                            /\ o.entry[key].machine.at <= x.now,
          LAMBDA o, key : FireRetry(o, key, x))

Outcome(o, key, pending, x) ==
    LET m  == o.entry[key].machine
        op == ReserveOperation(o)
    IN  CASE pending.answer \in Targets ->
                Succeed(m, pending.op, pending.epoch, pending.answer,
                        pending.evidence, op)
          [] pending.answer = "Rejected" ->
                Reject(m, pending.op, pending.epoch, x.now, op)
          [] pending.answer \in {"Failed", "Refused"} ->
                Fail(m, pending.op, pending.epoch, op)

\* Variant: waiters are not scanned after an outcome.
ObserveUnscanned(o, key, x) ==
    LET pending == o.entry[key].pending
        taken   == [o EXCEPT !.entry[key].pending = NoPending]
    IN  SettleInvalidation(
            Interpret(taken, key, Outcome(taken, key, pending, x), x), key)

Observe(o, key, x) ==
    LET pending == o.entry[key].pending
        taken   == [o EXCEPT !.entry[key].pending = NoPending]
    IN  BeginScan(SettleInvalidation(
            Interpret(taken, key, Outcome(taken, key, pending, x), x), key))

Answered(o, key) == o.entry[key].pending.answer # "None"

ObserveCompletions(p, x) ==
    Sweep(p, Answered, LAMBDA o, key : Observe(o, key, x))

StartOne(o, key, x) ==
    LET p == [o EXCEPT !.entry[key].requested = FALSE]
    IN  Interpret(p, key, Resolve(p.entry[key].machine, ReserveOperation(p)), x)

StartRequested(p, x) ==
    IF ~IsReady(x.seed) THEN p
    ELSE Sweep(p, LAMBDA o, key : o.entry[key].requested,
               LAMBDA o, key : StartOne(o, key, x))

Budgeted(o) == [owner |-> o, left |-> TurnBudget]

Drive(o, x) ==
    StartRequested(ObserveCompletions(FireDueRetries(Budgeted(o), x), x), x).owner

-------------------------------------------------------------------------------
(* Calls that wait for a route.                                              *)

Drop(s, i) == [j \in 1..(Len(s) - 1) |-> IF j < i THEN s[j] ELSE s[j + 1]]

Due(o, at) == {i \in 1..Len(o.waiting) : o.waiting[i].deadline <= at}

\* WaitQueue::take_due: the earliest deadline, the oldest among equals.
FirstDue(o, at) ==
    CHOOSE i \in Due(o, at) : \A j \in Due(o, at) :
        \/ o.waiting[i].deadline < o.waiting[j].deadline
        \/ o.waiting[i].deadline = o.waiting[j].deadline /\ i <= j

Expire(o, i) ==
    [o EXCEPT !.waiting = Drop(@, i), !.call[o.waiting[i].call] = "Expired"]

\* One waiter is examined: expired, routed, kept behind the others, or failed.
\* What the host routes but the directory does not list fails there.
ExamineFront(o, at) ==
    LET w     == o.waiting[1]
        rest  == [o EXCEPT !.waiting = Tail(@), !.scan = @ - 1]
        route == o.entry[w.key].machine.current
    IN  CASE w.deadline <= at -> [rest EXCEPT !.call[w.call] = "Expired"]
          [] w.deadline > at /\ route # NoRoute ->
                IF route.target \in directory
                THEN [rest EXCEPT !.call[w.call] = "Routed",
                                  !.served = @ \cup {[key |-> w.key, route |-> route]}]
                ELSE [rest EXCEPT !.call[w.call] = "Unavailable"]
          [] w.deadline > at /\ route = NoRoute ->
                IF DiscoveryPending(o, w.key)
                THEN [rest EXCEPT !.waiting = Append(@, w)]
                ELSE [rest EXCEPT !.call[w.call] = "Unavailable"]

ExpireDue(p, at) ==
    LET expired[n \in 0..TurnBudget] ==
            IF n = 0 THEN p
            ELSE LET prior == expired[n - 1]
                 IN  IF Due(prior.owner, at) = {} THEN prior
                     ELSE [owner |-> Expire(prior.owner, FirstDue(prior.owner, at)),
                           left  |-> prior.left - 1]
    IN  expired[TurnBudget]

PopScanned(p, at) ==
    LET popped[n \in 0..p.left] ==
            IF n = 0 THEN p.owner
            ELSE LET prior == popped[n - 1]
                 IN  IF prior.scan = 0 \/ prior.waiting = <<>>
                     THEN [prior EXCEPT !.scan = 0]
                     ELSE ExamineFront(prior, at)
    IN  popped[p.left]

\* CoordinatorOwner::drain_waiters: expiry only when no scan is under way.
DrainWaiters(o, at) ==
    IF o.scan # 0 THEN PopScanned(Budgeted(o), at)
    ELSE PopScanned(ExpireDue(Budgeted(o), at), at)

\* CoordinatorWaiters::admit and CoordinatorOwner::wait_for.  fits: the byte
\* limit leaves room for the request.
WaitFor(o, c, key, timeout, fits, x) ==
    LET deadline == x.now + timeout
        requests == o.entry[key].machine.current = NoRoute
                        /\ o.entry[key].pending = NoPending
        admitted ==
            [o EXCEPT !.entries = IF Inserted(o, key) THEN @ ELSE Append(@, key),
                      !.waiting = Append(@, [call |-> c, key |-> key,
                                             deadline |-> deadline]),
                      !.call[c] = "Waiting",
                      !.entry[key].requested = @ \/ requests]
    IN  CASE timeout = 0 -> [o EXCEPT !.call[c] = "Expired"]
          [] \/ timeout > 0 /\ deadline > MaxMoment
             \/ timeout > 0 /\ (~fits \/ Len(o.waiting) = WaitLimit)
             \/ timeout > 0 /\ ~Inserted(o, key) /\ Len(o.entries) = KeyLimit ->
                [o EXCEPT !.call[c] = "Refused"]
          [] OTHER -> IF Present(x.seed)
                      THEN StartRequested(Budgeted(admitted), x).owner
                      ELSE admitted

-------------------------------------------------------------------------------
(* Host commands.  In each, the keys in refused meet a full request window.  *)

Context(refused) ==
    [seed |-> seed, refused |-> refused, evidence |-> clock, now |-> now]

\* A stamp that no discovery carries is indistinguishable from one not drawn.
Stamped(new) ==
    clock' = IF \E k \in Keys : new.entry[k].pending.evidence = clock
             THEN clock + 1 ELSE clock

Running == owner.state = "Running" /\ owner.fault = "None"

Command(new) ==
    /\ owner' = new
    /\ Stamped(new)
    /\ woken' = TRUE
    /\ UNCHANGED <<seed, directory, now>>

\* Reactor::submit_coordinator
SubmitCoordinator(c, key, timeout, fits, refused) ==
    LET x       == Context(refused)
        current == owner.entry[key].machine.current
        Waits(o) == IF o.fault # "None" THEN Command(o)
                    ELSE Command(WaitFor(o, c, key, timeout, fits, x))
    IN  CASE current # NoRoute /\ current.target \in directory ->
                Command([owner EXCEPT !.call[c] = "Routed",
                            !.served = @ \cup {[key |-> key, route |-> current]}])
          [] current # NoRoute /\ current.target \notin directory ->
                IF ~Present(seed)
                THEN Command([owner EXCEPT !.call[c] = "Unavailable"])
                ELSE Waits(Interpret(owner, key,
                               Withdraw(owner.entry[key].machine, current,
                                        ReserveOperation(owner)), x))
          [] current = NoRoute -> Waits(owner)

SubmitCall(c) ==
    /\ Running
    /\ owner.call[c] = "Fresh"
    /\ \E key \in Keys, timeout \in Timeouts, fits \in BOOLEAN,
          refused \in SUBSET Keys :
            SubmitCoordinator(c, key, timeout, fits, refused)

\* CoordinatorOwner::invalidate for the token i of a failure stamped observed.
OwnerInvalidate(o, i, x) ==
    LET key    == o.held[i].key
        target == o.held[i].target
        e      == o.entry[key]
        t      == Invalidate(e.machine, target, o.held[i].observed,
                             ReserveOperation(o))
        told   ==
            CASE t.disposition = "IgnoredStale" -> [o EXCEPT !.token[i] = "Stale"]
              [] t.disposition # "IgnoredStale" ->
                    IF o.subscribers < InvalidationLimit
                    THEN Subscribe(o, key, target, i)
                    ELSE [o EXCEPT !.token[i] = "CapacityReached"]
    IN  IF e.invalidation # NoInvalidation /\ e.invalidation.target # target
        THEN [o EXCEPT !.token[i] = "Stale"]
        ELSE Interpret(told, key, t, x)

InvalidateToken(i) ==
    /\ Running
    /\ owner.token[i] = "Held"
    /\ \E refused \in SUBSET Keys :
         IF Present(seed) THEN Command(OwnerInvalidate(owner, i, Context(refused)))
         ELSE Command([owner EXCEPT !.token[i] = "Unavailable"])

\* Reactor::start_drain, as far as the owner is concerned (fail_waiters).
Shutdown ==
    /\ Running
    /\ owner' =
         [owner EXCEPT
            !.call = Complete(@, {owner.waiting[n].call : n \in 1..Len(owner.waiting)},
                              "Draining"),
            !.token = Complete(@, {i \in Tokens : owner.token[i] = "Pending"},
                               "Unavailable"),
            !.waiting = <<>>, !.scan = 0, !.subscribers = 0,
            !.entry = [k \in Keys |-> [owner.entry[k] EXCEPT
                                          !.invalidation = NoInvalidation]],
            !.state = "Draining"]
    /\ UNCHANGED <<seed, directory, clock, now, woken>>

-------------------------------------------------------------------------------
(* The host's turn: continue_coordinator.  After it the host sleeps until an *)
(* event, a deadline the owner reported, or at once if work is left.         *)

RetryDeadlines ==
    {owner.entry[k].machine.at :
        k \in {j \in Keys : owner.entry[j].machine.phase = "Retrying"}}

TurnDue ==
    \/ woken
    \/ owner.scan # 0
    \/ Due(owner, now) # {}
    \/ \E at \in RetryDeadlines : at <= now

Turned(driven) ==
    /\ owner' = IF driven.fault = "None" THEN DrainWaiters(driven, now) ELSE driven
    /\ Stamped(driven)

Turn(refused) ==
    /\ Running
    /\ TurnDue
    /\ Turned(IF Present(seed) THEN Drive(owner, Context(refused)) ELSE owner)
    /\ woken' = FALSE
    /\ UNCHANGED <<seed, directory, now>>

-------------------------------------------------------------------------------
(* What happens around the owner.                                            *)

Answers == Targets \cup {"Rejected", "Failed"}

\* The seed answers, or the call's own timeout fails it.
Answer(key, a) ==
    /\ Running
    /\ owner.entry[key].pending # NoPending /\ ~Answered(owner, key)
    /\ owner' = [owner EXCEPT !.entry[key].pending.answer = a]
    /\ woken' = TRUE
    /\ UNCHANGED <<seed, directory, clock, now>>

SeedChanges(s) ==
    /\ Running
    /\ s # seed
    /\ seed' = s
    /\ woken' = TRUE
    /\ UNCHANGED <<owner, directory, clock, now>>

DirectoryChanges(listed) ==
    /\ Running
    /\ listed # directory
    /\ directory' = listed
    /\ woken' = TRUE
    /\ UNCHANGED <<owner, seed, clock, now>>

\* The window that refused a discovery is full of calls; one of them ends.
WindowFrees ==
    /\ Running /\ ~woken
    /\ \E k \in Keys : owner.entry[k].pending.answer = "Refused"
    /\ woken' = TRUE
    /\ UNCHANGED <<owner, seed, directory, clock, now>>

\* The response of a call on a route is a failure, observed at the next stamp.
CallFails(i, s) ==
    /\ Running
    /\ owner.token[i] = "Free"
    /\ owner' = [owner EXCEPT
                    !.token[i] = "Held",
                    !.held[i] = [key |-> s.key, target |-> s.route.target,
                                 observed |-> clock]]
    /\ clock' = clock + 1
    /\ UNCHANGED <<seed, directory, now, woken>>

Tick ==
    /\ Running
    /\ now < MaxMoment
    /\ now' = now + 1
    /\ UNCHANGED <<owner, seed, directory, clock, woken>>

Init ==
    /\ owner = NewOwner
    /\ seed \in SeedStates
    /\ directory = Targets
    /\ clock = 1
    /\ now = 0
    /\ woken = FALSE

Next ==
    \/ \E c \in Calls : SubmitCall(c)
    \/ \E i \in Tokens : InvalidateToken(i)
    \/ Shutdown
    \/ \E refused \in SUBSET Keys : Turn(refused)
    \/ \E key \in Keys, a \in Answers : Answer(key, a)
    \/ \E s \in SeedStates : SeedChanges(s)
    \/ \E listed \in SUBSET Targets : DirectoryChanges(listed)
    \/ WindowFrees
    \/ \E i \in Tokens, s \in owner.served : CallFails(i, s)
    \/ Tick

Spec == Init /\ [][Next]_vars

\* A turn that is due changes something, except a due retry without a seed.
TurnWorks ==
    /\ Running
    /\ \/ woken \/ owner.scan # 0 \/ Due(owner, now) # {}
       \/ Present(seed) /\ \E at \in RetryDeadlines : at <= now

\* The host's thread takes every turn that is due (weak fairness of Turn, with
\* the states that enable it), time goes on, every call the seed accepted ends
\* (its request_timeout if nothing else), and so do the calls that fill its
\* window.
FairSpec ==
    /\ Spec
    /\ <>[]TurnWorks => []<><<\E refused \in SUBSET Keys : Turn(refused)>>_vars
    /\ \A key \in Keys : WF_vars(\E a \in Answers : Answer(key, a))
    /\ WF_vars(WindowFrees)
    /\ WF_vars(Tick)

-------------------------------------------------------------------------------
(* Properties.                                                               *)

\* CoordinatorOwnerError::UnexpectedEffect ends the whole host: no order of
\* demands, withdrawals, answers, retries and refusals reaches it.  A machine
\* discovers exactly while its entry holds the call that was sent for that
\* discovery (CoordinatorOwner::submit, observe): no answer is ever applied to a
\* machine that will ignore it, and no machine waits for a call nobody has.
OneDiscovery ==
    /\ owner.fault # "UnexpectedEffect"
    /\ owner.fault = "None" =>
         \A k \in Keys :
            LET m == owner.entry[k].machine
                p == owner.entry[k].pending
            IN  /\ m.phase = "Discovering" <=> p # NoPending
                /\ p # NoPending => p.op = m.op /\ p.epoch = m.epoch

\* CoordinatorWaiters::begin_scan: a waiting call the current scan has passed,
\* or that came after it, waits for a discovery that is requested or under way.
NoOrphanWaiter ==
    Running =>
        \A i \in (owner.scan + 1)..Len(owner.waiting) :
            DiscoveryPending(owner, owner.waiting[i].key)

Subscribed(k) == owner.entry[k].invalidation.subscribers

\* The counter that bounds subscribers counts the tokens still waiting
\* (release_invalidation_subscribers), each at the barrier of its own key, and a
\* barrier stands only while the machine has its target withdrawn
\* (settled_disposition).
BarrierStands ==
    /\ owner.subscribers = Cardinality({i \in Tokens : owner.token[i] = "Pending"})
    /\ owner.subscribers <= InvalidationLimit
    /\ \A i \in Tokens, k \in Keys :
         i \in Subscribed(k) <=> owner.token[i] = "Pending" /\ owner.held[i].key = k
    /\ owner.fault = "None" =>
         \A k \in Keys :
             owner.entry[k].invalidation # NoInvalidation =>
                 RevocationPending(owner.entry[k].machine, owner.entry[k].invalidation)

\* A barrier is lifted with the withdrawal it waits for, neither earlier nor
\* later, and gives back its subscribers; and InvalidationDisposition::Applied is
\* told only after a discovery begun after the failure was observed supplied the
\* route that is now current.
BarrierSound ==
    /\ []BarrierStands
    /\ [][\A i \in Tokens :
            owner.token[i] = "Pending" /\ owner'.token[i] = "Applied" =>
                LET route == owner'.entry[owner.held[i].key].machine.current
                IN  route # NoRoute /\ route.evidence > owner.held[i].observed]_vars

\* Every subscriber of an invalidation receives its terminal outcome.
InvalidationSettles ==
    \A i \in Tokens : owner.token[i] = "Pending" ~> owner.token[i] # "Pending"
===============================================================================
