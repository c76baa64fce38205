----------------------------- MODULE RouteWaiting -----------------------------
(***************************************************************************)
(* The calls that wait for one route: a WaitQueue with a byte budget and a *)
(* count of the calls that opted out of waiting through a failure, driven  *)
(* by the operations the cluster runtime performs on it in any order.      *)
(***************************************************************************)
EXTENDS WaitQueue

CONSTANTS Rejecting,   \* the calls that reject after a route failure
          Bytes,       \* the bytes each call retains
          ByteLimit,
          Timeouts,    \* how far from now the deadline of a call lies
          MaxMoment

ASSUME WaitingBounds ==
    /\ Rejecting \subseteq Calls
    /\ Bytes \in [Calls -> Nat]
    /\ ByteLimit \in Nat \ {0}
    /\ Timeouts \subseteq Nat
    /\ MaxMoment \in Nat

VARIABLES queue,
          retained_bytes,
          rejecting_calls,
          outcome,         \* what each call was told, "None" before
          now

vars == <<queue, retained_bytes, rejecting_calls, outcome, now>>

Init ==
    /\ queue = NewQueue
    /\ retained_bytes = 0
    /\ rejecting_calls = 0
    /\ outcome = [c \in Calls |-> "None"]
    /\ now = 0

waiting == Values(queue)

Counts(c) == IF c \in Rejecting THEN 1 ELSE 0

Refuse(c) ==
    /\ outcome' = [outcome EXCEPT ![c] = "Refused"]
    /\ UNCHANGED <<queue, retained_bytes, rejecting_calls, now>>

\* A call enters unless it is late or exceeds the count or the byte limit.
Admit(c, timeout) ==
    /\ c \notin waiting /\ outcome[c] = "None"
    /\ IF timeout = 0 \/ IsFull(queue) \/ retained_bytes + Bytes[c] > ByteLimit
       THEN Refuse(c)
       ELSE /\ queue' = InsertBack(queue, c, now + timeout)
            /\ retained_bytes' = retained_bytes + Bytes[c]
            /\ rejecting_calls' = rejecting_calls + Counts(c)
            /\ UNCHANGED <<outcome, now>>

\* Variant: the count of opted-out calls is not given back.
ReleaseUncounted(c, how) ==
    /\ retained_bytes' = retained_bytes - Bytes[c]
    /\ UNCHANGED <<now, rejecting_calls>>
    /\ outcome' = [outcome EXCEPT ![c] = how]

\* The call leaves the budget and is told its outcome.
Release(c, how) ==
    /\ retained_bytes' = retained_bytes - Bytes[c]
    /\ rejecting_calls' = rejecting_calls - Counts(c)
    /\ outcome' = [outcome EXCEPT ![c] = how]
    /\ UNCHANGED now

Late(e, how) == IF e.deadline <= now THEN "Expired" ELSE how

\* The first call is handed to the lane, or expires on the way.
Pop ==
    /\ queue.entries # {}
    /\ LET e == FirstOf(queue.entries)
       IN  /\ queue' = Remove(queue, e)
           /\ Release(e.value, Late(e, "Admitted"))

\* One due key is taken; the call it belongs to, if any still does, expires.
ExpireDue ==
    /\ HasDue(queue, now)
    /\ queue' = TakeDue(queue)
    /\ \/ /\ DueEntries(queue) = {}
          /\ UNCHANGED <<retained_bytes, rejecting_calls, outcome, now>>
       \/ \E e \in DueEntries(queue) : Release(e.value, "Expired")

\* A lane that is closed for good fails one waiting call a turn.
FailOne ==
    /\ queue.entries # {}
    /\ LET e == FirstOf(queue.entries)
       IN  queue' = Remove(queue, e) /\ Release(e.value, "Failed")

\* Every entry is popped in turn.
Drained(q) ==
    [q EXCEPT !.entries = {},
              !.deadlines = IF DebugAssertions
                            THEN @ \ {Key(e) : e \in q.entries} ELSE @]

\* The bytes that calls retain together, counted one by one.
BytesOf(calls) == Cardinality(UNION {{c} \X (1..Bytes[c]) : c \in calls})

\* The route is gone, its name does not resolve, or the host failed.
FailAll ==
    /\ queue.entries # {}
    /\ queue' = Drained(queue)
    /\ retained_bytes' = retained_bytes - BytesOf(waiting)
    /\ rejecting_calls' = rejecting_calls - Cardinality(waiting \cap Rejecting)
    /\ outcome' = [c \in Calls |-> IF c \in waiting THEN "Failed" ELSE outcome[c]]
    /\ UNCHANGED now

\* One call is examined after a route failure, and leaves if it opted out.
RejectFailedRouteOne ==
    /\ rejecting_calls # 0 /\ queue.entries # {}
    /\ LET e == Scanned(queue)
       IN  /\ queue' = ScanOne(queue, e, e.value \in Rejecting)
           /\ IF e.value \in Rejecting
              THEN Release(e.value, Late(e, "Rejected"))
              ELSE UNCHANGED <<retained_bytes, rejecting_calls, outcome, now>>

Tick ==
    /\ now < MaxMoment
    /\ now' = now + 1
    /\ UNCHANGED <<queue, retained_bytes, rejecting_calls, outcome>>

Next ==
    \/ \E c \in Calls, timeout \in Timeouts : Admit(c, timeout)
    \/ Pop \/ ExpireDue \/ FailOne \/ FailAll \/ RejectFailedRouteOne \/ Tick

Spec == Init /\ [][Next]_vars

-------------------------------------------------------------------------------

(* The promise of the room. *)

\* Who entered before whom.
before == Order(queue)

Room == INSTANCE WaitingRoom
            WITH Calls <- Calls, Rejecting <- Rejecting,
                 waiting <- waiting, before <- before, outcome <- outcome

\* The two-index queue keeps the promise of the waiting room: calls leave
\* once, with one outcome, are admitted in the order they entered across pops,
\* expiries, rejections and the renumbering of the queue, and only calls that
\* opted out are rejected.
KeepsRoom == Room!Spec

-------------------------------------------------------------------------------
(* The indices and the ledgers. *)

\* Bytes and opted-out calls are counted apart from the entries they belong
\* to; the counts are those of the entries, within the limits.  A count too
\* high would refuse calls for ever, one too low would leave opted-out calls
\* waiting through a failure.
Ledger ==
    /\ retained_bytes = BytesOf(waiting) /\ retained_bytes <= ByteLimit
    /\ rejecting_calls = Cardinality(waiting \cap Rejecting)
    /\ Cardinality(waiting) = Cardinality(queue.entries)
    /\ Cardinality(queue.entries) <= Capacity

\* Every waiting call has its own key in the deadline index, so the host never
\* sleeps past a deadline, although a build without debug assertions leaves
\* the keys of departed calls behind (wait_queue.rs:128).
DeadlinesCovered ==
    /\ \A e \in queue.entries : Key(e) \in queue.deadlines
    /\ \A k \in queue.deadlines :
          \A e \in queue.entries : e.sequence = k.sequence => Key(e) = k

\* A scan never passes a call it should reject: the opted-out calls lie ahead
\* of the cursor, so each scan comes closer to all of them although calls
\* enter, leave and are renumbered meanwhile.
RejectionAhead ==
    \A e \in queue.entries :
        e.value \in Rejecting => e.sequence > queue.cursor

===============================================================================
