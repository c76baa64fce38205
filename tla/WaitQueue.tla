------------------------------- MODULE WaitQueue -------------------------------
(***************************************************************************)
(* The queue in which calls wait, with its two indices: the entries in     *)
(* admission order and the keys that order them by deadline.               *)
(*                                                                         *)
(* A queue is a record of the entries, the deadline keys, the next         *)
(* sequence number and the scan cursor (-1 when there is none).  The key   *)
(* of an entry that is popped or scanned out is removed inside a debug     *)
(* assertion, so a build without them leaves it behind.                    *)
(***************************************************************************)
EXTENDS Integers, FiniteSets

CONSTANTS Calls,            \* the values that wait
          Capacity,         \* entries the queue holds at most
          MaxSequence,      \* the greatest sequence number (u64::MAX)
          DebugAssertions   \* whether the build evaluates debug_assert_eq!

ASSUME QueueBounds ==
    /\ Capacity \in Nat \ {0}
    /\ MaxSequence \in Nat /\ Capacity < MaxSequence
    /\ DebugAssertions \in BOOLEAN

EntrySet == [sequence : Nat, value : Calls, deadline : Nat]

KeySet == [deadline : Nat, sequence : Nat]

QueueSet ==
    [entries : SUBSET EntrySet, deadlines : SUBSET KeySet,
     next : Nat, cursor : Nat \cup {-1}]

NewQueue == [entries |-> {}, deadlines |-> {}, next |-> 0, cursor |-> -1]

\* The values in the queue, and which of them is in front of which.
Values(q) == {e.value : e \in q.entries}

Order(q) ==
    {p \in Calls \X Calls :
        \E e, f \in q.entries :
            e.value = p[1] /\ f.value = p[2] /\ e.sequence < f.sequence}

Key(e) == [deadline |-> e.deadline, sequence |-> e.sequence]

\* The entry with the least sequence number among s.
FirstOf(s) == CHOOSE e \in s : \A f \in s : e.sequence <= f.sequence

\* The order of keys: by deadline, then by sequence.
KeyBefore(k, l) ==
    \/ k.deadline < l.deadline
    \/ k.deadline = l.deadline /\ k.sequence <= l.sequence

FirstKey(s) == CHOOSE k \in s : \A l \in s : KeyBefore(k, l)

\* The removal runs only where debug assertions do.
RemoveDeadline(keys, e) ==
    IF DebugAssertions THEN keys \ {Key(e)} ELSE keys

Remove(q, e) ==
    [q EXCEPT !.entries = @ \ {e}, !.deadlines = RemoveDeadline(@, e)]

Rank(entries, e) ==
    Cardinality({f \in entries : f.sequence < e.sequence})

Renumbered(entries) ==
    {[e EXCEPT !.sequence = Rank(entries, e)] : e \in entries}

\* Variant: the scan cursor survives the renumbering.
ResequenceKeepingCursor(q) ==
    LET entries == Renumbered(q.entries)
    IN  [q EXCEPT !.entries = entries, !.deadlines = {Key(e) : e \in entries},
                  !.next = Cardinality(q.entries)]

\* Variant: the deadline keys keep the old numbers.
ResequenceKeepingKeys(q) ==
    [q EXCEPT !.entries = Renumbered(@), !.next = Cardinality(q.entries),
              !.cursor = -1]

\* Entries and keys are numbered from zero again, in the same order.
Resequence(q) ==
    LET entries == Renumbered(q.entries)
    IN  [entries |-> entries, deadlines |-> {Key(e) : e \in entries},
         next |-> Cardinality(q.entries), cursor |-> -1]

\* Variant: the counter wraps around and the entries keep their numbers.
ReservedWrapping(q) ==
    IF q.next = MaxSequence THEN [q EXCEPT !.next = 0] ELSE q

\* The queue whose next sequence number can be handed out.
Reserved(q) == IF q.next = MaxSequence THEN Resequence(q) ELSE q

Appended(q, value, deadline) ==
    LET e == [sequence |-> q.next, value |-> value, deadline |-> deadline]
    IN  [q EXCEPT !.entries = @ \cup {e}, !.deadlines = @ \cup {Key(e)},
                  !.next = @ + 1]

IsFull(q) == Cardinality(q.entries) = Capacity

InsertBack(q, value, deadline) == Appended(Reserved(q), value, deadline)

\* The entry a scan examines: the first behind the cursor, or the first.
Scanned(q) ==
    LET behind == {e \in q.entries : e.sequence > q.cursor}
    IN  FirstOf(IF behind # {} THEN behind ELSE q.entries)

\* The entry is examined, and taken out when it matches.
ScanOne(q, e, matches) ==
    LET examined == [q EXCEPT !.cursor = e.sequence]
    IN  IF matches THEN Remove(examined, e) ELSE examined

HasDue(q, now) ==
    q.deadlines # {} /\ FirstKey(q.deadlines).deadline <= now

\* The entries of the first key: none when the key was left behind.
DueEntries(q) ==
    {e \in q.entries : e.sequence = FirstKey(q.deadlines).sequence}

TakeDue(q) ==
    [q EXCEPT !.deadlines = @ \ {FirstKey(@)}, !.entries = @ \ DueEntries(q)]

===============================================================================
