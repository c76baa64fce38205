----------------------------- MODULE WaitingProofs -----------------------------
(***************************************************************************)
(* The queue with two indices keeps the promise of the waiting room, for   *)
(* every set of calls, every capacity and either build.                    *)
(*                                                                         *)
(* Each operation on the queue has a lemma that says what it does to the   *)
(* values and to their order, and that it keeps the queue well formed; the *)
(* step of the room follows from the lemma of the operation.               *)
(***************************************************************************)
EXTENDS RouteWaiting, FiniteSetTheorems, WellFoundedInduction, TLAPS

\* Sequence numbers and values identify the entries.
WellFormed(q) ==
    /\ q \in QueueSet
    /\ IsFiniteSet(q.entries) /\ Cardinality(q.entries) <= Capacity
    /\ q.next <= MaxSequence /\ q.cursor < q.next
    /\ \A e \in q.entries : e.sequence < q.next
    /\ \A e, f \in q.entries : e.sequence = f.sequence => e = f
    /\ \A e, f \in q.entries : e.value = f.value => e = f

\* Every entry has its key, and no key is taken for another entry's.
Indexed(q) ==
    /\ \A e \in q.entries : Key(e) \in q.deadlines
    /\ \A k \in q.deadlines : k.sequence < q.next
    /\ \A k \in q.deadlines :
          \A e \in q.entries : e.sequence = k.sequence => Key(e) = k

Ahead(q) ==
    \A e \in q.entries : e.value \in Rejecting => e.sequence > q.cursor

Sound(q) == WellFormed(q) /\ Indexed(q) /\ Ahead(q)

Outcomes == {"None", "Refused", "Admitted", "Expired", "Failed", "Rejected"}

\* The inductive invariant: besides the queue, a waiting call has no outcome.
WaitingInv ==
    /\ Sound(queue)
    /\ outcome \in [Calls -> Outcomes]
    /\ \A c \in Values(queue) : outcome[c] = "None"
    /\ now \in Nat

-------------------------------------------------------------------------------
(* The operations on a queue.                                                *)

LEMMA LeastNatural ==
    ASSUME NEW T \in SUBSET Nat, T # {}
    PROVE  \E x \in T : \A y \in T : x <= y
<1> DEFINE Less == {p \in Nat \X Nat : p[1] < p[2]}
<1>1. IsWellFoundedOn(Less, Nat)
  BY NatLessThanWellFounded, Zenon DEF OpToRel
<1> HIDE DEF Less
<1>2. PICK x \in T : \A y \in T : ~ (<<y, x>> \in Less)
  BY <1>1, WFMin
<1>3. \A y \in T : ~ (y < x)
  BY <1>2 DEF Less
<1> QED BY <1>3

\* The first of some entries is one of them, and no other is in front of it.
LEMMA FirstOfFacts ==
    ASSUME NEW S \in SUBSET EntrySet, S # {}
    PROVE  /\ FirstOf(S) \in S
           /\ \A f \in S : FirstOf(S).sequence <= f.sequence
<1> DEFINE T == {e.sequence : e \in S}
<1>1. T \in SUBSET Nat /\ T # {}
  BY DEF EntrySet
<1>2. PICK x \in T : \A y \in T : x <= y
  BY <1>1, LeastNatural
<1>3. PICK e \in S : e.sequence = x
  OBVIOUS
<1>4. \A f \in S : e.sequence <= f.sequence
  BY <1>2, <1>3
<1> QED BY <1>4 DEF FirstOf

\* Renumbering keeps the values and their order, and makes room for a number.
LEMMA ResequenceFacts ==
    ASSUME NEW q, WellFormed(q)
    PROVE  LET r == Resequence(q)
           IN  /\ Sound(r) /\ r.next < MaxSequence
               /\ Values(r) = Values(q) /\ Order(r) = Order(q)
               /\ Cardinality(r.entries) <= Cardinality(q.entries)
<1> DEFINE E == q.entries
           r == Resequence(q)
           f == [e \in E |-> [e EXCEPT !.sequence = Rank(E, e)]]
<1>1. /\ IsFiniteSet(E) /\ E \subseteq EntrySet
      /\ Cardinality(E) \in Nat /\ Cardinality(E) < MaxSequence
      /\ \A e, g \in E : e.sequence = g.sequence => e = g
      /\ \A e, g \in E : e.value = g.value => e = g
  BY FS_CardinalityType, QueueBounds DEF WellFormed, QueueSet
<1>2. ASSUME NEW e \in E
      PROVE  Rank(E, e) \in Nat /\ Rank(E, e) < Cardinality(E)
  <2> DEFINE B == {g \in E : g.sequence < e.sequence}
  <2>1. B \in SUBSET E /\ e \notin B
    BY <1>1 DEF EntrySet
  <2>2. /\ IsFiniteSet(B) /\ Cardinality(B) <= Cardinality(E)
        /\ (Cardinality(E) = Cardinality(B) => E = B)
    BY <1>1, <2>1, FS_Subset
  <2>3. Cardinality(B) \in Nat
    BY <2>2, FS_CardinalityType
  <2> QED BY <1>1, <2>1, <2>2, <2>3 DEF Rank
<1>3. ASSUME NEW e \in E, NEW g \in E, e.sequence < g.sequence
      PROVE  Rank(E, e) < Rank(E, g)
  <2> DEFINE B == {h \in E : h.sequence < e.sequence}
             C == {h \in E : h.sequence < g.sequence}
  <2>1. B \in SUBSET C /\ e \in C /\ e \notin B /\ C \in SUBSET E
    BY <1>1, <1>3 DEF EntrySet
  <2>2. IsFiniteSet(C)
    BY <1>1, <2>1, FS_Subset
  <2>3. /\ IsFiniteSet(B) /\ Cardinality(B) <= Cardinality(C)
        /\ (Cardinality(C) = Cardinality(B) => C = B)
    BY <2>1, <2>2, FS_Subset
  <2>4. Cardinality(B) \in Nat /\ Cardinality(C) \in Nat
    BY <2>2, <2>3, FS_CardinalityType
  <2> QED BY <2>1, <2>3, <2>4 DEF Rank
<1> HIDE DEF E
<1>4. ASSUME NEW e \in E
      PROVE  /\ f[e] \in EntrySet
             /\ f[e].sequence = Rank(E, e) /\ f[e].value = e.value
  BY <1>1, <1>2 DEF EntrySet
<1>5. Renumbered(E) = {f[e] : e \in E}
  BY DEF Renumbered
<1> HIDE DEF f
<1>6. \A e, g \in E : f[e].sequence < f[g].sequence <=> e.sequence < g.sequence
  <2> SUFFICES ASSUME NEW e \in E, NEW g \in E
               PROVE  f[e].sequence < f[g].sequence <=> e.sequence < g.sequence
    OBVIOUS
  <2>1. e.sequence \in Nat /\ g.sequence \in Nat
    BY <1>1 DEF EntrySet
  <2>2. CASE e.sequence < g.sequence
    BY <1>3, <1>4, <2>2
  <2>3. CASE g.sequence < e.sequence
    BY <1>2, <1>3, <1>4, <2>1, <2>3
  <2>4. CASE e.sequence = g.sequence
    <3>1. e = g /\ f[e].sequence = Rank(E, e) /\ Rank(E, e) \in Nat
      BY <1>1, <1>2, <1>4, <2>4
    <3> QED BY <2>1, <3>1
  <2> QED BY <2>1, <2>2, <2>3, <2>4
<1>7. /\ r.entries = {f[e] : e \in E} /\ r.cursor = -1
      /\ r.next = Cardinality(E) /\ r.deadlines = {Key(e) : e \in r.entries}
  BY <1>5 DEF Resequence, E
<1> HIDE DEF r
<1>8. IsFiniteSet(r.entries) /\ Cardinality(r.entries) <= Cardinality(E)
  <2>1. [e \in E |-> f[e]] \in Surjection(E, r.entries)
    BY <1>7 DEF Surjection
  <2> QED BY <1>1, <2>1, FS_Surjection
<1>9. r \in QueueSet
  <2>1. r.entries \subseteq EntrySet
    BY <1>4, <1>7
  <2>2. r.deadlines \subseteq KeySet
    BY <1>7, <2>1 DEF Key, KeySet, EntrySet
  <2>3. r = [entries |-> r.entries, deadlines |-> r.deadlines,
             next |-> r.next, cursor |-> r.cursor]
    BY DEF r, Resequence
  <2>4. r.next \in Nat /\ r.cursor \in Nat \cup {-1}
    BY <1>1, <1>7
  <2> QED BY <2>1, <2>2, <2>3, <2>4 DEF QueueSet
<1>10. WellFormed(r)
  <2>1. \A e \in r.entries : e.sequence < r.next
    BY <1>2, <1>4, <1>7
  <2>2. \A e, g \in E : f[e].sequence = f[g].sequence => e = g
    BY <1>1, <1>2, <1>4, <1>6 DEF EntrySet
  <2>3. \A e, g \in r.entries : e.sequence = g.sequence => e = g
    BY <1>7, <2>2
  <2>4. \A e, g \in r.entries : e.value = g.value => e = g
    BY <1>1, <1>4, <1>7
  <2>5. Cardinality(r.entries) \in Nat
    BY <1>8, FS_CardinalityType
  <2>6. Cardinality(E) <= Capacity
    BY DEF WellFormed, E
  <2> QED
    BY <1>1, <1>7, <1>8, <1>9, <2>1, <2>3, <2>4, <2>5, <2>6, QueueBounds
    DEF WellFormed
<1>11. Indexed(r)
  BY <1>7, <1>10 DEF Indexed, WellFormed, Key
<1>12. Ahead(r)
  BY <1>7, <1>9 DEF Ahead, QueueSet, EntrySet
<1>13. Values(r) = Values(q)
  BY <1>4, <1>7 DEF Values, E
<1>14. Order(r) = Order(q)
  <2>1. ASSUME NEW p \in Calls \X Calls
        PROVE  (\E e, g \in r.entries :
                   e.value = p[1] /\ g.value = p[2] /\ e.sequence < g.sequence)
               <=> (\E e, g \in E :
                   e.value = p[1] /\ g.value = p[2] /\ e.sequence < g.sequence)
    BY <1>4, <1>6, <1>7
  <2> QED BY <2>1 DEF Order, E
<1> QED
  BY <1>1, <1>7, <1>8, <1>10, <1>11, <1>12, <1>13, <1>14 DEF Sound, r, E

\* A call that enters is behind all others.
LEMMA AppendFacts ==
    ASSUME NEW q, Sound(q), q.next < MaxSequence,
           Cardinality(q.entries) < Capacity,
           NEW c \in Calls, c \notin Values(q), NEW d \in Nat
    PROVE  LET r == Appended(q, c, d)
           IN  /\ Sound(r)
               /\ Values(r) = Values(q) \cup {c}
               /\ Order(r) = Order(q) \cup (Values(q) \X {c})
<1> DEFINE n == [sequence |-> q.next, value |-> c, deadline |-> d]
           r == Appended(q, c, d)
<1>1. /\ r \in QueueSet /\ r.entries = q.entries \cup {n}
      /\ r.deadlines = q.deadlines \cup {Key(n)}
      /\ r.next = q.next + 1 /\ r.cursor = q.cursor
      /\ q.next \in Nat /\ q.cursor \in Nat \cup {-1} /\ n \in EntrySet
      /\ q.entries \subseteq EntrySet /\ q.deadlines \subseteq KeySet
  <2>1. /\ q.next \in Nat /\ q.cursor \in Nat \cup {-1}
        /\ q.entries \subseteq EntrySet /\ q.deadlines \subseteq KeySet
    BY DEF Sound, WellFormed, QueueSet
  <2>2. n \in EntrySet /\ Key(n) \in KeySet
    BY <2>1 DEF EntrySet, KeySet, Key
  <2>3. r = [q EXCEPT !.entries = @ \cup {n}, !.deadlines = @ \cup {Key(n)},
                      !.next = @ + 1]
    BY DEF Appended
  <2>4. q \in QueueSet
    BY DEF Sound, WellFormed
  <2> HIDE DEF n, r
  <2>5. /\ r.entries = q.entries \cup {n} /\ r.deadlines = q.deadlines \cup {Key(n)}
        /\ r.next = q.next + 1 /\ r.cursor = q.cursor
    BY <2>3, <2>4 DEF QueueSet
  <2>6. r = [entries |-> r.entries, deadlines |-> r.deadlines,
             next |-> r.next, cursor |-> r.cursor]
    BY <2>3, <2>4 DEF QueueSet
  <2>7. /\ r.entries \subseteq EntrySet /\ r.deadlines \subseteq KeySet
        /\ r.next \in Nat /\ r.cursor \in Nat \cup {-1}
    BY <2>1, <2>2, <2>5
  <2>8. r \in QueueSet
    BY <2>6, <2>7 DEF QueueSet
  <2> QED BY <2>1, <2>2, <2>5, <2>8
<1>2. n.sequence = q.next /\ n.value = c /\ n \notin q.entries
  BY DEF Sound, WellFormed, Values
<1> HIDE DEF n, r
<1>3. IsFiniteSet(r.entries) /\ Cardinality(r.entries) <= Capacity
  <2>1. IsFiniteSet(q.entries) /\ Cardinality(q.entries) \in Nat
    BY FS_CardinalityType DEF Sound, WellFormed
  <2>2. /\ IsFiniteSet(q.entries \cup {n})
        /\ Cardinality(q.entries \cup {n}) = Cardinality(q.entries) + 1
    BY <1>2, <2>1, FS_AddElement
  <2> QED BY <1>1, <2>1, <2>2, QueueBounds
<1>4. \A e \in q.entries : e.sequence < q.next /\ e.sequence \in Nat /\ e.value # c
  BY <1>1 DEF Sound, WellFormed, Values, EntrySet
<1>5. WellFormed(r)
  BY <1>1, <1>2, <1>3, <1>4, QueueBounds DEF Sound, WellFormed
<1>6. Indexed(r)
  <2>1. Key(n).sequence = q.next
    BY <1>2 DEF Key
  <2>2. \A k \in q.deadlines : k.sequence < q.next /\ k.sequence \in Nat
    BY <1>1 DEF Sound, Indexed, KeySet
  <2> QED BY <1>1, <1>2, <1>4, <2>1, <2>2 DEF Sound, Indexed
<1>7. Ahead(r)
  BY <1>1, <1>2 DEF Sound, WellFormed, Ahead
<1>8. Values(r) = Values(q) \cup {c}
  BY <1>1, <1>2 DEF Values
<1>9. \A p \in Calls \X Calls :
          p \in Order(r) <=> p \in Order(q) \cup (Values(q) \X {c})
  <2> SUFFICES ASSUME NEW a \in Calls, NEW b \in Calls
               PROVE  <<a, b>> \in Order(r)
                      <=> <<a, b>> \in Order(q) \cup (Values(q) \X {c})
    OBVIOUS
  <2>1. CASE b = c
    BY <1>1, <1>2, <1>4, <2>1 DEF Order, Values
  <2>2. CASE b # c
    BY <1>1, <1>2, <1>4, <2>2 DEF Order, Values
  <2> QED BY <2>1, <2>2
<1>10. Values(q) \subseteq Calls
  BY <1>1 DEF Values, EntrySet
<1>11. Order(r) = Order(q) \cup (Values(q) \X {c})
  BY <1>9, <1>10 DEF Order
<1> QED BY <1>5, <1>6, <1>7, <1>8, <1>11 DEF Sound, r

\* What taking one entry out does, whatever happens to its key.
LEMMA TakenFacts ==
    ASSUME NEW q, Sound(q), NEW e \in q.entries, NEW r \in QueueSet,
           r.entries = q.entries \ {e}, r.next = q.next, r.cursor < r.next
    PROVE  /\ WellFormed(r)
           /\ e.value \in Values(q)
           /\ Values(r) = Values(q) \ {e.value}
           /\ Order(r) = {p \in Order(q) : p[1] # e.value /\ p[2] # e.value}
<1>1. IsFiniteSet(r.entries) /\ Cardinality(r.entries) <= Capacity
  BY FS_RemoveElement, FS_CardinalityType, QueueBounds DEF Sound, WellFormed
<1>2. \A f, g \in q.entries : f.value = g.value => f = g
  BY DEF Sound, WellFormed
<1>3. WellFormed(r)
  BY <1>1 DEF Sound, WellFormed
<1>4. Values(r) = Values(q) \ {e.value} /\ e.value \in Values(q)
  BY <1>2 DEF Values
<1>5. \A p \in Calls \X Calls :
          p \in Order(r) <=> p \in Order(q) /\ p[1] # e.value /\ p[2] # e.value
  BY <1>2 DEF Order
<1> QED BY <1>3, <1>4, <1>5 DEF Order

LEMMA RemoveFacts ==
    ASSUME NEW q, Sound(q), NEW e \in q.entries
    PROVE  LET r == Remove(q, e)
           IN  /\ Sound(r)
               /\ Values(r) = Values(q) \ {e.value}
               /\ Order(r) = {p \in Order(q) : p[1] # e.value /\ p[2] # e.value}
<1> DEFINE r == Remove(q, e)
<1>1. /\ r \in QueueSet /\ r.entries = q.entries \ {e}
      /\ r.next = q.next /\ r.cursor = q.cursor /\ r.cursor < r.next
      /\ r.deadlines \in {q.deadlines, q.deadlines \ {Key(e)}}
  BY DEF Remove, RemoveDeadline, Sound, WellFormed, QueueSet
<1> HIDE DEF r
<1>2. \A f \in r.entries : Key(f) # Key(e)
  BY <1>1 DEF Sound, WellFormed, Key
<1>3. Indexed(r) /\ Ahead(r)
  BY <1>1, <1>2 DEF Sound, Indexed, Ahead
<1> QED BY <1>1, <1>3, TakenFacts DEF Sound, r

\* A due key is taken together with the entry it belongs to, if one does.
LEMMA TakeDueFacts ==
    ASSUME NEW q, Sound(q)
    PROVE  LET r == TakeDue(q)
           IN  /\ Sound(r)
               /\ \A e \in DueEntries(q) :
                     /\ Values(r) = Values(q) \ {e.value}
                     /\ Order(r) = {p \in Order(q) :
                                       p[1] # e.value /\ p[2] # e.value}
               /\ DueEntries(q) = {} =>
                     Values(r) = Values(q) /\ Order(r) = Order(q)
<1> DEFINE r == TakeDue(q)
           k == FirstKey(q.deadlines)
<1>1. /\ r \in QueueSet /\ r.entries = q.entries \ DueEntries(q)
      /\ r.next = q.next /\ r.cursor = q.cursor /\ r.cursor < r.next
      /\ r.deadlines = q.deadlines \ {k}
  BY DEF TakeDue, Sound, WellFormed, QueueSet
<1> HIDE DEF r
<1>2. \A e \in r.entries : e \in q.entries /\ Key(e) # k
  BY <1>1 DEF DueEntries, Key
<1>3. Indexed(r) /\ Ahead(r)
  BY <1>1, <1>2 DEF Sound, Indexed, Ahead
<1>4. CASE DueEntries(q) = {}
  <2>1. r.entries = q.entries
    BY <1>1, <1>4
  <2> QED BY <1>1, <1>3, <1>4, <2>1 DEF Sound, WellFormed, Values, Order, r
<1>5. ASSUME NEW e \in DueEntries(q)
      PROVE  /\ Sound(r)
             /\ Values(r) = Values(q) \ {e.value}
             /\ Order(r) = {p \in Order(q) : p[1] # e.value /\ p[2] # e.value}
  <2>1. DueEntries(q) = {e} /\ e \in q.entries
    BY <1>5 DEF DueEntries, Sound, WellFormed
  <2> QED BY <1>1, <1>3, <2>1, TakenFacts DEF Sound
<1> QED BY <1>4, <1>5 DEF r

\* The scan examines the next entry; the calls to be rejected stay ahead.
LEMMA ScannedFacts ==
    ASSUME NEW q, Sound(q), q.entries # {}
    PROVE  LET e == Scanned(q)
               s == ScanOne(q, e, e.value \in Rejecting)
           IN  /\ e \in q.entries /\ Sound(s)
               /\ e.value \in Rejecting =>
                     /\ Values(s) = Values(q) \ {e.value}
                     /\ Order(s) = {p \in Order(q) :
                                       p[1] # e.value /\ p[2] # e.value}
               /\ e.value \notin Rejecting =>
                     Values(s) = Values(q) /\ Order(s) = Order(q)
<1> DEFINE B == {f \in q.entries : f.sequence > q.cursor}
           e == Scanned(q)
           x == [q EXCEPT !.cursor = e.sequence]
<1>1. q.entries \subseteq EntrySet /\ q \in QueueSet
  BY DEF Sound, WellFormed, QueueSet
<1>2. /\ e \in q.entries
      /\ \A f \in B : f # e => f.sequence > e.sequence
  <2>1. CASE B # {}
    <3>1. e = FirstOf(B) /\ B \in SUBSET EntrySet
      BY <1>1, <2>1 DEF Scanned
    <3>2. e \in B /\ \A f \in B : e.sequence <= f.sequence
      BY <2>1, <3>1, FirstOfFacts
    <3> QED BY <1>1, <3>2 DEF Sound, WellFormed, EntrySet
  <2>2. CASE B = {}
    <3>1. e = FirstOf(q.entries)
      BY <2>2 DEF Scanned
    <3> QED BY <1>1, <2>2, <3>1, FirstOfFacts
  <2> QED BY <2>1, <2>2
<1>3. \A f \in q.entries : f.value \in Rejecting => f \in B
  BY DEF Sound, Ahead
<1> HIDE DEF e, B
<1>4. /\ x \in QueueSet /\ x.entries = q.entries /\ x.deadlines = q.deadlines
      /\ x.next = q.next /\ x.cursor = e.sequence
  BY <1>1, <1>2 DEF QueueSet, EntrySet
<1>5. x.cursor < x.next
  BY <1>2, <1>4 DEF Sound, WellFormed
<1> HIDE DEF x
<1>6. CASE e.value \notin Rejecting
  <2>1. Ahead(x)
    BY <1>2, <1>3, <1>4, <1>6 DEF Ahead
  <2>2. Indexed(x) /\ WellFormed(x)
    BY <1>4, <1>5 DEF Sound, WellFormed, Indexed
  <2>3. Values(x) = Values(q) /\ Order(x) = Order(q)
    BY <1>4 DEF Values, Order
  <2> QED BY <1>2, <1>6, <2>1, <2>2, <2>3 DEF ScanOne, Sound, x, e
<1>7. CASE e.value \in Rejecting
  <2> DEFINE s == Remove(x, e)
  <2>1. /\ s \in QueueSet /\ s.entries = q.entries \ {e}
        /\ s.next = q.next /\ s.cursor = e.sequence /\ s.cursor < s.next
        /\ s.deadlines \in {q.deadlines, q.deadlines \ {Key(e)}}
    BY <1>4, <1>5 DEF Remove, RemoveDeadline, QueueSet
  <2> HIDE DEF s
  <2>2. \A f \in s.entries : Key(f) # Key(e)
    BY <1>2, <2>1 DEF Sound, WellFormed, Key
  <2>3. Indexed(s)
    BY <2>1, <2>2 DEF Sound, Indexed
  <2>4. Ahead(s)
    BY <1>2, <1>3, <2>1 DEF Ahead
  <2>5. /\ WellFormed(s) /\ Values(s) = Values(q) \ {e.value}
        /\ Order(s) = {p \in Order(q) : p[1] # e.value /\ p[2] # e.value}
    BY <1>2, <2>1, TakenFacts
  <2> QED BY <1>2, <1>7, <2>3, <2>4, <2>5 DEF ScanOne, Sound, s, x, e
<1> QED BY <1>6, <1>7

\* Taking every entry out leaves an empty queue.
LEMMA DrainedFacts ==
    ASSUME NEW q, Sound(q)
    PROVE  LET r == Drained(q)
           IN  Sound(r) /\ Values(r) = {} /\ Order(r) = {}
<1> DEFINE r == Drained(q)
<1>1. /\ r \in QueueSet /\ r.entries = {} /\ r.next = q.next
      /\ r.cursor = q.cursor /\ r.deadlines \subseteq q.deadlines
  BY DEF Drained, Sound, WellFormed, QueueSet
<1> HIDE DEF r
<1>2. WellFormed(r)
  BY <1>1, FS_EmptySet, QueueBounds DEF Sound, WellFormed
<1> QED BY <1>1, <1>2 DEF Sound, Indexed, Ahead, Values, Order, r

\* The queue a call enters has a number left for it.
LEMMA InsertFacts ==
    ASSUME NEW q, Sound(q), ~IsFull(q),
           NEW c \in Calls, c \notin Values(q), NEW d \in Nat
    PROVE  LET r == InsertBack(q, c, d)
           IN  /\ Sound(r)
               /\ Values(r) = Values(q) \cup {c}
               /\ Order(r) = Order(q) \cup (Values(q) \X {c})
<1> DEFINE s == Reserved(q)
<1>1. Cardinality(q.entries) < Capacity /\ Cardinality(q.entries) \in Nat
  BY FS_CardinalityType, QueueBounds DEF IsFull, Sound, WellFormed
<1>2. /\ Sound(s) /\ s.next < MaxSequence
      /\ Values(s) = Values(q) /\ Order(s) = Order(q)
      /\ Cardinality(s.entries) <= Cardinality(q.entries)
  <2>1. CASE q.next = MaxSequence
    BY <2>1, ResequenceFacts DEF Reserved, Sound
  <2>2. CASE q.next # MaxSequence
    <3>1. s = q
      BY <2>2 DEF Reserved
    <3>2. q.next < MaxSequence
      BY <2>2, QueueBounds DEF Sound, WellFormed, QueueSet
    <3> QED BY <1>1, <3>1, <3>2
  <2> QED BY <2>1, <2>2
<1>3. Cardinality(s.entries) \in Nat
  BY <1>2, FS_CardinalityType DEF Sound, WellFormed
<1>4. Cardinality(s.entries) < Capacity
  BY <1>1, <1>2, <1>3, QueueBounds
<1> HIDE DEF s
<1> QED BY <1>2, <1>4, AppendFacts DEF InsertBack, s

-------------------------------------------------------------------------------
(* The steps of the room.                                                    *)

\* An entry that leaves with an outcome is a step of the room.
LEMMA LeavingStep ==
    ASSUME WaitingInv, NEW e \in queue.entries, NEW how \in Outcomes,
           how # "None", Sound(queue'),
           Values(queue') = Values(queue) \ {e.value},
           Order(queue') = {p \in Order(queue) :
                              p[1] # e.value /\ p[2] # e.value},
           Release(e.value, how)
    PROVE  /\ WaitingInv'
           /\ e.value \in Calls /\ Room!Leaves(e.value, how)
<1>1. e.value \in Calls /\ e.value \in Values(queue)
  BY DEF WaitingInv, Sound, WellFormed, QueueSet, EntrySet, Values
<1>2. WaitingInv'
  BY <1>1 DEF WaitingInv, Release
<1> QED BY <1>1, <1>2 DEF Release, Room!Leaves, waiting, before

\* Nobody is in front of the first entry.
LEMMA FirstIsFirst ==
    ASSUME WaitingInv, queue.entries # {}
    PROVE  LET e == FirstOf(queue.entries)
           IN  e \in queue.entries /\ Room!First(e.value)
<1>1. queue.entries \in SUBSET EntrySet
  BY DEF WaitingInv, Sound, WellFormed, QueueSet
<1> DEFINE e == FirstOf(queue.entries)
<1>2. e \in queue.entries /\ \A f \in queue.entries : e.sequence <= f.sequence
  BY <1>1, FirstOfFacts
<1> HIDE DEF e
<1>3. \A f, g \in queue.entries : g.value = e.value => ~(f.sequence < g.sequence)
  BY <1>1, <1>2 DEF WaitingInv, Sound, WellFormed, EntrySet
<1> QED BY <1>2, <1>3 DEF Room!First, before, Order, e

LEMMA InitRoom == Init => WaitingInv /\ Room!Init
<1> SUFFICES ASSUME Init PROVE WaitingInv /\ Room!Init
  OBVIOUS
<1>1. /\ queue = NewQueue /\ queue.entries = {} /\ queue.deadlines = {}
      /\ queue.next = 0 /\ queue.cursor = -1
  BY DEF Init, NewQueue
<1>2. Sound(queue)
  BY <1>1, FS_EmptySet, QueueBounds
  DEF Sound, WellFormed, Indexed, Ahead, QueueSet, NewQueue
<1>3. Values(queue) = {} /\ Order(queue) = {}
  BY <1>1 DEF Values, Order
<1>4. outcome \in [Calls -> Outcomes] /\ now \in Nat
  BY DEF Init, Outcomes
<1>5. Room!Init
  BY <1>3 DEF Init, Room!Init, waiting, before
<1> QED BY <1>2, <1>3, <1>4, <1>5 DEF WaitingInv

\* One step per operation.
LEMMA NextRoom ==
    ASSUME WaitingInv, [Next]_vars
    PROVE  WaitingInv' /\ [Room!Next]_(Room!vars)
<1>1. ASSUME NEW c \in Calls, NEW timeout \in Timeouts, Admit(c, timeout)
      PROVE  WaitingInv' /\ [Room!Next]_(Room!vars)
  <2>1. CASE Refuse(c)
    <3>1. Room!TurnAway(c)
      BY <1>1, <2>1 DEF Admit, Refuse, Room!TurnAway, Room!Fresh, waiting, before
    <3>2. WaitingInv'
      <4>1. /\ c \notin Values(queue) /\ UNCHANGED <<queue, now>>
            /\ outcome' = [outcome EXCEPT ![c] = "Refused"]
        BY <1>1, <2>1 DEF Admit, Refuse, waiting
      <4>2. outcome' \in [Calls -> Outcomes]
        BY <4>1 DEF WaitingInv, Outcomes
      <4>3. \A b \in Values(queue) : outcome'[b] = "None"
        BY <4>1 DEF WaitingInv
      <4> QED BY <4>1, <4>2, <4>3 DEF WaitingInv
    <3> QED BY <3>1, <3>2 DEF Room!Next
  <2>2. CASE ~Refuse(c)
    <3>1. /\ ~IsFull(queue) /\ c \notin Values(queue) /\ outcome[c] = "None"
          /\ queue' = InsertBack(queue, c, now + timeout)
          /\ UNCHANGED <<outcome, now>>
      BY <1>1, <2>2 DEF Admit, waiting
    <3>2. now + timeout \in Nat
      BY WaitingBounds DEF WaitingInv
    <3>3. /\ Sound(queue') /\ Values(queue') = Values(queue) \cup {c}
          /\ Order(queue') = Order(queue) \cup (Values(queue) \X {c})
      BY <3>1, <3>2, InsertFacts DEF WaitingInv
    <3>4. Room!Enter(c)
      BY <3>1, <3>3 DEF Room!Enter, Room!Fresh, waiting, before
    <3> QED BY <3>1, <3>3, <3>4 DEF WaitingInv, Room!Next
  <2> QED BY <2>1, <2>2
<1>2. ASSUME Pop PROVE WaitingInv' /\ [Room!Next]_(Room!vars)
  <2> DEFINE e == FirstOf(queue.entries)
  <2>1. /\ e \in queue.entries /\ Room!First(e.value) /\ queue' = Remove(queue, e)
        /\ Release(e.value, Late(e, "Admitted"))
    BY <1>2, FirstIsFirst DEF Pop
  <2> HIDE DEF e
  <2>2. Late(e, "Admitted") \in {"Expired", "Admitted"}
    BY DEF Late
  <2>3. /\ Sound(queue') /\ Values(queue') = Values(queue) \ {e.value}
        /\ Order(queue') = {p \in Order(queue) :
                              p[1] # e.value /\ p[2] # e.value}
    BY <2>1, RemoveFacts DEF WaitingInv
  <2>4. /\ WaitingInv'
        /\ e.value \in Calls /\ Room!Leaves(e.value, Late(e, "Admitted"))
    BY <2>1, <2>2, <2>3, LeavingStep DEF Outcomes
  <2> QED BY <2>1, <2>2, <2>4 DEF Room!Next, Room!AdmitFirst, Room!Expire
<1>3. ASSUME ExpireDue PROVE WaitingInv' /\ [Room!Next]_(Room!vars)
  <2>1. queue' = TakeDue(queue)
    BY <1>3 DEF ExpireDue
  <2>2. CASE DueEntries(queue) = {}
    <3>1. UNCHANGED <<outcome, now>>
      BY <1>3, <2>2 DEF ExpireDue
    <3> QED
      BY <2>1, <2>2, <3>1, TakeDueFacts DEF WaitingInv, Room!vars, waiting, before
  <2>3. CASE DueEntries(queue) # {}
    <3>1. PICK e \in DueEntries(queue) : Release(e.value, "Expired")
      BY <1>3, <2>3 DEF ExpireDue
    <3>2. e \in queue.entries
      BY DEF DueEntries
    <3>3. /\ Sound(queue') /\ Values(queue') = Values(queue) \ {e.value}
          /\ Order(queue') = {p \in Order(queue) :
                                p[1] # e.value /\ p[2] # e.value}
      BY <2>1, TakeDueFacts DEF WaitingInv
    <3>4. WaitingInv' /\ e.value \in Calls /\ Room!Leaves(e.value, "Expired")
      BY <3>1, <3>2, <3>3, LeavingStep DEF Outcomes
    <3> QED BY <3>4 DEF Room!Next, Room!Expire
  <2> QED BY <2>2, <2>3
<1>4. ASSUME FailOne PROVE WaitingInv' /\ [Room!Next]_(Room!vars)
  <2> DEFINE e == FirstOf(queue.entries)
  <2>1. /\ e \in queue.entries /\ Room!First(e.value) /\ queue' = Remove(queue, e)
        /\ Release(e.value, "Failed")
    BY <1>4, FirstIsFirst DEF FailOne
  <2> HIDE DEF e
  <2>2. /\ Sound(queue') /\ Values(queue') = Values(queue) \ {e.value}
        /\ Order(queue') = {p \in Order(queue) :
                              p[1] # e.value /\ p[2] # e.value}
    BY <2>1, RemoveFacts DEF WaitingInv
  <2>3. WaitingInv' /\ e.value \in Calls /\ Room!Leaves(e.value, "Failed")
    BY <2>1, <2>2, LeavingStep DEF Outcomes
  <2> QED BY <2>1, <2>3 DEF Room!Next, Room!FailFirst
<1>5. ASSUME FailAll PROVE WaitingInv' /\ [Room!Next]_(Room!vars)
  <2>1. /\ queue.entries # {} /\ queue' = Drained(queue) /\ UNCHANGED now
        /\ outcome' = [c \in Calls |-> IF c \in waiting THEN "Failed"
                                                       ELSE outcome[c]]
    BY <1>5 DEF FailAll
  <2>2. Sound(queue') /\ Values(queue') = {} /\ Order(queue') = {}
    BY <2>1, DrainedFacts DEF WaitingInv
  <2>3. waiting # {}
    BY <2>1 DEF waiting, Values
  <2>4. Room!FailEveryone
    BY <2>1, <2>2, <2>3 DEF Room!FailEveryone, waiting, before
  <2>5. outcome' \in [Calls -> Outcomes]
    BY <2>1 DEF WaitingInv, Outcomes
  <2>6. WaitingInv'
    BY <2>1, <2>2, <2>5 DEF WaitingInv
  <2> QED BY <2>4, <2>6 DEF Room!Next
<1>6. ASSUME RejectFailedRouteOne PROVE WaitingInv' /\ [Room!Next]_(Room!vars)
  <2> DEFINE e == Scanned(queue)
  <2>1. /\ queue.entries # {}
        /\ queue' = ScanOne(queue, e, e.value \in Rejecting)
        /\ IF e.value \in Rejecting
           THEN Release(e.value, Late(e, "Rejected"))
           ELSE UNCHANGED <<retained_bytes, rejecting_calls, outcome, now>>
    BY <1>6 DEF RejectFailedRouteOne
  <2>2. /\ e \in queue.entries /\ Sound(queue')
        /\ e.value \in Rejecting =>
              /\ Values(queue') = Values(queue) \ {e.value}
              /\ Order(queue') = {p \in Order(queue) :
                                    p[1] # e.value /\ p[2] # e.value}
        /\ e.value \notin Rejecting =>
              Values(queue') = Values(queue) /\ Order(queue') = Order(queue)
    BY <2>1, ScannedFacts DEF WaitingInv
  <2> HIDE DEF e
  <2>3. CASE e.value \notin Rejecting
    BY <2>1, <2>2, <2>3 DEF WaitingInv, Room!vars, waiting, before
  <2>4. CASE e.value \in Rejecting
    <3>1. Late(e, "Rejected") \in {"Expired", "Rejected"}
      BY DEF Late
    <3>2. /\ WaitingInv'
          /\ e.value \in Calls /\ Room!Leaves(e.value, Late(e, "Rejected"))
      BY <2>1, <2>2, <2>4, <3>1, LeavingStep DEF Outcomes
    <3> QED BY <2>4, <3>1, <3>2 DEF Room!Next, Room!Reject, Room!Expire
  <2> QED BY <2>3, <2>4
<1>7. ASSUME Tick PROVE WaitingInv' /\ [Room!Next]_(Room!vars)
  BY <1>7 DEF Tick, WaitingInv, Room!vars, waiting, before
<1>8. CASE UNCHANGED vars
  BY <1>8 DEF vars, WaitingInv, Room!vars, waiting, before
<1> QED BY <1>1, <1>2, <1>3, <1>4, <1>5, <1>6, <1>7, <1>8 DEF Next

-------------------------------------------------------------------------------
(* The ledger of the bytes and of the calls that opted out.                  *)

\* Bytes add up: a call that enters adds its own.
LEMMA BytesAdded ==
    ASSUME NEW S \in SUBSET Calls, IsFiniteSet(S), NEW c \in Calls, c \notin S
    PROVE  /\ BytesOf(S) \in Nat
           /\ BytesOf(S \cup {c}) = BytesOf(S) + Bytes[c]
<1> DEFINE own(d) == {d} \X (1..Bytes[d])
           held == {own(d) : d \in S}
<1>1. \A d \in Calls : Bytes[d] \in Nat
  BY WaitingBounds
<1>2. ASSUME NEW d \in Calls
      PROVE  IsFiniteSet(own(d)) /\ Cardinality(own(d)) = Bytes[d]
  <2>1. IsFiniteSet({d}) /\ Cardinality({d}) = 1
    BY FS_Singleton
  <2>2. IsFiniteSet(1..Bytes[d]) /\ Cardinality(1..Bytes[d]) = Bytes[d]
    <3>1. 1 \in Int /\ Bytes[d] \in Int /\ Bytes[d] \in Nat
      BY <1>1
    <3>2. /\ IsFiniteSet(1..Bytes[d])
          /\ Cardinality(1..Bytes[d]) = IF 1 > Bytes[d] THEN 0 ELSE Bytes[d] - 1 + 1
      BY <3>1, FS_Interval
    <3> QED BY <3>1, <3>2
  <2>3. /\ IsFiniteSet({d} \X (1..Bytes[d]))
        /\ Cardinality({d} \X (1..Bytes[d]))
              = Cardinality({d}) * Cardinality(1..Bytes[d])
    BY <2>1, <2>2, FS_Product
  <2> QED BY <1>1, <2>1, <2>2, <2>3
<1>3. IsFiniteSet(held)
  <2>1. [d \in S |-> own(d)] \in Surjection(S, held)
    BY DEF Surjection
  <2> QED BY <2>1, FS_Surjection
<1>4. IsFiniteSet(UNION held)
  <2>1. \A T \in held : IsFiniteSet(T)
    BY <1>2
  <2> HIDE DEF held
  <2> QED BY <1>3, <2>1, FS_UNION
<1>5. (UNION held) \cap own(c) = {}
  OBVIOUS
<1>6. UNION {own(d) : d \in S \cup {c}} = (UNION held) \cup own(c)
  OBVIOUS
<1>7. BytesOf(S) = Cardinality(UNION held)
      /\ BytesOf(S \cup {c}) = Cardinality((UNION held) \cup own(c))
  BY <1>6 DEF BytesOf
<1> HIDE DEF held, own
<1>8. Cardinality(UNION held) \in Nat
  BY <1>4, FS_CardinalityType
<1>9. Cardinality((UNION held) \cup own(c)) = Cardinality(UNION held) + Bytes[c]
  <2>1. IsFiniteSet(own(c)) /\ Cardinality(own(c)) = Bytes[c] /\ Bytes[c] \in Nat
    BY <1>1, <1>2
  <2>2. Cardinality((UNION held) \cup own(c))
           = Cardinality(UNION held) + Cardinality(own(c))
                - Cardinality((UNION held) \cap own(c))
    BY <1>4, <2>1, FS_Union
  <2>3. Cardinality((UNION held) \cap own(c)) = 0
    BY <1>5, FS_EmptySet
  <2> QED BY <1>8, <2>1, <2>2, <2>3
<1> QED BY <1>7, <1>8, <1>9

\* The opted-out calls among them are counted the same way.
LEMMA CountAdded ==
    ASSUME NEW S \in SUBSET Calls, IsFiniteSet(S), NEW c \in Calls, c \notin S
    PROVE  /\ Cardinality(S \cap Rejecting) \in Nat
           /\ Cardinality((S \cup {c}) \cap Rejecting)
                 = Cardinality(S \cap Rejecting) + Counts(c)
<1>1. IsFiniteSet(S \cap Rejecting) /\ Cardinality(S \cap Rejecting) \in Nat
  BY FS_Intersection, FS_CardinalityType
<1>2. CASE c \in Rejecting
  <2>1. (S \cup {c}) \cap Rejecting = (S \cap Rejecting) \cup {c}
    BY <1>2
  <2> QED BY <1>1, <1>2, <2>1, FS_AddElement DEF Counts
<1>3. CASE c \notin Rejecting
  <2>1. (S \cup {c}) \cap Rejecting = S \cap Rejecting
    BY <1>3
  <2> QED BY <1>1, <1>3, <2>1 DEF Counts
<1> QED BY <1>1, <1>2, <1>3

\* The part of Ledger that is kept step by step.
Balanced ==
    /\ retained_bytes = BytesOf(Values(queue)) /\ retained_bytes <= ByteLimit
    /\ rejecting_calls = Cardinality(Values(queue) \cap Rejecting)

LedgerInv == WaitingInv /\ Balanced

\* Values identify the entries, so there are as many of the one as of the other.
LEMMA AsManyValues ==
    ASSUME NEW q, WellFormed(q)
    PROVE  /\ Values(q) \in SUBSET Calls /\ IsFiniteSet(Values(q))
           /\ Cardinality(Values(q)) = Cardinality(q.entries)
<1> DEFINE f == [e \in q.entries |-> e.value]
<1>1. Values(q) \in SUBSET Calls
  BY DEF WellFormed, QueueSet, EntrySet, Values
<1>2. f \in Surjection(q.entries, Values(q)) /\ f \in Injection(q.entries, Values(q))
  BY DEF Surjection, Injection, IsInjective, Values, WellFormed
<1>3. IsFiniteSet(q.entries)
  BY DEF WellFormed
<1> QED BY <1>1, <1>2, <1>3, FS_Surjection

\* A call that leaves gives back exactly what it held.
LEMMA LeavingBalance ==
    ASSUME LedgerInv, NEW e \in queue.entries,
           Values(queue') = Values(queue) \ {e.value},
           retained_bytes' = retained_bytes - Bytes[e.value],
           rejecting_calls' = rejecting_calls - Counts(e.value)
    PROVE  Balanced'
<1> DEFINE c == e.value
           S == Values(queue) \ {c}
<1>1. Values(queue) \in SUBSET Calls /\ IsFiniteSet(Values(queue))
  BY AsManyValues DEF LedgerInv, WaitingInv, Sound
<1>2. c \in Values(queue) /\ c \in Calls
  BY <1>1 DEF Values
<1>3. S \in SUBSET Calls /\ IsFiniteSet(S) /\ c \notin S /\ S \cup {c} = Values(queue)
  BY <1>1, <1>2, FS_Subset
<1> HIDE DEF c, S
<1>4. BytesOf(S) \in Nat /\ BytesOf(Values(queue)) = BytesOf(S) + Bytes[c]
  BY <1>2, <1>3, BytesAdded
<1>5. /\ Cardinality(S \cap Rejecting) \in Nat
      /\ Cardinality(Values(queue) \cap Rejecting)
            = Cardinality(S \cap Rejecting) + Counts(c)
  BY <1>2, <1>3, CountAdded
<1>6. Bytes[c] \in Nat /\ Counts(c) \in Nat /\ ByteLimit \in Nat
  BY <1>2, WaitingBounds DEF Counts
<1>7. Values(queue') = S
  BY DEF S, c
<1>8. /\ retained_bytes' = BytesOf(S) /\ retained_bytes' <= ByteLimit
      /\ rejecting_calls' = Cardinality(S \cap Rejecting)
  BY <1>4, <1>5, <1>6 DEF LedgerInv, Balanced, c
<1> QED BY <1>7, <1>8 DEF Balanced

LEMMA InitBalanced == Init => Balanced
<1> SUFFICES ASSUME Init PROVE Balanced
  OBVIOUS
<1>1. Values(queue) = {} /\ retained_bytes = 0 /\ rejecting_calls = 0
  BY DEF Init, NewQueue, Values
<1>2. UNION {{c} \X (1..Bytes[c]) : c \in {}} = {} /\ {} \cap Rejecting = {}
  OBVIOUS
<1>3. BytesOf({}) = 0 /\ Cardinality({} \cap Rejecting) = 0
  BY <1>2, FS_EmptySet DEF BytesOf
<1> QED BY <1>1, <1>3, WaitingBounds DEF Balanced

LEMMA NextBalanced ==
    ASSUME LedgerInv, [Next]_vars
    PROVE  Balanced'
<1>1. /\ Values(queue) \in SUBSET Calls /\ IsFiniteSet(Values(queue))
      /\ Sound(queue) /\ WaitingInv /\ Balanced
  BY AsManyValues DEF LedgerInv, WaitingInv, Sound
<1>2. ASSUME NEW c \in Calls, NEW timeout \in Timeouts, Admit(c, timeout)
      PROVE  Balanced'
  <2>1. CASE Refuse(c)
    BY <1>1, <2>1 DEF Refuse, Balanced
  <2>2. CASE ~Refuse(c)
    <3>1. /\ ~IsFull(queue) /\ c \notin Values(queue)
          /\ ~(retained_bytes + Bytes[c] > ByteLimit)
          /\ queue' = InsertBack(queue, c, now + timeout)
          /\ retained_bytes' = retained_bytes + Bytes[c]
          /\ rejecting_calls' = rejecting_calls + Counts(c)
      BY <1>2, <2>2 DEF Admit, waiting
    <3>2. now + timeout \in Nat
      BY <1>1, WaitingBounds DEF WaitingInv
    <3>3. Values(queue') = Values(queue) \cup {c}
      BY <1>1, <3>1, <3>2, InsertFacts
    <3>4. /\ BytesOf(Values(queue)) \in Nat
          /\ BytesOf(Values(queue')) = BytesOf(Values(queue)) + Bytes[c]
      BY <1>1, <3>1, <3>3, BytesAdded
    <3>5. Cardinality(Values(queue') \cap Rejecting)
             = Cardinality(Values(queue) \cap Rejecting) + Counts(c)
      BY <1>1, <3>1, <3>3, CountAdded
    <3>6. Bytes[c] \in Nat /\ ByteLimit \in Nat
      BY WaitingBounds
    <3> QED BY <1>1, <3>1, <3>4, <3>5, <3>6 DEF Balanced
  <2> QED BY <2>1, <2>2
<1>3. ASSUME Pop \/ FailOne PROVE Balanced'
  <2> DEFINE e == FirstOf(queue.entries)
  <2>1. /\ e \in queue.entries /\ queue' = Remove(queue, e)
        /\ \E how : Release(e.value, how)
    BY <1>1, <1>3, FirstIsFirst DEF Pop, FailOne
  <2> HIDE DEF e
  <2>2. Values(queue') = Values(queue) \ {e.value}
    BY <1>1, <2>1, RemoveFacts
  <2> QED BY <2>1, <2>2, LeavingBalance DEF Release
<1>4. ASSUME ExpireDue PROVE Balanced'
  <2>1. queue' = TakeDue(queue)
    BY <1>4 DEF ExpireDue
  <2>2. CASE DueEntries(queue) = {}
    BY <1>1, <1>4, <2>1, <2>2, TakeDueFacts DEF ExpireDue, Balanced
  <2>3. CASE DueEntries(queue) # {}
    <3>1. PICK e \in DueEntries(queue) : Release(e.value, "Expired")
      BY <1>4, <2>3 DEF ExpireDue
    <3>2. e \in queue.entries /\ Values(queue') = Values(queue) \ {e.value}
      BY <1>1, <2>1, TakeDueFacts DEF DueEntries
    <3> QED BY <3>1, <3>2, LeavingBalance DEF Release
  <2> QED BY <2>2, <2>3
<1>5. ASSUME FailAll PROVE Balanced'
  <2>1. Values(queue') = {}
    BY <1>1, <1>5, DrainedFacts DEF FailAll
  <2>2. /\ retained_bytes' = retained_bytes - BytesOf(Values(queue))
        /\ rejecting_calls' = rejecting_calls - Cardinality(Values(queue) \cap Rejecting)
    BY <1>5 DEF FailAll, waiting
  <2>3. UNION {{c} \X (1..Bytes[c]) : c \in {}} = {} /\ {} \cap Rejecting = {}
    OBVIOUS
  <2>4. BytesOf({}) = 0 /\ Cardinality({} \cap Rejecting) = 0
    BY <2>3, FS_EmptySet DEF BytesOf
  <2>5. Cardinality(Values(queue) \cap Rejecting) \in Nat
    BY <1>1, FS_Intersection, FS_CardinalityType
  <2>6. retained_bytes \in Nat
    <3>1. PICK e \in queue.entries : TRUE
      BY <1>5 DEF FailAll
    <3>2. e.value \in Values(queue)
      BY DEF Values
    <3>3. /\ Values(queue) \ {e.value} \in SUBSET Calls
          /\ IsFiniteSet(Values(queue) \ {e.value})
          /\ (Values(queue) \ {e.value}) \cup {e.value} = Values(queue)
      BY <1>1, <3>2, FS_Subset
    <3>4. /\ BytesOf(Values(queue) \ {e.value}) \in Nat
          /\ BytesOf(Values(queue))
                = BytesOf(Values(queue) \ {e.value}) + Bytes[e.value]
      BY <1>1, <3>2, <3>3, BytesAdded
    <3> QED BY <1>1, <3>2, <3>4, WaitingBounds DEF Balanced
  <2> QED BY <1>1, <2>1, <2>2, <2>4, <2>5, <2>6, WaitingBounds DEF Balanced
<1>6. ASSUME RejectFailedRouteOne PROVE Balanced'
  <2> DEFINE e == Scanned(queue)
  <2>1. /\ queue.entries # {}
        /\ queue' = ScanOne(queue, e, e.value \in Rejecting)
        /\ IF e.value \in Rejecting
           THEN Release(e.value, Late(e, "Rejected"))
           ELSE UNCHANGED <<retained_bytes, rejecting_calls, outcome, now>>
    BY <1>6 DEF RejectFailedRouteOne
  <2>2. /\ e \in queue.entries
        /\ e.value \in Rejecting => Values(queue') = Values(queue) \ {e.value}
        /\ e.value \notin Rejecting => Values(queue') = Values(queue)
    BY <1>1, <2>1, ScannedFacts
  <2> HIDE DEF e
  <2>3. CASE e.value \notin Rejecting
    BY <1>1, <2>1, <2>2, <2>3 DEF Balanced
  <2>4. CASE e.value \in Rejecting
    BY <2>1, <2>2, <2>4, LeavingBalance DEF Release
  <2> QED BY <2>3, <2>4
<1>7. ASSUME Tick PROVE Balanced'
  BY <1>1, <1>7 DEF Tick, Balanced
<1>8. CASE UNCHANGED vars
  BY <1>1, <1>8 DEF vars, Balanced
<1> QED BY <1>2, <1>3, <1>4, <1>5, <1>6, <1>7, <1>8 DEF Next

-------------------------------------------------------------------------------
(* The theorems.                                                             *)

\* The indices of the queue stay well formed under every operation.
THEOREM WaitingInvariant == Spec => []WaitingInv
<1>1. Init => WaitingInv
  BY InitRoom
<1>2. WaitingInv /\ [Next]_vars => WaitingInv'
  BY NextRoom
<1> QED BY <1>1, <1>2, PTL DEF Spec

\* The queue of route_waiting.rs keeps the promise of the waiting room: calls
\* leave once, are admitted in the order they entered, and are rejected only
\* when they opted out, whatever the capacity, in debug and release builds.
THEOREM WaitingKeepsRoom == Spec => KeepsRoom
<1>1. Init => Room!Init
  BY InitRoom
<1>2. WaitingInv /\ [Next]_vars => [Room!Next]_(Room!vars)
  BY NextRoom
<1> QED BY <1>1, <1>2, WaitingInvariant, PTL DEF Spec, KeepsRoom, Room!Spec

\* No build loses the deadline of a waiting call from the index.
THEOREM DeadlinesAreCovered == Spec => []DeadlinesCovered
<1>1. WaitingInv => DeadlinesCovered
  BY DEF WaitingInv, Sound, Indexed, DeadlinesCovered
<1> QED BY <1>1, WaitingInvariant, PTL

\* The scan after a route failure passes no call that it should reject.
THEOREM RejectionsStayAhead == Spec => []RejectionAhead
<1>1. WaitingInv => RejectionAhead
  BY DEF WaitingInv, Sound, Ahead, RejectionAhead
<1> QED BY <1>1, WaitingInvariant, PTL

\* The byte budget and the count of opted-out calls of route_waiting.rs are
\* those of the calls that wait, within the limits, whatever the capacity.
THEOREM LedgerIsExact == Spec => []Ledger
<1>1. Init => LedgerInv
  BY InitRoom, InitBalanced DEF LedgerInv
<1>2. LedgerInv /\ [Next]_vars => LedgerInv'
  BY NextRoom, NextBalanced DEF LedgerInv
<1>3. LedgerInv => Ledger
  BY AsManyValues DEF LedgerInv, WaitingInv, Sound, WellFormed, Balanced, Ledger, waiting
<1> QED BY <1>1, <1>2, <1>3, PTL DEF Spec

===============================================================================
