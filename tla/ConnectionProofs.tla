-------------------------- MODULE ConnectionProofs --------------------------
(***************************************************************************)
(* What each call is owed, which timers run and who is blamed for a close, *)
(* for every set of calls and identities, every capacity, correlation      *)
(* range and number of rounds.                                             *)
(*                                                                         *)
(* What each call is owed follows from an invariant of the queue and the   *)
(* history alone.  CallAccounting, FifoCompletion, TruthfulDelivery and    *)
(* UniqueIdentities are not inductive by themselves: completion in FIFO    *)
(* order needs that the queue is sorted by admission, and truthful         *)
(* delivery needs that the marks on queued entries are the truth.          *)
(***************************************************************************)
EXTENDS ConnectionTypeProofs

QueueSorted ==
  /\ \A c \in Calls : adm[c] <= admissions
  /\ \A i, j \in DOMAIN pending :
       i < j => adm[pending[i].call] < adm[pending[j].call]

SentMarks ==
  /\ \A i \in DOMAIN pending :
       /\ pending[i].call \in handed <=> pending[i].delivery = "PossiblySent"
       /\ pending[i].phase = "AwaitingResponse" <=>
            pending[i].delivery = "PossiblySent"
  /\ \A c \in handed : adm[c] # 0

QueueInv ==
  /\ CallAccounting
  /\ QueueSorted
  /\ FifoCompletion
  /\ SentMarks
  /\ TruthfulDelivery
  /\ UniqueIdentities

queue == <<pending, outcome, adm, admissions, handed>>

\* An input that touches neither the queue nor the outcomes keeps QueueInv.
LEMMA QueueUntouched ==
  ASSUME QueueInv, UNCHANGED queue
  PROVE  QueueInv'
  BY DEF QueueInv, CallAccounting, QueueSorted, FifoCompletion, SentMarks,
         TruthfulDelivery, UniqueIdentities, queue, PendingCalls

\* The three outcome constructors are told apart by their kind.
LEMMA OutcomeKinds ==
  /\ NoOutcome.kind = "None" /\ Completed.kind = "Completed"
  /\ Completed.delivery = "PossiblySent"
  /\ \A f, r, dl : /\ Failed(f, r, dl).kind = "Failed"
                   /\ Failed(f, r, dl).delivery = dl
  BY DEF NoOutcome, Completed, Failed

\* The entries of the queue name calls and timers.
LEMMA EntryTypes ==
  ASSUME TypeOK
  PROVE  /\ DOMAIN pending = 1..Len(pending) /\ Len(pending) \in Nat
         /\ \A i \in DOMAIN pending :
              pending[i].call \in Calls /\ pending[i].timer \in Timers
<1>1. pending \in Seq(PendingEntries)
  BY DEF TypeOK
<1>2. \A i \in DOMAIN pending : pending[i] \in PendingEntries
  BY <1>1
<1> QED
  BY <1>1, <1>2 DEF PendingEntries

\* A fresh call is failed at once.
LEMMA QueueRefused ==
  ASSUME TypeOK, QueueInv, NEW c \in Calls, Fresh(c), NEW f, NEW r,
         outcome' = [outcome EXCEPT ![c] = Failed(f, r, "NotSent")],
         UNCHANGED <<pending, adm, admissions, handed>>
  PROVE  QueueInv'
<1>1. /\ outcome'[c].kind = "Failed" /\ outcome'[c].delivery = "NotSent"
      /\ outcome'[c] # NoOutcome /\ adm[c] = 0
      /\ \A d \in Calls : d # c => outcome'[d] = outcome[d]
  BY SMTT(60), OutcomeKinds DEF TypeOK, Fresh
<1>2. c \notin PendingCalls /\ c \notin handed
  BY SMTT(60), <1>1 DEF QueueInv, CallAccounting, SentMarks
<1>3. CallAccounting'
  BY SMTT(60), <1>1, <1>2 DEF QueueInv, CallAccounting, PendingCalls
<1>4. FifoCompletion'
  BY SMTT(60), <1>1 DEF QueueInv, FifoCompletion
<1>5. TruthfulDelivery'
  BY SMTT(60), <1>1, <1>2 DEF QueueInv, TruthfulDelivery
<1>6. QueueSorted' /\ SentMarks' /\ UniqueIdentities'
  BY DEF QueueInv, QueueSorted, SentMarks, UniqueIdentities
<1> QED
  BY <1>3, <1>4, <1>5, <1>6 DEF QueueInv

\* A fresh call joins the end of the queue.
LEMMA QueueAdmitted ==
  ASSUME TypeOK, QueueInv, NEW c \in Calls, NEW e \in Effects, NEW t \in Timers,
         NEW d \in Moments, SubmitAdmitted(c, e, t, d)
  PROVE  QueueInv'
<1>1. PICK k \in 0..Len(pending) :
        /\ FirstFree(k)
        /\ pending' = Append(pending,
             [call |-> c, corr |-> Candidate(k), effect |-> e, timer |-> t,
              deadline |-> d, delivery |-> "NotSent", phase |-> "AwaitingWrite"])
  BY DEF SubmitAdmitted
<1> DEFINE n == Len(pending)
           entry == [call |-> c, corr |-> Candidate(k), effect |-> e,
                     timer |-> t, deadline |-> d, delivery |-> "NotSent",
                     phase |-> "AwaitingWrite"]
<1>2. pending \in Seq(PendingEntries) /\ n \in Nat
  BY DEF TypeOK
<1>3. entry \in PendingEntries
  BY SMTT(60), CandidateType DEF PendingEntries, TypeOK
<1>4. /\ Len(pending') = n + 1
      /\ DOMAIN pending = 1..n /\ DOMAIN pending' = 1..(n + 1)
      /\ \A i \in 1..n : pending'[i] = pending[i]
      /\ pending'[n + 1] = entry
  BY SMTT(60), <1>1, <1>2, <1>3
<1>5. /\ outcome' = outcome /\ handed' = handed /\ outcome[c] = NoOutcome
      /\ adm[c] = 0 /\ adm'[c] = admissions + 1 /\ admissions' = admissions + 1
      /\ \A x \in Calls : x # c => adm'[x] = adm[x]
      /\ \A x \in Calls : adm[x] \in Nat
      /\ admissions \in Nat
  BY DEF SubmitAdmitted, Fresh, TypeOK
<1>6. \A i \in 1..n : pending[i].call \in Calls
  BY EntryTypes
<1>7. \A i \in 1..n : pending[i].call # c
  BY ZenonT(60), <1>4, <1>5 DEF QueueInv, CallAccounting, PendingCalls
<1>8. c \notin handed
  BY ZenonT(60), <1>5 DEF QueueInv, SentMarks
<1>9. entry.call = c /\ entry.delivery = "NotSent" /\ entry.effect = e
      /\ entry.timer = t /\ entry.corr = Candidate(k)
      /\ entry.phase = "AwaitingWrite"
  OBVIOUS
<1> HIDE DEF entry, n
<1>10. PendingCalls' = PendingCalls \cup {c}
  <2>1. \A x : x \in PendingCalls' <=> x \in PendingCalls \/ x = c
    BY SMTT(60), <1>2, <1>4, <1>9 DEF PendingCalls
  <2> QED
    BY <2>1
<1>11. CallAccounting'
  <2>1. \A i, j \in DOMAIN pending' :
          pending'[i].call = pending'[j].call => i = j
    BY SMTT(60), <1>2, <1>4, <1>7, <1>9 DEF QueueInv, CallAccounting
  <2>2. \A x \in PendingCalls' : adm'[x] # 0
    <3>1. \A x \in PendingCalls : x \in Calls
      BY <1>4, <1>6 DEF PendingCalls
    <3> QED
      BY SMTT(60), <1>5, <1>10, <3>1 DEF QueueInv, CallAccounting
  <2>3. \A x \in Calls :
          adm'[x] # 0 => (x \in PendingCalls' <=> outcome'[x] = NoOutcome)
    BY ZenonT(60), <1>5, <1>10 DEF QueueInv, CallAccounting
  <2> QED
    BY SMTT(60), <2>1, <2>2, <2>3 DEF CallAccounting
<1>12. QueueSorted'
  <2>1. \A x \in Calls : adm'[x] <= admissions'
    BY <1>5 DEF QueueInv, QueueSorted
  <2>2. ASSUME NEW i \in DOMAIN pending', NEW j \in DOMAIN pending', i < j
        PROVE  adm'[pending'[i].call] < adm'[pending'[j].call]
    <3>1. i \in 1..n /\ pending'[i] = pending[i] /\ pending[i].call # c
      BY SMTT(60), <1>2, <1>4, <1>7, <2>2
    <3>2. CASE j \in 1..n
      BY SMTT(60), <1>4, <1>5, <1>6, <1>7, <2>2, <3>1, <3>2 DEF QueueInv, QueueSorted
    <3>3. CASE j = n + 1
      BY SMTT(60), <1>4, <1>5, <1>6, <1>9, <3>1, <3>3 DEF QueueInv, QueueSorted
    <3> QED
      BY SMTT(60), <1>2, <1>4, <3>2, <3>3
  <2> QED
    BY SMTT(60), <2>1, <2>2 DEF QueueSorted
<1>13. FifoCompletion'
  <2>1. ASSUME NEW x \in Calls, NEW y \in Calls,
               outcome'[x].kind = "Completed", adm'[y] # 0, adm'[y] < adm'[x]
        PROVE  outcome'[y] # NoOutcome
    <3>1. x # c
      BY SMTT(60), <1>5, <2>1, OutcomeKinds
    <3>2. adm'[x] <= admissions
      BY SMTT(60), <1>5, <3>1 DEF QueueInv, QueueSorted
    <3>3. y # c
      BY <1>5, <2>1, <3>2
    <3> QED
      BY SMTT(60), <1>5, <2>1, <3>1, <3>3 DEF QueueInv, FifoCompletion
  <2> QED
    BY SMTT(60), <2>1 DEF FifoCompletion
<1>14. SentMarks'
  <2>1. ASSUME NEW i \in DOMAIN pending'
        PROVE  /\ pending'[i].call \in handed' <=>
                    pending'[i].delivery = "PossiblySent"
               /\ pending'[i].phase = "AwaitingResponse" <=>
                    pending'[i].delivery = "PossiblySent"
    BY SMTT(60), <1>2, <1>4, <1>5, <1>8, <1>9 DEF QueueInv, SentMarks
  <2>2. \A x \in handed' : adm'[x] # 0
    BY SMTT(60), <1>5 DEF QueueInv, SentMarks, TypeOK
  <2> QED
    BY SMTT(60), <2>1, <2>2 DEF SentMarks
<1>15. TruthfulDelivery'
  BY SMTT(60), <1>5 DEF QueueInv, TruthfulDelivery
<1>16. UniqueIdentities'
  <2>1. \A i \in 1..n : /\ pending[i].corr # entry.corr
                        /\ pending[i].effect # entry.effect
                        /\ pending[i].timer # entry.timer
    BY SMTT(60), <1>1, <1>4, <1>9
    DEF SubmitAdmitted, IdentitiesFree, FirstFree, CorrelationInUse
  <2> QED
    BY SMTT(60), <1>2, <1>4, <2>1 DEF QueueInv, UniqueIdentities
<1> QED
  BY SMTT(60), <1>11, <1>12, <1>13, <1>14, <1>15, <1>16 DEF QueueInv

\* The writer took the frame of an entry.
LEMMA QueueWritten ==
  ASSUME TypeOK, QueueInv, NEW i \in DOMAIN pending, WriteSubmitted(i)
  PROVE  QueueInv'
<1> DEFINE entry == [pending[i] EXCEPT !.phase = "AwaitingResponse",
                                       !.delivery = "PossiblySent"]
<1>1. pending \in Seq(PendingEntries) /\ pending[i] \in PendingEntries
  BY DEF TypeOK
<1>2. pending' = [pending EXCEPT ![i] = entry]
  BY ZenonT(60), <1>1 DEF WriteSubmitted, PendingEntries
<1>3. /\ entry.call = pending[i].call /\ entry.corr = pending[i].corr
      /\ entry.effect = pending[i].effect /\ entry.timer = pending[i].timer
      /\ entry.delivery = "PossiblySent" /\ entry.phase = "AwaitingResponse"
  BY <1>1 DEF PendingEntries
<1> HIDE DEF entry
<1>4. /\ DOMAIN pending' = DOMAIN pending /\ pending'[i] = entry
      /\ \A j \in DOMAIN pending : j # i => pending'[j] = pending[j]
  BY SMTT(60), <1>1, <1>2
<1>5. \A j \in DOMAIN pending :
        /\ pending'[j].call = pending[j].call /\ pending'[j].corr = pending[j].corr
        /\ pending'[j].effect = pending[j].effect
        /\ pending'[j].timer = pending[j].timer
  BY <1>3, <1>4
<1>6. /\ outcome' = outcome /\ adm' = adm /\ admissions' = admissions
      /\ handed' = handed \cup {pending[i].call}
  BY DEF WriteSubmitted
<1>7. PendingCalls' = PendingCalls
  BY SMTT(60), <1>4, <1>5 DEF PendingCalls
<1>8. CallAccounting'
  BY SMTT(60), <1>4, <1>5, <1>6, <1>7 DEF QueueInv, CallAccounting
<1>9. QueueSorted' /\ FifoCompletion' /\ UniqueIdentities'
  BY SMTT(60), <1>4, <1>5, <1>6
  DEF QueueInv, QueueSorted, FifoCompletion, UniqueIdentities
<1>10. SentMarks'
  <2>1. \A j \in DOMAIN pending : j # i => pending[j].call # pending[i].call
    BY DEF QueueInv, CallAccounting
  <2>2. adm[pending[i].call] # 0
    BY DEF QueueInv, CallAccounting, PendingCalls
  <2> QED
    BY <1>3, <1>4, <1>6, <2>1, <2>2 DEF QueueInv, SentMarks
<1>11. TruthfulDelivery'
  <2>1. outcome[pending[i].call] = NoOutcome
    BY EntryTypes DEF QueueInv, CallAccounting, PendingCalls
  <2> QED
    BY SMTT(60), <1>6, <2>1 DEF QueueInv, TruthfulDelivery
<1> QED
  BY <1>8, <1>9, <1>10, <1>11 DEF QueueInv

\* An entry leaves the queue with an outcome.  Only the front completes, and
\* the outcome tells the truth about the delivery of the entry.
LEMMA QueueSettled ==
  ASSUME TypeOK, QueueInv, NEW i \in DOMAIN pending, NEW o \in Outcomes,
         Settle(i, o), o # NoOutcome,
         o.kind = "Completed" => i = 1,
         o.delivery = "PossiblySent" <=> pending[i].delivery = "PossiblySent"
  PROVE  QueueInv'
<1> DEFINE n == Len(pending)
           c == pending[i].call
<1>1. pending \in Seq(PendingEntries) /\ DOMAIN pending = 1..n /\ n \in Nat
      /\ c \in Calls /\ \A j \in DOMAIN pending : pending[j].call \in Calls
  BY SMTT(60), EntryTypes DEF TypeOK
<1>2. /\ DOMAIN pending' = 1..(n - 1)
      /\ \A j \in 1..(n - 1) :
           pending'[j] = IF j < i THEN pending[j] ELSE pending[j + 1]
  <2>1. /\ Without(pending, i) \in Seq(PendingEntries)
        /\ Len(Without(pending, i)) = n - 1
        /\ \A j \in 1..(n - 1) : Without(pending, i)[j]
                                  = IF j < i THEN pending[j] ELSE pending[j + 1]
    BY ZenonT(60), <1>1, WithoutFacts
  <2>2. pending' = Without(pending, i)
    BY ZenonT(60) DEF Settle
  <2> QED
    BY <1>1, <2>1, <2>2
<1>3. /\ adm' = adm /\ admissions' = admissions /\ handed' = handed
      /\ outcome'[c] = o
      /\ \A x \in Calls : x # c => outcome'[x] = outcome[x]
  <2>1. /\ outcome' = [outcome EXCEPT ![c] = o]
        /\ UNCHANGED <<adm, admissions, handed>>
    BY SMTT(60) DEF Settle
  <2>2. outcome \in [Calls -> Outcomes]
    BY SMTT(60) DEF TypeOK
  <2> QED
    BY SMTT(60), <1>1, <2>1, <2>2
<1>4. c \in PendingCalls /\ adm[c] # 0 /\ outcome[c] = NoOutcome
  BY SMTT(60), <1>1 DEF QueueInv, CallAccounting, PendingCalls
\* Where an entry of the new queue was before.
<1> DEFINE was(j) == IF j < i THEN j ELSE j + 1
<1>5. \A j \in DOMAIN pending' :
        was(j) \in DOMAIN pending /\ was(j) # i /\ pending'[j] = pending[was(j)]
  BY <1>1, <1>2
<1>6. \A j, k \in DOMAIN pending' : j < k => was(j) < was(k)
  BY SMTT(60), <1>1, <1>2
<1>7. \A j \in DOMAIN pending : j # i =>
        \E k \in DOMAIN pending' : pending'[k] = pending[j]
  <2>1. ASSUME NEW j \in DOMAIN pending, j # i
        PROVE  \E k \in DOMAIN pending' : pending'[k] = pending[j]
    <3>1. CASE j < i
      <4>1. j \in 1..(n - 1) /\ pending'[j] = pending[j]
        BY SMTT(60), <1>1, <1>2, <3>1
      <4> QED
        BY SMTT(60), <1>2, <4>1
    <3>2. CASE j > i
      <4>1. j - 1 \in 1..(n - 1) /\ pending'[j - 1] = pending[j]
        BY <1>1, <1>2, <3>2
      <4> QED
        BY SMTT(60), <1>2, <4>1
    <3> QED
      BY SMTT(60), <1>1, <2>1, <3>1, <3>2
  <2> QED
    BY <2>1
<1>8. PendingCalls' = PendingCalls \ {c}
  <2>1. ASSUME NEW x
        PROVE  x \in PendingCalls' <=> x \in PendingCalls /\ x # c
    <3>1. x \in PendingCalls' => x \in PendingCalls /\ x # c
      BY <1>5 DEF PendingCalls, QueueInv, CallAccounting
    <3>2. x \in PendingCalls /\ x # c => x \in PendingCalls'
      BY SMTT(60), <1>7 DEF PendingCalls
    <3> QED
      BY SMTT(60), <3>1, <3>2
  <2> QED
    BY <2>1
<1> HIDE DEF was, c
<1>9. CallAccounting'
  <2>1. \A j, k \in DOMAIN pending' :
          pending'[j].call = pending'[k].call => j = k
    <3>1. ASSUME NEW j \in DOMAIN pending', NEW k \in DOMAIN pending',
                 pending'[j].call = pending'[k].call
          PROVE  j = k
      <4>1. was(j) = was(k)
        BY SMTT(60), <1>5, <3>1 DEF QueueInv, CallAccounting
      <4> QED
        BY SMTT(60), <1>1, <1>2, <1>6, <4>1 DEF was
    <3> QED
      BY SMTT(60), <3>1
  <2>2. \A x \in PendingCalls' : adm'[x] # 0
    BY SMTT(60), <1>3, <1>8 DEF QueueInv, CallAccounting
  <2>3. \A x \in Calls :
          adm'[x] # 0 => (x \in PendingCalls' <=> outcome'[x] = NoOutcome)
    BY SMTT(60), <1>3, <1>8 DEF QueueInv, CallAccounting
  <2> QED
    BY SMTT(60), <2>1, <2>2, <2>3 DEF CallAccounting
<1>10. QueueSorted'
  <2>1. ASSUME NEW j \in DOMAIN pending', NEW k \in DOMAIN pending', j < k
        PROVE  adm[pending'[j].call] < adm[pending'[k].call]
    BY SMTT(60), <1>5, <1>6, <2>1 DEF QueueInv, QueueSorted
  <2> QED
    BY SMTT(60), <1>3, <2>1 DEF QueueInv, QueueSorted
<1>11. FifoCompletion'
  <2>1. ASSUME NEW x \in Calls, NEW y \in Calls,
               outcome'[x].kind = "Completed", adm'[y] # 0, adm'[y] < adm'[x],
               outcome'[y] = NoOutcome
        PROVE  FALSE
    <3>1. y # c /\ outcome[y] = NoOutcome /\ y \in PendingCalls
      BY SMTT(60), <1>3, <1>4, <2>1 DEF QueueInv, CallAccounting
    <3>2. x = c
      BY SMTT(60), <1>3, <2>1, <3>1 DEF QueueInv, FifoCompletion
    <3>3. i = 1
      BY SMTT(60), <1>3, <2>1, <3>2
    <3>4. PICK j \in DOMAIN pending : pending[j].call = y
      BY SMTT(60), <3>1 DEF PendingCalls
    <3>5. 1 < j
      BY SMTT(60), <1>1, <3>1, <3>3, <3>4 DEF c
    <3>6. adm[c] < adm[y]
      <4>1. \A a, b \in DOMAIN pending :
              a < b => adm[pending[a].call] < adm[pending[b].call]
        BY DEF QueueInv, QueueSorted
      <4>2. i \in DOMAIN pending /\ i < j
        BY SMTT(60), <3>3, <3>5
      <4> QED
        BY SMTT(60), <3>4, <4>1, <4>2 DEF c
    <3>7. adm[c] \in Nat /\ adm[y] \in Nat
      BY <1>1 DEF TypeOK
    <3> QED
      BY SMTT(60), <1>3, <2>1, <3>2, <3>6, <3>7
  <2> QED
    BY SMTT(60), <2>1 DEF FifoCompletion
<1>12. SentMarks'
  <2>1. SentMarks
    BY DEF QueueInv
  <2> QED
    BY ZenonT(60), <1>3, <1>5, <2>1 DEF SentMarks
<1>13. TruthfulDelivery'
  <2>1. c \in handed <=> o.delivery = "PossiblySent"
    BY DEF c, QueueInv, SentMarks
  <2> QED
    BY <1>3, <2>1 DEF QueueInv, TruthfulDelivery
<1>14. UniqueIdentities'
  <2>1. ASSUME NEW j \in DOMAIN pending', NEW k \in DOMAIN pending', j # k
        PROVE  was(j) # was(k)
    BY <1>1, <1>2, <1>6, <2>1 DEF was
  <2> QED
    BY <1>5, <2>1 DEF QueueInv, UniqueIdentities
<1> QED
  BY SMTT(60), <1>9, <1>10, <1>11, <1>12, <1>13, <1>14 DEF QueueInv

\* Every entry leaves the queue, failed.
LEMMA QueueLeft ==
  ASSUME TypeOK, QueueInv, NEW to, NEW k, NEW f, NEW x, NEW g,
         LeaveActive(to, k, f, x, g)
  PROVE  QueueInv'
<1>1. /\ pending' = <<>> /\ adm' = adm /\ admissions' = admissions
      /\ handed' = handed
      /\ \A c \in Calls : c \notin PendingCalls => outcome'[c] = outcome[c]
  BY SMTT(60) DEF LeaveActive
<1>2. \A c \in Calls : c \in PendingCalls =>
        /\ outcome'[c].kind = "Failed" /\ outcome'[c].delivery = DeliveryOf(c)
        /\ outcome'[c] # NoOutcome
  BY SMTT(60), OutcomeKinds DEF LeaveActive
<1>3. \A c \in Calls : c \in PendingCalls =>
        (DeliveryOf(c) = "PossiblySent" <=> c \in handed)
  BY DEF DeliveryOf, PendingCalls, QueueInv, SentMarks, CallAccounting
<1>4. DOMAIN pending' = {} /\ PendingCalls' = {}
  BY SMTT(60), <1>1 DEF PendingCalls
<1>5. CallAccounting'
  BY <1>1, <1>2, <1>4 DEF QueueInv, CallAccounting
<1>6. FifoCompletion'
  BY ZenonT(60), <1>1, <1>2, OutcomeKinds DEF QueueInv, FifoCompletion
<1>7. TruthfulDelivery'
  BY SMTT(60), <1>1, <1>2, <1>3 DEF QueueInv, TruthfulDelivery
<1>8. QueueSorted' /\ SentMarks' /\ UniqueIdentities'
  BY <1>1, <1>4 DEF QueueInv, QueueSorted, SentMarks, UniqueIdentities
<1> QED
  BY <1>5, <1>6, <1>7, <1>8 DEF QueueInv

\* Moving between the establishment stages leaves the queue alone.
LEMMA StagesKeepQueue ==
  /\ \A to, k, f, S : LeaveStage(to, k, f, S) => UNCHANGED queue
  /\ \A S : BecomeReady(S) => UNCHANGED queue
  /\ \A a : FollowChild(a) => UNCHANGED queue
<1>1. \A to, k, f, S : LeaveStage(to, k, f, S) => UNCHANGED queue
  BY DEF LeaveStage, queue, history
<1>2. \A S : BecomeReady(S) => UNCHANGED queue
  BY SMTT(60) DEF BecomeReady, queue, history
<1>3. \A a : FollowChild(a) => UNCHANGED queue
  BY <1>1, <1>2 DEF FollowChild, queue, history
<1> QED
  BY <1>1, <1>2, <1>3

\* No establishment input touches the queue: calls are admitted only once
\* the connection is ready.
LEMMA EstablishmentKeepsQueue ==
  ASSUME \/ OpeningInput
         \/ NegotiationInput
         \/ AuthenticationInput
         \/ \E t \in Timers : AuthenticationDeadlineElapsed(t)
  PROVE  UNCHANGED queue
<1>1. CASE OpeningInput
  BY ZenonT(60), <1>1, StagesKeepQueue
  DEF OpeningInput, Start, TransportOpened, TransportOpenFailed,
      OpenDeadlineElapsed, queue, history
<1>2. CASE NegotiationInput
  <2>1. \A f : NegotiationFailed(f) => UNCHANGED queue
    BY StagesKeepQueue DEF NegotiationFailed
  <2>2. \A f : AuthenticationSetupFailed(f) => UNCHANGED queue
    BY StagesKeepQueue DEF AuthenticationSetupFailed
  <2>3. \A e, caps : ApiVersionsNegotiated(e, caps) => UNCHANGED queue
    BY <2>1, <2>2, StagesKeepQueue DEF ApiVersionsNegotiated
  <2>4. \A e, f : ApiVersionsFailed(e, f) => UNCHANGED queue
    BY SMTT(60), <2>1 DEF ApiVersionsFailed
  <2>5. \A e, caps, e2, t, d :
          ApiVersionsNegotiatedWithAuthentication(e, caps, e2, t, d) =>
            UNCHANGED queue
    BY SMTT(60), <2>1, <2>2 DEF ApiVersionsNegotiatedWithAuthentication, queue, history
  <2>6. \A t : NegotiationDeadlineElapsed(t) => UNCHANGED queue
    BY SMTT(60), StagesKeepQueue DEF NegotiationDeadlineElapsed, queue, history
  <2> QED
    BY <1>2, <2>3, <2>4, <2>5, <2>6 DEF NegotiationInput
<1>3. CASE AuthenticationInput
  BY SMTT(60), <1>3, StagesKeepQueue
  DEF AuthenticationInput, HandshakeAccepted, HandshakeFailed,
      ExchangeContinued, ExchangeSucceeded, ExchangeFailed
<1>4. CASE \E t \in Timers : AuthenticationDeadlineElapsed(t)
  BY <1>4, StagesKeepQueue DEF AuthenticationDeadlineElapsed, queue, history
<1> QED
  BY <1>1, <1>2, <1>3, <1>4

\* QueueInv is inductive relative to TypeOK.
LEMMA QueueStep == TypeOK /\ QueueInv /\ [Next]_vars => QueueInv'
<1> SUFFICES ASSUME TypeOK, QueueInv, [Next]_vars
             PROVE  QueueInv'
  OBVIOUS
<1>1. CASE \/ OpeningInput \/ NegotiationInput \/ AuthenticationInput
           \/ \E t \in Timers : AuthenticationDeadlineElapsed(t)
  BY <1>1, EstablishmentKeepsQueue, QueueUntouched
<1>2. CASE Submit
  <2>1. PICK c \in Calls, d \in Moments :
          \/ SubmitRefused(c, d)
          \/ \E e \in Effects, t \in Timers :
               SubmitAdmitted(c, e, t, d) \/ SubmitExhausted(c, e, t, d)
    BY <1>2 DEF Submit
  <2>2. CASE SubmitRefused(c, d)
    BY ZenonT(60), <2>2, QueueRefused DEF SubmitRefused, machine
  <2>3. ASSUME NEW e \in Effects, NEW t \in Timers, SubmitAdmitted(c, e, t, d)
        PROVE  QueueInv'
    BY <2>3, QueueAdmitted
  <2>4. ASSUME NEW e \in Effects, NEW t \in Timers, SubmitExhausted(c, e, t, d)
        PROVE  QueueInv'
    BY ZenonT(60), <2>4, QueueRefused DEF SubmitExhausted
  <2> QED
    BY <2>1, <2>2, <2>3, <2>4
<1>3. CASE PendingInput
  <2>1. PICK i \in DOMAIN pending :
          \/ WriteSubmitted(i)
          \/ AbortUnsentCall(i)
          \/ \E f \in TransportFailures : WriteFailed(i, f)
          \/ CallDeadlineElapsed(i)
    BY <1>3 DEF PendingInput
  <2>2. CASE WriteSubmitted(i)
    BY SMTT(60), <2>2, QueueWritten
  <2>3. CASE AbortUnsentCall(i)
    <3> DEFINE o == Failed("LocallyRejected", NoReason, "NotSent")
    <3>1. o \in Outcomes /\ o # NoOutcome /\ o.kind # "Completed"
          /\ o.delivery = "NotSent"
      BY FailedType, ConstantTypes, OutcomeKinds DEF CallFailures
    <3>2. pending[i].delivery # "PossiblySent"
      <4>1. /\ pending[i].phase = "AwaitingWrite" /\ Settle(i, o)
        BY <2>3 DEF AbortUnsentCall
      <4>2. pending[i].delivery = "PossiblySent" =>
              pending[i].phase = "AwaitingResponse"
        BY DEF QueueInv, SentMarks
      <4> QED
        BY SMTT(60), <4>1, <4>2
    <3> QED
      BY SMTT(60), <2>3, <3>1, <3>2, QueueSettled DEF AbortUnsentCall
  <2>4. ASSUME NEW f \in TransportFailures, WriteFailed(i, f)
        PROVE  QueueInv'
    BY <2>4, QueueLeft DEF WriteFailed
  <2>5. CASE CallDeadlineElapsed(i)
    <3>1. CASE now < pending[i].deadline
      BY SMTT(60), <2>5, <3>1, QueueUntouched DEF CallDeadlineElapsed, queue, history
    <3>2. CASE ~(now < pending[i].deadline)
      BY <2>5, <3>2, QueueLeft DEF CallDeadlineElapsed
    <3> QED
      BY SMTT(60), <3>1, <3>2
  <2> QED
    BY SMTT(60), <2>1, <2>2, <2>3, <2>4, <2>5
<1>4. CASE Response
  <2>1. ASSUME NEW k \in Correlations, ResponseReceived(k)
        PROVE  QueueInv'
    <3>1. CASE FrontAwaitsResponse /\ Head(pending).corr = k
      <4>1. pending \in Seq(PendingEntries) /\ pending # <<>>
            /\ Head(pending).phase = "AwaitingResponse"
        BY <3>1 DEF FrontAwaitsResponse, TypeOK
      <4>2. 1 \in DOMAIN pending /\ Head(pending) = pending[1]
        BY <4>1
      <4>3. pending[1].delivery = "PossiblySent"
        BY <4>1, <4>2 DEF QueueInv, SentMarks
      <4>4. Completed \in Outcomes /\ Completed # NoOutcome
            /\ Completed.delivery = "PossiblySent"
        BY SMTT(60), ConstantTypes, OutcomeKinds
      <4> QED
        BY <2>1, <3>1, <4>2, <4>3, <4>4, QueueSettled DEF ResponseReceived
    <3>2. CASE ~(FrontAwaitsResponse /\ Head(pending).corr = k)
      BY SMTT(60), <2>1, <3>2, QueueLeft DEF ResponseReceived
    <3> QED
      BY SMTT(60), <3>1, <3>2
  <2>2. ASSUME NEW fault \in {"UnexpectedResponse", "MalformedResponse"},
               ResponseRejected(fault)
        PROVE  QueueInv'
    BY <2>2, QueueLeft DEF ResponseRejected
  <2> QED
    BY <1>4, <2>1, <2>2 DEF Response
<1>5. CASE BeginDrain
  <2>1. CASE phase = "Ready" /\ pending = <<>>
    BY SMTT(60), <1>5, <2>1, QueueLeft DEF BeginDrain
  <2>2. CASE ~(phase = "Ready" /\ pending = <<>>)
    BY SMTT(60), <1>5, <2>2, StagesKeepQueue, QueueUntouched
    DEF BeginDrain, queue, history
  <2> QED
    BY SMTT(60), <2>1, <2>2
<1>6. ASSUME NEW f \in TransportFailures, TransportClosed(f)
      PROVE  QueueInv'
  <2>1. CASE phase \in Active
    BY SMTT(60), <1>6, <2>1, QueueLeft DEF TransportClosed, Active
  <2>2. CASE phase \notin Active
    BY SMTT(60), <1>6, <2>2, StagesKeepQueue, QueueUntouched
    DEF TransportClosed, queue, history
  <2> QED
    BY SMTT(60), <2>1, <2>2
<1>7. CASE Tick \/ UNCHANGED vars
  BY SMTT(60), <1>7, QueueUntouched DEF Tick, vars, machine, queue, history
<1> QED
  BY <1>1, <1>2, <1>3, <1>4, <1>5, <1>6, <1>7 DEF Next

\* QueueInv holds of a new connection.
LEMMA QueueInit == Init => QueueInv
<1> SUFFICES ASSUME Init PROVE QueueInv
  OBVIOUS
<1>1. DOMAIN pending = {} /\ PendingCalls = {} /\ handed = {} /\ admissions = 0
  BY DEF Init, PendingCalls
<1>2. \A c \in Calls : outcome[c] = NoOutcome /\ adm[c] = 0
  BY DEF Init
<1>3. CallAccounting /\ SentMarks
  <2>1. CallAccounting
    BY <1>1, <1>2 DEF CallAccounting
  <2>2. SentMarks
    BY <1>1 DEF SentMarks
  <2> QED
    BY <2>1, <2>2
<1>4. QueueSorted /\ UniqueIdentities
  BY <1>1, <1>2 DEF QueueSorted, UniqueIdentities
<1>5. FifoCompletion
  BY <1>2, OutcomeKinds DEF FifoCompletion
<1>6. TruthfulDelivery
  BY <1>2 DEF TruthfulDelivery
<1> QED
  BY <1>3, <1>4, <1>5, <1>6 DEF QueueInv

\* The inductive invariant holds in every reachable state.
LEMMA QueueInvariant == Spec => [](TypeOK /\ QueueInv)
<1>1. Init => TypeOK /\ QueueInv
  BY TypeInit, QueueInit
<1>2. TypeOK /\ QueueInv /\ [Next]_vars => (TypeOK /\ QueueInv)'
  BY TypeStep, QueueStep
<1> QED
  BY <1>1, <1>2, PTL DEF Spec

\* No interleaving of responses, write results, aborts, deadlines, drain and
\* loss forgets an admitted call or settles one that is still queued.
THEOREM CallsAccountedFor == Spec => []CallAccounting
<1>1. QueueInv => CallAccounting
  BY DEF QueueInv
<1> QED
  BY <1>1, QueueInvariant, PTL

\* Responses complete calls in admission order.
THEOREM CompletionIsFifo == Spec => []FifoCompletion
<1>1. QueueInv => FifoCompletion
  BY DEF QueueInv
<1> QED
  BY <1>1, QueueInvariant, PTL

\* A failure reports NotSent exactly when the writer never took the frame.
THEOREM DeliveryIsTruthful == Spec => []TruthfulDelivery
<1>1. QueueInv => TruthfulDelivery
  BY DEF QueueInv
<1> QED
  BY <1>1, QueueInvariant, PTL

\* Correlation, effect and timer identities name one pending call each.
THEOREM IdentitiesAreUnique == Spec => []UniqueIdentities
<1>1. QueueInv => UniqueIdentities
  BY DEF QueueInv
<1> QED
  BY <1>1, QueueInvariant, PTL

-----------------------------------------------------------------------------
(* A settled call stays settled. *)

Kept == \A c \in Calls : outcome[c] # NoOutcome => outcome'[c] = outcome[c]

\* No input changes the outcome of a settled call.
LEMMA SettledStep == TypeOK /\ QueueInv /\ [Next]_vars => Kept
<1> SUFFICES ASSUME TypeOK, QueueInv, [Next]_vars
             PROVE  Kept
  OBVIOUS
<1>1. ASSUME UNCHANGED queue PROVE Kept
  BY <1>1 DEF Kept, queue
<1>2. ASSUME NEW c \in Calls, outcome[c] = NoOutcome, NEW o,
             outcome' = [outcome EXCEPT ![c] = o]
      PROVE  Kept
  BY SMTT(60), <1>2 DEF Kept, TypeOK
<1>3. \A i \in DOMAIN pending :
        pending[i].call \in Calls /\ outcome[pending[i].call] = NoOutcome
  BY EntryTypes DEF QueueInv, CallAccounting, PendingCalls
<1>4. ASSUME NEW i \in DOMAIN pending, NEW o, Settle(i, o)
      PROVE  Kept
  BY ZenonT(60), <1>2, <1>3, <1>4 DEF Settle
<1>5. ASSUME NEW to, NEW k, NEW f, NEW x, NEW g, LeaveActive(to, k, f, x, g)
      PROVE  Kept
  BY <1>3, <1>5 DEF LeaveActive, Kept, PendingCalls
<1>6. CASE \/ OpeningInput \/ NegotiationInput \/ AuthenticationInput
           \/ \E t \in Timers : AuthenticationDeadlineElapsed(t)
  BY SMTT(60), <1>1, <1>6, EstablishmentKeepsQueue
<1>7. CASE Submit
  BY SMTT(180), <1>1, <1>2, <1>7
  DEF Submit, SubmitRefused, SubmitAdmitted, SubmitExhausted, Fresh, Kept
<1>8. CASE PendingInput
  <2>1. PICK i \in DOMAIN pending :
          \/ WriteSubmitted(i)
          \/ AbortUnsentCall(i)
          \/ \E f \in TransportFailures : WriteFailed(i, f)
          \/ CallDeadlineElapsed(i)
    BY <1>8 DEF PendingInput
  <2>2. CASE WriteSubmitted(i)
    BY SMTT(60), <2>2 DEF WriteSubmitted, Kept
  <2>3. CASE AbortUnsentCall(i)
    BY SMTT(60), <1>4, <2>3 DEF AbortUnsentCall
  <2>4. CASE \E f \in TransportFailures : WriteFailed(i, f)
    BY <1>5, <2>4 DEF WriteFailed
  <2>5. CASE CallDeadlineElapsed(i)
    BY ZenonT(60), <1>1, <1>5, <2>5 DEF CallDeadlineElapsed, queue, history
  <2> QED
    BY <2>1, <2>2, <2>3, <2>4, <2>5
<1>9. CASE Response
  <2>1. ASSUME NEW k \in Correlations, ResponseReceived(k)
        PROVE  Kept
    <3>1. CASE FrontAwaitsResponse /\ Head(pending).corr = k
      <4>1. 1 \in DOMAIN pending
        BY SMTT(60), <3>1 DEF FrontAwaitsResponse, TypeOK
      <4> QED
        BY ZenonT(60), <1>4, <2>1, <3>1, <4>1 DEF ResponseReceived
    <3>2. CASE ~(FrontAwaitsResponse /\ Head(pending).corr = k)
      BY SMTT(60), <1>5, <2>1, <3>2 DEF ResponseReceived
    <3> QED
      BY <3>1, <3>2
  <2> QED
    BY <1>5, <1>9, <2>1 DEF Response, ResponseRejected
<1>10. CASE BeginDrain
  BY SMTT(60), <1>1, <1>5, <1>10, StagesKeepQueue DEF BeginDrain, queue, history
<1>11. CASE \E f \in TransportFailures : TransportClosed(f)
  BY SMTT(60), <1>1, <1>5, <1>11, StagesKeepQueue DEF TransportClosed, queue, history
<1>12. CASE Tick \/ UNCHANGED vars
  BY <1>1, <1>12 DEF Tick, vars, machine, queue, history
<1> QED
  BY <1>6, <1>7, <1>8, <1>9, <1>10, <1>11, <1>12 DEF Next

\* The submitter of a call is told its outcome once.
THEOREM OutcomesAreFinal == Spec => SettledOnce
<1>1. TypeOK /\ QueueInv /\ [Next]_vars =>
        [\A c \in Calls : outcome[c] # NoOutcome => outcome'[c] = outcome[c]]_vars
  BY SettledStep DEF Kept
<1> QED
  BY <1>1, QueueInvariant, PTL DEF Spec, SettledOnce

-----------------------------------------------------------------------------
(* Timers.  Outside an active connection no call is queued, so that the      *)
(* timers of the queue are none.                                             *)

TimerInv ==
  /\ phase \notin Active => pending = <<>>
  /\ TimersExact

Stage == {"Dormant", "Opening", "Negotiating", "Authenticating"}

\* Without queued calls there are no timers of calls.
LEMMA NoPendingTimers ==
  /\ pending = <<>> => PendingTimers = {}
  /\ pending' = <<>> => PendingTimers' = {}
  BY DEF PendingTimers

\* Timers and queue belong to each other while the phase is kept.
LEMMA TimersUntouched ==
  ASSUME TimerInv, UNCHANGED <<phase, stage, auth, pending, armed>>
  PROVE  TimerInv'
  BY DEF TimerInv, TimersExact, OwnedTimers, PendingTimers

\* A stage is left for a phase without a queue: its timer is cancelled.
LEMMA TimersStageLeft ==
  ASSUME TimerInv, phase \in Stage, NEW to \in Over, NEW k, NEW f, NEW S,
         LeaveStage(to, k, f, S), OwnedTimers \subseteq S
  PROVE  TimerInv'
<1>1. pending = <<>> /\ pending' = <<>> /\ armed' = {}
  BY DEF TimerInv, TimersExact, LeaveStage, Stage, Active
<1>2. phase' \in Over
  BY DEF LeaveStage
<1> QED BY <1>1, <1>2, NoPendingTimers
        DEF TimerInv, TimersExact, OwnedTimers, Over, Active

\* The connection becomes ready with an empty queue.
LEMMA TimersReady ==
  ASSUME TimerInv, phase \in Stage, NEW S, BecomeReady(S), OwnedTimers \subseteq S
  PROVE  TimerInv'
<1>1. pending = <<>> /\ pending' = <<>> /\ armed' = {} /\ phase' = "Ready"
  BY DEF TimerInv, TimersExact, BecomeReady, Stage, Active
<1> QED BY <1>1, NoPendingTimers DEF TimerInv, TimersExact, OwnedTimers, Active

\* An active connection is left: the timers of all its calls are cancelled.
LEMMA TimersActiveLeft ==
  ASSUME TimerInv, phase \in Active, NEW to \in Over, NEW k, NEW f, NEW x, NEW g,
         LeaveActive(to, k, f, x, g)
  PROVE  TimerInv'
<1>1. pending' = <<>> /\ armed' = armed \ PendingTimers /\ phase' \in Over
  BY DEF LeaveActive
<1>2. armed = PendingTimers
  BY DEF TimerInv, TimersExact, OwnedTimers, Active
<1> QED BY <1>1, <1>2, NoPendingTimers
        DEF TimerInv, TimersExact, OwnedTimers, Over, Active

\* The child that a step of the authentication leaves behind keeps its timer.
LEMMA ChildTimers ==
  ASSUME TypeOK
  PROVE  /\ AuthHandshakeAccepted(auth).timer = auth.timer
         /\ \A f : AuthFail(auth, f).timer = auth.timer
         /\ AuthContinue(auth).timer = auth.timer
         /\ AuthSucceed(auth).timer = auth.timer
<1>1. auth \in AuthStates
  BY DEF TypeOK
<1> QED BY <1>1 DEF AuthHandshakeAccepted, AuthFail, AuthContinue, AuthSucceed, AuthStates

\* The timer of the authentication follows the child that owns it.
LEMMA TimersFollowChild ==
  ASSUME TimerInv, phase = "Authenticating", NEW child, child.timer = auth.timer,
         FollowChild(child)
  PROVE  TimerInv'
<1>1. OwnedTimers = {child.timer} /\ phase \in Stage /\ "Closing" \in Over
  BY DEF OwnedTimers, Stage, Over
<1>2. CASE BecomeReady({child.timer})
  BY <1>1, <1>2, TimersReady
<1>3. CASE LeaveStage("Closing", "AuthenticationFailed", child.failure, {child.timer})
  BY <1>1, <1>3, TimersStageLeft
<1>4. CASE /\ auth' = child
           /\ UNCHANGED <<phase, reason, stage, pending, nextCorr, now, armed, history>>
  BY <1>1, <1>4 DEF TimerInv, TimersExact, OwnedTimers, Active
<1> QED BY <1>2, <1>3, <1>4 DEF FollowChild

\* The timers of the establishment stages, one step per input.
LEMMA TimersEstablishing ==
  ASSUME TypeOK, TimerInv,
         \/ OpeningInput
         \/ NegotiationInput
         \/ AuthenticationInput
         \/ \E t \in Timers : AuthenticationDeadlineElapsed(t)
  PROVE  TimerInv'
<1> USE DEF Stage, Over
<1>1. ASSUME NEW e, NEW t, NEW d, Start(e, t, d)
      PROVE  TimerInv'
  BY <1>1, NoPendingTimers
  DEF Start, TimerInv, TimersExact, OwnedTimers, Active
<1>2. ASSUME NEW e, NEW e2, NEW t, NEW d, TransportOpened(e, e2, t, d)
      PROVE  TimerInv'
  <2>1. OwnedTimers = {stage.timer} /\ phase \in Stage
    BY <1>2 DEF TransportOpened, OwnedTimers
  <2>2. CASE d <= now
    BY <1>2, <2>1, <2>2, TimersStageLeft DEF TransportOpened
  <2>3. CASE ~(d <= now)
    BY <1>2, <2>1, <2>3
    DEF TransportOpened, TimerInv, TimersExact, OwnedTimers, Active
  <2> QED BY <2>2, <2>3
<1>3. ASSUME NEW e, NEW f, TransportOpenFailed(e, f)
      PROVE  TimerInv'
  BY <1>3, TimersStageLeft DEF TransportOpenFailed, OwnedTimers
<1>4. ASSUME NEW t, OpenDeadlineElapsed(t)
      PROVE  TimerInv'
  <2>1. OwnedTimers = {t} /\ phase \in Stage
    BY <1>4 DEF OpenDeadlineElapsed, OwnedTimers
  <2>2. CASE now < stage.deadline
    BY <1>4, <2>1, <2>2
    DEF OpenDeadlineElapsed, TimerInv, TimersExact, OwnedTimers, Active
  <2>3. CASE ~(now < stage.deadline)
    BY <1>4, <2>1, <2>3, TimersStageLeft DEF OpenDeadlineElapsed
  <2> QED BY <2>2, <2>3
<1>5. ASSUME phase = "Negotiating", NEW f,
             NegotiationFailed(f) \/ AuthenticationSetupFailed(f)
      PROVE  TimerInv'
  BY <1>5, TimersStageLeft
  DEF NegotiationFailed, AuthenticationSetupFailed, OwnedTimers
<1>6. ASSUME NEW e, NEW caps, ApiVersionsNegotiated(e, caps)
      PROVE  TimerInv'
  BY <1>5, <1>6, TimersReady
  DEF ApiVersionsNegotiated, AwaitsApiVersions, OwnedTimers
<1>7. ASSUME NEW e, NEW caps, NEW e2, NEW t, NEW d,
             ApiVersionsNegotiatedWithAuthentication(e, caps, e2, t, d)
      PROVE  TimerInv'
  <2>1. phase = "Negotiating"
    BY <1>7 DEF ApiVersionsNegotiatedWithAuthentication, AwaitsApiVersions
  <2>2. CASE phase' = "Authenticating" /\ auth' = AuthStart(e2, t, now, d)
             /\ AuthStart(e2, t, now, d).stage = "Handshaking"
             /\ armed' = (armed \ {stage.timer}) \cup {t}
             /\ UNCHANGED pending
    <3>1. auth'.timer = t
      BY <2>2 DEF AuthStart, AuthDormant, AuthFail
    <3> QED BY <2>1, <2>2, <3>1 DEF TimerInv, TimersExact, OwnedTimers, Active
  <2> QED BY <1>5, <1>7, <2>1, <2>2 DEF ApiVersionsNegotiatedWithAuthentication
<1>8. ASSUME NEW e, NEW f, ApiVersionsFailed(e, f)
      PROVE  TimerInv'
  BY <1>5, <1>8 DEF ApiVersionsFailed, AwaitsApiVersions
<1>9. ASSUME NEW t, NegotiationDeadlineElapsed(t)
      PROVE  TimerInv'
  <2>1. OwnedTimers = {t} /\ phase \in Stage
    BY <1>9 DEF NegotiationDeadlineElapsed, OwnedTimers
  <2>2. CASE now < stage.deadline
    BY <1>9, <2>1, <2>2
    DEF NegotiationDeadlineElapsed, TimerInv, TimersExact, OwnedTimers, Active
  <2>3. CASE ~(now < stage.deadline)
    BY <1>9, <2>1, <2>3, TimersStageLeft DEF NegotiationDeadlineElapsed
  <2> QED BY <2>2, <2>3
<1>10. CASE AuthenticationInput
  BY <1>10, ChildTimers, TimersFollowChild
  DEF AuthenticationInput, HandshakeAccepted, HandshakeFailed,
      ExchangeContinued, ExchangeSucceeded, ExchangeFailed
<1>11. ASSUME NEW t, AuthenticationDeadlineElapsed(t)
       PROVE  TimerInv'
  <2>1. OwnedTimers = {t} /\ phase = "Authenticating"
    BY <1>11 DEF AuthenticationDeadlineElapsed, OwnedTimers
  <2>2. CASE now < auth.deadline
    BY <1>11, <2>1, <2>2
    DEF AuthenticationDeadlineElapsed, TimerInv, TimersExact, OwnedTimers, Active
  <2>3. CASE ~(now < auth.deadline)
    BY <1>11, <2>1, <2>3, ChildTimers, TimersFollowChild
    DEF AuthenticationDeadlineElapsed
  <2> QED BY <2>2, <2>3
<1> QED
  BY <1>1, <1>2, <1>3, <1>4, <1>6, <1>7, <1>8, <1>9, <1>10, <1>11
  DEF OpeningInput, NegotiationInput

\* Settling an entry cancels its timer and no other: timers are not shared.
LEMMA TimersSettled ==
  ASSUME TypeOK, QueueInv, TimerInv, phase \in Active, NEW i \in DOMAIN pending,
         NEW o, Settle(i, o)
  PROVE  TimerInv'
<1> DEFINE n == Len(pending)
<1>1. pending \in Seq(PendingEntries) /\ DOMAIN pending = 1..n /\ n \in Nat
  BY EntryTypes DEF TypeOK
<1>2. /\ pending' = Without(pending, i) /\ armed' = armed \ {pending[i].timer}
      /\ UNCHANGED <<stage, auth>>
      /\ IF phase = "Draining" /\ n = 1 THEN phase' = "Closing" ELSE phase' = phase
  BY DEF Settle
<1>3. /\ pending' \in Seq(PendingEntries) /\ Len(pending') = n - 1
      /\ \A j \in 1..(n - 1) :
           pending'[j] = IF j < i THEN pending[j] ELSE pending[j + 1]
  BY <1>1, <1>2, WithoutFacts
<1>4. DOMAIN pending' = 1..(n - 1)
  BY <1>1, <1>3
<1>5. armed = PendingTimers
  BY DEF TimerInv, TimersExact, OwnedTimers, Active
<1>6. \A x : x \in PendingTimers' <=> x \in PendingTimers /\ x # pending[i].timer
  <2> SUFFICES ASSUME NEW x
               PROVE  x \in PendingTimers' <=> x \in PendingTimers /\ x # pending[i].timer
    OBVIOUS
  <2>1. \A j \in DOMAIN pending : j # i => pending[j].timer # pending[i].timer
    BY DEF QueueInv, UniqueIdentities
  <2>2. ASSUME x \in PendingTimers'
        PROVE  x \in PendingTimers /\ x # pending[i].timer
    <3>1. PICK j \in 1..(n - 1) : pending'[j].timer = x
      BY <1>4, <2>2 DEF PendingTimers
    <3>2. PICK k \in DOMAIN pending : k # i /\ pending'[j] = pending[k]
      <4>1. CASE j < i
        <5>1. j \in DOMAIN pending /\ j # i /\ pending'[j] = pending[j]
          BY <1>1, <1>3, <4>1
        <5> QED BY <5>1
      <4>2. CASE ~(j < i)
        <5>1. j + 1 \in DOMAIN pending /\ j + 1 # i /\ pending'[j] = pending[j + 1]
          BY <1>1, <1>3, <4>2
        <5> QED BY <5>1
      <4> QED BY <4>1, <4>2
    <3> QED BY <2>1, <3>1, <3>2 DEF PendingTimers
  <2>3. ASSUME x \in PendingTimers, x # pending[i].timer
        PROVE  x \in PendingTimers'
    <3>1. PICK k \in DOMAIN pending : pending[k].timer = x /\ k # i
      BY <2>3 DEF PendingTimers
    <3>2. PICK j \in 1..(n - 1) : pending'[j] = pending[k]
      <4>1. CASE k < i
        BY <1>1, <1>3, <4>1
      <4>2. CASE k > i
        <5>1. k - 1 \in 1..(n - 1) /\ pending'[k - 1] = pending[k]
          BY <1>1, <1>3, <4>2
        <5> QED BY <5>1
      <4> QED BY <1>1, <3>1, <4>1, <4>2
    <3> QED BY <1>4, <3>1, <3>2 DEF PendingTimers
  <2> QED BY <2>2, <2>3
<1>7. armed' = PendingTimers'
  BY <1>2, <1>5, <1>6
<1>8. phase' \notin Active => pending' = <<>>
  BY <1>1, <1>2, <1>3 DEF Active
<1>9. phase' \notin {"Opening", "Negotiating", "Authenticating"}
  BY <1>2 DEF Active
<1> QED BY <1>7, <1>8, <1>9 DEF TimerInv, TimersExact, OwnedTimers

\* TimerInv is inductive relative to TypeOK and QueueInv.
LEMMA TimersStep == TypeOK /\ QueueInv /\ TimerInv /\ [Next]_vars => TimerInv'
<1> SUFFICES ASSUME TypeOK, QueueInv, TimerInv, [Next]_vars
             PROVE  TimerInv'
  OBVIOUS
<1>1. CASE \/ OpeningInput \/ NegotiationInput \/ AuthenticationInput
           \/ \E t \in Timers : AuthenticationDeadlineElapsed(t)
  BY <1>1, TimersEstablishing
<1>2. CASE Submit
  <2>1. PICK c \in Calls, d \in Moments :
          \/ SubmitRefused(c, d)
          \/ \E e \in Effects, t \in Timers :
               SubmitAdmitted(c, e, t, d) \/ SubmitExhausted(c, e, t, d)
    BY <1>2 DEF Submit
  <2>2. CASE SubmitRefused(c, d)
    BY <2>2, TimersUntouched DEF SubmitRefused, machine
  <2>3. ASSUME NEW e \in Effects, NEW t \in Timers, SubmitAdmitted(c, e, t, d)
        PROVE  TimerInv'
    <3>1. PICK entry : pending' = Append(pending, entry) /\ entry.timer = t
      BY <2>3 DEF SubmitAdmitted
    <3>2. armed' = armed \cup {t} /\ UNCHANGED <<phase, stage, auth>>
          /\ SubmitRefusal(d) = NoFailure
      BY <2>3 DEF SubmitAdmitted
    <3>3. phase = "Ready"
      BY <3>2 DEF SubmitRefusal, FailureForClosedState, NoFailure
    <3>4. pending \in Seq(PendingEntries) /\ Len(pending) \in Nat
      BY DEF TypeOK
    <3>5. /\ DOMAIN pending' = 1..(Len(pending) + 1) /\ DOMAIN pending = 1..Len(pending)
          /\ pending'[Len(pending) + 1] = entry
          /\ \A j \in 1..Len(pending) : pending'[j] = pending[j]
      BY <3>1, <3>4
    <3>6. PendingTimers' = PendingTimers \cup {t}
      <4>1. \A x : x \in PendingTimers' <=> x \in PendingTimers \/ x = t
        BY <3>1, <3>4, <3>5 DEF PendingTimers
      <4> QED BY <4>1
    <3> QED BY <3>2, <3>3, <3>6 DEF TimerInv, TimersExact, OwnedTimers, Active
  <2>4. ASSUME NEW e \in Effects, NEW t \in Timers, SubmitExhausted(c, e, t, d)
        PROVE  TimerInv'
    BY <2>4, TimersUntouched DEF SubmitExhausted
  <2> QED BY <2>1, <2>2, <2>3, <2>4
<1>3. CASE PendingInput
  <2>1. PICK i \in DOMAIN pending :
          \/ WriteSubmitted(i)
          \/ AbortUnsentCall(i)
          \/ \E f \in TransportFailures : WriteFailed(i, f)
          \/ CallDeadlineElapsed(i)
    BY <1>3 DEF PendingInput
  <2>2. CASE WriteSubmitted(i)
    <3>1. pending \in Seq(PendingEntries)
      BY DEF TypeOK
    <3>2. /\ DOMAIN pending' = DOMAIN pending
          /\ \A j \in DOMAIN pending : pending'[j].timer = pending[j].timer
      BY <2>2, <3>1 DEF WriteSubmitted, PendingEntries
    <3>3. PendingTimers' = PendingTimers
      BY <3>2 DEF PendingTimers
    <3>4. UNCHANGED <<phase, stage, auth, armed>> /\ phase \in Active
      BY <2>2 DEF WriteSubmitted
    <3> QED BY <3>3, <3>4 DEF TimerInv, TimersExact, OwnedTimers, Active
  <2>3. CASE AbortUnsentCall(i)
    BY <2>3, TimersSettled DEF AbortUnsentCall
  <2>4. CASE \E f \in TransportFailures : WriteFailed(i, f)
    BY <2>4, TimersActiveLeft DEF WriteFailed, Over
  <2>5. CASE CallDeadlineElapsed(i)
    <3>1. CASE now < pending[i].deadline
      <4>1. armed = PendingTimers /\ pending[i].timer \in PendingTimers
        BY <2>5 DEF CallDeadlineElapsed, TimerInv, TimersExact, OwnedTimers, Active,
                    PendingTimers
      <4>2. armed' = armed
        BY <2>5, <3>1, <4>1 DEF CallDeadlineElapsed
      <4> QED BY <2>5, <3>1, <4>2, TimersUntouched DEF CallDeadlineElapsed
    <3>2. CASE ~(now < pending[i].deadline)
      BY <2>5, <3>2, TimersActiveLeft DEF CallDeadlineElapsed, Over
    <3> QED BY <3>1, <3>2
  <2> QED BY <2>1, <2>2, <2>3, <2>4, <2>5
<1>4. CASE Response
  <2>1. ASSUME NEW k \in Correlations, ResponseReceived(k)
        PROVE  TimerInv'
    <3>1. CASE FrontAwaitsResponse /\ Head(pending).corr = k
      <4>1. 1 \in DOMAIN pending
        BY <3>1 DEF FrontAwaitsResponse, TypeOK
      <4> QED BY <2>1, <3>1, <4>1, TimersSettled DEF ResponseReceived
    <3>2. CASE ~(FrontAwaitsResponse /\ Head(pending).corr = k)
      BY <2>1, <3>2, TimersActiveLeft DEF ResponseReceived, Over
    <3> QED BY <3>1, <3>2
  <2> QED BY <1>4, <2>1, TimersActiveLeft DEF Response, ResponseRejected, Over
<1>5. CASE BeginDrain
  <2>1. CASE phase = "Ready"
    <3>1. CASE pending = <<>>
      BY <1>5, <2>1, <3>1, TimersActiveLeft DEF BeginDrain, Over, Active
    <3>2. CASE pending # <<>>
      BY <1>5, <2>1, <3>2
      DEF BeginDrain, TimerInv, TimersExact, OwnedTimers, PendingTimers, Active
    <3> QED BY <3>1, <3>2
  <2>2. CASE phase \in Stage
    <3>1. CASE phase = "Dormant"
      <4>1. OwnedTimers = {}
        BY <3>1, NoPendingTimers DEF OwnedTimers, TimerInv, Active
      <4> QED BY <1>5, <2>2, <3>1, <4>1, TimersStageLeft DEF BeginDrain, Over
    <3>2. CASE phase # "Dormant"
      <4>1. OwnedTimers = StageTimer
        BY <2>2, <3>2 DEF OwnedTimers, StageTimer, Stage
      <4> QED BY <1>5, <2>2, <3>2, <4>1, TimersStageLeft DEF BeginDrain, Over, Stage
    <3> QED BY <3>1, <3>2
  <2> QED BY <1>5, <2>1, <2>2 DEF BeginDrain, Stage
<1>6. ASSUME NEW f \in TransportFailures, TransportClosed(f)
      PROVE  TimerInv'
  <2>1. CASE phase \in Active
    BY <1>6, <2>1, TimersActiveLeft DEF TransportClosed, Active, Over
  <2>2. CASE phase \in {"Opening", "Negotiating", "Authenticating"}
    <3>1. OwnedTimers = StageTimer
      BY <2>2 DEF OwnedTimers, StageTimer
    <3> QED BY <1>6, <2>2, <3>1, TimersStageLeft DEF TransportClosed, Active, Over, Stage
  <2>3. CASE phase = "Closing"
    BY <1>6, <2>3
    DEF TransportClosed, TimerInv, TimersExact, OwnedTimers, PendingTimers, Active
  <2> QED BY <1>6, <2>1, <2>2, <2>3 DEF TransportClosed
<1>7. CASE Tick \/ UNCHANGED vars
  BY <1>7, TimersUntouched DEF Tick, vars, machine, history
<1> QED
  BY <1>1, <1>2, <1>3, <1>4, <1>5, <1>6, <1>7 DEF Next

\* A new connection has scheduled nothing.
LEMMA TimersInit == Init => TimerInv
  BY NoPendingTimers DEF Init, TimerInv, TimersExact, OwnedTimers

\* Every timer that is running belongs to the stage or to a queued call, and
\* each of those has its timer running: no transition leaks or loses one.
THEOREM TimersAreExact == Spec => []TimersExact
<1>1. Init => TimerInv
  BY TimersInit
<1>2. TypeOK /\ QueueInv /\ TimerInv /\ [Next]_vars => TimerInv'
  BY TimersStep
<1>3. TimerInv => TimersExact
  BY DEF TimerInv
<1> QED
  BY <1>1, <1>2, <1>3, QueueInvariant, PTL DEF Spec

-----------------------------------------------------------------------------
(* Blame.  Until the connection is over no call has been failed for its      *)
(* close, so that the step that closes it decides about all of them.         *)

IsBlamed(c) ==
  adm[c] # 0 /\ outcome[c].failure \in {"CorrelationMismatch", "DeadlineExceeded"}

BlameInv ==
  /\ \A c \in Calls : outcome[c].failure = "ConnectionClosed" =>
       phase \in Over /\ outcome[c].reason = reason
  /\ \A c \in Calls : IsBlamed(c) =>
       phase \in Over /\ reason.kind = outcome[c].failure
  /\ \A c, d \in Calls : IsBlamed(c) /\ IsBlamed(d) => c = d

\* The failure and the reason that an outcome carries.
LEMMA OutcomeFields ==
  /\ NoOutcome.failure = NoFailure /\ Completed.failure = NoFailure
  /\ \A f, r, dl : /\ Failed(f, r, dl).failure = f
                   /\ Failed(f, r, dl).reason = r
  BY DEF NoOutcome, Completed, Failed

\* No outcome changes, before the connection is over or while it stays over.
LEMMA BlameUntouched ==
  ASSUME BlameInv, UNCHANGED <<outcome, adm>>,
         phase \in Over => phase' \in Over /\ reason' = reason
  PROVE  BlameInv'
  BY DEF BlameInv, IsBlamed

\* One call gets an outcome that blames nobody, unless the connection is over.
LEMMA BlameOne ==
  ASSUME TypeOK, BlameInv, NEW c \in Calls, NEW o,
         outcome' = [outcome EXCEPT ![c] = o],
         adm' = adm, phase \in Over => phase' \in Over /\ reason' = reason,
         o.failure = "ConnectionClosed" => phase \in Over /\ o.reason = reason,
         adm[c] = 0 \/ o.failure \notin {"CorrelationMismatch", "DeadlineExceeded"}
  PROVE  BlameInv'
<1>1. /\ outcome'[c] = o /\ \A d \in Calls : d # c => outcome'[d] = outcome[d]
  BY DEF TypeOK
<1>2. /\ ~IsBlamed(c)'
      /\ \A d \in Calls : d # c => (IsBlamed(d)' <=> IsBlamed(d))
  BY <1>1 DEF IsBlamed
<1> QED BY <1>1, <1>2 DEF BlameInv

\* All queued calls are failed when an active connection closes; the culprit,
\* if there is one, for the kind of failure that closes it.
LEMMA BlameLeft ==
  ASSUME BlameInv, phase \in Active, NEW to \in Over, NEW k, NEW f, NEW x, NEW g,
         LeaveActive(to, k, f, x, g), x \in Calls => g = k /\ g # "ConnectionClosed"
  PROVE  BlameInv'
<1>1. /\ phase' \in Over /\ reason' = Reason(k, f) /\ adm' = adm
      /\ \A c \in Calls : outcome'[c] =
           IF c \notin PendingCalls THEN outcome[c]
           ELSE IF c = x THEN Failed(g, NoReason, DeliveryOf(c))
           ELSE Failed("ConnectionClosed", Reason(k, f), DeliveryOf(c))
  BY DEF LeaveActive
<1>2. \A c \in Calls : ~IsBlamed(c) /\ outcome[c].failure # "ConnectionClosed"
  BY DEF BlameInv, Active, Over
<1>3. ASSUME NEW c \in Calls
      PROVE  \/ outcome'[c] = outcome[c]
             \/ c = x /\ outcome'[c].failure = g /\ outcome'[c].reason = NoReason
             \/ c # x /\ outcome'[c].failure = "ConnectionClosed"
                /\ outcome'[c].reason = Reason(k, f)
  <2>1. CASE c \notin PendingCalls
    BY <1>1, <2>1
  <2>2. CASE c \in PendingCalls /\ c = x
    <3>1. outcome'[c] = Failed(g, NoReason, DeliveryOf(c))
      BY <1>1, <2>2
    <3> QED BY <2>2, <3>1 DEF Failed
  <2>3. CASE c \in PendingCalls /\ c # x
    <3>1. outcome'[c] = Failed("ConnectionClosed", Reason(k, f), DeliveryOf(c))
      BY <1>1, <2>3
    <3> QED BY <2>3, <3>1 DEF Failed
  <2> QED BY <2>1, <2>2, <2>3
<1>4. \A c \in Calls : IsBlamed(c)' => c = x /\ outcome'[c].failure = g
  BY <1>1, <1>2, <1>3 DEF IsBlamed
<1>5. Reason(k, f).kind = k
  BY DEF Reason
<1>6. \A c \in Calls : outcome'[c].failure = "ConnectionClosed" =>
        phase' \in Over /\ outcome'[c].reason = reason'
  <2> SUFFICES ASSUME NEW c \in Calls, outcome'[c].failure = "ConnectionClosed"
               PROVE  outcome'[c].reason = reason'
    BY <1>1
  <2> QED BY <1>1, <1>2, <1>3
<1> QED BY <1>1, <1>4, <1>5, <1>6 DEF BlameInv

\* BlameInv is inductive relative to TypeOK and QueueInv.
LEMMA BlameStep == TypeOK /\ QueueInv /\ BlameInv /\ [Next]_vars => BlameInv'
<1> SUFFICES ASSUME TypeOK, QueueInv, BlameInv, [Next]_vars
             PROVE  BlameInv'
  OBVIOUS
<1>0. NoId \notin Calls
  BY IdentityAssumption
<1>1. CASE \/ OpeningInput \/ NegotiationInput \/ AuthenticationInput
           \/ \E t \in Timers : AuthenticationDeadlineElapsed(t)
  <2>1. UNCHANGED <<outcome, adm>>
    BY <1>1, EstablishmentKeepsQueue DEF queue
  <2>2. CASE OpeningInput
    BY <2>1, <2>2, BlameUntouched
    DEF OpeningInput, Start, TransportOpened, TransportOpenFailed,
        OpenDeadlineElapsed, Over
  <2>3. CASE NegotiationInput
    BY <2>1, <2>3, BlameUntouched
    DEF NegotiationInput, AwaitsApiVersions, ApiVersionsNegotiated,
        ApiVersionsNegotiatedWithAuthentication, ApiVersionsFailed,
        NegotiationDeadlineElapsed, Over
  <2>4. CASE AuthenticationInput
    BY <2>1, <2>4, BlameUntouched
    DEF AuthenticationInput, HandshakeAccepted, HandshakeFailed,
        ExchangeContinued, ExchangeSucceeded, ExchangeFailed, Over
  <2>5. CASE \E t \in Timers : AuthenticationDeadlineElapsed(t)
    BY <2>1, <2>5, BlameUntouched DEF AuthenticationDeadlineElapsed, Over
  <2> QED BY <1>1, <2>2, <2>3, <2>4, <2>5
<1>2. CASE Submit
  <2>1. PICK c \in Calls, d \in Moments :
          \/ SubmitRefused(c, d)
          \/ \E e \in Effects, t \in Timers :
               SubmitAdmitted(c, e, t, d) \/ SubmitExhausted(c, e, t, d)
    BY <1>2 DEF Submit
  <2>2. CASE SubmitRefused(c, d)
    <3> DEFINE o == Failed(SubmitRefusal(d), reason, "NotSent")
    <3>1. o.failure = "ConnectionClosed" => phase \in Over /\ o.reason = reason
      BY OutcomeFields DEF SubmitRefusal, FailureForClosedState, NoFailure
    <3>2. /\ outcome' = [outcome EXCEPT ![c] = o] /\ adm' = adm /\ adm[c] = 0
          /\ phase' = phase /\ reason' = reason
      BY <2>2 DEF SubmitRefused, Fresh, machine
    <3> HIDE DEF o
    <3> QED BY <3>1, <3>2, BlameOne
  <2>3. ASSUME NEW e \in Effects, NEW t \in Timers, SubmitAdmitted(c, e, t, d)
        PROVE  BlameInv'
    <3>1. /\ outcome' = outcome /\ phase' = phase /\ reason' = reason
          /\ outcome[c] = NoOutcome /\ \A x \in Calls : x # c => adm'[x] = adm[x]
      BY <2>3 DEF SubmitAdmitted, Fresh, TypeOK
    <3>2. \A x \in Calls : IsBlamed(x)' => IsBlamed(x)
      BY <3>1, OutcomeFields DEF IsBlamed, NoFailure
    <3> QED BY <3>1, <3>2 DEF BlameInv
  <2>4. ASSUME NEW e \in Effects, NEW t \in Timers, SubmitExhausted(c, e, t, d)
        PROVE  BlameInv'
    <3> DEFINE o == Failed("CorrelationSpaceExhausted", NoReason, "NotSent")
    <3>1. o.failure = "CorrelationSpaceExhausted"
      BY OutcomeFields
    <3>2. /\ outcome' = [outcome EXCEPT ![c] = o] /\ adm' = adm
          /\ phase' = phase /\ reason' = reason
      BY <2>4 DEF SubmitExhausted
    <3> HIDE DEF o
    <3> QED BY <3>1, <3>2, BlameOne
  <2> QED BY <2>1, <2>2, <2>3, <2>4
<1>3. ASSUME NEW i \in DOMAIN pending, NEW o, Settle(i, o), phase \in Active,
             o.failure \in {NoFailure, "LocallyRejected"}
      PROVE  BlameInv'
  <2>1. /\ outcome' = [outcome EXCEPT ![pending[i].call] = o] /\ adm' = adm
    BY <1>3 DEF Settle
  <2>2. pending[i].call \in Calls /\ phase \notin Over
    BY <1>3, EntryTypes DEF Active, Over
  <2> QED BY <1>3, <2>1, <2>2, BlameOne DEF NoFailure
<1>4. CASE PendingInput
  <2>1. PICK i \in DOMAIN pending :
          \/ WriteSubmitted(i)
          \/ AbortUnsentCall(i)
          \/ \E f \in TransportFailures : WriteFailed(i, f)
          \/ CallDeadlineElapsed(i)
    BY <1>4 DEF PendingInput
  <2>2. CASE WriteSubmitted(i)
    BY <2>2, BlameUntouched DEF WriteSubmitted
  <2>3. CASE AbortUnsentCall(i)
    <3> DEFINE o == Failed("LocallyRejected", NoReason, "NotSent")
    <3>1. Settle(i, o) /\ phase \in Active /\ o.failure = "LocallyRejected"
      BY <2>3, OutcomeFields DEF AbortUnsentCall
    <3> HIDE DEF o
    <3> QED BY <1>3, <3>1
  <2>4. CASE \E f \in TransportFailures : WriteFailed(i, f)
    BY <1>0, <2>4, BlameLeft DEF WriteFailed, Over
  <2>5. CASE CallDeadlineElapsed(i)
    <3>1. CASE now < pending[i].deadline
      BY <2>5, <3>1, BlameUntouched DEF CallDeadlineElapsed, history
    <3>2. CASE ~(now < pending[i].deadline)
      BY <2>5, <3>2, BlameLeft DEF CallDeadlineElapsed, Over
    <3> QED BY <3>1, <3>2
  <2> QED BY <2>1, <2>2, <2>3, <2>4, <2>5
<1>5. CASE Response
  <2>1. ASSUME NEW k \in Correlations, ResponseReceived(k)
        PROVE  BlameInv'
    <3>1. CASE FrontAwaitsResponse /\ Head(pending).corr = k
      <4>1. 1 \in DOMAIN pending
        BY <3>1 DEF FrontAwaitsResponse, TypeOK
      <4> QED BY <1>3, <2>1, <3>1, <4>1, OutcomeFields DEF ResponseReceived
    <3>2. CASE FrontAwaitsResponse /\ Head(pending).corr # k
      BY <2>1, <3>2, BlameLeft DEF ResponseReceived, Over
    <3>3. CASE ~FrontAwaitsResponse
      BY <1>0, <2>1, <3>3, BlameLeft DEF ResponseReceived, Over
    <3> QED BY <3>1, <3>2, <3>3
  <2> QED BY <1>0, <1>5, <2>1, BlameLeft DEF Response, ResponseRejected, Over
<1>6. CASE BeginDrain
  <2>1. CASE phase = "Ready" /\ pending = <<>>
    BY <1>0, <1>6, <2>1, BlameLeft DEF BeginDrain, Over, Active
  <2>2. CASE ~(phase = "Ready" /\ pending = <<>>)
    BY <1>6, <2>2, StagesKeepQueue, BlameUntouched
    DEF BeginDrain, queue, history, Over
  <2> QED BY <2>1, <2>2
<1>7. ASSUME NEW f \in TransportFailures, TransportClosed(f)
      PROVE  BlameInv'
  <2>1. CASE phase \in Active
    BY <1>0, <1>7, <2>1, BlameLeft DEF TransportClosed, Active, Over
  <2>2. CASE phase \notin Active
    BY <1>7, <2>2, StagesKeepQueue, BlameUntouched
    DEF TransportClosed, queue, history, Over
  <2> QED BY <2>1, <2>2
<1>8. CASE Tick \/ UNCHANGED vars
  BY <1>8, BlameUntouched DEF Tick, vars, machine, history
<1> QED
  BY <1>1, <1>2, <1>4, <1>5, <1>6, <1>7, <1>8 DEF Next

\* A new connection has settled no call.
LEMMA BlameInit == Init => BlameInv
  BY OutcomeFields DEF Init, BlameInv, IsBlamed, NoFailure

\* A call failed by the close of the connection carries the reason of that
\* close; at most one call is blamed for it, with the failure that caused it.
THEOREM BlameIsHonest == Spec => []HonestBlame
<1>1. Init => BlameInv
  BY BlameInit
<1>2. TypeOK /\ QueueInv /\ BlameInv /\ [Next]_vars => BlameInv'
  BY BlameStep
<1>3. BlameInv => HonestBlame
  BY DEF BlameInv, HonestBlame, IsBlamed
<1> QED BY <1>1, <1>2, <1>3, QueueInvariant, PTL DEF Spec
=============================================================================
