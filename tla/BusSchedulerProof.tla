-------------------------- MODULE BusSchedulerProof --------------------------
(***************************************************************************)
(* Proofs about the event queue and the time of module BusScheduler, for   *)
(* every geometry, delay and choice of the constants.                      *)
(***************************************************************************)
EXTENDS BusScheduler, SequenceTheorems, WellFoundedInduction, TLAPS

-----------------------------------------------------------------------------
(* The list.                                                               *)

State == [queue : Seq(Event), cycle : [Timed -> 0..Disable], fault : BOOLEAN,
          copper_dma : BOOLEAN, copper_suspended_wait : 0..Disable]

InOrder(s) == \A i, k \in 1 .. Len(s.queue) :
  i < k => s.queue[i] # s.queue[k] /\ s.cycle[s.queue[i]] <= s.cycle[s.queue[k]]

(* The list is what QueueConsistent says of it.                            *)
Intact(s) ==
  /\ s \in State
  /\ ~s.fault
  /\ \A e \in Event : Queued(s, e) <=> s.cycle[e] # Disable
  /\ InOrder(s)

(* r is s with the cycle of e set to t.                                    *)
Sets(r, s, e, t) ==
  /\ Intact(r)
  /\ r.cycle = [s.cycle EXCEPT ![e] = t]
  /\ r.copper_dma = s.copper_dma
  /\ r.copper_suspended_wait = s.copper_suspended_wait

LEMMA DisableNat == Disable \in Nat
BY DisableAssumption

(* A set of natural numbers that is not empty has a least element.         *)
LEMMA Least == ASSUME NEW T, T \subseteq Nat, T # {}
               PROVE  \E x \in T : \A y \in T : x <= y
<1>1. PICK x \in T : \A y \in T : ~ (<<y, x>> \in OpToRel(<, Nat))
  BY NatLessThanWellFounded, WFMin
<1>2. \A y \in T : ~(y < x)
  BY <1>1 DEF OpToRel
<1> QED  BY <1>2

LEMMA QueuedIndex ==
  ASSUME NEW s \in State, NEW e
  PROVE  Queued(s, e) <=> \E i \in 1 .. Len(s.queue) : s.queue[i] = e
BY DEF State, Queued, Range

LEMMA InsertedAt ==
  ASSUME NEW S, NEW q \in Seq(S), NEW i \in 1 .. Len(q) + 1, NEW e \in S
  PROVE  /\ InsertAt(q, i, e) \in Seq(S)
         /\ Len(InsertAt(q, i, e)) = Len(q) + 1
         /\ \A k \in 1 .. Len(q) + 1 : InsertAt(q, i, e)[k] =
              IF k < i THEN q[k] ELSE IF k = i THEN e ELSE q[k - 1]
<1> DEFINE a == SubSeq(q, 1, i - 1)
           b == SubSeq(q, i, Len(q))
           o == <<e>>
<1>0. Len(q) \in Nat /\ i \in Int
  OBVIOUS
<1>1. /\ a \in Seq(S) /\ Len(a) = i - 1 /\ \A k \in 1 .. i - 1 : a[k] = q[k]
  <2>1. \A k \in 1 .. i - 1 : q[k] \in S
    OBVIOUS
  <2> QED  BY <2>1, SubSeqProperties
<1>2. /\ b \in Seq(S) /\ Len(b) = Len(q) + 1 - i
      /\ \A k \in 1 .. Len(q) - i + 1 : b[k] = q[i + k - 1]
  <2>1. \A k \in i .. Len(q) : q[k] \in S
    OBVIOUS
  <2> QED  BY <2>1, SubSeqProperties
<1>3. /\ o \in Seq(S) /\ Len(o) = 1 /\ o[1] = e
  OBVIOUS
<1>4. InsertAt(q, i, e) = (a \o o) \o b
  BY DEF InsertAt
<1> HIDE DEF a, b, o
<1>5. /\ a \o o \in Seq(S) /\ Len(a \o o) = i
      /\ \A k \in 1 .. i : (a \o o)[k] = IF k <= i - 1 THEN a[k] ELSE o[k - (i - 1)]
  <2>1. Len(a) + Len(o) = i
    BY <1>0, <1>1, <1>3
  <2>2. /\ a \o o \in Seq(S) /\ Len(a \o o) = Len(a) + Len(o)
        /\ \A k \in 1 .. Len(a) + Len(o) :
             (a \o o)[k] = IF k <= Len(a) THEN a[k] ELSE o[k - Len(a)]
    BY <1>1, <1>3, ConcatProperties
  <2> QED  BY <2>1, <2>2, <1>1
<1> DEFINE p == a \o o
<1> HIDE DEF p
<1>6. /\ p \o b \in Seq(S) /\ Len(p \o b) = Len(q) + 1
      /\ \A k \in 1 .. Len(q) + 1 : (p \o b)[k] = IF k <= i THEN p[k] ELSE b[k - i]
  <2>1. Len(p) + Len(b) = Len(q) + 1
    BY <1>0, <1>2, <1>5 DEF p
  <2>2. p \in Seq(S)
    BY <1>5 DEF p
  <2>3. /\ p \o b \in Seq(S) /\ Len(p \o b) = Len(p) + Len(b)
        /\ \A k \in 1 .. Len(p) + Len(b) :
             (p \o b)[k] = IF k <= Len(p) THEN p[k] ELSE b[k - Len(p)]
    BY <1>2, <2>2, ConcatProperties
  <2> QED  BY <2>1, <2>3, <1>5 DEF p
<1>7. ASSUME NEW k \in 1 .. Len(q) + 1
      PROVE  (p \o b)[k] = IF k < i THEN q[k] ELSE IF k = i THEN e ELSE q[k - 1]
  <2>1. CASE k < i
    BY <2>1, <1>0, <1>1, <1>5, <1>6 DEF p
  <2>2. CASE k = i
    <3>1. k \in 1 .. i /\ k <= i /\ ~(k <= i - 1) /\ k - (i - 1) = 1
      BY <1>0, <2>2
    <3> QED  BY <2>2, <3>1, <1>3, <1>5, <1>6 DEF p
  <2>3. CASE k > i
    <3>1. k - i \in 1 .. Len(q) - i + 1 /\ i + (k - i) - 1 = k - 1 /\ ~(k <= i)
      BY <1>0, <2>3
    <3>2. b[k - i] = q[i + (k - i) - 1]
      BY <1>2, <3>1
    <3>3. (p \o b)[k] = q[k - 1]
      BY <1>6, <3>1, <3>2
    <3> QED  BY <1>0, <2>3, <3>3
  <2>0. k \in Int /\ i \in Int
    BY <1>0
  <2>4. k < i \/ (k = i /\ ~(k < i)) \/ (k > i /\ ~(k < i) /\ k # i)
    BY <2>0
  <2> QED  BY <2>1, <2>2, <2>3, <2>4
<1> QED  BY <1>4, <1>6, <1>7 DEF p

LEMMA RemovedAt ==
  ASSUME NEW S, NEW q \in Seq(S), NEW i \in 1 .. Len(q)
  PROVE  /\ RemoveAt(q, i) \in Seq(S)
         /\ Len(RemoveAt(q, i)) = Len(q) - 1
         /\ \A k \in 1 .. Len(q) - 1 : RemoveAt(q, i)[k] = IF k < i THEN q[k] ELSE q[k + 1]
<1> DEFINE a == SubSeq(q, 1, i - 1)
           b == SubSeq(q, i + 1, Len(q))
<1>0. Len(q) \in Nat /\ i \in Int
  OBVIOUS
<1>1. /\ a \in Seq(S) /\ Len(a) = i - 1 /\ \A k \in 1 .. i - 1 : a[k] = q[k]
  <2>1. \A k \in 1 .. i - 1 : q[k] \in S
    OBVIOUS
  <2> QED  BY <2>1, SubSeqProperties
<1>2. /\ b \in Seq(S) /\ Len(b) = Len(q) - i
      /\ \A k \in 1 .. Len(q) - i : b[k] = q[i + k]
  <2>1. \A k \in i + 1 .. Len(q) : q[k] \in S
    OBVIOUS
  <2>2. /\ b \in Seq(S) /\ Len(b) = IF i + 1 <= Len(q) THEN Len(q) - (i + 1) + 1 ELSE 0
        /\ \A k \in 1 .. Len(q) - (i + 1) + 1 : b[k] = q[(i + 1) + k - 1]
    <3> HIDE DEF b
    <3> DEFINE j == i + 1
    <3>1. j \in Int /\ Len(q) \in Int
      OBVIOUS
    <3>2. \A k \in j .. Len(q) : q[k] \in S
      BY <2>1
    <3> HIDE DEF j
    <3>3. /\ SubSeq(q, j, Len(q)) \in Seq(S)
          /\ Len(SubSeq(q, j, Len(q))) = IF j <= Len(q) THEN Len(q) - j + 1 ELSE 0
          /\ \A k \in 1 .. Len(q) - j + 1 : SubSeq(q, j, Len(q))[k] = q[j + k - 1]
      BY <3>1, <3>2, SubSeqProperties
    <3> QED  BY <3>3 DEF j, b
  <2> HIDE DEF b
  <2>3. Len(b) = Len(q) - i
    <3>1. Len(q) \in Nat /\ i \in Int /\ i <= Len(q)
      BY <1>0
    <3>2. Len(b) = IF i + 1 <= Len(q) THEN Len(q) - (i + 1) + 1 ELSE 0
      BY <2>2
    <3> HIDE <2>2
    <3> QED  BY ONLY <3>1, <3>2, SMT
  <2>4. ASSUME NEW k \in 1 .. Len(q) - i
        PROVE  b[k] = q[i + k]
    <3>1. k \in 1 .. Len(q) - (i + 1) + 1 /\ (i + 1) + k - 1 = i + k
      BY <1>0
    <3> QED  BY <2>2, <3>1
  <2>5. b \in Seq(S)
    BY <2>1, <1>0, SubSeqProperties DEF b
  <2> QED  BY <2>3, <2>4, <2>5
<1>3. RemoveAt(q, i) = a \o b
  BY DEF RemoveAt
<1> HIDE DEF a, b
<1>4. /\ a \o b \in Seq(S) /\ Len(a \o b) = Len(q) - 1
      /\ \A k \in 1 .. Len(q) - 1 : (a \o b)[k] = IF k <= i - 1 THEN a[k] ELSE b[k - (i - 1)]
  <2>1. Len(a) + Len(b) = Len(q) - 1
    BY <1>0, <1>1, <1>2
  <2>2. /\ a \o b \in Seq(S) /\ Len(a \o b) = Len(a) + Len(b)
        /\ \A k \in 1 .. Len(a) + Len(b) :
             (a \o b)[k] = IF k <= Len(a) THEN a[k] ELSE b[k - Len(a)]
    BY <1>1, <1>2, ConcatProperties
  <2> QED  BY <2>1, <2>2, <1>1
<1>5. ASSUME NEW k \in 1 .. Len(q) - 1
      PROVE  (a \o b)[k] = IF k < i THEN q[k] ELSE q[k + 1]
  <2>1. CASE k < i
    BY <2>1, <1>1, <1>4
  <2>2. CASE k >= i
    <3>1. k - (i - 1) \in 1 .. Len(q) - i /\ i + (k - (i - 1)) = k + 1 /\ ~(k <= i - 1)
      BY <1>0, <2>2
    <3>2. b[k - (i - 1)] = q[i + (k - (i - 1))]
      BY <1>2, <3>1
    <3>3. (a \o b)[k] = q[k + 1]
      BY <1>4, <3>1, <3>2
    <3> QED  BY <1>0, <2>2, <3>3
  <2>0. k \in Int /\ i \in Int
    BY <1>0
  <2>3. k < i \/ (k >= i /\ ~(k < i))
    BY <2>0
  <2> QED  BY <2>1, <2>2, <2>3
<1> QED  BY <1>3, <1>4, <1>5

(* busInsertEvent finds a place for the event.                             *)
LEMMA PositionFound ==
  ASSUME NEW s \in State, NEW t \in Nat
  PROVE  LET i == Position(s, t)
         IN  /\ i \in 1 .. Len(s.queue) + 1
             /\ \A k \in 1 .. i - 1 : s.cycle[s.queue[k]] <= t
             /\ i <= Len(s.queue) => t < s.cycle[s.queue[i]]
<1>1. s.queue \in Seq(Event) /\ Len(s.queue) \in Nat
      /\ \A k \in 1 .. Len(s.queue) : s.cycle[s.queue[k]] \in Nat
  BY DisableNat DEF State, Timed
<1> DEFINE q == s.queue
           T == {i \in 1 .. Len(q) + 1 : i <= Len(q) => t < s.cycle[q[i]]}
<1>2. T \subseteq Nat /\ Len(q) + 1 \in T
  BY <1>1
<1>3. PICK i \in T : \A j \in T : i <= j
  BY <1>2, Least
<1>4. ASSUME NEW k \in 1 .. i - 1
      PROVE  s.cycle[q[k]] <= t
  <2>1. k \notin T
    BY <1>1, <1>2, <1>3
  <2> QED  BY <2>1, <1>1, <1>2
<1>5. /\ i \in 1 .. Len(q) + 1
      /\ \A k \in 1 .. i - 1 : s.cycle[q[k]] <= t
      /\ i <= Len(q) => t < s.cycle[q[i]]
  BY <1>3, <1>4
<1> QED  BY <1>5 DEF Position

LEMMA SetCycle ==
  ASSUME NEW c \in [Timed -> 0..Disable], NEW e \in Timed, NEW t \in 0..Disable
  PROVE  [c EXCEPT ![e] = t] \in [Timed -> 0..Disable]
OBVIOUS

LEMMA LinkSets ==
  ASSUME NEW s, Intact(s), NEW e \in Event, s.cycle[e] = Disable, NEW t \in Nat, t < Disable
  PROVE  Sets(Link(s, e, t), s, e, t)
<1> DEFINE q == s.queue
           c == s.cycle
           r == Link(s, e, t)
           i == Position(s, t)
<1>1. /\ s \in State /\ q \in Seq(Event) /\ Len(q) \in Nat
      /\ c \in [Timed -> 0..Disable] /\ InOrder(s)
      /\ \A f \in Event : Queued(s, f) <=> c[f] # Disable
  BY DEF Intact, State
<1>2. /\ i \in 1 .. Len(q) + 1
      /\ \A k \in 1 .. i - 1 : c[q[k]] <= t
      /\ i <= Len(q) => t < c[q[i]]
  BY <1>1, PositionFound
<1>3. /\ r.queue = InsertAt(q, i, e) /\ r.cycle = [c EXCEPT ![e] = t]
      /\ r.fault = s.fault /\ r.copper_dma = s.copper_dma
      /\ r.copper_suspended_wait = s.copper_suspended_wait
  BY <1>1 DEF Link, State
<1>31. r = [s EXCEPT !.queue = r.queue, !.cycle = r.cycle]
  BY <1>1 DEF Link, State
<1> HIDE DEF r, i
<1>4. /\ r.queue \in Seq(Event) /\ Len(r.queue) = Len(q) + 1
      /\ \A k \in 1 .. Len(q) + 1 : r.queue[k] =
           IF k < i THEN q[k] ELSE IF k = i THEN e ELSE q[k - 1]
  <2>0. q \in Seq(Event) /\ i \in 1 .. Len(q) + 1 /\ e \in Event
    BY <1>1, <1>2
  <2>1. /\ InsertAt(q, i, e) \in Seq(Event) /\ Len(InsertAt(q, i, e)) = Len(q) + 1
        /\ \A k \in 1 .. Len(q) + 1 : InsertAt(q, i, e)[k] =
             IF k < i THEN q[k] ELSE IF k = i THEN e ELSE q[k - 1]
    <3> HIDE DEF q
    <3> QED  BY ONLY <2>0, InsertedAt
  <2> QED  BY <1>3, <2>1
<1>5. r.cycle \in [Timed -> 0..Disable]
  <2>1. e \in Timed /\ t \in 0..Disable
    BY DisableNat DEF Timed
  <2> QED  BY <1>1, <1>3, <2>1, SetCycle
<1>6. r \in State
  BY <1>1, <1>3, <1>31, <1>4, <1>5 DEF State
<1>7. \A k \in 1 .. Len(q) : q[k] \in Event /\ q[k] # e /\ r.cycle[q[k]] = c[q[k]]
  <2>1. \A k \in 1 .. Len(q) : q[k] \in Event /\ q[k] # e
    BY <1>1, QueuedIndex
  <2> QED  BY <1>1, <1>3, <2>1 DEF Timed
<1>8. r.cycle[e] = t
  BY <1>1, <1>3 DEF Timed
<1>9. ASSUME NEW f \in Event
      PROVE  Queued(r, f) <=> r.cycle[f] # Disable
  <2>1. CASE f = e
    <3>1. r.queue[i] = e
      BY <1>1, <1>2, <1>4
    <3> QED  BY <2>1, <3>1, <1>2, <1>4, <1>6, <1>8, QueuedIndex
  <2>2. CASE f # e
    <3>1. r.cycle[f] = c[f]
      BY <1>1, <1>3, <2>2 DEF Timed
    <3>2. ASSUME NEW k \in 1 .. Len(q), q[k] = f
          PROVE  \E j \in 1 .. Len(r.queue) : r.queue[j] = f
      <4>1. CASE k < i
        BY <1>1, <1>2, <1>4, <3>2, <4>1
      <4>2. CASE ~(k < i)
        <5>1. k + 1 \in 1 .. Len(q) + 1 /\ ~(k + 1 < i) /\ k + 1 # i /\ (k + 1) - 1 = k
          BY <1>1, <1>2, <4>2
        <5> QED  BY <1>4, <3>2, <5>1
      <4> QED  BY <4>1, <4>2
    <3>3. ASSUME NEW k \in 1 .. Len(r.queue), r.queue[k] = f
          PROVE  \E j \in 1 .. Len(q) : q[j] = f
      <4>1. CASE k < i
        <5>1. k \in 1 .. Len(q) /\ k \in 1 .. Len(q) + 1
          BY <1>1, <1>2, <1>4, <4>1
        <5> QED  BY <1>4, <3>3, <4>1, <5>1
      <4>2. CASE ~(k < i)
        <5>1. k \in 1 .. Len(q) + 1 /\ k # i
          BY <1>4, <2>2, <3>3, <4>2
        <5>2. k - 1 \in 1 .. Len(q)
          BY <1>1, <1>2, <4>2, <5>1
        <5> QED  BY <1>4, <3>3, <4>2, <5>1, <5>2
      <4> QED  BY <4>1, <4>2
    <3> QED  BY <1>1, <1>6, <3>1, <3>2, <3>3, QueuedIndex
  <2> QED  BY <2>1, <2>2
<1>10. InOrder(r)
  <2> SUFFICES ASSUME NEW j \in 1 .. Len(q) + 1, NEW k \in 1 .. Len(q) + 1, j < k
               PROVE  /\ r.queue[j] # r.queue[k]
                      /\ r.cycle[r.queue[j]] <= r.cycle[r.queue[k]]
    BY <1>4 DEF InOrder
  <2>0. /\ j \in Int /\ k \in Int /\ i \in Int /\ Len(q) \in Int
        /\ \A a, b \in 1 .. Len(q) : a < b => q[a] # q[b] /\ c[q[a]] <= c[q[b]]
        /\ \A a \in 1 .. Len(q) : c[q[a]] \in Nat
    <3>1. \A a \in 1 .. Len(q) : c[q[a]] \in Nat
      BY <1>1, <1>7, DisableNat DEF Timed
    <3> QED  BY <1>1, <1>2, <3>1 DEF InOrder
  <2>1. CASE k < i
    <3>1. j < i /\ j \in 1 .. Len(q) /\ k \in 1 .. Len(q)
      BY <1>2, <2>0, <2>1
    <3>2. r.queue[j] = q[j] /\ r.queue[k] = q[k]
      BY <1>4, <2>1, <3>1
    <3> QED  BY <1>7, <2>0, <3>1, <3>2
  <2>2. CASE k = i
    <3>1. j < i /\ j \in 1 .. Len(q) /\ j \in 1 .. i - 1
      BY <1>2, <2>0, <2>2
    <3>2. r.queue[j] = q[j] /\ r.queue[k] = e
      BY <1>4, <2>2, <3>1
    <3> QED  BY <1>2, <1>7, <1>8, <3>1, <3>2
  <2>3. CASE j < i /\ i < k
    <3>1. j \in 1 .. Len(q) /\ k - 1 \in 1 .. Len(q)
      BY <1>2, <2>0, <2>3
    <3>2. j < k - 1
      BY <2>0, <2>3
    <3>3. r.queue[j] = q[j] /\ r.queue[k] = q[k - 1]
      BY <1>4, <2>0, <2>3
    <3> QED  BY <1>7, <2>0, <3>1, <3>2, <3>3
  <2>4. CASE j = i
    <3>1. k - 1 \in 1 .. Len(q) /\ i \in 1 .. Len(q) /\ ~(k < i) /\ k # i
      BY <1>2, <2>0, <2>4
    <3>2. r.queue[j] = e /\ r.queue[k] = q[k - 1]
      BY <1>4, <2>4, <3>1
    <3>3. c[q[i]] <= c[q[k - 1]]
      <4>1. CASE i = k - 1
        BY <2>0, <3>1, <4>1
      <4>2. CASE i < k - 1
        BY <2>0, <3>1, <4>2
      <4> QED  BY <2>0, <2>4, <4>1, <4>2
    <3>4. t <= c[q[k - 1]]
      BY <1>2, <2>0, <3>1, <3>3
    <3> QED  BY <1>7, <1>8, <3>1, <3>2, <3>4
  <2>5. CASE i < j
    <3>1. /\ j - 1 \in 1 .. Len(q) /\ k - 1 \in 1 .. Len(q) /\ j - 1 < k - 1
          /\ ~(k < i) /\ k # i /\ ~(j < i) /\ j # i
      BY <1>2, <2>0, <2>5
    <3>2. r.queue[j] = q[j - 1] /\ r.queue[k] = q[k - 1]
      BY <1>4, <3>1
    <3> QED  BY <1>7, <2>0, <3>1, <3>2
  <2> QED  BY <2>0, <2>1, <2>2, <2>3, <2>4, <2>5
<1>11. ~r.fault
  BY <1>3 DEF Intact
<1> QED  BY <1>3, <1>6, <1>9, <1>10, <1>11 DEF Intact, Sets, r

(* Nothing but an event that is off is inserted, into a list that is not   *)
(* empty.                                                                  *)
LEMMA InsertSets ==
  ASSUME NEW s, Intact(s), NEW e \in Event, s.cycle[e] = Disable, NEW t \in Nat, t < Disable,
         NEW f \in Event, s.cycle[f] # Disable
  PROVE  Sets(Insert(s, e, t), s, e, t) /\ Sets(InsertWithNullCheck(s, e, t), s, e, t)
<1>1. Queued(s, f) /\ ~Queued(s, e)
  BY DEF Intact
<1>2. s.queue # <<>>
  <2>1. \E i \in 1 .. Len(s.queue) : TRUE
    BY <1>1, QueuedIndex DEF Intact
  <2> QED  BY <2>1
<1> QED  BY <1>1, <1>2, LinkSets DEF Insert, InsertWithNullCheck

LEMMA CancelSets ==
  ASSUME NEW s, Intact(s), NEW e \in Event
  PROVE  Sets(Cancel(s, e), s, e, Disable)
<1> DEFINE q == s.queue
           c == s.cycle
           r == Cancel(s, e)
           i == CHOOSE j \in 1 .. Len(q) : q[j] = e
<1>1. /\ s \in State /\ q \in Seq(Event) /\ Len(q) \in Nat /\ ~s.fault
      /\ c \in [Timed -> 0..Disable] /\ InOrder(s)
      /\ \A f \in Event : Queued(s, f) <=> c[f] # Disable
  BY DEF Intact, State
<1>2. [c EXCEPT ![e] = Disable] \in [Timed -> 0..Disable]
  <2>1. e \in Timed /\ Disable \in 0..Disable
    BY DisableNat DEF Timed
  <2> QED  BY <1>1, <2>1, SetCycle
<1>3. CASE ~Queued(s, e)
  <2>1. c[e] = Disable /\ r = [s EXCEPT !.cycle[e] = Disable]
    BY <1>1, <1>3 DEF Cancel, Unlink
  <2>2. r = s
    BY <1>1, <2>1 DEF State, Timed
  <2> QED  BY <1>1, <2>1, <2>2 DEF Sets, State, Timed
<1>4. CASE Queued(s, e)
  <2>1. i \in 1 .. Len(q) /\ q[i] = e
    BY <1>1, <1>4, QueuedIndex
  <2>2. /\ r.queue = RemoveAt(q, i) /\ r.cycle = [c EXCEPT ![e] = Disable]
        /\ r.fault = s.fault /\ r.copper_dma = s.copper_dma
        /\ r.copper_suspended_wait = s.copper_suspended_wait
    BY <1>1, <1>4 DEF Cancel, Unlink, State
  <2>20. r = [s EXCEPT !.queue = r.queue, !.cycle = r.cycle]
    BY <1>1, <1>4 DEF Cancel, Unlink, State
  <2> HIDE DEF r, i
  <2>3. /\ r.queue \in Seq(Event) /\ Len(r.queue) = Len(q) - 1
        /\ \A k \in 1 .. Len(q) - 1 : r.queue[k] = IF k < i THEN q[k] ELSE q[k + 1]
    <3>0. q \in Seq(Event) /\ i \in 1 .. Len(q)
      BY <1>1, <2>1
    <3>1. /\ RemoveAt(q, i) \in Seq(Event) /\ Len(RemoveAt(q, i)) = Len(q) - 1
          /\ \A k \in 1 .. Len(q) - 1 : RemoveAt(q, i)[k] = IF k < i THEN q[k] ELSE q[k + 1]
      <4> HIDE DEF q
      <4> QED  BY ONLY <3>0, RemovedAt
    <3> QED  BY <2>2, <3>1
  <2>4. r \in State
    BY <1>1, <1>2, <2>2, <2>20, <2>3 DEF State
  <2>5. /\ i \in Int /\ Len(q) \in Int
        /\ \A a, b \in 1 .. Len(q) : a < b => q[a] # q[b] /\ c[q[a]] <= c[q[b]]
        /\ \A a \in 1 .. Len(q) : q[a] \in Event /\ c[q[a]] \in Nat
    BY <1>1, <2>1, DisableNat DEF InOrder, Timed
  <2>6. \A k \in 1 .. Len(q) : k # i => q[k] # e /\ r.cycle[q[k]] = c[q[k]]
    <3>1. \A k \in 1 .. Len(q) : k # i => q[k] # e
      BY <2>1, <2>5
    <3> QED  BY <1>1, <2>2, <2>5, <3>1 DEF Timed
  <2>7. ASSUME NEW k \in 1 .. Len(q) - 1
        PROVE  LET a == IF k < i THEN k ELSE k + 1
               IN  a \in 1 .. Len(q) /\ a # i /\ r.queue[k] = q[a]
    <3>1. k \in Int
      BY <2>5
    <3> QED  BY <2>1, <2>3, <2>5, <3>1
  <2>8. ASSUME NEW f \in Event
        PROVE  Queued(r, f) <=> r.cycle[f] # Disable
    <3>1. CASE f = e
      <4>1. ~Queued(r, e)
        BY <2>3, <2>4, <2>6, <2>7, QueuedIndex
      <4> QED  BY <1>1, <2>2, <3>1, <4>1 DEF Timed
    <3>2. CASE f # e
      <4>1. r.cycle[f] = c[f]
        BY <1>1, <2>2, <3>2 DEF Timed
      <4>2. ASSUME NEW k \in 1 .. Len(q), q[k] = f
            PROVE  \E j \in 1 .. Len(r.queue) : r.queue[j] = f
        <5>0. k \in Int /\ k # i
          BY <2>1, <2>5, <3>2, <4>2
        <5>1. CASE k < i
          BY <2>1, <2>3, <2>5, <4>2, <5>0, <5>1
        <5>2. CASE k > i
          <6>1. k - 1 \in 1 .. Len(q) - 1 /\ ~(k - 1 < i) /\ (k - 1) + 1 = k
            BY <2>1, <2>5, <5>0, <5>2
          <6> QED  BY <2>3, <4>2, <6>1
        <5> QED  BY <2>5, <5>0, <5>1, <5>2
      <4>3. ASSUME NEW k \in 1 .. Len(r.queue), r.queue[k] = f
            PROVE  \E j \in 1 .. Len(q) : q[j] = f
        BY <2>3, <2>7, <4>3
      <4> QED  BY <1>1, <2>4, <4>1, <4>2, <4>3, QueuedIndex
    <3> QED  BY <3>1, <3>2
  <2>9. InOrder(r)
    <3> SUFFICES ASSUME NEW j \in 1 .. Len(q) - 1, NEW k \in 1 .. Len(q) - 1, j < k
                 PROVE  /\ r.queue[j] # r.queue[k]
                        /\ r.cycle[r.queue[j]] <= r.cycle[r.queue[k]]
      BY <2>3 DEF InOrder
    <3> DEFINE a == IF j < i THEN j ELSE j + 1
               b == IF k < i THEN k ELSE k + 1
    <3>1. a \in 1 .. Len(q) /\ a # i /\ b \in 1 .. Len(q) /\ b # i
          /\ r.queue[j] = q[a] /\ r.queue[k] = q[b]
      BY <2>7
    <3>2. a < b
      <4>1. j \in Int /\ k \in Int
        BY <2>5
      <4> QED  BY <2>5, <4>1
    <3> HIDE DEF a, b
    <3> QED  BY <2>5, <2>6, <3>1, <3>2
  <2> QED  BY <1>1, <2>2, <2>4, <2>8, <2>9 DEF Intact, Sets, r
<1> QED  BY <1>3, <1>4

LEMMA RescheduleSets ==
  ASSUME NEW s, Intact(s), NEW e \in Event, NEW t \in 0..Disable,
         NEW f \in Event, f # e, s.cycle[f] # Disable
  PROVE  Sets(Reschedule(s, e, t), s, e, t)
<1> DEFINE r == Cancel(s, e)
<1>1. Sets(r, s, e, Disable)
  BY CancelSets
<1>2. CASE t = Disable
  BY <1>1, <1>2 DEF Reschedule
<1>3. CASE t # Disable
  <2>1. t \in Nat /\ t < Disable
    BY <1>3, DisableNat
  <2>2. s.cycle \in [Timed -> 0..Disable]
    BY DEF Intact, State
  <2>3. Intact(r) /\ r.cycle[e] = Disable /\ r.cycle[f] # Disable
    BY <1>1, <2>2 DEF Sets, Timed
  <2> HIDE DEF r
  <2>4. Sets(Insert(r, e, t), r, e, t)
    BY <2>1, <2>3, InsertSets
  <2>5. [r.cycle EXCEPT ![e] = t] = [s.cycle EXCEPT ![e] = t]
    BY <1>1, <2>2 DEF Sets
  <2> QED  BY <1>1, <1>3, <2>4, <2>5 DEF Reschedule, Sets, r
<1> QED  BY <1>2, <1>3

(* The first event in the list is enabled and no later than any other.     *)
LEMMA FirstIsLeast ==
  ASSUME NEW s, Intact(s), NEW f \in Event, s.cycle[f] # Disable
  PROVE  /\ s.queue # <<>> /\ Head(s.queue) \in Event
         /\ s.cycle[Head(s.queue)] # Disable
         /\ \A e \in Event : s.cycle[Head(s.queue)] <= s.cycle[e]
<1> DEFINE q == s.queue
<1>1. /\ s \in State /\ q \in Seq(Event) /\ Len(q) \in Nat
      /\ s.cycle \in [Timed -> 0..Disable] /\ InOrder(s)
      /\ \A e \in Event : Queued(s, e) <=> s.cycle[e] # Disable
  BY DEF Intact, State
<1>2. \E i \in 1 .. Len(q) : q[i] = f
  BY <1>1, QueuedIndex
<1>3. q # <<>> /\ 1 \in 1 .. Len(q) /\ Head(q) = q[1]
  BY <1>1, <1>2
<1>4. Head(q) \in Event /\ Queued(s, Head(q))
  BY <1>1, <1>3, QueuedIndex
<1>5. \A e \in Timed : s.cycle[e] \in Int /\ s.cycle[e] <= Disable
  BY <1>1, DisableNat
<1>6. ASSUME NEW e \in Event
      PROVE  s.cycle[Head(q)] <= s.cycle[e]
  <2>1. CASE s.cycle[e] = Disable
    BY <1>4, <1>5, <2>1 DEF Timed
  <2>2. CASE s.cycle[e] # Disable
    <3>1. PICK i \in 1 .. Len(q) : q[i] = e
      BY <1>1, <2>2, QueuedIndex
    <3>2. CASE i = 1
      BY <1>3, <1>5, <3>1, <3>2 DEF Timed
    <3>3. CASE i # 1
      <4>1. 1 < i
        BY <1>1, <3>3
      <4> QED  BY <1>1, <1>3, <3>1, <4>1 DEF InOrder
    <3> QED  BY <3>2, <3>3
  <2> QED  BY <2>1, <2>2
<1> QED  BY <1>1, <1>3, <1>4, <1>6

(* Taking the first event off the list is the same as cancelling it.       *)
LEMMA PopSets ==
  ASSUME NEW s, Intact(s), s.queue # <<>>
  PROVE  Head(s.queue) \in Event /\ Sets(PopEvent(s), s, Head(s.queue), Disable)
<1> DEFINE q == s.queue
           c == s.cycle
           e == Head(q)
           r == PopEvent(s)
<1>1. /\ s \in State /\ q \in Seq(Event) /\ Len(q) \in Nat /\ ~s.fault
      /\ c \in [Timed -> 0..Disable] /\ InOrder(s)
      /\ \A f \in Event : Queued(s, f) <=> c[f] # Disable
  BY DEF Intact, State
<1>2. /\ e \in Event /\ 1 \in 1 .. Len(q) /\ e = q[1]
      /\ Tail(q) \in Seq(Event) /\ Len(Tail(q)) = Len(q) - 1
      /\ \A i \in 1 .. Len(q) - 1 : Tail(q)[i] = q[i + 1]
  BY <1>1, HeadTailProperties
<1>3. /\ r.queue = Tail(q) /\ r.cycle = [c EXCEPT ![e] = Disable]
      /\ r.fault = s.fault /\ r.copper_dma = s.copper_dma
      /\ r.copper_suspended_wait = s.copper_suspended_wait
  BY <1>1 DEF PopEvent, State
<1>4. r = [s EXCEPT !.queue = r.queue, !.cycle = r.cycle]
  BY <1>1 DEF PopEvent, State
<1> HIDE DEF r, e
<1>5. r.cycle \in [Timed -> 0..Disable]
  <2>1. e \in Timed /\ Disable \in 0..Disable
    BY <1>2, DisableNat DEF Timed
  <2> QED  BY <1>1, <1>3, <2>1, SetCycle
<1>6. r \in State
  BY <1>1, <1>2, <1>3, <1>4, <1>5 DEF State
<1>7. \A i \in 1 .. Len(q) : i # 1 => q[i] \in Event /\ q[i] # e /\ r.cycle[q[i]] = c[q[i]]
  <2>1. \A i \in 1 .. Len(q) : i # 1 => q[i] \in Event /\ q[i] # e
    BY <1>1, <1>2 DEF InOrder
  <2> QED  BY <1>1, <1>3, <2>1 DEF Timed
<1>8. ASSUME NEW i \in 1 .. Len(q) - 1
      PROVE  i + 1 \in 1 .. Len(q) /\ i + 1 # 1 /\ r.queue[i] = q[i + 1]
  BY <1>1, <1>2, <1>3
<1>9. ASSUME NEW f \in Event
      PROVE  Queued(r, f) <=> r.cycle[f] # Disable
  <2>1. CASE f = e
    <3>1. ~Queued(r, e)
      <4>1. Len(r.queue) = Len(q) - 1
        BY <1>2, <1>3
      <4>2. \A i \in 1 .. Len(q) - 1 : r.queue[i] # e
        BY <1>7, <1>8
      <4> QED  BY <1>6, <4>1, <4>2, QueuedIndex
    <3> QED  BY <1>1, <1>3, <2>1, <3>1 DEF Timed
  <2>2. CASE f # e
    <3>1. r.cycle[f] = c[f]
      BY <1>1, <1>3, <2>2 DEF Timed
    <3>2. ASSUME NEW i \in 1 .. Len(q), q[i] = f
          PROVE  \E j \in 1 .. Len(r.queue) : r.queue[j] = f
      <4>1. i - 1 \in 1 .. Len(q) - 1 /\ (i - 1) + 1 = i
        BY <1>1, <1>2, <2>2, <3>2
      <4> QED  BY <1>2, <1>3, <3>2, <4>1
    <3>3. ASSUME NEW i \in 1 .. Len(r.queue), r.queue[i] = f
          PROVE  \E j \in 1 .. Len(q) : q[j] = f
      BY <1>2, <1>3, <1>8, <3>3
    <3> QED  BY <1>1, <1>6, <3>1, <3>2, <3>3, QueuedIndex
  <2> QED  BY <2>1, <2>2
<1>10. InOrder(r)
  <2> SUFFICES ASSUME NEW i \in 1 .. Len(q) - 1, NEW j \in 1 .. Len(q) - 1, i < j
               PROVE  /\ r.queue[i] # r.queue[j]
                      /\ r.cycle[r.queue[i]] <= r.cycle[r.queue[j]]
    BY <1>2, <1>3 DEF InOrder
  <2>1. i + 1 < j + 1
    BY <1>1
  <2>2. /\ i + 1 \in 1 .. Len(q) /\ j + 1 \in 1 .. Len(q) /\ i + 1 # 1 /\ j + 1 # 1
        /\ r.queue[i] = q[i + 1] /\ r.queue[j] = q[j + 1]
    BY <1>8
  <2>3. q[i + 1] # q[j + 1] /\ c[q[i + 1]] <= c[q[j + 1]]
    BY <1>1, <2>1, <2>2 DEF InOrder
  <2> QED  BY <1>7, <2>2, <2>3
<1> QED  BY <1>1, <1>2, <1>3, <1>6, <1>9, <1>10 DEF Intact, Sets, r, e

(* The CPU's event and the copper's DMA are not in the list.               *)
LEMMA CpuSets ==
  ASSUME NEW s, Intact(s), NEW t \in 0..Disable
  PROVE  /\ Sets([s EXCEPT !.cycle["cpu"] = t], s, "cpu", t)
<1> DEFINE r == [s EXCEPT !.cycle["cpu"] = t]
<1>1. /\ s \in State /\ s.cycle \in [Timed -> 0..Disable] /\ s.queue \in Seq(Event)
      /\ \A f \in Event : Queued(s, f) <=> s.cycle[f] # Disable
  BY DEF Intact, State
<1>2. /\ r.queue = s.queue /\ r.cycle = [s.cycle EXCEPT !["cpu"] = t]
      /\ r.fault = s.fault /\ r.copper_dma = s.copper_dma
      /\ r.copper_suspended_wait = s.copper_suspended_wait
      /\ r = [s EXCEPT !.cycle = r.cycle]
  BY <1>1 DEF State
<1>3. r.cycle \in [Timed -> 0..Disable] /\ \A f \in Event : r.cycle[f] = s.cycle[f]
  BY <1>1, <1>2 DEF Timed, Event
<1> HIDE DEF r
<1>4. r \in State
  BY <1>1, <1>2, <1>3 DEF State
<1>5. InOrder(r)
  BY <1>1, <1>2, <1>3 DEF InOrder, Intact
<1>6. \A f \in Event : Queued(r, f) <=> r.cycle[f] # Disable
  BY <1>1, <1>2, <1>3 DEF Queued
<1> QED  BY <1>2, <1>4, <1>5, <1>6 DEF Intact, Sets, r

LEMMA CopperIntact ==
  ASSUME NEW s, Intact(s), NEW r \in State,
         r.queue = s.queue, r.cycle = s.cycle, r.fault = s.fault
  PROVE  Intact(r)
BY DEF Intact, Queued, InOrder
-----------------------------------------------------------------------------
(* The constants.                                                          *)

LEMMA Products ==
  ASSUME NEW a \in Nat, NEW b \in Nat, NEW c \in Nat
  PROVE  /\ a * c \in Nat
         /\ a <= b => a * c <= b * c
         /\ a >= 1 => c <= a * c
         /\ (a + 1) * c = a * c + c
OBVIOUS

LEMMA Geometry ==
  /\ LineCycles \in Nat /\ LineCycles >= 2 /\ Longest \in Nat /\ LineCycles <= Longest
  /\ \A long \in BOOLEAN :
       Cycles(long) \in Nat /\ LineCycles <= Cycles(long) /\ Cycles(long) <= Longest
  /\ {CopperStart, CopperStep, CopperPenalty} \subseteq Nat \ {0} /\ Latency \in Nat
  /\ \A d \in Delays : d \in Nat /\ 2 * (Longest + d + CopperPenalty) < Disable
  /\ {Latency, CopperStep} \union CpuTime \union AbortTime \union CiaDelay
       \union BlitDelay \union CopperWait \subseteq Delays
<1>1. /\ LineCycles \in Nat /\ LineCycles >= 2 /\ LongLines \in Nat /\ ShortLines \in Nat
      /\ LongLines >= 1 /\ ShortLines >= 1 /\ ShortLines <= LongLines
      /\ {CopperStart, CopperStep, CopperPenalty} \subseteq Nat \ {0}
  BY GeometryAssumption
<1>2. {Latency, CopperStep} \union CpuTime \union AbortTime \union CiaDelay
        \union BlitDelay \union CopperWait \subseteq Delays
  BY DEF Delays
<1>3. Longest \in Nat /\ LineCycles <= Longest
  BY <1>1, Products DEF Longest
<1>4. ASSUME NEW long \in BOOLEAN
      PROVE  Cycles(long) \in Nat /\ LineCycles <= Cycles(long) /\ Cycles(long) <= Longest
  <2>1. /\ ShortLines * LineCycles \in Nat /\ LineCycles <= ShortLines * LineCycles
        /\ ShortLines * LineCycles <= LongLines * LineCycles
    BY <1>1, Products
  <2> QED  BY <1>3, <2>1 DEF Cycles, Longest
<1> QED  BY <1>1, <1>2, <1>3, <1>4, DelayAssumption, DisableAssumption

(* Every cycle that a turn at now can schedule is in range.                *)
LEMMA InRange ==
  ASSUME NEW now \in Nat, now <= Longest, NEW d \in Delays
  PROVE  now + d \in Nat /\ now + d < Disable /\ 2 * (now + d) < Disable /\ now < Disable
BY Geometry, DisableNat
-----------------------------------------------------------------------------
(* What a device or a register can do to the events.                       *)

Raised == {"cpu", "interrupt"}

(* r is s after a request that waits for the chipset's latency.            *)
Requested(r, s, now) ==
  /\ Intact(r) /\ r.copper_dma = s.copper_dma
  /\ \A e \in Timed \ Raised : r.cycle[e] = s.cycle[e]
  /\ \/ \A e \in Raised : r.cycle[e] = s.cycle[e]
     \/ /\ s.cycle["interrupt"] = Disable /\ r.cycle["interrupt"] = Disable
        /\ s.cycle["cpu"] = Disable /\ r.cycle["cpu"] = now
     \/ /\ s.cycle["interrupt"] = Disable /\ r.cycle["interrupt"] = now + Latency
        /\ r.cycle["cpu"] = s.cycle["cpu"]

(* r is s after the interrupts were looked at.                             *)
Decided(r, s, now) ==
  /\ Intact(r) /\ r.copper_dma = s.copper_dma
  /\ \A e \in Timed \ Raised : r.cycle[e] = s.cycle[e]
  /\ \/ \A e \in Raised : r.cycle[e] = s.cycle[e]
     \/ /\ r.cycle["interrupt"] = Disable
        /\ \/ r.cycle["cpu"] = s.cycle["cpu"]
           \/ s.cycle["cpu"] = Disable /\ r.cycle["cpu"] = now

LEMMA CyclesType ==
  ASSUME NEW s, Intact(s)
  PROVE  /\ s.cycle \in [Timed -> 0..Disable]
         /\ \A e \in Timed : s.cycle[e] \in Nat /\ s.cycle[e] <= Disable
         /\ s.copper_dma \in BOOLEAN /\ s.copper_suspended_wait \in 0..Disable
  BY DisableNat DEF Intact, State

(* Setting one event leaves the others alone.                              *)
LEMMA SetsOne ==
  ASSUME NEW s, Intact(s), NEW r, NEW e \in Timed, NEW t, Sets(r, s, e, t)
  PROVE  /\ Intact(r) /\ r.cycle[e] = t /\ \A f \in Timed \ {e} : r.cycle[f] = s.cycle[f]
         /\ r.copper_dma = s.copper_dma
         /\ r.copper_suspended_wait = s.copper_suspended_wait
BY CyclesType DEF Sets

LEMMA WakeSets ==
  ASSUME NEW s, Intact(s), NEW now \in Nat, now < Disable
  PROVE  Sets(Wake(s, now), s, "cpu",
              IF s.cycle["cpu"] = Disable THEN now ELSE s.cycle["cpu"])
<1>1. CASE s.cycle["cpu"] = Disable
  BY <1>1, CpuSets, DisableNat DEF Wake
<1>2. CASE s.cycle["cpu"] # Disable
  BY <1>2, CyclesType DEF Wake, Sets
<1> QED  BY <1>1, <1>2

LEMMA RaiseDelayedRequests ==
  ASSUME NEW s, Intact(s), NEW f \in Event, s.cycle[f] # Disable,
         NEW now \in Nat, now <= Longest, NEW r \in RaiseDelayed(s, now)
  PROVE  Requested(r, s, now)
<1>1. CASE r = s
  BY <1>1 DEF Requested
<1>2. CASE s.cycle["interrupt"] = Disable /\ s.cycle["cpu"] = Disable /\ r = Wake(s, now)
  <2>1. now < Disable
    BY InRange, Geometry
  <2>2. Sets(r, s, "cpu", now)
    BY <1>2, <2>1, WakeSets
  <2> QED  BY <1>2, <2>2, SetsOne DEF Requested, Raised, Timed, Event
<1>3. CASE s.cycle["interrupt"] = Disable /\ r = Insert(s, "interrupt", now + Latency)
  <2>1. now + Latency \in Nat /\ now + Latency < Disable
    BY InRange, Geometry
  <2>2. Sets(r, s, "interrupt", now + Latency)
    BY <1>3, <2>1, InsertSets DEF Event
  <2> QED  BY <1>3, <2>2, SetsOne DEF Requested, Raised, Timed, Event
<1> QED  BY <1>1, <1>2, <1>3 DEF RaiseDelayed

LEMMA RaiseDecides ==
  ASSUME NEW s, Intact(s), NEW now \in Nat, now <= Longest, NEW r \in Raise(s, now)
  PROVE  Decided(r, s, now)
<1> DEFINE c == Cancel(s, "interrupt")
<1>1. Sets(c, s, "interrupt", Disable)
  BY CancelSets DEF Event
<1>2. /\ Intact(c) /\ c.cycle["interrupt"] = Disable /\ c.copper_dma = s.copper_dma
      /\ \A f \in Timed \ {"interrupt"} : c.cycle[f] = s.cycle[f]
  BY <1>1, SetsOne DEF Timed, Event
<1>3. now < Disable
  BY InRange, Geometry
<1> HIDE DEF c
<1>4. Sets(Wake(c, now), c, "cpu", IF c.cycle["cpu"] = Disable THEN now ELSE c.cycle["cpu"])
  BY <1>2, <1>3, WakeSets
<1>5. r = s \/ r = c \/ r = Wake(c, now)
  BY DEF Raise, c
<1>6. CASE r = s
  BY <1>6 DEF Decided
<1>7. CASE r = c
  BY <1>2, <1>7 DEF Decided, Raised, Timed, Event
<1>8. CASE r = Wake(c, now)
  BY <1>2, <1>4, <1>8, SetsOne DEF Decided, Raised, Timed, Event
<1> QED  BY <1>5, <1>6, <1>7, <1>8

LEMMA BlittedDoes ==
  ASSUME NEW s, Intact(s), NEW f \in Event, s.cycle[f] # Disable,
         NEW now \in Nat, now <= Longest, NEW r \in Blitted(s, now)
  PROVE  Requested(r, s, now) \/ Decided(r, s, now)
BY RaiseDelayedRequests, RaiseDecides DEF Blitted

(* r is s after a register was written.                                    *)
Accessed(r, s, now) ==
  /\ Intact(r)
  /\ r.cycle["eol"] = s.cycle["eol"] /\ r.cycle["eof"] = s.cycle["eof"]
  /\ \/ r.cycle["cpu"] = s.cycle["cpu"]
     \/ s.cycle["cpu"] = Disable /\ r.cycle["cpu"] = now
  /\ r.cycle["interrupt"] \in {s.cycle["interrupt"], Disable}
       \union IF s.cycle["interrupt"] = Disable THEN {now + Latency} ELSE {}
  /\ r.cycle["cia"] = s.cycle["cia"] \/ r.cycle["cia"] >= now
  /\ \/ r.cycle["blitter"] \in {s.cycle["blitter"], Disable}
     \/ r.cycle["blitter"] >= now /\ 2 * r.cycle["blitter"] < Disable
  /\ \/ r.cycle["copper"] = s.cycle["copper"] /\ r.copper_dma = s.copper_dma
     \/ r.cycle["copper"] = Disable
     \/ /\ r.copper_dma
        /\ \/ r.cycle["copper"] = now + CopperStep
           \/ ~s.copper_dma /\ r.cycle["copper"] >= now

LEMMA RequestedAccessed ==
  ASSUME NEW s, Intact(s), NEW now, NEW r, Requested(r, s, now) \/ Decided(r, s, now)
  PROVE  Accessed(r, s, now)
BY DEF Requested, Decided, Accessed, Raised, Timed, Event

LEMMA SetupCiaSets ==
  ASSUME NEW s, Intact(s), s.cycle["eof"] # Disable,
         NEW now \in Nat, now <= Longest, NEW r \in SetupCia(s, now)
  PROVE  \E t \in Nat : t >= now /\ Sets(r, s, "cia", t)
<1>1. PICK t \in {now + d : d \in CiaDelay} \union {Disable} : r = Reschedule(s, "cia", t)
  BY DEF SetupCia
<1>2. t \in 0..Disable /\ t \in Nat /\ t >= now
  <2>1. CASE t = Disable
    BY <2>1, InRange, Geometry, DisableNat
  <2>2. CASE t \in {now + d : d \in CiaDelay}
    BY <2>2, InRange, Geometry, DisableNat
  <2> QED  BY <1>1, <2>1, <2>2
<1> QED  BY <1>1, <1>2, RescheduleSets DEF Event

LEMMA FinishBlitDoes ==
  ASSUME NEW s, Intact(s), s.cycle["eof"] # Disable,
         NEW now \in Nat, now <= Longest, NEW r \in FinishBlit(s, now)
  PROVE  Accessed(r, s, now) /\ r.cycle["blitter"] = Disable
         /\ r.cycle["copper"] = s.cycle["copper"] /\ r.copper_dma = s.copper_dma
         /\ r.cycle["cia"] = s.cycle["cia"]
<1>1. CASE s.cycle["blitter"] = Disable
  BY <1>1 DEF FinishBlit, Accessed
<1>2. CASE s.cycle["blitter"] # Disable
  <2> DEFINE c == Cancel(s, "blitter")
  <2>1. Sets(c, s, "blitter", Disable)
    BY CancelSets DEF Event
  <2>2. /\ Intact(c) /\ c.cycle["blitter"] = Disable /\ c.copper_dma = s.copper_dma
        /\ \A f \in Timed \ {"blitter"} : c.cycle[f] = s.cycle[f]
    BY <2>1, SetsOne DEF Timed, Event
  <2>3. r \in Blitted(c, now)
    BY <1>2 DEF FinishBlit
  <2> HIDE DEF c
  <2>4. Requested(r, c, now) \/ Decided(r, c, now)
    BY <2>2, <2>3, BlittedDoes DEF Event, Timed
  <2> QED  BY <2>2, <2>4 DEF Requested, Decided, Accessed, Raised, Timed, Event
<1> QED  BY <1>1, <1>2

LEMMA StartBlitDoes ==
  ASSUME NEW s, Intact(s), s.cycle["eof"] # Disable,
         NEW now \in Nat, now <= Longest, NEW r \in StartBlit(s, now)
  PROVE  Accessed(r, s, now)
<1>1. PICK d \in BlitDelay, f \in FinishBlit(s, now) : r = Insert(f, "blitter", now + d)
  BY DEF StartBlit
<1>2. /\ Accessed(f, s, now) /\ f.cycle["blitter"] = Disable
      /\ f.cycle["copper"] = s.cycle["copper"] /\ f.copper_dma = s.copper_dma
      /\ f.cycle["cia"] = s.cycle["cia"] /\ Intact(f) /\ f.cycle["eof"] # Disable
  BY FinishBlitDoes DEF Accessed
<1>3. now + d \in Nat /\ now + d < Disable /\ now + d >= now /\ 2 * (now + d) < Disable
  BY InRange, Geometry
<1>4. Sets(r, f, "blitter", now + d)
  BY <1>1, <1>2, <1>3, InsertSets DEF Event
<1>5. /\ Intact(r) /\ r.cycle["blitter"] = now + d /\ r.copper_dma = f.copper_dma
      /\ \A e \in Timed \ {"blitter"} : r.cycle[e] = f.cycle[e]
  BY <1>2, <1>4, SetsOne DEF Timed, Event
<1> QED  BY <1>2, <1>3, <1>5 DEF Accessed, Timed, Event

LEMMA CopperAccessed ==
  ASSUME NEW s, Intact(s), s.cycle["eof"] # Disable, NEW now \in Nat, now <= Longest,
         NEW r \in {LoadCopper(s, now), CopperDmaOff(s), CopperDmaOn(s, now)}
  PROVE  Accessed(r, s, now)
<1>1. /\ \A e \in Timed : s.cycle[e] \in Nat /\ s.cycle[e] <= Disable
      /\ s.copper_dma \in BOOLEAN /\ s.copper_suspended_wait \in 0..Disable
      /\ s.copper_suspended_wait \in Nat
  BY CyclesType, DisableNat
<1>2. /\ now + CopperStep \in Nat /\ now + CopperStep < Disable /\ now < Disable
      /\ now + CopperStep \in 0..Disable /\ now \in 0..Disable /\ now + CopperStep >= now
  BY InRange, Geometry, DisableNat
<1>3. ASSUME NEW t \in 0..Disable
      PROVE  LET c == Reschedule(s, "copper", t)
             IN  /\ Intact(c) /\ c.cycle["copper"] = t /\ c.copper_dma = s.copper_dma
                 /\ c.copper_suspended_wait = s.copper_suspended_wait
                 /\ \A e \in Timed \ {"copper"} : c.cycle[e] = s.cycle[e]
  <2>1. Sets(Reschedule(s, "copper", t), s, "copper", t)
    BY RescheduleSets DEF Event
  <2> QED  BY <2>1, SetsOne DEF Timed, Event
<1>4. CASE r = s
  BY <1>4 DEF Accessed
<1>5. CASE s.copper_dma /\ r = Reschedule(s, "copper", now + CopperStep)
  BY <1>2, <1>3, <1>5 DEF Accessed, Timed, Event
<1>6. CASE ~s.copper_dma /\ r = [s EXCEPT !.copper_suspended_wait = now]
  <2>1. /\ r \in State /\ r.queue = s.queue /\ r.cycle = s.cycle /\ r.fault = s.fault
        /\ r.copper_dma = s.copper_dma
    BY <1>2, <1>6 DEF Intact, State
  <2>2. Intact(r)
    BY <2>1, CopperIntact
  <2> QED  BY <2>1, <2>2 DEF Accessed
<1>7. CASE r = [Cancel(s, "copper") EXCEPT !.copper_dma = FALSE,
                                            !.copper_suspended_wait = s.cycle["copper"]]
  <2> DEFINE c == Cancel(s, "copper")
  <2>1. Sets(c, s, "copper", Disable)
    BY CancelSets DEF Event
  <2>2. /\ Intact(c) /\ c.cycle["copper"] = Disable
        /\ \A e \in Timed \ {"copper"} : c.cycle[e] = s.cycle[e]
    BY <2>1, SetsOne DEF Timed, Event
  <2>3. s.cycle["copper"] \in 0..Disable
    BY CyclesType DEF Timed, Event
  <2> HIDE DEF c
  <2>4. r = [c EXCEPT !.copper_dma = FALSE, !.copper_suspended_wait = s.cycle["copper"]]
    BY <1>7 DEF c
  <2>5. r \in State /\ r.queue = c.queue /\ r.cycle = c.cycle /\ r.fault = c.fault
    BY <2>2, <2>3, <2>4 DEF Intact, State
  <2>6. Intact(r)
    BY <2>2, <2>5, CopperIntact
  <2> QED  BY <2>2, <2>5, <2>6 DEF Accessed, Timed, Event
<1>8. CASE /\ ~s.copper_dma
           /\ r = [Reschedule(s, "copper", IF s.copper_suspended_wait <= now
                                            THEN now + CopperStep
                                            ELSE s.copper_suspended_wait)
                     EXCEPT !.copper_dma = TRUE]
  <2> DEFINE t == IF s.copper_suspended_wait <= now THEN now + CopperStep
                  ELSE s.copper_suspended_wait
             c == Reschedule(s, "copper", t)
  <2>1. t \in 0..Disable /\ t >= now
    BY <1>1, <1>2
  <2> HIDE DEF t
  <2>2. /\ Intact(c) /\ c.cycle["copper"] = t
        /\ c.copper_suspended_wait = s.copper_suspended_wait
        /\ \A e \in Timed \ {"copper"} : c.cycle[e] = s.cycle[e]
    BY <1>3, <2>1
  <2> HIDE DEF c
  <2>3. r = [c EXCEPT !.copper_dma = TRUE]
    BY <1>8 DEF c, t
  <2>4. /\ r \in State /\ r.queue = c.queue /\ r.cycle = c.cycle /\ r.fault = c.fault
        /\ r.copper_dma
    BY <2>2, <2>3 DEF Intact, State
  <2>5. Intact(r)
    BY <2>2, <2>4, CopperIntact
  <2> QED  BY <1>8, <2>1, <2>2, <2>4, <2>5 DEF Accessed, Timed, Event
<1> QED  BY <1>4, <1>5, <1>6, <1>7, <1>8 DEF LoadCopper, CopperDmaOff, CopperDmaOn

LEMMA AccessDoes ==
  ASSUME NEW s, Intact(s), s.cycle["eof"] # Disable,
         NEW now \in Nat, now <= Longest, NEW r \in Access(s, now)
  PROVE  Accessed(r, s, now)
<1>1. CASE r \in Raise(s, now) \union RaiseDelayed(s, now)
  BY <1>1, RaiseDecides, RaiseDelayedRequests, RequestedAccessed DEF Event
<1>2. CASE r \in SetupCia(s, now)
  <2>1. PICK t \in Nat : t >= now /\ Sets(r, s, "cia", t)
    BY <1>2, SetupCiaSets
  <2>2. /\ Intact(r) /\ r.cycle["cia"] = t /\ r.copper_dma = s.copper_dma
        /\ \A e \in Timed \ {"cia"} : r.cycle[e] = s.cycle[e]
    BY <2>1, SetsOne DEF Timed, Event
  <2> QED  BY <2>1, <2>2 DEF Accessed, Timed, Event
<1>3. CASE r \in FinishBlit(s, now)
  BY <1>3, FinishBlitDoes
<1>4. CASE r \in StartBlit(s, now)
  BY <1>4, StartBlitDoes
<1>5. CASE r \in {LoadCopper(s, now), CopperDmaOff(s), CopperDmaOn(s, now)}
  BY <1>5, CopperAccessed
<1> QED  BY <1>1, <1>2, <1>3, <1>4, <1>5 DEF Access
-----------------------------------------------------------------------------
(* The inductive invariant.                                                *)

(* A run of instructions or an exception puts the CPU off by its own time, *)
(* and the copper, which comes back no sooner than its penalty, by no more *)
(* than one penalty on top of it.  After a reset under the CPU's feet the  *)
(* deadline may be one of the old frame, but then the copper is off.       *)
CpuSoon(s, now) ==
  s.cycle["cpu"] # Disable =>
    \E t \in CpuTime \union AbortTime :
      /\ s.cycle["cpu"] <= Longest + t + CopperPenalty
      /\ ~StaleClock \/ s.copper_dma => s.cycle["cpu"] <= now + t + CopperPenalty
      /\ s.cycle["copper"] # Disable => s.cycle["cpu"] <= s.cycle["copper"] + t

(* What the blitter, the copper and an interrupt are bounded by.           *)
ChipsSoon(s, now) ==
  /\ s.cycle["blitter"] # Disable => 2 * s.cycle["blitter"] < Disable
  /\ s.cycle["copper"] # Disable => s.copper_dma
  /\ ~StaleClock /\ s.cycle["interrupt"] # Disable => s.cycle["interrupt"] <= now + Latency

(* The raster's two events, for the lines and the frame that are counted.  *)
Raster(s, now, lines, long) ==
  /\ s.cycle["eol"] = (lines + 1) * LineCycles - 1
  /\ s.cycle["eof"] = Cycles(long)
  /\ lines * LineCycles <= now + 1

Late(s, now) == \E e \in Timed : s.cycle[e] < now

IInv ==
  /\ TypeOK
  /\ Intact(m)
  /\ Raster(m, elapsed, line, long_frame)
  /\ ~Late(m, elapsed)
  /\ ChipsSoon(m, elapsed)
  /\ CpuSoon(m, elapsed)

LEMMA StaleType == StaleClock \in BOOLEAN
BY StaleClockAssumption

LEMMA LeaveType ==
  ASSUME TypeOK, NEW stop \in BOOLEAN, Leave(stop)
  PROVE  mode' \in {"stopped", "run", "step"} /\ stop_request' \in BOOLEAN
BY DEF Leave, TypeOK

(* A reset machine has its raster at the start, and nothing else but the   *)
(* CPU is enabled.                                                         *)
LEMMA SoftResetIntact ==
  ASSUME NEW s, s.fault = FALSE, NEW long \in BOOLEAN
  PROVE  LET r == SoftReset(s, long)
         IN  /\ Intact(r) /\ ~r.copper_dma
             /\ r.cycle = [e \in Timed |-> CASE e = "eol" -> LineCycles - 1
                                             [] e = "eof" -> Cycles(long)
                                             [] e = "cpu" -> 0
                                             [] OTHER -> Disable]
<1> DEFINE r == SoftReset(s, long)
           c == r.cycle
<1>1. /\ r.queue = <<"eol", "eof">> /\ r.fault = FALSE /\ r.copper_dma = FALSE
      /\ r.copper_suspended_wait = Disable
      /\ c = [e \in Timed |-> CASE e = "eol" -> LineCycles - 1
                                [] e = "eof" -> Cycles(long)
                                [] e = "cpu" -> 0
                                [] OTHER -> Disable]
      /\ r = [queue |-> r.queue, cycle |-> c, fault |-> FALSE, copper_dma |-> FALSE,
              copper_suspended_wait |-> Disable]
  BY DEF SoftReset
<1> HIDE DEF r
<1>2. /\ LineCycles - 1 \in 0..Disable /\ LineCycles - 1 < Disable
      /\ Cycles(long) \in 0..Disable /\ Cycles(long) < Disable
      /\ LineCycles - 1 <= Cycles(long) /\ 0 \in 0..Disable /\ Disable \in 0..Disable
  <2>1. 0 \in Nat /\ Longest + Latency + CopperPenalty \in Nat /\ Longest < Disable
    BY Geometry, DisableNat
  <2> QED  BY <2>1, Geometry, DisableNat
<1>3. c["eol"] = LineCycles - 1 /\ c["eof"] = Cycles(long)
      /\ \A e \in Event \ {"eol", "eof"} : c[e] = Disable
  BY <1>1 DEF Timed, Event
<1>4. c \in [Timed -> 0..Disable]
  BY <1>1, <1>2
<1>5. r.queue \in Seq(Event) /\ Len(r.queue) = 2
      /\ r.queue[1] = "eol" /\ r.queue[2] = "eof"
  BY <1>1 DEF Event
<1>6. r \in State
  BY <1>1, <1>4, <1>5, <1>2 DEF State
<1>7. ASSUME NEW e \in Event
      PROVE  Queued(r, e) <=> c[e] # Disable
  BY <1>2, <1>3, <1>5, <1>6, QueuedIndex DEF Event
<1>8. InOrder(r)
  BY <1>2, <1>3, <1>5 DEF InOrder
<1> QED  BY <1>1, <1>6, <1>7, <1>8 DEF Intact, r

LEMMA ResetKeeps ==
  ASSUME m.fault = FALSE, NEW long \in BOOLEAN
  PROVE  LET r == SoftReset(m, long)
         IN  /\ Intact(r) /\ ~Late(r, 0) /\ Raster(r, 0, 0, long) /\ ChipsSoon(r, 0)
             /\ r.cycle["cpu"] = 0 /\ r.cycle["eof"] # Disable /\ ~r.copper_dma
             /\ \A e \in {"cia", "copper", "blitter", "interrupt"} : r.cycle[e] = Disable
<1> DEFINE r == SoftReset(m, long)
<1>1. /\ Intact(r) /\ ~r.copper_dma
      /\ r.cycle = [e \in Timed |-> CASE e = "eol" -> LineCycles - 1
                                      [] e = "eof" -> Cycles(long)
                                      [] e = "cpu" -> 0
                                      [] OTHER -> Disable]
  BY SoftResetIntact
<1> HIDE DEF r
<1>2. /\ r.cycle["eol"] = LineCycles - 1 /\ r.cycle["eof"] = Cycles(long)
      /\ r.cycle["cpu"] = 0
      /\ \A e \in {"cia", "copper", "blitter", "interrupt"} : r.cycle[e] = Disable
  BY <1>1 DEF Timed, Event
<1>3. Cycles(long) < Disable
  BY Geometry, DisableNat
<1>4. Raster(r, 0, 0, long)
  BY <1>2, Geometry DEF Raster
<1>5. ~Late(r, 0)
  BY <1>1, CyclesType DEF Late
<1> QED  BY <1>1, <1>2, <1>3, <1>4, <1>5, Geometry DEF ChipsSoon, r

LEMMA InitIInv == Init => IInv
<1> SUFFICES ASSUME Init
             PROVE  IInv
  OBVIOUS
<1>1. /\ long_frame = TRUE /\ bus_cycle = 0 /\ mode = "stopped" /\ stop_request = FALSE
      /\ elapsed = 0 /\ line = 0 /\ m = SoftReset([fault |-> FALSE], TRUE)
  BY DEF Init
<1>2. SoftReset(m, TRUE) = m /\ m.fault = FALSE
  BY <1>1 DEF SoftReset
<1>3. /\ Intact(m) /\ ~Late(m, 0) /\ Raster(m, 0, 0, TRUE) /\ ChipsSoon(m, 0)
      /\ m.cycle["cpu"] = 0 /\ m.cycle["copper"] = Disable /\ ~m.copper_dma
  BY <1>2, ResetKeeps
<1>4. PICK t \in CpuTime : t \in Nat
  BY DelayAssumption, Geometry
<1>5. CpuSoon(m, 0)
  BY <1>3, <1>4, Geometry DEF CpuSoon
<1>6. TypeOK
  <2>1. m \in State /\ 0 \in 0..Disable /\ 0 \in Nat /\ TRUE \in BOOLEAN
    BY <1>3, DisableNat DEF Intact
  <2> QED  BY <1>1, <2>1 DEF TypeOK, State
<1> QED  BY <1>1, <1>3, <1>5, <1>6 DEF IInv

(* Whose turn it is, and when.                                             *)
LEMMA TurnFacts ==
  ASSUME IInv
  PROVE  /\ First \in Event /\ m.queue # <<>> /\ m.cycle["eof"] # Disable
         /\ m.cycle["eol"] # Disable
         /\ Now \in Nat /\ elapsed <= Now /\ Now <= Cycles(long_frame) /\ Now <= Longest
         /\ Now < Disable /\ Now \in 0..Disable
         /\ \A e \in Timed : Now <= m.cycle[e]
         /\ m.cycle[First] >= m.cycle["cpu"] => Now = m.cycle["cpu"]
         /\ m.cycle[First] < m.cycle["cpu"] => Now = m.cycle[First]
<1>1. /\ Intact(m) /\ long_frame \in BOOLEAN /\ elapsed \in Nat /\ line \in Nat
      /\ m.cycle["eof"] = Cycles(long_frame) /\ m.cycle["eol"] = (line + 1) * LineCycles - 1
      /\ line * LineCycles <= elapsed + 1
      /\ \A e \in Timed : elapsed <= m.cycle[e]
  <2>1. \A e \in Timed : ~(m.cycle[e] < elapsed)
    BY DEF IInv, Late
  <2> QED  BY <2>1, CyclesType, DisableNat DEF IInv, TypeOK, Raster
<1>2. /\ Cycles(long_frame) <= Longest /\ Longest + LineCycles < Disable
      /\ Cycles(long_frame) \in Nat /\ Longest \in Nat /\ LineCycles \in Nat
  <2>1. 2 * (Longest + Latency + CopperPenalty) < Disable
    BY Geometry
  <2> QED  BY <1>1, <2>1, Geometry, DisableNat
<1>3. \A e \in Timed : m.cycle[e] \in Nat /\ m.cycle[e] <= Disable
  BY <1>1, CyclesType
<1>4. m.cycle["eof"] # Disable
  BY <1>1, <1>2, DisableNat
<1>5. /\ m.queue # <<>> /\ First \in Event
      /\ \A e \in Event : m.cycle[First] <= m.cycle[e]
  BY <1>1, <1>4, FirstIsLeast DEF First, Event
<1>6. /\ Now \in Nat /\ \A e \in Timed : Now <= m.cycle[e]
      /\ m.cycle[First] >= m.cycle["cpu"] => Now = m.cycle["cpu"]
      /\ m.cycle[First] < m.cycle["cpu"] => Now = m.cycle[First]
      /\ elapsed <= Now
  BY <1>1, <1>3, <1>5 DEF Now, Timed
<1>7. Now <= m.cycle["eof"]
  BY <1>6 DEF Timed, Event
<1>8. m.cycle["eol"] # Disable
  <2>1. elapsed <= Cycles(long_frame)
    BY <1>1, <1>2, <1>6, <1>7
  <2>2. (line + 1) * LineCycles = line * LineCycles + LineCycles /\ line * LineCycles \in Nat
    BY <1>1, <1>2, Products
  <2> QED  BY <1>1, <1>2, <2>1, <2>2, DisableNat
<1> QED  BY <1>1, <1>2, <1>4, <1>5, <1>6, <1>7, <1>8, DisableNat
-----------------------------------------------------------------------------
(* The steps, one action at a time: what each does to the cycles.          *)

(* A turn that leaves the raster alone.                                    *)
LEMMA QuietKeeps ==
  ASSUME IInv, Intact(m'), elapsed' = Now, line' = line, long_frame' = long_frame,
         bus_cycle' = Now, NEW stop \in BOOLEAN, Leave(stop),
         m'.cycle["eol"] = m.cycle["eol"], m'.cycle["eof"] = m.cycle["eof"],
         \A e \in Timed : Now <= m'.cycle[e],
         ChipsSoon(m', Now), CpuSoon(m', Now)
  PROVE  IInv'
<1>1. /\ Now \in Nat /\ elapsed <= Now /\ Now \in 0..Disable
  BY TurnFacts
<1>2. TypeOK'
  BY <1>1, LeaveType DEF IInv, TypeOK, Intact, State
<1>3. Raster(m', elapsed', line', long_frame')
  <2>1. line * LineCycles \in Nat /\ elapsed \in Nat
    BY Products, Geometry, DisableNat DEF IInv, TypeOK
  <2> QED  BY <1>1, <2>1 DEF Raster, IInv
<1>4. ~Late(m', elapsed')
  <2>1. \A e \in Timed : m'.cycle[e] \in Nat
    BY CyclesType
  <2> QED  BY <1>1, <2>1 DEF Late
<1> QED  BY <1>2, <1>3, <1>4 DEF IInv

(* What a register write leaves of the chips' bounds and of the past.      *)
LEMMA AccessedChips ==
  ASSUME NEW s, Intact(s), NEW old \in Nat, NEW now \in Nat, old <= now, now <= Longest,
         ChipsSoon(s, old), NEW r, Accessed(r, s, now)
  PROVE  /\ Intact(r) /\ ChipsSoon(r, now)
         /\ (\A e \in Timed : now <= s.cycle[e]) => \A e \in Timed : now <= r.cycle[e]
<1>1. /\ \A e \in Timed : s.cycle[e] \in Nat /\ r.cycle[e] \in Nat
      /\ Intact(r) /\ now + Latency \in Nat /\ now < Disable /\ Latency \in Nat
      /\ CopperStep \in Nat
  BY CyclesType, InRange, Geometry DEF Accessed
<1>2. ChipsSoon(r, now)
  BY <1>1, StaleType DEF Accessed, ChipsSoon, Timed, Event
<1>3. ASSUME \A e \in Timed : now <= s.cycle[e]
      PROVE  \A e \in Timed : now <= r.cycle[e]
  BY <1>1, <1>3, DisableNat DEF Accessed, Timed, Event
<1> QED  BY <1>1, <1>2, <1>3

(* A CPU turn that does not reset the machine.                             *)
LEMMA CpuEffect ==
  ASSUME IInv, RunCpu \/ AbortInstruction \/ RuntimeError
  PROVE  /\ m.cycle["cpu"] = Now /\ Intact(m')
         /\ elapsed' = Now /\ line' = line /\ long_frame' = long_frame /\ bus_cycle' = Now
         /\ \E stop \in BOOLEAN : Leave(stop)
         /\ \E r : /\ Accessed(r, m, Now) /\ m'.copper_dma = r.copper_dma
                   /\ \A e \in Event : m'.cycle[e] = r.cycle[e]
         /\ \/ m'.cycle["cpu"] = Disable
            \/ \E t \in CpuTime \union AbortTime :
                 Now <= m'.cycle["cpu"] /\ m'.cycle["cpu"] <= Now + t
<1>1. /\ Intact(m) /\ m.cycle["eof"] # Disable /\ Now \in Nat /\ Now <= Longest
      /\ Now < Disable /\ stop_request \in BOOLEAN
      /\ m.cycle[First] >= m.cycle["cpu"] => Now = m.cycle["cpu"]
  BY TurnFacts DEF IInv, TypeOK
<1>2. m.cycle["cpu"] = Now
  BY <1>1 DEF RunCpu, AbortInstruction, RuntimeError, CpuTurn
<1>3. \A r \in Access(m, Now) : Accessed(r, m, Now) /\ r.cycle["cpu"] = Now /\ Intact(r)
  BY <1>1, <1>2, AccessDoes DEF Accessed
<1>4. PICK r \in Access(m, Now), t \in CpuTime \union AbortTime :
        /\ m' \in {r, [r EXCEPT !.cycle["cpu"] = Now + t], [r EXCEPT !.cycle["cpu"] = Disable]}
        /\ t \in Nat /\ Now + t \in 0..Disable
  <2>1. \A t \in CpuTime \union AbortTime : t \in Nat /\ Now + t \in 0..Disable
    BY <1>1, InRange, Geometry, DisableNat
  <2>2. CASE RunCpu
    <3>1. PICK r \in Access(m, Now), t \in CpuTime :
            m' \in {[r EXCEPT !.cycle["cpu"] = @ + t], [r EXCEPT !.cycle["cpu"] = Disable]}
      BY <2>2 DEF RunCpu
    <3>2. [r EXCEPT !.cycle["cpu"] = @ + t] = [r EXCEPT !.cycle["cpu"] = Now + t]
      BY <1>3
    <3> QED  BY <2>1, <3>1, <3>2
  <2>3. CASE AbortInstruction
    BY <2>1, <2>3 DEF AbortInstruction
  <2>4. CASE RuntimeError
    BY <2>1, <2>4, DelayAssumption DEF RuntimeError
  <2> QED  BY <2>2, <2>3, <2>4
<1>5. Accessed(r, m, Now) /\ r.cycle["cpu"] = Now /\ Intact(r)
  BY <1>3
<1>6. /\ Intact(m') /\ m'.copper_dma = r.copper_dma
      /\ \A e \in Event : m'.cycle[e] = r.cycle[e]
      /\ m'.cycle["cpu"] \in {Disable, Now, Now + t}
  <2>1. CASE m' = r
    BY <1>5, <2>1
  <2>2. CASE \E c \in {Now + t, Disable} : m' = [r EXCEPT !.cycle["cpu"] = c]
    <3>1. PICK c \in {Now + t, Disable} : m' = [r EXCEPT !.cycle["cpu"] = c]
      BY <2>2
    <3>2. c \in 0..Disable
      BY <1>4, DisableNat
    <3>3. Sets(m', r, "cpu", c)
      BY <1>5, <3>1, <3>2, CpuSets
    <3> QED  BY <1>5, <3>3, SetsOne DEF Timed, Event
  <2> QED  BY <1>4, <2>1, <2>2
<1>7. /\ elapsed' = Now /\ line' = line /\ long_frame' = long_frame /\ bus_cycle' = Now
      /\ \E stop \in BOOLEAN : Leave(stop)
  BY <1>1 DEF RunCpu, AbortInstruction, RuntimeError, CpuTurn
<1>8. \/ m'.cycle["cpu"] = Disable
      \/ \E u \in CpuTime \union AbortTime :
           Now <= m'.cycle["cpu"] /\ m'.cycle["cpu"] <= Now + u
  BY <1>1, <1>4, <1>6
<1> QED  BY <1>2, <1>5, <1>6, <1>7, <1>8

LEMMA CpuStep ==
  ASSUME IInv, RunCpu \/ AbortInstruction \/ RuntimeError
  PROVE  IInv'
<1>1. /\ m.cycle["cpu"] = Now /\ Intact(m')
      /\ elapsed' = Now /\ line' = line /\ long_frame' = long_frame /\ bus_cycle' = Now
  BY CpuEffect
<1>2. PICK r : /\ Accessed(r, m, Now) /\ m'.copper_dma = r.copper_dma
               /\ \A e \in Event : m'.cycle[e] = r.cycle[e]
  BY CpuEffect
<1>3. /\ Intact(m) /\ Now \in Nat /\ Now <= Longest /\ elapsed <= Now /\ elapsed \in Nat
      /\ \A e \in Timed : Now <= m.cycle[e]
  BY TurnFacts, DisableNat DEF IInv, TypeOK
<1>4. Intact(r) /\ ChipsSoon(r, Now) /\ \A e \in Timed : Now <= r.cycle[e]
  BY <1>2, <1>3, AccessedChips DEF IInv
<1>5. ChipsSoon(m', Now)
  BY <1>2, <1>4 DEF ChipsSoon, Event
<1>6. /\ m'.cycle["cpu"] \in Nat /\ m'.cycle["copper"] \in Nat /\ Now < Disable
      /\ CopperPenalty \in Nat /\ Longest \in Nat
  BY <1>1, <1>3, CyclesType, InRange, Geometry DEF Timed, Event
<1>7. /\ \A e \in Timed : Now <= m'.cycle[e]
      /\ CpuSoon(m', Now)
  <2>1. CASE m'.cycle["cpu"] = Disable
    <3>1. Now <= m'.cycle["cpu"]
      BY <1>6, <1>3, <2>1, DisableNat
    <3> QED  BY <1>2, <1>4, <2>1, <3>1 DEF CpuSoon, Timed
  <2>2. CASE \E t \in CpuTime \union AbortTime :
               Now <= m'.cycle["cpu"] /\ m'.cycle["cpu"] <= Now + t
    <3>1. PICK t \in CpuTime \union AbortTime :
            t \in Nat /\ Now <= m'.cycle["cpu"] /\ m'.cycle["cpu"] <= Now + t
      BY <2>2, Geometry
    <3>2. \A e \in Timed : Now <= m'.cycle[e]
      BY <1>2, <1>4, <3>1 DEF Timed
    <3>3. Now <= m'.cycle["copper"]
      BY <3>2 DEF Timed, Event
    <3> QED  BY <1>3, <1>6, <3>1, <3>2, <3>3 DEF CpuSoon
  <2> QED  BY <2>1, <2>2, CpuEffect
<1>8. m'.cycle["eol"] = m.cycle["eol"] /\ m'.cycle["eof"] = m.cycle["eof"]
  BY <1>2 DEF Accessed, Event
<1>9. PICK stop \in BOOLEAN : Leave(stop)
  BY CpuEffect
<1> QED  BY <1>1, <1>5, <1>7, <1>8, <1>9, QuietKeeps

(* The machine is reset, by the CPU or before it starts.                   *)
ResetStep == \/ ResetInstruction \/ DoubleFault
             \/ \E how \in {"run", "step"} : Start(how, TRUE)

LEMMA ResetEffect ==
  ASSUME IInv, ResetStep
  PROVE  /\ Intact(m') /\ elapsed' = 0 /\ line' = 0 /\ long_frame' = long_frame
         /\ m'.cycle["eol"] = LineCycles - 1 /\ m'.cycle["eof"] = Cycles(long_frame)
         /\ ~StaleClock => \A e \in {"cia", "copper", "blitter", "interrupt"} :
                             m'.cycle[e] = Disable
         /\ ChipsSoon(m', 0) /\ CpuSoon(m', 0)
<1> DEFINE s == SoftReset(m, long_frame)
<1>1. /\ Now \in Nat /\ Now <= Longest /\ Now < Disable
      /\ m.fault = FALSE /\ long_frame \in BOOLEAN /\ line \in Nat
  BY TurnFacts DEF IInv, TypeOK, Intact, State
<1>2. /\ Intact(s) /\ Raster(s, 0, 0, long_frame) /\ ChipsSoon(s, 0)
      /\ s.cycle["cpu"] = 0 /\ s.cycle["eof"] # Disable /\ ~s.copper_dma
      /\ \A e \in {"cia", "copper", "blitter", "interrupt"} : s.cycle[e] = Disable
  BY <1>1, ResetKeeps
<1>3. s.cycle["eol"] = LineCycles - 1 /\ s.cycle["eof"] = Cycles(long_frame)
  BY <1>2, Geometry DEF Raster
<1>4. Disable \in Nat /\ Disable > 0 /\ Longest \in Nat /\ CopperPenalty \in Nat
      /\ \A t \in CpuTime \union AbortTime : t \in Nat /\ t < Disable /\ Now + t < Disable
  BY <1>1, InRange, Geometry, DisableNat
<1> HIDE DEF s
<1>5. CASE ResetInstruction
  <2>1. PICK r \in IF StaleClock THEN Access(s, Now) ELSE {s}, t \in CpuTime :
          m' = [r EXCEPT !.cycle["cpu"] = @ + t]
    BY <1>5 DEF ResetInstruction, s
  <2>2. /\ Intact(r) /\ r.cycle["cpu"] = 0 /\ ChipsSoon(r, 0)
        /\ r.cycle["eol"] = s.cycle["eol"] /\ r.cycle["eof"] = s.cycle["eof"]
    <3>1. CASE StaleClock
      <4>1. Accessed(r, s, Now)
        BY <1>1, <1>2, <2>1, <3>1, AccessDoes
      <4>2. Intact(r) /\ ChipsSoon(r, Now)
        BY <1>1, <1>2, <4>1, AccessedChips
      <4> QED  BY <1>2, <1>4, <3>1, <4>1, <4>2 DEF Accessed, ChipsSoon
    <3>2. CASE ~StaleClock
      BY <1>2, <2>1, <3>2
    <3> QED  BY <3>1, <3>2
  <2>3. m' = [r EXCEPT !.cycle["cpu"] = t] /\ t \in 0..Disable
    BY <1>4, <2>1, <2>2
  <2>4. Sets(m', r, "cpu", t)
    BY <2>2, <2>3, CpuSets
  <2>5. /\ Intact(m') /\ m'.cycle["cpu"] = t /\ m'.copper_dma = r.copper_dma
        /\ \A e \in Event : m'.cycle[e] = r.cycle[e]
    BY <2>2, <2>4, SetsOne DEF Timed, Event
  <2>6. ChipsSoon(m', 0)
    BY <2>2, <2>5 DEF ChipsSoon, Event
  <2>7. m'.cycle["copper"] \in Nat
    BY <2>5, CyclesType DEF Timed, Event
  <2>8. CpuSoon(m', 0)
    BY <1>4, <2>5, <2>7 DEF CpuSoon
  <2>9. elapsed' = 0 /\ line' = 0 /\ long_frame' = long_frame
    BY <1>5 DEF ResetInstruction, CpuTurn
  <2>10. ~StaleClock => r = s
    BY <2>1
  <2> QED  BY <1>2, <1>3, <2>2, <2>5, <2>6, <2>8, <2>9, <2>10 DEF Event
<1>6. CASE DoubleFault
  <2>1. PICK t \in AbortTime : m' = [s EXCEPT !.cycle["cpu"] = Now + t]
    BY <1>6 DEF DoubleFault, s
  <2>2. Sets(m', s, "cpu", Now + t)
    BY <1>1, <1>2, <1>4, <2>1, CpuSets
  <2>3. /\ Intact(m') /\ m'.cycle["cpu"] = Now + t /\ ~m'.copper_dma
        /\ \A e \in Event : m'.cycle[e] = s.cycle[e]
    BY <1>2, <2>2, SetsOne DEF Timed, Event
  <2>4. ChipsSoon(m', 0)
    BY <1>2, <2>3 DEF ChipsSoon, Event
  <2>5. CpuSoon(m', 0)
    BY <1>1, <1>2, <1>4, <1>6, <2>3 DEF CpuSoon, DoubleFault, Event
  <2>6. elapsed' = 0 /\ line' = 0 /\ long_frame' = long_frame
    BY <1>6 DEF DoubleFault, CpuTurn
  <2> QED  BY <1>2, <1>3, <2>3, <2>4, <2>5, <2>6 DEF Event
<1>7. CASE \E how \in {"run", "step"} : Start(how, TRUE)
  <2>1. m' = s /\ elapsed' = 0 /\ line' = 0 /\ long_frame' = long_frame
    BY <1>7 DEF Start, s
  <2>2. CpuSoon(s, 0)
    BY <1>2, <1>4, DelayAssumption DEF CpuSoon
  <2> QED  BY <1>2, <1>3, <2>1, <2>2
<1> QED  BY <1>5, <1>6, <1>7 DEF ResetStep

LEMMA ResetKeepsIInv == ASSUME IInv, ResetStep PROVE IInv'
<1>1. /\ Intact(m') /\ elapsed' = 0 /\ line' = 0 /\ long_frame' = long_frame
      /\ m'.cycle["eol"] = LineCycles - 1 /\ m'.cycle["eof"] = Cycles(long_frame)
      /\ ChipsSoon(m', 0) /\ CpuSoon(m', 0)
  BY ResetEffect
<1>2. TypeOK'
  <2>1. bus_cycle' \in 0..Disable
    BY TurnFacts DEF IInv, TypeOK, ResetStep, ResetInstruction, DoubleFault, Start, CpuTurn
  <2>2. mode' \in {"stopped", "run", "step"} /\ stop_request' \in BOOLEAN
    BY LeaveType DEF IInv, TypeOK, ResetStep, ResetInstruction, DoubleFault, Start
  <2>3. m' \in State /\ 0 \in 0..Disable /\ 0 \in Nat /\ long_frame' \in BOOLEAN
    BY <1>1, DisableNat DEF Intact, IInv, TypeOK
  <2> QED  BY <1>1, <2>1, <2>2, <2>3 DEF TypeOK, State
<1>3. Raster(m', elapsed', line', long_frame')
  BY <1>1, Geometry DEF Raster
<1>4. ~Late(m', elapsed')
  BY <1>1, CyclesType DEF Late
<1> QED  BY <1>1, <1>2, <1>3, <1>4 DEF IInv

LEMMA HostStep ==
  ASSUME IInv, RequestStop \/ \E how \in {"run", "step"} : Start(how, FALSE)
  PROVE  IInv'
<1>1. UNCHANGED <<m, bus_cycle, long_frame, elapsed, line>>
  BY DEF RequestStop, Start
<1>2. mode' \in {"stopped", "run", "step"} /\ stop_request' \in BOOLEAN
  BY DEF RequestStop, Start, IInv, TypeOK
<1> QED  BY <1>1, <1>2 DEF IInv, TypeOK, Intact, Queued, InOrder, Raster, Late, ChipsSoon, CpuSoon
-----------------------------------------------------------------------------
(* The turns of the events in the list.                                    *)

(* The event whose turn it is has been popped and is off.                  *)
LEMMA Popped ==
  ASSUME IInv, NEW e \in Event, Dispatch(e)
  PROVE  /\ m.cycle[e] = Now /\ Now < m.cycle["cpu"] /\ Intact(PopEvent(m))
         /\ PopEvent(m).cycle[e] = Disable /\ PopEvent(m).copper_dma = m.copper_dma
         /\ \A f \in Timed \ {e} : PopEvent(m).cycle[f] = m.cycle[f]
         /\ \E stop \in BOOLEAN : Leave(stop)
<1>1. /\ First = e /\ m.cycle[e] < m.cycle["cpu"] /\ Leave(stop_request)
      /\ stop_request \in BOOLEAN /\ Intact(m)
  BY DEF Dispatch, IInv, TypeOK
<1>2. m.queue # <<>> /\ Now = m.cycle[e]
  BY <1>1, TurnFacts
<1>3. Sets(PopEvent(m), m, e, Disable)
  BY <1>1, <1>2, PopSets DEF First
<1>4. e \in Timed
  BY DEF Timed
<1> QED  BY <1>1, <1>2, <1>3, <1>4, SetsOne

(* A turn that may wake the CPU does not put it off.                       *)
LEMMA WokenSoon ==
  ASSUME NEW s, Intact(s), NEW now \in Nat, CpuSoon(m, elapsed), IInv, now = Now,
         s.cycle["cpu"] = m.cycle["cpu"] \/ s.cycle["cpu"] = now,
         s.copper_dma = m.copper_dma, s.cycle["copper"] = m.cycle["copper"]
  PROVE  CpuSoon(s, now)
<1>1. /\ now <= Longest /\ elapsed <= now /\ elapsed \in Nat /\ Longest \in Nat
      /\ CopperPenalty \in Nat
      /\ now <= m.cycle["copper"] /\ m.cycle["copper"] \in Nat /\ m.cycle["cpu"] \in Nat
  BY TurnFacts, CyclesType, Geometry, DisableNat DEF IInv, TypeOK, Timed, Event
<1>2. \A t \in CpuTime \union AbortTime : t \in Nat
  BY Geometry
<1>3. CASE s.cycle["cpu"] = m.cycle["cpu"]
  BY <1>1, <1>2, <1>3 DEF CpuSoon
<1>4. CASE s.cycle["cpu"] = now
  BY <1>1, <1>2, <1>4, DelayAssumption DEF CpuSoon
<1> QED  BY <1>3, <1>4

(* A request or a decision in the turn of e, after it was popped.          *)
LEMMA TurnEffect ==
  ASSUME IInv, NEW e \in Event, Dispatch(e),
         NEW r, Requested(r, PopEvent(m), Now) \/ Decided(r, PopEvent(m), Now)
  PROVE  /\ Intact(r) /\ r.copper_dma = m.copper_dma
         /\ \A f \in Event \ {e, "interrupt"} : r.cycle[f] = m.cycle[f]
         /\ e # "interrupt" => r.cycle[e] = Disable
         /\ \/ r.cycle["cpu"] = m.cycle["cpu"]
            \/ m.cycle["cpu"] = Disable /\ r.cycle["cpu"] = Now
         /\ \/ r.cycle["interrupt"] \in {m.cycle["interrupt"], Disable}
            \/ r.cycle["interrupt"] = Now + Latency
         /\ \A f \in Timed : Now <= r.cycle[f]
         /\ r.cycle["blitter"] # Disable => 2 * r.cycle["blitter"] < Disable
         /\ ~StaleClock /\ r.cycle["interrupt"] # Disable => r.cycle["interrupt"] <= Now + Latency
         /\ e # "copper" => CpuSoon(r, Now)
<1> DEFINE p == PopEvent(m)
<1>1. /\ m.cycle[e] = Now /\ Intact(p) /\ p.cycle[e] = Disable
      /\ p.copper_dma = m.copper_dma
      /\ \A f \in Timed \ {e} : p.cycle[f] = m.cycle[f]
  BY Popped
<1>2. /\ Now \in Nat /\ Now <= Longest /\ Now < Disable /\ elapsed <= Now
      /\ \A f \in Timed : Now <= m.cycle[f]
      /\ Latency \in Nat /\ Intact(m) /\ elapsed \in Nat
  BY TurnFacts, Geometry, DisableNat DEF IInv, TypeOK
<1> HIDE DEF p
<1>3. Intact(r) /\ r.copper_dma = m.copper_dma
  BY <1>1 DEF Requested, Decided, p
<1>4. \A f \in Timed : r.cycle[f] \in Nat /\ m.cycle[f] \in Nat /\ p.cycle[f] \in Nat
  BY <1>1, <1>2, <1>3, CyclesType
<1>5. /\ \A f \in Event \ {"interrupt"} : r.cycle[f] = p.cycle[f]
      /\ \A f \in Event \ {e, "interrupt"} : r.cycle[f] = m.cycle[f]
      /\ e # "interrupt" => r.cycle[e] = Disable
      /\ \/ r.cycle["cpu"] = m.cycle["cpu"]
         \/ m.cycle["cpu"] = Disable /\ r.cycle["cpu"] = Now
      /\ \/ r.cycle["interrupt"] \in {m.cycle["interrupt"], Disable}
         \/ r.cycle["interrupt"] = Now + Latency
  BY <1>1 DEF Requested, Decided, Raised, Timed, Event, p
<1>6. \A f \in Timed : Now <= r.cycle[f]
  <2>1. Now <= r.cycle["cpu"] /\ Now <= r.cycle["interrupt"]
    BY <1>2, <1>4, <1>5, DisableNat DEF Timed, Event
  <2>2. \A f \in Event \ {"interrupt"} : Now <= r.cycle[f]
    BY <1>1, <1>2, <1>5, DisableNat DEF Timed, Event
  <2> QED  BY <2>1, <2>2 DEF Timed
<1>7. r.cycle["blitter"] # Disable => 2 * r.cycle["blitter"] < Disable
  BY <1>5 DEF IInv, ChipsSoon, Event
<1>8. ~StaleClock /\ r.cycle["interrupt"] # Disable => r.cycle["interrupt"] <= Now + Latency
  BY <1>2, <1>4, <1>5 DEF IInv, ChipsSoon, Timed, Event
<1>9. e # "copper" => CpuSoon(r, Now)
  <2>1. e # "copper" => r.cycle["copper"] = m.cycle["copper"]
    BY <1>5 DEF Event
  <2> QED  BY <1>2, <1>3, <1>5, <2>1, WokenSoon DEF IInv
<1> QED  BY <1>3, <1>5, <1>6, <1>7, <1>8, <1>9

(* The interrupt's, the CIA's or the blitter's turn, as far as it touches  *)
(* the other events, and what the turn leaves its own event at.            *)
LEMMA ChipEffect ==
  ASSUME IInv, InterruptEvent \/ CiaEvent \/ BlitterEvent
  PROVE  \E e \in {"interrupt", "cia", "blitter"} : \E r :
           /\ Chip(e) /\ Intact(m') /\ m'.copper_dma = r.copper_dma
           /\ \A f \in Timed \ {"cia"} : m'.cycle[f] = r.cycle[f]
           /\ m'.cycle["cia"] = r.cycle["cia"] \/ (e = "cia" /\ m'.cycle["cia"] >= Now)
           /\ \/ e = "interrupt" /\ Decided(r, PopEvent(m), Now)
              \/ e = "cia" /\ Requested(r, PopEvent(m), Now)
              \/ e = "blitter" /\ (Requested(r, PopEvent(m), Now) \/ Decided(r, PopEvent(m), Now))
<1> DEFINE p == PopEvent(m)
<1>1. /\ Now \in Nat /\ Now <= Longest /\ m.cycle["eof"] # Disable
  BY TurnFacts
<1>2. ASSUME NEW e \in {"interrupt", "cia", "blitter"}, Chip(e)
      PROVE  Intact(p) /\ p.cycle["eof"] # Disable
  BY <1>1, <1>2, Popped DEF Chip, Timed, Event
<1> HIDE DEF p
<1>3. CASE InterruptEvent
  <2>1. Chip("interrupt") /\ m' \in Raise(p, Now)
    BY <1>3 DEF InterruptEvent, p
  <2>2. Decided(m', p, Now)
    BY <1>1, <1>2, <2>1, RaiseDecides
  <2> QED  BY <2>1, <2>2 DEF Decided, p
<1>4. CASE BlitterEvent
  <2>1. Chip("blitter") /\ m' \in Blitted(p, Now)
    BY <1>4 DEF BlitterEvent, p
  <2>2. Requested(m', p, Now) \/ Decided(m', p, Now)
    BY <1>1, <1>2, <2>1, BlittedDoes DEF Event
  <2> QED  BY <2>1, <2>2 DEF Requested, Decided, p
<1>5. CASE CiaEvent
  <2>1. PICK s \in RaiseDelayed(p, Now) : Chip("cia") /\ m' \in SetupCia(s, Now)
    BY <1>5 DEF CiaEvent, p
  <2>2. Requested(s, p, Now) /\ Intact(s) /\ s.cycle["eof"] # Disable
    <3>1. Requested(s, p, Now)
      BY <1>1, <1>2, <2>1, RaiseDelayedRequests DEF Event
    <3> QED  BY <1>2, <2>1, <3>1 DEF Requested, Timed, Event, Raised
  <2>3. PICK t \in Nat : t >= Now /\ Sets(m', s, "cia", t)
    BY <1>1, <2>1, <2>2, SetupCiaSets
  <2>4. /\ Intact(m') /\ m'.cycle["cia"] = t /\ m'.copper_dma = s.copper_dma
        /\ \A f \in Timed \ {"cia"} : m'.cycle[f] = s.cycle[f]
    BY <2>2, <2>3, SetsOne DEF Timed, Event
  <2> QED  BY <2>1, <2>2, <2>3, <2>4 DEF p
<1> QED  BY <1>3, <1>4, <1>5

LEMMA ChipStep ==
  ASSUME IInv, InterruptEvent \/ CiaEvent \/ BlitterEvent PROVE IInv'
<1>1. PICK e, r :
        /\ e \in {"interrupt", "cia", "blitter"} /\ Chip(e) /\ Intact(m') /\ m'.copper_dma = r.copper_dma
        /\ \A f \in Timed \ {"cia"} : m'.cycle[f] = r.cycle[f]
        /\ m'.cycle["cia"] = r.cycle["cia"] \/ (e = "cia" /\ m'.cycle["cia"] >= Now)
        /\ Requested(r, PopEvent(m), Now) \/ Decided(r, PopEvent(m), Now)
  BY ChipEffect
<1>2. e \in Event /\ e # "copper" /\ Dispatch(e)
  BY <1>1 DEF Chip, Event
<1>3. /\ Intact(r) /\ r.copper_dma = m.copper_dma
      /\ \A f \in Event \ {e, "interrupt"} : r.cycle[f] = m.cycle[f]
      /\ \A f \in Timed : Now <= r.cycle[f]
      /\ r.cycle["blitter"] # Disable => 2 * r.cycle["blitter"] < Disable
      /\ ~StaleClock /\ r.cycle["interrupt"] # Disable => r.cycle["interrupt"] <= Now + Latency
      /\ CpuSoon(r, Now)
  BY <1>1, <1>2, TurnEffect
<1>4. /\ elapsed' = Now /\ line' = line /\ long_frame' = long_frame /\ bus_cycle' = Now
  BY <1>1 DEF Chip, Dispatch
<1>5. PICK stop \in BOOLEAN : Leave(stop)
  BY <1>2, Popped
<1>6. \A f \in Timed : Now <= m'.cycle[f]
  BY <1>1, <1>3
<1>7. m'.cycle["eol"] = m.cycle["eol"] /\ m'.cycle["eof"] = m.cycle["eof"]
      /\ m'.cycle["copper"] = m.cycle["copper"]
  BY <1>1, <1>3 DEF Timed, Event
<1>8. ChipsSoon(m', Now)
  BY <1>1, <1>3, <1>7 DEF ChipsSoon, IInv, Timed, Event
<1>9. CpuSoon(m', Now)
  BY <1>1, <1>3 DEF CpuSoon, Timed, Event
<1> QED  BY <1>1, <1>4, <1>5, <1>6, <1>7, <1>8, <1>9, QuietKeeps

LEMMA EndOfLineEffect ==
  ASSUME IInv, EndOfLine
  PROVE  \E r : /\ Dispatch("eol") /\ Requested(r, PopEvent(m), Now) /\ Intact(m')
                /\ m'.copper_dma = r.copper_dma
                /\ m'.cycle["eol"] = Now + LineCycles
                /\ \A f \in Timed \ {"eol"} : m'.cycle[f] = r.cycle[f]
<1> DEFINE p == PopEvent(m)
<1>1. /\ Now \in Nat /\ Now <= Longest /\ m.cycle["eof"] # Disable
      /\ Now + LineCycles \in Nat /\ Now + LineCycles < Disable
  <2>1. 2 * (Longest + Latency + CopperPenalty) < Disable
    BY Geometry
  <2> QED  BY <2>1, TurnFacts, Geometry, DisableNat
<1>2. Intact(p) /\ p.cycle["eof"] # Disable /\ Dispatch("eol") /\ p.cycle["eol"] = Disable
  BY <1>1, Popped DEF EndOfLine, Timed, Event
<1> HIDE DEF p
<1>3. PICK r \in RaiseDelayed(p, Now) : m' = Insert(r, "eol", Now + LineCycles)
  BY DEF EndOfLine, p
<1>4. Requested(r, p, Now)
  BY <1>1, <1>2, RaiseDelayedRequests DEF Event
<1>5. Intact(r) /\ r.cycle["eof"] # Disable /\ r.cycle["eol"] = Disable
  BY <1>2, <1>4 DEF Requested, Timed, Event, Raised
<1>6. Sets(m', r, "eol", Now + LineCycles)
  BY <1>1, <1>3, <1>5, InsertSets DEF Event
<1>7. /\ Intact(m') /\ m'.cycle["eol"] = Now + LineCycles /\ m'.copper_dma = r.copper_dma
      /\ \A f \in Timed \ {"eol"} : m'.cycle[f] = r.cycle[f]
  BY <1>5, <1>6, SetsOne DEF Timed, Event
<1> QED  BY <1>2, <1>4, <1>7 DEF p

LEMMA EndOfLineStep == ASSUME IInv, EndOfLine PROVE IInv'
<1>1. PICK r : /\ Dispatch("eol") /\ Requested(r, PopEvent(m), Now) /\ Intact(m')
               /\ m'.copper_dma = r.copper_dma
               /\ m'.cycle["eol"] = Now + LineCycles
               /\ \A f \in Timed \ {"eol"} : m'.cycle[f] = r.cycle[f]
  BY EndOfLineEffect
<1>2. /\ Intact(r) /\ r.copper_dma = m.copper_dma
      /\ \A f \in Event \ {"eol", "interrupt"} : r.cycle[f] = m.cycle[f]
      /\ \A f \in Timed : Now <= r.cycle[f]
      /\ r.cycle["blitter"] # Disable => 2 * r.cycle["blitter"] < Disable
      /\ ~StaleClock /\ r.cycle["interrupt"] # Disable => r.cycle["interrupt"] <= Now + Latency
      /\ CpuSoon(r, Now)
  BY <1>1, TurnEffect DEF Event
<1>3. /\ elapsed' = Now /\ line' = line + 1 /\ long_frame' = long_frame /\ bus_cycle' = Now
  BY DEF EndOfLine, Dispatch
<1>4. PICK stop \in BOOLEAN : Leave(stop)
  BY <1>1, Popped DEF Event
<1>5. Now \in Nat /\ LineCycles \in Nat /\ Now \in 0..Disable
      /\ Now = (line + 1) * LineCycles - 1 /\ line \in Nat
  BY <1>1, TurnFacts, Popped, Geometry DEF IInv, TypeOK, Raster, Event
<1>6. ~Late(m', elapsed')
  <2>1. \A f \in Timed : Now <= m'.cycle[f]
    BY <1>1, <1>2, <1>5
  <2>2. \A f \in Timed : m'.cycle[f] \in Nat
    BY <1>1, CyclesType
  <2> QED  BY <1>3, <1>5, <2>1, <2>2 DEF Late
<1>7. Raster(m', elapsed', line', long_frame')
  <2>1. m'.cycle["eof"] = m.cycle["eof"]
    BY <1>1, <1>2 DEF Timed, Event
  <2>2. (line + 1 + 1) * LineCycles = (line + 1) * LineCycles + LineCycles
    BY <1>5, Products
  <2>3. (line + 1) * LineCycles \in Nat
    BY <1>5, Products
  <2> QED  BY <1>1, <1>3, <1>5, <2>1, <2>2, <2>3 DEF Raster, IInv
<1>8. ChipsSoon(m', Now)
  BY <1>1, <1>2 DEF ChipsSoon, IInv, Timed, Event
<1>9. CpuSoon(m', Now)
  BY <1>1, <1>2 DEF CpuSoon, Timed, Event
<1>10. TypeOK'
  BY <1>1, <1>3, <1>4, <1>5, LeaveType DEF IInv, TypeOK, Intact, State
<1> QED  BY <1>1, <1>3, <1>6, <1>7, <1>8, <1>9, <1>10 DEF IInv

(* The copper's own turn finds the DMA on, and the CPU near enough that    *)
(* its penalty keeps it in range.                                          *)
LEMMA CopperTurn ==
  ASSUME IInv, Chip("copper")
  PROVE  LET s == SlowCpu(PopEvent(m))
         IN  /\ Intact(s) /\ s.copper_dma /\ s.cycle["copper"] = Disable
             /\ \A f \in Event \ {"copper"} : s.cycle[f] = m.cycle[f]
             /\ m.cycle["cpu"] = Disable => s.cycle["cpu"] = Disable
             /\ m.cycle["cpu"] # Disable =>
                  /\ s.cycle["cpu"] = m.cycle["cpu"] + CopperPenalty
                  /\ s.cycle["cpu"] < Disable
                  /\ \E t \in CpuTime \union AbortTime : m.cycle["cpu"] <= Now + t
<1> DEFINE p == PopEvent(m)
           s == SlowCpu(p)
<1>1. /\ m.cycle["copper"] = Now /\ Intact(p) /\ p.cycle["copper"] = Disable
      /\ p.copper_dma = m.copper_dma
      /\ \A f \in Timed \ {"copper"} : p.cycle[f] = m.cycle[f]
  BY Popped DEF Chip, Event
<1>2. /\ Now \in Nat /\ Now < Disable /\ Now <= Longest /\ Intact(m)
      /\ \A f \in Timed : m.cycle[f] \in Nat
  BY TurnFacts, CyclesType DEF IInv
<1>3. m.copper_dma
  BY <1>1, <1>2 DEF IInv, ChipsSoon
<1> HIDE DEF p
<1>4. p.cycle["cpu"] = m.cycle["cpu"]
  BY <1>1 DEF Timed, Event
<1>5. CASE m.cycle["cpu"] = Disable
  BY <1>1, <1>3, <1>4, <1>5 DEF SlowCpu, Timed, Event, p
<1>6. CASE m.cycle["cpu"] # Disable
  <2>1. PICK t \in CpuTime \union AbortTime : m.cycle["cpu"] <= m.cycle["copper"] + t
    BY <1>1, <1>2, <1>6 DEF IInv, CpuSoon
  <2>2. /\ m.cycle["cpu"] + CopperPenalty \in Nat /\ m.cycle["cpu"] + CopperPenalty < Disable
        /\ m.cycle["cpu"] <= Now + t
    <3>1. t \in Nat /\ CopperPenalty \in Nat /\ 2 * (Longest + t + CopperPenalty) < Disable
          /\ Longest \in Nat /\ m.cycle["cpu"] \in Nat
      BY <1>2, Geometry DEF Timed
    <3> QED  BY <1>1, <1>2, <2>1, <3>1, DisableNat
  <2>3. s = [p EXCEPT !.cycle["cpu"] = m.cycle["cpu"] + CopperPenalty]
    BY <1>4, <1>6 DEF SlowCpu
  <2>4. Sets(s, p, "cpu", m.cycle["cpu"] + CopperPenalty)
    BY <1>1, <2>2, <2>3, CpuSets, DisableNat
  <2> HIDE DEF s
  <2>5. /\ Intact(s) /\ s.cycle["cpu"] = m.cycle["cpu"] + CopperPenalty
        /\ s.copper_dma = p.copper_dma /\ \A f \in Event : s.cycle[f] = p.cycle[f]
    BY <1>1, <2>4, SetsOne DEF Timed, Event
  <2> QED  BY <1>1, <1>3, <1>6, <2>2, <2>5 DEF Timed, Event, s, p
<1> QED  BY <1>5, <1>6

LEMMA CopperEffect ==
  ASSUME IInv, CopperEvent
  PROVE  /\ Intact(m')
         /\ m'.cycle["eol"] = m.cycle["eol"] /\ m'.cycle["eof"] = m.cycle["eof"]
         /\ m.cycle["cpu"] = Disable => m'.cycle["cpu"] \in {Disable, Now}
         /\ m.cycle["cpu"] # Disable =>
              /\ m'.cycle["cpu"] = m.cycle["cpu"] + CopperPenalty
              /\ \E t \in CpuTime \union AbortTime : m.cycle["cpu"] <= Now + t
         /\ m'.cycle["interrupt"] \in {m.cycle["interrupt"], Disable}
              \union IF m.cycle["interrupt"] = Disable THEN {Now + Latency} ELSE {}
         /\ m'.cycle["copper"] = Disable \/ m'.cycle["copper"] >= Now + CopperPenalty
         /\ ChipsSoon(m', Now)
         /\ \A f \in Timed : Now <= m'.cycle[f]
<1> DEFINE s == SlowCpu(PopEvent(m))
<1>1. /\ Intact(s) /\ s.copper_dma /\ s.cycle["copper"] = Disable
      /\ \A f \in Event \ {"copper"} : s.cycle[f] = m.cycle[f]
      /\ m.cycle["cpu"] = Disable => s.cycle["cpu"] = Disable
      /\ m.cycle["cpu"] # Disable =>
           /\ s.cycle["cpu"] = m.cycle["cpu"] + CopperPenalty
           /\ s.cycle["cpu"] < Disable
           /\ \E t \in CpuTime \union AbortTime : m.cycle["cpu"] <= Now + t
  BY CopperTurn DEF CopperEvent
<1>2. /\ Now \in Nat /\ Now <= Longest /\ Now < Disable /\ m.cycle["eof"] # Disable
      /\ elapsed <= Now /\ elapsed \in Nat /\ CopperPenalty \in Nat /\ Latency \in Nat
      /\ \A f \in Timed : Now <= m.cycle[f] /\ m.cycle[f] \in Nat
  BY TurnFacts, CyclesType, Geometry, DisableNat DEF IInv, TypeOK
<1>3. m' \in {s} \union Access(Insert(s, "copper", Now + CopperStep), Now)
                 \union {Insert(s, "copper", Now + d) : d \in CopperWait}
                 \union IF s.cycle["blitter"] = Disable THEN {}
                        ELSE {Insert(s, "copper", s.cycle["blitter"] + CopperStep)}
  BY DEF CopperEvent
<1> HIDE DEF s
<1>4. s.cycle["eof"] # Disable
  BY <1>1, <1>2 DEF Event
<1>5. ChipsSoon(s, Now) /\ \A f \in Timed : Now <= s.cycle[f]
  <2>1. ChipsSoon(s, Now)
    BY <1>1, <1>2 DEF IInv, ChipsSoon, Timed, Event
  <2>2. Now <= s.cycle["cpu"] /\ Now <= s.cycle["copper"]
    BY <1>1, <1>2, DisableNat DEF Timed
  <2> QED  BY <1>1, <1>2, <2>1, <2>2 DEF Timed, Event
<1>6. ASSUME NEW k \in Nat, k < Disable, k >= Now + CopperPenalty,
             NEW r, r = Insert(s, "copper", k)
      PROVE  /\ Intact(r) /\ r.cycle["copper"] = k /\ r.copper_dma
             /\ \A f \in Timed \ {"copper"} : r.cycle[f] = s.cycle[f]
             /\ ChipsSoon(r, Now) /\ \A f \in Timed : Now <= r.cycle[f]
  <2>1. Sets(r, s, "copper", k)
    BY <1>1, <1>4, <1>6, InsertSets DEF Event
  <2>2. /\ Intact(r) /\ r.cycle["copper"] = k /\ r.copper_dma
        /\ \A f \in Timed \ {"copper"} : r.cycle[f] = s.cycle[f]
    BY <1>1, <2>1, SetsOne DEF Timed, Event
  <2>3. ChipsSoon(r, Now)
    BY <1>5, <2>2 DEF ChipsSoon, Timed, Event
  <2>4. \A f \in Timed : Now <= r.cycle[f]
    BY <1>2, <1>5, <1>6, <2>2
  <2> QED  BY <2>2, <2>3, <2>4
<1>7. CASE m' = s
  BY <1>1, <1>5, <1>7 DEF Event
<1>8. CASE m' \in {Insert(s, "copper", k) :
                     k \in {j \in Nat : j < Disable /\ j >= Now + CopperPenalty}}
  <2>1. PICK k \in Nat : k < Disable /\ k >= Now + CopperPenalty /\ m' = Insert(s, "copper", k)
    BY <1>8
  <2> QED  BY <1>1, <1>6, <2>1 DEF Timed, Event
<1>9. /\ Now + CopperStep \in Nat /\ Now + CopperStep < Disable
      /\ Now + CopperStep >= Now + CopperPenalty
  BY <1>2, InRange, Geometry, CopperAssumption
<1>10. CASE m' \in Access(Insert(s, "copper", Now + CopperStep), Now)
  <2> DEFINE i == Insert(s, "copper", Now + CopperStep)
  <2>1. /\ Intact(i) /\ i.cycle["copper"] = Now + CopperStep /\ i.copper_dma
        /\ \A f \in Timed \ {"copper"} : i.cycle[f] = s.cycle[f]
        /\ ChipsSoon(i, Now) /\ \A f \in Timed : Now <= i.cycle[f]
    BY <1>6, <1>9
  <2> HIDE DEF i
  <2>2. Accessed(m', i, Now)
    <3>1. i.cycle["eof"] # Disable /\ m' \in Access(i, Now)
      BY <1>4, <1>10, <2>1 DEF Timed, Event, i
    <3> QED  BY <1>2, <2>1, <3>1, AccessDoes
  <2>3. /\ Intact(m') /\ ChipsSoon(m', Now) /\ \A f \in Timed : Now <= m'.cycle[f]
    BY <1>2, <2>1, <2>2, AccessedChips
  <2>4. m'.cycle["copper"] = Disable \/ m'.cycle["copper"] = Now + CopperStep
    BY <2>1, <2>2 DEF Accessed
  <2>5. /\ i.cycle["eol"] = m.cycle["eol"] /\ i.cycle["eof"] = m.cycle["eof"]
        /\ i.cycle["interrupt"] = m.cycle["interrupt"] /\ i.cycle["cpu"] = s.cycle["cpu"]
    BY <1>1, <2>1 DEF Timed, Event
  <2>6. /\ m.cycle["cpu"] = Disable => m'.cycle["cpu"] \in {Disable, Now}
        /\ m.cycle["cpu"] # Disable => m'.cycle["cpu"] = s.cycle["cpu"]
    <3>1. m.cycle["cpu"] # Disable => s.cycle["cpu"] # Disable
      BY <1>1, DisableNat
    <3> QED  BY <1>1, <2>2, <2>5, <3>1 DEF Accessed
  <2>7. m'.cycle["eol"] = m.cycle["eol"] /\ m'.cycle["eof"] = m.cycle["eof"]
    BY <2>2, <2>5 DEF Accessed
  <2>8. m'.cycle["interrupt"] \in {m.cycle["interrupt"], Disable}
          \union IF m.cycle["interrupt"] = Disable THEN {Now + Latency} ELSE {}
    BY <2>2, <2>5 DEF Accessed
  <2> QED  BY <1>1, <1>9, <2>3, <2>4, <2>6, <2>7, <2>8
<1>11. CASE m' \in {Insert(s, "copper", Now + d) : d \in CopperWait}
  <2>1. PICK d \in CopperWait : m' = Insert(s, "copper", Now + d)
    BY <1>11
  <2>2. Now + d \in Nat /\ Now + d < Disable /\ Now + d >= Now + CopperPenalty
    BY <1>2, InRange, Geometry, CopperAssumption
  <2> QED  BY <1>8, <2>1, <2>2
<1>12. CASE /\ s.cycle["blitter"] # Disable
            /\ m' = Insert(s, "copper", s.cycle["blitter"] + CopperStep)
  <2> DEFINE b == s.cycle["blitter"]
  <2>1. b \in Nat /\ b >= Now /\ 2 * b < Disable
    BY <1>1, <1>5, <1>12, CyclesType DEF ChipsSoon, Timed, Event
  <2>2. CopperStep \in Nat /\ 2 * CopperStep < Disable /\ CopperStep >= CopperPenalty
    <3>1. 2 * (Longest + CopperStep + CopperPenalty) < Disable
      BY Geometry
    <3> QED  BY <3>1, Geometry, CopperAssumption, DisableNat
  <2> HIDE DEF b
  <2>3. b + CopperStep \in Nat /\ b + CopperStep < Disable /\ b + CopperStep >= Now + CopperPenalty
    BY <1>2, <2>1, <2>2, DisableNat
  <2> QED  BY <1>8, <1>12, <2>3 DEF b
<1> QED  BY <1>3, <1>7, <1>10, <1>11, <1>12

LEMMA CopperStepKeeps == ASSUME IInv, CopperEvent PROVE IInv'
<1>1. /\ Intact(m')
      /\ m'.cycle["eol"] = m.cycle["eol"] /\ m'.cycle["eof"] = m.cycle["eof"]
      /\ m.cycle["cpu"] = Disable => m'.cycle["cpu"] \in {Disable, Now}
      /\ m.cycle["cpu"] # Disable =>
           /\ m'.cycle["cpu"] = m.cycle["cpu"] + CopperPenalty
           /\ \E t \in CpuTime \union AbortTime : m.cycle["cpu"] <= Now + t
      /\ m'.cycle["copper"] = Disable \/ m'.cycle["copper"] >= Now + CopperPenalty
      /\ ChipsSoon(m', Now)
      /\ \A f \in Timed : Now <= m'.cycle[f]
  BY CopperEffect
<1>2. /\ elapsed' = Now /\ line' = line /\ long_frame' = long_frame /\ bus_cycle' = Now
      /\ Leave(stop_request) /\ stop_request \in BOOLEAN
  BY DEF CopperEvent, Chip, Dispatch, IInv, TypeOK
<1>3. /\ Now \in Nat /\ Now <= Longest /\ Longest \in Nat /\ CopperPenalty \in Nat
      /\ m.cycle["cpu"] \in Nat /\ m'.cycle["cpu"] \in Nat /\ m'.cycle["copper"] \in Nat
      /\ Now <= m'.cycle["copper"]
      /\ \A t \in CpuTime \union AbortTime : t \in Nat
  BY <1>1, TurnFacts, CyclesType, Geometry DEF IInv, Timed, Event
<1>4. CpuSoon(m', Now)
  <2>1. CASE m'.cycle["cpu"] = Disable
    BY <2>1 DEF CpuSoon
  <2>2. CASE m'.cycle["cpu"] = Now
    BY <1>3, <2>2, DelayAssumption DEF CpuSoon
  <2>3. CASE m.cycle["cpu"] # Disable
    <3>1. PICK t \in CpuTime \union AbortTime : m.cycle["cpu"] <= Now + t
      BY <1>1, <2>3
    <3>2. m'.cycle["cpu"] = m.cycle["cpu"] + CopperPenalty /\ t \in Nat
      BY <1>1, <1>3, <2>3
    <3> QED  BY <1>1, <1>3, <3>1, <3>2 DEF CpuSoon
  <2> QED  BY <1>1, <2>1, <2>2, <2>3
<1> QED  BY <1>1, <1>2, <1>4, QuietKeeps
-----------------------------------------------------------------------------
(* The end of the frame.                                                   *)

(* The deadline x, moved back by one frame.                                *)
Moved(x, frame) == IF x = Disable THEN Disable ELSE x - frame

LEMMA SubExact ==
  ASSUME NEW a \in 0..Disable, NEW b \in 0..Disable, b <= a
  PROVE  Sub(a, b) = a - b /\ a - b \in 0..Disable
<1>1. a - b \in 0..Disable /\ Disable \in Nat
  BY DisableNat
<1> DEFINE x == a - b
           n == Disable + 1
<1>2. x \in Nat /\ n \in Nat /\ n > 0 /\ x < n
  BY <1>1
<1> HIDE DEF x, n
<1>3. x % n = x
  BY <1>2
<1> QED  BY <1>1, <1>3 DEF Sub, x, n

LEMMA RebaseSets ==
  ASSUME NEW s, Intact(s), NEW e \in Event, NEW f \in Event, f # e, s.cycle[f] # Disable,
         NEW frame \in 0..Disable, frame <= s.cycle[e]
  PROVE  Sets(Rebase(s, e, frame), s, e, Moved(s.cycle[e], frame))
<1>1. s.cycle[e] \in 0..Disable /\ e \in Timed
  BY CyclesType DEF Timed
<1>2. CASE s.cycle[e] = Disable
  BY <1>1, <1>2, CyclesType DEF Rebase, Moved, Sets
<1>3. CASE s.cycle[e] # Disable
  <2>1. Sub(s.cycle[e], frame) = s.cycle[e] - frame /\ s.cycle[e] - frame \in 0..Disable
    BY <1>1, SubExact
  <2> QED  BY <1>3, <2>1, RescheduleSets DEF Rebase, Moved
<1> QED  BY <1>2, <1>3

LEMMA RebaseCiaSets ==
  ASSUME NEW s, Intact(s), s.cycle["eol"] # Disable,
         NEW frame \in 0..Disable, frame <= s.cycle["cia"]
  PROVE  Sets(RebaseCia(s, frame), s, "cia", Moved(s.cycle["cia"], frame))
<1>1. s.cycle["cia"] \in 0..Disable
  BY CyclesType DEF Timed, Event
<1>2. CASE s.cycle["cia"] = Disable
  BY <1>1, <1>2, CyclesType DEF RebaseCia, Moved, Sets
<1>3. CASE s.cycle["cia"] # Disable
  <2>1. /\ ~(s.cycle["cia"] < frame) /\ s.cycle["cia"] - frame \in 0..Disable
    BY <1>1, DisableNat
  <2> QED  BY <1>3, <2>1, RescheduleSets DEF RebaseCia, Moved, Event
<1> QED  BY <1>2, <1>3

LEMMA RebaseCpuSets ==
  ASSUME NEW s, Intact(s), NEW frame \in 0..Disable, frame <= s.cycle["cpu"]
  PROVE  Sets(RebaseCpu(s, frame), s, "cpu", Moved(s.cycle["cpu"], frame))
<1>1. s.cycle["cpu"] \in 0..Disable
  BY CyclesType DEF Timed, Event
<1>2. CASE s.cycle["cpu"] = Disable
  BY <1>1, <1>2, CyclesType DEF RebaseCpu, Moved, Sets
<1>3. CASE s.cycle["cpu"] # Disable
  <2>1. Sub(s.cycle["cpu"], frame) = s.cycle["cpu"] - frame /\ s.cycle["cpu"] - frame \in 0..Disable
    BY <1>1, SubExact
  <2>2. RebaseCpu(s, frame) = [s EXCEPT !.cycle["cpu"] = s.cycle["cpu"] - frame]
    BY <1>3, <2>1 DEF RebaseCpu
  <2> QED  BY <1>3, <2>1, <2>2, CpuSets DEF Moved
<1> QED  BY <1>2, <1>3

LEMMA StartLinesSets ==
  ASSUME NEW s, Intact(s)
  PROVE  Sets(StartLines(s), s, "eol", LineCycles - 1)
<1> DEFINE c == Cancel(s, "eol")
<1>1. Sets(c, s, "eol", Disable)
  BY CancelSets DEF Event
<1>2. Intact(c) /\ c.cycle["eol"] = Disable
  BY <1>1, SetsOne DEF Timed, Event
<1>3. LineCycles - 1 \in Nat /\ LineCycles - 1 < Disable
  <2>1. 2 * (Longest + Latency + CopperPenalty) < Disable
    BY Geometry
  <2> QED  BY <2>1, Geometry, DisableNat
<1> HIDE DEF c
<1>4. ~Queued(c, "eol")
  BY <1>2 DEF Intact, Event
<1>5. StartLines(s) = Link(c, "eol", LineCycles - 1)
  BY <1>4 DEF StartLines, InsertWithNullCheck, Insert, c
<1>6. Sets(StartLines(s), c, "eol", LineCycles - 1)
  BY <1>2, <1>3, <1>5, LinkSets DEF Event
<1>7. [c.cycle EXCEPT !["eol"] = LineCycles - 1] = [s.cycle EXCEPT !["eol"] = LineCycles - 1]
  BY <1>1, CyclesType DEF Sets
<1> QED  BY <1>1, <1>6, <1>7 DEF Sets

LEMMA CopperEndOfFrameSets ==
  ASSUME NEW s, Intact(s), s.cycle["eol"] # Disable, ~s.copper_dma => s.cycle["copper"] = Disable
  PROVE  LET r == CopperEndOfFrame(s)
         IN  /\ Intact(r) /\ r.copper_dma = s.copper_dma
             /\ r.cycle["copper"] = IF s.copper_dma THEN CopperStart ELSE Disable
             /\ \A f \in Timed \ {"copper"} : r.cycle[f] = s.cycle[f]
<1> DEFINE q == [s EXCEPT !.copper_suspended_wait = CopperStart]
           r == CopperEndOfFrame(s)
<1>1. CopperStart \in 0..Disable
  BY Geometry, CopperAssumption, DisableNat
<1>2. /\ q \in State /\ q.queue = s.queue /\ q.cycle = s.cycle /\ q.fault = s.fault
      /\ q.copper_dma = s.copper_dma
  BY <1>1 DEF Intact, State
<1>3. Intact(q)
  BY <1>2, CopperIntact
<1> HIDE DEF q
<1>4. CASE s.copper_dma
  <2>1. r = Reschedule(q, "copper", CopperStart)
    BY <1>4 DEF CopperEndOfFrame, q
  <2>2. Sets(r, q, "copper", CopperStart)
    BY <1>1, <1>2, <1>3, <2>1, RescheduleSets DEF Event
  <2> HIDE DEF r
  <2>3. /\ Intact(r) /\ r.cycle["copper"] = CopperStart /\ r.copper_dma = q.copper_dma
        /\ \A f \in Timed \ {"copper"} : r.cycle[f] = q.cycle[f]
    BY <1>3, <2>2, SetsOne DEF Timed, Event
  <2> QED  BY <1>2, <1>4, <2>3 DEF r
<1>5. CASE ~s.copper_dma
  BY <1>2, <1>3, <1>5 DEF CopperEndOfFrame, q
<1> QED  BY <1>4, <1>5

(* The whole handler: the raster starts again, the copper too if its DMA   *)
(* is on, and every other deadline moves back by the frame that has passed *)
(* now, but for at most one request of the CIA's alarm or the vertical     *)
(* blank.                                                                  *)
LEMMA EndOfFrameEffect ==
  ASSUME IInv, EndOfFrame
  PROVE  /\ Dispatch("eof") /\ Now = Cycles(long_frame) /\ Intact(m')
         /\ m'.copper_dma = m.copper_dma
         /\ m'.cycle["eol"] = LineCycles - 1 /\ m'.cycle["eof"] = Cycles(long_frame')
         /\ m'.cycle["copper"] = IF m.copper_dma THEN CopperStart ELSE Disable
         /\ m'.cycle["cia"] = Moved(m.cycle["cia"], Now)
         /\ m'.cycle["blitter"] = Moved(m.cycle["blitter"], Now)
         /\ \/ \A e \in Raised : m'.cycle[e] = Moved(m.cycle[e], Now)
            \/ /\ m.cycle["interrupt"] = Disable /\ m'.cycle["interrupt"] = Disable
               /\ m.cycle["cpu"] = Disable /\ m'.cycle["cpu"] = 0
            \/ /\ m.cycle["interrupt"] = Disable /\ m'.cycle["interrupt"] = Latency
               /\ m'.cycle["cpu"] = Moved(m.cycle["cpu"], Now)
<1> DEFINE p == PopEvent(m)
           s == CopperEndOfFrame(p)
           frame == Cycles(long_frame)
           c == RebaseCia(s, frame)
<1>1. Dispatch("eof") /\ long_frame' \in BOOLEAN
  BY DEF EndOfFrame
<1>2. /\ m.cycle["eof"] = Now /\ Intact(p) /\ p.cycle["eof"] = Disable
      /\ p.copper_dma = m.copper_dma
      /\ \A f \in Timed \ {"eof"} : p.cycle[f] = m.cycle[f]
  BY <1>1, Popped DEF Event
<1>3. /\ Now \in Nat /\ Now <= Longest /\ Now < Disable /\ Now \in 0..Disable
      /\ \A f \in Timed : Now <= m.cycle[f] /\ m.cycle[f] \in Nat
      /\ m.cycle["eol"] # Disable /\ Latency \in Nat
      /\ Now + Latency \in Nat /\ Now + Latency < Disable
  BY TurnFacts, CyclesType, InRange, Geometry, DisableNat DEF IInv, Timed, Event
<1>4. frame = Now
  BY <1>2 DEF IInv, Raster
<1> DEFINE Twice(a, raise) ==
             IF raise /\ a = c THEN RaiseDelayed(Rebase(a, "blitter", frame), Now)
             ELSE {Rebase(a, "blitter", frame)}
           Rest(b) == Insert(StartLines(Rebase(RebaseCpu(b, frame), "interrupt", frame)),
                             "eof", Cycles(long_frame'))
<1>50. PICK a \in RaiseDelayed(c, Now), raise \in BOOLEAN :
         \E b \in Twice(a, raise) : m' = Rest(b)
  BY DEF EndOfFrame
<1>5. PICK b \in Twice(a, raise) : m' = Rest(b)
  BY <1>50
<1> DEFINE d == Rebase(a, "blitter", frame)
           g == RebaseCpu(b, frame)
           i == Rebase(g, "interrupt", frame)
           l == StartLines(i)
<1> HIDE DEF p, s, c, frame, d, g, i, l
<1>6. /\ Intact(s) /\ s.copper_dma = m.copper_dma
      /\ s.cycle["copper"] = IF m.copper_dma THEN CopperStart ELSE Disable
      /\ \A f \in Timed \ {"copper"} : s.cycle[f] = p.cycle[f]
  <2>1. p.cycle["eol"] # Disable /\ (~p.copper_dma => p.cycle["copper"] = Disable)
    BY <1>2, <1>3 DEF IInv, ChipsSoon, Timed, Event
  <2> QED  BY <1>2, <2>1, CopperEndOfFrameSets DEF s
<1>7. /\ Intact(c) /\ c.copper_dma = s.copper_dma
      /\ c.cycle["cia"] = Moved(m.cycle["cia"], Now)
      /\ \A f \in Timed \ {"cia"} : c.cycle[f] = s.cycle[f]
  <2>1. s.cycle["eol"] # Disable /\ s.cycle["cia"] = m.cycle["cia"] /\ frame <= s.cycle["cia"]
    BY <1>2, <1>3, <1>4, <1>6 DEF Timed, Event
  <2>2. Sets(c, s, "cia", Moved(s.cycle["cia"], frame))
    BY <1>3, <1>4, <1>6, <2>1, RebaseCiaSets DEF c
  <2> QED  BY <1>4, <1>6, <2>1, <2>2, SetsOne DEF Timed, Event
<1>8. c.cycle["eol"] # Disable /\ c.cycle["cpu"] = m.cycle["cpu"]
      /\ c.cycle["interrupt"] = m.cycle["interrupt"]
      /\ c.cycle["blitter"] = m.cycle["blitter"]
  BY <1>2, <1>3, <1>6, <1>7 DEF Timed, Event
<1>9. Requested(a, c, Now)
  BY <1>3, <1>5, <1>7, <1>8, RaiseDelayedRequests DEF Event
<1>10. /\ Intact(d) /\ d.copper_dma = a.copper_dma
       /\ d.cycle["blitter"] = Moved(m.cycle["blitter"], Now)
       /\ \A f \in Timed \ {"blitter"} : d.cycle[f] = a.cycle[f]
       /\ d.cycle["eol"] # Disable
  <2>1. /\ Intact(a) /\ a.cycle["eol"] # Disable
        /\ a.cycle["blitter"] = m.cycle["blitter"] /\ frame <= a.cycle["blitter"]
    BY <1>3, <1>4, <1>8, <1>9 DEF Requested, Raised, Timed, Event
  <2>2. Sets(d, a, "blitter", Moved(a.cycle["blitter"], frame))
    BY <1>3, <1>4, <2>1, RebaseSets DEF Event, d
  <2> QED  BY <1>4, <2>1, <2>2, SetsOne DEF Timed, Event
<1>11. /\ Intact(b) /\ b.copper_dma = m.copper_dma
       /\ \A f \in Timed \ Raised : b.cycle[f] = d.cycle[f]
       /\ \/ \A e \in Raised : b.cycle[e] = m.cycle[e]
          \/ /\ m.cycle["interrupt"] = Disable /\ b.cycle["interrupt"] = Disable
             /\ m.cycle["cpu"] = Disable /\ b.cycle["cpu"] = Now
          \/ /\ m.cycle["interrupt"] = Disable /\ b.cycle["interrupt"] = Now + Latency
             /\ b.cycle["cpu"] = m.cycle["cpu"]
  <2>1. d.copper_dma = m.copper_dma
    BY <1>6, <1>7, <1>9, <1>10 DEF Requested
  <2>2. CASE b = d
    <3>1. \A e \in Raised : b.cycle[e] = a.cycle[e]
      BY <1>10, <2>2 DEF Raised, Timed, Event
    <3> QED  BY <1>8, <1>9, <1>10, <2>1, <2>2, <3>1 DEF Requested, Raised
  <2>3. CASE a = c /\ b \in RaiseDelayed(d, Now)
    <3>1. Requested(b, d, Now)
      BY <1>3, <1>10, <2>3, RaiseDelayedRequests DEF Event
    <3>2. \A e \in Raised : d.cycle[e] = m.cycle[e]
      BY <1>8, <1>10, <2>3 DEF Raised, Timed, Event
    <3> QED  BY <2>1, <3>1, <3>2 DEF Requested, Raised
  <2> QED  BY <1>5, <2>2, <2>3 DEF d
<1>12. /\ Now <= b.cycle["cpu"] /\ Now <= b.cycle["interrupt"]
       /\ b.cycle["eol"] # Disable
  BY <1>3, <1>10, <1>11, DisableNat DEF Raised, Timed, Event
<1>13. /\ Intact(g) /\ g.copper_dma = b.copper_dma
       /\ g.cycle["cpu"] = Moved(b.cycle["cpu"], Now)
       /\ \A f \in Timed \ {"cpu"} : g.cycle[f] = b.cycle[f]
  <2>1. Sets(g, b, "cpu", Moved(b.cycle["cpu"], frame))
    BY <1>3, <1>4, <1>11, <1>12, RebaseCpuSets DEF g
  <2> QED  BY <1>4, <1>11, <2>1, SetsOne DEF Timed, Event
<1>14. /\ Intact(i) /\ i.copper_dma = b.copper_dma
       /\ i.cycle["interrupt"] = Moved(b.cycle["interrupt"], Now)
       /\ \A f \in Timed \ {"interrupt"} : i.cycle[f] = g.cycle[f]
  <2>1. g.cycle["eol"] # Disable /\ g.cycle["interrupt"] = b.cycle["interrupt"]
    BY <1>12, <1>13 DEF Timed, Event
  <2>2. Sets(i, g, "interrupt", Moved(g.cycle["interrupt"], frame))
    BY <1>3, <1>4, <1>12, <1>13, <2>1, RebaseSets DEF Event, i
  <2> QED  BY <1>4, <1>13, <2>1, <2>2, SetsOne DEF Timed, Event
<1>15. /\ Intact(l) /\ l.copper_dma = b.copper_dma /\ l.cycle["eol"] = LineCycles - 1
       /\ \A f \in Timed \ {"eol"} : l.cycle[f] = i.cycle[f]
  <2>1. Sets(l, i, "eol", LineCycles - 1)
    BY <1>14, StartLinesSets DEF l
  <2> QED  BY <1>14, <2>1, SetsOne DEF Timed, Event
<1>16. /\ l.cycle["eof"] = Disable /\ l.cycle["eol"] # Disable
       /\ Cycles(long_frame') \in Nat /\ Cycles(long_frame') < Disable
  <2>1. d.cycle["eof"] = Disable
    BY <1>2, <1>6, <1>7, <1>9, <1>10 DEF Requested, Raised, Timed, Event
  <2>2. l.cycle["eof"] = Disable
    BY <1>11, <1>13, <1>14, <1>15, <2>1 DEF Raised, Timed, Event
  <2>3. LineCycles - 1 # Disable
    BY <1>3, Geometry, InRange, DisableNat
  <2>4. Cycles(long_frame') \in Nat /\ Cycles(long_frame') < Disable
    BY <1>1, Geometry, InRange, DisableNat
  <2> QED  BY <1>15, <2>2, <2>3, <2>4
<1>17. Sets(m', l, "eof", Cycles(long_frame'))
  BY <1>5, <1>15, <1>16, InsertSets DEF Event, l, i, g
<1>18. /\ Intact(m') /\ m'.cycle["eof"] = Cycles(long_frame')
       /\ m'.copper_dma = m.copper_dma
       /\ \A f \in Timed \ {"eof"} : m'.cycle[f] = l.cycle[f]
  BY <1>11, <1>15, <1>17, SetsOne DEF Timed, Event
<1>19. /\ m'.cycle["eol"] = LineCycles - 1
       /\ m'.cycle["interrupt"] = Moved(b.cycle["interrupt"], Now)
       /\ m'.cycle["cpu"] = Moved(b.cycle["cpu"], Now)
       /\ \A f \in {"cia", "copper", "blitter"} : m'.cycle[f] = b.cycle[f]
  BY <1>13, <1>14, <1>15, <1>18 DEF Timed, Event
<1>20. /\ m'.cycle["copper"] = IF m.copper_dma THEN CopperStart ELSE Disable
       /\ m'.cycle["cia"] = Moved(m.cycle["cia"], Now)
       /\ m'.cycle["blitter"] = Moved(m.cycle["blitter"], Now)
  <2>1. /\ b.cycle["cia"] = c.cycle["cia"] /\ b.cycle["copper"] = c.cycle["copper"]
        /\ b.cycle["blitter"] = d.cycle["blitter"]
    BY <1>9, <1>10, <1>11 DEF Requested, Raised, Timed, Event
  <2>2. c.cycle["copper"] = s.cycle["copper"]
    BY <1>7 DEF Timed, Event
  <2> QED  BY <1>6, <1>7, <1>10, <1>19, <2>1, <2>2
<1>21. Moved(Disable, Now) = Disable /\ Moved(Now, Now) = 0 /\ Moved(Now + Latency, Now) = Latency
  BY <1>3, DisableNat DEF Moved
<1>22. \/ \A e \in Raised : m'.cycle[e] = Moved(m.cycle[e], Now)
       \/ /\ m.cycle["interrupt"] = Disable /\ m'.cycle["interrupt"] = Disable
          /\ m.cycle["cpu"] = Disable /\ m'.cycle["cpu"] = 0
       \/ /\ m.cycle["interrupt"] = Disable /\ m'.cycle["interrupt"] = Latency
          /\ m'.cycle["cpu"] = Moved(m.cycle["cpu"], Now)
  BY <1>11, <1>19, <1>21 DEF Raised
<1>23. Now = Cycles(long_frame)
  BY <1>4 DEF frame
<1> QED  BY <1>1, <1>18, <1>19, <1>20, <1>22, <1>23

LEMMA EndOfFrameStep == ASSUME IInv, EndOfFrame PROVE IInv'
<1>1. /\ Now = Cycles(long_frame) /\ Intact(m')
      /\ m'.copper_dma = m.copper_dma
      /\ m'.cycle["eol"] = LineCycles - 1 /\ m'.cycle["eof"] = Cycles(long_frame')
      /\ m'.cycle["copper"] = IF m.copper_dma THEN CopperStart ELSE Disable
      /\ m'.cycle["blitter"] = Moved(m.cycle["blitter"], Now)
      /\ \/ \A e \in Raised : m'.cycle[e] = Moved(m.cycle[e], Now)
         \/ /\ m.cycle["interrupt"] = Disable /\ m'.cycle["interrupt"] = Disable
            /\ m.cycle["cpu"] = Disable /\ m'.cycle["cpu"] = 0
         \/ /\ m.cycle["interrupt"] = Disable /\ m'.cycle["interrupt"] = Latency
            /\ m'.cycle["cpu"] = Moved(m.cycle["cpu"], Now)
  BY EndOfFrameEffect
<1>2. /\ elapsed' = 0 /\ line' = 0 /\ long_frame' \in BOOLEAN /\ bus_cycle' = Now
      /\ Leave(stop_request) /\ stop_request \in BOOLEAN
  BY DEF EndOfFrame, Dispatch, IInv, TypeOK
<1>3. /\ Now \in Nat /\ Now \in 0..Disable /\ elapsed <= Now /\ elapsed \in Nat
      /\ Longest \in Nat /\ CopperPenalty \in Nat /\ CopperStart \in Nat
      /\ CopperPenalty <= CopperStart /\ Latency \in Nat
      /\ \A t \in CpuTime \union AbortTime : t \in Nat
      /\ \A f \in Timed : m.cycle[f] \in Nat /\ m'.cycle[f] \in Nat /\ Now <= m.cycle[f]
  <2>1. \A f \in Timed : m.cycle[f] \in Nat /\ m'.cycle[f] \in Nat /\ Now <= m.cycle[f]
    BY <1>1, TurnFacts, CyclesType DEF IInv
  <2>2. elapsed \in Nat
    BY DisableNat DEF IInv, TypeOK
  <2> QED  BY <2>1, <2>2, TurnFacts, Geometry, CopperAssumption
<1>4. ChipsSoon(m', 0)
  <2>1. m'.cycle["blitter"] # Disable => 2 * m'.cycle["blitter"] < Disable
    BY <1>1, <1>3, DisableNat DEF Moved, IInv, ChipsSoon, Timed, Event
  <2>2. m'.cycle["copper"] # Disable => m'.copper_dma
    BY <1>1
  <2>3. ~StaleClock /\ m'.cycle["interrupt"] # Disable => m'.cycle["interrupt"] <= Latency
    BY <1>1, <1>3, DisableNat DEF Moved, IInv, ChipsSoon, Timed, Event, Raised
  <2> QED  BY <1>3, <2>1, <2>2, <2>3 DEF ChipsSoon
<1>5. CpuSoon(m', 0)
  <2>1. CASE m'.cycle["cpu"] = 0
    <3>1. m'.cycle["copper"] \in Nat
      BY <1>3 DEF Timed, Event
    <3> QED  BY <1>3, <2>1, <3>1, DelayAssumption DEF CpuSoon
  <2>2. CASE m'.cycle["cpu"] = Moved(m.cycle["cpu"], Now) /\ m.cycle["cpu"] # Disable
    <3>1. PICK t \in CpuTime \union AbortTime :
            /\ m.cycle["cpu"] <= Longest + t + CopperPenalty
            /\ ~StaleClock \/ m.copper_dma => m.cycle["cpu"] <= elapsed + t + CopperPenalty
      BY <2>2 DEF IInv, CpuSoon
    <3>2. t \in Nat /\ m.cycle["cpu"] \in Nat /\ m'.cycle["cpu"] = m.cycle["cpu"] - Now
      BY <1>3, <2>2 DEF Moved, Timed
    <3>3. /\ m'.cycle["cpu"] <= Longest + t + CopperPenalty
          /\ ~StaleClock \/ m.copper_dma => m'.cycle["cpu"] <= t + CopperPenalty
      BY <1>3, <3>1, <3>2
    <3>4. m'.cycle["copper"] # Disable => m'.cycle["cpu"] <= m'.cycle["copper"] + t
      <4>1. CASE m.copper_dma
        BY <1>1, <1>3, <3>2, <3>3, <4>1
      <4>2. CASE ~m.copper_dma
        BY <1>1, <4>2
      <4> QED  BY <4>1, <4>2
    <3> QED  BY <1>1, <1>3, <3>2, <3>3, <3>4 DEF CpuSoon
  <2>3. CASE m'.cycle["cpu"] = Disable
    BY <2>3 DEF CpuSoon
  <2> QED  BY <1>1, <2>1, <2>2, <2>3 DEF Moved, Raised
<1>6. Raster(m', elapsed', line', long_frame')
  BY <1>1, <1>2, Geometry DEF Raster
<1>7. ~Late(m', elapsed')
  BY <1>2, <1>3 DEF Late
<1>8. TypeOK'
  <2>1. m' \in State /\ 0 \in 0..Disable /\ 0 \in Nat
    BY <1>1, DisableNat DEF Intact
  <2>2. mode' \in {"stopped", "run", "step"} /\ stop_request' \in BOOLEAN
    BY <1>2, LeaveType DEF IInv
  <2> QED  BY <1>2, <1>3, <2>1, <2>2 DEF TypeOK, State
<1> QED  BY <1>1, <1>2, <1>4, <1>5, <1>6, <1>7, <1>8 DEF IInv

LEMMA NextIInv == IInv /\ [Next]_vars => IInv'
<1> SUFFICES ASSUME IInv, [Next]_vars
             PROVE  IInv'
  OBVIOUS
<1>1. CASE Cpu
  BY <1>1, CpuStep, ResetKeepsIInv DEF Cpu, ResetStep
<1>2. CASE Chips
  BY <1>2, ChipStep, CopperStepKeeps DEF Chips
<1>3. CASE EndOfLine
  BY <1>3, EndOfLineStep
<1>4. CASE EndOfFrame
  BY <1>4, EndOfFrameStep
<1>5. CASE Host
  <2>1. RequestStop \/ \E how \in {"run", "step"} : Start(how, TRUE) \/ Start(how, FALSE)
    BY <1>5 DEF Host
  <2> QED  BY <2>1, HostStep, ResetKeepsIInv DEF ResetStep
<1>6. CASE UNCHANGED vars
  BY <1>6 DEF vars, IInv, TypeOK, Intact, Queued, InOrder, Raster, Late, ChipsSoon, CpuSoon
<1> QED  BY <1>1, <1>2, <1>3, <1>4, <1>5, <1>6 DEF Next, Loop
-----------------------------------------------------------------------------
LEMMA Invariance == Spec => []IInv
BY InitIInv, NextIInv, PTL DEF Spec

(* The queue, every deadline, bus.cycle and the run loop's state keep      *)
(* their ranges: in particular no deadline reaches BUS_CYCLE_DISABLE by    *)
(* itself, and the subtractions of busEndOfFrame do not wrap around.       *)
THEOREM TypeCorrect == Spec => []TypeOK
<1>1. IInv => TypeOK
  BY DEF IInv
<1> QED  BY Invariance, <1>1, PTL

(* For any delays, bus.events holds exactly the enabled events, once each  *)
(* and in order, and is never empty or corrupted when busInsertEvent walks *)
(* it.                                                                     *)
THEOREM QueueIsConsistent == Spec => []QueueConsistent
<1>1. IInv => QueueConsistent
  BY DEF IInv, Intact, InOrder, QueueConsistent
<1> QED  BY Invariance, <1>1, PTL

(* Nothing is ever scheduled before the cycles that have passed, also      *)
(* across the end of a frame and across resets.                            *)
THEOREM NothingIsOverdue == Spec => []NothingOverdue
<1>1. ASSUME IInv PROVE NothingOverdue
  <2>1. \A e \in Timed : ~(m.cycle[e] < elapsed) /\ m.cycle[e] \in Nat /\ elapsed \in Nat
    BY <1>1, CyclesType, DisableNat DEF IInv, Late, TypeOK
  <2> QED  BY <2>1 DEF NothingOverdue
<1> QED  BY Invariance, <1>1, PTL

LEMMA Quotient ==
  ASSUME NEW x \in Nat, NEW n \in Nat, NEW c \in Nat \ {0}
  PROVE  /\ n * c <= x => n <= x \div c
         /\ x < (n + 1) * c => x \div c <= n
<1> DEFINE q == x \div c
<1>1. q \in Int /\ q * c <= x /\ x < q * c + c
  OBVIOUS
<1> HIDE DEF q
<1>2. q \in Nat
  <2>1. ASSUME q < 0 PROVE FALSE
    <3>1. -q \in Nat /\ -q >= 1
      BY <1>1, <2>1
    <3>2. c <= (-q) * c /\ (-q) * c = -(q * c)
      BY <1>1, <3>1, Products
    <3> QED  BY <1>1, <3>2
  <2> QED  BY <1>1, <2>1
<1>3. ASSUME n * c <= x, q < n
      PROVE  FALSE
  <2>1. q + 1 <= n /\ (q + 1) * c <= n * c /\ (q + 1) * c = q * c + c
    BY <1>2, <1>3, Products
  <2> QED  BY <1>1, <1>2, <1>3, <2>1
<1>4. ASSUME x < (n + 1) * c, n < q
      PROVE  FALSE
  <2>1. n + 1 <= q /\ (n + 1) * c <= q * c
    BY <1>2, <1>4, Products
  <2> QED  BY <1>1, <1>2, <1>4, <2>1
<1> QED  BY <1>2, <1>3, <1>4 DEF q

(* For any number of cycles in a line and of lines in a long or short      *)
(* frame, the end of line and end of frame events come when the geometry   *)
(* says so, and the lines counted are those that have passed.              *)
THEOREM RasterStaysInStep == Spec => []RasterInStep
<1>1. ASSUME IInv PROVE RasterInStep
  <2>1. /\ m.cycle["eol"] = (line + 1) * LineCycles - 1
        /\ m.cycle["eof"] = Cycles(long_frame)
        /\ line * LineCycles <= elapsed + 1
        /\ line \in Nat /\ elapsed \in Nat /\ LineCycles \in Nat \ {0}
    BY <1>1, Geometry, DisableNat DEF IInv, Raster, TypeOK
  <2>2. elapsed <= m.cycle["eol"]
    BY <1>1, TurnFacts, CyclesType, <2>1 DEF Timed, Event, IInv
  <2>3. (line + 1) * LineCycles \in Nat /\ line * LineCycles \in Nat
    BY <2>1, Products
  <2>4. elapsed < (line + 1) * LineCycles
    BY <2>1, <2>2, <2>3
  <2>5. elapsed \div LineCycles <= line /\ line <= (elapsed + 1) \div LineCycles
    BY <2>1, <2>4, Quotient
  <2>6. elapsed \div LineCycles \in Int /\ (elapsed + 1) \div LineCycles \in Int
    BY <2>1
  <2> QED  BY <2>1, <2>5, <2>6 DEF RasterInStep
<1> QED  BY Invariance, <1>1, PTL

(* Unless the CPU may use the old frame's clock after a reset, no interrupt *)
(* is later than the latency and the CPU is never put off for longer than   *)
(* its own instructions and one copper penalty.                             *)
THEOREM InterruptsAreInTime == ASSUME ~StaleClock PROVE Spec => []InterruptInTime
<1>1. IInv => InterruptInTime
  BY DEF IInv, ChipsSoon, CpuSoon, InterruptInTime
<1> QED  BY Invariance, <1>1, PTL
-----------------------------------------------------------------------------
(* The scheduler implements the timers.                                    *)

(* What the refinement mapping gives the timers.                           *)
Left == [e \in Timed |-> IF m.cycle[e] = Disable THEN Disable ELSE m.cycle[e] - elapsed]

LEMMA TimersAreTimed == Timers!Timer = Timed
BY DEF Timers!Timer, Timed, Event

LEMMA LeftIs ==
  ASSUME NEW f \in Timed
  PROVE  Left[f] = Moved(m.cycle[f], elapsed) /\ Left'[f] = Moved(m'.cycle[f], elapsed')
BY DEF Left, Moved

LEMMA MovedType ==
  ASSUME NEW x \in 0..Disable, NEW now \in Nat, now <= x, now < Disable
  PROVE  /\ Moved(x, now) \in 0..Disable
         /\ Moved(x, now) = Disable => x = Disable \/ now = 0
         /\ x # Disable => Moved(x, now) # Disable
BY DisableNat DEF Moved

(* A turn at Now lets Now - elapsed pass for all timers.                   *)
Pass == Now - elapsed

LEMMA PassFacts ==
  ASSUME IInv
  PROVE  /\ Pass \in Nat /\ Pass < Disable
         /\ \A f \in Timed : /\ Left[f] \in 0..Disable /\ Pass <= Left[f]
                             /\ Left[f] = Disable <=> m.cycle[f] = Disable
                             /\ Timers!After(f, Pass) = Moved(m.cycle[f], Now)
                             /\ Moved(m.cycle[f], Now) \in 0..Disable
                             /\ m.cycle[f] = Now => Left[f] = Pass
         /\ Now < m.cycle["cpu"] => Pass < Left["cpu"]
<1>1. /\ Now \in Nat /\ elapsed \in Nat /\ elapsed <= Now /\ Now < Disable
      /\ \A f \in Timed : /\ m.cycle[f] \in Nat /\ m.cycle[f] <= Disable
                          /\ Now <= m.cycle[f]
  BY TurnFacts, CyclesType, DisableNat DEF IInv, TypeOK
<1>2. Pass \in Nat /\ Pass < Disable
  BY <1>1, DisableNat DEF Pass
<1>3. ASSUME NEW f \in Timed
      PROVE  /\ Left[f] \in 0..Disable /\ Pass <= Left[f]
             /\ Left[f] = Disable <=> m.cycle[f] = Disable
             /\ Moved(m.cycle[f], Now) \in 0..Disable
             /\ m.cycle[f] = Now => Left[f] = Pass
             /\ Now < m.cycle[f] => Pass < Left[f]
  BY <1>1, <1>2, LeftIs, DisableNat DEF Moved, Pass
<1>4. ASSUME NEW f \in Timed
      PROVE  Timers!After(f, Pass) = Moved(m.cycle[f], Now)
  <2>1. Timers!After(f, Pass) = IF Left[f] = Disable THEN Disable ELSE Left[f] - Pass
    BY DEF Timers!After, Left
  <2> QED  BY <1>1, <1>3, <2>1, LeftIs, DisableNat DEF Moved, Pass
<1> QED  BY <1>2, <1>3, <1>4 DEF Timed

(* The timers' operators, in terms of the bus scheduler's cycles.          *)
LEMMA DueNow ==
  ASSUME IInv, NEW e \in Timed, m.cycle[e] = Now, e # "cpu" => Now < m.cycle["cpu"]
  PROVE  Timers!Due(e, Pass)
<1>1. /\ Left[e] = Pass /\ Pass # Disable
      /\ \A f \in Timed : Pass <= Left[f]
      /\ e # "cpu" => Pass < Left["cpu"]
  BY PassFacts, DisableNat
<1> QED  BY <1>1, TimersAreTimed DEF Timers!Due, Left

KeptNow(f) == Moved(m'.cycle[f], elapsed') = Moved(m.cycle[f], Now)

LEMMA KeptIs ==
  ASSUME IInv, NEW F, F \subseteq Timed, \A f \in F : KeptNow(f)
  PROVE  Timers!Kept(F, Pass)
<1>1. \A f \in F : Left'[f] = Timers!After(f, Pass)
  BY LeftIs, PassFacts DEF KeptNow
<1> QED  BY <1>1 DEF Timers!Kept, Left

LEMMA RequestIs ==
  ASSUME IInv, IInv',
         \/ KeptNow("cpu") /\ KeptNow("interrupt")
         \/ /\ m.cycle["interrupt"] = Disable /\ m'.cycle["interrupt"] = Disable
            /\ m.cycle["cpu"] = Disable /\ m'.cycle["cpu"] = elapsed'
         \/ /\ m.cycle["interrupt"] = Disable
            /\ m'.cycle["interrupt"] = elapsed' + Latency /\ KeptNow("cpu")
  PROVE  Timers!Request(Pass)
<1>1. "cpu" \in Timed /\ "interrupt" \in Timed
  BY DEF Timed, Event
<1>2. /\ m.cycle["interrupt"] = Disable => Left["interrupt"] = Disable
      /\ m.cycle["cpu"] = Disable => Left["cpu"] = Disable
  BY <1>1, PassFacts
<1>3. /\ elapsed' \in Nat /\ elapsed' < Disable /\ Latency \in Nat
      /\ m'.cycle["interrupt"] = elapsed' + Latency => m'.cycle["interrupt"] < Disable
  <2>1. elapsed' \in Nat /\ elapsed' <= m'.cycle["eof"] /\ m'.cycle["eof"] <= Longest
    <3>1. \A e \in Timed : ~(m'.cycle[e] < elapsed') /\ m'.cycle[e] \in Nat
      BY CyclesType DEF IInv, Late
    <3>2. elapsed' \in Nat
      BY DisableNat DEF IInv, TypeOK
    <3>3. m'.cycle["eof"] <= Longest
      BY Geometry DEF IInv, Raster, TypeOK
    <3> QED  BY <3>1, <3>2, <3>3 DEF Timed, Event
  <2>2. elapsed' <= Longest
    <3>1. m'.cycle["eof"] \in Nat
      BY CyclesType DEF IInv, Timed, Event
    <3> QED  BY <2>1, <3>1, Geometry
  <2> QED  BY <2>1, <2>2, InRange, Geometry
<1>4. CASE KeptNow("cpu") /\ KeptNow("interrupt")
  <2>1. Timers!Kept({"cpu", "interrupt"}, Pass)
    BY <1>1, <1>4, KeptIs
  <2> QED  BY <2>1 DEF Timers!Request
<1>5. CASE /\ m.cycle["interrupt"] = Disable /\ m'.cycle["interrupt"] = Disable
           /\ m.cycle["cpu"] = Disable /\ m'.cycle["cpu"] = elapsed'
  <2>1. Left'["cpu"] = 0 /\ Left'["interrupt"] = Disable
    BY <1>1, <1>3, <1>5, LeftIs, DisableNat DEF Moved
  <2> QED  BY <1>2, <1>5, <2>1 DEF Timers!Request, Timers!Woken, Left
<1>6. CASE /\ m.cycle["interrupt"] = Disable
           /\ m'.cycle["interrupt"] = elapsed' + Latency /\ KeptNow("cpu")
  <2>1. Timers!Kept({"cpu"}, Pass)
    BY <1>1, <1>6, KeptIs
  <2>2. Left'["interrupt"] = Latency
    BY <1>1, <1>3, <1>6, LeftIs, DisableNat DEF Moved
  <2> QED  BY <1>2, <1>6, <2>1, <2>2 DEF Timers!Request, Left
<1> QED  BY <1>4, <1>5, <1>6

LEMMA DecideIs ==
  ASSUME IInv, IInv', m'.cycle["interrupt"] = Disable,
         KeptNow("cpu") \/ (m.cycle["cpu"] = Disable /\ m'.cycle["cpu"] = elapsed')
  PROVE  Timers!Decide(Pass)
<1>1. "cpu" \in Timed /\ "interrupt" \in Timed
  BY DEF Timed, Event
<1>2. Left'["interrupt"] = Disable /\ (m.cycle["cpu"] = Disable => Left["cpu"] = Disable)
  BY <1>1, PassFacts, LeftIs DEF Moved
<1>3. m'.cycle["cpu"] = elapsed' => Left'["cpu"] = 0
  <2>1. elapsed' \in Nat /\ elapsed' < Disable
    <3>1. /\ Cycles(long_frame') < Disable /\ elapsed' \in Nat
          /\ ~(m'.cycle["eof"] < elapsed') /\ m'.cycle["eof"] = Cycles(long_frame')
          /\ Cycles(long_frame') \in Nat
      <4>1. long_frame' \in BOOLEAN /\ elapsed' \in Nat
        BY DisableNat DEF IInv, TypeOK
      <4>2. Cycles(long_frame') \in Nat /\ Cycles(long_frame') < Disable
        BY <4>1, Geometry, InRange
      <4> QED  BY <4>1, <4>2 DEF IInv, Raster, Late, Timed, Event
    <3> QED  BY <3>1, DisableNat
  <2> QED  BY <1>1, <2>1, LeftIs DEF Moved
<1>4. CASE KeptNow("cpu")
  <2>1. Timers!Kept({"cpu"}, Pass)
    BY <1>1, <1>4, KeptIs
  <2> QED  BY <1>2, <2>1 DEF Timers!Decide, Left
<1>5. CASE m.cycle["cpu"] = Disable /\ m'.cycle["cpu"] = elapsed'
  BY <1>2, <1>3, <1>5 DEF Timers!Decide, Timers!Woken, Left
<1> QED  BY <1>4, <1>5

LEMMA InterruptTimerIs ==
  ASSUME IInv, IInv', elapsed' = Now,
         m'.cycle["interrupt"] \in {m.cycle["interrupt"], Disable}
           \union IF m.cycle["interrupt"] = Disable THEN {Now + Latency} ELSE {}
  PROVE  Timers!InterruptTimer(Pass)
<1>1. "interrupt" \in Timed
  BY DEF Timed, Event
<1>2. Now \in Nat /\ Now + Latency < Disable /\ Latency \in Nat
  BY TurnFacts, InRange, Geometry
<1>3. CASE m'.cycle["interrupt"] = m.cycle["interrupt"]
  <2>1. KeptNow("interrupt")
    BY <1>3 DEF KeptNow
  <2>2. Timers!Kept({"interrupt"}, Pass)
    BY <1>1, <2>1, KeptIs
  <2> QED  BY <2>2 DEF Timers!InterruptTimer
<1>4. CASE m'.cycle["interrupt"] = Disable
  <2>1. Left'["interrupt"] = Disable
    BY <1>1, <1>4, LeftIs DEF Moved
  <2> QED  BY <2>1 DEF Timers!InterruptTimer, Left
<1>5. CASE m.cycle["interrupt"] = Disable /\ m'.cycle["interrupt"] = Now + Latency
  <2>1. Left["interrupt"] = Disable /\ Left'["interrupt"] = Latency
    BY <1>1, <1>2, <1>5, LeftIs, DisableNat DEF Moved
  <2> QED  BY <2>1 DEF Timers!InterruptTimer, Left
<1> QED  BY <1>3, <1>4, <1>5

TimersTurn == Timers!Turn(Pass)

LEMMA EndOfLineImplements == ASSUME IInv, IInv', EndOfLine PROVE TimersTurn
<1>1. PICK r : /\ Dispatch("eol") /\ Requested(r, PopEvent(m), Now)
               /\ m'.cycle["eol"] = Now + LineCycles
               /\ \A f \in Timed \ {"eol"} : m'.cycle[f] = r.cycle[f]
  BY EndOfLineEffect
<1>2. /\ m.cycle["eol"] = Now /\ Now < m.cycle["cpu"]
      /\ \A f \in Timed \ {"eol"} : PopEvent(m).cycle[f] = m.cycle[f]
  BY <1>1, Popped DEF Event
<1>3. elapsed' = Now
  BY DEF EndOfLine
<1>4. Timers!Due("eol", Pass)
  BY <1>2, DueNow DEF Timed, Event
<1>5. Timers!Request(Pass)
  <2>1. \/ KeptNow("cpu") /\ KeptNow("interrupt")
        \/ /\ m.cycle["interrupt"] = Disable /\ m'.cycle["interrupt"] = Disable
           /\ m.cycle["cpu"] = Disable /\ m'.cycle["cpu"] = elapsed'
        \/ /\ m.cycle["interrupt"] = Disable
           /\ m'.cycle["interrupt"] = elapsed' + Latency /\ KeptNow("cpu")
    BY <1>1, <1>2, <1>3 DEF Requested, KeptNow, Raised, Timed, Event
  <2> QED  BY <2>1, RequestIs
<1>6. Timers!Kept({"eof", "cia", "copper", "blitter"}, Pass)
  <2>1. \A f \in {"eof", "cia", "copper", "blitter"} : KeptNow(f)
    BY <1>1, <1>2, <1>3 DEF Requested, KeptNow, Raised, Timed, Event
  <2> QED  BY <2>1, KeptIs DEF Timed, Event
<1>7. Left'["eol"] = LineCycles
  <2>1. Now + LineCycles < Disable /\ Now \in Nat /\ LineCycles \in Nat
    <3>1. 2 * (Longest + Latency + CopperPenalty) < Disable
      BY Geometry
    <3> QED  BY <3>1, TurnFacts, Geometry, DisableNat
  <2> QED  BY <1>1, <1>3, <2>1, LeftIs, DisableNat DEF Moved, Timed, Event
<1> QED  BY <1>4, <1>5, <1>6, <1>7 DEF TimersTurn, Timers!Turn, Timers!EndOfLine, Left

LEMMA ChipImplements ==
  ASSUME IInv, IInv', InterruptEvent \/ CiaEvent \/ BlitterEvent PROVE TimersTurn
<1>1. PICK e, r :
        /\ e \in {"interrupt", "cia", "blitter"} /\ Chip(e)
        /\ \A f \in Timed \ {"cia"} : m'.cycle[f] = r.cycle[f]
        /\ m'.cycle["cia"] = r.cycle["cia"] \/ (e = "cia" /\ m'.cycle["cia"] >= Now)
        /\ \/ e = "interrupt" /\ Decided(r, PopEvent(m), Now)
           \/ e = "cia" /\ Requested(r, PopEvent(m), Now)
           \/ e = "blitter" /\ (Requested(r, PopEvent(m), Now) \/ Decided(r, PopEvent(m), Now))
  BY ChipEffect
<1>2. e \in Event /\ e \in Timed /\ e # "cpu" /\ Dispatch(e) /\ elapsed' = Now
  BY <1>1 DEF Chip, Event, Timed
<1>3. /\ m.cycle[e] = Now /\ Now < m.cycle["cpu"] /\ PopEvent(m).cycle[e] = Disable
      /\ \A f \in Timed \ {e} : PopEvent(m).cycle[f] = m.cycle[f]
  BY <1>2, Popped
<1>4. Timers!Due(e, Pass)
  BY <1>2, <1>3, DueNow
<1>5. \A f \in {"eol", "eof", "cia", "copper", "blitter"} \ {e} : KeptNow(f)
  BY <1>1, <1>2, <1>3 DEF Requested, Decided, KeptNow, Raised, Timed, Event
<1>6. \A F : F \subseteq {"eol", "eof", "cia", "copper", "blitter"} \ {e} =>
               Timers!Kept(F, Pass)
  BY <1>5, KeptIs DEF Timed, Event
<1>7. CASE e = "interrupt"
  <2>1. /\ m'.cycle["interrupt"] = Disable
        /\ KeptNow("cpu") \/ (m.cycle["cpu"] = Disable /\ m'.cycle["cpu"] = elapsed')
    BY <1>1, <1>2, <1>3, <1>7 DEF Decided, KeptNow, Raised, Timed, Event
  <2>2. Timers!Decide(Pass)
    BY <2>1, DecideIs
  <2>3. Timers!Kept({"eol", "eof", "cia", "copper", "blitter"}, Pass)
    BY <1>6, <1>7
  <2> QED  BY <1>4, <1>7, <2>2, <2>3 DEF TimersTurn, Timers!Turn, Timers!InterruptDue
<1>8. ASSUME e # "interrupt", Requested(r, PopEvent(m), Now)
      PROVE  Timers!Request(Pass)
  <2>1. \/ KeptNow("cpu") /\ KeptNow("interrupt")
        \/ /\ m.cycle["interrupt"] = Disable /\ m'.cycle["interrupt"] = Disable
           /\ m.cycle["cpu"] = Disable /\ m'.cycle["cpu"] = elapsed'
        \/ /\ m.cycle["interrupt"] = Disable
           /\ m'.cycle["interrupt"] = elapsed' + Latency /\ KeptNow("cpu")
    BY <1>1, <1>2, <1>3, <1>8 DEF Requested, KeptNow, Raised, Timed, Event
  <2> QED  BY <2>1, RequestIs
<1>9. CASE e = "cia"
  <2>1. Timers!Kept({"eol", "eof", "copper", "blitter"}, Pass)
    BY <1>6, <1>9
  <2> QED  BY <1>1, <1>4, <1>8, <1>9, <2>1 DEF TimersTurn, Timers!Turn, Timers!CiaTimeout
<1>10. CASE e = "blitter"
  <2>1. Timers!Kept({"eol", "eof", "cia", "copper"}, Pass)
    BY <1>6, <1>10
  <2>2. Left'["blitter"] = Disable
    <3>1. m'.cycle["blitter"] = Disable
      BY <1>1, <1>3, <1>10 DEF Requested, Decided, Raised, Timed, Event
    <3> QED  BY <3>1, LeftIs DEF Moved, Timed, Event
  <2>3. Timers!Request(Pass) \/ Timers!Decide(Pass)
    <3>1. CASE Requested(r, PopEvent(m), Now)
      BY <1>8, <1>10, <3>1
    <3>2. CASE Decided(r, PopEvent(m), Now)
      <4>1. \/ KeptNow("cpu") /\ KeptNow("interrupt")
            \/ /\ m'.cycle["interrupt"] = Disable
               /\ KeptNow("cpu") \/ (m.cycle["cpu"] = Disable /\ m'.cycle["cpu"] = elapsed')
        BY <1>1, <1>2, <1>3, <1>10, <3>2 DEF Decided, KeptNow, Raised, Timed, Event
      <4> QED  BY <4>1, RequestIs, DecideIs
    <3> QED  BY <1>1, <1>10, <3>1, <3>2
  <2> QED  BY <1>4, <1>10, <2>1, <2>2, <2>3
        DEF TimersTurn, Timers!Turn, Timers!BlitDone, Left
<1> QED  BY <1>1, <1>7, <1>9, <1>10

LEMMA CopperImplements == ASSUME IInv, IInv', CopperEvent PROVE TimersTurn
<1>1. /\ m'.cycle["eol"] = m.cycle["eol"] /\ m'.cycle["eof"] = m.cycle["eof"]
      /\ m.cycle["cpu"] = Disable => m'.cycle["cpu"] \in {Disable, Now}
      /\ m.cycle["cpu"] # Disable => m'.cycle["cpu"] = m.cycle["cpu"] + CopperPenalty
      /\ m'.cycle["interrupt"] \in {m.cycle["interrupt"], Disable}
           \union IF m.cycle["interrupt"] = Disable THEN {Now + Latency} ELSE {}
  BY CopperEffect
<1>2. Dispatch("copper") /\ elapsed' = Now /\ Chip("copper")
  BY DEF CopperEvent, Chip
<1>3. /\ m.cycle["copper"] = Now /\ Now < m.cycle["cpu"]
  BY <1>2, Popped DEF Event
<1>4. Timers!Due("copper", Pass)
  BY <1>3, DueNow DEF Timed, Event
<1>5. Timers!InterruptTimer(Pass)
  BY <1>1, <1>2, InterruptTimerIs
<1>6. Timers!Kept({"eol", "eof"}, Pass)
  <2>1. KeptNow("eol") /\ KeptNow("eof")
    BY <1>1, <1>2 DEF KeptNow
  <2> QED  BY <2>1, KeptIs DEF Timed, Event
<1>7. \/ Timers!Woken
      \/ Left["cpu"] = Disable /\ Left'["cpu"] = Disable
      \/ Left["cpu"] # Disable /\ Left'["cpu"] = Timers!After("cpu", Pass) + CopperPenalty
  <2>1. /\ Now \in Nat /\ Now < Disable /\ CopperPenalty \in Nat /\ "cpu" \in Timed
        /\ Now <= m.cycle["cpu"] /\ m.cycle["cpu"] \in Nat
    BY TurnFacts, CyclesType, Geometry DEF IInv, Timed
  <2>2. CASE m.cycle["cpu"] = Disable
    <3>1. Left["cpu"] = Disable
      BY <2>1, <2>2, PassFacts
    <3>2. m'.cycle["cpu"] = Disable => Left'["cpu"] = Disable
      BY <2>1, LeftIs DEF Moved
    <3>3. m'.cycle["cpu"] = Now => Left'["cpu"] = 0
      BY <1>2, <2>1, LeftIs DEF Moved
    <3> QED  BY <1>1, <2>2, <3>1, <3>2, <3>3 DEF Timers!Woken, Left
  <2>3. CASE m.cycle["cpu"] # Disable
    <3>1. Left["cpu"] # Disable
      BY <2>1, <2>3, PassFacts
    <3>2. m'.cycle["cpu"] < Disable /\ m'.cycle["cpu"] = m.cycle["cpu"] + CopperPenalty
      <4>1. SlowCpu(PopEvent(m)).cycle["cpu"] = m.cycle["cpu"] + CopperPenalty
            /\ SlowCpu(PopEvent(m)).cycle["cpu"] < Disable
        BY <1>2, <2>3, CopperTurn
      <4> QED  BY <1>1, <2>3, <4>1
    <3>3. Left'["cpu"] = m.cycle["cpu"] + CopperPenalty - Now
      BY <1>2, <2>1, <3>2, LeftIs, DisableNat DEF Moved
    <3>4. Timers!After("cpu", Pass) = m.cycle["cpu"] - Now
      BY <2>1, <2>3, PassFacts DEF Moved
    <3>5. Left'["cpu"] = Timers!After("cpu", Pass) + CopperPenalty
      BY <2>1, <3>3, <3>4
    <3> QED  BY <3>1, <3>5
  <2> QED  BY <2>2, <2>3
<1> QED  BY <1>4, <1>5, <1>6, <1>7 DEF TimersTurn, Timers!Turn, Timers!CopperInstruction, Left

LEMMA CpuImplements ==
  ASSUME IInv, IInv', RunCpu \/ AbortInstruction \/ RuntimeError PROVE TimersTurn
<1>1. m.cycle["cpu"] = Now /\ elapsed' = Now
  BY CpuEffect
<1>2. PICK r : Accessed(r, m, Now) /\ \A e \in Event : m'.cycle[e] = r.cycle[e]
  BY CpuEffect
<1>3. Timers!Due("cpu", Pass)
  BY <1>1, DueNow DEF Timed
<1>4. Timers!InterruptTimer(Pass)
  BY <1>1, <1>2, InterruptTimerIs DEF Accessed, Event
<1>5. Timers!Kept({"eol", "eof"}, Pass)
  <2>1. KeptNow("eol") /\ KeptNow("eof")
    BY <1>1, <1>2 DEF KeptNow, Accessed, Event
  <2> QED  BY <2>1, KeptIs DEF Timed, Event
<1> QED  BY <1>3, <1>4, <1>5 DEF TimersTurn, Timers!Turn, Timers!CpuInstructions

(* The frame ends within the last line, after which one more cycle of the  *)
(* line is left: the lines go on as if nothing had happened.               *)
LEMMA LastLine ==
  ASSUME IInv, m.cycle["eof"] = Now
  PROVE  m.cycle["eol"] = Now + LineCycles - 1
<1> DEFINE n == IF long_frame THEN LongLines ELSE ShortLines
<1>1. /\ n \in Nat /\ line \in Nat /\ LineCycles \in Nat /\ LineCycles >= 2
      /\ Now = n * LineCycles /\ elapsed \in Nat
      /\ m.cycle["eol"] = (line + 1) * LineCycles - 1
      /\ line * LineCycles <= elapsed + 1
  <2>1. LongLines \in Nat /\ ShortLines \in Nat
    BY GeometryAssumption
  <2> QED  BY <2>1, Geometry, DisableNat DEF IInv, TypeOK, Raster, Cycles
<1>2. elapsed <= Now /\ Now <= m.cycle["eol"] /\ Now \in Nat
  BY TurnFacts DEF Timed, Event
<1> HIDE DEF n
<1>3. n * LineCycles \in Nat /\ line * LineCycles \in Nat /\ (line + 1) * LineCycles \in Nat
  BY <1>1, Products
<1>4. ~(line < n)
  <2>1. ASSUME line < n PROVE FALSE
    <3>1. (line + 1) * LineCycles <= n * LineCycles
      BY <1>1, <2>1, Products
    <3> QED  BY <1>1, <1>2, <1>3, <3>1
  <2> QED  BY <2>1
<1>5. ~(n < line)
  <2>1. ASSUME n < line PROVE FALSE
    <3>1. (n + 1) * LineCycles <= line * LineCycles
          /\ (n + 1) * LineCycles = n * LineCycles + LineCycles
      BY <1>1, <2>1, Products
    <3> QED  BY <1>1, <1>2, <1>3, <3>1
  <2> QED  BY <2>1
<1>6. line = n /\ (line + 1) * LineCycles = line * LineCycles + LineCycles
  BY <1>1, <1>4, <1>5, Products
<1> QED  BY <1>1, <1>3, <1>6

LEMMA EndOfFrameImplements == ASSUME IInv, IInv', EndOfFrame PROVE TimersTurn
<1>1. /\ Dispatch("eof")
      /\ m'.cycle["eol"] = LineCycles - 1 /\ m'.cycle["eof"] = Cycles(long_frame')
      /\ m'.cycle["copper"] = IF m.copper_dma THEN CopperStart ELSE Disable
      /\ m'.cycle["cia"] = Moved(m.cycle["cia"], Now)
      /\ m'.cycle["blitter"] = Moved(m.cycle["blitter"], Now)
      /\ \/ \A e \in Raised : m'.cycle[e] = Moved(m.cycle[e], Now)
         \/ /\ m.cycle["interrupt"] = Disable /\ m'.cycle["interrupt"] = Disable
            /\ m.cycle["cpu"] = Disable /\ m'.cycle["cpu"] = 0
         \/ /\ m.cycle["interrupt"] = Disable /\ m'.cycle["interrupt"] = Latency
            /\ m'.cycle["cpu"] = Moved(m.cycle["cpu"], Now)
  BY EndOfFrameEffect
<1>2. /\ m.cycle["eof"] = Now /\ Now < m.cycle["cpu"] /\ elapsed' = 0
      /\ long_frame' \in BOOLEAN
  BY <1>1, Popped DEF Event, EndOfFrame
<1>3. /\ Now \in Nat /\ Now < Disable /\ Latency \in Nat /\ m.cycle["eol"] # Disable
      /\ \A f \in Timed : /\ m.cycle[f] \in Nat /\ m'.cycle[f] \in Nat
                          /\ Moved(m'.cycle[f], 0) = m'.cycle[f]
  <2>1. \A f \in Timed : m.cycle[f] \in Nat /\ m'.cycle[f] \in Nat
    BY CyclesType DEF IInv
  <2>2. \A f \in Timed : Moved(m'.cycle[f], 0) = m'.cycle[f]
    BY <2>1 DEF Moved
  <2> QED  BY <2>1, <2>2, TurnFacts, Geometry
<1>4. \A f \in Timed : KeptNow(f) <=> m'.cycle[f] = Moved(m.cycle[f], Now)
  BY <1>2, <1>3 DEF KeptNow
<1>5. Timers!Due("eof", Pass)
  BY <1>2, DueNow DEF Timed, Event
<1>6. Timers!Request(Pass)
  <2>1. \/ KeptNow("cpu") /\ KeptNow("interrupt")
        \/ /\ m.cycle["interrupt"] = Disable /\ m'.cycle["interrupt"] = Disable
           /\ m.cycle["cpu"] = Disable /\ m'.cycle["cpu"] = elapsed'
        \/ /\ m.cycle["interrupt"] = Disable
           /\ m'.cycle["interrupt"] = elapsed' + Latency /\ KeptNow("cpu")
    BY <1>1, <1>2, <1>3, <1>4 DEF Raised, Timed, Event
  <2> QED  BY <2>1, RequestIs
<1>7. Left'["eof"] \in {Cycles(long) : long \in BOOLEAN}
  BY <1>1, <1>2, <1>3, LeftIs DEF Timed, Event
<1>8. \/ Timers!Kept({"copper"}, Pass)
      \/ Left'["copper"] = CopperStart
  <2>1. CASE m.copper_dma
    BY <1>1, <1>2, <1>3, <2>1, LeftIs DEF Timed, Event
  <2>2. CASE ~m.copper_dma
    <3>1. m.cycle["copper"] = Disable
      BY <2>2 DEF IInv, ChipsSoon
    <3>2. KeptNow("copper")
      BY <1>1, <1>4, <2>2, <3>1 DEF Moved, Timed, Event
    <3> QED  BY <3>2, KeptIs DEF Timed, Event
  <2> QED  BY <2>1, <2>2
<1>9. Timers!Kept({"eol", "cia", "blitter"}, Pass)
  <2>1. Moved(m.cycle["eol"], Now) = LineCycles - 1
    BY <1>2, <1>3, LastLine, Geometry DEF Moved
  <2>2. \A f \in {"eol", "cia", "blitter"} : KeptNow(f)
    BY <1>1, <1>4, <2>1 DEF Timed, Event
  <2> QED  BY <2>2, KeptIs DEF Timed, Event
<1> QED  BY <1>5, <1>6, <1>7, <1>8, <1>9 DEF TimersTurn, Timers!Turn, Timers!EndOfFrame, Left

LEMMA ResetImplements == ASSUME IInv, IInv', ResetStep PROVE Timers!Reset
<1>1. /\ elapsed' = 0
      /\ m'.cycle["eol"] = LineCycles - 1 /\ m'.cycle["eof"] = Cycles(long_frame)
      /\ ~StaleClock => \A e \in {"cia", "copper", "blitter", "interrupt"} :
                          m'.cycle[e] = Disable
  BY ResetEffect
<1>2. \A f \in Timed : m'.cycle[f] \in Nat /\ Left'[f] = m'.cycle[f]
  <2>1. \A f \in Timed : m'.cycle[f] \in Nat
    BY CyclesType DEF IInv
  <2> QED  BY <1>1, <2>1, LeftIs DEF Moved
<1>3. /\ Left'["eol"] = LineCycles - 1
      /\ Left'["eof"] \in {Cycles(long) : long \in BOOLEAN}
      /\ StaleClock \/ \A f \in {"cia", "copper", "blitter", "interrupt"} : Left'[f] = Disable
  BY <1>1, <1>2 DEF Timed, Event, IInv, TypeOK
<1> QED  BY <1>3 DEF Timers!Reset, Left

LEMMA InitImplements == Init => Timers!Init
<1> SUFFICES ASSUME Init
             PROVE  Timers!Init
  OBVIOUS
<1> DEFINE C == {Cycles(long) : long \in BOOLEAN}
<1>1. /\ elapsed = 0 /\ m = SoftReset([fault |-> FALSE], TRUE)
  BY DEF Init
<1>2. Cycles(TRUE) = CHOOSE c \in C : \A d \in C : d <= c
  <2>1. \A c \in C : c \in Nat /\ c <= Cycles(TRUE)
    BY Geometry DEF Cycles, Longest
  <2>2. Cycles(TRUE) \in C
    OBVIOUS
  <2>3. \E c \in C : \A d \in C : d <= c
    BY <2>1, <2>2
  <2> DEFINE k == CHOOSE c \in C : \A d \in C : d <= c
  <2>4. k \in C /\ \A d \in C : d <= k
    BY <2>3
  <2> HIDE DEF k
  <2>5. /\ k \in Nat /\ k <= Cycles(TRUE)
        /\ Cycles(TRUE) \in Nat /\ Cycles(TRUE) <= k
    <3> HIDE DEF C
    <3> QED  BY <2>1, <2>2, <2>4
  <2>6. k = Cycles(TRUE)
    <3>1. \A a, b \in Nat : a <= b /\ b <= a => a = b
      OBVIOUS
    <3> HIDE DEF C
    <3> QED  BY <2>5, <3>1
  <2> QED  BY <2>6 DEF k
<1>3. m.cycle = [e \in Timed |-> CASE e = "eol" -> LineCycles - 1
                                   [] e = "eof" -> Cycles(TRUE)
                                   [] e = "cpu" -> 0
                                   [] OTHER -> Disable]
  BY <1>1 DEF SoftReset
<1>4. \A e \in Timed : Left[e] = m.cycle[e]
  <2>1. \A e \in Timed : m.cycle[e] \in Nat
    BY InitIInv, CyclesType DEF IInv
  <2>2. ASSUME NEW e \in Timed
        PROVE  Left[e] = m.cycle[e]
    <3>1. Left[e] = Moved(m.cycle[e], elapsed)
      BY LeftIs
    <3>2. elapsed = 0 /\ m.cycle[e] \in Nat
      BY <1>1, <2>1
    <3> QED  BY <3>1, <3>2 DEF Moved
  <2> QED  BY <2>2
<1>5. Left = [e \in Timed |-> CASE e = "eol" -> LineCycles - 1
                                [] e = "cpu" -> 0
                                [] e = "eof" -> Cycles(TRUE)
                                [] OTHER -> Disable]
  <2>1. \A e \in Timed : Left[e] = CASE e = "eol" -> LineCycles - 1
                                     [] e = "cpu" -> 0
                                     [] e = "eof" -> Cycles(TRUE)
                                     [] OTHER -> Disable
    BY <1>3, <1>4 DEF Timed, Event
  <2>2. Left = [e \in Timed |-> Left[e]]
    BY DEF Left
  <2> QED  BY <2>1, <2>2
<1> HIDE DEF C
<1> QED  BY <1>2, <1>5, TimersAreTimed DEF Timers!Init, Left, C

LEMMA NextImplements == IInv /\ IInv' /\ [Next]_vars => Timers!Next \/ UNCHANGED Left
<1> SUFFICES ASSUME IInv, IInv', [Next]_vars
             PROVE  Timers!Next \/ UNCHANGED Left
  OBVIOUS
<1>1. Timers!Type
  <2>1. \A f \in Timed : Left'[f] \in 0..Disable
    <3>1. /\ elapsed' \in Nat
          /\ \A f \in Timed : m'.cycle[f] \in 0..Disable /\ m'.cycle[f] \in Nat
                              /\ ~(m'.cycle[f] < elapsed')
      BY CyclesType, DisableNat DEF IInv, TypeOK, Late
    <3> QED  BY <3>1, LeftIs, DisableNat DEF Moved
  <2>2. Left' = [f \in Timed |-> Left'[f]]
    BY DEF Left
  <2>3. Left' \in [Timed -> 0..Disable]
    BY <2>1, <2>2
  <2> QED  BY <2>3, TimersAreTimed DEF Timers!Type, Left
<1>2. ASSUME TimersTurn, NEW e \in Timed, m.cycle[e] = Now
      PROVE  Timers!Next
  <2>1. Left[e] = Pass
    BY <1>2, PassFacts
  <2>3. Pass = [g \in Timed |-> IF m.cycle[g] = Disable THEN Disable
                                ELSE m.cycle[g] - elapsed][e]
    BY <2>1 DEF Left
  <2>4. Timers!Turn(Pass)
    BY <1>2 DEF TimersTurn
  <2>5. e \in Timers!Timer
    BY TimersAreTimed
  <2>6. Pass \in {[g \in Timed |-> IF m.cycle[g] = Disable THEN Disable
                                  ELSE m.cycle[g] - elapsed][f] : f \in Timers!Timer}
    BY <2>3, <2>5
  <2>7. \E d \in {[g \in Timed |-> IF m.cycle[g] = Disable THEN Disable
                                    ELSE m.cycle[g] - elapsed][f] : f \in Timers!Timer} :
           Timers!Turn(d)
    BY <2>4, <2>6, Zenon DEF Timers!Turn, Timers!EndOfLine, Timers!EndOfFrame, Timers!CiaTimeout,
         Timers!BlitDone, Timers!InterruptDue, Timers!CopperInstruction,
         Timers!CpuInstructions, Timers!Due, Timers!Request, Timers!Decide,
         Timers!InterruptTimer, Timers!Kept, Timers!After, Timers!Woken
  <2> QED  BY <1>1, <2>7, Zenon DEF Timers!Next
<1>3. ASSUME ResetStep
      PROVE  Timers!Next
  BY <1>1, <1>3, ResetImplements DEF Timers!Next
<1>4. CASE RunCpu \/ AbortInstruction \/ RuntimeError
  BY <1>2, <1>4, CpuImplements, CpuEffect DEF Timed
<1>5. CASE InterruptEvent \/ CiaEvent \/ BlitterEvent
  <2>1. \E e \in Event : Dispatch(e)
    BY <1>5 DEF InterruptEvent, CiaEvent, BlitterEvent, Chip, Event
  <2> QED  BY <1>2, <1>5, <2>1, ChipImplements, Popped DEF Timed
<1>6. CASE CopperEvent
  <2>1. Dispatch("copper")
    BY <1>6 DEF CopperEvent, Chip
  <2> QED  BY <1>2, <1>6, <2>1, CopperImplements, Popped DEF Timed, Event
<1>7. CASE EndOfLine
  <2>1. Dispatch("eol")
    BY <1>7 DEF EndOfLine
  <2> QED  BY <1>2, <1>7, <2>1, EndOfLineImplements, Popped DEF Timed, Event
<1>8. CASE EndOfFrame
  <2>1. Dispatch("eof")
    BY <1>8 DEF EndOfFrame
  <2> QED  BY <1>2, <1>8, <2>1, EndOfFrameImplements, Popped DEF Timed, Event
<1>9. CASE RequestStop \/ (\E how \in {"run", "step"} : Start(how, FALSE)) \/ UNCHANGED vars
  <2>1. UNCHANGED <<m, elapsed>>
    BY <1>9 DEF RequestStop, Start, vars
  <2> QED  BY <2>1 DEF Left
<1>10. \/ RunCpu \/ AbortInstruction \/ RuntimeError \/ ResetStep
       \/ InterruptEvent \/ CiaEvent \/ BlitterEvent \/ CopperEvent
       \/ EndOfLine \/ EndOfFrame
       \/ RequestStop \/ (\E how \in {"run", "step"} : Start(how, FALSE)) \/ UNCHANGED vars
  BY DEF Next, Loop, Cpu, Chips, Host, ResetStep
<1> QED  BY <1>3, <1>4, <1>5, <1>6, <1>7, <1>8, <1>9, <1>10

(* For any geometry and delays, the queue with its frames and rebasing is  *)
(* a set of count-down timers in one continuous time: each turn is the     *)
(* least timer's, and touches no timers but those EventTimers lists.       *)
THEOREM SchedulerImplementsTimers == Spec => ImplementsTimers
<1>1. Init => Timers!Init
  BY InitImplements
<1>2. IInv /\ IInv' /\ [Next]_vars => [Timers!Next]_Left
  BY NextImplements
<1>3. Spec => Timers!Init /\ [][Timers!Next]_Left
  BY <1>1, <1>2, Invariance, PTL DEF Spec
<1>4. Timers!Init /\ [][Timers!Next]_Left => ImplementsTimers
  BY DEF ImplementsTimers, Timers!Spec, Left
<1> QED  BY <1>3, <1>4
=============================================================================
