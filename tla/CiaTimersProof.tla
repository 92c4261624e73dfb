--------------------------- MODULE CiaTimersProof ---------------------------
(***************************************************************************)
(* Proofs about the timers of module CiaTimers, for every ratio of the     *)
(* clocks, width of a register, length of a frame and delay of a recheck.  *)
(***************************************************************************)
EXTENDS CiaTimers, WellFoundedInduction, TLAPS

Free(t) == timer[t].running /\ ~Cascaded(t)

(* A time is kept just for the timers that run and are not attached; it is *)
(* not in the past and no further ahead than a full count.                 *)
Running == \A t \in Timer : timer[t].left # Never <=> Free(t)

Ahead ==
  /\ \A t \in Timer : Free(t) => timer[t].left - cycle \in 0 .. Wrap * Ratio - 1
  /\ recheck # Never => cycle <= recheck

IInv == TypeOK /\ Running /\ Ahead /\ EventIsEarliest /\ TimersKeepTime

-----------------------------------------------------------------------------
(* Numbers.                                                                *)

(* A set of natural numbers that is not empty has a least element.         *)
LEMMA Least == ASSUME NEW T, T \subseteq Nat, T # {}
               PROVE  \E x \in T : \A y \in T : x <= y
<1>1. PICK x \in T : \A y \in T : ~ (<<y, x>> \in OpToRel(<, Nat))
  BY NatLessThanWellFounded, WFMin
<1>2. \A y \in T : ~(y < x)
  BY <1>1 DEF OpToRel
<1> QED  BY <1>2

LEMMA Sizes == /\ Wrap \in Nat /\ 4 <= Wrap
               /\ Ratio \in Nat /\ 1 <= Ratio /\ Frame \in Nat /\ 1 <= Frame
               /\ RecheckDelay \in Nat
               /\ Byte \in Nat /\ 2 <= Byte
<1>1. \A b \in Nat : 2 <= b => b * b \in Nat /\ 2 * b <= b * b
  OBVIOUS
<1>2. Wrap \in Nat /\ 2 * Byte <= Wrap
  BY <1>1, ByteAssumption DEF Wrap
<1> QED  BY <1>2, ByteAssumption, RatioAssumption, DelayAssumption

(* A count and what is left over, as cycles.                               *)
LEMMA Product ==
  ASSUME NEW r \in Nat, 1 <= r, NEW w \in Nat, NEW n \in 0 .. w - 1, NEW k \in 0 .. r - 1
  PROVE  n * r + k \in 0 .. w * r - 1
<1>1. n + 1 <= w
  OBVIOUS
<1>2. \A a, b \in Nat : a <= b => a * r <= b * r
  OBVIOUS
<1>3. n + 1 \in Nat
  OBVIOUS
<1>4. (n + 1) * r <= w * r
  BY <1>1, <1>2, <1>3
<1>5. (n + 1) * r = n * r + r
  OBVIOUS
<1>6. n * r \in Nat /\ w * r \in Nat
  OBVIOUS
<1> QED  BY <1>4, <1>5, <1>6

(* Cycles, as a count and what is left over.                               *)
LEMMA Division ==
  ASSUME NEW r \in Nat, 1 <= r, NEW w \in Nat, NEW x \in 0 .. w * r - 1
  PROVE  /\ x \div r \in 0 .. w - 1 /\ x % r \in 0 .. r - 1
         /\ (x \div r) * r + (x % r) = x
<1> DEFINE q == x \div r
<1>0. x \in Nat
  OBVIOUS
<1>1. q \in Int /\ q * r <= x /\ x < q * r + r
  BY <1>0
<1>2. x % r \in 0 .. r - 1
  BY <1>0
<1> HIDE DEF q
<1>3. 0 <= q
  <2>1. ASSUME q <= -1
        PROVE  FALSE
    <3>1. q * r <= (-1) * r
      BY <1>1, <2>1
    <3> QED  BY <3>1, <1>0, <1>1
  <2> QED  BY <2>1, <1>1
<1>4. q <= w - 1
  <2>1. ASSUME w <= q
        PROVE  FALSE
    <3>1. w * r <= q * r
      BY <1>1, <1>3, <2>1
    <3>2. w * r \in Int /\ q * r \in Int
      BY <1>1
    <3> QED  BY <3>1, <3>2, <1>0, <1>1
  <2> QED  BY <2>1, <1>1
<1>5. x - q * r \in 0 .. r - 1 /\ q * r \in Int
  BY <1>0, <1>1
<1>6. \A k \in 0 .. r - 1 : (q * r + k) % r = k
  BY <1>1, <1>3
<1>7. (q * r + (x - q * r)) % r = x - q * r
  BY <1>5, <1>6
<1>8. q * r + (x - q * r) = x
  BY <1>0, <1>5
<1>9. x % r = x - q * r
  BY <1>7, <1>8
<1>10. q \in 0 .. w - 1 /\ q * r + (x % r) = x
  <2>1. q * r + (x % r) = x
    BY <1>8, <1>9
  <2> QED  BY <1>1, <1>3, <1>4, <2>1
<1> QED  BY <1>2, <1>10 DEF q

-----------------------------------------------------------------------------
(* The bus event.                                                          *)

TimeOf(s, timers, check) == IF s = Recheck THEN check ELSE timers[s].left

Waiting(timers, check) == {s \in Source : TimeOf(s, timers, check) # Never}

Timed(timers, check) == \A s \in Source : TimeOf(s, timers, check) \in Nat \union {Never}

Before(s, u, timers, check) ==
  \/ TimeOf(s, timers, check) < TimeOf(u, timers, check)
  \/ TimeOf(s, timers, check) = TimeOf(u, timers, check) /\ First(s, u)

(* The event e is what ciaSetupNextEvent makes of the times.               *)
IsNext(e, timers, check) ==
  \/ Waiting(timers, check) = {} /\ e = NoEvent
  \/ /\ e.source \in Waiting(timers, check)
     /\ e = [source |-> e.source, time |-> TimeOf(e.source, timers, check)]
     /\ \A u \in Waiting(timers, check) : Before(e.source, u, timers, check)

Rank(s) == 2 * s[1] + (IF s[2] = "A" THEN 2 ELSE 3)

LEMMA Ranked ==
  /\ \A s \in Source : Rank(s) \in Nat
  /\ \A s, u \in Source : /\ First(s, u) <=> Rank(s) <= Rank(u)
                          /\ Rank(s) = Rank(u) => s = u
<1>1. \A s \in Source : /\ s = <<s[1], s[2]>> /\ s[1] \in {-1, 0, 1} /\ s[2] \in {"A", "B"}
  <2> SUFFICES ASSUME NEW s \in Source
               PROVE  s = <<s[1], s[2]>> /\ s[1] \in {-1, 0, 1} /\ s[2] \in {"A", "B"}
    OBVIOUS
  <2>1. CASE s = Recheck
    BY <2>1 DEF Recheck
  <2>2. CASE s \in Timer
    <3>1. PICK i \in Cia, b \in {"A", "B"} : s = <<i, b>>
      BY <2>2 DEF Timer
    <3>2. i \in {0, 1}
      BY CiaAssumption
    <3> QED  BY <3>1, <3>2
  <2> QED  BY <2>1, <2>2 DEF Source
<1>2. ASSUME NEW s \in Source, NEW u \in Source
      PROVE  /\ Rank(s) \in Nat
             /\ First(s, u) <=> Rank(s) <= Rank(u)
             /\ Rank(s) = Rank(u) => s[1] = u[1] /\ s[2] = u[2]
  BY <1>1 DEF Rank, First
<1> QED  BY <1>1, <1>2

(* The earliest time is unique, and ciaSetupNextEvent finds it.            *)
LEMMA NextIs ==
  ASSUME NEW timers, NEW check, Timed(timers, check), NEW e
  PROVE  e = NextEvent(timers, check) <=> IsNext(e, timers, check)
<1> DEFINE T(s) == TimeOf(s, timers, check)
           W == Waiting(timers, check)
           E == {s \in W : \A u \in W : T(s) < T(u) \/ (T(s) = T(u) /\ First(s, u))}
           c == CHOOSE s \in E : TRUE
<1>1. NextEvent(timers, check) = IF W = {} THEN NoEvent ELSE [source |-> c, time |-> T(c)]
  BY DEF NextEvent, TimeOf, Waiting
<1>2. W \subseteq Source /\ \A s \in W : T(s) \in Nat
  BY DEF Timed, Waiting
<1> HIDE DEF T, W
<1>3. ASSUME W # {}
      PROVE  E # {}
  <2> DEFINE times == {T(s) : s \in W}
  <2>1. PICK x \in times : \A y \in times : x <= y
    <3>1. times \subseteq Nat /\ times # {}
      BY <1>2, <1>3
    <3> HIDE DEF times
    <3> QED  BY <3>1, Least
  <2> DEFINE first == {s \in W : T(s) = x}
             ranks == {Rank(s) : s \in first}
  <2>2. PICK n \in ranks : \A k \in ranks : n <= k
    <3>1. ranks \subseteq Nat /\ ranks # {}
      BY <2>1, <1>2, Ranked
    <3> HIDE DEF ranks
    <3> QED  BY <3>1, Least
  <2>3. PICK s \in first : Rank(s) = n
    BY <2>2
  <2>4. \A u \in W : T(s) <= T(u)
    BY <2>1, <2>3
  <2>5. \A u \in W : T(u) = T(s) => First(s, u)
    BY <1>2, <2>2, <2>3, Ranked
  <2>6. s \in E
    BY <1>2, <2>3, <2>4, <2>5
  <2> QED  BY <2>6
<1>4. \A s, u \in E : s = u
  <2> SUFFICES ASSUME NEW s \in E, NEW u \in E
               PROVE  s = u
    OBVIOUS
  <2>1. T(s) = T(u) /\ First(s, u) /\ First(u, s)
    BY <1>2
  <2>2. Rank(s) <= Rank(u) /\ Rank(u) <= Rank(s) /\ Rank(s) \in Nat /\ Rank(u) \in Nat
    BY <1>2, <2>1, Ranked
  <2>3. Rank(s) = Rank(u)
    BY <2>2
  <2> QED  BY <1>2, <2>3, Ranked
<1>5. IsNext(e, timers, check) <=>
        \/ W = {} /\ e = NoEvent
        \/ e.source \in E /\ e = [source |-> e.source, time |-> T(e.source)]
  BY DEF IsNext, Before, T, W
<1>6. CASE W = {}
  <2>1. E = {}
    BY <1>6
  <2> HIDE DEF E
  <2> QED  BY <1>1, <1>5, <1>6, <2>1
<1>7. CASE W # {}
  <2>1. c \in E /\ \A s \in E : s = c
    BY <1>3, <1>4, <1>7
  <2> HIDE DEF c, E
  <2>2. e = [source |-> c, time |-> T(c)] <=>
          e.source \in E /\ e = [source |-> e.source, time |-> T(e.source)]
    BY <2>1
  <2> QED  BY <1>1, <1>5, <1>7, <2>2
<1> QED  BY <1>6, <1>7

(* The event is one of those that wait, and none waits for less.           *)
LEMMA NextIsLeast ==
  ASSUME NEW timers, NEW check, Timed(timers, check), NEW e, IsNext(e, timers, check)
  PROVE  /\ e \in [source : Source, time : Nat \union {Never}]
         /\ e.time = Never <=> Waiting(timers, check) = {}
         /\ e.time # Never => e.time = TimeOf(e.source, timers, check)
         /\ \A s \in Waiting(timers, check) :
              e.time # Never /\ e.time <= TimeOf(s, timers, check)
<1>1. \A s \in Waiting(timers, check) :
        s \in Source /\ TimeOf(s, timers, check) \in Nat /\ TimeOf(s, timers, check) # Never
  BY DEF Waiting, Timed
<1>2. CASE Waiting(timers, check) = {} /\ e = NoEvent
  BY <1>2 DEF NoEvent, Source
<1>3. CASE /\ e.source \in Waiting(timers, check)
           /\ e = [source |-> e.source, time |-> TimeOf(e.source, timers, check)]
           /\ \A u \in Waiting(timers, check) : Before(e.source, u, timers, check)
  <2>1. e.time = TimeOf(e.source, timers, check) /\ e.time \in Nat /\ e.time # Never
    BY <1>1, <1>3
  <2>2. \A s \in Waiting(timers, check) : e.time <= TimeOf(s, timers, check)
    BY <1>1, <1>3, <2>1 DEF Before
  <2> QED  BY <1>1, <1>3, <2>1, <2>2
<1> QED  BY <1>2, <1>3 DEF IsNext

(* Only the times matter; and a frame can be taken from all of them.       *)
LEMMA NextMoved ==
  ASSUME NEW timers, NEW check, Timed(timers, check),
         NEW timers1, NEW check1, Timed(timers1, check1), NEW frame \in Nat,
         \A s \in Source :
           IF TimeOf(s, timers, check) = Never
           THEN TimeOf(s, timers1, check1) = Never
           ELSE /\ frame <= TimeOf(s, timers, check)
                /\ TimeOf(s, timers1, check1) = TimeOf(s, timers, check) - frame,
         NEW e, IsNext(e, timers, check)
  PROVE  IsNext([source |-> e.source, time |-> IF e.time = Never THEN Never ELSE e.time - frame],
                timers1, check1)
<1> DEFINE T(s) == TimeOf(s, timers, check)
           U(s) == TimeOf(s, timers1, check1)
<1>1. \A s \in Source : /\ T(s) \in Nat \union {Never} /\ U(s) \in Nat \union {Never}
                        /\ IF T(s) = Never THEN U(s) = Never
                                           ELSE frame <= T(s) /\ U(s) = T(s) - frame
  BY DEF Timed
<1>2. Waiting(timers, check) = Waiting(timers1, check1)
  <2>1. \A s \in Source : T(s) # Never <=> U(s) # Never
    <3> SUFFICES ASSUME NEW s \in Source
                 PROVE  T(s) # Never <=> U(s) # Never
      OBVIOUS
    <3> HIDE DEF T, U
    <3> QED  BY <1>1 DEF Never
  <2> QED  BY <2>1 DEF Waiting
<1> HIDE DEF T, U
<1>3. CASE Waiting(timers, check) = {} /\ e = NoEvent
  BY <1>2, <1>3 DEF IsNext, NoEvent
<1>4. CASE /\ e.source \in Waiting(timers, check)
           /\ e = [source |-> e.source, time |-> T(e.source)]
           /\ \A u \in Waiting(timers, check) : Before(e.source, u, timers, check)
  <2>1. \A s \in Waiting(timers, check) : s \in Source /\ T(s) \in Nat /\ T(s) # Never
    BY <1>1 DEF Waiting, T
  <2>2. \A u \in Waiting(timers, check) :
          T(e.source) < T(u) \/ (T(e.source) = T(u) /\ First(e.source, u))
    BY <1>4 DEF Before, T
  <2>3. \A u \in Waiting(timers, check) : Before(e.source, u, timers1, check1)
    <3> SUFFICES ASSUME NEW u \in Waiting(timers, check)
                 PROVE  U(e.source) < U(u) \/ (U(e.source) = U(u) /\ First(e.source, u))
      BY DEF Before, U
    <3>1. U(e.source) = T(e.source) - frame /\ U(u) = T(u) - frame
      BY <1>1, <1>4, <2>1
    <3> QED  BY <1>4, <2>1, <2>2, <3>1
  <2>4. e.time = T(e.source) /\ e.time # Never /\ U(e.source) = e.time - frame
    BY <1>1, <1>4, <2>1
  <2> QED  BY <1>2, <1>4, <2>3, <2>4 DEF IsNext, U
<1> QED  BY <1>3, <1>4 DEF IsNext, T
-----------------------------------------------------------------------------
(* One timer.                                                              *)

Rec == [count : 0 .. Wrap - 1, rem : 0 .. Ratio - 1, latch : 0 .. Wrap - 1,
        left : Nat \union {Never}, running : BOOLEAN, oneShot : BOOLEAN]

(* What Running and Ahead say of one timer, free to count cycles or not.   *)
Good(x, free, now) ==
  /\ x \in Rec /\ free \in BOOLEAN
  /\ x.left # Never <=> free
  /\ free => x.left - now \in 0 .. Wrap * Ratio - 1

Span(x, free, now) == IF free THEN x.left - now ELSE x.count * Ratio + x.rem

Exact(x, free, now, loaded, counted) ==
  counted + Span(x, free, now) - loaded * Ratio \in 0 .. Ratio - 1

LEMMA SpanType ==
  ASSUME NEW x, NEW free, NEW now \in Nat, Good(x, free, now)
  PROVE  /\ Span(x, free, now) \in 0 .. Wrap * Ratio - 1
         /\ x.count * Ratio \in Nat
<1>1. x.count \in 0 .. Wrap - 1 /\ x.rem \in 0 .. Ratio - 1
  BY DEF Good, Rec
<1>2. x.count * Ratio + x.rem \in 0 .. Wrap * Ratio - 1
  BY <1>1, Sizes, Product
<1>3. x.count * Ratio \in Nat
  BY <1>1, Sizes
<1> QED  BY <1>2, <1>3 DEF Good, Span

LEMMA ValueType == \A n \in 0 .. Wrap - 1 : Value(n) \in 1 .. Wrap - 1
BY Sizes DEF Value

(* Freezing and thawing a timer loses no cycle.                            *)
LEMMA FrozenDoes ==
  ASSUME NEW x, NEW free, cycle \in Nat, Good(x, free, cycle)
  PROVE  LET y == Frozen(x, free)
         IN  /\ y \in Rec /\ y.left = Never
             /\ y.count * Ratio + y.rem = Span(x, free, cycle)
             /\ y.running = x.running /\ y.oneShot = x.oneShot /\ y.latch = x.latch
<1>1. CASE ~free
  <2>1. Frozen(x, free) = [x EXCEPT !.left = Never]
    BY <1>1 DEF Frozen
  <2> QED  BY <1>1, <2>1 DEF Good, Rec, Span
<1>2. CASE free
  <2> DEFINE n == x.left - cycle
  <2>1. n \in 0 .. Wrap * Ratio - 1
    BY <1>2 DEF Good
  <2>2. /\ n \div Ratio \in 0 .. Wrap - 1 /\ n % Ratio \in 0 .. Ratio - 1
        /\ (n \div Ratio) * Ratio + (n % Ratio) = n
    <3> HIDE DEF n
    <3> QED  BY <2>1, Sizes, Division
  <2>3. Frozen(x, free) = [x EXCEPT !.count = n \div Ratio, !.rem = n % Ratio, !.left = Never]
    BY <1>2 DEF Frozen
  <2>4. Span(x, free, cycle) = n
    BY <1>2 DEF Span
  <2>5. x \in Rec
    BY DEF Good
  <2> HIDE DEF n
  <2>6. /\ Frozen(x, free) \in Rec /\ Frozen(x, free).left = Never
        /\ Frozen(x, free).count = n \div Ratio /\ Frozen(x, free).rem = n % Ratio
        /\ Frozen(x, free).running = x.running /\ Frozen(x, free).oneShot = x.oneShot
        /\ Frozen(x, free).latch = x.latch
    BY <2>2, <2>3, <2>5 DEF Rec
  <2> QED  BY <2>2, <2>4, <2>6
<1> QED  BY <1>1, <1>2 DEF Good

LEMMA ThawedDoes ==
  ASSUME NEW x \in Rec, NEW free \in BOOLEAN, cycle \in Nat, ~free => x.left = Never
  PROVE  LET y == Thawed(x, free)
         IN  /\ Good(y, free, cycle)
             /\ Span(y, free, cycle) = x.count * Ratio + x.rem
             /\ y.count = x.count /\ y.rem = x.rem /\ y.latch = x.latch
             /\ y.running = x.running /\ y.oneShot = x.oneShot
<1>1. x.count \in 0 .. Wrap - 1 /\ x.rem \in 0 .. Ratio - 1
  BY DEF Rec
<1>2. x.count * Ratio + x.rem \in 0 .. Wrap * Ratio - 1 /\ x.count * Ratio \in Nat
  BY <1>1, Sizes, Product
<1>3. CASE ~free
  <2>1. Thawed(x, free) = x
    BY <1>3 DEF Thawed
  <2> QED  BY <1>3, <2>1 DEF Good, Span
<1>4. CASE free
  <2> DEFINE n == x.count * Ratio
             l == n + cycle + x.rem
  <2>1. Thawed(x, free) = [x EXCEPT !.left = l]
    BY <1>4 DEF Thawed
  <2>2. n \in Nat /\ n + x.rem \in 0 .. Wrap * Ratio - 1
    BY <1>2
  <2> HIDE DEF n
  <2>3. l \in Nat /\ l # Never /\ l - cycle = n + x.rem
    BY <1>1, <2>2 DEF Never
  <2> HIDE DEF l
  <2>4. /\ Thawed(x, free) \in Rec /\ Thawed(x, free).left = l
        /\ Thawed(x, free).count = x.count /\ Thawed(x, free).rem = x.rem
        /\ Thawed(x, free).latch = x.latch
        /\ Thawed(x, free).running = x.running /\ Thawed(x, free).oneShot = x.oneShot
    BY <2>1, <2>3 DEF Rec
  <2>5. Good(Thawed(x, free), free, cycle)
    BY <1>4, <2>2, <2>3, <2>4 DEF Good
  <2>6. Span(Thawed(x, free), free, cycle) = n + x.rem
    BY <1>4, <2>3, <2>4 DEF Span
  <2> QED  BY <2>4, <2>5, <2>6 DEF n
<1> QED  BY <1>3, <1>4

LEMMA LoadedDoes ==
  ASSUME NEW x \in Rec
  PROVE  LET y == Loaded(x)
         IN  /\ y \in Rec /\ y.count = Value(x.latch) /\ y.count \in 1 .. Wrap - 1 /\ y.rem = 0
             /\ y.left = x.left /\ y.latch = x.latch
             /\ y.running = x.running /\ y.oneShot = x.oneShot
<1>1. Value(x.latch) \in 1 .. Wrap - 1 /\ Value(x.latch) \in 0 .. Wrap - 1
  BY ValueType DEF Rec
<1>2. 0 \in 0 .. Ratio - 1
  BY Sizes
<1> QED  BY <1>1, <1>2 DEF Loaded, Rec

(* A timer that expires is loaded, and stops in one-shot mode.             *)
LEMMA ExpiredDoes ==
  ASSUME NEW x, NEW cascaded \in BOOLEAN, cycle \in Nat, x.running,
         Good(x, ~cascaded, cycle)
  PROVE  LET y    == Expired(x, cascaded)
             free == y.running /\ ~cascaded
         IN  /\ Good(y, free, cycle)
             /\ y.count = Value(x.latch) /\ y.count \in 1 .. Wrap - 1
             /\ Exact(y, free, cycle, y.count, 0)
<1> DEFINE v == Value(x.latch)
           y == Expired(x, cascaded)
<1>1. /\ x \in Rec /\ v \in 1 .. Wrap - 1 /\ v \in 0 .. Wrap - 1
      /\ x.rem \in 0 .. Ratio - 1 /\ x.oneShot \in BOOLEAN
  BY ValueType DEF Good, Rec
<1>2. v * Ratio \in Nat /\ v * Ratio + 0 \in 0 .. Wrap * Ratio - 1
  <2> HIDE DEF v
  <2> QED  BY <1>1, Sizes, Product
<1> DEFINE l == IF x.oneShot THEN Never ELSE IF cascaded THEN x.left ELSE v * Ratio + cycle
<1>3. y = [x EXCEPT !.count = v, !.running = x.running /\ ~x.oneShot, !.left = l]
  BY DEF Expired
<1> HIDE DEF v
<1>4. l \in Nat \union {Never} /\ (l # Never <=> ~x.oneShot /\ ~cascaded)
  BY <1>1, <1>2 DEF Good, Rec, Never
<1> HIDE DEF l
<1>5. /\ y \in Rec /\ y.count = v /\ y.running = (x.running /\ ~x.oneShot) /\ y.left = l
      /\ y.rem = x.rem
  <2>1. (x.running /\ ~x.oneShot) \in BOOLEAN
    OBVIOUS
  <2> HIDE DEF y
  <2> QED  BY <1>1, <1>3, <1>4, <2>1 DEF Rec
<1> HIDE DEF y
<1>6. CASE ~x.oneShot /\ ~cascaded
  <2>1. l = v * Ratio + cycle
    BY <1>6 DEF l
  <2>2. l - cycle = v * Ratio
    BY <1>2, <2>1
  <2>3. y.running /\ y.running \in BOOLEAN
    BY <1>5, <1>6
  <2>4. Span(y, TRUE, cycle) = v * Ratio
    BY <1>5, <2>2 DEF Span
  <2>5. Good(y, TRUE, cycle)
    BY <1>2, <1>4, <1>5, <1>6, <2>2 DEF Good
  <2>6. Exact(y, TRUE, cycle, y.count, 0)
    <3>1. \A p \in Nat : 0 + p - p \in 0 .. Ratio - 1
      BY Sizes
    <3>2. 0 + v * Ratio - v * Ratio \in 0 .. Ratio - 1
      BY <1>2, <3>1
    <3> QED  BY <1>5, <2>4, <3>2 DEF Exact
  <2>7. (y.running /\ ~cascaded) = TRUE
    BY <1>6, <2>3
  <2> QED  BY <1>1, <1>5, <2>5, <2>6, <2>7 DEF y, v
<1>7. CASE x.oneShot \/ cascaded
  <2>1. (y.running /\ ~cascaded) = FALSE
    BY <1>5, <1>7
  <2>2. Span(y, FALSE, cycle) = v * Ratio + x.rem
    BY <1>5 DEF Span
  <2>3. Good(y, FALSE, cycle)
    BY <1>4, <1>5, <1>7 DEF Good
  <2>4. Exact(y, FALSE, cycle, y.count, 0)
    <3>1. \A p \in Nat : 0 + (p + x.rem) - p \in 0 .. Ratio - 1
      BY <1>1, Sizes
    <3>2. 0 + (v * Ratio + x.rem) - v * Ratio \in 0 .. Ratio - 1
      BY <1>2, <3>1
    <3> QED  BY <1>5, <2>2, <3>2 DEF Exact
  <2> QED  BY <1>1, <1>5, <2>1, <2>3, <2>4 DEF y, v
<1> QED  BY <1>1, <1>6, <1>7
-----------------------------------------------------------------------------
(* The invariant, timer by timer.                                          *)

TimerSound(t) ==
  /\ Good(timer[t], Free(t), cycle)
  /\ t \notin disturbed => Exact(timer[t], Free(t), cycle, from[t], ran[t])

Sound ==
  /\ cycle \in 0 .. Frame
  /\ timer \in [Timer -> Rec]
  /\ attached \in [Cia -> BOOLEAN]
  /\ recheck \in Nat \union {Never} /\ (recheck # Never => cycle <= recheck)
  /\ from \in [Timer -> 0 .. Wrap] /\ ran \in [Timer -> Nat] /\ disturbed \subseteq Timer
  /\ \A t \in Timer : TimerSound(t)
  /\ event = NextEvent(timer, recheck)

LEMMA FreeType ==
  ASSUME timer \in [Timer -> Rec], attached \in [Cia -> BOOLEAN], NEW t \in Timer
  PROVE  /\ Free(t) \in BOOLEAN /\ Cascaded(t) \in BOOLEAN /\ timer[t] \in Rec
         /\ timer[t].running \in BOOLEAN
         /\ Free(t) = (timer[t].running /\ ~Cascaded(t))
<1>1. timer[t] \in Rec /\ timer[t].running \in BOOLEAN
  BY DEF Rec
<1>2. Cascaded(t) \in BOOLEAN
  BY DEF Cascaded
<1> QED  BY <1>1, <1>2 DEF Free

LEMMA TimesAre ==
  ASSUME NEW timers \in [Timer -> Rec], NEW check \in Nat \union {Never}
  PROVE  /\ Timed(timers, check)
         /\ TimeOf(Recheck, timers, check) = check /\ Recheck \in Source
         /\ \A t \in Timer : t \in Source /\ TimeOf(t, timers, check) = timers[t].left
<1>1. \A t \in Timer : t # Recheck
  BY CiaAssumption DEF Timer, Recheck
<1>2. \A t \in Timer : t \in Source /\ TimeOf(t, timers, check) = timers[t].left
  BY <1>1 DEF TimeOf, Source
<1>3. TimeOf(Recheck, timers, check) = check /\ Recheck \in Source
  BY DEF TimeOf, Source
<1>4. \A t \in Timer : timers[t].left \in Nat \union {Never}
  BY DEF Rec
<1> QED  BY <1>2, <1>3, <1>4 DEF Timed, Source

(* The bus event is ahead of the time and of nothing else.                 *)
LEMMA EventFacts ==
  ASSUME Sound
  PROVE  /\ IsNext(event, timer, recheck)
         /\ event \in [source : Source, time : Nat \union {Never}]
         /\ event.time # Never => cycle <= event.time
         /\ \A t \in Timer : Free(t) => /\ event.time # Never /\ event.time <= timer[t].left
                                        /\ timer[t].left \in Nat /\ cycle <= timer[t].left
         /\ recheck # Never => event.time # Never /\ event.time <= recheck
         /\ \A t \in Timer : event.source = t /\ event.time # Never
                               => Free(t) /\ event.time = timer[t].left
         /\ event.source = Recheck => event.time = recheck
<1>1. /\ Timed(timer, recheck)
      /\ TimeOf(Recheck, timer, recheck) = recheck /\ Recheck \in Source
      /\ \A t \in Timer : t \in Source /\ TimeOf(t, timer, recheck) = timer[t].left
  BY TimesAre DEF Sound
<1>2. IsNext(event, timer, recheck)
  BY <1>1, NextIs DEF Sound
<1>3. /\ event \in [source : Source, time : Nat \union {Never}]
      /\ event.time = Never <=> Waiting(timer, recheck) = {}
      /\ event.time # Never => event.time = TimeOf(event.source, timer, recheck)
      /\ \A s \in Waiting(timer, recheck) :
           event.time # Never /\ event.time <= TimeOf(s, timer, recheck)
  BY <1>1, <1>2, NextIsLeast
<1>4. \A t \in Timer : /\ timer[t].left # Never <=> Free(t)
                       /\ Free(t) => /\ timer[t].left \in Nat /\ cycle <= timer[t].left
                                     /\ t \in Waiting(timer, recheck)
  <2> SUFFICES ASSUME NEW t \in Timer
               PROVE  /\ timer[t].left # Never <=> Free(t)
                      /\ Free(t) => /\ timer[t].left \in Nat /\ cycle <= timer[t].left
                                    /\ t \in Waiting(timer, recheck)
    OBVIOUS
  <2>1. Good(timer[t], Free(t), cycle) /\ cycle \in Nat
    BY DEF Sound, TimerSound
  <2>2. /\ timer[t].left # Never <=> Free(t)
        /\ timer[t].left \in Nat \union {Never}
        /\ Free(t) => timer[t].left - cycle \in 0 .. Wrap * Ratio - 1
    BY <2>1 DEF Good, Rec
  <2>3. ASSUME Free(t)
        PROVE  timer[t].left \in Nat /\ cycle <= timer[t].left
    BY <2>1, <2>2, <2>3
  <2> QED  BY <1>1, <2>2, <2>3 DEF Waiting
<1>5. recheck # Never => Recheck \in Waiting(timer, recheck) /\ cycle <= recheck
  BY <1>1 DEF Waiting, Sound
<1>6. event.time # Never => cycle <= event.time
  <2> SUFFICES ASSUME event.time # Never
               PROVE  cycle <= event.time
    OBVIOUS
  <2>1. event.source \in Source /\ event.time = TimeOf(event.source, timer, recheck)
    BY <1>3
  <2>2. CASE event.source = Recheck
    BY <1>1, <1>5, <2>1, <2>2
  <2>3. CASE event.source \in Timer
    BY <1>1, <1>4, <2>1, <2>3
  <2> QED  BY <2>1, <2>2, <2>3 DEF Source
<1>7. \A t \in Timer : event.source = t /\ event.time # Never
                         => Free(t) /\ event.time = timer[t].left
  BY <1>1, <1>3, <1>4
<1>8. event.source = Recheck => event.time = recheck
  BY <1>1, <1>2, <1>5 DEF IsNext, NoEvent
<1> QED  BY <1>1, <1>2, <1>3, <1>4, <1>5, <1>6, <1>7, <1>8

LEMMA IInvIsSound == IInv <=> Sound
<1>1. ASSUME timer \in [Timer -> Rec], attached \in [Cia -> BOOLEAN], cycle \in 0 .. Frame
      PROVE  /\ Running /\ (\A t \in Timer : Free(t) => timer[t].left - cycle \in 0 .. Wrap * Ratio - 1)
                  <=> \A t \in Timer : Good(timer[t], Free(t), cycle)
             /\ TimersKeepTime <=> \A t \in Timer : t \notin disturbed =>
                                     Exact(timer[t], Free(t), cycle, from[t], ran[t])
  <2>1. \A t \in Timer : Free(t) \in BOOLEAN /\ timer[t] \in Rec
    BY <1>1, FreeType
  <2>2. \A t \in Timer : Span(timer[t], Free(t), cycle) = Remaining(t)
    BY DEF Span, Remaining, Free
  <2>3. TimersKeepTime <=> \A t \in Timer : t \notin disturbed =>
                             Exact(timer[t], Free(t), cycle, from[t], ran[t])
    BY <2>2 DEF TimersKeepTime, Exact
  <2> QED  BY <2>1, <2>3 DEF Good, Running
<1>2. ASSUME IInv
      PROVE  Sound
  <2>1. /\ cycle \in 0 .. Frame /\ timer \in [Timer -> Rec] /\ attached \in [Cia -> BOOLEAN]
        /\ recheck \in Nat \union {Never} /\ from \in [Timer -> 0 .. Wrap]
        /\ ran \in [Timer -> Nat] /\ disturbed \subseteq Timer
    BY <1>2 DEF IInv, TypeOK, Rec
  <2>2. \A t \in Timer : TimerSound(t)
    BY <1>1, <1>2, <2>1 DEF IInv, Ahead, TimerSound
  <2> QED  BY <1>2, <2>1, <2>2 DEF Sound, IInv, Ahead, EventIsEarliest
<1>3. ASSUME Sound
      PROVE  IInv
  <2>1. /\ event \in [source : Source, time : Nat \union {Never}]
        /\ event.time # Never => cycle <= event.time
    BY <1>3, EventFacts
  <2>2. TypeOK
    BY <1>3, <2>1 DEF Sound, TypeOK, Rec
  <2>3. Running /\ Ahead /\ TimersKeepTime
    BY <1>1, <1>3 DEF Sound, TimerSound, Ahead
  <2>4. EventIsEarliest
    <3>1. cycle \in Nat /\ event.time \in Nat \union {Never}
      BY <1>3, <2>1 DEF Sound
    <3> QED  BY <1>3, <2>1, <3>1 DEF Sound, EventIsEarliest, Never
  <2> QED  BY <2>2, <2>3, <2>4 DEF IInv
<1> QED  BY <1>2, <1>3

LEMMA InitSound == Init => Sound
<1> SUFFICES ASSUME Init
             PROVE  Sound
  OBVIOUS
<1>1. /\ cycle = 0 /\ recheck = Never /\ event = NoEvent /\ disturbed = {}
      /\ timer = [t \in Timer |-> Cleared(0)] /\ attached = [i \in Cia |-> FALSE]
      /\ from = [t \in Timer |-> Wrap - 1] /\ ran = [t \in Timer |-> 0]
  BY DEF Init
<1>2. /\ Cleared(0) \in Rec /\ Cleared(0).count = Wrap - 1 /\ Cleared(0).rem = 0
      /\ Cleared(0).left = Never /\ Cleared(0).running = FALSE
  BY Sizes DEF Cleared, Rec
<1>3. /\ cycle \in 0 .. Frame /\ timer \in [Timer -> Rec] /\ attached \in [Cia -> BOOLEAN]
      /\ recheck \in Nat \union {Never} /\ from \in [Timer -> 0 .. Wrap]
      /\ ran \in [Timer -> Nat] /\ disturbed \subseteq Timer
  BY <1>1, <1>2, Sizes
<1>4. ASSUME NEW t \in Timer
      PROVE  TimerSound(t)
  <2>1. timer[t] = Cleared(0) /\ Free(t) = FALSE /\ from[t] = Wrap - 1 /\ ran[t] = 0
    BY <1>1, <1>2 DEF Free
  <2>2. Good(timer[t], Free(t), cycle)
    BY <1>2, <2>1 DEF Good
  <2>3. Exact(timer[t], Free(t), cycle, from[t], ran[t])
    <3>1. (Wrap - 1) * Ratio \in Nat
      BY Sizes
    <3>2. \A p \in Nat : 0 + (p + 0) - p \in 0 .. Ratio - 1
      BY Sizes
    <3> QED  BY <1>2, <2>1, <3>1, <3>2 DEF Exact, Span
  <2> QED  BY <2>2, <2>3 DEF TimerSound
<1>5. event = NextEvent(timer, recheck)
  <2>1. Timed(timer, recheck)
    BY <1>3, TimesAre
  <2>2. Waiting(timer, recheck) = {}
    <3>1. \A s \in Source : TimeOf(s, timer, recheck) = Never
      BY <1>1, <1>2 DEF TimeOf, Source
    <3> QED  BY <3>1 DEF Waiting
  <2> QED  BY <1>1, <2>1, <2>2, NextIs DEF IsNext
<1> QED  BY <1>1, <1>3, <1>4, <1>5 DEF Sound
-----------------------------------------------------------------------------
(* Time.                                                                   *)

LEMMA SameFree ==
  ASSUME NEW t \in Timer, timer'[t].running = timer[t].running, attached' = attached
  PROVE  Free(t)' = Free(t) /\ Cascaded(t)' = Cascaded(t)
BY DEF Free, Cascaded

LEMMA ClockStep == ASSUME Sound, Clock PROVE Sound'
<1>1. /\ cycle \in Nat /\ cycle < Frame /\ cycle' = cycle + 1
      /\ event.time = Never \/ event.time > cycle
      /\ UNCHANGED <<timer, attached, recheck, event, from, disturbed>>
  BY DEF Sound, Clock
<1>2. event.time \in Nat \union {Never}
  BY EventFacts
<1>3. cycle' \in 0 .. Frame
  BY <1>1, Sizes
<1>4. recheck' # Never => cycle' <= recheck'
  BY <1>1, <1>2, EventFacts DEF Sound, Never
<1>5. ASSUME NEW t \in Timer
      PROVE  TimerSound(t)' /\ ran'[t] \in Nat
  <2>1. Free(t)' = Free(t) /\ Free(t) \in BOOLEAN /\ timer'[t] = timer[t]
        /\ (Free(t) <=> timer[t].running /\ ~Cascaded(t))
    BY <1>1, SameFree, FreeType DEF Sound
  <2>2. Good(timer[t], Free(t), cycle) /\ ran[t] \in Nat
        /\ (t \notin disturbed => Exact(timer[t], Free(t), cycle, from[t], ran[t]))
    BY DEF Sound, TimerSound
  <2>3. ran'[t] = ran[t] + IF Free(t) /\ t \notin disturbed THEN 1 ELSE 0
    BY <2>1 DEF Clock
  <2>4. Free(t) => timer[t].left \in Nat /\ cycle' <= timer[t].left
    BY <1>1, <1>2, EventFacts DEF Never
  <2>5. Good(timer[t], Free(t), cycle')
    <3>1. ASSUME Free(t)
          PROVE  timer[t].left - cycle' \in 0 .. Wrap * Ratio - 1
      <4>1. timer[t].left - cycle \in 0 .. Wrap * Ratio - 1 /\ timer[t].left \in Nat
        BY <2>2, <2>4, <3>1 DEF Good
      <4>2. \A w, l \in Int : l - cycle \in 0 .. w /\ cycle' <= l => l - cycle' \in 0 .. w
        BY <1>1
      <4>3. Wrap * Ratio - 1 \in Int
        BY Sizes
      <4> QED  BY <2>4, <3>1, <4>1, <4>2, <4>3
    <3> QED  BY <2>2, <3>1 DEF Good
  <2>6. t \notin disturbed => Exact(timer[t], Free(t), cycle', from[t], ran'[t])
    <3>1. from[t] * Ratio \in Int
      BY Sizes DEF Sound
    <3>2. CASE Free(t)
      <4>1. Span(timer[t], Free(t), cycle') = Span(timer[t], Free(t), cycle) - 1
        BY <1>1, <2>4, <3>2 DEF Span
      <4>2. Span(timer[t], Free(t), cycle) \in Int
        BY <1>1, <2>2, SpanType
      <4>3. \A a, b, n \in Int : (a + 1) + (b - 1) - n = a + b - n
        OBVIOUS
      <4>4. ASSUME t \notin disturbed
            PROVE  Exact(timer[t], Free(t), cycle', from[t], ran'[t])
        <5> DEFINE b == Span(timer[t], Free(t), cycle)
                   n == from[t] * Ratio
        <5>0. b \in Int /\ n \in Int
          BY <3>1, <4>2
        <5>1. ran'[t] = ran[t] + 1 /\ ran[t] \in Int
          BY <2>2, <2>3, <3>2, <4>4
        <5>2. ran[t] + b - n \in 0 .. Ratio - 1
          BY <2>2, <4>4 DEF Exact
        <5> HIDE DEF b, n
        <5>3. ran'[t] + (b - 1) - n \in 0 .. Ratio - 1
          BY <4>3, <5>0, <5>1, <5>2
        <5> QED  BY <4>1, <5>3 DEF Exact, b, n
      <4> QED  BY <4>4
    <3>3. CASE ~Free(t)
      BY <2>2, <2>3, <3>3 DEF Exact, Span
    <3> QED  BY <3>2, <3>3
  <2> QED  BY <1>1, <2>1, <2>2, <2>3, <2>5, <2>6 DEF TimerSound
<1>6. ran' \in [Timer -> Nat]
  BY <1>5 DEF Clock
<1> QED  BY <1>1, <1>3, <1>4, <1>5, <1>6 DEF Sound

LEMMA EndOfFrameStep == ASSUME Sound, EndOfFrame PROVE Sound'
<1>1. /\ cycle = Frame /\ cycle' = 0 /\ Frame \in Nat /\ Frame # Never
      /\ UNCHANGED <<attached, from, ran, disturbed>>
  BY Sizes DEF EndOfFrame, history, Never
<1>2. ASSUME NEW t \in Timer
      PROVE  /\ TimerSound(t)' /\ timer'[t] \in Rec
             /\ timer[t].left = Never => timer'[t].left = Never
             /\ timer[t].left # Never => /\ Frame <= timer[t].left
                                         /\ timer'[t].left = timer[t].left - Frame
  <2> DEFINE l == Rebased(timer[t].left)
  <2>1. timer'[t] = [timer[t] EXCEPT !.left = l]
    BY DEF EndOfFrame, Sound
  <2>2. Good(timer[t], Free(t), cycle) /\ cycle \in Nat
        /\ (t \notin disturbed => Exact(timer[t], Free(t), cycle, from[t], ran[t]))
    BY DEF Sound, TimerSound
  <2>3. timer[t] \in Rec /\ (timer[t].left # Never <=> Free(t))
        /\ timer[t].left \in Nat \union {Never}
    BY <2>2 DEF Good, Rec
  <2>4. timer[t].left # Never => Frame <= timer[t].left /\ timer[t].left \in Nat
    BY <1>1, <2>3, EventFacts
  <2>5. /\ timer[t].left = Never => l = Never
        /\ timer[t].left # Never => l = timer[t].left - Frame /\ l \in Nat
    BY <1>1, <2>4 DEF Rebased
  <2>6. l \in Nat \union {Never} /\ (l # Never <=> timer[t].left # Never)
    BY <2>5 DEF Never
  <2> HIDE DEF l
  <2>7. /\ timer'[t] \in Rec /\ timer'[t].left = l /\ timer'[t].count = timer[t].count
        /\ timer'[t].rem = timer[t].rem /\ timer'[t].running = timer[t].running
    BY <2>1, <2>3, <2>6 DEF Rec
  <2>8. Free(t)' = Free(t) /\ Free(t) \in BOOLEAN
    BY <1>1, <2>7, SameFree, FreeType DEF Sound
  <2>9. Good(timer'[t], Free(t), 0)
    BY <1>1, <2>2, <2>3, <2>4, <2>5, <2>6, <2>7 DEF Good
  <2>10. Span(timer'[t], Free(t), 0) = Span(timer[t], Free(t), cycle)
    BY <1>1, <2>3, <2>4, <2>5, <2>7 DEF Span
  <2>11. TimerSound(t)'
    BY <1>1, <2>2, <2>8, <2>9, <2>10 DEF TimerSound, Exact
  <2> QED  BY <2>4, <2>5, <2>7, <2>11
<1>3. timer' \in [Timer -> Rec]
  BY <1>2 DEF EndOfFrame
<1>4. /\ recheck = Never => recheck' = Never
      /\ recheck # Never => Frame <= recheck /\ recheck' = recheck - Frame /\ recheck' \in Nat
  BY <1>1 DEF EndOfFrame, Sound
<1>5. recheck' \in Nat \union {Never} /\ (recheck' # Never => cycle' <= recheck')
  BY <1>1, <1>4
<1>6. event' = NextEvent(timer', recheck')
  <2>1. Timed(timer, recheck) /\ Timed(timer', recheck')
    BY <1>3, <1>5, TimesAre DEF Sound
  <2>2. \A s \in Source :
          IF TimeOf(s, timer, recheck) = Never
          THEN TimeOf(s, timer', recheck') = Never
          ELSE /\ Frame <= TimeOf(s, timer, recheck)
               /\ TimeOf(s, timer', recheck') = TimeOf(s, timer, recheck) - Frame
    BY <1>2, <1>4 DEF TimeOf, Source
  <2>3. IsNext([source |-> event.source, time |-> IF event.time = Never THEN Never
                                                  ELSE event.time - Frame], timer', recheck')
    BY <1>1, <2>1, <2>2, EventFacts, NextMoved
  <2>4. event' = [source |-> event.source, time |-> IF event.time = Never THEN Never
                                                    ELSE event.time - Frame]
    <3>1. event \in [source : Source, time : Nat \union {Never}]
          /\ (event.time # Never => event.time \in Nat /\ Frame <= event.time)
      BY <1>1, EventFacts
    <3>2. Rebased(event.time) = IF event.time = Never THEN Never ELSE event.time - Frame
      BY <1>1, <3>1 DEF Rebased
    <3>3. event' = [event EXCEPT !.time = Rebased(event.time)]
      BY DEF EndOfFrame
    <3> QED  BY <3>1, <3>2, <3>3
  <2>5. IsNext(event', timer', recheck')
    BY <2>3, <2>4
  <2> QED  BY <2>1, <2>5, NextIs
<1> QED  BY <1>1, <1>2, <1>3, <1>5, <1>6, Sizes DEF Sound

(* A step that leaves the timers alone.                                    *)
LEMMA SameTimers ==
  ASSUME Sound, UNCHANGED <<cycle, timer, attached, history>>,
         recheck' \in Nat \union {Never}, recheck' # Never => cycle <= recheck',
         event' = NextEvent(timer, recheck')
  PROVE  Sound'
<1>1. \A t \in Timer : TimerSound(t)'
  BY DEF Sound, TimerSound, Free, Cascaded, history
<1> QED  BY <1>1 DEF Sound, history

LEMMA RecheckEventStep == ASSUME Sound, RecheckEvent PROVE Sound'
BY SameTimers DEF RecheckEvent

LEMMA RecheckIRQStep == ASSUME Sound, RecheckIRQ PROVE Sound'
<1>1. cycle \in Nat /\ cycle + RecheckDelay \in Nat /\ cycle <= cycle + RecheckDelay
  BY Sizes DEF Sound
<1> QED  BY <1>1, SameTimers DEF RecheckIRQ
(* What the histories say of timers that are loaded, have counted, or are  *)
(* disturbed.                                                              *)
LEMMA Remembered ==
  ASSUME Sound, NEW loaded \in SUBSET Timer, NEW counted \in [Timer -> Nat],
         NEW upset \in SUBSET Timer, Remember(loaded, counted, upset),
         timer' \in [Timer -> Rec], attached' \in [Cia -> BOOLEAN],
         UNCHANGED <<cycle, recheck>>, event' = NextEvent(timer', recheck),
         \A t \in Timer : Good(timer'[t], Free(t)', cycle),
         \A t \in loaded \ upset : Exact(timer'[t], Free(t)', cycle, timer'[t].count, 0),
         \A t \in Timer \ (loaded \union upset \union disturbed) :
           Exact(timer'[t], Free(t)', cycle, from[t], counted[t])
  PROVE  Sound'
<1>1. /\ disturbed' = (disturbed \ loaded) \union upset
      /\ from' = [t \in Timer |-> IF t \in loaded \union upset THEN timer'[t].count ELSE from[t]]
      /\ ran' = [t \in Timer |-> IF t \in loaded \union disturbed' THEN 0 ELSE counted[t]]
  BY DEF Remember
<1>2. disturbed' \subseteq Timer
  BY <1>1 DEF Sound
<1>3. from' \in [Timer -> 0 .. Wrap]
  <2>1. \A t \in Timer : timer'[t].count \in 0 .. Wrap
    BY Sizes DEF Rec
  <2> QED  BY <1>1, <2>1 DEF Sound
<1>4. ran' \in [Timer -> Nat]
  BY <1>1
<1>5. ASSUME NEW t \in Timer
      PROVE  TimerSound(t)'
  <2>1. ASSUME t \notin disturbed'
        PROVE  Exact(timer'[t], Free(t)', cycle, from'[t], ran'[t])
    <3>1. CASE t \in loaded
      <4>1. t \notin upset /\ from'[t] = timer'[t].count /\ ran'[t] = 0
        BY <1>1, <2>1, <3>1
      <4> QED  BY <3>1, <4>1
    <3>2. CASE t \notin loaded
      <4>1. t \notin upset \union disturbed /\ from'[t] = from[t] /\ ran'[t] = counted[t]
        BY <1>1, <2>1, <3>2
      <4> QED  BY <3>2, <4>1
    <3> QED  BY <3>1, <3>2
  <2> QED  BY <2>1 DEF TimerSound
<1> QED  BY <1>2, <1>3, <1>4, <1>5 DEF Sound

LEMMA OtherIs ==
  ASSUME NEW t \in Timer
  PROVE  /\ Other(t) \in Timer /\ Other(t) # t /\ Other(t)[1] = t[1]
         /\ \A u \in Timer : u[1] = t[1] => u = t \/ u = Other(t)
<1>1. PICK i \in Cia, n \in {"A", "B"} : t = <<i, n>>
  BY DEF Timer
<1>2. Other(t) = <<i, IF n = "A" THEN "B" ELSE "A">>
  BY <1>1 DEF Other
<1>3. Other(t) \in Timer /\ Other(t) # t /\ Other(t)[1] = t[1]
  BY <1>1, <1>2 DEF Timer
<1>4. ASSUME NEW u \in Timer, u[1] = t[1]
      PROVE  u = t \/ u = Other(t)
  <2>1. PICK k \in Cia, o \in {"A", "B"} : u = <<k, o>>
    BY DEF Timer
  <2> QED  BY <1>1, <1>2, <1>4, <2>1
<1> QED  BY <1>3, <1>4

(* A timer that is counted down by the timeouts of another.                *)
LEMMA CountedDown ==
  ASSUME NEW x, cycle \in Nat, Good(x, FALSE, cycle), NEW n \in 0 .. Wrap, NEW k \in Nat
  PROVE  LET down == (x.count - 1) % Wrap
             y    == [x EXCEPT !.count = down]
         IN  /\ Good(y, FALSE, cycle) /\ y.running = x.running
             /\ x.count # 0 /\ Exact(x, FALSE, cycle, n, k)
                  => Exact(y, FALSE, cycle, n, k + Ratio)
<1> DEFINE down == (x.count - 1) % Wrap
           y    == [x EXCEPT !.count = down]
<1>1. x \in Rec /\ x.count \in 0 .. Wrap - 1 /\ x.rem \in 0 .. Ratio - 1
  BY DEF Good, Rec
<1>2. x.count - 1 \in Int /\ Wrap \in Nat /\ 1 <= Wrap
  BY <1>1, Sizes
<1>3. down \in 0 .. Wrap - 1
  BY <1>2
<1>4. ASSUME x.count # 0
      PROVE  down = x.count - 1
  <2>1. x.count - 1 \in 0 .. Wrap - 1
    BY <1>1, <1>2, <1>4
  <2>2. \A w \in Nat : \A c \in 0 .. w - 1 : c % w = c
    OBVIOUS
  <2> QED  BY <1>2, <2>1, <2>2
<1> HIDE DEF down
<1>5. /\ y \in Rec /\ y.count = down /\ y.rem = x.rem /\ y.left = x.left
      /\ y.running = x.running
  BY <1>1, <1>3 DEF Rec
<1> HIDE DEF y
<1>6. Good(y, FALSE, cycle)
  BY <1>5 DEF Good
<1>7. ASSUME x.count # 0, Exact(x, FALSE, cycle, n, k)
      PROVE  Exact(y, FALSE, cycle, n, k + Ratio)
  <2>1. y.count * Ratio = x.count * Ratio - Ratio
    <3>1. \A c, r \in Nat : (c - 1) * r = c * r - r
      OBVIOUS
    <3> QED  BY <1>1, <1>4, <1>5, <1>7, <3>1, Sizes
  <2>2. x.count * Ratio \in Nat /\ n * Ratio \in Nat /\ Ratio \in Nat
    BY <1>1, Sizes
  <2> DEFINE a == x.count * Ratio
             c == n * Ratio
  <2>3. k + (a + x.rem) - c \in 0 .. Ratio - 1
    BY <1>7 DEF Exact, Span
  <2>4. a \in Nat /\ c \in Nat
    BY <2>2
  <2> HIDE DEF a, c
  <2>5. (k + Ratio) + ((a - Ratio) + x.rem) - c \in 0 .. Ratio - 1
    BY <1>1, <2>2, <2>3, <2>4
  <2>6. y.count * Ratio = a - Ratio /\ n * Ratio = c
    BY <2>1 DEF a, c
  <2> QED  BY <1>5, <2>5, <2>6 DEF Exact, Span
<1> QED  BY <1>5, <1>6, <1>7 DEF y, down

LEMMA TimeoutStep == ASSUME Sound, NEW t \in Timer, Timeout(t) PROVE Sound'
<1> DEFINE b       == Other(t)
           counts  == t[2] = "A" /\ Cascaded(b) /\ timer[b].running
           down    == (timer[b].count - 1) % Wrap
           both    == counts /\ down = 0
           counted == IF counts THEN [ran EXCEPT ![b] = @ + Ratio] ELSE ran
           lowered == [timer[b] EXCEPT !.count = down]
           loaded  == {t} \union {u \in {b} : both}
           upset   == {u \in {b} : counts /\ timer[b].count = 0}
<1>1. /\ event.source = t /\ event.time = cycle
      /\ timer' = [timer EXCEPT ![t] = Expired(@, Cascaded(t)),
                                ![b] = IF both THEN Expired(@, TRUE)
                                       ELSE IF counts THEN [@ EXCEPT !.count = down] ELSE @]
      /\ event' = NextEvent(timer', recheck)
      /\ Remember(loaded, counted, upset)
      /\ UNCHANGED <<cycle, attached, recheck>>
  BY DEF Timeout
<1>2. /\ timer \in [Timer -> Rec] /\ attached \in [Cia -> BOOLEAN] /\ cycle \in Nat
      /\ from \in [Timer -> 0 .. Wrap] /\ ran \in [Timer -> Nat]
      /\ b \in Timer /\ b # t
      /\ \A u \in Timer : TimerSound(u)
  BY OtherIs DEF Sound
<1>3. Free(t) /\ timer[t].running /\ Cascaded(t) = FALSE
  <2>1. cycle # Never
    BY <1>2 DEF Never
  <2> QED  BY <1>1, <1>2, <2>1, EventFacts, FreeType
<1> DEFINE x == Expired(timer[t], FALSE)
           y == IF both THEN Expired(timer[b], TRUE) ELSE IF counts THEN lowered ELSE timer[b]
<1>4. /\ timer'[t] = x /\ timer'[b] = y
      /\ \A u \in Timer \ {t, b} : timer'[u] = timer[u]
      /\ DOMAIN timer' = Timer /\ timer' = [u \in Timer |-> timer'[u]]
  BY <1>1, <1>2, <1>3
<1>5. /\ Good(x, x.running, cycle) /\ x.running \in BOOLEAN
      /\ Exact(x, x.running, cycle, x.count, 0)
  <2>1. Good(timer[t], ~FALSE, cycle)
    <3>1. Good(timer[t], Free(t), cycle) /\ Free(t) = TRUE
      BY <1>2, <1>3, FreeType DEF TimerSound
    <3> QED  BY <3>1
  <2>2. /\ Good(x, x.running /\ ~FALSE, cycle)
        /\ Exact(x, x.running /\ ~FALSE, cycle, x.count, 0)
    <3> HIDE DEF b, counts, down, both, counted, lowered, loaded, upset, y
    <3> QED  BY <1>2, <1>3, <2>1, ExpiredDoes
  <2>3. x.running \in BOOLEAN
    BY <2>2 DEF Good, Rec
  <2>4. (x.running /\ ~FALSE) = x.running
    BY <2>3
  <2> QED  BY <2>2, <2>3, <2>4
<1>6. counts => Cascaded(b) = TRUE /\ timer[b].running = TRUE /\ Free(b) = FALSE
  BY <1>2, FreeType
<1>7. /\ Good(y, y.running /\ ~Cascaded(b), cycle)
      /\ both => Exact(y, y.running /\ ~Cascaded(b), cycle, y.count, 0)
      /\ b \notin loaded \union upset \union disturbed
           => Exact(y, y.running /\ ~Cascaded(b), cycle, from[b], counted[b])
  <2>1. CASE both
    <3>1. Good(timer[b], ~TRUE, cycle)
      <4>1. Good(timer[b], Free(b), cycle) /\ Free(b) = FALSE
        BY <1>2, <1>6, <2>1 DEF TimerSound
      <4> QED  BY <4>1
    <3>2. y = Expired(timer[b], TRUE) /\ timer[b].running /\ Cascaded(b) = TRUE
      BY <1>6, <2>1
    <3> HIDE DEF y
    <3>3. /\ Good(y, y.running /\ ~TRUE, cycle)
          /\ Exact(y, y.running /\ ~TRUE, cycle, y.count, 0)
      <4> HIDE DEF b, counts, down, both, counted, lowered, loaded, upset, x
      <4> QED  BY <1>2, <3>1, <3>2, ExpiredDoes
    <3>4. b \in loaded
      BY <2>1
    <3> QED  BY <3>2, <3>3, <3>4
  <2>2. CASE counts /\ ~both
    <3>1. Good(timer[b], FALSE, cycle) /\ Cascaded(b) = TRUE
          /\ (b \notin disturbed => Exact(timer[b], FALSE, cycle, from[b], ran[b]))
      BY <1>2, <1>6, <2>2 DEF TimerSound
    <3>2. y = lowered /\ counted[b] = ran[b] + Ratio
          /\ from[b] \in 0 .. Wrap /\ ran[b] \in Nat
      BY <1>2, <2>2
    <3>3. /\ Good(lowered, FALSE, cycle)
          /\ timer[b].count # 0 /\ Exact(timer[b], FALSE, cycle, from[b], ran[b])
               => Exact(lowered, FALSE, cycle, from[b], ran[b] + Ratio)
      <4> HIDE DEF b
      <4> QED  BY <1>2, <3>1, <3>2, CountedDown
    <3>4. b \notin upset => timer[b].count # 0
      BY <2>2
    <3>5. (y.running /\ ~Cascaded(b)) = FALSE
      BY <3>1
    <3> HIDE DEF y, lowered, upset, loaded, b, counted
    <3> QED  BY <2>2, <3>1, <3>2, <3>3, <3>4, <3>5
  <2>3. CASE ~counts
    <3>1. y = timer[b] /\ counted[b] = ran[b]
      BY <2>3
    <3>2. (y.running /\ ~Cascaded(b)) = Free(b) /\ TimerSound(b)
      BY <1>2, <3>1, FreeType
    <3> QED  BY <2>3, <3>1, <3>2 DEF TimerSound
  <2> QED  BY <2>1, <2>2, <2>3
<1>8. ASSUME NEW u \in Timer \ {t, b}
      PROVE  /\ Good(timer[u], timer[u].running /\ ~Cascaded(u), cycle)
             /\ u \notin disturbed
                  => Exact(timer[u], timer[u].running /\ ~Cascaded(u), cycle, from[u], counted[u])
  <2>1. (timer[u].running /\ ~Cascaded(u)) = Free(u) /\ TimerSound(u) /\ counted[u] = ran[u]
    BY <1>2, FreeType
  <2> QED  BY <2>1 DEF TimerSound
<1> HIDE DEF x, y
<1>9. timer' \in [Timer -> Rec]
  <2>1. \A u \in Timer : timer'[u] \in Rec
    BY <1>4, <1>5, <1>7, <1>8 DEF Good
  <2> QED  BY <1>4, <2>1
<1>10. \A u \in Timer : Free(u)' = (timer'[u].running /\ ~Cascaded(u))
  BY <1>1 DEF Free, Cascaded
<1>11. loaded \in SUBSET Timer /\ upset \in SUBSET Timer /\ counted \in [Timer -> Nat]
  BY <1>2, Sizes
<1>12. \A u \in Timer : Good(timer'[u], Free(u)', cycle)
  <2>1. (x.running /\ ~Cascaded(t)) = x.running
    BY <1>3, <1>5
  <2> QED  BY <1>4, <1>5, <1>7, <1>8, <1>10, <2>1
<1>13. \A u \in loaded \ upset : Exact(timer'[u], Free(u)', cycle, timer'[u].count, 0)
  <2>1. (x.running /\ ~Cascaded(t)) = x.running
    BY <1>3, <1>5
  <2>2. \A u \in loaded : u = t \/ (u = b /\ both)
    OBVIOUS
  <2> HIDE DEF loaded, b, both
  <2> QED  BY <1>2, <1>4, <1>5, <1>7, <1>10, <1>11, <2>1, <2>2
<1>14. \A u \in Timer \ (loaded \union upset \union disturbed) :
         Exact(timer'[u], Free(u)', cycle, from[u], counted[u])
  <2>1. \A u \in Timer \ (loaded \union upset \union disturbed) : u # t
    OBVIOUS
  <2> HIDE DEF loaded, upset, counted
  <2> QED  BY <1>4, <1>7, <1>8, <1>10, <2>1
<1> HIDE DEF loaded, upset, counted
<1> QED  BY <1>1, <1>2, <1>9, <1>11, <1>12, <1>13, <1>14, Remembered
-----------------------------------------------------------------------------
(* Register writes.                                                        *)

(* The times stay, so does the event.                                      *)
LEMMA SameTimes ==
  ASSUME Sound, timer' \in [Timer -> Rec], UNCHANGED <<recheck, event>>,
         \A t \in Timer : timer'[t].left = timer[t].left
  PROVE  event' = NextEvent(timer', recheck)
<1>1. /\ Timed(timer, recheck) /\ Timed(timer', recheck)
      /\ \A s \in Source : TimeOf(s, timer', recheck) = TimeOf(s, timer, recheck)
  <2>1. /\ Timed(timer, recheck) /\ Timed(timer', recheck)
        /\ \A t \in Timer : TimeOf(t, timer', recheck) = TimeOf(t, timer, recheck)
        /\ TimeOf(Recheck, timer', recheck) = TimeOf(Recheck, timer, recheck)
    BY TimesAre DEF Sound
  <2> QED  BY <2>1 DEF Source
<1>2. Waiting(timer', recheck) = Waiting(timer, recheck)
  BY <1>1 DEF Waiting
<1>3. Waiting(timer, recheck) \subseteq Source
  BY DEF Waiting
<1>4. IsNext(event, timer, recheck)
  BY EventFacts
<1>5. IsNext(event, timer', recheck)
  BY <1>1, <1>2, <1>3, <1>4 DEF IsNext, Before
<1> QED  BY <1>1, <1>5, NextIs

LEMMA Latched == \A l \in 0 .. Wrap - 1, data \in 0 .. Byte - 1 :
  /\ (l \div Byte) * Byte + data \in 0 .. Wrap - 1
  /\ data * Byte + (l % Byte) \in 0 .. Wrap - 1
<1> SUFFICES ASSUME NEW l \in 0 .. Wrap - 1, NEW data \in 0 .. Byte - 1
             PROVE  /\ (l \div Byte) * Byte + data \in 0 .. Wrap - 1
                    /\ data * Byte + (l % Byte) \in 0 .. Wrap - 1
  OBVIOUS
<1>1. Byte \in Nat /\ 1 <= Byte /\ l \in 0 .. Byte * Byte - 1
  BY Sizes DEF Wrap
<1>2. l \div Byte \in 0 .. Byte - 1 /\ l % Byte \in 0 .. Byte - 1
  BY <1>1, Division
<1>3. (l \div Byte) * Byte + data \in 0 .. Byte * Byte - 1
  BY <1>1, <1>2, Product
<1>4. data * Byte + (l % Byte) \in 0 .. Byte * Byte - 1
  BY <1>1, <1>2, Product
<1> QED  BY <1>3, <1>4 DEF Wrap

LEMMA WriteLoStep ==
  ASSUME Sound, NEW t \in Timer, NEW data \in 0 .. Byte - 1, WriteLo(t, data)
  PROVE  Sound'
<1> DEFINE l == (timer[t].latch \div Byte) * Byte + data
           x == [timer[t] EXCEPT !.latch = l]
<1>1. /\ timer' = [timer EXCEPT ![t] = x]
      /\ UNCHANGED <<cycle, attached, recheck, event, from, ran, disturbed>>
  BY DEF WriteLo, history
<1>2. timer \in [Timer -> Rec] /\ timer[t] \in Rec /\ timer[t].latch \in 0 .. Wrap - 1
  BY DEF Sound, Rec
<1>3. l \in 0 .. Wrap - 1
  BY <1>2, Latched
<1> HIDE DEF l
<1>4. /\ x \in Rec /\ x.left = timer[t].left /\ x.count = timer[t].count
      /\ x.rem = timer[t].rem /\ x.running = timer[t].running
  BY <1>2, <1>3 DEF Rec
<1> HIDE DEF x
<1>5. /\ timer' \in [Timer -> Rec]
      /\ \A u \in Timer : /\ timer'[u].left = timer[u].left /\ timer'[u].count = timer[u].count
                          /\ timer'[u].rem = timer[u].rem /\ timer'[u].running = timer[u].running
  BY <1>1, <1>2, <1>4
<1>6. ASSUME NEW u \in Timer
      PROVE  TimerSound(u)'
  <2>1. Free(u)' = Free(u) /\ TimerSound(u) /\ timer'[u] \in Rec
    BY <1>1, <1>5, SameFree DEF Sound
  <2> QED  BY <1>1, <1>5, <2>1 DEF TimerSound, Good, Exact, Span
<1>7. event' = NextEvent(timer', recheck)
  BY <1>1, <1>5, SameTimes
<1> QED  BY <1>1, <1>5, <1>6, <1>7 DEF Sound

LEMMA WriteHiStep ==
  ASSUME Sound, NEW t \in Timer, NEW data \in 0 .. Byte - 1, WriteHi(t, data)
  PROVE  Sound'
<1> DEFINE b       == Other(t)
           latched == [timer[t] EXCEPT !.latch = data * Byte + (@ % Byte)]
           reload  == ~latched.running \/ latched.oneShot
           set     == IF reload THEN [Loaded(latched) EXCEPT !.left = Never] ELSE latched
           started == [set EXCEPT !.running = TRUE]
           other   == timer[b].running /\ ~Cascaded(b)
           loaded  == {u \in {t} : reload}
           upset   == {u \in {b} : latched.oneShot /\ other}
<1>1. /\ timer' = IF latched.oneShot
                  THEN [timer EXCEPT ![t] = Thawed(started, ~Cascaded(t)), ![b] = Thawed(@, other)]
                  ELSE [timer EXCEPT ![t] = set]
      /\ event' = IF latched.oneShot THEN NextEvent(timer', recheck) ELSE event
      /\ Remember(loaded, ran, upset)
      /\ UNCHANGED <<cycle, attached, recheck>>
  BY DEF WriteHi
<1>2. /\ timer \in [Timer -> Rec] /\ attached \in [Cia -> BOOLEAN] /\ cycle \in Nat
      /\ ran \in [Timer -> Nat] /\ b \in Timer /\ b # t
      /\ \A u \in Timer : TimerSound(u)
  BY OtherIs DEF Sound
<1>3. /\ timer[t] \in Rec /\ timer[b] \in Rec /\ timer[t].latch \in 0 .. Wrap - 1
      /\ timer[t].running \in BOOLEAN /\ timer[t].oneShot \in BOOLEAN
  BY <1>2 DEF Rec
<1>4. /\ latched \in Rec /\ latched.left = timer[t].left /\ latched.count = timer[t].count
      /\ latched.rem = timer[t].rem /\ latched.running = timer[t].running
      /\ latched.oneShot = timer[t].oneShot
  <2> DEFINE l == data * Byte + (timer[t].latch % Byte)
  <2>1. l \in 0 .. Wrap - 1
    BY <1>3, Latched
  <2>2. latched = [timer[t] EXCEPT !.latch = l]
    OBVIOUS
  <2> HIDE DEF l, latched
  <2> QED  BY <1>3, <2>1, <2>2 DEF Rec
<1> HIDE DEF latched
<1>5. /\ set \in Rec
      /\ set.running = timer[t].running /\ set.oneShot = timer[t].oneShot
      /\ reload => set.count \in 1 .. Wrap - 1 /\ set.rem = 0 /\ set.left = Never
      /\ ~reload => set = latched
  <2>1. CASE reload
    <3> DEFINE y == Loaded(latched)
    <3>1. /\ y \in Rec /\ y.count \in 1 .. Wrap - 1 /\ y.rem = 0
          /\ y.running = timer[t].running /\ y.oneShot = timer[t].oneShot
      BY <1>4, LoadedDoes
    <3>2. set = [y EXCEPT !.left = Never]
      BY <2>1
    <3> HIDE DEF y, set
    <3> QED  BY <2>1, <3>1, <3>2 DEF Rec
  <2>2. CASE ~reload
    BY <1>4, <2>2
  <2> QED  BY <2>1, <2>2
<1> HIDE DEF set
<1>6. CASE latched.oneShot
  <2> DEFINE f == ~Cascaded(t)
             x == Thawed(started, f)
             y == Thawed(timer[b], other)
  <2>1. /\ started \in Rec /\ started.count = set.count /\ started.rem = 0
        /\ started.left = Never /\ started.running = TRUE
    BY <1>5, <1>6 DEF Rec
  <2>2. f \in BOOLEAN /\ other \in BOOLEAN /\ other = Free(b)
    BY <1>2, FreeType
  <2>3. /\ Good(x, f, cycle) /\ Span(x, f, cycle) = x.count * Ratio + 0
        /\ x.running = TRUE /\ x.count = set.count
    <3> HIDE DEF started, f
    <3> QED  BY <1>2, <2>1, <2>2, ThawedDoes
  <2>4. ~other => timer[b].left = Never
    BY <1>2, <2>2 DEF TimerSound, Good
  <2>5. /\ Good(y, other, cycle)
        /\ y.running = timer[b].running
    <3> HIDE DEF b, other
    <3> QED  BY <1>2, <1>3, <2>2, <2>4, ThawedDoes
  <2>6. ~other => y = timer[b]
    BY DEF Thawed
  <2> HIDE DEF x, y, b, other, started, f
  <2>7. /\ timer' = [timer EXCEPT ![t] = x, ![b] = y]
        /\ event' = NextEvent(timer', recheck)
    BY <1>1, <1>6 DEF x, y, f
  <2>8. /\ timer'[t] = x /\ timer'[b] = y /\ \A u \in Timer \ {t, b} : timer'[u] = timer[u]
        /\ timer' \in [Timer -> Rec]
    <3>1. x \in Rec /\ y \in Rec
      BY <2>3, <2>5 DEF Good
    <3> QED  BY <1>2, <2>7, <3>1
  <2>9. \A u \in Timer : Free(u)' = (timer'[u].running /\ ~Cascaded(u))
    BY <1>1 DEF Free, Cascaded
  <2>10. Free(t)' = f /\ Free(b)' = other /\ \A u \in Timer \ {t, b} : Free(u)' = Free(u)
    <3>1. Free(t)' = f
      BY <2>2, <2>3, <2>8, <2>9 DEF f
    <3>2. Free(b)' = other
      BY <1>2, <2>2, <2>5, <2>8, <2>9, FreeType
    <3>3. \A u \in Timer \ {t, b} : Free(u)' = Free(u)
      BY <1>2, <2>8, <2>9, FreeType
    <3> QED  BY <3>1, <3>2, <3>3
  <2>11. \A u \in Timer : Good(timer'[u], Free(u)', cycle)
    BY <1>2, <2>3, <2>5, <2>8, <2>10 DEF TimerSound
  <2>12. \A u \in loaded \ upset : Exact(timer'[u], Free(u)', cycle, timer'[u].count, 0)
    <3>1. \A u \in loaded : u = t
      OBVIOUS
    <3>2. x.count * Ratio \in Nat
      BY <1>2, <2>3, SpanType
    <3>3. \A p \in Nat : 0 + (p + 0) - p \in 0 .. Ratio - 1
      BY Sizes
    <3>4. Exact(x, f, cycle, x.count, 0)
      BY <2>3, <3>2, <3>3 DEF Exact
    <3> QED  BY <2>8, <2>10, <3>1, <3>4
  <2>13. \A u \in Timer \ (loaded \union upset \union disturbed) :
           Exact(timer'[u], Free(u)', cycle, from[u], ran[u])
    <3> SUFFICES ASSUME NEW u \in Timer \ (loaded \union upset \union disturbed)
                 PROVE  Exact(timer'[u], Free(u)', cycle, from[u], ran[u])
      OBVIOUS
    <3>1. u # t
      BY <1>4, <1>6
    <3>2. timer'[u] = timer[u] /\ Free(u)' = Free(u)
      <4>1. CASE u = b
        <5>1. ~other
          BY <1>6, <4>1
        <5> QED  BY <2>2, <2>6, <2>8, <2>10, <4>1, <5>1
      <4> QED  BY <2>8, <2>10, <3>1, <4>1
    <3> QED  BY <1>2, <3>2 DEF TimerSound
  <2>14. loaded \in SUBSET Timer /\ upset \in SUBSET Timer
    BY <1>2
  <2> HIDE DEF loaded, upset
  <2> QED  BY <1>1, <1>2, <2>7, <2>8, <2>11, <2>12, <2>13, <2>14, Remembered
<1>7. CASE ~latched.oneShot
  <2>1. timer' = [timer EXCEPT ![t] = set] /\ event' = event
    BY <1>1, <1>7
  <2>2. /\ timer'[t] = set /\ \A u \in Timer \ {t} : timer'[u] = timer[u]
        /\ timer' \in [Timer -> Rec]
    BY <1>2, <1>5, <2>1
  <2>3. set.left = timer[t].left /\ (reload => Free(t) = FALSE)
    <3>1. CASE reload
      <4>1. timer[t].running = FALSE
        BY <1>3, <1>4, <1>7, <3>1
      <4>2. Free(t) = FALSE
        BY <1>2, <4>1, FreeType
      <4>3. timer[t].left = Never
        BY <1>2, <4>2 DEF TimerSound, Good
      <4> QED  BY <1>5, <3>1, <4>2, <4>3
    <3> QED  BY <1>4, <1>5, <3>1
  <2>4. event' = NextEvent(timer', recheck)
    <3>1. \A u \in Timer : timer'[u].left = timer[u].left
      BY <2>2, <2>3
    <3> QED  BY <1>1, <2>1, <2>2, <3>1, SameTimes
  <2>5. \A u \in Timer : Free(u)' = Free(u)
    <3>1. \A u \in Timer : timer'[u].running = timer[u].running
      BY <1>5, <2>2
    <3> QED  BY <1>1, <3>1, SameFree
  <2>6. \A u \in Timer : Good(timer'[u], Free(u)', cycle)
    <3>1. Good(set, Free(t), cycle)
      BY <1>2, <1>5, <2>3 DEF TimerSound, Good
    <3> QED  BY <1>2, <2>2, <2>5, <3>1 DEF TimerSound
  <2>7. \A u \in loaded \ upset : Exact(timer'[u], Free(u)', cycle, timer'[u].count, 0)
    <3> SUFFICES ASSUME reload
                 PROVE  Exact(set, FALSE, cycle, set.count, 0)
      BY <2>2, <2>3, <2>5
    <3>1. set.count * Ratio \in Nat
      BY <1>5, Sizes
    <3>2. \A p \in Nat : 0 + (p + 0) - p \in 0 .. Ratio - 1
      BY Sizes
    <3> QED  BY <1>5, <3>1, <3>2 DEF Exact, Span
  <2>8. \A u \in Timer \ (loaded \union upset \union disturbed) :
          Exact(timer'[u], Free(u)', cycle, from[u], ran[u])
    <3> SUFFICES ASSUME NEW u \in Timer \ (loaded \union upset \union disturbed)
                 PROVE  Exact(timer'[u], Free(u), cycle, from[u], ran[u])
      BY <2>5
    <3>1. TimerSound(u) /\ u \notin disturbed
      BY <1>2
    <3>2. CASE u # t
      BY <2>2, <3>1, <3>2 DEF TimerSound
    <3>3. CASE u = t
      <4>1. ~reload
        BY <3>3
      <4>2. /\ timer'[t].left = timer[t].left /\ timer'[t].count = timer[t].count
            /\ timer'[t].rem = timer[t].rem
        BY <1>4, <1>5, <2>2, <4>1
      <4> QED  BY <3>1, <3>3, <4>2 DEF TimerSound, Exact, Span
    <3> QED  BY <3>2, <3>3
  <2>9. loaded \in SUBSET Timer /\ upset \in SUBSET Timer
    BY <1>2
  <2> HIDE DEF loaded, upset
  <2> QED  BY <1>1, <1>2, <2>2, <2>4, <2>6, <2>7, <2>8, <2>9, Remembered
<1> QED  BY <1>6, <1>7
LEMMA WriteControlStep ==
  ASSUME Sound, NEW t \in Timer, NEW start \in BOOLEAN, NEW oneShot \in BOOLEAN,
         NEW load \in BOOLEAN, NEW attach \in BOOLEAN,
         WriteControl(t, start, oneShot, load, attach)
  PROVE  Sound'
<1> DEFINE i       == t[1]
           free(u) == timer[u].running /\ ~Cascaded(u)
           frozen  == [u \in Timer |-> IF u[1] = i THEN Frozen(timer[u], free(u)) ELSE timer[u]]
           written == [frozen EXCEPT ![t] = [(IF load THEN Loaded(@) ELSE @)
                                               EXCEPT !.running = start, !.oneShot = oneShot]]
           goes(u) == written[u].running /\ ~(u[2] = "B" /\ attached'[i])
           loaded  == {u \in {t} : load}
<1>1. /\ attached' = IF t[2] = "B" THEN [attached EXCEPT ![i] = attach] ELSE attached
      /\ timer' = [u \in Timer |-> IF u[1] = i THEN Thawed(written[u], goes(u))
                                               ELSE written[u]]
      /\ event' = NextEvent(timer', recheck)
      /\ Remember(loaded, ran, {})
      /\ UNCHANGED <<cycle, recheck>>
  BY DEF WriteControl
<1>2. /\ timer \in [Timer -> Rec] /\ attached \in [Cia -> BOOLEAN] /\ cycle \in Nat
      /\ ran \in [Timer -> Nat]
      /\ \A u \in Timer : TimerSound(u) /\ u[1] \in Cia
  BY DEF Sound, Timer
<1>3. /\ attached' \in [Cia -> BOOLEAN]
      /\ \A k \in Cia : k # i => attached'[k] = attached[k]
  BY <1>1, <1>2
<1>4. ASSUME NEW u \in Timer, u[1] = i
      PROVE  LET x == Frozen(timer[u], free(u))
             IN  /\ x \in Rec /\ x.left = Never
                 /\ x.count * Ratio + x.rem = Span(timer[u], Free(u), cycle)
                 /\ x.running = timer[u].running
  <2>1. Good(timer[u], Free(u), cycle) /\ free(u) = Free(u)
    BY <1>2, FreeType DEF TimerSound
  <2> HIDE DEF free
  <2> QED  BY <1>2, <2>1, FrozenDoes
<1>5. ASSUME NEW u \in Timer, u[1] = i
      PROVE  /\ written[u] \in Rec /\ written[u].left = Never
             /\ u \notin loaded => written[u].count * Ratio + written[u].rem
                                     = Span(timer[u], Free(u), cycle)
             /\ u \in loaded => written[u].rem = 0
  <2> DEFINE x == Frozen(timer[u], free(u))
             y == IF load THEN Loaded(x) ELSE x
             z == [y EXCEPT !.running = start, !.oneShot = oneShot]
  <2>1. /\ x \in Rec /\ x.left = Never
        /\ x.count * Ratio + x.rem = Span(timer[u], Free(u), cycle)
    BY <1>4, <1>5
  <2>2. CASE u # t
    <3>1. written[u] = x /\ u \notin loaded
      BY <1>5, <2>2
    <3> QED  BY <2>1, <3>1
  <2>3. CASE u = t
    <3>1. written[u] = z /\ (u \in loaded <=> load)
      BY <1>5, <2>3
    <3> HIDE DEF x, written
    <3>2. y \in Rec /\ y.left = Never /\ (load => y.rem = 0) /\ (~load => y = x)
      BY <2>1, LoadedDoes
    <3> HIDE DEF y
    <3>3. z \in Rec /\ z.left = Never /\ z.count = y.count /\ z.rem = y.rem
      BY <3>2 DEF Rec
    <3> QED  BY <2>1, <3>1, <3>2, <3>3
  <2> QED  BY <2>2, <2>3
<1>6. \A u \in Timer : u[1] # i => written[u] = timer[u] /\ u \notin loaded
  OBVIOUS
<1> HIDE DEF written, frozen, free
<1>7. ASSUME NEW u \in Timer, u[1] = i
      PROVE  /\ timer'[u] \in Rec /\ Good(timer'[u], Free(u)', cycle)
             /\ Span(timer'[u], Free(u)', cycle) = written[u].count * Ratio + written[u].rem
             /\ timer'[u].count = written[u].count
  <2>1. timer'[u] = Thawed(written[u], goes(u))
    BY <1>1, <1>7
  <2>2. goes(u) \in BOOLEAN
    <3>1. written[u].running \in BOOLEAN /\ attached'[i] \in BOOLEAN
      BY <1>2, <1>3, <1>5, <1>7 DEF Rec
    <3> QED  BY <3>1
  <2>3. /\ Good(timer'[u], goes(u), cycle)
        /\ Span(timer'[u], goes(u), cycle) = written[u].count * Ratio + written[u].rem
        /\ timer'[u].count = written[u].count /\ timer'[u].running = written[u].running
    <3>1. written[u] \in Rec /\ written[u].left = Never
      BY <1>5, <1>7
    <3> HIDE DEF goes
    <3> QED  BY <1>2, <2>1, <2>2, <3>1, ThawedDoes
  <2>4. Free(u)' = goes(u)
    BY <1>7, <2>3 DEF Free, Cascaded
  <2> HIDE DEF goes
  <2> QED  BY <2>3, <2>4 DEF Good
<1>8. ASSUME NEW u \in Timer, u[1] # i
      PROVE  timer'[u] = timer[u] /\ Free(u)' = Free(u) /\ TimerSound(u)
  <2>1. timer'[u] = timer[u]
    BY <1>1, <1>6, <1>8
  <2>2. attached'[u[1]] = attached[u[1]]
    BY <1>2, <1>3, <1>8
  <2> QED  BY <1>2, <2>1, <2>2 DEF Free, Cascaded
<1> HIDE DEF i, goes
<1>9. timer' \in [Timer -> Rec]
  <2>1. \A u \in Timer : timer'[u] \in Rec
    BY <1>2, <1>7, <1>8
  <2>2. timer' = [u \in Timer |-> timer'[u]]
    BY <1>1
  <2> QED  BY <2>1, <2>2
<1>10. \A u \in Timer : Good(timer'[u], Free(u)', cycle)
  BY <1>7, <1>8 DEF TimerSound
<1>11. \A u \in loaded \ {} : Exact(timer'[u], Free(u)', cycle, timer'[u].count, 0)
  <2>1. ASSUME NEW u \in loaded
        PROVE  Exact(timer'[u], Free(u)', cycle, timer'[u].count, 0)
    <3>1. u \in Timer /\ u[1] = i
      BY DEF i
    <3>2. written[u].rem = 0 /\ timer'[u].count = written[u].count
          /\ Span(timer'[u], Free(u)', cycle) = written[u].count * Ratio + 0
      BY <1>5, <1>7, <3>1
    <3>3. written[u].count * Ratio \in Nat
      BY <1>5, <3>1, Sizes DEF Rec
    <3>4. \A p \in Nat : 0 + (p + 0) - p \in 0 .. Ratio - 1
      BY Sizes
    <3>5. 0 + (written[u].count * Ratio + 0) - written[u].count * Ratio \in 0 .. Ratio - 1
      BY <3>3, <3>4
    <3> QED  BY <3>2, <3>5 DEF Exact
  <2> QED  BY <2>1
<1>12. \A u \in Timer \ (loaded \union {} \union disturbed) :
         Exact(timer'[u], Free(u)', cycle, from[u], ran[u])
  <2> SUFFICES ASSUME NEW u \in Timer, u \notin loaded, u \notin disturbed
               PROVE  Exact(timer'[u], Free(u)', cycle, from[u], ran[u])
    OBVIOUS
  <2>1. Exact(timer[u], Free(u), cycle, from[u], ran[u])
    BY <1>2 DEF TimerSound
  <2>2. CASE u[1] = i
    <3>1. Span(timer'[u], Free(u)', cycle) = Span(timer[u], Free(u), cycle)
      BY <1>5, <1>7, <2>2
    <3> QED  BY <2>1, <3>1 DEF Exact
  <2>3. CASE u[1] # i
    BY <1>8, <2>1, <2>3
  <2> QED  BY <2>2, <2>3
<1>13. loaded \in SUBSET Timer
  OBVIOUS
<1> HIDE DEF loaded
<1> QED  BY <1>1, <1>2, <1>3, <1>9, <1>10, <1>11, <1>12, <1>13, Remembered

LEMMA HardResetStep == ASSUME Sound, HardReset PROVE Sound'
<1>1. /\ cycle' = 0 /\ recheck' = Never /\ event' = NoEvent /\ disturbed' = {}
      /\ timer' = [t \in Timer |-> Cleared(timer[t].rem)]
      /\ attached' = [i \in Cia |-> FALSE]
      /\ from' = [t \in Timer |-> Wrap - 1] /\ ran' = [t \in Timer |-> 0]
  BY DEF HardReset
<1>2. ASSUME NEW t \in Timer
      PROVE  /\ timer'[t] \in Rec /\ timer'[t].count = Wrap - 1
             /\ timer'[t].left = Never /\ timer'[t].running = FALSE
             /\ timer'[t].rem \in 0 .. Ratio - 1
  <2>1. timer[t].rem \in 0 .. Ratio - 1 /\ timer'[t] = Cleared(timer[t].rem)
    BY <1>1 DEF Sound, Rec
  <2> QED  BY <2>1, Sizes DEF Cleared, Rec
<1>3. /\ cycle' \in 0 .. Frame /\ timer' \in [Timer -> Rec] /\ attached' \in [Cia -> BOOLEAN]
      /\ recheck' \in Nat \union {Never} /\ from' \in [Timer -> 0 .. Wrap]
      /\ ran' \in [Timer -> Nat] /\ disturbed' \subseteq Timer
  <2>1. timer' \in [Timer -> Rec]
    <3>1. \A t \in Timer : timer'[t] \in Rec
      BY <1>2
    <3>2. timer' = [t \in Timer |-> timer'[t]]
      BY <1>1
    <3> QED  BY <3>1, <3>2
  <2>2. Wrap - 1 \in 0 .. Wrap /\ 0 \in 0 .. Frame
    BY Sizes
  <2> QED  BY <1>1, <2>1, <2>2
<1>4. ASSUME NEW t \in Timer
      PROVE  TimerSound(t)'
  <2>1. Free(t)' = FALSE /\ from'[t] = Wrap - 1 /\ ran'[t] = 0
    BY <1>1, <1>2 DEF Free
  <2>2. Good(timer'[t], FALSE, cycle')
    BY <1>2 DEF Good
  <2>3. Exact(timer'[t], FALSE, cycle', from'[t], ran'[t])
    <3>1. (Wrap - 1) * Ratio \in Nat
      BY Sizes
    <3>2. \A p \in Nat, r \in 0 .. Ratio - 1 : 0 + (p + r) - p \in 0 .. Ratio - 1
      BY Sizes
    <3>3. 0 + ((Wrap - 1) * Ratio + timer'[t].rem) - (Wrap - 1) * Ratio \in 0 .. Ratio - 1
      BY <1>2, <3>1, <3>2
    <3> QED  BY <1>2, <2>1, <3>3 DEF Exact, Span
  <2> QED  BY <2>1, <2>2, <2>3 DEF TimerSound
<1>5. event' = NextEvent(timer', recheck')
  <2>1. Timed(timer', recheck')
    BY <1>3, TimesAre
  <2>2. Waiting(timer', recheck') = {}
    <3>1. \A s \in Source : TimeOf(s, timer', recheck') = Never
      BY <1>1, <1>2 DEF TimeOf, Source
    <3> QED  BY <3>1 DEF Waiting
  <2> QED  BY <1>1, <2>1, <2>2, NextIs DEF IsNext
<1> QED  BY <1>1, <1>3, <1>4, <1>5 DEF Sound
-----------------------------------------------------------------------------
LEMMA NextSound == Sound /\ [Next]_vars => Sound'
<1> SUFFICES ASSUME Sound, [Next]_vars
             PROVE  Sound'
  OBVIOUS
<1>1. CASE Time
  BY <1>1, ClockStep, EndOfFrameStep, TimeoutStep, RecheckEventStep DEF Time
<1>2. CASE RecheckIRQ
  BY <1>2, RecheckIRQStep
<1>3. CASE Write
  <2>1. PICK t \in Timer :
          \/ \E data \in 0 .. Byte - 1 : WriteLo(t, data) \/ WriteHi(t, data)
          \/ \E start, oneShot, load \in BOOLEAN, attach \in {FALSE, t[2] = "B"} :
               WriteControl(t, start, oneShot, load, attach)
    BY <1>3 DEF Write
  <2>2. {FALSE, t[2] = "B"} \subseteq BOOLEAN
    OBVIOUS
  <2> QED  BY <2>1, <2>2, WriteLoStep, WriteHiStep, WriteControlStep
<1>4. CASE HardReset
  BY <1>4, HardResetStep
<1>5. CASE UNCHANGED vars
  <2>1. UNCHANGED <<cycle, timer, attached, history>> /\ recheck' = recheck /\ event' = event
    BY <1>5 DEF vars
  <2> QED  BY <2>1, SameTimers DEF Sound
<1> QED  BY <1>1, <1>2, <1>3, <1>4, <1>5 DEF Next

LEMMA Invariance == Spec => []IInv
<1>1. Init => IInv
  BY InitSound, IInvIsSound
<1>2. IInv /\ [Next]_vars => IInv'
  BY NextSound, IInvIsSound, PTL
<1> QED  BY <1>1, <1>2, PTL DEF Spec

(* The counts, what is left over and the latches keep their ranges, for    *)
(* every ratio of the clocks and width of the registers.                   *)
THEOREM TypeCorrect == Spec => []TypeOK
<1>1. IInv => TypeOK
  BY DEF IInv
<1> QED  BY <1>1, Invariance, PTL

(* The one bus event always stands for the earliest of all that wait for   *)
(* it, through register writes, timeouts, rechecks, resets and the ends of *)
(* frames, and it is never in the past.                                    *)
THEOREM EventIsAlwaysEarliest == Spec => []EventIsEarliest
<1>1. IInv => EventIsEarliest
  BY DEF IInv
<1> QED  BY <1>1, Invariance, PTL

(* No cycle is lost or counted twice by a timer that is not disturbed,     *)
(* whatever is written to the registers.                                   *)
THEOREM TimersAlwaysKeepTime == Spec => []TimersKeepTime
<1>1. IInv => TimersKeepTime
  BY DEF IInv
<1> QED  BY <1>1, Invariance, PTL

(* A timer that is not disturbed times out when it has counted all the     *)
(* cycles of the count it was loaded with, and at most Ratio - 1 more.     *)
OnTime(t) == Timeout(t) /\ t \notin disturbed
               => ran[t] \in from[t] * Ratio .. from[t] * Ratio + Ratio - 1

THEOREM TimeoutsAreOnTime == Spec => [][\A t \in Timer : OnTime(t)]_vars
<1>1. ASSUME IInv, NEW t \in Timer, Timeout(t), t \notin disturbed
      PROVE  ran[t] \in from[t] * Ratio .. from[t] * Ratio + Ratio - 1
  <2>0. Sound
    BY <1>1, IInvIsSound
  <2>1. event.source = t /\ event.time = cycle /\ cycle \in Nat
    BY <1>1, <2>0 DEF Timeout, Sound
  <2>2. Free(t) /\ timer[t].left = cycle
    BY <2>0, <2>1, EventFacts DEF Never
  <2>3. Exact(timer[t], Free(t), cycle, from[t], ran[t])
    BY <1>1, <2>0 DEF Sound, TimerSound
  <2>4. ran[t] + (cycle - cycle) - from[t] * Ratio \in 0 .. Ratio - 1
    BY <2>2, <2>3 DEF Exact, Span
  <2>5. ran[t] \in Nat /\ from[t] * Ratio \in Nat /\ Ratio \in Nat
    BY <2>0, Sizes DEF Sound
  <2> DEFINE n == from[t] * Ratio
  <2> HIDE DEF n
  <2>6. ran[t] + (cycle - cycle) - n \in 0 .. Ratio - 1 /\ n \in Nat
    BY <2>4, <2>5 DEF n
  <2>7. ran[t] \in n .. n + Ratio - 1
    BY <2>1, <2>5, <2>6
  <2> QED  BY <2>7 DEF n
<1>2. IInv /\ [Next]_vars => [\A t \in Timer : OnTime(t)]_vars
  BY <1>1 DEF OnTime
<1> QED  BY <1>2, Invariance, PTL DEF Spec
=============================================================================
