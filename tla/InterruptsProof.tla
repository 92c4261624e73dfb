--------------------------- MODULE InterruptsProof ---------------------------
(***************************************************************************)
(* Proofs about Interrupts, for every set of INTREQ bits, status register  *)
(* levels and CIA flags.  The inductive invariant is the conjunction of    *)
(* what the runs check: type correctness, no forgotten interrupt of Paula  *)
(* or of a CIA, and no interrupt raised in STOP; the stop flag agreeing    *)
(* with the CPU event, unless the keyboard resets a CPU in STOP; and, when *)
(* no vector is odd, a raised interrupt being above the CPU's level.       *)
(***************************************************************************)
EXTENDS Interrupts, TLAPS

CpuSide == [level : 0..7, stop : BOOLEAN, raise : BOOLEAN, raise_level : 0..7,
            cpuEvent : BOOLEAN, interruptEvent : BOOLEAN]

(* The level table maps every INTREQ bit to a level of the 68000.          *)
LEMMA LevelType == \A n \in 0..13 : interrupt_cpu_level[n] \in 1..6
BY DEF interrupt_cpu_level

(* A higher bit number never has a lower level, which is why the search    *)
(* from bit 13 downwards may stop at the first pending bit.                *)
LEMMA LevelMonotone ==
  \A m, n \in 0..13 : m <= n => interrupt_cpu_level[m] <= interrupt_cpu_level[n]
BY DEF interrupt_cpu_level

LEMMA HighestIsMax ==
  ASSUME NEW P \in SUBSET (0..13), P # {}
  PROVE  /\ Highest(P) \in P
         /\ \A m \in P : m <= Highest(P)
<1>1. \E n \in P : \A m \in P : m <= n
  <2> DEFINE UpTo(k) == \A m \in P : m <= k
  <2>1. UpTo(13)
    OBVIOUS
  <2>2. \A k \in 1..13 : UpTo(k) /\ k \notin P => UpTo(k - 1)
    OBVIOUS
  <2>3. UpTo(0) => 0 \in P
    <3>1. PICK m \in P : TRUE
      OBVIOUS
    <3>2. UpTo(0) => m <= 0
      BY <3>1
    <3>3. m \in 0..13
      BY <3>1
    <3> QED  BY <3>1, <3>2, <3>3
  <2> QED  BY <2>1, <2>2, <2>3
<1> QED  BY <1>1 DEF Highest

-----------------------------------------------------------------------------
(* What a call of interruptRaisePending must leave behind, for the INTENA  *)
(* and INTREQ it was called with.                                          *)
NothingLost(q, ena, req) ==
  (\E n \in ChipIrq : /\ Master \in ena
                      /\ n \in ena \intersect req
                      /\ interrupt_cpu_level[n] > q.level)
    => q.raise \/ q.interruptEvent

Descheduled(q) == ResetWhileStopped \/ (q.stop <=> ~q.cpuEvent)

Unraised(q) == q.stop => ~q.raise

Above(q) == q.raise => q.raise_level > q.level

LEMMA SetIrqLevelCorrect ==
  ASSUME NEW q \in CpuSide, NEW level \in 1..6
  PROVE  LET r == SetIrqLevel(q, level)
         IN  /\ r \in CpuSide
             /\ r.level = q.level /\ r.raise /\ r.raise_level = level
             /\ ~r.stop /\ (r.cpuEvent <=> q.cpuEvent \/ q.stop)
<1> DEFINE r == SetIrqLevel(q, level)
<1>0. level \in 0..7
  OBVIOUS
<1>1. CASE q.stop
  <2>1. r = [q EXCEPT !.raise = TRUE, !.raise_level = level, !.stop = FALSE,
                      !.cpuEvent = TRUE]
    BY <1>1 DEF SetIrqLevel
  <2> QED  BY <1>0, <1>1, <2>1 DEF CpuSide
<1>2. CASE ~q.stop
  <2>1. r = [q EXCEPT !.raise = TRUE, !.raise_level = level, !.stop = FALSE,
                      !.cpuEvent = q.cpuEvent]
    BY <1>2 DEF SetIrqLevel
  <2>2. r = [q EXCEPT !.raise = TRUE, !.raise_level = level, !.stop = FALSE]
    BY <2>1 DEF CpuSide
  <2> QED  BY <1>0, <1>2, <2>2 DEF CpuSide
<1> QED  BY <1>1, <1>2

(* The search finds the highest pending bit; if that one is not above the  *)
(* CPU's level then no pending bit is.                                     *)
LEMMA RaiseHighestCorrect ==
  ASSUME NEW q \in CpuSide, NEW pending \in SUBSET (0..13), NEW delay \in BOOLEAN
  PROVE  LET r == RaiseHighest(q, pending, delay)
         IN  /\ r \in CpuSide
             /\ r.level = q.level
             /\ (\E n \in pending : interrupt_cpu_level[n] > q.level)
                   => r.raise \/ r.interruptEvent
             /\ Descheduled(q) => Descheduled(r)
             /\ Unraised(q) => Unraised(r)
             /\ Above(q) => Above(r)
<1> DEFINE level == interrupt_cpu_level[Highest(pending)]
           r == RaiseHighest(q, pending, delay)
<1>1. CASE pending = {} \/ level <= q.level
  <2>1. r = q
    BY <1>1 DEF RaiseHighest
  <2>2. \A n \in pending : interrupt_cpu_level[n] <= q.level
    <3> SUFFICES ASSUME NEW n \in pending
                 PROVE  interrupt_cpu_level[n] <= q.level
      OBVIOUS
    <3>1. Highest(pending) \in 0..13 /\ n \in 0..13 /\ n <= Highest(pending)
      BY HighestIsMax
    <3>2. interrupt_cpu_level[n] <= level
      BY <3>1, LevelMonotone
    <3> QED  BY <1>1, <3>1, <3>2, LevelType DEF CpuSide
  <2> QED  BY <2>1, <2>2, LevelType DEF CpuSide
<1>2. CASE ~(pending = {} \/ level <= q.level)
  <2>1. level \in 1..6 /\ level > q.level
    <3>1. Highest(pending) \in 0..13
      BY <1>2, HighestIsMax
    <3>2. level \in 1..6
      BY <3>1, LevelType
    <3> QED  BY <1>2, <3>2 DEF CpuSide
  <2>2. CASE delay /\ ~q.stop
    <3>1. r = [q EXCEPT !.interruptEvent = TRUE]
      BY <1>2, <2>2 DEF RaiseHighest
    <3> QED  BY <3>1 DEF CpuSide, Descheduled, Unraised, Above
  <2>3. CASE ~(delay /\ ~q.stop)
    <3>1. r = SetIrqLevel(q, level)
      BY <1>2, <2>3 DEF RaiseHighest
    <3>2. /\ r \in CpuSide
          /\ r.level = q.level /\ r.raise /\ r.raise_level = level
          /\ ~r.stop /\ (r.cpuEvent <=> q.cpuEvent \/ q.stop)
      BY <2>1, <3>1, SetIrqLevelCorrect
    <3> QED  BY <2>1, <3>2 DEF CpuSide, Descheduled, Unraised, Above
  <2> QED  BY <2>2, <2>3
<1> QED  BY <1>1, <1>2

(* Whatever the early return taken, no interrupt is lost.                  *)
LEMMA RaisePendingCorrect ==
  ASSUME NEW q \in CpuSide, NEW ena \in SUBSET Bits, NEW req \in SUBSET Bits,
         NEW delay \in BOOLEAN
  PROVE  LET r == RaisePendingInternal(q, ena, req, delay)
         IN  /\ r \in CpuSide
             /\ r.level = q.level
             /\ NothingLost(r, ena, req)
             /\ Descheduled(q) => Descheduled(r)
             /\ Unraised(q) => Unraised(r)
             /\ Above(q) => Above(r)
<1> DEFINE r == RaisePendingInternal(q, ena, req, delay)
           t == [q EXCEPT !.interruptEvent = FALSE]
           pending == (ena \intersect req) \ {Master}
           Early == \/ Master \notin ena
                    \/ ena \intersect req = {}
                    \/ q.raise
                    \/ q.interruptEvent /\ delay
<1>1. CASE Early
  <2>1. r = q
    BY <1>1 DEF RaisePendingInternal
  <2>2. NothingLost(q, ena, req)
    BY <1>1 DEF NothingLost
  <2> QED  BY <2>1, <2>2
<1>2. CASE ~Early
  <2>1. /\ t \in CpuSide /\ t.level = q.level
        /\ Descheduled(q) => Descheduled(t)
        /\ Unraised(q) => Unraised(t)
        /\ Above(q) => Above(t)
    BY DEF CpuSide, Descheduled, Unraised, Above
  <2>2. pending \in SUBSET (0..13)
    BY ChipIrqAssumption DEF Bits, Master
  <2>3. CASE t.level = 7
    <3>1. r = t
      BY <1>2, <2>3 DEF RaisePendingInternal
    <3>2. \A n \in ChipIrq : ~(interrupt_cpu_level[n] > t.level)
      BY <2>3, ChipIrqAssumption, LevelType
    <3> QED  BY <2>1, <3>1, <3>2 DEF NothingLost
  <2>4. CASE t.level # 7
    <3>1. r = RaiseHighest(t, pending, delay)
      BY <1>2, <2>4 DEF RaisePendingInternal
    <3> HIDE DEF r, t, pending
    <3>2. /\ r \in CpuSide /\ r.level = t.level
          /\ (\E n \in pending : interrupt_cpu_level[n] > t.level)
                => r.raise \/ r.interruptEvent
          /\ Descheduled(t) => Descheduled(r)
          /\ Unraised(t) => Unraised(r)
          /\ Above(t) => Above(r)
      BY <2>1, <2>2, <3>1, RaiseHighestCorrect
    <3>3. \A n \in ChipIrq : n \in ena \intersect req => n \in pending
      BY ChipIrqAssumption DEF Master, pending
    <3>4. NothingLost(r, ena, req)
      BY <3>2, <3>3 DEF NothingLost
    <3> QED  BY <2>1, <3>2, <3>4 DEF r, t
  <2> QED  BY <2>3, <2>4
<1> QED  BY <1>1, <1>2

(* The same for the check the CPU makes when its level has changed.        *)
LEMMA CheckPendingCorrect ==
  ASSUME NEW q \in CpuSide, intena \in SUBSET Bits, intreq \in SUBSET Bits
  PROVE  LET r == CheckPendingInterrupts(q)
         IN  /\ r \in CpuSide
             /\ NothingLost(r, intena, intreq)
             /\ Descheduled(q) => Descheduled(r)
             /\ Unraised(q) => Unraised(r)
             /\ Above(q) => Above(r)
<1>1. CASE q.raise
  BY <1>1 DEF CheckPendingInterrupts, NothingLost
<1>2. CASE ~q.raise
  BY <1>2, RaisePendingCorrect DEF CheckPendingInterrupts
<1> QED  BY <1>1, <1>2

(* An instruction that sets the level, from a state that lost nothing and  *)
(* has nothing raised.  STOP comes here with the stop flag already up and  *)
(* the CPU event still scheduled, so nothing is assumed of these two.      *)
LEMMA UpdateSrCorrect ==
  ASSUME NEW q \in CpuSide, NEW level \in 0..7,
         intena \in SUBSET Bits, intreq \in SUBSET Bits,
         NothingLost(q, intena, intreq), ~q.raise
  PROVE  LET r == Reschedule(UpdateSr(q, level))
         IN  /\ r \in CpuSide
             /\ NothingLost(r, intena, intreq)
             /\ Descheduled(r) /\ Unraised(r) /\ Above(r)
<1> DEFINE p == [q EXCEPT !.level = level]
           u == UpdateSr(q, level)
           r == Reschedule(u)
<1>1. /\ p \in CpuSide /\ ~p.raise
      /\ Unraised(p) /\ Above(p) /\ Unraised(q) /\ Above(q)
  BY DEF CpuSide, Unraised, Above
<1>2. /\ u \in CpuSide
      /\ NothingLost(u, intena, intreq)
      /\ Unraised(u) /\ Above(u)
  <2>1. CASE level # q.level
    <3>1. u = CheckPendingInterrupts(p)
      BY <2>1 DEF UpdateSr
    <3> HIDE DEF p, u
    <3> QED  BY <1>1, <3>1, CheckPendingCorrect
  <2>2. CASE level = q.level
    <3>1. u = p /\ p = q
      BY <2>2 DEF UpdateSr, CpuSide
    <3> QED  BY <1>1, <3>1
  <2> QED  BY <2>1, <2>2
<1>3. r = [u EXCEPT !.cpuEvent = ~u.stop]
  BY DEF Reschedule
<1>4. /\ r \in CpuSide
      /\ NothingLost(r, intena, intreq)
      /\ Descheduled(r) /\ Unraised(r) /\ Above(r)
  <2> HIDE DEF u, r
  <2>1. /\ r \in CpuSide /\ r.level = u.level /\ r.raise = u.raise /\ r.stop = u.stop
        /\ r.raise_level = u.raise_level /\ r.interruptEvent = u.interruptEvent
        /\ (r.cpuEvent <=> ~u.stop)
    BY <1>2, <1>3 DEF CpuSide
  <2>2. NothingLost(r, intena, intreq)
    BY <1>2, <2>1 DEF NothingLost
  <2> QED  BY <1>2, <2>1, <2>2 DEF Descheduled, Unraised, Above
<1> QED  BY <1>4
-----------------------------------------------------------------------------
(* A pair of INTREQ and CPU side, as wintreq_direct passes it on.          *)
PairOK(p) ==
  /\ p.req \in SUBSET Bits
  /\ p.irq \in CpuSide
  /\ NothingLost(p.irq, intena, p.req)
  /\ Descheduled(p.irq) /\ Unraised(p.irq)

LEMMA UpdateIRQCorrect ==
  ASSUME NEW p, PairOK(p), NEW i \in Cia, NEW asserted \in BOOLEAN, intena \in SUBSET Bits
  PROVE  LET r == UpdateIRQ(p, i, asserted)
         IN  /\ PairOK(r)
             /\ p.req \subseteq r.req
             /\ asserted => CiaBit(i) \in r.req
             /\ Above(p.irq) => Above(r.irq)
<1> DEFINE r == UpdateIRQ(p, i, asserted)
           req == p.req \union {CiaBit(i)}
<1>1. CASE asserted /\ CiaBit(i) \notin p.req
  <2>1. r = [req |-> req, irq |-> RaisePendingInternal(p.irq, intena, req, TRUE)]
    BY <1>1 DEF UpdateIRQ, SetIntreq
  <2>2. req \in SUBSET Bits
    BY ChipIrqAssumption DEF Cia, CiaBit, Bits, PairOK
  <2> HIDE DEF r, req
  <2>3. LET q == RaisePendingInternal(p.irq, intena, req, TRUE)
        IN  /\ q \in CpuSide
            /\ NothingLost(q, intena, req)
            /\ Descheduled(q) /\ Unraised(q)
            /\ Above(p.irq) => Above(q)
    BY <2>2, RaisePendingCorrect DEF PairOK
  <2>4. PairOK(r) /\ (Above(p.irq) => Above(r.irq)) /\ r.req = req
    BY <2>1, <2>2, <2>3 DEF PairOK
  <2> QED  BY <2>4 DEF r, req
<1>2. CASE ~(asserted /\ CiaBit(i) \notin p.req)
  <2>1. r = p
    BY <1>2 DEF UpdateIRQ
  <2> QED  BY <1>2, <2>1
<1> QED  BY <1>1, <1>2
-----------------------------------------------------------------------------
IInv ==
  /\ TypeOK
  /\ NoLostInterrupt
  /\ NoLostCiaInterrupt
  /\ Descheduled(irq)
  /\ Unraised(irq)
  /\ OddVector = {} => RaiseAboveLevel

(* The invariant in the terms of the lemmas.                               *)
LEMMA CpuPart ==
  ASSUME TypeOK
  PROVE  /\ irq \in CpuSide
         /\ NoLostInterrupt <=> NothingLost(irq, intena, intreq)
         /\ RaiseAboveLevel <=> Above(irq)
BY DEF TypeOK, CpuSide, NoLostInterrupt, Serviceable, NothingLost, RaiseAboveLevel, Above

LEMMA CpuPartPrime ==
  ASSUME TypeOK'
  PROVE  /\ irq' \in CpuSide
         /\ NoLostInterrupt' <=> NothingLost(irq', intena', intreq')
         /\ RaiseAboveLevel' <=> Above(irq')
BY DEF TypeOK, CpuSide, NoLostInterrupt, Serviceable, NothingLost, RaiseAboveLevel, Above

LEMMA InitIInv == Init => IInv
<1> SUFFICES ASSUME Init PROVE IInv
  OBVIOUS
<1>1. TypeOK
  <2>1. irq \in CpuSide
    BY DEF Init, CpuSide
  <2>2. /\ icrreq \in [Cia -> SUBSET (CiaFlag \union {"IR"})]
        /\ icrmsk \in [Cia -> SUBSET CiaFlag]
    BY DEF Init
  <2>3. intena \subseteq Bits /\ intreq \subseteq Bits
        /\ cia_recheck_irq \in BOOLEAN /\ receiveBufferFull \in BOOLEAN
    BY DEF Init
  <2> QED  BY <2>1, <2>2, <2>3 DEF TypeOK, CpuSide
<1>2. NoLostInterrupt
  BY DEF Init, NoLostInterrupt, Serviceable
<1>3. NoLostCiaInterrupt
  BY DEF Init, NoLostCiaInterrupt, Asserted
<1>4. Descheduled(irq) /\ Unraised(irq)
  BY DEF Init, Descheduled, Unraised
<1>5. RaiseAboveLevel
  BY DEF Init, RaiseAboveLevel
<1> QED  BY <1>1, <1>2, <1>3, <1>4, <1>5 DEF IInv

(* What every step has to re-establish, in the terms of the lemmas.        *)
LEMMA IInvPrime ==
  ASSUME TypeOK', NothingLost(irq', intena', intreq'),
         Descheduled(irq'), Unraised(irq'),
         OddVector = {} => Above(irq'), NoLostCiaInterrupt'
  PROVE  IInv'
BY CpuPartPrime DEF IInv, Descheduled, Unraised

(* Writes to INTENA and INTREQ, and the interrupt event.                   *)
LEMMA PaulaStep ==
  ASSUME IInv,
         \/ \E S \in SUBSET Bits : \/ WriteIntreqSet(S) \/ WriteIntreqClear(S)
                                    \/ WriteIntenaSet(S) \/ WriteIntenaClear(S)
         \/ \E n \in ChipIrq \intersect DeviceIrq : ChipRequest(n)
         \/ InterruptEvent
  PROVE  IInv'
<1>0. /\ TypeOK /\ irq \in CpuSide
      /\ NothingLost(irq, intena, intreq)
      /\ Descheduled(irq) /\ Unraised(irq)
      /\ OddVector = {} => Above(irq)
      /\ NoLostCiaInterrupt
  BY CpuPart DEF IInv
<1>1. ASSUME NEW S \in SUBSET Bits, NEW delay \in BOOLEAN,
             intreq' = intreq \union S,
             irq' = RaisePendingInternal(irq, intena, intreq', delay),
             receiveBufferFull' = (11 \in intreq'),
             UNCHANGED <<intena, icrreq, icrmsk, cia_recheck_irq>>
      PROVE  IInv'
  <2>1. /\ irq' \in CpuSide
        /\ NothingLost(irq', intena', intreq')
        /\ Descheduled(irq') /\ Unraised(irq')
        /\ OddVector = {} => Above(irq')
    BY <1>0, <1>1, RaisePendingCorrect DEF TypeOK
  <2>2. TypeOK'
    BY <1>0, <1>1, <2>1 DEF TypeOK, CpuSide
  <2>3. NoLostCiaInterrupt'
    BY <1>0, <1>1 DEF NoLostCiaInterrupt, Asserted
  <2> QED  BY <2>1, <2>2, <2>3, IInvPrime
<1>2. ASSUME NEW S \in SUBSET Bits, WriteIntreqSet(S)
      PROVE  IInv'
  BY <1>1, <1>2 DEF WriteIntreqSet
<1>3. ASSUME NEW n \in ChipIrq, ChipRequest(n)
      PROVE  IInv'
  <2>1. {n} \in SUBSET Bits
    BY DEF Bits
  <2> QED  BY <1>1, <1>3, <2>1 DEF ChipRequest
<1>4. ASSUME NEW S \in SUBSET Bits, WriteIntreqClear(S)
      PROVE  IInv'
  <2>1. TypeOK'
    BY <1>0, <1>4 DEF WriteIntreqClear, TypeOK
  <2>2. NothingLost(irq', intena', intreq')
    BY <1>0, <1>4 DEF WriteIntreqClear, NothingLost
  <2>3. NoLostCiaInterrupt'
    BY <1>0, <1>4 DEF WriteIntreqClear, NoLostCiaInterrupt, Asserted, CiaBit
  <2> QED  BY <1>0, <1>4, <2>1, <2>2, <2>3, IInvPrime DEF WriteIntreqClear
<1>5. ASSUME NEW ena \in SUBSET Bits, WriteIntena(ena)
      PROVE  IInv'
  <2>1. /\ irq' \in CpuSide
        /\ NothingLost(irq', intena', intreq')
        /\ Descheduled(irq') /\ Unraised(irq')
        /\ OddVector = {} => Above(irq')
    BY <1>0, <1>5, RaisePendingCorrect DEF WriteIntena, TypeOK
  <2>2. TypeOK'
    BY <1>0, <1>5, <2>1 DEF WriteIntena, TypeOK, CpuSide
  <2>3. NoLostCiaInterrupt'
    BY <1>0, <1>5 DEF WriteIntena, NoLostCiaInterrupt, Asserted
  <2> QED  BY <2>1, <2>2, <2>3, IInvPrime
<1>6. ASSUME NEW S \in SUBSET Bits, WriteIntenaSet(S) \/ WriteIntenaClear(S)
      PROVE  IInv'
  <2>1. intena \union S \in SUBSET Bits /\ intena \ S \in SUBSET Bits
    BY <1>0 DEF TypeOK
  <2> QED  BY <1>5, <1>6, <2>1 DEF WriteIntenaSet, WriteIntenaClear
<1>7. ASSUME InterruptEvent
      PROVE  IInv'
  <2> DEFINE q == [irq EXCEPT !.interruptEvent = FALSE]
  <2>1. q \in CpuSide /\ Descheduled(q) /\ Unraised(q)
        /\ (OddVector = {} => Above(q))
    BY <1>0 DEF CpuSide, Descheduled, Unraised, Above
  <2>2. irq' = RaisePendingInternal(q, intena, intreq, FALSE)
    BY <1>7 DEF InterruptEvent
  <2> HIDE DEF q
  <2>3. /\ irq' \in CpuSide
        /\ NothingLost(irq', intena', intreq')
        /\ Descheduled(irq') /\ Unraised(irq')
        /\ OddVector = {} => Above(irq')
    <3>1. intena \in SUBSET Bits /\ intreq \in SUBSET Bits
      BY <1>0 DEF TypeOK
    <3>2. /\ irq' \in CpuSide
          /\ NothingLost(irq', intena, intreq)
          /\ Descheduled(q) => Descheduled(irq')
          /\ Unraised(q) => Unraised(irq')
          /\ Above(q) => Above(irq')
      BY <2>1, <2>2, <3>1, RaisePendingCorrect
    <3> QED  BY <1>7, <2>1, <3>2 DEF InterruptEvent
  <2>4. TypeOK'
    BY <1>0, <1>7, <2>3 DEF InterruptEvent, TypeOK, CpuSide
  <2>5. NoLostCiaInterrupt'
    BY <1>0, <1>7 DEF InterruptEvent, NoLostCiaInterrupt, Asserted
  <2> QED  BY <2>3, <2>4, <2>5, IInvPrime
<1> QED  BY <1>2, <1>3, <1>4, <1>6, <1>7

CiaRegister == [Cia -> SUBSET (CiaFlag \union {"IR"})]

(* Bit 7 of ICR is only told to the program: no mask bit goes with it.     *)
LEMMA WithIRCorrect ==
  ASSUME NEW req \in CiaRegister, NEW i \in Cia, icrmsk \in [Cia -> SUBSET CiaFlag]
  PROVE  /\ WithIR(req, i) \in CiaRegister
         /\ \A j \in Cia : Asserted(j, WithIR(req, i)) <=> Asserted(j, req)
<1>1. CASE Asserted(i, req)
  <2>1. WithIR(req, i) = [req EXCEPT ![i] = @ \union {"IR"}]
    BY <1>1 DEF WithIR
  <2> QED  BY <2>1, CiaFlagAssumption DEF Asserted, CiaRegister
<1>2. CASE ~Asserted(i, req)
  <2>1. WithIR(req, i) = req
    BY <1>2 DEF WithIR, CiaRegister
  <2> QED  BY <2>1
<1> QED  BY <1>1, <1>2

(* Steps of the CIAs: all but the read of ICR go through ciaUpdateIRQ.     *)
LEMMA CiaStep ==
  ASSUME IInv,
         \/ \E i \in Cia : \/ ReadIcr(i)
                           \/ \E f \in CiaFlag : CiaRaiseIRQ(i, f)
                           \/ \E S \in SUBSET CiaFlag : WriteIcrSet(i, S) \/ WriteIcrClear(i, S)
         \/ CiaRecheckEvent
  PROVE  IInv'
<1>0. /\ TypeOK /\ irq \in CpuSide
      /\ NothingLost(irq, intena, intreq)
      /\ Descheduled(irq) /\ Unraised(irq)
      /\ OddVector = {} => Above(irq)
      /\ NoLostCiaInterrupt
  BY CpuPart DEF IInv
<1>1. PairOK(Now) /\ intena \in SUBSET Bits
      /\ Now.req = intreq /\ (OddVector = {} => Above(Now.irq))
  BY <1>0 DEF PairOK, Now, TypeOK
(* A step that leaves a correct pair and the CIA registers in order.       *)
<1>2. ASSUME NEW p, PairOK(p), Assign(p),
             OddVector = {} => Above(p.irq),
             intena' = intena, icrreq' \in CiaRegister,
             icrmsk' \in [Cia -> SUBSET CiaFlag],
             cia_recheck_irq' \in BOOLEAN,
             \A j \in Cia : Asserted(j, icrreq)' => CiaBit(j) \in p.req \/ cia_recheck_irq'
      PROVE  IInv'
  <2>1. /\ irq' \in CpuSide /\ intreq' \in SUBSET Bits
        /\ NothingLost(irq', intena', intreq')
        /\ Descheduled(irq') /\ Unraised(irq')
        /\ OddVector = {} => Above(irq')
    BY <1>2 DEF Assign, PairOK
  <2>2. receiveBufferFull' \in BOOLEAN
    <3>1. CASE p.req # intreq
      <4>1. receiveBufferFull' = (11 \in p.req)
        BY <1>2, <3>1 DEF Assign
      <4> QED  BY <4>1
    <3>2. CASE p.req = intreq
      <4>1. receiveBufferFull' = receiveBufferFull
        BY <1>2, <3>2 DEF Assign
      <4> QED  BY <1>0, <4>1 DEF TypeOK
    <3> QED  BY <3>1, <3>2
  <2>3. TypeOK'
    BY <1>0, <1>2, <2>1, <2>2 DEF TypeOK, CpuSide, CiaRegister
  <2>4. NoLostCiaInterrupt'
    BY <1>2 DEF NoLostCiaInterrupt, Assign, CiaBit
  <2> QED  BY <2>1, <2>3, <2>4, IInvPrime
<1>3. \A req, i : Asserted(i, req) \in BOOLEAN
  BY DEF Asserted
<1>4. /\ icrreq \in CiaRegister /\ icrmsk \in [Cia -> SUBSET CiaFlag]
      /\ cia_recheck_irq \in BOOLEAN
      /\ \A j \in Cia : Asserted(j, icrreq) => CiaBit(j) \in intreq \/ cia_recheck_irq
  BY <1>0 DEF TypeOK, CiaRegister, NoLostCiaInterrupt
<1>5. ASSUME NEW i \in Cia, NEW f \in CiaFlag, CiaRaiseIRQ(i, f)
      PROVE  IInv'
  <2> DEFINE req == [icrreq EXCEPT ![i] = @ \union {f}]
             p == UpdateIRQ(Now, i, Asserted(i, req))
  <2>1. req \in CiaRegister
    BY <1>4 DEF CiaRegister
  <2>2. icrreq' = WithIR(req, i) /\ Assign(p)
        /\ UNCHANGED <<intena, icrmsk, cia_recheck_irq>>
    BY <1>5 DEF CiaRaiseIRQ
  <2>3. /\ PairOK(p) /\ intreq \subseteq p.req
        /\ Asserted(i, req) => CiaBit(i) \in p.req
        /\ OddVector = {} => Above(p.irq)
    BY <1>1, <1>3, UpdateIRQCorrect
  <2>4. \A j \in Cia : j # i => (Asserted(j, req) <=> Asserted(j, icrreq))
    BY <1>4 DEF Asserted, CiaRegister
  <2> HIDE DEF p, req
  <2>5. /\ icrreq' \in CiaRegister
        /\ \A j \in Cia : Asserted(j, icrreq)' <=> Asserted(j, req)
    <3>1. /\ WithIR(req, i) \in CiaRegister
          /\ \A j \in Cia : Asserted(j, WithIR(req, i)) <=> Asserted(j, req)
      BY <1>4, <2>1, WithIRCorrect
    <3> QED  BY <2>2, <3>1 DEF Asserted
  <2>6. \A j \in Cia : Asserted(j, icrreq)' => CiaBit(j) \in p.req \/ cia_recheck_irq'
    BY <1>4, <2>2, <2>3, <2>4, <2>5
  <2> QED  BY <1>2, <1>4, <2>2, <2>3, <2>5, <2>6
<1>6. ASSUME CiaRecheckEvent
      PROVE  IInv'
  <2> DEFINE p == UpdateIRQ(Now, 0, Asserted(0, icrreq))
             r == UpdateIRQ(p, 1, Asserted(1, icrreq))
             req == WithIR(icrreq, 0)
  <2>1. 0 \in Cia /\ 1 \in Cia /\ \A j \in Cia : j = 0 \/ j = 1
    BY DEF Cia
  <2>2. icrreq' = WithIR(req, 1) /\ Assign(r)
        /\ UNCHANGED <<intena, icrmsk>> /\ cia_recheck_irq' = FALSE
    BY <1>6 DEF CiaRecheckEvent
  <2>3. /\ PairOK(p)
        /\ Asserted(0, icrreq) => CiaBit(0) \in p.req
        /\ OddVector = {} => Above(p.irq)
    BY <1>1, <1>3, <2>1, UpdateIRQCorrect
  <2>4. req \in CiaRegister /\ \A j \in Cia : Asserted(j, req) <=> Asserted(j, icrreq)
    BY <1>4, <2>1, WithIRCorrect
  <2> HIDE DEF p, req
  <2>5. /\ PairOK(r) /\ p.req \subseteq r.req
        /\ Asserted(1, icrreq) => CiaBit(1) \in r.req
        /\ OddVector = {} => Above(r.irq)
    BY <1>1, <1>3, <2>1, <2>3, UpdateIRQCorrect
  <2>6. /\ WithIR(req, 1) \in CiaRegister
        /\ \A j \in Cia : Asserted(j, WithIR(req, 1)) <=> Asserted(j, req)
    BY <1>4, <2>1, <2>4, WithIRCorrect
  <2> HIDE DEF r
  <2>7. /\ icrreq' \in CiaRegister
        /\ \A j \in Cia : Asserted(j, icrreq)' <=> Asserted(j, icrreq)
    <3>1. \A j \in Cia : Asserted(j, icrreq)' <=> Asserted(j, WithIR(req, 1))
      BY <2>2 DEF Asserted
    <3> QED  BY <2>2, <2>4, <2>6, <3>1
  <2>8. \A j \in Cia : Asserted(j, icrreq) => CiaBit(j) \in r.req
    BY <2>1, <2>3, <2>5
  <2> QED  BY <1>2, <1>4, <2>2, <2>5, <2>7, <2>8
<1>7. ASSUME NEW i \in Cia, ReadIcr(i)
      PROVE  IInv'
  <2>1. TypeOK'
    BY <1>0, <1>7 DEF ReadIcr, TypeOK
  <2>2. \A j \in Cia : Asserted(j, icrreq)' => Asserted(j, icrreq)
    BY <1>4, <1>7 DEF ReadIcr, Asserted, CiaRegister
  <2>3. NoLostCiaInterrupt'
    BY <1>4, <1>7, <2>2 DEF ReadIcr, NoLostCiaInterrupt, CiaBit
  <2> QED  BY <1>0, <1>7, <2>1, <2>3, IInvPrime DEF ReadIcr
<1>8. ASSUME NEW i \in Cia, NEW mask \in SUBSET CiaFlag, WriteIcr(i, mask)
      PROVE  IInv'
  <2> DEFINE asserted == icrreq[i] \intersect mask # {}
             p == UpdateIRQ(Now, i, asserted)
  <2>1. /\ icrmsk' = [icrmsk EXCEPT ![i] = mask]
        /\ icrreq' = [icrreq EXCEPT ![i] = IF asserted THEN @ \union {"IR"} ELSE @]
        /\ Assign(p)
        /\ UNCHANGED <<intena, cia_recheck_irq>>
    BY <1>8 DEF WriteIcr
  <2>2. /\ PairOK(p) /\ intreq \subseteq p.req
        /\ asserted => CiaBit(i) \in p.req
        /\ OddVector = {} => Above(p.irq)
    BY <1>1, UpdateIRQCorrect
  <2> HIDE DEF p
  <2>3. icrmsk' \in [Cia -> SUBSET CiaFlag] /\ icrreq' \in CiaRegister
    BY <1>4, <2>1 DEF CiaRegister
  <2>4. Asserted(i, icrreq)' => asserted
    BY <1>4, <2>1, CiaFlagAssumption DEF Asserted, CiaRegister
  <2>5. \A j \in Cia : j # i => (Asserted(j, icrreq)' <=> Asserted(j, icrreq))
    BY <1>4, <2>1 DEF Asserted, CiaRegister
  <2> HIDE DEF asserted
  <2>6. \A j \in Cia : Asserted(j, icrreq)' => CiaBit(j) \in p.req \/ cia_recheck_irq'
    BY <1>4, <2>1, <2>2, <2>4, <2>5
  <2> QED  BY <1>2, <1>4, <2>1, <2>2, <2>3, <2>6
<1>9. ASSUME NEW i \in Cia, NEW S \in SUBSET CiaFlag, WriteIcrSet(i, S) \/ WriteIcrClear(i, S)
      PROVE  IInv'
  <2>1. icrmsk[i] \union S \in SUBSET CiaFlag /\ icrmsk[i] \ S \in SUBSET CiaFlag
    BY <1>4
  <2> QED  BY <1>8, <1>9, <2>1 DEF WriteIcrSet, WriteIcrClear
<1> QED  BY <1>5, <1>6, <1>7, <1>9

(* Steps of the CPU, and the resets.                                       *)
LEMMA CpuStep ==
  ASSUME IInv, Cpu \/ HardReset \/ KeyboardReset
  PROVE  IInv'
<1>0. /\ TypeOK /\ irq \in CpuSide
      /\ NothingLost(irq, intena, intreq)
      /\ Descheduled(irq) /\ Unraised(irq)
      /\ OddVector = {} => Above(irq)
      /\ NoLostCiaInterrupt
      /\ intena \in SUBSET Bits /\ intreq \in SUBSET Bits
  BY CpuPart DEF IInv, TypeOK
<1>1. ASSUME UNCHANGED <<intena, intreq, icrreq, icrmsk, cia_recheck_irq, receiveBufferFull>>,
             irq' \in CpuSide, NothingLost(irq', intena, intreq),
             Descheduled(irq'), Unraised(irq'), OddVector = {} => Above(irq')
      PROVE  IInv'
  <2>1. TypeOK'
    BY <1>0, <1>1 DEF TypeOK, CpuSide
  <2>2. NoLostCiaInterrupt'
    BY <1>0, <1>1 DEF NoLostCiaInterrupt, Asserted
  <2>3. NothingLost(irq', intena', intreq')
    BY <1>1
  <2> QED  BY <1>1, <2>1, <2>2, <2>3, IInvPrime
<1>2. ASSUME NEW level \in SrLevel, MoveToSr(level)
      PROVE  IInv'
  <2>1. level \in 0..7 /\ ~irq.raise
    BY <1>2, SrLevelAssumption DEF MoveToSr
  <2>2. irq' = Reschedule(UpdateSr(irq, level))
    BY <1>2 DEF MoveToSr
  <2>3. /\ irq' \in CpuSide /\ NothingLost(irq', intena, intreq)
        /\ Descheduled(irq') /\ Unraised(irq') /\ Above(irq')
    BY <1>0, <2>1, <2>2, UpdateSrCorrect
  <2> QED  BY <1>1, <1>2, <2>3 DEF MoveToSr
<1>3. ASSUME NEW level \in SrLevel, Stop(level)
      PROVE  IInv'
  <2> DEFINE q == [irq EXCEPT !.stop = TRUE]
  <2>1. level \in 0..7 /\ ~irq.raise
    BY <1>3, SrLevelAssumption DEF Stop
  <2>2. irq' = Reschedule(UpdateSr(q, level))
    BY <1>3 DEF Stop
  <2>3. q \in CpuSide /\ ~q.raise /\ NothingLost(q, intena, intreq)
    BY <1>0, <2>1 DEF CpuSide, NothingLost
  <2> HIDE DEF q
  <2>4. /\ irq' \in CpuSide /\ NothingLost(irq', intena, intreq)
        /\ Descheduled(irq') /\ Unraised(irq') /\ Above(irq')
    BY <1>0, <2>1, <2>2, <2>3, UpdateSrCorrect
  <2> QED  BY <1>1, <1>3, <2>4 DEF Stop
<1>4. ASSUME TakeInterrupt
      PROVE  IInv'
  <2> DEFINE q == EnterLevel(irq)
             r == CheckPendingInterrupts(q)
  <2>1. q \in CpuSide /\ Unraised(q) /\ Above(q)
    BY <1>0 DEF EnterLevel, CpuSide, Unraised, Above
  <2> HIDE DEF q
  <2>2. /\ r \in CpuSide /\ NothingLost(r, intena, intreq)
        /\ Unraised(r) /\ Above(r)
    BY <1>0, <2>1, CheckPendingCorrect
  <2>3. irq' = [r EXCEPT !.cpuEvent = ~r.stop]
    BY <1>4 DEF TakeInterrupt, Reschedule, q
  <2> HIDE DEF r
  <2>4. /\ irq' \in CpuSide /\ irq'.level = r.level /\ irq'.raise = r.raise
        /\ irq'.stop = r.stop /\ irq'.raise_level = r.raise_level
        /\ irq'.interruptEvent = r.interruptEvent /\ (irq'.cpuEvent <=> ~r.stop)
    BY <2>2, <2>3 DEF CpuSide
  <2>5. NothingLost(irq', intena, intreq)
    BY <2>2, <2>4 DEF NothingLost
  <2>6. Descheduled(irq') /\ Unraised(irq') /\ Above(irq')
    BY <2>2, <2>4 DEF Descheduled, Unraised, Above
  <2> QED  BY <1>1, <1>4, <2>4, <2>5, <2>6 DEF TakeInterrupt
<1>5. ASSUME TakeInterruptAborted
      PROVE  IInv'
  <2>1. irq' = [irq EXCEPT !.level = irq.raise_level, !.stop = FALSE]
        /\ irq.raise /\ irq.cpuEvent /\ OddVector # {}
    BY <1>5 DEF TakeInterruptAborted
  <2>2. irq' \in CpuSide /\ irq'.raise /\ irq'.cpuEvent /\ ~irq'.stop
    BY <1>0, <2>1 DEF CpuSide
  <2>3. NothingLost(irq', intena, intreq) /\ Descheduled(irq') /\ Unraised(irq')
    BY <2>2 DEF NothingLost, Descheduled, Unraised
  <2> QED  BY <1>1, <1>5, <2>1, <2>2, <2>3 DEF TakeInterruptAborted
<1>6. ASSUME Reset \/ HardReset
      PROVE  IInv'
  <2>1. /\ intena' = {} /\ intreq' = {} /\ icrreq' = [i \in Cia |-> {}]
        /\ icrmsk' = [i \in Cia |-> {}] /\ cia_recheck_irq' = FALSE
        /\ receiveBufferFull' = receiveBufferFull
    BY <1>6 DEF Reset, HardReset
  <2>2. /\ irq' \in CpuSide
        /\ Descheduled(irq') /\ Unraised(irq') /\ (OddVector = {} => Above(irq'))
    <3>1. CASE Reset
      <4>1. irq' = [irq EXCEPT !.interruptEvent = FALSE]
        BY <3>1 DEF Reset
      <4> QED  BY <1>0, <4>1 DEF CpuSide, Descheduled, Unraised, Above
    <3>2. CASE HardReset
      <4>1. irq' = [level |-> 7, stop |-> FALSE, raise |-> FALSE,
                    raise_level |-> irq.raise_level,
                    cpuEvent |-> TRUE, interruptEvent |-> FALSE]
        BY <3>2 DEF HardReset
      <4>2. irq.raise_level \in 0..7
        BY <1>0 DEF CpuSide
      <4>3. irq' \in CpuSide
        BY <4>1, <4>2 DEF CpuSide
      <4> QED  BY <4>1, <4>3 DEF Descheduled, Unraised, Above
    <3> QED  BY <1>6, <3>1, <3>2
  <2>3. TypeOK'
    BY <1>0, <2>1, <2>2 DEF TypeOK, CpuSide
  <2>4. NothingLost(irq', intena', intreq')
    BY <2>1 DEF NothingLost
  <2>5. NoLostCiaInterrupt'
    BY <2>1 DEF NoLostCiaInterrupt, Asserted
  <2> QED  BY <2>2, <2>3, <2>4, <2>5, IInvPrime
<1>7. ASSUME KeyboardReset
      PROVE  IInv'
  <2>1. irq' = [irq EXCEPT !.level = 7, !.stop = FALSE, !.raise = FALSE]
        /\ (irq.stop => ResetWhileStopped)
    BY <1>7 DEF KeyboardReset
  <2>2. /\ irq' \in CpuSide /\ irq'.level = 7 /\ ~irq'.raise /\ ~irq'.stop
        /\ irq'.cpuEvent <=> irq.cpuEvent
    <3>1. 7 \in 0..7
      OBVIOUS
    <3> QED  BY <1>0, <2>1, <3>1 DEF CpuSide
  <2>3. NothingLost(irq', intena, intreq)
    <3>1. \A n \in ChipIrq : interrupt_cpu_level[n] \in 1..6
      BY LevelType, ChipIrqAssumption
    <3> QED  BY <2>2, <3>1 DEF NothingLost
  <2>4. Descheduled(irq') /\ Unraised(irq') /\ Above(irq')
    BY <1>0, <2>1, <2>2 DEF Descheduled, Unraised, Above
  <2> QED  BY <1>1, <1>7, <2>2, <2>3, <2>4 DEF KeyboardReset
<1> QED  BY <1>2, <1>3, <1>4, <1>5, <1>6, <1>7 DEF Cpu

LEMMA NextIInv == IInv /\ [Next]_vars => IInv'
<1> SUFFICES ASSUME IInv, [Next]_vars
             PROVE  IInv'
  OBVIOUS
<1>1. CASE Next
  <2>1. CASE Cpu \/ HardReset \/ KeyboardReset
    BY <2>1, CpuStep
  <2>2. CASE RegisterWrite
    BY <2>2, PaulaStep, CiaStep DEF RegisterWrite
  <2>3. CASE Device
    BY <2>3, PaulaStep, CiaStep DEF Device
  <2> QED  BY <1>1, <2>1, <2>2, <2>3 DEF Next
<1>2. CASE UNCHANGED vars
  BY <1>2 DEF vars, IInv, TypeOK, NoLostInterrupt, Serviceable, NoLostCiaInterrupt,
     Asserted, Descheduled, Unraised, RaiseAboveLevel
<1> QED  BY <1>1, <1>2
-----------------------------------------------------------------------------
THEOREM Invariance == Spec => []IInv
BY InitIInv, NextIInv, PTL DEF Spec

(* Every register, flag and level keeps its range.                         *)
THEOREM TypeCorrect == Spec => []TypeOK
<1>1. IInv => TypeOK
  BY DEF IInv
<1> QED  BY Invariance, <1>1, PTL

(* For any INTREQ bits, levels and odd vectors, an interrupt that is       *)
(* requested, enabled and above the CPU's level is raised or scheduled.    *)
THEOREM NoInterruptIsLost == Spec => []NoLostInterrupt
<1>1. IInv => NoLostInterrupt
  BY DEF IInv
<1> QED  BY Invariance, <1>1, PTL

(* A CIA with an enabled flag has its INTREQ bit set or a recheck pending. *)
THEOREM NoCiaInterruptIsLost == Spec => []NoLostCiaInterrupt
<1>1. IInv => NoLostCiaInterrupt
  BY DEF IInv
<1> QED  BY Invariance, <1>1, PTL

(* The CPU sleeps exactly while its event is disabled, nothing raised,     *)
(* unless the keyboard's reset may find it in STOP.                        *)
THEOREM StopMeansDescheduled ==
  ASSUME ~ResetWhileStopped PROVE Spec => []StoppedIffDescheduled
<1>1. IInv => StoppedIffDescheduled
  BY DEF IInv, Descheduled, Unraised, StoppedIffDescheduled
<1> QED  BY Invariance, <1>1, PTL

(* With even vectors, an interrupt entry always raises the CPU's level.    *)
THEOREM RaisedIsAbove == ASSUME OddVector = {} PROVE Spec => []RaiseAboveLevel
<1>1. IInv => RaiseAboveLevel
  BY DEF IInv
<1> QED  BY Invariance, <1>1, PTL
=============================================================================
