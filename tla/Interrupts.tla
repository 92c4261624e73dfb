----------------------------- MODULE Interrupts -----------------------------
(***************************************************************************)
(* The path of an interrupt through WinFellow: the two CIAs' interrupt     *)
(* lines, Paula's INTREQ and INTENA (interrupt.c), the delayed             *)
(* interruptEvent of the bus queue, and the raise flag, stop flag and      *)
(* status register level of the 68000 (CpuModule_Interrupts.c,             *)
(* CpuModule_Instructions.c, CpuIntegration.c).                            *)
(*                                                                         *)
(* Bus time is abstracted: interruptEvent, the CIA recheck and the CPU     *)
(* event are here either scheduled or disabled; the BusScheduler module    *)
(* has the cycles.  A register is the set of the bit numbers that are 1.   *)
(***************************************************************************)
EXTENDS Naturals, FiniteSets

CONSTANTS
  ChipIrq,      \* the INTREQ bits some device or program uses
  SrLevel,      \* the interrupt levels programs put in the status register
  CiaFlag,      \* the interrupt flags of a CIA (timer A, timer B, alarm, ...)
  OddVector,    \* the levels whose autovector holds an odd address
  ResetWhileStopped  \* may the keyboard reset come while the CPU is in STOP?

ASSUME ChipIrqAssumption   == ChipIrq \subseteq 0..13 /\ {3, 13} \subseteq ChipIrq
ASSUME SrLevelAssumption   == SrLevel \subseteq 0..7
ASSUME CiaFlagAssumption   == "IR" \notin CiaFlag
ASSUME OddVectorAssumption == OddVector \subseteq 1..7
ASSUME ResetWhileStoppedAssumption == ResetWhileStopped \in BOOLEAN

Cia    == {0, 1}
Master == 14                    \* bit 14: the master switch in INTENA
Bits   == ChipIrq \union {Master}

interrupt_cpu_level ==
  [n \in 0..13 |-> CASE n <= 2 -> 1 [] n = 3 -> 2 [] n \in 4..6 -> 3
                     [] n \in 7..10 -> 4 [] n \in 11..12 -> 5 [] OTHER -> 6]

(* What the devices of the chipset request with the chipset's latency: the *)
(* UART, the disk, the vertical blank, the blitter, the audio channels.    *)
DeviceIrq == {0, 1, 5, 6, 7, 8, 9, 10, 12}

VARIABLES
  intena,             \* bits set in INTENA
  intreq,             \* bits set in INTREQ
  irq,                \* the CPU side, see TypeOK
  icrreq,             \* per CIA: flags that have occurred since ICR was read
  icrmsk,             \* per CIA: flags enabled
  cia_recheck_irq,    \* the CIA event will look at both lines again
  receiveBufferFull   \* the UART's copy of INTREQ bit 11

vars == <<intena, intreq, irq, icrreq, icrmsk, cia_recheck_irq, receiveBufferFull>>

TypeOK ==
  /\ intena \subseteq Bits
  /\ intreq \subseteq Bits
  /\ irq \in [level : 0..7,              \* bits 8-10 of the status register
              stop : BOOLEAN,            \* STOP executed, waiting for an irq
              raise : BOOLEAN,           \* switch level before the next instruction
              raise_level : 0..7,        \* ... to this level
              cpuEvent : BOOLEAN,        \* cpuEvent.cycle # BUS_CYCLE_DISABLE
              interruptEvent : BOOLEAN]  \* interruptEvent.cycle # BUS_CYCLE_DISABLE
  /\ icrreq \in [Cia -> SUBSET (CiaFlag \union {"IR"})]
  /\ icrmsk \in [Cia -> SUBSET CiaFlag]
  /\ cia_recheck_irq \in BOOLEAN
  /\ receiveBufferFull \in BOOLEAN

Highest(P) == CHOOSE n \in P : \A m \in P : m <= n

-----------------------------------------------------------------------------
(* Paula and the CPU's interrupt inputs, as functions of the state.        *)

(* cpuSetIrqLevel and its wrapper, which reschedules a stopped CPU.        *)
SetIrqLevel(q, level) ==
  [q EXCEPT !.raise = TRUE, !.raise_level = level, !.stop = FALSE,
            !.cpuEvent = IF q.stop THEN TRUE ELSE @]

(* Mutant: an interrupt on the CPU's own level is let through.             *)
RaiseHighestOrEqual(q, pending, delayIRQ) ==
  LET level == interrupt_cpu_level[Highest(pending)]
  IN  IF pending = {} \/ level < q.level THEN q
      ELSE IF delayIRQ /\ ~q.stop THEN [q EXCEPT !.interruptEvent = TRUE]
      ELSE SetIrqLevel(q, level)

(* The loop from 13 down to 0 stops at the first bit that is pending.      *)
RaiseHighest(q, pending, delayIRQ) ==
  LET level == interrupt_cpu_level[Highest(pending)]
  IN  IF pending = {} \/ level <= q.level THEN q
      ELSE IF delayIRQ /\ ~q.stop THEN [q EXCEPT !.interruptEvent = TRUE]
      ELSE SetIrqLevel(q, level)

RaisePendingInternal(q, ena, req, delayIRQ) ==
  IF \/ Master \notin ena
     \/ ena \intersect req = {}
     \/ q.raise
     \/ q.interruptEvent /\ delayIRQ
  THEN q
  ELSE LET r == [q EXCEPT !.interruptEvent = FALSE]   \* cancel the wait
       IN  IF r.level = 7 THEN r
           ELSE RaiseHighest(r, (ena \intersect req) \ {Master}, delayIRQ)

CheckPendingInterrupts(q) ==
  IF q.raise THEN q ELSE RaisePendingInternal(q, intena, intreq, FALSE)

(* The set half of wintreq_direct, on a pair of INTREQ and CPU side.       *)
SetIntreq(p, S, delayIRQ) ==
  [req |-> p.req \union S,
   irq |-> RaisePendingInternal(p.irq, intena, p.req \union S, delayIRQ)]

CiaBit(i) == IF i = 0 THEN 3 ELSE 13

Asserted(i, req) == req[i] \intersect icrmsk[i] # {}

(* ciaUpdateIRQ, given the new icrreq and whether the line is asserted.    *)
UpdateIRQ(p, i, asserted) ==
  IF asserted /\ CiaBit(i) \notin p.req THEN SetIntreq(p, {CiaBit(i)}, TRUE) ELSE p

(* Any write to INTREQ in set mode also reaches the UART.                  *)
Assign(p) ==
  /\ intreq' = p.req
  /\ irq' = p.irq
  /\ receiveBufferFull' = IF p.req # intreq THEN 11 \in p.req ELSE receiveBufferFull

Now == [req |-> intreq, irq |-> irq]
-----------------------------------------------------------------------------
(* Hard reset: also what cpuExceptionFail does on a double fault.          *)
HardReset ==
  /\ intena' = {}
  /\ intreq' = {}
  /\ irq' = [level |-> 7, stop |-> FALSE, raise |-> FALSE, raise_level |-> irq.raise_level,
             cpuEvent |-> TRUE, interruptEvent |-> FALSE]
  /\ icrreq' = [i \in Cia |-> {}]
  /\ icrmsk' = [i \in Cia |-> {}]
  /\ cia_recheck_irq' = FALSE
  /\ UNCHANGED receiveBufferFull

Init ==
  /\ intena = {}
  /\ intreq = {}
  /\ irq = [level |-> 7, stop |-> FALSE, raise |-> FALSE, raise_level |-> 0,
            cpuEvent |-> TRUE, interruptEvent |-> FALSE]
  /\ icrreq = [i \in Cia |-> {}]
  /\ icrmsk = [i \in Cia |-> {}]
  /\ cia_recheck_irq = FALSE
  /\ receiveBufferFull = FALSE

(* wintreq in set mode, by an instruction or by the copper.                *)
WriteIntreqSet(S) ==
  /\ intreq' = intreq \union S
  /\ irq' = RaisePendingInternal(irq, intena, intreq \union S, FALSE)
  /\ receiveBufferFull' = (11 \in intreq')
  /\ UNCHANGED <<intena, icrreq, icrmsk, cia_recheck_irq>>

(* A device that finished raises its bit with the chipset's latency.       *)
ChipRequest(n) ==
  /\ intreq' = intreq \union {n}
  /\ irq' = RaisePendingInternal(irq, intena, intreq \union {n}, TRUE)
  /\ receiveBufferFull' = (11 \in intreq')
  /\ UNCHANGED <<intena, icrreq, icrmsk, cia_recheck_irq>>

(* Mutant: only the bit of CIA A is looked for.                            *)
WriteIntreqClearNoExter(S) ==
  /\ intreq' = intreq \ S
  /\ cia_recheck_irq' = (cia_recheck_irq \/ 3 \in S)
  /\ UNCHANGED <<intena, irq, icrreq, icrmsk, receiveBufferFull>>

(* wintreq in clear mode: a CIA line that is still low must be seen again. *)
WriteIntreqClear(S) ==
  /\ intreq' = intreq \ S
  /\ cia_recheck_irq' = (cia_recheck_irq \/ S \intersect {3, 13} # {})
  /\ UNCHANGED <<intena, irq, icrreq, icrmsk, receiveBufferFull>>

WriteIntena(ena) ==
  /\ intena' = ena
  /\ irq' = RaisePendingInternal(irq, ena, intreq, FALSE)
  /\ UNCHANGED <<intreq, icrreq, icrmsk, cia_recheck_irq, receiveBufferFull>>

WriteIntenaSet(S)   == WriteIntena(intena \union S)
WriteIntenaClear(S) == WriteIntena(intena \ S)

(* Mutant: the event handler asks for the latency once more.               *)
InterruptEventDelayed ==
  /\ irq.interruptEvent
  /\ irq' = RaisePendingInternal([irq EXCEPT !.interruptEvent = FALSE], intena, intreq, TRUE)
  /\ UNCHANGED <<intena, intreq, icrreq, icrmsk, cia_recheck_irq, receiveBufferFull>>

InterruptEvent ==
  /\ irq.interruptEvent
  /\ irq' = RaisePendingInternal([irq EXCEPT !.interruptEvent = FALSE], intena, intreq, FALSE)
  /\ UNCHANGED <<intena, intreq, icrreq, icrmsk, cia_recheck_irq, receiveBufferFull>>
-----------------------------------------------------------------------------
(* The CIAs.                                                               *)

WithIR(req, i) ==
  [req EXCEPT ![i] = IF Asserted(i, req) THEN @ \union {"IR"} ELSE @]

CiaRaiseIRQ(i, f) ==
  LET req == [icrreq EXCEPT ![i] = @ \union {f}]
  IN  /\ icrreq' = WithIR(req, i)
      /\ Assign(UpdateIRQ(Now, i, Asserted(i, req)))
      /\ UNCHANGED <<intena, icrmsk, cia_recheck_irq>>

CiaRecheckEvent ==
  /\ cia_recheck_irq
  /\ cia_recheck_irq' = FALSE
  /\ icrreq' = WithIR(WithIR(icrreq, 0), 1)
  /\ Assign(UpdateIRQ(UpdateIRQ(Now, 0, Asserted(0, icrreq)), 1, Asserted(1, icrreq)))
  /\ UNCHANGED <<intena, icrmsk>>

ReadIcr(i) ==
  /\ icrreq' = [icrreq EXCEPT ![i] = {}]
  /\ UNCHANGED <<intena, intreq, irq, icrmsk, cia_recheck_irq, receiveBufferFull>>

WriteIcr(i, mask) ==
  LET asserted == icrreq[i] \intersect mask # {}
  IN  /\ icrmsk' = [icrmsk EXCEPT ![i] = mask]
      /\ icrreq' = [icrreq EXCEPT ![i] = IF asserted THEN @ \union {"IR"} ELSE @]
      /\ Assign(UpdateIRQ(Now, i, asserted))
      /\ UNCHANGED <<intena, cia_recheck_irq>>

(* Mutant: the set/clear bit of the data is not masked off.                *)
WriteIcrSetUnmasked(i, S) == WriteIcr(i, icrmsk[i] \union S \union {"IR"})

WriteIcrSet(i, S)   == WriteIcr(i, icrmsk[i] \union S)
WriteIcrClear(i, S) == WriteIcr(i, icrmsk[i] \ S)
-----------------------------------------------------------------------------
(* The CPU.  cpuEvent.handler runs it only while cpuEvent is scheduled,    *)
(* and disables cpuEvent when the CPU comes out of it stopped.             *)

Reschedule(q) == [q EXCEPT !.cpuEvent = ~q.stop]

UpdateSr(q, level) ==
  LET r == [q EXCEPT !.level = level]
  IN  IF level # q.level THEN CheckPendingInterrupts(r) ELSE r

(* MOVE to SR, ANDI/ORI/EORI to SR, RTE.  The throwaway frame of a 68020,  *)
(* for which RTE goes on to the next frame, is left out.                   *)
MoveToSr(level) ==
  /\ irq.cpuEvent /\ ~irq.raise
  /\ irq' = Reschedule(UpdateSr(irq, level))
  /\ UNCHANGED <<intena, intreq, icrreq, icrmsk, cia_recheck_irq, receiveBufferFull>>

(* Mutant: the stop flag goes up last, over an interrupt just raised.      *)
StopAfterUpdateSr(level) ==
  /\ irq.cpuEvent /\ ~irq.raise
  /\ irq' = Reschedule([UpdateSr(irq, level) EXCEPT !.stop = TRUE])
  /\ UNCHANGED <<intena, intreq, icrreq, icrmsk, cia_recheck_irq, receiveBufferFull>>

(* The stop flag goes up before the level is changed and checked.          *)
Stop(level) ==
  /\ irq.cpuEvent /\ ~irq.raise
  /\ irq' = Reschedule(UpdateSr([irq EXCEPT !.stop = TRUE], level))
  /\ UNCHANGED <<intena, intreq, icrreq, icrmsk, cia_recheck_irq, receiveBufferFull>>

(* Mutant: the raise flag is left up by the entry.                         *)
EnterLevelStillRaised(q) == [q EXCEPT !.level = q.raise_level, !.stop = FALSE]

EnterLevel(q) == [q EXCEPT !.level = q.raise_level, !.stop = FALSE, !.raise = FALSE]

(* Mutant: no look at what else is pending after the entry.                *)
TakeInterruptUnchecked ==
  /\ irq.cpuEvent /\ irq.raise
  /\ irq.raise_level \notin OddVector
  /\ irq' = Reschedule(EnterLevel(irq))
  /\ UNCHANGED <<intena, intreq, icrreq, icrmsk, cia_recheck_irq, receiveBufferFull>>

TakeInterrupt ==
  /\ irq.cpuEvent /\ irq.raise
  /\ irq.raise_level \notin OddVector
  /\ irq' = Reschedule(CheckPendingInterrupts(EnterLevel(irq)))
  /\ UNCHANGED <<intena, intreq, icrreq, icrmsk, cia_recheck_irq, receiveBufferFull>>

(* The prefetch from an odd vector throws an address error, which longjmps *)
(* out of cpuSetUpInterrupt after the level, before the raise flag.        *)
TakeInterruptAborted ==
  /\ irq.cpuEvent /\ irq.raise
  /\ irq.raise_level \in OddVector
  /\ irq' = [irq EXCEPT !.level = irq.raise_level, !.stop = FALSE]
  /\ UNCHANGED <<intena, intreq, icrreq, icrmsk, cia_recheck_irq, receiveBufferFull>>

(* The RESET instruction resets the machine but not the CPU.               *)
Reset ==
  /\ irq.cpuEvent /\ ~irq.raise
  /\ intena' = {}
  /\ intreq' = {}
  /\ irq' = [irq EXCEPT !.interruptEvent = FALSE]
  /\ icrreq' = [i \in Cia |-> {}]
  /\ icrmsk' = [i \in Cia |-> {}]
  /\ cia_recheck_irq' = FALSE
  /\ UNCHANGED receiveBufferFull

(* Ctrl-Amiga-Amiga, handled at the end of a frame: cpuIntegrationHardReset *)
(* resets the CPU, but neither the machine nor cpuEvent.                   *)
KeyboardReset ==
  /\ irq.stop => ResetWhileStopped
  /\ irq' = [irq EXCEPT !.level = 7, !.stop = FALSE, !.raise = FALSE]
  /\ UNCHANGED <<intena, intreq, icrreq, icrmsk, cia_recheck_irq, receiveBufferFull>>
-----------------------------------------------------------------------------
Cpu == \/ \E level \in SrLevel : MoveToSr(level) \/ Stop(level)
       \/ TakeInterrupt
       \/ TakeInterruptAborted
       \/ Reset

RegisterWrite == \/ \E S \in SUBSET Bits : \/ WriteIntreqSet(S)
                                           \/ WriteIntreqClear(S)
                                           \/ WriteIntenaSet(S)
                                           \/ WriteIntenaClear(S)
                 \/ \E i \in Cia : \/ ReadIcr(i)
                                    \/ \E S \in SUBSET CiaFlag : \/ WriteIcrSet(i, S)
                                                                 \/ WriteIcrClear(i, S)

Device == \/ \E n \in ChipIrq \intersect DeviceIrq : ChipRequest(n)
          \/ \E i \in Cia, f \in CiaFlag : CiaRaiseIRQ(i, f)
          \/ CiaRecheckEvent
          \/ InterruptEvent

Next == Cpu \/ RegisterWrite \/ Device \/ HardReset \/ KeyboardReset

(* The bus loop dispatches every queued event, and runs the CPU while its  *)
(* event is scheduled.  Programs and devices are free to do nothing.       *)
Fairness == /\ WF_vars(TakeInterrupt)
            /\ WF_vars(TakeInterruptAborted)
            /\ WF_vars(InterruptEvent)

Spec == Init /\ [][Next]_vars /\ Fairness
-----------------------------------------------------------------------------
(* Bit n is requested and enabled, and its level is above the CPU's.       *)
Serviceable(n) == /\ Master \in intena
                  /\ n \in intena \intersect intreq
                  /\ interrupt_cpu_level[n] > irq.level

(* No interrupt is forgotten: while one is serviceable, the CPU has been   *)
(* told or the interrupt event that will tell it is scheduled.  The code   *)
(* keeps this by calling interruptRaisePending wherever INTREQ, INTENA or  *)
(* the status register change, through several early returns.              *)
NoLostInterrupt ==
  (\E n \in ChipIrq : Serviceable(n)) => irq.raise \/ irq.interruptEvent

(* A CIA that pulls its interrupt line is never forgotten: its INTREQ bit  *)
(* is set, or ciaRecheckIRQ has scheduled another look at the line.        *)
NoLostCiaInterrupt ==
  \A i \in Cia : Asserted(i, icrreq) => CiaBit(i) \in intreq \/ cia_recheck_irq

(* The CPU is in STOP exactly when its event is disabled, and never with   *)
(* an interrupt already raised: such a CPU would not be run again.         *)
StoppedIffDescheduled ==
  /\ irq.stop <=> ~irq.cpuEvent
  /\ irq.stop => ~irq.raise

(* The keyboard's reset puts the CPU to work: it "should perform a soft    *)
(* reset and in addition reset the CPU state" (Keyboard.cpp), and a soft   *)
(* reset schedules the CPU.                                                *)
KeyboardResetRestarts == [][KeyboardReset => irq'.cpuEvent]_vars

(* A raised interrupt is above the level of the status register, so that   *)
(* entering it always raises the level.                                    *)
RaiseAboveLevel == irq.raise => irq.raise_level > irq.level

(* A raised interrupt is entered, and nested entries come to an end: each  *)
(* is at a higher level ("The next time cpuExecuteIntruction runs, it will *)
(* switch to the new interrupt level", interrupt.c).                       *)
RaiseIsTaken == irq.raise ~> ~irq.raise

(* A serviceable interrupt is entered, or withdrawn by the program or by a *)
(* higher one: neither STOP nor the delay holds it off for ever.           *)
EventuallyServiced ==
  \A n \in ChipIrq : Serviceable(n) ~> ~Serviceable(n)
=============================================================================
