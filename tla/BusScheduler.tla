---------------------------- MODULE BusScheduler ----------------------------
(***************************************************************************)
(* The event scheduler of WinFellow (BusScheduler.cpp): a queue of bus     *)
(* events sorted by cycle, a CPU event that is never in the queue, and the *)
(* end-of-frame handler that moves every deadline back by one frame.       *)
(*                                                                         *)
(* What the chips do with their events is here only as far as it touches   *)
(* the queue: an interrupt, a CIA timer, a blit or a copper instruction    *)
(* may or may not schedule, move or cancel its event.  Cycle counts are    *)
(* scaled down: the code has 227 cycles in a line, 313 or 312 lines in a   *)
(* frame, a latency of 10 and a copper that starts at cycle 40.            *)
(***************************************************************************)
EXTENDS Integers, SequencesExt

CONSTANTS
  LineCycles,        \* cycles_in_this_line
  LongLines,         \* lines_in_this_frame of a long frame
  ShortLines,        \* ... and of a short one
  Latency,           \* interruptGetScheduleLatency
  CopperStart,       \* when the copper starts in a frame
  CopperStep,        \* cycles of a copper instruction
  CopperPenalty,     \* cycles a copper instruction takes from the CPU
  CopperWait,        \* how far away the positions are that a WAIT waits for
  CpuTime,           \* cycles a run of CPU instructions can take
  AbortTime,         \* cycles an instruction that ends in an exception takes
  CiaDelay,          \* cycles to the next CIA timeout
  BlitDelay,         \* cycles a blit takes
  HostUses,          \* does the user single-step, or ask to stop?
  StaleClock,        \* the CPU may use bus.cycle after it has reset the machine
  Disable            \* BUS_CYCLE_DISABLE, the largest value of a uint32_t

Delays == CopperWait \union CpuTime \union AbortTime \union CiaDelay \union BlitDelay
            \union {Latency, CopperStep}
Longest == LongLines * LineCycles

ASSUME GeometryAssumption ==
  /\ {LineCycles, LongLines, ShortLines, CopperStart, CopperStep, CopperPenalty} \subseteq Nat \ {0}
  /\ ShortLines <= LongLines /\ LineCycles >= 2
ASSUME DelayAssumption ==
  Delays \subseteq Nat /\ 0 \notin CpuTime \union CopperWait /\ CpuTime # {}
(* The CPU is not slowed down faster than time passes: 2 cycles for each   *)
(* copper instruction, which takes 4, and positions lie 2 apart.           *)
ASSUME CopperAssumption ==
  /\ CopperStart < Disable
  /\ \A d \in CopperWait \union {CopperStep, CopperStart} : CopperPenalty <= d
ASSUME HostUsesAssumption == HostUses \subseteq {"step", "stop"}
ASSUME StaleClockAssumption == StaleClock \in BOOLEAN
ASSUME DisableAssumption ==
  Disable \in Nat /\ \A d \in Delays : 2 * (Longest + d + CopperPenalty) < Disable

Event == {"eol", "eof", "cia", "copper", "blitter", "interrupt"}
Timed == Event \union {"cpu"}

VARIABLES
  m,                \* the events and the copper's part of them, see TypeOK
  bus_cycle,        \* bus.cycle
  long_frame,       \* bus.screen_limits
  mode,             \* is busRun or busDebugStepOneInstruction on the stack?
  stop_request,     \* fellow_request_emulation_stop
  elapsed,          \* history: cycles of this frame that have passed
  line              \* history: end of line events in this frame

vars == <<m, bus_cycle, long_frame, mode, stop_request, elapsed, line>>

Cycles(long) == (IF long THEN LongLines ELSE ShortLines) * LineCycles

TypeOK ==
  /\ m \in [queue : Seq(Event),               \* bus.events
            cycle : [Timed -> 0..Disable],    \* ...Event.cycle
            fault : BOOLEAN,                  \* the list has been corrupted
            copper_dma : BOOLEAN,
            copper_suspended_wait : 0..Disable]
  /\ bus_cycle \in 0..Disable
  /\ long_frame \in BOOLEAN
  /\ mode \in {"stopped", "run", "step"}
  /\ stop_request \in BOOLEAN
  /\ elapsed \in 0..Disable
  /\ line \in Nat
-----------------------------------------------------------------------------
(* The list of events.                                                     *)

(* uint32_t subtraction.                                                   *)
Sub(a, b) == (a - b) % (Disable + 1)

Queued(s, e) == e \in Range(s.queue)

(* Where busInsertEvent stops: before the first event that is later.       *)
Position(s, t) ==
  CHOOSE i \in 1 .. Len(s.queue) + 1 :
    /\ \A k \in 1 .. i - 1 : s.cycle[s.queue[k]] <= t
    /\ i <= Len(s.queue) => t < s.cycle[s.queue[i]]

Link(s, e, t) ==
  [s EXCEPT !.queue = InsertAt(@, Position(s, t), e), !.cycle[e] = t]

(* ev->cycle = t; busInsertEvent(ev).  It dereferences null in an empty    *)
(* list, and an event that is linked twice corrupts the list.              *)
Insert(s, e, t) ==
  IF s.queue = <<>> \/ Queued(s, e) THEN [s EXCEPT !.fault = TRUE] ELSE Link(s, e, t)

InsertWithNullCheck(s, e, t) ==
  IF s.queue = <<>> THEN Link(s, e, t) ELSE Insert(s, e, t)

(* busRemoveEvent(ev), which ignores an event that is not in the list.     *)
Unlink(s, e) ==
  IF ~Queued(s, e) THEN s
  ELSE [s EXCEPT !.queue = RemoveAt(@, CHOOSE i \in 1 .. Len(@) : @[i] = e)]

Cancel(s, e) == [Unlink(s, e) EXCEPT !.cycle[e] = Disable]

(* Remove, if (t is not BUS_CYCLE_DISABLE) insert.                         *)
Reschedule(s, e, t) ==
  IF t = Disable THEN Cancel(s, e) ELSE Insert(Cancel(s, e), e, t)

(* busPopEvent, and what the handler then does first: disable its event.   *)
PopEvent(s) == [s EXCEPT !.queue = Tail(@), !.cycle[Head(s.queue)] = Disable]
-----------------------------------------------------------------------------
(* What register writes and devices can do to the events at cycle now.     *)

(* cpuIntegrationSetIrqLevel: a stopped CPU goes on at once.               *)
Wake(s, now) == IF s.cycle["cpu"] = Disable THEN [s EXCEPT !.cycle["cpu"] = now] ELSE s

(* interruptRaisePendingInternal, with and without the chipset's latency;  *)
(* module Interrupts has the registers that decide.                        *)
RaiseDelayed(s, now) ==
  {s} \union IF s.cycle["interrupt"] # Disable THEN {}
             ELSE IF s.cycle["cpu"] = Disable THEN {Wake(s, now)}
             ELSE {Insert(s, "interrupt", now + Latency)}

Raise(s, now) ==
  {s} \union UNION {{r, Wake(r, now)} : r \in {Cancel(s, "interrupt")}}

(* ciaSetupNextEvent, after a timer was written or has expired.            *)
SetupCia(s, now) ==
  {Reschedule(s, "cia", t) : t \in {now + d : d \in CiaDelay} \union {Disable}}

(* blitFinishBlit, in copy mode and in line mode; blitForceFinish, and the *)
(* blit that BLTSIZE or DMACON then starts.                                *)
Blitted(s, now) == RaiseDelayed(s, now) \union Raise(s, now)

FinishBlit(s, now) ==
  IF s.cycle["blitter"] = Disable THEN {s} ELSE Blitted(Cancel(s, "blitter"), now)

StartBlit(s, now) ==
  UNION {{Insert(f, "blitter", now + d) : f \in FinishBlit(s, now)} : d \in BlitDelay}

(* Mutant: a waiting copper is loaded without leaving the list.            *)
LoadCopperTwice(s, now) ==
  IF s.copper_dma THEN Insert(s, "copper", now + CopperStep)
  ELSE IF s.copper_suspended_wait = Disable THEN [s EXCEPT !.copper_suspended_wait = now]
  ELSE s

(* Copper::Load, by a write to COPJMP1 or COPJMP2.                         *)
LoadCopper(s, now) ==
  IF s.copper_dma THEN Reschedule(s, "copper", now + CopperStep)
  ELSE IF s.copper_suspended_wait = Disable THEN [s EXCEPT !.copper_suspended_wait = now]
  ELSE s

CopperDmaOff(s) ==
  IF ~s.copper_dma THEN s
  ELSE [Cancel(s, "copper") EXCEPT !.copper_dma = FALSE,
                                   !.copper_suspended_wait = s.cycle["copper"]]

(* Mutant: a wait that passed while the DMA was off is not moved.          *)
CopperDmaOnInThePast(s, now) ==
  IF s.copper_dma THEN s
  ELSE [Reschedule(s, "copper", s.copper_suspended_wait) EXCEPT !.copper_dma = TRUE]

CopperDmaOn(s, now) ==
  LET wait == s.copper_suspended_wait
  IN  IF s.copper_dma THEN s
      ELSE [Reschedule(s, "copper", IF wait <= now THEN now + CopperStep ELSE wait)
              EXCEPT !.copper_dma = TRUE]

(* A register write of the CPU or of the copper.                           *)
Access(s, now) ==
  Raise(s, now) \union RaiseDelayed(s, now) \union SetupCia(s, now)
    \union FinishBlit(s, now) \union StartBlit(s, now)
    \union {LoadCopper(s, now), CopperDmaOff(s), CopperDmaOn(s, now)}
-----------------------------------------------------------------------------
(* The whole machine's reset, as far as the events go.                     *)
SoftReset(s, long) ==
  [queue |-> <<"eol", "eof">>,
   cycle |-> [e \in Timed |-> CASE e = "eol" -> LineCycles - 1
                                [] e = "eof" -> Cycles(long)
                                [] e = "cpu" -> 0
                                [] OTHER -> Disable],
   fault |-> s.fault,
   copper_dma |-> FALSE,
   copper_suspended_wait |-> Disable]

Init ==
  /\ long_frame = TRUE
  /\ m = SoftReset([fault |-> FALSE], TRUE)
  /\ bus_cycle = 0
  /\ mode = "stopped"
  /\ stop_request = FALSE
  /\ elapsed = 0
  /\ line = 0

(* fellowEmulationStart and fellowRun, or fellowStepOne; the hard reset is *)
(* done when the configuration asked for it.                               *)
Start(how, reset) ==
  /\ mode = "stopped"
  /\ mode' = how /\ how \in {"run"} \union HostUses
  /\ stop_request' = FALSE
  /\ IF reset THEN /\ m' = SoftReset(m, long_frame)
                   /\ elapsed' = 0
                   /\ line' = 0
              ELSE UNCHANGED <<m, elapsed, line>>
  /\ UNCHANGED <<bus_cycle, long_frame>>

(* fellowRequestEmulationStop, from an event handler or the host's window. *)
RequestStop ==
  /\ mode # "stopped" /\ ~stop_request /\ "stop" \in HostUses
  /\ stop_request' = TRUE
  /\ UNCHANGED <<m, bus_cycle, long_frame, mode, elapsed, line>>

(* Mutant: a request does not reach a CPU that is in STOP.                 *)
LeaveUnlessAsleep(stop) ==
  /\ mode' = IF stop /\ m.cycle["cpu"] # Disable THEN "stopped" ELSE mode
  /\ stop_request' = (stop_request /\ mode' # "stopped")

(* The run loop is left if it has to, and fellowRun clears the request.    *)
Leave(stop) ==
  /\ mode' = IF stop THEN "stopped" ELSE mode
  /\ stop_request' = (stop_request /\ ~stop)

First == Head(m.queue)

(* The cycle of whoever's turn it is; the CPU's in a tie.                  *)
Now == IF m.cycle[First] >= m.cycle["cpu"] THEN m.cycle["cpu"] ELSE m.cycle[First]

-----------------------------------------------------------------------------
(* The CPU's turn: while (bus.events->cycle >= cpuEvent.cycle).  The       *)
(* request to stop is not looked at here.                                  *)
CpuTurn ==
  /\ mode # "stopped"
  /\ m.cycle[First] >= m.cycle["cpu"]
  /\ bus_cycle' = Now
  /\ UNCHANGED long_frame

RunCpu ==
  /\ CpuTurn
  /\ \E s \in Access(m, Now), t \in CpuTime :
       m' \in {[s EXCEPT !.cycle["cpu"] = @ + t],
              [s EXCEPT !.cycle["cpu"] = Disable]}       \* STOP
  /\ elapsed' = Now
  /\ Leave(mode = "step")
  /\ UNCHANGED line

(* Mutant: an exception takes no time at all.                              *)
AbortInstructionFree ==
  /\ CpuTurn
  /\ \E s \in Access(m, Now) : m' = [s EXCEPT !.cycle["cpu"] = Now]
  /\ elapsed' = Now
  /\ Leave(mode = "step" \/ stop_request)
  /\ UNCHANGED line

(* An exception in mid-instruction comes back through setjmp.              *)
AbortInstruction ==
  /\ CpuTurn
  /\ \E s \in Access(m, Now), t \in AbortTime :
       m' = [s EXCEPT !.cycle["cpu"] = Now + t]
  /\ elapsed' = Now
  /\ Leave(mode = "step" \/ stop_request)
  /\ UNCHANGED line

(* A fetch outside memory leaves busRun, and the CPU event where it was.   *)
RuntimeError ==
  /\ CpuTurn
  /\ m' \in Access(m, Now)
  /\ elapsed' = Now
  /\ Leave(TRUE)
  /\ UNCHANGED line

(* The RESET instruction.  bus.cycle keeps its value until the next turn,  *)
(* and a 68020 goes on with more instructions in the same turn.            *)
ResetInstruction ==
  /\ CpuTurn
  /\ LET s == SoftReset(m, long_frame)
     IN  \E r \in IF StaleClock THEN Access(s, Now) ELSE {s}, t \in CpuTime :
           m' = [r EXCEPT !.cycle["cpu"] = @ + t]
  /\ elapsed' = 0
  /\ line' = 0
  /\ Leave(mode = "step")

(* A double fault resets the machine and then leaves the instruction, so   *)
(* that the CPU goes on at the old frame's bus.cycle.                      *)
DoubleFault ==
  /\ StaleClock
  /\ CpuTurn
  /\ \E t \in AbortTime :
       m' = [SoftReset(m, long_frame) EXCEPT !.cycle["cpu"] = Now + t]
  /\ elapsed' = 0
  /\ line' = 0
  /\ Leave(mode = "step" \/ stop_request)
-----------------------------------------------------------------------------
(* The turn of the first event in the queue.                               *)
Dispatch(e) ==
  /\ mode # "stopped"
  /\ First = e
  /\ m.cycle[e] < m.cycle["cpu"]
  /\ bus_cycle' = Now
  /\ Leave(stop_request)

(* A handler that leaves the raster alone.                                 *)
Chip(e) == /\ Dispatch(e)
           /\ elapsed' = Now
           /\ UNCHANGED <<long_frame, line>>

InterruptEvent ==
  /\ Chip("interrupt")
  /\ m' \in Raise(PopEvent(m), Now)

CiaEvent ==
  /\ Chip("cia")
  /\ \E s \in RaiseDelayed(PopEvent(m), Now) : m' \in SetupCia(s, Now)

BlitterEvent ==
  /\ Chip("blitter")
  /\ m' \in Blitted(PopEvent(m), Now)

(* Mutant: the copper's penalty is added to the cycle of a stopped CPU.    *)
SlowStoppedCpu(s) == [s EXCEPT !.cycle["cpu"] = @ + CopperPenalty]

SlowCpu(s) ==
  IF s.cycle["cpu"] = Disable THEN s ELSE [s EXCEPT !.cycle["cpu"] = @ + CopperPenalty]

(* One copper instruction: the end of the list, a MOVE, or a WAIT for a    *)
(* position or for the blitter.                                            *)
CopperEvent ==
  /\ Chip("copper")
  /\ \E s \in {SlowCpu(PopEvent(m))} :
         m' \in {s} \union Access(Insert(s, "copper", Now + CopperStep), Now)
              \union {Insert(s, "copper", Now + d) : d \in CopperWait}
              \union IF s.cycle["blitter"] = Disable THEN {}
                     ELSE {Insert(s, "copper", s.cycle["blitter"] + CopperStep)}

(* busEndOfLine; the CIAs, the disk, the sound, the keyboard and the UART  *)
(* may raise an interrupt.                                                 *)
EndOfLine ==
  /\ Dispatch("eol")
  /\ \E s \in RaiseDelayed(PopEvent(m), Now) :
       m' = Insert(s, "eol", Now + LineCycles)
  /\ elapsed' = Now
  /\ line' = line + 1
  /\ UNCHANGED long_frame
-----------------------------------------------------------------------------
(* busEndOfFrame, in the order of the code.                                *)

CopperEndOfFrame(s) ==
  LET r == [s EXCEPT !.copper_suspended_wait = CopperStart]
  IN  IF s.copper_dma THEN Reschedule(r, "copper", CopperStart) ELSE r

(* Only the CIA clamps its deadline at 0.                                  *)
RebaseCia(s, frame) ==
  IF s.cycle["cia"] = Disable THEN s
  ELSE Reschedule(s, "cia", IF s.cycle["cia"] < frame THEN 0 ELSE s.cycle["cia"] - frame)

(* Mutant: the interrupt event is forgotten.                               *)
RebaseWithoutInterrupt(s, e, frame) ==
  IF s.cycle[e] = Disable \/ e = "interrupt" THEN s
  ELSE Reschedule(s, e, Sub(s.cycle[e], frame))

Rebase(s, e, frame) ==
  IF s.cycle[e] = Disable THEN s ELSE Reschedule(s, e, Sub(s.cycle[e], frame))

(* Mutant: the CPU, which is not in the list, is forgotten.                *)
RebaseCpuNever(s, frame) == s

RebaseCpu(s, frame) ==
  IF s.cycle["cpu"] = Disable THEN s ELSE [s EXCEPT !.cycle["cpu"] = Sub(@, frame)]

(* Mutant: the first line of a frame is one cycle longer than after reset. *)
StartLinesLate(s) == InsertWithNullCheck(Cancel(s, "eol"), "eol", LineCycles)

StartLines(s) == InsertWithNullCheck(Cancel(s, "eol"), "eol", LineCycles - 1)

EndOfFrame ==
  /\ Dispatch("eof")
  /\ long_frame' \in BOOLEAN
  /\ LET frame == Cycles(long_frame)
     IN  \E s \in {CopperEndOfFrame(PopEvent(m))} :
         \E c \in {RebaseCia(s, frame)} :
         \E a \in RaiseDelayed(c, Now),                     \* CIA A's alarm
            raise \in BOOLEAN :                             \* the vertical blank
         \E b \in IF raise /\ a = c THEN RaiseDelayed(Rebase(a, "blitter", frame), Now)
                  ELSE {Rebase(a, "blitter", frame)} :
         \E i \in {Rebase(RebaseCpu(b, frame), "interrupt", frame)} :
         \E l \in {StartLines(i)} :
           m' = Insert(l, "eof", Cycles(long_frame'))
  /\ elapsed' = 0
  /\ line' = 0
-----------------------------------------------------------------------------
Cpu  == RunCpu \/ AbortInstruction \/ RuntimeError \/ ResetInstruction \/ DoubleFault
Chips == InterruptEvent \/ CiaEvent \/ BlitterEvent \/ CopperEvent
Host == RequestStop \/ \E how \in {"run", "step"}, reset \in BOOLEAN : Start(how, reset)

Loop == Cpu \/ Chips \/ EndOfLine \/ EndOfFrame
Next == Loop \/ Host

(* busRun keeps looping as long as it is not left.                         *)
Spec == Init /\ [][Next]_vars /\ WF_vars(Loop)
-----------------------------------------------------------------------------
(* The list is intact and holds exactly the enabled events, each once and  *)
(* in the order of their cycles; busInsertEvent never met an empty list or *)
(* an event already linked.                                                *)
QueueConsistent ==
  /\ ~m.fault
  /\ \A e \in Event : Queued(m, e) <=> m.cycle[e] # Disable
  /\ \A i, k \in 1 .. Len(m.queue) :
       i < k => m.queue[i] # m.queue[k] /\ m.cycle[m.queue[i]] <= m.cycle[m.queue[k]]

(* Nothing is ever scheduled in the past, so that time does not go back    *)
(* within a frame and no deadline wraps around at the end of the frame.    *)
NothingOverdue == \A e \in Timed : m.cycle[e] >= elapsed

(* The raster does not slip: the lines counted are those that have passed, *)
(* and the frame ends when the geometry in use says so, also across resets *)
(* and changes between long and short frames.                              *)
RasterInStep ==
  /\ m.cycle["eol"] = (line + 1) * LineCycles - 1
  /\ m.cycle["eof"] = Cycles(long_frame)
  /\ line \in elapsed \div LineCycles .. (elapsed + 1) \div LineCycles

(* No interrupt is late: its event is never further away than the latency, *)
(* also when it is raised at the very end of a frame; and neither a wakeup *)
(* at that moment nor the copper's penalties put the CPU off for long.     *)
InterruptInTime ==
  /\ m.cycle["interrupt"] # Disable => m.cycle["interrupt"] <= elapsed + Latency
  /\ m.cycle["cpu"] # Disable =>
       \E t \in CpuTime \union AbortTime : m.cycle["cpu"] <= elapsed + t + CopperPenalty

(* Every frame is a number of whole turns of continuous timers: the chips  *)
(* never notice that the end of a frame moves all deadlines.               *)
Timers == INSTANCE EventTimers WITH
            FrameCycles <- {Cycles(long) : long \in BOOLEAN},
            Stale <- StaleClock, Off <- Disable,
            remaining <- [e \in Timed |-> IF m.cycle[e] = Disable THEN Disable
                                          ELSE m.cycle[e] - elapsed]
ImplementsTimers == Timers!Spec

(* A request to stop ends the run loop, also when the CPU is in STOP and   *)
(* when it takes exception after exception.  The one way not to be stopped *)
(* is to reset the machine again and again before its line ends: RESET     *)
(* puts the CPU back to the start of the line, and the loop over CPU turns *)
(* that come before the next event never looks at the request.             *)
StopIsHonoured ==
  \/ stop_request ~> mode = "stopped"
  \/ []<><<ResetInstruction>>_vars

(* Lines and frames keep coming while the emulator runs, unless the        *)
(* program resets the machine again and again.                             *)
RasterKeepsMoving ==
  \/ \A n \in 0..LongLines : line = n ~> (line # n \/ mode = "stopped")
  \/ []<><<ResetInstruction \/ DoubleFault>>_vars
=============================================================================
