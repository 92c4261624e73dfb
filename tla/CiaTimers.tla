----------------------------- MODULE CiaTimers -----------------------------
(***************************************************************************)
(* The interval timers of the two CIAs (ComplexInterfaceAdapter.cpp).      *)
(* While a timer runs, only the bus cycle at which it will expire is kept  *)
(* (taleft, tbleft); while it stands still, its count and what a division  *)
(* by the clock ratio left over (ta and ta_rem).  Each register write goes *)
(* from one form to the other and back, each end of frame moves the origin *)
(* of time, and all four timers and the recheck of the interrupt line      *)
(* share the one bus event ciaEvent.                                       *)
(*                                                                         *)
(* A timer is <<i, "A">> or <<i, "B">>, for CIA i.                         *)
(***************************************************************************)
EXTENDS Integers

CONSTANTS
  Cia,            \* which CIAs there are, of 0 and 1
  Ratio,          \* CIA_BUS_CYCLE_RATIO, 5
  Byte,           \* the values of a register, 256
  Frame,          \* busGetCyclesInThisFrame
  RecheckDelay    \* 10

Wrap == Byte * Byte
ASSUME CiaAssumption   == Cia \subseteq {0, 1}
ASSUME RatioAssumption == Ratio \in Nat \ {0} /\ Frame \in Nat \ {0}
ASSUME ByteAssumption  == Byte \in Nat /\ Byte >= 2
ASSUME DelayAssumption == RecheckDelay \in Nat

Timer   == Cia \X {"A", "B"}
Recheck == <<-1, "A">>
Source  == Timer \union {Recheck}
Never   == -1                     \* BUS_CYCLE_DISABLE, beyond any cycle
NoEvent == [source |-> Recheck, time |-> Never]

VARIABLES
  cycle,      \* bus.cycle
  timer,      \* ta, ta_rem, talatch, taleft and the bits of cra, or those of B
  attached,   \* bit 6 of crb: does B count the timeouts of A?
  recheck,    \* cia_recheck_irq_time, Never unless cia_recheck_irq
  event,      \* cia_next_event_type and ciaEvent.cycle
  from,       \* history: the count each timer was last loaded with
  ran,        \* history: for how many cycles it has counted since
  disturbed   \* history: timers that do not count from where they stood
history == <<from, ran, disturbed>>
vars == <<cycle, timer, attached, recheck, event, history>>

TypeOK ==
  /\ cycle \in 0 .. Frame
  /\ timer \in [Timer -> [count : 0 .. Wrap - 1, rem : 0 .. Ratio - 1, latch : 0 .. Wrap - 1,
                          left : Nat \union {Never}, running : BOOLEAN, oneShot : BOOLEAN]]
  /\ attached \in [Cia -> BOOLEAN]
  /\ recheck \in Nat \union {Never}
  /\ event \in [source : Source, time : Nat \union {Never}]
  /\ from \in [Timer -> 0 .. Wrap]
  /\ ran \in [Timer -> Nat]
  /\ disturbed \subseteq Timer
-----------------------------------------------------------------------------
Other(t)    == <<t[1], IF t[2] = "A" THEN "B" ELSE "A">>
Cascaded(t) == t[2] = "B" /\ attached[t[1]]

(* ciaGetTimerValue                                                        *)
Value(latch) == IF latch = 0 THEN 1 ELSE latch

(* ciaTAStabilize and ciaTBStabilize: a timer that counts cycles, frozen.  *)
Frozen(x, freeRunning) ==
  IF freeRunning THEN [x EXCEPT !.count = (x.left - cycle) \div Ratio,
                                !.rem = (x.left - cycle) % Ratio, !.left = Never]
                 ELSE [x EXCEPT !.left = Never]

(* Mutant: what is left of the division is forgotten.                      *)
ThawedRounded(x, freeRunning) ==
  IF freeRunning THEN [x EXCEPT !.left = x.count * Ratio + cycle] ELSE x

(* ciaTAUnstabilize and ciaTBUnstabilize                                   *)
Thawed(x, freeRunning) ==
  IF freeRunning THEN [x EXCEPT !.left = x.count * Ratio + cycle + x.rem] ELSE x

(* Loaded from its latch, with nothing left over.                          *)
Loaded(x) == [x EXCEPT !.count = Value(x.latch), !.rem = 0]

(* ciaSetupNextEvent: the earliest of the recheck and the timers, and the  *)
(* first in that order of those that are equal.                            *)
First(s, u) == s[1] < u[1] \/ (s[1] = u[1] /\ (s[2] = "A" \/ u[2] = "B"))

(* Mutant: timers that are due together with another are passed over.      *)
NextEventStrict(timers, check) ==
  LET Time(s)  == IF s = Recheck THEN check ELSE timers[s].left
      waiting  == {s \in Source : Time(s) # Never}
      earliest == {s \in waiting : \A u \in waiting \ {s} : Time(s) < Time(u)}
  IN  IF earliest = {} THEN NoEvent
      ELSE LET s == CHOOSE s \in earliest : TRUE IN [source |-> s, time |-> Time(s)]

NextEvent(timers, check) ==
  LET Time(s)  == IF s = Recheck THEN check ELSE timers[s].left
      waiting  == {s \in Source : Time(s) # Never}
      earliest == {s \in waiting : \A u \in waiting :
                     Time(s) < Time(u) \/ (Time(s) = Time(u) /\ First(s, u))}
  IN  IF waiting = {} THEN NoEvent
      ELSE LET s == CHOOSE s \in earliest : TRUE IN [source |-> s, time |-> Time(s)]

(* ciaStateClear; what was left over of a division stays.                  *)
Cleared(rem) == [count |-> Wrap - 1, rem |-> rem, latch |-> Wrap - 1, left |-> Never,
                 running |-> FALSE, oneShot |-> FALSE]

Init ==
  /\ cycle = 0
  /\ timer = [t \in Timer |-> Cleared(0)]
  /\ attached = [i \in Cia |-> FALSE]
  /\ recheck = Never
  /\ event = NoEvent
  /\ from = [t \in Timer |-> Wrap - 1]
  /\ ran = [t \in Timer |-> 0]
  /\ disturbed = {}
-----------------------------------------------------------------------------
(* Time.  A timer that runs counts one cycle in each, or Ratio cycles in   *)
(* each timeout of A if it is attached.                                    *)
Clock ==
  /\ cycle < Frame
  /\ event.time = Never \/ event.time > cycle
  /\ cycle' = cycle + 1
  /\ ran' = [t \in Timer |->
              ran[t] + IF timer[t].running /\ ~Cascaded(t) /\ t \notin disturbed THEN 1 ELSE 0]
  /\ UNCHANGED <<timer, attached, recheck, event, from, disturbed>>

(* ciaUpdateTimersEOF; the time of a recheck is not clamped.               *)
Rebased(time) == IF time = Never THEN Never ELSE IF time < Frame THEN 0 ELSE time - Frame

EndOfFrame ==
  /\ cycle = Frame
  /\ cycle' = 0
  /\ timer' = [t \in Timer |-> [timer[t] EXCEPT !.left = Rebased(@)]]
  /\ recheck' = IF recheck = Never THEN Never ELSE recheck - Frame
  /\ event' = [event EXCEPT !.time = Rebased(@)]
  /\ UNCHANGED <<attached, history>>

(* What the histories make of timers that are loaded, have counted, or are *)
(* disturbed.                                                              *)
Remember(loaded, counted, upset) ==
  /\ disturbed' = (disturbed \ loaded) \union upset
  /\ from' = [t \in Timer |-> IF t \in loaded \union upset THEN timer'[t].count ELSE from[t]]
  /\ ran'  = [t \in Timer |-> IF t \in loaded \union disturbed' THEN 0 ELSE counted[t]]

(* ciaHandleTATimeout and ciaHandleTBTimeout, for the timer itself: it is  *)
(* loaded, and stops or goes on.                                           *)
Expired(x, cascaded) ==
  [x EXCEPT !.count = Value(x.latch),
            !.running = @ /\ ~x.oneShot,
            !.left = IF x.oneShot THEN Never
                     ELSE IF cascaded THEN @ ELSE Value(x.latch) * Ratio + cycle]

(* ciaHandleEvent for a timer: a timeout of A counts B down if B is        *)
(* attached and started, and may make it expire first.                     *)
Timeout(t) ==
  LET b       == Other(t)
      counts  == t[2] = "A" /\ Cascaded(b) /\ timer[b].running
      down    == (timer[b].count - 1) % Wrap
      both    == counts /\ down = 0
      counted == IF counts THEN [ran EXCEPT ![b] = @ + Ratio] ELSE ran
  IN  /\ event.source = t /\ event.time = cycle
      /\ timer' = [timer EXCEPT ![t] = Expired(@, Cascaded(t)),
                                ![b] = IF both THEN Expired(@, TRUE)
                                       ELSE IF counts THEN [@ EXCEPT !.count = down] ELSE @]
      /\ event' = NextEvent(timer', recheck)
      /\ Remember({t} \union {u \in {b} : both}, counted,
                  {u \in {b} : counts /\ timer[b].count = 0})
      /\ UNCHANGED <<cycle, attached, recheck>>

(* Mutant: after a recheck the timers are not looked at.                   *)
RecheckEventAlone ==
  /\ event.source = Recheck /\ event.time = cycle
  /\ recheck' = Never
  /\ event' = NoEvent
  /\ UNCHANGED <<cycle, timer, attached, history>>

(* ciaHandleEvent for the recheck.                                         *)
RecheckEvent ==
  /\ event.source = Recheck /\ event.time = cycle
  /\ recheck' = Never
  /\ event' = NextEvent(timer, Never)
  /\ UNCHANGED <<cycle, timer, attached, history>>

(* ciaRecheckIRQ, of a write to INTREQ.                                    *)
RecheckIRQ ==
  /\ recheck' = cycle + RecheckDelay
  /\ event' = NextEvent(timer, recheck')
  /\ UNCHANGED <<cycle, timer, attached, history>>
-----------------------------------------------------------------------------
(* Register writes.                                                        *)

WriteLo(t, data) ==
  /\ timer' = [timer EXCEPT ![t].latch = (@ \div Byte) * Byte + data]
  /\ UNCHANGED <<cycle, attached, recheck, event, history>>

(* ciaWritetahi and ciaWritetbhi.  In one-shot mode the write starts the   *)
(* timer, and then both timers of the CIA are given a new time.            *)
WriteHi(t, data) ==
  LET b       == Other(t)
      latched == [timer[t] EXCEPT !.latch = data * Byte + (@ % Byte)]
      reload  == ~latched.running \/ latched.oneShot
      set     == IF reload THEN [Loaded(latched) EXCEPT !.left = Never] ELSE latched
      started == [set EXCEPT !.running = TRUE]
      other   == timer[b].running /\ ~Cascaded(b)
  IN  /\ timer' = IF latched.oneShot
                  THEN [timer EXCEPT ![t] = Thawed(started, ~Cascaded(t)), ![b] = Thawed(@, other)]
                  ELSE [timer EXCEPT ![t] = set]
      /\ event' = IF latched.oneShot THEN NextEvent(timer', recheck) ELSE event
      /\ Remember({u \in {t} : reload}, ran, {u \in {b} : latched.oneShot /\ other})
      /\ UNCHANGED <<cycle, attached, recheck>>

(* ciaWritecra and ciaWritecrb: both timers of the CIA are frozen, the one *)
(* that is written may be loaded, and both go on under the new register.   *)
WriteControl(t, start, oneShot, load, attach) ==
  LET i        == t[1]
      free(u)  == timer[u].running /\ ~Cascaded(u)
      frozen   == [u \in Timer |-> IF u[1] = i THEN Frozen(timer[u], free(u)) ELSE timer[u]]
      written  == [frozen EXCEPT ![t] = [(IF load THEN Loaded(@) ELSE @)
                                           EXCEPT !.running = start, !.oneShot = oneShot]]
  IN  /\ attached' = IF t[2] = "B" THEN [attached EXCEPT ![i] = attach] ELSE attached
      /\ timer' = [u \in Timer |->
                    IF u[1] = i
                    THEN Thawed(written[u],
                                written[u].running /\ ~(u[2] = "B" /\ attached'[i]))
                    ELSE written[u]]
      /\ event' = NextEvent(timer', recheck)
      /\ Remember({u \in {t} : load}, ran, {})
      /\ UNCHANGED <<cycle, recheck>>

(* busHardReset or busSoftReset, and then ciaHardReset.                    *)
HardReset ==
  /\ cycle' = 0
  /\ timer' = [t \in Timer |-> Cleared(timer[t].rem)]
  /\ attached' = [i \in Cia |-> FALSE]
  /\ recheck' = Never
  /\ event' = NoEvent
  /\ from' = [t \in Timer |-> Wrap - 1]
  /\ ran' = [t \in Timer |-> 0]
  /\ disturbed' = {}

Write ==
  \E t \in Timer :
    \/ \E data \in 0 .. Byte - 1 : WriteLo(t, data) \/ WriteHi(t, data)
    \/ \E start, oneShot, load \in BOOLEAN, attach \in {FALSE, t[2] = "B"} :
         WriteControl(t, start, oneShot, load, attach)

Time == Clock \/ EndOfFrame \/ (\E t \in Timer : Timeout(t)) \/ RecheckEvent

Next == Time \/ RecheckIRQ \/ Write \/ HardReset
Spec == Init /\ [][Next]_vars /\ WF_vars(Time)
-----------------------------------------------------------------------------
(* The cycles that a timer has still to count.                             *)
Remaining(t) == IF timer[t].running /\ ~Cascaded(t) THEN timer[t].left - cycle
                ELSE timer[t].count * Ratio + timer[t].rem

(* Stopped, started, attached and carried over the end of a frame,   *)
(* a timer has counted from where it was loaded and no cycle is lost or    *)
(* counted twice; up to Ratio - 1 cycles may be added from a division that *)
(* a timeout in one-shot mode left behind.  Excepted are a timer whose     *)
(* neighbour was started by a write to its high byte, and one that was     *)
(* attached with a count of 0 and wraps.                                   *)
TimersKeepTime ==
  \A t \in Timer \ disturbed : ran[t] + Remaining(t) - from[t] * Ratio \in 0 .. Ratio - 1

(* The one bus event stands for the earliest of all that wait for it, and  *)
(* none of them is in the past.                                            *)
EventIsEarliest ==
  /\ event = NextEvent(timer, recheck)
  /\ event.time # Never => event.time >= cycle

(* When no register is written any more, no timer that counts is           *)
(* forgotten: each stops or is loaded again and again, although one event  *)
(* serves them all.                                                        *)
Counting(t) == timer[t].running /\ (Cascaded(t) => timer[Other(t)].running)

TimersExpire ==
  <>[][Time]_vars => \A t \in Timer : []<>(Counting(t) => ran[t] = 0)
=============================================================================
