---------------------------- MODULE EventCounter ----------------------------
(***************************************************************************)
(* The event counter of a CIA with its alarm (ComplexInterfaceAdapter.cpp):*)
(* CIA B's counts lines, CIA A's frames.  A program can touch one byte at  *)
(* a time, and the counter goes on between its accesses.                   *)
(***************************************************************************)
EXTENDS Integers

CONSTANT Byte            \* the values of a byte, 256

Part   == {"hi", "mi", "lo"}
Weight == [hi |-> Byte * Byte, mi |-> Byte, lo |-> 1]
Wrap   == Byte * Byte * Byte
Time   == 0 .. Wrap - 1

Get(time, p)    == (time \div Weight[p]) % Byte
Put(time, p, b) == time + (b - Get(time, p)) * Weight[p]

VARIABLES
  tod,        \* ev, evlatch, evlatching, evalarm, evwritelatch, evwritelatching
  alarmMode,  \* bit 7 of crb: writes go to the alarm
  read,       \* history: parts read since the high one, if they fit together,
              \* and the time then
  set,        \* history: parts written since the high one, and the time they make
  clock,      \* history: the time the program has set and the counter ought to have
  known,      \* history: whether it has
  alarmed     \* history: the alarm was requested since counter and alarm are equal
history == <<read, set, clock, known, alarmed>>
vars == <<tod, alarmMode, history>>

TypeOK ==
  /\ tod \in [ev : Time, latch : Time, latching : BOOLEAN, alarm : Time,
              writeLatch : Time, stopped : BOOLEAN]
  /\ alarmMode \in BOOLEAN
  /\ read \in [parts : SUBSET Part, whole : BOOLEAN, at : Time]
  /\ set \in [parts : SUBSET Part, time : Time]
  /\ clock \in Time /\ known \in BOOLEAN /\ alarmed \in BOOLEAN

Cleared == [ev |-> 0, latch |-> 0, latching |-> FALSE, alarm |-> 0,
            writeLatch |-> 0, stopped |-> FALSE]

Init ==
  /\ tod = Cleared /\ alarmMode = FALSE
  /\ read = [parts |-> {}, whole |-> TRUE, at |-> 0]
  /\ set = [parts |-> {}, time |-> 0]
  /\ clock = 0 /\ known = TRUE /\ alarmed = TRUE
-----------------------------------------------------------------------------
(* ciaCheckAlarmMatch: the alarm is requested if the values are equal.     *)
CheckAlarm(c) ==
  alarmed' = (c.ev = c.alarm \/ (alarmed /\ c.ev = tod.ev /\ c.alarm = tod.alarm))
NoAlarm(c) == alarmed' = (alarmed /\ c.ev = tod.ev /\ c.alarm = tod.alarm)

(* ciaUpdateEventCounter, at the end of every line or frame.               *)
Count ==
  /\ ~tod.stopped
  /\ tod' = [tod EXCEPT !.ev = (@ + 1) % Wrap]
  /\ CheckAlarm(tod')
  /\ clock' = (clock + 1) % Wrap
  /\ UNCHANGED <<alarmMode, read, set, known>>

(* The program puts the parts together that it reads from the high one on. *)
Seen(p, b) ==
  IF p = "hi" THEN [parts |-> {"hi"}, whole |-> TRUE, at |-> tod.ev]
  ELSE IF "hi" \notin read.parts \/ "lo" \in read.parts THEN [read EXCEPT !.parts = {}]
  ELSE [read EXCEPT !.parts = @ \union {p}, !.whole = @ /\ b = Get(read.at, p)]

(* ciaReadevhi, ciaReadevmi, ciaReadevlo                                   *)
ReadEvHi ==
  /\ tod' = [tod EXCEPT !.latching = TRUE, !.latch = tod.ev]
  /\ read' = Seen("hi", Get(tod.ev, "hi"))
  /\ UNCHANGED <<alarmMode, set, clock, known, alarmed>>

Latched == IF tod.latching THEN tod.latch ELSE tod.ev

ReadEvMi ==
  /\ read' = Seen("mi", Get(Latched, "mi"))
  /\ UNCHANGED <<tod, alarmMode, set, clock, known, alarmed>>

ReadEvLo ==
  /\ read' = Seen("lo", Get(Latched, "lo"))
  /\ tod' = [tod EXCEPT !.latching = FALSE]
  /\ UNCHANGED <<alarmMode, set, clock, known, alarmed>>

(* The alarm's bytes are compared one by one.                              *)
WriteAlarm(p, b) ==
  /\ alarmMode
  /\ tod' = [tod EXCEPT !.alarm = Put(@, p, b)]
  /\ CheckAlarm(tod')
  /\ UNCHANGED <<alarmMode, read, set, clock, known>>

(* ciaWriteevhi and ciaWriteevmi stop the counter, ciaWriteevlo sets it.   *)
WriteHigher(p, b) ==
  /\ ~alarmMode /\ p \in {"hi", "mi"}
  /\ tod' = [tod EXCEPT !.stopped = TRUE, !.writeLatch = Put(@, p, b)]
  /\ set' = [parts |-> IF p = "hi" THEN {"hi"} ELSE set.parts \union {"mi"},
             time |-> Put(set.time, p, b)]
  /\ NoAlarm(tod')
  /\ UNCHANGED <<alarmMode, read, clock, known>>

(* Mutant: the alarm is not looked at when the time is set.                *)
WriteEvLoUnchecked(b) ==
  /\ ~alarmMode
  /\ tod' = [tod EXCEPT !.stopped = FALSE, !.writeLatch = Put(@, "lo", b), !.ev = Put(tod.writeLatch, "lo", b)]
  /\ clock' = Put(set.time, "lo", b) /\ known' = (set.parts = {"hi", "mi"})
  /\ set' = [parts |-> {}, time |-> clock']
  /\ NoAlarm(tod')
  /\ UNCHANGED <<alarmMode, read>>

WriteEvLo(b) ==
  /\ ~alarmMode
  /\ tod' = [tod EXCEPT !.stopped = FALSE, !.writeLatch = Put(@, "lo", b), !.ev = Put(tod.writeLatch, "lo", b)]
  /\ clock' = Put(set.time, "lo", b) /\ known' = (set.parts = {"hi", "mi"})
  /\ set' = [parts |-> {}, time |-> clock']
  /\ CheckAlarm(tod')
  /\ UNCHANGED <<alarmMode, read>>

WriteCrb(alarm) == alarmMode' = alarm /\ UNCHANGED <<tod, history>>

(* ciaStateClear                                                           *)
HardReset ==
  /\ tod' = Cleared /\ alarmMode' = FALSE
  /\ read' = [read EXCEPT !.parts = {}] /\ set' = [parts |-> {}, time |-> 0]
  /\ clock' = 0 /\ known' = TRUE /\ alarmed' = TRUE

Reader == ReadEvHi \/ ReadEvMi \/ ReadEvLo
Setter == \E b \in 0 .. Byte - 1 :
            WriteEvLo(b) \/ \E p \in Part : WriteHigher(p, b) \/ WriteAlarm(p, b)

Next == Count \/ Reader \/ Setter \/ (\E b \in BOOLEAN : WriteCrb(b)) \/ HardReset

Spec == Init /\ [][Next]_vars
-----------------------------------------------------------------------------
(* What a program reads from the high byte to the low one is the time at   *)
(* which it read the high byte, however far the counter goes on meanwhile, *)
(* also when the counter or the alarm is set in between; and one that sets *)
(* the high, the middle and the low byte starts the counter at that time:  *)
(* it does not run before the last of them, and not from a mixture of the  *)
(* new time and an old one.                                                *)
TimeIsWhole == read.whole /\ (known => tod.ev = clock)

(* Whether the counter runs into the alarm, the alarm is set to the time   *)
(* or the time to the alarm: an alarm that is due has been requested.      *)
AlarmIsNotMissed == tod.ev = tod.alarm => alarmed

(* The counter and its alarm are right, in whatever order a program reads  *)
(* and sets their bytes: the two invariants above.                         *)
CounterIsRight == TimeIsWhole /\ AlarmIsNotMissed
=============================================================================
