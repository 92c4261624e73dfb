-------------------------------- MODULE Uart --------------------------------
(***************************************************************************)
(* The transmitter of the serial port (uart.cpp).  A word goes from the    *)
(* buffer to the shift register as soon as that is empty, and is there for *)
(* as long as its bits take; whether it is done is looked at once in every *)
(* line, and its deadline is moved with the end of every frame.            *)
(*                                                                         *)
(* Nothing fills the receiver's shift register; the copy of RBF that       *)
(* INTREQ hands to it is in Interrupts.                                    *)
(***************************************************************************)
EXTENDS Integers, Sequences, SequencesExt

CONSTANTS
  Words,   \* what programs write to SERDAT, 0 among them
  Times,   \* GetTransmitDoneTime for the rates that programs write to SERPER
  Line,    \* busGetCyclesInThisLine
  Frame    \* busGetCyclesInThisFrame

Never == -1                  \* BUS_CYCLE_DISABLE, beyond any cycle
Shortest == CHOOSE t \in Times : \A u \in Times : t <= u     \* SERPER 0
Longest  == CHOOSE t \in Times : \A u \in Times : u <= t

VARIABLES
  cycle,     \* bus.cycle
  rate,      \* the time of a word by SERPER
  uart,      \* _transmitBuffer, _transmitShiftRegister and what is known of them
  owed,      \* history: words written and neither sent nor overwritten
  shifting,  \* history: the cycles the word in the shift register has been there,
             \* the cycles it needs, and if the clock was reset meanwhile
  early      \* history: a word was done before its time
vars == <<cycle, rate, uart, owed, shifting, early>>

TypeOK ==
  /\ cycle \in 0 .. Frame
  /\ rate \in Times
  /\ uart \in [buffer : Words \union {0}, shift : Words \union {0}, bufferEmpty : BOOLEAN,
               shiftEmpty : BOOLEAN, doneTime : 0 .. Frame + Longest \union {Never}]
  /\ owed \in Seq(Words) /\ Len(owed) <= 2
  /\ shifting \in [for : 0 .. Longest + Line, need : Times, reset : BOOLEAN]
  /\ early \in BOOLEAN

(* ClearState, which only the start of the program calls.                  *)
Init ==
  /\ cycle = 0
  /\ rate = Shortest
  /\ uart = [buffer |-> 0, shift |-> 0, bufferEmpty |-> TRUE, shiftEmpty |-> TRUE,
             doneTime |-> Never]
  /\ owed = <<>>
  /\ shifting = [for |-> 0, need |-> rate, reset |-> FALSE]
  /\ early = FALSE
-----------------------------------------------------------------------------
(* CopyTransmitBufferToShiftRegister                                       *)
Copy(u) ==
  IF ~u.shiftEmpty THEN u
  ELSE [u EXCEPT !.shift = u.buffer, !.shiftEmpty = FALSE, !.bufferEmpty = TRUE,
                 !.doneTime = cycle + rate]

(* A new word in the shift register starts anew.                           *)
Restarted == [for |-> 0, need |-> rate, reset |-> FALSE]

(* WriteSerdatRegister                                                     *)
WriteSerdat(w) ==
  LET u == [uart EXCEPT !.buffer = w, !.bufferEmpty = FALSE]
  IN  /\ uart' = IF w # 0 THEN Copy(u) ELSE u
      /\ owed' = Append(IF uart.bufferEmpty THEN owed ELSE Front(owed), w)
      /\ shifting' = IF w # 0 /\ uart.shiftEmpty THEN Restarted ELSE shifting
      /\ UNCHANGED <<cycle, rate, early>>

(* WriteSerperRegister                                                     *)
WriteSerper(t) == rate' = t /\ UNCHANGED <<cycle, uart, owed, shifting, early>>

(* EndOfLine, for the transmitter.                                         *)
Done == uart.doneTime # Never /\ uart.doneTime <= cycle

Sent ==
  LET u == [uart EXCEPT !.shiftEmpty = TRUE, !.doneTime = Never]
  IN  IF u.bufferEmpty THEN u ELSE Copy(u)

(* The history counts no further than is needed.                           *)
Later ==
  IF uart.shiftEmpty \/ shifting.for = Longest + Line THEN shifting
  ELSE [shifting EXCEPT !.for = @ + 1]

Idle == /\ cycle < Frame /\ cycle % Line # Line - 1
        /\ cycle' = cycle + 1
        /\ shifting' = Later
        /\ UNCHANGED <<rate, uart, owed, early>>

(* The end of a line, one cycle before the next one begins.                *)
EndOfLine ==
  /\ cycle % Line = Line - 1
  /\ cycle' = cycle + 1
  /\ IF Done
     THEN /\ uart' = Sent
          /\ owed' = Tail(owed)
          /\ early' = (early \/ shifting.for < shifting.need)
          /\ shifting' = IF uart.bufferEmpty THEN Restarted ELSE [Restarted EXCEPT !.for = 1]
     ELSE shifting' = Later /\ UNCHANGED <<uart, owed, early>>
  /\ UNCHANGED rate

(* Mutant: the deadline keeps the time of the last frame.                  *)
RebasedNot(done) == done

(* EndOfFrame                                                              *)
Rebased(done) ==
  IF done = Never THEN Never ELSE IF done < Frame THEN 0 ELSE done - Frame

EndOfFrame ==
  /\ cycle = Frame
  /\ cycle' = 0
  /\ uart' = [uart EXCEPT !.doneTime = Rebased(@)]
  /\ UNCHANGED <<rate, owed, shifting, early>>

(* busSoftReset and busHardReset set the clock back; the port is not reset.*)
BusReset ==
  /\ cycle' = 0
  /\ shifting' = IF uart.shiftEmpty THEN shifting ELSE [shifting EXCEPT !.reset = TRUE]
  /\ UNCHANGED <<rate, uart, owed, early>>

Program == (\E w \in Words : WriteSerdat(w)) \/ (\E t \in Times : WriteSerper(t)) \/ BusReset

Next == Idle \/ EndOfLine \/ EndOfFrame \/ Program

Spec == Init /\ [][Next]_vars
-----------------------------------------------------------------------------
(* The words a program writes while the buffer is empty are sent, each     *)
(* once and in order, at whatever cycle of a line or of a frame they are   *)
(* written: none is lost on the way from the buffer to the shift register. *)
WordsInOrder ==
  owed = (IF uart.shiftEmpty THEN <<>> ELSE <<uart.shift>>)
           \o (IF uart.bufferEmpty THEN <<>> ELSE <<uart.buffer>>)

(* A word is in the shift register for as long as its bits take and less   *)
(* than a line longer, also over ends of frames and with the rate changed  *)
(* meanwhile, unless a reset sets the clock back; and no word but 0 waits  *)
(* for an empty shift register.                                            *)
WordTakesItsTime ==
  /\ ~early
  /\ ~uart.shiftEmpty /\ ~shifting.reset => shifting.for < shifting.need + Line
  /\ ~uart.bufferEmpty /\ uart.buffer # 0 => ~uart.shiftEmpty

(* The transmitter sends what it is given, in order and in time: the two   *)
(* invariants above.                                                       *)
WordsAreSent == WordsInOrder /\ WordTakesItsTime
=============================================================================
