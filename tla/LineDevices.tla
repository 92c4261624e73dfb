---------------------------- MODULE LineDevices ----------------------------
(***************************************************************************)
(* The devices that are driven by the end of a line, where busEndOfLine    *)
(* calls ciaUpdateEventCounter(1), floppyEndOfLine, Sound::EndOfLine and   *)
(* Uart::EndOfLine one after the other (for CIA A's counter it is the end  *)
(* of a frame).  They share no state but INTREQ, in which each has a bit   *)
(* of its own: a device that is not used is at rest, and its part of the   *)
(* end of a line changes nothing.  So one device is used at a time, and    *)
(* which one is chosen at the start.                                       *)
(***************************************************************************)
EXTENDS DiskDma

CONSTANTS Words, Times, Line, Frame,                   \* of the serial port
          Blocks, BlockLengths, Periods, Full, Steps,  \* of an audio channel
          Byte                                         \* of the event counter

ASSUME SerialAssumption ==
  /\ Line \in Nat /\ Line >= 2 /\ Frame \in Nat /\ Frame % Line = 0
  /\ Times \subseteq Nat \ {0} /\ Words \subseteq Nat
  /\ \E s, l \in Times : \A t \in Times : s <= t /\ t <= l
ASSUME AudioAssumption ==
  /\ Blocks \in Nat /\ Blocks >= 2 /\ Steps \in 2 .. 3 /\ Full \in Nat \ {0}
  /\ BlockLengths \subseteq Nat \ {0} /\ 2 \in BlockLengths /\ Periods \subseteq 0 .. Full
ASSUME CounterAssumption == Byte \in Nat /\ Byte >= 2

VARIABLES cycle, rate, uart, owed, shifting, early,
          reg, channel, dat, audio, irq, taken, whole, prompt, follows,
          tod, alarmMode, read, set, clock, known, alarmed,
          used      \* the device that the program uses

Serial  == INSTANCE Uart
Audio   == INSTANCE AudioChannel WITH dma <- audio, Lengths <- BlockLengths
Counter == INSTANCE EventCounter

serialVars  == <<cycle, rate, uart, owed, shifting, early>>
audioVars   == <<reg, channel, dat, audio, irq, taken, whole, prompt, follows>>
counterVars == <<tod, alarmMode, read, set, clock, known, alarmed>>
allVars     == <<vars, serialVars, audioVars, counterVars, used>>

LineInit ==
  /\ Init /\ Serial!Init /\ Audio!Init /\ Counter!Init
  /\ used \in {"disk", "serial", "audio", "counter"}

Uses(device) == used = device /\ UNCHANGED used

UseDisk    == Uses("disk") /\ Next /\ UNCHANGED <<serialVars, audioVars, counterVars>>
UseSerial  == Uses("serial") /\ Serial!Next /\ UNCHANGED <<vars, audioVars, counterVars>>
UseAudio   == Uses("audio") /\ Audio!Next /\ UNCHANGED <<vars, serialVars, counterVars>>
UseCounter == Uses("counter") /\ Counter!Next /\ UNCHANGED <<vars, serialVars, audioVars>>

LineNext == UseDisk \/ UseSerial \/ UseAudio \/ UseCounter

LineSpec == LineInit /\ [][LineNext]_allVars
-----------------------------------------------------------------------------
(* The words written to the serial port while its buffer is empty leave it *)
(* each once and in order, and each takes the time of its bits and less    *)
(* than a line more.                                                       *)
WordsAreSent == Serial!WordsAreSent

(* The audio channel fetches the block it took over and no word beyond,    *)
(* and a program that supplies its blocks in time hears none of them twice.*)
BlocksFollow == Audio!BlocksFollow

(* The counter can be read and set byte by byte while it counts, and its   *)
(* alarm is requested whichever of the two comes to the other.             *)
CounterIsRight == Counter!CounterIsRight
=============================================================================
