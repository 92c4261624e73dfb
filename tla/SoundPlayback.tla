--------------------------- MODULE SoundPlayback ---------------------------
(***************************************************************************)
(* Sound on its way from the emulation to the sound card: the two sample   *)
(* buffers that Sound::EndOfLine fills (Sound.cpp), the hand-over of a     *)
(* full one in DirectSoundDriver::Play, the driver's playback thread       *)
(* (HandleThreadProc), the timer that polls the play position, and the     *)
(* start and stop of a session (DirectSoundDriver.cpp).                    *)
(*                                                                         *)
(* The threads share Windows events, which a wait that they end resets.    *)
(* The sound card is external: a ring buffer of two halves with a play     *)
(* position.  A block of samples is a number, counted modulo Blocks.       *)
(***************************************************************************)
EXTENDS Integers

CONSTANTS
  Capacity,           \* MAX_BUFFER_SAMPLES
  BlockSize,          \* _bufferSampleCountMax
  LineSamples,        \* how many samples a line can add
  Blocks,             \* bound: blocks are counted modulo this
  Polled,             \* ~_notificationSupported
  BufferLoss,         \* may the sound card lose its buffer?
  ResetWhilePlaying   \* may the Amiga be reset while sound is playing?

ASSUME SizeAssumption ==
  /\ Capacity \in Nat /\ BlockSize \in Nat \ {0} /\ 2 * BlockSize <= Capacity
  /\ LineSamples \subseteq 1 .. BlockSize
ASSUME BlocksAssumption == Blocks \in Nat /\ Blocks >= 2
ASSUME SwitchAssumption == {Polled, BufferLoss, ResetWhilePlaying} \subseteq BOOLEAN

Half   == {0, 1}
Mixing == Blocks                    \* the content of a buffer being filled
Next1(b) == IF b = Blocks - 1 THEN 0 ELSE b + 1

(* _notifications[0..2], _dataAvailable and _canAddData.                   *)
End(h) == IF h = 0 THEN "end0" ELSE "end1"
Handle == {"end0", "end1", "stop", "dataAvailable", "canAddData"}

VARIABLES
  session,     \* of the emulation; EmulationStop holds the mutex in "joining"
  mixer,       \* the emulation thread, see TypeOK
  samples,     \* the block in _left[b] and _right[b]
  pending,     \* which buffer _pendingDataLeft and Right point to
  signaled,    \* the events that are set
  player,      \* the playback thread
  device,      \* the secondary buffer of the sound card
  lastHalf,    \* the half _lastReadPosition was in
  expected     \* history: the next block to reach the sound card

vars == <<session, mixer, samples, pending, signaled, player, device, lastHalf, expected>>

TypeOK ==
  /\ session \in {"stopped", "running", "joining"}
  /\ mixer \in [pc : {"mix", "wait", "pend", "reset", "signal", "switch"},
                current : Half,                  \* _currentBuffer
                count : Nat,                     \* _bufferSampleCount
                block : 0 .. Blocks - 1]
  /\ samples \in [Half -> 0 .. Mixing]
  /\ pending \in Half
  /\ signaled \subseteq Handle
  /\ player \in [pc : {"off", "idle", "test", "waitData", "copy", "restart",
                       "resetData", "allow", "resetEnd"},
                 half : Half,                    \* currentBufferNo
                 stopped : BOOLEAN]              \* numberOfEventsInWait = 2
  /\ device \in [state : {"none", "loop", "once", "stopped"},
                 pos : 0 .. 3,      \* even: in half pos \div 2, odd: at its end
                 lost : BOOLEAN]
  /\ lastHalf \in Half
  /\ expected \in 0 .. Blocks - 1

Init ==
  /\ session = "stopped"
  /\ mixer = [pc |-> "mix", current |-> 0, count |-> 0, block |-> 0]
  /\ samples = [b \in Half |-> Mixing]
  /\ pending = 0
  /\ signaled = {}
  /\ player = [pc |-> "off", half |-> 0, stopped |-> FALSE]
  /\ device = [state |-> "none", pos |-> 0, lost |-> FALSE]
  /\ lastHalf = 0
  /\ expected = 0
-----------------------------------------------------------------------------
(* The session.                                                            *)

(* Mutant: an event of the last session is left set.                       *)
EmulationStartStale ==
  /\ session = "stopped"
  /\ session' = "running"
  /\ mixer' = [pc |-> "mix", current |-> 0, count |-> 0, block |-> 0]
  /\ samples' = [samples EXCEPT ![0] = Mixing]
  /\ signaled' = (signaled \intersect {"dataAvailable"}) \union {"canAddData"}
  /\ player' = [player EXCEPT !.pc = "idle"]
  /\ device' = [state |-> "loop", pos |-> 0, lost |-> FALSE]
  /\ lastHalf' = 0
  /\ expected' = 0
  /\ UNCHANGED pending

(* Sound::EmulationStart, when the driver can play.                        *)
EmulationStart ==
  /\ session = "stopped"
  /\ session' = "running"
  /\ mixer' = [pc |-> "mix", current |-> 0, count |-> 0, block |-> 0]
  /\ samples' = [samples EXCEPT ![0] = Mixing]
  /\ signaled' = {"canAddData"}
  /\ player' = [player EXCEPT !.pc = "idle"]
  /\ device' = [state |-> "loop", pos |-> 0, lost |-> FALSE]
  /\ lastHalf' = 0
  /\ expected' = 0
  /\ UNCHANGED pending

(* The emulation thread has come to its end, which it does between lines.  *)
EmulationStop ==
  /\ session = "running" /\ mixer.pc = "mix"
  /\ session' = "joining"
  /\ signaled' = signaled \union {"stop"}
  /\ UNCHANGED <<mixer, samples, pending, player, device, lastHalf, expected>>

Join ==
  /\ session = "joining" /\ player.pc = "off"
  /\ session' = "stopped"
  /\ device' = [device EXCEPT !.state = "none"]
  /\ UNCHANGED <<mixer, samples, pending, signaled, player, lastHalf, expected>>
-----------------------------------------------------------------------------
(* The emulation thread: Sound::EndOfLine.                                 *)

(* FrequencyHandler indexes _left and _right as one long array.            *)
Row == IF mixer.count < Capacity THEN 0 ELSE 1

MixLine(n) ==
  LET count == mixer.count + n
      full  == count - mixer.current * Capacity >= BlockSize
  IN  /\ session = "running" /\ mixer.pc = "mix"
      /\ mixer' = [mixer EXCEPT !.count = count, !.pc = IF full THEN "wait" ELSE "mix"]
      /\ samples' = [samples EXCEPT ![Row] = IF full /\ Row = mixer.current
                                             THEN mixer.block ELSE Mixing]
      /\ UNCHANGED <<session, pending, signaled, player, device, lastHalf, expected>>

Step(from, to) == mixer.pc = from /\ mixer' = [mixer EXCEPT !.pc = to]

(* Mutant: the buffer is handed over without asking.                       *)
PlayUnasked ==
  /\ Step("wait", "pend")
  /\ signaled' = signaled \ {"canAddData"}
  /\ UNCHANGED <<session, samples, pending, player, device, lastHalf, expected>>

(* DirectSoundDriver::Play, one step for each of its calls.                *)
PlayWait ==
  /\ Step("wait", "pend")
  /\ "canAddData" \in signaled
  /\ signaled' = signaled \ {"canAddData"}
  /\ UNCHANGED <<session, samples, pending, player, device, lastHalf, expected>>

PlayPending ==
  /\ Step("pend", "reset")
  /\ pending' = mixer.current
  /\ UNCHANGED <<session, samples, signaled, player, device, lastHalf, expected>>

PlayReset ==
  /\ Step("reset", "signal")
  /\ signaled' = signaled \ {"canAddData"}
  /\ UNCHANGED <<session, samples, pending, player, device, lastHalf, expected>>

PlaySignal ==
  /\ Step("signal", "switch")
  /\ signaled' = signaled \union {"dataAvailable"}
  /\ UNCHANGED <<session, samples, pending, player, device, lastHalf, expected>>

(* Mutant: the number of the buffer is not turned back to 0.               *)
SwitchBufferUnwrapped ==
  LET other   == mixer.current + 1
      overrun == mixer.count - mixer.current * Capacity - BlockSize
  IN  /\ mixer.pc = "switch"
      /\ mixer' = [pc |-> "mix", current |-> other, count |-> other * Capacity + overrun,
                   block |-> Next1(mixer.block)]
      /\ samples' = [samples EXCEPT ![other] = Mixing]
      /\ UNCHANGED <<session, pending, signaled, player, device, lastHalf, expected>>

(* The other buffer starts with the samples that were too many.            *)
SwitchBuffer ==
  LET other   == 1 - mixer.current
      overrun == mixer.count - mixer.current * Capacity - BlockSize
  IN  /\ mixer.pc = "switch"
      /\ mixer' = [pc |-> "mix", current |-> other, count |-> other * Capacity + overrun,
                   block |-> Next1(mixer.block)]
      /\ samples' = [samples EXCEPT ![other] = Mixing]
      /\ UNCHANGED <<session, pending, signaled, player, device, lastHalf, expected>>

(* Sound::HardReset turns back to the first buffer but not the count.      *)
(* Bound: not again before the blocks that this makes have been played.    *)
HardReset ==
  /\ ResetWhilePlaying
  /\ session = "running" /\ mixer.pc = "mix"
  /\ mixer.count - mixer.current * Capacity < BlockSize
  /\ mixer' = [mixer EXCEPT !.current = 0]
  /\ UNCHANGED <<session, samples, pending, signaled, player, device, lastHalf, expected>>

Play == PlayWait \/ PlayPending \/ PlayReset \/ PlaySignal \/ SwitchBuffer
-----------------------------------------------------------------------------
(* The playback thread.                                                    *)

(* A wait for several events is ended by the first that is set.            *)
Wait(handles, i) ==
  /\ handles[i] \in signaled
  /\ \A k \in 1 .. i - 1 : handles[k] \notin signaled
  /\ signaled' = signaled \ {handles[i]}

WaitForEnd ==
  /\ player.pc = "idle"
  /\ LET handles == <<"end0", "end1", "stop">>
     IN  \/ \E h \in Half : /\ Wait(handles, h + 1)
                            /\ player' = [pc |-> "test", half |-> h, stopped |-> FALSE]
         \/ /\ Wait(handles, 3)
            /\ player' = [player EXCEPT !.pc = "off"]
  /\ UNCHANGED <<session, mixer, samples, pending, device, lastHalf, expected>>

TestData ==
  /\ player.pc = "test"
  /\ signaled' = signaled \ {"dataAvailable"}
  /\ player' = [player EXCEPT !.pc = IF "dataAvailable" \in signaled THEN "copy" ELSE "waitData"]
  /\ UNCHANGED <<session, mixer, samples, pending, device, lastHalf, expected>>

(* Mutant: the wait for data does not end when the thread has to.          *)
WaitForDataOnly ==
  /\ player.pc = "waitData"
  /\ Wait(<<"dataAvailable">>, 1)
  /\ player' = [player EXCEPT !.pc = "copy"]
  /\ UNCHANGED <<session, mixer, samples, pending, device, lastHalf, expected>>

(* No data at the end of the next half: play on to the end of the buffer,  *)
(* but not in a loop.                                                      *)
WaitForData ==
  /\ player.pc = "waitData"
  /\ LET handles == <<"dataAvailable", "stop", End(1 - player.half)>>
     IN  \/ /\ Wait(handles, 1)
            /\ player' = [player EXCEPT !.pc = "copy"]
            /\ UNCHANGED device
         \/ /\ Wait(handles, 2)
            /\ player' = [player EXCEPT !.pc = "off"]
            /\ UNCHANGED device
         \/ /\ ~player.stopped /\ Wait(handles, 3)
            /\ player' = [player EXCEPT !.stopped = TRUE]
            /\ device' = [device EXCEPT !.state = IF device.lost THEN @ ELSE "once"]
  /\ UNCHANGED <<session, mixer, samples, pending, lastHalf, expected>>

(* DSoundCopyToBuffer; it gives up on a buffer that is lost.               *)
CopyToBuffer ==
  /\ player.pc = "copy"
  /\ player' = [player EXCEPT !.pc = IF player.stopped THEN "restart" ELSE "resetData"]
  /\ expected' = Next1(expected)
  /\ UNCHANGED <<session, mixer, samples, pending, signaled, device, lastHalf>>

(* Play the buffer in a loop again; here a lost buffer may be restored.    *)
RestartPlayback ==
  /\ player.pc = "restart"
  /\ player' = [player EXCEPT !.pc = "resetData"]
  /\ \/ device' = [device EXCEPT !.state = "loop", !.lost = FALSE]
     \/ device.lost /\ UNCHANGED device
  /\ UNCHANGED <<session, mixer, samples, pending, signaled, lastHalf, expected>>

ResetData ==
  /\ player.pc = "resetData"
  /\ player' = [player EXCEPT !.pc = "allow"]
  /\ signaled' = signaled \ {"dataAvailable"}
  /\ UNCHANGED <<session, mixer, samples, pending, device, lastHalf, expected>>

AllowData ==
  /\ player.pc = "allow"
  /\ player' = [player EXCEPT !.pc = "resetEnd"]
  /\ signaled' = signaled \union {"canAddData"}
  /\ UNCHANGED <<session, mixer, samples, pending, device, lastHalf, expected>>

ResetEnd ==
  /\ player.pc = "resetEnd"
  /\ player' = [player EXCEPT !.pc = "idle"]
  /\ signaled' = signaled \ {End(player.half)}
  /\ UNCHANGED <<session, mixer, samples, pending, device, lastHalf, expected>>

Player == \/ WaitForEnd \/ TestData \/ WaitForData \/ CopyToBuffer
          \/ RestartPlayback \/ ResetData \/ AllowData \/ ResetEnd
-----------------------------------------------------------------------------
(* The sound card plays on.  The timer, every millisecond, never misses a  *)
(* half, which is 10 milliseconds or longer.                               *)
HalfPlaying == device.pos \div 2

Advance ==
  /\ session # "stopped" /\ device.state \in {"loop", "once"} /\ ~device.lost
  /\ Polled /\ session = "running" /\ device.pos \in {1, 3} => lastHalf = HalfPlaying
  /\ LET pos == (device.pos + 1) % 4
     IN  device' = [device EXCEPT !.pos = pos,
                                  !.state = IF pos = 0 /\ @ = "once" THEN "stopped" ELSE @]
  /\ signaled' = signaled \union
                   (IF ~Polled /\ device.pos \in {0, 2} THEN {End(HalfPlaying)} ELSE {})
  /\ UNCHANGED <<session, mixer, samples, pending, player, lastHalf, expected>>

LoseBuffer ==
  /\ BufferLoss /\ session # "stopped" /\ ~device.lost
  /\ device' = [device EXCEPT !.lost = TRUE]
  /\ UNCHANGED <<session, mixer, samples, pending, signaled, player, lastHalf, expected>>

(* Mutant: the position is remembered before it is compared.               *)
PollAfterUpdate ==
  /\ Polled /\ session = "running"
  /\ lastHalf' = HalfPlaying
  /\ signaled' = signaled \union (IF HalfPlaying # lastHalf' THEN {End(lastHalf)} ELSE {})
  /\ UNCHANGED <<session, mixer, samples, pending, player, device, expected>>

(* PollBufferPosition, which needs the mutex: the half that was played     *)
(* last has come to its end.                                               *)
PollBufferPosition ==
  /\ Polled /\ session = "running"
  /\ lastHalf' = HalfPlaying
  /\ signaled' = signaled \union (IF HalfPlaying # lastHalf THEN {End(lastHalf)} ELSE {})
  /\ UNCHANGED <<session, mixer, samples, pending, player, device, expected>>

Next ==
  \/ EmulationStart \/ EmulationStop \/ Join
  \/ (\E n \in LineSamples : MixLine(n)) \/ Play \/ HardReset
  \/ Player
  \/ Advance \/ LoseBuffer \/ PollBufferPosition

(* Every thread runs, the sound card plays and the timer ticks; but        *)
(* neither lines of emulation nor a stop are bound to come.                *)
Fairness == /\ WF_vars(Play) /\ WF_vars(Player) /\ WF_vars(Join)
            /\ WF_vars(Advance) /\ WF_vars(PollBufferPosition)

Spec == Init /\ [][Next]_vars /\ Fairness
-----------------------------------------------------------------------------
(* Who may touch the pending block: one of the threads, or nobody while    *)
(* the event is set that hands it from one to the other.                   *)
Owner == {"canAddData", "mixer", "dataAvailable", "player"}

Owns(o) ==
  \/ o \in signaled
  \/ o = "mixer" /\ mixer.pc \in {"pend", "reset", "signal"}
  \/ o = "player" /\ player.pc \in {"copy", "restart", "resetData", "allow"}

(* There is exactly one owner from the start of a session to its end, also *)
(* after resets and in the middle of a stop: no hand-over is lost and none *)
(* is doubled.                                                             *)
OneOwner ==
  session # "stopped" => \E o \in Owner : \A x \in Owner : Owns(x) <=> x = o

(* What the playback thread copies is a whole block, the one that follows  *)
(* the block copied before, while the emulation goes on filling buffers.   *)
WholeBlocksInOrder == player.pc = "copy" => samples[pending] = expected

(* The emulation is not held up for ever in Play, unless the sound card    *)
(* has lost its buffer: the events of the two threads are never lost       *)
(* between them, and a reset of the Amiga does not hold them up.           *)
PlayReturns == mixer.pc = "wait" ~> mixer.pc # "wait" \/ device.lost

(* EmulationStop comes back, wherever the playback thread is waiting, also *)
(* when the sound card has stopped for good.                               *)
StopCompletes == session = "joining" ~> session = "stopped"

(* "Buffer lost. Try to restore buffer once." (DSoundCopyToBuffer): with   *)
(* no other way for a buffer to come back, some copy has to restore it.    *)
LostBufferIsRestored ==
  [][player.pc = "copy" /\ player'.pc # "copy" => ~device'.lost]_vars
=============================================================================
