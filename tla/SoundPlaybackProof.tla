------------------------- MODULE SoundPlaybackProof -------------------------
(***************************************************************************)
(* Proofs about SoundPlayback, for every size of the buffers and blocks    *)
(* and every number of samples in a line.  The hand-over needs only that   *)
(* there is one owner of the pending block.  That the blocks are whole and *)
(* in order needs in addition where the emulation stands: which block the  *)
(* owner holds, in which buffer, and that the buffer being filled is the   *)
(* one _bufferSampleCount points into, which a reset spoils.               *)
(***************************************************************************)
EXTENDS SoundPlayback, TLAPS

(* The samples in the current buffer.                                      *)
Filled == mixer.count - mixer.current * Capacity

Playing == mixer.pc \in {"wait", "pend", "reset", "signal", "switch"}

(* A buffer is handed over when it is full.                                *)
FullWhenPlayed == Playing => Filled >= BlockSize

HandOver == TypeOK /\ FullWhenPlayed /\ OneOwner

(* The pending block waits for, or is in, the playback thread's copy ...   *)
Available == "dataAvailable" \in signaled \/ player.pc = "copy"

(* ... or it has been copied and the next one is asked for.                *)
Copied == "canAddData" \in signaled \/ player.pc \in {"restart", "resetData", "allow"}

CountInBuffer ==
  /\ mixer.pc = "mix" => Filled \in 0 .. BlockSize - 1
  /\ Playing => Filled \in BlockSize .. 2 * BlockSize - 1

BlockMixed == Playing => samples[mixer.current] = mixer.block

Pending ==
  /\ mixer.pc \in {"pend", "reset", "signal"} => expected = mixer.block
  /\ mixer.pc \in {"reset", "signal"} => pending = mixer.current
  /\ Available =>
       IF mixer.pc = "switch"
       THEN pending = mixer.current /\ expected = mixer.block
       ELSE /\ pending = 1 - mixer.current
            /\ mixer.block = Next1(expected)
            /\ samples[pending] = expected
  /\ Copied => expected = IF mixer.pc = "switch" THEN Next1(mixer.block) ELSE mixer.block

InOrder == session # "stopped" => CountInBuffer /\ BlockMixed /\ Pending

IInv == HandOver /\ InOrder

(* Between the sessions there is no playback thread.                       *)
StoppedIsOff == session = "stopped" => player.pc = "off"
-----------------------------------------------------------------------------
LEMMA BlocksType == Blocks \in Nat /\ Blocks >= 2
BY BlocksAssumption

LEMMA Sizes == /\ Capacity \in Nat /\ BlockSize \in Nat /\ BlockSize >= 1
               /\ 2 * BlockSize <= Capacity
               /\ \A n \in LineSamples : n \in Nat /\ 1 <= n /\ n <= BlockSize
BY SizeAssumption

(* One owner, spelled out.                                                 *)
Exactly1(a, m, d, p) ==
  /\ a \/ m \/ d \/ p
  /\ ~(a /\ m) /\ ~(a /\ d) /\ ~(a /\ p) /\ ~(m /\ d) /\ ~(m /\ p) /\ ~(d /\ p)

MixerOwns == mixer.pc \in {"pend", "reset", "signal"}

PlayerOwns == player.pc \in {"copy", "restart", "resetData", "allow"}

SpelledOut ==
  Exactly1("canAddData" \in signaled, MixerOwns, "dataAvailable" \in signaled, PlayerOwns)

LEMMA OwnerSpelledOut ==
  ASSUME TypeOK PROVE OneOwner <=> (session # "stopped" => SpelledOut)
<1>1. "mixer" \notin signaled /\ "player" \notin signaled
  BY DEF TypeOK, Handle
<1>2. /\ Owns("canAddData") <=> "canAddData" \in signaled
      /\ Owns("mixer") <=> MixerOwns
      /\ Owns("dataAvailable") <=> "dataAvailable" \in signaled
      /\ Owns("player") <=> PlayerOwns
  BY <1>1 DEF Owns, MixerOwns, PlayerOwns
<1>3. (\E o \in Owner : \A x \in Owner : Owns(x) <=> x = o)
       <=> Exactly1(Owns("canAddData"), Owns("mixer"), Owns("dataAvailable"), Owns("player"))
  BY DEF Owner, Exactly1
<1> QED  BY <1>2, <1>3 DEF OneOwner, SpelledOut, Exactly1

LEMMA OwnerSpelledOutPrime ==
  ASSUME TypeOK' PROVE OneOwner' <=> (session' # "stopped" => SpelledOut')
<1>1. "mixer" \notin signaled' /\ "player" \notin signaled'
  BY DEF TypeOK, Handle
<1>2. /\ Owns("canAddData")' <=> "canAddData" \in signaled'
      /\ Owns("mixer")' <=> MixerOwns'
      /\ Owns("dataAvailable")' <=> "dataAvailable" \in signaled'
      /\ Owns("player")' <=> PlayerOwns'
  BY <1>1 DEF Owns, MixerOwns, PlayerOwns
<1>3. (\E o \in Owner : \A x \in Owner : Owns(x)' <=> x = o)
       <=> Exactly1(Owns("canAddData")', Owns("mixer")', Owns("dataAvailable")', Owns("player")')
  BY DEF Owner, Exactly1
<1> QED  BY <1>2, <1>3 DEF OneOwner, SpelledOut, Exactly1

LEMMA Wrap == \A b \in 0 .. Blocks - 1 : Next1(b) \in 0 .. Blocks - 1
BY BlocksType DEF Next1
-----------------------------------------------------------------------------
LEMMA InitIInv == Init => IInv
<1> SUFFICES ASSUME Init PROVE IInv
  OBVIOUS
<1>1. TypeOK
  BY BlocksType DEF Init, TypeOK, Half, Handle, Mixing
<1>2. FullWhenPlayed
  BY DEF Init, FullWhenPlayed, Playing
<1> QED  BY <1>1, <1>2 DEF Init, IInv, HandOver, OneOwner, InOrder

(* The session starts and ends.                                            *)
LEMMA SessionHandOver ==
  ASSUME HandOver, EmulationStart \/ EmulationStop \/ Join PROVE HandOver'
<1>1. CASE EmulationStart
  <2>1. TypeOK'
    BY <1>1, BlocksType DEF EmulationStart, HandOver, TypeOK, Half, Handle, Mixing
  <2>2. FullWhenPlayed'
    BY <1>1 DEF EmulationStart, FullWhenPlayed, Playing
  <2>3. SpelledOut'
    <3>1. mixer'.pc = "mix" /\ player'.pc = "idle" /\ signaled' = {"canAddData"}
      BY <1>1 DEF EmulationStart, HandOver, TypeOK
    <3> QED  BY <3>1 DEF SpelledOut, Exactly1, MixerOwns, PlayerOwns
  <2> QED  BY <2>1, <2>2, <2>3, OwnerSpelledOutPrime DEF HandOver
<1>2. CASE EmulationStop
  <2>1. TypeOK'
    BY <1>2 DEF EmulationStop, HandOver, TypeOK, Handle
  <2>2. FullWhenPlayed'
    BY <1>2 DEF EmulationStop, HandOver, FullWhenPlayed, Playing, Filled
  <2>3. SpelledOut'
    BY <1>2, OwnerSpelledOut
       DEF EmulationStop, HandOver, SpelledOut, Exactly1, MixerOwns, PlayerOwns
  <2> QED  BY <2>1, <2>2, <2>3, OwnerSpelledOutPrime DEF HandOver
<1>3. CASE Join
  <2>1. TypeOK'
    BY <1>3 DEF Join, HandOver, TypeOK
  <2>2. FullWhenPlayed'
    BY <1>3 DEF Join, HandOver, FullWhenPlayed, Playing, Filled
  <2> QED  BY <1>3, <2>1, <2>2 DEF HandOver, OneOwner, Join
<1> QED  BY <1>1, <1>2, <1>3
(* Only PlayWait and PlaySignal move the ownership.                        *)
LEMMA MixerHandOver ==
  ASSUME HandOver, (\E n \in LineSamples : MixLine(n)) \/ Play \/ HardReset
  PROVE  HandOver'
<1>1. CASE \E n \in LineSamples : MixLine(n)
  <2>1. PICK n \in LineSamples : MixLine(n)
    BY <1>1
  <2> DEFINE count == mixer.count + n
             full  == count - mixer.current * Capacity >= BlockSize
  <2>2. mixer' = [mixer EXCEPT !.count = count, !.pc = IF full THEN "wait" ELSE "mix"]
    BY <2>1 DEF MixLine
  <2>3. /\ mixer'.pc = IF full THEN "wait" ELSE "mix"
        /\ mixer'.count = count /\ mixer'.current = mixer.current
    BY <2>2 DEF HandOver, TypeOK
  <2>4. count \in Nat
    BY Sizes DEF HandOver, TypeOK
  <2>5. TypeOK'
    <3>1. mixer' \in [pc : {"mix", "wait", "pend", "reset", "signal", "switch"},
                      current : Half, count : Nat, block : 0 .. Blocks - 1]
      BY <2>2, <2>4 DEF HandOver, TypeOK
    <3>2. Row \in Half /\ mixer.block \in 0 .. Mixing /\ Mixing \in 0 .. Mixing
      BY BlocksType DEF HandOver, TypeOK, Row, Half, Mixing
    <3>3. samples' \in [Half -> 0 .. Mixing]
      BY <2>1, <3>2 DEF HandOver, TypeOK, MixLine
    <3> QED  BY <2>1, <3>1, <3>3 DEF HandOver, TypeOK, MixLine
  <2>6. FullWhenPlayed'
    BY <2>3 DEF FullWhenPlayed, Playing, Filled
  <2>7. session' # "stopped" => SpelledOut'
    <3>1. ~MixerOwns /\ ~MixerOwns'
      <4>1. mixer.pc = "mix" /\ mixer'.pc \in {"mix", "wait"}
        BY <2>1, <2>3 DEF MixLine
      <4> QED  BY <4>1 DEF MixerOwns
    <3>2. UNCHANGED <<session, signaled, player>>
      BY <2>1 DEF MixLine
    <3> QED  BY <3>1, <3>2, OwnerSpelledOut
             DEF HandOver, SpelledOut, Exactly1, PlayerOwns
  <2> QED  BY <2>5, <2>6, <2>7, OwnerSpelledOutPrime DEF HandOver
<1>2. CASE PlayWait
  <2>1. mixer' = [mixer EXCEPT !.pc = "pend"] /\ mixer.pc = "wait"
    BY <1>2 DEF PlayWait, Step
  <2>2. mixer'.pc = "pend" /\ Filled' = Filled /\ Filled >= BlockSize
    BY <1>2, <2>1 DEF HandOver, TypeOK, Filled, FullWhenPlayed, Playing
  <2>3. TypeOK'
    BY <1>2, <2>1 DEF PlayWait, HandOver, TypeOK, Handle
  <2>4. session' # "stopped" => SpelledOut'
    BY <1>2, <2>1, <2>2, OwnerSpelledOut
       DEF PlayWait, HandOver, SpelledOut, Exactly1, MixerOwns, PlayerOwns
  <2> QED  BY <2>2, <2>3, <2>4, OwnerSpelledOutPrime DEF HandOver, FullWhenPlayed
<1>3. CASE PlayPending
  <2>1. mixer' = [mixer EXCEPT !.pc = "reset"] /\ mixer.pc = "pend"
    BY <1>3 DEF PlayPending, Step
  <2>2. mixer'.pc = "reset" /\ Filled' = Filled /\ Filled >= BlockSize
    BY <1>3, <2>1 DEF HandOver, TypeOK, Filled, FullWhenPlayed, Playing
  <2>3. TypeOK'
    BY <1>3, <2>1 DEF PlayPending, HandOver, TypeOK, Handle
  <2>4. session' # "stopped" => SpelledOut'
    BY <1>3, <2>1, <2>2, OwnerSpelledOut
       DEF PlayPending, HandOver, SpelledOut, Exactly1, MixerOwns, PlayerOwns
  <2> QED  BY <2>2, <2>3, <2>4, OwnerSpelledOutPrime DEF HandOver, FullWhenPlayed
<1>4. CASE PlayReset
  <2>1. mixer' = [mixer EXCEPT !.pc = "signal"] /\ mixer.pc = "reset"
    BY <1>4 DEF PlayReset, Step
  <2>2. mixer'.pc = "signal" /\ Filled' = Filled /\ Filled >= BlockSize
    BY <1>4, <2>1 DEF HandOver, TypeOK, Filled, FullWhenPlayed, Playing
  <2>3. TypeOK'
    BY <1>4, <2>1 DEF PlayReset, HandOver, TypeOK, Handle
  <2>4. session' # "stopped" => SpelledOut'
    BY <1>4, <2>1, <2>2, OwnerSpelledOut
       DEF PlayReset, HandOver, SpelledOut, Exactly1, MixerOwns, PlayerOwns
  <2> QED  BY <2>2, <2>3, <2>4, OwnerSpelledOutPrime DEF HandOver, FullWhenPlayed
<1>5. CASE PlaySignal
  <2>1. mixer' = [mixer EXCEPT !.pc = "switch"] /\ mixer.pc = "signal"
    BY <1>5 DEF PlaySignal, Step
  <2>2. mixer'.pc = "switch" /\ Filled' = Filled /\ Filled >= BlockSize
    BY <1>5, <2>1 DEF HandOver, TypeOK, Filled, FullWhenPlayed, Playing
  <2>3. TypeOK'
    BY <1>5, <2>1 DEF PlaySignal, HandOver, TypeOK, Handle
  <2>4. session' # "stopped" => SpelledOut'
    BY <1>5, <2>1, <2>2, OwnerSpelledOut
       DEF PlaySignal, HandOver, SpelledOut, Exactly1, MixerOwns, PlayerOwns
  <2> QED  BY <2>2, <2>3, <2>4, OwnerSpelledOutPrime DEF HandOver, FullWhenPlayed
<1>6. CASE SwitchBuffer
  <2> DEFINE other   == 1 - mixer.current
             overrun == Filled - BlockSize
  <2>1. mixer' = [pc |-> "mix", current |-> other, count |-> other * Capacity + overrun,
                  block |-> Next1(mixer.block)]
    BY <1>6 DEF SwitchBuffer, Filled
  <2>2. other \in Half /\ overrun \in Nat /\ other * Capacity \in Nat
    <3>1. other \in {0, 1}
      BY DEF HandOver, TypeOK, Half
    <3>2. overrun \in Nat
      <4>1. Filled >= BlockSize
        BY <1>6 DEF HandOver, FullWhenPlayed, Playing, SwitchBuffer
      <4>2. Filled \in Int
        <5>1. mixer.current \in {0, 1} /\ mixer.count \in Nat
          BY DEF HandOver, TypeOK, Half
        <5> QED  BY <5>1, Sizes DEF Filled
      <4> QED  BY <4>1, <4>2, Sizes
    <3> QED  BY <3>1, <3>2, Sizes DEF Half
  <2>3. TypeOK'
    <3>1. Next1(mixer.block) \in 0 .. Blocks - 1
      BY Wrap DEF HandOver, TypeOK
    <3>2. mixer' \in [pc : {"mix", "wait", "pend", "reset", "signal", "switch"},
                      current : Half, count : Nat, block : 0 .. Blocks - 1]
      BY <2>1, <2>2, <3>1
    <3>3. samples' \in [Half -> 0 .. Mixing]
      <4>1. samples' = [samples EXCEPT ![other] = Mixing]
        BY <1>6 DEF SwitchBuffer
      <4>2. Mixing \in 0 .. Mixing
        BY BlocksType DEF Mixing
      <4> QED  BY <4>1, <4>2 DEF HandOver, TypeOK
    <3> QED  BY <1>6, <3>2, <3>3 DEF HandOver, TypeOK, SwitchBuffer
  <2>4. mixer'.pc = "mix"
    BY <2>1
  <2>5. session' # "stopped" => SpelledOut'
    BY <1>6, <2>4, OwnerSpelledOut
       DEF SwitchBuffer, HandOver, SpelledOut, Exactly1, MixerOwns, PlayerOwns
  <2> QED  BY <2>3, <2>4, <2>5, OwnerSpelledOutPrime DEF HandOver, FullWhenPlayed, Playing
<1>7. CASE HardReset
  <2>1. mixer' = [mixer EXCEPT !.current = 0] /\ mixer.pc = "mix"
    BY <1>7 DEF HardReset
  <2>2. mixer'.pc = "mix"
    BY <2>1 DEF HandOver, TypeOK
  <2>3. TypeOK'
    BY <1>7, <2>1 DEF HardReset, HandOver, TypeOK, Half
  <2>4. session' # "stopped" => SpelledOut'
    BY <1>7, <2>1, <2>2, OwnerSpelledOut
       DEF HardReset, HandOver, SpelledOut, Exactly1, MixerOwns, PlayerOwns
  <2> QED  BY <2>2, <2>3, <2>4, OwnerSpelledOutPrime DEF HandOver, FullWhenPlayed, Playing
<1> QED  BY <1>1, <1>2, <1>3, <1>4, <1>5, <1>6, <1>7 DEF Play

(* The playback thread takes the ownership with the event it waits for and *)
(* gives it away in AllowData.                                             *)
LEMMA PlayerHandOver == ASSUME HandOver, Player PROVE HandOver'
<1>0. TypeOK
  BY DEF HandOver
<1>1. CASE WaitForEnd
  <2> DEFINE handles == <<"end0", "end1", "stop">>
  <2>1. /\ player.pc = "idle"
        /\ \E e \in {"end0", "end1", "stop"} : signaled' = signaled \ {e}
        /\ player' \in [pc : {"test", "off"}, half : Half, stopped : BOOLEAN]
    <3>1. CASE \E h \in Half : /\ Wait(handles, h + 1)
                              /\ player' = [pc |-> "test", half |-> h, stopped |-> FALSE]
      <4>1. PICK h \in Half : /\ Wait(handles, h + 1)
                              /\ player' = [pc |-> "test", half |-> h, stopped |-> FALSE]
        BY <3>1
      <4>2. handles[h + 1] \in {"end0", "end1"}
        <5>1. h = 0 \/ h = 1
          BY DEF Half
        <5> QED  BY <5>1
      <4>3. signaled' = signaled \ {handles[h + 1]}
        BY <4>1 DEF Wait
      <4> QED  BY <1>1, <4>1, <4>2, <4>3 DEF WaitForEnd
    <3>2. CASE Wait(handles, 3) /\ player' = [player EXCEPT !.pc = "off"]
      <4>1. handles[3] = "stop"
        OBVIOUS
      <4>2. signaled' = signaled \ {"stop"}
        BY <3>2, <4>1 DEF Wait
      <4> QED  BY <1>0, <1>1, <3>2, <4>2 DEF WaitForEnd, TypeOK
    <3> QED  BY <1>1, <3>1, <3>2 DEF WaitForEnd
  <2>2. UNCHANGED <<session, mixer, samples, pending, device, lastHalf, expected>>
    BY <1>1 DEF WaitForEnd
  <2>3. TypeOK'
    <3>1. signaled' \subseteq Handle
      BY <1>0, <2>1 DEF TypeOK
    <3> QED  BY <1>0, <2>1, <2>2, <3>1 DEF TypeOK
  <2>4. session' # "stopped" => SpelledOut'
    <3>1. player'.pc \in {"test", "off"}
      BY <2>1
    <3>2. ~PlayerOwns /\ ~PlayerOwns'
      BY <2>1, <3>1 DEF PlayerOwns
    <3> QED  BY <2>1, <2>2, <3>2, OwnerSpelledOut
             DEF HandOver, SpelledOut, Exactly1, MixerOwns
  <2> QED  BY <2>2, <2>3, <2>4, OwnerSpelledOutPrime
           DEF HandOver, FullWhenPlayed, Playing, Filled
<1>2. CASE TestData
  <2>1. player'.pc \in {"copy", "waitData"} /\ player.pc = "test"
    BY <1>2 DEF TestData, HandOver, TypeOK
  <2>2. TypeOK'
    BY <1>2 DEF TestData, HandOver, TypeOK, Handle, Half, Wait, End
  <2>3. session' # "stopped" => SpelledOut'
    BY <1>2, <2>1, OwnerSpelledOut
       DEF TestData, HandOver, SpelledOut, Exactly1, MixerOwns, PlayerOwns, Wait, End
  <2> QED  BY <1>2, <2>2, <2>3, OwnerSpelledOutPrime
           DEF TestData, HandOver, FullWhenPlayed, Playing, Filled
<1>3. CASE WaitForData
  <2> DEFINE handles == <<"dataAvailable", "stop", End(1 - player.half)>>
  <2>1. /\ player.pc = "waitData"
        /\ UNCHANGED <<session, mixer, samples, pending, lastHalf, expected>>
    BY <1>3 DEF WaitForData
  <2>2. handles[1] = "dataAvailable" /\ handles[2] = "stop" /\ handles[3] \in {"end0", "end1"}
    BY DEF End
  <2>3. CASE Wait(handles, 1) /\ player' = [player EXCEPT !.pc = "copy"] /\ UNCHANGED device
    <3>1. "dataAvailable" \in signaled /\ signaled' = signaled \ {"dataAvailable"}
      BY <2>2, <2>3 DEF Wait
    <3>2. player'.pc = "copy"
      BY <1>0, <2>3 DEF TypeOK
    <3>3. TypeOK'
      BY <1>0, <2>1, <2>3, <3>1 DEF TypeOK
    <3>4. session' # "stopped" => SpelledOut'
      BY <2>1, <3>1, <3>2, OwnerSpelledOut
         DEF HandOver, SpelledOut, Exactly1, MixerOwns, PlayerOwns
    <3> QED  BY <2>1, <3>3, <3>4, OwnerSpelledOutPrime
             DEF HandOver, FullWhenPlayed, Playing, Filled
  <2>4. CASE /\ \E e \in {"stop", "end0", "end1"} : signaled' = signaled \ {e}
             /\ \/ player' = [player EXCEPT !.pc = "off"] /\ UNCHANGED device
                \/ /\ player' = [player EXCEPT !.stopped = TRUE]
                   /\ device' = [device EXCEPT !.state = IF device.lost THEN @ ELSE "once"]
    <3>1. player'.pc \in {"off", "waitData"}
      BY <1>0, <2>1, <2>4 DEF TypeOK
    <3>2. TypeOK'
      BY <1>0, <2>1, <2>4 DEF TypeOK
    <3>3. session' # "stopped" => SpelledOut'
      BY <2>1, <2>4, <3>1, OwnerSpelledOut
         DEF HandOver, SpelledOut, Exactly1, MixerOwns, PlayerOwns
    <3> QED  BY <2>1, <3>2, <3>3, OwnerSpelledOutPrime
             DEF HandOver, FullWhenPlayed, Playing, Filled
  <2> QED  BY <1>3, <2>2, <2>3, <2>4 DEF WaitForData, Wait
<1>4. CASE CopyToBuffer
  <2>1. player'.pc \in {"restart", "resetData"} /\ player.pc = "copy"
    BY <1>4 DEF CopyToBuffer, HandOver, TypeOK
  <2>2. TypeOK'
    <3>1. player' \in [pc : {"restart", "resetData"}, half : Half, stopped : BOOLEAN]
      BY <1>0, <1>4 DEF CopyToBuffer, TypeOK
    <3>2. expected' \in 0 .. Blocks - 1
      BY <1>0, <1>4, Wrap DEF CopyToBuffer, TypeOK
    <3> QED  BY <1>0, <1>4, <3>1, <3>2 DEF CopyToBuffer, TypeOK
  <2>3. session' # "stopped" => SpelledOut'
    BY <1>4, <2>1, OwnerSpelledOut
       DEF CopyToBuffer, HandOver, SpelledOut, Exactly1, MixerOwns, PlayerOwns, Wait, End
  <2> QED  BY <1>4, <2>2, <2>3, OwnerSpelledOutPrime
           DEF CopyToBuffer, HandOver, FullWhenPlayed, Playing, Filled
<1>5. CASE RestartPlayback
  <2>1. player'.pc \in {"resetData"} /\ player.pc = "restart"
    BY <1>5 DEF RestartPlayback, HandOver, TypeOK
  <2>2. TypeOK'
    BY <1>5 DEF RestartPlayback, HandOver, TypeOK, Handle, Half, Wait, End
  <2>3. session' # "stopped" => SpelledOut'
    BY <1>5, <2>1, OwnerSpelledOut
       DEF RestartPlayback, HandOver, SpelledOut, Exactly1, MixerOwns, PlayerOwns, Wait, End
  <2> QED  BY <1>5, <2>2, <2>3, OwnerSpelledOutPrime
           DEF RestartPlayback, HandOver, FullWhenPlayed, Playing, Filled
<1>6. CASE ResetData
  <2>1. player'.pc \in {"allow"} /\ player.pc = "resetData"
    BY <1>6 DEF ResetData, HandOver, TypeOK
  <2>2. TypeOK'
    BY <1>6 DEF ResetData, HandOver, TypeOK, Handle, Half, Wait, End
  <2>3. session' # "stopped" => SpelledOut'
    BY <1>6, <2>1, OwnerSpelledOut
       DEF ResetData, HandOver, SpelledOut, Exactly1, MixerOwns, PlayerOwns, Wait, End
  <2> QED  BY <1>6, <2>2, <2>3, OwnerSpelledOutPrime
           DEF ResetData, HandOver, FullWhenPlayed, Playing, Filled
<1>7. CASE AllowData
  <2>1. player'.pc \in {"resetEnd"} /\ player.pc = "allow"
    BY <1>7 DEF AllowData, HandOver, TypeOK
  <2>2. TypeOK'
    BY <1>7 DEF AllowData, HandOver, TypeOK, Handle, Half, Wait, End
  <2>3. session' # "stopped" => SpelledOut'
    BY <1>7, <2>1, OwnerSpelledOut
       DEF AllowData, HandOver, SpelledOut, Exactly1, MixerOwns, PlayerOwns, Wait, End
  <2> QED  BY <1>7, <2>2, <2>3, OwnerSpelledOutPrime
           DEF AllowData, HandOver, FullWhenPlayed, Playing, Filled
<1>8. CASE ResetEnd
  <2>1. player'.pc \in {"idle"} /\ player.pc = "resetEnd"
    BY <1>8 DEF ResetEnd, HandOver, TypeOK
  <2>2. TypeOK'
    BY <1>8 DEF ResetEnd, HandOver, TypeOK, Handle, Half, Wait, End
  <2>3. session' # "stopped" => SpelledOut'
    BY <1>8, <2>1, OwnerSpelledOut
       DEF ResetEnd, HandOver, SpelledOut, Exactly1, MixerOwns, PlayerOwns, Wait, End
  <2> QED  BY <1>8, <2>2, <2>3, OwnerSpelledOutPrime
           DEF ResetEnd, HandOver, FullWhenPlayed, Playing, Filled
<1> QED  BY <1>1, <1>2, <1>3, <1>4, <1>5, <1>6, <1>7, <1>8 DEF Player
(* The sound card and the timer set only the events of the halves.         *)
LEMMA DeviceHandOver ==
  ASSUME HandOver, Advance \/ LoseBuffer \/ PollBufferPosition PROVE HandOver'
<1>0. TypeOK
  BY DEF HandOver
<1>1. /\ \E E \in SUBSET {"end0", "end1"} : signaled' = signaled \union E
      /\ UNCHANGED <<session, mixer, samples, pending, player, expected>>
  <2>1. End(HalfPlaying) \in {"end0", "end1"} /\ End(lastHalf) \in {"end0", "end1"}
    BY DEF End
  <2>2. CASE Advance
    <3> DEFINE E == IF ~Polled /\ device.pos \in {0, 2} THEN {End(HalfPlaying)} ELSE {}
    <3>1. E \in SUBSET {"end0", "end1"}
      BY <2>1
    <3> QED  BY <2>2, <3>1 DEF Advance
  <2>3. CASE LoseBuffer
    <3>1. signaled' = signaled \union {}
      BY <2>3 DEF LoseBuffer
    <3> QED  BY <2>3, <3>1 DEF LoseBuffer
  <2>4. CASE PollBufferPosition
    <3> DEFINE E == IF HalfPlaying # lastHalf THEN {End(lastHalf)} ELSE {}
    <3>1. E \in SUBSET {"end0", "end1"}
      BY <2>1
    <3> QED  BY <2>4, <3>1 DEF PollBufferPosition
  <2> QED  BY <2>2, <2>3, <2>4
<1>2. TypeOK'
  <2>1. signaled' \subseteq Handle
    BY <1>0, <1>1 DEF TypeOK, Handle
  <2>2. HalfPlaying \in Half
    <3>1. device.pos \in {0, 1, 2, 3}
      BY <1>0 DEF TypeOK
    <3> QED  BY <3>1 DEF HalfPlaying, Half
  <2>3. CASE Advance
    <3> DEFINE pos == (device.pos + 1) % 4
    <3>1. pos \in 0 .. 3
      BY <1>0 DEF TypeOK
    <3>2. device' = [device EXCEPT !.pos = pos,
                       !.state = IF pos = 0 /\ @ = "once" THEN "stopped" ELSE @]
      BY <2>3 DEF Advance
    <3> HIDE DEF pos
    <3>3. device' \in [state : {"none", "loop", "once", "stopped"}, pos : 0 .. 3,
                       lost : BOOLEAN]
      BY <1>0, <3>1, <3>2 DEF TypeOK
    <3> QED  BY <1>0, <1>1, <2>1, <2>3, <3>3 DEF TypeOK, Advance
  <2>4. CASE LoseBuffer
    BY <1>0, <1>1, <2>1, <2>4 DEF TypeOK, LoseBuffer
  <2>5. CASE PollBufferPosition
    BY <1>0, <1>1, <2>1, <2>2, <2>5 DEF TypeOK, PollBufferPosition
  <2> QED  BY <2>3, <2>4, <2>5
<1>3. session' # "stopped" => SpelledOut'
  BY <1>1, OwnerSpelledOut DEF HandOver, SpelledOut, Exactly1, MixerOwns, PlayerOwns
<1> QED  BY <1>1, <1>2, <1>3, OwnerSpelledOutPrime
         DEF HandOver, FullWhenPlayed, Playing, Filled

LEMMA NextHandOver == HandOver /\ [Next]_vars => HandOver'
<1> SUFFICES ASSUME HandOver, [Next]_vars PROVE HandOver'
  OBVIOUS
<1>1. CASE Next
  BY <1>1, SessionHandOver, MixerHandOver, PlayerHandOver, DeviceHandOver DEF Next
<1>2. CASE UNCHANGED vars
  BY <1>2 DEF vars, HandOver, TypeOK, FullWhenPlayed, Playing, Filled, OneOwner, Owns
<1> QED  BY <1>1, <1>2-----------------------------------------------------------------------------
(* The order of the blocks.  Outside of the hand-over and of EndOfLine     *)
(* nothing moves that it depends on.                                       *)
OrderVars == <<mixer, samples, pending, expected>>

LEMMA OrderKept ==
  ASSUME InOrder, session # "stopped", UNCHANGED OrderVars,
         Available' => Available, Copied' => Copied
  PROVE  InOrder'
BY DEF InOrder, CountInBuffer, BlockMixed, Pending, Filled, Playing, OrderVars

LEMMA SessionOrder ==
  ASSUME IInv, EmulationStart \/ EmulationStop \/ Join PROVE InOrder'
<1>1. CASE EmulationStart
  <2>1. /\ mixer' = [pc |-> "mix", current |-> 0, count |-> 0, block |-> 0]
        /\ signaled' = {"canAddData"} /\ expected' = 0
        /\ player'.pc = "idle"
    BY <1>1 DEF EmulationStart, IInv, HandOver, TypeOK
  <2>2. Filled' = 0 /\ ~Playing' /\ ~Available'
    BY <2>1, Sizes DEF Filled, Playing, Available
  <2> QED  BY <2>1, <2>2, Sizes DEF InOrder, CountInBuffer, BlockMixed, Pending
<1>2. CASE EmulationStop
  BY <1>2, OrderKept DEF EmulationStop, IInv, OrderVars, Available, Copied
<1>3. CASE Join
  BY <1>3 DEF Join, InOrder
<1> QED  BY <1>1, <1>2, <1>3

(* A step of the playback thread or the sound card needs a session; a      *)
(* thread that is off takes none.                                          *)
LEMMA PlayerOrder == ASSUME IInv, Player PROVE InOrder'
<1>0. TypeOK /\ InOrder
  BY DEF IInv, HandOver
<1>1. CASE session = "stopped"
  <2>1. session' = "stopped"
    BY <1>1 DEF Player, WaitForEnd, TestData, WaitForData, CopyToBuffer, RestartPlayback,
       ResetData, AllowData, ResetEnd
  <2> QED  BY <2>1 DEF InOrder
<1> SUFFICES ASSUME session # "stopped" PROVE InOrder'
  BY <1>1
<1>2. CASE CopyToBuffer
  <2>1. player.pc = "copy" /\ player'.pc \in {"restart", "resetData"}
    BY <1>0, <1>2 DEF CopyToBuffer, TypeOK
  <2>2. UNCHANGED <<mixer, samples, pending, signaled>> /\ expected' = Next1(expected)
    BY <1>2 DEF CopyToBuffer
  <2>3. SpelledOut
    BY <1>0, OwnerSpelledOut DEF IInv, HandOver
  <2>4. /\ mixer.pc \notin {"pend", "reset", "signal"}
        /\ "canAddData" \notin signaled /\ "dataAvailable" \notin signaled
    BY <2>1, <2>3 DEF SpelledOut, Exactly1, MixerOwns, PlayerOwns
  <2>5. Available /\ ~Available'
    BY <2>1, <2>2, <2>4 DEF Available
  <2>6. expected' = IF mixer.pc = "switch" THEN Next1(mixer.block) ELSE mixer.block
    BY <1>0, <2>2, <2>5 DEF InOrder, Pending
  <2>7. Pending'
    BY <2>2, <2>4, <2>5, <2>6 DEF Pending
  <2> QED  BY <1>0, <2>2, <2>7 DEF InOrder, CountInBuffer, BlockMixed, Filled, Playing
<1>3. ASSUME Player, ~CopyToBuffer PROVE InOrder'
  <2>1. UNCHANGED OrderVars
    BY <1>3 DEF OrderVars, Player, WaitForEnd, TestData, WaitForData, RestartPlayback,
       ResetData, AllowData, ResetEnd
  <2>2. Available' => Available
    BY <1>0, <1>3 DEF Available, TypeOK, Player, WaitForEnd, TestData, WaitForData,
       RestartPlayback, ResetData, AllowData, ResetEnd, Wait, End
  <2>3. Copied' => Copied
    BY <1>0, <1>3 DEF Copied, TypeOK, Player, WaitForEnd, TestData, WaitForData,
       RestartPlayback, ResetData, AllowData, ResetEnd, Wait, End
  <2> QED  BY <1>0, <2>1, <2>2, <2>3, OrderKept
<1> QED  BY <1>2, <1>3

LEMMA DeviceOrder ==
  ASSUME IInv, Advance \/ LoseBuffer \/ PollBufferPosition PROVE InOrder'
<1>1. session # "stopped"
  BY DEF Advance, LoseBuffer, PollBufferPosition
<1>2. UNCHANGED OrderVars /\ UNCHANGED player
  BY DEF OrderVars, Advance, LoseBuffer, PollBufferPosition
<1>3. (Available' => Available) /\ (Copied' => Copied)
  BY <1>2 DEF Available, Copied, Advance, LoseBuffer, PollBufferPosition, End
<1> QED  BY <1>1, <1>2, <1>3, OrderKept DEF IInv
(* Which buffer the count points into, when no reset has confused them.    *)
LEMMA RowIsCurrent ==
  ASSUME TypeOK, CountInBuffer, mixer.pc = "mix" PROVE Row = mixer.current
<1>1. Filled \in 0 .. BlockSize - 1 /\ mixer.current \in {0, 1} /\ mixer.count \in Nat
  BY DEF CountInBuffer, TypeOK, Half
<1>2. CASE mixer.current = 0
  BY <1>1, <1>2, Sizes DEF Filled, Row
<1>3. CASE mixer.current = 1
  BY <1>1, <1>3, Sizes DEF Filled, Row
<1> QED  BY <1>1, <1>2, <1>3

LEMMA MixLineOrder ==
  ASSUME IInv, NEW n \in LineSamples, MixLine(n) PROVE InOrder'
<1>0. /\ TypeOK /\ CountInBuffer /\ BlockMixed /\ Pending
      /\ mixer.pc = "mix" /\ session = "running"
  BY DEF IInv, HandOver, InOrder, MixLine
<1> DEFINE count == mixer.count + n
           full  == count - mixer.current * Capacity >= BlockSize
<1>1. mixer' = [mixer EXCEPT !.count = count, !.pc = IF full THEN "wait" ELSE "mix"]
  BY DEF MixLine
<1>2. /\ mixer'.pc = IF full THEN "wait" ELSE "mix"
      /\ mixer'.count = count
      /\ mixer'.current = mixer.current /\ mixer'.block = mixer.block
  BY <1>0, <1>1 DEF TypeOK
<1>3. /\ samples' = [samples EXCEPT ![mixer.current] = IF full THEN mixer.block ELSE Mixing]
      /\ UNCHANGED <<pending, signaled, player, expected>>
  BY <1>0, RowIsCurrent DEF MixLine
<1>4. CountInBuffer'
  <2>1. Filled \in 0 .. BlockSize - 1 /\ mixer.current \in {0, 1} /\ mixer.count \in Nat
    BY <1>0 DEF CountInBuffer, TypeOK, Half
  <2>2. mixer.current * Capacity \in Int
    BY <2>1, Sizes
  <2>3. Filled' = Filled + n
    BY <1>2, <2>1, <2>2, Sizes DEF Filled
  <2>4. full <=> Filled' >= BlockSize
    BY <1>2 DEF Filled
  <2>5. CASE full
    BY <1>2, <2>1, <2>3, <2>4, <2>5, Sizes DEF CountInBuffer, Playing
  <2>6. CASE ~full
    BY <1>2, <2>1, <2>3, <2>4, <2>6, Sizes DEF CountInBuffer, Playing
  <2> QED  BY <2>5, <2>6
<1>5. BlockMixed'
  BY <1>0, <1>2, <1>3 DEF BlockMixed, Playing, TypeOK
<1>6. Pending'
  <2>1. mixer.pc \notin {"pend", "reset", "signal", "switch"}
        /\ mixer'.pc \notin {"pend", "reset", "signal", "switch"}
    BY <1>0, <1>2
  <2>2. Available => samples'[pending] = expected
    <3>1. Available => pending = 1 - mixer.current /\ samples[pending] = expected
      BY <1>0, <2>1 DEF Pending
    <3>2. pending \in {0, 1} /\ mixer.current \in {0, 1}
      BY <1>0 DEF TypeOK, Half
    <3>3. Available => pending # mixer.current
      BY <3>1, <3>2
    <3> QED  BY <1>0, <1>3, <3>1, <3>3 DEF TypeOK
  <2>3. (Available' <=> Available) /\ (Copied' <=> Copied)
    BY <1>3 DEF Available, Copied
  <2> QED  BY <1>0, <1>2, <1>3, <2>1, <2>2, <2>3 DEF Pending
<1> QED  BY <1>4, <1>5, <1>6 DEF InOrder

(* The steps of Play: what the driver is given is the block just mixed.    *)
LEMMA PlayOrder ==
  ASSUME IInv, PlayWait \/ PlayPending \/ PlayReset \/ PlaySignal PROVE InOrder'
<1>0. TypeOK /\ (session # "stopped" => SpelledOut)
  BY OwnerSpelledOut DEF IInv, HandOver
<1> SUFFICES ASSUME session # "stopped" PROVE InOrder'
  BY DEF InOrder, PlayWait, PlayPending, PlayReset, PlaySignal
<1>1. CountInBuffer /\ BlockMixed /\ Pending /\ SpelledOut
  BY <1>0 DEF IInv, InOrder
<1>2. /\ UNCHANGED <<mixer.current, mixer.count, mixer.block, samples, player, expected>>
      /\ Playing /\ Playing'
  BY <1>0 DEF PlayWait, PlayPending, PlayReset, PlaySignal, Step, Playing, TypeOK
<1>3. CountInBuffer' /\ BlockMixed'
  <2>1. mixer'.pc # "mix" /\ Filled' = Filled
    BY <1>2 DEF Playing, Filled
  <2> QED  BY <1>1, <1>2, <2>1 DEF CountInBuffer, BlockMixed
<1>4. CASE PlayWait
  <2>1. /\ mixer.pc = "wait" /\ mixer'.pc = "pend" /\ pending' = pending
        /\ "canAddData" \in signaled /\ signaled' = signaled \ {"canAddData"}
    BY <1>0, <1>4 DEF PlayWait, Step, TypeOK
  <2>2. ~Available' /\ ~Copied'
    BY <1>1, <1>2, <2>1 DEF SpelledOut, Exactly1, PlayerOwns, Available, Copied
  <2>3. expected = mixer.block
    BY <1>1, <2>1 DEF Pending, Copied
  <2>4. Pending'
    BY <1>2, <2>1, <2>2, <2>3 DEF Pending
  <2> QED  BY <1>3, <2>4 DEF InOrder
<1>5. CASE PlayPending \/ PlayReset
  <2>1. /\ mixer.pc \in {"pend", "reset"} /\ mixer'.pc \in {"reset", "signal"}
        /\ pending' = mixer.current /\ signaled' \subseteq signaled
    BY <1>0, <1>1, <1>5 DEF PlayPending, PlayReset, Step, TypeOK, Pending
  <2>2. ~Available' /\ ~Copied'
    BY <1>1, <1>2, <2>1
       DEF SpelledOut, Exactly1, MixerOwns, PlayerOwns, Available, Copied
  <2>3. expected = mixer.block
    BY <1>1, <2>1 DEF Pending
  <2>4. Pending'
    BY <1>2, <2>1, <2>2, <2>3 DEF Pending
  <2> QED  BY <1>3, <2>4 DEF InOrder
<1>6. CASE PlaySignal
  <2>1. /\ mixer.pc = "signal" /\ mixer'.pc = "switch" /\ pending' = pending
        /\ signaled' = signaled \union {"dataAvailable"}
    BY <1>0, <1>6 DEF PlaySignal, Step, TypeOK
  <2>2. ~Copied'
    BY <1>1, <1>2, <2>1 DEF SpelledOut, Exactly1, MixerOwns, PlayerOwns, Copied
  <2>3. expected = mixer.block /\ pending = mixer.current
    BY <1>1, <2>1 DEF Pending
  <2>4. Pending'
    BY <1>2, <2>1, <2>2, <2>3 DEF Pending
  <2> QED  BY <1>3, <2>4 DEF InOrder
<1> QED  BY <1>4, <1>5, <1>6
(* The current buffer becomes the other one, and next is the next block.   *)
LEMMA SwitchOrder == ASSUME IInv, SwitchBuffer PROVE InOrder'
<1>0. TypeOK /\ mixer.pc = "switch" /\ UNCHANGED <<session, pending, signaled, player, expected>>
  BY DEF IInv, HandOver, SwitchBuffer
<1> SUFFICES ASSUME session # "stopped" PROVE InOrder'
  BY <1>0 DEF InOrder
<1> DEFINE other   == 1 - mixer.current
           overrun == Filled - BlockSize
<1>1. CountInBuffer /\ BlockMixed /\ Pending
  BY DEF IInv, InOrder
<1>2. /\ mixer'.pc = "mix" /\ mixer'.current = other
      /\ mixer'.count = other * Capacity + overrun
      /\ mixer'.block = Next1(mixer.block)
      /\ samples' = [samples EXCEPT ![other] = Mixing]
  BY DEF SwitchBuffer, Filled
<1>3. mixer.current \in {0, 1} /\ other \in {0, 1} /\ pending \in {0, 1}
  BY <1>0 DEF TypeOK, Half
<1>4. CountInBuffer'
  <2>1. Filled \in BlockSize .. 2 * BlockSize - 1
    BY <1>0, <1>1 DEF CountInBuffer, Playing
  <2>2. overrun \in 0 .. BlockSize - 1
    BY <2>1, Sizes
  <2>3. Filled' = overrun
    <3>1. other * Capacity \in Int
      BY <1>3, Sizes
    <3> HIDE DEF overrun, other
    <3> QED  BY <1>2, <2>2, <3>1, Sizes DEF Filled
  <2> QED  BY <1>2, <2>2, <2>3 DEF CountInBuffer, Playing
<1>5. BlockMixed'
  BY <1>2 DEF BlockMixed, Playing
<1>6. Pending'
  <2>1. (Available' <=> Available) /\ (Copied' <=> Copied)
    BY <1>0 DEF Available, Copied
  <2>2. Available => /\ pending = mixer.current /\ expected = mixer.block
                     /\ samples[mixer.current] = mixer.block
    BY <1>0, <1>1 DEF Pending, BlockMixed, Playing
  <2>3. Available => pending = 1 - mixer'.current /\ samples'[pending] = expected
    <3>1. samples'[mixer.current] = samples[mixer.current]
      BY <1>0, <1>2, <1>3 DEF TypeOK
    <3> QED  BY <1>2, <1>3, <2>2, <3>1
  <2>4. Copied => expected = mixer'.block
    BY <1>0, <1>1, <1>2 DEF Pending
  <2>5. mixer'.pc \notin {"pend", "reset", "signal", "switch"}
    BY <1>2
  <2> QED  BY <1>0, <1>2, <2>1, <2>2, <2>3, <2>4, <2>5 DEF Pending
<1> QED  BY <1>4, <1>5, <1>6 DEF InOrder

LEMMA NextOrder ==
  ASSUME ~ResetWhilePlaying PROVE IInv /\ [Next]_vars => IInv'
<1> SUFFICES ASSUME IInv, [Next]_vars PROVE IInv'
  OBVIOUS
<1>1. HandOver'
  BY NextHandOver DEF IInv
<1>2. CASE Next
  <2>1. ~HardReset
    BY DEF HardReset
  <2>2. InOrder'
    BY <1>2, <2>1, SessionOrder, MixLineOrder, PlayOrder, SwitchOrder, PlayerOrder,
       DeviceOrder DEF Next, Play
  <2> QED  BY <1>1, <2>2 DEF IInv
<1>3. CASE UNCHANGED vars
  BY <1>1, <1>3 DEF vars, IInv, InOrder, CountInBuffer, BlockMixed, Pending, Filled,
     Playing, Available, Copied
<1> QED  BY <1>2, <1>3
-----------------------------------------------------------------------------
THEOREM HandOverInvariance == Spec => []HandOver
<1>1. Init => HandOver
  BY InitIInv DEF IInv
<1> QED  BY <1>1, NextHandOver, PTL DEF Spec

LEMMA ThreadEndsFirst == Spec => []StoppedIsOff
<1>1. Init => StoppedIsOff
  BY DEF Init, StoppedIsOff
<1>2. HandOver /\ StoppedIsOff /\ [Next]_vars => StoppedIsOff'
  <2> SUFFICES ASSUME HandOver, StoppedIsOff, [Next]_vars PROVE StoppedIsOff'
    OBVIOUS
  <2>1. CASE EmulationStart \/ EmulationStop \/ Join
    BY <2>1 DEF StoppedIsOff, EmulationStart, EmulationStop, Join
  <2>2. CASE UNCHANGED <<session, player>>
    BY <2>2 DEF StoppedIsOff
  <2>3. CASE Player
    <3>1. session' = session /\ player.pc # "off"
      BY <2>3 DEF Player, WaitForEnd, TestData, WaitForData, CopyToBuffer,
         RestartPlayback, ResetData, AllowData, ResetEnd
    <3> QED  BY <3>1 DEF StoppedIsOff
  <2>4. (\E n \in LineSamples : MixLine(n)) \/ Play \/ HardReset
         => UNCHANGED <<session, player>>
    BY DEF MixLine, Play, PlayWait, PlayPending, PlayReset, PlaySignal, SwitchBuffer, HardReset
  <2>5. Advance \/ LoseBuffer \/ PollBufferPosition => UNCHANGED <<session, player>>
    BY DEF Advance, LoseBuffer, PollBufferPosition
  <2> QED  BY <2>1, <2>2, <2>3, <2>4, <2>5 DEF Next, vars
<1> QED  BY <1>1, <1>2, HandOverInvariance, PTL DEF Spec

(* Every variable keeps its range, also when the Amiga is reset.           *)
THEOREM SoundTypeCorrect == Spec => []TypeOK
<1>1. HandOver => TypeOK
  BY DEF HandOver
<1> QED  BY HandOverInvariance, <1>1, PTL

(* With any sizes of blocks and buffers, with notifications or polled, when*)
(* the sound card loses its buffer and when the Amiga is reset, the pending*)
(* block has exactly one owner throughout a session.                       *)
THEOREM PendingBlockHasOneOwner == Spec => []OneOwner
<1>1. HandOver => OneOwner
  BY DEF HandOver
<1> QED  BY HandOverInvariance, <1>1, PTL

(* Unless the Amiga is reset while sound is playing, the playback thread   *)
(* copies whole blocks, each exactly once, in the order they were mixed.   *)
THEOREM BlocksAreWholeAndInOrder ==
  ASSUME ~ResetWhilePlaying PROVE Spec => []WholeBlocksInOrder
<1>1. IInv /\ StoppedIsOff => WholeBlocksInOrder
  <2> SUFFICES ASSUME IInv, StoppedIsOff, player.pc = "copy"
               PROVE  samples[pending] = expected
    BY DEF WholeBlocksInOrder
  <2>1. TypeOK /\ OneOwner /\ InOrder
    BY DEF IInv, HandOver
  <2>2. session # "stopped" => samples[pending] = expected
    BY <2>1 DEF InOrder, Pending, BlockMixed, Playing, Available
  <2> QED  BY <2>2 DEF StoppedIsOff
<1>2. Spec => []IInv
  BY InitIInv, NextOrder, PTL DEF Spec
<1> QED  BY <1>1, <1>2, ThreadEndsFirst, PTL
=============================================================================
