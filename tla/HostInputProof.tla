--------------------------- MODULE HostInputProof ---------------------------
(***************************************************************************)
(* Proofs about the window of a session and the keyboard together, module  *)
(* HostInput: what is proved of the ring buffers alone holds when the      *)
(* window procedure takes the devices away and sessions begin and end, and *)
(* the window pauses the emulation and paces its frames as it should.      *)
(***************************************************************************)
EXTENDS HostInput, KeyboardQueuesProof

(* Without a session there is no window, no emulation thread and no device *)
(* is acquired.                                                            *)
Closed ==
  session = "menu" => windows = Window!AnyFocus /\ ~posted /\ ~deviceActive /\ emu.pc = "none"

(* What the window procedure knows of the window, and what follows from it.*)
(* That the emulation runs in front does not depend on the loop of a menu, *)
(* after which nobody looks at it again.                                   *)
Flags ==
  session = "open" =>
    /\ flag.minimized = windows.iconic
    /\ flag.active => windows.focus
    /\ Window!InFront => flag.active
    /\ windows.held => windows.focus
    /\ flag.syskey => windows.held \/ misled
    /\ deviceActive => windows.focus
    /\ Window!InFront /\ ~posted => deviceActive
    /\ option.pausing /\ ~windows.focus => ~runEvent
    /\ windows.focus /\ ~windows.iconic /\ ~windows.held /\ ~misled => runEvent

(* The time to wait and the time since the last frame add up to the frame  *)
(* time, less the millisecond that the timer has counted before the time   *)
(* to wait was set; and there is one signal for each wait.                 *)
Paced ==
  /\ emu.pc # "wait" => waitFor = 0 /\ timer.pc \in {"idle", "test"}
  /\ emu.pc \in {"reset", "arm"} => emu.delay > 0 /\ emu.delay + elapsed >= FrameTime
  /\ emu.pc = "arm" => ~flipEvent
  /\ emu.pc = "remember" => elapsed >= FrameTime - 1
  /\ timer.pc = "decrement" => waitFor > 0
  /\ emu.pc = "wait" =>
       /\ waitFor > 0 \/ flipEvent \/ timer.pc = "signal"
       /\ flipEvent \/ timer.pc = "signal" => waitFor = 0
       /\ flipEvent => timer.pc # "signal"
       /\ waitFor + elapsed >= FrameTime - 1
       /\ timer.pc \in {"test", "decrement"} => waitFor + elapsed >= FrameTime

WindowInv == Window!TypeOK /\ Closed /\ Flags /\ Paced

HostInv == IInv /\ WindowInv
-----------------------------------------------------------------------------
(* The window's thread.                                                    *)

LEMMA FrameIsLong == FrameTime \in Nat /\ 1 <= FrameTime
BY WindowAssumption

WindowsRec == [focus : BOOLEAN, iconic : BOOLEAN, modal : BOOLEAN, held : BOOLEAN]
FlagRec    == [active : BOOLEAN, minimized : BOOLEAN, syskey : BOOLEAN]

LEMMA WindowTypes ==
  ASSUME Window!TypeOK
  PROVE  /\ windows \in WindowsRec /\ flag \in FlagRec
         /\ windows.focus \in BOOLEAN /\ windows.iconic \in BOOLEAN
         /\ windows.modal \in BOOLEAN /\ windows.held \in BOOLEAN
         /\ flag.active \in BOOLEAN /\ flag.minimized \in BOOLEAN /\ flag.syskey \in BOOLEAN
         /\ posted \in BOOLEAN /\ deviceActive \in BOOLEAN /\ runEvent \in BOOLEAN
         /\ stop \in BOOLEAN /\ flipEvent \in BOOLEAN /\ misled \in BOOLEAN
         /\ waitFor \in 0 .. FrameTime /\ elapsed \in 0 .. FrameTime
         /\ emu.delay \in 0 .. FrameTime
BY DEF Window!TypeOK, WindowsRec, FlagRec

EmuRec == [pc : {"none", "loop", "event", "validate", "elapsed", "reset", "arm", "wait",
                 "remember", "clear", "ended"},
           delay : 0 .. FrameTime]
TimerRec == [running : BOOLEAN, pc : {"idle", "test", "decrement", "signal"}]

LEMMA HostInitInv == HostInit => WindowInv
<1> SUFFICES ASSUME HostInit
             PROVE  WindowInv
  OBVIOUS
<1>1. /\ session = "menu" /\ option = [pausing |-> FALSE, sound |-> FALSE]
      /\ windows = Window!AnyFocus /\ flag = Window!NoFlags /\ posted = FALSE
      /\ deviceActive = FALSE /\ runEvent = FALSE /\ stop = FALSE
      /\ emu = [pc |-> "none", delay |-> 0] /\ flipEvent = FALSE /\ waitFor = 0 /\ elapsed = 0
      /\ timer = [running |-> FALSE, pc |-> "idle"] /\ misled = FALSE
  BY DEF HostInit, Window!Init
<1>2. Window!AnyFocus \in WindowsRec /\ Window!NoFlags \in FlagRec
  BY DEF Window!AnyFocus, Window!NoFlags, WindowsRec, FlagRec
<1>3. emu \in EmuRec /\ timer \in TimerRec /\ waitFor \in 0 .. FrameTime /\ elapsed \in 0 .. FrameTime
  BY <1>1, FrameIsLong DEF EmuRec, TimerRec
<1>4. Window!TypeOK
  <2>1. option \in [pausing : BOOLEAN, sound : BOOLEAN]
    BY <1>1
  <2>2. {posted, deviceActive, runEvent, stop, flipEvent, misled} \subseteq BOOLEAN
    BY <1>1
  <2> QED  BY <1>1, <1>2, <1>3, <2>1, <2>2 DEF Window!TypeOK, EmuRec, TimerRec, WindowsRec, FlagRec
<1> QED  BY <1>1, <1>4 DEF WindowInv, Closed, Flags, Paced

LEMMA WindowStarts == ASSUME WindowInv, Window!EmulationStart PROVE WindowInv'
<1>1. /\ session' = "open" /\ windows' = Window!AnyFocus /\ flag' = Window!NoFlags
      /\ option' \in [pausing : Pausing, sound : Sound]
      /\ runEvent' = FALSE /\ stop' = FALSE /\ emu' = [pc |-> "loop", delay |-> 0]
      /\ flipEvent' = TRUE /\ waitFor' = 0 /\ elapsed' = 0 /\ misled' = FALSE
      /\ \E works \in {TRUE, ~TimerMayFail} : timer' = [timer EXCEPT !.running = works]
      /\ UNCHANGED <<posted, deviceActive>> /\ session = "menu"
  BY DEF Window!EmulationStart
<1>2. PICK works \in BOOLEAN : timer' = [timer EXCEPT !.running = works]
  BY <1>1, WindowAssumption
<1>3. ~posted /\ ~deviceActive
  BY <1>1 DEF WindowInv, Closed
<1>4. timer' \in TimerRec
      /\ timer'.pc = timer.pc
  BY <1>2 DEF WindowInv, Window!TypeOK, TimerRec
<1>5. Window!TypeOK'
  <2>1. option' \in [pausing : BOOLEAN, sound : BOOLEAN]
    BY <1>1, WindowAssumption
  <2>2. windows' \in WindowsRec /\ flag' \in FlagRec
    BY <1>1 DEF Window!AnyFocus, Window!NoFlags, WindowsRec, FlagRec
  <2>3. emu' \in EmuRec /\ waitFor' \in 0 .. FrameTime /\ elapsed' \in 0 .. FrameTime
    BY <1>1, FrameIsLong DEF EmuRec
  <2>4. posted' \in BOOLEAN /\ deviceActive' \in BOOLEAN /\ runEvent' \in BOOLEAN
        /\ stop' \in BOOLEAN /\ flipEvent' \in BOOLEAN /\ misled' \in BOOLEAN
    BY <1>1, WindowTypes DEF WindowInv
  <2> QED  BY <1>1, <1>4, <2>1, <2>2, <2>3, <2>4
           DEF Window!TypeOK, EmuRec, TimerRec, WindowsRec, FlagRec
<1>6. Closed' /\ Flags'
  BY <1>1, <1>3 DEF Closed, Flags, Window!InFront, Window!AnyFocus, Window!NoFlags
<1>7. Paced'
  <2>1. timer.pc \in {"idle", "test"}
    BY <1>1 DEF WindowInv, Closed, Paced
  <2> QED  BY <1>1, <1>4, <2>1 DEF Paced
<1> QED  BY <1>5, <1>6, <1>7 DEF WindowInv
(* A session ends: the window goes, with its messages and its devices.     *)
LEMMA WindowStops == ASSUME WindowInv, Window!EmulationStop PROVE WindowInv'
<1>1. /\ session' = "menu" /\ windows' = Window!AnyFocus /\ posted' = FALSE
      /\ deviceActive' = FALSE /\ emu' = [emu EXCEPT !.pc = "none"]
      /\ timer' = [timer EXCEPT !.running = FALSE] /\ emu.pc = "ended"
      /\ UNCHANGED <<option, flag, runEvent, stop, flipEvent, waitFor, elapsed, misled>>
  BY DEF Window!EmulationStop, Window!paceVars
<1>2. emu \in EmuRec /\ timer \in TimerRec /\ option \in [pausing : BOOLEAN, sound : BOOLEAN]
  BY DEF WindowInv, Window!TypeOK, EmuRec, TimerRec
<1>3. emu' \in EmuRec /\ emu'.pc = "none"
  BY <1>1, <1>2 DEF EmuRec
<1>4. timer' \in TimerRec /\ timer'.pc = timer.pc
  BY <1>1, <1>2 DEF TimerRec
<1>5. Window!TypeOK'
  <2>1. windows' \in WindowsRec /\ flag' \in FlagRec
    BY <1>1, WindowTypes DEF WindowInv, Window!AnyFocus, WindowsRec
  <2>2. waitFor' \in 0 .. FrameTime /\ elapsed' \in 0 .. FrameTime
    BY <1>1, WindowTypes DEF WindowInv
  <2>3. posted' \in BOOLEAN /\ deviceActive' \in BOOLEAN /\ runEvent' \in BOOLEAN
        /\ stop' \in BOOLEAN /\ flipEvent' \in BOOLEAN /\ misled' \in BOOLEAN
    BY <1>1, WindowTypes DEF WindowInv
  <2> QED  BY <1>1, <1>2, <1>3, <1>4, <2>1, <2>2, <2>3
           DEF Window!TypeOK, EmuRec, TimerRec, WindowsRec, FlagRec
<1>6. Closed' /\ Flags'
  BY <1>1, <1>3 DEF Closed, Flags
<1>7. Paced'
  <2>1. waitFor = 0 /\ timer.pc \in {"idle", "test"}
    BY <1>1 DEF WindowInv, Paced
  <2> QED  BY <1>1, <1>3, <1>4, <2>1 DEF Paced
<1> QED  BY <1>5, <1>6, <1>7 DEF WindowInv

(* What a message must keep.                                               *)
LEMMA MessageKeeps ==
  ASSUME WindowInv, Window!Procedure,
         windows' \in WindowsRec, flag' \in FlagRec, posted' \in BOOLEAN,
         deviceActive' \in BOOLEAN, runEvent' \in BOOLEAN, stop' \in BOOLEAN,
         misled' \in BOOLEAN, Flags'
  PROVE  WindowInv'
<1>1. session = "open" /\ UNCHANGED <<session, option, emu, flipEvent, waitFor, elapsed, timer>>
  BY DEF Window!Procedure, Window!paceVars
<1>2. Window!TypeOK'
  BY <1>1 DEF WindowInv, Window!TypeOK, WindowsRec, FlagRec
<1>3. Closed' /\ Paced'
  BY <1>1 DEF WindowInv, Closed, Paced
<1> QED  BY <1>2, <1>3 DEF WindowInv

LEMMA Evaluates ==
  ASSUME Window!TypeOK, NEW f \in FlagRec, Window!Evaluate(f)
  PROVE  /\ runEvent' \in BOOLEAN
         /\ f.active /\ ~f.minimized /\ ~f.syskey => runEvent'
         /\ option.pausing /\ ~f.active => ~runEvent'
<1>1. runEvent' = \/ f.active /\ ~f.minimized /\ ~f.syskey
                  \/ runEvent /\ ~option.pausing
  BY DEF Window!Evaluate
<1>2. /\ f.active \in BOOLEAN /\ f.minimized \in BOOLEAN /\ f.syskey \in BOOLEAN
      /\ runEvent \in BOOLEAN /\ option.pausing \in BOOLEAN
  BY DEF FlagRec, Window!TypeOK
<1> QED  BY <1>1, <1>2, Zenon

LEMMA ActivateStep ==
  ASSUME WindowInv, NEW iconic \in BOOLEAN, Window!Activate(iconic)
  PROVE  WindowInv'
<1>1. /\ Window!Procedure /\ session' = "open" /\ option' = option
      /\ windows' = [windows EXCEPT !.focus = TRUE, !.iconic = iconic]
      /\ flag' = [flag EXCEPT !.active = TRUE, !.minimized = iconic]
      /\ deviceActive' = TRUE /\ Window!Evaluate(flag')
      /\ UNCHANGED <<posted, stop, misled>>
  BY DEF Window!Activate, Window!Procedure, Window!Notify
<1>2. windows \in WindowsRec /\ flag \in FlagRec /\ Window!TypeOK
      /\ posted \in BOOLEAN /\ stop \in BOOLEAN /\ misled \in BOOLEAN
  BY WindowTypes DEF WindowInv
<1>3. windows' \in WindowsRec /\ windows'.focus = TRUE /\ windows'.iconic = iconic
      /\ windows'.modal = windows.modal /\ windows'.held = windows.held
  BY <1>1, <1>2 DEF WindowsRec
<1>4. flag' \in FlagRec /\ flag'.active = TRUE /\ flag'.minimized = iconic
      /\ flag'.syskey = flag.syskey
  BY <1>1, <1>2 DEF FlagRec
<1>5. runEvent' \in BOOLEAN /\ (~iconic /\ ~flag.syskey => runEvent')
  BY <1>1, <1>2, <1>4, Evaluates
<1>6. flag.syskey => windows.held \/ misled
  BY <1>1 DEF WindowInv, Flags, Window!Procedure
<1>7. Flags'
  BY <1>1, <1>3, <1>4, <1>5, <1>6 DEF Flags, Window!InFront
<1> QED  BY <1>1, <1>2, <1>3, <1>4, <1>5, <1>7, MessageKeeps

LEMMA DeactivateStep ==
  ASSUME WindowInv, NEW iconic \in BOOLEAN, Window!Deactivate(iconic)
  PROVE  WindowInv'
<1>1. /\ Window!Procedure /\ session' = "open" /\ option' = option
      /\ windows' = [windows EXCEPT !.focus = FALSE, !.iconic = iconic, !.held = FALSE]
      /\ flag' = [active |-> FALSE, minimized |-> iconic, syskey |-> FALSE]
      /\ deviceActive' = FALSE /\ Window!Evaluate(flag') /\ misled' = FALSE
      /\ UNCHANGED <<posted, stop>>
  BY DEF Window!Deactivate, Window!Procedure, Window!Notify
<1>2. windows \in WindowsRec /\ Window!TypeOK /\ posted \in BOOLEAN /\ stop \in BOOLEAN
  BY WindowTypes DEF WindowInv
<1>3. windows' \in WindowsRec /\ windows'.focus = FALSE /\ windows'.iconic = iconic
      /\ windows'.held = FALSE
  BY <1>1, <1>2 DEF WindowsRec
<1>4. flag' \in FlagRec /\ flag'.active = FALSE /\ flag'.minimized = iconic
      /\ flag'.syskey = FALSE
  BY <1>1 DEF FlagRec
<1>5. runEvent' \in BOOLEAN /\ (option.pausing => ~runEvent')
  BY <1>1, <1>2, <1>4, Evaluates
<1>6. Flags'
  BY <1>1, <1>3, <1>4, <1>5 DEF Flags, Window!InFront
<1> QED  BY <1>1, <1>2, <1>3, <1>4, <1>5, <1>6, MessageKeeps

LEMMA SysKeyStep ==
  ASSUME WindowInv, (\E vkey \in {"ALT", "F10"} : Window!SysKeyDown(vkey))
                      \/ Window!SysKeyUp \/ Window!SysKeyUpConsumed
  PROVE  WindowInv'
<1>1. windows \in WindowsRec /\ flag \in FlagRec /\ Window!TypeOK /\ posted \in BOOLEAN
      /\ stop \in BOOLEAN /\ misled \in BOOLEAN /\ deviceActive \in BOOLEAN /\ runEvent \in BOOLEAN
  BY WindowTypes DEF WindowInv
<1>2. ASSUME NEW vkey \in {"ALT", "F10"}, Window!SysKeyDown(vkey)
      PROVE  WindowInv'
  <2>1. /\ Window!Procedure /\ session' = "open" /\ option' = option /\ windows.focus
        /\ windows' = [windows EXCEPT !.held = TRUE]
        /\ flag' = [flag EXCEPT !.syskey = vkey # "F10"]
        /\ UNCHANGED <<posted, deviceActive, runEvent, stop, misled>>
    BY <1>2 DEF Window!SysKeyDown, Window!Procedure
  <2>2. windows' \in WindowsRec /\ windows'.focus = windows.focus
        /\ windows'.iconic = windows.iconic /\ windows'.modal = windows.modal
        /\ windows'.held = TRUE
    BY <1>1, <2>1 DEF WindowsRec
  <2>3. flag' \in FlagRec /\ flag'.active = flag.active /\ flag'.minimized = flag.minimized
    BY <1>1, <2>1 DEF FlagRec
  <2>4. Flags'
    BY <2>1, <2>2, <2>3 DEF WindowInv, Flags, Window!InFront, Window!Procedure
  <2> QED  BY <1>1, <2>1, <2>2, <2>3, <2>4, MessageKeeps
<1>3. CASE Window!SysKeyUp
  <2>1. /\ Window!Procedure /\ session' = "open" /\ option' = option /\ windows.held
        /\ windows' = [windows EXCEPT !.held = FALSE]
        /\ flag' = [flag EXCEPT !.syskey = FALSE]
        /\ Window!Evaluate(flag') /\ misled' = windows.modal
        /\ UNCHANGED <<posted, deviceActive, stop>>
    BY <1>3 DEF Window!SysKeyUp, Window!Procedure
  <2>2. windows' \in WindowsRec /\ windows'.focus = windows.focus
        /\ windows'.iconic = windows.iconic /\ windows'.modal = windows.modal
        /\ windows'.held = FALSE /\ misled' \in BOOLEAN
    BY <1>1, <2>1 DEF WindowsRec
  <2>3. flag' \in FlagRec /\ flag'.active = flag.active /\ flag'.minimized = flag.minimized
        /\ flag'.syskey = FALSE
    BY <1>1, <2>1 DEF FlagRec
  <2>4. runEvent' \in BOOLEAN /\ (flag.active /\ ~flag.minimized => runEvent')
        /\ (option.pausing /\ ~flag.active => ~runEvent')
    BY <1>1, <2>1, <2>3, Evaluates
  <2>5. Flags'
    BY <2>1, <2>2, <2>3, <2>4 DEF WindowInv, Flags, Window!InFront, Window!Procedure
  <2> QED  BY <1>1, <2>1, <2>2, <2>3, <2>4, <2>5, MessageKeeps
<1>4. CASE Window!SysKeyUpConsumed
  <2>1. /\ Window!Procedure /\ session' = "open" /\ option' = option
        /\ windows' = [windows EXCEPT !.held = FALSE] /\ misled' = TRUE
        /\ UNCHANGED <<flag, posted, deviceActive, runEvent, stop>>
    BY <1>4 DEF Window!SysKeyUpConsumed, Window!Procedure
  <2>2. windows' \in WindowsRec /\ windows'.focus = windows.focus
        /\ windows'.iconic = windows.iconic /\ windows'.modal = windows.modal
        /\ windows'.held = FALSE
    BY <1>1, <2>1 DEF WindowsRec
  <2>3. Flags'
    BY <2>1, <2>2 DEF WindowInv, Flags, Window!InFront, Window!Procedure
  <2> QED  BY <1>1, <2>1, <2>2, <2>3, MessageKeeps
<1> QED  BY <1>2, <1>3, <1>4

LEMMA LoopStep ==
  ASSUME WindowInv, Window!EnterLoop \/ Window!ExitLoop
  PROVE  WindowInv'
<1>1. windows \in WindowsRec /\ flag \in FlagRec /\ posted \in BOOLEAN
      /\ stop \in BOOLEAN /\ misled \in BOOLEAN /\ deviceActive \in BOOLEAN /\ runEvent \in BOOLEAN
  BY WindowTypes DEF WindowInv
<1>2. CASE Window!EnterLoop
  <2>1. /\ Window!Procedure /\ session' = "open" /\ option' = option
        /\ windows' = [windows EXCEPT !.modal = TRUE]
        /\ flag' = [flag EXCEPT !.active = FALSE] /\ deviceActive' = FALSE
        /\ UNCHANGED <<posted, runEvent, stop, misled>>
    BY <1>2 DEF Window!EnterLoop, Window!Procedure, Window!Notify
  <2>2. windows' \in WindowsRec /\ windows'.focus = windows.focus
        /\ windows'.iconic = windows.iconic /\ windows'.modal = TRUE
        /\ windows'.held = windows.held
    BY <1>1, <2>1 DEF WindowsRec
  <2>3. flag' \in FlagRec /\ flag'.active = FALSE /\ flag'.minimized = flag.minimized
        /\ flag'.syskey = flag.syskey
    BY <1>1, <2>1 DEF FlagRec
  <2>4. Flags'
    BY <2>1, <2>2, <2>3 DEF WindowInv, Flags, Window!InFront, Window!Procedure
  <2> QED  BY <1>1, <2>1, <2>2, <2>3, <2>4, MessageKeeps
<1>3. CASE Window!ExitLoop
  <2>1. /\ Window!Procedure /\ session' = "open" /\ option' = option
        /\ windows' = [windows EXCEPT !.modal = FALSE]
        /\ flag' = [flag EXCEPT !.active = windows.focus /\ ~windows.iconic]
        /\ posted' = TRUE
        /\ UNCHANGED <<deviceActive, runEvent, stop, misled>>
    BY <1>3 DEF Window!ExitLoop, Window!Procedure
  <2>2. windows' \in WindowsRec /\ windows'.focus = windows.focus
        /\ windows'.iconic = windows.iconic /\ windows'.modal = FALSE
        /\ windows'.held = windows.held
    BY <1>1, <2>1 DEF WindowsRec
  <2>3. flag' \in FlagRec /\ (flag'.active <=> windows.focus /\ ~windows.iconic)
        /\ flag'.minimized = flag.minimized /\ flag'.syskey = flag.syskey
    BY <1>1, <2>1 DEF FlagRec
  <2>4. Flags'
    BY <2>1, <2>2, <2>3 DEF WindowInv, Flags, Window!InFront, Window!Procedure
  <2> QED  BY <1>1, <2>1, <2>2, <2>3, <2>4, MessageKeeps
<1> QED  BY <1>2, <1>3

LEMMA NoticeStep ==
  ASSUME WindowInv, Window!DiAcquire \/ Window!SysCommand \/ Window!Close
  PROVE  WindowInv'
<1>1. windows \in WindowsRec /\ flag \in FlagRec /\ flag.active \in BOOLEAN /\ posted \in BOOLEAN
      /\ stop \in BOOLEAN /\ misled \in BOOLEAN /\ deviceActive \in BOOLEAN /\ runEvent \in BOOLEAN
  BY WindowTypes DEF WindowInv
<1>2. /\ Window!Procedure /\ session = "open" /\ session' = "open" /\ option' = option
      /\ UNCHANGED <<windows, flag, runEvent, misled>>
      /\ posted' \in BOOLEAN /\ stop' \in BOOLEAN
      /\ (deviceActive' = flag.active \/ UNCHANGED <<posted, deviceActive>>)
  BY <1>1 DEF Window!DiAcquire, Window!SysCommand, Window!Close, Window!Procedure, Window!Notify
<1>3. Flags'
  BY <1>2 DEF WindowInv, Flags, Window!InFront
<1> QED  BY <1>1, <1>2, <1>3, MessageKeeps

LEMMA MessageStep == ASSUME WindowInv, Window!Message PROVE WindowInv'
BY ActivateStep, DeactivateStep, SysKeyStep, LoopStep, NoticeStep DEF Window!Message
-----------------------------------------------------------------------------
(* The emulation thread and the timer.                                     *)

(* A step of the emulation thread from one place to another.               *)
LEMMA GotoIs ==
  ASSUME Window!TypeOK, NEW from, NEW to \in {"none", "loop", "event", "validate", "elapsed",
           "reset", "arm", "wait", "remember", "clear", "ended"}, Window!Goto(from, to)
  PROVE  /\ emu.pc = from /\ emu' \in EmuRec /\ emu'.pc = to /\ emu'.delay = emu.delay
         /\ UNCHANGED <<session, option, windows, flag, posted, deviceActive, misled, timer>>
<1>1. emu \in EmuRec
  BY DEF Window!TypeOK, EmuRec
<1>2. emu' = [emu EXCEPT !.pc = to] /\ emu.pc = from
  BY DEF Window!Goto
<1>3. UNCHANGED <<session, option, windows, flag, posted, deviceActive, misled, timer>>
  BY DEF Window!Goto, Window!windowVars
<1> QED  BY <1>1, <1>2, <1>3 DEF EmuRec

(* What such a step must keep.                                             *)
LEMMA ThreadKeeps ==
  ASSUME WindowInv, emu' \in EmuRec, waitFor' \in 0 .. FrameTime, elapsed' \in 0 .. FrameTime,
         stop' \in BOOLEAN, flipEvent' \in BOOLEAN, timer' \in TimerRec, emu.pc # "none",
         UNCHANGED <<session, option, windows, flag, posted, deviceActive, misled, runEvent>>,
         Paced'
  PROVE  WindowInv'
<1>1. Window!TypeOK'
  BY DEF WindowInv, Window!TypeOK, EmuRec, TimerRec
<1>2. session # "menu"
  BY DEF WindowInv, Closed
<1>3. Closed' /\ Flags'
  BY <1>2 DEF WindowInv, Closed, Flags, Window!InFront
<1> QED  BY <1>1, <1>3 DEF WindowInv

(* Steps that leave the time alone.                                        *)
LEMMA PlainStep ==
  ASSUME WindowInv, \/ Window!NextEvent \/ Window!OtherEvent \/ Window!DrawFrame
                    \/ Window!RunEventWait \/ Window!LeaveBus \/ Window!FailBus
                    \/ Window!ClearStop
  PROVE  WindowInv'
<1>1. \E from \in {"loop", "event", "validate", "clear"},
         to \in {"loop", "event", "validate", "elapsed", "clear", "ended"} :
        /\ Window!Goto(from, to)
        /\ stop' \in BOOLEAN /\ UNCHANGED <<runEvent, flipEvent, waitFor, elapsed>>
  <2>1. stop \in BOOLEAN
    BY WindowTypes DEF WindowInv
  <2> QED  BY <2>1 DEF Window!NextEvent, Window!OtherEvent, Window!DrawFrame, Window!RunEventWait,
                       Window!LeaveBus, Window!FailBus, Window!ClearStop, Window!paceVars
<1>2. PICK from \in {"loop", "event", "validate", "clear"},
           to \in {"loop", "event", "validate", "elapsed", "clear", "ended"} :
        /\ Window!Goto(from, to)
        /\ stop' \in BOOLEAN /\ UNCHANGED <<runEvent, flipEvent, waitFor, elapsed>>
  BY <1>1
<1>3. /\ emu.pc = from /\ emu' \in EmuRec /\ emu'.pc = to
      /\ UNCHANGED <<session, option, windows, flag, posted, deviceActive, misled, timer>>
  BY <1>2, GotoIs DEF WindowInv
<1>4. Paced'
  BY <1>2, <1>3 DEF WindowInv, Paced
<1>5. waitFor' \in 0 .. FrameTime /\ elapsed' \in 0 .. FrameTime /\ flipEvent' \in BOOLEAN
      /\ timer' \in TimerRec
  BY <1>2, <1>3, WindowTypes DEF WindowInv, Window!TypeOK, TimerRec
<1> QED  BY <1>2, <1>3, <1>4, <1>5, ThreadKeeps

LEMMA ReadElapsedStep == ASSUME WindowInv, Window!ReadElapsed PROVE WindowInv'
<1>1. /\ emu.pc = "elapsed"
      /\ emu' = IF elapsed < FrameTime THEN [pc |-> "reset", delay |-> FrameTime - elapsed]
                                       ELSE [emu EXCEPT !.pc = "remember"]
      /\ UNCHANGED <<session, option, windows, flag, posted, deviceActive, misled, runEvent, stop,
                     flipEvent, waitFor, elapsed, timer>>
  BY DEF Window!ReadElapsed, Window!windowVars, Window!paceVars
<1>2. /\ emu \in EmuRec /\ waitFor \in 0 .. FrameTime /\ elapsed \in 0 .. FrameTime
      /\ stop \in BOOLEAN /\ flipEvent \in BOOLEAN /\ timer \in TimerRec
  BY WindowTypes DEF WindowInv, Window!TypeOK, EmuRec, TimerRec
<1>3. waitFor = 0 /\ timer.pc \in {"idle", "test"}
  BY <1>1 DEF WindowInv, Paced
<1>4. CASE elapsed < FrameTime
  <2>1. FrameTime - elapsed \in 0 .. FrameTime /\ FrameTime - elapsed > 0
        /\ FrameTime - elapsed + elapsed >= FrameTime
    BY <1>2, <1>4, FrameIsLong
  <2>2. emu' \in EmuRec /\ emu'.pc = "reset" /\ emu'.delay = FrameTime - elapsed
    BY <1>1, <1>4, <2>1 DEF EmuRec
  <2>3. Paced'
    BY <1>1, <1>3, <2>1, <2>2 DEF Paced
  <2> QED  BY <1>1, <1>2, <2>2, <2>3, ThreadKeeps
<1>5. CASE ~(elapsed < FrameTime)
  <2>1. elapsed >= FrameTime - 1
    BY <1>2, <1>5, FrameIsLong
  <2>2. emu' \in EmuRec /\ emu'.pc = "remember"
    BY <1>1, <1>2, <1>5 DEF EmuRec
  <2>3. Paced'
    BY <1>1, <1>3, <2>1, <2>2 DEF Paced
  <2> QED  BY <1>1, <1>2, <2>2, <2>3, ThreadKeeps
<1> QED  BY <1>4, <1>5

LEMMA DelayStep ==
  ASSUME WindowInv, \/ Window!ResetFlipEvent \/ Window!Arm \/ Window!WaitFlip
                    \/ Window!RememberFlipTime
  PROVE  WindowInv'
<1>1. /\ Window!TypeOK /\ emu \in EmuRec /\ emu.delay \in 0 .. FrameTime
      /\ waitFor \in 0 .. FrameTime /\ elapsed \in 0 .. FrameTime
      /\ stop \in BOOLEAN /\ flipEvent \in BOOLEAN /\ timer \in TimerRec
  BY WindowTypes DEF WindowInv, Window!TypeOK, EmuRec, TimerRec
<1>2. CASE Window!ResetFlipEvent
  <2>1. Window!Goto("reset", "arm") /\ flipEvent' = FALSE
        /\ UNCHANGED <<runEvent, stop, waitFor, elapsed>>
    BY <1>2 DEF Window!ResetFlipEvent
  <2>2. /\ emu.pc = "reset" /\ emu' \in EmuRec /\ emu'.pc = "arm" /\ emu'.delay = emu.delay
        /\ UNCHANGED <<session, option, windows, flag, posted, deviceActive, misled, timer>>
    BY <1>1, <2>1, GotoIs
  <2>3. Paced'
    BY <2>1, <2>2 DEF WindowInv, Paced
  <2> QED  BY <1>1, <2>1, <2>2, <2>3, ThreadKeeps
<1>3. CASE Window!Arm
  <2>1. Window!Goto("arm", "wait") /\ waitFor' = emu.delay
        /\ UNCHANGED <<runEvent, stop, flipEvent, elapsed>>
    BY <1>3 DEF Window!Arm
  <2>2. /\ emu.pc = "arm" /\ emu' \in EmuRec /\ emu'.pc = "wait" /\ emu'.delay = emu.delay
        /\ UNCHANGED <<session, option, windows, flag, posted, deviceActive, misled, timer>>
    BY <1>1, <2>1, GotoIs
  <2>3. /\ emu.delay > 0 /\ emu.delay + elapsed >= FrameTime /\ ~flipEvent
        /\ timer.pc \in {"idle", "test"}
    BY <2>2 DEF WindowInv, Paced
  <2>4. emu.delay + elapsed >= FrameTime - 1
    BY <1>1, <2>3, FrameIsLong
  <2>5. Paced'
    BY <1>1, <2>1, <2>2, <2>3, <2>4 DEF Paced
  <2> QED  BY <1>1, <2>1, <2>2, <2>5, ThreadKeeps
<1>4. CASE Window!WaitFlip
  <2>1. Window!Goto("wait", "remember") /\ flipEvent /\ flipEvent' = FALSE
        /\ UNCHANGED <<runEvent, stop, waitFor, elapsed>>
    BY <1>4 DEF Window!WaitFlip
  <2>2. /\ emu.pc = "wait" /\ emu' \in EmuRec /\ emu'.pc = "remember"
        /\ UNCHANGED <<session, option, windows, flag, posted, deviceActive, misled, timer>>
    BY <1>1, <2>1, GotoIs
  <2>3. waitFor = 0 /\ timer.pc # "signal" /\ timer.pc # "decrement"
        /\ waitFor + elapsed >= FrameTime - 1
    BY <2>1, <2>2 DEF WindowInv, Paced
  <2>4. elapsed >= FrameTime - 1 /\ timer.pc \in {"idle", "test"}
    BY <1>1, <2>3, FrameIsLong DEF TimerRec
  <2>5. Paced'
    BY <2>1, <2>2, <2>3, <2>4 DEF Paced
  <2> QED  BY <1>1, <2>1, <2>2, <2>5, ThreadKeeps
<1>5. CASE Window!RememberFlipTime
  <2>1. Window!Goto("remember", "loop") /\ elapsed' = 0
        /\ UNCHANGED <<runEvent, stop, flipEvent, waitFor>>
    BY <1>5 DEF Window!RememberFlipTime
  <2>2. /\ emu.pc = "remember" /\ emu' \in EmuRec /\ emu'.pc = "loop"
        /\ UNCHANGED <<session, option, windows, flag, posted, deviceActive, misled, timer>>
    BY <1>1, <2>1, GotoIs
  <2>3. Paced'
    BY <2>1, <2>2 DEF WindowInv, Paced
  <2>4. elapsed' \in 0 .. FrameTime
    BY <2>1, FrameIsLong
  <2> QED  BY <1>1, <2>1, <2>2, <2>3, <2>4, ThreadKeeps
<1> QED  BY <1>2, <1>3, <1>4, <1>5

LEMMA ThreadStep == ASSUME WindowInv, Window!Emulation \/ Window!FailBus PROVE WindowInv'
BY PlainStep, ReadElapsedStep, DelayStep DEF Window!Emulation

LEMMA CallbackStep == ASSUME WindowInv, Window!Callback PROVE WindowInv'
<1>1. /\ waitFor \in 0 .. FrameTime /\ elapsed \in 0 .. FrameTime /\ flipEvent \in BOOLEAN
      /\ timer \in TimerRec
  BY WindowTypes DEF WindowInv, Window!TypeOK, TimerRec
<1>2. \A from, to \in {"idle", "test", "decrement", "signal"} :
        Window!TimerStep(from, to) => timer.pc = from /\ timer' \in TimerRec /\ timer'.pc = to
  BY <1>1 DEF Window!TimerStep, TimerRec
<1>3. ASSUME timer' \in TimerRec, waitFor' \in 0 .. FrameTime, elapsed' \in 0 .. FrameTime,
             flipEvent' \in BOOLEAN, Paced',
             UNCHANGED <<session, option, windows, flag, posted, deviceActive, misled, runEvent,
                         stop, emu>>
      PROVE  WindowInv'
  <2>1. Window!TypeOK'
    BY <1>3 DEF WindowInv, Window!TypeOK, TimerRec
  <2> QED  BY <1>3, <2>1 DEF WindowInv, Closed, Flags, Window!InFront
<1>4. CASE Window!Tick
  <2>1. /\ Window!TimerStep("idle", "test")
        /\ elapsed' = IF elapsed < FrameTime THEN elapsed + 1 ELSE FrameTime
        /\ UNCHANGED <<session, option, windows, flag, posted, deviceActive, misled, runEvent,
                       stop, emu, flipEvent, waitFor>>
    BY <1>4 DEF Window!Tick, Window!windowVars
  <2>2. timer.pc = "idle" /\ timer' \in TimerRec /\ timer'.pc = "test"
    BY <1>2, <2>1
  <2>3. elapsed' \in 0 .. FrameTime /\ elapsed' >= elapsed
        /\ (elapsed' = FrameTime \/ elapsed' = elapsed + 1)
    BY <1>1, <2>1, FrameIsLong
  <2>4. emu.delay \in 0 .. FrameTime
    BY WindowTypes DEF WindowInv
  <2>5. Paced'
    BY <1>1, <2>1, <2>2, <2>3, <2>4, FrameIsLong DEF WindowInv, Paced
  <2> QED  BY <1>1, <1>3, <2>1, <2>2, <2>3, <2>5
<1>5. CASE Window!TestWait
  <2>1. /\ Window!TimerStep("test", IF waitFor > 0 THEN "decrement" ELSE "idle")
        /\ UNCHANGED <<session, option, windows, flag, posted, deviceActive, misled, runEvent,
                       stop, emu, flipEvent, waitFor, elapsed>>
    BY <1>5 DEF Window!TestWait, Window!windowVars, Window!paceVars
  <2>2. timer.pc = "test" /\ timer' \in TimerRec
        /\ timer'.pc = IF waitFor > 0 THEN "decrement" ELSE "idle"
    BY <1>2, <2>1
  <2>3. Paced'
    BY <1>1, <2>1, <2>2 DEF WindowInv, Paced
  <2> QED  BY <1>1, <1>3, <2>1, <2>2, <2>3
<1>6. CASE Window!Decrement
  <2>1. /\ Window!TimerStep("decrement", IF waitFor = 1 THEN "signal" ELSE "idle")
        /\ waitFor' = waitFor - 1
        /\ UNCHANGED <<session, option, windows, flag, posted, deviceActive, misled, runEvent,
                       stop, emu, flipEvent, elapsed>>
    BY <1>6 DEF Window!Decrement, Window!windowVars
  <2>2. timer.pc = "decrement" /\ timer' \in TimerRec
        /\ timer'.pc = IF waitFor = 1 THEN "signal" ELSE "idle"
    BY <1>2, <2>1
  <2>3. waitFor > 0 /\ emu.pc = "wait" /\ waitFor + elapsed >= FrameTime /\ ~flipEvent
    BY <1>1, <2>2 DEF WindowInv, Paced
  <2>4. /\ waitFor' \in 0 .. FrameTime /\ waitFor' + elapsed >= FrameTime - 1
        /\ (waitFor = 1 => waitFor' = 0) /\ (waitFor # 1 => waitFor' > 0)
    BY <1>1, <2>1, <2>3, FrameIsLong
  <2>5. Paced'
    BY <2>1, <2>2, <2>3, <2>4 DEF Paced
  <2> QED  BY <1>1, <1>3, <2>1, <2>2, <2>4, <2>5
<1>7. CASE Window!Signal
  <2>1. /\ Window!TimerStep("signal", "idle") /\ flipEvent' = TRUE
        /\ UNCHANGED <<session, option, windows, flag, posted, deviceActive, misled, runEvent,
                       stop, emu, waitFor, elapsed>>
    BY <1>7 DEF Window!Signal, Window!windowVars
  <2>2. timer.pc = "signal" /\ timer' \in TimerRec /\ timer'.pc = "idle"
    BY <1>2, <2>1
  <2>3. Paced'
    BY <2>1, <2>2 DEF WindowInv, Paced
  <2> QED  BY <1>1, <1>3, <2>1, <2>2, <2>3
<1> QED  BY <1>4, <1>5, <1>6, <1>7 DEF Window!Callback
-----------------------------------------------------------------------------
(* The two together.                                                       *)

LEMMA HostInitHolds == HostInit => HostInv
BY HostInitInv, InitIInv DEF HostInit, HostInv

(* The window does not notice the keyboard but for the request to stop,    *)
LEMMA KeyboardKeeps ==
  ASSUME WindowInv, UNCHANGED windowOnly, deviceActive' = deviceActive, stop' \in BOOLEAN
  PROVE  WindowInv'
BY DEF windowOnly, WindowInv, Window!TypeOK, Closed, Flags, Paced, Window!InFront

(* nor the keyboard the window while the devices are not acquired or lost. *)
LEMMA ThreadsKeep ==
  ASSUME IInv, UNCHANGED <<keyboardOnly, deviceActive>>, stop' \in BOOLEAN
  PROVE  IInv'
BY DEF keyboardOnly, IInv, TypeOK, Queues, Pending, Positions, Eaten, Joystick, Adding, Held

LEMMA HandlersKeep ==
  ASSUME HostInv, UNCHANGED windowOnly,
         \/ \E k \in Keys, up \in BOOLEAN : Keypress(k, up)
         \/ Typist \/ Lines \/ (\E k \in Script : ScriptKey(k)) \/ HardReset
  PROVE  HostInv' /\ deviceActive' = deviceActive
<1>1. IInv'
  BY KeypressStep, TypistStep, QueueHandlerStep, EventEOLHandlerStep, EventEOFHandlerStep,
     ScriptKeyStep, HardResetStep DEF HostInv, Lines
<1>2. deviceActive' = deviceActive
  BY DEF Keypress, Typist, ReadPosition, WriteSlot, LoadIn, StoreIn, Compare, Type,
         Lines, QueueHandler, EventEOLHandler, EventEOFHandler, Take, ScriptKey, HardReset
<1>3. stop' \in BOOLEAN
  BY <1>1 DEF IInv, TypeOK
<1> QED  BY <1>1, <1>2, <1>3, KeyboardKeeps DEF HostInv

LEMMA HostNextInv == HostInv /\ [HostNext]_allVars => HostInv'
<1> SUFFICES ASSUME HostInv, [HostNext]_allVars
             PROVE  HostInv'
  OBVIOUS
<1>1. CASE SessionStart
  <2>1. WindowInv'
    BY <1>1, WindowStarts DEF HostInv, SessionStart
  <2>2. UNCHANGED deviceActive /\ stop' \in BOOLEAN
    BY <1>1 DEF SessionStart, Window!EmulationStart
  <2>3. IInv'
    BY <1>1, <2>2, StartKeeps DEF HostInv, SessionStart, Free
  <2> QED  BY <2>1, <2>3 DEF HostInv
<1>2. CASE SessionEnd \/ HandleMessage
  <2>1. WindowInv'
    BY <1>2, WindowStops, MessageStep DEF HostInv, SessionEnd, HandleMessage
  <2>2. stop' \in BOOLEAN /\ deviceActive' \in BOOLEAN
    BY <2>1, WindowTypes DEF WindowInv, Window!TypeOK
  <2>3. IInv'
    BY <1>2, <2>2, ClearKeeps
    DEF HostInv, SessionEnd, HandleMessage, Free, LoseDevices, OtherKeyboard
  <2> QED  BY <2>1, <2>3 DEF HostInv
<1>3. ASSUME NEW k \in Keys, NEW up \in BOOLEAN, HandleKey(k, up)
      PROVE  HostInv'
  BY <1>3, HandlersKeep DEF HandleKey
<1>4. CASE KeyStep
  BY <1>4, HandlersKeep DEF KeyStep
<1>5. CASE InEvent(Lines) \/ InEvent(\E k \in Script : ScriptKey(k)) \/ InEvent(HardReset)
  BY <1>5, HandlersKeep DEF InEvent
<1>6. CASE EmulationStep \/ Fail \/ TimerStep
  <2>1. WindowInv'
    BY <1>6, ThreadStep, CallbackStep DEF HostInv, EmulationStep, Fail, TimerStep
  <2>2. stop' \in BOOLEAN
    BY <2>1 DEF WindowInv, Window!TypeOK
  <2>3. IInv'
    BY <1>6, <2>2, ThreadsKeep DEF HostInv, EmulationStep, Fail, TimerStep
  <2> QED  BY <2>1, <2>3 DEF HostInv
<1>7. CASE UNCHANGED allVars
  <2>1. UNCHANGED <<windowOnly, keyboardOnly, deviceActive, stop>>
    BY <1>7 DEF allVars
  <2>2. stop' \in BOOLEAN
    BY <2>1 DEF HostInv, IInv, TypeOK
  <2> QED  BY <2>1, <2>2, KeyboardKeeps, ThreadsKeep DEF HostInv
<1> QED  BY <1>1, <1>2, <1>3, <1>4, <1>5, <1>6, <1>7 DEF HostNext

LEMMA HostInvariance == HostSpec => []HostInv
<1>1. HostInit => HostInv
  BY HostInitHolds
<1>2. HostInv /\ [HostNext]_allVars => HostInv'
  BY HostNextInv
<1> QED  BY <1>1, <1>2, PTL DEF HostSpec

(* The emulation runs in front of the user and is paused in the background *)
(* if the user wants that, whatever messages Windows sends in whatever     *)
(* order, as far as the window procedure can know.                         *)
THEOREM PauseIsRight == HostSpec => []PauseFollowsWindow
<1>1. HostInv => PauseFollowsWindow
  BY DEF HostInv, WindowInv, Flags, PauseFollowsWindow, Window!PauseFollowsWindow, Window!InFront
<1> QED  BY <1>1, HostInvariance, PTL

(* The window in front has the DirectInput devices once WM_DIACQUIRE has   *)
(* been handled, and no window in the background has them.                 *)
THEOREM DevicesAreRight == HostSpec => []DevicesFollowWindow
<1>1. HostInv => DevicesFollowWindow
  <2> SUFFICES ASSUME HostInv
               PROVE  DevicesFollowWindow
    OBVIOUS
  <2>1. CASE session = "menu"
    <3>1. ~windows.focus /\ ~deviceActive
      BY <2>1 DEF HostInv, WindowInv, Closed, Window!AnyFocus
    <3> QED  BY <2>1, <3>1 DEF DevicesFollowWindow, Window!DevicesFollowWindow, Window!InFront
  <2>2. CASE session = "open"
    BY <2>2 DEF HostInv, WindowInv, Flags, DevicesFollowWindow, Window!DevicesFollowWindow, Window!InFront
  <2>3. session \in {"menu", "open"}
    BY DEF HostInv, WindowInv, Window!TypeOK
  <2> QED  BY <2>1, <2>2, <2>3
<1> QED  BY <1>1, HostInvariance, PTL

(* For every frame time, two flips are as far apart as they should be, and *)
(* the emulation thread waits only for a signal that is still to come.     *)
THEOREM FlipsAreApart == HostSpec => []FlipsArePaced
<1>1. HostInv => FlipsArePaced
  BY DEF HostInv, WindowInv, Paced, FlipsArePaced, Window!FlipsArePaced
<1> QED  BY <1>1, HostInvariance, PTL

(* The rings stay queues and the joystick follows its key when sessions    *)
(* begin and end and the window loses the devices.                         *)
THEOREM KeysAreRight ==
  HostSpec => [](QueueIsFifo /\ EatenIffEvent /\ JoystickFollowsKey)
<1>1. HostInv => QueueIsFifo /\ EatenIffEvent /\ JoystickFollowsKey
  BY InvIsRight DEF HostInv
<1> QED  BY <1>1, HostInvariance, PTL

(* To the window and the emulation's thread the keyboard is no more than   *)
(* another way to ask for the end: with it every step is one of module     *)
(* EmulationWindow, or none.                                               *)
THEOREM HostImplementsWindow == HostSpec => Window!Init /\ [][Window!Next]_(Window!vars)
<1>1. HostInit => Window!Init
  BY DEF HostInit
<1>2. HostInv /\ [HostNext]_allVars => [Window!Next]_(Window!vars)
  <2> SUFFICES ASSUME HostInv, [HostNext]_allVars
               PROVE  Window!Next \/ UNCHANGED Window!vars
    OBVIOUS
  <2>1. CASE SessionStart \/ SessionEnd \/ HandleMessage \/ EmulationStep \/ Fail \/ TimerStep
    BY <2>1
    DEF SessionStart, SessionEnd, HandleMessage, EmulationStep, Fail, TimerStep, Window!Next
  <2>2. ASSUME UNCHANGED <<windowOnly, deviceActive, stop>>
        PROVE  UNCHANGED Window!vars
    BY <2>2 DEF windowOnly, Window!vars, Window!windowVars, Window!paceVars
  <2>3. ASSUME NEW k \in Keys, NEW up \in BOOLEAN, HandleKey(k, up)
        PROVE  UNCHANGED Window!vars
    BY <2>2, <2>3 DEF HandleKey, Keypress
  <2>4. CASE KeyStep
    BY <2>2, <2>4
    DEF KeyStep, Typist, ReadPosition, WriteSlot, LoadIn, StoreIn, Compare, Type
  <2>5. CASE InEvent(\E k \in Script : ScriptKey(k)) \/ InEvent(HardReset)
    BY <2>2, <2>5 DEF InEvent, ScriptKey, HardReset
  <2>6. CASE InEvent(Lines)
    <3>1. CASE QueueHandler \/ EventEOLHandler
      BY <2>2, <2>6, <3>1 DEF InEvent, QueueHandler, EventEOLHandler, Take
    <3>2. CASE EventEOFHandler
      <4>1. /\ stop' = (stop \/ Oldest("eventsEOF") = Down("exit"))
            /\ UNCHANGED <<windowOnly, deviceActive>> /\ emu.pc = "event"
        BY <2>6, <3>2 DEF InEvent, EventEOFHandler, Take
      <4>2. CASE Oldest("eventsEOF") = Down("exit")
        <5>1. stop' = TRUE
          BY <4>1, <4>2
        <5>2. session = "open"
          BY <4>1 DEF HostInv, WindowInv, Closed, Window!TypeOK
        <5>3. Window!Close
          BY <4>1, <5>1, <5>2
          DEF Window!Close, Window!Procedure, Window!paceVars, windowOnly
        <5> QED  BY <5>3 DEF Window!Next, Window!Message
      <4>3. CASE Oldest("eventsEOF") # Down("exit")
        <5>1. stop \in BOOLEAN
          BY WindowTypes DEF HostInv, WindowInv
        <5>2. stop' = stop
          BY <4>1, <4>3, <5>1
        <5> QED  BY <2>2, <4>1, <5>2
      <4> QED  BY <4>2, <4>3
    <3> QED  BY <2>6, <3>1, <3>2 DEF InEvent, Lines
  <2>7. CASE UNCHANGED allVars
    BY <2>2, <2>7 DEF allVars
  <2> QED  BY <2>1, <2>3, <2>4, <2>5, <2>6, <2>7 DEF HostNext
<1> QED  BY <1>1, <1>2, HostInvariance, PTL DEF HostSpec
=============================================================================
