--------------------------- MODULE EmulationWindow ---------------------------
(***************************************************************************)
(* The window of an emulation session, its message procedure and the       *)
(* events by which it pauses the emulation thread (GfxDrvCommon.cpp), the  *)
(* timer that paces the frames (Timers.cpp), and the start and end of a    *)
(* session (winDrvEmulationStart, WindowsMain.cpp).                        *)
(*                                                                         *)
(* Three threads: the one of the window, the emulation and the timer's.    *)
(* Windows itself is external: it moves the focus, runs loops of its own   *)
(* while a menu is open or the window is dragged, and reports the release  *)
(* of a system key only to the window that has the focus.                  *)
(***************************************************************************)
EXTENDS Integers

CONSTANTS
  FrameTime,       \* _frametime_target, in milliseconds
  Pausing,         \* the values of _pause_emulation_when_window_loses_focus
  Sound,           \* may sound be on (SOUND_PLAY), which paces the frames?
  TimerMayFail     \* may timerEmulationStart fail?

VARIABLES
  session,      \* is there a window?
  option,       \* of this session
  windows,      \* what Windows knows of the window, see TypeOK
  flag,         \* _win_active_original, _win_minimized_original, _syskey_down
  posted,       \* is a WM_DIACQUIRE in the message queue?
  deviceActive, \* kbd_drv_active: are the DirectInput devices acquired?
  runEvent,     \* _run_event is set
  stop,         \* fellow_request_emulation_stop
  emu,          \* the emulation thread
  flipEvent,    \* _delay_flip_event is set
  waitFor,      \* _wait_for_time
  elapsed,      \* _time - _previous_flip_time, no more than FrameTime
  timer,        \* the timer's thread
  misled        \* history: was a system key last released in a loop of Windows?

windowVars == <<session, option, windows, flag, posted, deviceActive, misled>>
paceVars   == <<flipEvent, waitFor, elapsed>>
vars == <<windowVars, runEvent, stop, emu, paceVars, timer>>

TypeOK ==
  /\ session \in {"menu", "open"}
  /\ option \in [pausing : BOOLEAN, sound : BOOLEAN]
  /\ windows \in [focus : BOOLEAN, iconic : BOOLEAN,
                  modal : BOOLEAN,     \* in a loop of Windows' own
                  held : BOOLEAN]      \* a system key went down in this window
  /\ flag \in [active : BOOLEAN, minimized : BOOLEAN, syskey : BOOLEAN]
  /\ {posted, deviceActive, runEvent, stop, flipEvent, misled} \subseteq BOOLEAN
  /\ emu \in [pc : {"none", "loop", "event", "validate", "elapsed", "reset", "arm", "wait",
                    "remember", "clear", "ended"},
              delay : 0 .. FrameTime]
  /\ waitFor \in 0 .. FrameTime
  /\ elapsed \in 0 .. FrameTime
  /\ timer \in [running : BOOLEAN, pc : {"idle", "test", "decrement", "signal"}]

AnyFocus == [focus |-> FALSE, iconic |-> FALSE, modal |-> FALSE, held |-> FALSE]
NoFlags  == [active |-> FALSE, minimized |-> FALSE, syskey |-> FALSE]

Init ==
  /\ session = "menu"
  /\ option = [pausing |-> FALSE, sound |-> FALSE]
  /\ windows = AnyFocus
  /\ flag = NoFlags
  /\ posted = FALSE
  /\ deviceActive = FALSE
  /\ runEvent = FALSE
  /\ stop = FALSE
  /\ emu = [pc |-> "none", delay |-> 0]
  /\ flipEvent = FALSE
  /\ waitFor = 0
  /\ elapsed = 0
  /\ timer = [running |-> FALSE, pc |-> "idle"]
  /\ misled = FALSE
-----------------------------------------------------------------------------
(* The session, on the thread of the window.                               *)

(* fellowEmulationStart, with a window that is not active yet; then the    *)
(* emulation gets its thread.                                              *)
EmulationStart ==
  /\ session = "menu"
  /\ session' = "open"
  /\ option' \in [pausing : Pausing, sound : Sound]
  /\ windows' = AnyFocus
  /\ flag' = NoFlags
  /\ runEvent' = FALSE
  /\ stop' = FALSE
  /\ emu' = [pc |-> "loop", delay |-> 0]
  /\ flipEvent' = TRUE
  /\ waitFor' = 0
  /\ elapsed' = 0
  /\ \E works \in {TRUE, ~TimerMayFail} : timer' = [timer EXCEPT !.running = works]
  /\ misled' = FALSE
  /\ UNCHANGED <<posted, deviceActive>>

(* The loop of winDrvEmulate ends, but not inside a loop of Windows; then  *)
(* fellowEmulationStop destroys the window, and with it its messages.      *)
EmulationStop ==
  /\ session = "open" /\ emu.pc = "ended" /\ ~windows.modal
  /\ session' = "menu"
  /\ windows' = AnyFocus
  /\ posted' = FALSE
  /\ deviceActive' = FALSE
  /\ emu' = [emu EXCEPT !.pc = "none"]
  /\ timer' = [timer EXCEPT !.running = FALSE]
  /\ UNCHANGED <<option, flag, runEvent, stop, paceVars, misled>>
-----------------------------------------------------------------------------
(* EmulationWindowProcedure.                                               *)

(* EvaluateRunEventStatus for flags f, in a window of its own: without the *)
(* headless mode, in which a RetroPlatform host decides about the pause.   *)
Evaluate(f) ==
  runEvent' = \/ f.active /\ ~f.minimized /\ ~f.syskey
              \/ runEvent /\ ~option.pausing

(* NotifyDirectInputDevicesAboutActiveState.                               *)
Notify(active) == deviceActive' = active

Procedure == session = "open" /\ UNCHANGED <<session, option, emu, paceVars, timer>>

(* WM_ACTIVATE: the window becomes active, as an icon or not.              *)
Activate(iconic) ==
  /\ Procedure
  /\ ~windows.focus \/ (windows.iconic /\ ~iconic)
  /\ windows' = [windows EXCEPT !.focus = TRUE, !.iconic = iconic]
  /\ flag' = [flag EXCEPT !.active = TRUE, !.minimized = iconic]
  /\ Notify(TRUE)
  /\ Evaluate(flag')
  /\ UNCHANGED <<posted, stop, misled>>

(* Mutant: the system key is not forgotten when the focus goes.            *)
DeactivateKey(iconic) ==
  /\ Procedure
  /\ windows.focus
  /\ windows' = [windows EXCEPT !.focus = FALSE, !.iconic = iconic, !.held = FALSE]
  /\ flag' = [flag EXCEPT !.active = FALSE, !.minimized = iconic]
  /\ Notify(FALSE)
  /\ Evaluate(flag')
  /\ misled' = FALSE
  /\ UNCHANGED <<posted, stop>>

(* Another application gets the focus: WM_ACTIVATE, then WM_ACTIVATEAPP.   *)
Deactivate(iconic) ==
  /\ Procedure
  /\ windows.focus
  /\ windows' = [windows EXCEPT !.focus = FALSE, !.iconic = iconic, !.held = FALSE]
  /\ flag' = [active |-> FALSE, minimized |-> iconic, syskey |-> FALSE]
  /\ Notify(FALSE)
  /\ Evaluate(flag')
  /\ misled' = FALSE
  /\ UNCHANGED <<posted, stop>>

(* WM_SYSKEYDOWN, which F10 sends like the ALT key.                        *)
SysKeyDown(vkey) ==
  /\ Procedure
  /\ windows.focus /\ ~windows.modal
  /\ windows' = [windows EXCEPT !.held = TRUE]
  /\ flag' = [flag EXCEPT !.syskey = vkey # "F10"]
  /\ UNCHANGED <<posted, deviceActive, runEvent, stop, misled>>

(* WM_SYSKEYUP.                                                            *)
SysKeyUp ==
  /\ Procedure
  /\ windows.held
  /\ windows' = [windows EXCEPT !.held = FALSE]
  /\ flag' = [flag EXCEPT !.syskey = FALSE]
  /\ Evaluate(flag')
  /\ misled' = windows.modal
  /\ UNCHANGED <<posted, deviceActive, stop>>

(* A loop of Windows may keep the release to itself.                       *)
SysKeyUpConsumed ==
  /\ Procedure
  /\ windows.held /\ windows.modal
  /\ windows' = [windows EXCEPT !.held = FALSE]
  /\ misled' = TRUE
  /\ UNCHANGED <<flag, posted, deviceActive, runEvent, stop>>

(* WM_ENTERMENULOOP and WM_ENTERSIZEMOVE.                                  *)
EnterLoop ==
  /\ Procedure
  /\ windows.focus /\ ~windows.iconic /\ ~windows.modal
  /\ windows' = [windows EXCEPT !.modal = TRUE]
  /\ flag' = [flag EXCEPT !.active = FALSE]
  /\ Notify(FALSE)
  /\ UNCHANGED <<posted, runEvent, stop, misled>>

(* Mutant: nobody is told to acquire the devices again.                    *)
ExitLoopSilent ==
  /\ Procedure
  /\ windows.modal
  /\ windows' = [windows EXCEPT !.modal = FALSE]
  /\ flag' = [flag EXCEPT !.active = windows.focus /\ ~windows.iconic]
  /\ UNCHANGED <<posted, deviceActive, runEvent, stop, misled>>

(* WM_EXITMENULOOP and WM_EXITSIZEMOVE.                                    *)
ExitLoop ==
  /\ Procedure
  /\ windows.modal
  /\ windows' = [windows EXCEPT !.modal = FALSE]
  /\ flag' = [flag EXCEPT !.active = windows.focus /\ ~windows.iconic]
  /\ posted' = TRUE
  /\ UNCHANGED <<deviceActive, runEvent, stop, misled>>

(* WM_DIACQUIRE.                                                           *)
DiAcquire ==
  /\ Procedure
  /\ posted
  /\ posted' = FALSE
  /\ Notify(flag.active)
  /\ UNCHANGED <<windows, flag, runEvent, stop, misled>>

(* WM_SYSCOMMAND.                                                          *)
SysCommand ==
  /\ Procedure
  /\ Notify(flag.active)
  /\ UNCHANGED <<windows, flag, posted, runEvent, stop, misled>>

(* WM_CLOSE, and WM_DISPLAYCHANGE of a window.                             *)
Close ==
  /\ Procedure
  /\ stop' = TRUE
  /\ UNCHANGED <<windows, flag, posted, deviceActive, runEvent, misled>>

Message ==
  \/ \E iconic \in BOOLEAN : Activate(iconic) \/ Deactivate(iconic)
  \/ (\E vkey \in {"ALT", "F10"} : SysKeyDown(vkey)) \/ SysKeyUp \/ SysKeyUpConsumed
  \/ EnterLoop \/ ExitLoop \/ DiAcquire \/ SysCommand \/ Close
-----------------------------------------------------------------------------
(* The emulation thread.                                                   *)

Goto(from, to) ==
  emu.pc = from /\ emu' = [emu EXCEPT !.pc = to] /\ UNCHANGED <<windowVars, timer>>

(* busRunGeneric handles one event after the other until it sees a request *)
(* to stop; in the end of frame it reaches the buffer in which it draws.   *)
NextEvent == ~stop /\ Goto("loop", "event") /\ UNCHANGED <<runEvent, stop, paceVars>>
OtherEvent == Goto("event", "loop") /\ UNCHANGED <<runEvent, stop, paceVars>>
DrawFrame == Goto("event", "validate") /\ UNCHANGED <<runEvent, stop, paceVars>>

(* RunEventWait, and then Flip.                                            *)
RunEventWait ==
  /\ runEvent
  /\ Goto("validate", IF option.sound THEN "elapsed" ELSE "loop")
  /\ UNCHANGED <<runEvent, stop, paceVars>>

(* MaybeDelayFlip.                                                         *)
ReadElapsed ==
  /\ emu.pc = "elapsed"
  /\ emu' = IF elapsed < FrameTime THEN [pc |-> "reset", delay |-> FrameTime - elapsed]
                                   ELSE [emu EXCEPT !.pc = "remember"]
  /\ UNCHANGED <<windowVars, runEvent, stop, paceVars, timer>>

(* Mutant: the event is not reset before the wait.                         *)
ResetFlipEventNot ==
  Goto("reset", "arm") /\ UNCHANGED <<runEvent, stop, paceVars>>

(* DelayFlipWait.                                                          *)
ResetFlipEvent ==
  Goto("reset", "arm") /\ flipEvent' = FALSE /\ UNCHANGED <<runEvent, stop, waitFor, elapsed>>

Arm ==
  Goto("arm", "wait") /\ waitFor' = emu.delay /\ UNCHANGED <<runEvent, stop, flipEvent, elapsed>>

WaitFlip ==
  /\ flipEvent
  /\ Goto("wait", "remember") /\ flipEvent' = FALSE
  /\ UNCHANGED <<runEvent, stop, waitFor, elapsed>>

RememberFlipTime ==
  Goto("remember", "loop") /\ elapsed' = 0 /\ UNCHANGED <<runEvent, stop, flipEvent, waitFor>>

(* The loop has seen the request, or an error jumped out of an event;      *)
(* fellowRun clears the request, and the thread signals its end.           *)
LeaveBus  == stop /\ Goto("loop", "clear") /\ UNCHANGED <<runEvent, stop, paceVars>>
FailBus   == Goto("event", "clear") /\ UNCHANGED <<runEvent, stop, paceVars>>
ClearStop == Goto("clear", "ended") /\ stop' = FALSE /\ UNCHANGED <<runEvent, paceVars>>

Emulation ==
  \/ NextEvent \/ OtherEvent \/ DrawFrame \/ RunEventWait \/ ReadElapsed \/ ResetFlipEvent \/ Arm \/ WaitFlip
  \/ RememberFlipTime \/ LeaveBus \/ ClearStop
-----------------------------------------------------------------------------
(* The thread of the timer: DelayFlipTimerCallback, each millisecond; a    *)
(* callback may still be on its way when the timer has been killed.        *)

TimerStep(from, to) == timer.pc = from /\ timer' = [timer EXCEPT !.pc = to]

Tick ==
  /\ timer.running
  /\ TimerStep("idle", "test")
  /\ elapsed' = IF elapsed < FrameTime THEN elapsed + 1 ELSE FrameTime
  /\ UNCHANGED <<windowVars, runEvent, stop, emu, flipEvent, waitFor>>

TestWait ==
  /\ TimerStep("test", IF waitFor > 0 THEN "decrement" ELSE "idle")
  /\ UNCHANGED <<windowVars, runEvent, stop, emu, paceVars>>

(* Mutant: the signal is due when the time was 0 already: never.           *)
DecrementBelow ==
  /\ TimerStep("decrement", IF waitFor = 0 THEN "signal" ELSE "idle")
  /\ waitFor' = IF waitFor = 0 THEN 0 ELSE waitFor - 1
  /\ UNCHANGED <<windowVars, runEvent, stop, emu, flipEvent, elapsed>>

Decrement ==
  /\ TimerStep("decrement", IF waitFor = 1 THEN "signal" ELSE "idle")
  /\ waitFor' = waitFor - 1
  /\ UNCHANGED <<windowVars, runEvent, stop, emu, flipEvent, elapsed>>

Signal ==
  /\ TimerStep("signal", "idle")
  /\ flipEvent' = TRUE
  /\ UNCHANGED <<windowVars, runEvent, stop, emu, waitFor, elapsed>>

Callback == Tick \/ TestWait \/ Decrement \/ Signal

Next == EmulationStart \/ EmulationStop \/ Message \/ Emulation \/ FailBus \/ Callback

(* The threads run and Windows delivers what was posted; nobody has to     *)
(* move the focus, leave a menu or close the window.                       *)
Fairness == /\ WF_vars(Emulation) /\ WF_vars(Callback)
            /\ WF_vars(EmulationStop) /\ WF_vars(DiAcquire)

Spec == Init /\ [][Next]_vars /\ Fairness
-----------------------------------------------------------------------------
InFront == windows.focus /\ ~windows.iconic /\ ~windows.modal

(* The emulation is paused when its window is not the active one, and does *)
(* not stay paused in front of the user, unless a system key was released  *)
(* while the window was dragged or its menu open: WM_EXITSIZEMOVE does not *)
(* evaluate the state of the window again.                                 *)
PauseFollowsWindow ==
  session = "open" => /\ InFront /\ ~windows.held /\ ~misled => runEvent
                      /\ option.pausing /\ ~windows.focus => ~runEvent

(* Once the message that was posted has been handled, the devices are      *)
(* acquired for a window in front, and for no window in the background; a  *)
(* paused emulation gets no keys with which its buffers could overflow,    *)
(* except in a window that is both active and an icon, or held by a system *)
(* key.                                                                    *)
DevicesFollowWindow ==
  /\ session = "menu" => ~deviceActive
  /\ InFront /\ ~posted => deviceActive
  /\ deviceActive => windows.focus
  /\ session = "open" /\ ~runEvent /\ deviceActive /\ ~misled => flag.minimized \/ windows.held

(* Two frames are shown at least the frame time apart, or one millisecond  *)
(* less when the callback runs at that very moment: no signal of an        *)
(* earlier wait lets a frame out.  And the emulation waits for the timer   *)
(* only when a signal is still to come: the time to wait and the event of  *)
(* the two threads never miss each other.                                  *)
FlipsArePaced ==
  /\ emu.pc = "remember" => elapsed >= FrameTime - 1
  /\ emu.pc = "wait" => waitFor > 0 \/ flipEvent \/ timer.pc = "signal"

TimerFailed == option.sound /\ ~timer.running

(* Closing the window ends the session, unless the emulation is paused (it *)
(* looks at the request only when it goes on), the timer it needs has      *)
(* failed or Windows keeps the window's thread in a loop of its own.       *)
CloseEndsSession ==
  stop /\ session = "open"
    ~> session = "menu" \/ ~runEvent \/ TimerFailed \/ windows.modal
=============================================================================
