------------------------------ MODULE HostInput ------------------------------
(***************************************************************************)
(* The window of a session and the keyboard together.  They share the      *)
(* acquired devices, which the window procedure hands to the keyboard      *)
(* driver (NotifyDirectInputDevicesAboutActiveState calls                  *)
(* kbdDrvStateHasChanged), the request to stop, which the exit key makes   *)
(* on the emulation thread, and both threads: winDrvEmulate handles a key  *)
(* or a message, and busRunGeneric calls the keyboard's handlers in its    *)
(* events.                                                                 *)
(***************************************************************************)
EXTENDS KeyboardQueues

CONSTANTS FrameTime, Pausing, Sound, TimerMayFail

ASSUME WindowAssumption ==
  /\ FrameTime \in Nat \ {0} /\ Pausing \subseteq BOOLEAN /\ Sound \subseteq BOOLEAN
  /\ TimerMayFail \in BOOLEAN

VARIABLES session, option, windows, flag, posted, runEvent, emu, flipEvent, waitFor,
          elapsed, timer, misled

Window == INSTANCE EmulationWindow

windowOnly ==
  <<session, option, windows, flag, posted, runEvent, emu, flipEvent, waitFor, elapsed,
    timer, misled>>
keyboardOnly ==
  <<ring, timeToWait, keys, switcher, typist, port, owed, spoilt, raced, excused>>
allVars == <<windowOnly, keyboardOnly, deviceActive, stop>>

HostInit == Init /\ Window!Init

(* The window's thread is not in the middle of a key.                      *)
Free == typist.pc = "idle"

SessionStart ==
  /\ Free /\ Window!EmulationStart
  /\ keys' = {} /\ switcher' = FALSE /\ port' = FALSE
  /\ excused' = (Len(owed["eventsEOL"]) > 0)
  /\ UNCHANGED <<ring, timeToWait, typist, owed, spoilt, raced>>

(* Once the devices are lost, no key is down.                              *)
LoseDevices == IF deviceActive' THEN UNCHANGED <<keys, excused>> ELSE Clear

OtherKeyboard == <<ring, timeToWait, switcher, typist, port, owed, spoilt, raced>>

SessionEnd == Free /\ Window!EmulationStop /\ LoseDevices /\ UNCHANGED OtherKeyboard

HandleMessage == Free /\ Window!Message /\ LoseDevices /\ UNCHANGED OtherKeyboard

HandleKey(k, up) ==
  session = "open" /\ ~windows.modal /\ Keypress(k, up) /\ UNCHANGED windowOnly

KeyStep == Typist /\ UNCHANGED windowOnly

(* The emulation thread calls the keyboard while it handles an event.      *)
InEvent(Handler) == emu.pc = "event" /\ Handler /\ UNCHANGED windowOnly

EmulationStep == Window!Emulation /\ UNCHANGED <<keyboardOnly, deviceActive>>
Fail          == Window!FailBus /\ UNCHANGED <<keyboardOnly, deviceActive, stop>>
TimerStep     == Window!Callback /\ UNCHANGED <<keyboardOnly, deviceActive, stop>>

HostNext ==
  \/ SessionStart \/ SessionEnd \/ HandleMessage
  \/ \E k \in Keys, up \in BOOLEAN : HandleKey(k, up)
  \/ KeyStep
  \/ InEvent(Lines) \/ InEvent(\E k \in Script : ScriptKey(k)) \/ InEvent(HardReset)
  \/ EmulationStep \/ Fail \/ TimerStep

(* Every end of frame calls the handler of the emulator's events, and the  *)
(* frames go on; nobody has to press a key.                                *)
HostFairness ==
  /\ WF_allVars(EmulationStep) /\ WF_allVars(TimerStep)
  /\ WF_allVars(SessionEnd) /\ WF_allVars(KeyStep)
  /\ SF_allVars(InEvent(EventEOFHandler))

HostSpec == HostInit /\ [][HostNext]_allVars /\ HostFairness
-----------------------------------------------------------------------------
(* The pause, the devices and the flips of EmulationWindow, with keys on   *)
(* their way through both threads; and the end of a closed window.         *)
PauseFollowsWindow  == Window!PauseFollowsWindow
DevicesFollowWindow == Window!DevicesFollowWindow
FlipsArePaced       == Window!FlipsArePaced
CloseEndsSession    == Window!CloseEndsSession

(* "Exit": the key pressed and released in a session ends the session,     *)
(* over both threads, the ring buffer and the request; unless the          *)
(* emulation is paused, the timer has failed, a loop of Windows holds the  *)
(* window's thread or a reset of the Amiga emptied the buffer.             *)
ExitEndsSession ==
  session = "open" /\ "eventsEOF" \notin spoilt
    /\ (\E i \in 1 .. Len(owed["eventsEOF"]) : owed["eventsEOF"][i] = Down("exit"))
    ~> session = "menu" \/ ~runEvent \/ Window!TimerFailed \/ windows.modal \/ raced
=============================================================================
