SPECIFICATION MCSpec
CONSTANTS
  Length = 2
  Pace = 2
  Plain = {"alt", "tab"}
  Alt = "alt"
  Tab = "tab"
  Exit = "f11"
  Dump = "print"
  Joy = "joy"
  Windowed = {TRUE, FALSE}
  Script = {"tab"}
  MaxIn = 3
  FrameTime = 2
  Pausing = {TRUE, FALSE}
  Sound = {TRUE, FALSE}
  TimerMayFail = TRUE
  KeyPairs = {{"alt", "tab"}, {"alt", "f11"}, {"print", "alt"}, {"joy"}}
INVARIANTS PauseFollowsWindow DevicesFollowWindow FlipsArePaced QueueIsFifo EatenIffEvent
  JoystickFollowsKey
PROPERTIES CloseEndsSession ExitEndsSession
