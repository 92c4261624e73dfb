--------------------------- MODULE KeyboardQueues ---------------------------
(***************************************************************************)
(* Keys on their way to the Amiga: what the keyboard driver makes of a key *)
(* (KeyboardDriver.cpp), the three ring buffers it fills on the window's   *)
(* thread, and the handlers that empty them on the emulation thread        *)
(* (Keyboard.cpp).  Nothing synchronises the two threads: each access to   *)
(* an index or a slot that both use is a step of its own.                  *)
(*                                                                         *)
(* A scancode or an event is a key, or a name, and whether it went up.     *)
(***************************************************************************)
EXTENDS Integers, Sequences

CONSTANTS
  Length,      \* KBDBUFFERLENGTH
  Pace,        \* how many lines there are between two scancodes, 10
  Plain,       \* keys that only the Amiga cares for, among them Alt and Tab
  Alt, Tab,    \* the left ALT key and TAB
  Exit,        \* a key whose release is an event of the emulator, as F11
  Dump,        \* a key that makes events while it is down, as PRINT SCREEN
  Joy,         \* a key that stands for a direction of a joystick
  Windowed,    \* the values of GetOutputWindowed
  Script,      \* keys that the automation adds
  MaxIn        \* bound: how many entries are added to a buffer after a reset

Keys == Plain \union {Alt, Tab, Exit, Dump, Joy}
ASSUME SizeAssumption == Length \in Nat /\ Length >= 2 /\ Pace \in Nat \ {0} /\ MaxIn \in Nat
ASSUME KeyAssumption == {Alt, Tab} \subseteq Plain /\ {Exit, Dump, Joy} \intersect Plain = {}
ASSUME WindowedAssumption == Windowed \subseteq BOOLEAN /\ Script \subseteq Plain

Ring  == {"scancodes", "eventsEOL", "eventsEOF"}
Code  == (Keys \union {"keysPressed", "keysEnd", "exit", "dump", "none"}) \X BOOLEAN
Down(k) == <<k, FALSE>>
Up(k)   == <<k, TRUE>>
NoCode  == Down("none")

VARIABLES
  ring,        \* kbd_state: inpos, outpos and buffer of the three rings
  timeToWait,  \* kbd_time_to_wait
  keys,        \* the keys that keys[] and prevkeys[] have as pressed
  switcher,    \* kbd_in_task_switcher
  deviceActive,\* kbd_drv_active
  typist,      \* the window's thread in kbdDrvKeypress
  port,        \* is the direction of the joystick on?
  stop,        \* fellow_request_emulation_stop
  owed,        \* history: what was added to each ring and has not been taken
  spoilt,      \* history: the rings with an addition lost or overtaken
  raced,       \* history: was the Amiga reset while a key was handled?
  excused      \* history: has the joystick's state been dropped?

history == <<owed, spoilt, raced, excused>>
vars == <<ring, timeToWait, keys, switcher, deviceActive, typist, port, stop, history>>

Typing == {"position", "slot", "load", "store"}

TypeOK ==
  /\ ring \in [Ring -> [in : Nat, out : Nat, slot : [0 .. Length - 1 -> Code]]]
  /\ timeToWait \in 1 .. Pace
  /\ keys \subseteq Keys
  /\ typist \in [pc : Typing \union {"idle", "compare"},
                 ring : Ring, code : Code,     \* what is being added to which
                 key : Keys, up : BOOLEAN,     \* the key that is handled
                 seen : Nat \X Nat,            \* eol_evpos and eof_evpos
                 pos : Nat]                    \* an index that was read
  /\ {switcher, deviceActive, port, stop, raced, excused} \subseteq BOOLEAN
  /\ owed \in [Ring -> Seq(Code)]
  /\ spoilt \subseteq Ring

Idle  == [pc |-> "idle", ring |-> "scancodes", code |-> NoCode,
          key |-> Alt, up |-> FALSE, seen |-> <<0, 0>>, pos |-> 0]
Empty == [in |-> 0, out |-> 0, slot |-> [i \in 0 .. Length - 1 |-> NoCode]]

Init ==
  /\ ring = [r \in Ring |-> Empty]
  /\ timeToWait = Pace
  /\ keys = {}
  /\ switcher = FALSE
  /\ deviceActive = FALSE
  /\ typist = Idle
  /\ port = FALSE
  /\ stop = FALSE
  /\ owed = [r \in Ring |-> <<>>]
  /\ spoilt = {}
  /\ raced = FALSE
  /\ excused = FALSE
-----------------------------------------------------------------------------
(* The window's thread.                                                    *)

Slot(pos) == pos % Length

(* What kbdDrvEventChecker makes of a change, given the keys now pressed:  *)
(* an addition to a ring of events, or none.                               *)
EventOf(k, up, pressed) ==
  IF Dump \in pressed       THEN <<"eventsEOF", Down("dump")>>
  ELSE IF k = Exit /\ up    THEN <<"eventsEOF", Down("exit")>>
  ELSE IF k = Joy           THEN <<"eventsEOL", <<k, up>>>>
  ELSE <<"scancodes", NoCode>>

(* A key has changed: start to check it, and to add its event if it has    *)
(* one.                                                                    *)
Check(k, up) ==
  LET pressed == IF up THEN keys \ {k} ELSE keys \union {k}
      event   == EventOf(k, up, pressed)
  IN  /\ keys' = pressed
      /\ typist' = [pc |-> IF event[1] = "scancodes" THEN "compare" ELSE "position",
                    ring |-> event[1], code |-> event[2], key |-> k, up |-> up,
                    seen |-> <<ring["eventsEOL"].in, ring["eventsEOF"].in>>, pos |-> 0]
      /\ raced' = FALSE
      /\ excused' = IF k = Joy THEN event[1] # "eventsEOL" ELSE excused

(* kbdDrvKeypress, with its guess that ALT and TAB start the task          *)
(* switcher, after which all keys are ignored until ALT goes up.           *)
Keypress(k, up) ==
  /\ deviceActive /\ typist.pc = "idle"
  /\ \A r \in Ring : ring[r].in < MaxIn
  /\ IF ~switcher /\ Alt \in keys /\ k = Tab /\ ~up
     THEN switcher' \in Windowed /\ Check(Alt, TRUE)
     ELSE IF switcher
     THEN /\ switcher' = ~(k = Alt /\ up)
          /\ UNCHANGED <<keys, typist, raced, excused>>
     ELSE UNCHANGED switcher /\ (k \in keys) = up /\ Check(k, up)
  /\ UNCHANGED <<ring, timeToWait, deviceActive, port, stop, owed, spoilt>>

Type(from, typed) ==
  /\ typist.pc = from /\ typist' = typed
  /\ UNCHANGED <<timeToWait, keys, switcher, deviceActive, port, stop, raced, excused>>

(* Mutant: the slot is written after the index has moved on.               *)
ReadPositionLate ==
  LET r == typist.ring
  IN  /\ Type("position", [typist EXCEPT !.pc = "slot", !.pos = ring[r].in])
      /\ ring' = [ring EXCEPT ![r].in = @ + 1]
      /\ owed' = [owed EXCEPT ![r] = IF r \in spoilt THEN <<>> ELSE Append(@, typist.code)]
      /\ UNCHANGED spoilt

(* kbdKeyAdd, kbdEventEOLAdd and kbdEventEOFAdd: the slot at inpos is      *)
(* written, then inpos is incremented.                                     *)
ReadPosition ==
  /\ Type("position", [typist EXCEPT !.pc = "slot", !.pos = ring[typist.ring].in])
  /\ UNCHANGED <<ring, owed, spoilt>>

WriteSlot ==
  LET r == typist.ring
  IN  /\ Type("slot", [typist EXCEPT !.pc = "load"])
      /\ ring' = [ring EXCEPT ![r].slot[Slot(typist.pos)] = typist.code]
      /\ spoilt' = spoilt \union {x \in {r} : Len(owed[r]) = Length}
      /\ UNCHANGED owed

LoadIn ==
  /\ Type("load", [typist EXCEPT !.pc = "store", !.pos = ring[typist.ring].in])
  /\ UNCHANGED <<ring, owed, spoilt>>

(* After an event the positions are compared, after a scancode the key is  *)
(* done.                                                                   *)
AfterAdd == IF typist.ring = "scancodes" THEN Idle
                                         ELSE [typist EXCEPT !.pc = "compare", !.pos = 0]

StoreIn ==
  LET r == typist.ring
  IN  /\ Type("store", AfterAdd)
      /\ ring' = [ring EXCEPT ![r].in = typist.pos + 1]
      /\ owed' = [owed EXCEPT ![r] = IF r \in spoilt THEN <<>> ELSE Append(@, typist.code)]
      /\ UNCHANGED spoilt

(* Mutant: only the events of the end of a line are looked for.            *)
EatenEOL == ring["eventsEOL"].in # typist.seen[1]

Eaten == <<ring["eventsEOL"].in, ring["eventsEOF"].in>> # typist.seen

(* The key is eaten if either ring of events has moved since.              *)
Compare ==
  /\ Type("compare", IF Eaten THEN Idle
                     ELSE [typist EXCEPT !.pc = "position", !.ring = "scancodes",
                                         !.code = <<typist.key, typist.up>>,
                                         !.seen = <<0, 0>>])
  /\ UNCHANGED <<ring, owed, spoilt>>

Typist == ReadPosition \/ WriteSlot \/ LoadIn \/ StoreIn \/ Compare

Clear == /\ keys' = {}
         /\ excused' = (excused \/ Joy \in keys)

(* kbdDrvStateHasChanged, which forgets the keys that are down.            *)
StateHasChanged(active) ==
  /\ typist.pc = "idle"
  /\ deviceActive' = active
  /\ IF active THEN UNCHANGED <<keys, excused>> ELSE Clear
  /\ UNCHANGED <<ring, timeToWait, switcher, typist, port, stop, owed, spoilt, raced>>

(* kbdEmulationStart and gameportEmulationStart, before the emulation has  *)
(* its thread; fellowEmulationStart has cleared the request to stop.       *)
EmulationStart ==
  /\ typist.pc = "idle" /\ ~deviceActive
  /\ keys' = {}
  /\ switcher' = FALSE
  /\ port' = FALSE
  /\ excused' = (Len(owed["eventsEOL"]) > 0)
  /\ stop' = FALSE
  /\ UNCHANGED <<ring, timeToWait, deviceActive, typist, owed, spoilt, raced>>
-----------------------------------------------------------------------------
(* The emulation thread.                                                   *)

Oldest(r) == ring[r].slot[Slot(ring[r].out)]

Take(r) ==
  /\ ring[r].out < ring[r].in
  /\ ring' = [ring EXCEPT ![r].out = @ + 1]
  /\ owed' = [owed EXCEPT ![r] = IF @ = <<>> THEN @ ELSE Tail(@)]
  /\ UNCHANGED <<keys, switcher, deviceActive, typist, spoilt, raced, excused>>

(* kbdQueueHandler, in every line.                                         *)
QueueHandler ==
  /\ ring["scancodes"].out < ring["scancodes"].in
  /\ IF timeToWait = 1
     THEN /\ timeToWait' = Pace
          /\ Take("scancodes")
     ELSE /\ timeToWait' = timeToWait - 1
          /\ UNCHANGED <<ring, keys, switcher, deviceActive, typist, owed, spoilt, raced, excused>>
  /\ UNCHANGED <<port, stop>>

(* Mutant: the joystick only learns of a key that went down.               *)
EventEOLHandlerDown ==
  /\ Take("eventsEOL")
  /\ port' = (port \/ Oldest("eventsEOL") = Down(Joy))
  /\ UNCHANGED <<timeToWait, stop>>

(* kbdEventEOLHandler, one turn of its loop; the last event for a          *)
(* direction is the one that counts.                                       *)
EventEOLHandler ==
  /\ Take("eventsEOL")
  /\ port' = CASE Oldest("eventsEOL") = Down(Joy) -> TRUE
               [] Oldest("eventsEOL") = Up(Joy)   -> FALSE
               [] OTHER                           -> port
  /\ UNCHANGED <<timeToWait, stop>>

(* Mutant: the exit event does not request anything.                       *)
EventEOFHandlerSilent ==
  /\ Take("eventsEOF")
  /\ UNCHANGED <<timeToWait, port, stop>>

(* kbdEventEOFHandler, one turn of its loop.                               *)
EventEOFHandler ==
  /\ Take("eventsEOF")
  /\ stop' = (stop \/ Oldest("eventsEOF") = Down("exit"))
  /\ UNCHANGED <<timeToWait, port>>

(* The automation's script, on this thread, adds a key without regard to   *)
(* what the other thread is doing.                                         *)
ScriptKey(k) ==
  LET r == ring["scancodes"]
  IN  /\ r.in < MaxIn
      /\ ring' = [ring EXCEPT !["scancodes"].slot[Slot(r.in)] = Down(k),
                              !["scancodes"].in = r.in + 1]
      /\ spoilt' = spoilt \union {x \in {"scancodes"} :
                                    \/ Len(owed[x]) = Length
                                    \/ typist.ring = x /\ typist.pc \in Typing \ {"position"}}
      /\ owed' = [owed EXCEPT !["scancodes"] =
                    IF "scancodes" \in spoilt' THEN <<>> ELSE Append(@, Down(k))]
      /\ UNCHANGED <<timeToWait, keys, switcher, deviceActive, typist, port, stop, raced, excused>>

FirstCodes == <<Down("keysPressed"), Down("keysEnd")>>

(* kbdHardReset and gameportHardReset, in a reset of the Amiga.            *)
HardReset ==
  /\ ring' = [r \in Ring |->
               IF r = "scancodes"
               THEN [in |-> 2, out |-> 0,
                     slot |-> [ring[r].slot EXCEPT ![0] = FirstCodes[1], ![1] = FirstCodes[2]]]
               ELSE [ring[r] EXCEPT !.in = 0, !.out = 0]]
  /\ timeToWait' = Pace
  /\ port' = FALSE
  /\ owed' = [r \in Ring |-> IF r = "scancodes" THEN FirstCodes ELSE <<>>]
  /\ spoilt' = {r \in Ring : typist.ring = r /\ typist.pc \in Typing \ {"position"}}
  /\ raced' = TRUE
  /\ excused' = (Joy \in keys)
  /\ UNCHANGED <<keys, switcher, deviceActive, typist, stop>>

Lines == QueueHandler \/ EventEOLHandler \/ EventEOFHandler

Next ==
  \/ \E k \in Keys, up \in BOOLEAN : Keypress(k, up)
  \/ Typist
  \/ \E active \in BOOLEAN : StateHasChanged(active)
  \/ EmulationStart
  \/ Lines
  \/ \E k \in Script : ScriptKey(k)
  \/ HardReset

Spec == Init /\ [][Next]_vars /\ WF_vars(Typist) /\ WF_vars(QueueHandler)
             /\ WF_vars(EventEOLHandler) /\ WF_vars(EventEOFHandler)
-----------------------------------------------------------------------------
(* What waits in a ring buffer is what was added and not yet taken, in     *)
(* order, although nothing is locked; except after an addition to a full   *)
(* buffer, or one that a reset or the script broke into.                   *)
Waiting(r) == [i \in 1 .. ring[r].in - ring[r].out |-> ring[r].slot[Slot(ring[r].out + i - 1)]]

QueueIsFifo == \A r \in Ring \ spoilt : Waiting(r) = owed[r]

(* "Returns TRUE if the key generated an event" (kbdDrvEventChecker): the  *)
(* key is eaten just when it has added an event, although the other        *)
(* thread uses the two positions that are compared; a reset in between may *)
(* make the answer wrong.                                                  *)
EatenIffEvent ==
  typist.pc = "compare" /\ ~raced => (Eaten <=> typist.ring # "scancodes")

(* With no event on its way, the joystick is held in a direction exactly   *)
(* when its key is down, unless its last change was dropped by a reset,    *)
(* the loss of the keyboard or a key that makes events of all others.      *)
JoystickFollowsKey ==
  /\ typist.pc = "idle" /\ ring["eventsEOL"].in = ring["eventsEOL"].out
  /\ ~excused /\ "eventsEOL" \notin spoilt
  => (port <=> Joy \in keys)
=============================================================================
