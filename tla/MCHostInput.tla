---------------------------- MODULE MCHostInput ----------------------------
(* HostInput for TLC.  Which keys are typed is chosen once: none, with the *)
(* whole window and the timer; the exit key, once, with the window but     *)
(* without sound, the timer and resets; or a pair of keys, with the        *)
(* keyboard alone and its devices acquired and lost at any time.           *)
EXTENDS HostInput

CONSTANT KeyPairs
VARIABLE typed

Together == typed \in {{}, {Exit}}

(* The window is in front and will be told to acquire the devices, and the *)
(* emulation handles one event; the keyboard alone moves.                  *)
InSession ==
  /\ session = "open" /\ option = [pausing |-> FALSE, sound |-> TRUE]
  /\ windows = [focus |-> TRUE, iconic |-> FALSE, modal |-> FALSE, held |-> FALSE]
  /\ flag = [active |-> TRUE, minimized |-> FALSE, syskey |-> FALSE]
  /\ posted = TRUE /\ runEvent = TRUE /\ flipEvent = FALSE /\ misled = FALSE
  /\ emu = [pc |-> "event", delay |-> 0] /\ timer = [running |-> TRUE, pc |-> "idle"]
  /\ waitFor = 0 /\ elapsed = 0

MCInit == /\ typed \in {{}, {Exit}} \union KeyPairs
          /\ Init /\ IF Together THEN Window!Init ELSE InSession

KeyboardStep ==
  \/ \E k \in typed, up \in BOOLEAN : Keypress(k, up)
  \/ Typist
  \/ \E active \in BOOLEAN : StateHasChanged(active)
  \/ EmulationStart
  \/ Lines
  \/ \E k \in Script \intersect typed : ScriptKey(k)
  \/ HardReset

HostStep ==
  \/ SessionStart /\ (typed # {} => ~option'.sound /\ ~timer'.running)
  \/ SessionEnd \/ HandleMessage
  \/ \E k \in typed, up \in BOOLEAN : HandleKey(k, up) /\ (up \/ ring["scancodes"].in = 0)
  \/ KeyStep
  \/ typed # {} /\ InEvent(Lines)
  \/ EmulationStep \/ Fail \/ TimerStep

MCNext == /\ UNCHANGED typed
          /\ IF Together THEN HostStep ELSE KeyboardStep /\ UNCHANGED windowOnly

mcVars == <<allVars, typed>>

MCSpec == MCInit /\ [][MCNext]_mcVars /\ HostFairness
=============================================================================
