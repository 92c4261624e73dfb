----------------------------- MODULE EventTimers -----------------------------
(***************************************************************************)
(* What the bus scheduler promises to the chips: a set of count-down       *)
(* timers in one continuous time.  There are no frames, no queue and no    *)
(* rebasing here.  The timer with the least time left has its turn, that   *)
(* time passes for all the others, and a turn sets no timers but its own   *)
(* and those it is listed with.  BusScheduler implements this.             *)
(***************************************************************************)
EXTENDS Integers

CONSTANTS
  LineCycles, FrameCycles, Latency, CopperStart, CopperPenalty,
  Stale,      \* may a reset leave timers that were set at the old time?
  Off         \* a timer that is not running; larger than any time

VARIABLE remaining    \* cycles until the turn of each timer

Timer == {"eol", "eof", "cia", "copper", "blitter", "interrupt", "cpu"}

After(f, d) == IF remaining[f] = Off THEN Off ELSE remaining[f] - d

Kept(F, d) == \A f \in F : remaining'[f] = After(f, d)

(* The CPU is last among the queue's events, but first in a tie with them. *)
Due(e, d) ==
  /\ remaining[e] = d /\ d # Off
  /\ \A f \in Timer : d <= remaining[f]
  /\ e # "cpu" => d < remaining["cpu"]

Woken == remaining["cpu"] = Off /\ remaining'["cpu"] = 0

(* A device that may request an interrupt: the request waits Latency       *)
(* cycles, or wakes a stopped CPU at once.                                 *)
Request(d) ==
  \/ Kept({"cpu", "interrupt"}, d)
  \/ /\ remaining["interrupt"] = Off
     /\ \/ remaining'["interrupt"] = Latency /\ Kept({"cpu"}, d)
        \/ remaining'["interrupt"] = Off /\ Woken

(* Software may also decide at once, which ends the wait.                  *)
Decide(d) == remaining'["interrupt"] = Off /\ (Kept({"cpu"}, d) \/ Woken)

Type == remaining' \in [Timer -> 0..Off]

EndOfLine(d) ==
  /\ Due("eol", d) /\ Request(d)
  /\ remaining'["eol"] = LineCycles
  /\ Kept({"eof", "cia", "copper", "blitter"}, d)

(* The lines go on as if nothing had happened.                             *)
EndOfFrame(d) ==
  /\ Due("eof", d) /\ Request(d)
  /\ remaining'["eof"] \in FrameCycles
  /\ Kept({"copper"}, d) \/ remaining'["copper"] = CopperStart
  /\ Kept({"eol", "cia", "blitter"}, d)

CiaTimeout(d) ==
  /\ Due("cia", d) /\ Request(d)
  /\ Kept({"eol", "eof", "copper", "blitter"}, d)

BlitDone(d) ==
  /\ Due("blitter", d) /\ (Request(d) \/ Decide(d))
  /\ remaining'["blitter"] = Off
  /\ Kept({"eol", "eof", "cia", "copper"}, d)

InterruptDue(d) ==
  /\ Due("interrupt", d) /\ Decide(d)
  /\ Kept({"eol", "eof", "cia", "copper", "blitter"}, d)

InterruptTimer(d) ==
  \/ Kept({"interrupt"}, d)
  \/ remaining'["interrupt"] = Off
  \/ remaining["interrupt"] = Off /\ remaining'["interrupt"] = Latency

(* A copper instruction slows the CPU down and can write any register.     *)
CopperInstruction(d) ==
  /\ Due("copper", d) /\ InterruptTimer(d)
  /\ \/ Woken
     \/ remaining["cpu"] = Off /\ remaining'["cpu"] = Off
     \/ remaining["cpu"] # Off /\ remaining'["cpu"] = After("cpu", d) + CopperPenalty
  /\ Kept({"eol", "eof"}, d)

CpuInstructions(d) ==
  /\ Due("cpu", d) /\ InterruptTimer(d)
  /\ Kept({"eol", "eof"}, d)

Reset ==
  /\ remaining'["eol"] = LineCycles - 1
  /\ remaining'["eof"] \in FrameCycles
  /\ Stale \/ \A f \in {"cia", "copper", "blitter", "interrupt"} : remaining'[f] = Off

Turn(d) == \/ EndOfLine(d) \/ EndOfFrame(d) \/ CiaTimeout(d) \/ BlitDone(d)
           \/ InterruptDue(d) \/ CopperInstruction(d) \/ CpuInstructions(d)

Next == Type /\ (Reset \/ \E d \in {remaining[e] : e \in Timer} : Turn(d))

Init == remaining = [e \in Timer |-> CASE e = "eol" -> LineCycles - 1
                                       [] e = "cpu" -> 0
                                       [] e = "eof" -> CHOOSE c \in FrameCycles :
                                                         \A d \in FrameCycles : d <= c
                                       [] OTHER -> Off]

Spec == Init /\ [][Next]_remaining
=============================================================================
