---------------------------- MODULE MCCiaTimers ----------------------------
(* CiaTimers for TLC.  A plan is chosen once: what is written to the       *)
(* latches, which timers are used in one-shot mode, whether the interrupt  *)
(* line is rechecked, and whether the Amiga is reset.  Without resets the  *)
(* run starts when both timers have been written.                          *)
EXTENDS CiaTimers, TLC

VARIABLE plan
mcVars == <<vars, plan>>

A == <<0, "A">>
B == <<0, "B">>
Plan(a, b, oneShot, check, reset) ==
  [latch |-> (A :> a @@ B :> b), oneShot |-> oneShot, check |-> check, reset |-> reset]

Plans == {Plan(1, 1, {}, TRUE, FALSE), Plan(2, 1, {A}, FALSE, FALSE), Plan(1, 0, {B}, FALSE, TRUE)}

Written(latch) == Loaded([Cleared(0) EXCEPT !.latch = latch])

MCInit ==
  /\ plan \in Plans
  /\ cycle = 0 /\ recheck = Never /\ event = NoEvent /\ disturbed = {}
  /\ attached = [i \in Cia |-> FALSE]
  /\ timer = [t \in Timer |-> IF plan.reset THEN Cleared(0) ELSE Written(plan.latch[t])]
  /\ from = [t \in Timer |-> timer[t].count]
  /\ ran = [t \in Timer |-> 0]

PlannedWrite ==
  \E t \in Timer :
    \/ WriteLo(t, plan.latch[t] % Byte)
    \/ WriteHi(t, plan.latch[t] \div Byte)
    \/ \E start, load \in BOOLEAN, attach \in {FALSE, t[2] = "B"} :
         WriteControl(t, start, t \in plan.oneShot, load, attach)

MCNext == /\ Time \/ (plan.check /\ RecheckIRQ) \/ PlannedWrite \/ (plan.reset /\ HardReset)
          /\ UNCHANGED plan

MCSpec == MCInit /\ [][MCNext]_mcVars /\ WF_vars(Time)
=============================================================================
