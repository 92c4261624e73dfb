---------------------------- MODULE MCInterrupts ----------------------------
(* Instances of Interrupts small enough for TLC.                           *)
EXTENDS Interrupts

(* Only the two CIA bits; one flag per CIA.                                *)
CiaBits  == {3, 13}
OneFlag  == {"TA"}

(* The vertical blank, and the two CIA bits as programs may set them:      *)
(* three CPU levels, no CIA flags.                                         *)
ChipBits == {3, 5, 13}
NoFlag   == {}
=============================================================================
