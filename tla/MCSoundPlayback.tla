-------------------------- MODULE MCSoundPlayback --------------------------
(* Instances of SoundPlayback for TLC.                                     *)
EXTENDS SoundPlayback

(* One sample in a line, or sometimes two, so that blocks overrun.         *)
OneOrTwo == {1, 2}
=============================================================================
