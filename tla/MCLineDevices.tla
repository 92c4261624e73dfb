--------------------------- MODULE MCLineDevices ---------------------------
(* LineDevices for TLC: one plain disk of one cylinder.  The sync word     *)
(* begins at an even byte in one turn and at an odd one in the next; a     *)
(* second one follows it; and a program in the ROM that jumps over the gap *)
(* sees one that is on no track.                                           *)
EXTENDS LineDevices, TLC

SyncWord  == <<100, 101>>
OddTracks == (0 :> << <<101, 1, 100, 101, 100, 101, 2, 100, 3>>, <<1, 2, 3, 4, 5, 6, 7, 8, 9>> >>)
Known     == {SyncWord}
Loading   == {SyncWord, <<9, 9>>}

Port(sel, motor, side, dir, step) ==
  [sel |-> sel, motor |-> motor, side |-> side, dir |-> dir, step |-> step]

(* Off; on; a step inwards, beyond the last cylinder, and one outwards.    *)
PortWrites == {Port({0}, TRUE, 0, FALSE, TRUE), Port({}, FALSE, 0, FALSE, TRUE),
         Port({}, FALSE, 0, FALSE, FALSE), Port({}, FALSE, 0, TRUE, FALSE)}
=============================================================================
