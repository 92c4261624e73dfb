------------------------------ MODULE Storage ------------------------------
(***************************************************************************)
(* The two kinds of storage that the configuration gives the Amiga, and    *)
(* that cfgManagerConfigurationActivate sets one after the other: floppy   *)
(* disks (FloppyDisk.cpp) and hard files (HardfileHandler.cpp).  They have *)
(* no state in common, and so a run uses one of them, chosen at the start. *)
(***************************************************************************)
EXTENDS DiskImages

CONSTANTS Units, File, Content, NoHardFile, NoRdb, Fast, Kickstarts

VARIABLES disk, device, fileSystems, enabled, cards, preStart, stage, kick, amiga, unplugged,
          used      \* the kind of storage

Hard == INSTANCE HardFiles

ASSUME HardFileAssumption == Hard!HardFileAssumption

hardVars    == <<disk, device, fileSystems, enabled, cards, preStart, stage, kick, amiga, unplugged>>
storageVars == <<vars, hardVars, used>>

StorageInit == Init /\ Hard!HardInit /\ used \in {"floppy", "hard"}

Uses(kind) == used = kind /\ UNCHANGED used

UseFloppies  == Uses("floppy") /\ Next /\ UNCHANGED hardVars
UseHardFiles == Uses("hard") /\ Hard!HardNext /\ UNCHANGED vars

StorageSpec == StorageInit /\ [][UseFloppies \/ UseHardFiles]_storageVars
-----------------------------------------------------------------------------
(* The units of fhfile.device stay sound while the settings of hard files  *)
(* are changed between two runs of the emulation.                          *)
UnitsAreSound == Hard!UnitsAreSound

(* What the Amiga mounts at a boot is named once and has the newest file   *)
(* system there is.                                                        *)
MountsAreRight == Hard!MountsAreRight
=============================================================================
