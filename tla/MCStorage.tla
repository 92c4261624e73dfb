----------------------------- MODULE MCStorage -----------------------------
(* Storage for TLC.  With floppies a run is that of a host, or of the      *)
(* emulator alone with its dialogs, chosen once; a dialog changes the      *)
(* settings of one drive, and one fault occurs at most.  With hard files   *)
(* files the files that are chosen differ, an RDB is written over by       *)
(* another one, and the Kickstart has no file system of its own for "PFS"  *)
(* or two, of an old version and of one in between.                        *)
EXTENDS Storage, TLC

CONSTANT MaxFaults   \* bound: how often something goes wrong
VARIABLES headless, faults

Try(fault) ==
  /\ faults' = IF fault = None THEN faults ELSE faults + 1
  /\ faults' <= MaxFaults

(* What may go wrong when a disk only leaves the drive.                    *)
Removal == Faults \intersect ({None} \union PackFaults)

OneSetting(d) ==
  \E n \in Image \union {None}, b \in BOOLEAN :
    \E fault \in IF n = None THEN Removal ELSE Faults :
      /\ Try(fault)
      /\ Activate([wanted EXCEPT ![d] = n],
                  [e \in Drive |-> IF e = d THEN b ELSE drive[e].config], fault)

FloppyStep ==
  /\ Uses("floppy") /\ UNCHANGED <<headless, hardVars>>
  /\ \/ Amiga /\ UNCHANGED faults
     \/ ~headless /\ \E d \in Drive, fault \in Removal : Try(fault) /\ Eject(d, fault)
     \/ ~headless /\ \E d \in Drive, fault \in Faults : Try(fault) /\ SwapIntoDF0(d, fault)
     \/ ~headless /\ \E d \in Drive : OneSetting(d)
     \/ headless /\ \E d \in Drive :
          \/ \E fault \in Removal : Try(fault) /\ HostEjects(d, fault)
          \/ \E n \in Image, fault \in Faults : Try(fault) /\ HostInserts(d, n, fault)
          \/ \E b \in BOOLEAN : HostProtects(d, b) /\ UNCHANGED faults

(* The files that are chosen differ, and only the first unit is edited.    *)
Choices == {names \in UNION {[1 .. n -> File] : n \in 0 .. Units} :
              \A i, j \in DOMAIN names : i # j => names[i] # names[j]}

HardStep ==
  /\ Uses("hard") /\ UNCHANGED <<vars, headless, faults>>
  /\ \/ \E names \in Choices, on \in BOOLEAN, edited \in {{}, {0}} : Hard!Activate(names, on, edited)
     \/ Hard!SessionStart \/ Hard!SessionStop
     \/ Hard!AmigaReset \/ Hard!ConfigureCard \/ Hard!Diag
     \/ Hard!FhfileInit \/ Hard!LoadFileSystem \/ Hard!MountPartition
     \/ \E u \in Hard!Unit, c \in Content : c.rdsk # "none" /\ Hard!Rewrite(u, c)

(* The kind that is not used begins in one way only.                       *)
MCInit ==
  /\ StorageInit /\ faults = 0
  /\ headless \in IF used = "hard" THEN {FALSE} ELSE BOOLEAN
  /\ used = "floppy" => kick = <<>> /\ \A f \in File : ~disk[f].exists
MCNext == FloppyStep \/ HardStep
MCSpec == MCInit /\ [][MCNext]_<<storageVars, headless, faults>>
-----------------------------------------------------------------------------
(* What is in a hard file.                                                 *)

Partition(next, name, auto) ==
  [next |-> next, good |-> TRUE, name |-> name, automount |-> auto, type |-> "PFS"]
System(next, good, version) == [next |-> next, good |-> good, type |-> "PFS", version |-> version]

HardDisk(cylinders, rdsk, parts, systems) ==
  [exists |-> cylinders > 0, cylinders |-> cylinders, geometry |-> 2, rdsk |-> rdsk,
   firstPart |-> IF parts = <<>> THEN 0 ELSE 1, part |-> parts,
   firstSystem |-> IF systems = <<>> THEN 0 ELSE 1, system |-> systems]

(* None, a plain one, good RDBs (with versions that ascend and descend),   *)
(* and RDBs with a partition that is its own successor, a bad file system  *)
(* and more cylinders than the file has.                                   *)
HardDisks == {
  HardDisk(0, "none", <<>>, <<>>),
  HardDisk(2, "none", <<>>, <<>>),
  HardDisk(2, "good", <<Partition(2, 0, TRUE), Partition(0, 1, TRUE)>>, <<System(0, TRUE, 2)>>),
  HardDisk(2, "good", <<Partition(0, 0, TRUE)>>, <<System(2, TRUE, 1), System(0, TRUE, 3)>>),
  HardDisk(2, "good", <<Partition(2, 0, FALSE), Partition(0, 1, TRUE)>>,
           <<System(2, TRUE, 2), System(0, TRUE, 1)>>),
  HardDisk(2, "good", <<Partition(1, 0, TRUE)>>, <<>>),
  HardDisk(2, "good", <<Partition(0, 1, TRUE)>>, <<System(0, FALSE, 1)>>),
  HardDisk(1, "good", <<Partition(0, 0, TRUE)>>, <<>>)}

KickstartSystems == {<<>>, <<[type |-> "PFS", version |-> 1], [type |-> "PFS", version |-> 2]>>}

Same == Permutations(File)
=============================================================================
