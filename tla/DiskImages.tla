----------------------------- MODULE DiskImages -----------------------------
(***************************************************************************)
(* Disk images and the drives they are put into (FloppyDisk.cpp): what is  *)
(* in the drive, the file that is open for it, the temporary file of a     *)
(* compressed image and the file of the user, while disks are inserted,    *)
(* ejected and swapped, files fail to open or to unpack, and the Amiga     *)
(* writes to them.                                                         *)
(*                                                                         *)
(* The contents of a file are the image they stem from and the writes they *)
(* have taken; the writes of the Amiga are numbered.                       *)
(***************************************************************************)
EXTENDS Integers, Sequences

CONSTANTS
  Drives,      \* how many drives there are, numbered from 0
  Plain,       \* images that are used as they are, as *.adf
  Packed,      \* images that are unpacked and packed again, as *.adz
  Dms,         \* images that are only unpacked, as *.dms
  ReadOnly,    \* images in files that cannot be written
  Faults,      \* what may go wrong when an image is inserted or removed
  MaxWrites    \* bound: how often the Amiga writes

Image == Plain \union Packed \union Dms
Drive == 0 .. Drives - 1
None  == "none"
Temp  == "temp"

ASSUME ImageAssumption == {None, Temp} \intersect Image = {} /\ ReadOnly \subseteq Image
ASSUME KindAssumption  == Plain \intersect (Packed \union Dms) = {} /\ Packed \intersect Dms = {}
(* How packing fails: the temporary file cannot be opened; the user's file *)
(* cannot be opened; reading or writing fails half-way; closing does.      *)
PackFaults == {"read", "pack", "write", "close"}

ASSUME FaultAssumption ==
  Faults \subseteq {None, "gone", "noTemp", "unpack", "open", "size", "format"} \union PackFaults
ASSUME DrivesAssumption == Drives \in Nat /\ MaxWrites \in Nat

Contents == [image : Image, writes : SUBSET (1 .. MaxWrites)]
NoFile   == [image |-> None, writes |-> {}]

VARIABLES
  file,      \* the contents of the user's files
  temp,      \* the temporary file of each drive
  drive,     \* floppy[]
  wanted,    \* the images of the configuration
  done,      \* history: to which image each write of the Amiga went
  excused,   \* history: images whose writes may be lost
  seen       \* history: the image in the drive when the Amiga last looked
history == <<done, excused, seen>>
vars == <<file, temp, drive, wanted, history>>

TypeOK ==
  /\ file \in [Image -> Contents]
  /\ temp \in [Drive -> Contents \union {NoFile}]
  /\ drive \in [Drive ->
       [name : Image \union {None},            \* imagename
        real : Image \union {None, Temp},      \* imagenamereal
        zipped : BOOLEAN, inserted : BOOLEAN, changed : BOOLEAN,
        status : {"none", "normal", "extended2", "error"},  \* imagestatus
        open : {"no", "rb", "r+b"},            \* F, as it was opened
        config : BOOLEAN,                      \* writeprotconfig
        enforced : BOOLEAN,                    \* writeprotenforce
        mfm : Contents \union {NoFile}]]       \* what is read under the head
  /\ wanted \in [Drive -> Image \union {None}]
  /\ done \in Seq(Image) /\ Len(done) <= MaxWrites
  /\ excused \subseteq Image
  /\ seen \in [Drive -> Image \union {None}]

Empty == [name |-> None, real |-> None, zipped |-> FALSE, inserted |-> FALSE,
          changed |-> TRUE, status |-> "none", open |-> "no",
          config |-> FALSE, enforced |-> FALSE, mfm |-> NoFile]

(* floppyDriveTableInit                                                    *)
Init ==
  /\ file = [n \in Image |-> [image |-> n, writes |-> {}]]
  /\ temp = [d \in Drive |-> NoFile]
  /\ drive = [d \in Drive |-> Empty]
  /\ wanted = [d \in Drive |-> None]
  /\ done = <<>>
  /\ excused = Dms
  /\ seen = [d \in Drive |-> None]
-----------------------------------------------------------------------------
(* Operators on disks: a record of file, temp and drive.                   *)

WriteProtected(x) == x.config \/ x.enforced        \* floppyIsWriteProtected

(* floppyError                                                             *)
Failed(x) == [x EXCEPT !.status = "error", !.inserted = FALSE, !.open = "no"]

(* Mutant: the temporary file is removed and not packed first.             *)
CompressedRemoveOnly(disks, d, fault) ==
  [disks EXCEPT !.temp[d] = NoFile, !.drive[d].zipped = FALSE]

(* gzPack: what is in the user's file afterwards.  One that could be opened*)
(* and not be written or closed has lost the writes.                       *)
GzPack(old, new, fault) ==
  CASE fault \in {"read", "pack"}   -> old
    [] fault \in {"write", "close"} -> [new EXCEPT !.writes = {}]
    [] OTHER                        -> new

(* The image is packed when it leaves the drive.                           *)
Repacks(x) == ~WriteProtected(x) /\ x.name \in Packed \ ReadOnly

(* floppyImageCompressedRemove: what was written to the temporary file     *)
(* goes back into the user's file, if that may be written.  A failure is   *)
(* only logged; the temporary file is removed all the same, unless gzPack  *)
(* returned with the file still open.                                      *)
CompressedRemove(disks, d, fault) ==
  LET x == disks.drive[d]
      kept == Repacks(x) /\ fault \in {"pack", "write"}
  IN  [file  |-> IF Repacks(x) THEN [disks.file EXCEPT ![x.name] = GzPack(@, disks.temp[d], fault)]
                 ELSE disks.file,
       temp  |-> IF kept THEN disks.temp ELSE [disks.temp EXCEPT ![d] = NoFile],
       drive |-> [disks.drive EXCEPT ![d].zipped = FALSE]]

(* Mutant: the Amiga is not told.                                          *)
RemovedUnnoticed(x) ==
  [x EXCEPT !.status = "none", !.inserted = FALSE, !.enforced = FALSE, !.open = "no", !.mfm = NoFile]

Removed(x) == [x EXCEPT !.status = "none", !.inserted = FALSE, !.changed = TRUE,
                        !.enforced = FALSE, !.open = "no", !.mfm = NoFile]

(* floppyImageRemove, which keeps the name of the image.                   *)
Remove(disks, d, fault) ==
  LET x == disks.drive[d]
      unpacked == x.status = "normal" /\ x.zipped
      left == IF unpacked THEN CompressedRemove(disks, d, fault) ELSE disks
  IN  [left EXCEPT !.drive[d] = Removed(@)]

(* floppyImagePrepare: an image that is compressed is unpacked into a      *)
(* temporary file.  Without one, the name of the last file stays.          *)
Prepare(disks, d, n, fault) ==
  CASE n \in Plain \/ fault = "unpack" ->
         [disks EXCEPT !.drive[d].real = n, !.drive[d].zipped = FALSE]
    [] n \notin Plain /\ fault = "noTemp" -> [disks EXCEPT !.drive[d] = Failed(@)]
    [] OTHER ->
         [disks EXCEPT !.temp[d] = disks.file[n],
                       !.drive[d].real = Temp, !.drive[d].zipped = TRUE,
                       !.drive[d].enforced = n \in Packed \intersect ReadOnly]

(* The file is opened, and read if floppyImageGeometryCheck agrees; one of *)
(* a format that is known and not supported stays open.                    *)
Open(disks, d, n, fault) ==
  LET x == [disks.drive[d] EXCEPT !.enforced = @ \/ (~disks.drive[d].zipped /\ n \in ReadOnly)]
      mode == IF WriteProtected(x) THEN "rb" ELSE "r+b"
      read == IF x.real = Temp THEN disks.temp[d]
              ELSE IF x.real = None THEN NoFile ELSE disks.file[x.real]
      opens == /\ fault # "open" /\ read # NoFile
               /\ mode = "r+b" => x.real \notin ReadOnly
      good  == fault # "size" /\ x.real \notin Packed \union Dms
  IN  [disks EXCEPT !.drive[d] =
         IF ~opens THEN Failed(x)
         ELSE IF ~good THEN Failed([x EXCEPT !.name = n, !.open = mode])
         ELSE IF fault = "format" THEN [x EXCEPT !.name = n, !.status = "extended2", !.open = mode]
         ELSE [x EXCEPT !.name = n, !.status = "normal", !.inserted = TRUE,
                        !.open = mode, !.mfm = read]]

(* floppySetDiskImage                                                      *)
SetDiskImage(disks, d, n, fault) ==
  IF n = disks.drive[d].name THEN disks
  ELSE LET empty == Remove(disks, d, fault)
       IN  IF n = None THEN [empty EXCEPT !.drive[d].name = None]
           ELSE IF fault = "gone" THEN [empty EXCEPT !.drive[d] = Failed(@)]
           ELSE Open(Prepare(empty, d, n, fault), d, n, fault)

(* floppySetReadOnlyConfig                                                 *)
SetReadOnlyConfig(disks, d, b) ==
  IF disks.drive[d].config = b THEN disks
  ELSE [disks EXCEPT !.drive[d].config = b, !.drive[d].changed = TRUE]

Disks == [file |-> file, temp |-> temp, drive |-> drive]

InDrive(drives, n) == {d \in Drive : drives[d].inserted /\ drives[d].mfm.image = n}

(* Compressed images that are in two drives: each has a copy of its own.   *)
Twice(drives) ==
  {n \in Packed : \E d, e \in InDrive(drives, n) : d # e /\ drives[d].zipped /\ drives[e].zipped}

(* Disks that have come into a drive without a temporary file of their own *)
(* when there should be one: the file of an earlier disk was opened.       *)
Misnamed(drives, fault) ==
  UNION {{drives[d].name, drives[d].mfm.image} :
           d \in {d \in Drive : /\ fault = "noTemp" /\ drives[d] # drive[d]
                               /\ drives[d].inserted /\ drives[d].name \notin Plain}}

(* Disks that have left a drive and could not be packed.                   *)
Lost(drives, fault) ==
  UNION {{drive[d].name, drive[d].mfm.image} :
           d \in {d \in Drive : /\ fault \in PackFaults /\ drives[d] # drive[d]
                               /\ drive[d].inserted /\ drive[d].zipped /\ Repacks(drive[d])}}

(* The images a step may lose writes of: those in two drives, those with a *)
(* wrong file and those that are not packed.                               *)
Upset(drives, fault) == Twice(drives) \union Misnamed(drives, fault) \union Lost(drives, fault)

(* The disks become what the operators make of them.  A write may be lost  *)
(* when the protection of a disk is switched while it is in a drive, and   *)
(* as the step says.                                                       *)
Become(disks, upset) ==
  /\ file' = disks.file /\ temp' = disks.temp /\ drive' = disks.drive
  /\ excused' = excused \union upset
       \union {n \in Image : \E d \in InDrive(drive', n) : drive'[d].config # drive[d].config}
  /\ UNCHANGED <<done, seen>>
-----------------------------------------------------------------------------
(* What the user does.                                                     *)

(* The eject button of the configuration dialog.                           *)
Eject(d, fault) ==
  LET disks == SetDiskImage(Disks, d, None, fault)
  IN  /\ wanted' = [wanted EXCEPT ![d] = None]
      /\ Become(disks, Lost(disks.drive, fault))

(* kbdEventDFxIntoDF0: two disks change places, one after the other.       *)
SwapIntoDF0(d, fault) ==
  LET first  == SetDiskImage(Disks, 0, wanted[d], fault)
      second == SetDiskImage(first, d, wanted[0], fault)
  IN  /\ d # 0
      /\ wanted' = [wanted EXCEPT ![0] = wanted[d], ![d] = wanted[0]]
      /\ Become(second, Twice(first.drive) \union Upset(second.drive, fault))

(* cfgManagerConfigurationActivate, for one drive after the other: the     *)
(* image first, its protection then.                                       *)
Activate(names, protect, fault) ==
  LET stage[d \in 0 .. Drives] ==
        IF d = 0 THEN Disks
        ELSE SetReadOnlyConfig(SetDiskImage(stage[d - 1], d - 1, names[d - 1], fault),
                               d - 1, protect[d - 1])
  IN  /\ wanted' = names
      /\ Become(stage[Drives], (UNION {Twice(stage[d].drive) : d \in 0 .. Drives})
                                 \union Upset(stage[Drives].drive, fault))

(* What a RetroPlatform host asks for (HostMessageFunction).               *)
HostEjects(d, fault) ==
  LET disks == Remove(Disks, d, fault)
  IN  Become(disks, Lost(disks.drive, fault)) /\ UNCHANGED wanted

HostInserts(d, n, fault) ==
  LET disks == SetDiskImage(Disks, d, n, fault)
  IN  Become(disks, Upset(disks.drive, fault)) /\ UNCHANGED wanted

HostProtects(d, b) == Become(SetReadOnlyConfig(Disks, d, b), {}) /\ UNCHANGED wanted
-----------------------------------------------------------------------------
(* What the Amiga does.                                                    *)

(* floppySectorSave: a sector is written to the open file, which fails     *)
(* silently if that was opened for reading, and to the track in memory.    *)
(* Nothing asks for a disk in the drive: a file of an unsupported format,  *)
(* which is open and no disk, is written as well.  Without a file there is *)
(* no step, for the library ends the program.                              *)
SectorSave(d) ==
  LET x == drive[d]
      write == Len(done) + 1
      With(c) == [c EXCEPT !.writes = @ \union {write}]
      into == IF x.inserted THEN x.mfm
              ELSE IF x.real = Temp THEN temp[d] ELSE file[x.real]
  IN  /\ x.open # "no" /\ ~WriteProtected(x) /\ write <= MaxWrites
      /\ file' = IF x.open = "r+b" /\ x.real # Temp THEN [file EXCEPT ![x.real] = With(@)] ELSE file
      /\ temp' = IF x.open = "r+b" /\ x.real = Temp THEN [temp EXCEPT ![d] = With(@)] ELSE temp
      /\ drive' = IF x.inserted THEN [drive EXCEPT ![d].mfm = With(@)] ELSE drive
      /\ done' = Append(done, into.image)
      /\ excused' = excused \union (IF x.inserted THEN {} ELSE {x.name, into.image})
      /\ UNCHANGED <<wanted, seen>>

(* floppyStepSet, for the line that tells of a change; some time after the *)
(* disk was inserted.                                                      *)
StepClearsChanged(d) ==
  /\ drive[d].inserted /\ drive[d].changed
  /\ drive' = [drive EXCEPT ![d].changed = FALSE]
  /\ seen' = [seen EXCEPT ![d] = drive[d].mfm.image]
  /\ UNCHANGED <<file, temp, wanted, done, excused>>

Amiga == \E d \in Drive : SectorSave(d) \/ StepClearsChanged(d)

Next ==
  \/ Amiga
  \/ \E d \in Drive, fault \in Faults :
       \/ Eject(d, fault) \/ HostEjects(d, fault) \/ SwapIntoDF0(d, fault)
       \/ \E n \in Image : HostInserts(d, n, fault)
       \/ \E b \in BOOLEAN : HostProtects(d, b)
  \/ \E names \in [Drive -> Image \union {None}], protect \in [Drive -> BOOLEAN], fault \in Faults :
       Activate(names, protect, fault)

Spec == Init /\ [][Next]_vars
-----------------------------------------------------------------------------
(* Once a disk is out of the drives its file has every write of the Amiga, *)
(* through temporary files, insertions that fail and disks that change     *)
(* places.  Nothing is promised of the kinds of images that are never      *)
(* packed again; of an image that was in two drives at once, or in one     *)
(* with a wrong file; of a disk whose protection was switched while it was *)
(* inserted, for the file stays open as it was; of a file that is open and *)
(* no disk; and of an image that could not be packed, which the code notes *)
(* in its log before it throws the temporary file away.                    *)
NoWriteIsLost ==
  \A n \in Image \ excused :
    InDrive(drive, n) = {} =>
      file[n] = [image |-> n, writes |-> {i \in DOMAIN done : done[i] = n}]

(* The Amiga is told of every change of disk: unless it sees a change, the *)
(* disk that it saw last is still in the drive.                            *)
ChangeIsSeen ==
  \A d \in Drive : drive[d].changed \/ (drive[d].inserted /\ drive[d].mfm.image = seen[d])
=============================================================================
