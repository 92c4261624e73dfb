----------------------------- MODULE HardFiles -----------------------------
(***************************************************************************)
(* Hard files (HardfileHandler.cpp and the RDB reader): files of the host  *)
(* that are units of fhfile.device, while the user changes the settings    *)
(* between two runs of the emulation, the Amiga is reset and boots, finds  *)
(* the card, takes file systems from the disks and mounts the partitions,  *)
(* and rewrites a partition table.                                         *)
(*                                                                         *)
(* Names of devices are numbers: k stands for DHk.  A block of a list in   *)
(* an RDB is a record with a next block; what a block holds beyond that is *)
(* whether its checksum is good, and what the properties need.             *)
(***************************************************************************)
EXTENDS Integers, FiniteSets, SequencesExt

CONSTANTS
  Units,      \* how many units there are, numbered from 0
  File,       \* hard files that the user may choose
  Content,    \* what may be in such a file
  NoHardFile, NoRdb,  \* none of these
  Fast,       \* whether there is fast memory, whose card comes first
  Kickstarts  \* file systems the Kickstart may have: lists of [type, version]

Unit == 0 .. Units - 1

(* What a file may hold; a list may end or go wrong, but not go in circles *)
(* of more than one block, on which the reader would turn for ever.        *)
Circles(list) ==
  \E s \in SUBSET DOMAIN list :
    Cardinality(s) > 1 /\ \A b \in s : list[b].good /\ list[b].next \in s \ {b}

HardFileAssumption ==
  /\ Units \in Nat /\ NoHardFile \notin File /\ NoRdb \notin Content
  /\ \A c \in Content :
       /\ IsFiniteSet(DOMAIN c.part) /\ IsFiniteSet(DOMAIN c.system)
       /\ ~Circles(c.part) /\ ~Circles(c.system)
       /\ \A b \in DOMAIN c.part : c.part[b].name \in Nat /\ c.part[b].type \in STRING
       /\ \A b \in DOMAIN c.system : c.system[b].version \in Nat /\ c.system[b].type \in STRING
  /\ Kickstarts \subseteq Seq([type : STRING, version : Nat])

VARIABLES
  disk,         \* what is in each file
  device,       \* _devices[]
  fileSystems,  \* _fileSystems; unit and live tell whose header it points to
  enabled,      \* _enabled
  cards,        \* memory_ememard_initfunc, and how many are finished
  preStart,     \* fellow_pre_start_reset
  stage,        \* the dialog is open, its settings are taken over, it runs
  kick,         \* the file systems of the Kickstart
  amiga,        \* how far the Amiga has booted
  unplugged     \* history: units removed since the last reset
hardVars == <<disk, device, fileSystems, enabled, cards, preStart, stage, kick, amiga, unplugged>>
-----------------------------------------------------------------------------
(* Rigid disk blocks.                                                      *)

(* The blocks of a list in order, from the first, up to the end or as far  *)
(* as the number of blocks allows.                                         *)
Follow(list, first) ==
  LET at[i \in 0 .. Cardinality(DOMAIN list)] ==
        IF i = 0 THEN first
        ELSE IF at[i - 1] \in DOMAIN list THEN list[at[i - 1]].next ELSE at[i - 1]
      found == {i \in DOMAIN at : at[i] \in DOMAIN list}
  IN  [i \in 1 .. Cardinality(found) |-> [block |-> at[i - 1], holds |-> list[at[i - 1]]]]

(* One of them has a bad checksum, or is its own successor.                *)
Faulty(list, first) ==
  \E i \in DOMAIN Follow(list, first) :
    LET b == Follow(list, first)[i] IN ~b.holds.good \/ b.holds.next = b.block

Holds(list, first) == [i \in DOMAIN Follow(list, first) |-> Follow(list, first)[i].holds]

(* RDBHandler::HasRigidDiskBlock                                           *)
HasRigidDiskBlock(c) ==
  CASE c.rdsk = "none" -> "not found"
    [] c.rdsk = "bad"  -> "header error"
    [] OTHER -> IF Faulty(c.part, c.firstPart) THEN "partition error" ELSE "found"

(* RDBHandler::GetDriveInformation, RDB::ReadFromFile                      *)
Partitions(c)        == Holds(c.part, c.firstPart)
FileSystemHeaders(c) == Holds(c.system, c.firstSystem)
FileSystemErrors(c)  == Faulty(c.system, c.firstSystem)
-----------------------------------------------------------------------------
(* Units.  open is F: "dangling" is one that was closed and is kept.       *)

Empty == [name |-> NoHardFile, hdf |-> FALSE, open |-> "no", hasRdb |-> FALSE, rdb |-> NoRdb]

(* ClearDeviceRuntimeInfo                                                  *)
Cleared(d) ==
  [d EXCEPT !.open = "no", !.hdf = FALSE, !.rdb = NoRdb, !.hasRdb = @ /\ d.rdb = NoRdb]

(* OpenHardfileFile                                                        *)
Opened(d) ==
  IF d.name # NoHardFile /\ disk[d.name].exists /\ disk[d.name].cylinders > 0
  THEN [d EXCEPT !.open = "yes"] ELSE d

(* InitializeHardfile                                                      *)
Initialized(d) ==
  LET opened == Opened(Cleared(d))
      c      == disk[d.name]
      result == HasRigidDiskBlock(c)
      known  == [opened EXCEPT !.hasRdb = result = "found"]
  IN  IF opened.open = "no" THEN opened
      ELSE IF result \in {"header error", "partition error"} THEN Cleared(opened)
      ELSE IF result = "not found" THEN [known EXCEPT !.hdf = TRUE]
      ELSE IF FileSystemErrors(c) THEN Cleared(known)
      ELSE IF c.cylinders < c.geometry THEN Cleared([known EXCEPT !.rdb = c])
      ELSE [known EXCEPT !.rdb = c, !.hdf = TRUE]

(* HardfileHandler::EmulationStop, for one device.                         *)
Closed(d) == IF d.hdf /\ d.open # "no" THEN [d EXCEPT !.open = "no"] ELSE d

(* HardfileDevice::Clear, which closes the file but keeps the pointer.     *)
Removed(d) ==
  [d EXCEPT !.name = NoHardFile, !.hdf = FALSE, !.open = IF @ = "no" THEN "no" ELSE "dangling",
            !.rdb = IF d.hasRdb THEN NoRdb ELSE @, !.hasRdb = FALSE]

(* The file systems point into the RDB of a unit, which is now deleted.    *)
Orphaned(units) ==
  [i \in DOMAIN fileSystems |->
     [fileSystems[i] EXCEPT !.live = @ /\ fileSystems[i].unit \notin units]]

(* HasZeroDevices                                                          *)
HasZeroDevices(devices) == \A u \in Unit : devices[u].open = "no"
-----------------------------------------------------------------------------
(* Lists that are built when the Amiga boots.                              *)

(* The elements of a list whose indices are in a set, in order.            *)
Chosen(list, indices) ==
  LET upTo[i \in 0 .. Len(list)] ==
        IF i = 0 THEN <<>>
        ELSE IF i \in indices THEN Append(upTo[i - 1], list[i]) ELSE upTo[i - 1]
  IN  upTo[Len(list)]

Versions(list, type) == {list[i].version : i \in {i \in DOMAIN list : list[i].type = type}}

First(s) == {i \in s : \A j \in s : i <= j}

(* FindOlderOrSameFileSystemVersion, as a set of at most one index.        *)
FindOlderOrSame(list, type, version) ==
  First({i \in DOMAIN list : list[i].type = type /\ list[i].version <= version})

(* A newer version replaces an older one; an older one is added behind.    *)
AddFileSystem(list, header) ==
  LET older == FindOlderOrSame(list, header.type, header.version)
  IN  IF older = {} THEN Append(list, header)
      ELSE [i \in DOMAIN list |->
              IF i \in older /\ list[i].version < header.version THEN header ELSE list[i]]

HeadersOf(devices, u) ==
  IF devices[u].open = "no" \/ ~devices[u].hasRdb THEN <<>>
  ELSE LET headers == FileSystemHeaders(devices[u].rdb)
       IN  [i \in DOMAIN headers |->
              [type |-> headers[i].type, version |-> headers[i].version,
               unit |-> u, live |-> TRUE, loaded |-> FALSE]]

(* Those of all units, in order.                                           *)
AllHeaders(devices) == FlattenSeq([i \in 1 .. Units |-> HeadersOf(devices, i - 1)])

(* AddFileSystemsFromRdb, for all units.                                   *)
AddFileSystemsFromRdb(devices) ==
  LET headers == AllHeaders(devices)
      added[i \in 0 .. Len(headers)] ==
        IF i = 0 THEN <<>> ELSE AddFileSystem(added[i - 1], headers[i])
  IN  added[Len(headers)]

(* EraseOlderOrSameFileSystemVersion                                       *)
EraseOlderOrSame(list, type, version) ==
  Chosen(list, DOMAIN list \ FindOlderOrSame(list, type, version))

(* DoRemoveRDBFileSystemsAlreadySupportedBySystem                          *)
RemoveSupported(list) ==
  LET left[i \in 0 .. Len(kick)] ==
        IF i = 0 THEN list ELSE EraseOlderOrSame(left[i - 1], kick[i].type, kick[i].version)
  IN  left[Len(kick)]

(* GetFileSystemForDOSType                                                 *)
ForDOSType(list, type) == First({i \in DOMAIN list : list[i].type = type})

NoName == 0 - 1

(* What a unit would have mounted: its partitions, or itself.              *)
Mountable(devices, u) ==
  CASE devices[u].open = "no" -> <<>>
    [] devices[u].open # "no" /\ devices[u].hasRdb ->
         LET parts == Partitions(devices[u].rdb)
             auto  == Chosen(parts, {i \in DOMAIN parts : parts[i].automount})
         IN  [i \in DOMAIN auto |-> [unit |-> u, wants |-> auto[i].name, type |-> auto[i].type]]
    [] OTHER -> <<[unit |-> u, wants |-> NoName, type |-> "DOS"]>>

(* Mutant: the next number is taken, whether it is free or not.            *)
MakeDeviceNameBlindly(used, number) == number

(* MakeDeviceName: the first number that is free.                          *)
MakeDeviceName(used, number) ==
  CHOOSE k \in number .. number + Cardinality(used) :
    k \notin used /\ number .. k - 1 \subseteq used

AddMount(made, p) ==
  LET used == {made.list[i].name : i \in DOMAIN made.list}
      name == MakeDeviceName(used, made.number)
  IN  IF p.wants # NoName /\ p.wants \notin used
      THEN [made EXCEPT !.list = Append(@, [unit |-> p.unit, type |-> p.type, name |-> p.wants])]
      ELSE [list |-> Append(made.list, [unit |-> p.unit, type |-> p.type, name |-> name]),
            number |-> name + 1]

(* CreateMountList                                                         *)
CreateMountList(devices) ==
  LET all == FlattenSeq([i \in 1 .. Units |-> Mountable(devices, i - 1)])
      made[i \in 0 .. Len(all)] ==
        IF i = 0 THEN [list |-> <<>>, number |-> 0] ELSE AddMount(made[i - 1], all[i])
  IN  made[Len(all)].list
-----------------------------------------------------------------------------
HardInit ==
  /\ disk \in [File -> Content]
  /\ device = [u \in Unit |-> Empty]
  /\ fileSystems = <<>> /\ enabled = FALSE
  /\ cards = [list |-> <<>>, finished |-> 0]
  /\ preStart = TRUE /\ stage = "dialog"
  /\ kick \in Kickstarts
  /\ amiga = [boot |-> "config", next |-> 1, packets |-> <<>>, mounted |-> <<>>]
  /\ unplugged = {}

(* Mutant: a file that is exchanged for another one needs no reset.        *)
ForgetsExchanges(on, set, open) == on # enabled \/ open # {}

(* What sets needreset: units that are set, and open ones that are removed.*)
NeedsReset(on, set, open) == on # enabled \/ set # {} \/ open # {}

(* cfgManagerConfigurationActivate, what it does for hard files.  "edited" *)
(* are units whose geometry or protection is not the known one: changed by *)
(* the user, or what is known is the geometry of the partition table.      *)
Activate(names, on, edited) ==
  LET cleared == [u \in Unit |-> IF on # enabled THEN Removed(device[u]) ELSE device[u]]
      set  == {u \in Unit : /\ on /\ u < Len(names)
                            /\ names[u + 1] # cleared[u].name \/ u \in edited}
      gone == {u \in Unit : on /\ u >= Len(names)}
  IN  /\ stage = "dialog" /\ stage' = "set"
      /\ enabled' = on
      /\ device' = [u \in Unit |->
           IF u \in set THEN Initialized([Removed(cleared[u]) EXCEPT !.name = names[u + 1]])
           ELSE IF u \in gone THEN Removed(cleared[u]) ELSE cleared[u]]
      /\ preStart' = (preStart \/ NeedsReset(on, set, {u \in gone : cleared[u].open # "no"}))
      /\ fileSystems' = IF on # enabled THEN <<>> ELSE Orphaned(set \union gone)
      /\ unplugged' = unplugged \union {u \in gone : cleared[u].name # NoHardFile}
      /\ UNCHANGED <<disk, cards, kick, amiga>>

(* fellowHardReset and fellowSoftReset: memoryHardReset takes all cards    *)
(* out, and the fast memory and HardfileHandler::HardReset add theirs.     *)
Reset(devices) ==
  /\ cards' = [list |-> (IF Fast THEN <<"fast">> ELSE <<>>)
                         \o (IF enabled /\ ~HasZeroDevices(devices) THEN <<"hardfile">> ELSE <<>>),
                finished |-> 0]
  /\ amiga' = [boot |-> "config", next |-> 1, packets |-> <<>>, mounted |-> <<>>]
  /\ preStart' = FALSE /\ unplugged' = {}

(* fellowEmulationStart, with HardfileHandler::EmulationStart, and the     *)
(* reset at the beginning of fellowRun.                                    *)
SessionStart ==
  LET started == [u \in Unit |-> IF device[u].hdf /\ device[u].open = "no"
                                 THEN Opened(device[u]) ELSE device[u]]
  IN  /\ stage = "set" /\ stage' = "running"
      /\ device' = started
      /\ IF preStart THEN Reset(started) ELSE UNCHANGED <<cards, amiga, preStart, unplugged>>
      /\ UNCHANGED <<disk, fileSystems, enabled, kick>>

(* fellowEmulationStop, also after a start that failed before it reached   *)
(* the hard files.                                                         *)
SessionStop ==
  /\ stage # "dialog" /\ stage' = "dialog"
  /\ device' = [u \in Unit |-> Closed(device[u])]
  /\ UNCHANGED <<disk, fileSystems, enabled, cards, preStart, kick, amiga, unplugged>>
-----------------------------------------------------------------------------
(* What the Amiga does while it is run.                                    *)

(* The CPU's RESET instruction.                                            *)
AmigaReset ==
  /\ stage = "running"
  /\ Reset(device)
  /\ UNCHANGED <<disk, device, fileSystems, enabled, stage, kick>>

(* memoryEmemWriteByte: the card that shows itself is mapped or shut up,   *)
(* and the next one appears.                                               *)
ConfigureCard ==
  /\ stage = "running" /\ cards.finished < Len(cards.list)
  /\ cards' = [cards EXCEPT !.finished = @ + 1]
  /\ UNCHANGED <<disk, device, fileSystems, enabled, preStart, stage, kick, amiga, unplugged>>

(* DoDiag: RebuildHardfileConfiguration reads all RDBs again.              *)
Diag ==
  LET devices == [u \in Unit |-> Initialized(device[u])]
  IN  /\ stage = "running" /\ amiga.boot = "config"
      /\ \E i \in 1 .. cards.finished : cards.list[i] = "hardfile"
      /\ device' = devices
      /\ fileSystems' = AddFileSystemsFromRdb(devices)
      /\ amiga' = [amiga EXCEPT !.boot = "diag", !.packets = CreateMountList(devices)]
      /\ UNCHANGED <<disk, enabled, cards, preStart, stage, kick, unplugged>>

(* fhfile_init: the file systems that the Kickstart has are not loaded.    *)
FhfileInit ==
  LET left == RemoveSupported(fileSystems)
  IN  /\ stage = "running" /\ amiga.boot = "diag"
      /\ fileSystems' = left
      /\ amiga' = [amiga EXCEPT !.boot = IF left = <<>> THEN "mount" ELSE "load"]
      /\ UNCHANGED <<disk, device, enabled, cards, preStart, stage, kick, unplugged>>

(* AddRDBFileSystemEntry: the hunks of one file system are copied.         *)
LoadFileSystem ==
  /\ stage = "running" /\ amiga.boot = "load"
  /\ fileSystems' = [fileSystems EXCEPT ![amiga.next].loaded = TRUE]
  /\ amiga' = IF amiga.next = Len(fileSystems) THEN [amiga EXCEPT !.boot = "mount", !.next = 1]
              ELSE [amiga EXCEPT !.next = @ + 1]
  /\ UNCHANGED <<disk, device, enabled, cards, preStart, stage, kick, unplugged>>

(* DoPatchDOSDeviceNode, for one packet, of file systems whose PatchFlags  *)
(* ask for the fields that it patches, as those in use do.                 *)
MountPartition ==
  LET p == amiga.packets[amiga.next]
      fs == ForDOSType(fileSystems, p.type)
  IN  /\ stage = "running" /\ amiga.boot = "mount" /\ amiga.next <= Len(amiga.packets)
      /\ amiga' = [amiga EXCEPT
           !.next = @ + 1,
           !.mounted = Append(@, [unit |-> p.unit, type |-> p.type, name |-> p.name,
                                  file |-> device[p.unit].name, handler |-> fs])]
      /\ UNCHANGED <<disk, device, fileSystems, enabled, cards, preStart, stage, kick, unplugged>>

(* A partitioning program writes to the blocks of a unit (CMD_WRITE).      *)
Rewrite(u, c) ==
  /\ stage = "running" /\ device[u].open = "yes" /\ amiga.mounted # <<>>
  /\ c.exists /\ c.cylinders = disk[device[u].name].cylinders
  /\ disk' = [disk EXCEPT ![device[u].name] = c]
  /\ UNCHANGED <<device, fileSystems, enabled, cards, preStart, stage, kick, amiga, unplugged>>

HardNext ==
  \/ \E names \in SeqOf(File, Units), on \in BOOLEAN, edited \in SUBSET Unit :
       Activate(names, on, edited)
  \/ SessionStart \/ SessionStop
  \/ AmigaReset \/ ConfigureCard \/ Diag \/ FhfileInit \/ LoadFileSystem \/ MountPartition
  \/ \E u \in Unit, c \in Content : Rewrite(u, c)

HardSpec == HardInit /\ [][HardNext]_hardVars
-----------------------------------------------------------------------------
(* Whatever the user changes between two runs, a unit that the Amiga has   *)
(* mounted is the file that it was when it was mounted, or does not answer;*)
(* a change comes with a reset.                                            *)
UnitsKeepTheirFiles ==
  stage = "running" =>
    \A i \in DOMAIN amiga.mounted :
      LET m == amiga.mounted[i] IN device[m.unit].open = "yes" => device[m.unit].name = m.file

(* While the Amiga loads file systems, the RDB that each of them points    *)
(* into still exists, unless its unit was removed without a reset.         *)
HeadersAreLive ==
  stage = "running" /\ amiga.boot # "config" =>
    \A i \in DOMAIN fileSystems : fileSystems[i].live \/ fileSystems[i].unit \in unplugged

(* No closed file is kept as if it were open: HardfileDevice::Clear keeps  *)
(* the pointer of a file that it closes, which would be closed again.      *)
HandlesAreSound == \A u \in Unit : device[u].open # "dangling"

(* The units stay sound while the settings are changed between two runs:   *)
(* the three invariants above.                                             *)
UnitsAreSound == UnitsKeepTheirFiles /\ HeadersAreLive /\ HandlesAreSound

(* Every partition gets the newest file system of its type that any RDB or *)
(* the Kickstart has, loaded before it is used; unless an RDB has an older *)
(* version behind a newer one, or a unit was removed without a reset.      *)
Descending(type) ==
  LET all == AllHeaders(device)
  IN  \E i, j \in DOMAIN all :
        i < j /\ {all[i].type, all[j].type} = {type} /\ all[i].version > all[j].version

NewestIsMounted ==
  \A i \in DOMAIN amiga.mounted :
    LET m == amiga.mounted[i]
        system == Versions(kick, m.type)
        best == system \union Versions(AllHeaders(device), m.type)
        used == IF m.handler = {} THEN system ELSE {fileSystems[h].version : h \in m.handler}
    IN  stage = "running" /\ unplugged = {} /\ ~Descending(m.type) =>
          /\ best = {} \/ \E v \in used : \A w \in best : v >= w
          /\ \A h \in m.handler : fileSystems[h].loaded

(* No two of them have the same name.                                      *)
NamesDiffer ==
  \A i, j \in DOMAIN amiga.packets : i # j => amiga.packets[i].name # amiga.packets[j].name

(* What the Amiga mounts at a boot is right: the two invariants above.     *)
MountsAreRight == NewestIsMounted /\ NamesDiffer
=============================================================================
