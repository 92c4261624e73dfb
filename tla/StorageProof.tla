---------------------------- MODULE StorageProof ----------------------------
(***************************************************************************)
(* Proofs about the images of floppy disks, for every number of drives and *)
(* every set of images: a disk that leaves a drive has left its writes in  *)
(* its file, and the Amiga is told of every change.  And about hard files, *)
(* for every number of units and lists of any length in their partition    *)
(* tables: units that are mounted keep their files, and partitions are     *)
(* mounted with the newest file system and with names that differ.         *)
(***************************************************************************)
EXTENDS Storage, SequenceTheorems, FiniteSetTheorems, WellFoundedInduction, TLAPS

DriveRec ==
  [name : Image \union {None}, real : Image \union {None, Temp}, zipped : BOOLEAN,
   inserted : BOOLEAN, changed : BOOLEAN, status : {"none", "normal", "extended2", "error"},
   open : {"no", "rb", "r+b"}, config : BOOLEAN, enforced : BOOLEAN,
   mfm : Contents \union {NoFile}]

DisksRec ==
  [file : [Image -> Contents], temp : [Drive -> Contents \union {NoFile}],
   drive : [Drive -> DriveRec]]

(* The contents that the file of an image ought to have.                   *)
AsWritten(h, n) == [image |-> n, writes |-> {i \in DOMAIN h : h[i] = n}]
Written(n) == AsWritten(done, n)

(* Drive d, except for the images in E, of which writes may be lost.  A    *)
(* temporary file that is left over is one of those.  A disk that is in    *)
(* the drive, image n, is read from and written to its own file, or a      *)
(* temporary one that has all of its writes; the image that this will be   *)
(* packed into is the same one.                                            *)
Slot(disks, d, E) ==
  LET x == disks.drive[d]
      t == disks.temp[d]
      n == x.mfm.image
  IN  /\ x.inserted <=> x.status = "normal"
      /\ x.zipped => x.real = Temp /\ t # NoFile
      /\ ~x.zipped /\ x.real = Temp => t = NoFile \/ t.image \in E
      /\ x.open # "no" => x.name \in Image /\ (x.real \in Plain \/ (x.real = Temp /\ t # NoFile))
      /\ x.inserted =>
           /\ x.mfm # NoFile /\ x.name \in Image /\ x.open # "no"
           /\ x.real # Temp => n = x.real
           /\ x.real = Temp => /\ t.image = n /\ x.name \in Packed \union Dms
                               /\ x.name = n \/ {x.name, n} \subseteq E
           /\ n \notin E =>
                /\ WriteProtected(x) \/ x.open = "r+b"
                /\ x.zipped => /\ t = Written(n)
                               /\ WriteProtected(x) => disks.file[n] = Written(n)
                               /\ n \in ReadOnly => WriteProtected(x)

(* The files of images that are used as they are, or are in no drive.      *)
Files(disks, E) ==
  \A n \in Image :
    /\ disks.file[n].image = n \/ (n \notin Plain /\ {n, disks.file[n].image} \subseteq E)
    /\ n \notin E /\ (n \in Plain \/ InDrive(disks.drive, n) = {}) => disks.file[n] = Written(n)

Kept(disks, E) ==
  /\ disks \in DisksRec /\ \A d \in Drive : Slot(disks, d, E)
  /\ Files(disks, E)

(* For ChangeIsSeen.                                                       *)
Told(disks) ==
  \A d \in Drive : disks.drive[d].changed
                   \/ (disks.drive[d].inserted /\ disks.drive[d].mfm.image = seen[d])

DiskInv ==
  /\ TypeOK /\ Dms \subseteq excused /\ Twice(drive) \subseteq excused
  /\ Kept(Disks, excused) /\ Told(Disks)

LEMMA Kinds ==
  /\ None \notin Image /\ Temp \notin Image /\ None # Temp /\ ReadOnly \subseteq Image
  /\ Plain \subseteq Image /\ Packed \subseteq Image /\ Dms \subseteq Image
  /\ Image = Plain \union Packed \union Dms
  /\ Plain \intersect Packed = {} /\ Plain \intersect Dms = {} /\ Packed \intersect Dms = {}
BY ImageAssumption, KindAssumption DEF Image, None, Temp

(* A record of disks and what is in one of its drives.                     *)
LEMMA FieldsOf ==
  ASSUME NEW disks \in DisksRec
  PROVE  /\ disks.file \in [Image -> Contents]
         /\ disks.temp \in [Drive -> Contents \union {NoFile}]
         /\ disks.drive \in [Drive -> DriveRec]
BY DEF DisksRec

LEMMA PutDrive ==
  ASSUME NEW disks \in DisksRec, NEW d \in Drive, NEW y \in DriveRec
  PROVE  LET r == [disks EXCEPT !.drive[d] = y]
         IN  /\ r \in DisksRec /\ r.file = disks.file /\ r.temp = disks.temp
             /\ r.drive = [disks.drive EXCEPT ![d] = y] /\ r.drive[d] = y
             /\ \A e \in Drive \ {d} : r.drive[e] = disks.drive[e]
<1> DEFINE f == [disks.drive EXCEPT ![d] = y]
           r == [disks EXCEPT !.drive[d] = y]
<1>1. f \in [Drive -> DriveRec] /\ f[d] = y /\ \A e \in Drive \ {d} : f[e] = disks.drive[e]
  BY FieldsOf
<1>2. r = [disks EXCEPT !.drive = f]
  OBVIOUS
<1> HIDE DEF f
<1>3. [disks EXCEPT !.drive = f] \in DisksRec
  BY <1>1 DEF DisksRec
<1>4. r.file = disks.file /\ r.temp = disks.temp /\ r.drive = f
  BY <1>2 DEF DisksRec
<1> QED  BY <1>1, <1>2, <1>3, <1>4 DEF f

LEMMA PutTemp ==
  ASSUME NEW disks \in DisksRec, NEW d \in Drive, NEW c \in Contents \union {NoFile}
  PROVE  LET r == [disks EXCEPT !.temp[d] = c]
         IN  /\ r \in DisksRec /\ r.file = disks.file /\ r.drive = disks.drive
             /\ r.temp[d] = c /\ \A e \in Drive \ {d} : r.temp[e] = disks.temp[e]
<1> DEFINE f == [disks.temp EXCEPT ![d] = c]
           r == [disks EXCEPT !.temp[d] = c]
<1>1. f \in [Drive -> Contents \union {NoFile}] /\ f[d] = c
      /\ \A e \in Drive \ {d} : f[e] = disks.temp[e]
  BY FieldsOf
<1>2. r = [disks EXCEPT !.temp = f]
  OBVIOUS
<1> HIDE DEF f
<1>3. [disks EXCEPT !.temp = f] \in DisksRec
  BY <1>1 DEF DisksRec
<1>4. r.file = disks.file /\ r.drive = disks.drive /\ r.temp = f
  BY <1>2 DEF DisksRec
<1> QED  BY <1>1, <1>2, <1>3, <1>4 DEF f

(* What gzPack leaves in the user's file.                                  *)
LEMMA GzPackIs ==
  ASSUME NEW old \in Contents, NEW new \in Contents, NEW fault
  PROVE  /\ GzPack(old, new, fault) \in Contents
         /\ GzPack(old, new, fault).image \in {old.image, new.image}
         /\ fault \notin PackFaults => GzPack(old, new, fault) = new
<1>1. CASE fault \in {"read", "pack"}
  BY <1>1 DEF GzPack, PackFaults
<1>2. CASE fault \in {"write", "close"}
  BY <1>2 DEF GzPack, PackFaults, Contents
<1>3. CASE fault \notin {"read", "pack"} /\ fault \notin {"write", "close"}
  BY <1>3 DEF GzPack, PackFaults
<1> QED  BY <1>1, <1>2, <1>3

(* What floppyImageRemove makes of the disks: r, which differs in drive d. *)
IsRemoved(disks, d, fault, r) ==
  LET x == disks.drive[d]
      y == r.drive[d]
      unpacked == x.status = "normal" /\ x.zipped
      packs == unpacked /\ Repacks(x)
  IN  /\ r \in DisksRec
      /\ \A e \in Drive \ {d} : r.drive[e] = disks.drive[e] /\ r.temp[e] = disks.temp[e]
      /\ y.name = x.name /\ y.real = x.real /\ y.config = x.config /\ y.changed
      /\ y.status = "none" /\ ~y.inserted /\ ~y.enforced /\ y.open = "no" /\ y.mfm = NoFile
      /\ (y.zipped <=> x.zipped /\ ~unpacked)
      /\ unpacked => \/ r.temp[d] = NoFile
                     \/ packs /\ fault \in PackFaults /\ r.temp[d] = disks.temp[d]
      /\ ~unpacked => r.temp[d] = disks.temp[d]
      /\ packs => /\ disks.temp[d] \in Contents
                  /\ r.file = [disks.file EXCEPT
                                 ![x.name] = GzPack(disks.file[x.name], disks.temp[d], fault)]
      /\ ~packs => r.file = disks.file

LEMMA RemoveIs ==
  ASSUME NEW disks \in DisksRec, NEW d \in Drive, NEW fault,
         disks.drive[d].zipped => disks.temp[d] # NoFile
  PROVE  IsRemoved(disks, d, fault, Remove(disks, d, fault))
<1> DEFINE x == disks.drive[d]
           packs == Repacks(x)
           kept == packs /\ fault \in {"pack", "write"}
           unpacked == x.status = "normal" /\ x.zipped
           packed == GzPack(disks.file[x.name], disks.temp[d], fault)
           left == IF unpacked THEN CompressedRemove(disks, d, fault) ELSE disks
<1>1. Remove(disks, d, fault) = [left EXCEPT !.drive[d] = Removed(left.drive[d])]
  BY DEF Remove
<1>2. x \in DriveRec
  BY FieldsOf
<1>3. /\ left \in DisksRec /\ left.drive[d] \in DriveRec
      /\ \A e \in Drive \ {d} : left.drive[e] = disks.drive[e] /\ left.temp[e] = disks.temp[e]
      /\ left.drive[d].name = x.name /\ left.drive[d].real = x.real
      /\ left.drive[d].config = x.config /\ (left.drive[d].zipped <=> x.zipped /\ ~unpacked)
      /\ left.temp[d] = IF unpacked /\ ~kept THEN NoFile ELSE disks.temp[d]
      /\ unpacked /\ packs => /\ disks.temp[d] \in Contents
                              /\ left.file = [disks.file EXCEPT ![x.name] = packed]
      /\ ~(unpacked /\ packs) => left.file = disks.file
  <2>1. CASE ~unpacked
    <3>1. left = disks
      BY <2>1
    <3> QED  BY <1>2, <2>1, <3>1
  <2>2. CASE unpacked
    <3> DEFINE f == IF packs THEN [disks.file EXCEPT ![x.name] = packed] ELSE disks.file
               t == IF kept THEN disks.temp ELSE [disks.temp EXCEPT ![d] = NoFile]
               y == [x EXCEPT !.zipped = FALSE]
               g == [disks.drive EXCEPT ![d] = y]
    <3>1. left = [file |-> f, temp |-> t, drive |-> g]
      BY <2>2 DEF CompressedRemove
    <3>2. disks.temp[d] \in Contents
      BY <2>2, FieldsOf
    <3>3. f \in [Image -> Contents]
      <4>1. packs => x.name \in Image
        BY Kinds DEF Repacks
      <4>2. packs => packed \in Contents
        BY <3>2, <4>1, FieldsOf, GzPackIs
      <4> HIDE DEF packed, packs
      <4> QED  BY <4>1, <4>2, FieldsOf
    <3>4. t \in [Drive -> Contents \union {NoFile}]
          /\ t[d] = (IF kept THEN disks.temp[d] ELSE NoFile)
          /\ \A e \in Drive \ {d} : t[e] = disks.temp[e]
      <4> HIDE DEF kept
      <4> QED  BY FieldsOf
    <3>5. y \in DriveRec /\ y.name = x.name /\ y.real = x.real /\ y.config = x.config
          /\ ~y.zipped
      BY <1>2 DEF DriveRec
    <3> HIDE DEF y
    <3>6. g \in [Drive -> DriveRec] /\ g[d] = y /\ \A e \in Drive \ {d} : g[e] = disks.drive[e]
      BY <3>5, FieldsOf
    <3>7. (packs => f = [disks.file EXCEPT ![x.name] = packed]) /\ (~packs => f = disks.file)
      OBVIOUS
    <3> HIDE DEF f, t, g, kept, packs, packed
    <3>8. left \in DisksRec /\ left.file = f /\ left.temp = t /\ left.drive = g
      BY <3>1, <3>3, <3>4, <3>6 DEF DisksRec
    <3> QED  BY <2>2, <3>2, <3>4, <3>5, <3>6, <3>7, <3>8
  <2> QED  BY <2>1, <2>2
<1> HIDE DEF left
<1> DEFINE z == left.drive[d]
           y == Removed(z)
<1>4. /\ y \in DriveRec /\ y.name = z.name /\ y.real = z.real /\ y.config = z.config /\ y.changed
      /\ y.status = "none" /\ ~y.inserted /\ ~y.enforced /\ y.open = "no" /\ y.mfm = NoFile
      /\ y.zipped = z.zipped
  BY <1>3 DEF Removed, DriveRec
<1> HIDE DEF y, z
<1> DEFINE r == [left EXCEPT !.drive[d] = y]
<1>5. r \in DisksRec /\ r.file = left.file /\ r.temp = left.temp /\ r.drive[d] = y
      /\ \A e \in Drive \ {d} : r.drive[e] = left.drive[e]
  BY <1>3, <1>4, PutDrive
<1>6. Remove(disks, d, fault) = r
  BY <1>1 DEF y, z
<1>7. kept => packs /\ fault \in PackFaults
  BY DEF PackFaults
<1> HIDE DEF r, kept, packs, packed
<1> QED  BY <1>3, <1>4, <1>5, <1>6, <1>7 DEF z, packs, packed, IsRemoved
(* More images of which writes may be lost.                                *)
LEMMA MoreExcused ==
  ASSUME NEW disks, NEW E, NEW F, Kept(disks, E), E \subseteq F
  PROVE  Kept(disks, F)
<1>1. ASSUME NEW d \in Drive PROVE Slot(disks, d, F)
  <2>1. Slot(disks, d, E)
    BY DEF Kept
  <2> QED  BY <2>1 DEF Slot
<1>2. Files(disks, F)
  BY DEF Kept, Files
<1> QED  BY <1>1, <1>2 DEF Kept

LEMMA InDriveIs ==
  ASSUME NEW drives, NEW n, NEW d \in Drive
  PROVE  d \in InDrive(drives, n) <=> drives[d].inserted /\ drives[d].mfm.image = n
BY DEF InDrive

(* What floppyImageRemove packs are all writes of the image.               *)
LEMMA Packs ==
  ASSUME NEW disks, NEW E, Kept(disks, E), NEW d \in Drive,
         disks.drive[d].status = "normal", disks.drive[d].zipped,
         disks.drive[d].name \in Packed
  PROVE  LET m == disks.drive[d].name
             t == disks.temp[d]
         IN  /\ m \notin E => t = Written(m) /\ disks.drive[d].mfm.image = m
             /\ t.image = m \/ {m, t.image} \subseteq E
             /\ t.image = disks.drive[d].mfm.image
<1>1. Slot(disks, d, E)
  BY DEF Kept
<1> QED  BY <1>1 DEF Slot

(* floppyImageRemove leaves the writes of every image in their place.      *)
LEMMA RemoveKeeps ==
  ASSUME NEW disks, NEW E, Kept(disks, E), Dms \subseteq E, NEW d \in Drive, NEW fault,
         LET x == disks.drive[d]
         IN  fault \in PackFaults /\ x.inserted /\ x.zipped /\ Repacks(x) =>
               {x.name, x.mfm.image} \subseteq E
  PROVE  Kept(Remove(disks, d, fault), E)
<1> DEFINE x == disks.drive[d]
           m == x.name
           r == Remove(disks, d, fault)
           y == r.drive[d]
           unpacked == x.status = "normal" /\ x.zipped
           packs == unpacked /\ Repacks(x)
           packed == GzPack(disks.file[m], disks.temp[d], fault)
<1>1. disks \in DisksRec /\ Slot(disks, d, E) /\ Files(disks, E)
  BY DEF Kept
<1>2. x.zipped => disks.temp[d] # NoFile
  BY <1>1 DEF Slot
<1>3. /\ r \in DisksRec
      /\ \A e \in Drive \ {d} : r.drive[e] = disks.drive[e] /\ r.temp[e] = disks.temp[e]
      /\ y.real = x.real /\ y.status = "none" /\ ~y.inserted /\ y.open = "no"
      /\ (y.zipped <=> x.zipped /\ ~unpacked)
      /\ unpacked => \/ r.temp[d] = NoFile
                     \/ packs /\ fault \in PackFaults /\ r.temp[d] = disks.temp[d]
      /\ ~unpacked => r.temp[d] = disks.temp[d]
      /\ packs => /\ disks.temp[d] \in Contents
                  /\ r.file = [disks.file EXCEPT ![m] = packed]
      /\ ~packs => r.file = disks.file
  <2>1. IsRemoved(disks, d, fault, r)
    BY <1>1, <1>2, RemoveIs
  <2> HIDE DEF r
  <2> QED  BY <2>1 DEF IsRemoved
<1>4. packs => /\ m \in Image /\ m \notin Plain
               /\ m \notin E => disks.temp[d] = Written(m) /\ x.mfm.image = m
               /\ disks.temp[d].image = m \/ {m, disks.temp[d].image} \subseteq E
               /\ disks.temp[d].image = x.mfm.image
  BY Packs, Kinds DEF Repacks
<1>5. disks.file \in [Image -> Contents] /\ \A n \in Image :
        disks.file[n].image = n \/ (n \notin Plain /\ {n, disks.file[n].image} \subseteq E)
  <2>1. disks.file \in [Image -> Contents]
    BY <1>1, FieldsOf
  <2> QED  BY <1>1, <2>1 DEF Files
<1>10. packs /\ fault \in PackFaults => {m, disks.temp[d].image} \subseteq E
  BY <1>1, <1>4 DEF Slot
<1>11. packs => /\ m \notin E => packed = Written(m)
                /\ packed.image = m \/ {m, packed.image} \subseteq E
  <2>1. SUFFICES ASSUME packs PROVE /\ m \notin E => packed = Written(m)
                                    /\ packed.image = m \/ {m, packed.image} \subseteq E
    OBVIOUS
  <2>2. m \in Image /\ disks.file[m] \in Contents /\ disks.temp[d] \in Contents
    BY <1>3, <1>4, <1>5, <2>1
  <2> HIDE DEF packed
  <2>3. /\ packed.image \in {disks.file[m].image, disks.temp[d].image}
        /\ fault \notin PackFaults => packed = disks.temp[d]
    BY <2>2, GzPackIs DEF packed
  <2> HIDE DEF packs
  <2>4. m \notin E => packed = Written(m)
    BY <1>4, <1>10, <2>1, <2>3
  <2>5. packed.image = m \/ {m, packed.image} \subseteq E
    BY <1>4, <1>5, <2>1, <2>2, <2>3
  <2> QED  BY <2>4, <2>5
<1> HIDE DEF r, packed
<1>6. \A n \in Image : /\ r.file[n] = disks.file[n] \/ (packs /\ n = m /\ r.file[n] = packed)
                       /\ packs /\ n = m => r.file[n] = packed
  BY <1>3, <1>5
<1>7. ASSUME NEW e \in Drive, e # d PROVE Slot(r, e, E)
  <2>1. Slot(disks, e, E)
    BY DEF Kept
  <2>2. r.drive[e] = disks.drive[e] /\ r.temp[e] = disks.temp[e]
    BY <1>3, <1>7
  <2> DEFINE n == disks.drive[e].mfm.image
  <2>3. n \in Image /\ n \notin E /\ disks.file[n] = Written(n) => r.file[n] = Written(n)
    BY <1>6, <1>11
  <2>4. disks.drive[e].inserted => n \in Image
    <3>1. disks.drive[e] \in DriveRec
      BY <1>1, FieldsOf
    <3> QED  BY <2>1, <3>1 DEF Slot, DriveRec, Contents
  <2> QED  BY <2>1, <2>2, <2>3, <2>4 DEF Slot
<1>8. Slot(r, d, E)
  <2>1. /\ x.zipped => x.real = Temp /\ disks.temp[d] # NoFile
        /\ ~x.zipped /\ x.real = Temp => disks.temp[d] = NoFile \/ disks.temp[d].image \in E
    BY <1>1 DEF Slot
  <2> HIDE DEF packs
  <2>2. /\ y.zipped => y.real = Temp /\ r.temp[d] # NoFile
        /\ ~y.zipped /\ y.real = Temp => r.temp[d] = NoFile \/ r.temp[d].image \in E
    BY <1>3, <1>10, <2>1
  <2> QED  BY <1>3, <2>2 DEF Slot
<1>9. Files(r, E)
  <2>1. SUFFICES ASSUME NEW n \in Image
                 PROVE  /\ r.file[n].image = n \/ (n \notin Plain /\ {n, r.file[n].image} \subseteq E)
                        /\ n \notin E /\ (n \in Plain \/ InDrive(r.drive, n) = {}) =>
                             r.file[n] = Written(n)
    BY DEF Files
  <2>2. /\ disks.file[n].image = n \/ (n \notin Plain /\ {n, disks.file[n].image} \subseteq E)
        /\ n \notin E /\ (n \in Plain \/ InDrive(disks.drive, n) = {}) => disks.file[n] = Written(n)
    BY <1>1 DEF Files
  <2>3. r.file[n].image = n \/ (n \notin Plain /\ {n, r.file[n].image} \subseteq E)
    BY <1>4, <1>6, <1>11, <2>2
  <2>4. CASE n \in E
    BY <2>3, <2>4
  <2>5. CASE packs /\ n = m /\ n \notin E
    BY <1>4, <1>6, <1>11, <2>3, <2>5
  <2>6. CASE n \notin E /\ ~(packs /\ n = m)
    <3>1. r.file[n] = disks.file[n]
      BY <1>6, <2>6
    <3>2. CASE n \notin Plain /\ InDrive(r.drive, n) = {} /\ InDrive(disks.drive, n) # {}
      <4>1. PICK e \in Drive : e \in InDrive(disks.drive, n)
        BY <3>2 DEF InDrive
      <4>2. e = d
        BY <1>3, <3>2, <4>1, InDriveIs
      <4>3. x.inserted /\ x.mfm.image = n
        BY <4>1, <4>2, InDriveIs
      <4>4. n \in Packed /\ x.zipped /\ x.status = "normal"
        BY <1>1, <2>6, <3>2, <4>3, Kinds DEF Slot
      <4>5. (WriteProtected(x) => disks.file[n] = Written(n)) /\ (n \in ReadOnly => WriteProtected(x))
            /\ m = n
        BY <1>1, <2>6, <4>3, <4>4 DEF Slot
      <4>6. WriteProtected(x)
        BY <2>6, <4>4, <4>5 DEF Repacks
      <4> QED  BY <2>3, <3>1, <4>5, <4>6
    <3> QED  BY <2>2, <2>3, <3>1, <3>2
  <2> QED  BY <2>4, <2>5, <2>6
<1> QED  BY <1>3, <1>7, <1>8, <1>9 DEF Kept, r
LEMMA FailedIs ==
  ASSUME NEW x \in DriveRec
  PROVE  LET y == Failed(x)
         IN  /\ y \in DriveRec /\ y.status = "error" /\ ~y.inserted /\ y.open = "no"
             /\ y.name = x.name /\ y.real = x.real /\ (y.zipped <=> x.zipped)
             /\ (y.config <=> x.config) /\ (y.changed <=> x.changed)
BY DEF Failed, DriveRec

(* floppyImagePrepare on an empty drive d.                                 *)
LEMMA PrepareIs ==
  ASSUME NEW disks \in DisksRec, NEW d \in Drive, NEW n \in Image, NEW fault,
         ~disks.drive[d].inserted, disks.drive[d].status # "normal"
  PROVE  LET x == disks.drive[d]
             r == Prepare(disks, d, n, fault)
             y == r.drive[d]
         IN  /\ r \in DisksRec /\ r.file = disks.file
             /\ \A e \in Drive \ {d} : r.drive[e] = disks.drive[e] /\ r.temp[e] = disks.temp[e]
             /\ ~y.inserted /\ y.status # "normal"
             /\ (y.config <=> x.config) /\ (y.changed <=> x.changed)
             /\ \/ n \in Plain \/ fault = "unpack"
                \/ fault = "noTemp" /\ n \notin Plain
                \/ r.temp[d] = disks.file[n] /\ y.real = Temp /\ y.zipped /\ n \notin Plain
                   /\ (y.enforced <=> n \in Packed \intersect ReadOnly)
             /\ n \in Plain \/ fault = "unpack" =>
                  y.real = n /\ ~y.zipped /\ r.temp[d] = disks.temp[d]
             /\ fault = "noTemp" /\ n \notin Plain =>
                  y.real = x.real /\ (y.zipped <=> x.zipped) /\ r.temp[d] = disks.temp[d]
<1> DEFINE x == disks.drive[d]
           r == Prepare(disks, d, n, fault)
<1>1. x \in DriveRec /\ disks.file[n] \in Contents
  BY FieldsOf
<1>2. CASE n \in Plain \/ fault = "unpack"
  <2> DEFINE y == [x EXCEPT !.real = n, !.zipped = FALSE]
  <2>1. r = [disks EXCEPT !.drive[d] = y]
    BY <1>2 DEF Prepare
  <2>2. /\ y \in DriveRec /\ y.real = n /\ ~y.zipped /\ ~y.inserted /\ y.status # "normal"
        /\ (y.config <=> x.config) /\ (y.changed <=> x.changed)
    BY <1>1 DEF DriveRec
  <2> HIDE DEF y, r
  <2>3. /\ r \in DisksRec /\ r.file = disks.file /\ r.temp = disks.temp
        /\ r.drive[d] = y /\ \A e \in Drive \ {d} : r.drive[e] = disks.drive[e]
    BY <2>1, <2>2, PutDrive
  <2>4. fault = "noTemp" /\ n \notin Plain => FALSE
    BY <1>2
  <2> QED  BY <1>2, <2>2, <2>3, <2>4 DEF r
<1>3. CASE n \notin Plain /\ fault = "noTemp"
  <2> DEFINE y == Failed(x)
  <2>1. r = [disks EXCEPT !.drive[d] = y]
    BY <1>3 DEF Prepare
  <2>2. /\ y \in DriveRec /\ y.real = x.real /\ (y.zipped <=> x.zipped) /\ ~y.inserted
        /\ y.status # "normal" /\ (y.config <=> x.config) /\ (y.changed <=> x.changed)
    BY <1>1, FailedIs
  <2> HIDE DEF y, r
  <2>3. /\ r \in DisksRec /\ r.file = disks.file /\ r.temp = disks.temp
        /\ r.drive[d] = y /\ \A e \in Drive \ {d} : r.drive[e] = disks.drive[e]
    BY <2>1, <2>2, PutDrive
  <2>4. n \in Plain \/ fault = "unpack" => FALSE
    BY <1>3
  <2> QED  BY <1>3, <2>2, <2>3, <2>4 DEF r
<1>4. CASE n \notin Plain /\ fault # "noTemp" /\ fault # "unpack"
  <2> DEFINE s == [disks EXCEPT !.temp[d] = disks.file[n]]
             y == [x EXCEPT !.real = Temp, !.zipped = TRUE,
                            !.enforced = n \in Packed \intersect ReadOnly]
  <2>1. /\ s \in DisksRec /\ s.file = disks.file /\ s.drive = disks.drive
        /\ s.temp[d] = disks.file[n] /\ \A e \in Drive \ {d} : s.temp[e] = disks.temp[e]
    BY <1>1, PutTemp
  <2>2. r = [s EXCEPT !.drive[d] = y]
    <3>1. r = [disks EXCEPT !.temp[d] = disks.file[n],
                            !.drive[d].real = Temp, !.drive[d].zipped = TRUE,
                            !.drive[d].enforced = n \in Packed \intersect ReadOnly]
      BY <1>4 DEF Prepare
    <3>2. disks \in DisksRec /\ disks.drive \in [Drive -> DriveRec]
      BY FieldsOf
    <3>3. [s EXCEPT !.drive[d].real = Temp, !.drive[d].zipped = TRUE,
                    !.drive[d].enforced = n \in Packed \intersect ReadOnly]
          = [s EXCEPT !.drive[d] = [s.drive[d] EXCEPT !.real = Temp, !.zipped = TRUE,
                                    !.enforced = n \in Packed \intersect ReadOnly]]
      OBVIOUS
    <3>4. r = [s EXCEPT !.drive[d].real = Temp, !.drive[d].zipped = TRUE,
                        !.drive[d].enforced = n \in Packed \intersect ReadOnly]
      BY <3>1
    <3>5. s.drive[d] = x
      BY <2>1
    <3> HIDE DEF s, r, x
    <3> QED  BY <3>3, <3>4, <3>5
  <2>3. /\ y \in DriveRec /\ y.real = Temp /\ y.zipped /\ ~y.inserted /\ y.status # "normal"
        /\ (y.config <=> x.config) /\ (y.changed <=> x.changed)
        /\ (y.enforced <=> n \in Packed \intersect ReadOnly)
    <3> DEFINE b == n \in Packed \intersect ReadOnly
               half == [x EXCEPT !.real = Temp, !.zipped = TRUE]
    <3>1. b \in BOOLEAN /\ y = [half EXCEPT !.enforced = b]
      BY <1>1 DEF DriveRec
    <3>2. /\ half \in DriveRec /\ half.real = Temp /\ half.zipped /\ ~half.inserted
          /\ half.status # "normal" /\ (half.config <=> x.config) /\ (half.changed <=> x.changed)
      BY <1>1 DEF DriveRec
    <3> HIDE DEF b, half, y, x
    <3>3. /\ y \in DriveRec /\ y.real = half.real /\ y.zipped = half.zipped
          /\ y.inserted = half.inserted /\ y.status = half.status /\ y.config = half.config
          /\ y.changed = half.changed /\ y.enforced = b
      BY <3>1, <3>2 DEF DriveRec
    <3> QED  BY <3>2, <3>3 DEF b
  <2> HIDE DEF y, r, s
  <2>4. /\ r \in DisksRec /\ r.file = s.file /\ r.temp = s.temp
        /\ r.drive[d] = y /\ \A e \in Drive \ {d} : r.drive[e] = s.drive[e]
    BY <2>1, <2>2, <2>3, PutDrive
  <2> QED  BY <1>4, <2>1, <2>3, <2>4 DEF r
<1> QED  BY <1>2, <1>3, <1>4

(* The rest of floppySetDiskImage, with drive d as floppyImagePrepare has  *)
(* left it.                                                                *)
LEMMA OpenIs ==
  ASSUME NEW disks \in DisksRec, NEW d \in Drive, NEW n \in Image, NEW fault,
         ~disks.drive[d].inserted, disks.drive[d].status # "normal"
  PROVE  LET x == disks.drive[d]
             r == Open(disks, d, n, fault)
             y == r.drive[d]
         IN  /\ r \in DisksRec /\ r.file = disks.file /\ r.temp = disks.temp
             /\ \A e \in Drive \ {d} : r.drive[e] = disks.drive[e]
             /\ y.real = x.real /\ (y.zipped <=> x.zipped)
             /\ (y.config <=> x.config) /\ (y.changed <=> x.changed)
             /\ y.inserted <=> y.status = "normal"
             /\ y.open # "no" =>
                  /\ y.name = n /\ y.real \notin Packed \union Dms /\ y.real # None
                  /\ y.real = Temp => disks.temp[d] # NoFile
             /\ y.inserted =>
                  /\ y.mfm # NoFile /\ y.open # "no"
                  /\ y.mfm = IF y.real = Temp THEN disks.temp[d] ELSE disks.file[y.real]
                  /\ WriteProtected(y) \/ y.open = "r+b"
                  /\ x.enforced => WriteProtected(y)
<1> DEFINE o == disks.drive[d]
           x == [o EXCEPT !.enforced = @ \/ (~o.zipped /\ n \in ReadOnly)]
           mode == IF WriteProtected(x) THEN "rb" ELSE "r+b"
           read == IF x.real = Temp THEN disks.temp[d]
                   ELSE IF x.real = None THEN NoFile ELSE disks.file[x.real]
           opens == /\ fault # "open" /\ read # NoFile
                    /\ mode = "r+b" => x.real \notin ReadOnly
           good  == fault # "size" /\ x.real \notin Packed \union Dms
           named == [x EXCEPT !.name = n, !.open = mode]
           known == [x EXCEPT !.name = n, !.status = "extended2", !.open = mode]
           in    == [x EXCEPT !.name = n, !.status = "normal", !.inserted = TRUE,
                              !.open = mode, !.mfm = read]
           y == IF ~opens THEN Failed(x) ELSE IF ~good THEN Failed(named)
                ELSE IF fault = "format" THEN known ELSE in
           r == Open(disks, d, n, fault)
           Rest(a) == /\ a \in DriveRec /\ a.real = o.real /\ (a.zipped <=> o.zipped)
                      /\ (a.config <=> o.config) /\ (a.changed <=> o.changed)
           Named(a) == /\ a.name = n /\ a.real \notin Packed \union Dms /\ a.real # None
                       /\ a.real = Temp => disks.temp[d] # NoFile
           Right(a) == /\ a.mfm # NoFile /\ a.open # "no"
                       /\ a.mfm = IF a.real = Temp THEN disks.temp[d] ELSE disks.file[a.real]
                       /\ WriteProtected(a) \/ a.open = "r+b"
                       /\ o.enforced => WriteProtected(a)
<1>1. r = [disks EXCEPT !.drive[d] = y]
  BY DEF Open
<1>2. o \in DriveRec
  BY FieldsOf
<1>3. Rest(x) /\ ~x.inserted /\ x.status # "normal" /\ (o.enforced => WriteProtected(x))
  BY <1>2 DEF DriveRec, WriteProtected
<1>4. read \in Contents \union {NoFile} /\ mode \in {"rb", "r+b"}
  <2>1. x.real \in Image \union {None, Temp}
    BY <1>3 DEF DriveRec
  <2> QED  BY <2>1, FieldsOf
<1>5. mode = "r+b" \/ WriteProtected(x)
  OBVIOUS
<1>6. read = IF x.real = Temp THEN disks.temp[d] ELSE IF x.real = None THEN NoFile ELSE disks.file[x.real]
  OBVIOUS
<1> HIDE DEF x, mode, read
<1>7. Rest(Failed(x)) /\ ~Failed(x).inserted /\ Failed(x).status # "normal" /\ Failed(x).open = "no"
  BY <1>3, FailedIs
<1>8. Rest(named)
  BY <1>3, <1>4 DEF DriveRec
<1>9. Rest(Failed(named)) /\ ~Failed(named).inserted /\ Failed(named).status # "normal"
      /\ Failed(named).open = "no"
  <2> HIDE DEF named
  <2> QED  BY <1>8, FailedIs
<1>10. Rest(known) /\ ~known.inserted /\ known.status # "normal" /\ known.name = n
       /\ known.real = x.real
  BY <1>3, <1>4 DEF DriveRec
<1>11. Rest(in) /\ in.inserted /\ in.status = "normal" /\ in.name = n /\ in.mfm = read
       /\ in.open = mode /\ in.real = x.real /\ (WriteProtected(x) => WriteProtected(in))
  <2> DEFINE half == [x EXCEPT !.name = n, !.status = "normal", !.inserted = TRUE]
  <2>1. Rest(half) /\ half.inserted /\ half.status = "normal" /\ half.name = n /\ half.real = x.real
        /\ (WriteProtected(x) => WriteProtected(half))
    BY <1>3 DEF DriveRec, WriteProtected
  <2>2. in = [half EXCEPT !.open = mode, !.mfm = read]
    BY <1>3 DEF DriveRec
  <2> HIDE DEF half, in
  <2> QED  BY <1>4, <2>1, <2>2 DEF DriveRec, WriteProtected
<1> HIDE DEF named, known, in
<1>14. ASSUME opens, good, NEW a, a.name = n, a.real = x.real PROVE Named(a)
  <2>1. x.real # None
    BY <1>6, <1>14 DEF None, Temp
  <2>2. x.real = Temp => disks.temp[d] # NoFile
    BY <1>6, <1>14
  <2> QED  BY <1>14, <2>1, <2>2
<1>12. opens /\ good => Right(in)
  <2>1. SUFFICES ASSUME opens /\ good PROVE Right(in)
    OBVIOUS
  <2>2. /\ in.real = x.real /\ in.mfm = read /\ read # NoFile /\ in.open = mode
        /\ WriteProtected(in) \/ mode = "r+b"
        /\ o.enforced => WriteProtected(in)
    BY <1>3, <1>5, <1>11, <2>1
  <2>3. x.real # None /\ read = IF in.real = Temp THEN disks.temp[d] ELSE disks.file[in.real]
    BY <1>6, <2>1, <2>2 DEF None, Temp
  <2> HIDE DEF opens, good
  <2>4. in.mfm # NoFile /\ in.open # "no"
    BY <1>4, <2>2
  <2>5. in.mfm = IF in.real = Temp THEN disks.temp[d] ELSE disks.file[in.real]
    BY <2>2, <2>3
  <2>6. WriteProtected(in) \/ in.open = "r+b"
    BY <2>2
  <2> QED  BY <2>2, <2>4, <2>5, <2>6
<1>13. /\ Rest(y) /\ (y.inserted <=> y.status = "normal") /\ (y.inserted => Right(y))
       /\ y.open # "no" => Named(y)
  <2> HIDE DEF Rest, Named, Right, opens, good
  <2>1. CASE ~opens
    <3>1. y = Failed(x)
      BY <2>1
    <3> HIDE DEF y
    <3> QED  BY <1>7, <3>1
  <2>2. CASE opens /\ ~good
    <3>1. y = Failed(named)
      BY <2>2
    <3> HIDE DEF y
    <3> QED  BY <1>9, <3>1
  <2>3. CASE opens /\ good /\ fault = "format"
    <3>1. y = known
      BY <2>3
    <3> HIDE DEF y
    <3> QED  BY <1>10, <1>14, <2>3, <3>1
  <2>4. CASE opens /\ good /\ fault # "format"
    <3>1. y = in
      BY <2>4
    <3> HIDE DEF y
    <3> QED  BY <1>11, <1>12, <1>14, <2>4, <3>1
  <2> QED  BY <2>1, <2>2, <2>3, <2>4
<1> HIDE DEF y, r
<1>15. /\ r \in DisksRec /\ r.file = disks.file /\ r.temp = disks.temp
       /\ r.drive[d] = y /\ \A e \in Drive \ {d} : r.drive[e] = disks.drive[e]
  BY <1>1, <1>13, PutDrive
<1> QED  BY <1>13, <1>15 DEF r
(* An image is put into drive d, which is empty: it is unpacked and opened.*)
LEMMA PutInIs ==
  ASSUME NEW disks \in DisksRec, NEW d \in Drive, NEW n \in Image, NEW fault,
         ~disks.drive[d].inserted, disks.drive[d].status # "normal"
  PROVE  LET x == disks.drive[d]
             p == Prepare(disks, d, n, fault)
             r == Open(p, d, n, fault)
             y == r.drive[d]
         IN  /\ r \in DisksRec /\ r.file = disks.file /\ r.temp = p.temp
             /\ \A e \in Drive \ {d} : r.drive[e] = disks.drive[e] /\ r.temp[e] = disks.temp[e]
             /\ (y.config <=> x.config) /\ (y.changed <=> x.changed)
             /\ y.real = p.drive[d].real /\ (y.zipped <=> p.drive[d].zipped)
             /\ y.inserted <=> y.status = "normal"
             /\ y.inserted => y.name = n /\ y.open # "no"
<1> DEFINE p == Prepare(disks, d, n, fault)
           r == Open(p, d, n, fault)
<1>1. /\ p \in DisksRec /\ p.file = disks.file
      /\ \A e \in Drive \ {d} : p.drive[e] = disks.drive[e] /\ p.temp[e] = disks.temp[e]
      /\ ~p.drive[d].inserted /\ p.drive[d].status # "normal"
      /\ (p.drive[d].config <=> disks.drive[d].config)
      /\ (p.drive[d].changed <=> disks.drive[d].changed)
  BY PrepareIs
<1> HIDE DEF p
<1>2. /\ r \in DisksRec /\ r.file = p.file /\ r.temp = p.temp
      /\ \A e \in Drive \ {d} : r.drive[e] = p.drive[e]
      /\ r.drive[d].real = p.drive[d].real /\ (r.drive[d].zipped <=> p.drive[d].zipped)
      /\ (r.drive[d].config <=> p.drive[d].config) /\ (r.drive[d].changed <=> p.drive[d].changed)
      /\ r.drive[d].inserted <=> r.drive[d].status = "normal"
      /\ r.drive[d].inserted => r.drive[d].name = n /\ r.drive[d].open # "no"
  BY <1>1, OpenIs
<1> HIDE DEF r
<1> QED  BY <1>1, <1>2 DEF p, r

(* If it is then in the drive, it is the image or what was left of another *)
(* one in a file that is used instead; in two drives it would be excused.  *)
LEMMA PutInSlot ==
  ASSUME NEW disks, NEW E, Kept(disks, E), Dms \subseteq E,
         NEW d \in Drive, NEW n \in Image, NEW fault,
         ~disks.drive[d].inserted, disks.drive[d].status # "normal",
         NEW r, r = Open(Prepare(disks, d, n, fault), d, n, fault),
         Twice(r.drive) \subseteq E,
         fault = "noTemp" /\ n \notin Plain /\ r.drive[d].inserted =>
           {n, r.drive[d].mfm.image} \subseteq E
  PROVE  Slot(r, d, E)
<1> DEFINE p == Prepare(disks, d, n, fault)
           x == disks.drive[d]
           w == p.drive[d]
           y == r.drive[d]
           m == y.mfm.image
<1>1. disks \in DisksRec /\ Slot(disks, d, E) /\ Files(disks, E)
  BY DEF Kept
<1>2. /\ p \in DisksRec /\ p.file = disks.file /\ ~w.inserted /\ w.status # "normal"
      /\ \/ n \in Plain \/ fault = "unpack"
         \/ fault = "noTemp" /\ n \notin Plain
         \/ p.temp[d] = disks.file[n] /\ w.real = Temp /\ w.zipped /\ n \notin Plain
            /\ (w.enforced <=> n \in Packed \intersect ReadOnly)
      /\ n \in Plain \/ fault = "unpack" => w.real = n /\ ~w.zipped /\ p.temp[d] = disks.temp[d]
      /\ fault = "noTemp" /\ n \notin Plain =>
           w.real = x.real /\ (w.zipped <=> x.zipped) /\ p.temp[d] = disks.temp[d]
  BY <1>1, PrepareIs
<1>3. /\ r \in DisksRec /\ r.file = disks.file /\ r.temp = p.temp
      /\ \A e \in Drive \ {d} : r.drive[e] = disks.drive[e] /\ r.temp[e] = disks.temp[e]
      /\ y.real = w.real /\ (y.zipped <=> w.zipped) /\ (y.inserted <=> y.status = "normal")
  BY <1>1, PutInIs
<1> HIDE DEF p
<1>4. /\ y.open # "no" =>
           /\ y.name = n /\ y.real \notin Packed \union Dms /\ y.real # None
           /\ y.real = Temp => p.temp[d] # NoFile
      /\ y.inserted =>
           /\ y.mfm # NoFile /\ y.open # "no"
           /\ y.mfm = IF y.real = Temp THEN p.temp[d] ELSE p.file[y.real]
           /\ WriteProtected(y) \/ y.open = "r+b"
           /\ w.enforced => WriteProtected(y)
  BY <1>2, OpenIs DEF p
<1>5. disks.file \in [Image -> Contents] /\ y.real \in Image \union {None, Temp}
      /\ disks.file[n] \in Contents /\ disks.file[n] # NoFile /\ n # None /\ n # Temp
  <2>1. r.drive[d] \in DriveRec /\ disks.file[n] \in Contents
    BY <1>1, <1>3, FieldsOf
  <2>2. disks.file[n].image # NoFile.image
    BY <2>1, Kinds DEF Contents, NoFile
  <2> QED  BY <1>1, <2>1, <2>2, FieldsOf, Kinds DEF DriveRec
<1>6. /\ y.zipped => y.real = Temp /\ r.temp[d] # NoFile
      /\ ~y.zipped /\ y.real = Temp => r.temp[d] = NoFile \/ r.temp[d].image \in E
  BY <1>1, <1>2, <1>3, <1>5 DEF Slot
<1>7. /\ y.open # "no" => /\ y.name \in Image
                          /\ y.real \in Plain \/ (y.real = Temp /\ r.temp[d] # NoFile)
      /\ y.inserted /\ y.real # Temp => m = y.real
  <2>1. y.open # "no" /\ y.real # Temp => y.real \in Plain
    BY <1>4, <1>5, Kinds
  <2>2. ASSUME y.inserted, y.real # Temp PROVE m = y.real
    <3>1. y.real \in Plain
      BY <1>4, <2>1, <2>2
    <3>2. y.mfm = disks.file[y.real] /\ disks.file[y.real].image = y.real
      BY <1>1, <1>2, <1>4, <2>2, <3>1, Kinds DEF Files
    <3> QED  BY <3>2
  <2> QED  BY <1>3, <1>4, <2>1, <2>2
<1>8. y.real = Temp /\ y.inserted => /\ y.mfm = r.temp[d] /\ y.name \in Packed \union Dms
                                     /\ n \notin Plain /\ y.name = n
  BY <1>2, <1>3, <1>4, <1>5, Kinds
<1>9. \A c \in Image : /\ disks.file[c].image = c \/ {c, disks.file[c].image} \subseteq E
                       /\ c \notin E /\ (c \in Plain \/ InDrive(disks.drive, c) = {}) =>
                            disks.file[c] = Written(c)
  BY <1>1 DEF Files
<1>10. ASSUME y.real = Temp, y.inserted PROVE n = m \/ {n, m} \subseteq E
  <2>1. y.mfm = r.temp[d] /\ n \notin Plain
    BY <1>8, <1>10
  <2>2. CASE fault = "noTemp"
    BY <1>10, <2>1, <2>2
  <2>3. CASE fault # "noTemp"
    <3>1. p.temp[d] = disks.file[n]
      BY <1>2, <1>3, <1>5, <1>10, <2>1, <2>3
    <3> QED  BY <1>3, <1>9, <2>1, <3>1
  <2> QED  BY <2>2, <2>3
<1>11. ASSUME y.inserted, m \notin E, y.zipped
       PROVE  /\ m = n /\ r.temp[d] = Written(n)
              /\ r.file[n] = Written(n)
              /\ n \in ReadOnly => WriteProtected(y)
  <2>1. m = n /\ n \in Packed
    BY <1>6, <1>8, <1>10, <1>11, Kinds
  <2>2. fault # "noTemp"
    BY <1>6, <1>8, <1>11
  <2>3. p.temp[d] = disks.file[n] /\ (w.enforced <=> n \in Packed \intersect ReadOnly)
    BY <1>2, <1>3, <1>6, <1>8, <1>11, <2>2
  <2>4. InDrive(disks.drive, n) = {}
    <3>1. SUFFICES ASSUME NEW e \in InDrive(disks.drive, n) PROVE FALSE
      OBVIOUS
    <3>2. e \in Drive /\ disks.drive[e].inserted /\ disks.drive[e].mfm.image = n
      BY DEF InDrive
    <3>3. e # d /\ r.drive[e] = disks.drive[e]
      BY <1>3, <3>2
    <3>4. Slot(disks, e, E)
      BY <3>2 DEF Kept
    <3>5. r.drive[e].zipped
      <4>1. disks.drive[e].real # Temp => n \in Plain
        BY <3>2, <3>4, Kinds DEF Slot
      <4>2. disks.drive[e].real = Temp /\ ~disks.drive[e].zipped => n \in E
        BY <3>2, <3>4, Kinds DEF Slot
      <4>3. n \notin E /\ n \notin Plain
        BY <1>11, <2>1, Kinds
      <4>4. disks.drive[e].zipped
        BY <4>1, <4>2, <4>3
      <4> QED  BY <3>3, <4>4
    <3>6. d \in InDrive(r.drive, n) /\ e \in InDrive(r.drive, n)
      BY <1>11, <2>1, <3>2, <3>3, InDriveIs
    <3>7. n \in Twice(r.drive)
      BY <1>11, <2>1, <3>3, <3>5, <3>6 DEF Twice
    <3> QED  BY <1>11, <2>1, <3>7
  <2>5. disks.file[n] = Written(n)
    BY <1>9, <1>11, <2>1, <2>4
  <2> QED  BY <1>3, <1>4, <1>11, <2>1, <2>3, <2>5
<1>12. y.inserted /\ m \notin E => (WriteProtected(y) \/ y.open = "r+b")
  BY <1>4
<1> HIDE DEF x, w
<1> QED
  <2>1. y.inserted /\ m \notin E =>
          /\ WriteProtected(y) \/ y.open = "r+b"
          /\ y.zipped => /\ r.temp[d] = Written(m)
                         /\ WriteProtected(y) => r.file[m] = Written(m)
                         /\ m \in ReadOnly => WriteProtected(y)
    BY <1>11, <1>12
  <2>2. y.inserted => y.mfm # NoFile /\ y.name \in Image /\ y.open # "no"
    BY <1>4
  <2>3. y.real = Temp /\ y.inserted => r.temp[d].image = m /\ (y.name = m \/ {y.name, m} \subseteq E)
    BY <1>8, <1>10
  <2> QED  BY <1>3, <1>6, <1>7, <1>8, <2>1, <2>2, <2>3 DEF Slot
(* floppySetDiskImage touches drive d only, and tells of a change.         *)
LEMMA SetDiskImageIs ==
  ASSUME NEW disks \in DisksRec, NEW d \in Drive, NEW n \in Image \union {None}, NEW fault,
         disks.drive[d].zipped => disks.temp[d] # NoFile
  PROVE  LET x == disks.drive[d]
             r == SetDiskImage(disks, d, n, fault)
             y == r.drive[d]
         IN  /\ r \in DisksRec
             /\ \A e \in Drive \ {d} : r.drive[e] = disks.drive[e] /\ r.temp[e] = disks.temp[e]
             /\ (y.config <=> x.config)
             /\ n = x.name => r = disks
             /\ n # x.name => y.changed
             /\ n # x.name /\ y.inserted => n \in Image /\ y.name = n
<1> DEFINE x == disks.drive[d]
           empty == Remove(disks, d, fault)
           z == empty.drive[d]
           r == SetDiskImage(disks, d, n, fault)
<1>1. /\ empty \in DisksRec
      /\ \A e \in Drive \ {d} : empty.drive[e] = disks.drive[e] /\ empty.temp[e] = disks.temp[e]
      /\ (z.config <=> x.config) /\ z.changed /\ ~z.inserted /\ z.status # "normal"
  <2>1. IsRemoved(disks, d, fault, empty)
    BY RemoveIs
  <2> HIDE DEF empty
  <2> QED  BY <2>1 DEF IsRemoved
<1>2. z \in DriveRec
  BY <1>1, FieldsOf
<1>3. CASE n = x.name
  BY <1>3 DEF SetDiskImage
<1>4. CASE n # x.name /\ n = None
  <2> DEFINE y == [z EXCEPT !.name = None]
  <2>1. r = [empty EXCEPT !.drive[d] = y]
    BY <1>4 DEF SetDiskImage
  <2>2. y \in DriveRec /\ y.config = z.config /\ y.changed = z.changed /\ y.inserted = z.inserted
    BY <1>2 DEF DriveRec
  <2> HIDE DEF y, r, empty
  <2>3. /\ r \in DisksRec /\ r.temp = empty.temp /\ r.drive[d] = y
        /\ \A e \in Drive \ {d} : r.drive[e] = empty.drive[e]
    BY <1>1, <2>1, <2>2, PutDrive
  <2> QED  BY <1>1, <1>4, <2>2, <2>3 DEF r
<1>5. CASE n # x.name /\ n # None /\ fault = "gone"
  <2> DEFINE y == Failed(z)
  <2>1. r = [empty EXCEPT !.drive[d] = y]
    BY <1>5 DEF SetDiskImage
  <2>2. y \in DriveRec /\ (y.config <=> z.config) /\ (y.changed <=> z.changed) /\ ~y.inserted
    BY <1>2, FailedIs
  <2> HIDE DEF y, r, empty
  <2>3. /\ r \in DisksRec /\ r.temp = empty.temp /\ r.drive[d] = y
        /\ \A e \in Drive \ {d} : r.drive[e] = empty.drive[e]
    BY <1>1, <2>1, <2>2, PutDrive
  <2> QED  BY <1>1, <1>5, <2>2, <2>3 DEF r
<1>6. CASE n # x.name /\ n # None /\ fault # "gone"
  <2>1. r = Open(Prepare(empty, d, n, fault), d, n, fault)
    BY <1>6 DEF SetDiskImage
  <2>2. n \in Image
    BY <1>6
  <2> HIDE DEF r, empty
  <2>3. /\ r \in DisksRec
        /\ \A e \in Drive \ {d} : r.drive[e] = empty.drive[e] /\ r.temp[e] = empty.temp[e]
        /\ (r.drive[d].config <=> z.config) /\ (r.drive[d].changed <=> z.changed)
        /\ r.drive[d].inserted => r.drive[d].name = n
    BY <1>1, <2>1, <2>2, PutInIs
  <2> QED  BY <1>1, <1>6, <2>2, <2>3 DEF r
<1> QED  BY <1>3, <1>4, <1>5, <1>6

(* A drive that is empty afterwards: nothing else has changed.             *)
LEMMA EmptyKeeps ==
  ASSUME NEW disks, NEW E, Kept(disks, E), NEW d \in Drive, ~disks.drive[d].inserted,
         NEW y \in DriveRec, y.real = disks.drive[d].real, y.zipped <=> disks.drive[d].zipped,
         ~y.inserted, y.status # "normal", y.open = "no"
  PROVE  Kept([disks EXCEPT !.drive[d] = y], E)
<1> DEFINE r == [disks EXCEPT !.drive[d] = y]
<1>1. disks \in DisksRec /\ Files(disks, E) /\ \A e \in Drive : Slot(disks, e, E)
  BY DEF Kept
<1>2. /\ r \in DisksRec /\ r.file = disks.file /\ r.temp = disks.temp /\ r.drive[d] = y
      /\ \A e \in Drive \ {d} : r.drive[e] = disks.drive[e]
  BY <1>1, PutDrive
<1> HIDE DEF r
<1>3. ASSUME NEW e \in Drive PROVE Slot(r, e, E)
  <2>1. CASE e = d
    BY <1>1, <1>2, <2>1 DEF Slot
  <2>2. CASE e # d
    BY <1>1, <1>2, <2>2 DEF Slot
  <2> QED  BY <2>1, <2>2
<1>4. \A n : InDrive(r.drive, n) = InDrive(disks.drive, n)
  BY <1>2 DEF InDrive
<1>5. Files(r, E)
  BY <1>1, <1>2, <1>4 DEF Files
<1> QED  BY <1>2, <1>3, <1>5 DEF Kept, r

(* floppySetDiskImage leaves the writes of every image in their place.     *)
LEMMA SetDiskImageKeeps ==
  ASSUME NEW disks, NEW E, Kept(disks, E), Dms \subseteq E,
         NEW d \in Drive, NEW n \in Image \union {None}, NEW fault,
         NEW r, r = SetDiskImage(disks, d, n, fault), Twice(r.drive) \subseteq E,
         fault = "noTemp" /\ n # disks.drive[d].name /\ n \in Image \ Plain /\ r.drive[d].inserted
           => {n, r.drive[d].mfm.image} \subseteq E,
         LET x == disks.drive[d]
         IN  fault \in PackFaults /\ n # x.name /\ x.inserted /\ x.zipped /\ Repacks(x) =>
               {x.name, x.mfm.image} \subseteq E
  PROVE  Kept(r, E)
<1> DEFINE x == disks.drive[d]
           empty == Remove(disks, d, fault)
           z == empty.drive[d]
<1>1. disks \in DisksRec /\ (x.zipped => disks.temp[d] # NoFile)
  BY DEF Kept, Slot
<1>2. /\ n # x.name => Kept(empty, E)
      /\ empty \in DisksRec /\ ~z.inserted /\ z.status # "normal" /\ z.open = "no"
  <2>1. n # x.name => Kept(empty, E)
    BY RemoveKeeps
  <2>2. IsRemoved(disks, d, fault, empty)
    BY <1>1, RemoveIs
  <2> HIDE DEF empty
  <2> QED  BY <2>1, <2>2 DEF IsRemoved
<1>3. z \in DriveRec
  BY <1>2, FieldsOf
<1>4. CASE n = x.name
  BY <1>4 DEF SetDiskImage
<1>5. CASE n # x.name /\ n = None
  <2> DEFINE y == [z EXCEPT !.name = None]
  <2>1. r = [empty EXCEPT !.drive[d] = y]
    BY <1>5 DEF SetDiskImage
  <2>2. /\ y \in DriveRec /\ y.real = z.real /\ (y.zipped <=> z.zipped)
        /\ ~y.inserted /\ y.status # "normal" /\ y.open = "no"
    BY <1>2, <1>3 DEF DriveRec
  <2> HIDE DEF y, empty
  <2> QED  BY <1>2, <1>5, <2>1, <2>2, EmptyKeeps
<1>6. CASE n # x.name /\ n # None /\ fault = "gone"
  <2> DEFINE y == Failed(z)
  <2>1. r = [empty EXCEPT !.drive[d] = y]
    BY <1>6 DEF SetDiskImage
  <2>2. /\ y \in DriveRec /\ y.real = z.real /\ (y.zipped <=> z.zipped)
        /\ ~y.inserted /\ y.status # "normal" /\ y.open = "no"
    BY <1>3, FailedIs
  <2> HIDE DEF y, empty
  <2> QED  BY <1>2, <1>6, <2>1, <2>2, EmptyKeeps
<1>7. CASE n # x.name /\ n # None /\ fault # "gone"
  <2>1. r = Open(Prepare(empty, d, n, fault), d, n, fault)
    BY <1>7 DEF SetDiskImage
  <2>2. n \in Image
    BY <1>7
  <2> HIDE DEF empty
  <2>3. /\ r \in DisksRec /\ r.file = empty.file
        /\ \A e \in Drive \ {d} : r.drive[e] = empty.drive[e] /\ r.temp[e] = empty.temp[e]
    BY <1>2, <2>1, <2>2, PutInIs
  <2>4. Slot(r, d, E)
    BY <1>2, <1>7, <2>1, <2>2, PutInSlot
  <2>5. ASSUME NEW e \in Drive, e # d PROVE Slot(r, e, E)
    <3>1. Slot(empty, e, E)
      BY <1>2, <1>7 DEF Kept
    <3> QED  BY <2>3, <2>5, <3>1 DEF Slot
  <2>6. \A c : InDrive(empty.drive, c) \subseteq InDrive(r.drive, c)
    BY <1>2, <2>3 DEF InDrive
  <2>7. Files(r, E)
    <3>1. Files(empty, E)
      BY <1>2, <1>7 DEF Kept
    <3>2. \A c : InDrive(r.drive, c) = {} => InDrive(empty.drive, c) = {}
      BY <2>6
    <3> QED  BY <2>3, <3>1, <3>2 DEF Files
  <2> QED  BY <2>3, <2>4, <2>5, <2>7 DEF Kept
<1> QED  BY <1>4, <1>5, <1>6, <1>7

(* floppySetReadOnlyConfig: the file of a disk that is in the drive stays  *)
(* open as it was.                                                         *)
LEMMA SetReadOnlyConfigIs ==
  ASSUME NEW disks \in DisksRec, NEW d \in Drive, NEW b \in BOOLEAN
  PROVE  LET x == disks.drive[d]
             r == SetReadOnlyConfig(disks, d, b)
             y == r.drive[d]
         IN  /\ r \in DisksRec /\ r.file = disks.file /\ r.temp = disks.temp
             /\ \A e \in Drive \ {d} : r.drive[e] = disks.drive[e]
             /\ (y.config <=> b) /\ y.inserted = x.inserted /\ y.status = x.status
             /\ y.name = x.name /\ y.real = x.real /\ y.zipped = x.zipped /\ y.open = x.open
             /\ y.mfm = x.mfm /\ y.enforced = x.enforced
             /\ (x.config <=> b) => r = disks
             /\ ~(x.config <=> b) => y.changed
<1> DEFINE x == disks.drive[d]
           r == SetReadOnlyConfig(disks, d, b)
<1>1. x \in DriveRec
  BY FieldsOf
<1>2. CASE x.config = b
  BY <1>1, <1>2 DEF SetReadOnlyConfig, DriveRec
<1>3. CASE x.config # b
  <2> DEFINE y == [x EXCEPT !.config = b, !.changed = TRUE]
  <2>1. r = [disks EXCEPT !.drive[d] = y]
    <3>1. r = [disks EXCEPT !.drive[d].config = b, !.drive[d].changed = TRUE]
      BY <1>3 DEF SetReadOnlyConfig
    <3>2. disks.drive \in [Drive -> DriveRec]
      BY FieldsOf
    <3> QED  BY <3>1, <3>2 DEF DisksRec
  <2>2. /\ y \in DriveRec /\ (y.config <=> b) /\ y.changed
        /\ y.inserted = x.inserted /\ y.status = x.status
        /\ y.name = x.name /\ y.real = x.real /\ y.zipped = x.zipped /\ y.open = x.open
        /\ y.mfm = x.mfm /\ y.enforced = x.enforced
    BY <1>1 DEF DriveRec
  <2> HIDE DEF y, r
  <2>3. /\ r \in DisksRec /\ r.file = disks.file /\ r.temp = disks.temp /\ r.drive[d] = y
        /\ \A e \in Drive \ {d} : r.drive[e] = disks.drive[e]
    BY <2>1, <2>2, PutDrive
  <2>4. ~(x.config <=> b)
    BY <1>1, <1>3 DEF DriveRec
  <2> QED  BY <1>3, <2>2, <2>3, <2>4 DEF r
<1> QED  BY <1>2, <1>3

LEMMA SetReadOnlyConfigKeeps ==
  ASSUME NEW disks, NEW E, Kept(disks, E), NEW d \in Drive, NEW b \in BOOLEAN,
         disks.drive[d].inserted /\ ~(disks.drive[d].config <=> b) => disks.drive[d].mfm.image \in E
  PROVE  /\ Kept(SetReadOnlyConfig(disks, d, b), E)
         /\ Twice(SetReadOnlyConfig(disks, d, b).drive) = Twice(disks.drive)
<1> DEFINE x == disks.drive[d]
           r == SetReadOnlyConfig(disks, d, b)
           y == r.drive[d]
<1>1. disks \in DisksRec /\ Files(disks, E) /\ \A e \in Drive : Slot(disks, e, E)
  BY DEF Kept
<1>2. /\ r \in DisksRec /\ r.file = disks.file /\ r.temp = disks.temp
      /\ \A e \in Drive \ {d} : r.drive[e] = disks.drive[e]
      /\ y.inserted = x.inserted /\ y.status = x.status
      /\ y.name = x.name /\ y.real = x.real /\ y.zipped = x.zipped
      /\ y.mfm = x.mfm /\ y.open = x.open
      /\ (x.config <=> b) => r = disks
  BY <1>1, SetReadOnlyConfigIs
<1> HIDE DEF r
<1>3. \A n : InDrive(r.drive, n) = InDrive(disks.drive, n)
  BY <1>2 DEF InDrive
<1>4. \A e \in Drive : r.drive[e].zipped = disks.drive[e].zipped
  BY <1>2
<1>5. Twice(r.drive) = Twice(disks.drive)
  <2>1. \A n : InDrive(disks.drive, n) \subseteq Drive
    BY DEF InDrive
  <2> QED  BY <1>3, <1>4, <2>1 DEF Twice
<1>6. CASE x.config <=> b
  BY <1>2, <1>5, <1>6 DEF r
<1>7. CASE ~(x.config <=> b)
  <2>1. ASSUME NEW e \in Drive PROVE Slot(r, e, E)
    <3>1. CASE e = d
      BY <1>1, <1>2, <1>7, <3>1 DEF Slot
    <3>2. CASE e # d
      BY <1>1, <1>2, <3>2 DEF Slot
    <3> QED  BY <3>1, <3>2
  <2>2. Files(r, E)
    BY <1>1, <1>2, <1>3 DEF Files
  <2> QED  BY <1>2, <1>5, <2>1, <2>2 DEF Kept, r
<1> QED  BY <1>6, <1>7
(* What is in two drives depends on what is in them only.                  *)
LEMMA TwiceFewer ==
  ASSUME NEW drives, NEW others,
         \A d \in Drive : drives[d].inserted =>
           others[d].inserted /\ others[d].mfm = drives[d].mfm /\ (drives[d].zipped => others[d].zipped)
  PROVE  Twice(drives) \subseteq Twice(others)
<1>1. \A n : InDrive(drives, n) \subseteq InDrive(others, n) /\ InDrive(drives, n) \subseteq Drive
  BY DEF InDrive
<1>2. ASSUME NEW n \in Twice(drives) PROVE n \in Twice(others)
  <2>1. PICK d, e \in InDrive(drives, n) : d # e /\ drives[d].zipped /\ drives[e].zipped
    BY DEF Twice
  <2>2. d \in Drive /\ e \in Drive /\ drives[d].inserted /\ drives[e].inserted
    BY <2>1 DEF InDrive
  <2> QED  BY <1>1, <2>1, <2>2 DEF Twice
<1> QED  BY <1>2

LEMMA MisnamedHas ==
  ASSUME NEW drives, NEW d \in Drive, NEW fault, fault = "noTemp", drives[d].inserted,
         drives[d].name # drive[d].name, drives[d].name \notin Plain
  PROVE  {drives[d].name, drives[d].mfm.image} \subseteq Misnamed(drives, fault)
<1>1. drives[d] # drive[d]
  OBVIOUS
<1> QED  BY <1>1 DEF Misnamed

LEMMA TwiceAreImages == ASSUME NEW drives PROVE Twice(drives) \subseteq Image
BY Kinds DEF Twice

LEMMA MisnamedAreImages ==
  ASSUME NEW disks, NEW E, Kept(disks, E), NEW fault
  PROVE  Misnamed(disks.drive, fault) \subseteq Image
<1>1. ASSUME NEW d \in Drive, disks.drive[d].inserted
      PROVE  disks.drive[d].name \in Image /\ disks.drive[d].mfm.image \in Image
  <2>1. Slot(disks, d, E) /\ disks.drive[d] \in DriveRec
    BY FieldsOf DEF Kept
  <2> QED  BY <1>1, <2>1 DEF Slot, DriveRec, Contents
<1> QED  BY <1>1 DEF Misnamed

LEMMA LostHas ==
  ASSUME NEW drives, NEW d \in Drive, NEW fault, fault \in PackFaults, drives[d] # drive[d],
         drive[d].inserted, drive[d].zipped, Repacks(drive[d])
  PROVE  {drive[d].name, drive[d].mfm.image} \subseteq Lost(drives, fault)
BY DEF Lost

LEMMA LostAreImages == ASSUME DiskInv, NEW drives, NEW fault PROVE Lost(drives, fault) \subseteq Image
<1>1. ASSUME NEW d \in Drive, drive[d].inserted
      PROVE  drive[d].name \in Image /\ drive[d].mfm.image \in Image
  <2>1. Slot(Disks, d, excused) /\ Disks.drive[d] \in DriveRec /\ Disks.drive[d] = drive[d]
    BY FieldsOf DEF DiskInv, Kept, Disks
  <2> QED  BY <1>1, <2>1 DEF Slot, DriveRec, Contents
<1> QED  BY <1>1 DEF Lost

LEMMA UpsetAreImages ==
  ASSUME DiskInv, NEW disks, NEW E, Kept(disks, E), NEW fault
  PROVE  Upset(disks.drive, fault) \subseteq Image
BY TwiceAreImages, MisnamedAreImages, LostAreImages DEF Upset

(* A step that puts the disks r in the place of the disks.                 *)
LEMMA BecomeKeeps ==
  ASSUME DiskInv, NEW r, NEW upset, Become(r, upset), upset \subseteq Image,
         wanted' \in [Drive -> Image \union {None}],
         Kept(r, excused'), Twice(r.drive) \subseteq excused', Told(r)
  PROVE  DiskInv'
<1>1. /\ file' = r.file /\ temp' = r.temp /\ drive' = r.drive
      /\ done' = done /\ seen' = seen /\ excused \subseteq excused' /\ excused' \subseteq Image
  BY DEF Become, DiskInv, TypeOK
<1>2. r \in DisksRec
  BY DEF Kept
<1>3. TypeOK'
  BY <1>1, <1>2 DEF DiskInv, TypeOK, DisksRec, DriveRec
<1>4. Disks' = r
  BY <1>1, <1>2 DEF Disks, DisksRec
<1>5. \A n : Written(n)' = Written(n)
  BY <1>1 DEF Written
<1>6. Kept(Disks, excused)'
  BY <1>1, <1>2, <1>4, <1>5 DEF Kept, Slot, Files, InDrive, DisksRec, DriveRec, WriteProtected
<1>7. Told(Disks)'
  BY <1>1, <1>4 DEF Told
<1>8. (Twice(drive) \subseteq excused)'
  BY <1>1 DEF Twice, InDrive
<1> QED  BY <1>1, <1>3, <1>6, <1>7, <1>8 DEF DiskInv

LEMMA BecomeExcuses ==
  ASSUME NEW r, NEW upset, Become(r, upset), DiskInv
  PROVE  /\ excused \subseteq excused' /\ upset \subseteq excused' /\ Dms \subseteq excused'
         /\ Kept(Disks, excused')
         /\ \A d \in Drive : /\ r.drive[d].inserted /\ r.drive[d].config # drive[d].config
                             /\ r.drive[d].mfm.image \in Image
                             => r.drive[d].mfm.image \in excused'
<1>1. excused \subseteq excused' /\ upset \subseteq excused'
  BY DEF Become
<1>2. Kept(Disks, excused')
  BY <1>1, MoreExcused DEF DiskInv
<1> QED  BY <1>1, <1>2 DEF Become, DiskInv, InDrive

(* The Amiga is told.                                                      *)
LEMMA TellsKeeps ==
  ASSUME NEW disks, Told(disks), NEW r,
         \A d \in Drive : r.drive[d].changed
           \/ (r.drive[d].inserted = disks.drive[d].inserted /\ r.drive[d].mfm = disks.drive[d].mfm
               /\ r.drive[d].changed = disks.drive[d].changed)
  PROVE  Told(r)
BY DEF Told

LEMMA DisksAre ==
  ASSUME DiskInv
  PROVE  /\ Disks.file = file /\ Disks.temp = temp /\ Disks.drive = drive
         /\ Disks \in DisksRec /\ Told(Disks) /\ Twice(drive) \subseteq excused
         /\ \A d \in Drive : Disks.drive[d].zipped => Disks.temp[d] # NoFile
<1>1. Disks.file = file /\ Disks.temp = temp /\ Disks.drive = drive
  BY DEF Disks
<1>2. \A d \in Drive : Slot(Disks, d, excused)
  BY DEF DiskInv, Kept
<1>3. \A d \in Drive : Disks.drive[d].zipped => Disks.temp[d] # NoFile
  BY <1>2 DEF Slot
<1> QED  BY <1>1, <1>3 DEF DiskInv, Kept

LEMMA EjectKeeps ==
  ASSUME DiskInv, NEW d \in Drive, NEW fault, Eject(d, fault)
  PROVE  DiskInv'
<1> DEFINE r == SetDiskImage(Disks, d, None, fault)
           lost == Lost(r.drive, fault)
<1>1. Become(r, lost) /\ wanted' \in [Drive -> Image \union {None}]
  BY DEF Eject, DiskInv, TypeOK
<1>2. /\ r \in DisksRec /\ \A e \in Drive \ {d} : r.drive[e] = drive[e]
      /\ None # drive[d].name => r.drive[d].changed /\ ~r.drive[d].inserted
      /\ None = drive[d].name => r = Disks
  BY DisksAre, SetDiskImageIs, Kinds
<1>3. Twice(r.drive) \subseteq Twice(drive)
  <2> HIDE DEF r
  <2>1. \A e \in Drive : r.drive[e].inserted => r.drive[e] = drive[e]
    BY <1>2, DisksAre
  <2> QED  BY <2>1, TwiceFewer
<1>4. /\ excused \subseteq excused' /\ lost \subseteq excused'
      /\ Dms \subseteq excused' /\ Kept(Disks, excused')
  <2> HIDE DEF r, lost
  <2> QED  BY <1>1, BecomeExcuses
<1>5. Twice(r.drive) \subseteq excused'
  BY <1>3, <1>4, DisksAre
<1>6. Kept(r, excused')
  <2>1. None \notin Image \ Plain
    BY Kinds
  <2>2. fault \in PackFaults /\ None # drive[d].name /\ drive[d].inserted /\ drive[d].zipped
          /\ Repacks(drive[d]) => {drive[d].name, drive[d].mfm.image} \subseteq lost
    <3> HIDE DEF r
    <3> QED  BY <1>2, LostHas
  <2>3. Disks.drive[d] = drive[d]
    BY DisksAre
  <2> HIDE DEF lost
  <2> QED  BY <1>4, <1>5, <2>1, <2>2, <2>3, SetDiskImageKeeps
<1>7. lost \subseteq Image
  BY LostAreImages
<1> HIDE DEF r, lost
<1>8. Told(r)
  BY <1>2, DisksAre, TellsKeeps
<1> QED  BY <1>1, <1>5, <1>6, <1>7, <1>8, BecomeKeeps

LEMMA HostEjectsKeeps ==
  ASSUME DiskInv, NEW d \in Drive, NEW fault, HostEjects(d, fault)
  PROVE  DiskInv'
<1> DEFINE r == Remove(Disks, d, fault)
           lost == Lost(r.drive, fault)
<1>1. Become(r, lost) /\ wanted' \in [Drive -> Image \union {None}]
  BY DEF HostEjects, DiskInv, TypeOK
<1>2. /\ r \in DisksRec /\ \A e \in Drive \ {d} : r.drive[e] = drive[e]
      /\ r.drive[d].changed /\ ~r.drive[d].inserted
  <2>1. IsRemoved(Disks, d, fault, r)
    <3>1. Disks \in DisksRec /\ (Disks.drive[d].zipped => Disks.temp[d] # NoFile)
      BY DisksAre
    <3> QED  BY <3>1, RemoveIs
  <2> HIDE DEF r
  <2> QED  BY <2>1, DisksAre DEF IsRemoved
<1>3. Twice(r.drive) \subseteq Twice(drive)
  <2> HIDE DEF r
  <2>1. \A e \in Drive : r.drive[e].inserted => r.drive[e] = drive[e]
    BY <1>2
  <2> QED  BY <2>1, TwiceFewer
<1>4. /\ excused \subseteq excused' /\ lost \subseteq excused'
      /\ Dms \subseteq excused' /\ Kept(Disks, excused')
  <2> HIDE DEF r, lost
  <2> QED  BY <1>1, BecomeExcuses
<1>5. Twice(r.drive) \subseteq excused'
  BY <1>3, <1>4, DisksAre
<1>6. Kept(r, excused')
  <2>1. fault \in PackFaults /\ drive[d].inserted /\ drive[d].zipped /\ Repacks(drive[d])
          => {drive[d].name, drive[d].mfm.image} \subseteq lost
    <3> HIDE DEF r
    <3> QED  BY <1>2, LostHas
  <2>2. Disks.drive[d] = drive[d]
    BY DisksAre
  <2> HIDE DEF lost
  <2> QED  BY <1>4, <2>1, <2>2, RemoveKeeps
<1>7. lost \subseteq Image
  BY LostAreImages
<1> HIDE DEF r, lost
<1>8. Told(r)
  BY <1>2, DisksAre, TellsKeeps
<1> QED  BY <1>1, <1>5, <1>6, <1>7, <1>8, BecomeKeeps
(* One drive of several that are set: drive d is as it was at the          *)
(* beginning, and will not be set again before the end, at which the disks *)
(* are as in final.                                                        *)
LEMMA SetOneDrive ==
  ASSUME DiskInv, NEW disks, NEW E, Kept(disks, E), Dms \subseteq E, Told(disks),
         NEW d \in Drive, NEW n \in Image \union {None}, NEW fault,
         disks.drive[d] = drive[d],
         NEW r, r = SetDiskImage(disks, d, n, fault), Twice(r.drive) \subseteq E,
         NEW final, final[d].name = r.drive[d].name, final[d].inserted = r.drive[d].inserted,
         final[d].mfm = r.drive[d].mfm, Misnamed(final, fault) \subseteq E,
         Lost(final, fault) \subseteq E
  PROVE  /\ Kept(r, E) /\ Told(r)
         /\ \A e \in Drive \ {d} : r.drive[e] = disks.drive[e]
         /\ (r.drive[d].config <=> drive[d].config)
<1>1. disks \in DisksRec /\ (disks.drive[d].zipped => disks.temp[d] # NoFile)
  BY DEF Kept, Slot
<1>2. /\ r \in DisksRec /\ \A e \in Drive \ {d} : r.drive[e] = disks.drive[e]
      /\ (r.drive[d].config <=> drive[d].config)
      /\ n = disks.drive[d].name => r = disks
      /\ n # disks.drive[d].name => r.drive[d].changed
      /\ n # disks.drive[d].name /\ r.drive[d].inserted => n \in Image /\ r.drive[d].name = n
  BY <1>1, SetDiskImageIs
<1>3. fault = "noTemp" /\ n # disks.drive[d].name /\ n \in Image \ Plain /\ r.drive[d].inserted
        => {n, r.drive[d].mfm.image} \subseteq E
  <2>1. SUFFICES ASSUME fault = "noTemp", n # drive[d].name, n \in Image \ Plain,
                        r.drive[d].inserted
                 PROVE  {n, r.drive[d].mfm.image} \subseteq E
    OBVIOUS
  <2>2. final[d].inserted /\ final[d].name = n /\ final[d].mfm = r.drive[d].mfm
    BY <1>2, <2>1
  <2>3. {final[d].name, final[d].mfm.image} \subseteq Misnamed(final, fault)
    BY <2>1, <2>2, MisnamedHas
  <2> QED  BY <2>2, <2>3
<1>6. ASSUME fault \in PackFaults, n # drive[d].name, drive[d].inserted, drive[d].zipped,
             Repacks(drive[d])
      PROVE  {drive[d].name, drive[d].mfm.image} \subseteq E
  <2>1. final[d].inserted => final[d].name # drive[d].name
    BY <1>2, <1>6
  <2>2. final[d] # drive[d]
    BY <1>6, <2>1
  <2> QED  BY <1>6, <2>2, LostHas
<1>4. Kept(r, E)
  <2>1. LET x == disks.drive[d]
        IN  fault \in PackFaults /\ n # x.name /\ x.inserted /\ x.zipped /\ Repacks(x) =>
              {x.name, x.mfm.image} \subseteq E
    BY <1>6
  <2> QED  BY <1>3, <2>1, SetDiskImageKeeps
<1>5. Told(r)
  BY <1>2, TellsKeeps
<1> QED  BY <1>2, <1>4, <1>5

LEMMA HostInsertsKeeps ==
  ASSUME DiskInv, NEW d \in Drive, NEW n \in Image, NEW fault, HostInserts(d, n, fault)
  PROVE  DiskInv'
<1> DEFINE r == SetDiskImage(Disks, d, n, fault)
           upset == Upset(r.drive, fault)
<1>1. Become(r, upset) /\ wanted' \in [Drive -> Image \union {None}]
  BY DEF HostInserts, DiskInv, TypeOK
<1>2. r = SetDiskImage(Disks, d, n, fault)
  OBVIOUS
<1> HIDE DEF r
<1>3. upset \subseteq excused' /\ Dms \subseteq excused' /\ Kept(Disks, excused')
  BY <1>1, BecomeExcuses
<1>4. Told(Disks) /\ Disks.drive[d] = drive[d]
  BY DisksAre
<1>5. Kept(r, excused') /\ Told(r)
  <2>1. /\ Twice(r.drive) \subseteq excused' /\ Misnamed(r.drive, fault) \subseteq excused'
        /\ Lost(r.drive, fault) \subseteq excused'
    BY <1>3 DEF Upset
  <2> HIDE DEF upset
  <2> QED  BY <1>2, <1>3, <1>4, <2>1, SetOneDrive
<1>6. upset \subseteq Image
  BY <1>5, UpsetAreImages
<1>7. Twice(r.drive) \subseteq excused'
  BY <1>3 DEF Upset
<1> HIDE DEF upset
<1> QED  BY <1>7, <1>1, <1>3, <1>5, <1>6, BecomeKeeps

LEMMA SwapIntoDF0Keeps ==
  ASSUME DiskInv, NEW d \in Drive, NEW fault, SwapIntoDF0(d, fault)
  PROVE  DiskInv'
<1> DEFINE first  == SetDiskImage(Disks, 0, wanted[d], fault)
           second == SetDiskImage(first, d, wanted[0], fault)
           upset  == Twice(first.drive) \union Upset(second.drive, fault)
<1>1. /\ 0 \in Drive /\ d # 0
      /\ wanted[d] \in Image \union {None} /\ wanted[0] \in Image \union {None}
      /\ wanted' \in [Drive -> Image \union {None}]
  <2>1. 0 \in Drive
    BY DrivesAssumption DEF Drive
  <2> QED  BY <2>1 DEF SwapIntoDF0, DiskInv, TypeOK
<1>2. Become(second, upset)
  BY DEF SwapIntoDF0
<1>3. first = SetDiskImage(Disks, 0, wanted[d], fault)
      /\ second = SetDiskImage(first, d, wanted[0], fault)
  OBVIOUS
<1>4. first \in DisksRec /\ \A e \in Drive \ {0} : /\ first.drive[e] = Disks.drive[e]
                                                   /\ first.temp[e] = Disks.temp[e]
  BY <1>1, DisksAre, SetDiskImageIs
<1> HIDE DEF first
<1>5. \A e \in Drive \ {d} : second.drive[e] = first.drive[e]
  <2>1. first.drive[d].zipped => first.temp[d] # NoFile
    BY <1>1, <1>4, DisksAre
  <2>2. first \in DisksRec /\ wanted[0] \in Image \union {None}
    BY <1>1, <1>4
  <2> QED  BY <2>1, <2>2, SetDiskImageIs
<1> HIDE DEF second
<1>6. upset \subseteq excused' /\ Dms \subseteq excused' /\ Kept(Disks, excused')
  BY <1>2, BecomeExcuses
<1>11. /\ Twice(first.drive) \subseteq excused' /\ Twice(second.drive) \subseteq excused'
       /\ Misnamed(second.drive, fault) \subseteq excused'
       /\ Lost(second.drive, fault) \subseteq excused'
  BY <1>6 DEF Upset
<1>10. ASSUME Kept(second, excused') PROVE upset \subseteq Image
  BY <1>10, TwiceAreImages, UpsetAreImages
<1> HIDE DEF upset
<1>7. Told(Disks) /\ Disks.drive[0] = drive[0] /\ first.drive[d] = drive[d]
      /\ second.drive[0] = first.drive[0]
  BY <1>1, <1>4, <1>5, DisksAre
<1>8. Kept(first, excused') /\ Told(first)
  <2> DEFINE final == second.drive
  <2>1. /\ 0 \in Drive /\ wanted[d] \in Image \union {None}
        /\ first = SetDiskImage(Disks, 0, wanted[d], fault)
        /\ Twice(first.drive) \subseteq excused' /\ Misnamed(final, fault) \subseteq excused'
        /\ final[0].name = first.drive[0].name /\ final[0].inserted = first.drive[0].inserted
        /\ final[0].mfm = first.drive[0].mfm /\ Lost(final, fault) \subseteq excused'
    BY <1>1, <1>3, <1>7, <1>11
  <2> HIDE DEF final
  <2> QED  BY <1>6, <1>7, <2>1, SetOneDrive
<1>9. Kept(second, excused') /\ Told(second)
  BY <1>1, <1>3, <1>6, <1>7, <1>8, <1>11, SetOneDrive
<1> QED  BY <1>1, <1>2, <1>9, <1>10, <1>11, BecomeKeeps

LEMMA HostProtectsKeeps ==
  ASSUME DiskInv, NEW d \in Drive, NEW b \in BOOLEAN, HostProtects(d, b)
  PROVE  DiskInv'
<1> DEFINE r == SetReadOnlyConfig(Disks, d, b)
<1>1. Become(r, {}) /\ wanted' \in [Drive -> Image \union {None}]
  BY DEF HostProtects, DiskInv, TypeOK
<1>2. /\ r \in DisksRec /\ \A e \in Drive \ {d} : r.drive[e] = Disks.drive[e]
      /\ (r.drive[d].config <=> b) /\ r.drive[d].inserted = Disks.drive[d].inserted
      /\ r.drive[d].mfm = Disks.drive[d].mfm
      /\ (Disks.drive[d].config <=> b) => r = Disks
      /\ ~(Disks.drive[d].config <=> b) => r.drive[d].changed
  BY DisksAre, SetReadOnlyConfigIs
<1>3. r = SetReadOnlyConfig(Disks, d, b)
  OBVIOUS
<1> HIDE DEF r
<1>4. Kept(Disks, excused')
      /\ \A e \in Drive : /\ r.drive[e].inserted /\ r.drive[e].config # drive[e].config
                          /\ r.drive[e].mfm.image \in Image
                          => r.drive[e].mfm.image \in excused'
  BY <1>1, BecomeExcuses
<1>5. drive[d].inserted /\ ~(drive[d].config <=> b) => drive[d].mfm.image \in excused'
  <2>1. drive[d].inserted => drive[d].mfm.image \in Image
    <3>1. Slot(Disks, d, excused) /\ drive[d] \in DriveRec
      BY DisksAre, FieldsOf DEF DiskInv, Kept
    <3> QED  BY <3>1, DisksAre DEF Slot, DriveRec, Contents
  <2>2. ~(drive[d].config <=> b) => r.drive[d].config # drive[d].config
    BY <1>2
  <2> QED  BY <1>2, <1>4, <2>1, <2>2, DisksAre
<1>6. Kept(r, excused') /\ Twice(r.drive) = Twice(drive)
  BY <1>3, <1>4, <1>5, DisksAre, SetReadOnlyConfigKeeps
<1>7. Told(r)
  BY <1>2, DisksAre, TellsKeeps
<1>8. excused \subseteq excused'
  BY <1>1 DEF Become
<1>9. Twice(r.drive) \subseteq excused'
  BY <1>6, <1>8, DisksAre
<1> QED  BY <1>1, <1>6, <1>7, <1>9, BecomeKeeps
(* Contents with one more write.                                           *)
With(c, w) == [c EXCEPT !.writes = @ \union {w}]

LEMMA WithIs ==
  ASSUME NEW c \in Contents \union {NoFile}, NEW w
  PROVE  /\ With(c, w).image = c.image
         /\ c # NoFile /\ w \in 1 .. MaxWrites => With(c, w) \in Contents /\ With(c, w) # NoFile
<1>1. With(c, w).image = c.image
  BY DEF With, Contents, NoFile
<1>2. c # NoFile /\ w \in 1 .. MaxWrites => With(c, w) \in Contents
  BY DEF With, Contents
<1>3. c \in Contents => c.image # None
  BY Kinds DEF Contents
<1>4. c # NoFile => With(c, w) # NoFile
  BY <1>1, <1>3 DEF NoFile
<1> QED  BY <1>1, <1>2, <1>4

LEMMA WrittenIs ==
  ASSUME NEW n, done \in Seq(Image), NEW m, n \in Image, done' = Append(done, n)
  PROVE  Written(m)' = IF m = n THEN With(Written(m), Len(done) + 1) ELSE Written(m)
<1>1. /\ DOMAIN done' = DOMAIN done \union {Len(done) + 1}
      /\ \A i \in DOMAIN done : done'[i] = done[i]
      /\ done'[Len(done) + 1] = n
      /\ Len(done) + 1 \notin DOMAIN done
  OBVIOUS
<1>2. CASE m = n
  <2>1. {i \in DOMAIN done' : done'[i] = m} = {i \in DOMAIN done : done[i] = m} \union {Len(done) + 1}
    BY <1>1, <1>2
  <2> QED  BY <1>2, <2>1 DEF Written, AsWritten, With
<1>3. CASE m # n
  <2>1. {i \in DOMAIN done' : done'[i] = m} = {i \in DOMAIN done : done[i] = m}
    BY <1>1, <1>3
  <2> QED  BY <1>3, <2>1 DEF Written, AsWritten
<1> QED  BY <1>2, <1>3

(* A write of the Amiga goes to the file or the temporary file, or the     *)
(* image is excused, as it is when the file is open and is no disk.        *)
LEMMA SectorSaveKeeps == ASSUME DiskInv, NEW d \in Drive, SectorSave(d) PROVE DiskInv'
<1> DEFINE x == drive[d]
           into == IF x.inserted THEN x.mfm ELSE IF x.real = Temp THEN temp[d] ELSE file[x.real]
           n == into.image
           w == Len(done) + 1
           toFile == x.open = "r+b" /\ x.real # Temp
           toTemp == x.open = "r+b" /\ x.real = Temp
           y == IF x.inserted THEN [x EXCEPT !.mfm = With(x.mfm, w)] ELSE x
           Now(m) == IF m = n THEN With(Written(m), w) ELSE Written(m)
<1>1. /\ x.open # "no" /\ ~WriteProtected(x) /\ w <= MaxWrites
      /\ file' = IF toFile THEN [file EXCEPT ![x.real] = With(file[x.real], w)] ELSE file
      /\ temp' = IF toTemp THEN [temp EXCEPT ![d] = With(temp[d], w)] ELSE temp
      /\ drive' = IF x.inserted THEN [drive EXCEPT ![d] = [drive[d] EXCEPT !.mfm = With(drive[d].mfm, w)]]
                  ELSE drive
      /\ done' = Append(done, n)
      /\ excused' = excused \union (IF x.inserted THEN {} ELSE {x.name, n})
      /\ wanted' = wanted /\ seen' = seen
  BY DEF SectorSave, With
<1>2. /\ file \in [Image -> Contents] /\ temp \in [Drive -> Contents \union {NoFile}]
      /\ drive \in [Drive -> DriveRec] /\ done \in Seq(Image) /\ Len(done) <= MaxWrites
  BY DEF DiskInv, TypeOK, DriveRec
<1> HIDE DEF into
<1> DEFINE E == excused'
<1>3. /\ \A e \in Drive : Slot(Disks, e, E)
      /\ Files(Disks, E) /\ Twice(drive) \subseteq E /\ Dms \subseteq E
      /\ Disks.file = file /\ Disks.temp = temp /\ Disks.drive = drive
  <2>1. excused \subseteq E
    BY <1>1
  <2>2. Kept(Disks, E)
    BY <2>1, MoreExcused DEF DiskInv
  <2> QED  BY <2>1, <2>2, DisksAre DEF DiskInv, Kept
<1>4. /\ x \in DriveRec /\ n \in Image /\ x.name \in Image
      /\ x.inserted => x.mfm # NoFile /\ x.mfm \in Contents /\ x.mfm.image = n
      /\ x.real # Temp => x.real \in Plain /\ n = x.real
      /\ x.real = Temp => temp[d] # NoFile /\ temp[d] \in Contents /\ temp[d].image = n
      /\ x.zipped => x.real = Temp
      /\ ~x.zipped /\ x.real = Temp => n \in E
      /\ n \notin E => /\ x.inserted /\ x.open = "r+b"
                       /\ x.zipped => temp[d] = Written(n)
  <2>1. x \in DriveRec /\ x.mfm \in Contents \union {NoFile}
    BY <1>2 DEF DriveRec
  <2>2. Slot(Disks, d, E)
    BY <1>3
  <2>3. /\ x.name \in Image
        /\ x.real # Temp => x.real \in Plain
        /\ x.real = Temp => temp[d] # NoFile /\ temp[d] \in Contents
        /\ x.zipped => x.real = Temp
    <3>1. /\ x.name \in Image /\ (x.real \in Plain \/ (x.real = Temp /\ temp[d] # NoFile))
          /\ x.zipped => x.real = Temp
      BY <1>1, <1>3, <2>2 DEF Slot
    <3> QED  BY <1>2, <3>1, Kinds
  <2>4. x.inserted => /\ x.mfm # NoFile /\ x.mfm \in Contents /\ x.mfm.image = n
                      /\ x.real # Temp => n = x.real
                      /\ x.real = Temp => temp[d].image = n
    BY <1>3, <2>1, <2>2 DEF Slot, into
  <2>5. ~x.inserted => /\ x.real # Temp => n = x.real
                       /\ x.real = Temp => temp[d].image = n
    <3>1. ASSUME ~x.inserted, x.real # Temp PROVE n = x.real
      <4>1. file[x.real].image = x.real
        BY <1>3, <2>3, <3>1, Kinds DEF Files
      <4> QED  BY <3>1, <4>1 DEF into
    <3> QED  BY <3>1 DEF into
  <2>6. n \in Image
    <3>1. x.real # Temp => n \in Image
      BY <2>3, <2>4, <2>5, Kinds
    <3>2. x.real = Temp => n \in Image
      BY <2>3, <2>4, <2>5 DEF Contents
    <3> QED  BY <3>1, <3>2
  <2>7. ~x.zipped /\ x.real = Temp => n \in E
    <3>1. ~x.zipped /\ x.real = Temp => temp[d] = NoFile \/ temp[d].image \in E
      BY <1>3, <2>2 DEF Slot
    <3> QED  BY <2>3, <2>4, <2>5, <3>1
  <2>8. n \notin E => /\ x.inserted /\ x.open = "r+b"
                      /\ x.zipped => temp[d] = Written(n)
    <3>1. n \notin E => x.inserted
      BY <1>1
    <3>2. x.inserted /\ x.mfm.image \notin E =>
            x.open = "r+b" /\ (x.zipped => temp[d] = Written(x.mfm.image))
      BY <1>1, <1>3, <2>2 DEF Slot
    <3> QED  BY <2>4, <3>1, <3>2
  <2> QED  BY <2>1, <2>3, <2>4, <2>5, <2>6, <2>7, <2>8
<1>5. toFile => x.real \in Plain /\ x.real = n /\ n \in Plain
  BY <1>4
<1>6. w \in 1 .. MaxWrites /\ Len(done) \in Nat
  BY <1>1, <1>2, DrivesAssumption
<1>8. \A m : /\ AsWritten(done', m) = Now(m)
             /\ Now(m) = IF m = n THEN With(Written(m), w) ELSE Written(m)
  <2>1. ASSUME NEW m PROVE Written(m)' = Now(m)
    BY <1>1, <1>2, <1>4, WrittenIs
  <2> QED  BY <2>1 DEF Written
<1>9. x.inserted => With(x.mfm, w) \in Contents /\ With(x.mfm, w) # NoFile /\ With(x.mfm, w).image = n
  BY <1>4, <1>6, WithIs
<1>10. /\ y \in DriveRec /\ y.mfm.image = x.mfm.image /\ (x.mfm # NoFile => y.mfm # NoFile)
       /\ y.name = x.name /\ y.real = x.real
       /\ y.zipped = x.zipped /\ y.inserted = x.inserted /\ y.changed = x.changed
       /\ y.status = x.status /\ y.open = x.open /\ y.config = x.config /\ y.enforced = x.enforced
  <2>1. CASE x.inserted
    <3>1. y = [x EXCEPT !.mfm = With(x.mfm, w)]
      BY <2>1
    <3> HIDE DEF y
    <3> QED  BY <1>4, <1>9, <2>1, <3>1 DEF DriveRec
  <2>2. CASE ~x.inserted
    BY <1>4, <2>2
  <2> QED  BY <2>1, <2>2
<1>11. /\ drive' \in [Drive -> DriveRec] /\ drive'[d] = y
       /\ \A e \in Drive \ {d} : drive'[e] = drive[e]
  <2>1. drive' = [drive EXCEPT ![d] = y]
    BY <1>1, <1>2
  <2> HIDE DEF y
  <2> QED  BY <1>2, <1>10, <2>1
<1>12. /\ file' \in [Image -> Contents] /\ (toFile => n \in Image /\ file'[n] = With(file[n], w))
       /\ \A m \in Image : m # n => file'[m] = file[m]
       /\ ~toFile => file' = file
       /\ \A m \in Image : file'[m].image = file[m].image
  <2>1. CASE ~toFile
    BY <1>1, <1>2, <2>1
  <2>2. CASE toFile
    <3>1. x.real = n /\ n \in Image
      BY <1>4, <1>5, <1>6, <2>2
    <3>2. file' = [file EXCEPT ![n] = With(file[n], w)]
      BY <1>1, <2>2, <3>1
    <3>3. file[n] \in Contents /\ file[n] # NoFile
      BY <1>2, <3>1, Kinds DEF Contents, NoFile
    <3>4. With(file[n], w) \in Contents /\ With(file[n], w).image = file[n].image
      BY <1>6, <3>3, WithIs
    <3> QED  BY <1>2, <2>2, <3>1, <3>2, <3>4
  <2> QED  BY <2>1, <2>2
<1>13. /\ temp' \in [Drive -> Contents \union {NoFile}]
       /\ \A e \in Drive \ {d} : temp'[e] = temp[e]
       /\ ~toTemp => temp' = temp
       /\ toTemp => temp'[d] = With(temp[d], w) /\ temp'[d] # NoFile /\ temp'[d].image = n
  <2>1. CASE ~toTemp
    BY <1>1, <1>2, <2>1
  <2>2. CASE toTemp
    <3>1. temp[d] \in Contents /\ temp[d] # NoFile /\ temp[d].image = n
      BY <1>4, <2>2
    <3>2. /\ With(temp[d], w) \in Contents /\ With(temp[d], w).image = n
          /\ With(temp[d], w) # NoFile
      BY <1>6, <3>1, WithIs
    <3>3. temp' = [temp EXCEPT ![d] = With(temp[d], w)]
      BY <1>1, <2>2
    <3> QED  BY <1>2, <2>2, <3>2, <3>3
  <2> QED  BY <2>1, <2>2
<1>14. done' \in Seq(Image) /\ Len(done') <= MaxWrites
  BY <1>1, <1>2, <1>4
<1>7. excused' \subseteq Image
  BY <1>1, <1>4 DEF DiskInv, TypeOK
<1>15. TypeOK'
  BY <1>1, <1>7, <1>11, <1>12, <1>13, <1>14 DEF DiskInv, TypeOK, DriveRec
<1>16. Disks'.file = file' /\ Disks'.temp = temp' /\ Disks'.drive = drive' /\ Disks' \in DisksRec
  BY <1>11, <1>12, <1>13 DEF Disks, DisksRec
<1> HIDE DEF y, n, toFile, toTemp, w, Now, E
<1>17. \A e \in Drive : /\ drive'[e].mfm.image = drive[e].mfm.image
                        /\ drive'[e].zipped = drive[e].zipped
                        /\ drive'[e].inserted = drive[e].inserted
                        /\ drive'[e].changed = drive[e].changed
                        /\ drive'[e].name = drive[e].name /\ drive'[e].real = drive[e].real
                        /\ drive'[e].status = drive[e].status /\ drive'[e].open = drive[e].open
                        /\ WriteProtected(drive'[e]) <=> WriteProtected(drive[e])
                        /\ drive[e].mfm # NoFile => drive'[e].mfm # NoFile
  BY <1>10, <1>11 DEF WriteProtected
<1>18. \A m : InDrive(drive', m) = InDrive(drive, m)
  BY <1>17 DEF InDrive
<1>19. Twice(drive') = Twice(drive)
  <2>1. \A m : InDrive(drive, m) \subseteq Drive
    BY DEF InDrive
  <2> QED  BY <1>17, <1>18, <2>1 DEF Twice
<1>20. ASSUME NEW e \in Drive, n \notin E, drive[e].inserted, drive[e].mfm.image = n,
              drive[e].zipped
       PROVE  n \notin Plain /\ n \in Packed
  <2>1. drive[e].name = n /\ drive[e].name \in Packed \union Dms
    BY <1>3, <1>20 DEF Slot
  <2> QED  BY <1>3, <1>20, <2>1, Kinds
<1>21. ASSUME NEW e \in Drive, e # d, n \notin E, drive[e].inserted, drive[e].zipped,
              drive[e].mfm.image = n
       PROVE  FALSE
  <2>1. n \notin Plain /\ n \in Packed
    BY <1>20, <1>21
  <2>2. x.zipped /\ x.inserted /\ x.mfm.image = n
    BY <1>4, <1>21, <2>1
  <2>3. e \in InDrive(drive, n) /\ d \in InDrive(drive, n)
    BY <1>21, <2>2, InDriveIs
  <2>4. n \in Twice(drive)
    BY <1>21, <2>1, <2>2, <2>3 DEF Twice
  <2> QED  BY <1>3, <1>21, <2>4
<1>22. ASSUME NEW e \in Drive PROVE Slot(Disks, e, excused)'
  <2> DEFINE m == drive[e].mfm.image
  <2>1. /\ drive[e].inserted <=> drive[e].status = "normal"
        /\ drive[e].zipped => drive[e].real = Temp /\ temp[e] # NoFile
        /\ ~drive[e].zipped /\ drive[e].real = Temp => temp[e] = NoFile \/ temp[e].image \in E
        /\ drive[e].open # "no" => /\ drive[e].name \in Image
                                   /\ drive[e].real \in Plain \/ (drive[e].real = Temp /\ temp[e] # NoFile)
        /\ drive[e].inserted =>
             /\ drive[e].mfm # NoFile /\ drive[e].name \in Image /\ drive[e].open # "no"
             /\ drive[e].real # Temp => m = drive[e].real
             /\ drive[e].real = Temp => /\ temp[e].image = m /\ drive[e].name \in Packed \union Dms
                                        /\ drive[e].name = m \/ {drive[e].name, m} \subseteq E
             /\ m \notin E =>
                  /\ WriteProtected(drive[e]) \/ drive[e].open = "r+b"
                  /\ drive[e].zipped => /\ temp[e] = Written(m)
                                        /\ WriteProtected(drive[e]) => file[m] = Written(m)
                                        /\ m \in ReadOnly => WriteProtected(drive[e])
    BY <1>3 DEF Slot
  <2>2. /\ temp[e] # NoFile => temp'[e] # NoFile
        /\ temp'[e].image = temp[e].image
        /\ temp[e] = NoFile => temp'[e] = NoFile
    <3>1. CASE toTemp /\ e = d
      <4>1. temp[d] # NoFile /\ temp[d].image = n
        BY <1>4, <3>1 DEF toTemp
      <4> QED  BY <1>13, <3>1, <4>1
    <3>2. CASE ~(toTemp /\ e = d)
      <4>1. temp'[e] = temp[e]
        BY <1>13, <3>2
      <4> QED  BY <4>1
    <3> QED  BY <3>1, <3>2
  <2>5. m \notin E /\ drive[e].inserted /\ drive[e].zipped => temp'[e] = Now(m)
    <3>1. SUFFICES ASSUME m \notin E, drive[e].inserted, drive[e].zipped
                   PROVE  temp'[e] = Now(m)
      OBVIOUS
    <3>2. CASE e = d
      <4>1. m = n
        BY <1>4, <3>1, <3>2
      <4>2. toTemp /\ temp[d] = Written(n)
        BY <1>4, <3>1, <3>2, <4>1 DEF toTemp
      <4>3. temp'[d] = With(Written(n), w)
        BY <1>13, <4>2
      <4> QED  BY <1>8, <3>2, <4>1, <4>3
    <3>3. CASE e # d
      <4>1. m # n
        BY <1>21, <3>1, <3>3
      <4> QED  BY <1>8, <1>13, <2>1, <3>1, <3>3, <4>1
    <3> QED  BY <3>2, <3>3
  <2>6. m \notin E /\ drive[e].inserted /\ drive[e].zipped /\ WriteProtected(drive[e])
          => file'[m] = Now(m)
    <3>1. SUFFICES ASSUME m \notin E, drive[e].inserted, drive[e].zipped,
                          WriteProtected(drive[e])
                   PROVE  file'[m] = Now(m)
      OBVIOUS
    <3>2. e # d
      BY <1>1, <3>1
    <3>3. m # n
      BY <1>21, <3>1, <3>2
    <3>4. m \in Image
      BY <2>1, <3>1, Kinds
    <3> QED  BY <1>8, <1>12, <2>1, <3>1, <3>3, <3>4
  <2> HIDE DEF m
  <2>7. /\ drive'[e].inserted <=> drive'[e].status = "normal"
        /\ drive'[e].zipped => drive'[e].real = Temp /\ temp'[e] # NoFile
        /\ ~drive'[e].zipped /\ drive'[e].real = Temp => temp'[e] = NoFile \/ temp'[e].image \in E
        /\ drive'[e].open # "no" =>
             /\ drive'[e].name \in Image
             /\ drive'[e].real \in Plain \/ (drive'[e].real = Temp /\ temp'[e] # NoFile)
    BY <1>17, <2>1, <2>2
  <2>8. drive'[e].inserted =>
             /\ drive'[e].mfm # NoFile /\ drive'[e].name \in Image /\ drive'[e].open # "no"
             /\ drive'[e].real # Temp => m = drive'[e].real
             /\ drive'[e].real = Temp => /\ temp'[e].image = m
                                         /\ drive'[e].name \in Packed \union Dms
                                         /\ drive'[e].name = m \/ {drive'[e].name, m} \subseteq E
             /\ m \notin E =>
                  /\ WriteProtected(drive'[e]) \/ drive'[e].open = "r+b"
                  /\ drive'[e].zipped => /\ temp'[e] = Now(m)
                                         /\ WriteProtected(drive'[e]) => file'[m] = Now(m)
                                         /\ m \in ReadOnly => WriteProtected(drive'[e])
    BY <1>17, <2>1, <2>2, <2>5, <2>6
  <2>9. drive'[e].mfm.image = m
    BY <1>17 DEF m
  <2> QED  BY <1>8, <1>16, <2>7, <2>8, <2>9 DEF Slot, Written, WriteProtected, E
<1>23. Files(Disks, excused)'
  <2>1. ASSUME NEW m \in Image
        PROVE  /\ file'[m].image = m \/ (m \notin Plain /\ {m, file'[m].image} \subseteq E)
               /\ m \notin E /\ (m \in Plain \/ InDrive(drive', m) = {}) => file'[m] = Now(m)
    <3>1. /\ file[m].image = m \/ (m \notin Plain /\ {m, file[m].image} \subseteq E)
          /\ m \notin E /\ (m \in Plain \/ InDrive(drive, m) = {}) => file[m] = Written(m)
      BY <1>3 DEF Files
    <3>2. CASE m # n
      BY <1>8, <1>12, <1>18, <3>1, <3>2
    <3>3. CASE m = n
      <4>1. n \notin E => d \in InDrive(drive, n)
        BY <1>4, InDriveIs
      <4>2. n \in Plain /\ n \notin E => toFile
        <5>1. SUFFICES ASSUME n \in Plain, n \notin E PROVE toFile
          OBVIOUS
        <5>2. x.inserted /\ x.open = "r+b" /\ x.mfm.image = n /\ ~x.zipped
          BY <1>4, <1>20, <5>1
        <5> QED  BY <1>4, <5>1, <5>2 DEF toFile
      <4> QED  BY <1>8, <1>12, <1>18, <3>1, <3>3, <4>1, <4>2
    <3> QED  BY <3>2, <3>3
  <2> QED  BY <1>8, <1>16, <2>1 DEF Files, Written, InDrive, E
<1>24. Told(Disks)'
  <2>1. \A e \in Drive : drive[e].changed \/ (drive[e].inserted /\ drive[e].mfm.image = seen[e])
    BY DisksAre DEF Told
  <2> QED  BY <1>1, <1>16, <1>17, <2>1 DEF Told
<1>25. Kept(Disks, excused)'
  BY <1>16, <1>22, <1>23 DEF Kept
<1> QED  BY <1>3, <1>15, <1>19, <1>24, <1>25 DEF DiskInv, Twice, InDrive, E
LEMMA StepClearsChangedKeeps ==
  ASSUME DiskInv, NEW d \in Drive, StepClearsChanged(d)
  PROVE  DiskInv'
<1> DEFINE x == drive[d]
           y == [x EXCEPT !.changed = FALSE]
<1>1. /\ x.inserted /\ drive' = [drive EXCEPT ![d] = [drive[d] EXCEPT !.changed = FALSE]]
      /\ seen' = [seen EXCEPT ![d] = x.mfm.image]
      /\ file' = file /\ temp' = temp /\ wanted' = wanted /\ done' = done /\ excused' = excused
  BY DEF StepClearsChanged
<1>2. /\ file \in [Image -> Contents] /\ temp \in [Drive -> Contents \union {NoFile}]
      /\ drive \in [Drive -> DriveRec] /\ seen \in [Drive -> Image \union {None}]
  BY DEF DiskInv, TypeOK, DriveRec
<1>3. /\ \A e \in Drive : Slot(Disks, e, excused)
      /\ Files(Disks, excused) /\ Twice(drive) \subseteq excused /\ Told(Disks)
      /\ Disks.file = file /\ Disks.temp = temp /\ Disks.drive = drive
  BY DisksAre DEF DiskInv, Kept
<1>4. x \in DriveRec /\ x.mfm.image \in Image
  <2>1. Slot(Disks, d, excused) /\ x \in DriveRec
    BY <1>2, <1>3
  <2> QED  BY <1>1, <1>3, <2>1 DEF Slot, DriveRec, Contents
<1>5. /\ y \in DriveRec /\ y.mfm = x.mfm /\ y.name = x.name /\ y.real = x.real
      /\ y.zipped = x.zipped /\ y.inserted = x.inserted
      /\ y.status = x.status /\ y.open = x.open /\ y.config = x.config /\ y.enforced = x.enforced
  BY <1>4 DEF DriveRec
<1>6. /\ drive' \in [Drive -> DriveRec] /\ drive'[d] = y
      /\ \A e \in Drive \ {d} : drive'[e] = drive[e]
  BY <1>1, <1>2, <1>5
<1>7. /\ seen' \in [Drive -> Image \union {None}] /\ seen'[d] = x.mfm.image
      /\ \A e \in Drive \ {d} : seen'[e] = seen[e]
  BY <1>1, <1>2, <1>4
<1>8. Disks'.file = file /\ Disks'.temp = temp /\ Disks'.drive = drive' /\ Disks' \in DisksRec
  BY <1>1, <1>2, <1>6 DEF Disks, DisksRec
<1> HIDE DEF y
<1>9. TypeOK'
  BY <1>1, <1>6, <1>7 DEF DiskInv, TypeOK, DriveRec
<1>10. \A e \in Drive : /\ drive'[e].mfm = drive[e].mfm /\ drive'[e].zipped = drive[e].zipped
                        /\ drive'[e].inserted = drive[e].inserted
                        /\ drive'[e].name = drive[e].name /\ drive'[e].real = drive[e].real
                        /\ drive'[e].status = drive[e].status /\ drive'[e].open = drive[e].open
                        /\ WriteProtected(drive'[e]) <=> WriteProtected(drive[e])
  BY <1>5, <1>6 DEF WriteProtected
<1>11. \A m : InDrive(drive', m) = InDrive(drive, m)
  BY <1>10 DEF InDrive
<1>12. Twice(drive') = Twice(drive)
  <2>1. \A m : InDrive(drive, m) \subseteq Drive
    BY DEF InDrive
  <2> QED  BY <1>10, <1>11, <2>1 DEF Twice
<1>13. ASSUME NEW e \in Drive PROVE Slot(Disks, e, excused)'
  BY <1>1, <1>3, <1>8, <1>10 DEF Slot, Written, WriteProtected
<1>14. Files(Disks, excused)'
  BY <1>1, <1>3, <1>8, <1>11 DEF Files, Written, InDrive
<1>15. Told(Disks)'
  BY <1>1, <1>3, <1>5, <1>6, <1>7, <1>8 DEF Told
<1>16. Kept(Disks, excused)'
  BY <1>8, <1>13, <1>14 DEF Kept
<1> QED  BY <1>1, <1>3, <1>9, <1>12, <1>15, <1>16 DEF DiskInv, Twice, InDrive
-----------------------------------------------------------------------------
(* A set of numbers that has zero and with each number the next one.       *)
LEMMA Induction ==
  ASSUME NEW S \in SUBSET Nat, 0 \in S, \A i \in Nat : i \in S => i + 1 \in S
  PROVE  \A i \in Nat : i \in S
<1> DEFINE T == Nat \ S
<1>1. SUFFICES ASSUME T # {} PROVE FALSE
  OBVIOUS
<1>2. \E x \in T : \A y \in T : ~(<<y, x>> \in OpToRel(<, Nat))
  <2>1. T \in SUBSET Nat
    OBVIOUS
  <2> HIDE DEF T
  <2> QED  BY <1>1, <2>1, NatLessThanWellFounded, WFMin
<1>3. \A x, y \in Nat : y < x => <<y, x>> \in OpToRel(<, Nat)
  BY DEF OpToRel
<1>4. PICK x \in T : \A y \in T : ~(y < x)
  BY <1>2, <1>3
<1>5. x # 0 /\ x - 1 \in Nat /\ x - 1 \in S
  BY <1>4
<1> QED  BY <1>4, <1>5

(* The settings of drive d - 1 are taken over.                             *)
Stage(disks, names, protect, fault, d) ==
  SetReadOnlyConfig(SetDiskImage(disks, d - 1, names[d - 1], fault), d - 1, protect[d - 1])

AreStages(f, names, protect, fault) ==
  f = [d \in 0 .. Drives |-> IF d = 0 THEN Disks ELSE Stage(f[d - 1], names, protect, fault, d)]

(* There are stages for any number of drives.                              *)
LEMMA StagesExist ==
  ASSUME NEW names, NEW protect, NEW fault
  PROVE  \E f : AreStages(f, names, protect, fault)
<1> DEFINE Step(disks, d) == Stage(disks, names, protect, fault, d)
           Has(k) == \E f : f = [d \in 0 .. k |-> IF d = 0 THEN Disks ELSE Step(f[d - 1], d)]
           S == {k \in Nat : Has(k)}
<1> HIDE DEF Step
<1>1. Has(0)
  <2> DEFINE f == [d \in 0 .. 0 |-> Disks]
  <2>1. f = [d \in 0 .. 0 |-> IF d = 0 THEN Disks ELSE Step(f[d - 1], d)]
    <3>1. \A d \in 0 .. 0 : d = 0
      OBVIOUS
    <3> QED  BY <3>1
  <2> QED  BY <2>1
<1>2. ASSUME NEW k \in Nat, Has(k) PROVE Has(k + 1)
  <2>1. PICK f : f = [d \in 0 .. k |-> IF d = 0 THEN Disks ELSE Step(f[d - 1], d)]
    BY <1>2
  <2> DEFINE g == [d \in 0 .. k + 1 |-> IF d = k + 1 THEN Step(f[k], k + 1) ELSE f[d]]
  <2>2. ASSUME NEW d \in 0 .. k + 1
        PROVE  g[d] = IF d = 0 THEN Disks ELSE Step(g[d - 1], d)
    <3>1. CASE d = k + 1
      <4>1. d - 1 = k /\ k \in 0 .. k + 1 /\ k # k + 1 /\ d # 0
        BY <3>1
      <4>2. g[d - 1] = f[k] /\ g[d] = Step(f[k], k + 1)
        BY <3>1, <4>1
      <4> HIDE DEF g
      <4> QED  BY <3>1, <4>1, <4>2
    <3>2. CASE d # k + 1 /\ d = 0
      <4>1. d \in 0 .. k
        BY <3>2
      <4> QED  BY <2>1, <3>2, <4>1
    <3>3. CASE d # k + 1 /\ d # 0
      <4>1. d \in 0 .. k /\ d - 1 \in 0 .. k + 1 /\ d - 1 # k + 1
        BY <3>3
      <4>2. g[d] = f[d] /\ g[d - 1] = f[d - 1]
        BY <3>3, <4>1
      <4>3. f[d] = Step(f[d - 1], d)
        BY <2>1, <3>3, <4>1
      <4> HIDE DEF g
      <4> QED  BY <3>3, <4>2, <4>3
    <3> QED  BY <3>1, <3>2, <3>3
  <2>3. g = [d \in 0 .. k + 1 |-> IF d = 0 THEN Disks ELSE Step(g[d - 1], d)]
    BY <2>2
  <2> HIDE DEF g
  <2> QED  BY <2>3
<1> HIDE DEF Has
<1>3. 0 \in S /\ \A k \in Nat : k \in S => k + 1 \in S
  BY <1>1, <1>2
<1>4. S \in SUBSET Nat
  OBVIOUS
<1> HIDE DEF S
<1>5. Drives \in S
  BY <1>3, <1>4, DrivesAssumption, Induction
<1> QED  BY <1>5 DEF S, Has, Step, AreStages
(* The settings of all drives are taken over, one after the other.  A      *)
(* drive is as it was until its stage and remains as that stage leaves it. *)
LEMMA ActivateKeeps ==
  ASSUME DiskInv, NEW names \in [Drive -> Image \union {None}], NEW protect \in [Drive -> BOOLEAN],
         NEW fault, Activate(names, protect, fault)
  PROVE  DiskInv'
<1> DEFINE after[d \in 0 .. Drives] ==
             IF d = 0 THEN Disks
             ELSE SetReadOnlyConfig(SetDiskImage(after[d - 1], d - 1, names[d - 1], fault),
                                    d - 1, protect[d - 1])
           upset == (UNION {Twice(after[d].drive) : d \in 0 .. Drives})
                       \union Upset(after[Drives].drive, fault)
<1>1. Become(after[Drives], upset) /\ wanted' = names
  BY DEF Activate
<1>2. after = [d \in 0 .. Drives |-> IF d = 0 THEN Disks
                                     ELSE Stage(after[d - 1], names, protect, fault, d)]
  <2>1. \E f : f = [d \in 0 .. Drives |->
                      IF d = 0 THEN Disks
                      ELSE SetReadOnlyConfig(SetDiskImage(f[d - 1], d - 1, names[d - 1], fault),
                                             d - 1, protect[d - 1])]
    <3>1. PICK f : AreStages(f, names, protect, fault)
      BY StagesExist
    <3>2. f = [d \in 0 .. Drives |->
                 IF d = 0 THEN Disks
                 ELSE SetReadOnlyConfig(SetDiskImage(f[d - 1], d - 1, names[d - 1], fault),
                                        d - 1, protect[d - 1])]
      BY <3>1, Zenon DEF AreStages, Stage
    <3> QED  BY <3>2
  <2>2. after = [d \in 0 .. Drives |->
                   IF d = 0 THEN Disks
                   ELSE SetReadOnlyConfig(SetDiskImage(after[d - 1], d - 1, names[d - 1], fault),
                                          d - 1, protect[d - 1])]
    BY <2>1 DEF after
  <2> HIDE DEF after
  <2> QED  BY <2>2 DEF Stage
<1> DEFINE final == after[Drives].drive
           Set(k) == SetDiskImage(after[k], k, names[k], fault)
<1> HIDE DEF after
<1>3. Drives \in Nat /\ after[0] = Disks
  BY <1>2, DrivesAssumption
<1>4. ASSUME NEW k \in Drive
      PROVE  /\ k \in Nat /\ k \in 0 .. Drives /\ k + 1 \in 0 .. Drives
             /\ names[k] \in Image \union {None} /\ protect[k] \in BOOLEAN
             /\ after[k + 1] = SetReadOnlyConfig(Set(k), k, protect[k])
  <2>1. k \in Nat /\ k \in 0 .. Drives /\ k + 1 \in 0 .. Drives /\ k + 1 # 0 /\ (k + 1) - 1 = k
    BY <1>3 DEF Drive
  <2>2. after[k + 1] = Stage(after[k], names, protect, fault, k + 1)
    BY <1>2, <2>1
  <2>3. after[k + 1] = SetReadOnlyConfig(Set(k), k, protect[k])
    BY <2>1, <2>2 DEF Stage
  <2> QED  BY <2>1, <2>3
<1> HIDE DEF Set
(* Until its stage a drive is as it was.                                   *)
<1> DEFINE Waits(k) == k <= Drives =>
             /\ after[k] \in DisksRec
             /\ \A e \in Drive : e >= k => /\ after[k].drive[e] = drive[e]
                                           /\ after[k].temp[e] = temp[e]
<1>5. ASSUME NEW k \in Drive, Waits(k)
      PROVE  LET s == after[k]
                 q == Set(k)
                 t == after[k + 1]
             IN  /\ s \in DisksRec /\ q \in DisksRec /\ t \in DisksRec
                 /\ s.drive[k] = drive[k]
                 /\ \A e \in Drive \ {k} : t.drive[e] = s.drive[e] /\ t.temp[e] = s.temp[e]
                 /\ (q.drive[k].config <=> drive[k].config) /\ (t.drive[k].config <=> protect[k])
                 /\ t.drive[k].inserted = q.drive[k].inserted /\ t.drive[k].mfm = q.drive[k].mfm
                 /\ t.drive[k].name = q.drive[k].name /\ t.drive[k].zipped = q.drive[k].zipped
                 /\ \A e \in Drive \ {k} : t.drive[e] = q.drive[e]
                 /\ (q.drive[k].config <=> protect[k]) => t = q
                 /\ ~(q.drive[k].config <=> protect[k]) => t.drive[k].changed
  <2>1. k <= Drives /\ k >= k /\ k \in Nat
    BY <1>3, <1>4 DEF Drive
  <2>2. after[k] \in DisksRec /\ after[k].drive[k] = drive[k] /\ after[k].temp[k] = temp[k]
    BY <1>5, <2>1
  <2>3. after[k].drive[k].zipped => after[k].temp[k] # NoFile
    BY <2>2, DisksAre
  <2>4. names[k] \in Image \union {None} /\ protect[k] \in BOOLEAN
        /\ after[k + 1] = SetReadOnlyConfig(Set(k), k, protect[k])
        /\ Set(k) = SetDiskImage(after[k], k, names[k], fault)
    BY <1>4 DEF Set
  <2>5. /\ Set(k) \in DisksRec
        /\ \A e \in Drive \ {k} : /\ Set(k).drive[e] = after[k].drive[e]
                                  /\ Set(k).temp[e] = after[k].temp[e]
        /\ (Set(k).drive[k].config <=> drive[k].config)
    <3> DEFINE s == after[k]
               q == Set(k)
    <3>1. /\ s \in DisksRec /\ (s.drive[k].zipped => s.temp[k] # NoFile)
          /\ s.drive[k] = drive[k] /\ q = SetDiskImage(s, k, names[k], fault)
          /\ names[k] \in Image \union {None}
      BY <2>2, <2>3, <2>4
    <3> HIDE DEF s, q
    <3>2. /\ q \in DisksRec
          /\ \A e \in Drive \ {k} : q.drive[e] = s.drive[e] /\ q.temp[e] = s.temp[e]
          /\ (q.drive[k].config <=> s.drive[k].config)
      BY <3>1, SetDiskImageIs
    <3> QED  BY <3>1, <3>2 DEF s, q
  <2> DEFINE q == Set(k)
             t == after[k + 1]
  <2>6. t = SetReadOnlyConfig(q, k, protect[k]) /\ q \in DisksRec /\ protect[k] \in BOOLEAN
    BY <2>4, <2>5
  <2> HIDE DEF q, t
  <2>7. /\ t \in DisksRec /\ t.temp = q.temp
        /\ \A e \in Drive \ {k} : t.drive[e] = q.drive[e]
        /\ (t.drive[k].config <=> protect[k])
        /\ t.drive[k].inserted = q.drive[k].inserted /\ t.drive[k].mfm = q.drive[k].mfm
        /\ t.drive[k].name = q.drive[k].name /\ t.drive[k].zipped = q.drive[k].zipped
        /\ (q.drive[k].config <=> protect[k]) => t = q
        /\ ~(q.drive[k].config <=> protect[k]) => t.drive[k].changed
    BY <2>6, SetReadOnlyConfigIs
  <2> QED  BY <2>2, <2>5, <2>7 DEF q, t
<1> HIDE DEF Waits
<1>6. \A k \in Nat : Waits(k)
  <2> DEFINE S == {k \in Nat : Waits(k)}
  <2>1. Waits(0)
    BY <1>3, DisksAre DEF Waits
  <2>2. ASSUME NEW k \in Nat, Waits(k) PROVE Waits(k + 1)
    <3>1. SUFFICES ASSUME k + 1 <= Drives
                   PROVE  /\ after[k + 1] \in DisksRec
                          /\ \A e \in Drive : e >= k + 1 => /\ after[k + 1].drive[e] = drive[e]
                                                            /\ after[k + 1].temp[e] = temp[e]
      BY DEF Waits
    <3>2. k \in Drive /\ k <= Drives
      BY <1>3, <3>1 DEF Drive
    <3>3. \A e \in Drive : e >= k + 1 => e \in Drive \ {k} /\ e >= k
      BY <1>3, <3>2 DEF Drive
    <3>4. \A e \in Drive : e >= k => after[k].drive[e] = drive[e] /\ after[k].temp[e] = temp[e]
      BY <2>2, <3>2 DEF Waits
    <3>5. /\ after[k + 1] \in DisksRec
          /\ \A e \in Drive \ {k} : /\ after[k + 1].drive[e] = after[k].drive[e]
                                    /\ after[k + 1].temp[e] = after[k].temp[e]
      BY <1>5, <2>2, <3>2
    <3> QED  BY <3>3, <3>4, <3>5
  <2>3. S \in SUBSET Nat /\ 0 \in S /\ \A k \in Nat : k \in S => k + 1 \in S
    BY <2>1, <2>2
  <2> HIDE DEF S
  <2>4. \A k \in Nat : k \in S
    BY <2>3, Induction
  <2> QED  BY <2>4 DEF S
(* After its stage a drive remains as it is.                               *)
<1> DEFINE Stays(k) == k <= Drives => \A e \in Drive : e < k => after[k].drive[e] = after[e + 1].drive[e]
<1>7. \A k \in Nat : Stays(k)
  <2> DEFINE S == {k \in Nat : Stays(k)}
  <2>1. Stays(0)
    BY <1>3 DEF Drive
  <2>2. ASSUME NEW k \in Nat, Stays(k) PROVE Stays(k + 1)
    <3>1. SUFFICES ASSUME k + 1 <= Drives, NEW e \in Drive, e < k + 1
                   PROVE  after[k + 1].drive[e] = after[e + 1].drive[e]
      OBVIOUS
    <3>2. k \in Drive /\ k <= Drives /\ (e = k \/ e < k)
      BY <1>3, <3>1 DEF Drive
    <3>3. CASE e = k
      BY <3>3
    <3>4. CASE e < k
      <4>1. e # k
        BY <1>3, <3>4 DEF Drive
      <4>2. after[k + 1].drive[e] = after[k].drive[e]
        BY <1>5, <1>6, <1>4, <3>2, <4>1
      <4> QED  BY <2>2, <3>2, <3>4, <4>2
    <3> QED  BY <3>2, <3>3, <3>4
  <2> HIDE DEF Stays
  <2>3. S \in SUBSET Nat /\ 0 \in S /\ \A k \in Nat : k \in S => k + 1 \in S
    BY <2>1, <2>2
  <2> HIDE DEF S
  <2>4. \A k \in Nat : k \in S
    BY <2>3, Induction
  <2> QED  BY <2>4 DEF S
<1>8. \A k \in Drive : final[k] = after[k + 1].drive[k]
  <2>1. Drives <= Drives /\ \A k \in Drive : k < Drives
    BY <1>3 DEF Drive
  <2>2. Stays(Drives)
    BY <1>3, <1>7
  <2> QED  BY <2>1, <2>2
<1> HIDE DEF Stays
(* The disks that may have lost writes.                                    *)
<1>9. /\ \A d \in 0 .. Drives : Twice(after[d].drive) \subseteq excused'
      /\ Misnamed(final, fault) \subseteq excused' /\ Lost(final, fault) \subseteq excused'
      /\ Dms \subseteq excused' /\ Kept(Disks, excused')
      /\ \A d \in Drive : /\ final[d].inserted /\ final[d].config # drive[d].config
                          /\ final[d].mfm.image \in Image
                          => final[d].mfm.image \in excused'
  <2>1. upset \subseteq excused' /\ Dms \subseteq excused' /\ Kept(Disks, excused')
        /\ \A d \in Drive : /\ final[d].inserted /\ final[d].config # drive[d].config
                            /\ final[d].mfm.image \in Image
                            => final[d].mfm.image \in excused'
    <3> HIDE DEF upset
    <3> QED  BY <1>1, BecomeExcuses
  <2>2. ASSUME NEW d \in 0 .. Drives PROVE Twice(after[d].drive) \subseteq upset
    <3>1. Twice(after[d].drive) \in {Twice(after[k].drive) : k \in 0 .. Drives}
      OBVIOUS
    <3> QED  BY <3>1, Zenon
  <2>3. Misnamed(final, fault) \subseteq upset /\ Lost(final, fault) \subseteq upset
    <3>1. Upset(final, fault) \subseteq upset
      BY Zenon
    <3> HIDE DEF upset
    <3> QED  BY <3>1 DEF Upset
  <2> HIDE DEF upset
  <2> QED  BY <2>1, <2>2, <2>3
<1> DEFINE Fine(k) == k <= Drives => Kept(after[k], excused') /\ Told(after[k])
<1>10. ASSUME NEW k \in Drive, Kept(after[k], excused'), Told(after[k])
       PROVE  Kept(after[k + 1], excused') /\ Told(after[k + 1])
  <2> DEFINE s == after[k]
             q == Set(k)
             t == after[k + 1]
  <2>1. /\ s \in DisksRec /\ q \in DisksRec /\ t \in DisksRec /\ s.drive[k] = drive[k]
        /\ (q.drive[k].config <=> drive[k].config) /\ (t.drive[k].config <=> protect[k])
        /\ t.drive[k].inserted = q.drive[k].inserted /\ t.drive[k].mfm = q.drive[k].mfm
        /\ t.drive[k].name = q.drive[k].name /\ t.drive[k].zipped = q.drive[k].zipped
        /\ \A e \in Drive \ {k} : t.drive[e] = q.drive[e]
        /\ (q.drive[k].config <=> protect[k]) => t = q
        /\ ~(q.drive[k].config <=> protect[k]) => t.drive[k].changed
    BY <1>4, <1>5, <1>6
  <2>2. /\ names[k] \in Image \union {None} /\ protect[k] \in BOOLEAN
        /\ t = SetReadOnlyConfig(q, k, protect[k])
        /\ q = SetDiskImage(s, k, names[k], fault)
        /\ Twice(t.drive) \subseteq excused' /\ final[k] = t.drive[k]
    BY <1>4, <1>8, <1>9 DEF Set
  <2> HIDE DEF s, q, t, final
  <2>3. Twice(q.drive) \subseteq Twice(t.drive)
    <3>1. \A e \in Drive : q.drive[e].inserted =>
            t.drive[e].inserted /\ t.drive[e].mfm = q.drive[e].mfm
            /\ (q.drive[e].zipped => t.drive[e].zipped)
      BY <2>1
    <3> QED  BY <3>1, TwiceFewer
  <2>4. Kept(s, excused') /\ Told(s)
    BY <1>10 DEF s
  <2>5. Kept(q, excused') /\ Told(q)
    <3>1. /\ Twice(q.drive) \subseteq excused' /\ Misnamed(final, fault) \subseteq excused'
          /\ Lost(final, fault) \subseteq excused'
          /\ Dms \subseteq excused' /\ final[k].name = q.drive[k].name
          /\ final[k].inserted = q.drive[k].inserted /\ final[k].mfm = q.drive[k].mfm
      BY <1>9, <2>1, <2>2, <2>3 DEF final
    <3> QED  BY <2>1, <2>2, <2>4, <3>1, SetOneDrive
  <2>6. q.drive[k].inserted /\ ~(q.drive[k].config <=> protect[k]) => q.drive[k].mfm.image \in excused'
    <3>1. SUFFICES ASSUME q.drive[k].inserted, ~(q.drive[k].config <=> protect[k])
                   PROVE  q.drive[k].mfm.image \in excused'
      OBVIOUS
    <3>2. q.drive[k].mfm.image \in Image
      <4>1. Slot(q, k, excused') /\ q.drive[k] \in DriveRec
        BY <2>1, <2>5, FieldsOf DEF Kept
      <4> QED  BY <3>1, <4>1 DEF Slot, DriveRec, Contents
    <3>3. final[k].config # drive[k].config
      BY <2>1, <2>2, <3>1
    <3>4. final[k].inserted /\ final[k].mfm = q.drive[k].mfm
      BY <2>1, <2>2, <3>1
    <3> QED  BY <1>9, <3>2, <3>3, <3>4 DEF final
  <2>7. Kept(t, excused')
    BY <2>2, <2>5, <2>6, SetReadOnlyConfigKeeps
  <2>8. Told(t)
    <3>1. \A e \in Drive : t.drive[e].changed \/ t.drive[e] = q.drive[e]
      BY <2>1
    <3> QED  BY <2>5, <3>1, TellsKeeps
  <2> QED  BY <2>7, <2>8 DEF t
<1>11. \A k \in Nat : Fine(k)
  <2> DEFINE S == {k \in Nat : Fine(k)}
  <2>1. Fine(0)
    BY <1>3, <1>9, DisksAre
  <2>2. ASSUME NEW k \in Nat, Fine(k) PROVE Fine(k + 1)
    <3>1. SUFFICES ASSUME k + 1 <= Drives PROVE Kept(after[k + 1], excused') /\ Told(after[k + 1])
      OBVIOUS
    <3>2. k \in Drive /\ k <= Drives
      BY <1>3, <3>1 DEF Drive
    <3> QED  BY <1>10, <2>2, <3>2
  <2>3. S \in SUBSET Nat /\ 0 \in S /\ \A k \in Nat : k \in S => k + 1 \in S
    BY <2>1, <2>2
  <2> HIDE DEF S
  <2>4. \A k \in Nat : k \in S
    BY <2>3, Induction
  <2> QED  BY <2>4 DEF S
<1>12. Kept(after[Drives], excused') /\ Told(after[Drives]) /\ Twice(final) \subseteq excused'
  <2>1. Drives <= Drives /\ Drives \in 0 .. Drives
    BY <1>3
  <2> QED  BY <1>3, <1>9, <1>11, <2>1
<1>13. upset \subseteq Image
  <2>1. \A d \in 0 .. Drives : Twice(after[d].drive) \subseteq Image
    BY TwiceAreImages
  <2>2. Upset(final, fault) \subseteq Image
    BY <1>12, UpsetAreImages
  <2>3. UNION {Twice(after[d].drive) : d \in 0 .. Drives} \subseteq Image
    BY <2>1
  <2> QED  BY <2>2, <2>3, Zenon
<1> HIDE DEF upset
<1> QED  BY <1>1, <1>12, <1>13, BecomeKeeps
-----------------------------------------------------------------------------
LEMMA DiskInit == StorageInit => DiskInv
<1> SUFFICES ASSUME StorageInit PROVE DiskInv
  OBVIOUS
<1>1. /\ file = [n \in Image |-> [image |-> n, writes |-> {}]]
      /\ temp = [d \in Drive |-> NoFile] /\ drive = [d \in Drive |-> Empty]
      /\ wanted = [d \in Drive |-> None] /\ done = <<>> /\ excused = Dms
      /\ seen = [d \in Drive |-> None]
  BY DEF StorageInit, Init
<1>2. Empty \in DriveRec /\ ~Empty.inserted /\ ~Empty.zipped /\ Empty.changed
      /\ Empty.status = "none" /\ Empty.real = None /\ Empty.open = "no"
  BY DEF Empty, DriveRec
<1>3. /\ file \in [Image -> Contents] /\ temp \in [Drive -> Contents \union {NoFile}]
      /\ drive \in [Drive -> DriveRec]
  BY <1>1, <1>2 DEF Contents
<1>4. TypeOK
  BY <1>1, <1>3, DrivesAssumption, Kinds DEF TypeOK, DriveRec
<1>5. Disks.file = file /\ Disks.temp = temp /\ Disks.drive = drive /\ Disks \in DisksRec
  BY <1>3 DEF Disks, DisksRec
<1>6. \A n : InDrive(drive, n) = {}
  BY <1>1, <1>2 DEF InDrive
<1>7. \A n : Written(n) = [image |-> n, writes |-> {}]
  <2>1. DOMAIN done = {}
    BY <1>1
  <2> QED  BY <2>1 DEF Written, AsWritten
<1>8. Twice(drive) = {}
  BY <1>6 DEF Twice
<1>9. \A d \in Drive : Slot(Disks, d, excused)
  BY <1>1, <1>2, <1>5, Kinds DEF Slot
<1>10. Files(Disks, excused)
  BY <1>1, <1>5, <1>7 DEF Files
<1>11. Told(Disks)
  BY <1>1, <1>2, <1>5 DEF Told
<1> QED  BY <1>1, <1>4, <1>5, <1>8, <1>9, <1>10, <1>11 DEF DiskInv, Kept

LEMMA DiskStep ==
  ASSUME DiskInv, [UseFloppies \/ UseHardFiles]_storageVars
  PROVE  DiskInv'
<1>1. CASE UseFloppies
  <2>1. Next
    BY <1>1 DEF UseFloppies
  <2>2. CASE Amiga
    BY <2>2, SectorSaveKeeps, StepClearsChangedKeeps DEF Amiga
  <2>3. ASSUME NEW d \in Drive, NEW fault \in Faults,
               \/ Eject(d, fault) \/ HostEjects(d, fault) \/ SwapIntoDF0(d, fault)
               \/ \E n \in Image : HostInserts(d, n, fault)
               \/ \E b \in BOOLEAN : HostProtects(d, b)
        PROVE  DiskInv'
    BY <2>3, EjectKeeps, HostEjectsKeeps, SwapIntoDF0Keeps, HostInsertsKeeps, HostProtectsKeeps
  <2>4. ASSUME NEW names \in [Drive -> Image \union {None}], NEW protect \in [Drive -> BOOLEAN],
               NEW fault \in Faults, Activate(names, protect, fault)
        PROVE  DiskInv'
    BY <2>4, ActivateKeeps
  <2> QED  BY <2>1, <2>2, <2>3, <2>4 DEF Next
<1>2. CASE vars' = vars
  <2>1. /\ file' = file /\ temp' = temp /\ drive' = drive /\ wanted' = wanted
        /\ done' = done /\ excused' = excused /\ seen' = seen
    BY <1>2 DEF vars, history
  <2> QED  BY <2>1 DEF DiskInv, TypeOK, Kept, Slot, Files, Told, Written, Twice, InDrive, Disks
<1>3. CASE UseHardFiles
  BY <1>2, <1>3 DEF UseHardFiles
<1>4. CASE UNCHANGED storageVars
  BY <1>2, <1>4 DEF storageVars
<1> QED  BY <1>1, <1>3, <1>4

THEOREM DisksStayRight == StorageSpec => []DiskInv
<1>1. DiskInv /\ [UseFloppies \/ UseHardFiles]_storageVars => DiskInv'
  BY DiskStep
<1> QED  BY <1>1, DiskInit, PTL DEF StorageSpec

(* Every variable of the floppy disks has values of its type.              *)
THEOREM TypeCorrect == StorageSpec => []TypeOK
BY DisksStayRight, PTL DEF DiskInv

(* Once a disk is out of the drives its file has every write of the Amiga, *)
(* whatever disks are inserted, ejected and swapped, and whatever fails;   *)
(* except for the images in excused, those that could not be packed among  *)
(* them.                                                                   *)
THEOREM WritesAreKept == StorageSpec => []NoWriteIsLost
<1>1. DiskInv => NoWriteIsLost
  <2> SUFFICES ASSUME DiskInv, NEW n \in Image \ excused, InDrive(drive, n) = {}
               PROVE  file[n] = [image |-> n, writes |-> {i \in DOMAIN done : done[i] = n}]
    BY DEF NoWriteIsLost
  <2>1. Files(Disks, excused)
    BY DEF DiskInv, Kept
  <2> QED  BY <2>1, DisksAre DEF Files, Written, AsWritten
<1> QED  BY <1>1, DisksStayRight, PTL

(* The Amiga is told of every change of disk.                              *)
THEOREM ChangesAreSeen == StorageSpec => []ChangeIsSeen
<1>1. DiskInv => ChangeIsSeen
  BY DisksAre DEF ChangeIsSeen, Told
<1> QED  BY <1>1, DisksStayRight, PTL
-----------------------------------------------------------------------------
(* Hard files.                                                             *)

(* A set of natural numbers that is not empty has a least element.         *)
LEMMA Least == ASSUME NEW T, T \subseteq Nat, T # {}
               PROVE  \E x \in T : \A y \in T : x <= y
<1>1. PICK x \in T : \A y \in T : ~ (<<y, x>> \in OpToRel(<, Nat))
  BY NatLessThanWellFounded, WFMin
<1>2. \A y \in T : ~(y < x)
  BY <1>1 DEF OpToRel
<1> QED  BY <1>2
-----------------------------------------------------------------------------
(* A recursive function over numbers is defined.  Its step is a function   *)
(* of the number and of the value before.                                  *)
Recursive(f, n, base, step) ==
  \A i \in 0 .. n : f[i] = IF i = 0 THEN base ELSE step[i][f[i - 1]]

LEMMA RecursionExists ==
  ASSUME NEW S, NEW n \in Nat, NEW base \in S, NEW step \in [Nat -> [S -> S]]
  PROVE  \E f \in [0 .. n -> S] : Recursive(f, n, base, step)
<1> DEFINE Upto(k) == \E f \in [0 .. k -> S] :
             \A i \in 0 .. k : f[i] = IF i = 0 THEN base ELSE step[i][f[i - 1]]
           T == {k \in Nat : Upto(k)}
<1>1. 0 \in T
  <2> DEFINE f == [i \in 0 .. 0 |-> base]
  <2>1. f \in [0 .. 0 -> S] /\ \A i \in 0 .. 0 : i = 0 /\ f[i] = base
    OBVIOUS
  <2> HIDE DEF f
  <2> QED  BY <2>1
<1>2. ASSUME NEW k \in Nat, k \in T PROVE k + 1 \in T
  <2>1. PICK f \in [0 .. k -> S] :
          \A i \in 0 .. k : f[i] = IF i = 0 THEN base ELSE step[i][f[i - 1]]
    BY <1>2
  <2> DEFINE g == [i \in 0 .. k + 1 |-> IF i = k + 1 THEN step[k + 1][f[k]] ELSE f[i]]
  <2>2. g[k + 1] = step[k + 1][f[k]] /\ \A i \in 0 .. k : g[i] = f[i]
    OBVIOUS
  <2>3. g \in [0 .. k + 1 -> S]
    <3>1. f[k] \in S /\ step[k + 1] \in [S -> S]
      OBVIOUS
    <3> QED  BY <3>1
  <2> HIDE DEF g
  <2>4. ASSUME NEW i \in 0 .. k + 1
        PROVE  g[i] = IF i = 0 THEN base ELSE step[i][g[i - 1]]
    <3>1. CASE i \in 0 .. k
      <4>1. i # 0 => i - 1 \in 0 .. k
        BY <3>1
      <4> QED  BY <2>1, <2>2, <3>1, <4>1
    <3>2. CASE i = k + 1
      BY <2>2, <3>2
    <3> QED  BY <3>1, <3>2
  <2> QED  BY <2>3, <2>4
<1>3. T \in SUBSET Nat
  OBVIOUS
<1> HIDE DEF T
<1>4. n \in T
  BY <1>1, <1>2, <1>3, Induction
<1> QED  BY <1>4 DEF T, Recursive
-----------------------------------------------------------------------------
(* Chosen.                                                                 *)

(* r has the elements of the list that the indices choose, in order.       *)
Subsequence(r, list, indices) ==
  \E f \in [1 .. Len(r) -> indices] :
    /\ \A k \in 1 .. Len(r) : r[k] = list[f[k]]
    /\ \A j, k \in 1 .. Len(r) : j < k => f[j] < f[k]
    /\ \A i \in indices : \E k \in 1 .. Len(r) : f[k] = i

LEMMA AppendSubsequence ==
  ASSUME NEW S, NEW list \in Seq(S), NEW r \in Seq(S), NEW I \in SUBSET Nat, NEW i \in DOMAIN list,
         Subsequence(r, list, I), \A k \in I : k < i
  PROVE  Subsequence(Append(r, list[i]), list, I \union {i})
<1>1. PICK f \in [1 .. Len(r) -> I] :
        /\ \A k \in 1 .. Len(r) : r[k] = list[f[k]]
        /\ \A j, k \in 1 .. Len(r) : j < k => f[j] < f[k]
        /\ \A n \in I : \E k \in 1 .. Len(r) : f[k] = n
  BY DEF Subsequence
<1> DEFINE s == Append(r, list[i])
           g == [k \in 1 .. Len(s) |-> IF k = Len(s) THEN i ELSE f[k]]
<1>2. /\ list[i] \in S /\ Len(r) \in Nat /\ Len(s) = Len(r) + 1 /\ s[Len(s)] = list[i]
      /\ \A k \in 1 .. Len(r) : s[k] = r[k]
  OBVIOUS
<1> HIDE DEF s
<1>3. g[Len(s)] = i /\ \A k \in 1 .. Len(r) : g[k] = f[k] /\ f[k] \in I
  BY <1>2
<1>4. g \in [1 .. Len(s) -> I \union {i}]
  BY <1>2
<1> HIDE DEF g
<1>5. ASSUME NEW k \in 1 .. Len(s) PROVE s[k] = list[g[k]]
  BY <1>1, <1>2, <1>3
<1>6. ASSUME NEW j \in 1 .. Len(s), NEW k \in 1 .. Len(s), j < k PROVE g[j] < g[k]
  <2>1. j \in 1 .. Len(r) /\ g[j] = f[j] /\ f[j] \in I
    BY <1>2, <1>3, <1>6
  <2>2. CASE k = Len(s)
    BY <1>3, <2>1, <2>2
  <2>3. CASE k # Len(s)
    <3>1. k \in 1 .. Len(r)
      BY <1>2, <2>3
    <3> QED  BY <1>1, <1>3, <1>6, <2>1, <3>1
  <2> QED  BY <2>2, <2>3
<1>7. ASSUME NEW n \in I \union {i} PROVE \E k \in 1 .. Len(s) : g[k] = n
  BY <1>1, <1>2, <1>3
<1> QED  BY <1>4, <1>5, <1>6, <1>7 DEF Subsequence, s

LEMMA ChosenIs ==
  ASSUME NEW S, NEW list \in Seq(S), NEW I \in SUBSET DOMAIN list
  PROVE  Hard!Chosen(list, I) \in Seq(S) /\ Subsequence(Hard!Chosen(list, I), list, I)
<1> DEFINE n == Len(list)
           R == Seq(S)
           Next1(r, i) == IF i \in I THEN Append(r, list[i]) ELSE r
           step == [i \in Nat |-> [r \in R |-> Next1(r, i)]]
<1>1. n \in Nat /\ <<>> \in R /\ DOMAIN list = 1 .. n /\ 0 \in Nat
  OBVIOUS
<1>2. \A r \in R, i \in Nat : Next1(r, i) \in R
  <2> TAKE r \in R, i \in Nat
  <2>1. i \in I => list[i] \in S
    OBVIOUS
  <2> QED  BY <2>1
<1> DEFINE Is(u) == u = [i \in 0 .. n |-> IF i = 0 THEN <<>> ELSE Next1(u[i - 1], i)]
           u == CHOOSE v : Is(v)
<1>3. Hard!Chosen(list, I) = u[n]
  BY DEF Hard!Chosen
<1> HIDE DEF Next1, R, n
<1>4. step \in [Nat -> [R -> R]] /\ \A r \in R, i \in Nat : step[i][r] = Next1(r, i)
  BY <1>2
<1> HIDE DEF step
<1>5. \E v : Is(v)
  <2>1. PICK v \in [0 .. n -> R] : Recursive(v, n, <<>>, step)
    BY <1>1, <1>4, RecursionExists
  <2>2. ASSUME NEW i \in 0 .. n
        PROVE  v[i] = IF i = 0 THEN <<>> ELSE Next1(v[i - 1], i)
    <3>1. i # 0 => i - 1 \in 0 .. n /\ i \in Nat /\ v[i - 1] \in R
      BY <1>1, <2>1
    <3> QED  BY <2>1, <1>4, <3>1 DEF Recursive
  <2> QED  BY <2>1, <2>2
<1>6. Is(u)
  BY <1>5
<1> HIDE DEF u
<1>7. \A i \in 0 .. n : u[i] = IF i = 0 THEN <<>> ELSE Next1(u[i - 1], i)
  BY <1>6
<1> HIDE DEF Is
<1> DEFINE Good(i) == u[i] \in R /\ Subsequence(u[i], list, I \intersect 1 .. i)
           T == {i \in Nat : i <= n => Good(i)}
<1>8. Good(0)
  <2>1. u[0] = <<>>
    BY <1>1, <1>7
  <2>2. <<>> \in [1 .. 0 -> {}] /\ 1 .. 0 = {} /\ Len(<<>>) = 0 /\ I \intersect 1 .. 0 = {}
    OBVIOUS
  <2>3. Subsequence(<<>>, list, {})
    BY <2>2 DEF Subsequence
  <2> QED  BY <1>1, <2>1, <2>2, <2>3
<1>9. ASSUME NEW i \in Nat, Good(i), i + 1 <= n PROVE Good(i + 1)
  <2>1. u[i + 1] = Next1(u[i], i + 1)
    <3>1. i + 1 \in 0 .. n /\ i + 1 - 1 = i /\ i + 1 # 0
      BY <1>1, <1>9
    <3> QED  BY <1>7, <3>1
  <2>2. u[i] \in Seq(S) /\ Subsequence(u[i], list, I \intersect 1 .. i)
    BY <1>9 DEF R
  <2>3. CASE i + 1 \in I
    <3>1. I \intersect 1 .. i + 1 = (I \intersect 1 .. i) \union {i + 1}
      BY <2>3
    <3>2. Subsequence(Append(u[i], list[i + 1]), list, (I \intersect 1 .. i) \union {i + 1})
      <4>1. (I \intersect 1 .. i) \in SUBSET Nat /\ \A k \in I \intersect 1 .. i : k < i + 1
        OBVIOUS
      <4> QED  BY <2>2, <2>3, <4>1, AppendSubsequence
    <3>3. Append(u[i], list[i + 1]) \in R
      BY <1>2, <1>9, <2>3 DEF Next1
    <3> QED  BY <2>1, <2>3, <3>1, <3>2, <3>3 DEF Next1
  <2>4. CASE i + 1 \notin I
    <3>1. I \intersect 1 .. i + 1 = I \intersect 1 .. i
      BY <2>4
    <3> QED  BY <1>9, <2>1, <2>4, <3>1 DEF Next1
  <2> QED  BY <2>3, <2>4
<1> HIDE DEF Good
<1>10. Good(n)
  <2>1. ASSUME NEW i \in Nat, i \in T PROVE i + 1 \in T
    BY <1>1, <1>9, <2>1
  <2>2. 0 \in T /\ T \in SUBSET Nat
    BY <1>8
  <2>3. n \in T
    <3> HIDE DEF T
    <3> QED  BY <1>1, <2>1, <2>2, Induction
  <2> QED  BY <1>1, <2>3
<1>11. I \intersect 1 .. n = I
  BY <1>1
<1> QED  BY <1>3, <1>10, <1>11 DEF Good, R
LEMMA FlattenIs ==
  ASSUME NEW S, NEW k \in Nat, NEW seqs \in [1 .. k -> Seq(S)]
  PROVE  Hard!FlattenSeq(seqs) \in Seq(S)
<1> DEFINE R == Seq(S)
           n == Len(seqs)
           Next1(r, i) == r \o seqs[i]
           step == [i \in Nat |-> [r \in R |-> IF i + 1 \in 1 .. k THEN Next1(r, i + 1) ELSE r]]
           Is(u) == u = [i \in 1 .. n |-> IF i = 1 THEN seqs[i] ELSE Next1(u[i - 1], i)]
           u == CHOOSE v : Is(v)
<1>1. n = k /\ (k = 0 => seqs = <<>>) /\ <<>> \in R
  OBVIOUS
<1>2. Hard!FlattenSeq(seqs) = IF n = 0 THEN seqs ELSE u[n]
  BY DEF Hard!FlattenSeq
<1> HIDE DEF n
<1>3. CASE k = 0
  BY <1>1, <1>2, <1>3
<1>4. CASE k # 0
  <2>1. \A i \in 1 .. k : seqs[i] \in R /\ \A r \in R : Next1(r, i) \in R
    OBVIOUS
  <2> HIDE DEF Next1, R
  <2>2. step \in [Nat -> [R -> R]] /\ \A i \in 0 .. k - 1, r \in R : step[i][r] = Next1(r, i + 1) \/ i = k
    <3>1. \A i \in Nat, r \in R : (IF i + 1 \in 1 .. k THEN Next1(r, i + 1) ELSE r) \in R
      BY <2>1
    <3>2. \A i \in 0 .. k - 1 : i + 1 \in 1 .. k
      BY <1>4
    <3> QED  BY <3>1, <3>2
  <2> HIDE DEF step
  <2>3. k - 1 \in Nat /\ 1 \in 1 .. k /\ seqs[1] \in R
    BY <1>4, <2>1
  <2>4. PICK w \in [0 .. k - 1 -> R] : Recursive(w, k - 1, seqs[1], step)
    BY <2>2, <2>3, RecursionExists
  <2> DEFINE v == [i \in 1 .. k |-> w[i - 1]]
  <2>5. ASSUME NEW i \in 1 .. k
        PROVE  v[i] = IF i = 1 THEN seqs[i] ELSE Next1(v[i - 1], i)
    <3>1. CASE i = 1
      <4>1. w[0] = seqs[1]
        BY <2>3, <2>4 DEF Recursive
      <4> QED  BY <3>1, <4>1
    <3>2. CASE i # 1
      <4>1. i - 1 \in 1 .. k /\ i - 1 \in 0 .. k - 1 /\ i - 2 \in 0 .. k - 1 /\ i - 1 - 1 = i - 2
            /\ i - 1 # 0 /\ i - 1 + 1 = i /\ i - 1 # k
        BY <3>2
      <4>2. w[i - 1] = step[i - 1][w[i - 2]] /\ w[i - 2] \in R
        BY <2>4, <4>1 DEF Recursive
      <4>3. v[i] = w[i - 1] /\ v[i - 1] = w[i - 2]
        BY <4>1
      <4> QED  BY <2>2, <3>2, <4>1, <4>2, <4>3
    <3> QED  BY <3>1, <3>2
  <2>6. Is(v)
    BY <1>1, <2>5
  <2>7. Is(u)
    <3> HIDE DEF v, Is
    <3> QED  BY <2>6 DEF u
  <2> HIDE DEF u
  <2>8. \A i \in 1 .. k : u[i] = IF i = 1 THEN seqs[i] ELSE Next1(u[i - 1], i)
    BY <1>1, <2>7
  <2> HIDE DEF Is
  <2> DEFINE T == {i \in Nat : i + 1 <= k => u[i + 1] \in R}
  <2>9. 0 \in T
    BY <2>3, <2>8
  <2>10. ASSUME NEW i \in Nat, i \in T PROVE i + 1 \in T
    <3> SUFFICES ASSUME i + 2 <= k PROVE u[i + 2] \in R
      OBVIOUS
    <3>1. i + 2 \in 1 .. k /\ i + 2 - 1 = i + 1 /\ i + 2 # 1 /\ u[i + 1] \in R
      BY <2>10
    <3> QED  BY <2>1, <2>8, <3>1
  <2>11. k - 1 \in T
    <3>1. T \in SUBSET Nat
      OBVIOUS
    <3> HIDE DEF T
    <3> QED  BY <2>3, <2>9, <2>10, <3>1, Induction
  <2>12. u[k] \in R
    <3>1. k - 1 + 1 = k
      OBVIOUS
    <3> QED  BY <2>11, <3>1
  <2> QED  BY <1>1, <1>2, <1>4, <2>12 DEF R
<1> QED  BY <1>3, <1>4
-----------------------------------------------------------------------------
(* Rigid disk blocks.                                                      *)

LEMMA SameCardinality ==
  ASSUME NEW S
  PROVE  Hard!Cardinality(S) = Cardinality(S) /\ (Hard!IsFiniteSet(S) <=> IsFiniteSet(S))
BY DEF Hard!Cardinality, Cardinality, Hard!IsFiniteSet, IsFiniteSet

LEMMA HoldsIs ==
  ASSUME NEW list, IsFiniteSet(DOMAIN list), NEW first
  PROVE  Hard!Holds(list, first) \in Seq({list[b] : b \in DOMAIN list})
<1> DEFINE D == DOMAIN list
           n == Cardinality(D)
           R == {first} \union D \union {list[b].next : b \in D}
           Next1(r) == IF r \in D THEN list[r].next ELSE r
           step == [i \in Nat |-> [r \in R |-> Next1(r)]]
           Is(u) == u = [i \in 0 .. n |-> IF i = 0 THEN first ELSE Next1(u[i - 1])]
           u == CHOOSE v : Is(v)
           found == {i \in DOMAIN u : u[i] \in D}
           k == Cardinality(found)
           row == [i \in 1 .. k |-> [block |-> u[i - 1], holds |-> list[u[i - 1]]]]
<1>1. Hard!Follow(list, first) = row
  <2>1. \A S : Hard!Cardinality(S) = Cardinality(S)
    BY SameCardinality
  <2> QED  BY <2>1 DEF Hard!Follow
<1>2. n \in Nat
  BY FS_CardinalityType
<1>3. \A r \in R : Next1(r) \in R
  OBVIOUS
<1>4. first \in R
  OBVIOUS
<1> HIDE DEF n, R, Next1
<1>5. step \in [Nat -> [R -> R]] /\ \A i \in Nat, r \in R : step[i][r] = Next1(r)
  BY <1>3
<1> HIDE DEF step
<1>6. \E v : Is(v)
  <2>1. PICK v \in [0 .. n -> R] : Recursive(v, n, first, step)
    BY <1>2, <1>4, <1>5, RecursionExists
  <2>2. ASSUME NEW i \in 0 .. n
        PROVE  v[i] = IF i = 0 THEN first ELSE Next1(v[i - 1])
    <3>1. i # 0 => i - 1 \in 0 .. n /\ i \in Nat /\ v[i - 1] \in R
      BY <1>2, <2>1
    <3> QED  BY <2>1, <1>5, <3>1 DEF Recursive
  <2> QED  BY <2>1, <2>2
<1>7. Is(u)
  BY <1>6
<1> HIDE DEF u
<1>8. DOMAIN u = 0 .. n /\ \A i \in 1 .. n : u[i] = Next1(u[i - 1])
  BY <1>2, <1>7
<1> HIDE DEF Is
(* Once the list has ended it does not go on.                              *)
<1>9. ASSUME NEW i \in 1 .. n, i \in found PROVE i - 1 \in found
  BY <1>2, <1>8, <1>9 DEF Next1
<1>10. found \subseteq 0 .. n
  BY <1>8
<1>11. ASSUME NEW m \in 0 .. n, m \notin found
       PROVE  \A i \in 0 .. n : i >= m => i \notin found
  <2> DEFINE T == {i \in Nat : m + i <= n => m + i \notin found}
  <2>1. 0 \in T
    BY <1>2, <1>11
  <2>2. ASSUME NEW i \in Nat, i \in T PROVE i + 1 \in T
    <3> SUFFICES ASSUME m + (i + 1) <= n PROVE m + (i + 1) \notin found
      OBVIOUS
    <3>1. m + (i + 1) \in 1 .. n /\ m + (i + 1) - 1 = m + i /\ m + i <= n
      BY <1>2
    <3> HIDE DEF found
    <3> QED  BY <1>9, <2>2, <3>1
  <2>3. \A i \in Nat : i \in T
    <3>1. T \in SUBSET Nat
      OBVIOUS
    <3> HIDE DEF T
    <3> QED  BY <2>1, <2>2, <3>1, Induction
  <2> TAKE i \in 0 .. n
  <2>4. i >= m => i - m \in Nat /\ m + (i - m) = i
    BY <1>2
  <2> HIDE DEF found
  <2> QED  BY <1>2, <2>3, <2>4
<1>12. \E m \in Nat : found = 0 .. m - 1 /\ m <= n + 1
  <2>1. CASE found = 0 .. n
    <3>1. n + 1 \in Nat /\ n + 1 - 1 = n /\ n + 1 <= n + 1
      BY <1>2
    <3> HIDE DEF found
    <3>2. found = 0 .. (n + 1) - 1
      BY <1>2, <2>1, <3>1
    <3> QED  BY <3>1, <3>2
  <2>2. CASE found # 0 .. n
    <3> DEFINE G == {i \in 0 .. n : i \notin found}
    <3>1. G \subseteq Nat /\ G # {}
      BY <1>2, <1>10, <2>2
    <3>2. PICK m \in G : \A i \in G : m <= i
      <4> HIDE DEF G
      <4> QED  BY <3>1, Least
    <3>3. found = 0 .. m - 1
      <4> HIDE DEF found
      <4>1. ASSUME NEW i \in found PROVE i \in 0 .. m - 1
        BY <1>2, <1>10, <1>11, <3>2
      <4>2. ASSUME NEW i \in 0 .. m - 1 PROVE i \in found
        BY <1>2, <3>2
      <4> QED  BY <4>1, <4>2
    <3> QED  BY <1>2, <3>2, <3>3
  <2> QED  BY <2>1, <2>2
<1>13. PICK m \in Nat : found = 0 .. m - 1 /\ m <= n + 1
  BY <1>12
<1>14. k = m
  <2>1. Cardinality(0 .. m - 1) = m
    <3>1. IF 0 > m - 1 THEN m = 0 ELSE (m - 1) - 0 + 1 = m
      OBVIOUS
    <3>2. Cardinality(0 .. m - 1) = IF 0 > m - 1 THEN 0 ELSE (m - 1) - 0 + 1
      BY FS_Interval
    <3> QED  BY <3>1, <3>2
  <2> QED  BY <1>13, <2>1
<1>15. \A i \in 1 .. m : u[i - 1] \in D
  <2> TAKE i \in 1 .. m
  <2>1. i - 1 \in found
    BY <1>13
  <2> QED  BY <2>1
<1> HIDE DEF found, k
<1>16. Hard!Holds(list, first) = [i \in 1 .. m |-> list[u[i - 1]]]
  BY <1>1, <1>14 DEF Hard!Holds
<1> QED  BY <1>15, <1>16
-----------------------------------------------------------------------------
(* Types.                                                                  *)

UnitRec   == [name : File \union {NoHardFile}, hdf : BOOLEAN, open : {"no", "yes"},
              hasRdb : BOOLEAN, rdb : Content \union {NoRdb}]
Devices   == [Hard!Unit -> UnitRec]
HeaderRec == [type : STRING, version : Nat, unit : Hard!Unit, live : BOOLEAN, loaded : BOOLEAN]
KickRec   == [type : STRING, version : Nat]
DosType   == STRING \union {"DOS"}
PartRec   == [unit : Hard!Unit, wants : Int, type : DosType]
PacketRec == [unit : Hard!Unit, type : DosType, name : Int]
MountRec  == [unit : Hard!Unit, type : DosType, name : Int, file : File \union {NoHardFile},
              handler : SUBSET Nat]
AmigaRec  == [boot : {"config", "diag", "load", "mount"}, next : Nat \ {0},
              packets : Seq(PacketRec), mounted : Seq(MountRec)]

HardTypes ==
  /\ disk \in [File -> Content] /\ device \in Devices /\ fileSystems \in Seq(HeaderRec)
  /\ enabled \in BOOLEAN /\ preStart \in BOOLEAN /\ stage \in {"dialog", "set", "running"}
  /\ kick \in Kickstarts /\ amiga \in AmigaRec /\ unplugged \subseteq Hard!Unit

LEMMA HardConstants ==
  /\ Units \in Nat /\ NoHardFile \notin File /\ NoRdb \notin Content
  /\ \A c \in Content :
       /\ IsFiniteSet(DOMAIN c.part) /\ IsFiniteSet(DOMAIN c.system)
       /\ \A b \in DOMAIN c.part : c.part[b].name \in Nat /\ c.part[b].type \in STRING
       /\ \A b \in DOMAIN c.system : c.system[b].version \in Nat /\ c.system[b].type \in STRING
  /\ \A k \in Kickstarts : k \in Seq(KickRec)
  /\ Hard!Unit = 0 .. Units - 1
<1>1. \A c \in Content : IsFiniteSet(DOMAIN c.part) /\ IsFiniteSet(DOMAIN c.system)
  BY HardFileAssumption, SameCardinality DEF Hard!HardFileAssumption
<1>2. \A k \in Kickstarts : k \in Seq(KickRec)
  BY HardFileAssumption DEF Hard!HardFileAssumption, KickRec
<1> QED  BY <1>1, <1>2, HardFileAssumption DEF Hard!HardFileAssumption, Hard!Unit

LEMMA HardFields ==
  /\ \A d \in UnitRec : /\ d.name \in File \union {NoHardFile} /\ d.hdf \in BOOLEAN
                        /\ d.open \in {"no", "yes"} /\ d.hasRdb \in BOOLEAN
                        /\ d.rdb \in Content \union {NoRdb}
  /\ \A h \in HeaderRec : /\ h.type \in STRING /\ h.version \in Nat /\ h.unit \in Hard!Unit
                          /\ h.live \in BOOLEAN /\ h.loaded \in BOOLEAN
  /\ \A k \in KickRec : k.type \in STRING /\ k.version \in Nat
  /\ \A a \in AmigaRec : /\ a.boot \in {"config", "diag", "load", "mount"} /\ a.next \in Nat \ {0}
                         /\ a.packets \in Seq(PacketRec) /\ a.mounted \in Seq(MountRec)
BY DEF UnitRec, HeaderRec, KickRec, AmigaRec

-----------------------------------------------------------------------------
(* Units.  One that has been read can be opened, and what is known of a    *)
(* partition table is one.                                                 *)
ReadyOn(disks, d) ==
  /\ d.open = "yes" => d.hdf
  /\ d.hdf => /\ d.name \in File /\ disks[d.name].exists /\ disks[d.name].cylinders > 0
              /\ d.hasRdb => d.rdb \in Content

Ready(d) == ReadyOn(disk, d)

LEMMA InitializedIs ==
  ASSUME disk \in [File -> Content], NEW d \in UnitRec
  PROVE  LET r == Hard!Initialized(d)
         IN  /\ r \in UnitRec /\ Ready(r) /\ r.name = d.name
             /\ (r.open = "yes" <=> r.hdf)
<1> DEFINE cleared == Hard!Cleared(d)
           opened == Hard!Opened(cleared)
           c == disk[d.name]
           result == Hard!HasRigidDiskBlock(c)
           known == [opened EXCEPT !.hasRdb = result = "found"]
           r == Hard!Initialized(d)
<1> SUFFICES r \in UnitRec /\ Ready(r) /\ r.name = d.name /\ (r.open = "yes" <=> r.hdf)
  OBVIOUS
<1>1. /\ cleared \in UnitRec /\ cleared.name = d.name /\ cleared.open = "no" /\ ~cleared.hdf
      /\ cleared.rdb = NoRdb
  BY HardFields DEF Hard!Cleared, UnitRec
<1>2. /\ opened \in UnitRec /\ opened.name = d.name /\ ~opened.hdf /\ opened.rdb = NoRdb
      /\ opened.open = "yes" => /\ d.name # NoHardFile /\ disk[d.name].exists
                                /\ disk[d.name].cylinders > 0
  <2> HIDE DEF cleared
  <2> QED  BY <1>1, HardFields DEF Hard!Opened, UnitRec
<1>3. \A x \in UnitRec : /\ Hard!Cleared(x) \in UnitRec /\ Hard!Cleared(x).name = x.name
                         /\ Hard!Cleared(x).open = "no" /\ ~Hard!Cleared(x).hdf
  BY HardFields DEF Hard!Cleared, UnitRec
<1>4. r = IF opened.open = "no" THEN opened
          ELSE IF result \in {"header error", "partition error"} THEN Hard!Cleared(opened)
          ELSE IF result = "not found" THEN [known EXCEPT !.hdf = TRUE]
          ELSE IF Hard!FileSystemErrors(c) THEN Hard!Cleared(known)
          ELSE IF c.cylinders < c.geometry THEN Hard!Cleared([known EXCEPT !.rdb = c])
          ELSE [known EXCEPT !.rdb = c, !.hdf = TRUE]
  BY DEF Hard!Initialized
<1> HIDE DEF cleared, opened, result, r
<1>5. /\ known \in UnitRec /\ known.name = d.name /\ known.open = opened.open
      /\ known.hasRdb = (result = "found") /\ known.rdb = NoRdb
  BY <1>2, HardFields DEF UnitRec
<1>6. CASE opened.open = "no"
  BY <1>2, <1>4, <1>6 DEF Ready, ReadyOn
<1>7. CASE opened.open # "no"
  <2>1. opened.open = "yes" /\ d.name \in File /\ c \in Content
    BY <1>2, <1>7, HardFields
  <2> HIDE DEF known
  <2> DEFINE plain == [known EXCEPT !.hdf = TRUE]
             table == [known EXCEPT !.rdb = c]
             full  == [known EXCEPT !.rdb = c, !.hdf = TRUE]
  <2>2. /\ plain \in UnitRec /\ plain.name = d.name /\ plain.open = "yes" /\ plain.hdf
        /\ plain.hasRdb = known.hasRdb
    BY <1>5, <2>1 DEF UnitRec
  <2>3. table \in UnitRec /\ table.name = d.name
    BY <1>5, <2>1 DEF UnitRec
  <2>4. /\ full \in UnitRec /\ full.name = d.name /\ full.open = "yes" /\ full.hdf /\ full.rdb = c
    BY <1>5, <2>1 DEF UnitRec
  <2> HIDE DEF plain, table, full
  <2>5. CASE r = Hard!Cleared(opened) \/ r = Hard!Cleared(known) \/ r = Hard!Cleared(table)
    <3>1. r \in UnitRec /\ r.name = d.name /\ r.open = "no" /\ ~r.hdf
      BY <1>2, <1>3, <1>5, <2>3, <2>5
    <3> QED  BY <3>1 DEF Ready, ReadyOn
  <2>6. CASE r = plain /\ result = "not found"
    BY <1>2, <1>5, <2>1, <2>2, <2>6 DEF Ready, ReadyOn
  <2>7. CASE r = full
    BY <1>2, <2>1, <2>4, <2>7 DEF Ready, ReadyOn
  <2>8. \/ r = Hard!Cleared(opened) \/ r = Hard!Cleared(known) \/ r = Hard!Cleared(table)
        \/ (r = plain /\ result = "not found") \/ r = full
    BY <1>4, <1>7 DEF plain, table, full
  <2> QED  BY <2>5, <2>6, <2>7, <2>8
<1> QED  BY <1>6, <1>7

LEMMA RemovedIs ==
  ASSUME NEW d \in UnitRec, d.open = "no"
  PROVE  LET r == Hard!Removed(d)
         IN  r \in UnitRec /\ r.name = NoHardFile /\ r.open = "no" /\ ~r.hdf /\ Ready(r)
<1> DEFINE r == Hard!Removed(d)
<1>1. r \in UnitRec /\ r.name = NoHardFile /\ r.open = "no" /\ ~r.hdf
  BY HardFields DEF Hard!Removed, UnitRec
<1> HIDE DEF r
<1> QED  BY <1>1 DEF Ready, ReadyOn, r

(* A unit at the start of a session, and at its end.                       *)
Started(d) == IF d.hdf /\ d.open = "no" THEN Hard!Opened(d) ELSE d

LEMMA StartedIs ==
  ASSUME NEW d \in UnitRec, Ready(d)
  PROVE  /\ Started(d) \in UnitRec /\ Ready(Started(d))
         /\ Started(d).open = IF d.hdf THEN "yes" ELSE "no"
         /\ Started(d).name = d.name /\ Started(d).hdf = d.hdf
         /\ Started(d).hasRdb = d.hasRdb /\ Started(d).rdb = d.rdb
<1>1. CASE d.hdf /\ d.open = "no"
  <2>1. Started(d) = [d EXCEPT !.open = "yes"]
    <3>1. d.name # NoHardFile
      BY <1>1, HardConstants DEF Ready, ReadyOn
    <3> QED  BY <1>1, <3>1 DEF Started, Hard!Opened, Ready, ReadyOn
  <2>2. /\ Started(d) \in UnitRec /\ Started(d).open = "yes" /\ Started(d).name = d.name
        /\ Started(d).hdf = d.hdf /\ Started(d).hasRdb = d.hasRdb /\ Started(d).rdb = d.rdb
    BY <2>1, HardFields DEF UnitRec
  <2> QED  BY <1>1, <2>2 DEF Ready, ReadyOn
<1>2. CASE ~(d.hdf /\ d.open = "no")
  BY <1>2, HardFields DEF Started, Ready, ReadyOn
<1> QED  BY <1>1, <1>2

LEMMA ClosedIs ==
  ASSUME NEW d \in UnitRec, Ready(d)
  PROVE  LET r == Hard!Closed(d)
         IN  /\ r \in UnitRec /\ Ready(r) /\ r.open = "no"
             /\ r.name = d.name /\ r.hdf = d.hdf /\ r.hasRdb = d.hasRdb /\ r.rdb = d.rdb
<1> DEFINE r == Hard!Closed(d)
<1>1. CASE d.open = "yes"
  <2>1. r = [d EXCEPT !.open = "no"]
    BY <1>1 DEF Hard!Closed, Ready, ReadyOn
  <2>2. r \in UnitRec /\ r.open = "no" /\ r.name = d.name /\ r.hdf = d.hdf /\ r.hasRdb = d.hasRdb
        /\ r.rdb = d.rdb
    BY <2>1, HardFields DEF UnitRec
  <2> HIDE DEF r
  <2> QED  BY <2>2 DEF Ready, ReadyOn, r
<1>2. CASE d.open = "no"
  BY <1>2 DEF Hard!Closed
<1> QED  BY <1>1, <1>2, HardFields
-----------------------------------------------------------------------------
(* The lists that are built when the Amiga boots.                          *)

(* A file system of an RDB that a unit now has, not yet loaded.            *)
LiveRec(devices) == {h \in HeaderRec : h.live /\ ~h.loaded /\ devices[h.unit].name \in File}

LEMMA AllHeadersAre ==
  ASSUME NEW devices \in Devices, \A u \in Hard!Unit : Ready(devices[u])
  PROVE  Hard!AllHeaders(devices) \in Seq(LiveRec(devices))
<1> DEFINE L == LiveRec(devices)
<1>1. ASSUME NEW u \in Hard!Unit PROVE Hard!HeadersOf(devices, u) \in Seq(L)
  <2> DEFINE d == devices[u]
             c == d.rdb
             headers == Hard!FileSystemHeaders(c)
             Row(i) == [type |-> headers[i].type, version |-> headers[i].version,
                        unit |-> u, live |-> TRUE, loaded |-> FALSE]
  <2>1. d \in UnitRec /\ Ready(d)
    BY <1>1 DEF Devices
  <2>2. CASE d.open = "no" \/ ~d.hasRdb
    <3>1. Hard!HeadersOf(devices, u) = <<>>
      BY <2>2 DEF Hard!HeadersOf
    <3> HIDE DEF L
    <3> QED  BY <3>1
  <2>3. CASE ~(d.open = "no" \/ ~d.hasRdb)
    <3>1. c \in Content /\ d.name \in File
      BY <2>1, <2>3, HardFields DEF Ready, ReadyOn
    <3>2. IsFiniteSet(DOMAIN c.system)
          /\ \A b \in DOMAIN c.system : c.system[b].version \in Nat /\ c.system[b].type \in STRING
      BY <3>1, HardConstants
    <3> DEFINE Held == {c.system[b] : b \in DOMAIN c.system}
    <3>3. headers \in Seq(Held)
      BY <3>2, HoldsIs DEF Hard!FileSystemHeaders
    <3>4. \A x \in Held : x.type \in STRING /\ x.version \in Nat
      BY <3>2
    <3>5. Hard!HeadersOf(devices, u) = [i \in DOMAIN headers |-> Row(i)]
      BY <2>3 DEF Hard!HeadersOf
    <3> HIDE DEF headers, Held
    <3>6. PICK n \in Nat : DOMAIN headers = 1 .. n /\ \A i \in 1 .. n : headers[i] \in Held
      BY <3>3
    <3>7. \A i \in 1 .. n : Row(i) \in L
      <4> TAKE i \in 1 .. n
      <4>1. Row(i) \in HeaderRec
        BY <1>1, <3>4, <3>6 DEF HeaderRec
      <4> QED  BY <3>1, <4>1 DEF LiveRec
    <3> HIDE DEF Row, L
    <3>8. [i \in 1 .. n |-> Row(i)] \in Seq(L)
      BY <3>7
    <3> QED  BY <3>5, <3>6, <3>8
  <2> QED  BY <2>2, <2>3
<1> DEFINE seqs == [i \in 1 .. Units |-> Hard!HeadersOf(devices, i - 1)]
<1>2. Units \in Nat /\ \A i \in 1 .. Units : i - 1 \in Hard!Unit
  BY HardConstants
<1> HIDE DEF L
<1>3. seqs \in [1 .. Units -> Seq(L)]
  BY <1>1, <1>2
<1>4. Hard!AllHeaders(devices) = Hard!FlattenSeq(seqs)
  BY DEF Hard!AllHeaders
<1> HIDE DEF seqs
<1> QED  BY <1>2, <1>3, <1>4, FlattenIs DEF L

LEMMA AddFileSystemIs ==
  ASSUME NEW L, NEW list \in Seq(L), NEW header \in L
  PROVE  Hard!AddFileSystem(list, header) \in Seq(L)
<1> DEFINE older == Hard!FindOlderOrSame(list, header.type, header.version)
<1>1. CASE older = {}
  BY <1>1 DEF Hard!AddFileSystem
<1>2. CASE older # {}
  BY <1>2 DEF Hard!AddFileSystem
<1> QED  BY <1>1, <1>2

(* AddFileSystemsFromRdb adds the headers one after the other.             *)
LEMMA AddedIs ==
  ASSUME NEW L, NEW devices, Hard!AllHeaders(devices) \in Seq(L)
  PROVE  LET headers == Hard!AllHeaders(devices)
             n == Len(headers)
         IN  \E w \in [0 .. n -> Seq(L)] :
               /\ w[0] = <<>>
               /\ \A i \in 1 .. n : w[i] = Hard!AddFileSystem(w[i - 1], headers[i])
               /\ Hard!AddFileSystemsFromRdb(devices) = w[n]
<1> DEFINE headers == Hard!AllHeaders(devices)
           n == Len(headers)
           R == Seq(L)
           Next1(r, i) == Hard!AddFileSystem(r, headers[i])
           step == [i \in Nat |-> [r \in R |-> IF i \in 1 .. n THEN Next1(r, i) ELSE r]]
           Is(u) == u = [i \in 0 .. n |-> IF i = 0 THEN <<>> ELSE Next1(u[i - 1], i)]
           u == CHOOSE v : Is(v)
<1>1. n \in Nat /\ <<>> \in R
  OBVIOUS
<1>2. \A r \in R, i \in 1 .. n : Next1(r, i) \in R
  <2> TAKE r \in R, i \in 1 .. n
  <2>1. headers[i] \in L
    OBVIOUS
  <2> HIDE DEF headers
  <2> QED  BY <2>1, AddFileSystemIs
<1>3. Hard!AddFileSystemsFromRdb(devices) = u[n]
  BY DEF Hard!AddFileSystemsFromRdb
<1> HIDE DEF Next1, R, n
<1>4. step \in [Nat -> [R -> R]] /\ \A r \in R, i \in 1 .. n : step[i][r] = Next1(r, i)
  <2>1. \A i \in Nat, r \in R : (IF i \in 1 .. n THEN Next1(r, i) ELSE r) \in R
    BY <1>2
  <2> QED  BY <2>1
<1> HIDE DEF step
<1>5. PICK v \in [0 .. n -> R] : Recursive(v, n, <<>>, step)
  BY <1>1, <1>4, RecursionExists
<1>6. Is(v)
  <2>1. ASSUME NEW i \in 0 .. n
        PROVE  v[i] = IF i = 0 THEN <<>> ELSE Next1(v[i - 1], i)
    <3>1. i # 0 => i - 1 \in 0 .. n /\ i \in 1 .. n /\ v[i - 1] \in R
      BY <1>1, <1>5
    <3> QED  BY <1>5, <1>4, <3>1 DEF Recursive
  <2> QED  BY <1>5, <2>1
<1>7. Is(u)
  <2> HIDE DEF Is
  <2> QED  BY <1>6 DEF u
<1> HIDE DEF u
<1>8. u[0] = <<>> /\ DOMAIN u = 0 .. n /\ \A i \in 1 .. n : u[i] = Next1(u[i - 1], i)
  BY <1>1, <1>7
<1> DEFINE T == {i \in Nat : i <= n => u[i] \in R}
<1>9. \A i \in Nat : i \in T
  <2>1. 0 \in T
    BY <1>1, <1>8
  <2>2. ASSUME NEW i \in Nat, i \in T PROVE i + 1 \in T
    <3> SUFFICES ASSUME i + 1 <= n PROVE u[i + 1] \in R
      OBVIOUS
    <3>1. i + 1 \in 1 .. n /\ i + 1 - 1 = i /\ u[i] \in R
      BY <1>1, <2>2
    <3> QED  BY <1>2, <1>8, <3>1
  <2>3. T \in SUBSET Nat
    OBVIOUS
  <2> HIDE DEF T
  <2> QED  BY <2>1, <2>2, <2>3, Induction
<1>10. u \in [0 .. n -> R]
  <2>1. \A i \in 0 .. n : u[i] \in R
    BY <1>1, <1>9
  <2>2. u = [i \in 0 .. n |-> u[i]]
    BY <1>7, <1>8
  <2> HIDE DEF Is
  <2> QED  BY <2>1, <2>2
<1> HIDE DEF Is
<1> QED  BY <1>3, <1>8, <1>10 DEF R, n, Next1

LEMMA EraseIs ==
  ASSUME NEW L, NEW list \in Seq(L), NEW type, NEW version
  PROVE  LET keep == DOMAIN list \ Hard!FindOlderOrSame(list, type, version)
             r == Hard!EraseOlderOrSame(list, type, version)
         IN  r \in Seq(L) /\ Subsequence(r, list, keep)
<1> DEFINE keep == DOMAIN list \ Hard!FindOlderOrSame(list, type, version)
<1>1. keep \in SUBSET DOMAIN list
  OBVIOUS
<1> HIDE DEF keep
<1>2. Hard!Chosen(list, keep) \in Seq(L) /\ Subsequence(Hard!Chosen(list, keep), list, keep)
  BY <1>1, ChosenIs
<1> QED  BY <1>2 DEF Hard!EraseOlderOrSame, keep

(* RemoveSupported erases for the file systems of the Kickstart in order.  *)
LEMMA RemovedSupportedIs ==
  ASSUME NEW L, NEW list \in Seq(L), kick \in Seq(KickRec)
  PROVE  LET n == Len(kick)
         IN  \E w \in [0 .. n -> Seq(L)] :
               /\ w[0] = list
               /\ \A i \in 1 .. n :
                    w[i] = Hard!EraseOlderOrSame(w[i - 1], kick[i].type, kick[i].version)
               /\ Hard!RemoveSupported(list) = w[n]
<1> DEFINE n == Len(kick)
           R == Seq(L)
           Next1(r, i) == Hard!EraseOlderOrSame(r, kick[i].type, kick[i].version)
           step == [i \in Nat |-> [r \in R |-> Next1(r, i)]]
           Is(u) == u = [i \in 0 .. n |-> IF i = 0 THEN list ELSE Next1(u[i - 1], i)]
           u == CHOOSE v : Is(v)
<1>1. n \in Nat /\ list \in R
  OBVIOUS
<1>2. \A r \in R, i \in Nat : Next1(r, i) \in R
  BY EraseIs
<1>3. Hard!RemoveSupported(list) = u[n]
  BY DEF Hard!RemoveSupported
<1> HIDE DEF Next1, R, n
<1>4. step \in [Nat -> [R -> R]] /\ \A r \in R, i \in Nat : step[i][r] = Next1(r, i)
  BY <1>2
<1> HIDE DEF step
<1>5. PICK v \in [0 .. n -> R] : Recursive(v, n, list, step)
  BY <1>1, <1>4, RecursionExists
<1>6. Is(v)
  <2>1. ASSUME NEW i \in 0 .. n
        PROVE  v[i] = IF i = 0 THEN list ELSE Next1(v[i - 1], i)
    <3>1. i # 0 => i - 1 \in 0 .. n /\ i \in Nat /\ v[i - 1] \in R
      BY <1>1, <1>5
    <3> QED  BY <1>5, <1>4, <3>1 DEF Recursive
  <2> QED  BY <1>5, <2>1
<1>7. Is(u)
  <2> HIDE DEF Is
  <2> QED  BY <1>6 DEF u
<1> HIDE DEF u
<1>8. u[0] = list /\ DOMAIN u = 0 .. n /\ \A i \in 1 .. n : u[i] = Next1(u[i - 1], i)
  BY <1>1, <1>7
<1> DEFINE T == {i \in Nat : i <= n => u[i] \in R}
<1>9. \A i \in Nat : i \in T
  <2>1. 0 \in T
    BY <1>1, <1>8
  <2>2. ASSUME NEW i \in Nat, i \in T PROVE i + 1 \in T
    <3> SUFFICES ASSUME i + 1 <= n PROVE u[i + 1] \in R
      OBVIOUS
    <3>1. i + 1 \in 1 .. n /\ i + 1 - 1 = i /\ u[i] \in R
      BY <1>1, <2>2
    <3> QED  BY <1>2, <1>8, <3>1
  <2>3. T \in SUBSET Nat
    OBVIOUS
  <2> HIDE DEF T
  <2> QED  BY <2>1, <2>2, <2>3, Induction
<1>10. u \in [0 .. n -> R]
  <2>1. \A i \in 0 .. n : u[i] \in R
    BY <1>1, <1>9
  <2>2. u = [i \in 0 .. n |-> u[i]]
    BY <1>7, <1>8
  <2> HIDE DEF Is
  <2> QED  BY <2>1, <2>2
<1> HIDE DEF Is
<1> QED  BY <1>3, <1>8, <1>10 DEF R, n, Next1
-----------------------------------------------------------------------------
(* The list of mounts.                                                     *)

LEMMA MountableIs ==
  ASSUME NEW devices \in Devices, \A u \in Hard!Unit : Ready(devices[u]), NEW u \in Hard!Unit
  PROVE  Hard!Mountable(devices, u) \in Seq(PartRec)
<1> DEFINE d == devices[u]
           c == d.rdb
           parts == Hard!Partitions(c)
           chosen == {i \in DOMAIN parts : parts[i].automount}
           auto == Hard!Chosen(parts, chosen)
           Row(i) == [unit |-> u, wants |-> auto[i].name, type |-> auto[i].type]
<1>1. d \in UnitRec /\ Ready(d)
  BY DEF Devices
<1>2. CASE d.open = "no"
  <2>1. Hard!Mountable(devices, u) = <<>>
    BY <1>2 DEF Hard!Mountable
  <2> QED  BY <2>1
<1>3. CASE d.open # "no" /\ ~d.hasRdb
  <2>1. Hard!Mountable(devices, u) = <<[unit |-> u, wants |-> Hard!NoName, type |-> "DOS"]>>
    BY <1>3 DEF Hard!Mountable
  <2>2. [unit |-> u, wants |-> Hard!NoName, type |-> "DOS"] \in PartRec
    <3>1. Hard!NoName \in Int
      BY DEF Hard!NoName
    <3> HIDE DEF Hard!NoName
    <3> QED  BY <3>1 DEF PartRec, DosType
  <2> QED  BY <2>1, <2>2
<1>4. CASE d.open # "no" /\ d.hasRdb
  <2>1. c \in Content
    BY <1>1, <1>4, HardFields DEF Ready, ReadyOn
  <2>2. IsFiniteSet(DOMAIN c.part)
        /\ \A b \in DOMAIN c.part : c.part[b].name \in Nat /\ c.part[b].type \in STRING
    BY <2>1, HardConstants
  <2> DEFINE Held == {c.part[b] : b \in DOMAIN c.part}
  <2>3. parts \in Seq(Held)
    BY <2>2, HoldsIs DEF Hard!Partitions
  <2>4. \A x \in Held : x.type \in STRING /\ x.name \in Nat
    BY <2>2
  <2>5. Hard!Mountable(devices, u) = [i \in DOMAIN auto |-> Row(i)]
    BY <1>4 DEF Hard!Mountable
  <2> HIDE DEF parts, Held
  <2>6. auto \in Seq(Held)
    <3>1. chosen \in SUBSET DOMAIN parts
      OBVIOUS
    <3> HIDE DEF chosen
    <3> QED  BY <2>3, <3>1, ChosenIs
  <2> HIDE DEF auto
  <2>7. PICK n \in Nat : DOMAIN auto = 1 .. n /\ \A i \in 1 .. n : auto[i] \in Held
    BY <2>6
  <2>8. \A i \in 1 .. n : Row(i) \in PartRec
    BY <2>4, <2>7 DEF PartRec, DosType
  <2> HIDE DEF Row
  <2>9. [i \in 1 .. n |-> Row(i)] \in Seq(PartRec)
    BY <2>8
  <2> QED  BY <2>5, <2>7, <2>9
<1> QED  BY <1>2, <1>3, <1>4

(* Among the numbers from a first one on, one more than are used, the      *)
(* first free one is the name of a device.                                 *)
LEMMA MakeDeviceNameIs ==
  ASSUME NEW taken, IsFiniteSet(taken), NEW number \in Nat
  PROVE  LET k == Hard!MakeDeviceName(taken, number) IN k \in Nat /\ k >= number /\ k \notin taken
<1> DEFINE c == Cardinality(taken)
           span == number .. number + c
           Right(k) == k \notin taken /\ number .. k - 1 \subseteq taken
<1>1. Hard!MakeDeviceName(taken, number) = CHOOSE k \in span : Right(k)
  BY SameCardinality DEF Hard!MakeDeviceName
<1>2. c \in Nat
  BY FS_CardinalityType
<1>3. \E k \in span : k \notin taken
  <2> SUFFICES ASSUME span \subseteq taken PROVE FALSE
    OBVIOUS
  <2>1. Cardinality(span) <= c
    BY FS_Subset
  <2>2. number + c \in Int /\ number \in Int /\ ~(number > number + c)
    BY <1>2
  <2>3. Cardinality(span) = (number + c) - number + 1
    BY <2>2, FS_Interval
  <2> HIDE DEF c
  <2> QED  BY <1>2, <2>1, <2>3
<1> DEFINE free == {k \in span : k \notin taken}
<1> HIDE DEF c
<1>4. free \subseteq Nat /\ free # {}
  BY <1>2, <1>3
<1>5. PICK k \in free : \A j \in free : k <= j
  <2> HIDE DEF free
  <2> QED  BY <1>4, Least
<1>6. Right(k)
  <2>1. ASSUME NEW j \in number .. k - 1 PROVE j \in taken
    BY <1>2, <1>5
  <2> QED  BY <1>5, <2>1
<1>7. \E j \in span : Right(j)
  BY <1>5, <1>6
<1> DEFINE it == CHOOSE j \in span : Right(j)
<1> HIDE DEF Right
<1>8. it \in span /\ Right(it)
  BY <1>7
<1> HIDE DEF it
<1>9. it \in Nat /\ it >= number
  BY <1>2, <1>8
<1> QED  BY <1>1, <1>8, <1>9 DEF Right, it

MadeRec == [list : Seq(PacketRec), number : Nat]

Distinct(list) == \A i, j \in DOMAIN list : i # j => list[i].name # list[j].name

LEMMA AddMountIs ==
  ASSUME NEW made \in MadeRec, NEW p \in PartRec
  PROVE  /\ Hard!AddMount(made, p) \in MadeRec
         /\ Distinct(made.list) => Distinct(Hard!AddMount(made, p).list)
<1> DEFINE list == made.list
           taken == {list[i].name : i \in DOMAIN list}
           number == Hard!MakeDeviceName(taken, made.number)
           row(name) == [unit |-> p.unit, type |-> p.type, name |-> name]
           added == Hard!AddMount(made, p)
<1>1. /\ list \in Seq(PacketRec) /\ made.number \in Nat
      /\ p.unit \in Hard!Unit /\ p.type \in DosType /\ p.wants \in Int
  BY DEF MadeRec, PartRec
<1>2. IsFiniteSet(taken)
  <2>1. PICK n \in Nat : DOMAIN list = 1 .. n
    BY <1>1
  <2>2. IsFiniteSet(1 .. n)
    BY <2>1, FS_Interval
  <2> HIDE DEF list
  <2> DEFINE T == {list[i].name : i \in 1 .. n}
             names == [i \in 1 .. n |-> list[i].name]
  <2>3. names \in Surjection(1 .. n, T)
    BY DEF Surjection
  <2> HIDE DEF names, T
  <2>4. IsFiniteSet(T)
    BY <2>2, <2>3, FS_Surjection
  <2> QED  BY <2>1, <2>4 DEF T
<1>3. number \in Nat /\ number \notin taken
  <2> HIDE DEF taken, list
  <2> QED  BY <1>1, <1>2, MakeDeviceNameIs
<1>4. \/ /\ p.wants \notin taken /\ added = [made EXCEPT !.list = Append(@, row(p.wants))]
      \/ added = [list |-> Append(list, row(number)), number |-> number + 1]
  BY DEF Hard!AddMount
<1> HIDE DEF added, number
<1>5. PICK name \in Int : /\ name \notin taken /\ added.list = Append(list, row(name))
                          /\ added \in MadeRec
  <2>1. ASSUME NEW x \in Int PROVE Append(list, row(x)) \in Seq(PacketRec)
    <3>1. row(x) \in PacketRec
      BY <1>1 DEF PacketRec
    <3> HIDE DEF row, list
    <3> QED  BY <1>1, <3>1
  <2> HIDE DEF row
  <2>2. CASE /\ p.wants \notin taken /\ added = [made EXCEPT !.list = Append(@, row(p.wants))]
    <3> DEFINE s == Append(made.list, row(p.wants))
    <3>1. added = [made EXCEPT !.list = s] /\ s \in Seq(PacketRec)
      BY <1>1, <2>1, <2>2
    <3> HIDE DEF s, taken
    <3>2. added.list = s /\ added \in MadeRec
      BY <3>1 DEF MadeRec
    <3> QED  BY <1>1, <2>2, <3>2 DEF s
  <2>3. CASE added = [list |-> Append(list, row(number)), number |-> number + 1]
    <3> DEFINE s == Append(made.list, row(number))
    <3>1. added = [list |-> s, number |-> number + 1] /\ s \in Seq(PacketRec)
      BY <1>3, <2>1, <2>3
    <3> HIDE DEF s, taken
    <3>2. added.list = s /\ added \in MadeRec
      BY <1>3, <3>1 DEF MadeRec
    <3> QED  BY <1>3, <3>2 DEF s
  <2> QED  BY <1>4, <2>2, <2>3
<1>6. ASSUME Distinct(list) PROVE Distinct(added.list)
  <2> DEFINE s == Append(list, row(name))
  <2> SUFFICES ASSUME NEW i \in DOMAIN s, NEW j \in DOMAIN s, i < j
               PROVE  s[i].name # s[j].name
    <3>1. DOMAIN s \subseteq Int /\ s = added.list
      BY <1>1, <1>5
    <3> HIDE DEF s
    <3> QED  BY <3>1 DEF Distinct
  <2>1. i \in DOMAIN list /\ s[i] = list[i] /\ (j \in DOMAIN list \/ j = Len(list) + 1)
    BY <1>1
  <2>2. CASE j \in DOMAIN list
    <3>1. s[j] = list[j] /\ i # j
      BY <1>1, <2>1, <2>2
    <3> HIDE DEF s, list
    <3> QED  BY <1>6, <2>1, <2>2, <3>1 DEF Distinct
  <2>3. CASE j = Len(list) + 1
    <3>1. s[j] = row(name)
      BY <1>1, <2>3
    <3>2. list[i].name \in taken
      BY <2>1
    <3> HIDE DEF s, list, taken
    <3> QED  BY <1>5, <2>1, <3>1, <3>2
  <2> QED  BY <2>1, <2>2, <2>3
<1> QED  BY <1>5, <1>6 DEF added

LEMMA MountListIs ==
  ASSUME NEW devices \in Devices, \A u \in Hard!Unit : Ready(devices[u])
  PROVE  Hard!CreateMountList(devices) \in Seq(PacketRec) /\ Distinct(Hard!CreateMountList(devices))
<1> DEFINE seqs == [i \in 1 .. Units |-> Hard!Mountable(devices, i - 1)]
           all == Hard!FlattenSeq(seqs)
           n == Len(all)
           base == [list |-> <<>>, number |-> 0]
           R == {m \in MadeRec : Distinct(m.list)}
           Next1(r, i) == Hard!AddMount(r, all[i])
           step == [i \in Nat |-> [r \in R |-> IF i \in 1 .. n THEN Next1(r, i) ELSE r]]
           Is(u) == u = [i \in 0 .. n |-> IF i = 0 THEN base ELSE Next1(u[i - 1], i)]
           u == CHOOSE v : Is(v)
<1>1. all \in Seq(PartRec)
  <2>1. Units \in Nat /\ \A i \in 1 .. Units : i - 1 \in Hard!Unit
    BY HardConstants
  <2>2. seqs \in [1 .. Units -> Seq(PartRec)]
    BY <2>1, MountableIs
  <2> HIDE DEF seqs
  <2> QED  BY <2>1, <2>2, FlattenIs
<1>2. base \in R
  BY DEF MadeRec, Distinct
<1>3. Hard!CreateMountList(devices) = u[n].list
  BY DEF Hard!CreateMountList
<1> HIDE DEF all
<1>4. n \in Nat /\ \A r \in R, i \in 1 .. n : Next1(r, i) \in R
  BY <1>1, AddMountIs
<1> HIDE DEF Next1, R, n, base
<1>5. step \in [Nat -> [R -> R]] /\ \A r \in R, i \in 1 .. n : step[i][r] = Next1(r, i)
  <2>1. \A i \in Nat, r \in R : (IF i \in 1 .. n THEN Next1(r, i) ELSE r) \in R
    BY <1>4
  <2> QED  BY <2>1
<1> HIDE DEF step
<1>6. PICK v \in [0 .. n -> R] : Recursive(v, n, base, step)
  BY <1>2, <1>4, <1>5, RecursionExists
<1>7. Is(v)
  <2>1. ASSUME NEW i \in 0 .. n
        PROVE  v[i] = IF i = 0 THEN base ELSE Next1(v[i - 1], i)
    <3>1. i # 0 => i - 1 \in 0 .. n /\ i \in 1 .. n /\ v[i - 1] \in R
      BY <1>4, <1>6
    <3> QED  BY <1>6, <1>5, <3>1 DEF Recursive
  <2> QED  BY <1>6, <2>1
<1>8. Is(u)
  <2> HIDE DEF Is
  <2> QED  BY <1>7 DEF u
<1> HIDE DEF u
<1>9. u[0] = base /\ \A i \in 1 .. n : u[i] = Next1(u[i - 1], i)
  BY <1>4, <1>8
<1> DEFINE T == {i \in Nat : i <= n => u[i] \in R}
<1>10. \A i \in Nat : i \in T
  <2>1. 0 \in T
    BY <1>2, <1>9
  <2>2. ASSUME NEW i \in Nat, i \in T PROVE i + 1 \in T
    <3> SUFFICES ASSUME i + 1 <= n PROVE u[i + 1] \in R
      OBVIOUS
    <3>1. i + 1 \in 1 .. n /\ i + 1 - 1 = i /\ u[i] \in R
      BY <1>4, <2>2
    <3> QED  BY <1>4, <1>9, <3>1
  <2>3. T \in SUBSET Nat
    OBVIOUS
  <2> HIDE DEF T
  <2> QED  BY <2>1, <2>2, <2>3, Induction
<1>11. u[n] \in R
  BY <1>4, <1>10
<1> QED  BY <1>3, <1>11 DEF R, MadeRec
-----------------------------------------------------------------------------
(* The invariant.                                                          *)

(* What is mounted is the file it was, as long as no reset is due, unless  *)
(* its unit has been removed.                                              *)
MountedAreSame ==
  preStart \/ \A i \in DOMAIN amiga.mounted :
                device[amiga.mounted[i].unit].name \in {amiga.mounted[i].file, NoHardFile}

(* A file system that was found at this boot is in the RDB of a unit that  *)
(* is there, or was removed since.                                         *)
FoundAreThere ==
  preStart \/ amiga.boot = "config" \/
    \A i \in DOMAIN fileSystems :
      \/ fileSystems[i].live /\ device[fileSystems[i].unit].name # NoHardFile
      \/ fileSystems[i].unit \in unplugged

HardInv ==
  /\ HardTypes
  /\ \A u \in Hard!Unit : ReadyOn(disk, device[u])
  /\ stage = "running" => ~preStart
  /\ stage = "dialog" => \A u \in Hard!Unit : device[u].open = "no"
  /\ MountedAreSame /\ FoundAreThere
  /\ Distinct(amiga.packets)

LEMMA HardInvImplies == HardInv => Hard!UnitsAreSound /\ Hard!NamesDiffer
<1> SUFFICES ASSUME HardInv PROVE Hard!UnitsAreSound /\ Hard!NamesDiffer
  OBVIOUS
<1>1. device \in Devices /\ amiga \in AmigaRec
  BY DEF HardInv, HardTypes
<1>2. \A u \in Hard!Unit : device[u] \in UnitRec
  BY <1>1 DEF Devices
<1>3. Hard!HandlesAreSound
  BY <1>2, HardFields DEF Hard!HandlesAreSound
<1>4. Hard!HeadersAreLive
  BY DEF HardInv, FoundAreThere, Hard!HeadersAreLive
<1>5. Hard!UnitsKeepTheirFiles
  <2> SUFFICES ASSUME stage = "running", NEW i \in DOMAIN amiga.mounted,
                      device[amiga.mounted[i].unit].open = "yes"
               PROVE  device[amiga.mounted[i].unit].name = amiga.mounted[i].file
    BY DEF Hard!UnitsKeepTheirFiles
  <2>1. amiga.mounted[i].unit \in Hard!Unit
    <3>1. amiga.mounted \in Seq(MountRec)
      BY <1>1, HardFields
    <3>2. amiga.mounted[i] \in MountRec
      BY <3>1
    <3> QED  BY <3>2 DEF MountRec
  <2>2. device[amiga.mounted[i].unit].name \in File
    BY <2>1 DEF HardInv, ReadyOn
  <2>3. device[amiga.mounted[i].unit].name \in {amiga.mounted[i].file, NoHardFile}
    BY DEF HardInv, MountedAreSame
  <2> QED  BY <2>2, <2>3, HardConstants
<1>6. Hard!NamesDiffer
  BY DEF HardInv, Distinct, Hard!NamesDiffer
<1> QED  BY <1>3, <1>4, <1>5, <1>6 DEF Hard!UnitsAreSound

LEMMA HardInitInv == Hard!HardInit => HardInv
<1> SUFFICES ASSUME Hard!HardInit PROVE HardInv
  OBVIOUS
<1>1. Hard!Empty \in UnitRec /\ Hard!Empty.open = "no" /\ ReadyOn(disk, Hard!Empty)
  BY DEF Hard!Empty, UnitRec, ReadyOn
<1>2. device \in Devices /\ \A u \in Hard!Unit : device[u] = Hard!Empty
  BY <1>1 DEF Devices, Hard!HardInit
<1>3. /\ amiga \in AmigaRec /\ amiga.packets = <<>> /\ amiga.mounted = <<>>
      /\ amiga.boot = "config"
  BY DEF Hard!HardInit, AmigaRec
<1>4. HardTypes
  <2>1. fileSystems \in Seq(HeaderRec)
    BY DEF Hard!HardInit
  <2> QED  BY <1>2, <1>3, <2>1 DEF HardTypes, Hard!HardInit
<1>5. Distinct(amiga.packets) /\ MountedAreSame /\ FoundAreThere
  BY <1>3 DEF Distinct, MountedAreSame, FoundAreThere
<1> QED  BY <1>1, <1>2, <1>4, <1>5 DEF HardInv, Hard!HardInit

(* The amiga after a reset, and the state that it leaves.                  *)
LEMMA ResetIs ==
  ASSUME NEW devices, Hard!Reset(devices)
  PROVE  /\ amiga' \in AmigaRec /\ amiga'.boot = "config" /\ amiga'.next = 1
         /\ amiga'.packets = <<>> /\ amiga'.mounted = <<>>
         /\ preStart' = FALSE /\ unplugged' = {}
BY DEF Hard!Reset, AmigaRec
-----------------------------------------------------------------------------
(* Every step keeps it.                                                    *)

(* What the lemmas about steps use again and again.                        *)
LEMMA HardUnits ==
  ASSUME HardInv
  PROVE  /\ HardTypes /\ \A u \in Hard!Unit : device[u] \in UnitRec /\ Ready(device[u])
         /\ \A i \in DOMAIN fileSystems : fileSystems[i] \in HeaderRec
         /\ \A i \in DOMAIN amiga.mounted : amiga.mounted[i] \in MountRec
<1>1. amiga.mounted \in Seq(MountRec) /\ fileSystems \in Seq(HeaderRec)
  BY HardFields DEF HardInv, HardTypes
<1> QED  BY <1>1 DEF HardInv, HardTypes, Devices, Ready

LEMMA ActivateKeepsUnits ==
  ASSUME HardInv, NEW names \in Hard!SeqOf(File, Units), NEW on \in BOOLEAN,
         NEW edited \in SUBSET Hard!Unit, Hard!Activate(names, on, edited)
  PROVE  HardInv'
<1> DEFINE cleared == [u \in Hard!Unit |-> IF on # enabled THEN Hard!Removed(device[u]) ELSE device[u]]
           set  == {u \in Hard!Unit : /\ on /\ u < Len(names)
                                      /\ names[u + 1] # cleared[u].name \/ u \in edited}
           gone == {u \in Hard!Unit : on /\ u >= Len(names)}
           chosen(u) == [Hard!Removed(cleared[u]) EXCEPT !.name = names[u + 1]]
           new(u) == IF u \in set THEN Hard!Initialized(chosen(u))
                     ELSE IF u \in gone THEN Hard!Removed(cleared[u]) ELSE cleared[u]
<1>1. /\ stage = "dialog" /\ stage' = "set" /\ enabled' = on
      /\ device' = [u \in Hard!Unit |-> new(u)]
      /\ preStart' = (preStart \/ Hard!NeedsReset(on, set, {u \in gone : cleared[u].open # "no"}))
      /\ fileSystems' = IF on # enabled THEN <<>> ELSE Hard!Orphaned(set \union gone)
      /\ unplugged' = unplugged \union {u \in gone : cleared[u].name # NoHardFile}
      /\ UNCHANGED <<disk, cards, kick, amiga>>
  BY DEF Hard!Activate
<1>2. HardTypes /\ \A u \in Hard!Unit : device[u] \in UnitRec /\ Ready(device[u])
  BY HardUnits
<1>3. \A u \in Hard!Unit : device[u].open = "no"
  BY <1>1 DEF HardInv
<1>4. \A u \in Hard!Unit : /\ cleared[u] \in UnitRec /\ Ready(cleared[u]) /\ cleared[u].open = "no"
                           /\ on = enabled => cleared[u] = device[u]
  BY <1>2, <1>3, RemovedIs
<1> HIDE DEF cleared
<1>5. \A u \in Hard!Unit :
        LET r == Hard!Removed(cleared[u])
        IN  r \in UnitRec /\ r.name = NoHardFile /\ r.open = "no" /\ Ready(r)
  BY <1>4, RemovedIs
<1>6. \A u \in set : chosen(u) \in UnitRec
  <2> TAKE u \in set
  <2>1. names[u + 1] \in File
    <3>1. PICK m \in Nat : names \in [1 .. m -> File]
      BY DEF Hard!SeqOf
    <3>2. Len(names) = m /\ u \in 0 .. Units - 1 /\ u < m
      BY <3>1, HardConstants
    <3>3. u + 1 \in 1 .. m
      BY <3>1, <3>2, HardConstants
    <3> QED  BY <3>1, <3>3
  <2>2. Hard!Removed(cleared[u]) \in UnitRec
    BY <1>5
  <2> QED  BY <2>1, <2>2 DEF UnitRec
<1>7. disk \in [File -> Content]
  BY <1>2 DEF HardTypes
<1> HIDE DEF chosen
<1>8. \A u \in Hard!Unit : new(u) \in UnitRec /\ Ready(new(u)) /\ (u \in gone => new(u).name = NoHardFile)
  <2> TAKE u \in Hard!Unit
  <2>1. CASE u \in set
    <3>1. u \notin gone
      BY <2>1, HardConstants
    <3>2. new(u) = Hard!Initialized(chosen(u))
      BY <2>1
    <3> HIDE DEF new, set
    <3> QED  BY <1>6, <1>7, <2>1, <3>1, <3>2, InitializedIs
  <2>2. CASE u \notin set
    <3> HIDE DEF set
    <3> QED  BY <1>4, <1>5, <2>2
  <2> QED  BY <2>1, <2>2
<1> HIDE DEF new
<1>9. device' \in Devices /\ \A u \in Hard!Unit : ReadyOn(disk', device'[u])
  BY <1>1, <1>8 DEF Devices, Ready
<1>10. on = enabled => \A u \in Hard!Unit : u \notin set \union gone => device'[u] = device[u]
  BY <1>1, <1>4 DEF new
<1>11. fileSystems' \in Seq(HeaderRec)
  <2>1. CASE on # enabled
    BY <1>1, <2>1
  <2>2. CASE on = enabled
    <3>1. fileSystems' = Hard!Orphaned(set \union gone)
      BY <1>1, <2>2
    <3> HIDE DEF set, gone
    <3>2. PICK n \in Nat : DOMAIN fileSystems = 1 .. n
                           /\ \A i \in 1 .. n : fileSystems[i] \in HeaderRec
      BY <1>2 DEF HardTypes
    <3> DEFINE row(i) == [fileSystems[i] EXCEPT !.live = @ /\ fileSystems[i].unit \notin set \union gone]
    <3>3. \A i \in 1 .. n : row(i) \in HeaderRec
      BY <3>2, HardFields DEF HeaderRec
    <3>4. fileSystems' = [i \in 1 .. n |-> row(i)]
      BY <3>1, <3>2 DEF Hard!Orphaned
    <3> HIDE DEF row
    <3> QED  BY <3>3, <3>4
  <2> QED  BY <2>1, <2>2
<1>12. HardTypes'
  <2>1. unplugged' \subseteq Hard!Unit
    BY <1>1, <1>2 DEF HardTypes
  <2>2. preStart' \in BOOLEAN
    BY <1>1 DEF HardTypes
  <2> QED  BY <1>1, <1>2, <1>9, <1>11, <2>1, <2>2 DEF HardTypes
(* Without a reset, units are only removed.                                *)
<1>13. ~preStart' => ~preStart /\ on = enabled /\ set = {}
  BY <1>1 DEF Hard!NeedsReset
<1>14. MountedAreSame'
  <2> SUFFICES ASSUME ~preStart', NEW i \in DOMAIN amiga.mounted
               PROVE  device'[amiga.mounted[i].unit].name \in {amiga.mounted[i].file, NoHardFile}
    BY <1>1 DEF MountedAreSame
  <2> DEFINE u == amiga.mounted[i].unit
  <2>1. u \in Hard!Unit /\ device[u].name \in {amiga.mounted[i].file, NoHardFile}
    BY <1>13, HardUnits DEF MountRec, HardInv, MountedAreSame
  <2>2. device'[u] = new(u)
    BY <1>1, <2>1
  <2>3. CASE u \in gone
    BY <1>8, <2>1, <2>2, <2>3
  <2>4. CASE u \notin gone
    BY <1>10, <1>13, <2>1, <2>4
  <2> QED  BY <2>3, <2>4
<1>15. FoundAreThere'
  <2> SUFFICES ASSUME ~preStart', amiga.boot # "config", NEW i \in DOMAIN fileSystems'
               PROVE  \/ fileSystems'[i].live /\ device'[fileSystems'[i].unit].name # NoHardFile
                      \/ fileSystems'[i].unit \in unplugged'
    BY <1>1 DEF FoundAreThere
  <2> DEFINE h == fileSystems[i]
             u == h.unit
  <2>1. ~preStart /\ on = enabled /\ set = {} /\ fileSystems' = Hard!Orphaned(gone)
    <3>1. set \union gone = gone <=> set \subseteq gone
      OBVIOUS
    <3> QED  BY <1>1, <1>13, <3>1
  <2> HIDE DEF set, gone
  <2>2. i \in DOMAIN fileSystems /\ fileSystems'[i] = [h EXCEPT !.live = @ /\ u \notin gone]
    BY <2>1 DEF Hard!Orphaned
  <2>3. h \in HeaderRec /\ u \in Hard!Unit
    BY <2>2, HardUnits, HardFields
  <2>4. fileSystems'[i].unit = u /\ fileSystems'[i].live = (h.live /\ u \notin gone)
    BY <2>2, <2>3 DEF HeaderRec
  <2>5. (h.live /\ device[u].name # NoHardFile) \/ u \in unplugged
    BY <1>1, <2>1, <2>2 DEF HardInv, FoundAreThere
  <2>6. CASE u \in gone
    BY <1>1, <1>4, <2>1, <2>3, <2>4, <2>5, <2>6
  <2>7. CASE u \notin gone
    BY <1>1, <1>10, <2>1, <2>3, <2>4, <2>5, <2>7
  <2> QED  BY <2>6, <2>7
<1> QED  BY <1>1, <1>9, <1>12, <1>14, <1>15 DEF HardInv
LEMMA SessionStartKeeps == ASSUME HardInv, Hard!SessionStart PROVE HardInv'
<1> DEFINE started == [u \in Hard!Unit |-> Started(device[u])]
<1>1. /\ stage = "set" /\ stage' = "running" /\ device' = started
      /\ IF preStart THEN Hard!Reset(started) ELSE UNCHANGED <<cards, amiga, preStart, unplugged>>
      /\ UNCHANGED <<disk, fileSystems, enabled, kick>>
  BY DEF Hard!SessionStart, Started
<1>2. HardTypes /\ \A u \in Hard!Unit : device[u] \in UnitRec /\ Ready(device[u])
  BY HardUnits
<1>3. \A u \in Hard!Unit : /\ device'[u] \in UnitRec /\ ReadyOn(disk, device'[u])
                           /\ device'[u].name = device[u].name
  BY <1>1, <1>2, StartedIs DEF Ready
<1>4. device' \in Devices
  BY <1>1, <1>3 DEF Devices
<1> HIDE DEF started
<1>5. CASE preStart
  <2>1. /\ amiga' \in AmigaRec /\ amiga'.boot = "config" /\ amiga'.packets = <<>>
        /\ amiga'.mounted = <<>> /\ preStart' = FALSE /\ unplugged' = {}
    BY <1>1, <1>5, ResetIs
  <2>2. HardTypes'
    BY <1>1, <1>2, <1>4, <2>1 DEF HardTypes
  <2>3. MountedAreSame' /\ FoundAreThere' /\ Distinct(amiga.packets)'
    BY <2>1 DEF MountedAreSame, FoundAreThere, Distinct
  <2> QED  BY <1>1, <1>3, <2>1, <2>2, <2>3 DEF HardInv
<1>6. CASE ~preStart
  <2>1. UNCHANGED <<amiga, preStart, unplugged>>
    BY <1>1, <1>6
  <2>2. HardTypes'
    BY <1>1, <1>2, <1>4, <2>1 DEF HardTypes
  <2>3. MountedAreSame'
    BY <1>1, <1>3, <2>1, HardUnits, HardFields DEF MountedAreSame, HardInv, MountRec
  <2>4. FoundAreThere'
    BY <1>1, <1>3, <2>1, HardUnits, HardFields DEF FoundAreThere, HardInv
  <2> QED  BY <1>1, <1>3, <1>6, <2>1, <2>2, <2>3, <2>4 DEF HardInv
<1> QED  BY <1>5, <1>6

LEMMA SessionStopKeeps == ASSUME HardInv, Hard!SessionStop PROVE HardInv'
<1>1. /\ stage' = "dialog" /\ device' = [u \in Hard!Unit |-> Hard!Closed(device[u])]
      /\ UNCHANGED <<disk, fileSystems, enabled, cards, preStart, kick, amiga, unplugged>>
  BY DEF Hard!SessionStop
<1>2. HardTypes /\ \A u \in Hard!Unit : device[u] \in UnitRec /\ Ready(device[u])
  BY HardUnits
<1>3. \A u \in Hard!Unit : /\ device'[u] \in UnitRec /\ ReadyOn(disk, device'[u])
                           /\ device'[u].name = device[u].name /\ device'[u].open = "no"
  BY <1>1, <1>2, ClosedIs DEF Ready
<1>4. device' \in Devices
  BY <1>1, <1>3 DEF Devices
<1>5. HardTypes'
  BY <1>1, <1>2, <1>4 DEF HardTypes
<1>6. MountedAreSame'
  BY <1>1, <1>3, HardUnits, HardFields DEF MountedAreSame, HardInv, MountRec
<1>7. FoundAreThere'
  BY <1>1, <1>3, HardUnits, HardFields DEF FoundAreThere, HardInv
<1> QED  BY <1>1, <1>3, <1>5, <1>6, <1>7 DEF HardInv

LEMMA AmigaResetKeeps == ASSUME HardInv, Hard!AmigaReset PROVE HardInv'
<1>1. /\ stage = "running" /\ Hard!Reset(device)
      /\ UNCHANGED <<disk, device, fileSystems, enabled, stage, kick>>
  BY DEF Hard!AmigaReset
<1>2. /\ amiga' \in AmigaRec /\ amiga'.boot = "config" /\ amiga'.packets = <<>>
      /\ amiga'.mounted = <<>> /\ preStart' = FALSE /\ unplugged' = {}
  BY <1>1, ResetIs
<1>3. HardTypes'
  BY <1>1, <1>2 DEF HardInv, HardTypes
<1>4. MountedAreSame' /\ FoundAreThere' /\ Distinct(amiga.packets)'
  BY <1>2 DEF MountedAreSame, FoundAreThere, Distinct
<1> QED  BY <1>1, <1>2, <1>3, <1>4 DEF HardInv

LEMMA ConfigureCardKeeps == ASSUME HardInv, Hard!ConfigureCard PROVE HardInv'
BY DEF Hard!ConfigureCard, HardInv, HardTypes, MountedAreSame, FoundAreThere

(* How far the Amiga has booted.                                           *)
BootPhase == {"config", "diag", "load", "mount"}

LEMMA DiagKeeps == ASSUME HardInv, Hard!Diag PROVE HardInv'
<1> DEFINE devices == [u \in Hard!Unit |-> Hard!Initialized(device[u])]
<1>1. /\ stage = "running" /\ stage' = stage /\ amiga.boot = "config" /\ device' = devices
      /\ fileSystems' = Hard!AddFileSystemsFromRdb(devices)
      /\ amiga' = [amiga EXCEPT !.boot = "diag", !.packets = Hard!CreateMountList(devices)]
      /\ UNCHANGED <<disk, enabled, cards, preStart, stage, kick, unplugged>>
  BY DEF Hard!Diag
<1>2. /\ HardTypes /\ \A u \in Hard!Unit : device[u] \in UnitRec /\ Ready(device[u])
      /\ disk \in [File -> Content] /\ amiga \in AmigaRec
  BY HardUnits DEF HardTypes
<1>3. \A u \in Hard!Unit : /\ devices[u] \in UnitRec /\ Ready(devices[u])
                           /\ devices[u].name = device[u].name
  BY <1>2, InitializedIs
<1>4. devices \in Devices
  BY <1>3 DEF Devices
<1> HIDE DEF devices
<1>5. fileSystems' \in Seq(LiveRec(devices))
  <2>1. Hard!AllHeaders(devices) \in Seq(LiveRec(devices))
    BY <1>3, <1>4, AllHeadersAre
  <2> DEFINE n == Len(Hard!AllHeaders(devices))
             L == LiveRec(devices)
  <2>2. n \in Nat
    BY <2>1
  <2>3. \E w \in [0 .. n -> Seq(L)] : Hard!AddFileSystemsFromRdb(devices) = w[n]
    BY <2>1, AddedIs
  <2> HIDE DEF n, L
  <2> QED  BY <1>1, <2>2, <2>3 DEF L
<1>6. \A i \in DOMAIN fileSystems' : fileSystems'[i] \in LiveRec(devices)
  BY <1>5
<1>7. fileSystems' \in Seq(HeaderRec)
  <2>1. LiveRec(devices) \subseteq HeaderRec
    BY DEF LiveRec
  <2> QED  BY <1>5, <2>1
<1>8. /\ Hard!CreateMountList(devices) \in Seq(PacketRec)
      /\ Distinct(Hard!CreateMountList(devices))
  BY <1>3, <1>4, MountListIs
<1>9. /\ amiga' \in AmigaRec /\ amiga'.packets = Hard!CreateMountList(devices)
      /\ amiga'.mounted = amiga.mounted
  <2> DEFINE packets == Hard!CreateMountList(devices)
             b == "diag"
  <2>1. packets \in Seq(PacketRec) /\ amiga' = [amiga EXCEPT !.boot = b, !.packets = packets]
    BY <1>1, <1>8
  <2>2. b \in BootPhase
    BY DEF BootPhase
  <2> HIDE DEF packets, b
  <2>3. amiga' \in AmigaRec /\ amiga'.packets = packets /\ amiga'.mounted = amiga.mounted
    BY <1>2, <2>1, <2>2 DEF AmigaRec, BootPhase
  <2> QED  BY <2>1, <2>3 DEF packets
<1>10. HardTypes'
  BY <1>1, <1>2, <1>4, <1>7, <1>9 DEF HardTypes
<1>11. MountedAreSame'
  BY <1>1, <1>3, <1>9, HardUnits, HardFields DEF MountedAreSame, HardInv, MountRec
<1>12. FoundAreThere'
  BY <1>1, <1>6, HardConstants, HardFields DEF FoundAreThere, LiveRec
<1> QED  BY <1>1, <1>3, <1>8, <1>9, <1>10, <1>11, <1>12 DEF HardInv, Ready
LEMMA FhfileInitKeeps == ASSUME HardInv, Hard!FhfileInit PROVE HardInv'
<1> DEFINE left == Hard!RemoveSupported(fileSystems)
           L == {fileSystems[i] : i \in DOMAIN fileSystems}
           b == IF left = <<>> THEN "mount" ELSE "load"
<1>1. /\ stage = "running" /\ amiga.boot = "diag" /\ fileSystems' = left
      /\ amiga' = [amiga EXCEPT !.boot = b]
      /\ UNCHANGED <<disk, device, enabled, cards, preStart, stage, kick, unplugged>>
  BY DEF Hard!FhfileInit
<1>2. HardTypes /\ amiga \in AmigaRec /\ fileSystems \in Seq(HeaderRec) /\ kick \in Seq(KickRec)
  BY HardUnits, HardConstants DEF HardTypes
<1>3. left \in Seq(L)
  <2>1. fileSystems \in Seq(L)
    BY <1>2
  <2> DEFINE n == Len(kick)
  <2> HIDE DEF L
  <2>2. \E w \in [0 .. n -> Seq(L)] : left = w[n]
    BY <1>2, <2>1, RemovedSupportedIs
  <2>3. n \in 0 .. n
    BY <1>2
  <2> HIDE DEF n, left
  <2> QED  BY <2>2, <2>3
<1> HIDE DEF left
<1>4. left \in Seq(HeaderRec)
  <2>1. L \subseteq HeaderRec
    BY <1>2
  <2> HIDE DEF L
  <2> QED  BY <1>3, <2>1
<1>5. \A i \in DOMAIN left : \E j \in DOMAIN fileSystems : left[i] = fileSystems[j]
  BY <1>3
<1>6. /\ amiga' \in AmigaRec /\ amiga'.packets = amiga.packets /\ amiga'.mounted = amiga.mounted
      /\ amiga'.boot # "config"
  <2>1. b \in BootPhase /\ b # "config"
    BY DEF BootPhase
  <2> HIDE DEF b
  <2>2. amiga' = [amiga EXCEPT !.boot = b, !.next = amiga.next] /\ amiga.next \in Nat \ {0}
    BY <1>1, <1>2 DEF AmigaRec
  <2> QED  BY <1>2, <2>1, <2>2 DEF AmigaRec, BootPhase
<1>7. HardTypes'
  BY <1>1, <1>2, <1>4, <1>6 DEF HardTypes
<1>8. MountedAreSame'
  BY <1>1, <1>6 DEF MountedAreSame, HardInv
<1>9. FoundAreThere'
  BY <1>1, <1>5 DEF FoundAreThere, HardInv
<1> QED  BY <1>1, <1>6, <1>7, <1>8, <1>9 DEF HardInv

LEMMA LoadFileSystemKeeps == ASSUME HardInv, Hard!LoadFileSystem PROVE HardInv'
<1>1. /\ stage = "running" /\ amiga.boot = "load"
      /\ fileSystems' = [fileSystems EXCEPT ![amiga.next].loaded = TRUE]
      /\ amiga' = IF amiga.next = Len(fileSystems) THEN [amiga EXCEPT !.boot = "mount", !.next = 1]
                  ELSE [amiga EXCEPT !.next = @ + 1]
      /\ UNCHANGED <<disk, device, enabled, cards, preStart, stage, kick, unplugged>>
  BY DEF Hard!LoadFileSystem
<1>2. HardTypes /\ amiga \in AmigaRec /\ fileSystems \in Seq(HeaderRec)
  BY HardUnits DEF HardTypes
<1>3. PICK n \in Nat : DOMAIN fileSystems = 1 .. n /\ \A i \in 1 .. n : fileSystems[i] \in HeaderRec
  BY <1>2
<1> DEFINE row(i) == IF i = amiga.next THEN [fileSystems[i] EXCEPT !.loaded = TRUE] ELSE fileSystems[i]
<1>4. \A i \in 1 .. n : /\ row(i) \in HeaderRec /\ row(i).live = fileSystems[i].live
                        /\ row(i).unit = fileSystems[i].unit
  BY <1>3, HardFields DEF HeaderRec
<1>5. fileSystems' = [i \in 1 .. n |-> row(i)]
  BY <1>1, <1>2, <1>3
<1> HIDE DEF row
<1>6. fileSystems' \in Seq(HeaderRec)
  BY <1>4, <1>5
<1>7. /\ amiga' \in AmigaRec /\ amiga'.packets = amiga.packets /\ amiga'.mounted = amiga.mounted
      /\ amiga'.boot # "config"
  <2>1. amiga.next \in Nat \ {0} /\ amiga.next + 1 \in Nat \ {0} /\ 1 \in Nat \ {0}
    BY <1>2 DEF AmigaRec
  <2>2. \/ amiga' = [amiga EXCEPT !.boot = "mount", !.next = 1]
        \/ amiga' = [amiga EXCEPT !.boot = "load", !.next = amiga.next + 1]
    BY <1>1, <1>2 DEF AmigaRec
  <2>3. PICK b \in {"load", "mount"}, m \in Nat \ {0} :
          amiga' = [amiga EXCEPT !.boot = b, !.next = m]
    BY <2>1, <2>2
  <2>4. b \in BootPhase /\ b # "config"
    BY DEF BootPhase
  <2> QED  BY <1>2, <2>3, <2>4 DEF AmigaRec, BootPhase
<1>8. HardTypes'
  BY <1>1, <1>2, <1>6, <1>7 DEF HardTypes
<1>9. MountedAreSame'
  BY <1>1, <1>7 DEF MountedAreSame, HardInv
<1>10. FoundAreThere'
  BY <1>1, <1>3, <1>4, <1>5 DEF FoundAreThere, HardInv
<1> QED  BY <1>1, <1>7, <1>8, <1>9, <1>10 DEF HardInv

LEMMA MountPartitionKeeps == ASSUME HardInv, Hard!MountPartition PROVE HardInv'
<1> DEFINE p == amiga.packets[amiga.next]
           fs == Hard!ForDOSType(fileSystems, p.type)
           m == [unit |-> p.unit, type |-> p.type, name |-> p.name,
                 file |-> device[p.unit].name, handler |-> fs]
<1>1. /\ stage = "running" /\ amiga.next <= Len(amiga.packets)
      /\ amiga' = [amiga EXCEPT !.next = @ + 1, !.mounted = Append(@, m)]
      /\ UNCHANGED <<disk, device, fileSystems, enabled, cards, preStart, stage, kick, unplugged>>
  BY DEF Hard!MountPartition
<1>2. /\ HardTypes /\ amiga \in AmigaRec /\ fileSystems \in Seq(HeaderRec)
      /\ amiga.packets \in Seq(PacketRec) /\ amiga.mounted \in Seq(MountRec)
      /\ amiga.next \in Nat \ {0}
  BY HardUnits, HardFields DEF HardTypes
<1>3. p \in PacketRec /\ p.unit \in Hard!Unit /\ p.type \in DosType /\ p.name \in Int
  <2>1. p \in PacketRec
    BY <1>1, <1>2
  <2> QED  BY <2>1 DEF PacketRec
<1>4. fs \in SUBSET Nat
  <2>1. DOMAIN fileSystems \subseteq Nat
    BY <1>2
  <2> QED  BY <2>1 DEF Hard!ForDOSType, Hard!First
<1>5. device[p.unit].name \in File \union {NoHardFile}
  BY <1>3, HardUnits, HardFields
<1> HIDE DEF fs, p
<1>6. m \in MountRec /\ m.unit = p.unit /\ m.file = device[p.unit].name
  BY <1>3, <1>4, <1>5 DEF MountRec
<1> HIDE DEF m
<1> DEFINE mounted == Append(amiga.mounted, m)
<1>7. /\ mounted \in Seq(MountRec) /\ DOMAIN mounted = 1 .. Len(amiga.mounted) + 1
      /\ mounted[Len(amiga.mounted) + 1] = m
      /\ \A i \in DOMAIN amiga.mounted : mounted[i] = amiga.mounted[i]
      /\ DOMAIN amiga.mounted = 1 .. Len(amiga.mounted) /\ Len(amiga.mounted) \in Nat
  BY <1>2, <1>6
<1>8. amiga' = [amiga EXCEPT !.next = amiga.next + 1, !.mounted = mounted]
  BY <1>1
<1> HIDE DEF mounted
<1>9. /\ amiga' \in AmigaRec /\ amiga'.boot = amiga.boot
      /\ amiga'.packets = amiga.packets /\ amiga'.mounted = mounted
  <2>1. amiga.next + 1 \in Nat \ {0}
    BY <1>2
  <2> QED  BY <1>2, <1>7, <1>8, <2>1 DEF AmigaRec
<1>10. HardTypes'
  BY <1>1, <1>2, <1>9 DEF HardTypes
<1>11. MountedAreSame'
  <2> SUFFICES ASSUME NEW i \in DOMAIN mounted
               PROVE  device[mounted[i].unit].name \in {mounted[i].file, NoHardFile}
    BY <1>1, <1>9 DEF MountedAreSame
  <2>1. CASE i \in DOMAIN amiga.mounted
    BY <1>1, <1>7, <2>1 DEF HardInv, MountedAreSame
  <2>2. CASE i = Len(amiga.mounted) + 1
    BY <1>6, <1>7, <2>2
  <2> QED  BY <1>7, <2>1, <2>2
<1>12. FoundAreThere'
  BY <1>1, <1>9 DEF FoundAreThere, HardInv
<1> QED  BY <1>1, <1>9, <1>10, <1>11, <1>12 DEF HardInv

LEMMA RewriteKeeps ==
  ASSUME HardInv, NEW u \in Hard!Unit, NEW c \in Content, Hard!Rewrite(u, c)
  PROVE  HardInv'
<1>1. /\ stage = "running" /\ device[u].open = "yes"
      /\ c.exists /\ c.cylinders = disk[device[u].name].cylinders
      /\ disk' = [disk EXCEPT ![device[u].name] = c]
      /\ UNCHANGED <<device, fileSystems, enabled, cards, preStart, stage, kick, amiga, unplugged>>
  BY DEF Hard!Rewrite
<1>2. /\ HardTypes /\ disk \in [File -> Content] /\ device[u].name \in File
      /\ disk[device[u].name].cylinders > 0
  BY <1>1, HardUnits DEF HardTypes, Ready, ReadyOn
<1>3. disk' \in [File -> Content]
  BY <1>1, <1>2
<1>4. \A v \in Hard!Unit : ReadyOn(disk', device[v])
  BY <1>1, <1>2, HardUnits DEF Ready, ReadyOn
<1>5. HardTypes'
  BY <1>1, <1>2, <1>3 DEF HardTypes
<1> QED  BY <1>1, <1>4, <1>5 DEF HardInv, MountedAreSame, FoundAreThere
-----------------------------------------------------------------------------
LEMMA HardUnchanged == ASSUME HardInv, UNCHANGED hardVars PROVE HardInv'
BY DEF hardVars, HardInv, HardTypes, MountedAreSame, FoundAreThere

LEMMA HardNextKeeps == ASSUME HardInv, Hard!HardNext PROVE HardInv'
<1>1. CASE \E names \in Hard!SeqOf(File, Units), on \in BOOLEAN, edited \in SUBSET Hard!Unit :
             Hard!Activate(names, on, edited)
  BY <1>1, ActivateKeepsUnits
<1>2. CASE \E u \in Hard!Unit, c \in Content : Hard!Rewrite(u, c)
  BY <1>2, RewriteKeeps
<1>3. CASE Hard!SessionStart
  BY <1>3, SessionStartKeeps
<1>4. CASE Hard!SessionStop
  BY <1>4, SessionStopKeeps
<1>5. CASE Hard!AmigaReset
  BY <1>5, AmigaResetKeeps
<1>6. CASE Hard!ConfigureCard
  BY <1>6, ConfigureCardKeeps
<1>7. CASE Hard!Diag
  BY <1>7, DiagKeeps
<1>8. CASE Hard!FhfileInit
  BY <1>8, FhfileInitKeeps
<1>9. CASE Hard!LoadFileSystem
  BY <1>9, LoadFileSystemKeeps
<1>10. CASE Hard!MountPartition
  BY <1>10, MountPartitionKeeps
<1> QED  BY <1>1, <1>2, <1>3, <1>4, <1>5, <1>6, <1>7, <1>8, <1>9, <1>10 DEF Hard!HardNext

LEMMA HardStep == ASSUME HardInv, [UseFloppies \/ UseHardFiles]_storageVars PROVE HardInv'
<1>1. CASE UseFloppies
  BY <1>1, HardUnchanged DEF UseFloppies
<1>2. CASE UseHardFiles
  BY <1>2, HardNextKeeps DEF UseHardFiles
<1>3. CASE UNCHANGED storageVars
  BY <1>3, HardUnchanged DEF storageVars
<1> QED  BY <1>1, <1>2, <1>3

(* The invariant of hard files (HardfileHandler).                          *)
THEOREM HardFilesStaySound == StorageSpec => []HardInv
<1>1. StorageInit => HardInv
  BY HardInitInv DEF StorageInit
<1>2. HardInv /\ [UseFloppies \/ UseHardFiles]_storageVars => HardInv'
  BY HardStep
<1> QED  BY <1>1, <1>2, PTL DEF StorageSpec

(* A unit that the Amiga has mounted is the file it was, or does not       *)
(* answer; no file system is loaded from a table that was deleted, unless  *)
(* its unit was removed; and no file is closed twice                       *)
(* (cfgManagerConfigurationActivate, HardfileHandler::EmulationStart).     *)
THEOREM UnitsStaySound == StorageSpec => []UnitsAreSound
<1>1. HardInv => UnitsAreSound
  BY HardInvImplies DEF UnitsAreSound
<1> QED  BY <1>1, HardFilesStaySound, PTL
-----------------------------------------------------------------------------
(* What is mounted has the newest file system.                             *)

(* The headers that the units have while the emulation runs.               *)
Sources == [u \in Hard!Unit |->
              [device[u] EXCEPT !.open = IF device[u].hdf THEN "yes" ELSE "no"]]
Known == Hard!AllHeaders(Sources)

Of(list, t) == {i \in DOMAIN list : list[i].type = t}

(* An older version of a type stands behind a newer one.                   *)
Disorder(list, t) == \E i, j \in Of(list, t) : i < j /\ list[i].version > list[j].version

(* The list has one file system of type t, the newest of these versions.   *)
HasNewest(list, versions, t) ==
  /\ \A i, j \in Of(list, t) : i = j
  /\ Of(list, t) = {} => versions = {}
  /\ \A i \in Of(list, t) : /\ list[i].version \in versions
                            /\ \A v \in versions : list[i].version >= v

(* The list has the newest of both, or else the system has it.             *)
HasNewestOfAll(list, versions, system, t) ==
  /\ \A i, j \in Of(list, t) : i = j
  /\ Of(list, t) = {} => \/ versions \union system = {}
                         \/ \E v \in system : \A w \in versions \union system : v >= w
  /\ \A i \in Of(list, t) : \A v \in versions \union system : list[i].version >= v

LoadedInOrder ==
  /\ amiga.boot = "load" => amiga.next <= Len(fileSystems)
  /\ \A i \in DOMAIN fileSystems :
       amiga.boot = "mount" \/ (amiga.boot = "load" /\ i < amiga.next) => fileSystems[i].loaded

HandlersAreFirst ==
  \A i \in DOMAIN amiga.mounted :
    amiga.mounted[i].handler = Hard!ForDOSType(fileSystems, amiga.mounted[i].type)

NewestIsThere ==
  \A t \in DosType : ~Disorder(Known, t) =>
    /\ amiga.boot = "diag" => HasNewest(fileSystems, Hard!Versions(Known, t), t)
    /\ amiga.boot \in {"load", "mount"} =>
         HasNewestOfAll(fileSystems, Hard!Versions(Known, t), Hard!Versions(kick, t), t)

MountInv ==
  /\ stage = "running" => \A u \in Hard!Unit : device[u].open = "yes" <=> device[u].hdf
  /\ amiga.mounted # <<>> => amiga.boot = "mount"
  /\ amiga.boot \in {"config", "diag"} => amiga.next = 1
  /\ preStart \/ (LoadedInOrder /\ HandlersAreFirst)
  /\ preStart \/ unplugged # {} \/ NewestIsThere

LEMMA VersionsAre == ASSUME NEW list, NEW t
                     PROVE  Hard!Versions(list, t) = {list[i].version : i \in Of(list, t)}
BY DEF Hard!Versions, Of

(* AddFileSystem, for a header that is not older than those before it.     *)
LEMMA AddKeepsNewest ==
  ASSUME NEW list \in Seq(HeaderRec), NEW h \in HeaderRec, NEW t, NEW versions \in SUBSET Nat,
         HasNewest(list, versions, t), h.type = t => \A v \in versions : h.version >= v
  PROVE  HasNewest(Hard!AddFileSystem(list, h),
                   IF h.type = t THEN versions \union {h.version} ELSE versions, t)
<1> DEFINE older == Hard!FindOlderOrSame(list, h.type, h.version)
           r == Hard!AddFileSystem(list, h)
<1>1. PICK n \in Nat : DOMAIN list = 1 .. n /\ Len(list) = n
                       /\ \A i \in 1 .. n : list[i] \in HeaderRec /\ list[i].version \in Nat
  BY HardFields
<1>2. h.version \in Nat
  BY HardFields
<1>3. older \subseteq Of(list, h.type) /\ \A i \in older : list[i].version <= h.version
  BY DEF Hard!FindOlderOrSame, Hard!First, Of
<1>4. older = {} => /\ DOMAIN r = 1 .. n + 1 /\ r[n + 1] = h
                    /\ \A i \in 1 .. n : r[i] = list[i]
  BY <1>1 DEF Hard!AddFileSystem
<1>5. older # {} => /\ DOMAIN r = 1 .. n
                    /\ \A i \in 1 .. n : r[i] = IF i \in older /\ list[i].version < h.version
                                                THEN h ELSE list[i]
  BY <1>1 DEF Hard!AddFileSystem
<1>6. \A i : i \in Of(list, h.type) /\ list[i].version <= h.version
               /\ (\A j \in Of(list, h.type) : i = j) => i \in older
  <2> TAKE i
  <2> HAVE i \in Of(list, h.type) /\ list[i].version <= h.version
           /\ (\A j \in Of(list, h.type) : i = j)
  <2>1. i \in {k \in DOMAIN list : list[k].type = h.type /\ list[k].version <= h.version}
    BY DEF Of
  <2>2. \A j \in {k \in DOMAIN list : list[k].type = h.type /\ list[k].version <= h.version} : i <= j
    BY <1>1 DEF Of
  <2> QED  BY <2>1, <2>2 DEF Hard!FindOlderOrSame, Hard!First
<1> HIDE DEF older, r
<1>7. CASE h.type # t
  <2>1. Of(r, t) = Of(list, t) /\ \A i \in Of(list, t) : r[i] = list[i]
    <3>1. CASE older = {}
      BY <1>1, <1>4, <1>7, <3>1 DEF Of
    <3>2. CASE older # {}
      BY <1>1, <1>3, <1>5, <1>7, <3>2 DEF Of
    <3> QED  BY <3>1, <3>2
  <2> QED  BY <1>7, <2>1 DEF HasNewest, r
<1>8. CASE h.type = t /\ Of(list, t) = {}
  <2>1. Of(r, t) = {n + 1} /\ r[n + 1] = h /\ versions = {}
    BY <1>1, <1>3, <1>4, <1>8 DEF Of, HasNewest
  <2> QED  BY <1>2, <1>8, <2>1 DEF HasNewest, r
<1>9. CASE h.type = t /\ Of(list, t) # {}
  <2>1. PICK e \in Of(list, t) : TRUE
    BY <1>9
  <2>2. Of(list, t) = {e} /\ list[e].version \in versions /\ e \in 1 .. n
    BY <1>1 DEF HasNewest, Of
  <2>3. list[e].version <= h.version
    BY <1>9, <2>2
  <2>4. older = {e}
    BY <1>3, <1>6, <1>9, <2>2, <2>3
  <2>5. DOMAIN r = 1 .. n /\ \A i \in 1 .. n : i # e => r[i] = list[i]
    BY <1>5, <2>4
  <2>6. r[e].type = t /\ r[e].version = h.version
    BY <1>1, <1>2, <1>5, <1>9, <2>2, <2>3, <2>4 DEF Of
  <2>7. Of(r, t) = {e}
    BY <1>1, <2>2, <2>5, <2>6 DEF Of
  <2> QED  BY <1>2, <1>9, <2>6, <2>7 DEF HasNewest, r
<1> QED  BY <1>7, <1>8, <1>9

(* EraseOlderOrSame, for a file system of the Kickstart.                   *)
LEMMA EraseKeepsNewest ==
  ASSUME NEW list \in Seq(HeaderRec), NEW type, NEW version \in Nat, NEW t,
         NEW versions \in SUBSET Nat, NEW system \in SUBSET Nat,
         HasNewestOfAll(list, versions, system, t)
  PROVE  HasNewestOfAll(Hard!EraseOlderOrSame(list, type, version), versions,
                        IF type = t THEN system \union {version} ELSE system, t)
<1> DEFINE old == Hard!FindOlderOrSame(list, type, version)
           keep == DOMAIN list \ old
           r == Hard!EraseOlderOrSame(list, type, version)
<1>1. PICK n \in Nat : DOMAIN list = 1 .. n /\ \A i \in 1 .. n : list[i].version \in Nat
  BY HardFields
<1>2. r \in Seq(HeaderRec) /\ Subsequence(r, list, keep)
  BY EraseIs
<1>3. old \subseteq Of(list, type) /\ \A i \in old : list[i].version <= version
  BY DEF Hard!FindOlderOrSame, Hard!First, Of
<1>4. \A i : i \in Of(list, type) /\ list[i].version <= version
               /\ (\A j \in Of(list, type) : i = j) => i \in old
  <2> TAKE i
  <2> HAVE i \in Of(list, type) /\ list[i].version <= version
           /\ (\A j \in Of(list, type) : i = j)
  <2>1. i \in {k \in DOMAIN list : list[k].type = type /\ list[k].version <= version}
    BY DEF Of
  <2>2. \A j \in {k \in DOMAIN list : list[k].type = type /\ list[k].version <= version} : i <= j
    BY <1>1 DEF Of
  <2> QED  BY <2>1, <2>2 DEF Hard!FindOlderOrSame, Hard!First
<1> HIDE DEF old, r
<1>5. PICK m \in Nat : m = Len(r) /\ DOMAIN r = 1 .. m
  BY <1>2
<1>12. PICK f \in [1 .. m -> keep] :
        /\ \A k \in 1 .. m : r[k] = list[f[k]]
        /\ \A j, k \in 1 .. m : j < k => f[j] < f[k]
        /\ \A i \in keep : \E k \in 1 .. m : f[k] = i
  BY <1>2, <1>5 DEF Subsequence
<1>6. \A i \in Of(r, t) : f[i] \in Of(list, t) /\ f[i] \notin old /\ r[i] = list[f[i]] /\ i \in 1 .. m
  BY <1>5, <1>12 DEF Of
<1>7. \A e \in Of(list, t) : e \notin old => \E k \in Of(r, t) : f[k] = e
  BY <1>5, <1>12 DEF Of
<1>8. \A i, j \in Of(r, t) : i = j
  <2> TAKE i, j \in Of(r, t)
  <2>1. f[i] = f[j] /\ i \in 1 .. m /\ j \in 1 .. m /\ f[i] \in Int
    BY <1>1, <1>6 DEF HasNewestOfAll, Of
  <2>2. ~(i < j) /\ ~(j < i)
    BY <1>12, <2>1
  <2> QED  BY <2>1, <2>2
<1> HIDE DEF keep
<1>9. CASE type # t
  <2>1. \A e \in Of(list, t) : e \notin old
    BY <1>3, <1>9 DEF Of
  <2>2. Of(r, t) = {} => Of(list, t) = {}
    BY <1>7, <2>1
  <2> QED  BY <1>6, <1>8, <1>9, <2>2 DEF HasNewestOfAll, r
<1>10. CASE type = t /\ Of(list, t) = {}
  <2>1. Of(r, t) = {}
    BY <1>6, <1>10
  <2>2. \E v \in system \union {version} : \A w \in versions \union (system \union {version}) : v >= w
    <3>1. CASE versions \union system = {}
      BY <3>1
    <3>2. CASE \E v \in system : \A w \in versions \union system : v >= w
      <4>1. PICK v \in system : \A w \in versions \union system : v >= w
        BY <3>2
      <4>2. CASE v >= version
        BY <4>1, <4>2
      <4>3. CASE version > v
        BY <4>1, <4>3
      <4> QED  BY <4>2, <4>3
    <3> QED  BY <1>10, <3>1, <3>2 DEF HasNewestOfAll
  <2> QED  BY <1>8, <1>10, <2>1, <2>2 DEF HasNewestOfAll, r
<1>11. CASE type = t /\ Of(list, t) # {}
  <2>1. PICK e \in Of(list, t) : TRUE
    BY <1>11
  <2>2. /\ Of(list, t) = {e} /\ list[e].version \in Nat
        /\ \A v \in versions \union system : list[e].version >= v
    BY <1>1 DEF HasNewestOfAll, Of
  <2>3. CASE list[e].version <= version
    <3>1. Of(r, t) = {}
      BY <1>4, <1>6, <1>11, <2>2, <2>3
    <3>2. \A w \in versions \union (system \union {version}) : version >= w
      <4> DEFINE x == list[e].version
      <4>1. x \in Nat /\ x <= version /\ \A v \in versions \union system : x >= v
        BY <2>2, <2>3
      <4> HIDE DEF x
      <4> TAKE w \in versions \union (system \union {version})
      <4>2. w \in Nat /\ (w \in versions \union system \/ w = version)
        OBVIOUS
      <4> QED  BY <4>1, <4>2
    <3> QED  BY <1>8, <1>11, <3>1, <3>2 DEF HasNewestOfAll, r
  <2>4. CASE list[e].version > version
    <3>1. Of(r, t) # {}
      BY <1>3, <1>7, <2>2, <2>4
    <3>2. \A i \in Of(r, t) : r[i].version = list[e].version
      BY <1>6, <2>2
    <3> QED  BY <1>8, <1>11, <2>2, <2>4, <3>1, <3>2 DEF HasNewestOfAll, r
  <2> QED  BY <2>2, <2>3, <2>4
<1> QED  BY <1>9, <1>10, <1>11
(* AddFileSystemsFromRdb.                                                  *)
LEMMA NewestAdded ==
  ASSUME NEW devices, Hard!AllHeaders(devices) \in Seq(HeaderRec), NEW t,
         ~Disorder(Hard!AllHeaders(devices), t)
  PROVE  HasNewest(Hard!AddFileSystemsFromRdb(devices),
                   Hard!Versions(Hard!AllHeaders(devices), t), t)
<1> DEFINE headers == Hard!AllHeaders(devices)
           n == Len(headers)
           V(i) == {headers[k].version : k \in {k \in Of(headers, t) : k <= i}}
<1>1. PICK w \in [0 .. n -> Seq(HeaderRec)] :
        /\ w[0] = <<>>
        /\ \A i \in 1 .. n : w[i] = Hard!AddFileSystem(w[i - 1], headers[i])
        /\ Hard!AddFileSystemsFromRdb(devices) = w[n]
  BY AddedIs
<1> HIDE DEF headers
<1>2. headers \in Seq(HeaderRec)
  BY DEF headers
<1>3. n \in Nat /\ DOMAIN headers = 1 .. n
      /\ \A i \in 1 .. n : headers[i] \in HeaderRec /\ headers[i].version \in Nat
  BY <1>2, HardFields
<1>4. \A i \in Nat : V(i) \in SUBSET Nat
  BY <1>3 DEF Of
<1> HIDE DEF n
<1> DEFINE T == {i \in Nat : i <= n => HasNewest(w[i], V(i), t)}
<1>5. 0 \in T
  <2>1. Of(headers, t) \subseteq 1 .. n
    BY <1>3 DEF Of
  <2>2. V(0) = {}
    BY <2>1
  <2>3. Of(<<>>, t) = {}
    BY DEF Of
  <2> HIDE DEF V
  <2> QED  BY <1>1, <2>2, <2>3 DEF HasNewest
<1>6. ASSUME NEW i \in Nat, i \in T PROVE i + 1 \in T
  <2> SUFFICES ASSUME i + 1 <= n PROVE HasNewest(w[i + 1], V(i + 1), t)
    OBVIOUS
  <2> DEFINE h == headers[i + 1]
  <2>1. /\ i + 1 \in 1 .. n /\ i \in 0 .. n /\ i + 1 - 1 = i /\ h \in HeaderRec
        /\ HasNewest(w[i], V(i), t)
    BY <1>3, <1>6
  <2>2. w[i + 1] = Hard!AddFileSystem(w[i], h)
    BY <1>1, <2>1
  <2>3. V(i + 1) = IF h.type = t THEN V(i) \union {h.version} ELSE V(i)
    <3>1. Of(headers, t) \subseteq 1 .. n
      BY <1>3 DEF Of
    <3>2. i + 1 \in Of(headers, t) <=> h.type = t
      BY <1>3, <2>1 DEF Of
    <3>3. \A k \in Of(headers, t) : k <= i + 1 <=> (k <= i \/ k = i + 1)
      BY <1>3, <3>1
    <3>4. CASE h.type = t
      <4>1. {k \in Of(headers, t) : k <= i + 1} = {k \in Of(headers, t) : k <= i} \union {i + 1}
        BY <3>2, <3>3, <3>4
      <4> QED  BY <3>4, <4>1
    <3>5. CASE h.type # t
      <4>1. {k \in Of(headers, t) : k <= i + 1} = {k \in Of(headers, t) : k <= i}
        BY <3>2, <3>3, <3>5
      <4> QED  BY <3>5, <4>1
    <3> QED  BY <3>4, <3>5
  <2>4. h.type = t => \A v \in V(i) : h.version >= v
    <3> SUFFICES ASSUME h.type = t, NEW k \in Of(headers, t), k <= i
                 PROVE  h.version >= headers[k].version
      OBVIOUS
    <3>1. k \in 1 .. n /\ i + 1 \in Of(headers, t) /\ k < i + 1
      BY <1>3, <2>1 DEF Of
    <3>2. ~(headers[k].version > h.version)
      BY <3>1 DEF Disorder, headers
    <3>3. headers[k].version \in Nat /\ h.version \in Nat
      BY <1>3, <2>1, <3>1
    <3> HIDE DEF h
    <3> QED  BY <3>2, <3>3
  <2>5. w[i] \in Seq(HeaderRec) /\ V(i) \in SUBSET Nat
    BY <1>1, <1>4, <2>1
  <2> HIDE DEF V, h
  <2> QED  BY <2>1, <2>2, <2>3, <2>4, <2>5, AddKeepsNewest
<1>7. \A i \in Nat : i \in T
  <2>1. T \in SUBSET Nat
    OBVIOUS
  <2> HIDE DEF T
  <2> QED  BY <1>5, <1>6, <2>1, Induction
<1> HIDE DEF V
<1>8. HasNewest(w[n], V(n), t)
  BY <1>3, <1>7
<1>9. V(n) = Hard!Versions(headers, t)
  <2>1. \A k \in Of(headers, t) : k <= n
    BY <1>3 DEF Of
  <2>2. {k \in Of(headers, t) : k <= n} = Of(headers, t)
    BY <2>1
  <2> QED  BY <2>2, VersionsAre DEF V
<1> QED  BY <1>1, <1>8, <1>9 DEF headers, n

(* RemoveSupported.                                                        *)
LEMMA NewestLeft ==
  ASSUME kick \in Seq(KickRec), NEW list \in Seq(HeaderRec), NEW t, NEW versions \in SUBSET Nat,
         HasNewest(list, versions, t)
  PROVE  HasNewestOfAll(Hard!RemoveSupported(list), versions, Hard!Versions(kick, t), t)
<1> DEFINE n == Len(kick)
           V(i) == {kick[k].version : k \in {k \in Of(kick, t) : k <= i}}
<1>1. PICK w \in [0 .. n -> Seq(HeaderRec)] :
        /\ w[0] = list
        /\ \A i \in 1 .. n : w[i] = Hard!EraseOlderOrSame(w[i - 1], kick[i].type, kick[i].version)
        /\ Hard!RemoveSupported(list) = w[n]
  BY RemovedSupportedIs
<1>2. n \in Nat /\ DOMAIN kick = 1 .. n
      /\ \A i \in 1 .. n : kick[i] \in KickRec /\ kick[i].version \in Nat
  BY HardFields
<1>3. \A i \in Nat : V(i) \in SUBSET Nat
  BY <1>2 DEF Of
<1> HIDE DEF n
<1> DEFINE T == {i \in Nat : i <= n => HasNewestOfAll(w[i], versions, V(i), t)}
<1>4. 0 \in T
  <2>1. Of(kick, t) \subseteq 1 .. n
    BY <1>2 DEF Of
  <2>2. V(0) = {}
    BY <2>1
  <2> HIDE DEF V
  <2> QED  BY <1>1, <2>2 DEF HasNewest, HasNewestOfAll
<1>5. ASSUME NEW i \in Nat, i \in T PROVE i + 1 \in T
  <2> SUFFICES ASSUME i + 1 <= n PROVE HasNewestOfAll(w[i + 1], versions, V(i + 1), t)
    OBVIOUS
  <2> DEFINE k1 == kick[i + 1]
  <2>1. /\ i + 1 \in 1 .. n /\ i \in 0 .. n /\ i + 1 - 1 = i /\ k1.version \in Nat
        /\ HasNewestOfAll(w[i], versions, V(i), t)
    BY <1>2, <1>5
  <2>2. w[i + 1] = Hard!EraseOlderOrSame(w[i], k1.type, k1.version)
    BY <1>1, <2>1
  <2>3. V(i + 1) = IF k1.type = t THEN V(i) \union {k1.version} ELSE V(i)
    <3>1. Of(kick, t) \subseteq 1 .. n
      BY <1>2 DEF Of
    <3>2. i + 1 \in Of(kick, t) <=> k1.type = t
      BY <1>2, <2>1 DEF Of
    <3>3. \A k \in Of(kick, t) : k <= i + 1 <=> (k <= i \/ k = i + 1)
      BY <1>2, <3>1
    <3>4. CASE k1.type = t
      <4>1. {k \in Of(kick, t) : k <= i + 1} = {k \in Of(kick, t) : k <= i} \union {i + 1}
        BY <3>2, <3>3, <3>4
      <4> QED  BY <3>4, <4>1
    <3>5. CASE k1.type # t
      <4>1. {k \in Of(kick, t) : k <= i + 1} = {k \in Of(kick, t) : k <= i}
        BY <3>2, <3>3, <3>5
      <4> QED  BY <3>5, <4>1
    <3> QED  BY <3>4, <3>5
  <2>4. w[i] \in Seq(HeaderRec) /\ V(i) \in SUBSET Nat
    BY <1>1, <1>3, <2>1
  <2> HIDE DEF V, k1
  <2>5. HasNewestOfAll(Hard!EraseOlderOrSame(w[i], k1.type, k1.version), versions,
                       IF k1.type = t THEN V(i) \union {k1.version} ELSE V(i), t)
    BY <2>1, <2>4, EraseKeepsNewest
  <2> QED  BY <2>2, <2>3, <2>5
<1>6. \A i \in Nat : i \in T
  <2>1. T \in SUBSET Nat
    OBVIOUS
  <2> HIDE DEF T
  <2> QED  BY <1>4, <1>5, <2>1, Induction
<1> HIDE DEF V
<1>7. HasNewestOfAll(w[n], versions, V(n), t)
  BY <1>2, <1>6
<1>8. V(n) = Hard!Versions(kick, t)
  <2>1. \A k \in Of(kick, t) : k <= n
    BY <1>2 DEF Of
  <2>2. {k \in Of(kick, t) : k <= n} = Of(kick, t)
    BY <2>1
  <2> QED  BY <2>2, VersionsAre DEF V
<1> QED  BY <1>1, <1>7, <1>8 DEF n
LEMMA SameHeaders ==
  ASSUME NEW a, NEW b,
         \A u \in Hard!Unit : \/ a[u].open = "no" /\ b[u].open = "no"
                              \/ /\ a[u].open # "no" /\ b[u].open # "no"
                                 /\ a[u].hasRdb = b[u].hasRdb /\ a[u].rdb = b[u].rdb
  PROVE  Hard!AllHeaders(a) = Hard!AllHeaders(b)
<1>1. \A u \in Hard!Unit : Hard!HeadersOf(a, u) = Hard!HeadersOf(b, u)
  BY DEF Hard!HeadersOf
<1>2. \A i \in 1 .. Units : i - 1 \in Hard!Unit
  BY HardConstants
<1>3. [i \in 1 .. Units |-> Hard!HeadersOf(a, i - 1)] = [i \in 1 .. Units |-> Hard!HeadersOf(b, i - 1)]
  BY <1>1, <1>2
<1> QED  BY <1>3 DEF Hard!AllHeaders

LEMMA SourcesAre ==
  ASSUME HardInv
  PROVE  /\ Sources \in Devices /\ \A u \in Hard!Unit : Ready(Sources[u])
         /\ \A u \in Hard!Unit : /\ Sources[u].open = IF device[u].hdf THEN "yes" ELSE "no"
                                 /\ Sources[u].hasRdb = device[u].hasRdb
                                 /\ Sources[u].rdb = device[u].rdb
         /\ Known \in Seq(HeaderRec)
<1>1. \A u \in Hard!Unit : Sources[u] = [device[u] EXCEPT !.open = IF device[u].hdf THEN "yes" ELSE "no"]
  BY DEF Sources
<1>2. \A u \in Hard!Unit :
        /\ Sources[u] \in UnitRec /\ Sources[u].open = (IF device[u].hdf THEN "yes" ELSE "no")
        /\ Sources[u].hasRdb = device[u].hasRdb /\ Sources[u].rdb = device[u].rdb
        /\ Sources[u].hdf = device[u].hdf /\ Sources[u].name = device[u].name
  <2> TAKE u \in Hard!Unit
  <2> DEFINE d == device[u]
             s == Sources[u]
  <2>1. d \in UnitRec /\ d.hdf \in BOOLEAN /\ s = [d EXCEPT !.open = IF d.hdf THEN "yes" ELSE "no"]
    BY <1>1, HardUnits, HardFields
  <2> HIDE DEF d, s
  <2>2. PICK o \in {"no", "yes"} : s = [d EXCEPT !.open = o] /\ o = IF d.hdf THEN "yes" ELSE "no"
    BY <2>1
  <2>3. /\ s \in UnitRec /\ s.open = o /\ s.name = d.name
        /\ s.hasRdb = d.hasRdb /\ s.rdb = d.rdb /\ s.hdf = d.hdf
    BY <2>1, <2>2 DEF UnitRec
  <2> QED  BY <2>2, <2>3 DEF d, s
<1>3. Sources \in Devices
  <2>1. Sources = [u \in Hard!Unit |-> Sources[u]]
    BY DEF Sources
  <2> QED  BY <1>2, <2>1 DEF Devices
<1>4. \A u \in Hard!Unit : Ready(Sources[u])
  BY <1>2, HardUnits DEF Ready, ReadyOn
<1>5. Known \in Seq(LiveRec(Sources)) /\ LiveRec(Sources) \subseteq HeaderRec
  BY <1>3, <1>4, AllHeadersAre DEF Known, LiveRec
<1> QED  BY <1>2, <1>3, <1>4, <1>5

(* While the emulation runs, the units are the sources.                    *)
LEMMA KnownIs ==
  ASSUME HardInv, MountInv, stage = "running"
  PROVE  Hard!AllHeaders(device) = Known
<1>1. \A u \in Hard!Unit : /\ device[u].open \in {"no", "yes"}
                           /\ device[u].open = "yes" <=> device[u].hdf
  BY HardUnits, HardFields DEF MountInv
<1> QED  BY <1>1, SourcesAre, SameHeaders DEF Known

LEMMA KnownSame ==
  ASSUME HardInv, HardInv',
         \A u \in Hard!Unit : /\ device'[u].hdf <=> device[u].hdf
                              /\ device[u].hdf => /\ device'[u].hasRdb = device[u].hasRdb
                                                  /\ device'[u].rdb = device[u].rdb
  PROVE  Known' = Known
<1>1. \A u \in Hard!Unit : /\ Sources[u].open = (IF device[u].hdf THEN "yes" ELSE "no")
                           /\ Sources[u].hasRdb = device[u].hasRdb
                           /\ Sources[u].rdb = device[u].rdb
  BY SourcesAre
<1>2. \A u \in Hard!Unit : /\ Sources'[u].open = (IF device'[u].hdf THEN "yes" ELSE "no")
                           /\ Sources'[u].hasRdb = device'[u].hasRdb
                           /\ Sources'[u].rdb = device'[u].rdb
  <2>1. \A u \in Hard!Unit : device'[u] \in UnitRec
    BY DEF HardInv, HardTypes, Devices
  <2>2. \A u \in Hard!Unit :
          Sources'[u] = [device'[u] EXCEPT !.open = IF device'[u].hdf THEN "yes" ELSE "no"]
    BY DEF Sources
  <2> QED  BY <2>1, <2>2 DEF UnitRec
<1>3. Hard!AllHeaders(Sources') = Hard!AllHeaders(Sources)
  BY <1>1, <1>2, SameHeaders
<1> QED  BY <1>3 DEF Known

(* Two lists that do not differ in the types and versions.                 *)
LEMMA SameSystems ==
  ASSUME NEW a, NEW b, DOMAIN a = DOMAIN b,
         \A i \in DOMAIN a : a[i].type = b[i].type /\ a[i].version = b[i].version, NEW t
  PROVE  /\ Of(a, t) = Of(b, t) /\ Hard!ForDOSType(a, t) = Hard!ForDOSType(b, t)
         /\ \A vs : HasNewest(a, vs, t) => HasNewest(b, vs, t)
         /\ \A vs, ss : HasNewestOfAll(a, vs, ss, t) => HasNewestOfAll(b, vs, ss, t)
<1>1. Of(a, t) = Of(b, t)
  BY DEF Of
<1>2. Hard!ForDOSType(a, t) = Hard!ForDOSType(b, t)
  <2>1. {i \in DOMAIN a : a[i].type = t} = {i \in DOMAIN b : b[i].type = t}
    BY <1>1 DEF Of
  <2> QED  BY <2>1 DEF Hard!ForDOSType
<1>3. \A i \in Of(a, t) : a[i].version = b[i].version
  BY DEF Of
<1>4. ASSUME NEW vs, HasNewest(a, vs, t) PROVE HasNewest(b, vs, t)
  BY <1>1, <1>3, <1>4 DEF HasNewest
<1>5. ASSUME NEW vs, NEW ss, HasNewestOfAll(a, vs, ss, t) PROVE HasNewestOfAll(b, vs, ss, t)
  BY <1>1, <1>3, <1>5 DEF HasNewestOfAll
<1> QED  BY <1>1, <1>2, <1>4, <1>5

LEMMA NewestStays ==
  ASSUME NewestIsThere, Known' = Known, kick' = kick, DOMAIN fileSystems' = DOMAIN fileSystems,
         \A i \in DOMAIN fileSystems : /\ fileSystems'[i].type = fileSystems[i].type
                                       /\ fileSystems'[i].version = fileSystems[i].version,
         amiga'.boot = "diag" => amiga.boot = "diag",
         amiga'.boot \in {"load", "mount"} => amiga.boot \in {"load", "mount"}
  PROVE  NewestIsThere'
<1> SUFFICES ASSUME NEW t \in DosType, ~Disorder(Known, t)
             PROVE  /\ amiga'.boot = "diag" => HasNewest(fileSystems', Hard!Versions(Known, t), t)
                    /\ amiga'.boot \in {"load", "mount"} =>
                         HasNewestOfAll(fileSystems', Hard!Versions(Known, t), Hard!Versions(kick, t), t)
  BY DEF NewestIsThere
<1>1. /\ amiga.boot = "diag" => HasNewest(fileSystems, Hard!Versions(Known, t), t)
      /\ amiga.boot \in {"load", "mount"} =>
           HasNewestOfAll(fileSystems, Hard!Versions(Known, t), Hard!Versions(kick, t), t)
  BY DEF NewestIsThere
<1> QED  BY <1>1, SameSystems

LEMMA HandlersStay ==
  ASSUME HandlersAreFirst, DOMAIN fileSystems' = DOMAIN fileSystems,
         \A i \in DOMAIN fileSystems : /\ fileSystems'[i].type = fileSystems[i].type
                                       /\ fileSystems'[i].version = fileSystems[i].version,
         amiga'.mounted = amiga.mounted
  PROVE  HandlersAreFirst'
<1>1. \A t : Hard!ForDOSType(fileSystems', t) = Hard!ForDOSType(fileSystems, t)
  BY SameSystems
<1> QED  BY <1>1 DEF HandlersAreFirst
(* Settings that do not call for a reset only remove units.                *)
LEMMA QuietActivateIs ==
  ASSUME HardInv, NEW names, NEW on, NEW edited, Hard!Activate(names, on, edited), ~preStart'
  PROVE  /\ ~preStart /\ unplugged \subseteq unplugged'
         /\ \A u \in Hard!Unit : \/ device'[u] = device[u]
                                 \/ /\ device'[u] = Hard!Removed(device[u])
                                    /\ device[u].name # NoHardFile => u \in unplugged'
         /\ DOMAIN fileSystems' = DOMAIN fileSystems
         /\ \A i \in DOMAIN fileSystems : /\ fileSystems'[i].type = fileSystems[i].type
                                          /\ fileSystems'[i].version = fileSystems[i].version
                                          /\ fileSystems'[i].loaded = fileSystems[i].loaded
<1> DEFINE cleared == [u \in Hard!Unit |-> IF on # enabled THEN Hard!Removed(device[u]) ELSE device[u]]
           set  == {u \in Hard!Unit : /\ on /\ u < Len(names)
                                      /\ names[u + 1] # cleared[u].name \/ u \in edited}
           gone == {u \in Hard!Unit : on /\ u >= Len(names)}
           new(u) == IF u \in set
                     THEN Hard!Initialized([Hard!Removed(cleared[u]) EXCEPT !.name = names[u + 1]])
                     ELSE IF u \in gone THEN Hard!Removed(cleared[u]) ELSE cleared[u]
<1>1. /\ device' = [u \in Hard!Unit |-> new(u)]
      /\ preStart' = (preStart \/ Hard!NeedsReset(on, set, {u \in gone : cleared[u].open # "no"}))
      /\ fileSystems' = IF on # enabled THEN <<>> ELSE Hard!Orphaned(set \union gone)
      /\ unplugged' = unplugged \union {u \in gone : cleared[u].name # NoHardFile}
  BY DEF Hard!Activate
<1> HIDE DEF set, gone
<1>2. ~preStart /\ on = enabled /\ set = {}
  BY <1>1 DEF Hard!NeedsReset
<1>3. \A u \in Hard!Unit : cleared[u] = device[u]
  BY <1>2
<1> HIDE DEF cleared
<1>4. \A u \in Hard!Unit : new(u) = IF u \in gone THEN Hard!Removed(device[u]) ELSE device[u]
  BY <1>2, <1>3
<1> HIDE DEF new
<1>5. \A u \in Hard!Unit : \/ device'[u] = device[u]
                           \/ /\ device'[u] = Hard!Removed(device[u])
                              /\ device[u].name # NoHardFile => u \in unplugged'
  BY <1>1, <1>3, <1>4
<1>6. fileSystems' = Hard!Orphaned(set \union gone)
  BY <1>1, <1>2
<1>7. DOMAIN fileSystems' = DOMAIN fileSystems
  BY <1>6 DEF Hard!Orphaned
<1>8. ASSUME NEW i \in DOMAIN fileSystems
      PROVE  /\ fileSystems'[i].type = fileSystems[i].type
             /\ fileSystems'[i].version = fileSystems[i].version
             /\ fileSystems'[i].loaded = fileSystems[i].loaded
  <2> DEFINE h == fileSystems[i]
  <2>1. h \in HeaderRec
    BY HardUnits
  <2>2. fileSystems'[i] = [h EXCEPT !.live = @ /\ h.unit \notin set \union gone]
    BY <1>6 DEF Hard!Orphaned
  <2> HIDE DEF h
  <2>3. /\ fileSystems'[i].type = h.type /\ fileSystems'[i].version = h.version
        /\ fileSystems'[i].loaded = h.loaded
    BY <2>1, <2>2 DEF HeaderRec
  <2> QED  BY <2>3 DEF h
<1> QED  BY <1>1, <1>2, <1>5, <1>7, <1>8

LEMMA ActivateKeepsMounts ==
  ASSUME HardInv, HardInv', MountInv, NEW names, NEW on, NEW edited,
         Hard!Activate(names, on, edited)
  PROVE  MountInv'
<1>1. stage' = "set" /\ UNCHANGED <<disk, cards, kick, amiga>>
  BY DEF Hard!Activate
<1>2. ASSUME ~preStart' PROVE LoadedInOrder' /\ HandlersAreFirst'
  <2>1. /\ ~preStart /\ DOMAIN fileSystems' = DOMAIN fileSystems
        /\ \A i \in DOMAIN fileSystems : /\ fileSystems'[i].type = fileSystems[i].type
                                         /\ fileSystems'[i].version = fileSystems[i].version
                                         /\ fileSystems'[i].loaded = fileSystems[i].loaded
    BY <1>2, QuietActivateIs
  <2>2. Len(fileSystems') = Len(fileSystems)
    <3>1. fileSystems \in Seq(HeaderRec) /\ fileSystems' \in Seq(HeaderRec)
      BY DEF HardInv, HardTypes
    <3> QED  BY <2>1, <3>1
  <2>3. LoadedInOrder'
    BY <1>1, <2>1, <2>2 DEF LoadedInOrder, MountInv
  <2>4. HandlersAreFirst'
    BY <1>1, <2>1, HandlersStay DEF MountInv
  <2> QED  BY <2>3, <2>4
<1>3. ASSUME ~preStart', unplugged' = {} PROVE NewestIsThere'
  <2>1. /\ ~preStart /\ unplugged = {} /\ DOMAIN fileSystems' = DOMAIN fileSystems
        /\ \A i \in DOMAIN fileSystems : /\ fileSystems'[i].type = fileSystems[i].type
                                         /\ fileSystems'[i].version = fileSystems[i].version
        /\ \A u \in Hard!Unit : \/ device'[u] = device[u]
                                \/ /\ device'[u] = Hard!Removed(device[u])
                                   /\ device[u].name = NoHardFile
    BY <1>3, QuietActivateIs
  <2>2. \A u \in Hard!Unit : /\ device'[u].hdf <=> device[u].hdf
                             /\ device[u].hdf => device'[u] = device[u]
    <3> TAKE u \in Hard!Unit
    <3>1. CASE device'[u] = device[u]
      BY <3>1
    <3>2. CASE device'[u] = Hard!Removed(device[u]) /\ device[u].name = NoHardFile
      <4>1. device[u] \in UnitRec /\ ~device[u].hdf
        BY <3>2, HardUnits, HardConstants DEF Ready, ReadyOn
      <4>2. ~Hard!Removed(device[u]).hdf
        BY <4>1 DEF Hard!Removed, UnitRec
      <4> QED  BY <3>2, <4>1, <4>2
    <3> QED  BY <2>1, <3>1, <3>2
  <2>3. Known' = Known
    BY <2>2, KnownSame
  <2> QED  BY <1>1, <2>1, <2>3, NewestStays DEF MountInv
<1> QED  BY <1>1, <1>2, <1>3 DEF MountInv

(* A step that only opens and closes files.                                *)
LEMMA FilesKeepMounts ==
  ASSUME HardInv, HardInv', MountInv, UNCHANGED <<fileSystems, kick, amiga, preStart, unplugged>>,
         \A u \in Hard!Unit : /\ device'[u].hdf <=> device[u].hdf
                              /\ device[u].hdf => /\ device'[u].hasRdb = device[u].hasRdb
                                                  /\ device'[u].rdb = device[u].rdb,
         stage' = "running" => \A u \in Hard!Unit : device'[u].open = "yes" <=> device'[u].hdf
  PROVE  MountInv'
<1>1. Known' = Known
  BY KnownSame
<1>2. (preStart \/ (LoadedInOrder /\ HandlersAreFirst))'
  BY DEF MountInv, LoadedInOrder, HandlersAreFirst
<1>3. (preStart \/ unplugged # {} \/ NewestIsThere)'
  BY <1>1, NewestStays DEF MountInv
<1> QED  BY <1>2, <1>3 DEF MountInv

(* The lists are empty after a reset.                                      *)
LEMMA ResetKeepsMounts ==
  ASSUME NEW devices, Hard!Reset(devices),
         \A u \in Hard!Unit : device'[u].open = "yes" <=> device'[u].hdf
  PROVE  MountInv'
<1>1. amiga'.boot = "config" /\ amiga'.next = 1 /\ amiga'.mounted = <<>>
  BY ResetIs
<1>2. LoadedInOrder' /\ HandlersAreFirst' /\ NewestIsThere'
  BY <1>1 DEF LoadedInOrder, HandlersAreFirst, NewestIsThere
<1> QED  BY <1>1, <1>2 DEF MountInv

LEMMA SessionStartKeepsMounts ==
  ASSUME HardInv, HardInv', MountInv, Hard!SessionStart PROVE MountInv'
<1> DEFINE started == [u \in Hard!Unit |-> Started(device[u])]
<1>1. /\ stage = "set" /\ stage' = "running" /\ device' = started
      /\ IF preStart THEN Hard!Reset(started) ELSE UNCHANGED <<cards, amiga, preStart, unplugged>>
      /\ UNCHANGED <<disk, fileSystems, enabled, kick>>
  BY DEF Hard!SessionStart, Started
<1>2. \A u \in Hard!Unit : /\ device'[u].open = (IF device[u].hdf THEN "yes" ELSE "no")
                           /\ device'[u].hdf = device[u].hdf
                           /\ device'[u].hasRdb = device[u].hasRdb
                           /\ device'[u].rdb = device[u].rdb
  BY <1>1, HardUnits, StartedIs
<1>3. \A u \in Hard!Unit : device'[u].open = "yes" <=> device'[u].hdf
  BY <1>2
<1> HIDE DEF started
<1>4. CASE preStart
  BY <1>1, <1>3, <1>4, ResetKeepsMounts
<1>5. CASE ~preStart
  BY <1>1, <1>2, <1>3, <1>5, FilesKeepMounts
<1> QED  BY <1>4, <1>5

LEMMA SessionStopKeepsMounts ==
  ASSUME HardInv, HardInv', MountInv, Hard!SessionStop PROVE MountInv'
<1>1. /\ stage' = "dialog" /\ device' = [u \in Hard!Unit |-> Hard!Closed(device[u])]
      /\ UNCHANGED <<disk, fileSystems, enabled, cards, preStart, kick, amiga, unplugged>>
  BY DEF Hard!SessionStop
<1>2. \A u \in Hard!Unit : /\ device'[u].hdf = device[u].hdf
                           /\ device'[u].hasRdb = device[u].hasRdb
                           /\ device'[u].rdb = device[u].rdb
  BY <1>1, HardUnits, ClosedIs
<1> QED  BY <1>1, <1>2, FilesKeepMounts
LEMMA AmigaResetKeepsMounts ==
  ASSUME MountInv, Hard!AmigaReset PROVE MountInv'
<1>1. stage = "running" /\ Hard!Reset(device) /\ UNCHANGED device
  BY DEF Hard!AmigaReset
<1>2. \A u \in Hard!Unit : device'[u].open = "yes" <=> device'[u].hdf
  BY <1>1 DEF MountInv
<1> QED  BY <1>1, <1>2, ResetKeepsMounts

LEMMA ConfigureCardKeepsMounts ==
  ASSUME HardInv, HardInv', MountInv, Hard!ConfigureCard PROVE MountInv'
<1>1. UNCHANGED <<disk, device, fileSystems, stage, kick, amiga, preStart, unplugged>>
  BY DEF Hard!ConfigureCard
<1> QED  BY <1>1, FilesKeepMounts DEF MountInv

LEMMA RewriteKeepsMounts ==
  ASSUME HardInv, HardInv', MountInv, NEW u, NEW c, Hard!Rewrite(u, c) PROVE MountInv'
<1>1. UNCHANGED <<device, fileSystems, stage, kick, amiga, preStart, unplugged>>
  BY DEF Hard!Rewrite
<1> QED  BY <1>1, FilesKeepMounts DEF MountInv

LEMMA DiagKeepsMounts ==
  ASSUME HardInv, HardInv', MountInv, Hard!Diag PROVE MountInv'
<1> DEFINE devices == [u \in Hard!Unit |-> Hard!Initialized(device[u])]
           packets == Hard!CreateMountList(devices)
           b == "diag"
<1>1. /\ stage' = "running" /\ amiga.boot = "config" /\ device' = devices
      /\ fileSystems' = Hard!AddFileSystemsFromRdb(devices)
      /\ amiga' = [amiga EXCEPT !.boot = b, !.packets = packets]
  BY DEF Hard!Diag
<1> HIDE DEF packets
<1>2. /\ amiga'.boot = "diag" /\ amiga'.next = amiga.next /\ amiga'.mounted = amiga.mounted
  <2>1. amiga \in AmigaRec
    BY DEF HardInv, HardTypes
  <2> QED  BY <1>1, <2>1 DEF AmigaRec
<1>3. amiga'.next = 1 /\ amiga'.mounted = <<>>
  BY <1>1, <1>2 DEF MountInv
<1>4. disk \in [File -> Content]
  BY DEF HardInv, HardTypes
<1>5. \A u \in Hard!Unit : device'[u].open = "yes" <=> device'[u].hdf
  BY <1>1, <1>4, HardUnits, InitializedIs
<1> HIDE DEF devices
<1>6. LoadedInOrder' /\ HandlersAreFirst'
  BY <1>2, <1>3 DEF LoadedInOrder, HandlersAreFirst
(* The sources are the units that were just read.                          *)
<1>7. Known' = Hard!AllHeaders(devices)
  <2>1. \A u \in Hard!Unit : device'[u] \in UnitRec /\ device'[u].open \in {"no", "yes"}
    BY HardFields DEF HardInv, HardTypes, Devices
  <2>2. \A u \in Hard!Unit :
          Sources'[u] = [device'[u] EXCEPT !.open = IF device'[u].hdf THEN "yes" ELSE "no"]
    BY DEF Sources
  <2>3. \A u \in Hard!Unit : /\ Sources'[u].open = (IF device'[u].hdf THEN "yes" ELSE "no")
                             /\ Sources'[u].hasRdb = device'[u].hasRdb
                             /\ Sources'[u].rdb = device'[u].rdb
    BY <2>1, <2>2 DEF UnitRec
  <2>4. Hard!AllHeaders(Sources') = Hard!AllHeaders(device')
    BY <1>5, <2>1, <2>3, SameHeaders
  <2> QED  BY <1>1, <2>4 DEF Known
<1>8. NewestIsThere'
  <2> SUFFICES ASSUME NEW t \in DosType, ~Disorder(Known', t)
               PROVE  HasNewest(fileSystems', Hard!Versions(Known', t), t)
    BY <1>2 DEF NewestIsThere
  <2>1. Hard!AllHeaders(devices) \in Seq(HeaderRec)
    <3>1. \A u \in Hard!Unit : Ready(devices[u])
      BY <1>4, HardUnits, InitializedIs DEF devices
    <3>2. devices \in Devices
      BY <1>1 DEF HardInv, HardTypes
    <3>3. Hard!AllHeaders(devices) \in Seq(LiveRec(devices)) /\ LiveRec(devices) \subseteq HeaderRec
      BY <3>1, <3>2, AllHeadersAre DEF LiveRec
    <3> QED  BY <3>3
  <2> QED  BY <1>1, <1>7, <2>1, NewestAdded
<1> QED  BY <1>2, <1>3, <1>5, <1>6, <1>8 DEF MountInv

LEMMA FhfileInitKeepsMounts ==
  ASSUME HardInv, HardInv', MountInv, Hard!FhfileInit PROVE MountInv'
<1> DEFINE left == Hard!RemoveSupported(fileSystems)
           b == IF left = <<>> THEN "mount" ELSE "load"
<1>1. /\ amiga.boot = "diag" /\ fileSystems' = left
      /\ amiga' = [amiga EXCEPT !.boot = b]
      /\ UNCHANGED <<device, preStart, stage, kick, unplugged>>
  BY DEF Hard!FhfileInit
<1>2. kick \in Seq(KickRec) /\ fileSystems \in Seq(HeaderRec) /\ left \in Seq(HeaderRec)
  BY <1>1, HardConstants DEF HardInv, HardTypes
<1> HIDE DEF left
<1>3. /\ amiga'.boot = b /\ amiga'.next = 1 /\ amiga'.mounted = <<>>
  <2>1. amiga \in AmigaRec
    BY DEF HardInv, HardTypes
  <2>2. /\ amiga'.boot = b /\ amiga'.next = amiga.next /\ amiga'.mounted = amiga.mounted
    BY <1>1, <2>1 DEF AmigaRec
  <2> QED  BY <1>1, <2>2 DEF MountInv
<1>4. LoadedInOrder' /\ HandlersAreFirst'
  <2>1. HandlersAreFirst'
    BY <1>3 DEF HandlersAreFirst
  <2>2. CASE left = <<>>
    BY <1>1, <1>3, <2>1, <2>2 DEF LoadedInOrder
  <2>3. CASE left # <<>>
    <3>1. Len(left) >= 1 /\ \A i \in DOMAIN left : ~(i < 1)
      BY <1>2, <2>3
    <3>2. amiga'.boot = "load"
      BY <1>3, <2>3
    <3> QED  BY <1>1, <1>3, <2>1, <3>1, <3>2 DEF LoadedInOrder
  <2> QED  BY <2>2, <2>3
<1>5. ASSUME ~preStart, unplugged = {} PROVE NewestIsThere'
  <2>1. Known' = Known
    BY <1>1, KnownSame
  <2> SUFFICES ASSUME NEW t \in DosType, ~Disorder(Known, t)
               PROVE  HasNewestOfAll(left, Hard!Versions(Known, t), Hard!Versions(kick, t), t)
    BY <1>1, <1>3, <2>1 DEF NewestIsThere
  <2>2. HasNewest(fileSystems, Hard!Versions(Known, t), t)
    BY <1>1, <1>5 DEF MountInv, NewestIsThere
  <2>3. Hard!Versions(Known, t) \in SUBSET Nat
    <3>1. Known \in Seq(HeaderRec)
      BY SourcesAre
    <3>2. \A i \in DOMAIN Known : Known[i].version \in Nat
      BY <3>1, HardFields
    <3> QED  BY <3>2, VersionsAre DEF Of
  <2> QED  BY <1>2, <2>2, <2>3, NewestLeft DEF left
<1>6. amiga'.boot \in {"load", "mount"}
  BY <1>3
<1> HIDE DEF b
<1> QED  BY <1>1, <1>3, <1>4, <1>5, <1>6 DEF MountInv
LEMMA LoadFileSystemKeepsMounts ==
  ASSUME HardInv, HardInv', MountInv, Hard!LoadFileSystem PROVE MountInv'
<1> DEFINE last == amiga.next = Len(fileSystems)
           b == IF last THEN "mount" ELSE "load"
           n == IF last THEN 1 ELSE amiga.next + 1
<1>1. /\ amiga.boot = "load" /\ fileSystems' = [fileSystems EXCEPT ![amiga.next].loaded = TRUE]
      /\ amiga' = IF last THEN [amiga EXCEPT !.boot = "mount", !.next = 1]
                  ELSE [amiga EXCEPT !.next = @ + 1]
      /\ UNCHANGED <<device, preStart, stage, kick, unplugged>>
  BY DEF Hard!LoadFileSystem
<1>2. amiga \in AmigaRec /\ amiga.next \in Nat \ {0} /\ fileSystems \in Seq(HeaderRec)
  BY HardFields DEF HardInv, HardTypes
<1>3. /\ amiga'.boot = b /\ amiga'.next = n /\ amiga'.mounted = amiga.mounted
  BY <1>1, <1>2 DEF AmigaRec
<1>4. PICK m \in Nat : /\ DOMAIN fileSystems = 1 .. m /\ Len(fileSystems) = m
                       /\ \A i \in 1 .. m : fileSystems[i] \in HeaderRec
  BY <1>2
<1> DEFINE row(i) == IF i = amiga.next THEN [fileSystems[i] EXCEPT !.loaded = TRUE] ELSE fileSystems[i]
<1>5. \A i \in 1 .. m : /\ row(i).type = fileSystems[i].type
                        /\ row(i).version = fileSystems[i].version
                        /\ row(i).loaded <=> (fileSystems[i].loaded \/ i = amiga.next)
  BY <1>4, HardFields DEF HeaderRec
<1>6. fileSystems' = [i \in 1 .. m |-> row(i)]
  BY <1>1, <1>2, <1>4
<1> HIDE DEF row
<1>7. /\ DOMAIN fileSystems' = 1 .. m /\ Len(fileSystems') = m
      /\ \A i \in 1 .. m : /\ fileSystems'[i].type = fileSystems[i].type
                           /\ fileSystems'[i].version = fileSystems[i].version
                           /\ fileSystems'[i].loaded <=> (fileSystems[i].loaded \/ i = amiga.next)
  BY <1>5, <1>6
<1>8. ASSUME ~preStart PROVE LoadedInOrder' /\ HandlersAreFirst'
  <2>1. amiga.next <= m /\ \A i \in 1 .. m : i < amiga.next => fileSystems[i].loaded
    BY <1>1, <1>4, <1>8 DEF MountInv, LoadedInOrder
  <2>2. CASE last
    <3>1. \A i \in 1 .. m : fileSystems'[i].loaded
      BY <1>2, <1>4, <1>7, <2>1, <2>2
    <3>2. amiga'.boot = "mount"
      BY <1>3, <2>2
    <3> QED  BY <1>7, <3>1, <3>2, <1>1, <1>3 DEF LoadedInOrder, MountInv, HandlersAreFirst
  <2>3. CASE ~last
    <3>1. amiga'.boot = "load" /\ amiga'.next = amiga.next + 1 /\ amiga.next + 1 <= m
      BY <1>2, <1>3, <1>4, <2>1, <2>3
    <3>2. \A i \in 1 .. m : i < amiga.next + 1 => fileSystems'[i].loaded
      BY <1>2, <1>7, <2>1
    <3> QED  BY <1>7, <3>1, <3>2, <1>1, <1>3 DEF LoadedInOrder, MountInv, HandlersAreFirst
  <2> QED  BY <2>2, <2>3
<1>9. ASSUME ~preStart, unplugged = {} PROVE NewestIsThere'
  <2>1. Known' = Known
    BY <1>1, KnownSame
  <2> QED  BY <1>1, <1>4, <1>7, <1>9, <2>1, NewestStays DEF MountInv
<1>10. amiga'.boot \in {"load", "mount"} /\ amiga'.mounted = <<>>
  BY <1>1, <1>3 DEF MountInv
<1> HIDE DEF b, n, last
<1> QED  BY <1>1, <1>8, <1>9, <1>10 DEF MountInv

LEMMA MountPartitionKeepsMounts ==
  ASSUME HardInv, HardInv', MountInv, Hard!MountPartition PROVE MountInv'
<1> DEFINE p == amiga.packets[amiga.next]
           m == [unit |-> p.unit, type |-> p.type, name |-> p.name,
                 file |-> device[p.unit].name, handler |-> Hard!ForDOSType(fileSystems, p.type)]
           mounted == Append(amiga.mounted, m)
<1>1. /\ amiga.boot = "mount" /\ amiga' = [amiga EXCEPT !.next = amiga.next + 1, !.mounted = mounted]
      /\ UNCHANGED <<device, fileSystems, preStart, stage, kick, unplugged>>
  BY DEF Hard!MountPartition
<1>2. amiga \in AmigaRec /\ amiga.mounted \in Seq(MountRec)
  BY HardFields DEF HardInv, HardTypes
<1>3. m.handler = Hard!ForDOSType(fileSystems, m.type)
  OBVIOUS
<1> HIDE DEF m
<1>4. /\ \A i \in DOMAIN mounted : i \in DOMAIN amiga.mounted \/ mounted[i] = m
      /\ \A i \in DOMAIN amiga.mounted : mounted[i] = amiga.mounted[i]
  BY <1>2
<1> HIDE DEF mounted
<1>5. amiga'.boot = "mount" /\ amiga'.mounted = mounted
  BY <1>1, <1>2 DEF AmigaRec
<1>6. ASSUME ~preStart PROVE LoadedInOrder' /\ HandlersAreFirst'
  <2>1. LoadedInOrder'
    BY <1>1, <1>5, <1>6 DEF LoadedInOrder, MountInv
  <2>2. HandlersAreFirst'
    BY <1>1, <1>3, <1>4, <1>5, <1>6 DEF HandlersAreFirst, MountInv
  <2> QED  BY <2>1, <2>2
<1>7. ASSUME ~preStart, unplugged = {} PROVE NewestIsThere'
  <2>1. Known' = Known
    BY <1>1, KnownSame
  <2> QED  BY <1>1, <1>5, <1>7, <2>1, NewestStays DEF MountInv
<1> QED  BY <1>1, <1>5, <1>6, <1>7 DEF MountInv

LEMMA MountInitInv == Hard!HardInit => MountInv
BY DEF Hard!HardInit, MountInv, Hard!Empty

LEMMA MountsUnchanged ==
  ASSUME MountInv, UNCHANGED hardVars PROVE MountInv'
<1>1. UNCHANGED <<disk, device, fileSystems, preStart, stage, kick, amiga, unplugged>>
  BY DEF hardVars
<1>2. Known' = Known
  BY <1>1 DEF Known, Sources
<1> QED  BY <1>1, <1>2 DEF MountInv, LoadedInOrder, HandlersAreFirst, NewestIsThere

LEMMA MountStep ==
  ASSUME HardInv, HardInv', MountInv, [UseFloppies \/ UseHardFiles]_storageVars PROVE MountInv'
<1>1. CASE UseFloppies
  BY <1>1, MountsUnchanged DEF UseFloppies
<1>2. CASE UNCHANGED storageVars
  BY <1>2, MountsUnchanged DEF storageVars
<1>3. CASE UseHardFiles
  <2>1. Hard!HardNext
    BY <1>3 DEF UseHardFiles
  <2>2. CASE \E names \in Hard!SeqOf(File, Units), on \in BOOLEAN, edited \in SUBSET Hard!Unit :
               Hard!Activate(names, on, edited)
    BY <2>2, ActivateKeepsMounts
  <2>3. CASE \E u \in Hard!Unit, c \in Content : Hard!Rewrite(u, c)
    BY <2>3, RewriteKeepsMounts
  <2>4. CASE Hard!SessionStart \/ Hard!SessionStop \/ Hard!AmigaReset \/ Hard!ConfigureCard
    BY <2>4, SessionStartKeepsMounts, SessionStopKeepsMounts, AmigaResetKeepsMounts,
       ConfigureCardKeepsMounts
  <2>5. CASE Hard!Diag \/ Hard!FhfileInit \/ Hard!LoadFileSystem \/ Hard!MountPartition
    BY <2>5, DiagKeepsMounts, FhfileInitKeepsMounts, LoadFileSystemKeepsMounts,
       MountPartitionKeepsMounts
  <2> QED  BY <2>1, <2>2, <2>3, <2>4, <2>5 DEF Hard!HardNext
<1> QED  BY <1>1, <1>2, <1>3

(* The invariant says what NewestIsMounted says of each partition.         *)
LEMMA NewestMounted ==
  ASSUME HardInv, MountInv PROVE Hard!NewestIsMounted
<1> SUFFICES ASSUME NEW i \in DOMAIN amiga.mounted, stage = "running", unplugged = {},
                    ~Hard!Descending(amiga.mounted[i].type)
             PROVE  LET m == amiga.mounted[i]
                        system == Hard!Versions(kick, m.type)
                        best == system \union Hard!Versions(Hard!AllHeaders(device), m.type)
                        got  == IF m.handler = {} THEN system
                                ELSE {fileSystems[h].version : h \in m.handler}
                    IN  /\ best = {} \/ \E v \in got : \A w \in best : v >= w
                        /\ \A h \in m.handler : fileSystems[h].loaded
  BY DEF Hard!NewestIsMounted
<1> DEFINE m == amiga.mounted[i]
           t == m.type
           system == Hard!Versions(kick, t)
           headers == Hard!Versions(Known, t)
<1>1. Hard!AllHeaders(device) = Known
  BY KnownIs
<1>2. ~preStart /\ amiga.boot = "mount" /\ t \in DosType
  <2>1. m \in MountRec /\ amiga.mounted # <<>>
    BY HardUnits
  <2> QED  BY <2>1 DEF HardInv, MountInv, MountRec
<1>3. ~Disorder(Known, t)
  BY <1>1 DEF Hard!Descending, Disorder, Of
<1>4. HasNewestOfAll(fileSystems, headers, system, t)
  BY <1>2, <1>3 DEF MountInv, NewestIsThere
<1>5. /\ m.handler = Hard!ForDOSType(fileSystems, t)
      /\ \A h \in DOMAIN fileSystems : fileSystems[h].loaded
  BY <1>2 DEF MountInv, HandlersAreFirst, LoadedInOrder
<1>6. m.handler \subseteq Of(fileSystems, t)
  BY <1>5 DEF Hard!ForDOSType, Hard!First, Of
<1>7. \A h \in m.handler : fileSystems[h].loaded
  BY <1>5, <1>6 DEF Of
<1>8. m.handler = {} => Of(fileSystems, t) = {}
  <2> SUFFICES ASSUME NEW h \in Of(fileSystems, t) PROVE h \in m.handler
    OBVIOUS
  <2>1. \A j \in Of(fileSystems, t) : h <= j
    <3>1. DOMAIN fileSystems \subseteq Nat
      BY DEF HardInv, HardTypes
    <3> QED  BY <1>4, <3>1 DEF HasNewestOfAll, Of
  <2> QED  BY <1>5, <2>1 DEF Hard!ForDOSType, Hard!First, Of
<1>9. CASE m.handler = {}
  BY <1>1, <1>4, <1>8, <1>9 DEF HasNewestOfAll
<1>10. CASE m.handler # {}
  <2>1. PICK h \in m.handler : \A v \in headers \union system : fileSystems[h].version >= v
    BY <1>4, <1>6, <1>10 DEF HasNewestOfAll
  <2> QED  BY <1>1, <1>7, <1>10, <2>1
<1> QED  BY <1>9, <1>10

(* For any partition tables and Kickstart, a partition is mounted with the *)
(* newest file system of its type, loaded before, and no two partitions    *)
(* have one name (DoDiag, fhfile_init, AddFileSystem, MakeDeviceName).     *)
THEOREM MountsStayRight == StorageSpec => []MountsAreRight
<1>1. StorageInit => MountInv
  BY MountInitInv DEF StorageInit
<1>2. HardInv /\ HardInv' /\ MountInv /\ [UseFloppies \/ UseHardFiles]_storageVars => MountInv'
  BY MountStep
<1>3. HardInv /\ MountInv => MountsAreRight
  BY HardInvImplies, NewestMounted DEF MountsAreRight, Hard!MountsAreRight
<1> QED  BY <1>1, <1>2, <1>3, HardFilesStaySound, PTL DEF StorageSpec
=============================================================================
