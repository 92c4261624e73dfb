------------------------------ MODULE DiskDma ------------------------------
(***************************************************************************)
(* The disk controller and the drives on the raster's side (FloppyDisk.cpp *)
(* and port B of CIA B): the head moves over the track by a few words in   *)
(* every line, the sync word aligns what is read, and a transfer that was  *)
(* started by writing DSKLEN twice ends with the disk block interrupt.     *)
(* Meanwhile the Amiga may write any register, step, select and reset.     *)
(*                                                                         *)
(* A write saves its sectors at once (floppySectorSave, see DiskImages)    *)
(* and is from then on only a delay of the interrupt.                      *)
(***************************************************************************)
EXTENDS Integers, Sequences

CONSTANTS
  Disk,        \* the tracks of the disk in each drive, as sequences of bytes
  Raw,         \* the drives whose image is not a plain one
  PlainSyncs,  \* the sync words that a plain image is searched for, as pairs
               \* of bytes: 0x4489, 0x8914 and 0x4124
  SyncWords,   \* what programs write to DSKSYNC
  Gap,         \* bytes of the gap at the end of a track (FLOPPY_GAP_BYTES)
  LineWords,   \* words per line: 2, or FLOPPY_FAST_WORDS
  WaitInitial, \* FLOPPY_WAIT_INITIAL
  Overrun,     \* cylinders beyond the last that can be stepped to (3)
  Lengths,     \* lengths that programs write to DSKLEN, not 0
  Ports,       \* what programs write to port B of CIA B
  Noise        \* bytes that are read beyond the last cylinder

Drive == DOMAIN Disk
NoDrive == -1   \* none
NoSync == <<0, 0>>                       \* DSKSYNC after a reset
Cylinders(d) == Len(Disk[d]) \div 2
TrackLength(d) == IF Disk[d] = <<>> THEN 1 ELSE Len(Disk[d][1])

Bytes == 0 .. 255

ASSUME DiskAssumption ==
  /\ Drive \subseteq 0 .. 3 /\ Raw \subseteq Drive
  /\ {Gap, Overrun} \subseteq Nat /\ Noise \subseteq Bytes
  /\ \A d \in Drive : /\ Disk[d] \in Seq(Seq(Bytes))
                      /\ \A t \in DOMAIN Disk[d] :
                           Len(Disk[d][t]) = Len(Disk[d][1]) /\ Gap + 1 < Len(Disk[d][t])
ASSUME LengthAssumption ==
  /\ Lengths \subseteq Nat \ {0} /\ {LineWords, WaitInitial} \subseteq Nat \ {0}
  /\ \E n \in Lengths : \A k \in Lengths : k <= n
ASSUME PortAssumption ==
  Ports \subseteq [sel : SUBSET Drive, motor : BOOLEAN, side : 0 .. 1, dir : BOOLEAN, step : BOOLEAN]

VARIABLES
  drive,     \* floppy[]
  port,      \* cia[1].prb
  regs,      \* DSKLEN, how often its DMA bit was written, ADKCON, DSKSYNC, DMACON
  dma,       \* floppy_DMA and floppy_DMA_started
  head,      \* floppy_has_sync, prev_byte_under_head
  stored,    \* history: how many words were stored since the transfer began
  received,  \* history: these words, as long as nothing disturbs the transfer
  begun,     \* history: the drive, the length, the direction and the head then
  steady,    \* history: nothing but lines has happened since
  age,       \* history: lines with a transfer since the Amiga did something
  blocks     \* history: disk block interrupts since
vars == <<drive, port, regs, dma, head, stored, received, begun, steady, age, blocks>>

MaxLength == CHOOSE n \in Lengths : \A k \in Lengths : k <= n
MaxWait == MaxLength * 2 + WaitInitial

TypeOK ==
  /\ \A d \in Drive :
       drive[d] \in [sel : BOOLEAN, motor : BOOLEAN, step : BOOLEAN, side : 0 .. 1,
                     cylinder : 0 .. Cylinders(d) + Overrun, ticks : 0 .. TrackLength(d) - 1]
  /\ port \in [sel : SUBSET Drive, motor : BOOLEAN, side : 0 .. 1, dir : BOOLEAN, step : BOOLEAN]
  /\ regs \in [dmaen : BOOLEAN, count : 0 .. 2, wordsync : BOOLEAN, sync : SyncWords \union {NoSync}, channel : BOOLEAN]
  /\ dma \in [started : BOOLEAN, read : BOOLEAN, wordsleft : 0 .. MaxLength, wait : 0 .. MaxWait,
              wait_for_sync : BOOLEAN, sync_found : BOOLEAN, dont_use_gap : BOOLEAN]
  /\ head \in [has_sync : BOOLEAN, prev : Bytes]
  /\ received \in Seq(Bytes \X Bytes) /\ Len(received) <= MaxLength
  /\ stored \in 0 .. MaxLength
  /\ begun \in [drive : Drive \union {NoDrive}, length : Lengths \union {0}, read : BOOLEAN,
               ticks : Nat, prev : Bytes]
  /\ steady \in BOOLEAN /\ age \in Nat
  /\ blocks \in 0 .. 1

(* floppyClearDMAState, which leaves dont_use_gap as it was.               *)
Cleared(m) == [m EXCEPT !.started = FALSE, !.read = TRUE, !.wordsleft = 0, !.wait = 0,
                        !.wait_for_sync = FALSE, !.sync_found = FALSE]

Init ==
  /\ drive = [d \in Drive |-> [sel |-> FALSE, motor |-> FALSE, step |-> FALSE,
                               side |-> 0, cylinder |-> 0, ticks |-> 0]]
  /\ port = [sel |-> {}, motor |-> FALSE, side |-> 0, dir |-> FALSE, step |-> FALSE]
  /\ regs = [dmaen |-> FALSE, count |-> 0, wordsync |-> FALSE, sync |-> NoSync, channel |-> FALSE]
  /\ dma = [started |-> FALSE, read |-> TRUE, wordsleft |-> 0, wait |-> 0,
            wait_for_sync |-> FALSE, sync_found |-> FALSE, dont_use_gap |-> FALSE]
  /\ head = [has_sync |-> FALSE, prev |-> 0]
  /\ stored = 0 /\ received = <<>> /\ blocks = 0 /\ steady = FALSE /\ age = 0
  /\ begun = [drive |-> NoDrive, length |-> 0, read |-> TRUE, ticks |-> 0, prev |-> 0]
-----------------------------------------------------------------------------
(* floppySelectedGet: the first that is selected.                          *)
Selected ==
  LET s == {d \in Drive : drive[d].sel}
  IN  IF s = {} THEN NoDrive ELSE CHOOSE d \in s : \A e \in s : d <= e

TrackOf(d) == drive[d].cylinder * 2 + drive[d].side + 1         \* floppyGetLinearTrack
OffDisk(d) == drive[d].cylinder >= Cylinders(d)
Spinning(d) == drive[d].motor /\ Disk[d] # <<>>                 \* floppyIsSpinning
Turning == IF Selected = NoDrive THEN FALSE ELSE Spinning(Selected)
ChannelOn == regs.channel /\ regs.dmaen                         \* floppyDMAChannelOn

(* Plain images wait for the sync words that are known, others for any.    *)
WaitsForSync(d) ==
  regs.wordsync /\ IF d \in Raw THEN regs.sync # NoSync ELSE regs.sync \in PlainSyncs

Disturb ==
  /\ steady' = FALSE /\ age' = 0 /\ received' = <<>>
  /\ begun' = [begun EXCEPT !.ticks = 0, !.prev = 0]
  /\ UNCHANGED <<stored, blocks>>

(* floppyDMAReadInit; kickstart tells if the program is in the ROM.        *)
ReadInit(length, kickstart) ==
  LET d == Selected
      m == [dma EXCEPT !.started = TRUE, !.read = TRUE, !.wordsleft = length]
  IN  IF d = NoDrive THEN dma' = m /\ UNCHANGED drive
      ELSE /\ dma' = [m EXCEPT !.wait_for_sync = WaitsForSync(d), !.sync_found = FALSE,
                               !.dont_use_gap = kickstart]
           /\ drive' = IF kickstart /\ drive[d].ticks >= TrackLength(d) - Gap
                       THEN [drive EXCEPT ![d].ticks = 0] ELSE drive

(* floppyDMAWriteInit, which needs a drive.                                *)
WriteInit(length) ==
  /\ Selected # NoDrive
  /\ dma' = [dma EXCEPT !.started = TRUE, !.read = FALSE,
                        !.wait = (length * 2) \div LineWords + WaitInitial]
  /\ UNCHANGED drive

(* wdsklen: the second write with the DMA bit set starts a transfer, and   *)
(* so does every further one; a write without it stops the transfer.       *)
WriteDsklen(dmaen, write, length, kickstart) ==
  /\ regs' = [regs EXCEPT !.dmaen = dmaen, !.count = IF ~dmaen THEN 0 ELSE IF @ = 0 THEN 1 ELSE 2]
  /\ IF dmaen /\ regs.count >= 1
     THEN /\ IF write THEN WriteInit(length) ELSE ReadInit(length, kickstart)
          /\ stored' = 0 /\ received' = <<>> /\ blocks' = 0 /\ steady' = TRUE /\ age' = 0
          /\ begun' = [drive |-> Selected, length |-> length, read |-> ~write, prev |-> head.prev,
                       ticks |-> IF Selected = NoDrive THEN 0 ELSE drive'[Selected].ticks]
     ELSE /\ dma' = IF ~dmaen /\ dma.started THEN Cleared(dma) ELSE dma
          /\ Disturb
          /\ UNCHANGED drive
  /\ UNCHANGED <<port, head>>

(* wadcon, wdsksync, and the disk's bits of DMACON.                        *)
WriteRegister(r) ==
  /\ r # regs
  /\ regs' = r
  /\ Disturb
  /\ UNCHANGED <<drive, port, dma, head>>

WriteAdkcon(b)  == WriteRegister([regs EXCEPT !.wordsync = b])
WriteDsksync(w) == WriteRegister([regs EXCEPT !.sync = w])
WriteDmacon(b)  == WriteRegister([regs EXCEPT !.channel = b])
-----------------------------------------------------------------------------
(* floppyMotorSet                                                          *)
MotorSet(x, on) == [x EXCEPT !.motor = on, !.ticks = IF on /\ ~x.motor THEN 0 ELSE @]

(* floppyStepSet moves the heads of the selected drives on the edge of     *)
(* STEP, inwards or outwards.                                              *)
StepSet(x, d, step, dir) ==
  IF ~x.sel THEN x
  ELSE [x EXCEPT !.step = ~step,
          !.cylinder = IF x.step \/ step THEN @
                       ELSE IF dir THEN IF @ > 0 THEN @ - 1 ELSE @
                       ELSE IF @ < Cylinders(d) + Overrun THEN @ + 1 ELSE @]

(* ciaWriteBprb.  All lines are active when low; the motor is switched by  *)
(* the value its line has when a drive becomes selected.                   *)
WriteBprb(p) ==
  LET On == ~port.motor \/ ~p.motor
      Latched(d) == IF d \in port.sel \ p.sel THEN MotorSet(drive[d], On) ELSE drive[d]
      Chosen(d)  == [Latched(d) EXCEPT !.sel = d \notin p.sel, !.side = p.side]
  IN  /\ p # port
      /\ port' = p
      /\ drive' = [d \in Drive |-> StepSet(Chosen(d), d, p.step, p.dir)]
      /\ Disturb
      /\ UNCHANGED <<regs, dma, head>>

(* floppyHardReset and ciaStateClear: the state of the head stays, and the *)
(* port is 0 with no drive selected.                                       *)
HardReset ==
  /\ drive' = [d \in Drive |-> [drive[d] EXCEPT !.sel = FALSE, !.motor = FALSE,
                                !.side = 0, !.cylinder = 0, !.ticks = 0]]
  /\ port' = [sel |-> {}, motor |-> FALSE, side |-> 0, dir |-> FALSE, step |-> FALSE]
  /\ regs' = [dmaen |-> FALSE, count |-> 0, wordsync |-> FALSE, sync |-> NoSync, channel |-> FALSE]
  /\ dma' = Cleared(dma)
  /\ Disturb
  /\ UNCHANGED head
-----------------------------------------------------------------------------
(* A line, as operators on a record of what it changes.                    *)

(* floppyGetByteUnderHead                                                  *)
UnderHead(s, d, noise) == IF OffDisk(d) THEN noise ELSE Disk[d][TrackOf(d)][s.ticks + 1]

(* floppyNextByte                                                          *)
NextByte(s, d) ==
  LET length == IF OffDisk(d) THEN 1 ELSE TrackLength(d)
      modulo == IF ~OffDisk(d) /\ s.dma.started /\ s.dma.read /\ s.dma.dont_use_gap
                THEN length - Gap ELSE length
  IN  [s EXCEPT !.ticks = (@ + 1) % modulo]

(* floppyCheckSync, and if it sees the sync word for the first time.       *)
CheckSync(s, w) == IF regs.wordsync THEN [s EXCEPT !.has_sync = w = regs.sync] ELSE s
Found(s, w) == regs.wordsync /\ w = regs.sync /\ ~s.has_sync

(* The word is stored; with the last one the interrupt is requested.       *)
Store(s, w) ==
  [s EXCEPT !.received = IF steady THEN Append(@, w) ELSE @, !.stored = @ + 1,
            !.dma.wordsleft = @ - 1,
            !.dma.started = s.dma.wordsleft # 1,
            !.blocks = IF s.dma.wordsleft = 1 THEN @ + 1 ELSE @]

(* Mutant: the next word is taken for data while the sync is searched for. *)
ReadWordEarly(s, w, found) ==
  LET m == [s.dma EXCEPT !.sync_found = @ \/ found, !.wait_for_sync = @ /\ ~found]
      r == [s EXCEPT !.dma = m]
  IN  IF ChannelOn /\ ~m.wait_for_sync THEN Store(r, w) ELSE r

(* floppyReadWord, which skips the first sync word.                        *)
ReadWord(s, w, found) ==
  LET m == IF ~s.dma.wait_for_sync THEN s.dma
           ELSE IF s.dma.sync_found
                THEN [s.dma EXCEPT !.wait_for_sync = FALSE, !.sync_found = FALSE]
                ELSE [s.dma EXCEPT !.sync_found = found]
      r == [s EXCEPT !.dma = m]
  IN  IF ChannelOn /\ ~m.wait_for_sync THEN Store(r, w) ELSE r

(* One word of floppyEndOfLine.  If the sync word ends with the first byte *)
(* no second one is read, which aligns the words that follow.              *)
Word(s, d, noise) ==
  LET b1 == UnderHead(s, d, noise)
      w1 == <<s.prev, b1>>
      s1 == NextByte(CheckSync(s, w1), d)
      b2 == UnderHead(s1, d, noise)
      w2 == <<b1, b2>>
      n2 == NextByte(s1, d)
      aligned == Found(s, w1)
      w  == IF aligned THEN w1 ELSE w2
      r  == [(IF aligned THEN s1 ELSE CheckSync(n2, w2)) EXCEPT !.prev = w[2]]
  IN  IF r.dma.started /\ r.dma.read THEN ReadWord(r, w, aligned \/ Found(n2, w2)) ELSE r

(* Mutant: a write in progress is not counted down without a motor.        *)
WriteWaitSpinning ==
  IF Turning THEN [dma EXCEPT !.wait = @ - 1, !.started = dma.wait # 1]
  ELSE dma

(* floppyDMAWrite                                                          *)
WriteWait == [dma EXCEPT !.wait = @ - 1, !.started = dma.wait # 1]

(* The positions of a track on which a word begins, if a transfer that     *)
(* uses m bytes of it goes on reading from there.                          *)
At(track, m, w) == {i \in 0 .. m - 1 : w = <<track[i + 1], track[((i + 1) % m) + 1]>>}

(* Whether a transfer that is under way can end by itself: the track has a *)
(* sync word that does not begin inside another one.                       *)
CanEnd ==
  \/ ~dma.read
  \/ /\ ChannelOn /\ Turning /\ ~OffDisk(Selected)
     /\ dma.wait_for_sync /\ ~dma.sync_found =>
          LET track == Disk[Selected][TrackOf(Selected)]
              m == Len(track) - (IF dma.dont_use_gap THEN Gap ELSE 0)
              syncs == At(track, m, regs.sync)
          IN  regs.wordsync /\ \E i \in syncs : (i - 1) % m \notin syncs

Age == age' = IF dma'.started /\ CanEnd THEN age + 1 ELSE 0

(* floppyEndOfLine, while a write is in progress: the head stands still.   *)
WriteLine ==
  /\ dma.started /\ ~dma.read
  /\ dma' = WriteWait
  /\ blocks' = IF dma'.started THEN blocks ELSE blocks + 1
  /\ head' = [head EXCEPT !.has_sync = FALSE]
  /\ Age
  /\ UNCHANGED <<drive, port, regs, stored, received, begun, steady>>

(* No disk turns under a head.                                             *)
IdleLine ==
  /\ dma.started => dma.read
  /\ ~Turning
  /\ head' = [head EXCEPT !.has_sync = FALSE]
  /\ UNCHANGED dma
  /\ Age
  /\ UNCHANGED <<drive, port, regs, stored, received, begun, steady, blocks>>

(* The words of a line pass under the head.                                *)
HeadLine ==
  /\ dma.started => dma.read
  /\ Turning
  /\ \E noise \in IF OffDisk(Selected) THEN Noise ELSE {0} :
       LET after[i \in 0 .. LineWords] ==
             IF i = 0 THEN [ticks |-> drive[Selected].ticks, dma |-> dma, stored |-> stored,
                            received |-> received, blocks |-> blocks,
                            has_sync |-> head.has_sync, prev |-> head.prev]
             ELSE Word(after[i - 1], Selected, noise)
       IN  \E s \in {after[LineWords]} :
             /\ drive' = [drive EXCEPT ![Selected].ticks = s.ticks]
             /\ head' = [has_sync |-> s.has_sync, prev |-> s.prev]
             /\ dma' = s.dma /\ blocks' = s.blocks
             /\ stored' = s.stored /\ received' = s.received
  /\ Age
  /\ UNCHANGED <<port, regs, begun, steady>>

EndOfLine == WriteLine \/ IdleLine \/ HeadLine

Amiga ==
  \/ \E dmaen, write, kickstart \in BOOLEAN, length \in Lengths :
       WriteDsklen(dmaen, write, length, kickstart)
  \/ \E b \in BOOLEAN : WriteAdkcon(b) \/ WriteDmacon(b)
  \/ \E w \in SyncWords : WriteDsksync(w)
  \/ \E p \in Ports : WriteBprb(p)
  \/ HardReset

Next == EndOfLine \/ Amiga

Spec == Init /\ [][Next]_vars
-----------------------------------------------------------------------------
(* A transfer that has requested its interrupt is over, and has stored as  *)
(* many words as it was asked for, although it may have been disturbed.    *)
TransferIsWhole ==
  blocks > 0 => ~dma.started /\ blocks = 1 /\ (begun.read => stored = begun.length)

(* While nothing disturbs a transfer it reads the words of the track one   *)
(* after the other, and if it waited for the sync word it starts right     *)
(* after one.  It steps back by one byte only where a sync word that is    *)
(* not aligned with the words before aligns those that follow.  The first  *)
(* sync word may be one that no track has: of the byte that was read last  *)
(* before, perhaps from another track, and the first that is read now.     *)
WordsAreInOrder ==
  steady /\ dma.read /\ begun.drive # NoDrive /\ received # <<>> /\ ~OffDisk(begun.drive) =>
    LET d == begun.drive
        track == Disk[d][TrackOf(d)]
        m == Len(track) - (IF dma.dont_use_gap THEN Gap ELSE 0)
        Seam(w) == IF w = regs.sync /\ w = <<begun.prev, track[begun.ticks + 1]>>
                   THEN {(begun.ticks - 1) % m} ELSE {}
        First(w) == At(track, m, w) \union Seam(w)
    IN  \E at \in [DOMAIN received -> 0 .. m - 1] :
          /\ at[1] \in First(received[1])
          /\ \A i \in 2 .. Len(received) :
               /\ at[i] \in At(track, m, received[i])
               /\ \/ at[i] = (at[i - 1] + 2) % m
                  \/ at[i] = (at[i - 1] + 1) % m /\ received[i] = regs.sync
          /\ WaitsForSync(d) => (at[1] - 2) % m \in First(regs.sync)

TransferIsRight == TransferIsWhole /\ WordsAreInOrder

(* A transfer ends in time, wherever the head was when it began, in the    *)
(* middle of a sync word or of the gap, if the Amiga leaves it alone.  The *)
(* bound is generous: the sync word has two turns of the disk to be seen   *)
(* in, and the words that follow it have their own time.                   *)
TransferEndsInTime ==
  dma.started /\ CanEnd =>
    age * LineWords <= IF dma.read THEN begun.length + TrackLength(Selected) ELSE MaxWait * LineWords
=============================================================================
