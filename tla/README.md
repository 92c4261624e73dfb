# A TLA+ verification project for WinFellow

WinFellow emulates an Amiga: a 68000-family CPU, the custom chips (Paula, Agnus
with copper and blitter, Denise), two CIAs, drives, hard files, sound, and a
Windows shell around them. This directory models the parts of it that are
concurrent, event-driven or otherwise a matter of *order*, checks them with TLC
on small instances, and proves the safety of nearly all of them for every
instance with TLAPS. Pixels, samples and the meaning of CPU instructions are
data paths and are not modelled.

Paths below are relative to `src/fellow/SRC/WinFellow/` unless they begin with
`src/`.

- [1 The system](#1-the-system)
- [2 Modules](#2-modules)
- [3 Runs](#3-runs)
- [4 Fairness](#4-fairness)
- [5 Proofs](#5-proofs)
- [6 Where the code disagrees with what is said of it](#6-where-the-code-disagrees-with-what-is-said-of-it)
- [7 What is not modelled, and the plan](#7-what-is-not-modelled-and-the-plan)
- [8 How to run](#8-how-to-run)

## 1 The system

### Threads

| thread | started in | does |
|---|---|---|
| window | `WinMain` | message loop (`Windows/WindowsMain.cpp`), keys, mouse, close, focus |
| emulation | `Windows/WindowsMain.cpp:168` | `fellowRun` → `busRun`: the whole Amiga, single-threaded |
| timer | `Windows/Timers.cpp`, every millisecond | polls the play position, paces the flips of the display |
| playback | `Windows/Driver/Sound/DirectSoundDriver.cpp` | copies finished blocks of samples to the sound card |

Inside the emulation thread there are no threads, but there is concurrency of
another kind: seven *bus events* (end of line, end of frame, CIA, copper,
blitter, interrupt, CPU) interleave by cycle numbers, every handler may schedule
and cancel the events of others, and CPU instructions are left through `longjmp`
in the middle.

### Components

| component | state | operations | correct when | module |
|---|---|---|---|---|
| Interrupt control (`C/interrupt.c`) | `intreq`, `intena`, `interruptEvent` | register writes, requests of devices, the delayed event | no request is forgotten on an early return; no level is entered that is not above the present one | `Interrupts` |
| CPU's interrupt side (`C/CpuModule_Interrupts.c`, `C/CpuIntegration.c`) | raise flag and level, stop flag, SR level, `cpuEvent` | MOVE to SR, STOP, RESET, entry of an interrupt, exceptions | STOP and `cpuEvent` agree, every raised interrupt is entered | `Interrupts` |
| CIA lines (`C/ComplexInterfaceAdapter.cpp`) | `icrreq`, `icrmsk`, `cia_recheck_irq` | raise, read and write ICR, recheck | a line that is low is seen, whatever the order of acknowledgements | `Interrupts` |
| CIA timers (same file) | counts, remainders, times of expiry, one shared event | writes to latches and control registers, timeouts, end of frame | a timer counts every cycle once, none is forgotten | `CiaTimers` |
| CIA event counters (same file) | counter, alarm, read and write latches | count, access to one byte | what is read and set is whole, no alarm is missed | `EventCounter` |
| Bus scheduler (`C/BusScheduler.cpp`) | the sorted list of events, `cpuEvent`, `bus.cycle`, geometry | insert, remove, pop, run loops, end of line, end of frame, reset | the list is intact; the chips see continuous time although all deadlines move at the end of a frame | `BusScheduler`, `EventTimers` |
| Copper, blitter, CIA as users of the list (`C/LineExactCopper.cpp`, `C/Blitter.cpp`) | their events, `copper_suspended_wait`, `copper_dma` | DMA on and off, load, wait, blit start and forced end | no event twice in the list or in the past | `BusScheduler` |
| Life cycle (`C/FellowMain.cpp`) | `fellow_request_emulation_stop`, the run loop on the stack | run, step, stop, reset | a stop ends the loop | `BusScheduler`, `HostInput` |
| Sound mixing (`C/Sound.cpp`) | two sample buffers, their count, the current one | a line of samples, hand-over, overrun, reset | each block is handed over once, whole | `SoundPlayback` |
| Audio channel (`C/Sound.cpp`) | state, pointer, length, phase of a channel | a step, register writes, DMA on and off | blocks are fetched whole and follow one another | `AudioChannel` |
| DirectSound driver (`Windows/Driver/Sound/DirectSoundDriver.cpp`) | five Windows events, a pending block, the playback thread, the ring buffer on the card | start, stop, `Play`, playback thread, poll | blocks in order, nobody waits for ever, stop completes | `SoundPlayback` |
| Keyboard (`C/Keyboard.cpp`, `Windows/KeyboardDriver.cpp`) | three ring buffers, keys that are down, the task switcher's flag | a key from the window's thread, taking at the end of a line and of a frame, reset | no key lost, doubled or out of order; no direction stuck | `KeyboardQueues`, `HostInput` |
| Window (`Windows/GfxDrvCommon.cpp`, `Windows/WindowsMain.cpp`) | activation flags, run event, acquired devices | messages, session start and end, close | the pause follows the window; closing it ends the session | `EmulationWindow`, `HostInput` |
| Timers (`Windows/Timers.cpp`, `Windows/GfxDrvCommon.cpp`) | time, time to wait, flip event | callback in each millisecond, delay of a flip | frames are paced, nobody waits for a signal that has gone | `EmulationWindow` |
| Floppy images (`C/FloppyDisk.cpp`) | the file of a drive, its temporary file, flags | insert, eject, swap, protect, save a sector | no write lost, no change of disk unseen | `DiskImages`, `Storage` |
| Floppy DMA (`C/FloppyDisk.cpp`) | heads, motor and selection, sync, transfer | DSKLEN twice, words in each line, step, select | the words of the track in order from the sync word, one DSKBLK | `DiskDma` |
| UART (`C/uart.cpp`) | shift registers and buffers | SERDAT, SERPER, end of line, end of frame | words sent in order and in time | `Uart` |
| Hard files (`src/fellow/SRC/WinFellow.Hardfile`) | units, list of file systems, mounts | activate, open and close, read partition tables, boot | units keep their files, the newest file system is mounted | `HardFiles`, `Storage` |
| Memory map (`C/MemoryInterface.cpp`) | banks, list of autoconfig cards | reset, configure the next card | each card is configured once | the list, in `HardFiles` |
| Game ports (`C/Gameports.cpp`, `Windows/JoystickDriver.cpp`) | directions and buttons | a key that stands for a direction, samples | as above | one direction, in `KeyboardQueues` |
| Real time clock, display drivers, cycle-exact graphics, file system code of other projects | | | | no |

### How they interact

Devices call `wintreq_direct`, which looks at the CPU's level and either sets
`interruptEvent` ten cycles ahead or, when the CPU is in STOP, wakes it. The
event sets the CPU's raise flag; the next CPU turn enters the level. The
scheduler knows nothing of levels, and `Interrupts` nothing of cycles: the two
modules meet in `Raise` and `RaiseDelayed` of `BusScheduler`, which offer as
choices what `Interrupts` decides. `Sound::EndOfLine` is called from the end of
line handler and may block the emulation thread in `Play`; this is the only
place where the Amiga waits for the host, apart from the pause and the delayed flip
at the end of a frame.

The end of a line also calls the counter of CIA B, the floppy controller, the
UART and the keyboard's handler one after the other. They share nothing but INTREQ,
in which each has a bit of its own, which is why `LineDevices` can use one of them
at a time. The window's thread reaches the emulation in three ways: the request to
stop, the run event, and the keyboard's rings. None of them is locked except by the
order of its assignments.

`cfgManagerConfigurationActivate` sets floppy drives and hard files one after the
other, between two runs of the emulation; the two have no state in common
(`Storage`). A hard file changes only there, a floppy also while the Amiga runs.

### Hazards

`PROJECT.json` lists them with their lines. The ones that decided what was
modelled first:

- the early returns of `interruptRaisePendingInternal`, which are right only if
  each of the states they wait for ends in another call;
- `STOP` raising its flag before the status register changes, and `ciaUpdateIRQ`
  looking only at a clear INTREQ bit;
- unsigned deadlines moved back by a frame that may just have changed length,
  and a dozen callers that each keep "linked" and "not disabled" together;
- `RESET` in the middle of a CPU turn, which leaves the clock of the old frame;
- auto-reset events that are reset both by waits and by hand, an underrun that
  stops the card while data arrive, and a stop that joins the thread under the
  mutex the timer needs;
- three ring buffers that two threads use without a lock, and a "the key is eaten if
  an index has moved" read across both of them;
- a pause computed from three flags, only some changes of which compute it again, and
  a signal of the timer that may come before the wait for it;
- timers kept as a deadline or as a count by turns, converted at each register write;
- files of disk images that stay open, move between drives and are packed again, while
  any of these steps may fail;
- file systems that point into partition tables which the user removes between runs.

## 2 Modules

| module | models | lines of |
|---|---|---|
| `Interrupts` | INTREQ, INTENA, both CIAs' lines, the CPU's interrupt state | `interrupt.c`, CPU, CIA |
| `InterruptsProof` | theorems about it | |
| `BusScheduler` | the event list and the run loops, with cycles | `BusScheduler.cpp`, copper, blitter |
| `EventTimers` | abstract specification: count-down timers in continuous time | |
| `BusSchedulerProof` | theorems about the list, the time, the raster, the latency and the refinement | |
| `SoundPlayback` | the two buffers, the hand-over, the playback thread, the card | `Sound.cpp`, `DirectSoundDriver.cpp` |
| `SoundPlaybackProof` | theorems about it | |
| `EmulationWindow` | the window of a session, pause, session, paced flips | `GfxDrvCommon.cpp`, `Timers.cpp`, `WindowsMain.cpp` |
| `KeyboardQueues` | keys on their way to the Amiga | `Keyboard.cpp`, `KeyboardDriver.cpp` |
| `KeyboardQueuesProof` | theorems about its rings | |
| `HostInput` | the two together: a composition | |
| `HostInputProof` | theorems about the composition | |
| `CiaTimers` | timers A and B of the CIAs and their shared event | `ComplexInterfaceAdapter.cpp` |
| `CiaTimersProof` | theorems about it | |
| `DiskImages` | images, drives, temporary files | `FloppyDisk.cpp`, `Configuration.cpp`, `RetroPlatform.cpp` |
| `HardFiles` | units, partition tables, file systems, boot | `WinFellow.Hardfile`, `MemoryInterface.cpp` |
| `Storage` | both kinds of storage, one in each behaviour | |
| `StorageProof` | theorems about the disk images and the hard files | |
| `DiskDma` | heads, sync, transfers | `FloppyDisk.cpp` |
| `Uart` | the transmitter | `uart.cpp` |
| `AudioChannel` | the state machine of a channel | `Sound.cpp` |
| `EventCounter` | counter and alarm of a CIA | `ComplexInterfaceAdapter.cpp` |
| `LineDevices` | these four, one in each behaviour | |
| `LineDevicesProof` | theorems about all four | |
| `MC...` | values of the constants for TLC, and plans that cut the inputs down | |

A definition named `...` with a comment *Mutant* is a plausible bug of the
definition that follows it; nothing refers to it. It documents what the property
it breaks is sensitive to.

### Interrupts

`irq` is the CPU side: SR level, stop flag, raise flag and level, and whether
`cpuEvent` and `interruptEvent` are scheduled. A register is the set of its bits.
`RaisePendingInternal` is the function of that name with all of its early returns,
as a function from a CPU side to a CPU side, so that handlers that call it in the
middle of other changes can be written as one action. An action is a register
write, a device's request, an event handler, or one turn of the CPU that matters:
`MoveToSr` (also RTE), `Stop`, `TakeInterrupt`, `TakeInterruptAborted` (the
vector is odd, and the prefetch leaves by `longjmp`), `Reset`. Instructions that
touch none of this state are stuttering. Cycles are abstracted: a scheduled event
may fire at any time, which includes all times it really fires.

INTREQ bit 11 is copied into the UART by every write in set mode
(`receiveBufferFull`); the copy is there because the write changes it.

### BusScheduler

`m` holds the queue (`bus.events` as a sequence of event names), the cycle of
every event, the copper's DMA flag and suspended wait, and `fault`, which is set
where the C code would dereference null or link an event twice. Cycles are taken
modulo `Disable + 1`, as `uint32_t` are. Handlers are functions from `m` to a set
of possible `m`; `Access` is what one register write, by the CPU or by the copper,
may do to the events. `EndOfFrame` follows `busEndOfFrame` call by call: the
copper restarts, the CIA's deadline is moved and clamped, devices may raise, the
blitter's, the CPU's and the interrupt's deadlines are moved, the geometry may
change, and only then are the new end of line and end of frame set.

`elapsed` and `line` are history variables for the properties.

Abstracted: which bits a register write has, how long an instruction takes (any
of `CpuTime`, plus zero or more cycles of a copper's penalty), which position
a WAIT waits for (`CopperWait`), how many CPU instructions are run in one turn
(one). The stale clock of `RESET` (the CPU goes on with `bus.cycle` of the old
frame until its turn ends) is behind the constant `StaleClock`, since it doubles
the state space; `MCBusSafety` has it on.

The assumptions on the constants are what the code's numbers satisfy: a line has at least two
cycles, the CPU always takes some time, a penalty is no longer than the copper's own time
(`CopperAssumption`), and `Disable` lies beyond all deadlines. The penalty of the copper would
break the third where a WAIT with a partial mask comes one cycle after an odd position; such
masks are left out.

### EventTimers

What a chip may rely on. No frames, no list: each timer counts down, the one with
the least left has its turn, the CPU wins ties, and each kind of turn may set only
certain timers. `BusScheduler!ImplementsTimers` maps `remaining[e]` to
`cycle[e] - elapsed`. That the end of a frame is invisible through this mapping is
the point: `EndOfFrame` of the abstract module keeps every timer running.

### SoundPlayback

One step of a thread is one call on a shared object (a wait, a set, a reset, a
copy, a call of the card). `signaled` is the set of Windows events that are set;
all five are created auto-reset (`DirectSoundDriver.cpp:139-143`), so that a wait
that ends resets its event, and `ResetEvent` does it again. `samples[b]` is the
number of the block in buffer `b`, or `Mixing` while it is being filled; `expected`
is a history variable. The two arrays `_left[2][MAX_BUFFER_SAMPLES]` are indexed
by the code as one long array, hence `Row`. The card is external: a ring of two
halves with a position that is either in a half or at its last sample, where the
notification comes; it may lose its buffer when `BufferLoss`.

### EmulationWindow

Three threads. The window's takes one message at a time (an action each:
`Activate`, `SysKeyDown`, `EnterLoop`, ...); `windows` is what Windows itself knows
(focus, icon, a loop of its own while a menu is open or the window is dragged, a
system key that is held), `flag` what the code has remembered of it, and
`Evaluate` computes the run event from the latter. The emulation goes around its
loop with `emu.pc`, and pauses and waits for its flip only in the end of a frame. The
timer's callback has a step for each variable it shares with the emulation
(`TestWait`, `Decrement`, `Signal`), and may come late, after its timer has been
killed. `elapsed` stands for the two times from which the delay is computed and stops
at `FrameTime`. `misled` is a history variable: the release of a system key
went to a loop of Windows. Windows itself is external.

### KeyboardQueues

Three rings (`scancodes`, `eventsEOL`, `eventsEOF`). An addition is four steps of the
window's thread, since the other thread, a script and a reset may come in between: read
`inpos`, write the slot, load `inpos`, store it incremented. `typist` is where the
thread is. Each handler that takes is one step for each entry, for it changes only
`outpos`. A scancode or an event is a key and a direction; of the events that the
driver knows there is one of each kind: the exit (taken at the end of a frame), one
that repeats while its key is down, and a direction of the joystick (end of line).
Histories: `owed` (added and not yet taken), `spoilt` (a ring whose addition was
overtaken by a full ring, a reset or a script), `raced` and `excused`, which name the
cases in which a property does not hold of the code. That `inpos` and `outpos` wrap at
2^32 is not modelled; the ring's length divides it.

### HostInput

`Window == INSTANCE EmulationWindow` beside the keyboard's module. Shared are the
devices (a loss of the focus forgets the keys), the request to stop (the exit key makes
it on the emulation thread) and both threads: a key is handled between messages, and
the keyboard's handlers run only while the emulation is in an event. The window's
properties are restated here, so that they are checked and proved of the composition.

### CiaTimers

A timer has both forms the code gives it: `left`, the cycle at which it will expire,
while it runs, and `count` with the remainder `rem` of a division by `Ratio` while it
does not. `Frozen` and `Thawed` are the conversions; a write to a control register
freezes both timers of the CIA, changes one, and thaws both. `NextEvent` chooses what
the single `ciaEvent` stands for, including the recheck of the interrupt line.
`Clock` lets time pass only up to the event. `from` and `ran` are what an ideal timer
would know: where it was loaded and how far it has counted.

### EventCounter

The three bytes, their latches for reading and writing and the alarm. `read`, `set`
and `clock` are what a program puts together from the bytes it touches.

### DiskImages

The contents of a file are the image they stem from and the set of writes they have
taken, so that a lost write, or one that went to another disk, shows. `Prepare`, `Open`
and `Remove` follow the C functions with their failures as a parameter: a file that is gone,
no temporary file, an unpacker that fails, a file that does not open, a size that
is no disk's, a format that is none. So does `CompressedRemove`, which packs an image on its way
out of the drive, with the four places where `gzPack` gives up (`PackFaults`): the temporary file
does not open, the user's file does not open, the copy fails half-way, closing fails. The code
notes each in its log and goes on; what is then in the user's file is `GzPack`, and where a file
was left open the temporary file stays behind. `Activate` is the dialog: the images of all drives,
each removed and inserted if its name differs, and the protections after that;
`HostInserts`, `HostEjects`, `HostProtects` are what a RetroPlatform host does, while
the Amiga runs. `done` and `seen` are histories; `excused` collects the images for which
the code does lose writes (6): `Twice`, `Misnamed`, `Lost` (not packed), a protection that was
switched, and a file that is written though it is no disk.

### DiskDma

The track is a sequence of bytes, with a gap at its end; the head moves by
`LineWords` words in every line whether or not there is a transfer, looks for the sync
word at even and odd positions (`Found`), and stores words when the wait is over. A
program may write every register, step, change sides, select and reset at any moment.
`received` is what was stored as long as nothing disturbs the transfer, `begun` where the
head was and which byte it had just seen, `age` how many lines that takes: a bound on `age`
says that the transfer ends, and says when. `CanEnd` is the condition: a track with a sync
word that does not begin inside another one, which may go unseen (6).

### Uart, AudioChannel

`Uart` is the transmitter with its deadline in cycles of a frame; nothing feeds the
receiver. `AudioChannel` is the state machine (states 0, 1, 2, 3, 5) that advances
`Steps` times in a line. A pointer is a block's number and a word in it; volumes and
samples are left out. `prompt` says whether the program has answered each interrupt
within the line, which is what an Amiga program has to do to be heard right.

### HardFiles

A hard file contains nothing, plain sectors or a partition table (RDB): two linked lists
(partitions and file systems), whose blocks may have a bad checksum or be their own
successor. `Initialized` opens a unit and reads its table with every early
return. What the code collects in loops over lists (`AddFileSystemsFromRdb`,
`RemoveSupported`, `CreateMountList`) are recursive functions over the position in
the list, which can be proved about. `Activate` is what taking over a configuration does to the units; `stage` is
the dialog, the state after it, and the run. A boot is the sequence in which the Amiga
itself calls: cards, the card's ROM (`Diag` collects file systems), the device
(`FhfileInit` makes the list of mounts and gives up file systems that the Kickstart has
at least as new), each file system, each partition. `live` and `dangling` mark pointers
into what has been deleted, `unplugged` is a history. Longer circles in a list are
excluded by `HardFileAssumption` (6).

### LineDevices, Storage

Their parts share no variable, so that an interleaving of two of them shows nothing that
each alone does not; a behaviour uses the one that `used` names and leaves the rest at
its initial state. One instance checks them all.

## 3 Runs

Every run is a small instance of the module's own next-state relation; where a module
`MC...` has a specification of its own, it says which inputs it leaves out. Deadlock is
checked in all of them but two, named below.

| run | instance (.cfg) | properties | states | shows |
|---|---|---|---|---|
| `irq_cia` | MCInterruptsCia | `TypeOK` `NoLostInterrupt` `NoLostCiaInterrupt` `StoppedIffDescheduled` | 105,000 | no request of Paula or of a CIA is forgotten; STOP and `cpuEvent` agree, also with an odd vector |
| `irq_chip` | MCInterruptsChip | `RaiseAboveLevel` `EventuallyServiced` `RaiseIsTaken` | 29,000 | raised interrupts go upwards and are entered; every serviceable one is serviced or withdrawn |
| `irq_keyboard` | MCInterruptsKeyboard | `KeyboardResetRestarts` violated | | see 6 |
| `bus_safety` | MCBusSafety | `TypeOK` `QueueConsistent` `NothingOverdue` `RasterInStep` `ImplementsTimers` | 503,000 | the list is intact and sorted, nothing is in the past, the raster does not slip; refinement of `EventTimers` |
| `bus_host` | MCBusHost | `InterruptInTime` `StopIsHonoured` `RasterKeepsMoving` | 50,000 | no interrupt later than its latency; a stop ends the loop, lines and frames keep coming, both unless the program resets the machine again and again |
| `sound_handover` | MCSoundHandover | `TypeOK` `WholeBlocksInOrder` | 40,000 | whole blocks, once, in order, over starts and stops |
| `sound_polled` | MCSoundPolled | `OneOwner` `PlayReturns` `StopCompletes` | 909,000 | polled, with resets and lost buffers: one owner, `Play` returns, the driver can be stopped |
| `sound_lost` | MCSoundLost | `LostBufferIsRestored` violated | | see 6 |
| `host_input` | MCHostInput | `PauseFollowsWindow` `DevicesFollowWindow` `FlipsArePaced` `QueueIsFifo` `EatenIffEvent` `JoystickFollowsKey` `CloseEndsSession` `ExitEndsSession` | 190,000 | the pause and the devices follow the window, frames are paced, keys arrive once and in order, the window's close and the exit key end the session |
| `cia_timers` | MCCiaTimers | `TimersKeepTime` `EventIsEarliest` `TimersExpire` | 303,000 | converted to and fro, no cycle is lost or counted twice, and one event serves all |
| `storage` | MCStorage | `NoWriteIsLost` `ChangeIsSeen` `UnitsAreSound` `MountsAreRight` | 1,250,000 | writes reach their files over insertions that fail, swaps and protections, unless packing fails; units keep their files and get the newest file system |
| `line_devices` | MCLineDevices | `TransferIsRight` `TransferEndsInTime` `WordsAreSent` `BlocksFollow` `CounterIsRight` | 1,520,000 | each device does what a program may rely on, whenever its registers are written |

Bounds, and why they are enough:

- *Interrupts.* The levels of the table fall into classes; what matters is below,
  equal to or above the SR level, one or two at a time. `irq_chip` has bits on
  three levels (2, 3 and 6) and SR levels 0, 2 and 3; `irq_cia` both CIA bits, a
  flag each, an odd vector, and SR levels 0, 2 and 7. The properties that
  matter are also proved for all bits, levels and flags.
- *Bus.* Lines of 2 cycles (3 in `bus_host`) and frames of 2 or 1 lines (code: 227, 313 or 312), a
  latency as long as a line, a copper wait (5) and a CIA timeout (5) longer than a
  frame, instructions of 1 or 2 cycles, so that ties, deadlines beyond the end of
  a frame, interrupts raised at the last cycle, and every order of handlers occur.
  `Disable` is 31, which leaves room to see a deadline below the frame wrap round.
  In `bus_host` a turn of the CPU may end before its line does, also when it resets the
  machine, which takes lines of 3 cycles: with 2, each such turn stutters or is the last of the line.
  Lines of 4 show nothing else (79,000 states, five minutes).
  No counter needs a bound: deadlines are relative to the frame. Exceptions take
  no time in `bus_safety`, as they do at the fastest speed.
- *Sound.* Blocks of 2 samples, 1 or 2 samples in a line, so that blocks are met
  exactly and overrun by one. Blocks are numbered modulo 3 (`Blocks`): two are in
  the buffers, so that a late, an early and a doubled one differ. The capacity is
  twice the block. A reset of the Amiga may come again only
  when the blocks of the last one are played (bound in `HardReset`).
- *Host input.* Rings of 2 slots (code: 512) so that they fill and wrap; 3 entries
  after a reset (`MaxIn`); a scancode every 2 lines (10); a frame of 2 ms (18), so that a
  delay of none, one and two callbacks occurs. Which keys are typed is chosen once:
  none (then the whole window, with and without sound, and a timer that may fail), the exit
  key in the composition, or one of four pairs (both system keys, a key and the exit, the
  key that repeats, the joystick) with the keyboard alone, inside a session whose window is in
  front, its devices acquired and lost at any time and the script. Two keys are what is needed for one to be down while the other
  changes.
- *CIA timers.* One CIA (they share only `ciaEvent`, and the recheck already competes for
  it); 2 cycles in a clock (5), bytes of 2 values (256) and frames of 3 cycles, so that a
  deadline beyond the frame, a remainder and a low byte alone occur. Three plans fix the
  latches (0 among them), which timer is in one-shot mode, and whether there are rechecks
  or resets.
- *Storage.* Two drives, a plain and a packed image, one write and one failure, to insert or to
  pack (`pack` leaves the old file and a temporary one, `close` a file without the writes): the
  losses found need two drives or one failure, not more. With one drive, DMS images, all failures,
  up to three of them, and two writes, the invariants of the floppy disks were checked once
  (559,000 states); the proofs have no such bounds. Dialogs and hosts exclude one
  another. Two units and two files, of which it does not matter which is which (`SYMMETRY`,
  sound as only invariants are checked), with eight contents: none, a plain one, tables whose file systems
  ascend and descend in version, with a circle, a bad checksum and too many cylinders. The
  Kickstart has no such file system or one in between.
- *Line devices.* A disk of one cylinder, whose tracks of 9 bytes, two of them a gap that a
  transfer may jump over, have a sync word at an even byte in one turn and at an odd one in the
  next, a second one that follows it, and one across the jump, where no track has it; words 0, 1, 2 and times shorter and
  longer than a frame (6 cycles, two lines) for the serial port; three blocks of 1 to 3
  words, a sample of one or two of the steps of a line, for the channel; three bytes of 2 values for the
  counter. All registers may be written between any two steps.
- *Deadlock.* It is checked in all runs but `sound_polled` and `sound_lost`: after a lost
  buffer the emulation waits in `Play` for ever, which is the code's behaviour (6). In
  `sound_handover` the check of deadlock covers a lost hand-over.

## 4 Fairness

| assumption | justified by |
|---|---|
| `WF(Loop)` in `BusScheduler` | `busRun` is a loop without waits. It holds while the emulation thread is let run: not while a paused window keeps it in `RunEventWait` (`Windows/GraphicsDriver.cpp:28`) or `Play` keeps it waiting |
| `WF(TakeInterrupt)`, `WF(TakeInterruptAborted)` in `Interrupts` | the bus loop runs the CPU while `cpuEvent` is scheduled, and the first thing an instruction looks at is the raise flag |
| `WF(InterruptEvent)` | events in the list are dispatched (`BusScheduler`: `NothingOverdue`, `InterruptInTime`) |
| `WF(Play)`, `WF(Player)`, `WF(Join)` in `SoundPlayback` | threads that are ready run |
| `WF(Advance)`, `WF(PollBufferPosition)` | a card that plays advances; the timer ticks every millisecond, and a half lasts 10 to 80 |
| `WF(EmulationStep)`, `WF(TimerStep)`, `WF(SessionEnd)`, `WF(KeyStep)` in `HostInput` | the emulation, the timer and the window's thread run when they are ready; `winDrvEmulate` looks at the end of the emulation in every turn of its loop |
| `SF(InEvent(EventEOFHandler))` | every end of frame calls `kbdEventEOFHandler`; an event of the model may be any, so the handler is enabled again and again rather than always |
| `WF(Time)` in `CiaTimers` | the bus loop again |

Lines of emulation, stops, register writes, requests, keys, messages and other user actions
are not fair: they may never come. `TransferEndsInTime` and `WordsAreSent` are bounds in
lines and need no fairness. `StopIsHonoured` and `RasterKeepsMoving` except programs that reset
the machine for ever: RESET puts `cpuEvent` back to cycle 0 of a new frame, and with a branch after it the
turn ends some 70 cycles later, long before the end of the line, so that neither a line ends nor the
inner loop of `busRun` looks at the stop request (`C/BusScheduler.cpp:372`). Without its exception
the run refutes each. `RasterKeepsMoving` says less than one might wish in another respect: its run gives exceptions a positive time: at the fastest speed the
code shifts the time to 0 (`C/BusScheduler.cpp:396`, with the comment "This looks
wrong"), and a program in a loop of exceptions then stops the raster.

In `Advance` a half is not left before a timer has seen it (the timer is ten
times faster than the card).

## 5 Proofs

`tlapm` checks every theorem to the last leaf.

**Interrupts.** The inductive invariant `IInv` is a conjunction of what is wanted
plus what it needs:

- `TypeOK`;
- `NoLostInterrupt`: while a bit is requested, enabled and above the SR level, the
  CPU has been told or `interruptEvent` is scheduled;
- `NoLostCiaInterrupt`;
- `Unraised`: in STOP nothing is raised; this is needed because the early return on
  a raised interrupt would otherwise leave the CPU asleep;
- `Descheduled`: the stop flag and `cpuEvent` agree (or `ResetWhileStopped`);
- `Above`: a raised level is above the SR level (or `OddVector # {}`).

One lemma says that `RaisePendingInternal` establishes or keeps each part; it rests
on `LevelMonotone`, that a higher bit never has a lower level, which is why the
code's search may stop at the first pending bit. Then there is one step for each
action. From `Invariance` follow `TypeCorrect`, `NoInterruptIsLost`,
`NoCiaInterruptIsLost`, `StopMeansDescheduled` (assuming the keyboard does not reset
a CPU in STOP) and `RaisedIsAbove` (assuming no odd vector). Both assumptions are
needed: without them TLC shows counterexamples.

**SoundPlayback.** In two layers. `HandOver` is `TypeOK`, that a buffer being handed
over is full, and `OneOwner`: exactly one of `canAddData` set, the emulation inside
`Play`, `dataAvailable` set, the playback thread from its copy to its `SetEvent`.
It is inductive on its own and does not care for resets, lost buffers or polling:
`SoundTypeCorrect`, `PendingBlockHasOneOwner`. `InOrder` adds what each owner holds:
the pending pointer, which block is in which buffer, how full the current one is.
It needs `HandOver`, and it needs `~ResetWhilePlaying`, since a reset moves the
current buffer away from the count (6): `BlocksAreWholeAndInOrder`.

Each component has one inductive invariant, with one lemma for each action that keeps it,
and theorems that follow from it. The assumptions on the constants are the named ASSUMEs of the
modules, which the runs evaluate; besides them some theorems assume something of a constant in
their statement, and say so.

**Bus scheduler** (`BusSchedulerProof`). The first half is about the list: `Insert`, `Cancel`,
`Unlink` and `PopEvent` keep a list sorted and without repetition, for an event of which the
caller has said that it is not in the list; `busInsertEvent` puts it behind those with the same
cycle, which is where its loop stops. `IInv` then says that the list is intact and agrees with
`Disable`, that nothing is late, where the two events of the raster lie, and how far ahead the
other events may be. The last part is what the end of a frame needs: it subtracts the
length of the frame from each deadline modulo 2^32, and no deadline must wrap. `TypeCorrect`,
`QueueIsConsistent`, `NothingIsOverdue` and `RasterStaysInStep` hold for both values of
`StaleClock`; `InterruptsAreInTime` assumes `~StaleClock`, since a RESET inside the turn of the
CPU makes the next interrupt be timed from a clock of the old frame.
`SchedulerImplementsTimers` is the refinement of `EventTimers`: each handler is the turn of one
timer, a line and a frame included, and what a register write does to the list is what the
abstract module lets it do to its timer.

**CIA timers** (`CiaTimersProof`). `IInv` is the two properties of the run and what they need: a
deadline is kept just for the timers that run and are not attached (`Running`), and it is less
than a full count ahead (`Ahead`). The lemmas are about `Frozen` and `Thawed`, which divide by
`Ratio` and multiply by it again: the remainder is what makes them inverse to one another.
`EventIsAlwaysEarliest` and `TimersAlwaysKeepTime` follow, for any ratio and width. So does
`TimeoutsAreOnTime`, an action property that no run checks: a timeout happens in the clock
in which the time is over.

**Keyboard** (`KeyboardQueuesProof`). `Queues` says that what is owed lies between the two
indices of its ring, and what the window's thread has read and written while its addition is
in progress is still true: `outpos` belongs to the other thread, and `inpos` to nobody but
itself unless the ring is `spoilt`. The lemma behind it is that two positions less than a
length apart are different slots. `Positions` relates the two indices that
`kbdDrvEventChecker` compares to what has been added, and `Joystick` the direction to the last
entry of the ring. This gives `QueuesAreFifo`, `EatenKeysMadeEvents` and `JoystickIsRight`.

**Host input** (`HostInputProof`). The keyboard's invariant again, beside one for the window
(`WindowInv`): what the flags may say of the focus and the icon, that the devices are acquired
unless the message is still posted, and that the time to wait and the time since the last frame
add up to a frame, but for the millisecond which the callback may count in between. `KeysAreRight`
carries the theorems of the ring over to the composition, in which the window's messages take
the devices away; `PauseIsRight`, `DevicesAreRight` and `FlipsAreApart` are the window's.
`HostImplementsWindow` says that the composition does nothing to the window that
`EmulationWindow` alone would not: initial states and steps, without fairness.

**Line devices** (`LineDevicesProof`). `LineInv` has a part for each device. A step of one
leaves the others alone. The counter's part relates the bytes a program has read or set to the
latches (`CounterIsRight` with what is in the middle of it). The transmitter's accounts for each
cycle of a word, over lines and frames. The channel's follows `Steps`, a function over a line,
by an induction in which every state of the machine is whole and, while the program answers in
time, follows the block before. The disk's is the longest:

- `Whole`: words stored and words left make the length, the interrupt is requested with the last;
- `InOrder`: a witness for the positions which `WordsAreInOrder` asks for; the next word is to be
  read two bytes after the last one, or one if that is a sync word;
- `Timely`: the words that are still to come, with the way of the head to the sync word, fit in
  the lines that are left. Its lemma is that the head goes round, and that `has_sync` cannot
  hide a sync word that does not begin inside another.

A line is `HeadLine`, a recursive function over its words; each of the three is carried through
it by induction on the number of words. `CounterStaysRight`, `WordsAreAllSent`,
`BlocksAlwaysFollow`, `TransfersAreRight` and `TransfersEndInTime` are the results.

**Storage** (`StorageProof`). `DiskInv` says of every drive what its file is (`Slot`): the image
itself, or a temporary file that has all writes; and that a file is up to date when it is in no
drive, or used as it is. The images that are `excused` may break this, and their exceptions must
not spread to others: an image in two drives, or one opened under another's name, excuses both.
A file left over by `gzPack` is no drive's file (`LostHas` excuses its image). Each of
the C functions `floppyImagePrepare`, `-Open`, `-Remove` keeps the invariant for every failure, and
`Activate`, which goes over all drives, keeps it by an induction over the drives. `WritesAreKept` and
`ChangesAreSeen` follow for any number of drives and images.

Of the hard files, `HardInv` says that the file of a unit that answers is there and has been
read (`ReadyOn`), that a mounted unit has the file it had or none (`MountedAreSame`), and that
the table each file system points into is that of a unit, or of one that was removed
(`FoundAreThere`); both only as long as no reset is due, which is why `UnitsStaySound` needs
that a run never begins with one due. `MountInv` follows the boot: once `Diag` has gone
through the headers the list has one file system of each type that is not in `Disorder`, the
newest (`HasNewest`); when the Kickstart's have been erased from it, the newest of all is in
the list or in the Kickstart (`HasNewestOfAll`); and file systems are loaded in order, before the
first partition. It speaks of the tables as they were read (`Sources`), since files are closed
and opened between runs. `MountsStayRight` is the result. The lemmas under it are about the
recursive functions: that they exist (`RecursionExists`), and what each of their turns keeps
(`AddKeepsNewest`, `EraseKeepsNewest`, `AddMountIs`), for lists of any length. That
`MakeDeviceName` finds a name is a count: there is one more number than names.

**Only model-checked:** all liveness (`EventuallyServiced`, `RaiseIsTaken`,
`StopIsHonoured`, `RasterKeepsMoving`, `PlayReturns`, `StopCompletes`, `CloseEndsSession`,
`ExitEndsSession`, `TimersExpire`), which is out of the prover's reach. Each invariant that a
run checks is also proved. An induction over the length of a list, the turns of a loop or the
words of a line is one over a set of numbers (`Induction`, from the least number that is not in
it), since the library's own theorem takes an operator.

## 6 Where the code disagrees with what is said of it

Two runs end in a counterexample to what a comment of the code says:

| run | what happens |
|---|---|
| `irq_keyboard` | The keyboard's reset (left Ctrl and both Windows keys, `Windows/KeyboardDriver.cpp:811-813`) resets the CPU core; the comment at `C/Keyboard.cpp:155` says that this triggers a soft reset, which it does not. A CPU in STOP leaves it but its event stays disabled |
| `sound_lost` | `DSoundCopyToBuffer` returns on any failure of `Lock` before it can reach the branch that restores a lost buffer |

The rest of this section is what was met while modelling and has no run of its own.
Where a property has an exception, this is the reason for it, and the history or
assumption that makes it is named.

**CPU and interrupts**

- An odd autovector throws an address error between the change of level and the fall of
  the raise flag (`C/CpuModule_Interrupts.c:113-115`), which stays up: the same interrupt
  is entered again, where the comment at `C/interrupt.c:43-45` expects one switch of level.
  `RaiseIsTaken` is checked with even vectors.
- `C/FellowMain.cpp:209` says that a stop takes effect at the beginning of the next frame;
  the run loops test the request after every event. A program that does nothing but RESET in a loop
  lets no event happen, and the emulator cannot be stopped (4).

**Sound**

- `Sound::IORegistersClear` goes back to the first buffer and keeps the count of the
  second (`C/Sound.cpp:690`); the next lines each hand over a stale block until the
  surplus is used up (`ResetWhilePlaying`).
- On an underrun the card is told to play on to the end of the ring, not of the next half
  as `WaitForData` says, so that a half already played may be heard again.
- The first block of a channel after its DMA is switched on is one word short; a block of
  at most two words may be taken over twice; a length of 0 wraps to 2^32 words (excluded).
  A program that answers after the line may miss an interrupt, which merges with the next
  (`prompt`).

**Window, timer and keyboard**

- A system key that is released while a menu is open or the window is dragged leaves
  `_syskey_down` set, and the emulation paused in front of the user until the next change
  of focus (`misled`).
- A paused emulation does not look at the request to stop; a closed window ends the
  session only when it is active again. If the timer fails to start, the first delayed
  flip never ends, and neither does the session (`TimerFailed`).
- Frames may be one millisecond closer than the frame time, when the callback runs between
  the reading of the time and the wait.
- `timerEmulationStop` clears the list of callbacks, over which a callback of the killed
  timer may still be iterating (`Windows/Timers.cpp:117`). The late callback is modelled,
  the list is not.
- A comment at `C/Keyboard.cpp:43-45` speaks of locking; nothing locks. The rings are
  right because each index has one writer. A reset or a script of the automation is a
  second one: an addition it breaks into is lost or leaves a stale entry (`spoilt`,
  `raced`). A full ring is overwritten; none of the functions that add looks.
- Keys that are down when the devices are lost are forgotten without a release for the
  Amiga. If ALT and TAB were down, the guess that the task switcher is open remains,
  and all keys are ignored until ALT goes up.

**CIA**

- A write to the high byte of one timer in one-shot mode gives the other timer a new
  time without having frozen it (`disturbed`). A timer that is attached with a count of 0
  counts from the largest value. A timeout in one-shot mode leaves up to `Ratio - 1`
  cycles to the next count.
- A program that writes only the low byte of the time of day sets it to a mixture with
  stale latched bytes; while it sets an alarm byte by byte, intermediate values may match.

**Floppy disks**

- The manual says that changes to packed images are lost (`WinFellow User Manual.lyx`,
  on compressed images); `floppyImageCompressedRemove` packs them again. They are
  lost for DMS and bzip images, and where a packed image is in two drives at once, which a swap
  brings about for a moment (`Twice`). They are also lost where packing fails (`Lost`): the
  failure is only logged and the temporary file, the one copy of them, is removed
  (`C/FloppyDisk.cpp:1012-1024`). `gzPack` does not close its files when it gives up; then the
  temporary file cannot be removed and stays (`C/zlibwrap.c:72-80`).
- Protection that is switched while a disk is in the drive does not change how its file
  is open. `floppySectorSave` does not ask for a disk in the drive: a
  file of an unsupported format stays open and may be written, and without a file it passes a
  null one to the library. When no temporary file can be made, the previous image is opened under the new
  name (`Misnamed`). Some failures leave a temporary file behind.
- A disk with the name of the previous one is not inserted ("Same image"), although a
  host may have removed it: `floppyImageRemove` does not clear the name
  (`C/FloppyDisk.cpp:1264`, `Windows/RetroPlatform.cpp:430`).
- The first sync word of a transfer may be no word of the track: it is put together from the
  byte that was read before the transfer, maybe on another track or in the gap, and the
  next one. A sync word that begins inside another (where a byte is
  repeated) is not seen after it, and on a track of nothing else the wait does not end.
- A transfer of length 0 wraps (`LengthAssumption`). A read with no drive
  selected does not wait for a sync word; a write with none uses `floppy[-1]`. A third
  write to DSKLEN starts the transfer again. The previous byte and the sync state are
  kept over changes of track and of drive, and the head's position beyond the
  end of a shorter track. After a reset port B of CIA B selects all drives.

**UART**

- A word of 0 that is written while the transmitter is idle waits for the next word. A
  reset of the Amiga does not reset the port, and a word may then take up to a frame
  longer (`shifting.reset`). The receiver has no source; the interrupt requested by
  `CopyReceiveShiftRegisterToBuffer` (0x8400) is that of the disk's sync word, not RBF as
  the comment says.

**Hard files**

- `RemoveHardfile` "Returns true if a hardfile was previously inserted"
  (`HardfileHandler.cpp:453`), but it looks at whether the file is open, and between two
  runs none is: a unit that is removed causes no reset, and the Amiga goes on with a unit
  that does not answer and a file system whose header is deleted (`unplugged`).
- A file system older than one already known is not ignored (`HardfileHandler.cpp:277`) but
  added behind it; if the Kickstart has a newer one, only the first is erased, and the
  older is mounted (`Descending`).
- A list of an RDB that circles over more than one block is never left
  (`Circles`). A damaged file system leaves `HasRDB` set on a unit without one. Names of
  devices are compared with their case, which AmigaDOS does not.
- `CopyHunkToAddress` zeroes the BSS part from the start of a hunk, over its content.

## 7 What is not modelled, and the plan

Done: the interrupt path, the scheduler with its abstraction, the sound hand-over and the
audio channel, the window with the keyboard and the timer, the CIAs, both sides of the
floppy drives, the serial port, hard files; proofs of the safety properties of all of them.

Next, in this order:

1. `BlockPipe`, an abstract queue of blocks, implemented by `SoundPlayback`.
2. A composition of `Interrupts` and `BusScheduler`, in which registers decide what
   `Raise` and `RaiseDelayed` leave open.
3. The order in which all modules start, stop and are reset.
4. The cycle-exact renderer's own event queue.

Left out, and why:

- instruction semantics with their tables, blitter and sprite arithmetic, pixel renderers, MFM encoding,
  the mixing of samples: data without order, which are the larger part of the code's lines;
- DirectX and what enumerates its modes: external;
- dialogs and the parsing of configurations, except what they do to disks and hard files:
  no order;
- the real time clock and real joysticks and mice: sampled, without a protocol;
- code taken from other projects (`uae/`, `xdms/`, zlib, the IPF library): external;
- in the modelled components: the serial register and data direction registers of a CIA,
  other commands of `fhfile.device` (no state), a file that exists but cannot be
  opened or has a geometry of 0, the PatchFlags of a file system (its node is patched as those
  in use ask for), the throwaway frame for which RTE on a 68020 goes on to a second frame (and a
  second status register), the headless mode in which a RetroPlatform host owns the window and
  decides about the pause (`Windows/GfxDrvCommon.cpp:148,172,590`), more cards than the list of autoconfig cards holds, the
  wrap of a ring's index at 2^32, the debugger's loop.

## 8 How to run

    tlc -workers 2 -config MCBusSafety.cfg MCBusScheduler.tla
    tlapm InterruptsProof.tla

The longest run (`storage`) takes about three minutes. Of the proofs, `LineDevicesProof`
and `StorageProof` take about four minutes each, `BusSchedulerProof` about two,
`CiaTimersProof` one, the others a quarter of a minute to a minute.
