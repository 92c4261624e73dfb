---------------------------- MODULE AudioChannel ----------------------------
(***************************************************************************)
(* One channel of Paula's audio (Sound.cpp): the state machine that        *)
(* fetches the words of a block, and the program that supplies the next    *)
(* block when the interrupt tells it that the last one was taken over.     *)
(* The machine runs a few steps at the end of every line; registers are    *)
(* written between lines.  Where a block lies, what is in it and how loud  *)
(* it is does not matter: a pointer is a block and a word in it.           *)
(***************************************************************************)
EXTENDS Integers

CONSTANTS
  Blocks,   \* blocks are numbered modulo this
  Lengths,  \* what programs write to AUDxLEN
  Periods,  \* what _periodTable makes of AUDxPER
  Full,     \* the phase at which a byte is over, 0x10000
  Steps     \* steps of the machine in a line, 2 or 3

VARIABLES
  reg,      \* _audpt, _audlen, _audper
  channel,  \* _audstate, _audptw, _audlenw, _audpercounter
  dat,      \* _auddatSet
  dma,      \* the channel's bit of dmacon
  irq,      \* its bit of INTREQ
  taken,    \* history: the length taken over with the block, and if it is the first
  whole,    \* history: no block was left before its end
  prompt,   \* history: the program has supplied every block in time
  follows   \* history: since then no block was taken over twice
history == <<taken, whole, prompt, follows>>
vars == <<reg, channel, dat, dma, irq, history>>

MaxLength == CHOOSE n \in Lengths : \A k \in Lengths : k <= n

TypeOK ==
  /\ reg \in [block : 0 .. Blocks - 1, len : Lengths, per : Periods \union {0}]
  /\ channel \in [state : {0, 1, 2, 3, 5}, block : 0 .. Blocks - 1, word : 0 .. MaxLength,
                  lenw : 1 .. MaxLength, counter : 0 .. 2 * Full - 1]
  /\ dat \in BOOLEAN /\ dma \in BOOLEAN /\ irq \in BOOLEAN
  /\ taken \in [len : Lengths, first : BOOLEAN]
  /\ whole \in BOOLEAN /\ prompt \in BOOLEAN /\ follows \in BOOLEAN

Cleared == [state |-> 0, block |-> 0, word |-> 0, lenw |-> 2, counter |-> 0]
Unused == [len |-> 2, first |-> TRUE]

(* IORegistersClear                                                        *)
Init ==
  /\ reg = [block |-> 0, len |-> 2, per |-> 0]
  /\ channel = Cleared
  /\ dat = FALSE /\ dma = FALSE /\ irq = FALSE
  /\ taken = Unused /\ whole = TRUE /\ prompt = FALSE /\ follows = TRUE
-----------------------------------------------------------------------------
(* The machine, as operators on a record of what a line changes.           *)
Take(s, first) ==
  [s EXCEPT !.c.lenw = reg.len, !.c.block = reg.block, !.c.word = 0,
            !.taken = [len |-> reg.len, first |-> first]]

(* State0, which ChannelEnable calls.                                      *)
State0(s) == [Take(s, TRUE) EXCEPT !.c.counter = 0, !.c.state = 1]

State1(s) ==
  [s EXCEPT !.c.lenw = IF @ # 1 THEN @ - 1 ELSE @, !.c.state = 5, !.irq = TRUE]

(* Mutant: the block is taken over but nobody is told.                     *)
FetchSilent(s) ==
  LET f == [s EXCEPT !.c.word = @ + 1]
  IN  IF s.c.lenw # 1 THEN [f EXCEPT !.c.lenw = @ - 1]
      ELSE [Take(f, FALSE) EXCEPT
              !.whole = @ /\ (f.c.word = s.taken.len \/ (s.taken.first /\ f.c.word = s.taken.len - 1)),
              !.follows = @ /\ reg.block # s.c.block]

(* The fetch of a word in State3 and State5, and at the end of the block   *)
(* the next one.                                                           *)
Fetch(s) ==
  LET f == [s EXCEPT !.c.word = @ + 1]
  IN  IF s.c.lenw # 1 THEN [f EXCEPT !.c.lenw = @ - 1]
      ELSE [Take(f, FALSE) EXCEPT
              !.irq = TRUE,
              !.whole = @ /\ (f.c.word = s.taken.len \/ (s.taken.first /\ f.c.word = s.taken.len - 1)),
              !.follows = @ /\ reg.block # s.c.block]

(* The bytes of a word, in State2 and State3, each for a period.           *)
Count(s, counter, state) == [s EXCEPT !.c.counter = counter + reg.per, !.c.state = state]

State2(s) == IF s.c.counter >= Full THEN Count(s, s.c.counter - Full, 3) ELSE Count(s, s.c.counter, 2)
State3(s) == IF s.c.counter >= Full THEN Fetch(Count(s, s.c.counter - Full, 2)) ELSE Count(s, s.c.counter, 3)
State5(s) == Fetch([s EXCEPT !.c.counter = 0, !.c.state = 2])

ExecuteState(s) ==
  CASE s.c.state = 0 -> State0(s)
    [] s.c.state = 1 -> State1(s)
    [] s.c.state = 2 -> State2(s)
    [] s.c.state = 3 -> State3(s)
    [] s.c.state = 5 -> State5(s)

(* ChannelUpdate, from the end of every line.  The program is late if it   *)
(* has not answered the interrupt by then, and cannot be in time for a     *)
(* block that is over before the line is.                                  *)
EndOfLine ==
  /\ dma
  /\ LET after[i \in 0 .. Steps] ==
           IF i = 0 THEN [c |-> channel, irq |-> irq, taken |-> taken, whole |-> whole, follows |-> follows]
           ELSE ExecuteState(after[i - 1])
     IN  \E s \in {after[Steps]} :
           /\ channel' = s.c /\ irq' = s.irq /\ taken' = s.taken
           /\ whole' = s.whole /\ follows' = s.follows
           /\ prompt' = (prompt /\ ~irq /\ 2 * s.taken.len >= Steps)
  /\ UNCHANGED <<reg, dat, dma>>

(* Without DMA, a word written to AUDxDAT requests the interrupt.          *)
EndOfLineDat ==
  /\ ~dma /\ dat /\ ~irq
  /\ irq' = TRUE /\ dat' = FALSE
  /\ UNCHANGED <<reg, channel, dma, history>>
-----------------------------------------------------------------------------
(* A block too short is over before the program can answer for it.         *)
WriteBlock(b, n) == reg' = [reg EXCEPT !.block = b, !.len = n]

(* The interrupt handler of a program that plays blocks one by one.        *)
Supply(n) ==
  /\ irq /\ irq' = FALSE
  /\ WriteBlock((reg.block + 1) % Blocks, n)
  /\ UNCHANGED <<channel, dat, dma, history>>

(* What other programs do.                                                 *)
SetBlock(b, n) ==
  WriteBlock(b, n) /\ prompt' = FALSE /\ UNCHANGED <<channel, dat, dma, irq, taken, whole, follows>>
Acknowledge ==
  irq /\ irq' = FALSE /\ prompt' = FALSE /\ UNCHANGED <<reg, channel, dat, dma, taken, whole, follows>>
SetAudXper(p) == reg' = [reg EXCEPT !.per = p] /\ UNCHANGED <<channel, dat, dma, irq, history>>
SetAudXdat    == dat' = TRUE /\ UNCHANGED <<reg, channel, dma, irq, history>>

(* wdmacon switches the DMA on, and State0 takes over the first block.     *)
ChannelEnable ==
  /\ ~dma /\ dma' = TRUE
  /\ LET s == State0([c |-> channel, taken |-> taken])
     IN  channel' = s.c /\ taken' = s.taken
  /\ prompt' = (~irq /\ reg.len > 2) /\ follows' = TRUE
  /\ UNCHANGED <<reg, dat, irq, whole>>

ChannelKill ==
  /\ dma /\ dma' = FALSE
  /\ channel' = [channel EXCEPT !.state = 0]
  /\ UNCHANGED <<reg, dat, irq, history>>

HardReset ==
  /\ reg' = [block |-> 0, len |-> 2, per |-> 0]
  /\ channel' = Cleared
  /\ dat' = FALSE /\ dma' = FALSE /\ irq' = FALSE
  /\ taken' = Unused /\ prompt' = FALSE
  /\ UNCHANGED <<whole, follows>>

Program ==
  \/ \E n \in Lengths : Supply(n) \/ \E b \in 0 .. Blocks - 1 : SetBlock(b, n)
  \/ Acknowledge \/ SetAudXdat \/ ChannelEnable \/ ChannelKill \/ HardReset
  \/ \E p \in Periods : SetAudXper(p)

Next == EndOfLine \/ EndOfLineDat \/ Program

Spec == Init /\ [][Next]_vars
-----------------------------------------------------------------------------
(* The words fetched are those of the block that was taken over, up to its *)
(* length as it was then, whatever is written meanwhile: a block is never  *)
(* overrun, and left early only by the one word by which the first block   *)
(* after the DMA was switched on is short.  A program that answers each    *)
(* interrupt with the next block before the line is over never hears a     *)
(* block twice, if the first one has more than two words.                  *)
BlocksFollow ==
  /\ whole
  /\ dma /\ channel.state # 0 => channel.word < taken.len
  /\ prompt => follows
=============================================================================
