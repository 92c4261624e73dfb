------------------------- MODULE KeyboardQueuesProof -------------------------
(***************************************************************************)
(* Proofs about the ring buffers of module KeyboardQueues, for every       *)
(* length of a buffer, pace and set of keys.                               *)
(***************************************************************************)
EXTENDS KeyboardQueues, SequenceTheorems, TLAPS

RingRec == [in : Nat, out : Nat, slot : [0 .. Length - 1 -> Code]]

(* The entries between the indices of the ring x are o, and fit in it.     *)
Fifo(x, o) ==
  /\ x.out + Len(o) = x.in /\ Len(o) <= Length
  /\ \A i \in 1 .. Len(o) : o[i] = x.slot[Slot(x.out + i - 1)]

(* What the window's thread has read and written of the ring it adds to    *)
(* still holds when it goes on.                                            *)
Pending(r) ==
  typist.ring = r =>
    /\ typist.pc \in {"slot", "store"} => typist.pos = ring[r].in
    /\ typist.pc \in {"load", "store"} => /\ Len(owed[r]) < Length
                                          /\ ring[r].slot[Slot(ring[r].in)] = typist.code

Queues == \A r \in Ring \ spoilt : Fifo(ring[r], owed[r]) /\ Pending(r)

(* The positions of the rings of events move just when the event of the    *)
(* key is added.                                                           *)
Positions ==
  ~raced =>
    /\ typist.pc \in Typing /\ typist.ring # "scancodes" =>
         /\ typist.seen = <<ring["eventsEOL"].in, ring["eventsEOF"].in>>
         /\ typist.pc = "store" => typist.pos = ring[typist.ring].in
    /\ typist.pc = "compare" => (Eaten <=> typist.ring # "scancodes")

Adding == typist.ring = "eventsEOL" /\ typist.pc \in Typing

(* Where the joystick will be once all that is on its way has arrived.     *)
Held == LET o == owed["eventsEOL"]
        IN  IF Adding THEN ~typist.code[2]
            ELSE IF o # <<>> THEN o[Len(o)] = Down(Joy) ELSE port

Joystick ==
  /\ Adding => typist.code[1] = Joy /\ (Joy \in keys <=> ~typist.code[2])
  /\ "eventsEOL" \notin spoilt =>
       \A i \in 1 .. Len(owed["eventsEOL"]) : owed["eventsEOL"][i] \in {Down(Joy), Up(Joy)}
  /\ ~excused /\ "eventsEOL" \notin spoilt => (Joy \in keys <=> Held)

IInv == TypeOK /\ Queues /\ Positions /\ Joystick
-----------------------------------------------------------------------------
(* Rings.                                                                  *)

(* Two entries less than a length apart are in two slots.                  *)
LEMMA SlotsDiffer ==
  ASSUME NEW l \in Nat, 1 <= l, NEW a \in Nat, NEW b \in Nat, a < b, b < a + l
  PROVE  a % l # b % l
<1>1. \A x \in Nat : \E q \in Int : x = q * l + (x % l)
  <2> SUFFICES ASSUME NEW x \in Nat
               PROVE  \E q \in Int : x = q * l + (x % l)
    OBVIOUS
  <2> DEFINE q == x \div l
  <2>1. q \in Int /\ q * l <= x /\ x < q * l + l
    OBVIOUS
  <2> HIDE DEF q
  <2>2. x - q * l \in 0 .. l - 1 /\ q * l \in Int
    BY <2>1
  <2>3. \A k \in 0 .. l - 1 : (q * l + k) % l = k
    BY <2>1
  <2>4. (q * l + (x - q * l)) % l = x - q * l
    BY <2>2, <2>3
  <2>5. q * l + (x - q * l) = x
    BY <2>2
  <2>6. x % l = x - q * l
    BY <2>4, <2>5
  <2>7. x = q * l + (x % l)
    BY <2>5, <2>6
  <2> QED  BY <2>1, <2>7
<1>2. PICK p \in Int : a = p * l + (a % l)
  BY <1>1
<1>3. PICK q \in Int : b = q * l + (b % l)
  BY <1>1
<1>4. SUFFICES ASSUME a % l = b % l
               PROVE  FALSE
  OBVIOUS
<1> DEFINE r == a % l
<1>5. r \in Int /\ a = p * l + r /\ b = q * l + r
  BY <1>2, <1>3, <1>4
<1> HIDE DEF r
<1>6. (q - p) * l = b - a
  BY <1>5
<1>7. 0 < (q - p) * l /\ (q - p) * l < l
  BY <1>6
<1>8. q - p \in Int
  OBVIOUS
<1>9. \A d \in Int : ~(0 < d * l /\ d * l < l)
  <2> SUFFICES ASSUME NEW d \in Int, 0 < d * l, d * l < l
               PROVE  FALSE
    OBVIOUS
  <2>1. d <= 0 => d * l <= 0
    OBVIOUS
  <2>2. 1 <= d => l <= d * l
    OBVIOUS
  <2> QED  BY <2>1, <2>2
<1> QED  BY <1>7, <1>8, <1>9

LEMMA Sizes == Length \in Nat /\ 2 <= Length /\ Pace \in Nat /\ 1 <= Pace
BY SizeAssumption

LEMMA SlotType == \A n \in Nat : Slot(n) \in 0 .. Length - 1
BY Sizes DEF Slot
LEMMA Appended ==
  ASSUME NEW S, NEW o \in Seq(S), NEW c \in S
  PROVE  /\ Append(o, c) \in Seq(S) /\ Len(Append(o, c)) = Len(o) + 1
         /\ \A i \in 1 .. Len(o) : Append(o, c)[i] = o[i]
         /\ Append(o, c)[Len(o) + 1] = c
OBVIOUS

LEMMA Tailed ==
  ASSUME NEW S, NEW o \in Seq(S), o # <<>>
  PROVE  /\ Tail(o) \in Seq(S) /\ Len(o) \in Nat /\ 1 <= Len(o)
         /\ Len(Tail(o)) = Len(o) - 1
         /\ \A i \in 1 .. Len(o) - 1 : Tail(o)[i] = o[i + 1]
<1>1. Len(o) \in Nat /\ Len(o) # 0
  BY EmptySeq
<1> QED  BY <1>1, HeadTailProperties

(* What is read at the index "out" of a ring is its oldest entry, and it   *)
(* can be taken.                                                           *)
LEMMA FifoTakes ==
  ASSUME NEW x \in RingRec, NEW o \in Seq(Code), Fifo(x, o), x.out < x.in
  PROVE  /\ o # <<>> /\ 1 <= Len(o) /\ x.slot[Slot(x.out)] = o[1]
         /\ Fifo([x EXCEPT !.out = @ + 1], Tail(o))
<1>1. x.in \in Nat /\ x.out \in Nat /\ Len(o) \in Nat /\ x.out + Len(o) = x.in
      /\ Len(o) <= Length /\ \A i \in 1 .. Len(o) : o[i] = x.slot[Slot(x.out + i - 1)]
  BY DEF RingRec, Fifo
<1>2. 1 <= Len(o) /\ o # <<>>
  <2>1. 1 <= Len(o)
    BY <1>1
  <2> QED  BY <2>1
<1>3. x.slot[Slot(x.out)] = o[1]
  <2>1. 1 \in 1 .. Len(o) /\ x.out + 1 - 1 = x.out
    BY <1>1, <1>2
  <2> QED  BY <1>1, <2>1
<1> DEFINE y == [x EXCEPT !.out = @ + 1]
           p == Tail(o)
<1>4. y.in = x.in /\ y.out = x.out + 1 /\ y.slot = x.slot
  BY DEF RingRec
<1>5. Len(p) = Len(o) - 1 /\ \A i \in 1 .. Len(o) - 1 : p[i] = o[i + 1]
  BY <1>2, Tailed
<1> HIDE DEF y, p
<1>6. \A i \in 1 .. Len(p) : p[i] = y.slot[Slot(y.out + i - 1)]
  <2> SUFFICES ASSUME NEW i \in 1 .. Len(p)
               PROVE  p[i] = y.slot[Slot(y.out + i - 1)]
    OBVIOUS
  <2>1. i \in 1 .. Len(o) - 1 /\ i + 1 \in 1 .. Len(o)
        /\ y.out + i - 1 = x.out + (i + 1) - 1
    BY <1>1, <1>4, <1>5
  <2>2. p[i] = o[i + 1]
    BY <1>5, <2>1
  <2>3. o[i + 1] = x.slot[Slot(x.out + (i + 1) - 1)]
    BY <1>1, <2>1
  <2> QED  BY <1>4, <2>1, <2>2, <2>3
<1>7. y.out + Len(p) = y.in /\ Len(p) <= Length
  BY <1>1, <1>4, <1>5, Sizes
<1>8. Fifo(y, p)
  BY <1>6, <1>7 DEF Fifo
<1> QED  BY <1>2, <1>3, <1>8 DEF y, p

(* A write to the slot at the index "in" of a ring that is not full        *)
(* changes none that waits.                                                *)
LEMMA FifoWrites ==
  ASSUME NEW x \in RingRec, NEW o \in Seq(Code), Fifo(x, o), Len(o) < Length,
         NEW c \in Code
  PROVE  LET y == [x EXCEPT !.slot[Slot(x.in)] = c]
         IN  /\ y \in RingRec /\ y.in = x.in /\ y.out = x.out
             /\ y.slot[Slot(x.in)] = c /\ Fifo(y, o)
<1>1. x.in \in Nat /\ x.out \in Nat /\ Len(o) \in Nat /\ x.out + Len(o) = x.in
      /\ x.slot \in [0 .. Length - 1 -> Code]
      /\ \A i \in 1 .. Len(o) : o[i] = x.slot[Slot(x.out + i - 1)]
  BY DEF RingRec, Fifo
<1> DEFINE k == Slot(x.in)
           s == [x.slot EXCEPT ![k] = c]
           y == [x EXCEPT !.slot = s]
<1>2. k \in 0 .. Length - 1
  BY <1>1, SlotType
<1> HIDE DEF k
<1>3. s \in [0 .. Length - 1 -> Code] /\ s[k] = c
      /\ \A j \in 0 .. Length - 1 : j # k => s[j] = x.slot[j]
  BY <1>1, <1>2
<1> HIDE DEF s
<1>4. y \in RingRec /\ y.in = x.in /\ y.out = x.out /\ y.slot = s
  BY <1>1, <1>3 DEF RingRec
<1> HIDE DEF y
<1>5. \A i \in 1 .. Len(o) : o[i] = s[Slot(x.out + i - 1)]
  <2> SUFFICES ASSUME NEW i \in 1 .. Len(o)
               PROVE  o[i] = s[Slot(x.out + i - 1)]
    OBVIOUS
  <2> DEFINE a == x.out + i - 1
  <2>1. a \in Nat /\ a < x.in /\ x.in < a + Length
    BY <1>1, Sizes
  <2>2. o[i] = x.slot[Slot(a)]
    BY <1>1
  <2> HIDE DEF a
  <2>3. Slot(a) # k /\ Slot(a) \in 0 .. Length - 1
    <3>1. a % Length # x.in % Length
      <4>1. 1 <= Length
        BY Sizes
      <4> QED  BY <1>1, <2>1, <4>1, Sizes, SlotsDiffer
    <3> QED  BY <2>1, <3>1, SlotType DEF Slot, k
  <2>4. s[Slot(a)] = x.slot[Slot(a)]
    BY <1>3, <2>3
  <2> QED  BY <2>2, <2>4 DEF a
<1>6. Fifo(y, o)
  BY <1>4, <1>5 DEF Fifo
<1>7. y = [x EXCEPT !.slot[Slot(x.in)] = c]
  BY DEF y, s, k
<1> QED  BY <1>3, <1>4, <1>6, <1>7 DEF k

(* The index moves over the entry that was written.                        *)
LEMMA FifoAdds ==
  ASSUME NEW x \in RingRec, NEW o \in Seq(Code), Fifo(x, o), Len(o) < Length,
         NEW c \in Code, x.slot[Slot(x.in)] = c
  PROVE  Fifo([x EXCEPT !.in = x.in + 1], Append(o, c))
<1>1. x.in \in Nat /\ x.out \in Nat /\ Len(o) \in Nat /\ x.out + Len(o) = x.in
      /\ \A i \in 1 .. Len(o) : o[i] = x.slot[Slot(x.out + i - 1)]
  BY DEF RingRec, Fifo
<1> DEFINE y == [x EXCEPT !.in = x.in + 1]
           p == Append(o, c)
<1>2. y.in = x.in + 1 /\ y.out = x.out /\ y.slot = x.slot
  BY DEF RingRec
<1>3. Len(p) = Len(o) + 1 /\ p[Len(o) + 1] = c /\ \A i \in 1 .. Len(o) : p[i] = o[i]
  BY Appended
<1> HIDE DEF y, p
<1>4. \A i \in 1 .. Len(p) : p[i] = y.slot[Slot(y.out + i - 1)]
  <2> SUFFICES ASSUME NEW i \in 1 .. Len(p)
               PROVE  p[i] = y.slot[Slot(y.out + i - 1)]
    OBVIOUS
  <2>1. CASE i = Len(o) + 1
    <3>1. x.out + i - 1 = x.in
      BY <1>1, <2>1
    <3> QED  BY <1>2, <1>3, <2>1, <3>1
  <2>2. CASE i # Len(o) + 1
    <3>1. i \in 1 .. Len(o)
      BY <1>1, <1>3, <2>2
    <3> QED  BY <1>1, <1>2, <1>3, <3>1
  <2> QED  BY <2>1, <2>2
<1>5. y.out + Len(p) = y.in /\ Len(p) <= Length
  <2>1. \A n, m \in Nat : n + m = x.in => n + (m + 1) = x.in + 1
    BY <1>1
  <2>2. \A n, l \in Nat : n < l => n + 1 <= l
    OBVIOUS
  <2>3. x.out + (Len(o) + 1) = x.in + 1
    BY <1>1, <2>1
  <2>4. Len(o) + 1 <= Length
    BY <1>1, <2>2, Sizes
  <2> QED  BY <1>2, <1>3, <2>3, <2>4
<1> QED  BY <1>4, <1>5 DEF Fifo, y, p

LEMMA FifoIsWaiting ==
  ASSUME TypeOK, NEW r \in Ring, Fifo(ring[r], owed[r])
  PROVE  Waiting(r) = owed[r]
<1> DEFINE x == ring[r]
           o == owed[r]
<1>1. x \in RingRec /\ o \in Seq(Code)
  BY DEF TypeOK, RingRec
<1> HIDE DEF x, o
<1>2. x.in \in Nat /\ x.out \in Nat /\ Len(o) \in Nat /\ x.in - x.out = Len(o)
      /\ \A i \in 1 .. Len(o) : o[i] = x.slot[Slot(x.out + i - 1)]
  BY <1>1 DEF RingRec, Fifo, x, o
<1>3. o = [i \in 1 .. Len(o) |-> o[i]]
  BY <1>1
<1>4. Waiting(r) = [i \in 1 .. x.in - x.out |-> x.slot[Slot(x.out + i - 1)]]
  BY DEF Waiting, x
<1>5. Waiting(r) = [i \in 1 .. Len(o) |-> x.slot[Slot(x.out + i - 1)]]
  BY <1>2, <1>4
<1> QED  BY <1>2, <1>3, <1>5 DEF o
-----------------------------------------------------------------------------
TypistRec == [pc : Typing \union {"idle", "compare"}, ring : Ring, code : Code,
              key : Keys, up : BOOLEAN, seen : Nat \X Nat, pos : Nat]

LEMMA Types ==
  ASSUME TypeOK
  PROVE  /\ ring \in [Ring -> RingRec] /\ owed \in [Ring -> Seq(Code)]
         /\ \A r \in Ring : ring[r].in \in Nat /\ ring[r].out \in Nat
         /\ typist \in TypistRec /\ typist.ring \in Ring /\ typist.code \in Code
         /\ typist.code[2] \in BOOLEAN /\ typist.code = <<typist.code[1], typist.code[2]>>
         /\ typist.pos \in Nat /\ keys \subseteq Keys /\ port \in BOOLEAN
         /\ spoilt \subseteq Ring
<1>1. /\ ring \in [Ring -> RingRec] /\ owed \in [Ring -> Seq(Code)] /\ typist \in TypistRec
      /\ keys \subseteq Keys /\ port \in BOOLEAN /\ spoilt \subseteq Ring
  BY DEF TypeOK, RingRec, TypistRec
<1>2. \A r \in Ring : ring[r].in \in Nat /\ ring[r].out \in Nat
  BY <1>1 DEF RingRec
<1>3. typist.ring \in Ring /\ typist.code \in Code /\ typist.pos \in Nat
  BY <1>1 DEF TypistRec
<1>4. typist.code[2] \in BOOLEAN /\ typist.code = <<typist.code[1], typist.code[2]>>
  BY <1>3 DEF Code
<1> QED  BY <1>1, <1>2, <1>3, <1>4

LEMMA RingNames == /\ {"scancodes", "eventsEOL", "eventsEOF"} = Ring
                   /\ "scancodes" # "eventsEOL" /\ "scancodes" # "eventsEOF"
                   /\ "eventsEOL" # "eventsEOF"
BY DEF Ring

LEMMA KeyNames ==
  /\ Alt \in Keys /\ Exit \in Keys /\ Dump \in Keys /\ Joy \in Keys /\ Joy # Alt
  /\ NoCode \in Code /\ Down("dump") \in Code /\ Down("exit") \in Code
  /\ \A k \in Keys, up \in BOOLEAN : <<k, up>> \in Code
  /\ \A k \in Keys : Down(k) \in Code
  /\ Down("keysPressed") \in Code /\ Down("keysEnd") \in Code
  /\ \A up \in BOOLEAN : /\ <<Joy, up>> = Down(Joy) <=> ~up
                         /\ <<Joy, up>> = Up(Joy) <=> up
BY KeyAssumption DEF Keys, Code, NoCode, Down, Up

LEMMA InitIInv == Init => IInv
<1> SUFFICES ASSUME Init
             PROVE  IInv
  OBVIOUS
<1>1. Empty \in RingRec /\ Empty.in = 0 /\ Empty.out = 0
  BY Sizes, KeyNames DEF Empty, RingRec
<1>2. Idle \in TypistRec /\ Idle.pc = "idle"
  BY KeyNames DEF Idle, TypistRec, Ring
<1>3. TypeOK
  <2>1. ring \in [Ring -> RingRec] /\ typist \in TypistRec /\ owed \in [Ring -> Seq(Code)]
    BY <1>1, <1>2 DEF Init
  <2>2. timeToWait \in 1 .. Pace /\ keys \subseteq Keys /\ spoilt \subseteq Ring
    BY Sizes DEF Init
  <2>3. {switcher, deviceActive, port, stop, raced, excused} \subseteq BOOLEAN
    BY DEF Init
  <2> QED  BY <2>1, <2>2, <2>3 DEF TypeOK, RingRec, TypistRec
<1>4. Queues
  <2> SUFFICES ASSUME NEW r \in Ring
               PROVE  Fifo(ring[r], owed[r]) /\ Pending(r)
    BY DEF Queues
  <2>1. ring[r] = Empty /\ owed[r] = <<>> /\ Len(owed[r]) = 0
    BY DEF Init
  <2>2. Fifo(ring[r], owed[r])
    BY <1>1, <2>1, Sizes DEF Fifo
  <2> QED  BY <1>2, <2>2 DEF Init, Pending
<1>5. Positions
  BY <1>2 DEF Init, Positions, Typing
<1>6. Joystick
  <2>1. ~Adding
    BY <1>2 DEF Init, Adding, Typing
  <2>2. owed["eventsEOL"] = <<>> /\ Len(owed["eventsEOL"]) = 0
    BY RingNames DEF Init
  <2>3. keys = {} /\ port = FALSE
    BY DEF Init
  <2> QED  BY <2>1, <2>2, <2>3 DEF Joystick, Held
<1> QED  BY <1>3, <1>4, <1>5, <1>6 DEF IInv
-----------------------------------------------------------------------------
(* The window's thread.                                                    *)

LEMMA CheckStep ==
  ASSUME IInv, typist.pc = "idle", NEW k \in Keys, NEW up \in BOOLEAN, Check(k, up),
         switcher' \in BOOLEAN,
         UNCHANGED <<ring, timeToWait, deviceActive, port, stop, owed, spoilt>>
  PROVE  IInv'
<1> DEFINE pressed == IF up THEN keys \ {k} ELSE keys \union {k}
           event   == EventOf(k, up, pressed)
           pc      == IF event[1] = "scancodes" THEN "compare" ELSE "position"
           seen    == <<ring["eventsEOL"].in, ring["eventsEOF"].in>>
<1>1. /\ keys' = pressed
      /\ typist' = [pc |-> pc, ring |-> event[1], code |-> event[2], key |-> k, up |-> up,
                    seen |-> seen, pos |-> 0]
      /\ raced' = FALSE
      /\ excused' = IF k = Joy THEN event[1] # "eventsEOL" ELSE excused
  BY DEF Check
<1>2. TypeOK
  BY DEF IInv
<1>3. /\ event[1] \in Ring /\ event[2] \in Code
      /\ event[1] = "eventsEOL" => k = Joy /\ event[2] = <<k, up>>
  BY KeyNames, RingNames DEF EventOf
<1>4. pressed \subseteq Keys /\ (k # Joy => (Joy \in pressed <=> Joy \in keys))
      /\ (k = Joy => (Joy \in pressed <=> ~up))
  BY <1>2, Types
<1>5. seen \in Nat \X Nat
  BY <1>2, Types, RingNames
<1>6. pc \in Typing \union {"idle", "compare"} /\ (pc \in Typing <=> event[1] # "scancodes")
      /\ pc \notin {"slot", "load", "store"} /\ (pc = "compare" => event[1] = "scancodes")
  BY DEF Typing
<1> HIDE DEF pressed, event, pc, seen
<1>7. typist' \in TypistRec
  BY <1>1, <1>3, <1>5, <1>6 DEF TypistRec
<1>8. TypeOK'
  <2>1. excused' \in BOOLEAN
    BY <1>1, <1>2 DEF TypeOK
  <2> QED  BY <1>1, <1>2, <1>4, <1>7, <2>1 DEF TypeOK, TypistRec
<1>9. Queues'
  BY <1>1, <1>6 DEF IInv, Queues, Pending
<1>10. Positions'
  BY <1>1, <1>6 DEF Positions, Eaten, seen
<1>11. Joystick'
  <2>1. Adding' <=> event[1] = "eventsEOL"
    BY <1>1, <1>6, RingNames DEF Adding
  <2>2. ~Adding
    BY DEF Adding, Typing
  <2>3. event[1] = "eventsEOL" => (Joy \in keys' <=> ~typist'.code[2]) /\ typist'.code[1] = Joy
    BY <1>1, <1>3, <1>4
  <2>4. /\ "eventsEOL" \notin spoilt =>
             \A i \in 1 .. Len(owed["eventsEOL"]) :
               owed["eventsEOL"][i] \in {Down(Joy), Up(Joy)}
        /\ ~excused /\ "eventsEOL" \notin spoilt => (Joy \in keys <=> Held)
    BY DEF IInv, Joystick
  <2>5. CASE event[1] = "eventsEOL"
    BY <2>1, <2>3, <2>4, <2>5 DEF Joystick, Held
  <2>6. CASE event[1] # "eventsEOL"
    <3>1. Held' = Held
      BY <2>1, <2>2, <2>6 DEF Held
    <3>2. ~excused' => k # Joy /\ ~excused
      BY <1>1, <2>6
    <3> QED  BY <1>1, <1>4, <2>1, <2>4, <2>6, <3>1, <3>2 DEF Joystick
  <2> QED  BY <2>5, <2>6
<1> QED  BY <1>8, <1>9, <1>10, <1>11 DEF IInv

LEMMA KeypressStep ==
  ASSUME IInv, NEW k \in Keys, NEW up \in BOOLEAN, Keypress(k, up)
  PROVE  IInv'
<1>1. typist.pc = "idle" /\ UNCHANGED <<ring, timeToWait, deviceActive, port, stop, owed, spoilt>>
  BY DEF Keypress
<1>2. switcher \in BOOLEAN /\ Windowed \subseteq BOOLEAN
  BY WindowedAssumption DEF IInv, TypeOK
<1>3. CASE switcher' \in Windowed /\ Check(Alt, TRUE)
  BY <1>1, <1>2, <1>3, CheckStep, KeyNames
<1>4. CASE UNCHANGED switcher /\ Check(k, up)
  BY <1>1, <1>2, <1>4, CheckStep
<1>5. CASE switcher' = ~(k = Alt /\ up) /\ UNCHANGED <<keys, typist, raced, excused>>
  <2>1. TypeOK'
    BY <1>1, <1>5 DEF IInv, TypeOK
  <2> QED  BY <1>1, <1>5, <2>1
           DEF IInv, Queues, Pending, Positions, Eaten, Joystick, Adding, Held
<1> QED  BY <1>3, <1>4, <1>5 DEF Keypress
(* A step of the window's thread on the ring r it adds to.                 *)
LEMMA TypedKeeps ==
  ASSUME TypeOK, NEW from, NEW typed \in TypistRec, Type(from, typed),
         ring' \in [Ring -> RingRec], owed' \in [Ring -> Seq(Code)], spoilt' \subseteq Ring
  PROVE  /\ TypeOK' /\ typist.pc = from /\ typist' = typed
         /\ UNCHANGED <<timeToWait, keys, switcher, deviceActive, port, stop, raced, excused>>
<1>1. /\ typist.pc = from /\ typist' = typed
      /\ UNCHANGED <<timeToWait, keys, switcher, deviceActive, port, stop, raced, excused>>
  BY DEF Type
<1> QED  BY <1>1 DEF TypeOK, RingRec, TypistRec

LEMMA ReadPositionStep == ASSUME IInv, ReadPosition PROVE IInv'
<1> DEFINE typed == [typist EXCEPT !.pc = "slot", !.pos = ring[typist.ring].in]
<1>1. Type("position", typed) /\ UNCHANGED <<ring, owed, spoilt>>
  BY DEF ReadPosition
<1>2. TypeOK /\ typist \in TypistRec /\ typist.ring \in Ring /\ ring[typist.ring].in \in Nat
  BY Types DEF IInv
<1>3. /\ typed \in TypistRec /\ typed.pc = "slot" /\ typed.pos = ring[typist.ring].in
      /\ typed.ring = typist.ring /\ typed.code = typist.code /\ typed.seen = typist.seen
  BY <1>2 DEF TypistRec, Typing
<1> HIDE DEF typed
<1>4. /\ TypeOK' /\ typist.pc = "position" /\ typist' = typed
      /\ UNCHANGED <<keys, port, raced, excused>>
  BY <1>1, <1>2, <1>3, Types, TypedKeeps
<1>5. Queues'
  BY <1>1, <1>3, <1>4 DEF IInv, Queues, Pending
<1>6. Positions'
  BY <1>1, <1>3, <1>4 DEF IInv, Positions, Typing
<1>7. Joystick'
  <2>1. Adding' = Adding
    BY <1>3, <1>4 DEF Adding, Typing
  <2> QED  BY <1>1, <1>3, <1>4, <2>1 DEF IInv, Joystick, Held
<1> QED  BY <1>4, <1>5, <1>6, <1>7 DEF IInv

LEMMA WriteSlotStep == ASSUME IInv, WriteSlot PROVE IInv'
<1> DEFINE r     == typist.ring
           typed == [typist EXCEPT !.pc = "load"]
           y     == [ring[r] EXCEPT !.slot[Slot(typist.pos)] = typist.code]
<1>1. /\ Type("slot", typed) /\ UNCHANGED owed
      /\ ring' = [ring EXCEPT ![r] = y]
      /\ spoilt' = spoilt \union {x \in {r} : Len(owed[r]) = Length}
  <2>1. ring' = [ring EXCEPT ![typist.ring].slot[Slot(typist.pos)] = typist.code]
    BY DEF WriteSlot
  <2> QED  BY <2>1 DEF WriteSlot
<1>2. /\ TypeOK /\ typist \in TypistRec /\ r \in Ring /\ typist.code \in Code
      /\ ring \in [Ring -> RingRec] /\ owed \in [Ring -> Seq(Code)] /\ spoilt \subseteq Ring
      /\ ring[r] \in RingRec /\ owed[r] \in Seq(Code) /\ typist.pos \in Nat
  BY Types DEF IInv
<1>3. /\ typed \in TypistRec /\ typed.pc = "load"
      /\ typed.ring = r /\ typed.code = typist.code /\ typed.seen = typist.seen
  BY <1>2 DEF TypistRec, Typing
<1>4. y \in RingRec /\ y.in = ring[r].in /\ y.out = ring[r].out
  <2>1. Slot(typist.pos) \in 0 .. Length - 1
    BY <1>2, SlotType
  <2> QED  BY <1>2, <2>1 DEF RingRec
<1>5. ring' \in [Ring -> RingRec] /\ ring'[r] = y /\ \A q \in Ring \ {r} : ring'[q] = ring[q]
  <2> HIDE DEF y, r
  <2> QED  BY <1>1, <1>2, <1>4
<1>6. /\ TypeOK' /\ typist.pc = "slot" /\ typist' = typed
      /\ UNCHANGED <<keys, port, raced, excused>>
  <2>1. spoilt' \subseteq Ring
    BY <1>1, <1>2
  <2> HIDE DEF typed
  <2> QED  BY <1>1, <1>2, <1>3, <1>5, <2>1, TypedKeeps
<1> HIDE DEF typed
<1>7. ASSUME r \notin spoilt'
      PROVE  /\ Fifo(y, owed[r]) /\ Len(owed[r]) < Length
             /\ y.slot[Slot(y.in)] = typist.code
  <2>1. r \notin spoilt /\ Len(owed[r]) # Length
    BY <1>1, <1>7
  <2>2. Fifo(ring[r], owed[r]) /\ typist.pos = ring[r].in
    BY <1>2, <1>6, <2>1 DEF IInv, Queues, Pending
  <2>3. Len(owed[r]) < Length
    BY <1>2, <2>1, <2>2, Sizes DEF Fifo
  <2>4. y = [ring[r] EXCEPT !.slot[Slot(ring[r].in)] = typist.code]
    BY <2>2
  <2> HIDE DEF r, y
  <2> QED  BY <1>2, <1>4, <2>2, <2>3, <2>4, FifoWrites
<1> HIDE DEF y
<1>8. Queues'
  <2> SUFFICES ASSUME NEW q \in Ring, q \notin spoilt'
               PROVE  Fifo(ring'[q], owed'[q]) /\ Pending(q)'
    BY DEF Queues
  <2>1. CASE q = r
    BY <1>1, <1>3, <1>5, <1>6, <1>7, <2>1 DEF Pending
  <2>2. CASE q # r
    <3>1. Fifo(ring[q], owed[q])
      BY <1>1 DEF IInv, Queues
    <3> QED  BY <1>1, <1>3, <1>5, <1>6, <2>2, <3>1 DEF Pending
  <2> QED  BY <2>1, <2>2
<1>9. Positions'
  <2>1. \A q \in Ring : ring'[q].in = ring[q].in
    BY <1>4, <1>5
  <2> QED  BY <1>3, <1>6, <2>1, RingNames DEF IInv, Positions, Typing
<1>10. Joystick'
  <2>1. Adding' = Adding
    BY <1>3, <1>6 DEF Adding, Typing
  <2>2. "eventsEOL" \notin spoilt' => "eventsEOL" \notin spoilt
    BY <1>1
  <2> QED  BY <1>1, <1>3, <1>6, <2>1, <2>2 DEF IInv, Joystick, Held
<1> QED  BY <1>6, <1>8, <1>9, <1>10 DEF IInv

LEMMA LoadInStep == ASSUME IInv, LoadIn PROVE IInv'
<1> DEFINE typed == [typist EXCEPT !.pc = "store", !.pos = ring[typist.ring].in]
<1>1. Type("load", typed) /\ UNCHANGED <<ring, owed, spoilt>>
  BY DEF LoadIn
<1>2. TypeOK /\ typist \in TypistRec /\ typist.ring \in Ring /\ ring[typist.ring].in \in Nat
  BY Types DEF IInv
<1>3. /\ typed \in TypistRec /\ typed.pc = "store" /\ typed.pos = ring[typist.ring].in
      /\ typed.ring = typist.ring /\ typed.code = typist.code /\ typed.seen = typist.seen
  BY <1>2 DEF TypistRec, Typing
<1> HIDE DEF typed
<1>4. /\ TypeOK' /\ typist.pc = "load" /\ typist' = typed
      /\ UNCHANGED <<keys, port, raced, excused>>
  BY <1>1, <1>2, <1>3, Types, TypedKeeps
<1>5. Queues'
  BY <1>1, <1>3, <1>4 DEF IInv, Queues, Pending
<1>6. Positions'
  BY <1>1, <1>3, <1>4 DEF IInv, Positions, Typing
<1>7. Joystick'
  <2>1. Adding' = Adding
    BY <1>3, <1>4 DEF Adding, Typing
  <2> QED  BY <1>1, <1>3, <1>4, <2>1 DEF IInv, Joystick, Held
<1> QED  BY <1>4, <1>5, <1>6, <1>7 DEF IInv
LEMMA IdleIs == Idle \in TypistRec /\ Idle.pc = "idle"
BY KeyNames DEF Idle, TypistRec, Ring

LEMMA StoreInStep == ASSUME IInv, StoreIn PROVE IInv'
<1> DEFINE r == typist.ring
           y == [ring[r] EXCEPT !.in = typist.pos + 1]
           o == IF r \in spoilt THEN <<>> ELSE Append(owed[r], typist.code)
<1>1. /\ Type("store", AfterAdd) /\ UNCHANGED spoilt
      /\ ring' = [ring EXCEPT ![r] = y]
      /\ owed' = [owed EXCEPT ![r] = o]
  <2>1. ring' = [ring EXCEPT ![typist.ring].in = typist.pos + 1]
    BY DEF StoreIn
  <2> QED  BY <2>1 DEF StoreIn
<1>2. /\ TypeOK /\ typist \in TypistRec /\ r \in Ring /\ typist.code \in Code
      /\ ring \in [Ring -> RingRec] /\ owed \in [Ring -> Seq(Code)] /\ spoilt \subseteq Ring
      /\ ring[r] \in RingRec /\ owed[r] \in Seq(Code) /\ typist.pos \in Nat
      /\ ring[r].in \in Nat
  BY Types DEF IInv
<1>3. /\ AfterAdd \in TypistRec
      /\ r = "scancodes" => AfterAdd.pc = "idle"
      /\ r # "scancodes" => /\ AfterAdd.pc = "compare" /\ AfterAdd.ring = r
                            /\ AfterAdd.seen = typist.seen
  <2>1. /\ [typist EXCEPT !.pc = "compare", !.pos = 0] \in TypistRec
        /\ [typist EXCEPT !.pc = "compare", !.pos = 0].pc = "compare"
        /\ [typist EXCEPT !.pc = "compare", !.pos = 0].ring = r
        /\ [typist EXCEPT !.pc = "compare", !.pos = 0].seen = typist.seen
    BY <1>2 DEF TypistRec
  <2> QED  BY <2>1, IdleIs DEF AfterAdd
<1>4. AfterAdd.pc \notin {"position", "slot", "load", "store"}
  BY <1>3
<1>5. y \in RingRec /\ y.in = typist.pos + 1 /\ y.out = ring[r].out
  <2>1. typist.pos + 1 \in Nat
    BY <1>2
  <2> QED  BY <1>2, <2>1 DEF RingRec
<1>6. o \in Seq(Code)
  BY <1>2, Appended
<1>7. /\ ring' \in [Ring -> RingRec] /\ ring'[r] = y
      /\ owed' \in [Ring -> Seq(Code)] /\ owed'[r] = o
      /\ \A q \in Ring \ {r} : ring'[q] = ring[q] /\ owed'[q] = owed[q]
  <2> HIDE DEF y, r, o
  <2> QED  BY <1>1, <1>2, <1>5, <1>6
<1>8. /\ TypeOK' /\ typist.pc = "store" /\ typist' = AfterAdd
      /\ UNCHANGED <<keys, port, raced, excused>>
  BY <1>1, <1>2, <1>3, <1>7, TypedKeeps
<1>9. ASSUME r \notin spoilt
      PROVE  Fifo(y, o)
  <2>1. /\ Fifo(ring[r], owed[r]) /\ typist.pos = ring[r].in /\ Len(owed[r]) < Length
        /\ ring[r].slot[Slot(ring[r].in)] = typist.code
    BY <1>2, <1>8, <1>9 DEF IInv, Queues, Pending
  <2>2. y = [ring[r] EXCEPT !.in = ring[r].in + 1] /\ o = Append(owed[r], typist.code)
    BY <1>9, <2>1
  <2> HIDE DEF y, o, r
  <2> QED  BY <1>2, <2>1, <2>2, FifoAdds
<1>10. Queues'
  <2> SUFFICES ASSUME NEW q \in Ring, q \notin spoilt
               PROVE  Fifo(ring'[q], owed'[q])
    BY <1>1, <1>4, <1>8 DEF Queues, Pending
  <2> HIDE DEF y, o
  <2>1. CASE q = r
    BY <1>7, <1>9, <2>1
  <2>2. CASE q # r
    BY <1>7, <2>2 DEF IInv, Queues
  <2> QED  BY <2>1, <2>2
<1>11. Positions'
  <2> SUFFICES ASSUME ~raced, r # "scancodes"
               PROVE  Eaten'
    BY <1>3, <1>4, <1>8 DEF Positions, Typing
  <2>1. /\ typist.seen = <<ring["eventsEOL"].in, ring["eventsEOF"].in>>
        /\ typist.pos = ring[r].in
    BY <1>8 DEF IInv, Positions, Typing
  <2>2. ring'[r].in = ring[r].in + 1 /\ ring'[r].in # ring[r].in
    BY <1>2, <1>5, <1>7, <2>1
  <2>3. typist'.seen = <<ring["eventsEOL"].in, ring["eventsEOF"].in>>
    BY <1>3, <1>8, <2>1
  <2>4. r = "eventsEOL" \/ r = "eventsEOF"
    BY <1>2, RingNames
  <2>5. <<ring'["eventsEOL"].in, ring'["eventsEOF"].in>>
          # <<ring["eventsEOL"].in, ring["eventsEOF"].in>>
    BY <2>2, <2>4
  <2> QED  BY <2>3, <2>5 DEF Eaten
<1>12. Joystick'
  <2>1. ~Adding' /\ UNCHANGED <<spoilt, excused, keys, port>>
    BY <1>1, <1>4, <1>8 DEF Adding, Typing
  <2>2. CASE r # "eventsEOL"
    <3>1. owed'["eventsEOL"] = owed["eventsEOL"] /\ ~Adding
      BY <1>7, <2>2, RingNames DEF Adding
    <3> QED  BY <2>1, <3>1 DEF IInv, Joystick, Held
  <2>3. CASE r = "eventsEOL" /\ r \in spoilt
    BY <2>1, <2>3 DEF Joystick
  <2>4. CASE r = "eventsEOL" /\ r \notin spoilt
    <3> DEFINE p == owed["eventsEOL"]
               c == typist.code
    <3>1. /\ c[1] = Joy /\ (Joy \in keys <=> ~c[2]) /\ c[2] \in BOOLEAN
          /\ \A i \in 1 .. Len(p) : p[i] \in {Down(Joy), Up(Joy)}
      BY <1>2, <1>8, <2>4, Types DEF IInv, Joystick, Adding, Typing
    <3>2. c = <<Joy, c[2]>> /\ (c = Down(Joy) <=> ~c[2]) /\ c \in {Down(Joy), Up(Joy)}
      BY <1>2, <3>1, Types, KeyNames
    <3>3. owed'["eventsEOL"] = Append(p, c) /\ p \in Seq(Code) /\ c \in Code
      BY <1>2, <1>7, <2>4
    <3> DEFINE n == Append(p, c)
    <3>4. /\ Len(n) = Len(p) + 1 /\ n[Len(p) + 1] = c /\ Len(p) \in Nat
          /\ \A i \in 1 .. Len(p) : n[i] = p[i]
      BY <3>3, Appended
    <3> HIDE DEF n, c
    <3>5. \A i \in 1 .. Len(n) : n[i] \in {Down(Joy), Up(Joy)}
      <4> SUFFICES ASSUME NEW i \in 1 .. Len(n)
                   PROVE  n[i] \in {Down(Joy), Up(Joy)}
        OBVIOUS
      <4>1. i = Len(p) + 1 \/ i \in 1 .. Len(p)
        BY <3>4
      <4> QED  BY <3>1, <3>2, <3>4, <4>1
    <3>6. n # <<>> /\ n[Len(n)] = c
      <4>1. Len(n) # 0
        BY <3>4
      <4> QED  BY <3>4, <4>1
    <3>7. owed'["eventsEOL"] = n
      BY <3>3 DEF n, c
    <3> QED  BY <2>1, <3>1, <3>2, <3>5, <3>6, <3>7 DEF Joystick, Held
  <2> QED  BY <2>2, <2>3, <2>4
<1> QED  BY <1>8, <1>10, <1>11, <1>12 DEF IInv

LEMMA CompareStep == ASSUME IInv, Compare PROVE IInv'
<1> DEFINE next  == [typist EXCEPT !.pc = "position", !.ring = "scancodes",
                                   !.code = <<typist.key, typist.up>>, !.seen = <<0, 0>>]
           typed == IF Eaten THEN Idle ELSE next
<1>1. Type("compare", typed) /\ UNCHANGED <<ring, owed, spoilt>>
  BY DEF Compare
<1>2. TypeOK /\ typist \in TypistRec
  BY Types DEF IInv
<1>3. next \in TypistRec /\ next.pc = "position" /\ next.ring = "scancodes"
  <2>1. <<typist.key, typist.up>> \in Code /\ <<0, 0>> \in Nat \X Nat
    BY <1>2, KeyNames DEF TypistRec
  <2> QED  BY <1>2, <2>1, RingNames DEF TypistRec, Typing
<1>4. /\ typed \in TypistRec /\ typed.pc \in {"idle", "position"}
      /\ typed.pc = "position" => typed.ring = "scancodes"
  BY <1>3, IdleIs
<1> HIDE DEF typed
<1>5. /\ TypeOK' /\ typist.pc = "compare" /\ typist' = typed
      /\ UNCHANGED <<keys, port, raced, excused>>
  BY <1>1, <1>2, <1>4, Types, TypedKeeps
<1>6. Queues'
  BY <1>1, <1>4, <1>5 DEF IInv, Queues, Pending
<1>7. Positions'
  BY <1>4, <1>5 DEF Positions, Typing
<1>8. Joystick'
  <2>1. ~Adding' /\ ~Adding
    BY <1>4, <1>5, RingNames DEF Adding, Typing
  <2> QED  BY <1>1, <1>5, <2>1 DEF IInv, Joystick, Held
<1> QED  BY <1>5, <1>6, <1>7, <1>8 DEF IInv

LEMMA TypistStep == ASSUME IInv, Typist PROVE IInv'
BY ReadPositionStep, WriteSlotStep, LoadInStep, StoreInStep, CompareStep DEF Typist

(* The loss of the devices, which forgets the keys, between two keys.      *)
LEMMA ClearKeeps ==
  ASSUME IInv, typist.pc = "idle", Clear \/ UNCHANGED <<keys, excused>>,
         UNCHANGED <<ring, timeToWait, switcher, typist, port, owed, spoilt, raced>>,
         deviceActive' \in BOOLEAN, stop' \in BOOLEAN
  PROVE  IInv'
<1>1. CASE Clear
  <2>1. keys' = {} /\ excused' = (excused \/ Joy \in keys)
    BY <1>1 DEF Clear
  <2>2. TypeOK'
    BY <2>1 DEF IInv, TypeOK
  <2>3. ~Adding /\ ~Adding' /\ Held' = Held
    BY DEF Adding, Typing, Held
  <2>4. excused \in BOOLEAN
    BY DEF IInv, TypeOK
  <2>5. Joystick'
    BY <2>1, <2>3, <2>4 DEF IInv, Joystick
  <2> QED  BY <2>2, <2>5 DEF IInv, Queues, Pending, Positions, Eaten
<1>2. CASE UNCHANGED <<keys, excused>>
  <2>1. TypeOK'
    BY <1>2 DEF IInv, TypeOK
  <2> QED  BY <1>2, <2>1
           DEF IInv, Queues, Pending, Positions, Eaten, Joystick, Adding, Held
<1> QED  BY <1>1, <1>2

LEMMA StateHasChangedStep ==
  ASSUME IInv, NEW active \in BOOLEAN, StateHasChanged(active)
  PROVE  IInv'
<1>1. stop' \in BOOLEAN
  BY DEF StateHasChanged, IInv, TypeOK
<1> QED  BY <1>1, ClearKeeps DEF StateHasChanged

(* The start of a session, of the keyboard and of the window.              *)
LEMMA StartKeeps ==
  ASSUME IInv, typist.pc = "idle",
         keys' = {}, switcher' = FALSE, port' = FALSE,
         excused' = (Len(owed["eventsEOL"]) > 0), stop' \in BOOLEAN,
         UNCHANGED <<ring, timeToWait, deviceActive, typist, owed, spoilt, raced>>
  PROVE  IInv'
<1>1. TypeOK'
  <2>1. (Len(owed["eventsEOL"]) > 0) \in BOOLEAN
    OBVIOUS
  <2>2. excused' \in BOOLEAN
    BY <2>1, Zenon
  <2> QED  BY <2>2 DEF IInv, TypeOK
<1>2. ~Adding'
  BY DEF Adding, Typing
<1>3. ~excused' => owed["eventsEOL"] = <<>>
  <2>1. owed["eventsEOL"] \in Seq(Code)
    BY RingNames DEF IInv, TypeOK
  <2>2. Len(owed["eventsEOL"]) \in Nat /\ (Len(owed["eventsEOL"]) = 0 => owed["eventsEOL"] = <<>>)
    BY <2>1, EmptySeq
  <2>3. ~excused' => ~(Len(owed["eventsEOL"]) > 0)
    BY Zenon
  <2>4. Len(owed["eventsEOL"]) > 0 \/ Len(owed["eventsEOL"]) = 0
    BY <2>2
  <2> QED  BY <2>2, <2>3, <2>4, Zenon
<1>4. Joystick'
  BY <1>2, <1>3 DEF IInv, Joystick, Held
<1> QED  BY <1>1, <1>4 DEF IInv, Queues, Pending, Positions, Eaten

LEMMA EmulationStartStep == ASSUME IInv, EmulationStart PROVE IInv'
BY StartKeeps DEF EmulationStart
-----------------------------------------------------------------------------
(* The emulation thread.                                                   *)

(* What taking the oldest entry of a ring does to the rings.               *)
LEMMA Takes ==
  ASSUME IInv, NEW r \in Ring, Take(r), UNCHANGED raced
  PROVE  /\ ring' \in [Ring -> RingRec] /\ owed' \in [Ring -> Seq(Code)]
         /\ UNCHANGED <<keys, switcher, deviceActive, typist, spoilt, raced, excused>>
         /\ Queues' /\ Positions'
         /\ \A q \in Ring \ {r} : owed'[q] = owed[q]
         /\ r \notin spoilt => /\ owed[r] # <<>> /\ owed'[r] = Tail(owed[r])
                               /\ Oldest(r) = owed[r][1]
         /\ Oldest(r) \in Code
<1> DEFINE x == ring[r]
           y == [x EXCEPT !.out = @ + 1]
           o == IF owed[r] = <<>> THEN owed[r] ELSE Tail(owed[r])
<1>1. /\ x.out < x.in
      /\ ring' = [ring EXCEPT ![r] = y] /\ owed' = [owed EXCEPT ![r] = o]
      /\ UNCHANGED <<keys, switcher, deviceActive, typist, spoilt, raced, excused>>
  <2>1. ring' = [ring EXCEPT ![r].out = @ + 1]
    BY DEF Take
  <2> QED  BY <2>1 DEF Take
<1>2. /\ TypeOK /\ ring \in [Ring -> RingRec] /\ owed \in [Ring -> Seq(Code)]
      /\ x \in RingRec /\ owed[r] \in Seq(Code) /\ x.out \in Nat /\ x.in \in Nat
  BY Types DEF IInv
<1>3. y \in RingRec /\ y.in = x.in /\ y.slot = x.slot
  <2>1. x.out + 1 \in Nat
    BY <1>2
  <2> QED  BY <1>2, <2>1 DEF RingRec
<1>4. o \in Seq(Code)
  BY <1>2, Tailed
<1>5. /\ ring' \in [Ring -> RingRec] /\ ring'[r] = y
      /\ owed' \in [Ring -> Seq(Code)] /\ owed'[r] = o
      /\ \A q \in Ring \ {r} : ring'[q] = ring[q] /\ owed'[q] = owed[q]
  <2> HIDE DEF y, o
  <2> QED  BY <1>1, <1>2, <1>3, <1>4
<1>6. ASSUME r \notin spoilt
      PROVE  /\ owed[r] # <<>> /\ o = Tail(owed[r]) /\ Oldest(r) = owed[r][1]
             /\ Fifo(y, o) /\ Len(o) < Len(owed[r])
  <2>1. Fifo(x, owed[r])
    BY <1>6 DEF IInv, Queues
  <2>2. /\ owed[r] # <<>> /\ x.slot[Slot(x.out)] = owed[r][1]
        /\ Fifo([x EXCEPT !.out = @ + 1], Tail(owed[r]))
    <3> HIDE DEF x
    <3> QED  BY <1>1, <1>2, <2>1, FifoTakes
  <2>3. Len(Tail(owed[r])) = Len(owed[r]) - 1 /\ Len(owed[r]) \in Nat
    BY <1>2, <2>2, Tailed
  <2> QED  BY <2>2, <2>3 DEF Oldest
<1>7. Oldest(r) \in Code
  <2>1. x.slot \in [0 .. Length - 1 -> Code] /\ Slot(x.out) \in 0 .. Length - 1
    BY <1>2, SlotType DEF RingRec
  <2> QED  BY <2>1 DEF Oldest
<1> HIDE DEF y, o
<1>8. Queues'
  <2> SUFFICES ASSUME NEW q \in Ring, q \notin spoilt
               PROVE  Fifo(ring'[q], owed'[q]) /\ Pending(q)'
    BY <1>1 DEF Queues
  <2>1. Fifo(ring[q], owed[q]) /\ Pending(q)
    BY DEF IInv, Queues
  <2>2. CASE q = r
    <3>1. Fifo(ring'[q], owed'[q])
      BY <1>5, <1>6, <2>2
    <3>2. /\ ring'[q].in = ring[q].in /\ ring'[q].slot = ring[q].slot
          /\ Len(owed'[q]) < Len(owed[q]) /\ Len(owed[q]) \in Nat /\ Len(owed'[q]) \in Nat
      BY <1>2, <1>3, <1>4, <1>5, <1>6, <2>2
    <3>3. Len(owed[q]) < Length => Len(owed'[q]) < Length
      BY <3>2, Sizes
    <3> QED  BY <1>1, <2>1, <3>1, <3>2, <3>3 DEF Pending
  <2>3. CASE q # r
    BY <1>1, <1>5, <2>1, <2>3 DEF Pending
  <2> QED  BY <2>2, <2>3
<1>9. Positions'
  <2>1. \A q \in Ring : ring'[q].in = ring[q].in
    BY <1>3, <1>5
  <2>2. Eaten' = Eaten
    BY <1>1, <2>1, RingNames DEF Eaten
  <2>3. typist.ring \in Ring
    BY <1>2, Types
  <2> QED  BY <1>1, <2>1, <2>2, <2>3, RingNames DEF IInv, Positions
<1> QED  BY <1>1, <1>5, <1>6, <1>7, <1>8, <1>9

(* Another ring than the one for the joystick.                             *)
LEMMA TakenElsewhere ==
  ASSUME IInv, owed'["eventsEOL"] = owed["eventsEOL"],
         UNCHANGED <<keys, typist, spoilt, excused, port>>
  PROVE  Joystick'
BY DEF IInv, Joystick, Held, Adding

LEMMA QueueHandlerStep == ASSUME IInv, QueueHandler PROVE IInv'
<1>1. CASE timeToWait = 1
  <2>1. Take("scancodes") /\ UNCHANGED <<raced, port, stop>> /\ timeToWait' = Pace
    BY <1>1 DEF QueueHandler, Take
  <2>2. /\ ring' \in [Ring -> RingRec] /\ owed' \in [Ring -> Seq(Code)]
        /\ UNCHANGED <<keys, switcher, deviceActive, typist, spoilt, raced, excused>>
        /\ Queues' /\ Positions' /\ owed'["eventsEOL"] = owed["eventsEOL"]
    BY <2>1, Takes, RingNames
  <2>3. TypeOK'
    BY <2>1, <2>2, Sizes DEF IInv, TypeOK, RingRec
  <2> QED  BY <2>1, <2>2, <2>3, TakenElsewhere DEF IInv
<1>2. CASE timeToWait # 1
  <2>1. /\ timeToWait' = timeToWait - 1
        /\ ring["scancodes"].out < ring["scancodes"].in
        /\ UNCHANGED <<ring, keys, switcher, deviceActive, typist, owed, spoilt, raced, excused,
                       port, stop>>
    BY <1>2 DEF QueueHandler
  <2>2. timeToWait - 1 \in 1 .. Pace
    <3>1. timeToWait \in 1 .. Pace
      BY DEF IInv, TypeOK
    <3> QED  BY <1>2, <3>1, Sizes
  <2>3. TypeOK'
    BY <2>1, <2>2 DEF IInv, TypeOK
  <2> QED  BY <2>1, <2>3
           DEF IInv, Queues, Pending, Positions, Eaten, Joystick, Adding, Held
<1> QED  BY <1>1, <1>2

LEMMA EventEOLHandlerStep == ASSUME IInv, EventEOLHandler PROVE IInv'
<1> DEFINE o == owed["eventsEOL"]
           c == Oldest("eventsEOL")
<1>1. /\ Take("eventsEOL") /\ UNCHANGED <<raced, timeToWait, stop>>
      /\ port' = CASE c = Down(Joy) -> TRUE
                   [] c = Up(Joy)   -> FALSE
                   [] OTHER         -> port
  BY DEF EventEOLHandler, Take
<1>2. /\ ring' \in [Ring -> RingRec] /\ owed' \in [Ring -> Seq(Code)]
      /\ UNCHANGED <<keys, switcher, deviceActive, typist, spoilt, raced, excused>>
      /\ Queues' /\ Positions'
      /\ "eventsEOL" \notin spoilt => o # <<>> /\ owed'["eventsEOL"] = Tail(o) /\ c = o[1]
  BY <1>1, Takes, RingNames
<1>3. port \in BOOLEAN /\ o \in Seq(Code)
  BY Types, RingNames DEF IInv
<1>4. TypeOK'
  <2>1. port' \in BOOLEAN
    BY <1>1, <1>3
  <2> QED  BY <1>1, <1>2, <2>1 DEF IInv, TypeOK, RingRec
<1>5. Joystick'
  <2>1. CASE "eventsEOL" \in spoilt
    BY <1>2, <2>1 DEF IInv, Joystick, Adding
  <2>2. CASE "eventsEOL" \notin spoilt
    <3> DEFINE p == Tail(o)
    <3>1. /\ Len(o) \in Nat /\ 1 <= Len(o) /\ Len(p) = Len(o) - 1 /\ p \in Seq(Code)
          /\ \A i \in 1 .. Len(o) - 1 : p[i] = o[i + 1]
      BY <1>2, <1>3, <2>2, Tailed
    <3>2. \A i \in 1 .. Len(o) : o[i] \in {Down(Joy), Up(Joy)}
      BY <2>2 DEF IInv, Joystick
    <3>3. owed'["eventsEOL"] = p /\ c = o[1]
      BY <1>2, <2>2
    <3> HIDE DEF p, c
    <3>4. \A i \in 1 .. Len(p) : p[i] \in {Down(Joy), Up(Joy)}
      <4> SUFFICES ASSUME NEW i \in 1 .. Len(p)
                   PROVE  p[i] \in {Down(Joy), Up(Joy)}
        OBVIOUS
      <4>1. i \in 1 .. Len(o) - 1 /\ i + 1 \in 1 .. Len(o)
        BY <3>1
      <4> QED  BY <3>1, <3>2, <4>1
    <3>5. Adding' = Adding
      BY <1>2 DEF Adding
    <3>6. ~Adding => Held' = Held
      <4> SUFFICES ASSUME ~Adding
                   PROVE  Held' = Held
        OBVIOUS
      <4>1. Held = (o[Len(o)] = Down(Joy))
        BY <1>2, <2>2 DEF Held
      <4>2. Held' = IF p # <<>> THEN p[Len(p)] = Down(Joy) ELSE port'
        BY <3>3, <3>5 DEF Held
      <4>3. CASE Len(o) = 1
        <5>1. p = <<>>
          <6>1. Len(p) = 0
            BY <3>1, <4>3
          <6> QED  BY <3>1, <6>1, EmptySeq
        <5>2. c = o[Len(o)] /\ c \in {Down(Joy), Up(Joy)}
          BY <3>1, <3>2, <3>3, <4>3
        <5>3. port' = (c = Down(Joy))
          <6>1. Down(Joy) # Up(Joy)
            BY DEF Down, Up
          <6> QED  BY <1>1, <5>2, <6>1
        <5> QED  BY <4>1, <4>2, <5>1, <5>2, <5>3
      <4>4. CASE Len(o) # 1
        <5> DEFINE l == Len(o)
        <5>0. l \in Nat /\ 1 <= l /\ l # 1 /\ Len(p) = l - 1
          BY <3>1, <4>4
        <5> HIDE DEF l
        <5>1. Len(p) \in 1 .. l - 1 /\ Len(p) + 1 = l
          BY <5>0
        <5>2. p[Len(p)] = o[Len(o)]
          BY <3>1, <5>1 DEF l
        <5>3. p # <<>>
          BY <5>0, <5>1
        <5> QED  BY <4>1, <4>2, <5>2, <5>3
      <4> QED  BY <4>3, <4>4
    <3>7. Adding => Held' = Held
      BY <1>2, <3>5 DEF Held
    <3>8. Held' = Held
      BY <3>6, <3>7
    <3> QED  BY <1>2, <3>3, <3>4, <3>5, <3>8 DEF IInv, Joystick
  <2> QED  BY <2>1, <2>2
<1> QED  BY <1>2, <1>4, <1>5 DEF IInv

LEMMA EventEOFHandlerStep == ASSUME IInv, EventEOFHandler PROVE IInv'
<1>1. /\ Take("eventsEOF") /\ UNCHANGED <<raced, timeToWait, port>>
      /\ stop' = (stop \/ Oldest("eventsEOF") = Down("exit"))
  BY DEF EventEOFHandler, Take
<1>2. /\ ring' \in [Ring -> RingRec] /\ owed' \in [Ring -> Seq(Code)]
      /\ UNCHANGED <<keys, switcher, deviceActive, typist, spoilt, raced, excused>>
      /\ Queues' /\ Positions' /\ owed'["eventsEOL"] = owed["eventsEOL"]
  BY <1>1, Takes, RingNames
<1>3. TypeOK'
  <2>1. stop' \in BOOLEAN
    BY <1>1
  <2> QED  BY <1>1, <1>2, <2>1 DEF IInv, TypeOK, RingRec
<1> QED  BY <1>1, <1>2, <1>3, TakenElsewhere DEF IInv

LEMMA ScriptKeyStep == ASSUME IInv, NEW k \in Script, ScriptKey(k) PROVE IInv'
<1> DEFINE n == "scancodes"
           x == ring[n]
           c == Down(k)
           y == [x EXCEPT !.slot[Slot(x.in)] = c]
           z == [y EXCEPT !.in = x.in + 1]
           o == IF n \in spoilt' THEN <<>> ELSE Append(owed[n], c)
<1>1. /\ ring' = [ring EXCEPT ![n] = z]
      /\ spoilt' = spoilt \union {q \in {n} :
                                    \/ Len(owed[q]) = Length
                                    \/ typist.ring = q /\ typist.pc \in Typing \ {"position"}}
      /\ owed' = [owed EXCEPT ![n] = o]
      /\ UNCHANGED <<timeToWait, keys, switcher, deviceActive, typist, port, stop, raced, excused>>
  BY DEF ScriptKey
<1>2. /\ TypeOK /\ ring \in [Ring -> RingRec] /\ owed \in [Ring -> Seq(Code)]
      /\ n \in Ring /\ x \in RingRec /\ owed[n] \in Seq(Code) /\ x.in \in Nat
      /\ spoilt \subseteq Ring
  BY Types, RingNames DEF IInv
<1>3. c \in Code
  BY WindowedAssumption, KeyNames DEF Keys
<1>4. y \in RingRec /\ y.in = x.in /\ y.out = x.out
  <2>1. Slot(x.in) \in 0 .. Length - 1
    BY <1>2, SlotType
  <2> HIDE DEF x, c
  <2> QED  BY <1>2, <1>3, <2>1 DEF RingRec
<1>5. z \in RingRec
  <2> HIDE DEF x, y
  <2>1. x.in + 1 \in Nat
    BY <1>2
  <2> QED  BY <1>4, <2>1 DEF RingRec
<1>6. o \in Seq(Code)
  BY <1>2, <1>3, Appended
<1>7. ASSUME n \notin spoilt'
      PROVE  /\ Fifo(z, o)
             /\ typist.ring = n => typist.pc \notin {"slot", "load", "store"}
  <2>1. n \notin spoilt /\ Len(owed[n]) # Length
        /\ (typist.ring = n => typist.pc \notin {"slot", "load", "store"})
    BY <1>1, <1>7 DEF Typing
  <2>2. Fifo(x, owed[n])
    BY <1>2, <2>1 DEF IInv, Queues
  <2>3. Len(owed[n]) < Length
    BY <1>2, <2>1, <2>2, Sizes DEF Fifo
  <2>4. Fifo(y, owed[n]) /\ y.slot[Slot(x.in)] = c
    <3> HIDE DEF n, x, c
    <3> QED  BY <1>2, <1>3, <2>2, <2>3, FifoWrites
  <2>5. y.slot[Slot(y.in)] = c
    BY <1>4, <2>4
  <2>6. Fifo([y EXCEPT !.in = y.in + 1], Append(owed[n], c))
    <3> HIDE DEF n, x, c, y
    <3> QED  BY <1>2, <1>3, <1>4, <2>3, <2>4, <2>5, FifoAdds
  <2>7. z = [y EXCEPT !.in = y.in + 1] /\ o = Append(owed[n], c)
    BY <1>4, <1>7
  <2> HIDE DEF z, o, y
  <2> QED  BY <2>1, <2>6, <2>7
<1> HIDE DEF z, o, y
<1>8. /\ ring' \in [Ring -> RingRec] /\ ring'[n] = z
      /\ owed' \in [Ring -> Seq(Code)] /\ owed'[n] = o
      /\ \A q \in Ring \ {n} : ring'[q] = ring[q] /\ owed'[q] = owed[q]
  BY <1>1, <1>2, <1>5, <1>6
<1>9. TypeOK'
  <2>1. spoilt' \subseteq Ring
    BY <1>1, <1>2
  <2> QED  BY <1>1, <1>8, <2>1 DEF IInv, TypeOK, RingRec
<1>10. Queues'
  <2> SUFFICES ASSUME NEW q \in Ring, q \notin spoilt'
               PROVE  Fifo(ring'[q], owed'[q]) /\ Pending(q)'
    BY DEF Queues
  <2>1. CASE q = n
    BY <1>1, <1>7, <1>8, <2>1 DEF Pending
  <2>2. CASE q # n
    <3>1. Fifo(ring[q], owed[q]) /\ Pending(q)
      BY <1>1 DEF IInv, Queues
    <3> QED  BY <1>1, <1>8, <2>2, <3>1 DEF Pending
  <2> QED  BY <2>1, <2>2
<1>11. Positions'
  <2>1. /\ ring'["eventsEOL"] = ring["eventsEOL"] /\ ring'["eventsEOF"] = ring["eventsEOF"]
        /\ Eaten' = Eaten
    BY <1>1, <1>8, RingNames DEF Eaten
  <2>2. typist.ring \in Ring
    BY <1>2, Types
  <2> QED  BY <1>1, <1>8, <2>1, <2>2, RingNames DEF IInv, Positions
<1>12. Joystick'
  <2>1. owed'["eventsEOL"] = owed["eventsEOL"]
        /\ ("eventsEOL" \in spoilt' <=> "eventsEOL" \in spoilt)
    BY <1>1, <1>8, RingNames
  <2> QED  BY <1>1, <2>1 DEF IInv, Joystick, Held, Adding
<1> QED  BY <1>9, <1>10, <1>11, <1>12 DEF IInv
LEMMA HardResetStep == ASSUME IInv, HardReset PROVE IInv'
<1> DEFINE n == "scancodes"
           x == ring[n]
           s == [x.slot EXCEPT ![0] = FirstCodes[1], ![1] = FirstCodes[2]]
           z == [in |-> 2, out |-> 0, slot |-> s]
           e == [r \in Ring |-> [ring[r] EXCEPT !.in = 0, !.out = 0]]
<1>1. /\ ring' = [r \in Ring |-> IF r = n THEN z ELSE e[r]]
      /\ owed' = [r \in Ring |-> IF r = n THEN FirstCodes ELSE <<>>]
      /\ spoilt' = {r \in Ring : typist.ring = r /\ typist.pc \in Typing \ {"position"}}
      /\ timeToWait' = Pace /\ port' = FALSE /\ raced' = TRUE /\ excused' = (Joy \in keys)
      /\ UNCHANGED <<keys, switcher, deviceActive, typist, stop>>
  BY RingNames DEF HardReset
<1>2. /\ TypeOK /\ n \in Ring /\ x \in RingRec /\ \A r \in Ring : ring[r] \in RingRec
  BY Types, RingNames DEF IInv
<1>3. FirstCodes \in Seq(Code) /\ Len(FirstCodes) = 2
      /\ FirstCodes[1] \in Code /\ FirstCodes[2] \in Code
  BY KeyNames DEF FirstCodes
<1>4. 0 \in 0 .. Length - 1 /\ 1 \in 0 .. Length - 1 /\ Slot(0) = 0 /\ Slot(1) = 1
  BY Sizes DEF Slot
<1>5. s \in [0 .. Length - 1 -> Code] /\ s[0] = FirstCodes[1] /\ s[1] = FirstCodes[2]
  <2>1. x.slot \in [0 .. Length - 1 -> Code]
    BY <1>2 DEF RingRec
  <2> HIDE DEF x
  <2> QED  BY <1>3, <1>4, <2>1
<1> HIDE DEF s
<1>6. z \in RingRec /\ z.in = 2 /\ z.out = 0 /\ z.slot = s
  BY <1>5 DEF RingRec
<1> HIDE DEF z, x
<1>7. Fifo(z, FirstCodes)
  <2>1. \A i \in 1 .. 2 : FirstCodes[i] = z.slot[Slot(z.out + i - 1)]
    <3> SUFFICES ASSUME NEW i \in 1 .. 2
                 PROVE  FirstCodes[i] = z.slot[Slot(z.out + i - 1)]
      OBVIOUS
    <3>1. CASE i = 1
      <4>1. z.out + i - 1 = 0
        BY <1>6, <3>1
      <4> QED  BY <1>4, <1>5, <1>6, <3>1, <4>1
    <3>2. CASE i = 2
      <4>1. z.out + i - 1 = 1
        BY <1>6, <3>2
      <4> QED  BY <1>4, <1>5, <1>6, <3>2, <4>1
    <3> QED  BY <3>1, <3>2
  <2> QED  BY <1>3, <1>6, <2>1, Sizes DEF Fifo
<1>8. \A r \in Ring : e[r] \in RingRec /\ e[r].in = 0 /\ e[r].out = 0
  BY <1>2 DEF RingRec
<1> HIDE DEF e
<1>9. \A r \in Ring : Fifo(e[r], <<>>)
  BY <1>8, Sizes DEF Fifo
<1>10. /\ ring'[n] = z /\ owed'[n] = FirstCodes
       /\ \A r \in Ring \ {n} : ring'[r] = e[r] /\ owed'[r] = <<>>
  BY <1>1, <1>2
<1>11. TypeOK'
  <2>1. ring' \in [Ring -> RingRec] /\ owed' \in [Ring -> Seq(Code)]
    BY <1>1, <1>3, <1>6, <1>8
  <2>2. timeToWait' \in 1 .. Pace /\ spoilt' \subseteq Ring
    BY <1>1, Sizes
  <2>3. port' \in BOOLEAN /\ raced' \in BOOLEAN /\ excused' \in BOOLEAN
    <3>1. FALSE \in BOOLEAN /\ TRUE \in BOOLEAN /\ (Joy \in keys) \in BOOLEAN
      OBVIOUS
    <3> QED  BY <1>1, <3>1, Zenon
  <2> QED  BY <1>1, <1>2, <2>1, <2>2, <2>3 DEF TypeOK, RingRec
<1>12. Queues'
  <2> SUFFICES ASSUME NEW q \in Ring, q \notin spoilt'
               PROVE  Fifo(ring'[q], owed'[q]) /\ Pending(q)'
    BY DEF Queues
  <2>1. Fifo(ring'[q], owed'[q])
    BY <1>7, <1>9, <1>10
  <2>2. typist.ring = q => typist.pc \notin {"slot", "load", "store"}
    BY <1>1 DEF Typing
  <2>3. Pending(q)'
    BY <1>1, <2>2 DEF Pending
  <2> QED  BY <2>1, <2>3
<1>13. Positions'
  BY <1>1 DEF Positions
<1>14. Joystick'
  <2>1. owed'["eventsEOL"] = <<>>
    BY <1>10, RingNames
  <2>2. Adding' = Adding /\ Held' = IF Adding THEN ~typist.code[2] ELSE FALSE
    BY <1>1, <2>1 DEF Adding, Held
  <2>3. ~excused' => (Joy \in keys <=> Held')
    BY <1>1, <2>2 DEF IInv, Joystick
  <2>4. \A i \in 1 .. Len(owed'["eventsEOL"]) :
          owed'["eventsEOL"][i] \in {Down(Joy), Up(Joy)}
    BY <2>1
  <2> QED  BY <1>1, <2>2, <2>3, <2>4 DEF IInv, Joystick
<1> QED  BY <1>11, <1>12, <1>13, <1>14 DEF IInv
-----------------------------------------------------------------------------
LEMMA NextIInv == IInv /\ [Next]_vars => IInv'
<1> SUFFICES ASSUME IInv, [Next]_vars
             PROVE  IInv'
  OBVIOUS
<1>1. ASSUME NEW k \in Keys, NEW up \in BOOLEAN, Keypress(k, up)
      PROVE  IInv'
  BY <1>1, KeypressStep
<1>2. CASE Typist
  BY <1>2, TypistStep
<1>3. ASSUME NEW active \in BOOLEAN, StateHasChanged(active)
      PROVE  IInv'
  BY <1>3, StateHasChangedStep
<1>4. CASE EmulationStart
  BY <1>4, EmulationStartStep
<1>5. CASE Lines
  BY <1>5, QueueHandlerStep, EventEOLHandlerStep, EventEOFHandlerStep DEF Lines
<1>6. ASSUME NEW k \in Script, ScriptKey(k)
      PROVE  IInv'
  BY <1>6, ScriptKeyStep
<1>7. CASE HardReset
  BY <1>7, HardResetStep
<1>8. CASE UNCHANGED vars
  BY <1>8 DEF IInv, TypeOK, Queues, Pending, Positions, Eaten, Joystick, Adding, Held,
              vars, history
<1> QED  BY <1>1, <1>2, <1>3, <1>4, <1>5, <1>6, <1>7, <1>8 DEF Next

LEMMA Invariance == Spec => []IInv
<1>1. Init => IInv
  BY InitIInv
<1>2. IInv /\ [Next]_vars => IInv'
  BY NextIInv
<1> QED  BY <1>1, <1>2, PTL DEF Spec

(* What the invariant says of the rings, of keys that are eaten and of the *)
(* joystick.                                                               *)
LEMMA InvIsRight == IInv => QueueIsFifo /\ EatenIffEvent /\ JoystickFollowsKey
<1> SUFFICES ASSUME IInv
             PROVE  QueueIsFifo /\ EatenIffEvent /\ JoystickFollowsKey
  OBVIOUS
<1>1. QueueIsFifo
  <2> SUFFICES ASSUME NEW r \in Ring \ spoilt
               PROVE  Waiting(r) = owed[r]
    BY DEF QueueIsFifo
  <2>1. TypeOK /\ Fifo(ring[r], owed[r])
    BY DEF IInv, Queues
  <2> QED  BY <2>1, FifoIsWaiting
<1>2. EatenIffEvent
  BY DEF IInv, Positions, EatenIffEvent
<1>3. JoystickFollowsKey
  <2> SUFFICES ASSUME typist.pc = "idle",
                      ring["eventsEOL"].in = ring["eventsEOL"].out,
                      ~excused, "eventsEOL" \notin spoilt
               PROVE  port <=> Joy \in keys
    BY DEF JoystickFollowsKey
  <2> DEFINE o == owed["eventsEOL"]
  <2>1. o \in Seq(Code) /\ ring["eventsEOL"].out \in Nat
    BY Types, RingNames DEF IInv
  <2>2. ring["eventsEOL"].out + Len(o) = ring["eventsEOL"].in
    BY RingNames DEF IInv, Queues, Fifo
  <2>3. Len(o) = 0
    <3>1. \A a, l \in Nat : a + l = a => l = 0
      OBVIOUS
    <3> QED  BY <2>1, <2>2, <3>1
  <2>4. o = <<>>
    BY <2>1, <2>3, EmptySeq
  <2>5. ~Adding
    BY DEF Adding, Typing
  <2>6. Held = port
    BY <2>4, <2>5 DEF Held
  <2> QED  BY <2>6 DEF IInv, Joystick
<1> QED  BY <1>1, <1>2, <1>3

(* The rings, the keys and the place of the window's thread in             *)
(* kbdDrvKeypress keep their types whatever the two threads do.            *)
THEOREM TypeCorrect == Spec => []TypeOK
<1>1. IInv => TypeOK
  BY DEF IInv
<1> QED  BY <1>1, Invariance, PTL

(* What the emulation thread finds between the indices of a ring is what   *)
(* kbdKeyAdd, kbdEventEOLAdd and kbdEventEOFAdd put there, in order, for a *)
(* buffer of any length, unless an addition was lost or overtaken.         *)
THEOREM QueuesAreFifo == Spec => []QueueIsFifo
BY InvIsRight, Invariance, PTL

(* kbdDrvEventChecker tells by the indices it compares whether the key has *)
(* made an event, however far the other thread has emptied the rings.      *)
THEOREM EatenKeysMadeEvents == Spec => []EatenIffEvent
BY InvIsRight, Invariance, PTL

(* Once the events of the end of a line are all taken, the direction of    *)
(* the joystick is on just when its key is down.                           *)
THEOREM JoystickIsRight == Spec => []JoystickFollowsKey
BY InvIsRight, Invariance, PTL
=============================================================================
