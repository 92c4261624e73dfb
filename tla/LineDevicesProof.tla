-------------------------- MODULE LineDevicesProof --------------------------
(***************************************************************************)
(* Proofs about the devices that the end of a line drives, module          *)
(* LineDevices: the event counters of the CIAs, the transmitter of the     *)
(* serial port, an audio channel and the disk's DMA, for every size of a   *)
(* byte, line, frame and block.                                            *)
(***************************************************************************)
EXTENDS LineDevices, SequenceTheorems, WellFoundedInduction, TLAPS

-----------------------------------------------------------------------------
(* The event counter.                                                      *)

LEMMA ByteIs == Byte \in Nat /\ 2 <= Byte
BY CounterAssumption

LEMMA DivMod ==
  ASSUME NEW b \in Nat, 1 <= b, NEW t \in Nat
  PROVE  /\ t \div b \in Nat /\ t % b \in 0 .. b - 1
         /\ t = (t \div b) * b + (t % b)
<1> DEFINE q == t \div b
<1>1. q \in Nat /\ q * b <= t /\ t < q * b + b
  <2>1. q \in Int /\ q * b <= t /\ t < q * b + b
    OBVIOUS
  <2> HIDE DEF q
  <2>2. q < 0 => q * b <= -b
    BY <2>1
  <2> QED  BY <2>1, <2>2
<1> HIDE DEF q
<1>2. t - q * b \in 0 .. b - 1 /\ q * b \in Int
  BY <1>1
<1>3. \A k \in 0 .. b - 1 : (q * b + k) % b = k
  BY <1>1
<1>4. (q * b + (t - q * b)) % b = t - q * b
  BY <1>2, <1>3
<1>5. q * b + (t - q * b) = t
  BY <1>2
<1>6. t % b = t - q * b
  BY <1>4, <1>5
<1>7. t = q * b + (t % b)
  BY <1>5, <1>6
<1> QED  BY <1>1, <1>2, <1>6, <1>7 DEF q

LEMMA DivModUnique ==
  ASSUME NEW b \in Nat, 1 <= b, NEW q \in Nat, NEW r \in 0 .. b - 1
  PROVE  (q * b + r) \div b = q /\ (q * b + r) % b = r
OBVIOUS

LEMMA PlacesOf ==
  ASSUME NEW h \in 0 .. Byte - 1, NEW m \in 0 .. Byte - 1, NEW l \in 0 .. Byte - 1
  PROVE  LET t == (h * Byte + m) * Byte + l
         IN  /\ t \in Counter!Time
             /\ Counter!Get(t, "hi") = h /\ Counter!Get(t, "mi") = m /\ Counter!Get(t, "lo") = l
             /\ t = h * (Byte * Byte) + m * Byte + l
<1> DEFINE n == h * Byte + m
           t == n * Byte + l
<1>1. n \in Nat /\ t \in Nat /\ Byte * Byte \in Nat /\ 1 <= Byte
  BY ByteIs
<1>2. n \div Byte = h /\ n % Byte = m
  BY <1>1, ByteIs, DivModUnique
<1>3. t \div Byte = n /\ t % Byte = l
  <2> HIDE DEF n
  <2> QED  BY <1>1, ByteIs, DivModUnique
<1>4. t = h * (Byte * Byte) + (m * Byte + l)
  <2>1. (h * Byte + m) * Byte = h * (Byte * Byte) + m * Byte
    BY ByteIs
  <2> QED  BY <2>1, ByteIs
<1>5. t \div (Byte * Byte) = h
  <2>1. m * Byte + l \in 0 .. Byte * Byte - 1
    <3>1. m * Byte <= (Byte - 1) * Byte
      BY ByteIs
    <3>2. (Byte - 1) * Byte = Byte * Byte - Byte
      BY ByteIs
    <3> QED  BY <3>1, <3>2, ByteIs
  <2> DEFINE w == Byte * Byte
             k == m * Byte + l
  <2>2. w \in Nat /\ 1 <= w /\ k \in 0 .. w - 1
    <3>1. Byte <= w
      BY ByteIs
    <3> QED  BY <1>1, <2>1, <3>1, ByteIs
  <2> HIDE DEF w, k
  <2>3. (h * w + k) \div w = h
    BY <2>2, DivModUnique
  <2> QED  BY <1>4, <2>3 DEF w, k
<1>6. t < Byte * Byte * Byte
  <2>1. n <= Byte * Byte - 1
    <3>1. h * Byte <= (Byte - 1) * Byte
      BY ByteIs
    <3>2. (Byte - 1) * Byte = Byte * Byte - Byte
      BY ByteIs
    <3> QED  BY <3>1, <3>2, ByteIs
  <2> DEFINE w == Byte * Byte
  <2>2. w \in Nat /\ n <= w - 1
    BY <1>1, <2>1
  <2> HIDE DEF n, w
  <2>3. n * Byte <= (w - 1) * Byte
    BY <1>1, <2>2, ByteIs
  <2>4. (w - 1) * Byte = w * Byte - Byte
    BY <2>2, ByteIs
  <2>5. n * Byte + l < w * Byte
    BY <1>1, <2>2, <2>3, <2>4, ByteIs
  <2> QED  BY <2>5 DEF w
<1>7. h % Byte = h
  <2>1. (0 * Byte + h) % Byte = h
    BY <1>1, ByteIs, DivModUnique
  <2> QED  BY <2>1, ByteIs
<1>8. t \div 1 = t
  BY <1>1
<1> HIDE DEF n, t
<1>9. t \in Counter!Time
  <2> DEFINE w == Byte * Byte * Byte
  <2>1. w \in Nat /\ t < w
    BY <1>1, <1>6, ByteIs
  <2> HIDE DEF w
  <2>2. t \in 0 .. w - 1
    BY <1>1, <2>1
  <2> QED  BY <2>2 DEF w, Counter!Time, Counter!Wrap
<1>10. Counter!Get(t, "hi") = h /\ Counter!Get(t, "mi") = m /\ Counter!Get(t, "lo") = l
  BY <1>2, <1>3, <1>5, <1>7, <1>8 DEF Counter!Get, Counter!Weight
<1>11. h * (Byte * Byte) + (m * Byte + l) = h * (Byte * Byte) + m * Byte + l
  BY <1>1, ByteIs
<1> QED  BY <1>4, <1>9, <1>10, <1>11 DEF n, t

(* Every time is made of three bytes,                                      *)
LEMMA HasPlaces ==
  ASSUME NEW t \in Counter!Time
  PROVE  \E h, m, l \in 0 .. Byte - 1 : t = (h * Byte + m) * Byte + l
<1> DEFINE w == Byte * Byte * Byte
           n == t \div Byte
<1>1. w \in Nat /\ t \in Nat /\ t < w
  <2>1. w \in Nat
    BY ByteIs
  <2> HIDE DEF w
  <2>2. t \in 0 .. w - 1
    BY DEF Counter!Time, Counter!Wrap, w
  <2> QED  BY <2>1, <2>2
<1>0. Byte \in Nat /\ 1 <= Byte
  BY ByteIs
<1>2. n \in Nat /\ t % Byte \in 0 .. Byte - 1 /\ t = n * Byte + (t % Byte)
  <2> HIDE DEF w
  <2> QED  BY <1>0, <1>1, DivMod
<1> HIDE DEF n
<1>3. n \div Byte \in Nat /\ n % Byte \in 0 .. Byte - 1
      /\ n = (n \div Byte) * Byte + (n % Byte)
  BY <1>0, <1>2, DivMod
<1>4. n \div Byte \in 0 .. Byte - 1
  <2> DEFINE h == n \div Byte
  <2> SUFFICES ASSUME Byte <= h
               PROVE  FALSE
    BY <1>3, ByteIs
  <2>1. h \in Nat /\ h * Byte <= n
    BY <1>3, ByteIs
  <2> HIDE DEF h
  <2>2. Byte * Byte <= h * Byte
    BY <2>1, ByteIs
  <2>3. Byte * Byte <= n
    BY <1>2, <2>1, <2>2, ByteIs
  <2>4. Byte * Byte * Byte <= n * Byte
    BY <1>2, <2>3, ByteIs
  <2> QED  BY <1>1, <1>2, <2>4, ByteIs DEF w
<1> QED  BY <1>2, <1>3, <1>4

(* of which Put replaces one and keeps the others,                         *)
LEMMA PutPlaces ==
  ASSUME NEW t \in Counter!Time, NEW p \in Counter!Part, NEW b \in 0 .. Byte - 1
  PROVE  LET u == Counter!Put(t, p, b)
         IN  /\ u \in Counter!Time /\ Counter!Get(u, p) = b
             /\ \A q \in Counter!Part \ {p} : Counter!Get(u, q) = Counter!Get(t, q)
<1>1. PICK h, m, l \in 0 .. Byte - 1 : t = (h * Byte + m) * Byte + l
  BY HasPlaces
<1>2. /\ Counter!Get(t, "hi") = h /\ Counter!Get(t, "mi") = m /\ Counter!Get(t, "lo") = l
      /\ t = h * (Byte * Byte) + m * Byte + l
  BY <1>1, PlacesOf
<1> DEFINE w == Byte * Byte
<1>3. w \in Nat
  BY ByteIs
<1>4. Counter!Put(t, p, b) = t + (b - Counter!Get(t, p)) * Counter!Weight[p]
  BY DEF Counter!Put
<1>5. CASE p = "hi"
  <2>1. Counter!Put(t, p, b) = t + (b - h) * w
    BY <1>2, <1>4, <1>5 DEF Counter!Weight
  <2>2. (b - h) * w = b * w - h * w
    BY <1>3
  <2>3. (b * Byte + m) * Byte + l = b * w + m * Byte + l
    BY PlacesOf
  <2> HIDE DEF w
  <2>4. Counter!Put(t, p, b) = (b * Byte + m) * Byte + l
    BY <1>2, <1>3, <2>1, <2>2, <2>3, ByteIs DEF w
  <2> QED  BY <1>2, <1>5, <2>4, PlacesOf DEF Counter!Part
<1>6. CASE p = "mi"
  <2>1. Counter!Put(t, p, b) = t + (b - m) * Byte
    BY <1>2, <1>4, <1>6 DEF Counter!Weight
  <2>2. (b - m) * Byte = b * Byte - m * Byte
    BY ByteIs
  <2>3. (h * Byte + b) * Byte + l = h * w + b * Byte + l
    BY PlacesOf
  <2>4. Counter!Put(t, p, b) = (h * Byte + b) * Byte + l
    BY <1>2, <1>3, <2>1, <2>2, <2>3, ByteIs
  <2> QED  BY <1>2, <1>6, <2>4, PlacesOf DEF Counter!Part
<1>7. CASE p = "lo"
  <2>1. Counter!Put(t, p, b) = t + (b - l) * 1
    BY <1>2, <1>4, <1>7 DEF Counter!Weight
  <2>2. Counter!Put(t, p, b) = (h * Byte + m) * Byte + b
    BY <1>1, <2>1, ByteIs
  <2> QED  BY <1>2, <1>7, <2>2, PlacesOf DEF Counter!Part
<1> QED  BY <1>5, <1>6, <1>7 DEF Counter!Part

(* and which determine it.                                                 *)
LEMMA PlacesDetermine ==
  ASSUME NEW t \in Counter!Time, NEW u \in Counter!Time,
         \A p \in Counter!Part : Counter!Get(t, p) = Counter!Get(u, p)
  PROVE  t = u
<1>1. PICK h, m, l \in 0 .. Byte - 1 : t = (h * Byte + m) * Byte + l
  BY HasPlaces
<1>2. PICK i, n, k \in 0 .. Byte - 1 : u = (i * Byte + n) * Byte + k
  BY HasPlaces
<1>3. h = i /\ m = n /\ l = k
  <2>1. Counter!Get(t, "hi") = h /\ Counter!Get(t, "mi") = m /\ Counter!Get(t, "lo") = l
    BY <1>1, PlacesOf
  <2>2. Counter!Get(u, "hi") = i /\ Counter!Get(u, "mi") = n /\ Counter!Get(u, "lo") = k
    BY <1>2, PlacesOf
  <2> QED  BY <2>1, <2>2 DEF Counter!Part
<1> QED  BY <1>1, <1>2, <1>3

TodRec == [ev : Counter!Time, latch : Counter!Time, latching : BOOLEAN, alarm : Counter!Time,
           writeLatch : Counter!Time, stopped : BOOLEAN]

(* A program that has read the high part and not yet the low one reads     *)
(* from the latch; what it has set of the time is in the write latch.      *)
CounterInv ==
  /\ tod \in TodRec /\ Counter!TypeOK
  /\ "hi" \in read.parts /\ "lo" \notin read.parts => tod.latching /\ tod.latch = read.at
  /\ set.parts \subseteq {"hi", "mi"}
  /\ \A p \in set.parts : Counter!Get(set.time, p) = Counter!Get(tod.writeLatch, p)
  /\ CounterIsRight

LEMMA ZeroIsTime == 0 \in Counter!Time
<1>1. 0 \in 0 .. Byte - 1 /\ (0 * Byte + 0) * Byte + 0 = 0
  BY ByteIs
<1> QED  BY <1>1, PlacesOf

LEMMA CounterTypes ==
  ASSUME CounterInv
  PROVE  /\ tod \in TodRec /\ alarmMode \in BOOLEAN
         /\ read \in [parts : SUBSET Counter!Part, whole : BOOLEAN, at : Counter!Time]
         /\ set \in [parts : SUBSET Counter!Part, time : Counter!Time]
         /\ tod.ev \in Counter!Time /\ tod.latch \in Counter!Time /\ tod.writeLatch \in Counter!Time
         /\ tod.alarm \in Counter!Time /\ set.time \in Counter!Time
         /\ read.whole \in BOOLEAN /\ clock \in Counter!Time
         /\ known \in BOOLEAN /\ alarmed \in BOOLEAN
BY DEF CounterInv, Counter!TypeOK, TodRec

LEMMA CounterInit == Counter!Init => CounterInv
<1> SUFFICES ASSUME Counter!Init
             PROVE  CounterInv
  OBVIOUS
<1>1. /\ tod = [ev |-> 0, latch |-> 0, latching |-> FALSE, alarm |-> 0,
                writeLatch |-> 0, stopped |-> FALSE] /\ alarmMode = FALSE
      /\ read = [parts |-> {}, whole |-> TRUE, at |-> 0] /\ set = [parts |-> {}, time |-> 0]
      /\ clock = 0 /\ known = TRUE /\ alarmed = TRUE
  BY DEF Counter!Init, Counter!Cleared
<1>2. tod \in TodRec
  BY <1>1, ZeroIsTime DEF TodRec
<1>3. Counter!TypeOK
  BY <1>1, <1>2, ZeroIsTime DEF Counter!TypeOK, TodRec
<1> QED  BY <1>1, <1>2, <1>3
         DEF CounterInv, CounterIsRight, Counter!CounterIsRight, Counter!TimeIsWhole,
             Counter!AlarmIsNotMissed

LEMMA CountStep == ASSUME CounterInv, Counter!Count PROVE CounterInv'
<1> DEFINE next == (tod.ev + 1) % Counter!Wrap
<1>1. /\ tod' = [tod EXCEPT !.ev = next] /\ ~tod.stopped
      /\ alarmed' = (tod'.ev = tod'.alarm \/ (alarmed /\ tod'.ev = tod.ev /\ tod'.alarm = tod.alarm))
      /\ clock' = (clock + 1) % Counter!Wrap
      /\ UNCHANGED <<alarmMode, read, set, known>>
  BY DEF Counter!Count, Counter!CheckAlarm
<1>2. \A t \in Counter!Time : (t + 1) % Counter!Wrap \in Counter!Time
  <2>1. Counter!Wrap \in Nat /\ 1 <= Counter!Wrap
    <3>1. 1 <= Byte * Byte /\ Byte * Byte \in Nat
      BY ByteIs
    <3>2. \A w \in Nat : 1 <= w => w * Byte \in Nat /\ 1 <= w * Byte
      BY ByteIs
    <3> QED  BY <3>1, <3>2 DEF Counter!Wrap
  <2> SUFFICES ASSUME NEW t \in Counter!Time
               PROVE  (t + 1) % Counter!Wrap \in Counter!Time
    OBVIOUS
  <2>2. t + 1 \in Nat
    BY <2>1 DEF Counter!Time
  <2> QED  BY <2>1, <2>2, DivMod DEF Counter!Time
<1> HIDE DEF next
<1>3. tod' \in TodRec /\ tod'.ev = next /\ tod'.latching = tod.latching /\ tod'.latch = tod.latch
      /\ tod'.writeLatch = tod.writeLatch
  BY <1>1, <1>2, CounterTypes DEF TodRec, next
<1>4. clock' \in Counter!Time /\ alarmed' \in BOOLEAN
  BY <1>1, <1>2, CounterTypes
<1>5. Counter!TypeOK'
  BY <1>1, <1>3, <1>4, CounterTypes DEF Counter!TypeOK, TodRec
<1>6. CounterIsRight'
  <2>1. known => tod'.ev = clock'
    BY <1>1, <1>3
    DEF next, CounterInv, CounterIsRight, Counter!CounterIsRight, Counter!TimeIsWhole
  <2> QED  BY <1>1, <2>1 DEF CounterInv, CounterIsRight, Counter!CounterIsRight, Counter!TimeIsWhole,
                       Counter!AlarmIsNotMissed
<1> QED  BY <1>1, <1>3, <1>5, <1>6 DEF CounterInv

LEMMA ReaderStep == ASSUME CounterInv, Counter!Reader PROVE CounterInv'
<1>1. /\ UNCHANGED <<alarmMode, set, clock, known, alarmed>>
      /\ \/ tod' = [tod EXCEPT !.latching = TRUE, !.latch = tod.ev]
         \/ tod' = tod
         \/ tod' = [tod EXCEPT !.latching = FALSE]
  BY DEF Counter!Reader, Counter!ReadEvHi, Counter!ReadEvMi, Counter!ReadEvLo
<1>2. tod' \in TodRec /\ tod'.ev = tod.ev /\ tod'.alarm = tod.alarm
      /\ tod'.writeLatch = tod.writeLatch
  BY <1>1, CounterTypes DEF TodRec
<1>3. /\ read' \in [parts : SUBSET Counter!Part, whole : BOOLEAN, at : Counter!Time]
      /\ read'.whole
      /\ "hi" \in read'.parts /\ "lo" \notin read'.parts => tod'.latching /\ tod'.latch = read'.at
  <2>1. read.whole
    BY DEF CounterInv, CounterIsRight, Counter!CounterIsRight, Counter!TimeIsWhole
  <2>2. CASE Counter!ReadEvHi
    <3>1. read' = [parts |-> {"hi"}, whole |-> TRUE, at |-> tod.ev]
          /\ tod' = [tod EXCEPT !.latching = TRUE, !.latch = tod.ev]
      BY <2>2 DEF Counter!ReadEvHi, Counter!Seen
    <3> QED  BY <3>1, CounterTypes DEF TodRec, Counter!Part
  <2>3. ASSUME NEW p \in {"mi", "lo"}, read' = Counter!Seen(p, Counter!Get(Counter!Latched, p))
        PROVE  /\ read' \in [parts : SUBSET Counter!Part, whole : BOOLEAN, at : Counter!Time]
               /\ read'.whole /\ read'.at = read.at
               /\ "hi" \in read'.parts /\ "lo" \notin read'.parts =>
                    p = "mi" /\ "hi" \in read.parts /\ "lo" \notin read.parts
    <3>1. CASE "hi" \notin read.parts \/ "lo" \in read.parts
      <4>1. read' = [read EXCEPT !.parts = {}]
        BY <2>3, <3>1 DEF Counter!Seen
      <4> QED  BY <2>1, <4>1, CounterTypes
    <3>2. CASE ~("hi" \notin read.parts \/ "lo" \in read.parts)
      <4>1. tod.latching /\ tod.latch = read.at
        BY <3>2 DEF CounterInv
      <4>2. Counter!Latched = read.at
        BY <4>1 DEF Counter!Latched
      <4>3. read' = [read EXCEPT !.parts = @ \union {p}, !.whole = @ /\ TRUE]
        BY <2>3, <3>2, <4>2 DEF Counter!Seen
      <4> QED  BY <2>1, <3>2, <4>3, CounterTypes DEF Counter!Part
    <3> QED  BY <3>1, <3>2
  <2>4. CASE Counter!ReadEvMi
    <3>1. read' = Counter!Seen("mi", Counter!Get(Counter!Latched, "mi")) /\ tod' = tod
      BY <2>4 DEF Counter!ReadEvMi
    <3> QED  BY <2>3, <3>1 DEF CounterInv
  <2>5. CASE Counter!ReadEvLo
    <3>1. read' = Counter!Seen("lo", Counter!Get(Counter!Latched, "lo"))
      BY <2>5 DEF Counter!ReadEvLo
    <3> QED  BY <2>3, <3>1
  <2> QED  BY <2>2, <2>4, <2>5 DEF Counter!Reader
<1>4. Counter!TypeOK'
  BY <1>1, <1>2, <1>3, CounterTypes DEF Counter!TypeOK, TodRec
<1>5. CounterIsRight'
  BY <1>1, <1>2, <1>3 DEF CounterInv, CounterIsRight, Counter!CounterIsRight,
                          Counter!TimeIsWhole, Counter!AlarmIsNotMissed
<1> QED  BY <1>1, <1>2, <1>3, <1>4, <1>5 DEF CounterInv

LEMMA SetterStep == ASSUME CounterInv, Counter!Setter PROVE CounterInv'
<1>1. ASSUME NEW b \in 0 .. Byte - 1, NEW p \in Counter!Part, Counter!WriteAlarm(p, b)
      PROVE  CounterInv'
  <2>1. /\ tod' = [tod EXCEPT !.alarm = Counter!Put(tod.alarm, p, b)]
        /\ alarmed' = (tod'.ev = tod'.alarm \/ (alarmed /\ tod'.ev = tod.ev /\ tod'.alarm = tod.alarm))
        /\ UNCHANGED <<alarmMode, read, set, clock, known>>
    BY <1>1 DEF Counter!WriteAlarm, Counter!CheckAlarm
  <2>2. Counter!Put(tod.alarm, p, b) \in Counter!Time
    BY CounterTypes, PutPlaces
  <2>3. tod' \in TodRec /\ tod'.ev = tod.ev /\ tod'.latching = tod.latching
        /\ tod'.latch = tod.latch /\ tod'.writeLatch = tod.writeLatch
    BY <2>1, <2>2, CounterTypes DEF TodRec
  <2>4. Counter!TypeOK'
    BY <2>1, <2>3, CounterTypes DEF Counter!TypeOK, TodRec
  <2> QED  BY <2>1, <2>3, <2>4
           DEF CounterInv, CounterIsRight, Counter!CounterIsRight, Counter!TimeIsWhole,
               Counter!AlarmIsNotMissed
<1>2. ASSUME NEW b \in 0 .. Byte - 1, NEW p \in Counter!Part, Counter!WriteHigher(p, b)
      PROVE  CounterInv'
  <2> DEFINE w == Counter!Put(tod.writeLatch, p, b)
             t == Counter!Put(set.time, p, b)
  <2>1. /\ tod' = [tod EXCEPT !.stopped = TRUE, !.writeLatch = w] /\ p \in {"hi", "mi"}
        /\ set' = [parts |-> IF p = "hi" THEN {"hi"} ELSE set.parts \union {"mi"}, time |-> t]
        /\ alarmed' = (alarmed /\ tod'.ev = tod.ev /\ tod'.alarm = tod.alarm)
        /\ UNCHANGED <<alarmMode, read, clock, known>>
    BY <1>2 DEF Counter!WriteHigher, Counter!NoAlarm
  <2>2. /\ w \in Counter!Time /\ Counter!Get(w, p) = b
        /\ \A q \in Counter!Part \ {p} : Counter!Get(w, q) = Counter!Get(tod.writeLatch, q)
    BY CounterTypes, PutPlaces
  <2>3. /\ t \in Counter!Time /\ Counter!Get(t, p) = b
        /\ \A q \in Counter!Part \ {p} : Counter!Get(t, q) = Counter!Get(set.time, q)
    BY CounterTypes, PutPlaces
  <2> HIDE DEF w, t
  <2>4. tod' \in TodRec /\ tod'.ev = tod.ev /\ tod'.alarm = tod.alarm
        /\ tod'.latching = tod.latching /\ tod'.latch = tod.latch /\ tod'.writeLatch = w
    BY <2>1, <2>2, CounterTypes DEF TodRec
  <2>5. set'.parts \subseteq {"hi", "mi"} /\ set'.time = t
        /\ set' \in [parts : SUBSET Counter!Part, time : Counter!Time]
    BY <2>1, <2>3 DEF CounterInv, Counter!Part
  <2>6. ASSUME NEW q \in set'.parts
        PROVE  Counter!Get(t, q) = Counter!Get(w, q)
    <3>1. CASE q = p
      BY <2>2, <2>3, <3>1
    <3>2. CASE q # p
      <4>1. q \in set.parts /\ q \in Counter!Part
        BY <2>1, <2>5, <3>2 DEF Counter!Part
      <4> QED  BY <2>2, <2>3, <3>2, <4>1 DEF CounterInv
    <3> QED  BY <3>1, <3>2
  <2>7. Counter!TypeOK'
    BY <2>1, <2>4, <2>5, CounterTypes DEF Counter!TypeOK, TodRec
  <2>8. CounterIsRight'
    BY <2>1, <2>4 DEF CounterInv, CounterIsRight, Counter!CounterIsRight, Counter!TimeIsWhole,
                      Counter!AlarmIsNotMissed
  <2> QED  BY <2>1, <2>4, <2>5, <2>6, <2>7, <2>8 DEF CounterInv
<1>3. ASSUME NEW b \in 0 .. Byte - 1, Counter!WriteEvLo(b)
      PROVE  CounterInv'
  <2> DEFINE w == Counter!Put(tod.writeLatch, "lo", b)
             t == Counter!Put(set.time, "lo", b)
  <2>1. /\ tod' = [tod EXCEPT !.stopped = FALSE, !.writeLatch = w, !.ev = w]
        /\ clock' = t /\ known' = (set.parts = {"hi", "mi"})
        /\ set' = [parts |-> {}, time |-> t]
        /\ alarmed' = (tod'.ev = tod'.alarm \/ (alarmed /\ tod'.ev = tod.ev /\ tod'.alarm = tod.alarm))
        /\ UNCHANGED <<alarmMode, read>>
    BY <1>3 DEF Counter!WriteEvLo, Counter!CheckAlarm
  <2>2. /\ w \in Counter!Time /\ Counter!Get(w, "lo") = b
        /\ \A q \in Counter!Part \ {"lo"} : Counter!Get(w, q) = Counter!Get(tod.writeLatch, q)
    BY CounterTypes, PutPlaces DEF Counter!Part
  <2>3. /\ t \in Counter!Time /\ Counter!Get(t, "lo") = b
        /\ \A q \in Counter!Part \ {"lo"} : Counter!Get(t, q) = Counter!Get(set.time, q)
    BY CounterTypes, PutPlaces DEF Counter!Part
  <2> HIDE DEF w, t
  <2>4. set.parts = {"hi", "mi"} => w = t
    <3> SUFFICES ASSUME set.parts = {"hi", "mi"}
                 PROVE  w = t
      OBVIOUS
    <3>1. ASSUME NEW q \in Counter!Part
          PROVE  Counter!Get(w, q) = Counter!Get(t, q)
      <4>1. CASE q = "lo"
        BY <2>2, <2>3, <4>1
      <4>2. CASE q # "lo"
        <5>1. q \in set.parts
          BY <4>2 DEF Counter!Part
        <5> QED  BY <2>2, <2>3, <4>2, <5>1 DEF CounterInv
      <4> QED  BY <4>1, <4>2
    <3> QED  BY <2>2, <2>3, <3>1, PlacesDetermine
  <2>5. tod' \in TodRec /\ tod'.ev = w /\ tod'.alarm = tod.alarm
        /\ tod'.latching = tod.latching /\ tod'.latch = tod.latch
    BY <2>1, <2>2, CounterTypes DEF TodRec
  <2>6. set' \in [parts : SUBSET Counter!Part, time : Counter!Time] /\ set'.parts = {}
    BY <2>1, <2>3
  <2>7. Counter!TypeOK'
    BY <2>1, <2>3, <2>5, <2>6, CounterTypes DEF Counter!TypeOK, TodRec
  <2>8. CounterIsRight'
    BY <2>1, <2>4, <2>5 DEF CounterInv, CounterIsRight, Counter!CounterIsRight,
                            Counter!TimeIsWhole, Counter!AlarmIsNotMissed
  <2> QED  BY <2>1, <2>5, <2>6, <2>7, <2>8 DEF CounterInv
<1> QED  BY <1>1, <1>2, <1>3 DEF Counter!Setter

LEMMA CounterNext ==
  ASSUME CounterInv, Counter!Next \/ UNCHANGED counterVars
  PROVE  CounterInv'
<1>1. CASE Counter!HardReset
  <2>1. /\ tod' = [ev |-> 0, latch |-> 0, latching |-> FALSE, alarm |-> 0,
                   writeLatch |-> 0, stopped |-> FALSE] /\ alarmMode' = FALSE
        /\ read' = [read EXCEPT !.parts = {}] /\ set' = [parts |-> {}, time |-> 0]
        /\ clock' = 0 /\ known' = TRUE /\ alarmed' = TRUE
    BY <1>1 DEF Counter!HardReset, Counter!Cleared
  <2>2. tod' \in TodRec
    BY <2>1, ZeroIsTime DEF TodRec
  <2>3. read' \in [parts : SUBSET Counter!Part, whole : BOOLEAN, at : Counter!Time]
        /\ read'.parts = {} /\ read'.whole = read.whole
    BY <2>1, CounterTypes
  <2>4. Counter!TypeOK'
    BY <2>1, <2>2, <2>3, ZeroIsTime DEF Counter!TypeOK, TodRec
  <2> QED  BY <2>1, <2>2, <2>3, <2>4
           DEF CounterInv, CounterIsRight, Counter!CounterIsRight, Counter!TimeIsWhole,
               Counter!AlarmIsNotMissed
<1>2. ASSUME NEW b \in BOOLEAN, Counter!WriteCrb(b)
      PROVE  CounterInv'
  <2>1. alarmMode' \in BOOLEAN /\ UNCHANGED <<tod, read, set, clock, known, alarmed>>
    BY <1>2 DEF Counter!WriteCrb, Counter!history
  <2> QED  BY <2>1 DEF CounterInv, Counter!TypeOK, CounterIsRight, Counter!CounterIsRight,
                       Counter!TimeIsWhole, Counter!AlarmIsNotMissed
<1>3. CASE UNCHANGED counterVars
  BY <1>3 DEF counterVars, CounterInv, Counter!TypeOK, CounterIsRight, Counter!CounterIsRight,
              Counter!TimeIsWhole, Counter!AlarmIsNotMissed
<1> QED  BY <1>1, <1>2, <1>3, CountStep, ReaderStep, SetterStep DEF Counter!Next
-----------------------------------------------------------------------------
(* The transmitter of the serial port.                                     *)

LEMMA LineIs == /\ Line \in Nat /\ 2 <= Line /\ Frame \in Nat /\ Frame % Line = 0
                /\ Words \subseteq Nat
BY SerialAssumption

LEMMA TimesAre ==
  /\ Times \subseteq Nat \ {0} /\ Serial!Shortest \in Times /\ Serial!Longest \in Times
  /\ Serial!Longest \in Nat /\ \A t \in Times : t <= Serial!Longest
<1>1. PICK s \in Times, l \in Times : \A t \in Times : s <= t /\ t <= l
  BY SerialAssumption
<1>2. Serial!Shortest \in Times
  BY <1>1 DEF Serial!Shortest
<1>3. Serial!Longest \in Times /\ \A t \in Times : t <= Serial!Longest
  BY <1>1 DEF Serial!Longest
<1> QED  BY <1>2, <1>3, SerialAssumption

UartRec == [buffer : Words \union {0}, shift : Words \union {0}, bufferEmpty : BOOLEAN,
            shiftEmpty : BOOLEAN, doneTime : 0 .. Frame + Serial!Longest \union {Serial!Never}]
ShiftingRec == [for : 0 .. Serial!Longest + Line, need : Times, reset : BOOLEAN]

(* The words that transmitter u holds, the older one first.                *)
Held(u) == (IF u.shiftEmpty THEN <<>> ELSE <<u.shift>>)
             \o (IF u.bufferEmpty THEN <<>> ELSE <<u.buffer>>)

(* At cycle c, a word that is shifted is not overdue since before this     *)
(* line, and the time s.for it has been there and the time it still has    *)
(* add up to the time it needs, unless a reset has set the clock back.     *)
OnTime(u, s, c) ==
  /\ u.shift \in Words
  /\ c - (c % Line) <= u.doneTime
  /\ (s.need + c <= s.for + u.doneTime) \/ s.for = Serial!Longest + Line
  /\ ~s.reset => s.for + u.doneTime = s.need + c

Loaded(u, s, c) ==
  /\ u \in UartRec /\ s \in ShiftingRec /\ c \in 0 .. Frame
  /\ u.doneTime = Serial!Never <=> u.shiftEmpty
  /\ ~u.bufferEmpty => u.buffer \in Words /\ (u.buffer # 0 => ~u.shiftEmpty)
  /\ ~u.shiftEmpty => OnTime(u, s, c)

SerialInv == /\ rate \in Times /\ owed = Held(uart) /\ ~early
             /\ Loaded(uart, shifting, cycle)

(* A cycle is that many cycles after the beginning of its line.            *)
LEMMA InLine ==
  ASSUME NEW c \in 0 .. Frame
  PROVE  /\ c \in Nat /\ c % Line \in 0 .. Line - 1 /\ 0 % Line = 0
         /\ c < Frame => IF c % Line = Line - 1 THEN (c + 1) % Line = 0
                         ELSE (c + 1) % Line = (c % Line) + 1
<1> DEFINE q == c \div Line
           r == c % Line
<1>1. /\ Line \in Nat /\ 2 <= Line /\ 1 <= Line /\ c \in Nat
  BY LineIs
<1>2. q \in Nat /\ r \in 0 .. Line - 1 /\ c = q * Line + r
  BY <1>1, DivMod
<1>3. 0 % Line = 0
  BY <1>1
<1> HIDE DEF q, r
<1>4. CASE r = Line - 1
  <2>1. c + 1 = (q + 1) * Line + 0 /\ q + 1 \in Nat /\ 0 \in 0 .. Line - 1
    BY <1>1, <1>2, <1>4
  <2>2. (c + 1) % Line = 0
    BY <1>1, <2>1, DivModUnique
  <2> QED  BY <1>1, <1>2, <1>3, <1>4, <2>2 DEF r
<1>5. CASE r # Line - 1
  <2>1. c + 1 = q * Line + (r + 1) /\ r + 1 \in 0 .. Line - 1
    BY <1>1, <1>2, <1>5
  <2>2. (c + 1) % Line = r + 1
    <3> DEFINE k == r + 1
    <3>1. k \in 0 .. Line - 1 /\ c + 1 = q * Line + k
      BY <2>1
    <3> HIDE DEF k
    <3>2. (q * Line + k) % Line = k
      BY <1>1, <1>2, <3>1, DivModUnique
    <3> QED  BY <3>1, <3>2 DEF k
  <2> QED  BY <1>1, <1>2, <1>3, <1>5, <2>2 DEF r
<1> QED  BY <1>4, <1>5

(* The sequences of the words that a transmitter holds.                    *)
LEMMA Pairs ==
  ASSUME NEW a, NEW b
  PROVE  /\ <<>> \o <<>> = <<>> /\ <<>> \o <<b>> = <<b>> /\ <<a>> \o <<>> = <<a>>
         /\ <<a>> \o <<b>> = <<a, b>>
         /\ Append(<<>>, b) = <<b>> /\ Append(<<a>>, b) = <<a, b>>
         /\ Serial!Front(<<b>>) = <<>> /\ Serial!Front(<<a, b>>) = <<a>>
         /\ Tail(<<a>>) = <<>> /\ Tail(<<a, b>>) = <<b>>
<1> DEFINE S == {a, b}
<1>1. <<>> \in Seq(S) /\ <<a>> \in Seq(S) /\ <<b>> \in Seq(S) /\ <<a, b>> \in Seq(S)
      /\ Len(<<a>>) = 1 /\ Len(<<b>>) = 1 /\ Len(<<a, b>>) = 2 /\ a \in S /\ b \in S
      /\ <<a>>[1] = a /\ <<b>>[1] = b /\ <<a, b>>[1] = a /\ <<a, b>>[2] = b
  OBVIOUS
<1> HIDE DEF S
<1>2. /\ <<>> \o <<>> = <<>> /\ <<>> \o <<b>> = <<b>> /\ <<a>> \o <<>> = <<a>>
  BY <1>1, ConcatEmptySeq
<1>3. <<a>> \o <<b>> = <<a, b>>
  <2>1. <<a>> \o <<b>> \in Seq(S) /\ Len(<<a>> \o <<b>>) = 2
    BY <1>1, ConcatProperties
  <2>2. (<<a>> \o <<b>>)[1] = a /\ (<<a>> \o <<b>>)[2] = b
    BY <1>1, ConcatProperties
  <2>3. \A i \in 1 .. 2 : (<<a>> \o <<b>>)[i] = <<a, b>>[i]
    BY <1>1, <2>2
  <2> QED  BY <1>1, <2>1, <2>3, SeqEqual
<1>4. Append(<<>>, b) = <<b>> /\ Append(<<a>>, b) = <<a, b>>
  BY <1>1, <1>2, <1>3, AppendIsConcat
<1>5. Tail(<<a>>) = <<>> /\ Tail(<<a, b>>) = <<b>>
  BY <1>1, TailIsSubSeq, SubSeqEmpty, HeadTailAppend
<1>6. Serial!Front(<<b>>) = <<>> /\ Serial!Front(<<a, b>>) = <<a>>
  <2>1. Serial!Front(<<b>>) = SubSeq(<<b>>, 1, 0) /\ Serial!Front(<<a, b>>) = SubSeq(<<a, b>>, 1, 1)
    BY <1>1 DEF Serial!Front
  <2>2. SubSeq(<<b>>, 1, 0) = <<>>
    BY SubSeqEmpty
  <2>3. SubSeq(<<a, b>>, 1, 1) \in Seq(S) /\ Len(SubSeq(<<a, b>>, 1, 1)) = 1
        /\ SubSeq(<<a, b>>, 1, 1)[1] = a
    BY <1>1, SubSeqProperties
  <2> QED  BY <1>1, <2>1, <2>2, <2>3, SeqEqual
<1> QED  BY <1>2, <1>3, <1>4, <1>5, <1>6

LEMMA LoadedTypes ==
  ASSUME NEW u \in UartRec, NEW s \in ShiftingRec
  PROVE  /\ u.doneTime \in 0 .. Frame + Serial!Longest \/ u.doneTime = -1
         /\ u.doneTime \in Int /\ u.shiftEmpty \in BOOLEAN /\ u.bufferEmpty \in BOOLEAN
         /\ s.for \in 0 .. Serial!Longest + Line /\ s.for \in Int /\ s.need \in Times
         /\ s.need \in Int /\ 1 <= s.need /\ s.need <= Serial!Longest /\ s.reset \in BOOLEAN
<1>1. /\ u.doneTime \in 0 .. Frame + Serial!Longest \/ u.doneTime = Serial!Never
      /\ u.shiftEmpty \in BOOLEAN /\ u.bufferEmpty \in BOOLEAN
      /\ s.for \in 0 .. Serial!Longest + Line /\ s.need \in Times /\ s.reset \in BOOLEAN
  BY DEF UartRec, ShiftingRec
<1>2. Frame \in Nat /\ Line \in Nat /\ Serial!Longest \in Nat /\ Times \subseteq Nat \ {0}
      /\ \A t \in Times : t <= Serial!Longest
  BY LineIs, TimesAre
<1>3. s.need \in Nat \ {0} /\ s.need <= Serial!Longest
  BY <1>1, <1>2
<1>4. u.doneTime \in Int
  BY <1>1, <1>2 DEF Serial!Never
<1>5. s.for \in Int
  BY <1>1, <1>2
<1>6. s.need \in Int /\ 1 <= s.need
  BY <1>3
<1> QED  BY <1>1, <1>3, <1>4, <1>5, <1>6 DEF Serial!Never

LEMMA HeldWords ==
  ASSUME NEW u, NEW s, NEW c, Loaded(u, s, c)
  PROVE  Held(u) \in Seq(Words) /\ Len(Held(u)) <= 2
<1>1. \A a, b \in Words : /\ <<>> \in Seq(Words) /\ <<a>> \in Seq(Words) /\ <<a, b>> \in Seq(Words)
                          /\ Len(<<a>>) = 1 /\ Len(<<a, b>>) = 2 /\ Len(<<>>) = 0
  OBVIOUS
<1>2. (~u.shiftEmpty => u.shift \in Words) /\ (~u.bufferEmpty => u.buffer \in Words)
  BY DEF Loaded, OnTime
<1> QED  BY <1>1, <1>2, Pairs DEF Held

(* It is the invariants of the transmitter.                                *)
LEMMA SerialIsRight == SerialInv => WordsAreSent
<1> SUFFICES ASSUME SerialInv
             PROVE  WordsAreSent
  OBVIOUS
<1>1. Serial!WordsInOrder
  BY DEF SerialInv, Held, Serial!WordsInOrder
<1>2. ASSUME ~uart.shiftEmpty, ~shifting.reset
      PROVE  shifting.for < shifting.need + Line
  <2>0. uart \in UartRec /\ shifting \in ShiftingRec /\ OnTime(uart, shifting, cycle)
    BY <1>2 DEF SerialInv, Loaded
  <2>1. /\ uart.doneTime \in Int /\ cycle - (cycle % Line) <= uart.doneTime
        /\ shifting.for + uart.doneTime = shifting.need + cycle
        /\ shifting.for \in Int /\ shifting.need \in Int
    BY <1>2, <2>0, LoadedTypes DEF OnTime
  <2>2. cycle \in Nat /\ cycle % Line \in 0 .. Line - 1 /\ Line \in Nat
    BY InLine, LineIs DEF SerialInv, Loaded
  <2> QED  BY <2>1, <2>2
<1> QED  BY <1>1, <1>2
         DEF WordsAreSent, Serial!WordsAreSent, Serial!WordTakesItsTime, SerialInv, Loaded
LEMMA SerialInit == Serial!Init => SerialInv
<1> SUFFICES ASSUME Serial!Init
             PROVE  SerialInv
  OBVIOUS
<1> DEFINE u == [buffer |-> 0, shift |-> 0, bufferEmpty |-> TRUE, shiftEmpty |-> TRUE,
                 doneTime |-> -1]
<1>1. /\ uart = u /\ rate = Serial!Shortest /\ cycle = 0 /\ owed = <<>> /\ ~early
      /\ shifting = [for |-> 0, need |-> rate, reset |-> FALSE]
  BY DEF Serial!Init, Serial!Never
<1>2. u \in UartRec
  BY DEF UartRec, Serial!Never
<1>3. shifting \in ShiftingRec /\ rate \in Times /\ cycle \in 0 .. Frame
  BY <1>1, TimesAre, LineIs DEF ShiftingRec
<1>4. owed = Held(uart)
  BY <1>1, Pairs DEF Held
<1> QED  BY <1>1, <1>2, <1>3, <1>4 DEF SerialInv, Loaded, Serial!Never

(* A word comes to the empty shift register of transmitter u.              *)
LEMMA CopyLoads ==
  ASSUME rate \in Times, cycle \in 0 .. Frame, NEW u \in UartRec, u.shiftEmpty, u.buffer \in Words
  PROVE  /\ Serial!Copy(u) \in UartRec /\ Held(Serial!Copy(u)) = <<u.buffer>>
         /\ Serial!Copy(u).doneTime = cycle + rate /\ ~Serial!Copy(u).shiftEmpty
         /\ Serial!Copy(u).bufferEmpty /\ Serial!Copy(u).shift \in Words
         /\ Serial!Restarted \in ShiftingRec
         /\ [Serial!Restarted EXCEPT !.for = 1] \in ShiftingRec
<1> DEFINE v == [u EXCEPT !.shift = u.buffer, !.shiftEmpty = FALSE, !.bufferEmpty = TRUE,
                          !.doneTime = cycle + rate]
<1>1. Serial!Copy(u) = v
  BY DEF Serial!Copy
<1>2. cycle + rate \in 0 .. Frame + Serial!Longest
  <2>1. rate \in Nat /\ rate <= Serial!Longest /\ Serial!Longest \in Nat /\ Frame \in Nat
    BY TimesAre, LineIs
  <2> QED  BY <2>1
<1>3. v \in UartRec
  BY <1>2 DEF UartRec
<1>4. v.shift = u.buffer /\ ~v.shiftEmpty /\ v.bufferEmpty /\ v.doneTime = cycle + rate
  BY DEF UartRec
<1>5. Held(v) = <<u.buffer>>
  <2> HIDE DEF v
  <2> QED  BY <1>4, Pairs DEF Held
<1>6. Serial!Longest \in Nat /\ Line \in Nat /\ 2 <= Line
  BY TimesAre, LineIs
<1>7. 0 \in 0 .. Serial!Longest + Line /\ 1 \in 0 .. Serial!Longest + Line
  BY <1>6
<1>8. /\ Serial!Restarted \in ShiftingRec
      /\ [Serial!Restarted EXCEPT !.for = 1] \in ShiftingRec
  BY <1>7 DEF ShiftingRec, Serial!Restarted
<1> QED  BY <1>1, <1>3, <1>4, <1>5, <1>8

LEMMA WriteSerdatStep ==
  ASSUME SerialInv, NEW w \in Words, Serial!WriteSerdat(w)
  PROVE  SerialInv'
<1> DEFINE u == [uart EXCEPT !.buffer = w, !.bufferEmpty = FALSE]
<1>1. /\ uart' = IF w # 0 THEN Serial!Copy(u) ELSE u
      /\ owed' = Append(IF uart.bufferEmpty THEN owed ELSE Serial!Front(owed), w)
      /\ shifting' = IF w # 0 /\ uart.shiftEmpty THEN Serial!Restarted ELSE shifting
      /\ rate' = rate /\ cycle' = cycle /\ early' = early
  BY DEF Serial!WriteSerdat
<1>2. /\ uart \in UartRec /\ shifting \in ShiftingRec /\ cycle \in 0 .. Frame /\ rate \in Times
      /\ uart.bufferEmpty \in BOOLEAN /\ uart.shiftEmpty \in BOOLEAN
  BY LoadedTypes DEF SerialInv, Loaded
<1>3. /\ u \in UartRec /\ u.buffer = w /\ u.bufferEmpty = FALSE
      /\ u.shiftEmpty = uart.shiftEmpty /\ u.shift = uart.shift /\ u.doneTime = uart.doneTime
  BY <1>2 DEF UartRec
<1> HIDE DEF u
<1>4. (IF uart.bufferEmpty THEN owed ELSE Serial!Front(owed))
        = IF uart.shiftEmpty THEN <<>> ELSE <<uart.shift>>
  BY Pairs DEF SerialInv, Held
<1>5. CASE w # 0 /\ uart.shiftEmpty
  <2>1. owed' = <<w>>
    BY <1>1, <1>4, <1>5, Pairs
  <2>2. uart' = Serial!Copy(u) /\ shifting' = Serial!Restarted
    BY <1>1, <1>5
  <2>3. uart' \in UartRec /\ shifting' \in ShiftingRec /\ Held(uart') = <<w>>
        /\ uart'.doneTime = cycle + rate /\ ~uart'.shiftEmpty /\ uart'.bufferEmpty
        /\ uart'.shift \in Words
    BY <1>2, <1>3, <1>5, <2>2, CopyLoads
  <2>4. shifting'.for = 0 /\ shifting'.need = rate /\ ~shifting'.reset
    BY <2>2 DEF Serial!Restarted
  <2>5. /\ cycle - (cycle % Line) <= cycle + rate /\ 0 + (cycle + rate) = rate + cycle
        /\ cycle + rate # -1 /\ rate + cycle <= 0 + (cycle + rate)
    <3>1. rate \in Nat /\ cycle \in Nat /\ cycle % Line \in Nat
      BY <1>2, TimesAre, InLine
    <3> QED  BY <3>1
  <2>6. OnTime(uart', shifting', cycle')
    BY <1>1, <2>3, <2>4, <2>5 DEF OnTime
  <2> QED  BY <1>1, <1>2, <2>1, <2>3, <2>5, <2>6 DEF SerialInv, Loaded, Serial!Never
<1>6. CASE w # 0 /\ ~uart.shiftEmpty
  <2>1. uart' = u /\ shifting' = shifting
    BY <1>1, <1>3, <1>6 DEF Serial!Copy
  <2>2. owed' = <<uart.shift, w>>
    BY <1>1, <1>4, <1>6, Pairs
  <2>3. Held(uart') = <<uart.shift, w>>
    BY <1>3, <1>6, <2>1, Pairs DEF Held
  <2>4. OnTime(uart', shifting', cycle')
    BY <1>1, <1>3, <1>6, <2>1 DEF SerialInv, Loaded, OnTime
  <2> QED  BY <1>1, <1>2, <1>3, <1>6, <2>1, <2>2, <2>3, <2>4 DEF SerialInv, Loaded
<1>7. CASE w = 0
  <2>1. uart' = u /\ shifting' = shifting
    BY <1>1, <1>7
  <2>2. owed' = Held(uart')
    <3>1. CASE uart.shiftEmpty
      <4>1. owed' = <<w>>
        BY <1>1, <1>4, <3>1, Pairs
      <4>2. Held(uart') = <<w>>
        BY <1>3, <2>1, <3>1, Pairs DEF Held
      <4> QED  BY <4>1, <4>2
    <3>2. CASE ~uart.shiftEmpty
      <4>1. owed' = <<uart.shift, w>>
        BY <1>1, <1>4, <3>2, Pairs
      <4>2. Held(u) = <<u.shift>> \o <<u.buffer>>
        BY <1>3, <3>2 DEF Held
      <4>3. Held(uart') = <<uart.shift, w>>
        BY <1>3, <2>1, <4>2, Pairs
      <4> QED  BY <4>1, <4>3
    <3> QED  BY <3>1, <3>2
  <2>3. ~uart'.shiftEmpty => OnTime(uart', shifting', cycle')
    BY <1>1, <1>3, <2>1 DEF SerialInv, Loaded, OnTime
  <2>4. uart'.doneTime = Serial!Never <=> uart'.shiftEmpty
    BY <1>3, <2>1 DEF SerialInv, Loaded
  <2> QED  BY <1>1, <1>2, <1>3, <1>7, <2>1, <2>2, <2>3, <2>4 DEF SerialInv, Loaded
<1> QED  BY <1>5, <1>6, <1>7

(* One cycle later, in the same line or at the start of the next one.      *)
LEMMA LaterIsOnTime ==
  ASSUME SerialInv, cycle < Frame, cycle % Line = Line - 1 => ~Serial!Done
  PROVE  Loaded(uart, Serial!Later, cycle + 1)
<1>1. uart \in UartRec /\ shifting \in ShiftingRec /\ cycle \in 0 .. Frame
  BY DEF SerialInv, Loaded
<1>2. cycle \in Nat /\ cycle + 1 \in 0 .. Frame /\ Frame \in Nat /\ Line \in Nat /\ 2 <= Line
      /\ Serial!Longest \in Nat
  BY <1>1, InLine, LineIs, TimesAre
<1>3. CASE uart.shiftEmpty
  BY <1>1, <1>2, <1>3 DEF SerialInv, Loaded, Serial!Later
<1>4. CASE ~uart.shiftEmpty
  <2>1. /\ OnTime(uart, shifting, cycle) /\ uart.doneTime # -1 /\ uart.doneTime \in Int
        /\ shifting.for \in 0 .. Serial!Longest + Line /\ shifting.need \in Int
        /\ shifting.need <= Serial!Longest
    BY <1>1, <1>4, LoadedTypes DEF SerialInv, Loaded, Serial!Never
  <2>2. (cycle + 1) - ((cycle + 1) % Line) <= uart.doneTime
    <3>1. CASE cycle % Line = Line - 1
      <4>1. cycle < uart.doneTime
        BY <1>2, <2>1, <3>1 DEF Serial!Done, Serial!Never
      <4>2. (cycle + 1) % Line = 0
        BY <1>1, <3>1, InLine
      <4> QED  BY <1>2, <2>1, <4>1, <4>2
    <3>2. CASE cycle % Line # Line - 1
      <4>1. (cycle + 1) % Line = (cycle % Line) + 1 /\ cycle % Line \in Int
        BY <1>1, <3>2, InLine
      <4> QED  BY <1>2, <2>1, <4>1 DEF OnTime
    <3> QED  BY <3>1, <3>2
  <2>3. CASE shifting.for = Serial!Longest + Line
    <3>1. Serial!Later = shifting
      BY <2>3 DEF Serial!Later
    <3>2. shifting.reset
      <4>1. cycle - (cycle % Line) <= uart.doneTime /\ cycle % Line \in 0 .. Line - 1
            /\ (~shifting.reset => shifting.for + uart.doneTime = shifting.need + cycle)
        BY <1>1, <2>1, InLine DEF OnTime
      <4> QED  BY <1>2, <2>1, <2>3, <4>1
    <3> QED  BY <1>1, <1>2, <1>4, <2>1, <2>2, <2>3, <3>1, <3>2 DEF SerialInv, Loaded, OnTime
  <2>4. CASE shifting.for # Serial!Longest + Line
    <3> DEFINE s == [shifting EXCEPT !.for = @ + 1]
    <3>1. Serial!Later = s
      BY <1>4, <2>4 DEF Serial!Later
    <3>2. shifting.for + 1 \in 0 .. Serial!Longest + Line
      BY <1>2, <2>1, <2>4
    <3>3. s \in ShiftingRec /\ s.for = shifting.for + 1 /\ s.need = shifting.need
          /\ s.reset = shifting.reset
      BY <1>1, <3>2 DEF ShiftingRec
    <3> HIDE DEF s
    <3>4. /\ s.need + (cycle + 1) <= s.for + uart.doneTime
          /\ ~s.reset => s.for + uart.doneTime = s.need + (cycle + 1)
      BY <1>2, <2>1, <2>4, <3>3 DEF OnTime
    <3> QED  BY <1>1, <1>2, <1>4, <2>1, <2>2, <3>1, <3>3, <3>4 DEF SerialInv, Loaded, OnTime
  <2> QED  BY <2>3, <2>4
<1> QED  BY <1>1, <1>3, <1>4, LoadedTypes

LEMMA EndOfLineSends ==
  ASSUME SerialInv, Serial!EndOfLine, cycle < Frame, Serial!Done
  PROVE  SerialInv'
<1> DEFINE u == [uart EXCEPT !.shiftEmpty = TRUE, !.doneTime = Serial!Never]
<1>1. /\ cycle' = cycle + 1 /\ rate' = rate /\ owed' = Tail(owed)
      /\ uart' = IF u.bufferEmpty THEN u ELSE Serial!Copy(u)
      /\ early' = (early \/ shifting.for < shifting.need)
      /\ shifting' = IF uart.bufferEmpty THEN Serial!Restarted ELSE [Serial!Restarted EXCEPT !.for = 1]
      /\ cycle % Line = Line - 1 /\ uart.doneTime # Serial!Never /\ uart.doneTime <= cycle
  BY DEF Serial!EndOfLine, Serial!Done, Serial!Sent
<1>2. /\ uart \in UartRec /\ shifting \in ShiftingRec /\ cycle \in 0 .. Frame /\ rate \in Times
      /\ uart.doneTime \in Int /\ shifting.for \in Int /\ shifting.need \in Int
      /\ shifting.need <= Serial!Longest /\ Serial!Longest \in Nat
      /\ cycle \in Nat /\ cycle + 1 \in 0 .. Frame /\ (cycle + 1) % Line = 0
  <2>1. uart \in UartRec /\ shifting \in ShiftingRec /\ cycle \in 0 .. Frame /\ rate \in Times
    BY DEF SerialInv, Loaded
  <2>2. cycle \in Nat /\ (cycle + 1) % Line = 0 /\ Frame \in Nat
    BY <1>1, <2>1, InLine, LineIs
  <2>3. cycle + 1 \in 0 .. Frame
    BY <2>2
  <2> QED  BY <2>1, <2>2, <2>3, LoadedTypes, TimesAre
<1>3. u \in UartRec /\ u.shiftEmpty /\ u.doneTime = Serial!Never
      /\ u.bufferEmpty = uart.bufferEmpty /\ u.buffer = uart.buffer
  BY <1>2 DEF UartRec
<1> HIDE DEF u
<1>4. ~uart.shiftEmpty /\ OnTime(uart, shifting, cycle)
  BY <1>1 DEF SerialInv, Loaded
<1>5. ~early'
  <2>1. shifting.need <= shifting.for
    BY <1>1, <1>2, <1>4, LineIs DEF OnTime
  <2>2. ~(shifting.for < shifting.need)
    BY <1>2, <2>1
  <2>3. ~early
    BY DEF SerialInv
  <2> QED  BY <1>1, <2>2, <2>3, Zenon
<1>6. CASE uart.bufferEmpty
  <2>1. uart' = u /\ shifting' = Serial!Restarted /\ uart'.bufferEmpty
    BY <1>1, <1>3, <1>6
  <2>2. Serial!Restarted \in ShiftingRec
    BY <1>2, TimesAre, LineIs DEF Serial!Restarted, ShiftingRec
  <2>3. owed = <<uart.shift>>
    BY <1>4, <1>6, Pairs DEF SerialInv, Held
  <2>4. owed' = <<>> /\ Held(uart') = <<>>
    BY <1>1, <1>3, <2>1, <2>3, Pairs DEF Held
  <2> QED  BY <1>1, <1>2, <1>3, <1>5, <2>1, <2>2, <2>4 DEF SerialInv, Loaded
<1>7. CASE ~uart.bufferEmpty
  <2>1. uart' = Serial!Copy(u) /\ shifting' = [Serial!Restarted EXCEPT !.for = 1]
    BY <1>1, <1>3, <1>7
  <2>2. uart.buffer \in Words
    BY <1>7 DEF SerialInv, Loaded
  <2>3. uart' \in UartRec /\ shifting' \in ShiftingRec /\ Held(uart') = <<uart.buffer>>
        /\ uart'.doneTime = cycle + rate /\ ~uart'.shiftEmpty /\ uart'.bufferEmpty
        /\ uart'.shift \in Words
    BY <1>2, <1>3, <2>1, <2>2, CopyLoads
  <2>4. shifting'.for = 1 /\ shifting'.need = rate /\ ~shifting'.reset
    BY <2>1 DEF Serial!Restarted
  <2>5. owed = <<uart.shift, uart.buffer>>
    BY <1>4, <1>7, Pairs DEF SerialInv, Held
  <2>6. owed' = Held(uart')
    BY <1>1, <2>3, <2>5, Pairs
  <2>7. /\ (cycle + 1) - 0 <= cycle + rate /\ 1 + (cycle + rate) = rate + (cycle + 1)
        /\ cycle + rate # -1 /\ rate + (cycle + 1) <= 1 + (cycle + rate)
    <3>1. rate \in Nat /\ 1 <= rate
      BY <1>2, TimesAre
    <3> QED  BY <1>2, <3>1
  <2>8. OnTime(uart', shifting', cycle')
    BY <1>1, <1>2, <2>3, <2>4, <2>7 DEF OnTime
  <2> QED  BY <1>1, <1>2, <1>5, <2>3, <2>6, <2>7, <2>8 DEF SerialInv, Loaded, Serial!Never
<1> QED  BY <1>6, <1>7

LEMMA EndOfFrameStep == ASSUME SerialInv, Serial!EndOfFrame PROVE SerialInv'
<1> DEFINE done == Serial!Rebased(uart.doneTime)
<1>1. /\ cycle = Frame /\ cycle' = 0 /\ uart' = [uart EXCEPT !.doneTime = done]
      /\ rate' = rate /\ owed' = owed /\ shifting' = shifting /\ early' = early
  BY DEF Serial!EndOfFrame
<1>2. /\ uart \in UartRec /\ shifting \in ShiftingRec /\ Frame \in Nat /\ Frame % Line = 0
      /\ uart.doneTime \in 0 .. Frame + Serial!Longest \/ uart.doneTime = Serial!Never
      /\ shifting.for \in Int /\ shifting.need \in Int /\ Serial!Longest \in Nat
      /\ 0 % Line = 0 /\ uart.doneTime \in Int
  <2>1. 0 \in 0 .. Frame
    BY LineIs
  <2> QED  BY <2>1, LoadedTypes, LineIs, TimesAre, InLine DEF SerialInv, Loaded, Serial!Never
<1>3. IF uart.shiftEmpty THEN done = Serial!Never
      ELSE done = uart.doneTime - Frame /\ done \in 0 .. Serial!Longest
  <2>1. CASE uart.shiftEmpty
    BY <2>1 DEF SerialInv, Loaded, Serial!Rebased
  <2>2. CASE ~uart.shiftEmpty
    <3>1. uart.doneTime # Serial!Never /\ OnTime(uart, shifting, cycle)
      BY <2>2 DEF SerialInv, Loaded
    <3>2. Frame <= uart.doneTime /\ uart.doneTime - Frame \in 0 .. Serial!Longest
      BY <1>1, <1>2, <3>1 DEF OnTime
    <3> QED  BY <1>2, <2>2, <3>1, <3>2 DEF Serial!Rebased
  <2> QED  BY <2>1, <2>2
<1> HIDE DEF done
<1>4. /\ uart' \in UartRec /\ uart'.doneTime = done /\ uart'.shift = uart.shift
      /\ uart'.buffer = uart.buffer /\ uart'.bufferEmpty = uart.bufferEmpty
      /\ uart'.shiftEmpty = uart.shiftEmpty
  <2>1. done \in 0 .. Frame + Serial!Longest \union {Serial!Never}
    BY <1>2, <1>3
  <2> QED  BY <1>1, <1>2, <2>1 DEF UartRec
<1>5. ~uart'.shiftEmpty => OnTime(uart', shifting', cycle')
  <2> SUFFICES ASSUME ~uart.shiftEmpty
               PROVE  OnTime(uart', shifting', cycle')
    BY <1>4
  <2>1. OnTime(uart, shifting, cycle)
    BY DEF SerialInv, Loaded
  <2>2. /\ 0 - 0 <= done /\ done = uart.doneTime - Frame
    BY <1>2, <1>3
  <2>3. /\ shifting.need + 0 <= shifting.for + done \/ shifting.for = Serial!Longest + Line
        /\ ~shifting.reset => shifting.for + done = shifting.need + 0
    BY <1>1, <1>2, <2>1, <2>2 DEF OnTime
  <2> QED  BY <1>1, <1>2, <1>4, <2>1, <2>2, <2>3 DEF OnTime
<1>6. uart'.doneTime = Serial!Never <=> uart'.shiftEmpty
  BY <1>2, <1>3, <1>4 DEF Serial!Never
<1>7. owed' = Held(uart')
  BY <1>1, <1>4 DEF SerialInv, Held
<1>8. cycle' \in 0 .. Frame /\ rate' \in Times /\ ~early'
  BY <1>1, <1>2 DEF SerialInv
<1> QED  BY <1>1, <1>2, <1>4, <1>5, <1>6, <1>7, <1>8 DEF SerialInv, Loaded

LEMMA BusResetStep == ASSUME SerialInv, Serial!BusReset PROVE SerialInv'
<1>1. /\ cycle' = 0 /\ rate' = rate /\ uart' = uart /\ owed' = owed /\ early' = early
      /\ shifting' = IF uart.shiftEmpty THEN shifting ELSE [shifting EXCEPT !.reset = TRUE]
  BY DEF Serial!BusReset
<1>2. /\ uart \in UartRec /\ shifting \in ShiftingRec /\ cycle \in Nat /\ 0 \in 0 .. Frame
      /\ 0 % Line = 0 /\ shifting.for \in Int /\ shifting.need \in Int /\ uart.doneTime \in Int
      /\ uart.doneTime \in Nat \/ uart.doneTime = Serial!Never
  <2>1. 0 \in 0 .. Frame
    BY LineIs
  <2> QED  BY <2>1, LoadedTypes, InLine, LineIs, TimesAre DEF SerialInv, Loaded, Serial!Never
<1>3. /\ shifting' \in ShiftingRec /\ shifting'.for = shifting.for
      /\ shifting'.need = shifting.need /\ ~uart.shiftEmpty => shifting'.reset
  BY <1>1, <1>2 DEF ShiftingRec
<1>4. ~uart.shiftEmpty => OnTime(uart', shifting', cycle')
  <2> SUFFICES ASSUME ~uart.shiftEmpty
               PROVE  OnTime(uart', shifting', cycle')
    OBVIOUS
  <2>1. OnTime(uart, shifting, cycle) /\ uart.doneTime \in Nat
    BY <1>2 DEF SerialInv, Loaded
  <2>2. 0 - 0 <= uart.doneTime
    BY <2>1
  <2>3. shifting.need + 0 <= shifting.for + uart.doneTime \/ shifting.for = Serial!Longest + Line
    BY <1>2, <2>1 DEF OnTime
  <2> QED  BY <1>1, <1>2, <1>3, <2>1, <2>2, <2>3 DEF OnTime
<1> QED  BY <1>1, <1>2, <1>3, <1>4 DEF SerialInv, Loaded

LEMMA SerialNext ==
  ASSUME SerialInv, Serial!Next \/ UNCHANGED serialVars
  PROVE  SerialInv'
<1>0. cycle \in 0 .. Frame /\ Line \in Nat /\ 2 <= Line /\ Frame \in Nat /\ Frame % Line = 0
  BY LineIs DEF SerialInv, Loaded
<1>1. ASSUME NEW w \in Words, Serial!WriteSerdat(w)
      PROVE  SerialInv'
  BY <1>1, WriteSerdatStep
<1>2. ASSUME NEW t \in Times, Serial!WriteSerper(t)
      PROVE  SerialInv'
  BY <1>2 DEF Serial!WriteSerper, SerialInv
<1>3. CASE Serial!Idle
  <2>1. /\ cycle < Frame /\ cycle % Line # Line - 1 /\ cycle' = cycle + 1 /\ shifting' = Serial!Later
        /\ rate' = rate /\ uart' = uart /\ owed' = owed /\ early' = early
    BY <1>3 DEF Serial!Idle
  <2>2. Loaded(uart, Serial!Later, cycle + 1)
    BY <2>1, LaterIsOnTime
  <2> QED  BY <2>1, <2>2 DEF SerialInv
<1>4. CASE Serial!EndOfLine
  <2>1. cycle % Line = Line - 1 /\ cycle' = cycle + 1 /\ rate' = rate
    BY <1>4 DEF Serial!EndOfLine
  <2>2. cycle < Frame
    BY <1>0, <2>1
  <2>3. CASE ~Serial!Done
    <3>1. shifting' = Serial!Later /\ uart' = uart /\ owed' = owed /\ early' = early
      BY <1>4, <2>3 DEF Serial!EndOfLine
    <3>2. Loaded(uart, Serial!Later, cycle + 1)
      BY <2>2, <2>3, LaterIsOnTime
    <3> QED  BY <2>1, <3>1, <3>2 DEF SerialInv
  <2> QED  BY <1>4, <2>2, <2>3, EndOfLineSends
<1>5. CASE UNCHANGED serialVars
  BY <1>5 DEF serialVars, SerialInv
<1> QED  BY <1>1, <1>2, <1>3, <1>4, <1>5, EndOfFrameStep, BusResetStep
         DEF Serial!Next, Serial!Program
-----------------------------------------------------------------------------
(* An audio channel.                                                       *)

LEMMA AudioIs ==
  /\ Blocks \in Nat /\ 2 <= Blocks /\ Steps \in 2 .. 3 /\ BlockLengths \subseteq Nat \ {0}
  /\ Periods \subseteq Nat /\ Full \in Nat \ {0}
BY AudioAssumption

(* What a line changes, and the type of it.                                *)
Machine == [c |-> channel, irq |-> irq, taken |-> taken, whole |-> whole, follows |-> follows]

MachineRec ==
  [c : [state : {0, 1, 2, 3, 5}, block : 0 .. Blocks - 1, word : Nat, lenw : Nat \ {0},
        counter : Int],
   irq : BOOLEAN, taken : [len : Nat \ {0}, first : BOOLEAN], whole : BOOLEAN, follows : BOOLEAN]

(* The words fetched and the words to fetch make up the block, but for the *)
(* word by which the first block is short.                                 *)
Fetching(s) ==
  /\ s \in MachineRec /\ s.whole /\ s.c.state # 0
  /\ s.c.state = 1 => s.taken.first /\ s.c.word = 0 /\ s.c.lenw = s.taken.len
  /\ s.c.state = 5 => /\ s.taken.first /\ s.c.word = 0
                      /\ s.c.lenw = IF s.taken.len = 1 THEN 1 ELSE s.taken.len - 1
  /\ s.c.state \in {2, 3} =>
       s.c.word + s.c.lenw = IF s.taken.first THEN s.taken.len - 1 ELSE s.taken.len

(* The interrupt is requested while the program's next block is the one    *)
(* that the channel has taken over already.                                *)
InTime(s) == s.follows /\ (s.irq <=> s.c.block = reg.block)

AudioInv ==
  /\ reg \in [block : 0 .. Blocks - 1, len : Nat \ {0}, per : Int]
  /\ Machine \in MachineRec /\ whole /\ audio \in BOOLEAN /\ prompt \in BOOLEAN
  /\ prompt => follows
  /\ audio => /\ Fetching(Machine) /\ channel.state # 5
              /\ prompt /\ channel.state = 1 => ~irq /\ taken.len > 2 /\ channel.block = reg.block
              /\ prompt /\ channel.state # 1 => InTime(Machine)

LEMMA AudioIsRight == AudioInv => BlocksFollow
<1> SUFFICES ASSUME AudioInv
             PROVE  BlocksFollow
  OBVIOUS
<1>1. Machine.c = channel /\ Machine.taken = taken
  BY DEF Machine
<1>2. ASSUME audio, channel.state # 0
      PROVE  channel.word < taken.len
  <2>1. Fetching(Machine) /\ channel.state # 5
    BY <1>2 DEF AudioInv
  <2>2. channel.word \in Nat /\ channel.lenw \in Nat \ {0} /\ taken.len \in Nat \ {0}
        /\ channel.state \in {0, 1, 2, 3, 5}
    BY <1>1, <2>1 DEF Fetching, MachineRec
  <2> QED  BY <1>1, <1>2, <2>1, <2>2 DEF Fetching
<1> QED  BY <1>2 DEF AudioInv, BlocksFollow, Audio!BlocksFollow

(* A step of the machine keeps this.                                       *)
LEMMA FieldsOf ==
  ASSUME NEW s \in MachineRec
  PROVE  /\ s.c \in [state : {0, 1, 2, 3, 5}, block : 0 .. Blocks - 1, word : Nat,
                     lenw : Nat \ {0}, counter : Int]
         /\ s.taken \in [len : Nat \ {0}, first : BOOLEAN]
         /\ s.irq \in BOOLEAN /\ s.whole \in BOOLEAN /\ s.follows \in BOOLEAN
         /\ s.c.state \in {0, 1, 2, 3, 5} /\ s.c.block \in 0 .. Blocks - 1 /\ s.c.word \in Nat
         /\ s.c.lenw \in Nat \ {0} /\ s.c.counter \in Int
         /\ s.taken.len \in Nat \ {0} /\ s.taken.first \in BOOLEAN
BY DEF MachineRec

LEMMA FetchFetches ==
  ASSUME AudioInv, NEW s \in MachineRec, s.whole, s.c.state = 2,
         \/ s.c.word + s.c.lenw = IF s.taken.first THEN s.taken.len - 1 ELSE s.taken.len
         \/ /\ s.taken.first /\ s.c.word = 0
            /\ s.c.lenw = IF s.taken.len = 1 THEN 1 ELSE s.taken.len - 1
  PROVE  LET t == Audio!Fetch(s)
         IN  /\ Fetching(t) /\ t.c.state = 2
             /\ s.c.lenw # 1 => /\ t.irq = s.irq /\ t.follows = s.follows
                                /\ t.c.block = s.c.block /\ t.taken = s.taken
             /\ s.c.lenw = 1 => /\ t.irq = TRUE /\ t.c.block = reg.block
                                /\ t.follows = (s.follows /\ reg.block # s.c.block)
                                /\ t.taken.len = reg.len /\ t.c.lenw = reg.len
<1> DEFINE f == [s EXCEPT !.c.word = @ + 1]
<1>1. /\ s.c.word \in Nat /\ s.c.lenw \in Nat \ {0} /\ s.taken.len \in Nat \ {0}
      /\ s.taken.first \in BOOLEAN /\ s.c.state \in {0, 1, 2, 3, 5}
      /\ reg.block \in 0 .. Blocks - 1 /\ reg.len \in Nat \ {0}
  BY FieldsOf DEF AudioInv
<1>2. CASE s.c.lenw # 1
  <2> DEFINE t == [f EXCEPT !.c.lenw = @ - 1]
  <2>1. Audio!Fetch(s) = t
    BY <1>2 DEF Audio!Fetch
  <2>2. s.c.lenw - 1 \in Nat \ {0} /\ s.c.word + 1 \in Nat
    BY <1>1, <1>2
  <2>3. /\ t \in MachineRec /\ t.c.state = 2 /\ t.c.word = s.c.word + 1 /\ t.c.lenw = s.c.lenw - 1
        /\ t.c.block = s.c.block /\ t.taken = s.taken /\ t.irq = s.irq /\ t.follows = s.follows
        /\ t.whole = s.whole
    BY <2>2 DEF MachineRec
  <2> HIDE DEF t, f
  <2>4. t.c.word + t.c.lenw = IF t.taken.first THEN t.taken.len - 1 ELSE t.taken.len
    BY <1>1, <1>2, <2>3
  <2> QED  BY <1>2, <2>1, <2>3, <2>4 DEF Fetching
<1>3. CASE s.c.lenw = 1
  <2> DEFINE w == s.whole /\ (f.c.word = s.taken.len \/ (s.taken.first /\ f.c.word = s.taken.len - 1))
             t == [Audio!Take(f, FALSE) EXCEPT !.irq = TRUE, !.whole = w,
                     !.follows = @ /\ reg.block # s.c.block]
  <2>1. Audio!Fetch(s) = [Audio!Take(f, FALSE) EXCEPT !.irq = TRUE,
          !.whole = @ /\ (f.c.word = s.taken.len \/ (s.taken.first /\ f.c.word = s.taken.len - 1)),
          !.follows = @ /\ reg.block # s.c.block]
    BY <1>3 DEF Audio!Fetch
  <2>2. /\ f \in MachineRec /\ f.whole = s.whole /\ f.c.word = s.c.word + 1 /\ f.c.state = 2
        /\ f.follows = s.follows
    <3>1. s.c.word + 1 \in Nat
      BY <1>1
    <3> QED  BY <3>1 DEF MachineRec
  <2>3. w
    BY <1>1, <1>3, <2>2
  <2> HIDE DEF f, w
  <2> DEFINE g == Audio!Take(f, FALSE)
  <2>4. /\ g \in MachineRec /\ g.whole = s.whole /\ g.follows = s.follows /\ g.c.state = 2
        /\ g.c.word = 0 /\ g.c.block = reg.block /\ g.c.lenw = reg.len
        /\ g.taken.len = reg.len /\ ~g.taken.first
    BY <1>1, <2>2 DEF Audio!Take, MachineRec
  <2> HIDE DEF g
  <2> DEFINE v == [g EXCEPT !.irq = TRUE, !.whole = TRUE, !.follows = s.follows /\ reg.block # s.c.block]
  <2>5. Audio!Fetch(s) = v
    BY <2>1, <2>3, <2>4 DEF g, w
  <2>6. /\ v \in MachineRec /\ v.whole = TRUE /\ v.irq = TRUE /\ v.c = g.c /\ v.taken = g.taken
        /\ v.follows = (s.follows /\ reg.block # s.c.block)
    BY <2>4 DEF MachineRec
  <2> HIDE DEF v
  <2>7. v.c.word + v.c.lenw = v.taken.len
    BY <1>1, <2>4, <2>6
  <2> QED  BY <1>3, <2>4, <2>5, <2>6, <2>7 DEF Fetching
<1> QED  BY <1>2, <1>3

(* A step that fetches nothing,                                            *)
LEMMA CountCounts ==
  ASSUME AudioInv, NEW s \in MachineRec, NEW k \in Int, NEW n \in {2, 3}
  PROVE  LET t == Audio!Count(s, k, n)
         IN  /\ t \in MachineRec /\ t.c.state = n /\ t.c.word = s.c.word /\ t.c.lenw = s.c.lenw
             /\ t.c.block = s.c.block /\ t.taken = s.taken /\ t.irq = s.irq
             /\ t.whole = s.whole /\ t.follows = s.follows
<1> DEFINE t == [s EXCEPT !.c.counter = k + reg.per, !.c.state = n]
<1>1. k + reg.per \in Int
  BY DEF AudioInv
<1>2. /\ t \in MachineRec /\ t.c.state = n /\ t.c.word = s.c.word /\ t.c.lenw = s.c.lenw
      /\ t.c.block = s.c.block /\ t.taken = s.taken /\ t.irq = s.irq
      /\ t.whole = s.whole /\ t.follows = s.follows
  BY <1>1 DEF MachineRec
<1> QED  BY <1>2 DEF Audio!Count

(* and any step of the machine while it plays a block.  The word it asks   *)
(* for may be the last one of the block, and then the next block is taken. *)
LEMMA PlayStep ==
  ASSUME AudioInv, NEW s, Fetching(s), s.c.state \in {2, 3}
  PROVE  LET t == Audio!ExecuteState(s)
         IN  /\ Fetching(t) /\ t.c.state \in {2, 3}
             /\ \/ /\ (t.irq <=> s.irq) /\ (t.follows <=> s.follows) /\ t.c.block = s.c.block
                   /\ t.taken = s.taken /\ (t.c.lenw = s.c.lenw \/ t.c.state = 2)
                \/ /\ s.c.state = 3 /\ s.c.lenw = 1 /\ t.c.state = 2
                   /\ t.irq /\ t.c.block = reg.block
                   /\ (t.follows <=> s.follows /\ reg.block # s.c.block)
                   /\ t.taken.len = reg.len /\ t.c.lenw = reg.len
<1>1. s \in MachineRec /\ s.c.counter \in Int /\ s.c.counter - Full \in Int
  BY FieldsOf, AudioIs DEF Fetching
<1>2. CASE s.c.state = 2
  <2> DEFINE t == Audio!State2(s)
  <2>1. Audio!ExecuteState(s) = t
    BY <1>2 DEF Audio!ExecuteState
  <2>2. PICK k \in Int, n \in {2, 3} : t = Audio!Count(s, k, n)
    BY <1>1 DEF Audio!State2
  <2> HIDE DEF t
  <2>3. /\ t \in MachineRec /\ t.c.state = n /\ t.c.word = s.c.word /\ t.c.lenw = s.c.lenw
        /\ t.c.block = s.c.block /\ t.taken = s.taken /\ t.irq = s.irq
        /\ t.whole = s.whole /\ t.follows = s.follows
    BY <1>1, <2>2, CountCounts
  <2>4. Fetching(t) /\ t.c.state \in {2, 3}
    BY <1>2, <2>3 DEF Fetching
  <2> QED  BY <2>1, <2>3, <2>4
<1>3. CASE s.c.state = 3 /\ s.c.counter >= Full
  <2> DEFINE c == Audio!Count(s, s.c.counter - Full, 2)
             t == Audio!Fetch(c)
  <2>1. Audio!ExecuteState(s) = t
    BY <1>3 DEF Audio!ExecuteState, Audio!State3
  <2>2. /\ c \in MachineRec /\ c.c.state = 2 /\ c.c.word = s.c.word /\ c.c.lenw = s.c.lenw
        /\ c.c.block = s.c.block /\ c.taken = s.taken /\ c.irq = s.irq
        /\ c.whole = s.whole /\ c.follows = s.follows
    BY <1>1, CountCounts
  <2>3. c.c.word + c.c.lenw = IF c.taken.first THEN c.taken.len - 1 ELSE c.taken.len
    BY <1>3, <2>2 DEF Fetching
  <2> HIDE DEF c
  <2>4. /\ Fetching(t) /\ t.c.state = 2
        /\ c.c.lenw # 1 => /\ t.irq = c.irq /\ t.follows = c.follows
                           /\ t.c.block = c.c.block /\ t.taken = c.taken
        /\ c.c.lenw = 1 => /\ t.irq = TRUE /\ t.c.block = reg.block
                           /\ t.follows = (c.follows /\ reg.block # c.c.block)
                           /\ t.taken.len = reg.len /\ t.c.lenw = reg.len
    BY <2>2, <2>3, FetchFetches DEF Fetching
  <2> HIDE DEF t
  <2> QED  BY <1>3, <2>1, <2>2, <2>4
<1>4. CASE s.c.state = 3 /\ ~(s.c.counter >= Full)
  <2> DEFINE t == Audio!Count(s, s.c.counter, 3)
  <2>1. Audio!ExecuteState(s) = t
    BY <1>4 DEF Audio!ExecuteState, Audio!State3
  <2>2. /\ t \in MachineRec /\ t.c.state = 3 /\ t.c.word = s.c.word /\ t.c.lenw = s.c.lenw
        /\ t.c.block = s.c.block /\ t.taken = s.taken /\ t.irq = s.irq
        /\ t.whole = s.whole /\ t.follows = s.follows
    BY <1>1, CountCounts
  <2> HIDE DEF t
  <2>3. Fetching(t)
    BY <1>4, <2>2 DEF Fetching
  <2> QED  BY <2>1, <2>2, <2>3
<1> QED  BY <1>2, <1>3, <1>4

(* The first two steps after the DMA was switched on.                      *)
LEMMA StartStep ==
  ASSUME AudioInv, NEW s, Fetching(s), s.c.state = 1
  PROVE  LET t == Audio!ExecuteState(Audio!ExecuteState(s))
         IN  /\ Fetching(t) /\ t.c.state = 2
             /\ s.taken.len > 2 => /\ t.irq = TRUE /\ t.follows = s.follows
                                   /\ t.c.block = s.c.block /\ t.taken = s.taken
<1> DEFINE u == [s EXCEPT !.c.lenw = IF @ # 1 THEN @ - 1 ELSE @, !.c.state = 5, !.irq = TRUE]
           c == [u EXCEPT !.c.counter = 0, !.c.state = 2]
           t == Audio!Fetch(c)
<1>1. Audio!ExecuteState(s) = u
  BY DEF Audio!ExecuteState, Audio!State1
<1>2. /\ s \in MachineRec /\ s.c.lenw \in Nat \ {0} /\ s.taken.len \in Nat \ {0}
      /\ s.taken.first /\ s.c.word = 0 /\ s.c.lenw = s.taken.len /\ s.whole
  BY FieldsOf DEF Fetching
<1>3. (IF s.c.lenw # 1 THEN s.c.lenw - 1 ELSE s.c.lenw) \in Nat \ {0}
  BY <1>2
<1>4. /\ u \in MachineRec /\ u.c.state = 5 /\ u.irq = TRUE /\ u.c.word = 0
      /\ u.c.lenw = IF s.c.lenw # 1 THEN s.c.lenw - 1 ELSE s.c.lenw
      /\ u.c.block = s.c.block /\ u.taken = s.taken /\ u.whole = s.whole /\ u.follows = s.follows
  BY <1>2, <1>3 DEF MachineRec
<1> HIDE DEF u
<1>5. Audio!ExecuteState(u) = t
  BY <1>4 DEF Audio!ExecuteState, Audio!State5
<1>6. /\ c \in MachineRec /\ c.c.state = 2 /\ c.irq = u.irq /\ c.c.word = u.c.word
      /\ c.c.lenw = u.c.lenw /\ c.c.block = u.c.block /\ c.taken = u.taken
      /\ c.whole = u.whole /\ c.follows = u.follows
  <2>1. u \in MachineRec /\ 0 \in Int
    BY <1>4
  <2> QED  BY <2>1 DEF MachineRec
<1> HIDE DEF c
<1>7. /\ c.taken.first /\ c.c.lenw = IF c.taken.len = 1 THEN 1 ELSE c.taken.len - 1
      /\ c \in MachineRec /\ c.whole /\ c.c.state = 2 /\ c.c.word = 0 /\ c.irq = TRUE
  BY <1>2, <1>4, <1>6
<1>8. /\ Fetching(t) /\ t.c.state = 2
      /\ c.c.lenw # 1 => /\ t.irq = c.irq /\ t.follows = c.follows
                         /\ t.c.block = c.c.block /\ t.taken = c.taken
  BY <1>7, FetchFetches
<1> HIDE DEF t
<1>9. s.taken.len > 2 => c.c.lenw # 1
  BY <1>2, <1>4, <1>6
<1> QED  BY <1>1, <1>4, <1>5, <1>6, <1>8, <1>9

(* The steps of a line, two or three.                                      *)
After(s) == IF Steps = 2 THEN Audio!ExecuteState(Audio!ExecuteState(s))
            ELSE Audio!ExecuteState(Audio!ExecuteState(Audio!ExecuteState(s)))

LEMMA LineIsSteps ==
  ASSUME Audio!EndOfLine
  PROVE  LET s == After(Machine)
         IN  /\ channel' = s.c /\ irq' = s.irq /\ taken' = s.taken
             /\ whole' = s.whole /\ follows' = s.follows
             /\ prompt' = (prompt /\ ~irq /\ 2 * s.taken.len >= Steps)
             /\ audio /\ reg' = reg /\ dat' = dat /\ audio' = audio
<1> DEFINE after[i \in 0 .. Steps] ==
             IF i = 0 THEN [c |-> channel, irq |-> irq, taken |-> taken, whole |-> whole,
                            follows |-> follows]
             ELSE Audio!ExecuteState(after[i - 1])
<1>1. after = [i \in 0 .. Steps |-> IF i = 0 THEN Machine ELSE Audio!ExecuteState(after[i - 1])]
  <2> DEFINE one == Audio!ExecuteState(Machine)
             two == Audio!ExecuteState(one)
             three == Audio!ExecuteState(two)
             g == [i \in 0 .. Steps |-> IF i = 0 THEN Machine ELSE IF i = 1 THEN one
                                        ELSE IF i = 2 THEN two ELSE three]
  <2>1. ASSUME NEW i \in 0 .. Steps
        PROVE  g[i] = IF i = 0 THEN Machine ELSE Audio!ExecuteState(g[i - 1])
    <3>1. i = 0 \/ i = 1 \/ i = 2 \/ (i = 3 /\ Steps = 3)
      BY AudioIs
    <3>2. 0 \in 0 .. Steps /\ 1 \in 0 .. Steps /\ 2 \in 0 .. Steps
      BY AudioIs
    <3> HIDE DEF one, two, three
    <3>3. CASE i = 0
      BY <3>2, <3>3
    <3>4. CASE i = 1
      <4>1. i - 1 = 0
        BY <3>4
      <4> QED  BY <3>2, <3>4, <4>1 DEF one
    <3>5. CASE i = 2
      <4>1. i - 1 = 1
        BY <3>5
      <4> QED  BY <3>2, <3>5, <4>1 DEF two
    <3>6. CASE i = 3 /\ Steps = 3
      <4>1. i - 1 = 2
        BY <3>6
      <4> QED  BY <3>2, <3>6, <4>1 DEF three
    <3> QED  BY <3>1, <3>3, <3>4, <3>5, <3>6
  <2> HIDE DEF one, two, three
  <2>2. g = [i \in 0 .. Steps |-> IF i = 0 THEN Machine ELSE Audio!ExecuteState(g[i - 1])]
    BY <2>1
  <2> HIDE DEF g
  <2>3. \E h : h = [i \in 0 .. Steps |-> IF i = 0 THEN Machine ELSE Audio!ExecuteState(h[i - 1])]
    BY <2>2
  <2> QED  BY <2>3 DEF after, Machine
<1>2. after[Steps] = After(Machine)
  <2> HIDE DEF after
  <2>1. /\ Steps \in {2, 3} /\ 0 \in 0 .. Steps /\ 1 \in 0 .. Steps /\ 2 \in 0 .. Steps
        /\ 1 - 1 = 0 /\ 2 - 1 = 1 /\ 3 - 1 = 2 /\ (Steps = 3 => 3 \in 0 .. Steps)
    BY AudioIs
  <2>2. after[0] = Machine
    BY <1>1, <2>1
  <2>3. after[1] = Audio!ExecuteState(Machine)
    BY <1>1, <2>1, <2>2
  <2>4. after[2] = Audio!ExecuteState(Audio!ExecuteState(Machine))
    BY <1>1, <2>1, <2>3
  <2>5. Steps = 3 => after[3] = Audio!ExecuteState(Audio!ExecuteState(Audio!ExecuteState(Machine)))
    BY <1>1, <2>1, <2>4
  <2> QED  BY <2>1, <2>4, <2>5 DEF After
<1>3. \E s \in {after[Steps]} :
        /\ channel' = s.c /\ irq' = s.irq /\ taken' = s.taken
        /\ whole' = s.whole /\ follows' = s.follows
        /\ prompt' = (prompt /\ ~irq /\ 2 * s.taken.len >= Steps)
  BY DEF Audio!EndOfLine
<1>4. audio /\ reg' = reg /\ dat' = dat /\ audio' = audio
  BY DEF Audio!EndOfLine
<1> HIDE DEF after
<1> QED  BY <1>2, <1>3, <1>4

(* The end of a line.                                                      *)
LEMMA AfterLine ==
  ASSUME AudioInv, audio
  PROVE  LET s == After(Machine)
         IN  /\ Fetching(s) /\ s.c.state \in {2, 3}
             /\ prompt /\ ~irq /\ 2 * s.taken.len >= Steps => InTime(s)
<1>1. /\ Fetching(Machine) /\ channel.state # 5 /\ channel.state # 0
      /\ prompt /\ channel.state = 1 => ~irq /\ taken.len > 2
      /\ prompt /\ channel.state # 1 => InTime(Machine)
      /\ channel.state \in {0, 1, 2, 3, 5} /\ Steps \in {2, 3}
      /\ prompt => follows
  BY FieldsOf, AudioIs DEF AudioInv, Fetching, Machine
<1>2. Machine.c = channel /\ Machine.irq = irq /\ Machine.taken = taken /\ Machine.follows = follows
  BY DEF Machine
<1> DEFINE a == Audio!ExecuteState(Machine)
           b == Audio!ExecuteState(a)
           c == Audio!ExecuteState(b)
<1>3. After(Machine) = IF Steps = 2 THEN b ELSE c
  BY DEF After
<1>4. CASE channel.state = 1
  <2>1. /\ Fetching(b) /\ b.c.state = 2
        /\ taken.len > 2 => /\ b.irq = TRUE /\ b.follows = follows
                            /\ b.c.block = channel.block /\ b.taken = taken
    BY <1>1, <1>2, <1>4, StartStep
  <2> HIDE DEF a, b
  <2>2. /\ Fetching(c) /\ c.c.state \in {2, 3}
        /\ (c.irq <=> b.irq) /\ (c.follows <=> b.follows) /\ c.c.block = b.c.block
    <3>1. b.c.state \in {2, 3}
      BY <2>1
    <3> QED  BY <2>1, <3>1, PlayStep
  <2> HIDE DEF c
  <2>3. prompt => channel.block = reg.block
    BY <1>4 DEF AudioInv
  <2> QED  BY <1>1, <1>3, <1>4, <2>1, <2>2, <2>3 DEF InTime
<1>5. CASE channel.state \in {2, 3}
  <2>1. /\ Fetching(a) /\ a.c.state \in {2, 3}
        /\ \/ /\ (a.irq <=> irq) /\ (a.follows <=> follows) /\ a.c.block = channel.block
              /\ a.taken = taken
           \/ /\ a.c.state = 2
              /\ a.irq /\ a.c.block = reg.block
              /\ (a.follows <=> follows /\ reg.block # channel.block)
              /\ a.taken.len = reg.len /\ a.c.lenw = reg.len
    BY <1>1, <1>2, <1>5, PlayStep
  <2> HIDE DEF a
  <2>2. /\ Fetching(b) /\ b.c.state \in {2, 3}
        /\ \/ /\ (b.irq <=> a.irq) /\ (b.follows <=> a.follows) /\ b.c.block = a.c.block
              /\ b.taken = a.taken /\ (b.c.lenw = a.c.lenw \/ b.c.state = 2)
           \/ /\ a.c.state = 3 /\ b.c.state = 2
              /\ b.irq /\ b.c.block = reg.block
              /\ (b.follows <=> a.follows /\ reg.block # a.c.block)
              /\ b.taken.len = reg.len /\ b.c.lenw = reg.len
    BY <2>1, PlayStep
  <2> HIDE DEF b
  <2>3. /\ Fetching(c) /\ c.c.state \in {2, 3}
        /\ \/ /\ (c.irq <=> b.irq) /\ (c.follows <=> b.follows) /\ c.c.block = b.c.block
              /\ c.taken = b.taken
           \/ /\ b.c.state = 3 /\ b.c.lenw = 1 /\ c.c.state = 2
              /\ c.irq /\ c.c.block = reg.block
              /\ (c.follows <=> b.follows /\ reg.block # b.c.block)
              /\ c.taken.len = reg.len /\ c.c.lenw = reg.len
    BY <2>2, PlayStep
  <2> HIDE DEF c
  <2>4. ASSUME prompt, ~irq
        PROVE  InTime(b) /\ (Steps = 3 /\ 2 * c.taken.len >= 3 => InTime(c))
    <3>1. follows /\ channel.block # reg.block
      BY <1>1, <1>2, <1>5, <2>4 DEF InTime
    <3>2. InTime(a) /\ (a.irq => a.c.state = 2 /\ a.c.lenw = reg.len)
      BY <2>1, <2>4, <3>1 DEF InTime
    <3>3. InTime(b) /\ (b.irq /\ b.c.state = 3 => b.c.lenw = reg.len)
      BY <2>2, <3>2 DEF InTime
    <3>4. c.taken.len = 1 => ~(2 * c.taken.len >= 3)
      OBVIOUS
    <3>5. 2 * c.taken.len >= 3 => InTime(c)
      BY <2>3, <3>3, <3>4 DEF InTime
    <3> QED  BY <3>3, <3>5
  <2> QED  BY <1>1, <1>3, <2>2, <2>3, <2>4
<1> QED  BY <1>1, <1>4, <1>5

LEMMA AudioEndOfLineStep == ASSUME AudioInv, Audio!EndOfLine PROVE AudioInv'
<1> DEFINE s == After(Machine)
<1>1. /\ channel' = s.c /\ irq' = s.irq /\ taken' = s.taken
      /\ whole' = s.whole /\ follows' = s.follows
      /\ prompt' = (prompt /\ ~irq /\ 2 * s.taken.len >= Steps)
      /\ audio /\ reg' = reg /\ audio' = audio
  BY LineIsSteps
<1>2. /\ Fetching(s) /\ s.c.state \in {2, 3}
      /\ prompt /\ ~irq /\ 2 * s.taken.len >= Steps => InTime(s)
  BY <1>1, AfterLine
<1> HIDE DEF s
<1>3. s \in MachineRec
  BY <1>2 DEF Fetching
<1>4. Machine' = s
  <2>1. Machine' = [c |-> s.c, irq |-> s.irq, taken |-> s.taken, whole |-> s.whole,
                    follows |-> s.follows]
    BY <1>1 DEF Machine
  <2> QED  BY <1>3, <2>1 DEF MachineRec
<1>5. prompt' \in BOOLEAN
  BY <1>1
<1>6. prompt' => InTime(s)
  BY <1>1, <1>2
<1>7. reg' \in [block : 0 .. Blocks - 1, len : Nat \ {0}, per : Int] /\ audio' \in BOOLEAN
  BY <1>1 DEF AudioInv
<1>8. Fetching(s) /\ whole'
  BY <1>1, <1>2 DEF Fetching
<1>9. InTime(Machine)' <=> InTime(s)
  BY <1>1 DEF InTime, Machine
<1>10. prompt' => follows'
  BY <1>1, <1>6 DEF InTime
<1>11. channel'.state \in {2, 3}
  BY <1>1, <1>2
<1>12. Fetching(Machine)' /\ Machine' \in MachineRec
  BY <1>3, <1>4, <1>8 DEF Fetching, MachineRec
<1> QED  BY <1>5, <1>6, <1>7, <1>8, <1>9, <1>10, <1>11, <1>12 DEF AudioInv

(* The program and the registers: the machine stays where it is.           *)
LEMMA MachineStays ==
  ASSUME AudioInv, channel' = channel, taken' = taken, whole' = whole, follows' = follows,
         irq' \in BOOLEAN
  PROVE  /\ Machine' \in MachineRec /\ (Fetching(Machine) => Fetching(Machine)')
         /\ whole' /\ channel \in [state : {0, 1, 2, 3, 5}, block : 0 .. Blocks - 1, word : Nat,
                                   lenw : Nat \ {0}, counter : Int]
<1>1. Machine' = [Machine EXCEPT !.irq = irq']
  BY DEF Machine
<1>2. Machine \in MachineRec /\ whole
  BY DEF AudioInv
<1>3. /\ Machine' \in MachineRec /\ Machine'.c = Machine.c /\ Machine'.taken = Machine.taken
      /\ Machine'.whole = Machine.whole
  BY <1>1, <1>2 DEF MachineRec
<1>4. Machine.c = channel
  BY DEF Machine
<1>5. Fetching(Machine) => Fetching(Machine)'
  BY <1>3 DEF Fetching, MachineRec
<1> QED  BY <1>2, <1>3, <1>4, <1>5, FieldsOf

LEMMA InTimeIs ==
  /\ InTime(Machine) <=> follows /\ (irq <=> channel.block = reg.block)
  /\ InTime(Machine)' <=> follows' /\ (irq' <=> channel'.block = reg'.block)
BY DEF InTime, Machine

LEMMA AudioTypes ==
  ASSUME AudioInv
  PROVE  /\ irq \in BOOLEAN /\ follows \in BOOLEAN /\ whole \in BOOLEAN
         /\ taken \in [len : Nat \ {0}, first : BOOLEAN]
         /\ channel.block \in 0 .. Blocks - 1 /\ channel.state \in {0, 1, 2, 3, 5}
<1>1. Machine \in MachineRec
  BY DEF AudioInv
<1> QED  BY <1>1, FieldsOf DEF Machine

LEMMA SupplyStep ==
  ASSUME AudioInv, NEW n \in BlockLengths, Audio!Supply(n)
  PROVE  AudioInv'
<1>1. /\ irq /\ irq' = FALSE /\ reg' = [reg EXCEPT !.block = (reg.block + 1) % Blocks, !.len = n]
      /\ channel' = channel /\ audio' = audio /\ taken' = taken /\ whole' = whole
      /\ prompt' = prompt /\ follows' = follows
  BY DEF Audio!Supply, Audio!WriteBlock, Audio!history
<1>2. reg.block \in 0 .. Blocks - 1 /\ n \in Nat \ {0} /\ Blocks \in Nat /\ 2 <= Blocks
  BY AudioIs DEF AudioInv
<1>3. (reg.block + 1) % Blocks \in 0 .. Blocks - 1 /\ (reg.block + 1) % Blocks # reg.block
  <2>1. CASE reg.block = Blocks - 1
    <3>1. reg.block + 1 = Blocks /\ 0 \in 0 .. Blocks - 1 /\ 1 * Blocks + 0 = Blocks
          /\ 0 # reg.block
      BY <1>2, <2>1
    <3>3. Blocks % Blocks = 0
      BY <1>2
    <3> QED  BY <3>1, <3>3
  <2>2. CASE reg.block # Blocks - 1
    <3> DEFINE k == reg.block + 1
    <3>1. k \in 0 .. Blocks - 1 /\ k = 0 * Blocks + k /\ k # reg.block
      BY <1>2, <2>2
    <3> HIDE DEF k
    <3>2. k % Blocks = k
      BY <1>2, <3>1
    <3> QED  BY <3>1, <3>2 DEF k
  <2> QED  BY <2>1, <2>2
<1>4. /\ reg' \in [block : 0 .. Blocks - 1, len : Nat \ {0}, per : Int]
      /\ reg'.block # reg.block
  BY <1>1, <1>2, <1>3 DEF AudioInv
<1>5. /\ Machine' \in MachineRec /\ whole' /\ (Fetching(Machine) => Fetching(Machine)')
  BY <1>1, MachineStays
<1>6. prompt /\ audio => channel.state # 1 /\ InTime(Machine)
  BY <1>1 DEF AudioInv
<1>7. prompt /\ audio => InTime(Machine)'
  BY <1>1, <1>4, <1>6, InTimeIs
<1> QED  BY <1>1, <1>4, <1>5, <1>6, <1>7 DEF AudioInv

LEMMA ChannelEnableStep == ASSUME AudioInv, Audio!ChannelEnable PROVE AudioInv'
<1> DEFINE c == [channel EXCEPT !.lenw = reg.len, !.block = reg.block, !.word = 0,
                                !.counter = 0, !.state = 1]
<1>1. /\ ~audio /\ audio' = TRUE /\ prompt' = (~irq /\ reg.len > 2) /\ follows' = TRUE
      /\ taken' = [len |-> reg.len, first |-> TRUE]
      /\ reg' = reg /\ irq' = irq /\ whole' = whole
  BY DEF Audio!ChannelEnable, Audio!State0, Audio!Take
<1>2. channel' = c
  BY DEF Audio!ChannelEnable, Audio!State0, Audio!Take
<1>3. /\ channel \in [state : {0, 1, 2, 3, 5}, block : 0 .. Blocks - 1, word : Nat,
                      lenw : Nat \ {0}, counter : Int]
      /\ irq \in BOOLEAN /\ reg.len \in Nat \ {0} /\ reg.block \in 0 .. Blocks - 1 /\ whole
  BY AudioTypes, MachineStays, FieldsOf DEF AudioInv, Machine
<1>4. /\ c \in [state : {0, 1, 2, 3, 5}, block : 0 .. Blocks - 1, word : Nat,
                lenw : Nat \ {0}, counter : Int]
      /\ c.state = 1 /\ c.word = 0 /\ c.lenw = reg.len /\ c.block = reg.block
  <2> DEFINE R == [state : {0, 1, 2, 3, 5}, block : 0 .. Blocks - 1, word : Nat,
                   lenw : Nat \ {0}, counter : Int]
             b == [channel EXCEPT !.lenw = reg.len, !.block = reg.block]
  <2>1. 0 \in Nat /\ 0 \in Int
    OBVIOUS
  <2>2. b \in R /\ b.lenw = reg.len /\ b.block = reg.block
    BY <1>3
  <2>3. c = [b EXCEPT !.word = 0, !.counter = 0, !.state = 1]
    OBVIOUS
  <2> HIDE DEF b, c
  <2> QED  BY <2>1, <2>2, <2>3
<1> HIDE DEF c
<1>5. Machine' = [c |-> c, irq |-> irq, taken |-> [len |-> reg.len, first |-> TRUE],
                  whole |-> whole, follows |-> TRUE]
  BY <1>1, <1>2 DEF Machine
<1>6. Machine' \in MachineRec
  BY <1>3, <1>4, <1>5 DEF MachineRec
<1>7. Fetching(Machine)'
  <2>1. Machine'.c = c /\ Machine'.taken.len = reg.len /\ Machine'.taken.first /\ Machine'.whole
    BY <1>3, <1>5
  <2> QED  BY <1>4, <1>6, <2>1 DEF Fetching, MachineRec
<1>8. reg' \in [block : 0 .. Blocks - 1, len : Nat \ {0}, per : Int] /\ taken'.len = reg.len
  BY <1>1 DEF AudioInv
<1>9. prompt' => ~irq' /\ taken'.len > 2
  BY <1>1, <1>8
<1>10. prompt' \in BOOLEAN /\ audio' \in BOOLEAN /\ follows' /\ whole' /\ reg'.block = reg.block
  BY <1>1, <1>3
<1> QED  BY <1>2, <1>4, <1>6, <1>7, <1>8, <1>9, <1>10 DEF AudioInv

LEMMA AudioInit == Audio!Init => AudioInv
<1> SUFFICES ASSUME Audio!Init
             PROVE  AudioInv
  OBVIOUS
<1>1. /\ reg = [block |-> 0, len |-> 2, per |-> 0] /\ ~audio /\ audio = FALSE /\ prompt = FALSE
      /\ whole = TRUE
      /\ Machine = [c |-> [state |-> 0, block |-> 0, word |-> 0, lenw |-> 2, counter |-> 0],
                    irq |-> FALSE, taken |-> [len |-> 2, first |-> TRUE], whole |-> TRUE,
                    follows |-> TRUE]
  BY DEF Audio!Init, Audio!Cleared, Audio!Unused, Machine
<1>2. 0 \in 0 .. Blocks - 1
  BY AudioIs
<1>3. Machine \in MachineRec
  BY <1>1, <1>2 DEF MachineRec
<1>4. reg \in [block : 0 .. Blocks - 1, len : Nat \ {0}, per : Int]
  BY <1>1, <1>2
<1> QED  BY <1>1, <1>3, <1>4 DEF AudioInv

LEMMA AudioNext ==
  ASSUME AudioInv, Audio!Next \/ UNCHANGED audioVars
  PROVE  AudioInv'
<1>0. /\ irq \in BOOLEAN /\ audio \in BOOLEAN /\ prompt \in BOOLEAN
      /\ reg \in [block : 0 .. Blocks - 1, len : Nat \ {0}, per : Int]
  BY AudioTypes DEF AudioInv
<1>1. ASSUME NEW b \in 0 .. Blocks - 1, NEW n \in BlockLengths, Audio!SetBlock(b, n)
      PROVE  AudioInv'
  <2>1. /\ reg' = [reg EXCEPT !.block = b, !.len = n] /\ prompt' = FALSE
        /\ channel' = channel /\ audio' = audio /\ irq' = irq /\ taken' = taken
        /\ whole' = whole /\ follows' = follows
    BY <1>1 DEF Audio!SetBlock, Audio!WriteBlock
  <2>2. reg' \in [block : 0 .. Blocks - 1, len : Nat \ {0}, per : Int]
    BY <1>0, <2>1, AudioIs
  <2>3. /\ Machine' \in MachineRec /\ whole' /\ (Fetching(Machine) => Fetching(Machine)')
    BY <1>0, <2>1, MachineStays
  <2> QED  BY <1>0, <2>1, <2>2, <2>3 DEF AudioInv
<1>2. CASE Audio!Acknowledge
  <2>1. /\ reg' = reg /\ prompt' = FALSE /\ irq' = FALSE
        /\ channel' = channel /\ audio' = audio /\ taken' = taken
        /\ whole' = whole /\ follows' = follows
    BY <1>2 DEF Audio!Acknowledge
  <2>2. /\ Machine' \in MachineRec /\ whole' /\ (Fetching(Machine) => Fetching(Machine)')
    BY <2>1, MachineStays
  <2> QED  BY <1>0, <2>1, <2>2 DEF AudioInv
<1>3. ASSUME channel' = channel, audio' = audio, irq' = irq, taken' = taken, whole' = whole,
             follows' = follows, prompt' = prompt, reg'.block = reg.block,
             reg' \in [block : 0 .. Blocks - 1, len : Nat \ {0}, per : Int]
      PROVE  AudioInv'
  <2>1. /\ Machine' \in MachineRec /\ whole' /\ (Fetching(Machine) => Fetching(Machine)')
    BY <1>0, <1>3, MachineStays
  <2>2. InTime(Machine) => InTime(Machine)'
    BY <1>3, InTimeIs
  <2> QED  BY <1>0, <1>3, <2>1, <2>2 DEF AudioInv
<1>4. ASSUME NEW p \in Periods, Audio!SetAudXper(p)
      PROVE  AudioInv'
  <2>1. /\ reg' = [reg EXCEPT !.per = p] /\ channel' = channel /\ audio' = audio /\ irq' = irq
        /\ taken' = taken /\ whole' = whole /\ follows' = follows /\ prompt' = prompt
    BY <1>4 DEF Audio!SetAudXper, Audio!history
  <2>2. /\ reg' \in [block : 0 .. Blocks - 1, len : Nat \ {0}, per : Int]
        /\ reg'.block = reg.block
    BY <1>0, <2>1, AudioIs
  <2> QED  BY <1>3, <2>1, <2>2
<1>5. CASE Audio!SetAudXdat \/ UNCHANGED audioVars
  <2>1. /\ reg' = reg /\ channel' = channel /\ audio' = audio /\ irq' = irq
        /\ taken' = taken /\ whole' = whole /\ follows' = follows /\ prompt' = prompt
    BY <1>5 DEF Audio!SetAudXdat, Audio!history, audioVars
  <2> QED  BY <1>0, <1>3, <2>1
<1>6. CASE Audio!EndOfLineDat
  <2>1. /\ ~audio /\ reg' = reg /\ prompt' = prompt /\ irq' = TRUE
        /\ channel' = channel /\ audio' = audio /\ taken' = taken
        /\ whole' = whole /\ follows' = follows
    BY <1>6 DEF Audio!EndOfLineDat, Audio!history
  <2>2. Machine' \in MachineRec /\ whole'
    BY <2>1, MachineStays
  <2> QED  BY <1>0, <2>1, <2>2 DEF AudioInv
<1>7. CASE Audio!ChannelKill
  <2>1. /\ audio' = FALSE /\ reg' = reg /\ prompt' = prompt /\ irq' = irq
        /\ channel' = [channel EXCEPT !.state = 0] /\ taken' = taken
        /\ whole' = whole /\ follows' = follows
    BY <1>7 DEF Audio!ChannelKill, Audio!history
  <2>2. Machine \in MachineRec /\ whole
    BY DEF AudioInv
  <2>3. Machine' = [Machine EXCEPT !.c = [channel EXCEPT !.state = 0]] /\ Machine.c = channel
    BY <2>1 DEF Machine
  <2>4. [channel EXCEPT !.state = 0] \in [state : {0, 1, 2, 3, 5}, block : 0 .. Blocks - 1,
                                          word : Nat, lenw : Nat \ {0}, counter : Int]
    BY <2>2, <2>3, FieldsOf
  <2>5. Machine' \in MachineRec
    BY <2>2, <2>3, <2>4 DEF MachineRec
  <2> QED  BY <1>0, <2>1, <2>2, <2>5 DEF AudioInv
<1>8. CASE Audio!HardReset
  <2>1. /\ reg' = [block |-> 0, len |-> 2, per |-> 0] /\ audio' = FALSE /\ prompt' = FALSE
        /\ whole' = whole
        /\ Machine' = [c |-> [state |-> 0, block |-> 0, word |-> 0, lenw |-> 2, counter |-> 0],
                       irq |-> FALSE, taken |-> [len |-> 2, first |-> TRUE], whole |-> whole,
                       follows |-> follows]
    BY <1>8 DEF Audio!HardReset, Audio!Cleared, Audio!Unused, Machine
  <2>2. 0 \in 0 .. Blocks - 1 /\ whole \in BOOLEAN /\ follows \in BOOLEAN /\ whole
    BY AudioIs, AudioTypes DEF AudioInv
  <2>3. Machine' \in MachineRec
    BY <2>1, <2>2 DEF MachineRec
  <2>4. reg' \in [block : 0 .. Blocks - 1, len : Nat \ {0}, per : Int]
    BY <2>1, <2>2
  <2> QED  BY <2>1, <2>2, <2>3, <2>4 DEF AudioInv
<1> QED  BY <1>1, <1>2, <1>4, <1>5, <1>6, <1>7, <1>8, SupplyStep, ChannelEnableStep,
            AudioEndOfLineStep DEF Audio!Next, Audio!Program
-----------------------------------------------------------------------------
(* Disk transfers.                                                         *)

LEMMA Induction ==
  ASSUME NEW S \in SUBSET Nat, 0 \in S, \A i \in Nat : i \in S => i + 1 \in S
  PROVE  \A i \in Nat : i \in S
<1> DEFINE T == Nat \ S
<1>1. SUFFICES ASSUME T # {} PROVE FALSE
  OBVIOUS
<1>2. \E x \in T : \A y \in T : ~(<<y, x>> \in OpToRel(<, Nat))
  <2>1. T \in SUBSET Nat
    OBVIOUS
  <2> HIDE DEF T
  <2> QED  BY <1>1, <2>1, NatLessThanWellFounded, WFMin
<1>3. \A x, y \in Nat : y < x => <<y, x>> \in OpToRel(<, Nat)
  BY DEF OpToRel
<1>4. PICK x \in T : \A y \in T : ~(y < x)
  BY <1>2, <1>3
<1>5. x # 0 /\ x - 1 \in Nat /\ x - 1 \in S
  BY <1>4
<1> QED  BY <1>4, <1>5


LEMMA Halves == \A n \in Nat : n \div 2 \in Nat /\ 2 * (n \div 2) <= n
OBVIOUS

(* What is in a drive.                                                     *)
LEMMA TracksAre ==
  ASSUME NEW d \in Drive
  PROVE  /\ d \in 0 .. 3 /\ TrackLength(d) \in Nat \ {0} /\ Cylinders(d) \in Nat
         /\ Disk[d] \in Seq(Seq(Bytes))
         /\ \A t \in 1 .. Len(Disk[d]) :
              /\ Disk[d][t] \in Seq(Bytes) /\ Len(Disk[d][t]) = TrackLength(d)
              /\ Gap \in Nat /\ Gap + 1 < TrackLength(d)
<1>1. /\ d \in 0 .. 3 /\ Gap \in Nat /\ Disk[d] \in Seq(Seq(Bytes))
      /\ \A t \in DOMAIN Disk[d] : Len(Disk[d][t]) = Len(Disk[d][1]) /\ Gap + 1 < Len(Disk[d][t])
  BY DiskAssumption
<1>2. Len(Disk[d]) \in Nat /\ DOMAIN Disk[d] = 1 .. Len(Disk[d])
  BY <1>1, LenProperties
<1>3. \A t \in 1 .. Len(Disk[d]) : Disk[d][t] \in Seq(Bytes) /\ Len(Disk[d][t]) \in Nat
  BY <1>1, <1>2, ElementOfSeq, LenProperties
<1>4. Disk[d] # <<>> => 1 \in 1 .. Len(Disk[d])
  BY <1>1, <1>2, EmptySeq
<1>5. \A t \in 1 .. Len(Disk[d]) : Disk[d] # <<>>
  BY <1>2, EmptySeq
<1>6. Cylinders(d) \in Nat
  BY <1>2, Halves DEF Cylinders
<1>7. Gap \in Nat /\ TrackLength(d) \in Nat \ {0}
  <2>1. CASE Disk[d] = <<>>
    BY <1>1, <2>1 DEF TrackLength
  <2>2. CASE Disk[d] # <<>>
    <3>1. 1 \in DOMAIN Disk[d] /\ Len(Disk[d][1]) \in Nat
      BY <1>2, <1>3, <1>4, <2>2
    <3>2. Gap + 1 < Len(Disk[d][1]) /\ Gap \in Nat
      BY <1>1, <3>1
    <3>3. TrackLength(d) = Len(Disk[d][1])
      BY <2>2 DEF TrackLength
    <3> QED  BY <3>1, <3>2, <3>3
  <2> QED  BY <2>1, <2>2
<1>8. ASSUME NEW t \in 1 .. Len(Disk[d])
      PROVE  Len(Disk[d][t]) = TrackLength(d) /\ Gap + 1 < TrackLength(d)
  BY <1>1, <1>2, <1>5 DEF TrackLength
<1> QED  BY <1>1, <1>3, <1>6, <1>7, <1>8

DriveRec(d) ==
  [sel : BOOLEAN, motor : BOOLEAN, step : BOOLEAN, side : 0 .. 1,
   cylinder : 0 .. Cylinders(d) + Overrun, ticks : 0 .. TrackLength(d) - 1]
DmaRec == [started : BOOLEAN, read : BOOLEAN, wordsleft : 0 .. MaxLength, wait : 0 .. MaxWait,
           wait_for_sync : BOOLEAN, sync_found : BOOLEAN, dont_use_gap : BOOLEAN]
DrivesOK == \A d \in Drive : drive[d] \in DriveRec(d)

LEMMA LengthsAre ==
  /\ LineWords \in Nat /\ 1 <= LineWords /\ WaitInitial \in Nat /\ 1 <= WaitInitial
  /\ MaxLength \in Nat /\ MaxWait \in Nat /\ MaxWait = MaxLength * 2 + WaitInitial
  /\ \A n \in Lengths : n \in Nat /\ 1 <= n /\ n <= MaxLength
<1>1. PICK n \in Lengths : \A k \in Lengths : k <= n
  BY LengthAssumption
<1>2. MaxLength \in Lengths /\ \A k \in Lengths : k <= MaxLength
  BY <1>1 DEF MaxLength
<1> QED  BY <1>2, LengthAssumption DEF MaxWait

LEMMA SelectedIs ==
  /\ Selected \in Drive \union {NoDrive} /\ NoDrive \notin Drive
  /\ Selected # NoDrive => drive[Selected].sel
<1>1. Drive \subseteq 0 .. 3 /\ NoDrive \notin Drive
  BY DiskAssumption DEF NoDrive
<1> DEFINE s == {d \in Drive : drive[d].sel}
<1>2. CASE s = {}
  BY <1>1, <1>2 DEF Selected
<1>3. CASE s # {}
  <2>1. s \subseteq 0 .. 3
    BY <1>1
  <2>2. \E d \in s : \A e \in s : d <= e
    <3> HIDE DEF s
    <3>1. CASE 0 \in s
      BY <2>1, <3>1
    <3>2. CASE 0 \notin s /\ 1 \in s
      BY <2>1, <3>2
    <3>3. CASE 0 \notin s /\ 1 \notin s /\ 2 \in s
      BY <2>1, <3>3
    <3>4. CASE 0 \notin s /\ 1 \notin s /\ 2 \notin s
      <4>1. \A e \in s : e = 3
        BY <2>1, <3>4
      <4> QED  BY <1>3, <4>1
    <3> QED  BY <3>1, <3>2, <3>3, <3>4
  <2>3. Selected = CHOOSE d \in s : \A e \in s : d <= e
    BY <1>3 DEF Selected
  <2>4. Selected \in s
    BY <2>2, <2>3
  <2> QED  BY <1>1, <2>4
<1> QED  BY <1>2, <1>3

(* The track under the head of a drive.                                    *)
LEMMA OnDisk ==
  ASSUME NEW d \in Drive, drive[d] \in DriveRec(d), ~OffDisk(d)
  PROVE  /\ TrackOf(d) \in 1 .. Len(Disk[d])
         /\ Disk[d][TrackOf(d)] \in Seq(Bytes) /\ Len(Disk[d][TrackOf(d)]) = TrackLength(d)
         /\ Gap \in Nat /\ Gap + 1 < TrackLength(d) /\ TrackLength(d) \in Nat
<1>1. Len(Disk[d]) \in Nat
  BY TracksAre, LenProperties
<1>2. /\ drive[d].cylinder \in Nat /\ drive[d].side \in 0 .. 1
      /\ Cylinders(d) \in Nat /\ Overrun \in Nat
  BY TracksAre, DiskAssumption DEF DriveRec
<1>3. drive[d].cylinder < Cylinders(d) /\ 2 * Cylinders(d) <= Len(Disk[d])
  <2>1. 2 * Cylinders(d) <= Len(Disk[d])
    BY <1>1, Halves DEF Cylinders
  <2> QED  BY <1>2, <2>1 DEF OffDisk
<1>4. TrackOf(d) \in 1 .. Len(Disk[d])
  BY <1>1, <1>2, <1>3 DEF TrackOf
<1> QED  BY <1>4, TracksAre

(* What a line changes, as the record that HeadLine counts through.        *)
HeadRec == [ticks : Nat, dma : DmaRec, stored : 0 .. MaxLength, received : Seq(Bytes \X Bytes),
            blocks : 0 .. 1, has_sync : BOOLEAN, prev : Bytes]
HeadNow == [ticks |-> IF Selected = NoDrive THEN 0 ELSE drive[Selected].ticks, dma |-> dma,
            stored |-> stored, received |-> received, blocks |-> blocks,
            has_sync |-> head.has_sync, prev |-> head.prev]
SameWords(h, s) == h.dma = s.dma /\ h.stored = s.stored /\ h.received = s.received /\ h.blocks = s.blocks

(* After how many bytes the head is at the beginning again.                *)
Turn(s, d) ==
  LET length == IF OffDisk(d) THEN 1 ELSE TrackLength(d)
  IN  IF ~OffDisk(d) /\ s.dma.started /\ s.dma.read /\ s.dma.dont_use_gap THEN length - Gap ELSE length

(* The byte under the head, and the next one.                              *)
Aligned(s, b) == regs.wordsync /\ <<s.prev, b>> = regs.sync /\ ~s.has_sync

LEMMA TurnIs ==
  ASSUME NEW d \in Drive, drive[d] \in DriveRec(d), NEW s \in HeadRec
  PROVE  /\ Turn(s, d) \in Nat \ {0} /\ Turn(s, d) <= TrackLength(d)
         /\ ~OffDisk(d) => 2 <= Turn(s, d)
<1>1. CASE OffDisk(d)
  BY <1>1, TracksAre DEF Turn
<1>2. CASE ~OffDisk(d)
  BY <1>2, OnDisk DEF Turn
<1> QED  BY <1>1, <1>2

LEMMA ByteIsByte ==
  ASSUME NEW d \in Drive, drive[d] \in DriveRec(d), NEW s \in HeadRec, NEW noise \in Bytes,
         s.ticks < TrackLength(d)
  PROVE  UnderHead(s, d, noise) \in Bytes
<1>1. CASE OffDisk(d)
  BY <1>1 DEF UnderHead
<1>2. CASE ~OffDisk(d)
  <2>1. /\ Disk[d][TrackOf(d)] \in Seq(Bytes) /\ Len(Disk[d][TrackOf(d)]) = TrackLength(d)
        /\ s.ticks + 1 \in 1 .. TrackLength(d)
    BY <1>2, OnDisk DEF HeadRec
  <2>2. Disk[d][TrackOf(d)][s.ticks + 1] \in Bytes
    BY <2>1, ElementOfSeq
  <2> QED  BY <1>2, <2>2 DEF UnderHead
<1> QED  BY <1>1, <1>2

(* The head moves by one or two bytes, to h, and w has passed under it.    *)
Moves(s, d, noise, h, w, found) ==
  LET p1 == (s.ticks + 1) % Turn(s, d)
      p2 == (p1 + 1) % Turn(s, d)
      b1 == UnderHead(s, d, noise)
      b2 == UnderHead([s EXCEPT !.ticks = p1], d, noise)
  IN  /\ SameWords(h, s) /\ h.prev = w[2]
      /\ Word(s, d, noise) = IF s.dma.started /\ s.dma.read THEN ReadWord(h, w, found) ELSE h
      /\ \/ /\ Aligned(s, b1) /\ found
            /\ w = <<s.prev, b1>> /\ h.ticks = p1 /\ h.has_sync
         \/ /\ ~Aligned(s, b1)
            /\ w = <<b1, b2>> /\ h.ticks = p2
            /\ regs.wordsync => (h.has_sync <=> w = regs.sync)
            /\ found <=> regs.wordsync /\ w = regs.sync /\ <<s.prev, b1>> # regs.sync
      /\ p1 \in 0 .. Turn(s, d) - 1 /\ p2 \in 0 .. Turn(s, d) - 1

LEMMA WordMoves ==
  ASSUME NEW d \in Drive, drive[d] \in DriveRec(d), NEW s \in HeadRec, NEW noise \in Bytes,
         s.ticks < TrackLength(d)
  PROVE  \E h \in HeadRec, w \in Bytes \X Bytes, found \in BOOLEAN : Moves(s, d, noise, h, w, found)
<1> DEFINE t  == Turn(s, d)
           p1 == (s.ticks + 1) % t
           p2 == (p1 + 1) % t
           b1 == UnderHead(s, d, noise)
           b2 == UnderHead([s EXCEPT !.ticks = p1], d, noise)
           w1 == <<s.prev, b1>>
           w2 == <<b1, b2>>
           c1 == CheckSync(s, w1)
           s1 == NextByte(c1, d)
           n2 == NextByte(s1, d)
           c2 == CheckSync(n2, w2)
           aligned == Aligned(s, b1)
           w == IF aligned THEN w1 ELSE w2
           h == [(IF aligned THEN s1 ELSE c2) EXCEPT !.prev = w[2]]
           found == aligned \/ Found(n2, w2)
<1>1. t \in Nat \ {0} /\ t <= TrackLength(d) /\ s.ticks \in Nat /\ TrackLength(d) \in Nat
  BY TurnIs, TracksAre DEF HeadRec
<1>2. p1 \in 0 .. t - 1 /\ p2 \in 0 .. t - 1
  <2> HIDE DEF t
  <2> QED  BY <1>1
<1>3. c1 \in HeadRec /\ SameWords(c1, s) /\ c1.ticks = s.ticks
      /\ c1.has_sync = (IF regs.wordsync THEN w1 = regs.sync ELSE s.has_sync)
  BY DEF CheckSync, HeadRec, SameWords
<1>4. \A x \in HeadRec : SameWords(x, s) =>
        /\ NextByte(x, d) = [x EXCEPT !.ticks = (x.ticks + 1) % t]
  BY DEF NextByte, Turn, SameWords
<1>5. s1 = [c1 EXCEPT !.ticks = p1] /\ s1 \in HeadRec /\ SameWords(s1, s) /\ s1.ticks = p1
      /\ s1.has_sync = c1.has_sync
  <2>1. s1 = [c1 EXCEPT !.ticks = p1]
    BY <1>3, <1>4
  <2> HIDE DEF s1, c1, p1
  <2> QED  BY <1>2, <1>3, <2>1 DEF HeadRec, SameWords
<1>6. UnderHead(s1, d, noise) = b2 /\ b1 \in Bytes /\ b2 \in Bytes
  <2>1. UnderHead(s1, d, noise) = b2
    <3>1. s1.ticks = p1 /\ [s EXCEPT !.ticks = p1].ticks = p1
      BY <1>5 DEF HeadRec
    <3> HIDE DEF s1, p1
    <3> QED  BY <3>1 DEF UnderHead
  <2>2. b1 \in Bytes
    BY ByteIsByte
  <2>3. UnderHead(s1, d, noise) \in Bytes
    <3>1. s1.ticks < TrackLength(d)
      BY <1>1, <1>2, <1>5
    <3> HIDE DEF s1
    <3> QED  BY <1>5, <3>1, ByteIsByte
  <2> QED  BY <2>1, <2>2, <2>3
<1>7. n2 = [s1 EXCEPT !.ticks = p2] /\ n2 \in HeadRec /\ SameWords(n2, s) /\ n2.ticks = p2
      /\ n2.has_sync = c1.has_sync
  <2>1. n2 = [s1 EXCEPT !.ticks = p2]
    BY <1>4, <1>5
  <2>2. p2 \in Nat
    <3> HIDE DEF t, p2
    <3> QED  BY <1>1, <1>2
  <2>3. n2 = [s1 EXCEPT !.ticks = p2] /\ s1 \in HeadRec /\ SameWords(s1, s)
        /\ s1.has_sync = c1.has_sync
    BY <1>5, <2>1
  <2> HIDE DEF s1, c1, n2, p2
  <2> QED  BY <2>2, <2>3 DEF HeadRec, SameWords
<1>8. c2 \in HeadRec /\ SameWords(c2, s) /\ c2.ticks = p2
      /\ c2.has_sync = (IF regs.wordsync THEN w2 = regs.sync ELSE c1.has_sync)
  <2> HIDE DEF c1, n2, p2
  <2> QED  BY <1>7 DEF CheckSync, HeadRec, SameWords
<1>9. /\ h \in HeadRec /\ SameWords(h, s) /\ h.prev = w[2]
      /\ h.ticks = (IF aligned THEN p1 ELSE p2)
      /\ h.has_sync = (IF aligned THEN s1.has_sync ELSE c2.has_sync)
  <2>1. w[2] \in Bytes
    <3> HIDE DEF b1, b2, aligned
    <3> QED  BY <1>6
  <2> HIDE DEF s1, c1, c2, p1, p2, w, aligned
  <2> QED  BY <1>5, <1>8, <2>1 DEF HeadRec, SameWords
<1>10. w \in Bytes \X Bytes /\ found \in BOOLEAN
  <2>1. s.prev \in Bytes
    BY DEF HeadRec
  <2> HIDE DEF b1, b2, aligned
  <2> QED  BY <1>6, <2>1 DEF Found
<1>11. Found(s, w1) = aligned
  BY DEF Found, Aligned
<1>12. Word(s, d, noise) = IF h.dma.started /\ h.dma.read THEN ReadWord(h, w, found) ELSE h
  BY <1>6, <1>11 DEF Word
<1>13. CASE aligned
  <2>1. w = w1 /\ found /\ h.ticks = p1 /\ h.has_sync
    <3> HIDE DEF p1, p2, b1, b2, c1, s1, n2, c2
    <3> QED  BY <1>3, <1>5, <1>9, <1>13 DEF Aligned
  <2>2. Aligned(s, b1)
    BY <1>13
  <2> HIDE DEF aligned, w, h, found, c1, s1, n2, c2
  <2> QED  BY <1>2, <1>9, <1>10, <1>12, <2>1, <2>2 DEF SameWords, Moves
<1>14. CASE ~aligned
  <2>1. /\ w = w2 /\ h.ticks = p2
        /\ regs.wordsync => (h.has_sync <=> w = regs.sync)
        /\ found <=> regs.wordsync /\ w = regs.sync /\ ~(w1 = regs.sync)
    <3> HIDE DEF p1, p2, b1, b2, c1, s1, n2, c2
    <3> QED  BY <1>3, <1>7, <1>8, <1>9, <1>14 DEF Found
  <2>2. ~Aligned(s, b1)
    BY <1>14
  <2> HIDE DEF aligned, w, h, found, c1, s1, n2, c2
  <2> QED  BY <1>2, <1>9, <1>10, <1>12, <2>1, <2>2 DEF SameWords, Moves
<1> QED  BY <1>13, <1>14

HistoryOK == /\ begun.length \in Lengths \union {0} /\ begun.read \in BOOLEAN
             /\ steady \in BOOLEAN

(* A transfer stores as many words as it was asked for, and then requests  *)
(* its interrupt.                                                          *)
Whole(s) ==
  /\ s.dma.started /\ s.dma.read => s.stored + s.dma.wordsleft = begun.length /\ 1 <= s.dma.wordsleft
  /\ s.dma.started /\ ~s.dma.read => 1 <= s.dma.wait
  /\ s.dma.started => s.blocks = 0 /\ (begun.read <=> s.dma.read)
  /\ s.blocks = 1 /\ begun.read => s.stored = begun.length
  /\ IF steady THEN Len(s.received) = s.stored ELSE s.received = <<>>

Searching(s) == s.dma.wait_for_sync /\ ~s.dma.sync_found

Reads(r, h, w, found) ==
  /\ r \in HeadRec /\ Whole(r)
  /\ r.ticks = h.ticks /\ r.prev = h.prev /\ r.has_sync = h.has_sync
  /\ r.dma.read /\ r.dma.dont_use_gap = h.dma.dont_use_gap
  /\ r.dma.started => 1 <= r.dma.wordsleft
  /\ \/ /\ Searching(h)
        /\ r.dma = [h.dma EXCEPT !.sync_found = found]
        /\ r.received = h.received
     \/ /\ ~Searching(h) /\ ~r.dma.wait_for_sync
        /\ r.dma.sync_found <=> h.dma.sync_found /\ ~h.dma.wait_for_sync
        /\ \/ ~ChannelOn /\ r.dma.wordsleft = h.dma.wordsleft /\ r.received = h.received
           \/ /\ ChannelOn /\ r.dma.wordsleft = h.dma.wordsleft - 1
              /\ r.received = IF steady THEN Append(h.received, w) ELSE h.received

LEMMA ReadWordDoes ==
  ASSUME HistoryOK, NEW h \in HeadRec, h.dma.started, h.dma.read, Whole(h),
         NEW w \in Bytes \X Bytes, NEW found \in BOOLEAN
  PROVE  Reads(ReadWord(h, w, found), h, w, found)
<1> DEFINE m == IF ~h.dma.wait_for_sync THEN h.dma
                ELSE IF h.dma.sync_found
                     THEN [h.dma EXCEPT !.wait_for_sync = FALSE, !.sync_found = FALSE]
                     ELSE [h.dma EXCEPT !.sync_found = found]
           x == [h EXCEPT !.dma = m]
           r == ReadWord(h, w, found)
<1>1. r = IF ChannelOn /\ ~m.wait_for_sync THEN Store(x, w) ELSE x
  BY DEF ReadWord
<1>2. /\ h.dma \in DmaRec /\ h.stored \in 0 .. MaxLength /\ h.received \in Seq(Bytes \X Bytes)
      /\ h.blocks = 0 /\ begun.read /\ h.stored + h.dma.wordsleft = begun.length
      /\ 1 <= h.dma.wordsleft /\ h.dma.wordsleft \in Nat
      /\ h.ticks \in Nat /\ h.has_sync \in BOOLEAN /\ h.prev \in Bytes
  BY DEF HeadRec, Whole, DmaRec
<1>3. begun.length \in Nat /\ begun.length <= MaxLength /\ MaxLength \in Nat
  BY LengthsAre DEF HistoryOK
<1>4. /\ m \in DmaRec /\ m.started /\ m.read /\ m.dont_use_gap = h.dma.dont_use_gap
      /\ m.wordsleft = h.dma.wordsleft
      /\ Searching(h) => m = [h.dma EXCEPT !.sync_found = found] /\ m.wait_for_sync
      /\ ~Searching(h) => /\ ~m.wait_for_sync
                          /\ m.sync_found <=> h.dma.sync_found /\ ~h.dma.wait_for_sync
  BY <1>2 DEF DmaRec, Searching
<1> HIDE DEF m
<1>5. /\ x \in HeadRec /\ x.dma = m /\ SameWords([x EXCEPT !.dma = h.dma], h)
      /\ x.ticks = h.ticks /\ x.prev = h.prev /\ x.has_sync = h.has_sync
      /\ x.stored = h.stored /\ x.received = h.received /\ x.blocks = h.blocks
  BY <1>4 DEF HeadRec, SameWords
<1> HIDE DEF x
<1>6. CASE ~(ChannelOn /\ ~m.wait_for_sync)
  <2>1. r = x
    BY <1>1, <1>6
  <2>2. Whole(x)
    BY <1>2, <1>4, <1>5 DEF Whole
  <2> QED  BY <1>2, <1>4, <1>5, <1>6, <2>1, <2>2 DEF Reads
<1>7. CASE ChannelOn /\ ~m.wait_for_sync
  <2> DEFINE n == h.dma.wordsleft
  <2>1. r = Store(x, w)
    BY <1>1, <1>7
  <2> DEFINE e == [m EXCEPT !.wordsleft = n - 1, !.started = (n # 1)]
             q == IF steady THEN Append(h.received, w) ELSE h.received
             b == IF n = 1 THEN 1 ELSE 0
  <2>0. e \in DmaRec
    <3>1. n - 1 \in 0 .. MaxLength /\ (n # 1) \in BOOLEAN
      BY <1>2, <1>3 DEF DmaRec
    <3> HIDE DEF n
    <3> QED  BY <1>4, <3>1 DEF DmaRec
  <2>9. e = [[m EXCEPT !.wordsleft = @ - 1] EXCEPT !.started = (n # 1)]
    BY <1>4
  <2>10. r = [x EXCEPT !.received = q, !.stored = h.stored + 1, !.dma = e, !.blocks = b]
    <3>1. r = [x EXCEPT !.received = IF steady THEN Append(x.received, w) ELSE x.received,
                        !.stored = x.stored + 1,
                        !.dma = [[x.dma EXCEPT !.wordsleft = @ - 1]
                                   EXCEPT !.started = (x.dma.wordsleft # 1)],
                        !.blocks = IF x.dma.wordsleft = 1 THEN x.blocks + 1 ELSE x.blocks]
      <4> HIDE DEF r
      <4> QED  BY <1>5, <2>1 DEF Store, HeadRec
    <3> HIDE DEF r, e
    <3>2. (IF x.dma.wordsleft = 1 THEN x.blocks + 1 ELSE x.blocks) = b
      BY <1>2, <1>4, <1>5
    <3> QED  BY <1>4, <1>5, <2>9, <3>1, <3>2
  <2>2. /\ r.dma = e
        /\ r.ticks = h.ticks /\ r.prev = h.prev /\ r.has_sync = h.has_sync
        /\ r.stored = h.stored + 1 /\ r.blocks = b
        /\ r.received = q
        /\ r = [x EXCEPT !.dma = r.dma, !.stored = r.stored, !.blocks = r.blocks, !.received = r.received]
    <3> HIDE DEF r, q, e, b
    <3> QED  BY <1>5, <2>10 DEF HeadRec
  <2>3. r.dma \in DmaRec /\ r.stored \in 0 .. MaxLength /\ r.blocks \in 0 .. 1
    <3> HIDE DEF r, e
    <3> QED  BY <1>2, <1>3, <2>0, <2>2
  <2>4. /\ r.received \in Seq(Bytes \X Bytes)
        /\ steady => Len(r.received) = Len(h.received) + 1
    BY <1>2, <2>2, AppendProperties DEF HistoryOK
  <2>5. r \in HeadRec
    <3> HIDE DEF r
    <3> QED  BY <1>5, <2>2, <2>3, <2>4 DEF HeadRec
  <2>6. /\ r.dma.started <=> n # 1
        /\ r.dma.wordsleft = n - 1 /\ r.dma.read
        /\ r.dma.wait_for_sync <=> m.wait_for_sync
        /\ r.dma.sync_found <=> m.sync_found
        /\ r.dma.dont_use_gap = m.dont_use_gap
    BY <1>2, <1>4, <2>2 DEF DmaRec
  <2>7. Whole(r)
    <3> HIDE DEF r
    <3>1. IF steady THEN Len(r.received) = r.stored ELSE r.received = <<>>
      BY <1>2, <2>2, <2>4 DEF Whole
    <3> QED  BY <1>2, <1>3, <2>2, <2>6, <3>1 DEF Whole
  <2> HIDE DEF r
  <2>8. ~Searching(h)
    BY <1>4, <1>7
  <2>11. r.dma.started => 1 <= r.dma.wordsleft
    <3> HIDE DEF r, e, b, q
    <3> QED  BY <1>2, <2>6
  <2>12. /\ ~r.dma.wait_for_sync
         /\ r.dma.sync_found <=> h.dma.sync_found /\ ~h.dma.wait_for_sync
    <3> HIDE DEF r, e, b, q
    <3> QED  BY <1>4, <1>7, <2>6, <2>8
  <2> HIDE DEF r, e, b, m
  <2> QED  BY <1>4, <1>7, <2>2, <2>5, <2>6, <2>7, <2>8, <2>11, <2>12 DEF r, Reads
<1> QED  BY <1>6, <1>7

(* Places on a track of m bytes that is a circle.                          *)
LEMMA Circle ==
  ASSUME NEW m \in Nat, 2 <= m, NEW p \in 0 .. m - 1
  PROVE  /\ (p + 1) % m \in 0 .. m - 1 /\ (p - 1) % m \in 0 .. m - 1 /\ (p - 2) % m \in 0 .. m - 1
         /\ (p + 2) % m \in 0 .. m - 1
         /\ (((p + 1) % m) + 1) % m = (p + 2) % m
         /\ (((p + 1) % m) - 1) % m = p /\ (((p + 1) % m) - 2) % m = (p - 1) % m
         /\ (((p + 2) % m) - 2) % m = p /\ (((p + 2) % m) - 1) % m = (p + 1) % m
         /\ (((p - 1) % m) + 1) % m = p
         /\ (((p - 2) % m) + 2) % m = p /\ (((p - 2) % m) + 1) % m = (p - 1) % m
         /\ (((p - 1) % m) - 1) % m = (p - 2) % m
<1>1. (p + 1) % m \in 0 .. m - 1 /\ (p - 1) % m \in 0 .. m - 1 /\ (p - 2) % m \in 0 .. m - 1
      /\ (p + 2) % m \in 0 .. m - 1
  OBVIOUS
<1>2. (((p + 1) % m) + 1) % m = (p + 2) % m
  OBVIOUS
<1>3. (((p + 1) % m) - 1) % m = p
  OBVIOUS
<1>4. (((p + 1) % m) - 2) % m = (p - 1) % m
  OBVIOUS
<1>5. (((p + 2) % m) - 2) % m = p
  OBVIOUS
<1>6. (((p + 2) % m) - 1) % m = (p + 1) % m
  OBVIOUS
<1>7. (((p - 1) % m) + 1) % m = p
  OBVIOUS
<1>8. (((p - 2) % m) + 2) % m = p
  OBVIOUS
<1>9. (((p - 2) % m) + 1) % m = (p - 1) % m
  OBVIOUS
<1>10. (((p - 1) % m) - 1) % m = (p - 2) % m
  OBVIOUS
<1> QED  BY <1>1, <1>2, <1>3, <1>4, <1>5, <1>6, <1>7, <1>8, <1>9, <1>10, Zenon

Stays(r, s, d) ==
  /\ r \in HeadRec /\ Whole(r) /\ r.ticks < TrackLength(d)
  /\ r.dma.dont_use_gap = s.dma.dont_use_gap
  /\ r.dma.read <=> s.dma.read
  /\ r.dma.started => s.dma.started
  /\ Searching(r) => Searching(s)

LEMMA WordWhole ==
  ASSUME HistoryOK, NEW d \in Drive, drive[d] \in DriveRec(d), NEW s \in HeadRec,
         NEW noise \in Bytes, s.ticks < TrackLength(d), Whole(s)
  PROVE  Stays(Word(s, d, noise), s, d)
<1> DEFINE r == Word(s, d, noise)
<1>1. PICK h \in HeadRec, w \in Bytes \X Bytes, found \in BOOLEAN : Moves(s, d, noise, h, w, found)
  BY WordMoves
<1>2. /\ SameWords(h, s) /\ h.ticks \in 0 .. Turn(s, d) - 1
      /\ r = IF s.dma.started /\ s.dma.read THEN ReadWord(h, w, found) ELSE h
  BY <1>1 DEF Moves
<1>3. h.dma = s.dma /\ h.ticks < TrackLength(d) /\ Whole(h)
  BY <1>2, TurnIs, TracksAre DEF Whole, SameWords
<1>4. CASE s.dma.started /\ s.dma.read
  <2>1. Reads(r, h, w, found)
    BY <1>2, <1>3, <1>4, ReadWordDoes
  <2> HIDE DEF r
  <2>2. /\ r \in HeadRec /\ Whole(r) /\ r.ticks = h.ticks
        /\ r.dma.read /\ r.dma.dont_use_gap = h.dma.dont_use_gap
    BY <2>1 DEF Reads
  <2>3. Searching(h) \/ ~r.dma.wait_for_sync
    BY <2>1 DEF Reads
  <2>4. Searching(r) => Searching(s)
    BY <1>3, <2>3 DEF Searching
  <2> QED  BY <1>3, <1>4, <2>2, <2>4 DEF Stays, r
<1>5. CASE ~(s.dma.started /\ s.dma.read)
  <2>1. r = h
    BY <1>2, <1>5
  <2> QED  BY <1>3, <2>1 DEF Searching, Stays
<1> QED  BY <1>4, <1>5

(* A transfer that nothing disturbs: what it reads.                        *)
Track   == Disk[Selected][TrackOf(Selected)]
Size    == Len(Track) - (IF dma.dont_use_gap THEN Gap ELSE 0)
Syncs   == At(Track, Size, regs.sync)
Seam(w) == IF w = regs.sync /\ w = <<begun.prev, Track[begun.ticks + 1]>>
           THEN {(begun.ticks - 1) % Size} ELSE {}
FirstAt(w) == At(Track, Size, w) \union Seam(w)

Places(at, words) ==
  /\ at \in [1 .. Len(words) -> 0 .. Size - 1]
  /\ at[1] \in FirstAt(words[1])
  /\ \A i \in 2 .. Len(words) :
       /\ at[i] \in At(Track, Size, words[i])
       /\ \/ at[i] = (at[i - 1] + 2) % Size
          \/ at[i] = (at[i - 1] + 1) % Size /\ words[i] = regs.sync
  /\ WaitsForSync(Selected) => (at[1] - 2) % Size \in FirstAt(regs.sync)

(* The byte read last is the one before the head, or nothing has been read.*)
Behind(s) == s.prev = Track[((s.ticks - 1) % Size) + 1]
NotYet(s) == s.ticks = begun.ticks /\ s.prev = begun.prev /\ s.received = <<>> /\ ~s.dma.sync_found

InOrder(s) ==
  /\ s.dma.started =>
       /\ s.ticks < Size
       /\ Behind(s) \/ NotYet(s)
       /\ s.dma.sync_found =>
            s.dma.wait_for_sync /\ s.has_sync /\ (s.ticks - 2) % Size \in FirstAt(regs.sync)
       /\ s.received # <<>> => ~s.dma.wait_for_sync /\ ChannelOn
       /\ s.received = <<>> /\ WaitsForSync(Selected) /\ ChannelOn => s.dma.wait_for_sync
  /\ s.received # <<>> =>
       \E at : /\ Places(at, s.received)
               /\ s.dma.started => at[Len(s.received)] = (s.ticks - 2) % Size

OnTrack == /\ Selected \in Drive /\ DrivesOK /\ ~OffDisk(Selected)
           /\ dma \in DmaRec /\ begun.ticks \in Nat

LEMMA SizeIs ==
  ASSUME OnTrack
  PROVE  /\ Size \in Nat /\ 2 <= Size /\ Size <= Len(Track) /\ Track \in Seq(Bytes)
         /\ Len(Track) = TrackLength(Selected) /\ drive[Selected] \in DriveRec(Selected)
         /\ \A i \in 0 .. Size - 1 : \A w : i \in At(Track, Size, w) <=>
                                        w = <<Track[i + 1], Track[((i + 1) % Size) + 1]>>
<1>1. /\ Track \in Seq(Bytes) /\ Len(Track) = TrackLength(Selected) /\ Len(Track) \in Nat
      /\ Gap \in Nat /\ Gap + 1 < Len(Track) /\ drive[Selected] \in DriveRec(Selected)
  BY OnDisk DEF OnTrack, DrivesOK, Track
<1>2. Size \in Nat /\ 2 <= Size /\ Size <= Len(Track)
  BY <1>1 DEF Size
<1>3. \A i \in 0 .. Size - 1 : \A w : i \in At(Track, Size, w) <=>
                                  w = <<Track[i + 1], Track[((i + 1) % Size) + 1]>>
  BY DEF At
<1> QED  BY <1>1, <1>2, <1>3

(* One more word, right behind those that have been read.                  *)
Placed(words, p)  == \E at : Places(at, words) /\ at[Len(words)] = p
Follows(p, i, w)  == p = (i + 2) % Size \/ (p = (i + 1) % Size /\ w = regs.sync)

LEMMA PlaceNext ==
  ASSUME OnTrack, NEW words \in Seq(Bytes \X Bytes), words # <<>>, NEW at, Places(at, words),
         NEW w \in Bytes \X Bytes, NEW p \in 0 .. Size - 1, p \in At(Track, Size, w),
         Follows(p, at[Len(words)], w)
  PROVE  Placed(Append(words, w), p)
<1> DEFINE n == Len(words)
           more == Append(words, w)
           b == [i \in 1 .. n + 1 |-> IF i = n + 1 THEN p ELSE at[i]]
<1>1. n \in Nat /\ 1 <= n
  BY EmptySeq, LenProperties
<1>2. /\ Len(more) = n + 1 /\ more[n + 1] = w
      /\ \A i \in 1 .. n : more[i] = words[i]
  BY AppendProperties
<1>3. /\ b[n + 1] = p /\ \A i \in 1 .. n : b[i] = at[i]
  BY <1>1
<1>4. b \in [1 .. n + 1 -> 0 .. Size - 1]
  BY <1>1 DEF Places
<1>5. at[1] \in FirstAt(words[1]) /\ b[1] = at[1] /\ more[1] = words[1]
  BY <1>1, <1>2, <1>3 DEF Places
<1>6. ASSUME NEW i \in 2 .. n + 1
      PROVE  /\ b[i] \in At(Track, Size, more[i])
             /\ \/ b[i] = (b[i - 1] + 2) % Size
                \/ b[i] = (b[i - 1] + 1) % Size /\ more[i] = regs.sync
  <2> HIDE DEF b, more
  <2>1. CASE i = n + 1
    <3>1. i - 1 = n /\ n \in 1 .. n
      BY <1>1, <2>1
    <3>2. b[i] = p /\ b[i - 1] = at[n] /\ more[i] = w
      BY <1>2, <1>3, <2>1, <3>1
    <3> QED  BY <3>2 DEF Follows
  <2>2. CASE i # n + 1
    <3>1. i \in 2 .. n /\ i \in 1 .. n /\ i - 1 \in 1 .. n
      BY <1>1, <2>2
    <3>2. b[i] = at[i] /\ b[i - 1] = at[i - 1] /\ more[i] = words[i]
      BY <1>2, <1>3, <3>1
    <3> QED  BY <3>1, <3>2 DEF Places
  <2> QED  BY <2>1, <2>2
<1>7. WaitsForSync(Selected) => (b[1] - 2) % Size \in FirstAt(regs.sync)
  BY <1>5 DEF Places
<1>8. Places(b, more)
  <2> HIDE DEF b, more
  <2> QED  BY <1>2, <1>4, <1>5, <1>6, <1>7 DEF Places
<1> HIDE DEF b
<1> QED  BY <1>2, <1>3, <1>8 DEF Placed

LEMMA PlaceFirst ==
  ASSUME OnTrack, NEW w \in Bytes \X Bytes, NEW p \in 0 .. Size - 1, p \in FirstAt(w),
         WaitsForSync(Selected) => (p - 2) % Size \in FirstAt(regs.sync)
  PROVE  Placed(Append(<<>>, w), p)
<1> DEFINE more == Append(<<>>, w)
           b == [i \in 1 .. 1 |-> p]
<1>1. Len(more) = 1 /\ more[1] = w
  OBVIOUS
<1>2. b[1] = p /\ b \in [1 .. 1 -> 0 .. Size - 1]
  OBVIOUS
<1>3. 2 .. Len(more) = {}
  BY <1>1
<1>4. Places(b, more)
  <2> HIDE DEF b, more
  <2> QED  BY <1>1, <1>2, <1>3 DEF Places
<1> HIDE DEF b
<1> QED  BY <1>1, <1>2, <1>4 DEF Placed

(* The words that pass under the head stay in order.                       *)
LEMMA WordInOrder ==
  ASSUME HistoryOK, steady, OnTrack, NEW s \in HeadRec, Whole(s), NEW noise \in Bytes,
         s.ticks < TrackLength(Selected), s.dma.read, s.dma.dont_use_gap = dma.dont_use_gap, InOrder(s)
  PROVE  InOrder(Word(s, Selected, noise))
<1> DEFINE r == Word(s, Selected, noise)
           p == s.ticks
           p1 == (p + 1) % Size
           p2 == (p1 + 1) % Size
           b1 == Track[p + 1]
           b2 == Track[p1 + 1]
           q  == (r.ticks - 2) % Size
<1>1. PICK h \in HeadRec, w \in Bytes \X Bytes, found \in BOOLEAN :
        Moves(s, Selected, noise, h, w, found)
  BY WordMoves DEF OnTrack, DrivesOK
<1>2. /\ SameWords(h, s) /\ h.prev = w[2] /\ h.dma = s.dma /\ h.received = s.received
      /\ r = IF s.dma.started THEN ReadWord(h, w, found) ELSE h
  BY <1>1 DEF Moves, SameWords
<1>3. CASE ~s.dma.started
  <2>1. r = h
    BY <1>2, <1>3
  <2> QED  BY <1>2, <1>3, <2>1 DEF InOrder
<1>4. CASE s.dma.started
  <2>1. Reads(r, h, w, found)
    <3>1. Whole(h)
      BY <1>2 DEF Whole, SameWords
    <3> QED  BY <1>2, <1>4, <3>1, ReadWordDoes
  <2>2. /\ Size \in Nat /\ 2 <= Size /\ p \in 0 .. Size - 1
        /\ \A i \in 0 .. Size - 1 : \A x : i \in At(Track, Size, x) <=>
                                       x = <<Track[i + 1], Track[((i + 1) % Size) + 1]>>
    BY <1>4, SizeIs DEF InOrder, HeadRec
  <2>3. Turn(s, Selected) = Size /\ UnderHead(s, Selected, noise) = b1
        /\ UnderHead([s EXCEPT !.ticks = p1], Selected, noise) = b2
    <3>1. Turn(s, Selected) = Size
      BY <1>4, SizeIs DEF Turn, Size, OnTrack
    <3>2. [s EXCEPT !.ticks = p1].ticks = p1
      BY DEF HeadRec
    <3> HIDE DEF p1
    <3> QED  BY <3>1, <3>2 DEF UnderHead, Track, OnTrack
  <2>4. \/ /\ Aligned(s, b1) /\ found /\ w = <<s.prev, b1>> /\ r.ticks = p1 /\ r.has_sync
        \/ /\ ~Aligned(s, b1) /\ w = <<b1, b2>> /\ r.ticks = p2
           /\ regs.wordsync => (r.has_sync <=> w = regs.sync)
           /\ found => regs.wordsync /\ w = regs.sync
    <3> HIDE DEF r, p1, p2, b1, b2
    <3>1. r.ticks = h.ticks /\ r.has_sync = h.has_sync
      BY <2>1 DEF Reads
    <3> QED  BY <1>1, <2>3, <3>1 DEF Moves, p1, p2, b1, b2
  <2>5. /\ p1 \in 0 .. Size - 1 /\ p2 \in 0 .. Size - 1 /\ p2 = (p + 2) % Size
        /\ (p1 - 1) % Size = p /\ (p1 - 2) % Size = (p - 1) % Size
        /\ (p2 - 1) % Size = p1 /\ (p2 - 2) % Size = p
        /\ (p - 1) % Size \in 0 .. Size - 1 /\ (((p - 1) % Size) + 1) % Size = p
        /\ (((p - 2) % Size) + 2) % Size = p /\ (((p - 2) % Size) + 1) % Size = (p - 1) % Size
    <3> HIDE DEF p, p1, p2
    <3>1. /\ (p + 1) % Size \in 0 .. Size - 1 /\ (p - 1) % Size \in 0 .. Size - 1
          /\ (p + 2) % Size \in 0 .. Size - 1
          /\ (((p + 1) % Size) + 1) % Size = (p + 2) % Size
          /\ (((p + 1) % Size) - 1) % Size = p /\ (((p + 1) % Size) - 2) % Size = (p - 1) % Size
          /\ (((p + 2) % Size) - 2) % Size = p /\ (((p + 2) % Size) - 1) % Size = (p + 1) % Size
          /\ (((p - 1) % Size) + 1) % Size = p
          /\ (((p - 2) % Size) + 2) % Size = p /\ (((p - 2) % Size) + 1) % Size = (p - 1) % Size
      BY <2>2, Circle, Zenon
    <3>2. p1 = (p + 1) % Size /\ p2 = (p1 + 1) % Size
      BY DEF p1, p2
    <3> QED  BY <3>1, <3>2, Zenon
  <2> HIDE DEF r, p1, p2
  <2>6. /\ r.ticks \in 0 .. Size - 1 /\ Behind(r)
        /\ q = IF Aligned(s, b1) THEN (p - 1) % Size ELSE p
    <3>1. r.prev = w[2]
      BY <1>2, <2>1 DEF Reads
    <3>2. CASE Aligned(s, b1)
      BY <2>4, <2>5, <3>1, <3>2 DEF Behind
    <3>3. CASE ~Aligned(s, b1)
      BY <2>4, <2>5, <3>1, <3>3 DEF Behind
    <3> QED  BY <3>2, <3>3
  <2>7. /\ q \in 0 .. Size - 1 /\ q \in FirstAt(w)
        /\ Behind(s) => q \in At(Track, Size, w)
    <3>1. CASE ~Aligned(s, b1)
      <4>1. q = p /\ w = <<Track[p + 1], Track[((p + 1) % Size) + 1]>>
        BY <2>4, <2>6, <3>1 DEF p1
      <4> QED  BY <2>2, <4>1 DEF FirstAt
    <3>2. CASE Aligned(s, b1) /\ Behind(s)
      <4>1. w = <<Track[((p - 1) % Size) + 1], Track[((((p - 1) % Size) + 1) % Size) + 1]>>
        BY <2>4, <2>5, <3>2 DEF Behind
      <4> QED  BY <2>2, <2>5, <2>6, <3>2, <4>1 DEF FirstAt
    <3>3. CASE Aligned(s, b1) /\ ~Behind(s)
      <4>1. p = begun.ticks /\ s.prev = begun.prev /\ w = regs.sync
        BY <1>4, <2>4, <3>3 DEF InOrder, NotYet, Aligned
      <4>2. w = <<begun.prev, Track[begun.ticks + 1]>>
        BY <2>4, <3>3, <4>1
      <4>3. q = (begun.ticks - 1) % Size
        BY <2>6, <3>3, <4>1
      <4> QED  BY <2>5, <2>6, <3>3, <4>1, <4>2, <4>3 DEF FirstAt, Seam
    <3> QED  BY <3>1, <3>2, <3>3
  <2>8. ASSUME Searching(s) PROVE InOrder(r)
    <3>1. /\ r.dma = [s.dma EXCEPT !.sync_found = found] /\ r.received = s.received
      BY <1>2, <2>1, <2>8 DEF Reads, Searching
    <3>2. r.dma.wait_for_sync /\ (r.dma.sync_found <=> found) /\ s.received = <<>>
      BY <1>4, <2>8, <3>1 DEF Searching, InOrder, HeadRec, DmaRec
    <3>3. found => r.has_sync /\ q \in FirstAt(regs.sync)
      BY <2>4, <2>7 DEF Aligned
    <3> QED  BY <2>2, <2>6, <3>1, <3>2, <3>3 DEF InOrder
  <2>9. ASSUME ~Searching(s) PROVE InOrder(r)
    <3>1. ~r.dma.wait_for_sync /\ ~r.dma.sync_found
      BY <1>2, <1>4, <2>1, <2>9 DEF Reads, Searching, InOrder
    <3>2. CASE ~ChannelOn
      <4>1. r.received = s.received /\ s.received = <<>>
        BY <1>2, <1>4, <2>1, <2>9, <3>2 DEF Reads, Searching, InOrder
      <4> QED  BY <2>2, <2>6, <3>1, <3>2, <4>1 DEF InOrder
    <3>3. CASE ChannelOn
      <4>1. r.received = Append(s.received, w) /\ s.received \in Seq(Bytes \X Bytes)
        BY <1>2, <2>1, <2>9, <3>3 DEF Reads, Searching, HeadRec
      <4>2. r.received # <<>>
        BY <4>1, AppendProperties
      <4>3. Placed(r.received, q)
        <5>1. CASE s.received = <<>>
          <6>1. ASSUME WaitsForSync(Selected) PROVE (q - 2) % Size \in FirstAt(regs.sync)
            <7>1. s.has_sync /\ (p - 2) % Size \in FirstAt(regs.sync)
              BY <1>4, <2>9, <3>3, <5>1, <6>1 DEF InOrder, Searching
            <7>2. q = p
              BY <2>6, <7>1 DEF Aligned
            <7> QED  BY <7>1, <7>2
          <6> HIDE DEF q
          <6> QED  BY <2>7, <4>1, <5>1, <6>1, PlaceFirst
        <5>2. CASE s.received # <<>>
          <6>1. PICK at : Places(at, s.received) /\ at[Len(s.received)] = (p - 2) % Size
            BY <1>4, <5>2 DEF InOrder
          <6>2. q \in At(Track, Size, w)
            BY <1>4, <2>7, <5>2 DEF InOrder, NotYet
          <6>3. Follows(q, at[Len(s.received)], w)
            BY <2>4, <2>5, <2>6, <6>1 DEF Aligned, Follows
          <6> HIDE DEF q
          <6>4. q \in 0 .. Size - 1 /\ s.received \in Seq(Bytes \X Bytes) /\ Places(at, s.received)
            BY <2>7, <4>1, <6>1
          <6>5. Placed(Append(s.received, w), q)
            BY <5>2, <6>2, <6>3, <6>4, PlaceNext, Zenon
          <6> QED  BY <4>1, <6>5, Zenon
        <5> QED  BY <5>1, <5>2
      <4> QED  BY <2>2, <2>6, <3>1, <3>3, <4>2, <4>3 DEF InOrder, Placed
    <3> QED  BY <3>2, <3>3
  <2> QED  BY <2>8, <2>9 DEF r
<1> QED  BY <1>3, <1>4

LEMMA ModSmall == ASSUME NEW m \in Nat, NEW r \in 0 .. m - 1 PROVE r % m = r
OBVIOUS

LEMMA ModUnique ==
  ASSUME NEW m \in Nat, 1 <= m, NEW q \in Int, NEW r \in 0 .. m - 1
  PROVE  (q * m + r) % m = r
OBVIOUS

LEMMA ModExists ==
  ASSUME NEW m \in Nat, 1 <= m, NEW x \in Int
  PROVE  \E q \in Int, r \in 0 .. m - 1 : x = q * m + r
<1> DEFINE q == x \div m
<1>1. q \in Int /\ q * m <= x /\ x < q * m + m
  OBVIOUS
<1> HIDE DEF q
<1>2. x - q * m \in 0 .. m - 1 /\ x = q * m + (x - q * m)
  BY <1>1
<1> QED BY <1>1, <1>2

LEMMA ModPlus ==
  ASSUME NEW m \in Nat, 1 <= m, NEW x \in Int, NEW k \in Int
  PROVE  ((x % m) + k) % m = (x + k) % m
<1>1. PICK q \in Int, r \in 0 .. m - 1 : x = q * m + r
  BY ModExists
<1>2. x % m = r
  BY <1>1, ModUnique
<1>7. r + k \in Int
  BY <1>1
<1>3. PICK u \in Int, v \in 0 .. m - 1 : r + k = u * m + v
  BY <1>7, ModExists
<1>4. (r + k) % m = v
  BY <1>3, ModUnique
<1>5. x + k = (q + u) * m + v
  BY <1>1, <1>3
<1>6. (x + k) % m = v
  BY <1>5, ModUnique
<1> QED BY <1>2, <1>4, <1>6

(* The search for the sync word: a place where one begins that no other    *)
(* overlaps is at most n words away, and will be seen there.               *)
Starts == {i \in Syncs : (i - 1) % Size \notin Syncs}
Sees(s, j) ==
  /\ (s.ticks + j) % Size \in Starts
  /\ \/ 2 <= j
     \/ /\ s.ticks < Size
        /\ \/ j = 1
           \/ Behind(s) /\ (j = -1 /\ s.has_sync => (s.ticks - 2) % Size \in Syncs)
Near(s, n) == regs.wordsync /\ \E j \in -1 .. 2 * n - 2 : Sees(s, j)

(* After so many words of the transfer there is time for the others.       *)
Timely(s, words) ==
  s.dma.started =>
    \E n \in Nat : /\ Searching(s) => 1 <= n /\ Near(s, n)
                   /\ words + s.dma.wordsleft + n <= begun.length + TrackLength(Selected)

LEMMA NearAtStart ==
  ASSUME OnTrack, NEW s \in HeadRec, s.ticks < TrackLength(Selected), regs.wordsync, Starts # {}
  PROVE  Near(s, TrackLength(Selected))
<1> DEFINE p == s.ticks
           t == TrackLength(Selected)
<1>1. /\ Size \in Nat /\ 2 <= Size /\ Size <= t /\ t \in Nat /\ p \in Nat /\ p < t
  BY SizeIs, TracksAre DEF HeadRec, OnTrack
<1>2. PICK i \in Starts : i \in 0 .. Size - 1
  BY DEF Starts, Syncs, At
<1>3. ASSUME NEW k \in {1, 2}
      PROVE  /\ k + ((i - p - k) % Size) \in k .. Size + k - 1
             /\ (p + (k + ((i - p - k) % Size))) % Size = i
  <2> DEFINE y == (i - p - k) % Size
  <2>1. i - p - k \in Int /\ p + k \in Int
    BY <1>1, <1>2
  <2>2. y \in 0 .. Size - 1
    BY <1>1, <2>1
  <2>3. (y + (p + k)) % Size = ((i - p - k) + (p + k)) % Size
    <3>1. 1 <= Size
      BY <1>1
    <3> QED  BY <1>1, <2>1, <3>1, ModPlus, Zenon
  <2>4. (i - p - k) + (p + k) = i /\ i % Size = i
    BY <1>1, <1>2
  <2>5. y + (p + k) = p + (k + y) /\ k + y \in k .. Size + k - 1
    <3> HIDE DEF y
    <3> QED  BY <1>1, <2>2
  <2>6. (p + (k + y)) % Size = i
    <3> HIDE DEF y
    <3> QED  BY <2>3, <2>4, <2>5
  <2> QED  BY <2>5, <2>6
<1>4. CASE p < Size
  <2> DEFINE j == 1 + ((i - p - 1) % Size)
  <2>1. j \in 1 .. Size /\ (p + j) % Size = i
    BY <1>1, <1>3
  <2> HIDE DEF j
  <2>2. Sees(s, j)
    BY <1>2, <1>4, <2>1 DEF Sees
  <2>3. j \in -1 .. 2 * t - 2
    BY <1>1, <2>1
  <2> QED  BY <2>2, <2>3 DEF Near
<1>5. CASE ~(p < Size)
  <2> DEFINE j == 2 + ((i - p - 2) % Size)
  <2>1. j \in 2 .. Size + 1 /\ (p + j) % Size = i
    BY <1>1, <1>3
  <2> HIDE DEF j
  <2>2. Sees(s, j)
    BY <1>2, <2>1 DEF Sees
  <2>3. j \in -1 .. 2 * t - 2
    BY <1>1, <1>5, <2>1
  <2> QED  BY <2>2, <2>3 DEF Near
<1> QED  BY <1>4, <1>5

LEMMA WordTimely ==
  ASSUME HistoryOK, OnTrack, ChannelOn, NEW s \in HeadRec, Whole(s), NEW noise \in Bytes,
         s.ticks < TrackLength(Selected), s.dma.read, s.dma.dont_use_gap = dma.dont_use_gap,
         NEW words \in Nat, Timely(s, words)
  PROVE  Timely(Word(s, Selected, noise), words + 1)
<1> DEFINE r == Word(s, Selected, noise)
           p == s.ticks
           p1 == (p + 1) % Size
           p2 == (p1 + 1) % Size
           b1 == Track[p + 1]
           b2 == Track[p1 + 1]
           limit == begun.length + TrackLength(Selected)
<1>1. PICK h \in HeadRec, w \in Bytes \X Bytes, found \in BOOLEAN :
        Moves(s, Selected, noise, h, w, found)
  BY WordMoves DEF OnTrack, DrivesOK
<1>2. /\ SameWords(h, s) /\ h.prev = w[2] /\ h.dma = s.dma /\ h.received = s.received
      /\ r = IF s.dma.started THEN ReadWord(h, w, found) ELSE h
  BY <1>1 DEF Moves, SameWords
<1>3. CASE ~s.dma.started
  BY <1>2, <1>3 DEF Timely
<1>4. CASE s.dma.started
  <2>1. Reads(r, h, w, found)
    <3>1. Whole(h)
      BY <1>2 DEF Whole, SameWords
    <3> QED  BY <1>2, <1>4, <3>1, ReadWordDoes
  <2>2. PICK n \in Nat : /\ Searching(s) => 1 <= n /\ Near(s, n)
                         /\ words + s.dma.wordsleft + n <= limit
    BY <1>4 DEF Timely
  <2>3. s.dma.wordsleft \in Nat /\ limit \in Nat
    <3>1. s.dma.wordsleft \in 0 .. MaxLength /\ MaxLength \in Nat /\ begun.length \in Nat
      BY LengthsAre DEF HeadRec, DmaRec, HistoryOK
    <3>2. TrackLength(Selected) \in Nat
      BY TracksAre DEF OnTrack
    <3> QED  BY <3>1, <3>2
  <2>4. ASSUME ~Searching(s) PROVE Timely(r, words + 1)
    <3>1. r.dma.wordsleft = s.dma.wordsleft - 1 /\ ~Searching(r)
      BY <1>2, <2>1, <2>4 DEF Reads, Searching
    <3> HIDE DEF r, limit
    <3>2. (words + 1) + r.dma.wordsleft + n <= limit
      BY <2>2, <2>3, <3>1
    <3> QED  BY <3>1, <3>2 DEF Timely, limit
  <2>5. ASSUME Searching(s), found PROVE Timely(r, words + 1)
    <3>1. r.dma = [s.dma EXCEPT !.sync_found = found]
      BY <1>2, <2>1, <2>5 DEF Reads, Searching
    <3>2. r.dma.wordsleft = s.dma.wordsleft /\ ~Searching(r)
      BY <2>5, <3>1 DEF Searching, HeadRec, DmaRec
    <3> HIDE DEF r, limit
    <3>3. n - 1 \in Nat /\ (words + 1) + r.dma.wordsleft + (n - 1) <= limit
      BY <2>2, <2>3, <2>5, <3>2
    <3> QED  BY <3>2, <3>3 DEF Timely, limit
  <2>6. ASSUME Searching(s), ~found PROVE Timely(r, words + 1)
    <3>1. /\ Size \in Nat /\ 2 <= Size /\ p \in Nat /\ p < Len(Track)
          /\ \A i \in 0 .. Size - 1 : \A x : i \in At(Track, Size, x) <=>
                                       x = <<Track[i + 1], Track[((i + 1) % Size) + 1]>>
      BY SizeIs DEF HeadRec
    <3>2. Turn(s, Selected) = Size /\ UnderHead(s, Selected, noise) = b1
          /\ UnderHead([s EXCEPT !.ticks = p1], Selected, noise) = b2
      <4>1. Turn(s, Selected) = Size
        BY <1>4, SizeIs DEF Turn, Size, OnTrack
      <4>2. [s EXCEPT !.ticks = p1].ticks = p1
        BY DEF HeadRec
      <4> HIDE DEF p1
      <4> QED  BY <4>1, <4>2 DEF UnderHead, Track, OnTrack
    <3>3. /\ ~Aligned(s, b1) /\ w = <<b1, b2>> /\ r.ticks = p2 /\ r.prev = b2
          /\ regs.wordsync => (r.has_sync <=> w = regs.sync)
          /\ ~(regs.wordsync /\ w = regs.sync /\ <<s.prev, b1>> # regs.sync)
      <4> HIDE DEF r, p1, p2, b1, b2
      <4>1. r.ticks = h.ticks /\ r.has_sync = h.has_sync /\ r.prev = h.prev
        BY <2>1 DEF Reads
      <4> QED  BY <1>1, <2>6, <3>2, <4>1 DEF Moves, p1, p2, b1, b2
    <3>4. r.dma = s.dma
      <4>1. r.dma = [s.dma EXCEPT !.sync_found = found]
        BY <1>2, <2>1, <2>6 DEF Reads, Searching
      <4>2. s.dma \in DmaRec /\ s.dma.sync_found = FALSE /\ found = FALSE
        BY <2>6 DEF HeadRec, DmaRec, Searching
      <4> HIDE DEF r
      <4> QED  BY <4>1, <4>2 DEF DmaRec
    <3>5. PICK j \in -1 .. 2 * n - 2 : Sees(s, j)
      BY <2>2, <2>6 DEF Near
    <3>6. regs.wordsync
      BY <2>2, <2>6 DEF Near
    <3>7. /\ p1 \in 0 .. Size - 1 /\ p2 \in 0 .. Size - 1 /\ p2 = (p + 2) % Size
          /\ (p2 - 1) % Size = p1 /\ (p < Size => (p2 - 2) % Size = p)
      <4>0. Size \in Nat /\ 2 <= Size /\ 1 <= Size /\ p + 1 \in Int /\ 1 \in Int
        BY <3>1
      <4>1. (p + 1) % Size \in 0 .. Size - 1
        BY <3>1
      <4>2. p2 = ((p + 1) + 1) % Size
        BY <4>0, ModPlus, Zenon DEF p2, p1
      <4>3. (p + 1) + 1 = p + 2
        BY <3>1
      <4> HIDE DEF p1
      <4>4. p1 \in 0 .. Size - 1
        BY <4>1 DEF p1
      <4>5. (p1 + 1) % Size \in 0 .. Size - 1 /\ (((p1 + 1) % Size) - 1) % Size = p1
        BY <4>0, <4>4, Circle, Zenon
      <4>6. ASSUME p < Size PROVE (((p + 2) % Size) - 2) % Size = p
        <5>1. p \in 0 .. Size - 1
          BY <3>1, <4>6
        <5> QED  BY <4>0, <5>1, Circle, Zenon
      <4> QED  BY <4>2, <4>3, <4>4, <4>5, <4>6
    <3>8. Behind(r) /\ r.ticks < Size
      BY <3>1, <3>3, <3>7 DEF Behind
    <3>9. ASSUME p < Size, Behind(s)
          PROVE  <<s.prev, b1>> = regs.sync <=> (p - 1) % Size \in Syncs
      <4>1. /\ (p - 1) % Size \in 0 .. Size - 1 /\ (((p - 1) % Size) + 1) % Size = p
        <5>1. Size \in Nat /\ 2 <= Size /\ p \in 0 .. Size - 1
          BY <3>1, <3>9
        <5> QED  BY <5>1, Circle, Zenon
      <4> QED  BY <3>1, <3>9, <4>1 DEF Behind, Syncs
    <3>10. ASSUME p < Size
           PROVE  w = regs.sync <=> p \in Syncs
      <4>1. w = <<Track[p + 1], Track[((p + 1) % Size) + 1]>> /\ p \in 0 .. Size - 1
        BY <3>1, <3>3, <3>10
      <4>2. p \in At(Track, Size, regs.sync) <=> regs.sync = <<Track[p + 1], Track[((p + 1) % Size) + 1]>>
        BY <3>1, <4>1
      <4> QED  BY <4>1, <4>2 DEF Syncs
    <3>11. 1 <= j
      <4>1. CASE j = 0
        <5>1. p \in Starts /\ p < Size /\ Behind(s)
          <6>1. (p + j) % Size \in Starts /\ p < Size /\ Behind(s)
            BY <3>5, <4>1 DEF Sees
          <6>2. p + j = p
            BY <3>1, <4>1
          <6>3. p % Size = p
            <7>1. Size \in Nat /\ p \in 0 .. Size - 1
              BY <3>1, <6>1
            <7> QED  BY <7>1, ModSmall, Zenon
          <6> QED  BY <6>1, <6>2, <6>3
        <5>2. p \in Syncs /\ (p - 1) % Size \notin Syncs
          BY <5>1 DEF Starts
        <5> QED  BY <3>3, <3>6, <3>9, <3>10, <5>1, <5>2
      <4>2. CASE j = -1
        <5>1. (p - 1) % Size \in Starts /\ p < Size /\ Behind(s)
              /\ (s.has_sync => (p - 2) % Size \in Syncs)
          BY <3>1, <3>5, <4>2 DEF Sees
        <5>2. ((p - 1) % Size) - 1 \in Int /\ (((p - 1) % Size) - 1) % Size = (p - 2) % Size
          <6>1. Size \in Nat /\ 2 <= Size /\ p \in 0 .. Size - 1
            BY <3>1, <5>1
          <6>2. /\ (p - 1) % Size \in 0 .. Size - 1
                /\ (((p - 1) % Size) - 1) % Size = (p - 2) % Size
            BY <6>1, Circle, Zenon
          <6> QED  BY <6>1, <6>2
        <5>3. (p - 1) % Size \in Syncs /\ (p - 2) % Size \notin Syncs
          BY <5>1, <5>2 DEF Starts
        <5> QED  BY <3>3, <3>6, <3>9, <5>1, <5>3 DEF Aligned
      <4> QED  BY <3>5, <4>1, <4>2
    <3>12. (r.ticks + (j - 2)) % Size = (p + j) % Size
      <4>1. r.ticks = (p + 2) % Size /\ j - 2 \in Int /\ p + 2 \in Int /\ j \in Int
        <5>1. j - 2 \in Int /\ p + 2 \in Int /\ j \in Int
          BY <3>1, <3>5
        <5>2. r.ticks = p2 /\ p2 = (p + 2) % Size
          BY <3>3, <3>7
        <5> QED  BY <5>1, <5>2, Zenon
      <4> HIDE DEF r, p
      <4>2. (((p + 2) % Size) + (j - 2)) % Size = ((p + 2) + (j - 2)) % Size
        <5>1. Size \in Nat /\ 1 <= Size
          BY <3>1
        <5> QED  BY <4>1, <5>1, ModPlus, Zenon
      <4>3. (p + 2) + (j - 2) = p + j
        BY <3>1, <4>1
      <4> QED  BY <4>1, <4>2, <4>3
    <3>13. Sees(r, j - 2)
      <4>1. r.has_sync /\ j = 1 => (r.ticks - 2) % Size \in Syncs
        BY <3>3, <3>5, <3>6, <3>7, <3>10 DEF Sees
      <4>2. (r.ticks + (j - 2)) % Size \in Starts
        BY <3>5, <3>12 DEF Sees
      <4>3. j - 2 = -1 <=> j = 1
        BY <3>5
      <4> HIDE DEF r
      <4> QED  BY <3>8, <3>11, <4>1, <4>2, <4>3 DEF Sees
    <3>14. n - 1 \in Nat /\ 1 <= n - 1 /\ j - 2 \in -1 .. 2 * (n - 1) - 2
      BY <3>5, <3>11
    <3>15. Near(r, n - 1)
      BY <3>6, <3>13, <3>14 DEF Near
    <3> HIDE DEF r, limit
    <3>16. (words + 1) + r.dma.wordsleft + (n - 1) <= limit
      BY <2>2, <2>3, <3>4, <3>14
    <3> QED  BY <3>14, <3>15, <3>16 DEF Timely, limit
  <2> QED  BY <2>4, <2>5, <2>6
<1> QED  BY <1>3, <1>4
-----------------------------------------------------------------------------
(* The disk controller's invariant.  A transfer is whole at any time.  One *)
(* that nothing disturbs is in order, and the sync word is only found on a *)
(* disk that turns.  If it can end, then it can do so in time.             *)
DiskInv ==
  /\ TypeOK /\ drive = [d \in Drive |-> drive[d]]
  /\ Whole(HeadNow)
  /\ steady /\ begun.drive # NoDrive =>
       /\ begun.drive = Selected
       /\ dma.read => /\ dma.sync_found => Turning
                      /\ ~OffDisk(Selected) => InOrder(HeadNow)
  /\ 0 < age => dma.started /\ CanEnd /\ (dma.read => Timely(HeadNow, age * LineWords))
  /\ dma.started /\ ~dma.read => age + dma.wait <= MaxWait

LEMMA DiskTypes ==
  ASSUME TypeOK
  PROVE  /\ HeadNow \in HeadRec /\ DrivesOK /\ HistoryOK /\ dma \in DmaRec /\ begun.ticks \in Nat
         /\ Selected # NoDrive => /\ Selected \in Drive /\ HeadNow.ticks = drive[Selected].ticks
                                  /\ HeadNow.ticks < TrackLength(Selected)
         /\ HeadNow.dma = dma /\ HeadNow.stored = stored /\ HeadNow.received = received
         /\ HeadNow.blocks = blocks /\ HeadNow.prev = head.prev /\ HeadNow.has_sync = head.has_sync
<1>1. DrivesOK /\ HistoryOK /\ dma \in DmaRec
  BY DEF TypeOK, DrivesOK, DriveRec, HistoryOK, DmaRec
<1>2. ASSUME Selected # NoDrive
      PROVE  /\ Selected \in Drive /\ drive[Selected].ticks \in Nat
             /\ drive[Selected].ticks < TrackLength(Selected)
  <2>1. Selected \in Drive
    BY <1>2, SelectedIs
  <2>2. drive[Selected].ticks \in 0 .. TrackLength(Selected) - 1 /\ TrackLength(Selected) \in Nat
    BY <1>1, <2>1, TracksAre DEF DrivesOK, DriveRec
  <2> QED  BY <2>1, <2>2
<1>3. /\ stored \in 0 .. MaxLength /\ received \in Seq(Bytes \X Bytes) /\ blocks \in 0 .. 1
      /\ head.has_sync \in BOOLEAN /\ head.prev \in Bytes /\ begun.ticks \in Nat
  BY DEF TypeOK
<1>4. HeadNow.ticks = IF Selected = NoDrive THEN 0 ELSE drive[Selected].ticks
  BY DEF HeadNow
<1>5. HeadNow \in HeadRec
  <2>1. (IF Selected = NoDrive THEN 0 ELSE drive[Selected].ticks) \in Nat
    BY <1>2
  <2> QED  BY <1>1, <1>3, <2>1 DEF HeadNow, HeadRec
<1> QED  BY <1>1, <1>2, <1>3, <1>4, <1>5 DEF HeadNow

LEMMA NoWords == <<>> \in Seq(Bytes \X Bytes) /\ Len(<<>>) = 0
BY EmptySeq

LEMMA DiskInit == Init => DiskInv
<1> SUFFICES ASSUME Init
             PROVE  DiskInv
  OBVIOUS
<1>1. MaxLength \in Nat /\ MaxWait \in Nat /\ Overrun \in Nat
  BY LengthsAre, DiskAssumption
<1>2. ASSUME NEW d \in Drive
      PROVE  drive[d] \in DriveRec(d)
  <2>1. 0 \in 0 .. Cylinders(d) + Overrun /\ 0 \in 0 .. TrackLength(d) - 1
    BY <1>1, TracksAre
  <2> QED  BY <2>1 DEF Init, DriveRec
<1>3. dma \in DmaRec
  BY <1>1 DEF Init, DmaRec
<1>4. TypeOK
  <2>1. received \in Seq(Bytes \X Bytes) /\ Len(received) <= MaxLength /\ stored \in 0 .. MaxLength
        /\ steady \in BOOLEAN /\ age \in Nat /\ blocks \in 0 .. 1
    <3>1. /\ received = <<>> /\ stored = 0 /\ steady = FALSE /\ age = 0 /\ blocks = 0
      BY DEF Init
    <3>2. received \in Seq(Bytes \X Bytes) /\ Len(received) = 0
      BY <3>1, NoWords
    <3>3. Len(received) <= MaxLength /\ stored \in 0 .. MaxLength
      BY <1>1, <3>1, <3>2
    <3>4. age \in Nat /\ blocks \in 0 .. 1
      BY <3>1
    <3>5. steady \in BOOLEAN
      BY DEF Init
    <3> QED  BY <3>2, <3>3, <3>4, <3>5
  <2>2. head \in [has_sync : BOOLEAN, prev : Bytes]
    BY DEF Init, Bytes
  <2>3. begun \in [drive : Drive \union {NoDrive}, length : Lengths \union {0}, read : BOOLEAN,
                   ticks : Nat, prev : Bytes]
    BY DEF Init, Bytes
  <2>4. port \in [sel : SUBSET Drive, motor : BOOLEAN, side : 0 .. 1, dir : BOOLEAN, step : BOOLEAN]
    BY DEF Init
  <2>5. regs \in [dmaen : BOOLEAN, count : 0 .. 2, wordsync : BOOLEAN, sync : SyncWords \union {NoSync},
                  channel : BOOLEAN]
    BY DEF Init
  <2> QED  BY <1>2, <1>3, <2>1, <2>2, <2>3, <2>4, <2>5 DEF TypeOK, DriveRec, DmaRec
<1>5. drive = [d \in Drive |-> drive[d]]
  BY DEF Init
<1>6. /\ ~dma.started /\ stored = 0 /\ received = <<>> /\ blocks = 0 /\ ~steady /\ age = 0
  BY DEF Init
<1>7. Whole(HeadNow)
  BY <1>4, <1>6, DiskTypes DEF Whole
<1> QED  BY <1>4, <1>5, <1>6, <1>7 DEF DiskInv

(* What the Amiga does meanwhile disturbs a transfer but leaves it whole.  *)
LEMMA DisturbKeeps ==
  ASSUME DiskInv, TypeOK', (drive = [d \in Drive |-> drive[d]])', Disturb,
         dma' = dma \/ dma' = Cleared(dma)
  PROVE  DiskInv'
<1>1. /\ steady' = FALSE /\ age' = 0 /\ received' = <<>> /\ stored' = stored /\ blocks' = blocks
      /\ begun'.length = begun.length /\ begun'.read = begun.read
  BY DEF Disturb, DiskInv, TypeOK
<1>2. /\ dma'.started => dma' = dma
      /\ dma'.started /\ ~dma'.read => dma'.wait <= MaxWait /\ dma'.wait \in Nat
  <2>1. Cleared(dma).started = FALSE
    BY DiskTypes DEF Cleared, DiskInv, DmaRec
  <2>2. dma' \in DmaRec /\ MaxWait \in Nat
    BY LengthsAre DEF TypeOK, DmaRec
  <2> QED  BY <2>1, <2>2 DEF DmaRec
<1>3. /\ dma.started /\ dma.read => stored + dma.wordsleft = begun.length /\ 1 <= dma.wordsleft
      /\ dma.started /\ ~dma.read => 1 <= dma.wait
      /\ dma.started => blocks = 0 /\ (begun.read <=> dma.read)
      /\ blocks = 1 /\ begun.read => stored = begun.length
  BY DiskTypes DEF DiskInv, Whole
<1>4. Whole(HeadNow)'
  <2>1. /\ HeadNow'.dma = dma' /\ HeadNow'.stored = stored' /\ HeadNow'.received = received'
        /\ HeadNow'.blocks = blocks'
    BY DEF HeadNow
  <2> QED  BY <1>1, <1>2, <1>3, <2>1 DEF Whole
<1> QED  BY <1>1, <1>2, <1>4 DEF DiskInv

LEMMA DisturbTypes ==
  ASSUME DiskInv, Disturb
  PROVE  /\ received' \in Seq(Bytes \X Bytes) /\ Len(received') <= MaxLength /\ stored' \in 0 .. MaxLength
         /\ steady' \in BOOLEAN /\ age' \in Nat /\ blocks' \in 0 .. 1
         /\ begun' \in [drive : Drive \union {NoDrive}, length : Lengths \union {0}, read : BOOLEAN,
                        ticks : Nat, prev : Bytes]
         /\ Cleared(dma) \in DmaRec
<1>1. MaxLength \in Nat /\ MaxWait \in Nat /\ 0 \in Bytes
  BY LengthsAre DEF Bytes
<1>2. begun \in [drive : Drive \union {NoDrive}, length : Lengths \union {0}, read : BOOLEAN,
                 ticks : Nat, prev : Bytes]
  BY DEF DiskInv, TypeOK
<1>3. begun' \in [drive : Drive \union {NoDrive}, length : Lengths \union {0}, read : BOOLEAN,
                  ticks : Nat, prev : Bytes]
  BY <1>1, <1>2 DEF Disturb
<1>4. Cleared(dma) \in DmaRec
  <2>1. dma \in DmaRec /\ 0 \in 0 .. MaxLength /\ 0 \in 0 .. MaxWait
    BY <1>1, DiskTypes DEF DiskInv
  <2> QED  BY <2>1 DEF Cleared, DmaRec
<1>5. stored' \in 0 .. MaxLength /\ steady' \in BOOLEAN /\ age' \in Nat /\ blocks' \in 0 .. 1
  BY <1>1 DEF Disturb, DiskInv, TypeOK
<1>6. received' = <<>>
  BY DEF Disturb
<1> QED  BY <1>1, <1>3, <1>4, <1>5, <1>6, NoWords

LEMMA WriteRegisterStep ==
  ASSUME DiskInv, NEW r \in [dmaen : BOOLEAN, count : 0 .. 2, wordsync : BOOLEAN,
                             sync : SyncWords \union {NoSync}, channel : BOOLEAN],
         WriteRegister(r)
  PROVE  DiskInv'
<1>1. /\ Disturb /\ regs' = r /\ drive' = drive /\ port' = port /\ dma' = dma /\ head' = head
  BY DEF WriteRegister
<1>2. TypeOK' /\ (drive = [d \in Drive |-> drive[d]])'
  BY <1>1, DisturbTypes DEF DiskInv, TypeOK
<1> QED  BY <1>1, <1>2, DisturbKeeps

LEMMA StepSetTypes ==
  ASSUME NEW d \in Drive, NEW x \in DriveRec(d), NEW step \in BOOLEAN, NEW dir \in BOOLEAN
  PROVE  StepSet(x, d, step, dir) \in DriveRec(d)
<1>1. Cylinders(d) \in Nat /\ Overrun \in Nat
  BY TracksAre, DiskAssumption
<1> DEFINE c == IF x.step \/ step THEN x.cylinder
                ELSE IF dir THEN IF x.cylinder > 0 THEN x.cylinder - 1 ELSE x.cylinder
                ELSE IF x.cylinder < Cylinders(d) + Overrun THEN x.cylinder + 1 ELSE x.cylinder
<1>2. c \in 0 .. Cylinders(d) + Overrun
  BY <1>1 DEF DriveRec
<1>3. StepSet(x, d, step, dir) = IF ~x.sel THEN x ELSE [x EXCEPT !.step = ~step, !.cylinder = c]
  BY DEF StepSet, DriveRec
<1> HIDE DEF c
<1> QED  BY <1>2, <1>3 DEF DriveRec

LEMMA WriteBprbStep ==
  ASSUME DiskInv, NEW p \in Ports, WriteBprb(p)
  PROVE  DiskInv'
<1> DEFINE On == ~port.motor \/ ~p.motor
           Latched(d) == IF d \in port.sel \ p.sel THEN MotorSet(drive[d], On) ELSE drive[d]
           Chosen(d)  == [Latched(d) EXCEPT !.sel = d \notin p.sel, !.side = p.side]
<1>1. /\ Disturb /\ port' = p /\ regs' = regs /\ dma' = dma /\ head' = head
      /\ drive' = [d \in Drive |-> StepSet(Chosen(d), d, p.step, p.dir)]
  BY DEF WriteBprb
<1>2. p \in [sel : SUBSET Drive, motor : BOOLEAN, side : 0 .. 1, dir : BOOLEAN, step : BOOLEAN]
  BY PortAssumption
<1>3. ASSUME NEW d \in Drive
      PROVE  drive'[d] \in DriveRec(d)
  <2>1. drive[d] \in DriveRec(d) /\ 0 \in 0 .. TrackLength(d) - 1
    BY TracksAre, DiskTypes DEF DiskInv, DrivesOK
  <2>2. MotorSet(drive[d], On) \in DriveRec(d)
    <3>1. On \in BOOLEAN
      BY <1>2
    <3> HIDE DEF On
    <3> QED  BY <2>1, <3>1 DEF MotorSet, DriveRec
  <2>3. Latched(d) \in DriveRec(d)
    <3> HIDE DEF On
    <3> QED  BY <2>1, <2>2
  <2>4. Chosen(d) \in DriveRec(d)
    <3> HIDE DEF Latched
    <3> QED  BY <1>2, <2>3 DEF DriveRec
  <2> HIDE DEF Chosen
  <2>5. StepSet(Chosen(d), d, p.step, p.dir) \in DriveRec(d)
    BY <1>2, <2>4, StepSetTypes
  <2> QED  BY <1>1, <2>5
<1>4. (drive = [d \in Drive |-> drive[d]])'
  BY <1>1
<1>5. TypeOK'
  <2>1. regs' = regs /\ dma' = dma /\ head' = head /\ port' = p /\ Disturb
    BY <1>1
  <2> QED  BY <1>2, <1>3, <2>1, DisturbTypes DEF DiskInv, TypeOK, DriveRec
<1> QED  BY <1>1, <1>4, <1>5, DisturbKeeps

LEMMA DiskResetStep == ASSUME DiskInv, HardReset PROVE DiskInv'
<1>1. /\ Disturb /\ dma' = Cleared(dma) /\ head' = head
      /\ port' = [sel |-> {}, motor |-> FALSE, side |-> 0, dir |-> FALSE, step |-> FALSE]
      /\ regs' = [dmaen |-> FALSE, count |-> 0, wordsync |-> FALSE, sync |-> NoSync, channel |-> FALSE]
      /\ drive' = [d \in Drive |-> [drive[d] EXCEPT !.sel = FALSE, !.motor = FALSE, !.side = 0,
                                                    !.cylinder = 0, !.ticks = 0]]
  BY DEF HardReset
<1>2. ASSUME NEW d \in Drive
      PROVE  drive'[d] \in DriveRec(d)
  <2>1. drive[d] \in DriveRec(d) /\ 0 \in 0 .. TrackLength(d) - 1 /\ 0 \in 0 .. Cylinders(d) + Overrun
    BY TracksAre, DiskTypes, DiskAssumption DEF DiskInv, DrivesOK
  <2>2. drive'[d] = [drive[d] EXCEPT !.sel = FALSE, !.motor = FALSE, !.side = 0,
                                     !.cylinder = 0, !.ticks = 0]
    BY <1>1
  <2>3. drive'[d] = [sel |-> FALSE, motor |-> FALSE, step |-> drive[d].step, side |-> 0,
                     cylinder |-> 0, ticks |-> 0]
    BY <2>1, <2>2 DEF DriveRec
  <2> QED  BY <2>1, <2>3 DEF DriveRec
<1>3. TypeOK'
  <2>1. dma' \in DmaRec /\ head' = head /\ Disturb
    BY <1>1, DisturbTypes
  <2>2. /\ port' \in [sel : SUBSET Drive, motor : BOOLEAN, side : 0 .. 1, dir : BOOLEAN,
                      step : BOOLEAN]
        /\ regs' \in [dmaen : BOOLEAN, count : 0 .. 2, wordsync : BOOLEAN,
                      sync : SyncWords \union {NoSync}, channel : BOOLEAN]
    <3>1. /\ port' = [sel |-> {}, motor |-> FALSE, side |-> 0, dir |-> FALSE, step |-> FALSE]
          /\ regs' = [dmaen |-> FALSE, count |-> 0, wordsync |-> FALSE, sync |-> NoSync,
                      channel |-> FALSE]
      BY <1>1
    <3> QED  BY <3>1
  <2> QED  BY <1>2, <2>1, <2>2, DisturbTypes DEF DiskInv, TypeOK, DriveRec, DmaRec
<1>4. (drive = [d \in Drive |-> drive[d]])'
  BY <1>1
<1> QED  BY <1>1, <1>3, <1>4, DisturbKeeps

(* A drive's head moves over the track: nothing else changes with it.      *)
SameDrives == \A d \in Drive : /\ drive'[d].sel = drive[d].sel /\ drive'[d].motor = drive[d].motor
                               /\ drive'[d].cylinder = drive[d].cylinder
                               /\ drive'[d].side = drive[d].side

LEMMA SameDrivesAre ==
  ASSUME SameDrives
  PROVE  /\ Selected' = Selected /\ (Turning' <=> Turning)
         /\ \A d \in Drive : TrackOf(d)' = TrackOf(d) /\ (OffDisk(d)' <=> OffDisk(d))
<1> DEFINE Sel(f) == {d \in Drive : f[d].sel}
           First(s) == IF s = {} THEN NoDrive ELSE CHOOSE d \in s : \A e \in s : d <= e
<1>1. Sel(drive') = Sel(drive)
  BY DEF SameDrives
<1>2. Selected' = Selected
  <2>1. Selected = First(Sel(drive)) /\ Selected' = First(Sel(drive'))
    BY Zenon DEF Selected
  <2> HIDE DEF Sel, First
  <2> QED  BY <1>1, <2>1
<1>3. \A d \in Drive : TrackOf(d)' = TrackOf(d) /\ (OffDisk(d)' <=> OffDisk(d))
  BY DEF SameDrives, TrackOf, OffDisk
<1>4. \A d \in Drive : Spinning(d)' <=> Spinning(d)
  BY DEF SameDrives, Spinning
<1>5. Turning' <=> Turning
  <2>2. CASE Selected = NoDrive
    BY <1>2, <2>2 DEF Turning
  <2>3. CASE Selected # NoDrive
    <3>1. Selected \in Drive
      BY <2>3, SelectedIs
    <3>2. drive'[Selected].motor = drive[Selected].motor
      BY <3>1 DEF SameDrives
    <3> QED  BY <1>2, <2>3, <3>2 DEF Turning, Spinning
  <2> QED  BY <2>2, <2>3
<1> QED  BY <1>2, <1>3, <1>5

LEMMA TicksMove ==
  ASSUME DrivesOK, drive = [d \in Drive |-> drive[d]], NEW e \in Drive,
         NEW t \in 0 .. TrackLength(e) - 1, drive' = [drive EXCEPT ![e].ticks = t]
  PROVE  SameDrives /\ DrivesOK' /\ (drive = [d \in Drive |-> drive[d]])' /\ drive'[e].ticks = t
<1>1. ASSUME NEW d \in Drive
      PROVE  drive'[d] = IF d = e THEN [drive[d] EXCEPT !.ticks = t] ELSE drive[d]
  OBVIOUS
<1>2. ASSUME NEW d \in Drive
      PROVE  /\ drive'[d] \in DriveRec(d)
             /\ drive'[d].sel = drive[d].sel /\ drive'[d].motor = drive[d].motor
             /\ drive'[d].cylinder = drive[d].cylinder /\ drive'[d].side = drive[d].side
  <2>1. drive[d] \in DriveRec(d)
    BY DEF DrivesOK
  <2>2. CASE d = e
    BY <1>1, <2>1, <2>2 DEF DriveRec
  <2>3. CASE d # e
    BY <1>1, <2>1, <2>3
  <2> QED  BY <2>2, <2>3
<1>3. drive'[e].ticks = t
  BY <1>1 DEF DrivesOK, DriveRec
<1>4. (drive = [d \in Drive |-> drive[d]])'
  OBVIOUS
<1> QED  BY <1>2, <1>3, <1>4 DEF SameDrives, DrivesOK

(* A transfer begins, with the head anywhere on the track.                 *)
LEMMA ReadBegins ==
  ASSUME DiskInv, NEW length \in Lengths, NEW kickstart \in BOOLEAN, ReadInit(length, kickstart)
  PROVE  /\ dma' \in DmaRec /\ dma'.started /\ dma'.read /\ dma'.wordsleft = length
         /\ SameDrives /\ DrivesOK' /\ (drive = [d \in Drive |-> drive[d]])'
         /\ Selected # NoDrive =>
              /\ ~dma'.sync_found /\ (dma'.wait_for_sync <=> WaitsForSync(Selected))
              /\ (dma'.dont_use_gap <=> kickstart)
              /\ kickstart => drive'[Selected].ticks = 0
                              \/ drive'[Selected].ticks < TrackLength(Selected) - Gap
<1>1. /\ dma \in DmaRec /\ DrivesOK /\ drive = [d \in Drive |-> drive[d]]
      /\ length \in 0 .. MaxLength
  BY DiskTypes, LengthsAre DEF DiskInv
<1> DEFINE d == Selected
           m == [dma EXCEPT !.started = TRUE, !.read = TRUE, !.wordsleft = length]
<1>2. m \in DmaRec /\ m.started /\ m.read /\ m.wordsleft = length
  BY <1>1 DEF DmaRec
<1>3. CASE Selected = NoDrive
  <2>1. dma' = m /\ drive' = drive
    BY <1>3 DEF ReadInit
  <2>2. SameDrives
    BY <2>1 DEF SameDrives
  <2> QED  BY <1>1, <1>2, <1>3, <2>1, <2>2 DEF DrivesOK
<1>4. CASE Selected # NoDrive
  <2>1. /\ dma' = [m EXCEPT !.wait_for_sync = WaitsForSync(d), !.sync_found = FALSE,
                            !.dont_use_gap = kickstart]
        /\ drive' = IF kickstart /\ drive[d].ticks >= TrackLength(d) - Gap
                    THEN [drive EXCEPT ![d].ticks = 0] ELSE drive
    BY <1>4 DEF ReadInit
  <2>2. WaitsForSync(d) \in BOOLEAN
    BY DEF WaitsForSync, DiskInv, TypeOK
  <2> HIDE DEF m
  <2>3. /\ dma' \in DmaRec /\ dma'.started /\ dma'.read /\ dma'.wordsleft = length
        /\ ~dma'.sync_found /\ (dma'.wait_for_sync <=> WaitsForSync(d))
        /\ (dma'.dont_use_gap <=> kickstart)
    BY <1>2, <2>1, <2>2 DEF DmaRec
  <2>4. d \in Drive /\ TrackLength(d) \in Nat /\ 0 \in 0 .. TrackLength(d) - 1
        /\ drive[d].ticks \in Nat /\ Gap \in Nat
    BY <1>1, <1>4, SelectedIs, TracksAre, DiskAssumption DEF DrivesOK, DriveRec
  <2>5. CASE kickstart /\ drive[d].ticks >= TrackLength(d) - Gap
    <3>1. drive' = [drive EXCEPT ![d].ticks = 0]
      BY <2>1, <2>5
    <3>2. SameDrives /\ DrivesOK' /\ (drive = [c \in Drive |-> drive[c]])' /\ drive'[d].ticks = 0
      <4> HIDE DEF d
      <4> QED  BY <1>1, <2>4, <3>1, TicksMove
    <3> QED  BY <2>3, <3>2
  <2>6. CASE ~(kickstart /\ drive[d].ticks >= TrackLength(d) - Gap)
    <3>1. drive' = drive
      BY <2>1, <2>6
    <3>2. SameDrives /\ DrivesOK'
      BY <1>1, <3>1 DEF SameDrives, DrivesOK
    <3>3. kickstart => drive'[d].ticks < TrackLength(d) - Gap
      BY <2>4, <2>6, <3>1
    <3> QED  BY <1>1, <2>3, <3>1, <3>2, <3>3
  <2> QED  BY <2>5, <2>6
<1> QED  BY <1>3, <1>4

RegsRec == [dmaen : BOOLEAN, count : 0 .. 2, wordsync : BOOLEAN, sync : SyncWords \union {NoSync},
            channel : BOOLEAN]

LEMMA DsklenCounts ==
  ASSUME NEW r \in RegsRec, NEW dmaen \in BOOLEAN, NEW s,
         s = [r EXCEPT !.dmaen = dmaen, !.count = IF ~dmaen THEN 0 ELSE IF @ = 0 THEN 1 ELSE 2]
  PROVE  s \in RegsRec /\ s.wordsync = r.wordsync /\ s.sync = r.sync
<1> DEFINE c == IF ~dmaen THEN 0 ELSE IF r.count = 0 THEN 1 ELSE 2
<1>1. c \in 0 .. 2
  OBVIOUS
<1>2. s = [r EXCEPT !.dmaen = dmaen, !.count = c]
  BY DEF RegsRec
<1> HIDE DEF c
<1> QED  BY <1>1, <1>2 DEF RegsRec

LEMMA StartsTransfer ==
  ASSUME DiskInv, NEW dmaen \in BOOLEAN, NEW write \in BOOLEAN, NEW kickstart \in BOOLEAN,
         NEW length \in Lengths, WriteDsklen(dmaen, write, length, kickstart),
         dmaen, regs.count >= 1, dma' \in DmaRec, SameDrives, DrivesOK'
  PROVE  /\ TypeOK' /\ Selected' = Selected
         /\ stored' = 0 /\ received' = <<>> /\ blocks' = 0 /\ steady' /\ age' = 0
         /\ begun'.length = length /\ (begun'.read <=> ~write)
         /\ begun'.drive = Selected /\ begun'.prev = head'.prev
         /\ Selected # NoDrive => begun'.ticks = drive'[Selected].ticks
         /\ regs'.wordsync = regs.wordsync /\ regs'.sync = regs.sync
<1>1. /\ regs' = [regs EXCEPT !.dmaen = dmaen, !.count = IF ~dmaen THEN 0 ELSE IF @ = 0 THEN 1 ELSE 2]
      /\ stored' = 0 /\ received' = <<>> /\ blocks' = 0 /\ steady' = TRUE /\ age' = 0
      /\ begun' = [drive |-> Selected, length |-> length, read |-> ~write, prev |-> head.prev,
                   ticks |-> IF Selected = NoDrive THEN 0 ELSE drive'[Selected].ticks]
      /\ port' = port /\ head' = head
  BY DEF WriteDsklen
<1>2. regs \in [dmaen : BOOLEAN, count : 0 .. 2, wordsync : BOOLEAN, sync : SyncWords \union {NoSync},
                channel : BOOLEAN]
  BY DEF DiskInv, TypeOK
<1>3. /\ regs' \in [dmaen : BOOLEAN, count : 0 .. 2, wordsync : BOOLEAN,
                    sync : SyncWords \union {NoSync}, channel : BOOLEAN]
      /\ regs'.wordsync = regs.wordsync /\ regs'.sync = regs.sync
  BY <1>1, <1>2, DsklenCounts DEF RegsRec
<1>4. Selected' = Selected /\ Selected \in Drive \union {NoDrive}
  BY SameDrivesAre, SelectedIs
<1>5. ASSUME Selected # NoDrive
      PROVE  drive'[Selected].ticks \in Nat
  <2>1. Selected \in Drive
    BY <1>4, <1>5
  <2>2. drive'[Selected] \in DriveRec(Selected)
    BY <2>1 DEF DrivesOK
  <2> QED  BY <2>1, <2>2, TracksAre DEF DriveRec
<1>6. begun' \in [drive : Drive \union {NoDrive}, length : Lengths \union {0}, read : BOOLEAN,
                  ticks : Nat, prev : Bytes]
  <2>1. head.prev \in Bytes
    BY DEF DiskInv, TypeOK
  <2>2. (IF Selected = NoDrive THEN 0 ELSE drive'[Selected].ticks) \in Nat
    BY <1>5
  <2> QED  BY <1>1, <1>4, <2>1, <2>2
<1>7. /\ received' \in Seq(Bytes \X Bytes) /\ Len(received') <= MaxLength /\ stored' \in 0 .. MaxLength
      /\ blocks' \in 0 .. 1 /\ age' \in Nat
  BY <1>1, NoWords, LengthsAre
<1>8. steady' \in BOOLEAN /\ steady'
  BY <1>1
<1>9. TypeOK'
  <2>1. port' = port /\ head' = head
    BY <1>1
  <2> QED  BY <1>3, <1>6, <1>7, <1>8, <2>1 DEF DiskInv, TypeOK, DrivesOK, DriveRec, DmaRec
<1>10. /\ begun'.length = length /\ (begun'.read <=> ~write)
       /\ begun'.drive = Selected /\ begun'.prev = head'.prev
       /\ Selected # NoDrive => begun'.ticks = drive'[Selected].ticks
  BY <1>1
<1> QED  BY <1>1, <1>3, <1>4, <1>8, <1>9, <1>10

LEMMA ReadStarts ==
  ASSUME DiskInv, NEW dmaen \in BOOLEAN, NEW kickstart \in BOOLEAN, NEW length \in Lengths,
         WriteDsklen(dmaen, FALSE, length, kickstart), dmaen, regs.count >= 1
  PROVE  DiskInv'
<1>1. ReadInit(length, kickstart)
  BY DEF WriteDsklen
<1>2. /\ dma' \in DmaRec /\ dma'.started /\ dma'.read /\ dma'.wordsleft = length
      /\ SameDrives /\ DrivesOK' /\ (drive = [d \in Drive |-> drive[d]])'
  BY <1>1, ReadBegins
<1>3. /\ TypeOK' /\ Selected' = Selected
      /\ stored' = 0 /\ received' = <<>> /\ blocks' = 0 /\ steady' /\ age' = 0
      /\ begun'.length = length /\ (begun'.read <=> ~FALSE)
      /\ begun'.drive = Selected /\ begun'.prev = head'.prev
      /\ Selected # NoDrive => begun'.ticks = drive'[Selected].ticks
      /\ regs'.wordsync = regs.wordsync /\ regs'.sync = regs.sync
  BY <1>2, StartsTransfer
<1>4. /\ HeadNow'.dma = dma' /\ HeadNow'.stored = stored' /\ HeadNow'.received = received'
      /\ HeadNow'.blocks = blocks' /\ HeadNow'.prev = head'.prev
      /\ HeadNow'.ticks = IF Selected' = NoDrive THEN 0 ELSE drive'[Selected'].ticks
  BY DEF HeadNow
<1>5. Whole(HeadNow)'
  <2>1. length \in Nat /\ 1 <= length /\ Len(<<>>) = 0
    BY LengthsAre, NoWords
  <2> QED  BY <1>2, <1>3, <1>4, <2>1 DEF Whole
<1>6. ASSUME Selected # NoDrive
      PROVE  ~dma'.sync_found /\ (~OffDisk(Selected) => InOrder(HeadNow))'
  <2>1. /\ ~dma'.sync_found /\ (dma'.wait_for_sync <=> WaitsForSync(Selected))
        /\ (dma'.dont_use_gap <=> kickstart)
        /\ kickstart => drive'[Selected].ticks = 0
                        \/ drive'[Selected].ticks < TrackLength(Selected) - Gap
    BY <1>1, <1>6, ReadBegins
  <2>2. Selected \in Drive /\ drive'[Selected] \in DriveRec(Selected)
    BY <1>2, <1>6, SelectedIs DEF DrivesOK
  <2>3. ASSUME ~OffDisk(Selected)'
        PROVE  HeadNow'.ticks < Size'
    <3>1. /\ Track' = Disk[Selected][TrackOf(Selected)] /\ ~OffDisk(Selected)
      BY <1>2, <1>3, <2>2, <2>3, SameDrivesAre DEF Track
    <3>2. /\ Len(Track') = TrackLength(Selected) /\ Gap \in Nat /\ TrackLength(Selected) \in Nat
          /\ Gap + 1 < TrackLength(Selected)
      BY <2>2, <3>1, OnDisk, DiskTypes DEF DiskInv, DrivesOK
    <3>3. Size' = TrackLength(Selected) - (IF kickstart THEN Gap ELSE 0)
      BY <2>1, <3>2 DEF Size
    <3>4. drive'[Selected].ticks \in 0 .. TrackLength(Selected) - 1
      BY <2>2 DEF DriveRec
    <3> QED  BY <1>3, <1>4, <1>6, <2>1, <3>2, <3>3, <3>4
  <2>4. WaitsForSync(Selected)' <=> WaitsForSync(Selected)
    BY <1>3 DEF WaitsForSync
  <2>5. NotYet(HeadNow)'
    BY <1>3, <1>4, <1>6, <2>1 DEF NotYet
  <2>6. (~OffDisk(Selected) => InOrder(HeadNow))'
    BY <1>3, <1>4, <2>1, <2>3, <2>4, <2>5 DEF InOrder
  <2> QED  BY <2>1, <2>6
<1> QED  BY <1>2, <1>3, <1>5, <1>6 DEF DiskInv

LEMMA WriteStarts ==
  ASSUME DiskInv, NEW dmaen \in BOOLEAN, NEW kickstart \in BOOLEAN, NEW length \in Lengths,
         WriteDsklen(dmaen, TRUE, length, kickstart), dmaen, regs.count >= 1
  PROVE  DiskInv'
<1>1. /\ drive' = drive
      /\ dma' = [dma EXCEPT !.started = TRUE, !.read = FALSE,
                            !.wait = (length * 2) \div LineWords + WaitInitial]
  BY DEF WriteDsklen, WriteInit
<1> DEFINE wait == (length * 2) \div LineWords + WaitInitial
<1>2. wait \in 1 .. MaxWait
  <2>1. \A n, w \in Nat : 1 <= w => n \div w \in Nat /\ n \div w <= n
    <3> SUFFICES ASSUME NEW n \in Nat, NEW w \in Nat, 1 <= w
                 PROVE  n \div w \in Nat /\ n \div w <= n
      OBVIOUS
    <3>1. n \div w \in Nat /\ n = (n \div w) * w + (n % w) /\ n % w \in 0 .. w - 1
      BY DivMod
    <3> DEFINE q == n \div w
    <3> HIDE DEF q
    <3>2. q \in Nat /\ q * w <= n
      BY <3>1 DEF q
    <3>3. q <= q * w
      BY <3>2
    <3> QED  BY <3>2, <3>3 DEF q
  <2>2. length * 2 \in Nat /\ length * 2 <= MaxLength * 2
    BY LengthsAre
  <2> QED  BY <2>1, <2>2, LengthsAre
<1>3. dma' \in DmaRec /\ dma'.started /\ ~dma'.read /\ dma'.wait \in 1 .. MaxWait
  <2>1. dma \in DmaRec
    BY DiskTypes DEF DiskInv
  <2> HIDE DEF wait
  <2>2. wait \in 0 .. MaxWait
    BY <1>2, LengthsAre
  <2> QED  BY <1>1, <1>2, <2>1, <2>2 DEF DmaRec, wait
<1>4. SameDrives /\ DrivesOK' /\ (drive = [d \in Drive |-> drive[d]])'
  BY <1>1, DiskTypes DEF DiskInv, SameDrives, DrivesOK
<1>5. /\ TypeOK' /\ Selected' = Selected
      /\ stored' = 0 /\ received' = <<>> /\ blocks' = 0 /\ steady' /\ age' = 0
      /\ begun'.length = length /\ (begun'.read <=> ~TRUE) /\ begun'.drive = Selected
  BY <1>3, <1>4, StartsTransfer
<1>6. Whole(HeadNow)'
  <2>1. /\ HeadNow'.dma = dma' /\ HeadNow'.stored = stored' /\ HeadNow'.received = received'
        /\ HeadNow'.blocks = blocks' /\ Len(<<>>) = 0
    BY NoWords DEF HeadNow
  <2> QED  BY <1>3, <1>5, <2>1 DEF Whole
<1>7. age' + dma'.wait <= MaxWait
  BY <1>3, <1>5, LengthsAre
<1> QED  BY <1>3, <1>4, <1>5, <1>6, <1>7 DEF DiskInv

LEMMA WriteDsklenStep ==
  ASSUME DiskInv, NEW dmaen \in BOOLEAN, NEW write \in BOOLEAN, NEW kickstart \in BOOLEAN,
         NEW length \in Lengths, WriteDsklen(dmaen, write, length, kickstart)
  PROVE  DiskInv'
<1>1. CASE dmaen /\ regs.count >= 1 /\ write
  <2>1. write = TRUE
    BY <1>1
  <2> QED  BY <1>1, <2>1, WriteStarts
<1>2. CASE dmaen /\ regs.count >= 1 /\ ~write
  <2>1. write = FALSE
    BY <1>2
  <2> QED  BY <1>2, <2>1, ReadStarts
<1>3. CASE ~(dmaen /\ regs.count >= 1)
  <2>1. /\ regs' = [regs EXCEPT !.dmaen = dmaen,
                                !.count = IF ~dmaen THEN 0 ELSE IF @ = 0 THEN 1 ELSE 2]
        /\ Disturb /\ drive' = drive /\ port' = port /\ head' = head
        /\ dma' = dma \/ dma' = Cleared(dma)
    BY <1>3 DEF WriteDsklen
  <2>2. regs \in [dmaen : BOOLEAN, count : 0 .. 2, wordsync : BOOLEAN,
                  sync : SyncWords \union {NoSync}, channel : BOOLEAN]
    BY DEF DiskInv, TypeOK
  <2>3. regs' \in [dmaen : BOOLEAN, count : 0 .. 2, wordsync : BOOLEAN,
                   sync : SyncWords \union {NoSync}, channel : BOOLEAN]
    BY <2>1, <2>2, DsklenCounts DEF RegsRec
  <2>4. dma' \in DmaRec
    BY <2>1, DisturbTypes, DiskTypes DEF DiskInv
  <2>5. TypeOK' /\ (drive = [d \in Drive |-> drive[d]])'
    BY <2>1, <2>3, <2>4, DisturbTypes DEF DiskInv, TypeOK, DmaRec
  <2> QED  BY <2>1, <2>5, DisturbKeeps
<1> QED  BY <1>1, <1>2, <1>3

(* The end of a line.                                                      *)
LEMMA WriteLineStep == ASSUME DiskInv, WriteLine PROVE DiskInv'
<1>1. /\ dma.started /\ ~dma.read /\ dma \in DmaRec /\ MaxWait \in Nat /\ age \in Nat
      /\ 1 <= dma.wait /\ blocks = 0 /\ ~begun.read /\ age + dma.wait <= MaxWait
      /\ IF steady THEN Len(received) = stored ELSE received = <<>>
  BY DiskTypes, LengthsAre DEF WriteLine, DiskInv, Whole, TypeOK
<1>2. /\ dma' = [dma EXCEPT !.wait = @ - 1, !.started = dma.wait # 1]
      /\ blocks' = IF dma'.started THEN blocks ELSE blocks + 1
      /\ head' = [head EXCEPT !.has_sync = FALSE]
      /\ age' = IF dma'.started /\ CanEnd THEN age + 1 ELSE 0
      /\ drive' = drive /\ port' = port /\ regs' = regs /\ stored' = stored
      /\ received' = received /\ begun' = begun /\ steady' = steady
  BY DEF WriteLine, WriteWait, Age
<1>3. /\ dma' \in DmaRec /\ ~dma'.read /\ dma'.wait = dma.wait - 1
      /\ dma'.started <=> dma.wait # 1
  <2> DEFINE w == dma.wait - 1
             b == dma.wait # 1
  <2>1. w \in 0 .. MaxWait /\ b \in BOOLEAN
    BY <1>1 DEF DmaRec
  <2>2. dma' = [dma EXCEPT !.wait = w, !.started = b]
    BY <1>2
  <2>3. w = dma.wait - 1 /\ (b <=> dma.wait # 1)
    OBVIOUS
  <2> HIDE DEF w, b
  <2> QED  BY <1>1, <2>1, <2>2, <2>3 DEF DmaRec
<1>4. CanEnd /\ CanEnd'
  BY <1>1, <1>3 DEF CanEnd
<1>5. /\ blocks' \in 0 .. 1 /\ (dma'.started => blocks' = 0)
      /\ age' \in Nat /\ (0 < age' => dma'.started) /\ age' <= age + 1
      /\ dma'.started => 1 <= dma'.wait
  BY <1>1, <1>2, <1>3 DEF DmaRec
<1>6. TypeOK'
  <2>1. head' \in [has_sync : BOOLEAN, prev : Bytes]
    BY <1>2 DEF DiskInv, TypeOK
  <2>2. /\ drive' = drive /\ port' = port /\ regs' = regs /\ stored' = stored
        /\ received' = received /\ begun' = begun /\ steady' = steady
    BY <1>2
  <2> QED  BY <1>3, <1>5, <2>1, <2>2 DEF DiskInv, TypeOK, DmaRec
<1>7. Whole(HeadNow)'
  <2>1. /\ HeadNow'.dma = dma' /\ HeadNow'.stored = stored' /\ HeadNow'.received = received'
        /\ HeadNow'.blocks = blocks'
    BY DEF HeadNow
  <2> QED  BY <1>1, <1>2, <1>3, <1>5, <2>1 DEF Whole
<1>8. dma'.started => age' + dma'.wait <= MaxWait
  BY <1>1, <1>3, <1>5 DEF DmaRec
<1>9. SameDrives /\ (drive = [d \in Drive |-> drive[d]])'
  BY <1>2 DEF SameDrives, DiskInv
<1>10. Selected' = Selected
  BY <1>9, SameDrivesAre
<1>11. (steady /\ begun.drive # NoDrive => begun.drive = Selected)'
  BY <1>2, <1>10 DEF DiskInv
<1> QED  BY <1>3, <1>4, <1>5, <1>6, <1>7, <1>8, <1>9, <1>11 DEF DiskInv

LEMMA IdleLineStep == ASSUME DiskInv, IdleLine PROVE DiskInv'
<1>1. /\ dma.started => dma.read
      /\ ~Turning /\ head' = [head EXCEPT !.has_sync = FALSE] /\ dma' = dma
      /\ age' = IF dma'.started /\ CanEnd THEN age + 1 ELSE 0
      /\ drive' = drive /\ port' = port /\ regs' = regs /\ stored' = stored
      /\ received' = received /\ begun' = begun /\ steady' = steady /\ blocks' = blocks
  BY DEF IdleLine, Age
<1>2. age' = 0
  BY <1>1 DEF CanEnd
<1>3. TypeOK' /\ (drive = [d \in Drive |-> drive[d]])'
  <2>1. head' \in [has_sync : BOOLEAN, prev : Bytes] /\ age' \in Nat
    <3>1. head \in [has_sync : BOOLEAN, prev : Bytes] /\ head' = [head EXCEPT !.has_sync = FALSE]
      BY <1>1 DEF DiskInv, TypeOK
    <3> QED  BY <1>2, <3>1
  <2> QED  BY <1>1, <2>1 DEF DiskInv, TypeOK
<1>4. /\ SameDrives
      /\ HeadNow'.dma = HeadNow.dma /\ HeadNow'.stored = HeadNow.stored
      /\ HeadNow'.received = HeadNow.received /\ HeadNow'.blocks = HeadNow.blocks
      /\ HeadNow'.ticks = HeadNow.ticks /\ HeadNow'.prev = HeadNow.prev /\ HeadNow.dma = dma
  <2>1. SameDrives
    BY <1>1 DEF SameDrives
  <2>2. Selected' = Selected
    BY <2>1, SameDrivesAre
  <2>3. head'.prev = head.prev
    BY <1>1 DEF DiskInv, TypeOK
  <2> QED  BY <1>1, <2>1, <2>2, <2>3 DEF HeadNow
<1>5. Whole(HeadNow)'
  BY <1>1, <1>4 DEF DiskInv, Whole
<1>6. ASSUME steady, begun.drive # NoDrive
      PROVE  /\ begun.drive = Selected /\ Selected' = Selected /\ Selected \in Drive
             /\ dma.read => /\ ~dma.sync_found
                            /\ ~OffDisk(Selected)' => InOrder(HeadNow)'
  <2>1. begun.drive = Selected /\ Selected' = Selected /\ Selected \in Drive
    BY <1>4, <1>6, SameDrivesAre, SelectedIs DEF DiskInv
  <2>2. ASSUME dma.read PROVE ~dma.sync_found
    BY <1>1, <1>6, <2>2 DEF DiskInv
  <2>3. ASSUME dma.read, ~OffDisk(Selected)' PROVE InOrder(HeadNow)'
    <3>1. ~OffDisk(Selected)
      BY <1>4, <2>1, <2>3, SameDrivesAre
    <3>2. InOrder(HeadNow)
      BY <1>6, <2>3, <3>1 DEF DiskInv
    <3>3. Track' = Track /\ Size' = Size
      <4>1. TrackOf(Selected)' = TrackOf(Selected)
        BY <1>4, <2>1, SameDrivesAre
      <4>2. Track' = Track
        BY <2>1, <4>1 DEF Track
      <4> QED  BY <1>1, <4>2 DEF Size
    <3>4. ~HeadNow.dma.sync_found
      BY <1>4, <2>2, <2>3
    <3> QED  BY <1>1, <1>4, <2>1, <3>2, <3>3, <3>4
             DEF InOrder, Behind, NotYet, FirstAt, Seam, Places, At, WaitsForSync, ChannelOn
  <2> QED  BY <2>1, <2>2, <2>3
<1> QED  BY <1>1, <1>2, <1>3, <1>5, <1>6 DEF DiskInv

(* The words of a line.                                                    *)
AreWords(f, noise) ==
  f = [i \in 0 .. LineWords |-> IF i = 0 THEN HeadNow ELSE Word(f[i - 1], Selected, noise)]

LEMMA WordsExist ==
  ASSUME NEW noise
  PROVE  \E f : AreWords(f, noise)
<1> DEFINE Step(s) == Word(s, Selected, noise)
           Has(k) == \E f : f = [i \in 0 .. k |-> IF i = 0 THEN HeadNow ELSE Step(f[i - 1])]
           S == {k \in Nat : Has(k)}
<1> HIDE DEF Step
<1>1. Has(0)
  <2> DEFINE f == [i \in 0 .. 0 |-> HeadNow]
  <2>1. f = [i \in 0 .. 0 |-> IF i = 0 THEN HeadNow ELSE Step(f[i - 1])]
    <3>1. \A i \in 0 .. 0 : i = 0
      OBVIOUS
    <3> QED  BY <3>1
  <2> QED  BY <2>1
<1>2. ASSUME NEW k \in Nat, Has(k) PROVE Has(k + 1)
  <2>1. PICK f : f = [i \in 0 .. k |-> IF i = 0 THEN HeadNow ELSE Step(f[i - 1])]
    BY <1>2
  <2> DEFINE g == [i \in 0 .. k + 1 |-> IF i = k + 1 THEN Step(f[k]) ELSE f[i]]
  <2>2. ASSUME NEW i \in 0 .. k + 1
        PROVE  g[i] = IF i = 0 THEN HeadNow ELSE Step(g[i - 1])
    <3>1. CASE i = k + 1
      <4>1. i - 1 = k /\ k \in 0 .. k + 1 /\ k # k + 1 /\ i # 0
        BY <3>1
      <4>2. g[i - 1] = f[k] /\ g[i] = Step(f[k])
        BY <3>1, <4>1
      <4> HIDE DEF g
      <4> QED  BY <3>1, <4>1, <4>2
    <3>2. CASE i # k + 1 /\ i = 0
      <4>1. i \in 0 .. k
        BY <3>2
      <4> QED  BY <2>1, <3>2, <4>1
    <3>3. CASE i # k + 1 /\ i # 0
      <4>1. i \in 0 .. k /\ i - 1 \in 0 .. k + 1 /\ i - 1 # k + 1
        BY <3>3
      <4>2. g[i] = f[i] /\ g[i - 1] = f[i - 1]
        BY <3>3, <4>1
      <4>3. f[i] = Step(f[i - 1])
        BY <2>1, <3>3, <4>1
      <4> HIDE DEF g
      <4> QED  BY <3>3, <4>2, <4>3
    <3> QED  BY <3>1, <3>2, <3>3
  <2>3. g = [i \in 0 .. k + 1 |-> IF i = 0 THEN HeadNow ELSE Step(g[i - 1])]
    BY <2>2
  <2> HIDE DEF g
  <2> QED  BY <2>3
<1> HIDE DEF Has
<1>3. 0 \in S /\ \A k \in Nat : k \in S => k + 1 \in S
  BY <1>1, <1>2
<1>4. S \in SUBSET Nat
  OBVIOUS
<1> HIDE DEF S
<1>5. LineWords \in S
  BY <1>3, <1>4, LengthsAre, Induction
<1> QED  BY <1>5 DEF S, Has, Step, AreWords

LineTo(s) ==
  /\ drive' = [drive EXCEPT ![Selected].ticks = s.ticks]
  /\ head' = [has_sync |-> s.has_sync, prev |-> s.prev]
  /\ dma' = s.dma /\ blocks' = s.blocks /\ stored' = s.stored /\ received' = s.received

LEMMA HeadLineIs ==
  ASSUME DiskInv, HeadLine
  PROVE  \E noise \in Bytes : \E f : AreWords(f, noise) /\ LineTo(f[LineWords])
<1>1. PICK noise \in IF OffDisk(Selected) THEN Noise ELSE {0} :
        LET after[i \in 0 .. LineWords] ==
              IF i = 0 THEN [ticks |-> drive[Selected].ticks, dma |-> dma, stored |-> stored,
                             received |-> received, blocks |-> blocks,
                             has_sync |-> head.has_sync, prev |-> head.prev]
              ELSE Word(after[i - 1], Selected, noise)
        IN  \E s \in {after[LineWords]} :
              /\ drive' = [drive EXCEPT ![Selected].ticks = s.ticks]
              /\ head' = [has_sync |-> s.has_sync, prev |-> s.prev]
              /\ dma' = s.dma /\ blocks' = s.blocks
              /\ stored' = s.stored /\ received' = s.received
  BY DEF HeadLine
<1>2. noise \in Bytes
  BY DiskAssumption DEF Bytes
<1>3. HeadNow = [ticks |-> drive[Selected].ticks, dma |-> dma, stored |-> stored,
                 received |-> received, blocks |-> blocks,
                 has_sync |-> head.has_sync, prev |-> head.prev]
  <2>1. Selected # NoDrive
    BY DEF HeadLine, Turning
  <2> QED  BY <2>1 DEF HeadNow
<1> DEFINE after[i \in 0 .. LineWords] ==
             IF i = 0 THEN [ticks |-> drive[Selected].ticks, dma |-> dma, stored |-> stored,
                            received |-> received, blocks |-> blocks,
                            has_sync |-> head.has_sync, prev |-> head.prev]
             ELSE Word(after[i - 1], Selected, noise)
<1>4. LineTo(after[LineWords])
  BY <1>1 DEF LineTo
<1>5. AreWords(after, noise)
  <2>1. \E f : f = [i \in 0 .. LineWords |->
                      IF i = 0 THEN [ticks |-> drive[Selected].ticks, dma |-> dma, stored |-> stored,
                                     received |-> received, blocks |-> blocks,
                                     has_sync |-> head.has_sync, prev |-> head.prev]
                      ELSE Word(f[i - 1], Selected, noise)]
    <3>1. PICK f : AreWords(f, noise)
      BY WordsExist
    <3>2. f = [i \in 0 .. LineWords |->
                 IF i = 0 THEN [ticks |-> drive[Selected].ticks, dma |-> dma, stored |-> stored,
                                received |-> received, blocks |-> blocks,
                                has_sync |-> head.has_sync, prev |-> head.prev]
                 ELSE Word(f[i - 1], Selected, noise)]
      BY <1>3, <3>1, Zenon DEF AreWords
    <3> QED  BY <3>2
  <2>2. after = [i \in 0 .. LineWords |->
                   IF i = 0 THEN [ticks |-> drive[Selected].ticks, dma |-> dma, stored |-> stored,
                                  received |-> received, blocks |-> blocks,
                                  has_sync |-> head.has_sync, prev |-> head.prev]
                   ELSE Word(after[i - 1], Selected, noise)]
    BY <2>1 DEF after
  <2> HIDE DEF after
  <2> QED  BY <1>3, <2>2, Zenon DEF AreWords
<1> HIDE DEF after
<1> QED  BY <1>2, <1>4, <1>5

(* What each word of the line preserves holds behind the last one.         *)
Ordered  == steady /\ dma.read /\ begun.drive # NoDrive /\ ~OffDisk(Selected)
Punctual == CanEnd /\ dma.read

LEMMA WordsStay ==
  ASSUME DiskInv, Turning, NEW noise \in Bytes, NEW f, AreWords(f, noise)
  PROVE  /\ Stays(f[LineWords], HeadNow, Selected)
         /\ Ordered => InOrder(f[LineWords])
         /\ Punctual => Timely(f[LineWords], age * LineWords + LineWords)
<1> DEFINE Good(k) == k <= LineWords =>
             /\ Stays(f[k], HeadNow, Selected)
             /\ Ordered => InOrder(f[k])
             /\ Punctual => Timely(f[k], age * LineWords + k)
           S == {k \in Nat : Good(k)}
<1>1. /\ HistoryOK /\ DrivesOK /\ dma \in DmaRec /\ begun.ticks \in Nat /\ Selected \in Drive
      /\ drive[Selected] \in DriveRec(Selected) /\ HeadNow \in HeadRec /\ HeadNow.dma = dma
      /\ HeadNow.ticks < TrackLength(Selected) /\ Whole(HeadNow)
      /\ LineWords \in Nat /\ 1 <= LineWords /\ age \in Nat
  <2>1. Selected # NoDrive
    BY DEF Turning
  <2>2. TypeOK /\ Whole(HeadNow) /\ age \in Nat
    BY DEF DiskInv, TypeOK
  <2> QED  BY <2>1, <2>2, DiskTypes, LengthsAre DEF DrivesOK
<1>2. /\ f[0] = HeadNow
      /\ \A k \in Nat : k + 1 <= LineWords => f[k + 1] = Word(f[k], Selected, noise)
  <2>1. 0 \in 0 .. LineWords
    BY <1>1
  <2>2. ASSUME NEW k \in Nat, k + 1 <= LineWords
        PROVE  f[k + 1] = Word(f[k], Selected, noise)
    <3>1. k + 1 \in 0 .. LineWords /\ k + 1 # 0 /\ (k + 1) - 1 = k
      BY <1>1, <2>2
    <3> QED  BY <3>1 DEF AreWords
  <2> QED  BY <2>1, <2>2 DEF AreWords
<1>3. Good(0)
  <2>1. Stays(HeadNow, HeadNow, Selected)
    BY <1>1 DEF Stays
  <2>2. ASSUME Ordered PROVE InOrder(HeadNow)
    BY <2>2 DEF Ordered, DiskInv
  <2>3. ASSUME Punctual PROVE Timely(HeadNow, age * LineWords + 0)
    <3>1. age * LineWords + 0 = age * LineWords
      BY <1>1
    <3>2. CASE 0 < age
      BY <2>3, <3>1, <3>2 DEF DiskInv, Punctual
    <3>3. CASE age = 0
      <4> SUFFICES ASSUME dma.started
                   PROVE  Timely(HeadNow, 0)
        BY <1>1, <3>1, <3>3 DEF Timely
      <4>1. /\ dma.read /\ stored + dma.wordsleft = begun.length /\ stored \in Nat
            /\ dma.wordsleft \in Nat /\ TrackLength(Selected) \in Nat /\ 1 <= TrackLength(Selected)
            /\ begun.length \in Nat
        <5>1. HeadNow.stored = stored /\ stored \in 0 .. MaxLength
          BY DiskTypes DEF DiskInv, TypeOK
        <5>2. stored + dma.wordsleft = begun.length
          BY <1>1, <2>3, <5>1 DEF Whole, Punctual
        <5>3. TrackLength(Selected) \in Nat \ {0}
          BY <1>1, TracksAre
        <5>4. begun.length \in Nat
          BY <1>1, LengthsAre DEF HistoryOK
        <5> QED  BY <1>1, <2>3, <5>1, <5>2, <5>3, <5>4 DEF Punctual, DmaRec
      <4>2. CASE ~Searching(HeadNow)
        <5>1. 0 + dma.wordsleft + 0 <= begun.length + TrackLength(Selected)
          BY <4>1
        <5> QED  BY <1>1, <4>2, <5>1 DEF Timely
      <4>3. CASE Searching(HeadNow)
        <5>1. OnTrack
          BY <1>1, <2>3 DEF OnTrack, Punctual, CanEnd
        <5>2. regs.wordsync /\ \E i \in Syncs : (i - 1) % Size \notin Syncs
          BY <1>1, <2>3, <4>3 DEF Punctual, CanEnd, Searching, Syncs, Size, Track
        <5>3. Near(HeadNow, TrackLength(Selected))
          <6>1. Starts # {}
            BY <5>2 DEF Starts
          <6> QED  BY <1>1, <5>1, <5>2, <6>1, NearAtStart
        <5>4. 0 + dma.wordsleft + TrackLength(Selected) <= begun.length + TrackLength(Selected)
          BY <4>1
        <5> QED  BY <1>1, <4>1, <5>3, <5>4 DEF Timely
      <4> QED  BY <4>2, <4>3
    <3> QED  BY <1>1, <3>2, <3>3
  <2> QED  BY <1>2, <2>1, <2>2, <2>3
<1>4. ASSUME NEW k \in Nat, Good(k) PROVE Good(k + 1)
  <2> SUFFICES ASSUME k + 1 <= LineWords
               PROVE  /\ Stays(f[k + 1], HeadNow, Selected)
                      /\ Ordered => InOrder(f[k + 1])
                      /\ Punctual => Timely(f[k + 1], age * LineWords + (k + 1))
    OBVIOUS
  <2>1. k <= LineWords /\ f[k + 1] = Word(f[k], Selected, noise)
    BY <1>1, <1>2
  <2>2. /\ Stays(f[k], HeadNow, Selected)
        /\ Ordered => InOrder(f[k])
        /\ Punctual => Timely(f[k], age * LineWords + k)
    BY <1>4, <2>1
  <2> HIDE DEF Good
  <2>3. /\ f[k] \in HeadRec /\ Whole(f[k]) /\ f[k].ticks < TrackLength(Selected)
        /\ f[k].dma.dont_use_gap = dma.dont_use_gap /\ (f[k].dma.read <=> dma.read)
    BY <1>1, <2>2 DEF Stays
  <2>4. Stays(f[k + 1], f[k], Selected)
    BY <1>1, <2>1, <2>3, WordWhole
  <2>5. Stays(f[k + 1], HeadNow, Selected)
    BY <2>2, <2>4 DEF Stays
  <2>6. ASSUME Ordered PROVE InOrder(f[k + 1])
    <3>1. OnTrack /\ steady /\ f[k].dma.read /\ InOrder(f[k])
      BY <1>1, <2>2, <2>3, <2>6 DEF Ordered, OnTrack
    <3> QED  BY <1>1, <2>1, <2>3, <3>1, WordInOrder
  <2>7. ASSUME Punctual PROVE Timely(f[k + 1], age * LineWords + (k + 1))
    <3>1. OnTrack /\ ChannelOn /\ f[k].dma.read
      BY <1>1, <2>3, <2>7 DEF Punctual, OnTrack, CanEnd
    <3> DEFINE words == age * LineWords + k
    <3>2. words \in Nat /\ age * LineWords + (k + 1) = words + 1
      BY <1>1
    <3>3. Timely(f[k], words)
      BY <2>2, <2>7
    <3> HIDE DEF words
    <3>4. Timely(Word(f[k], Selected, noise), words + 1)
      BY <1>1, <2>3, <3>1, <3>2, <3>3, WordTimely
    <3> QED  BY <2>1, <3>2, <3>4
  <2> QED  BY <2>5, <2>6, <2>7
<1>5. LineWords \in S
  <2> HIDE DEF Good
  <2>1. 0 \in S /\ \A k \in Nat : k \in S => k + 1 \in S
    BY <1>3, <1>4
  <2>2. S \in SUBSET Nat
    OBVIOUS
  <2> HIDE DEF S
  <2> QED  BY <1>1, <2>1, <2>2, Induction
<1> QED  BY <1>1, <1>5

LEMMA HeadLineStep == ASSUME DiskInv, HeadLine PROVE DiskInv'
<1>1. /\ dma.started => dma.read
      /\ Turning /\ port' = port /\ regs' = regs /\ begun' = begun /\ steady' = steady
      /\ age' = IF dma'.started /\ CanEnd THEN age + 1 ELSE 0
  BY DEF HeadLine, Age
<1>2. PICK noise \in Bytes : \E f : AreWords(f, noise) /\ LineTo(f[LineWords])
  BY HeadLineIs
<1>17. PICK f : AreWords(f, noise) /\ LineTo(f[LineWords])
  BY <1>2
<1> DEFINE s == f[LineWords]
<1>3. /\ Stays(s, HeadNow, Selected)
      /\ Ordered => InOrder(s)
      /\ Punctual => Timely(s, age * LineWords + LineWords)
  BY <1>1, <1>17, WordsStay
<1>4. LineTo(s)
  BY <1>17
<1> HIDE DEF s
<1>5. /\ Selected # NoDrive /\ Selected \in Drive /\ DrivesOK /\ HeadNow.dma = dma /\ age \in Nat
      /\ LineWords \in Nat /\ MaxLength \in Nat /\ drive = [d \in Drive |-> drive[d]]
  <2>1. Selected # NoDrive
    BY <1>1 DEF Turning
  <2>2. TypeOK /\ age \in Nat /\ drive = [d \in Drive |-> drive[d]]
    BY DEF DiskInv, TypeOK
  <2> QED  BY <2>1, <2>2, DiskTypes, LengthsAre
<1>6. /\ s \in HeadRec /\ Whole(s) /\ s.ticks \in 0 .. TrackLength(Selected) - 1
      /\ s.dma.dont_use_gap = dma.dont_use_gap /\ (s.dma.read <=> dma.read)
      /\ s.dma.started => dma.started
      /\ Searching(s) => Searching(HeadNow)
  <2>1. TrackLength(Selected) \in Nat
    BY <1>5, TracksAre
  <2> QED  BY <1>3, <1>5, <2>1 DEF Stays, HeadRec
<1>7. SameDrives /\ DrivesOK' /\ (drive = [d \in Drive |-> drive[d]])' /\ drive'[Selected].ticks = s.ticks
  BY <1>4, <1>5, <1>6, TicksMove DEF LineTo
<1>8. /\ Selected' = Selected /\ (Turning' <=> Turning)
      /\ (OffDisk(Selected)' <=> OffDisk(Selected))
      /\ Track' = Track /\ Size' = Size
  <2>1. Selected' = Selected /\ TrackOf(Selected)' = TrackOf(Selected)
        /\ (OffDisk(Selected)' <=> OffDisk(Selected)) /\ (Turning' <=> Turning)
    BY <1>5, <1>7, SameDrivesAre
  <2>2. Track' = Track
    BY <2>1 DEF Track
  <2> QED  BY <1>4, <1>6, <2>1, <2>2 DEF Size, LineTo
<1>9. HeadNow' = s
  <2>1. HeadNow' = [ticks |-> s.ticks, dma |-> s.dma, stored |-> s.stored, received |-> s.received,
                    blocks |-> s.blocks, has_sync |-> s.has_sync, prev |-> s.prev]
    BY <1>4, <1>5, <1>7, <1>8 DEF HeadNow, LineTo
  <2> QED  BY <1>6, <2>1 DEF HeadRec
<1>10. age' \in Nat /\ (0 < age' => dma'.started /\ CanEnd /\ age' = age + 1)
  BY <1>1, <1>5
<1>11. TypeOK'
  <2>1. /\ dma' \in DmaRec /\ stored' \in 0 .. MaxLength /\ received' \in Seq(Bytes \X Bytes)
        /\ blocks' \in 0 .. 1 /\ head' \in [has_sync : BOOLEAN, prev : Bytes]
    BY <1>4, <1>6 DEF LineTo, HeadRec
  <2>2. Len(received') <= MaxLength
    <3>1. CASE steady
      BY <1>4, <1>5, <1>6, <2>1, <3>1 DEF Whole, LineTo
    <3>2. CASE ~steady
      BY <1>4, <1>5, <1>6, <3>2, NoWords DEF Whole, LineTo
    <3> QED  BY <3>1, <3>2
  <2> QED  BY <1>1, <1>7, <1>10, <2>1, <2>2 DEF DiskInv, TypeOK, DrivesOK, DriveRec, DmaRec
<1>12. Whole(HeadNow)'
  BY <1>1, <1>6, <1>9 DEF Whole
<1>13. dma' = s.dma
  BY <1>4 DEF LineTo
<1>14. ASSUME steady, begun.drive # NoDrive
       PROVE  /\ begun.drive = Selected'
              /\ dma'.read => Turning' /\ (~OffDisk(Selected)' => InOrder(HeadNow)')
  <2>1. begun.drive = Selected'
    BY <1>8, <1>14 DEF DiskInv
  <2>2. ASSUME dma'.read, ~OffDisk(Selected)' PROVE InOrder(HeadNow)'
    <3>1. Ordered
      BY <1>6, <1>8, <1>13, <1>14, <2>2 DEF Ordered
    <3> QED  BY <1>1, <1>3, <1>8, <1>9, <3>1
             DEF InOrder, Behind, NotYet, FirstAt, Seam, Places, At, WaitsForSync, ChannelOn
  <2> QED  BY <1>1, <1>8, <2>1, <2>2
<1>15. ASSUME 0 < age'
       PROVE  dma'.started /\ CanEnd' /\ (dma'.read => Timely(HeadNow, age * LineWords)')
  <2>1. dma'.started /\ CanEnd /\ age' = age + 1 /\ dma.read /\ dma'.read
    BY <1>1, <1>6, <1>10, <1>13, <1>15
  <2>2. CanEnd'
    <3>1. /\ ChannelOn' /\ Turning' /\ ~OffDisk(Selected)'
      BY <1>1, <1>8, <2>1 DEF CanEnd, ChannelOn
    <3>2. ASSUME dma'.wait_for_sync /\ ~dma'.sync_found
          PROVE  regs.wordsync /\ \E i \in Syncs : (i - 1) % Size \notin Syncs
      <4>1. dma.wait_for_sync /\ ~dma.sync_found
        BY <1>5, <1>6, <1>13, <3>2 DEF Searching
      <4> QED  BY <2>1, <4>1 DEF CanEnd, Syncs, Size, Track
    <3>3. Syncs' = Syncs
      BY <1>1, <1>8 DEF Syncs, At
    <3>4. dma'.wait_for_sync /\ ~dma'.sync_found =>
            regs'.wordsync /\ \E i \in Syncs' : (i - 1) % Size' \notin Syncs'
      BY <1>1, <1>8, <3>2, <3>3
    <3> QED  BY <3>1, <3>4 DEF CanEnd, Syncs, Size, Track
  <2>3. Timely(s, age * LineWords + LineWords)
    BY <1>3, <2>1 DEF Punctual
  <2>4. age' * LineWords = age * LineWords + LineWords
    BY <1>5, <2>1
  <2>5. Timely(HeadNow, age * LineWords)'
    <3> DEFINE w == age * LineWords + LineWords
    <3>1. age' * LineWords = w /\ Timely(s, w)
      BY <2>3, <2>4
    <3> HIDE DEF w
    <3> QED  BY <1>1, <1>8, <1>9, <3>1
             DEF Timely, Near, Sees, Starts, Syncs, At, Behind, Searching
  <2> QED  BY <2>1, <2>2, <2>5
<1>16. dma'.started => dma'.read
  BY <1>1, <1>6, <1>13
<1> QED  BY <1>1, <1>7, <1>11, <1>12, <1>14, <1>15, <1>16 DEF DiskInv

LEMMA DiskNext == ASSUME DiskInv, Next \/ UNCHANGED vars PROVE DiskInv'
<1>0. regs \in RegsRec
  BY DEF DiskInv, TypeOK, RegsRec
<1>1. CASE WriteLine
  BY <1>1, WriteLineStep
<1>2. CASE IdleLine
  BY <1>2, IdleLineStep
<1>3. CASE HeadLine
  BY <1>3, HeadLineStep
<1>4. CASE \E dmaen, write, kickstart \in BOOLEAN, length \in Lengths :
             WriteDsklen(dmaen, write, length, kickstart)
  BY <1>4, WriteDsklenStep
<1>5. ASSUME NEW b \in BOOLEAN, WriteAdkcon(b) \/ WriteDmacon(b)
      PROVE  DiskInv'
  <2>1. [regs EXCEPT !.wordsync = b] \in RegsRec /\ [regs EXCEPT !.channel = b] \in RegsRec
    BY <1>0 DEF RegsRec
  <2> QED  BY <1>5, <2>1, WriteRegisterStep DEF WriteAdkcon, WriteDmacon, RegsRec
<1>6. ASSUME NEW w \in SyncWords, WriteDsksync(w)
      PROVE  DiskInv'
  <2>1. [regs EXCEPT !.sync = w] \in RegsRec
    BY <1>0 DEF RegsRec
  <2> QED  BY <1>6, <2>1, WriteRegisterStep DEF WriteDsksync, RegsRec
<1>7. CASE \E p \in Ports : WriteBprb(p)
  BY <1>7, WriteBprbStep
<1>8. CASE HardReset
  BY <1>8, DiskResetStep
<1>9. CASE UNCHANGED vars
  <2>1. /\ drive' = drive /\ port' = port /\ regs' = regs /\ dma' = dma /\ head' = head
        /\ stored' = stored /\ received' = received /\ begun' = begun /\ steady' = steady
        /\ age' = age /\ blocks' = blocks
    BY <1>9 DEF vars
  <2>2. HeadNow' = HeadNow /\ Selected' = Selected /\ (Turning' <=> Turning) /\ (CanEnd' <=> CanEnd)
        /\ (OffDisk(Selected)' <=> OffDisk(Selected)) /\ Track' = Track /\ Size' = Size
    <3>1. SameDrives
      BY <2>1 DEF SameDrives
    <3>2. Selected' = Selected /\ (Turning' <=> Turning)
      BY <3>1, SameDrivesAre
    <3>3. (OffDisk(Selected)' <=> OffDisk(Selected)) /\ Track' = Track /\ Size' = Size
          /\ HeadNow' = HeadNow
      BY <2>1, <3>2 DEF OffDisk, Track, TrackOf, Size, HeadNow
    <3>4. CanEnd' <=> CanEnd
      BY <2>1, <3>2, <3>3 DEF CanEnd, ChannelOn, Track, Size, At
    <3> QED  BY <3>2, <3>3, <3>4
  <2>3. TypeOK' /\ (drive = [d \in Drive |-> drive[d]])' /\ Whole(HeadNow)'
    BY <2>1, <2>2 DEF DiskInv, TypeOK, Whole
  <2>4. InOrder(HeadNow)' <=> InOrder(HeadNow)
    BY <2>1, <2>2 DEF InOrder, Behind, NotYet, FirstAt, Seam, Places, At, WaitsForSync, ChannelOn
  <2>5. Timely(HeadNow, age * LineWords)' <=> Timely(HeadNow, age * LineWords)
    BY <2>1, <2>2 DEF Timely, Near, Sees, Starts, Syncs, At, Behind, Searching
  <2> QED  BY <2>1, <2>2, <2>3, <2>4, <2>5 DEF DiskInv
<1> QED  BY <1>1, <1>2, <1>3, <1>4, <1>5, <1>6, <1>7, <1>8, <1>9 DEF Next, EndOfLine, Amiga

LEMMA DiskIsRight == DiskInv => TransferIsRight
<1> SUFFICES ASSUME DiskInv
             PROVE  TransferIsRight
  OBVIOUS
<1>1. /\ HeadNow.dma = dma /\ HeadNow.stored = stored /\ HeadNow.received = received
      /\ HeadNow.blocks = blocks /\ HeadNow \in HeadRec /\ blocks \in 0 .. 1 /\ Whole(HeadNow)
      /\ received \in Seq(Bytes \X Bytes)
  BY DiskTypes DEF DiskInv, TypeOK
<1>2. TransferIsWhole
  BY <1>1 DEF TransferIsWhole, Whole
<1>3. WordsAreInOrder
  <2> SUFFICES ASSUME steady, dma.read, begun.drive # NoDrive, received # <<>>, ~OffDisk(begun.drive)
               PROVE  LET d == begun.drive
                          track == Disk[d][TrackOf(d)]
                          m == Len(track) - (IF dma.dont_use_gap THEN Gap ELSE 0)
                          S(w) == IF w = regs.sync /\ w = <<begun.prev, track[begun.ticks + 1]>>
                                  THEN {(begun.ticks - 1) % m} ELSE {}
                          First(w) == At(track, m, w) \union S(w)
                      IN  \E at \in [DOMAIN received -> 0 .. m - 1] :
                            /\ at[1] \in First(received[1])
                            /\ \A i \in 2 .. Len(received) :
                                 /\ at[i] \in At(track, m, received[i])
                                 /\ \/ at[i] = (at[i - 1] + 2) % m
                                    \/ at[i] = (at[i - 1] + 1) % m /\ received[i] = regs.sync
                            /\ WaitsForSync(d) => (at[1] - 2) % m \in First(regs.sync)
    BY DEF WordsAreInOrder
  <2>1. begun.drive = Selected /\ InOrder(HeadNow)
    BY DEF DiskInv
  <2>2. PICK at : Places(at, received)
    BY <1>1, <2>1 DEF InOrder
  <2>3. DOMAIN received = 1 .. Len(received)
    BY <1>1
  <2> QED  BY <2>1, <2>2, <2>3 DEF Places, FirstAt, Seam, Track, Size
<1> QED  BY <1>2, <1>3 DEF TransferIsRight

LEMMA DiskIsInTime == DiskInv => TransferEndsInTime
<1> SUFFICES ASSUME DiskInv, dma.started, CanEnd
             PROVE  age * LineWords <= IF dma.read THEN begun.length + TrackLength(Selected)
                                       ELSE MaxWait * LineWords
  BY DEF TransferEndsInTime
<1>1. /\ age \in Nat /\ dma \in DmaRec /\ HistoryOK /\ LineWords \in Nat /\ MaxWait \in Nat
      /\ HeadNow.dma = dma
  BY DiskTypes, LengthsAre DEF DiskInv, TypeOK
<1>2. CASE dma.read
  <2>1. Selected \in Drive
    BY <1>2, SelectedIs DEF CanEnd, Turning
  <2>2. begun.length \in Nat /\ TrackLength(Selected) \in Nat /\ dma.wordsleft \in Nat
    BY <1>1, <2>1, TracksAre, LengthsAre DEF HistoryOK, DmaRec
  <2>3. CASE age = 0
    BY <1>1, <1>2, <2>2, <2>3
  <2>4. CASE 0 < age
    <3>1. Timely(HeadNow, age * LineWords)
      BY <1>2, <2>4 DEF DiskInv
    <3>2. PICK n \in Nat : age * LineWords + dma.wordsleft + n <= begun.length + TrackLength(Selected)
      BY <1>1, <3>1 DEF Timely
    <3>3. age * LineWords \in Nat
      BY <1>1
    <3> QED  BY <1>2, <2>2, <3>2, <3>3
  <2> QED  BY <1>1, <2>3, <2>4
<1>3. CASE ~dma.read
  <2>1. age + dma.wait <= MaxWait /\ dma.wait \in Nat
    BY <1>1, <1>3 DEF DiskInv, DmaRec
  <2>2. age <= MaxWait
    BY <1>1, <2>1
  <2>3. \A a, b, c \in Nat : a <= b => a * c <= b * c
    OBVIOUS
  <2>4. age * LineWords <= MaxWait * LineWords
    BY <1>1, <2>2, <2>3
  <2> QED  BY <1>3, <2>4
<1> QED  BY <1>2, <1>3
-----------------------------------------------------------------------------
(* All of them.                                                            *)

LineInv == CounterInv /\ SerialInv /\ AudioInv /\ DiskInv

LEMMA LineInvariant == LineSpec => []LineInv
<1>1. LineInit => LineInv
  BY CounterInit, SerialInit, AudioInit, DiskInit DEF LineInit, LineInv
<1>2. LineInv /\ [LineNext]_allVars => LineInv'
  <2> SUFFICES ASSUME LineInv, [LineNext]_allVars
               PROVE  LineInv'
    OBVIOUS
  <2>1. /\ Counter!Next \/ UNCHANGED counterVars
        /\ Serial!Next \/ UNCHANGED serialVars
        /\ Audio!Next \/ UNCHANGED audioVars
        /\ Next \/ UNCHANGED vars
    BY DEF LineNext, UseDisk, UseSerial, UseAudio, UseCounter, allVars
  <2> QED  BY <2>1, CounterNext, SerialNext, AudioNext, DiskNext DEF LineInv
<1> QED  BY <1>1, <1>2, PTL DEF LineSpec

(* The counter can be read and set byte by byte while it counts, and its   *)
(* alarm is requested whichever of the two comes to the other              *)
(* (ciaUpdateEventCounter, ciaReadevhi .. ciaWriteevlo), for every number  *)
(* of values of a byte.                                                    *)
THEOREM CounterStaysRight == LineSpec => []CounterIsRight
<1>1. LineInv => CounterIsRight
  BY DEF LineInv, CounterInv
<1> QED  BY <1>1, LineInvariant, PTL

(* Uart::EndOfLine, EndOfFrame and the writes to SERDAT and SERPER send    *)
(* the words in order and in time, for every length of lines and frames    *)
(* and every set of rates.                                                 *)
THEOREM WordsAreAllSent == LineSpec => []WordsAreSent
<1>1. LineInv => WordsAreSent
  BY SerialIsRight DEF LineInv
<1> QED  BY <1>1, LineInvariant, PTL

(* Sound::State1 .. State5 never fetch a word beyond the block, and a      *)
(* program that answers in time hears no block twice, for any lengths of   *)
(* blocks and any periods.                                                 *)
THEOREM BlocksAlwaysFollow == LineSpec => []BlocksFollow
<1>1. LineInv => BlocksFollow
  BY AudioIsRight DEF LineInv
<1> QED  BY <1>1, LineInvariant, PTL

(* floppyEndOfLine with floppyReadWord and floppyDMAWrite: a transfer that *)
(* has requested its interrupt has stored all of its words, and the words  *)
(* of one that nothing disturbs follow one another on the track, whatever  *)
(* is on the disks, where the head begins and how many words a line has.   *)
THEOREM TransfersAreRight == LineSpec => []TransferIsRight
<1>1. LineInv => TransferIsRight
  BY DiskIsRight DEF LineInv
<1> QED  BY <1>1, LineInvariant, PTL

(* A transfer that the Amiga leaves alone ends within two turns of the disk*)
(* and the time of its words, if its track has a sync word that does not   *)
(* begin inside another one (floppyEndOfLine, floppyCheckSync).            *)
THEOREM TransfersEndInTime == LineSpec => []TransferEndsInTime
<1>1. LineInv => TransferEndsInTime
  BY DiskIsInTime DEF LineInv
<1> QED  BY <1>1, LineInvariant, PTL
=============================================================================
