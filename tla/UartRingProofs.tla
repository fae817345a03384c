--------------------------- MODULE UartRingProofs ---------------------------
(***************************************************************************)
(* The receive ring of uart_core.c implements the bounded FIFO, for every  *)
(* ring size that divides the range of the index type and every set of     *)
(* bytes.  The argument is about remainders: masking an index that has     *)
(* wrapped at its width gives the slot it would have had without the wrap, *)
(* and fewer than UART_RX_BUF_SIZE consecutive indices never share a slot. *)
(***************************************************************************)
EXTENDS UartRing, SequenceTheorems, TLAPS

-----------------------------------------------------------------------------
(* Remainders.                                                             *)

\* The quotient and the remainder of an integer.
LEMMA DivMod ==
    ASSUME NEW a \in Int, NEW m \in Nat \ {0}
    PROVE  /\ a % m \in 0 .. m - 1
           /\ a \div m \in Int
           /\ a = m * (a \div m) + (a % m)
OBVIOUS

\* Only zero is a multiple of m strictly between -m and m.
LEMMA SmallMultiple ==
    ASSUME NEW m \in Nat \ {0}, NEW d \in Int, m * d < m, m * d > -m
    PROVE  d = 0
<1>1. ASSUME d >= 1 PROVE FALSE
  BY <1>1
<1>2. ASSUME d <= -1 PROVE FALSE
  BY <1>2
<1> QED
  BY <1>1, <1>2

\* The remainder is the only number in its range at a multiple of m from a.
LEMMA ModUnique ==
    ASSUME NEW a \in Int, NEW m \in Nat \ {0}, NEW q \in Int, NEW r \in 0 .. m - 1,
           a = m * q + r
    PROVE  a % m = r
<1>1. /\ a % m \in 0 .. m - 1 /\ a \div m \in Int
      /\ a = m * (a \div m) + (a % m)
  BY DivMod
<1>2. m * ((a \div m) - q) = r - (a % m)
  BY <1>1
<1>3. (a \div m) - q = 0
  BY <1>1, <1>2, SmallMultiple
<1> QED
  BY <1>1, <1>3

\* A small number is its own remainder.
LEMMA ModSmall ==
    ASSUME NEW m \in Nat \ {0}, NEW a \in 0 .. m - 1
    PROVE  a % m = a
<1>1. a = m * 0 + a /\ a \in Int
  OBVIOUS
<1> QED
  BY <1>1, ModUnique

\* Numbers that differ by a multiple of m have the same remainder.
LEMMA ModPeriod ==
    ASSUME NEW m \in Nat \ {0}, NEW x \in Int, NEW y \in Int, NEW q \in Int, x = m * q + y
    PROVE  x % m = y % m
<1>1. PICK v \in Int, r \in 0 .. m - 1 : r = y % m /\ y = m * v + r
  <2>1. y \div m \in Int /\ y % m \in 0 .. m - 1 /\ y = m * (y \div m) + (y % m)
    BY DivMod
  <2> QED
    BY <2>1, Zenon
<1>2. PICK w \in Int : w = q + v
  OBVIOUS
<1>3. x = m * w + r
  <2>1. m * (q + v) = m * q + m * v /\ m * q \in Int /\ m * v \in Int
    OBVIOUS
  <2>2. PICK mq \in Int, mv \in Int : mq = m * q /\ mv = m * v /\ mq + mv = m * w
    BY <1>2, <2>1, Zenon
  <2>3. x = mq + (mv + r)
    BY <1>1, <2>2
  <2>4. x = (mq + mv) + r
    BY <2>3
  <2> QED
    BY <2>2, <2>4, Zenon
<1>4. x % m = r
  BY <1>3, ModUnique, ZenonT(60)
<1> QED
  BY <1>1, <1>4

\* A remainder may be taken before adding to it.
LEMMA ModAdd ==
    ASSUME NEW m \in Nat \ {0}, NEW a \in Int, NEW c \in Int
    PROVE  ((a % m) + c) % m = (a + c) % m
<1>1. PICK q \in Int, r \in Int : r = a % m /\ a = m * q + r
  <2>1. a \div m \in Int /\ a % m \in 0 .. m - 1 /\ a = m * (a \div m) + (a % m)
    BY DivMod
  <2>2. a % m \in Int
    BY <2>1
  <2> QED
    BY <2>1, <2>2, Zenon
<1>2. PICK e \in Int, d \in Int : e = r + c /\ d = a + c /\ d = m * q + e
  BY <1>1
<1>3. d % m = e % m
  BY <1>2, ModPeriod
<1> QED
  BY <1>1, <1>2, <1>3, Zenon

\* The same for subtracting a remainder.
LEMMA ModSub ==
    ASSUME NEW m \in Nat \ {0}, NEW a \in Int, NEW c \in Int, NEW d \in Int, d = c - a
    PROVE  (c - (a % m)) % m = d % m
<1>1. PICK q \in Int, r \in Int : r = a % m /\ a = m * q + r
  <2>1. a \div m \in Int /\ a % m \in 0 .. m - 1 /\ a = m * (a \div m) + (a % m)
    BY DivMod
  <2>2. a % m \in Int
    BY <2>1
  <2> QED
    BY <2>1, <2>2, Zenon
<1>2. PICK e \in Int : e = c - r /\ e = m * q + d
  BY <1>1
<1>3. e % m = d % m
  BY <1>2, ModPeriod
<1> QED
  BY <1>1, <1>2, <1>3, Zenon

-----------------------------------------------------------------------------
(* Slots.                                                                  *)

\* The ring and the range of its indices are not empty.
LEMMA Sizes ==
    UART_RX_BUF_SIZE \in Nat \ {0} /\ INDEX_RANGE \in Nat \ {0}
BY RingAssumption

\* The index type has room for a whole number of rings.
LEMMA WholeRings ==
    /\ UART_RX_BUF_SIZE <= INDEX_RANGE
    /\ \E k \in Nat : INDEX_RANGE = UART_RX_BUF_SIZE * k
<1> DEFINE k == INDEX_RANGE \div UART_RX_BUF_SIZE
<1>1. UART_RX_BUF_SIZE \in Nat \ {0} /\ INDEX_RANGE \in Nat \ {0}
  BY Sizes
<1>2. INDEX_RANGE = UART_RX_BUF_SIZE * k /\ k \in Int
  BY <1>1, DivMod, RingAssumption
<1> HIDE DEF k
<1>3. k >= 1
  <2>1. ASSUME k <= 0 PROVE FALSE
    <3>1. UART_RX_BUF_SIZE * k <= 0
      BY <1>1, <1>2, <2>1
    <3> QED
      BY <1>1, <1>2, <3>1
  <2> QED
    BY <1>2, <2>1
<1>4. UART_RX_BUF_SIZE * k >= UART_RX_BUF_SIZE
  BY <1>1, <1>2, <1>3
<1> QED
  BY <1>1, <1>2, <1>3, <1>4

\* Indices that differ by a multiple of their range stand for the same slot.
LEMMA SlotPeriod ==
    ASSUME NEW a \in Int, NEW b \in Int, NEW q \in Int, a = INDEX_RANGE * q + b
    PROVE  Slot(a) = Slot(b)
<1> DEFINE m == UART_RX_BUF_SIZE
<1>1. PICK k \in Nat : INDEX_RANGE = m * k
  BY WholeRings
<1>2. PICK r \in 0 .. m - 1, v \in Int : r = b % m /\ b = m * v + r
  BY DivMod, Sizes
<1>3. (m * k) * q + m * v = m * (k * q + v)
  BY Sizes
<1>4. a = m * (k * q + v) + r /\ k * q + v \in Int
  BY <1>1, <1>2, <1>3, Sizes
<1>5. a % m = r
  BY <1>4, ModUnique, Sizes
<1> QED
  BY <1>2, <1>5 DEF Slot

\* The wrap of an index at its width does not change the slot it stands for.
LEMMA SlotOfWrapped ==
    ASSUME NEW a \in Int
    PROVE  Slot(a % INDEX_RANGE) = Slot(a)
<1>1. /\ a % INDEX_RANGE \in 0 .. INDEX_RANGE - 1 /\ a \div INDEX_RANGE \in Int
      /\ a = INDEX_RANGE * (a \div INDEX_RANGE) + (a % INDEX_RANGE)
  BY DivMod, Sizes
<1>2. a % INDEX_RANGE \in Int
  BY <1>1, Sizes
<1> QED
  BY <1>1, <1>2, SlotPeriod

\* Fewer than UART_RX_BUF_SIZE consecutive indices have different slots.
LEMMA SlotsDistinct ==
    ASSUME NEW a \in Int, NEW i \in 0 .. UART_RX_BUF_SIZE - 1,
           NEW j \in 0 .. UART_RX_BUF_SIZE - 1, Slot(a + i) = Slot(a + j)
    PROVE  i = j
<1> DEFINE m == UART_RX_BUF_SIZE
<1>1. m \in Nat \ {0} /\ i \in Int /\ j \in Int /\ i - j < m /\ i - j > -m
  BY Sizes
<1>2. /\ (a + i) \div m \in Int /\ a + i = m * ((a + i) \div m) + ((a + i) % m)
      /\ (a + j) \div m \in Int /\ a + j = m * ((a + j) \div m) + ((a + j) % m)
      /\ (a + i) % m \in Int
  BY <1>1, DivMod
<1>3. PICK d \in Int : d = ((a + i) \div m) - ((a + j) \div m)
  BY <1>2
<1>4. m * d = i - j
  BY <1>1, <1>2, <1>3 DEF Slot
<1>5. d = 0
  BY <1>1, <1>4, SmallMultiple
<1> QED
  BY <1>1, <1>4, <1>5

\* An index masked with the ring size is a slot of the ring.
LEMMA SlotType ==
    ASSUME NEW a \in Int
    PROVE  Slot(a) \in 0 .. UART_RX_BUF_SIZE - 1
BY DivMod, Sizes DEF Slot

-----------------------------------------------------------------------------
(* The ring.                                                               *)

\* The bytes between the indices, one fewer than slots at most, are bytes that
\* the UART delivered.
RingInv ==
    /\ TypeOK
    /\ Occupancy \in 0 .. UART_RX_BUF_SIZE - 1
    /\ \A i \in 1 .. Occupancy : Waiting[i] \in Byte

\* A byte survives the store as char and the conversion back to int.
LEMMA CharRoundTrip ==
    ASSUME NEW b \in Byte
    PROVE  ToChar(b) \in CHAR_MAX - 255 .. CHAR_MAX /\ ToInt(ToChar(b)) = b
<1>1. b \in 0 .. 255
  BY RingAssumption
<1>2. CASE CHAR_MAX = 127
  BY <1>1, <1>2 DEF ToChar, ToInt
<1>3. CASE CHAR_MAX = 255
  BY <1>1, <1>3 DEF ToChar, ToInt
<1> QED
  BY <1>2, <1>3, RingAssumption

\* The indices in terms of the occupancy.
LEMMA HeadIndex ==
    ASSUME RingInv
    PROVE  /\ rx_head \in Int /\ rx_tail \in Int
           /\ rx_head = (rx_tail + Occupancy) % INDEX_RANGE
           /\ Slot(rx_head) = Slot(rx_tail + Occupancy)
           /\ Slot(Succ(rx_head)) = Slot(rx_tail + Occupancy + 1)
           /\ rx_head = rx_tail <=> Occupancy = 0
<1> DEFINE R == INDEX_RANGE
           h == rx_head
           t == rx_tail
           o == Occupancy
<1>1. /\ R \in Nat \ {0} /\ h \in 0 .. R - 1 /\ t \in 0 .. R - 1
      /\ o \in Int /\ o = (h - t) % R
  BY Sizes DEF RingInv, TypeOK, Occupancy
<1> HIDE DEF R, h, t, o
<1>2. PICK x \in Int : x = h - t
  BY <1>1
<1>3. (t + o) % R = h
  <2>1. (o + t) % R = h % R
    <3>1. o = x % R /\ h \in Int /\ t \in Int /\ h = x + t
      BY <1>1, <1>2
    <3> QED
      <4>1. ((x % R) + t) % R = (x + t) % R
        BY <1>1, <3>1, ModAdd, Zenon
      <4> QED
        BY <3>1, <4>1, Zenon
  <2>2. o + t = t + o
    BY <1>1
  <2> QED
    BY <1>1, <2>1, <2>2, ModSmall
<1>4. Slot(h) = Slot(t + o)
  BY <1>1, <1>3, SlotOfWrapped DEF R
<1>5. Slot((h + 1) % R) = Slot(h + 1)
  BY <1>1, SlotOfWrapped DEF R
<1>6. Slot(h + 1) = Slot(t + o + 1)
  <2>1. PICK y \in Int, z \in Int : y = t + o /\ z = y + 1
    BY <1>1
  <2>2. (h + 1) % R = z % R
    <3>1. PICK c \in Int : c = 1
      OBVIOUS
    <3>2. R \in Nat \ {0} /\ z = y + c
      BY <1>1, <2>1, <3>1
    <3>3. ((y % R) + c) % R = (y + c) % R
      BY <3>2, ModAdd, Zenon
    <3> QED
      BY <1>3, <2>1, <3>1, <3>3, <3>2, Zenon
  <2>3. Slot(z % R) = Slot(z)
    BY SlotOfWrapped DEF R
  <2> QED
    BY <1>1, <1>5, <2>1, <2>2, <2>3
<1>7. h = t <=> o = 0
  <2>1. ASSUME h = t PROVE o = 0
    BY <1>1, <2>1, ModSmall
  <2>2. ASSUME o = 0 PROVE h = t
    BY <1>1, <1>3, <2>2, ModSmall
  <2> QED
    BY <2>1, <2>2
<1> QED
  BY <1>1, <1>3, <1>4, <1>5, <1>6, <1>7 DEF R, h, t, o, Succ

\* The masked test of uart_rx_push tells exactly whether a slot is left over
\* besides the sacrificed one.
LEMMA RoomExact ==
    ASSUME RingInv
    PROVE  RoomLeft <=> Occupancy < UART_RX_BUF_SIZE - 1
<1> DEFINE o == Occupancy
<1>1. o \in 0 .. UART_RX_BUF_SIZE - 1 /\ rx_tail \in Int /\ UART_RX_BUF_SIZE \in Nat \ {0}
  BY HeadIndex, Sizes DEF RingInv
<1>2. Slot(Succ(rx_head)) = Slot(rx_tail + (o + 1))
  BY <1>1, HeadIndex
<1> HIDE DEF o
<1>3. CASE o = UART_RX_BUF_SIZE - 1
  <2>1. rx_tail + (o + 1) = UART_RX_BUF_SIZE * 1 + rx_tail
    BY <1>1, <1>3
  <2>2. Slot(rx_tail + (o + 1)) = Slot(rx_tail)
    <3>1. PICK r \in 0 .. UART_RX_BUF_SIZE - 1, v \in Int :
             r = rx_tail % UART_RX_BUF_SIZE /\ rx_tail = UART_RX_BUF_SIZE * v + r
      BY <1>1, DivMod
    <3>2. rx_tail + (o + 1) = UART_RX_BUF_SIZE * (v + 1) + r /\ v + 1 \in Int
      BY <1>1, <2>1, <3>1
    <3>3. (rx_tail + (o + 1)) % UART_RX_BUF_SIZE = r
      <4> DEFINE a == rx_tail + (o + 1)
      <4>1. a \in Int /\ a = UART_RX_BUF_SIZE * (v + 1) + r
        BY <1>1, <3>2
      <4> HIDE DEF a
      <4>2. a % UART_RX_BUF_SIZE = r
        BY <1>1, <3>1, <3>2, <4>1, ModUnique
      <4> QED
        BY <4>2 DEF a
    <3> QED
      BY <3>1, <3>3 DEF Slot
  <2> QED
    BY <1>1, <1>2, <1>3, <2>2 DEF RoomLeft, o
<1>4. CASE o < UART_RX_BUF_SIZE - 1
  <2>1. o + 1 \in 0 .. UART_RX_BUF_SIZE - 1 /\ 0 \in 0 .. UART_RX_BUF_SIZE - 1
    BY <1>1, <1>4
  <2>2. o + 1 # 0
    BY <1>1
  <2>3. Slot(rx_tail + (o + 1)) # Slot(rx_tail + 0)
    BY <1>1, <2>1, <2>2, SlotsDistinct
  <2>4. rx_tail + 0 = rx_tail
    BY <1>1
  <2> QED
    BY <1>2, <1>4, <2>3, <2>4 DEF RoomLeft, o
<1> QED
  BY <1>1, <1>3, <1>4

\* A function on 1 .. n is a sequence of length n.
LEMMA FunctionIsSeq ==
    ASSUME NEW S, NEW n \in Nat, NEW f \in [1 .. n -> S]
    PROVE  f \in Seq(S) /\ Len(f) = n
<1>1. f \in Seq(S)
  BY SeqDef
<1>2. DOMAIN f = 1 .. Len(f) /\ Len(f) \in Nat /\ DOMAIN f = 1 .. n
  BY <1>1, LenProperties
<1> QED
  BY <1>1, <1>2

\* The bytes waiting form a sequence.
LEMMA WaitingSeq ==
    ASSUME RingInv
    PROVE  Waiting \in Seq(Byte) /\ Len(Waiting) = Occupancy
<1>1. Occupancy \in Nat /\ Waiting \in [1 .. Occupancy -> Byte]
  BY Sizes DEF RingInv, Waiting
<1> QED
  BY <1>1, FunctionIsSeq

-----------------------------------------------------------------------------
(* Every step of the ring is a step of the queue.                          *)

\* The empty ring is the empty queue.
LEMMA InitQueue == Init => RingInv /\ Fifo!Init
<1> SUFFICES ASSUME Init PROVE RingInv /\ Fifo!Init
  OBVIOUS
<1>1. TypeOK
  <2>1. 0 \in CHAR_MAX - 255 .. CHAR_MAX
    BY RingAssumption
  <2> QED
    BY <2>1, Sizes DEF Init, TypeOK
<1>2. Occupancy = 0
  <2>1. rx_head - rx_tail = 0
    BY DEF Init
  <2>2. 0 % INDEX_RANGE = 0
    BY Sizes, ModSmall
  <2> QED
    BY <2>1, <2>2 DEF Occupancy
<1>3. RingInv
  BY <1>1, <1>2, Sizes DEF RingInv
<1>4. Waiting = <<>>
  BY <1>2, <1>3, WaitingSeq, EmptySeq
<1> QED
  BY <1>3, <1>4 DEF Fifo!Init, Init

\* A push that finds room stores the byte behind the last one waiting.
LEMMA PushStores ==
    ASSUME RingInv, NEW b \in Byte, RoomLeft, uart_rx_push(b)
    PROVE  /\ Occupancy' = Occupancy + 1 /\ Occupancy < UART_RX_BUF_SIZE - 1
           /\ \A i \in 1 .. Occupancy : Waiting'[i] = Waiting[i]
           /\ Waiting'[Occupancy + 1] = b
           /\ TypeOK'
<1> DEFINE o == Occupancy
           m == UART_RX_BUF_SIZE
<1>1. /\ o \in Nat /\ o < m - 1 /\ m \in Nat /\ m <= INDEX_RANGE /\ INDEX_RANGE \in Nat \ {0}
      /\ rx_tail \in Int /\ rx_head \in Int
  BY RoomExact, HeadIndex, Sizes, WholeRings DEF RingInv
<1>2. /\ rx_buf' = [rx_buf EXCEPT ![Slot(rx_head)] = ToChar(b)]
      /\ rx_head' = (rx_head + 1) % INDEX_RANGE /\ rx_tail' = rx_tail /\ popped' = popped
  BY DEF uart_rx_push, Succ
<1>3. Slot(rx_head) = Slot(rx_tail + o)
  BY HeadIndex
<1>4. (rx_head' - rx_tail) % INDEX_RANGE = o + 1
  <2> DEFINE R == INDEX_RANGE
             t == rx_tail
             h == rx_head
             g == rx_head'
  <2>1. o = (h - t) % R /\ g = (h + 1) % R /\ o + 1 \in 0 .. R - 1
    BY <1>1, <1>2 DEF Occupancy
  <2>2. t \in Int /\ h \in Int /\ R \in Nat \ {0} /\ g \in Int
    BY <1>1, <1>2, DivMod
  <2> HIDE DEF R, t, h, g, o
  <2>3. PICK x \in Int, y \in Int, z \in Int : x = h - t /\ y = h + 1 /\ z = x + 1
    BY <2>2
  <2>4. (g + (-t)) % R = z % R
    <3>1. PICK c \in Int : c = -t /\ z = y + c
      BY <2>2, <2>3
    <3>2. R \in Nat \ {0} /\ z = y + c
      BY <2>2, <3>1
    <3>3. ((y % R) + c) % R = (y + c) % R
      BY <3>2, ModAdd, Zenon
    <3> QED
      BY <2>1, <2>3, <3>1, <3>3, <3>2, Zenon
  <2>5. (o + 1) % R = z % R
    <3>1. PICK c \in Int : c = 1
      OBVIOUS
    <3>2. R \in Nat \ {0} /\ z = x + c
      BY <2>2, <2>3, <3>1
    <3>3. ((x % R) + c) % R = (x + c) % R
      BY <3>2, ModAdd, Zenon
    <3> QED
      BY <2>1, <2>3, <3>1, <3>3, <3>2, Zenon
  <2>6. (g - t) % R = (o + 1) % R
    <3>1. g + (-t) = g - t
      BY <2>2
    <3> QED
      BY <2>4, <2>5, <3>1
  <2>7. (g - t) % R = o + 1
    BY <2>1, <2>2, <2>6, ModSmall
  <2> QED
    BY <2>7 DEF R, t, g
<1>5. Occupancy' = o + 1
  BY <1>2, <1>4 DEF Occupancy
<1>6. /\ rx_buf \in [0 .. m - 1 -> CHAR_MAX - 255 .. CHAR_MAX]
      /\ Slot(rx_head) \in 0 .. m - 1 /\ ToChar(b) \in CHAR_MAX - 255 .. CHAR_MAX /\ ToInt(ToChar(b)) = b
  BY <1>1, SlotType, CharRoundTrip DEF RingInv, TypeOK
<1>7. ASSUME NEW i \in 1 .. o PROVE Waiting'[i] = Waiting[i]
  <2>1. i - 1 \in 0 .. m - 1 /\ o \in 0 .. m - 1 /\ i - 1 # o /\ rx_tail + i - 1 = rx_tail + (i - 1)
    BY <1>1
  <2>2. Slot(rx_tail + i - 1) # Slot(rx_head)
    BY <1>1, <1>3, <2>1, SlotsDistinct
  <2>3. rx_buf'[Slot(rx_tail + i - 1)] = rx_buf[Slot(rx_tail + i - 1)]
    BY <1>2, <1>6, <2>2
  <2>4. i \in 1 .. Occupancy' /\ i \in 1 .. Occupancy
    BY <1>1, <1>5
  <2> QED
    BY <1>2, <2>3, <2>4 DEF Waiting
<1>8. Waiting'[o + 1] = b
  <2>1. o + 1 \in 1 .. Occupancy' /\ rx_tail + (o + 1) - 1 = rx_tail + o
    BY <1>1, <1>5
  <2>2. rx_buf'[Slot(rx_tail + o)] = ToChar(b)
    BY <1>2, <1>3, <1>6
  <2> QED
    BY <1>2, <1>6, <2>1, <2>2 DEF Waiting
<1>9. TypeOK'
  <2>1. rx_head' \in 0 .. INDEX_RANGE - 1
    BY <1>1, <1>2, DivMod
  <2>2. rx_buf' \in [0 .. m - 1 -> CHAR_MAX - 255 .. CHAR_MAX]
    BY <1>2, <1>6
  <2> QED
    BY <1>2, <2>1, <2>2 DEF RingInv, TypeOK
<1> QED
  BY <1>1, <1>5, <1>7, <1>8, <1>9

\* uart_rx_push puts the byte at the end of the queue, or drops it when the
\* ring is full.
LEMMA PushStep ==
    ASSUME RingInv, NEW b \in Byte, uart_rx_push(b)
    PROVE  RingInv' /\ Fifo!Push(b)
<1>1. Waiting \in Seq(Byte) /\ Len(Waiting) = Occupancy /\ popped' = popped
  BY WaitingSeq DEF uart_rx_push
<1>2. CASE RoomLeft
  <2>1. /\ Occupancy' = Occupancy + 1 /\ Occupancy < UART_RX_BUF_SIZE - 1
        /\ \A i \in 1 .. Occupancy : Waiting'[i] = Waiting[i]
        /\ Waiting'[Occupancy + 1] = b
        /\ TypeOK'
    BY <1>2, PushStores
  <2>2. Occupancy \in Nat /\ UART_RX_BUF_SIZE \in Nat
    BY Sizes DEF RingInv
  <2>3. RingInv'
    <3>1. \A i \in 1 .. Occupancy' : Waiting'[i] \in Byte
      <4>1. ASSUME NEW i \in 1 .. Occupancy + 1 PROVE Waiting'[i] \in Byte
        <5>1. CASE i = Occupancy + 1
          BY <2>1, <5>1
        <5>2. CASE i # Occupancy + 1
          <6>1. i \in 1 .. Occupancy
            BY <2>2, <5>2
          <6> QED
            BY <2>1, <6>1 DEF RingInv
        <5> QED
          BY <5>1, <5>2
      <4> QED
        BY <2>1, <4>1
    <3> QED
      BY <2>1, <2>2, <3>1 DEF RingInv
  <2>4. Waiting' \in Seq(Byte) /\ Len(Waiting') = Occupancy + 1
    <3>1. Occupancy' \in Nat /\ Waiting' \in [1 .. Occupancy' -> Byte]
      BY <2>1, <2>2, <2>3 DEF RingInv, Waiting
    <3> QED
      BY <2>1, <3>1, FunctionIsSeq
  <2>5. /\ Append(Waiting, b) \in Seq(Byte) /\ Len(Append(Waiting, b)) = Occupancy + 1
        /\ \A i \in 1 .. Occupancy : Append(Waiting, b)[i] = Waiting[i]
        /\ Append(Waiting, b)[Occupancy + 1] = b
    BY <1>1, AppendProperties
  <2>6. \A i \in 1 .. Occupancy + 1 : Waiting'[i] = Append(Waiting, b)[i]
    BY <2>1, <2>2, <2>5
  <2>7. Waiting' = Append(Waiting, b)
    BY <2>4, <2>5, <2>6, SeqEqual
  <2> QED
    BY <1>1, <2>1, <2>3, <2>7 DEF Fifo!Push
<1>3. CASE ~RoomLeft
  <2>1. UNCHANGED vars
    BY <1>3 DEF uart_rx_push, vars
  <2>2. UNCHANGED <<Occupancy, Waiting>>
    BY <2>1 DEF vars, Occupancy, Waiting
  <2>3. RingInv'
    BY <2>1, <2>2 DEF RingInv, TypeOK, vars
  <2>4. ~(Occupancy < UART_RX_BUF_SIZE - 1)
    BY <1>3, RoomExact
  <2> QED
    BY <1>1, <2>2, <2>3, <2>4 DEF Fifo!Push
<1> QED
  BY <1>2, <1>3

\* A pop that finds a byte takes the first one waiting.
LEMMA PopTakes ==
    ASSUME RingInv, rx_head # rx_tail, uart_rx_pop
    PROVE  /\ Occupancy' = Occupancy - 1 /\ Occupancy > 0
           /\ \A i \in 1 .. Occupancy - 1 : Waiting'[i] = Waiting[i + 1]
           /\ popped' = Waiting[1]
           /\ TypeOK'
<1> DEFINE o == Occupancy
           R == INDEX_RANGE
<1>1. /\ o \in Nat /\ o > 0 /\ o <= R - 1 /\ R \in Nat \ {0}
      /\ rx_tail \in Int /\ rx_head \in Int
  BY HeadIndex, Sizes, WholeRings DEF RingInv
<1>2. /\ rx_buf' = rx_buf /\ rx_head' = rx_head /\ rx_tail' = (rx_tail + 1) % R
      /\ popped' = ToInt(rx_buf[Slot(rx_tail)])
  BY DEF uart_rx_pop, uart_rx_empty, Succ
<1>3. (rx_head - rx_tail') % R = o - 1
  <2> DEFINE t == rx_tail
             h == rx_head
             u == rx_tail'
  <2>1. o = (h - t) % R /\ u = (t + 1) % R /\ o - 1 \in 0 .. R - 1
    BY <1>1, <1>2 DEF Occupancy
  <2>2. t \in Int /\ h \in Int /\ R \in Nat \ {0}
    BY <1>1
  <2> HIDE DEF R, t, h, u, o
  <2>3. PICK x \in Int, y \in Int, z \in Int, c \in Int :
           x = h - t /\ y = t + 1 /\ z = h - y /\ c = -1
    BY <2>2
  <2>4. (h - u) % R = z % R
    <3>1. R \in Nat \ {0} /\ h \in Int /\ z = h - y
      BY <2>2, <2>3
    <3>2. (h - (y % R)) % R = z % R
      BY <3>1, ModSub
    <3> QED
      BY <2>1, <2>3, <3>2, Zenon
  <2>5. (o + c) % R = z % R
    <3>1. R \in Nat \ {0} /\ z = x + c
      BY <2>2, <2>3
    <3>2. ((x % R) + c) % R = (x + c) % R
      BY <3>1, ModAdd, Zenon
    <3> QED
      BY <2>1, <2>3, <3>1, <3>2, Zenon
  <2>6. o + c = o - 1
    BY <1>1, <2>3
  <2>7. (o + c) % R = o - 1
    BY <2>1, <2>2, <2>6, ModSmall
  <2>8. (h - u) % R = o - 1
    BY <2>4, <2>5, <2>7, Zenon
  <2> QED
    BY <2>8 DEF t, h, u
<1>4. Occupancy' = o - 1
  BY <1>2, <1>3 DEF Occupancy
<1>5. ASSUME NEW i \in 1 .. o - 1 PROVE Waiting'[i] = Waiting[i + 1]
  <2>1. PICK y \in Int, c \in Int, d \in Int, u \in Int :
           y = rx_tail + 1 /\ c = i - 1 /\ d = y + c /\ u = rx_tail'
    <3>1. rx_tail' \in Int
      BY <1>1, <1>2, DivMod
    <3> QED
      BY <1>1, <3>1
  <2>2. Slot(u + c) = Slot(d)
    <3>1. PICK s \in Int : s = u + c
      OBVIOUS
    <3>2. s % R = d % R
      <4>1. R \in Nat \ {0} /\ d = y + c
        BY <1>1, <2>1
      <4> HIDE DEF R
      <4>2. ((y % R) + c) % R = (y + c) % R
        BY <4>1, ModAdd, Zenon
      <4> QED
        BY <1>2, <2>1, <3>1, <4>2, <4>1, Zenon
    <3>3. Slot(s % R) = Slot(s) /\ Slot(d % R) = Slot(d)
      BY SlotOfWrapped
    <3> QED
      BY <3>1, <3>2, <3>3, Zenon
  <2>3. rx_tail' + i - 1 = u + c /\ rx_tail + (i + 1) - 1 = d
    BY <1>1, <2>1
  <2>4. i \in 1 .. Occupancy' /\ i + 1 \in 1 .. Occupancy
    BY <1>1, <1>4
  <2>5. Waiting'[i] = ToInt(rx_buf'[Slot(rx_tail' + i - 1)])
    BY <2>4 DEF Waiting
  <2>6. Waiting[i + 1] = ToInt(rx_buf[Slot(rx_tail + (i + 1) - 1)])
    BY <2>4 DEF Waiting
  <2> QED
    BY <1>2, <2>2, <2>3, <2>5, <2>6
<1>6. popped' = Waiting[1]
  <2>1. 1 \in 1 .. Occupancy /\ rx_tail + 1 - 1 = rx_tail
    BY <1>1
  <2> QED
    BY <1>2, <2>1 DEF Waiting
<1>7. TypeOK'
  <2>1. rx_tail' \in 0 .. R - 1
    BY <1>1, <1>2, DivMod
  <2>2. popped' \in Byte
    BY <1>1, <1>6 DEF RingInv
  <2> QED
    BY <1>2, <2>1, <2>2 DEF RingInv, TypeOK
<1> QED
  BY <1>1, <1>4, <1>5, <1>6, <1>7

\* uart_rx_pop takes the oldest byte, or returns -1 and changes nothing.
LEMMA PopStep ==
    ASSUME RingInv, uart_rx_pop
    PROVE  RingInv' /\ (Fifo!Pop \/ Fifo!PopNothing)
<1>1. Waiting \in Seq(Byte) /\ Len(Waiting) = Occupancy /\ Occupancy \in Nat
  BY WaitingSeq, Sizes DEF RingInv
<1>2. CASE rx_head = rx_tail
  <2>1. rx_buf' = rx_buf /\ rx_head' = rx_head /\ rx_tail' = rx_tail /\ popped' = -1
    BY <1>2 DEF uart_rx_pop, uart_rx_empty
  <2>2. UNCHANGED <<Occupancy, Waiting>>
    BY <2>1 DEF Occupancy, Waiting
  <2>3. RingInv'
    BY <2>1, <2>2 DEF RingInv, TypeOK
  <2>4. Waiting = <<>>
    BY <1>1, <1>2, HeadIndex, EmptySeq
  <2> QED
    BY <2>1, <2>2, <2>3, <2>4 DEF Fifo!PopNothing
<1>3. CASE rx_head # rx_tail
  <2>1. /\ Occupancy' = Occupancy - 1 /\ Occupancy > 0
        /\ \A i \in 1 .. Occupancy - 1 : Waiting'[i] = Waiting[i + 1]
        /\ popped' = Waiting[1]
        /\ TypeOK'
    BY <1>3, PopTakes
  <2>2. UART_RX_BUF_SIZE \in Nat /\ Occupancy <= UART_RX_BUF_SIZE - 1
    BY <1>1, Sizes DEF RingInv
  <2>3. RingInv'
    <3>1. \A i \in 1 .. Occupancy' : Waiting'[i] \in Byte
      <4>1. ASSUME NEW i \in 1 .. Occupancy - 1 PROVE Waiting'[i] \in Byte
        <5>1. i + 1 \in 1 .. Occupancy
          BY <1>1
        <5> QED
          BY <2>1, <5>1 DEF RingInv
      <4> QED
        BY <2>1, <4>1
    <3>2. Occupancy' \in 0 .. UART_RX_BUF_SIZE - 1
      BY <1>1, <2>1, <2>2
    <3> QED
      BY <2>1, <3>1, <3>2 DEF RingInv
  <2>4. Waiting' \in Seq(Byte) /\ Len(Waiting') = Occupancy - 1
    <3>1. Occupancy' \in Nat /\ Waiting' \in [1 .. Occupancy' -> Byte]
      BY <1>1, <2>1, <2>3 DEF RingInv, Waiting
    <3> QED
      BY <2>1, <3>1, FunctionIsSeq
  <2>5. Waiting # <<>>
    BY <1>1, <2>1, EmptySeq
  <2>6. /\ Head(Waiting) = Waiting[1]
        /\ Tail(Waiting) \in Seq(Byte) /\ Len(Tail(Waiting)) = Occupancy - 1
        /\ \A i \in 1 .. Occupancy - 1 : Tail(Waiting)[i] = Waiting[i + 1]
    BY <1>1, <2>5, HeadTailProperties
  <2>7. Waiting' = Tail(Waiting)
    BY <2>1, <2>4, <2>6, SeqEqual
  <2> QED
    BY <2>1, <2>3, <2>5, <2>6, <2>7 DEF Fifo!Pop
<1> QED
  BY <1>2, <1>3

\* Every step of the ring keeps the invariant and is a step of the queue.
LEMMA NextStep ==
    ASSUME RingInv, [Next]_vars
    PROVE  RingInv' /\ [Fifo!Next]_<<Waiting, popped>>
<1>1. CASE uart_rx_pop
  BY <1>1, PopStep DEF Fifo!Next
<1>2. ASSUME NEW b \in Byte, uart_rx_push(b) PROVE RingInv' /\ Fifo!Next
  BY <1>2, PushStep DEF Fifo!Next
<1>3. CASE UNCHANGED vars
  <2>1. UNCHANGED <<Occupancy, Waiting, popped>>
    BY <1>3 DEF vars, Occupancy, Waiting
  <2> QED
    BY <1>3, <2>1 DEF RingInv, TypeOK, vars
<1> QED
  BY <1>1, <1>2, <1>3 DEF Next

\* At most UART_RX_BUF_SIZE - 1 bytes wait, and each is a byte the UART
\* delivered, whatever pushes and pops uart_core.c makes.
THEOREM RingInvariance == Spec => []RingInv
<1>1. Init => RingInv
  BY InitQueue
<1>2. RingInv /\ [Next]_vars => RingInv'
  BY NextStep
<1> QED
  BY <1>1, <1>2, PTL DEF Spec

\* rx_head and rx_tail keep the width of uint32_t, rx_buf holds chars and
\* uart_rx_pop returns a byte or -1.
THEOREM TypeCorrectness == Spec => []TypeOK
<1>1. RingInv => TypeOK
  BY DEF RingInv
<1> QED
  BY <1>1, RingInvariance, PTL

\* uart_rx_push and uart_rx_pop implement the bounded FIFO of
\* UART_RX_BUF_SIZE - 1 bytes for every size of the ring and of its indices.
THEOREM Refinement == Spec => ImplementsFifo
<1>1. Init => RingInv /\ Fifo!Init
  BY InitQueue
<1>2. RingInv /\ [Next]_vars => RingInv' /\ [Fifo!Next]_<<Waiting, popped>>
  BY NextStep
<1> QED
  BY <1>1, <1>2, PTL DEF Spec, ImplementsFifo, Fifo!Spec
=============================================================================
