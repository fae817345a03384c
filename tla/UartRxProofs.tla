---------------------------- MODULE UartRxProofs ----------------------------
(***************************************************************************)
(* The receive path of the console, for every FIFO depth, trigger level,   *)
(* ring capacity and amount of input.  InOrder speaks of neighbours on the *)
(* way from the UART to the reader; the invariant compares any two bytes   *)
(* on it, because a byte dropped by a full ring makes others neighbours.   *)
(***************************************************************************)
EXTENDS UartRx, SequenceTheorems, TLAPS

-----------------------------------------------------------------------------
(* The invariant.                                                          *)

Increasing(s) == \A i, j \in 1 .. Len(s) : i < j => s[i] < s[j]

Below(s, t) == \A i \in 1 .. Len(s), j \in 1 .. Len(t) : s[i] < t[j]

Above(b, s) == \A i \in 1 .. Len(s) : b < s[i]

UpTo(s, b) == \A i \in 1 .. Len(s) : s[i] <= b

Ordered ==
    /\ Increasing(ring) /\ Increasing(fifo)
    /\ Above(got, ring) /\ Above(got, fifo) /\ Below(ring, fifo)
    /\ got <= sent /\ UpTo(ring, sent) /\ UpTo(fifo, sent)

IndInv == TypeOK /\ Ordered /\ AwakeWhileRingHasBytes

-----------------------------------------------------------------------------
(* Sequences of bytes.                                                     *)

Byte == 1 .. MAX_BYTES

\* What Append does to the orders above.
LEMMA AppendOrdered ==
    ASSUME NEW s \in Seq(Byte), NEW b \in Byte, UpTo(s, b - 1), Increasing(s)
    PROVE  /\ Append(s, b) \in Seq(Byte) /\ Len(Append(s, b)) = Len(s) + 1
           /\ Increasing(Append(s, b)) /\ UpTo(Append(s, b), b)
           /\ \A x \in Int : Above(x, s) /\ x < b => Above(x, Append(s, b))
           /\ \A t \in Seq(Byte) : Below(t, s) /\ UpTo(t, b - 1) => Below(t, Append(s, b))
<1>1. /\ Append(s, b) \in Seq(Byte) /\ Len(Append(s, b)) = Len(s) + 1 /\ Len(s) \in Nat
      /\ \A i \in 1 .. Len(s) : Append(s, b)[i] = s[i] /\ s[i] \in Int
      /\ Append(s, b)[Len(s) + 1] = b
  BY AppendProperties, LenProperties, ElementOfSeq, RxAssumption DEF Byte
<1>2. b \in Int
  BY RxAssumption DEF Byte
<1>3. \A i \in 1 .. Len(s) + 1 : i \in 1 .. Len(s) \/ i = Len(s) + 1
  BY <1>1
<1> DEFINE a == Append(s, b)
           l == Len(s)
<1>4. /\ l \in Nat /\ Len(a) = l + 1 /\ a[l + 1] = b
      /\ \A i \in 1 .. l : a[i] = s[i] /\ s[i] \in Int /\ s[i] < b
  BY <1>1, <1>2 DEF UpTo
<1> HIDE DEF a, l
<1>5. Increasing(a)
  <2>1. ASSUME NEW i \in 1 .. l + 1, NEW j \in 1 .. l + 1, i < j PROVE a[i] < a[j]
    <3>1. i \in 1 .. l
      BY <1>4, <2>1
    <3>2. CASE j = l + 1
      BY <1>4, <3>1, <3>2
    <3>3. CASE j \in 1 .. l
      BY <1>4, <2>1, <3>1, <3>3 DEF Increasing, l
    <3> QED
      BY <1>3, <3>2, <3>3 DEF l
  <2> QED
    BY <1>4, <2>1 DEF Increasing
<1>6. UpTo(a, b)
  <2>1. ASSUME NEW i \in 1 .. l + 1 PROVE a[i] <= b
    <3>1. CASE i = l + 1
      BY <1>2, <1>4, <3>1
    <3>2. CASE i \in 1 .. l
      BY <1>2, <1>4, <3>2
    <3> QED
      BY <1>3, <3>1, <3>2 DEF l
  <2> QED
    BY <1>4, <2>1 DEF UpTo
<1>7. ASSUME NEW x \in Int, Above(x, s), x < b PROVE Above(x, a)
  BY <1>3, <1>4, <1>7 DEF Above, l
<1>8. ASSUME NEW t \in Seq(Byte), Below(t, s), UpTo(t, b - 1) PROVE Below(t, a)
  <2>1. ASSUME NEW i \in 1 .. Len(t), NEW j \in 1 .. l + 1 PROVE t[i] < a[j]
    <3>1. t[i] \in Int /\ t[i] <= b - 1
      BY <1>8, ElementOfSeq, RxAssumption DEF UpTo, Byte
    <3>2. CASE j = l + 1
      BY <1>2, <1>4, <3>1, <3>2
    <3>3. CASE j \in 1 .. l
      BY <1>4, <1>8, <3>3 DEF Below, l
    <3> QED
      BY <1>3, <3>2, <3>3 DEF l
  <2> QED
    BY <1>4, <2>1 DEF Below
<1> QED
  BY <1>1, <1>5, <1>6, <1>7, <1>8 DEF a

\* What taking the first byte away leaves.
LEMMA TailOrdered ==
    ASSUME NEW s \in Seq(Byte), s # <<>>, Increasing(s)
    PROVE  /\ Tail(s) \in Seq(Byte) /\ Len(Tail(s)) = Len(s) - 1 /\ Len(s) \in Nat \ {0}
           /\ Head(s) \in Byte /\ Head(s) = s[1]
           /\ Increasing(Tail(s)) /\ Above(Head(s), Tail(s))
           /\ \A x : UpTo(s, x) => UpTo(Tail(s), x) /\ Head(s) <= x
           /\ \A x : Above(x, s) => Above(x, Tail(s)) /\ x < Head(s)
           /\ \A t : Below(t, s) => Below(t, Tail(s))
           /\ \A t : Below(s, t) => Below(Tail(s), t) /\ Above(Head(s), t)
<1>1. /\ Tail(s) \in Seq(Byte) /\ Len(Tail(s)) = Len(s) - 1 /\ Len(s) \in Nat \ {0}
      /\ Head(s) \in Byte /\ Head(s) = s[1]
      /\ \A i \in 1 .. Len(s) - 1 : Tail(s)[i] = s[i + 1]
  BY HeadTailProperties, EmptySeq, LenProperties
<1> DEFINE a == Tail(s)
           l == Len(s) - 1
<1>2. /\ l \in Nat /\ Len(a) = l /\ Len(s) = l + 1
      /\ \A i \in 1 .. l : a[i] = s[i + 1] /\ i + 1 \in 1 .. l + 1 /\ 1 < i + 1
      /\ 1 \in 1 .. l + 1
  BY <1>1
<1>3. \A i, j \in 1 .. l : i < j => i + 1 < j + 1
  BY <1>2
<1> HIDE DEF a, l
<1>4. Increasing(a) /\ Above(s[1], a)
  BY <1>2, <1>3 DEF Increasing, Above
<1>5. ASSUME NEW x, UpTo(s, x) PROVE UpTo(a, x) /\ s[1] <= x
  BY <1>2, <1>5 DEF UpTo
<1>6. ASSUME NEW x, Above(x, s) PROVE Above(x, a) /\ x < s[1]
  BY <1>2, <1>6 DEF Above
<1>7. ASSUME NEW t, Below(t, s) PROVE Below(t, a)
  BY <1>2, <1>7 DEF Below
<1>8. ASSUME NEW t, Below(s, t) PROVE Below(a, t) /\ Above(s[1], t)
  BY <1>2, <1>8 DEF Below, Above
<1> QED
  BY <1>1, <1>4, <1>5, <1>6, <1>7, <1>8 DEF a
\* A bound may be raised.
LEMMA UpToLater ==
    ASSUME NEW s \in Seq(Byte), NEW b \in Int, UpTo(s, b)
    PROVE  UpTo(s, b + 1)
<1>1. \A i \in 1 .. Len(s) : s[i] \in Int
  BY ElementOfSeq, RxAssumption DEF Byte
<1> QED
  BY <1>1 DEF UpTo

-----------------------------------------------------------------------------
(* Every step keeps the invariant.                                         *)

\* The bounds, and the bytes as numbers.
LEMMA Numbers ==
    /\ MAX_BYTES \in Nat /\ FIFO_DEPTH \in Nat \ {0} /\ RING_CAPACITY \in Nat \ {0}
    /\ Byte = 1 .. MAX_BYTES
BY RxAssumption DEF Byte

\* All queues are empty and the reader is awake.
LEMMA InitInv == Init => IndInv
<1> SUFFICES ASSUME Init PROVE IndInv
  OBVIOUS
<1>1. fifo = <<>> /\ ring = <<>> /\ Len(fifo) = 0 /\ Len(ring) = 0
      /\ <<>> \in Seq(1 .. MAX_BYTES)
  BY EmptySeq DEF Init
<1>2. TypeOK
  BY <1>1, Numbers DEF Init, TypeOK
<1>3. Ordered
  BY <1>1 DEF Init, Ordered, Increasing, Above, Below, UpTo
<1> QED
  BY <1>1, <1>2, <1>3 DEF IndInv, AwakeWhileRingHasBytes

\* A byte arrives: it is the highest number on the way.
LEMMA ReceiveStep == ASSUME IndInv, Receive PROVE IndInv'
<1>1. /\ sent \in Nat /\ sent + 1 \in Byte /\ got \in Int
      /\ fifo \in Seq(Byte) /\ ring \in Seq(Byte) /\ Len(fifo) \in Nat
  BY Numbers, LenProperties DEF Receive, IndInv, TypeOK
<1>2. sent' = sent + 1 /\ UNCHANGED <<chip, ring, reader, got, cpu>>
  BY DEF Receive
<1>3. got <= sent + 1 /\ UpTo(ring, sent + 1) /\ UpTo(fifo, sent + 1)
  BY <1>1, UpToLater DEF IndInv, Ordered
<1>4. AwakeWhileRingHasBytes'
  BY <1>2 DEF IndInv, AwakeWhileRingHasBytes
<1>5. CASE fifo' = Append(fifo, sent + 1) /\ Len(fifo) < FIFO_DEPTH /\ ris' \subseteq ris \cup {"RX"}
  <2>1. (sent + 1) - 1 = sent
    BY <1>1
  <2>2. UpTo(fifo, (sent + 1) - 1) /\ UpTo(ring, (sent + 1) - 1) /\ got < sent + 1
    BY <1>1, <2>1 DEF IndInv, Ordered
  <2>3. /\ fifo' \in Seq(Byte) /\ Len(fifo') = Len(fifo) + 1
        /\ Increasing(fifo') /\ UpTo(fifo', sent + 1)
        /\ Above(got, fifo') /\ Below(ring, fifo')
    BY <1>1, <1>5, <2>2, AppendOrdered DEF IndInv, Ordered
  <2>4. Len(fifo') <= FIFO_DEPTH
    BY <1>1, <1>5, <2>3, Numbers
  <2>5. Ordered'
    BY <1>2, <1>3, <2>3 DEF IndInv, Ordered
  <2>6. TypeOK'
    BY <1>1, <1>2, <1>5, <2>3, <2>4, Numbers DEF IndInv, TypeOK
  <2> QED
    BY <1>4, <2>5, <2>6 DEF IndInv
<1>6. CASE UNCHANGED <<fifo, ris>>
  <2>1. Ordered'
    BY <1>2, <1>3, <1>6 DEF IndInv, Ordered
  <2>2. TypeOK'
    BY <1>1, <1>2, <1>6, Numbers DEF IndInv, TypeOK
  <2> QED
    BY <1>4, <2>1, <2>2 DEF IndInv
<1> QED
  BY <1>5, <1>6 DEF Receive

\* One turn of the drain loop: the first byte of the FIFO moves to the end of
\* the ring, or is dropped.
LEMMA DrainByteStep == ASSUME IndInv, DrainByte PROVE IndInv'
<1>1. /\ fifo \in Seq(Byte) /\ ring \in Seq(Byte) /\ fifo # <<>> /\ got \in Int /\ sent \in Int
      /\ Len(ring) \in Nat /\ Len(fifo) \in Nat /\ Len(fifo) <= FIFO_DEPTH
      /\ Increasing(fifo) /\ Increasing(ring) /\ Above(got, fifo) /\ Above(got, ring)
      /\ Below(ring, fifo) /\ UpTo(fifo, sent) /\ UpTo(ring, sent) /\ got <= sent
  BY Numbers, LenProperties DEF DrainByte, IndInv, TypeOK, Ordered
<1>2. /\ fifo' = Tail(fifo) /\ ris' \subseteq ris /\ cpu = "drain"
      /\ UNCHANGED <<chip, sent, reader, got, cpu>>
  BY DEF DrainByte, BitsAfterRead
<1>3. PICK b \in Byte : b = Head(fifo)
  BY <1>1, TailOrdered
<1>4. /\ fifo' \in Seq(Byte) /\ Len(fifo') = Len(fifo) - 1
      /\ Increasing(fifo') /\ Above(b, fifo') /\ UpTo(fifo', sent) /\ b <= sent
      /\ Above(got, fifo') /\ got < b /\ Below(ring, fifo')
  BY <1>1, <1>2, <1>3, TailOrdered
<1>5. Len(fifo') <= FIFO_DEPTH
  BY <1>1, <1>4, Numbers
<1>6. AwakeWhileRingHasBytes'
  BY <1>2 DEF AwakeWhileRingHasBytes
<1>7. CASE ring' = Append(ring, b) /\ Len(ring) < RING_CAPACITY
  <2>1. b \in Int /\ \A i \in 1 .. Len(ring) : ring[i] \in Int
    BY <1>1, ElementOfSeq, Numbers
  <2>2. UpTo(ring, b - 1)
    <3>1. b = fifo[1] /\ 1 \in 1 .. Len(fifo)
      BY <1>1, <1>3, TailOrdered
    <3>2. \A i \in 1 .. Len(ring) : ring[i] < b
      BY <1>1, <3>1 DEF Below
    <3> QED
      BY <2>1, <3>2 DEF UpTo
  <2>3. /\ ring' \in Seq(Byte) /\ Len(ring') = Len(ring) + 1
        /\ Increasing(ring') /\ UpTo(ring', b) /\ Above(got, ring')
    BY <1>1, <1>4, <1>7, <2>2, AppendOrdered
  <2>4. \A i \in 1 .. Len(ring') : ring'[i] \in Int /\ ring'[i] <= b
    BY <2>3, ElementOfSeq, Numbers DEF UpTo
  <2>5. UpTo(ring', sent)
    BY <1>1, <1>4, <2>1, <2>4 DEF UpTo
  <2>6. Below(ring', fifo')
    <3>1. \A j \in 1 .. Len(fifo') : fifo'[j] \in Int /\ b < fifo'[j]
      BY <1>4, ElementOfSeq, Numbers DEF Above
    <3>2. ASSUME NEW i \in 1 .. Len(ring'), NEW j \in 1 .. Len(fifo')
          PROVE  ring'[i] < fifo'[j]
      BY <2>1, <2>4, <3>1
    <3> QED
      BY <3>2 DEF Below
  <2>7. Len(ring') <= RING_CAPACITY
    BY <1>1, <1>7, <2>3, Numbers
  <2>8. Ordered'
    BY <1>1, <1>2, <1>4, <2>3, <2>5, <2>6 DEF Ordered
  <2>9. TypeOK'
    BY <1>2, <1>4, <1>5, <2>3, <2>7, Numbers DEF IndInv, TypeOK
  <2> QED
    BY <1>6, <2>8, <2>9 DEF IndInv
<1>8. CASE ring' = ring
  <2>1. Ordered'
    BY <1>1, <1>2, <1>4, <1>8 DEF Ordered
  <2>2. TypeOK'
    BY <1>2, <1>4, <1>5, <1>8, Numbers DEF IndInv, TypeOK
  <2> QED
    BY <1>6, <2>1, <2>2 DEF IndInv
<1> QED
  BY <1>3, <1>7, <1>8 DEF DrainByte

\* The reader takes the first byte of the ring, or goes to sleep on an empty one.
LEMMA ReadStep == ASSUME IndInv, Read PROVE IndInv'
<1>1. UNCHANGED <<chip, sent, fifo, ris, cpu>> /\ cpu = "user" /\ reader = "awake"
  BY DEF Read
<1>2. CASE ring # <<>> /\ got' = Head(ring) /\ ring' = Tail(ring) /\ reader' = reader
  <2>1. /\ ring \in Seq(Byte) /\ Increasing(ring) /\ Below(ring, fifo) /\ UpTo(ring, sent)
        /\ Len(ring) <= RING_CAPACITY
    BY Numbers DEF IndInv, TypeOK, Ordered
  <2>2. /\ ring' \in Seq(Byte) /\ Len(ring') = Len(ring) - 1 /\ Len(ring) \in Nat
        /\ got' \in Byte /\ Increasing(ring') /\ Above(got', ring') /\ UpTo(ring', sent)
        /\ got' <= sent /\ Below(ring', fifo) /\ Above(got', fifo)
    BY <1>2, <2>1, TailOrdered
  <2>3. Len(ring') <= RING_CAPACITY /\ got' \in 0 .. MAX_BYTES
    BY <2>1, <2>2, Numbers
  <2>4. Ordered'
    BY <1>1, <2>2 DEF IndInv, Ordered
  <2>5. TypeOK'
    BY <1>1, <1>2, <2>2, <2>3, Numbers DEF IndInv, TypeOK
  <2> QED
    BY <1>1, <1>2, <2>4, <2>5 DEF IndInv, AwakeWhileRingHasBytes
<1>3. CASE ring = <<>> /\ reader' = "asleep" /\ UNCHANGED <<got, ring>>
  BY <1>1, <1>3 DEF IndInv, TypeOK, Ordered, AwakeWhileRingHasBytes
<1> QED
  BY <1>2, <1>3 DEF Read

\* The other steps move no byte.
LEMMA ControlStep ==
    ASSUME IndInv, ReceiveTimeout \/ Irq \/ DrainDone \/ Ack \/ Wake \/ UNCHANGED vars
    PROVE  IndInv'
<1>1. UNCHANGED <<chip, sent, fifo, ring, got>>
  BY DEF ReceiveTimeout, Irq, DrainDone, Ack, Wake, vars
<1>2. Ordered'
  BY <1>1 DEF IndInv, Ordered
<1>3. TypeOK' /\ AwakeWhileRingHasBytes'
  BY DEF IndInv, TypeOK, AwakeWhileRingHasBytes, ReceiveTimeout, Irq, DrainDone, Ack, Wake, vars
<1> QED
  BY <1>2, <1>3 DEF IndInv

\* The invariant is inductive.
LEMMA NextInv == IndInv /\ [Next]_vars => IndInv'
BY ReceiveStep, DrainByteStep, ReadStep, ControlStep DEF Next, Driver

-----------------------------------------------------------------------------
(* What the invariant says.                                                *)

\* Ordered queues, one behind the other, deliver in order.
LEMMA OrderedPath == IndInv => InOrder
<1> SUFFICES ASSUME IndInv PROVE InOrder
  OBVIOUS
<1> DEFINE front == <<got>> \o ring
           path  == front \o fifo
           r     == Len(ring)
           f     == Len(fifo)
<1>1. got \in Int /\ ring \in Seq(Int) /\ fifo \in Seq(Int) /\ r \in Nat /\ f \in Nat
  <2>1. /\ got \in Int /\ ring \in Seq(1 .. MAX_BYTES) /\ fifo \in Seq(1 .. MAX_BYTES)
        /\ \A b \in 1 .. MAX_BYTES : b \in Int
    BY Numbers DEF IndInv, TypeOK
  <2>2. r \in Nat /\ f \in Nat
    BY <2>1, LenProperties
  <2>3. ring \in [1 .. r -> 1 .. MAX_BYTES] /\ fifo \in [1 .. f -> 1 .. MAX_BYTES]
    BY <2>1, LenProperties
  <2>4. ring \in [1 .. r -> Int] /\ fifo \in [1 .. f -> Int]
    BY <2>1, <2>3
  <2> HIDE DEF r, f
  <2> QED
    BY <2>1, <2>2, <2>4, SeqDef
<1>2. <<got>> \in Seq(Int) /\ Len(<<got>>) = 1 /\ <<got>>[1] = got
  BY <1>1
<1>3. /\ front \in Seq(Int) /\ Len(front) = 1 + r
      /\ front[1] = got /\ \A i \in 1 .. r : front[i + 1] = ring[i]
  <2>1. /\ front \in Seq(Int) /\ Len(front) = 1 + r
        /\ \A i \in 1 .. 1 + r : front[i] = IF i <= 1 THEN <<got>>[i] ELSE ring[i - 1]
    BY <1>1, <1>2, ConcatProperties
  <2>2. \A i \in 1 .. r : i + 1 \in 1 .. 1 + r /\ ~(i + 1 <= 1) /\ (i + 1) - 1 = i
    BY <1>1
  <2>3. 1 \in 1 .. 1 + r
    BY <1>1
  <2> QED
    BY <1>2, <2>1, <2>2, <2>3
<1> HIDE DEF front
<1>4. /\ Len(path) = 1 + r + f
      /\ \A i \in 1 .. 1 + r : path[i] = front[i]
      /\ \A i \in 1 .. f : path[1 + r + i] = fifo[i]
  <2>1. /\ Len(path) = (1 + r) + f
        /\ \A i \in 1 .. (1 + r) + f : path[i] = IF i <= 1 + r THEN front[i] ELSE fifo[i - (1 + r)]
    <3>1. /\ Len(path) = Len(front) + Len(fifo)
          /\ \A i \in 1 .. Len(front) + Len(fifo) :
                path[i] = IF i <= Len(front) THEN front[i] ELSE fifo[i - Len(front)]
      <4>1. front \in Seq(Int) /\ fifo \in Seq(Int)
        BY <1>1, <1>3
      <4> HIDE DEF r, f
      <4> QED
        BY <4>1, ConcatProperties
    <3> HIDE DEF path
    <3> QED
      BY <1>3, <3>1, Zenon
  <2>2. \A i \in 1 .. f : /\ 1 + r + i \in 1 .. (1 + r) + f /\ ~(1 + r + i <= 1 + r)
                          /\ (1 + r + i) - (1 + r) = i
    BY <1>1
  <2>3. \A i \in 1 .. 1 + r : i \in 1 .. (1 + r) + f /\ i <= 1 + r
    BY <1>1
  <2> QED
    BY <2>1, <2>2, <2>3
<1> HIDE DEF path
<1>5. ASSUME NEW i \in 1 .. r + f PROVE path[i] < path[i + 1]
  <2>1. CASE i = 1 /\ r > 0
    <3>1. path[1] = got /\ path[1 + 1] = ring[1] /\ 1 \in 1 .. r
      <4>1. 1 \in 1 .. r /\ 1 \in 1 .. 1 + r /\ 1 + 1 \in 1 .. 1 + r
        BY <1>1, <2>1
      <4>2. path[1] = front[1] /\ path[1 + 1] = front[1 + 1]
        BY <1>4, <4>1
      <4> QED
        BY <1>3, <4>1, <4>2
    <3> QED
      BY <2>1, <3>1 DEF IndInv, Ordered, Above
  <2>2. CASE i = 1 /\ r = 0
    <3>1. path[1] = got /\ path[1 + 1] = fifo[1] /\ 1 \in 1 .. f
      <4>1. 1 \in 1 .. f /\ 1 \in 1 .. 1 + r /\ 1 + r + 1 = 1 + 1
        BY <1>1, <2>2
      <4>2. path[1] = front[1] /\ path[1 + r + 1] = fifo[1]
        BY <1>4, <4>1
      <4> QED
        BY <1>3, <4>1, <4>2
    <3> QED
      BY <2>2, <3>1 DEF IndInv, Ordered, Above
  <2>3. CASE i > 1 /\ i <= r
    <3>1. PICK k \in 1 .. r : i = k + 1 /\ k + 1 \in 1 .. r /\ k < k + 1
      BY <1>1, <2>3
    <3>2. path[i] = front[k + 1] /\ path[i + 1] = front[(k + 1) + 1]
      <4>1. i + 1 = (k + 1) + 1 /\ k + 1 \in 1 .. 1 + r /\ (k + 1) + 1 \in 1 .. 1 + r
        BY <1>1, <2>3, <3>1
      <4> QED
        BY <1>4, <3>1, <4>1
    <3>3. path[i] = ring[k] /\ path[i + 1] = ring[k + 1]
      BY <1>3, <3>1, <3>2
    <3> QED
      BY <3>1, <3>3 DEF IndInv, Ordered, Increasing
  <2>4. CASE i = r + 1 /\ r > 0
    <3>1. path[i] = ring[r] /\ path[i + 1] = fifo[1] /\ r \in 1 .. r /\ 1 \in 1 .. f
      <4>1. /\ r \in 1 .. r /\ 1 \in 1 .. f /\ r + 1 \in 1 .. 1 + r
            /\ i = r + 1 /\ i + 1 = 1 + r + 1
        BY <1>1, <2>4
      <4>2. path[r + 1] = front[r + 1] /\ path[1 + r + 1] = fifo[1]
        BY <1>4, <4>1
      <4>3. front[r + 1] = ring[r]
        BY <1>3, <4>1
      <4> QED
        BY <4>1, <4>2, <4>3
    <3> QED
      BY <3>1 DEF IndInv, Ordered, Below
  <2>5. CASE i > r + 1
    <3>1. PICK k \in 1 .. f : i = 1 + r + k /\ k + 1 \in 1 .. f /\ k < k + 1
      <4>1. i - (1 + r) \in 1 .. f /\ i = 1 + r + (i - (1 + r)) /\ (i - (1 + r)) + 1 \in 1 .. f
            /\ i - (1 + r) < (i - (1 + r)) + 1
        BY <1>1, <2>5
      <4> QED
        BY <4>1
    <3>2. path[i] = fifo[k] /\ path[i + 1] = fifo[k + 1]
      <4>1. i + 1 = 1 + r + (k + 1)
        BY <1>1, <3>1
      <4> QED
        BY <1>4, <3>1, <4>1
    <3> QED
      BY <3>1, <3>2 DEF IndInv, Ordered, Increasing
  <2> QED
    BY <1>1, <2>1, <2>2, <2>3, <2>4, <2>5
<1>6. Len(path) - 1 = r + f
  BY <1>1, <1>4
<1> QED
  BY <1>5, <1>6 DEF InOrder, path, front

\* The receive path keeps its invariant.
THEOREM Invariance == Spec => []IndInv
BY InitInv, NextInv, PTL DEF Spec

\* The FIFO and the ring stay within their capacities and hold bytes.
THEOREM TypeCorrectness == Spec => []TypeOK
<1>1. IndInv => TypeOK
  BY DEF IndInv
<1> QED
  BY <1>1, Invariance, PTL

\* The bytes that sys_read hands out are in the order they were sent and none
\* comes twice, whatever overruns of the FIFO and the ring lose.
THEOREM DeliveryInOrder == Spec => []InOrder
BY OrderedPath, Invariance, PTL

\* rx_irq wakes the reader after every drain: it never sleeps over a byte.
THEOREM NoSleepOverBytes == Spec => []AwakeWhileRingHasBytes
<1>1. IndInv => AwakeWhileRingHasBytes
  BY DEF IndInv
<1> QED
  BY <1>1, Invariance, PTL

-----------------------------------------------------------------------------
(* Every interrupt of the UART brings a byte.                              *)

\* A raw interrupt bit of the PL011 stands for bytes in the FIFO: RX for a level
\* that reaches the trigger, RT for at least one.  Reads of the data register take
\* the bits away with the bytes, and pl011_rx_irq clears them all.
BitsHaveBytes ==
    /\ "RX" \in ris => Len(fifo) >= TRIGGER
    /\ "RT" \in ris => fifo # <<>>

\* The line, of either chip, is asserted only while a byte waits, so rx_irq is
\* never entered for nothing and does not interrupt again once it has drained the
\* FIFO.
NoInterruptWithoutByte == LineAsserted => fifo # <<>>

\* The bits start clear and every step keeps them in line with the FIFO.
LEMMA BitsStep == IndInv /\ BitsHaveBytes /\ [Next]_vars => BitsHaveBytes'
<1> SUFFICES ASSUME IndInv, BitsHaveBytes, [Next]_vars PROVE BitsHaveBytes'
  OBVIOUS
<1>1. /\ fifo \in Seq(Byte) /\ Len(fifo) \in Nat /\ TRIGGER \in Nat
      /\ \A s \in Seq(Byte) : s = <<>> <=> Len(s) = 0
  BY RxAssumption, LenProperties, EmptySeq DEF IndInv, TypeOK, Byte
<1>2. CASE Receive
  <2>1. sent + 1 \in Byte
    BY <1>2, Numbers DEF IndInv, TypeOK, Receive
  <2>2. /\ Append(fifo, sent + 1) \in Seq(Byte)
        /\ Len(Append(fifo, sent + 1)) = Len(fifo) + 1
    BY <1>1, <2>1, AppendProperties
  <2>3. CASE fifo' = Append(fifo, sent + 1)
    <3>1. fifo' # <<>> /\ Len(fifo') = Len(fifo) + 1
      BY <1>1, <2>2, <2>3
    <3>2. "RX" \in ris' => Len(fifo) + 1 = TRIGGER \/ "RX" \in ris
      BY <1>2, <2>3 DEF Receive
    <3> QED
      BY <1>1, <3>1, <3>2 DEF BitsHaveBytes
  <2>4. CASE UNCHANGED <<fifo, ris>>
    BY <2>4 DEF BitsHaveBytes
  <2> QED
    BY <1>2, <2>3, <2>4 DEF Receive
<1>3. CASE ReceiveTimeout
  BY <1>3 DEF ReceiveTimeout, BitsHaveBytes
<1>4. CASE DrainByte
  <2>1. /\ fifo' = Tail(fifo) /\ Tail(fifo) \in Seq(Byte) /\ Len(Tail(fifo)) = Len(fifo) - 1
        /\ ris' = BitsAfterRead(Len(fifo) - 1)
    BY <1>1, <1>4, HeadTailProperties DEF DrainByte
  <2>2. /\ "RX" \in ris' => Len(fifo) - 1 >= TRIGGER
        /\ "RT" \in ris' => Len(fifo) - 1 > 0
    BY <2>1 DEF BitsAfterRead
  <2>3. Len(fifo') = Len(fifo) - 1 /\ (Len(fifo') # 0 => fifo' # <<>>)
    BY <1>1, <2>1
  <2>4. "RX" \in ris' => Len(fifo') >= TRIGGER
    BY <2>2, <2>3
  <2>5. "RT" \in ris' => fifo' # <<>>
    BY <1>1, <2>2, <2>3
  <2> QED
    BY <2>4, <2>5 DEF BitsHaveBytes
<1>5. CASE Ack
  BY <1>5 DEF Ack, BitsHaveBytes
<1>6. CASE Irq \/ DrainDone \/ Wake \/ Read \/ UNCHANGED vars
  BY <1>6 DEF Irq, DrainDone, Wake, Read, vars, BitsHaveBytes
<1> QED
  BY <1>2, <1>3, <1>4, <1>5, <1>6 DEF Next, Driver

\* The interrupt line never stays asserted over an empty FIFO, for every depth and
\* trigger level and both chips.
THEOREM InterruptsBringBytes == Spec => []NoInterruptWithoutByte
<1>1. Init => BitsHaveBytes
  BY DEF Init, BitsHaveBytes
<1>2. IndInv /\ BitsHaveBytes => NoInterruptWithoutByte
  <2> SUFFICES ASSUME IndInv, BitsHaveBytes, LineAsserted, fifo = <<>> PROVE FALSE
    BY DEF NoInterruptWithoutByte
  <2>1. Len(fifo) = 0 /\ TRIGGER \in Nat \ {0}
    BY RxAssumption
  <2> QED
    BY <2>1, RxAssumption DEF LineAsserted, IMSC, BitsHaveBytes
<1> QED
  BY <1>1, <1>2, BitsStep, Invariance, PTL DEF Spec
=============================================================================
