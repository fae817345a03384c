---------------------------- MODULE ShellProofs ----------------------------
(***************************************************************************)
(* The line editor and the command recognition of shell.c, for every size  *)
(* of the line buffer, every keyboard, every spelling of the commands that *)
(* satisfies ShellAssumption and every width of int.                       *)
(*                                                                         *)
(* skip_spaces, match_word, CString and ulib_atoi walk over the line       *)
(* position by position; the reference reading speaks of the words of the  *)
(* text.  The proof gives the positions where the loops stop, shows that   *)
(* these are the bounds of the first and the second word, and that the     *)
(* digits added up from the left, wrapped at each step, are the digits by  *)
(* weight, wrapped once.                                                   *)
(***************************************************************************)
EXTENDS Shell, SequenceTheorems, WellFoundedInduction, TLAPS

-----------------------------------------------------------------------------
(* Numbers.                                                                *)

\* The constants are numbers; there is a process, and a word holds its number.
LEMMA Sizes ==
    /\ LINE_MAX \in Nat /\ LINE_MAX > 0
    /\ NUM_PROCESSES \in Nat /\ NUM_PROCESSES > 0
    /\ WORD \in Nat \ {0} /\ WORD > NUM_PROCESSES
BY ShellAssumption DEF Procs

\* A set of numbers has a smallest member.
LEMMA SmallestMember ==
    ASSUME NEW T, T \subseteq Nat, T # {}
    PROVE  \E x \in T : \A y \in T : x <= y
<1>1. PICK x \in T : \A y \in T : ~ (<<y, x>> \in OpToRel(<, Nat))
  BY WFMin, NatLessThanWellFounded
<1>2. ASSUME NEW y \in T PROVE x <= y
  <2>1. x \in Nat /\ y \in Nat
    OBVIOUS
  <2>2. ~(y < x)
    BY <1>1, <2>1 DEF OpToRel
  <2> QED
    BY <2>1, <2>2
<1> QED
  BY <1>2

\* The quotient and the remainder of an integer.
LEMMA DivMod ==
    ASSUME NEW a \in Int, NEW m \in Nat \ {0}
    PROVE  /\ a % m \in 0 .. m - 1
           /\ a \div m \in Int
           /\ a = m * (a \div m) + (a % m)
OBVIOUS

\* Only zero is a multiple of m strictly between -m and m.
LEMMA SmallMultiple ==
    ASSUME NEW m \in Nat \ {0}, NEW d \in Int, m * d < m, m * d > -m
    PROVE  d = 0
<1>1. ASSUME d >= 1 PROVE FALSE
  BY <1>1
<1>2. ASSUME d <= -1 PROVE FALSE
  BY <1>2
<1> QED
  BY <1>1, <1>2

\* Numbers that differ by a multiple of m have the same remainder.
LEMMA ModPeriod ==
    ASSUME NEW m \in Nat \ {0}, NEW x \in Int, NEW y \in Int, NEW q \in Int, x = m * q + y
    PROVE  x % m = y % m
<1>1. PICK u \in Int, r \in 0 .. m - 1 : r = x % m /\ x = m * u + r
  <2>1. x \div m \in Int /\ x % m \in 0 .. m - 1 /\ x = m * (x \div m) + (x % m)
    BY DivMod
  <2> QED
    BY <2>1, Zenon
<1>2. PICK v \in Int, s \in 0 .. m - 1 : s = y % m /\ y = m * v + s
  <2>1. y \div m \in Int /\ y % m \in 0 .. m - 1 /\ y = m * (y \div m) + (y % m)
    BY DivMod
  <2> QED
    BY <2>1, Zenon
<1>3. PICK d \in Int : d = u - (q + v)
  OBVIOUS
<1>4. m * d = s - r
  <2>1. m * d = m * u - (m * q + m * v) /\ m * u \in Int /\ m * q \in Int /\ m * v \in Int
    BY <1>3
  <2>2. PICK mu \in Int, mq \in Int, mv \in Int : mu = m * u /\ mq = m * q /\ mv = m * v
    BY <2>1
  <2>3. mu + r = mq + (mv + s) /\ m * d = mu - (mq + mv)
    BY <1>1, <1>2, <2>1, <2>2
  <2> QED
    BY <2>3
<1>5. d = 0
  BY <1>4, SmallMultiple
<1> QED
  BY <1>1, <1>2, <1>4, <1>5

-----------------------------------------------------------------------------
(* Recursive functions on an initial segment of the numbers.  Induction is *)
(* by the smallest counterexample.                                         *)

\* f starts with c and goes on with step function g.
Chain(n, c, g, f) ==
    /\ f \in [0 .. n -> Int]
    /\ f[0] = c
    /\ \A k \in 1 .. n : f[k] = g[<<k, f[k - 1]>>]

\* One more value for a chain.
LEMMA ChainExtends ==
    ASSUME NEW n \in Nat, NEW m \in 1 .. n, NEW c \in Int,
           NEW g \in [(1 .. n) \X Int -> Int], NEW f, Chain(m - 1, c, g, f)
    PROVE  \E h : Chain(m, c, g, h)
<1> DEFINE v == g[<<m, f[m - 1]>>]
           h == [k \in 0 .. m |-> IF k < m THEN f[k] ELSE v]
<1>1. m \in Nat /\ m - 1 \in Nat /\ f[m - 1] \in Int
  BY DEF Chain
<1>2. v \in Int
  BY <1>1
<1> HIDE DEF v
<1>3. h \in [0 .. m -> Int]
  <2>1. ASSUME NEW k \in 0 .. m PROVE (IF k < m THEN f[k] ELSE v) \in Int
    BY <1>1, <1>2 DEF Chain
  <2> QED
    BY <2>1
<1>4. h[0] = c
  BY <1>1 DEF Chain
<1>5. ASSUME NEW k \in 1 .. m PROVE h[k] = g[<<k, h[k - 1]>>]
  <2>1. h[k - 1] = f[k - 1]
    BY <1>1
  <2>2. CASE k < m
    <3>1. h[k] = f[k] /\ k \in 1 .. m - 1
      BY <1>1, <2>2
    <3> QED
      BY <2>1, <3>1 DEF Chain
  <2>3. CASE k = m
    <3>1. h[k] = v
      BY <1>1, <2>3
    <3> QED
      BY <2>1, <2>3, <3>1 DEF v
  <2> QED
    BY <1>1, <2>2, <2>3
<1>6. Chain(m, c, g, h)
  BY <1>3, <1>4, <1>5 DEF Chain
<1> QED
  BY <1>6

\* There is a chain of any length.
LEMMA ChainExists ==
    ASSUME NEW n \in Nat, NEW c \in Int, NEW g \in [(1 .. n) \X Int -> Int]
    PROVE  \E f : Chain(n, c, g, f)
<1> DEFINE T == {m \in Nat : m <= n /\ ~ \E f : Chain(m, c, g, f)}
<1> SUFFICES ASSUME T # {} PROVE FALSE
  OBVIOUS
<1>1. PICK m \in T : \A y \in T : m <= y
  BY SmallestMember
<1>2. m \in Nat /\ m <= n /\ ~ \E f : Chain(m, c, g, f)
  BY <1>1
<1>3. CASE m = 0
  <2>1. Chain(0, c, g, [k \in 0 .. 0 |-> c])
    BY DEF Chain
  <2> QED
    BY <1>2, <1>3, <2>1
<1>4. CASE m # 0
  <2>1. m - 1 \in Nat /\ m - 1 <= n /\ m - 1 \notin T /\ m \in 1 .. n
    BY <1>1, <1>2, <1>4
  <2>2. PICK f : Chain(m - 1, c, g, f)
    BY <2>1
  <2> QED
    BY <1>2, <2>1, <2>2, ChainExtends
<1> QED
  BY <1>3, <1>4

\* A function that follows the recursion as long as it yields numbers is a chain.
LEMMA ChainType ==
    ASSUME NEW n \in Nat, NEW c \in Int, NEW g \in [(1 .. n) \X Int -> Int],
           NEW f, f[0] = c,
           \A k \in 1 .. n : f[k - 1] \in Int => f[k] = g[<<k, f[k - 1]>>]
    PROVE  /\ \A k \in 0 .. n : f[k] \in Int
           /\ \A k \in 1 .. n : f[k] = g[<<k, f[k - 1]>>]
<1> DEFINE T == {k \in Nat : k <= n /\ f[k] \notin Int}
<1>1. ASSUME T # {} PROVE FALSE
  <2>1. PICK m \in T : \A y \in T : m <= y
    BY <1>1, SmallestMember
  <2>2. m \in Nat /\ m <= n /\ f[m] \notin Int /\ m # 0
    BY <2>1
  <2>3. m - 1 \in Nat /\ m - 1 <= n /\ m - 1 \notin T /\ m \in 1 .. n
    BY <2>1, <2>2
  <2>4. f[m - 1] \in Int
    BY <2>3
  <2> QED
    BY <2>2, <2>3, <2>4
<1>2. ASSUME NEW k \in 0 .. n PROVE f[k] \in Int
  BY <1>1
<1>3. ASSUME NEW k \in 1 .. n PROVE f[k - 1] \in Int
  <2>1. k - 1 \in 0 .. n
    OBVIOUS
  <2> QED
    BY <1>2, <2>1
<1> QED
  BY <1>2, <1>3

-----------------------------------------------------------------------------
(* Numerals.                                                               *)

\* The value of a digit.
LEMMA DigitType ==
    ASSUME NEW d \in Digits
    PROVE  DigitValue[d] \in 0 .. 9
<1> DEFINE names == <<"0", "1", "2", "3", "4", "5", "6", "7", "8", "9">>
<1>1. /\ names[0 + 1] = "0" /\ names[1 + 1] = "1" /\ names[2 + 1] = "2" /\ names[3 + 1] = "3"
      /\ names[4 + 1] = "4" /\ names[5 + 1] = "5" /\ names[6 + 1] = "6" /\ names[7 + 1] = "7"
      /\ names[8 + 1] = "8" /\ names[9 + 1] = "9"
  OBVIOUS
<1> HIDE DEF names
<1>2. \E v \in 0 .. 9 : d = names[v + 1]
  BY <1>1 DEF Digits
<1>3. DigitValue[d] = CHOOSE v \in 0 .. 9 : d = names[v + 1]
  BY DEF DigitValue, names
<1> QED
  BY <1>2, <1>3

\* A number and its remainder at the width of a word.
LEMMA Wrapped ==
    ASSUME NEW x \in Int
    PROVE  x % WORD \in 0 .. WORD - 1 /\ x % WORD \in Int
           /\ \E q \in Int : x = WORD * q + (x % WORD)
<1>1. x % WORD \in 0 .. WORD - 1 /\ x \div WORD \in Int /\ x = WORD * (x \div WORD) + (x % WORD)
  BY Sizes, DivMod
<1>2. x % WORD \in Int
  BY <1>1
<1> QED
  BY <1>1, <1>2, Zenon

\* H adds up n digits d from the left and wraps at each step.
FromLeft(n, d, H) ==
    /\ H[0] = 0 /\ \A k \in 0 .. n : H[k] \in Int
    /\ \A k \in 1 .. n : H[k] = (H[k - 1] * 10 + d[k]) % WORD

\* w are the powers of ten, L adds up the last k of n digits d by weight.
ByWeight(n, d, w, L) ==
    /\ w[0] = 1 /\ \A k \in 0 .. n : w[k] \in Int
    /\ \A k \in 1 .. n : w[k] = 10 * w[k - 1]
    /\ L[0] = 0 /\ \A k \in 0 .. n : L[k] \in Int
    /\ \A k \in 1 .. n : L[k] = L[k - 1] + d[n - k + 1] * w[k - 1]

\* A digit d of weight w between the digits before it, worth h, and those after it,
\* worth l: added to the front, and added to the rest.
InFront(h, d, w, l) == ((h * 10 + d) % WORD) * w + l
InRest(h, d, w, l) == h * (10 * w) + (l + d * w)

\* Moving a digit from the wrapped front to the weighted rest changes nothing
\* modulo the width of a word.
LEMMA DigitMoves ==
    ASSUME NEW h \in Int, NEW d \in Int, NEW w \in Int, NEW l \in Int
    PROVE  InFront(h, d, w, l) % WORD = InRest(h, d, w, l) % WORD
<1> DEFINE y == InFront(h, d, w, l)
           z == InRest(h, d, w, l)
<1>1. PICK x \in Int : x = h * 10 + d
  OBVIOUS
<1>2. PICK q \in Int, r \in Int : r = x % WORD /\ x = WORD * q + r
  BY Wrapped, Zenon
<1>3. /\ y \in Int /\ z \in Int
      /\ y = r * w + l /\ z = h * (10 * w) + (l + d * w) /\ \E p \in Int : p = q * w
  BY <1>1, <1>2 DEF InFront, InRest
<1> HIDE DEF y, z
<1>4. PICK p \in Int : p = q * w
  BY <1>3
<1>5. z = WORD * p + y
  <2>1. h * (10 * w) + d * w = x * w
    BY <1>1
  <2>2. x * w = (WORD * q) * w + r * w
    BY <1>2, Sizes
  <2>3. (WORD * q) * w = WORD * p
    BY <1>4, Sizes
  <2>4. PICK hw \in Int, dw \in Int, rw \in Int, wp \in Int, xw \in Int :
            /\ hw = h * (10 * w) /\ dw = d * w /\ rw = r * w /\ wp = WORD * p /\ xw = x * w
    BY <1>4, Sizes
  <2>5. hw + dw = xw /\ xw = wp + rw /\ z = hw + (l + dw) /\ y = rw + l
    BY <1>3, <2>1, <2>2, <2>3, <2>4
  <2>6. z = wp + y
    BY <2>5
  <2> QED
    BY <2>4, <2>6
<1>6. z % WORD = y % WORD
  BY <1>3, <1>5, Sizes, ModPeriod
<1> QED
  BY <1>6 DEF y, z

\* Digits added up from the left, wrapped at each step, are the digits by weight,
\* wrapped once.
LEMMA NumeralsAgree ==
    ASSUME NEW n \in Nat, NEW d \in [1 .. n -> Int], NEW H, NEW w, NEW L,
           FromLeft(n, d, H), ByWeight(n, d, w, L)
    PROVE  H[n] = L[n] % WORD
<1> DEFINE Split(k) == (H[n - k] * w[k] + L[k]) % WORD
           T == {k \in Nat : k <= n /\ Split(k) # H[n]}
<1>1. H[n] % WORD = H[n]
  <2>1. CASE n = 0
    <3>1. H[n] = 0
      BY <2>1 DEF FromLeft
    <3>2. 0 % WORD = 0
      BY Sizes
    <3> QED
      BY <3>1, <3>2
  <2>2. CASE n # 0
    <3>0. n \in 1 .. n /\ n - 1 \in 0 .. n
      BY <2>2
    <3>1. H[n] = (H[n - 1] * 10 + d[n]) % WORD /\ H[n - 1] \in Int /\ d[n] \in Int
      BY <3>0 DEF FromLeft
    <3>2. PICK x \in Int, q \in Int : H[n] = x % WORD /\ x = WORD * q + H[n]
      <4>1. PICK x \in Int : H[n] = x % WORD
        BY <3>1
      <4> QED
        BY <4>1, Wrapped, Zenon
    <3>3. H[n] \in Int
      BY DEF FromLeft
    <3> QED
      BY <3>2, <3>3, Sizes, ModPeriod
  <2> QED
    BY <2>1, <2>2
<1>2. Split(0) = H[n]
  <2>1. n - 0 = n /\ w[0] = 1 /\ L[0] = 0 /\ H[n] \in Int
    BY DEF FromLeft, ByWeight
  <2>2. H[n] * 1 + 0 = H[n]
    BY <2>1
  <2> QED
    BY <1>1, <2>1, <2>2
<1>3. ASSUME NEW k \in 1 .. n PROVE Split(k) = Split(k - 1)
  <2>1. /\ n - (k - 1) \in 1 .. n /\ n - k + 1 = n - (k - 1) /\ (n - (k - 1)) - 1 = n - k
        /\ k - 1 \in 0 .. n /\ n - k \in 0 .. n
    OBVIOUS
  <2>2. PICK h \in Int, dd \in Int, ww \in Int, l \in Int :
            h = H[n - k] /\ dd = d[n - k + 1] /\ ww = w[k - 1] /\ l = L[k - 1]
    BY <2>1 DEF FromLeft, ByWeight
  <2>3. H[n - (k - 1)] = (h * 10 + dd) % WORD
    BY <2>1, <2>2 DEF FromLeft
  <2>4. w[k] = 10 * ww /\ L[k] = l + dd * ww
    BY <2>2 DEF ByWeight
  <2>5. Split(k) = InRest(h, dd, ww, l) % WORD
    BY <2>2, <2>4, Zenon DEF InRest
  <2>6. Split(k - 1) = InFront(h, dd, ww, l) % WORD
    BY <2>2, <2>3, Zenon DEF InFront
  <2> QED
    BY <2>5, <2>6, DigitMoves
<1> HIDE DEF Split
<1>4. ASSUME T # {} PROVE FALSE
  <2>1. PICK k \in T : \A y \in T : k <= y
    BY <1>4, SmallestMember
  <2>2. k \in 1 .. n /\ k - 1 \in Nat /\ k - 1 <= n /\ k - 1 \notin T
    BY <1>2, <2>1
  <2>3. Split(k - 1) = H[n]
    BY <2>2
  <2> QED
    BY <1>3, <2>1, <2>2, <2>3
<1>5. Split(n) = H[n]
  BY <1>4
<1>6. H[0] * w[n] + L[n] = L[n]
  BY DEF FromLeft, ByWeight
<1>7. n - n = 0
  OBVIOUS
<1> QED
  BY <1>5, <1>6, <1>7, Zenon DEF Split

\* Where the digits that start at position s end.
DigitsEnd(s) ==
    CHOOSE e \in s .. Len(line) :
        line[e] \notin Digits /\ \A j \in s .. e - 1 : line[j] \in Digits

\* ulib_atoi adds up the digits of the line from the left.
LEMMA AtoiFromLeft ==
    ASSUME NEW s \in Nat, NEW n \in Nat, n = DigitsEnd(s) - s,
           NEW d \in [1 .. n -> 0 .. 9],
           \A k \in 1 .. n : d[k] = DigitValue[line[s + k - 1]]
    PROVE  \E H : FromLeft(n, d, H) /\ ulib_atoi(s) = H[n]
<1> DEFINE Is(f) == f = [k \in 0 .. DigitsEnd(s) - s |->
                           IF k = 0 THEN 0
                           ELSE (f[k - 1] * 10 + DigitValue[line[s + k - 1]]) % WORD]
           H == CHOOSE f : Is(f)
           g == [p \in (1 .. n) \X Int |-> (p[2] * 10 + d[p[1]]) % WORD]
<1>1. g \in [(1 .. n) \X Int -> Int]
  <2>1. ASSUME NEW p \in (1 .. n) \X Int PROVE (p[2] * 10 + d[p[1]]) % WORD \in Int
    <3>1. p[2] \in Int /\ d[p[1]] \in Int
      <4>1. p[1] \in 1 .. n /\ p[2] \in Int
        OBVIOUS
      <4>2. d[p[1]] \in 0 .. 9
        BY <4>1
      <4> QED
        BY <4>1, <4>2
    <3>2. p[2] * 10 + d[p[1]] \in Int
      BY <3>1
    <3> QED
      BY <3>2, Wrapped, Zenon
  <2> QED
    BY <2>1
<1>2. \A k \in 1 .. n, v \in Int :
          g[<<k, v>>] = (v * 10 + DigitValue[line[s + k - 1]]) % WORD
  BY Zenon
<1> HIDE DEF g
<1>3. PICK f : Chain(n, 0, g, f)
  <2>1. 0 \in Int
    OBVIOUS
  <2> QED
    BY <1>1, <2>1, ChainExists, Zenon
<1>4. Is(f)
  <2>1. f = [k \in 0 .. n |-> f[k]]
    BY <1>3 DEF Chain
  <2>2. ASSUME NEW k \in 0 .. n
        PROVE  f[k] = IF k = 0 THEN 0
                      ELSE (f[k - 1] * 10 + DigitValue[line[s + k - 1]]) % WORD
    <3>1. CASE k = 0
      BY <1>3, <3>1 DEF Chain
    <3>2. CASE k # 0
      <4>1. k \in 1 .. n /\ k - 1 \in 0 .. n
        BY <3>2
      <4>2. f[k - 1] \in Int /\ f[k] = g[<<k, f[k - 1]>>]
        BY <1>3, <4>1 DEF Chain
      <4> QED
        BY <1>2, <3>2, <4>1, <4>2, Zenon
    <3> QED
      BY <3>1, <3>2
  <2> QED
    BY <2>1, <2>2, Zenon
<1>5. Is(H)
  BY <1>4, Zenon
<1>6. ulib_atoi(s) = H[DigitsEnd(s) - s]
  BY DEF ulib_atoi, DigitsEnd
<1>7. \A k \in 0 .. n : H[k] = IF k = 0 THEN 0
                               ELSE (H[k - 1] * 10 + DigitValue[line[s + k - 1]]) % WORD
  BY <1>5, ZenonT(60)
<1> HIDE DEF Is, H
<1>8. H[0] = 0
  BY <1>7
<1>9. ASSUME NEW k \in 1 .. n PROVE H[k] = (H[k - 1] * 10 + DigitValue[line[s + k - 1]]) % WORD
  <2>1. k \in 0 .. n /\ k # 0
    OBVIOUS
  <2> QED
    BY <1>7, <2>1, Zenon
<1>10. \A k \in 0 .. n : H[k] \in Int
  <2>1. ASSUME NEW k \in 1 .. n, H[k - 1] \in Int PROVE H[k] = g[<<k, H[k - 1]>>]
    BY <1>2, <1>9, <2>1, Zenon
  <2> QED
    <3>1. 0 \in Int /\ \A k \in 1 .. n : H[k - 1] \in Int => H[k] = g[<<k, H[k - 1]>>]
      BY <2>1
    <3> QED
      BY ONLY n \in Nat, <1>1, <1>8, <3>1, ChainType, ZenonT(60)
<1>11. FromLeft(n, d, H)
  <2>1. ASSUME NEW k \in 1 .. n PROVE H[k] = (H[k - 1] * 10 + d[k]) % WORD
    BY <1>9, Zenon
  <2> QED
    BY <1>8, <1>10, <2>1, Zenon DEF FromLeft
<1> QED
  BY <1>6, <1>11, Zenon

\* The powers of ten.
LEMMA WeightsExist ==
    ASSUME NEW n \in Nat
    PROVE  LET w[k \in 0 .. n] == IF k = 0 THEN 1 ELSE 10 * w[k - 1]
           IN  /\ w[0] = 1 /\ \A k \in 0 .. n : w[k] \in Int
               /\ \A k \in 1 .. n : w[k] = 10 * w[k - 1]
<1> DEFINE Is(f) == f = [k \in 0 .. n |-> IF k = 0 THEN 1 ELSE 10 * f[k - 1]]
           w == CHOOSE f : Is(f)
           g == [p \in (1 .. n) \X Int |-> 10 * p[2]]
<1>1. g \in [(1 .. n) \X Int -> Int] /\ \A k \in 1 .. n, v \in Int : g[<<k, v>>] = 10 * v
  OBVIOUS
<1> HIDE DEF g
<1>2. PICK f : Chain(n, 1, g, f)
  BY <1>1, ChainExists
<1>3. Is(f)
  <2>1. f = [k \in 0 .. n |-> f[k]]
    BY <1>2 DEF Chain
  <2>2. ASSUME NEW k \in 0 .. n PROVE f[k] = IF k = 0 THEN 1 ELSE 10 * f[k - 1]
    <3>1. CASE k = 0
      BY <1>2, <3>1 DEF Chain
    <3>2. CASE k # 0
      <4>1. k \in 1 .. n /\ k - 1 \in 0 .. n
        BY <3>2
      <4>2. f[k - 1] \in Int /\ f[k] = g[<<k, f[k - 1]>>]
        BY <1>2, <4>1 DEF Chain
      <4> QED
        BY <1>1, <3>2, <4>1, <4>2, Zenon
    <3> QED
      BY <3>1, <3>2
  <2> QED
    BY <2>1, <2>2, Zenon
<1>4. Is(w)
  BY <1>3, Zenon
<1>5. \A k \in 0 .. n : w[k] = IF k = 0 THEN 1 ELSE 10 * w[k - 1]
  BY <1>4, Zenon
<1> SUFFICES /\ w[0] = 1 /\ \A k \in 0 .. n : w[k] \in Int
             /\ \A k \in 1 .. n : w[k] = 10 * w[k - 1]
  OBVIOUS
<1> HIDE DEF Is, w
<1>6. w[0] = 1 /\ \A k \in 1 .. n : w[k] = 10 * w[k - 1]
  BY <1>5
<1>7. \A k \in 0 .. n : w[k] \in Int
  <2>1. 1 \in Int /\ \A k \in 1 .. n : w[k - 1] \in Int => w[k] = g[<<k, w[k - 1]>>]
    BY <1>1, <1>6
  <2> QED
    BY <1>1, <1>6, <2>1, ChainType, ZenonT(60)
<1> QED
  BY <1>6, <1>7

\* ValueOf adds up the digits by weight.
LEMMA ValueByWeight ==
    ASSUME NEW t, NEW n \in Nat, n = Len(t), NEW d \in [1 .. n -> 0 .. 9],
           \A k \in 1 .. n : d[k] = DigitValue[t[k]]
    PROVE  \E w, L : ByWeight(n, d, w, L) /\ ValueOf(t) = L[n]
<1> DEFINE IsWeight(f) == f = [k \in 0 .. Len(t) |-> IF k = 0 THEN 1 ELSE 10 * f[k - 1]]
           w == CHOOSE f : IsWeight(f)
           Is(f) == f = [k \in 0 .. Len(t) |->
                           IF k = 0 THEN 0
                           ELSE f[k - 1] + DigitValue[t[Len(t) - k + 1]] * w[k - 1]]
           L == CHOOSE f : Is(f)
           g == [p \in (1 .. n) \X Int |-> p[2] + d[n - p[1] + 1] * w[p[1] - 1]]
<1>1. /\ w[0] = 1 /\ \A k \in 0 .. n : w[k] \in Int
      /\ \A k \in 1 .. n : w[k] = 10 * w[k - 1]
  BY WeightsExist, Zenon
<1>2. ValueOf(t) = L[Len(t)]
  BY DEF ValueOf
<1> HIDE DEF IsWeight, w
<1>3. g \in [(1 .. n) \X Int -> Int]
  <2>1. ASSUME NEW p \in (1 .. n) \X Int PROVE p[2] + d[n - p[1] + 1] * w[p[1] - 1] \in Int
    <3>1. p[1] \in 1 .. n /\ p[2] \in Int
      OBVIOUS
    <3>2. n - p[1] + 1 \in 1 .. n /\ p[1] - 1 \in 0 .. n
      BY <3>1
    <3>3. d[n - p[1] + 1] \in 0 .. 9
      BY <3>2
    <3>4. d[n - p[1] + 1] \in Int /\ w[p[1] - 1] \in Int
      BY <1>1, <3>2, <3>3, 0 .. 9 \subseteq Int, Zenon
    <3> QED
      BY <3>1, <3>4, SMTT(30)
  <2> QED
    BY <2>1
<1>4. \A k \in 1 .. n, v \in Int :
          g[<<k, v>>] = v + DigitValue[t[Len(t) - k + 1]] * w[k - 1]
  <2>1. ASSUME NEW k \in 1 .. n, NEW v \in Int
        PROVE  g[<<k, v>>] = v + DigitValue[t[Len(t) - k + 1]] * w[k - 1]
    <3>1. g[<<k, v>>] = v + d[n - k + 1] * w[k - 1]
      BY Zenon
    <3>2. d[n - k + 1] = DigitValue[t[Len(t) - k + 1]]
      OBVIOUS
    <3> QED
      BY <3>1, <3>2, Zenon
  <2> QED
    BY <2>1
<1> HIDE DEF g
<1>5. PICK f : Chain(n, 0, g, f)
  <2>1. 0 \in Int
    OBVIOUS
  <2> QED
    BY <1>3, <2>1, ChainExists, Zenon
<1>6. Is(f)
  <2>1. f = [k \in 0 .. n |-> f[k]]
    BY <1>5 DEF Chain
  <2>2. ASSUME NEW k \in 0 .. n
        PROVE  f[k] = IF k = 0 THEN 0
                      ELSE f[k - 1] + DigitValue[t[Len(t) - k + 1]] * w[k - 1]
    <3>1. CASE k = 0
      BY <1>5, <3>1 DEF Chain
    <3>2. CASE k # 0
      <4>1. k \in 1 .. n /\ k - 1 \in 0 .. n
        BY <3>2
      <4>2. f[k - 1] \in Int /\ f[k] = g[<<k, f[k - 1]>>]
        BY <1>5, <4>1 DEF Chain
      <4> QED
        BY <1>4, <3>2, <4>1, <4>2, Zenon
    <3> QED
      BY <3>1, <3>2
  <2> QED
    BY <2>1, <2>2, Zenon
<1>7. Is(L)
  BY <1>6, Zenon
<1>8. \A k \in 0 .. n : L[k] = IF k = 0 THEN 0
                               ELSE L[k - 1] + DigitValue[t[Len(t) - k + 1]] * w[k - 1]
  BY <1>7, ZenonT(60)
<1> HIDE DEF Is, L
<1>9. L[0] = 0
  BY <1>8
<1>10. ASSUME NEW k \in 1 .. n
       PROVE  L[k] = L[k - 1] + DigitValue[t[Len(t) - k + 1]] * w[k - 1]
  <2>1. k \in 0 .. n /\ k # 0
    OBVIOUS
  <2> QED
    BY <1>8, <2>1, Zenon
<1>11. \A k \in 0 .. n : L[k] \in Int
  <2>1. ASSUME NEW k \in 1 .. n, L[k - 1] \in Int PROVE L[k] = g[<<k, L[k - 1]>>]
    BY <1>4, <1>10, <2>1, Zenon
  <2>2. 0 \in Int /\ \A k \in 1 .. n : L[k - 1] \in Int => L[k] = g[<<k, L[k - 1]>>]
    BY <2>1
  <2> QED
    BY ONLY n \in Nat, <1>3, <1>9, <2>2, ChainType, ZenonT(60)
<1>12. ByWeight(n, d, w, L)
  <2>1. ASSUME NEW k \in 1 .. n PROVE L[k] = L[k - 1] + d[n - k + 1] * w[k - 1]
    <3>1. d[n - k + 1] = DigitValue[t[Len(t) - k + 1]]
      OBVIOUS
    <3> QED
      BY <1>10, <3>1, Zenon
  <2> QED
    BY <1>1, <1>9, <1>11, <2>1, Zenon DEF ByWeight
<1> QED
  BY <1>2, <1>12, Zenon

\* Reading the digits of the line as ulib_atoi does gives the value of the numeral
\* they make, as an int.
LEMMA AtoiIsValue ==
    ASSUME NEW s \in Nat, NEW t, NEW n \in Nat, n = DigitsEnd(s) - s, n = Len(t),
           \A k \in 1 .. n : t[k] = line[s + k - 1] /\ t[k] \in Digits
    PROVE  ulib_atoi(s) = ValueOf(t) % WORD /\ ulib_atoi(s) \in 0 .. WORD - 1
<1> DEFINE d == [k \in 1 .. n |-> DigitValue[t[k]]]
<1>1. d \in [1 .. n -> 0 .. 9] /\ d \in [1 .. n -> Int]
  <2>1. \A k \in 1 .. n : DigitValue[t[k]] \in 0 .. 9
    BY DigitType
  <2> QED
    BY <2>1
<1>2. \A k \in 1 .. n : d[k] = DigitValue[t[k]] /\ d[k] = DigitValue[line[s + k - 1]]
  OBVIOUS
<1> HIDE DEF d
<1>3. PICK H : FromLeft(n, d, H) /\ ulib_atoi(s) = H[n]
  BY <1>1, <1>2, AtoiFromLeft, Zenon
<1>4. PICK w, L : ByWeight(n, d, w, L) /\ ValueOf(t) = L[n]
  BY <1>1, <1>2, ValueByWeight, Zenon
<1>5. H[n] = L[n] % WORD
  BY ONLY n \in Nat, <1>1, <1>3, <1>4, NumeralsAgree
<1>6. L[n] \in Int
  BY <1>4 DEF ByWeight
<1>7. L[n] % WORD \in 0 .. WORD - 1
  BY <1>6, Wrapped, Zenon
<1> QED
  BY <1>3, <1>4, <1>5, <1>7

-----------------------------------------------------------------------------
(* The words of a text.                                                    *)

\* The first position from s on that is in P.
LEMMA FirstPosition ==
    ASSUME NEW s \in Nat, NEW n \in Nat, NEW P, n \in P, s <= n
    PROVE  \E e \in s .. n : e \in P /\ \A j \in s .. e - 1 : j \notin P
<1> DEFINE T == {e \in Nat : s <= e /\ e \in P}
<1>1. PICK e \in T : \A y \in T : e <= y
  <2>1. T \subseteq Nat /\ T # {}
    OBVIOUS
  <2> QED
    BY <2>1, SmallestMember
<1>2. e \in s .. n /\ e \in P
  BY <1>1
<1>3. ASSUME NEW j \in s .. e - 1 PROVE j \notin P
  BY <1>1, <1>2
<1> QED
  BY <1>2, <1>3

\* The stretch of positions x .. y of t is a word.
IsWord(t, x, y) ==
    /\ x \in 1 .. Len(t) /\ y \in 1 .. Len(t) /\ x <= y
    /\ \A j \in x .. y : t[j] \notin Blanks
    /\ x > 1 => t[x - 1] \in Blanks
    /\ y < Len(t) => t[y + 1] \in Blanks

\* WordsOf gives the words.
LEMMA WordsAre ==
    ASSUME NEW S, NEW t \in Seq(S)
    PROVE  /\ \A b \in WordsOf(t) : IsWord(t, b[1], b[2])
           /\ \A x, y : IsWord(t, x, y) => <<x, y>> \in WordsOf(t)
<1> DEFINE C == {t[i] : i \in 1 .. Len(t)} \ Blanks
<1>1. Len(t) \in Nat
  BY LenProperties
<1>2. \A j \in 1 .. Len(t) : t[j] \in C <=> t[j] \notin Blanks
  OBVIOUS
<1> HIDE DEF C
<1>3. WordsOf(t) = Stretches(t, C)
  BY DEF WordsOf, C
<1>4. ASSUME NEW b \in WordsOf(t) PROVE IsWord(t, b[1], b[2])
  <2>1. /\ b[1] \in 1 .. Len(t) /\ b[2] \in 1 .. Len(t) /\ b[1] <= b[2]
        /\ \A j \in b[1] .. b[2] : t[j] \in C
        /\ b[1] > 1 => t[b[1] - 1] \notin C
        /\ b[2] < Len(t) => t[b[2] + 1] \notin C
    BY <1>3 DEF Stretches
  <2>2. PICK x \in 1 .. Len(t), y \in 1 .. Len(t) : x = b[1] /\ y = b[2]
    BY <2>1
  <2>3. \A j \in x .. y : j \in 1 .. Len(t)
    BY <1>1
  <2>4. (x > 1 => x - 1 \in 1 .. Len(t)) /\ (y < Len(t) => y + 1 \in 1 .. Len(t))
    BY <1>1
  <2>5. IsWord(t, x, y)
    BY <1>2, <2>1, <2>2, <2>3, <2>4 DEF IsWord
  <2> QED
    BY <2>2, <2>5
<1>5. ASSUME NEW x, NEW y, IsWord(t, x, y) PROVE <<x, y>> \in WordsOf(t)
  <2>1. x \in 1 .. Len(t) /\ y \in 1 .. Len(t)
    BY <1>5 DEF IsWord
  <2>2. \A j \in x .. y : j \in 1 .. Len(t)
    BY <1>1, <2>1
  <2>3. (x > 1 => x - 1 \in 1 .. Len(t)) /\ (y < Len(t) => y + 1 \in 1 .. Len(t))
    BY <1>1, <2>1
  <2>4. /\ x <= y /\ \A j \in x .. y : t[j] \in C
        /\ x > 1 => t[x - 1] \notin C
        /\ y < Len(t) => t[y + 1] \notin C
    BY <1>2, <1>5, <2>2, <2>3 DEF IsWord
  <2> QED
    BY <1>3, <2>1, <2>4 DEF Stretches
<1> QED
  BY <1>4, <1>5

\* A word starts at every position that is not blank and has nothing or a blank
\* before it.
LEMMA WordFrom ==
    ASSUME NEW S, NEW t \in Seq(S), NEW x \in 1 .. Len(t), t[x] \notin Blanks,
           x > 1 => t[x - 1] \in Blanks
    PROVE  \E y : IsWord(t, x, y)
<1> DEFINE n == Len(t)
           P == {j \in 1 .. n : t[j] \in Blanks} \cup {n + 1}
<1>1. n \in Nat
  BY LenProperties
<1>2. PICK e \in x .. n + 1 : e \in P /\ \A j \in x .. e - 1 : j \notin P
  <2>1. x \in Nat /\ n + 1 \in Nat /\ n + 1 \in P /\ x <= n + 1
    BY <1>1
  <2> HIDE DEF P
  <2> QED
    BY <2>1, FirstPosition, ZenonT(60)
<1>3. e > x
  BY <1>1, <1>2
<1>4. \A j \in x .. e - 1 : t[j] \notin Blanks
  BY <1>1, <1>2
<1>5. e - 1 < n => t[(e - 1) + 1] \in Blanks
  BY <1>1, <1>2
<1>6. IsWord(t, x, e - 1)
  BY <1>1, <1>2, <1>3, <1>4, <1>5 DEF IsWord
<1> QED
  BY <1>6

\* A word is known by its start.
LEMMA WordUnique ==
    ASSUME NEW S, NEW t \in Seq(S), NEW x, NEW y, NEW z, IsWord(t, x, y), IsWord(t, x, z)
    PROVE  y = z
<1>1. Len(t) \in Nat
  BY LenProperties
<1>2. ASSUME NEW u, NEW v, IsWord(t, x, u), IsWord(t, x, v), u < v PROVE FALSE
  <2>1. u + 1 \in x .. v /\ u < Len(t)
    BY <1>1, <1>2 DEF IsWord
  <2> QED
    BY <1>2, <2>1 DEF IsWord
<1>3. y \in Nat /\ z \in Nat
  BY <1>1 DEF IsWord
<1>4. ~(y < z) /\ ~(z < y)
  BY <1>2, Zenon
<1> QED
  BY <1>3, <1>4

\* The first word of a text, where Meaning looks for the command.
FirstOf(t) == CHOOSE b \in WordsOf(t) : \A d \in WordsOf(t) : b[1] <= d[1]

\* The text starts with blanks up to position p, and its first word ends at q.
Leads(t, p, q) == IsWord(t, p, q) /\ \A j \in 1 .. p - 1 : t[j] \in Blanks

\* ... so that the first word is there.
LEMMA FirstWord ==
    ASSUME NEW S, NEW t \in Seq(S), NEW p, NEW q, Leads(t, p, q)
    PROVE  /\ WordsOf(t) # {}
           /\ \A b \in WordsOf(t) : p <= b[1]
           /\ FirstOf(t)[1] = p /\ FirstOf(t)[2] = q
<1>0. Len(t) \in Nat /\ p \in 1 .. Len(t) /\ IsWord(t, p, q)
  BY LenProperties DEF Leads, IsWord
<1>1. <<p, q>> \in WordsOf(t) /\ <<p, q>>[1] = p
  BY <1>0, WordsAre
<1>2. ASSUME NEW b \in WordsOf(t) PROVE p <= b[1] /\ b[1] \in Nat
  <2>1. b[1] \in 1 .. Len(t) /\ b[2] \in 1 .. Len(t) /\ b[1] <= b[2] /\ t[b[1]] \notin Blanks
    <3>1. IsWord(t, b[1], b[2])
      BY WordsAre
    <3> QED
      BY <1>0, <3>1 DEF IsWord
  <2>2. b[1] \notin 1 .. p - 1
    BY <2>1 DEF Leads
  <2> QED
    BY <1>0, <2>1, <2>2
<1> DEFINE b == FirstOf(t)
<1>3. b \in WordsOf(t) /\ \A d \in WordsOf(t) : b[1] <= d[1]
  <2>1. \A d \in WordsOf(t) : <<p, q>>[1] <= d[1]
    BY <1>1, <1>2
  <2> QED
    BY <1>1, <2>1, Zenon DEF FirstOf
<1> HIDE DEF b
<1>4. b[1] = p
  <2>1. b[1] <= p /\ p <= b[1] /\ b[1] \in Nat
    BY <1>1, <1>2, <1>3
  <2> QED
    BY <1>0, <2>1
<1>5. b[2] = q
  <2>1. IsWord(t, p, b[2])
    BY <1>3, <1>4, WordsAre
  <2> QED
    BY <1>0, <2>1, WordUnique
<1> QED
  BY <1>1, <1>2, <1>4, <1>5 DEF b

\* A text of blanks has no words.
LEMMA NoWords ==
    ASSUME NEW S, NEW t \in Seq(S), \A j \in 1 .. Len(t) : t[j] \in Blanks
    PROVE  WordsOf(t) = {}
<1> SUFFICES ASSUME NEW b \in WordsOf(t) PROVE FALSE
  OBVIOUS
<1>1. Len(t) \in Nat
  BY LenProperties
<1>2. IsWord(t, b[1], b[2])
  BY WordsAre
<1>3. b[1] \in 1 .. Len(t) /\ b[1] \in b[1] .. b[2]
  BY <1>1, <1>2 DEF IsWord
<1> QED
  BY <1>2, <1>3 DEF IsWord

\* After the first word there are blanks up to position a, then a second word or the
\* end of the text.
Follows(t, q, a) ==
    /\ a \in q + 1 .. Len(t) + 1
    /\ \A j \in q + 1 .. a - 1 : t[j] \in Blanks
    /\ a <= Len(t) => t[a] \notin Blanks

\* The argument begins there.
LEMMA Argument ==
    ASSUME NEW S, NEW t \in Seq(S), NEW p, NEW q, NEW a, Leads(t, p, q), Follows(t, q, a)
    PROVE  ArgumentOf(t) = IF a = Len(t) + 1 THEN <<>> ELSE SubSeq(t, a, Len(t))
<1> DEFINE starts == {b[1] : b \in WordsOf(t)}
           later  == {s \in starts : \E r \in starts : r < s}
<1>0. /\ Len(t) \in Nat /\ p \in 1 .. Len(t) /\ q \in p .. Len(t) /\ IsWord(t, p, q)
      /\ a \in Nat /\ a > q /\ a <= Len(t) + 1
  <2>1. Len(t) \in Nat
    BY LenProperties
  <2>2. IsWord(t, p, q)
    BY DEF Leads
  <2>3. p \in 1 .. Len(t) /\ q \in 1 .. Len(t) /\ p <= q
    BY <2>2 DEF IsWord
  <2> QED
    BY <2>1, <2>2, <2>3 DEF Follows
<1>1. ASSUME NEW s PROVE s \in starts <=> \E y : IsWord(t, s, y)
  <2>1. ASSUME s \in starts PROVE \E y : IsWord(t, s, y)
    BY <2>1, WordsAre
  <2>2. ASSUME NEW y, IsWord(t, s, y) PROVE s \in starts
    <3>1. <<s, y>> \in WordsOf(t) /\ <<s, y>>[1] = s
      BY <2>2, WordsAre
    <3> QED
      BY <3>1
  <2> QED
    BY <2>1, <2>2
<1>2. p \in starts /\ \A s \in starts : s \in 1 .. Len(t) /\ p <= s
  <2>1. \A s \in starts : s \in 1 .. Len(t)
    BY <1>1 DEF IsWord
  <2>2. \A s \in starts : p <= s
    BY FirstWord
  <2>3. p \in starts
    BY <1>0, <1>1
  <2> QED
    BY <2>1, <2>2, <2>3
<1> HIDE DEF starts
<1>3. ASSUME NEW s \in later PROVE s \in Nat /\ a <= s /\ s <= Len(t)
  <2>1. s \in 1 .. Len(t) /\ s > p
    BY <1>0, <1>2
  <2>2. t[s] \notin Blanks /\ t[s - 1] \in Blanks
    <3>1. PICK y : IsWord(t, s, y)
      BY <1>1
    <3>2. s \in s .. y
      BY <3>1 DEF IsWord
    <3> QED
      BY <1>0, <2>1, <3>1, <3>2 DEF IsWord
  <2>3. ~(s <= q)
    <3>1. ASSUME s <= q PROVE s - 1 \in p .. q
      BY <1>0, <2>1, <3>1
    <3> QED
      BY <1>0, <2>2, <3>1 DEF IsWord
  <2>4. ~(s < a)
    <3>1. ASSUME s < a PROVE s \in q + 1 .. a - 1
      BY <1>0, <2>1, <2>3, <3>1
    <3> QED
      BY <2>2, <3>1 DEF Follows
  <2> QED
    BY <1>0, <2>1, <2>4
<1>4. CASE a = Len(t) + 1
  <2>1. later = {}
    BY <1>0, <1>3, <1>4
  <2> QED
    BY <1>4, <2>1 DEF ArgumentOf, starts
<1>5. CASE a # Len(t) + 1
  <2>1. a \in 1 .. Len(t) /\ t[a] \notin Blanks
    BY <1>0, <1>5 DEF Follows
  <2>2. a > 1 /\ t[a - 1] \in Blanks
    <3>1. a # q + 1
      <4>1. ASSUME a = q + 1 PROVE q < Len(t)
        BY <1>0, <2>1, <4>1
      <4> QED
        BY <1>0, <2>1, <4>1 DEF IsWord
    <3>2. a - 1 \in q + 1 .. a - 1
      BY <1>0, <3>1
    <3> QED
      BY <1>0, <3>2 DEF Follows
  <2>3. \E y : IsWord(t, a, y)
    BY <2>1, <2>2, WordFrom
  <2>4. a \in later
    <3>1. a \in starts
      BY <1>1, <2>3
    <3>2. p < a
      BY <1>0
    <3> QED
      BY <1>2, <3>1, <3>2
  <2> DEFINE c == CHOOSE s \in later : \A r \in later : s <= r
  <2>5. c \in later /\ \A r \in later : c <= r
    BY <1>3, <2>4, Zenon
  <2>6. ArgumentOf(t) = SubSeq(t, c, Len(t))
    BY <2>4, Zenon DEF ArgumentOf, starts
  <2> HIDE DEF c, later
  <2>7. c = a
    <3>1. c \in Nat /\ a <= c /\ c <= a
      BY <1>3, <2>4, <2>5
    <3> QED
      BY <1>0, <3>1
  <2> QED
    BY <1>5, <2>6, <2>7
<1> QED
  BY <1>4, <1>5

\* A text that begins with m digits and no more.
LEMMA Number ==
    ASSUME NEW S, NEW u \in Seq(S), NEW m \in 0 .. Len(u),
           \A j \in 1 .. m : u[j] \in Digits,
           m < Len(u) => u[m + 1] \notin Digits
    PROVE  NumberOf(u) = IF m = 0 THEN 0 ELSE ValueOf(SubSeq(u, 1, m)) % WORD
<1> DEFINE leading == {b \in Stretches(u, Digits) : b[1] = 1}
<1>0. Len(u) \in Nat /\ m \in Nat /\ m <= Len(u)
  BY LenProperties
<1>1. ASSUME NEW b \in leading PROVE m # 0 /\ b[2] = m
  <2>1. /\ b[1] = 1 /\ b[2] \in 1 .. Len(u)
        /\ \A j \in 1 .. b[2] : u[j] \in Digits
        /\ b[2] < Len(u) => u[b[2] + 1] \notin Digits
    BY DEF Stretches
  <2>2. PICK y \in 1 .. Len(u) : y = b[2]
    BY <2>1
  <2>3. ~(m < y)
    <3>1. ASSUME m < y PROVE m + 1 \in 1 .. y /\ m < Len(u)
      BY <1>0, <3>1
    <3> QED
      BY <2>1, <2>2, <3>1
  <2>4. ~(y < m)
    <3>1. ASSUME y < m PROVE y + 1 \in 1 .. m /\ y < Len(u)
      BY <1>0, <3>1
    <3> QED
      BY <2>1, <2>2, <3>1
  <2> QED
    BY <1>0, <2>2, <2>3, <2>4
<1>2. CASE m = 0
  <2>1. leading = {}
    BY <1>1, <1>2
  <2> QED
    BY <1>2, <2>1 DEF NumberOf
<1>3. CASE m # 0
  <2>1. <<1, m>> \in leading
    <3>1. 1 \in 1 .. Len(u) /\ m \in 1 .. Len(u) /\ 1 <= m
      BY <1>0, <1>3
    <3> QED
      BY <3>1 DEF Stretches
  <2> DEFINE b == CHOOSE c \in leading : TRUE
  <2>2. b \in leading
    BY <2>1, Zenon
  <2>3. NumberOf(u) = ValueOf(SubSeq(u, 1, b[2])) % WORD
    BY <2>1, Zenon DEF NumberOf
  <2> HIDE DEF b, leading
  <2>4. b[2] = m
    BY <1>1, <2>2
  <2> QED
    BY <1>3, <2>3, <2>4
<1> QED
  BY <1>2, <1>3

-----------------------------------------------------------------------------
(* The loops of the code on a terminated line.                             *)

\* The line as dispatch gets it.
Terminated ==
    line \in Seq(Keys \cup {"NUL"}) /\ line # <<>> /\ line[Len(line)] = "NUL"

\* t is what the line holds before the first terminator.
Holds(t) ==
    /\ t \in Seq(Keys)
    /\ Len(line) \in Nat /\ Len(t) \in 0 .. Len(line) - 1
    /\ line[Len(t) + 1] = "NUL"
    /\ \A j \in 1 .. Len(t) : t[j] = line[j] /\ line[j] # "NUL"

\* The terminator is neither a blank nor a digit.
LEMMA NulIsNeither == "NUL" \notin Blanks /\ "NUL" \notin Digits
BY DEF Blanks, Digits

\* A stretch of the line without a terminator is text.
LEMMA PartOfLine ==
    ASSUME line \in Seq(Keys \cup {"NUL"}), NEW i \in 1 .. Len(line) + 1,
           NEW e \in 0 .. Len(line), \A j \in i .. e : line[j] # "NUL"
    PROVE  /\ SubSeq(line, i, e) \in Seq(Keys)
           /\ Len(SubSeq(line, i, e)) = IF i <= e THEN e - i + 1 ELSE 0
           /\ \A k \in 1 .. e - i + 1 : SubSeq(line, i, e)[k] = line[i + k - 1]
<1>1. Len(line) \in Nat /\ i \in Int /\ e \in Int
  BY LenProperties
<1>2. \A j \in i .. e : line[j] \in Keys
  <2>1. ASSUME NEW j \in i .. e PROVE line[j] \in Keys \cup {"NUL"}
    <3>1. j \in 1 .. Len(line)
      BY <1>1
    <3> QED
      BY <3>1, ElementOfSeq
  <2> QED
    BY <2>1
<1> QED
  BY <1>1, <1>2, SubSeqProperties

\* Text is what the line holds.
LEMMA TextHeld ==
    ASSUME Terminated
    PROVE  Holds(Text)
<1> DEFINE n == Len(line)
           P == {j \in 1 .. n : line[j] = "NUL"}
           Is(t) == line[Len(t) + 1] = "NUL" /\ \A j \in 1 .. Len(t) : t[j] # "NUL"
           Parts == {SubSeq(line, 1, e) : e \in 0 .. Len(line) - 1}
<1>1. n \in Nat /\ n > 0 /\ line \in Seq(Keys \cup {"NUL"}) /\ line[n] = "NUL"
  BY EmptySeq, LenProperties DEF Terminated
<1>2. ASSUME NEW e \in 0 .. n - 1
      PROVE  /\ Len(SubSeq(line, 1, e)) = e
             /\ \A j \in 1 .. e : SubSeq(line, 1, e)[j] = line[j]
  <2>1. \A j \in 1 .. e : line[j] \in Keys \cup {"NUL"}
    <3>1. \A j \in 1 .. e : j \in 1 .. Len(line)
      BY <1>1
    <3> QED
      BY <1>1, <3>1, ElementOfSeq
  <2>2. /\ Len(SubSeq(line, 1, e)) = IF 1 <= e THEN e - 1 + 1 ELSE 0
        /\ \A j \in 1 .. e - 1 + 1 : SubSeq(line, 1, e)[j] = line[1 + j - 1]
    <3>1. 1 \in Int /\ e \in Int
      BY <1>1
    <3> QED
      BY <2>1, <3>1, SubSeqProperties
  <2> QED
    BY <1>1, <2>2
<1>3. \E t \in Parts : Is(t)
  <2>1. PICK e \in 1 .. n : e \in P /\ \A j \in 1 .. e - 1 : j \notin P
    <3>1. 1 \in Nat /\ n \in P /\ 1 <= n
      BY <1>1
    <3> HIDE DEF P
    <3> QED
      BY <1>1, <3>1, FirstPosition
  <2>2. e - 1 \in 0 .. n - 1 /\ (e - 1) + 1 = e /\ \A j \in 1 .. e - 1 : line[j] # "NUL"
    BY <1>1, <2>1
  <2>3. Is(SubSeq(line, 1, e - 1))
    BY <1>2, <2>1, <2>2
  <2> QED
    BY <2>2, <2>3
<1>4. Text = CHOOSE t \in Parts : Is(t)
  BY DEF Text
<1>5. Text \in Parts /\ Is(Text)
  <2> HIDE DEF Parts, Is
  <2> QED
    BY <1>3, <1>4
<1>6. PICK e \in 0 .. n - 1 : Text = SubSeq(line, 1, e)
  BY <1>5
<1>7. Len(Text) = e /\ \A j \in 1 .. e : Text[j] = line[j] /\ line[j] # "NUL"
  BY <1>2, <1>5, <1>6
<1>8. Text \in Seq(Keys)
  <2>1. 1 \in 1 .. Len(line) + 1 /\ e \in 0 .. Len(line)
    BY <1>1
  <2> QED
    BY <1>1, <1>6, <1>7, <2>1, PartOfLine
<1> QED
  BY <1>1, <1>5, <1>7, <1>8 DEF Holds

\* skip_spaces stops at the first character of the text that is not blank, at the
\* terminator at the latest.
LEMMA SkipStops ==
    ASSUME NEW t, Holds(t), NEW s \in 1 .. Len(t) + 1
    PROVE  /\ skip_spaces(s) \in s .. Len(t) + 1
           /\ \A j \in s .. skip_spaces(s) - 1 : t[j] \in Blanks
           /\ skip_spaces(s) <= Len(t) => t[skip_spaces(s)] \notin Blanks
           /\ line[skip_spaces(s)] = "NUL" <=> skip_spaces(s) = Len(t) + 1
<1> DEFINE n == Len(t)
           P == {j \in 1 .. n + 1 : line[j] \notin Blanks}
           Is(i) == line[i] \notin Blanks /\ \A j \in s .. i - 1 : line[j] \in Blanks
<1>1. /\ n \in Nat /\ Len(line) \in Nat /\ n + 1 <= Len(line) /\ line[n + 1] = "NUL"
      /\ \A j \in 1 .. n : t[j] = line[j] /\ line[j] # "NUL"
  <2>1. Len(t) \in Nat
    BY LenProperties DEF Holds
  <2> QED
    BY <2>1 DEF Holds
<1>2. PICK i \in s .. n + 1 : Is(i)
  <2>1. s \in Nat /\ n + 1 \in Nat /\ n + 1 \in P /\ s <= n + 1
    BY <1>1, NulIsNeither
  <2>2. PICK i \in s .. n + 1 : i \in P /\ \A j \in s .. i - 1 : j \notin P
    <3> HIDE DEF P
    <3> QED
      BY <2>1, FirstPosition
  <2>3. \A j \in s .. i - 1 : j \in 1 .. n + 1
    BY <1>1, <2>2
  <2> QED
    BY <2>2, <2>3
<1> DEFINE k == skip_spaces(s)
<1>3. k \in s .. Len(line) /\ Is(k)
  <2>1. i \in s .. Len(line)
    BY <1>1
  <2>2. k = CHOOSE x \in s .. Len(line) : Is(x)
    BY DEF skip_spaces
  <2> HIDE DEF Is, k
  <2> QED
    BY <1>2, <2>1, <2>2
<1> HIDE DEF k
<1>4. k <= n + 1
  <2>1. ASSUME n + 1 < k PROVE n + 1 \in s .. k - 1
    BY <1>1, <1>3, <2>1
  <2> QED
    BY <1>1, <1>3, <2>1, NulIsNeither
<1>5. k \in s .. n + 1
  BY <1>1, <1>3, <1>4
<1>6. \A j \in s .. k - 1 : j \in 1 .. n
  BY <1>1, <1>5
<1>7. k <= n => k \in 1 .. n
  BY <1>1, <1>5
<1>8. line[k] = "NUL" <=> k = n + 1
  BY <1>1, <1>5, <1>7
<1> QED
  BY <1>1, <1>3, <1>5, <1>6, <1>7, <1>8 DEF k

\* The characters of a command are neither blanks nor terminators.
LEMMA WordPlain ==
    ASSUME NEW c \in Commands
    PROVE  /\ Word[c] \in Seq(STRING) /\ Len(Word[c]) \in Nat /\ Len(Word[c]) > 0
           /\ \A i \in 1 .. Len(Word[c]) : Word[c][i] \notin Blanks /\ Word[c][i] # "NUL"
<1>1. Word[c] \in Seq(STRING) /\ Len(Word[c]) > 0
  BY ShellAssumption
<1>2. Len(Word[c]) \in Nat
  BY <1>1, LenProperties
<1>3. \A i \in 1 .. Len(Word[c]) : Word[c][i] \notin Controls \cup Blanks
  BY ShellAssumption
<1> QED
  BY <1>1, <1>2, <1>3 DEF Controls

\* match_word recognises a command exactly if it is the first word, and what it skips
\* is that word.
LEMMA Recognised ==
    ASSUME NEW t, Holds(t), NEW p, NEW q, Leads(t, p, q), NEW c \in Commands
    PROVE  /\ match_word(p, Word[c]) <=> Word[c] = SubSeq(t, p, q)
           /\ match_word(p, Word[c]) => p + Len(Word[c]) = q + 1
<1> DEFINE n == Len(t)
           w == Word[c]
           m == Len(w)
<1>1. /\ n \in Nat /\ Len(line) \in Nat /\ n + 1 <= Len(line) /\ line[n + 1] = "NUL"
      /\ t \in Seq(Keys) /\ \A j \in 1 .. n : t[j] = line[j] /\ line[j] # "NUL"
  <2>1. Len(t) \in Nat
    BY LenProperties DEF Holds
  <2> QED
    BY <2>1 DEF Holds
<1>2. /\ p \in 1 .. n /\ q \in p .. n /\ \A j \in p .. q : t[j] \notin Blanks
      /\ q < n => t[q + 1] \in Blanks
  BY <1>1 DEF Leads, IsWord
<1>3. w \in Seq(STRING) /\ m \in Nat /\ m > 0
      /\ \A i \in 1 .. m : w[i] \notin Blanks /\ w[i] # "NUL"
  BY WordPlain
<1>4. line[q + 1] \in Blanks \cup {"NUL"} /\ \A j \in p .. q : line[j] \notin Blanks \cup {"NUL"}
  <2> HIDE DEF n, w, m
  <2>1. /\ q = n \/ (q < n /\ q + 1 \in 1 .. n)
        /\ \A j \in p .. q : j \in 1 .. n
    BY <1>1, <1>2
  <2>2. ASSUME q = n PROVE line[q + 1] \in Blanks \cup {"NUL"}
    BY <1>1, <2>2, Zenon
  <2>3. ASSUME q < n, q + 1 \in 1 .. n PROVE line[q + 1] \in Blanks \cup {"NUL"}
    <3>1. t[q + 1] = line[q + 1] /\ t[q + 1] \in Blanks
      BY <1>1, <1>2, <2>3, Zenon
    <3> QED
      BY <3>1, Zenon
  <2>4. \A j \in p .. q : line[j] \notin Blanks /\ line[j] # "NUL"
    BY <1>1, <1>2, <2>1, Zenon
  <2>5. line[q + 1] \in Blanks \cup {"NUL"}
    BY <2>1, <2>2, <2>3, Zenon
  <2> QED
    BY <2>4, <2>5
<1>5. /\ SubSeq(t, p, q) \in Seq(Keys) /\ Len(SubSeq(t, p, q)) = q - p + 1
      /\ \A i \in 1 .. q - p + 1 : SubSeq(t, p, q)[i] = line[p + i - 1]
  <2>1. \A j \in p .. q : j \in 1 .. n
    BY <1>1, <1>2
  <2>2. \A j \in p .. q : t[j] \in Keys
    BY <1>1, <2>1, ElementOfSeq
  <2>3. p \in Int /\ q \in Int /\ p <= q
    BY <1>1, <1>2
  <2>4. /\ SubSeq(t, p, q) \in Seq(Keys)
        /\ Len(SubSeq(t, p, q)) = IF p <= q THEN q - p + 1 ELSE 0
        /\ \A i \in 1 .. q - p + 1 : SubSeq(t, p, q)[i] = t[p + i - 1]
    BY <2>2, <2>3, SubSeqProperties
  <2>5. \A i \in 1 .. q - p + 1 : p + i - 1 \in 1 .. n
    BY <1>1, <1>2
  <2> QED
    BY <1>1, <2>3, <2>4, <2>5
<1> HIDE DEF n, w, m
<1>6. ASSUME match_word(p, w) PROVE m = q - p + 1 /\ w = SubSeq(t, p, q)
  <2>1. /\ \A i \in 1 .. m : line[p + i - 1] = w[i]
        /\ line[p + m] \in Blanks \cup {"NUL"}
    BY <1>6 DEF match_word, SameWord, m
  <2>2. ~(p + m <= q)
    <3>1. ASSUME p + m <= q PROVE p + m \in p .. q
      BY <1>1, <1>2, <1>3, <3>1
    <3> QED
      BY <1>4, <2>1, <3>1
  <2>3. ~(q + 1 < p + m)
    <3>1. ASSUME q + 1 < p + m
          PROVE  q + 2 - p \in 1 .. m /\ p + (q + 2 - p) - 1 = q + 1
      BY <1>1, <1>2, <1>3, <3>1
    <3> QED
      BY <1>3, <1>4, <2>1, <3>1
  <2>4. m = q - p + 1
    BY <1>1, <1>2, <1>3, <2>2, <2>3
  <2>5. w = SubSeq(t, p, q)
    <3>1. w \in Seq(STRING \cup Keys) /\ SubSeq(t, p, q) \in Seq(STRING \cup Keys)
      BY <1>3, <1>5, SeqMonotonic
    <3>2. Len(w) = Len(SubSeq(t, p, q))
      BY <1>5, <2>4 DEF m
    <3>3. \A i \in 1 .. Len(w) : w[i] = SubSeq(t, p, q)[i]
      BY <1>5, <2>1, <2>4 DEF m
    <3> QED
      BY <3>1, <3>2, <3>3, SeqEqual
  <2> QED
    BY <2>4, <2>5
<1>7. ASSUME w = SubSeq(t, p, q) PROVE match_word(p, w)
  <2>1. m = q - p + 1 /\ p + m = q + 1
    BY <1>1, <1>2, <1>5, <1>7 DEF m
  <2>2. \A i \in 1 .. m : line[p + i - 1] = w[i]
    BY <1>5, <1>7, <2>1
  <2> QED
    BY <1>4, <2>1, <2>2 DEF match_word, SameWord, m
<1>8. match_word(p, w) => p + m = q + 1
  BY <1>1, <1>2, <1>3, <1>6
<1> QED
  BY <1>6, <1>7, <1>8 DEF w, m

\* ulib_puts prints the text from a position on.
LEMMA Printed ==
    ASSUME line \in Seq(Keys \cup {"NUL"}), NEW t, Holds(t), NEW s \in 1 .. Len(t) + 1
    PROVE  CString(s) = SubSeq(t, s, Len(t)) /\ CString(s) \in Seq(Keys)
<1> DEFINE n == Len(t)
           Is(e) == line[e] = "NUL" /\ \A j \in s .. e - 1 : line[j] # "NUL"
           e == CHOOSE x \in s .. Len(line) : Is(x)
<1>1. /\ n \in Nat /\ Len(line) \in Nat /\ n + 1 <= Len(line) /\ line[n + 1] = "NUL"
      /\ t \in Seq(Keys) /\ \A j \in 1 .. n : t[j] = line[j] /\ line[j] # "NUL"
  <2>1. Len(t) \in Nat
    BY LenProperties DEF Holds
  <2> QED
    BY <2>1 DEF Holds
<1>2. n + 1 \in s .. Len(line) /\ Is(n + 1)
  BY <1>1
<1>3. e \in s .. Len(line) /\ Is(e)
  <2> HIDE DEF Is
  <2> QED
    BY <1>2
<1>4. CString(s) = SubSeq(line, s, e - 1)
  BY DEF CString
<1> HIDE DEF e
<1>5. e = n + 1
  <2>1. ~(e <= n)
    <3>1. ASSUME e <= n PROVE e \in 1 .. n
      BY <1>1, <1>3, <3>1
    <3> QED
      BY <1>1, <1>3, <3>1
  <2>2. ~(n + 1 < e)
    <3>1. ASSUME n + 1 < e PROVE n + 1 \in s .. e - 1
      BY <1>1, <1>3, <3>1
    <3> QED
      BY <1>1, <1>3, <3>1
  <2> QED
    BY <1>1, <1>3, <2>1, <2>2
<1>6. /\ SubSeq(line, s, n) \in Seq(Keys)
      /\ Len(SubSeq(line, s, n)) = IF s <= n THEN n - s + 1 ELSE 0
      /\ \A k \in 1 .. n - s + 1 : SubSeq(line, s, n)[k] = line[s + k - 1]
  <2>1. s \in 1 .. Len(line) + 1 /\ n \in 0 .. Len(line) /\ \A j \in s .. n : j \in 1 .. n
    BY <1>1
  <2>2. \A j \in s .. n : line[j] # "NUL"
    BY <1>1, <2>1
  <2> QED
    BY <2>1, <2>2, PartOfLine
<1>7. /\ SubSeq(t, s, n) \in Seq(Keys)
      /\ Len(SubSeq(t, s, n)) = IF s <= n THEN n - s + 1 ELSE 0
      /\ \A k \in 1 .. n - s + 1 : SubSeq(t, s, n)[k] = t[s + k - 1]
  <2>1. s \in Int /\ n \in Int /\ \A j \in s .. n : j \in 1 .. n
    BY <1>1
  <2>2. \A j \in s .. n : t[j] \in Keys
    BY <1>1, <2>1, ElementOfSeq
  <2> QED
    BY <2>1, <2>2, SubSeqProperties
<1>8. SubSeq(line, s, n) = SubSeq(t, s, n)
  <2> DEFINE x == SubSeq(line, s, n)
             y == SubSeq(t, s, n)
  <2>1. \A k \in 1 .. n - s + 1 : s + k - 1 \in 1 .. n
    BY <1>1
  <2>2. \A k \in 1 .. n - s + 1 : x[k] = y[k]
    BY <1>1, <1>6, <1>7, <2>1
  <2>3. Len(x) = Len(y) /\ \A k \in 1 .. Len(x) : k \in 1 .. n - s + 1
    BY <1>1, <1>6, <1>7
  <2>4. x \in Seq(Keys) /\ y \in Seq(Keys)
    BY <1>6, <1>7
  <2> HIDE DEF x, y
  <2>5. x = y
    BY <2>2, <2>3, <2>4, SeqEqual
  <2> QED
    BY <2>5 DEF x, y
<1>9. e - 1 = n
  BY <1>1, <1>5
<1> QED
  BY <1>4, <1>6, <1>8, <1>9

\* ulib_atoi stops at the first character of the text that is no digit.
LEMMA DigitsStop ==
    ASSUME NEW t, Holds(t), NEW s \in 1 .. Len(t) + 1
    PROVE  /\ DigitsEnd(s) \in s .. Len(t) + 1
           /\ \A j \in s .. DigitsEnd(s) - 1 : t[j] \in Digits
           /\ DigitsEnd(s) <= Len(t) => t[DigitsEnd(s)] \notin Digits
<1> DEFINE n == Len(t)
           P == {j \in 1 .. n + 1 : line[j] \notin Digits}
           Is(e) == line[e] \notin Digits /\ \A j \in s .. e - 1 : line[j] \in Digits
<1>1. /\ n \in Nat /\ Len(line) \in Nat /\ n + 1 <= Len(line) /\ line[n + 1] = "NUL"
      /\ \A j \in 1 .. n : t[j] = line[j]
  <2>1. Len(t) \in Nat
    BY LenProperties DEF Holds
  <2> QED
    BY <2>1 DEF Holds
<1>2. PICK i \in s .. n + 1 : Is(i)
  <2>1. s \in Nat /\ n + 1 \in Nat /\ n + 1 \in P /\ s <= n + 1
    BY <1>1, NulIsNeither
  <2>2. PICK i \in s .. n + 1 : i \in P /\ \A j \in s .. i - 1 : j \notin P
    <3> HIDE DEF P
    <3> QED
      BY <2>1, FirstPosition
  <2>3. \A j \in s .. i - 1 : j \in 1 .. n + 1
    BY <1>1, <2>2
  <2> QED
    BY <2>2, <2>3
<1> DEFINE k == DigitsEnd(s)
<1>3. k \in s .. Len(line) /\ Is(k)
  <2>1. i \in s .. Len(line)
    BY <1>1
  <2>2. k = CHOOSE x \in s .. Len(line) : Is(x)
    BY DEF DigitsEnd
  <2> HIDE DEF Is, k
  <2> QED
    BY <1>2, <2>1, <2>2
<1> HIDE DEF k
<1>4. k <= n + 1
  <2>1. ASSUME n + 1 < k PROVE n + 1 \in s .. k - 1
    BY <1>1, <1>3, <2>1
  <2> QED
    BY <1>1, <1>3, <2>1, NulIsNeither
<1>5. k \in s .. n + 1
  BY <1>1, <1>3, <1>4
<1>6. \A j \in s .. k - 1 : j \in 1 .. n
  BY <1>1, <1>5
<1>7. k <= n => k \in 1 .. n
  BY <1>1, <1>5
<1> QED
  BY <1>1, <1>3, <1>5, <1>6, <1>7 DEF k

\* ulib_atoi gives the number that the text begins with at a position, as an int.
LEMMA AtoiIsNumber ==
    ASSUME NEW t, Holds(t), NEW a \in 1 .. Len(t)
    PROVE  /\ ulib_atoi(a) = NumberOf(SubSeq(t, a, Len(t)))
           /\ ulib_atoi(a) \in 0 .. WORD - 1
<1> DEFINE n == Len(t)
           e == DigitsEnd(a)
           m == e - a
           u == SubSeq(t, a, n)
           v == SubSeq(u, 1, m)
<1>1. /\ n \in Nat /\ t \in Seq(Keys) /\ \A j \in 1 .. n : t[j] = line[j]
  <2>1. Len(t) \in Nat
    BY LenProperties DEF Holds
  <2> QED
    BY <2>1 DEF Holds
<1>2. /\ e \in a .. n + 1 /\ \A j \in a .. e - 1 : t[j] \in Digits
      /\ e <= n => t[e] \notin Digits
  <2>1. a \in 1 .. n + 1
    BY <1>1
  <2> QED
    BY <2>1, DigitsStop
<1> HIDE DEF n, e
<1>3. m \in Nat /\ m <= n - a + 1 /\ a \in Nat /\ a <= n
  BY <1>1, <1>2 DEF n
<1>4. /\ u \in Seq(Keys) /\ Len(u) = n - a + 1
      /\ \A k \in 1 .. n - a + 1 : u[k] = t[a + k - 1]
  <2>1. a \in Int /\ n \in Int /\ a <= n /\ \A j \in a .. n : j \in 1 .. n
    BY <1>1, <1>3 DEF n
  <2>2. \A j \in a .. n : t[j] \in Keys
    BY <1>1, <2>1, ElementOfSeq DEF n
  <2>3. /\ SubSeq(t, a, n) \in Seq(Keys)
        /\ Len(SubSeq(t, a, n)) = IF a <= n THEN n - a + 1 ELSE 0
        /\ \A k \in 1 .. n - a + 1 : SubSeq(t, a, n)[k] = t[a + k - 1]
    BY <2>1, <2>2, SubSeqProperties
  <2> QED
    BY <2>1, <2>3
<1> HIDE DEF u
<1>5. \A k \in 1 .. m : u[k] = line[a + k - 1] /\ u[k] \in Digits /\ k \in 1 .. Len(u)
  <2>1. ASSUME NEW k \in 1 .. m
        PROVE  k \in 1 .. n - a + 1 /\ a + k - 1 \in 1 .. n /\ a + k - 1 \in a .. e - 1
    BY <1>1, <1>2, <1>3 DEF n
  <2> QED
    BY <1>1, <1>2, <1>4, <2>1
<1>6. m < Len(u) => u[m + 1] \notin Digits
  <2>1. ASSUME m < Len(u) PROVE m + 1 \in 1 .. n - a + 1 /\ a + (m + 1) - 1 = e /\ e <= n
    BY <1>1, <1>2, <1>3, <1>4, <2>1
  <2> QED
    BY <1>2, <1>4, <2>1
<1>7. /\ Len(v) = m /\ \A k \in 1 .. m : v[k] = u[k]
  <2>1. \A k \in 1 .. m : u[k] \in Keys
    BY <1>4, <1>5, ElementOfSeq
  <2>2. 1 \in Int /\ m \in Int
    BY <1>3
  <2> HIDE DEF m
  <2>3. /\ Len(SubSeq(u, 1, m)) = IF 1 <= m THEN m - 1 + 1 ELSE 0
        /\ \A k \in 1 .. m - 1 + 1 : SubSeq(u, 1, m)[k] = u[1 + k - 1]
    BY <2>1, <2>2, SubSeqProperties
  <2> QED
    BY <1>3, <2>3
<1>8. NumberOf(u) = IF m = 0 THEN 0 ELSE ValueOf(v) % WORD
  <2>1. m \in 0 .. Len(u)
    BY <1>1, <1>3, <1>4
  <2> HIDE DEF m
  <2> QED
    BY <1>4, <1>5, <1>6, <2>1, Number
<1> HIDE DEF v
<1>9. ulib_atoi(a) = ValueOf(v) % WORD /\ ulib_atoi(a) \in 0 .. WORD - 1
  <2>1. m = DigitsEnd(a) - a
    BY DEF e
  <2> HIDE DEF m
  <2>2. \A k \in 1 .. m : v[k] = line[a + k - 1] /\ v[k] \in Digits
    BY <1>5, <1>7
  <2> QED
    BY <1>3, <1>7, <2>1, <2>2, AtoiIsValue
<1>10. m = 0 => ulib_atoi(a) = 0
  <2> DEFINE d == [k \in 1 .. m |-> 0]
  <2>1. ASSUME m = 0
        PROVE  d \in [1 .. m -> 0 .. 9] /\ \A k \in 1 .. m : d[k] = DigitValue[line[a + k - 1]]
    BY <2>1
  <2>2. m = DigitsEnd(a) - a
    BY DEF e
  <2> HIDE DEF m, d
  <2>3. ASSUME m = 0 PROVE \E H : FromLeft(m, d, H) /\ ulib_atoi(a) = H[m]
    BY <1>3, <2>1, <2>2, <2>3, AtoiFromLeft
  <2> QED
    BY <2>3 DEF FromLeft
<1> QED
  BY <1>8, <1>9, <1>10 DEF u, n

-----------------------------------------------------------------------------
(* What dispatch does is what the line means.                              *)

\* The first word of a text.
FirstWordOf(t) == SubSeq(t, FirstOf(t)[1], FirstOf(t)[2])

\* Meaning for a text without words.
LEMMA MeaningEmpty ==
    ASSUME WordsOf(Text) = {}
    PROVE  Meaning = Done("empty", <<>>, 0)
BY DEF Meaning

\* Meaning for a first word that is no command.
LEMMA MeaningUnknown ==
    ASSUME WordsOf(Text) # {}, \A c \in Commands : Word[c] # FirstWordOf(Text)
    PROVE  Meaning = Done("unknown", <<>>, 0)
<1>1. {c \in Commands : Word[c] = SubSeq(Text, FirstOf(Text)[1], FirstOf(Text)[2])} = {}
  BY DEF FirstWordOf
<1> QED
  BY <1>1, Zenon DEF Meaning, FirstOf

\* Meaning for a first word that is a command.
LEMMA MeaningCommand ==
    ASSUME WordsOf(Text) # {}, NEW c \in Commands, Word[c] = FirstWordOf(Text)
    PROVE  Meaning = IF c = "kill"
                     THEN IF ArgumentOf(Text) = <<>> THEN Done("usage", <<>>, 0)
                          ELSE Done("kill", <<>>, NumberOf(ArgumentOf(Text)))
                     ELSE Done(c, IF c = "echo" THEN ArgumentOf(Text) ELSE <<>>, 0)
<1> DEFINE named == {x \in Commands : Word[x] = SubSeq(Text, FirstOf(Text)[1], FirstOf(Text)[2])}
           cmd == CHOOSE x \in named : TRUE
<1>1. named = {c}
  BY ShellAssumption DEF FirstWordOf
<1>2. cmd = c
  <2> HIDE DEF named
  <2> QED
    BY <1>1
<1>3. named # {}
  BY <1>1
<1>4. Meaning = IF WordsOf(Text) = {} THEN Done("empty", <<>>, 0)
                ELSE IF named = {} THEN Done("unknown", <<>>, 0)
                ELSE IF cmd = "kill" THEN
                    IF ArgumentOf(Text) = <<>> THEN Done("usage", <<>>, 0)
                    ELSE Done("kill", <<>>, NumberOf(ArgumentOf(Text)))
                ELSE Done(cmd, IF cmd = "echo" THEN ArgumentOf(Text) ELSE <<>>, 0)
  BY Zenon DEF Meaning, FirstOf
<1> HIDE DEF named, cmd
<1> QED
  BY <1>2, <1>3, <1>4

\* dispatch finds the first word, unless there is none.
LEMMA FirstFound ==
    ASSUME Terminated
    PROVE  /\ First \in 1 .. Len(Text) + 1
           /\ line[First] = "NUL" => WordsOf(Text) = {}
           /\ line[First] # "NUL" => \E q : Leads(Text, First, q)
<1> DEFINE t == Text
           p == First
<1>1. Holds(t) /\ t \in Seq(Keys) /\ Len(t) \in Nat
  BY TextHeld, LenProperties DEF Holds
<1>2. 1 \in 1 .. Len(t) + 1
  BY <1>1
<1>3. /\ p \in 1 .. Len(t) + 1
      /\ \A j \in 1 .. p - 1 : t[j] \in Blanks
      /\ p <= Len(t) => t[p] \notin Blanks
      /\ line[p] = "NUL" <=> p = Len(t) + 1
  BY <1>1, <1>2, SkipStops DEF First
<1> HIDE DEF t, p
<1>4. ASSUME line[p] = "NUL" PROVE WordsOf(t) = {}
  <2>1. \A j \in 1 .. Len(t) : j \in 1 .. p - 1
    BY <1>1, <1>3, <1>4
  <2> QED
    BY <1>1, <1>3, <2>1, NoWords
<1>5. ASSUME line[p] # "NUL" PROVE \E q : Leads(t, p, q)
  <2>1. p \in 1 .. Len(t) /\ t[p] \notin Blanks
    BY <1>1, <1>3, <1>5
  <2>2. p > 1 => t[p - 1] \in Blanks
    <3>1. p > 1 => p - 1 \in 1 .. p - 1
      BY <1>1, <2>1
    <3> QED
      BY <1>3, <3>1
  <2>3. PICK q : IsWord(t, p, q)
    BY <1>1, <2>1, <2>2, WordFrom
  <2> QED
    BY <1>3, <2>3 DEF Leads
<1> QED
  BY <1>3, <1>4, <1>5 DEF t, p

\* A line of blanks.
LEMMA EmptyMeans ==
    ASSUME Terminated, line[First] = "NUL"
    PROVE  Meaning = Done("empty", <<>>, 0)
BY FirstFound, MeaningEmpty

\* A line whose first word match_word takes for no command.
LEMMA UnknownMeans ==
    ASSUME Terminated, line[First] # "NUL",
           \A c \in Commands : ~match_word(First, Word[c])
    PROVE  Meaning = Done("unknown", <<>>, 0)
<1>1. Holds(Text) /\ Text \in Seq(Keys)
  BY TextHeld DEF Holds
<1>2. PICK q : Leads(Text, First, q)
  BY FirstFound
<1>3. WordsOf(Text) # {} /\ FirstOf(Text)[1] = First /\ FirstOf(Text)[2] = q
  BY <1>1, <1>2, FirstWord
<1>4. \A c \in Commands : Word[c] # FirstWordOf(Text)
  BY <1>1, <1>2, <1>3, Recognised DEF FirstWordOf
<1> QED
  BY <1>3, <1>4, MeaningUnknown

\* A line that match_word takes for command c: which command it means, and with which
\* argument.
LEMMA CommandMeans ==
    ASSUME Terminated, line[First] # "NUL", NEW c \in Commands, match_word(First, Word[c])
    PROVE  /\ Meaning = IF c = "kill"
                        THEN IF line[Rest(c)] = "NUL" THEN Done("usage", <<>>, 0)
                             ELSE Done("kill", <<>>, ulib_atoi(Rest(c)))
                        ELSE Done(c, IF c = "echo" THEN CString(Rest(c)) ELSE <<>>, 0)
           /\ CString(Rest(c)) \in Seq(Keys)
           /\ line[Rest(c)] # "NUL" => ulib_atoi(Rest(c)) \in 0 .. WORD - 1
<1> DEFINE t == Text
           p == First
           n == Len(t)
           a == Rest(c)
<1>1. Holds(t) /\ t \in Seq(Keys) /\ n \in Nat /\ line \in Seq(Keys \cup {"NUL"})
  BY TextHeld, LenProperties DEF Holds, Terminated
<1>2. PICK q : Leads(t, p, q)
  BY FirstFound
<1>3. WordsOf(t) # {} /\ FirstOf(t)[1] = p /\ FirstOf(t)[2] = q
  BY <1>1, <1>2, FirstWord
<1>4. Word[c] = SubSeq(t, p, q) /\ p + Len(Word[c]) = q + 1
  BY <1>1, <1>2, Recognised
<1>5. p \in 1 .. n /\ q \in p .. n /\ q + 1 \in 1 .. n + 1 /\ q \in Nat
  BY <1>1, <1>2 DEF Leads, IsWord
<1>6. a = skip_spaces(q + 1)
  BY <1>4 DEF Rest
<1> HIDE DEF a
<1>7. /\ a \in q + 1 .. n + 1
      /\ \A j \in q + 1 .. a - 1 : t[j] \in Blanks
      /\ a <= n => t[a] \notin Blanks
      /\ line[a] = "NUL" <=> a = n + 1
  BY <1>1, <1>5, <1>6, SkipStops
<1>8. Follows(t, q, a)
  BY <1>7 DEF Follows
<1>9. ArgumentOf(t) = IF a = n + 1 THEN <<>> ELSE SubSeq(t, a, n)
  BY <1>1, <1>2, <1>8, Argument
<1>10. a \in 1 .. n + 1 /\ (a # n + 1 => a \in 1 .. n)
  BY <1>1, <1>5, <1>7
<1>11. CString(a) = SubSeq(t, a, n) /\ CString(a) \in Seq(Keys)
  BY <1>1, <1>10, Printed
<1>12. CString(a) = ArgumentOf(t)
  <2>1. a = n + 1 => SubSeq(t, a, n) = <<>>
    <3>1. a = n + 1 => a \in Int /\ n \in Int /\ n < a
      BY <1>1
    <3> QED
      BY <3>1, SubSeqEmpty
  <2> QED
    BY <1>9, <1>11, <2>1
<1>13. ArgumentOf(t) = <<>> <=> line[a] = "NUL"
  <2>1. ASSUME a # n + 1 PROVE SubSeq(t, a, n) # <<>>
    <3>1. a \in 1 .. n /\ a \in Int /\ n \in Int /\ a <= n /\ \A j \in a .. n : j \in 1 .. n
      BY <1>1, <1>10, <2>1
    <3>2. \A j \in a .. n : t[j] \in Keys
      BY <1>1, <3>1, ElementOfSeq
    <3>3. Len(SubSeq(t, a, n)) = IF a <= n THEN n - a + 1 ELSE 0
      BY <3>1, <3>2, SubSeqProperties
    <3>4. Len(SubSeq(t, a, n)) # 0
      BY <3>1, <3>3
    <3> QED
      BY <3>4, EmptySeq
  <2> QED
    BY <1>7, <1>9, <2>1
<1>14. line[a] # "NUL" => /\ ulib_atoi(a) = NumberOf(ArgumentOf(t))
                          /\ ulib_atoi(a) \in 0 .. WORD - 1
  <2>1. ASSUME a \in 1 .. n
        PROVE  ulib_atoi(a) = NumberOf(SubSeq(t, a, n)) /\ ulib_atoi(a) \in 0 .. WORD - 1
    BY <1>1, <2>1, AtoiIsNumber
  <2>2. line[a] # "NUL" => a \in 1 .. n /\ ArgumentOf(t) = SubSeq(t, a, n)
    BY <1>7, <1>9, <1>10
  <2> QED
    BY <2>1, <2>2, Zenon
<1>15. Word[c] = FirstWordOf(t)
  BY <1>3, <1>4 DEF FirstWordOf
<1>16. Meaning = IF c = "kill"
                 THEN IF ArgumentOf(t) = <<>> THEN Done("usage", <<>>, 0)
                      ELSE Done("kill", <<>>, NumberOf(ArgumentOf(t)))
                 ELSE Done(c, IF c = "echo" THEN ArgumentOf(t) ELSE <<>>, 0)
  BY <1>3, <1>15, MeaningCommand
<1> HIDE DEF t, n
<1> QED
  BY <1>11, <1>12, <1>13, <1>14, <1>16 DEF a

-----------------------------------------------------------------------------
(* The screen.                                                             *)

\* Row r with the cursor after k cells shows line l without its first o characters,
\* and nothing else.
Shows(l, o, r, k) ==
    /\ k = Len(l) - o
    /\ \A i \in 1 .. LINE_MAX : r[i] = IF i <= k THEN l[o + i] ELSE " "

\* The rows of the terminal.
Rows == [1 .. LINE_MAX -> Keys \cup {" "}]

\* A fresh row shows the end of any line.
LEMMA ShowsNothing ==
    /\ BlankRow \in Rows
    /\ Shows(<<>>, 0, BlankRow, 0)
    /\ \A l \in Seq(Keys \cup {"NUL"}) : Shows(l, Len(l), BlankRow, 0)
<1>1. Len(<<>>) = 0 /\ <<>> \in Seq(Keys \cup {"NUL"})
  BY EmptySeq
<1>2. \A i \in 1 .. LINE_MAX : BlankRow[i] = " " /\ ~(i <= 0)
  BY Sizes DEF BlankRow
<1>3. \A l \in Seq(Keys \cup {"NUL"}) : Len(l) - Len(l) = 0
  BY LenProperties
<1>4. \A l \in Seq(Keys \cup {"NUL"}) : Shows(l, Len(l), BlankRow, 0)
  BY <1>2, <1>3, Zenon DEF Shows
<1>5. BlankRow \in Rows
  BY DEF BlankRow, Rows
<1> QED
  BY <1>1, <1>4, <1>5, Zenon

\* The line without its last character.
LEMMA LineShortened ==
    ASSUME NEW S, NEW l \in Seq(S), l # <<>>
    PROVE  /\ Len(l) \in Nat /\ Len(l) > 0
           /\ SubSeq(l, 1, Len(l) - 1) \in Seq(S) /\ Len(SubSeq(l, 1, Len(l) - 1)) = Len(l) - 1
           /\ \A i \in 1 .. Len(l) - 1 : SubSeq(l, 1, Len(l) - 1)[i] = l[i]
<1> DEFINE n == Len(l)
<1>1. n \in Nat /\ n > 0
  BY EmptySeq
<1>2. 1 \in Int /\ n - 1 \in Int /\ \A i \in 1 .. n - 1 : i \in 1 .. Len(l)
  BY <1>1
<1>3. \A i \in 1 .. n - 1 : l[i] \in S
  BY <1>2, ElementOfSeq
<1>4. /\ SubSeq(l, 1, n - 1) \in Seq(S)
      /\ Len(SubSeq(l, 1, n - 1)) = IF 1 <= n - 1 THEN (n - 1) - 1 + 1 ELSE 0
      /\ \A i \in 1 .. (n - 1) - 1 + 1 : SubSeq(l, 1, n - 1)[i] = l[1 + i - 1]
  BY <1>2, <1>3, SubSeqProperties
<1> DEFINE m == SubSeq(l, 1, n - 1)
<1> HIDE DEF m, n
<1>5. Len(m) = n - 1 /\ \A i \in 1 .. n - 1 : m[i] = l[i]
  BY <1>1, <1>4 DEF m
<1> QED
  BY <1>1, <1>4, <1>5 DEF m, n

\* Back, space, back takes the last character of the line off the row.
LEMMA ShowsErased ==
    ASSUME NEW l \in Seq(Keys \cup {"NUL"}), l # <<>>, Len(l) < LINE_MAX,
           NEW o \in 0 .. LINE_MAX, NEW r \in Rows, NEW k \in 0 .. LINE_MAX,
           k > 0, Shows(l, o, r, k)
    PROVE  /\ k \in 1 .. LINE_MAX /\ k - 1 \in 0 .. LINE_MAX
           /\ ~(o > Len(SubSeq(l, 1, Len(l) - 1)))
           /\ [r EXCEPT ![k] = " "] \in Rows
           /\ Shows(SubSeq(l, 1, Len(l) - 1), o, [r EXCEPT ![k] = " "], k - 1)
<1> DEFINE n == Len(l)
           m == SubSeq(l, 1, n - 1)
           x == [r EXCEPT ![k] = " "]
<1>1. n \in Nat /\ n > 0 /\ Len(m) = n - 1 /\ \A i \in 1 .. n - 1 : m[i] = l[i]
  BY LineShortened
<1>2. k = n - o /\ \A i \in 1 .. LINE_MAX : r[i] = IF i <= k THEN l[o + i] ELSE " "
  BY DEF Shows
<1>3. k \in 1 .. LINE_MAX /\ k - 1 \in 0 .. LINE_MAX /\ k - 1 = (n - 1) - o /\ ~(o > n - 1)
  <2>1. k = n - o /\ n \in Nat
    BY <1>1, <1>2, Zenon
  <2> HIDE DEF n
  <2> QED
    BY <2>1, Sizes
<1>4. x \in Rows /\ \A i \in 1 .. LINE_MAX : x[i] = IF i = k THEN " " ELSE r[i]
  BY <1>3 DEF Rows
<1> HIDE DEF m, x, n
<1>5. ASSUME NEW i \in 1 .. LINE_MAX PROVE x[i] = IF i <= k - 1 THEN m[o + i] ELSE " "
  <2>1. CASE i = k
    <3>1. ~(i <= k - 1)
      BY <1>3, <2>1
    <3> QED
      BY <1>4, <2>1, <3>1
  <2>2. CASE i < k
    <3>1. o + i \in 1 .. n - 1 /\ i # k /\ i <= k /\ i <= k - 1
      <4>1. k = n - o /\ n \in Nat
        BY <1>1, <1>2, Zenon
      <4> QED
        BY <2>2, <4>1, Sizes
    <3> QED
      BY <1>1, <1>2, <1>4, <3>1
  <2>3. CASE i > k
    <3>1. i # k /\ ~(i <= k) /\ ~(i <= k - 1)
      BY <1>3, <2>3, Sizes
    <3> QED
      BY <1>2, <1>4, <3>1
  <2> QED
    <3>1. i < k \/ i = k \/ i > k
      BY <1>3, Sizes
    <3> QED
      BY <2>1, <2>2, <2>3, <3>1
<1>6. Shows(m, o, x, k - 1)
  BY <1>1, <1>3, <1>5, Zenon DEF Shows
<1> QED
  BY <1>1, <1>3, <1>4, <1>6, Zenon DEF m, x, n

\* ... if it is there; if it stands before other output the row stays blank.
LEMMA ShowsErasedBefore ==
    ASSUME NEW l \in Seq(Keys \cup {"NUL"}), l # <<>>, Len(l) < LINE_MAX,
           NEW o \in 0 .. LINE_MAX, NEW r \in Rows, Shows(l, o, r, 0)
    PROVE  /\ o > Len(SubSeq(l, 1, Len(l) - 1))
           /\ Len(SubSeq(l, 1, Len(l) - 1)) \in 0 .. LINE_MAX
           /\ Shows(SubSeq(l, 1, Len(l) - 1), Len(SubSeq(l, 1, Len(l) - 1)), r, 0)
<1> DEFINE n == Len(l)
           m == SubSeq(l, 1, n - 1)
<1>1. n \in Nat /\ n > 0 /\ Len(m) = n - 1
  BY LineShortened
<1>2. 0 = n - o /\ \A i \in 1 .. LINE_MAX : r[i] = IF i <= 0 THEN l[o + i] ELSE " "
  BY DEF Shows
<1> HIDE DEF m, n
<1>3. o > n - 1 /\ n - 1 \in 0 .. LINE_MAX /\ 0 = (n - 1) - (n - 1)
  <2>1. 0 = n - o /\ n \in Nat /\ n > 0 /\ n < LINE_MAX
    BY <1>1, <1>2, Zenon DEF n
  <2> QED
    BY <2>1, Sizes
<1>4. \A i \in 1 .. LINE_MAX : ~(i <= 0)
  BY Sizes
<1>5. Shows(m, n - 1, r, 0)
  BY <1>1, <1>2, <1>3, <1>4, Zenon DEF Shows
<1> QED
  BY <1>1, <1>3, <1>5, Zenon DEF m, n

\* The echo of a character puts it where the line has it.
LEMMA ShowsPut ==
    ASSUME NEW l \in Seq(Keys \cup {"NUL"}), Len(l) + 1 < LINE_MAX, NEW c \in Keys,
           NEW o \in 0 .. LINE_MAX, NEW r \in Rows, NEW k \in 0 .. LINE_MAX, Shows(l, o, r, k)
    PROVE  /\ k < LINE_MAX /\ k + 1 \in 0 .. LINE_MAX
           /\ [r EXCEPT ![k + 1] = c] \in Rows
           /\ Shows(Append(l, c), o, [r EXCEPT ![k + 1] = c], k + 1)
<1> DEFINE n == Len(l)
           m == Append(l, c)
           x == [r EXCEPT ![k + 1] = c]
<1>0. n \in Nat
  BY LenProperties
<1>1. Len(m) = n + 1 /\ m[n + 1] = c /\ \A i \in 1 .. n : m[i] = l[i]
  BY AppendProperties
<1>2. k = n - o /\ \A i \in 1 .. LINE_MAX : r[i] = IF i <= k THEN l[o + i] ELSE " "
  BY DEF Shows
<1>3. /\ k + 1 \in 1 .. LINE_MAX /\ k < LINE_MAX /\ k + 1 \in 0 .. LINE_MAX
      /\ k + 1 = (n + 1) - o /\ o + (k + 1) = n + 1
  <2>1. k = n - o /\ n \in Nat /\ n + 1 < LINE_MAX
    BY <1>0, <1>2, Zenon
  <2> HIDE DEF n
  <2> QED
    BY <2>1, Sizes
<1>4. x \in Rows /\ \A i \in 1 .. LINE_MAX : x[i] = IF i = k + 1 THEN c ELSE r[i]
  BY <1>3 DEF Rows
<1> HIDE DEF m, x, n
<1>5. ASSUME NEW i \in 1 .. LINE_MAX PROVE x[i] = IF i <= k + 1 THEN m[o + i] ELSE " "
  <2>1. CASE i = k + 1
    BY <1>1, <1>3, <1>4, <2>1
  <2>2. CASE i < k + 1
    <3>1. o + i \in 1 .. n /\ i # k + 1 /\ i <= k /\ i <= k + 1
      <4>1. k = n - o /\ n \in Nat
        BY <1>0, <1>2, Zenon
      <4> QED
        BY <2>2, <4>1, Sizes
    <3> QED
      BY <1>1, <1>2, <1>4, <3>1
  <2>3. CASE i > k + 1
    <3>1. i # k + 1 /\ ~(i <= k) /\ ~(i <= k + 1)
      BY <1>3, <2>3, Sizes
    <3> QED
      BY <1>2, <1>4, <3>1
  <2> QED
    <3>1. i < k + 1 \/ i = k + 1 \/ i > k + 1
      BY <1>3, Sizes
    <3> QED
      BY <2>1, <2>2, <2>3, <3>1
<1>6. Shows(m, o, x, k + 1)
  BY <1>1, <1>3, <1>5, Zenon DEF Shows
<1> QED
  BY <1>3, <1>4, <1>6, Zenon DEF m, x

-----------------------------------------------------------------------------
(* The invariant.                                                          *)

\* The line editor keeps a slot for the terminator.
RoomForNul == pc = "read" => Len(line) < LINE_MAX

\* After Enter the line is terminated.
Submitted == pc # "read" => line # <<>> /\ line[Len(line)] = "NUL"

IndInv == TypeOK /\ RoomForNul /\ Submitted /\ ScreenShowsLine /\ CommandExact

\* What a command may have done.
Deeds == [cmd : Commands \cup {"none", "empty", "unknown", "usage"},
          arg : Seq(Keys), pid : 0 .. WORD - 1]

\* The types, with the names of this module.
LEMMA TypeParts ==
    TypeOK <=> /\ pc \in {"read", "dispatch", "prompt", "gone"}
               /\ line \in Seq(Keys \cup {"NUL"}) /\ Len(line) <= LINE_MAX
               /\ row \in Rows /\ cursor \in 0 .. LINE_MAX /\ above \in 0 .. LINE_MAX
               /\ clean \in BOOLEAN /\ did \in Deeds /\ alive \subseteq Procs
BY Zenon DEF TypeOK, Rows, Deeds

\* What the invariant says of the screen.
LEMMA ScreenIs ==
    ScreenShowsLine <=> (pc = "read" /\ clean => Shows(line, above, row, cursor))
BY Zenon DEF ScreenShowsLine, Shows

\* Nothing has been done at a prompt.
LEMMA NothingDone == Nothing \in Deeds
<1>1. <<>> \in Seq(Keys)
  BY EmptySeq
<1> QED
  BY <1>1, Sizes DEF Nothing, Done, Deeds

\* While the user edits.
LEMMA Editing ==
    ASSUME TypeOK', ScreenShowsLine', pc' = "read", Len(line') < LINE_MAX
    PROVE  IndInv'
<1>1. RoomForNul' /\ Submitted' /\ CommandExact'
  BY Zenon DEF RoomForNul, Submitted, CommandExact
<1> QED
  BY <1>1, Zenon DEF IndInv

\* At a fresh prompt.
LEMMA AtPrompt ==
    ASSUME pc' = "read", line' = <<>>, row' = BlankRow, cursor' = 0, above' = 0,
           clean' = TRUE, did' = Nothing, alive' \subseteq Procs
    PROVE  IndInv'
<1>1. <<>> \in Seq(Keys \cup {"NUL"}) /\ Len(<<>>) = 0 /\ 0 <= LINE_MAX /\ 0 \in 0 .. LINE_MAX
      /\ 0 < LINE_MAX
  BY EmptySeq, Sizes
<1>2. TypeOK'
  BY <1>1, ShowsNothing, NothingDone, Zenon DEF TypeOK, Rows, Deeds
<1>3. ScreenShowsLine'
  BY ShowsNothing, Zenon DEF ScreenShowsLine, Shows
<1> QED
  BY <1>1, <1>2, <1>3, Editing, Zenon

\* Before the first key.
LEMMA InitInv == Init => IndInv
<1> SUFFICES ASSUME Init PROVE IndInv
  OBVIOUS
<1>1. <<>> \in Seq(Keys \cup {"NUL"}) /\ Len(<<>>) = 0 /\ 0 <= LINE_MAX /\ 0 \in 0 .. LINE_MAX
      /\ 0 < LINE_MAX
  BY EmptySeq, Sizes
<1>2. /\ pc = "read" /\ line = <<>> /\ row = BlankRow /\ cursor = 0 /\ above = 0
      /\ clean = TRUE /\ did = Nothing /\ alive = Procs
  BY Zenon DEF Init
<1>3. TypeOK
  BY <1>1, <1>2, ShowsNothing, NothingDone, TypeParts, Zenon
<1>4. ScreenShowsLine
  BY <1>2, ShowsNothing, ScreenIs, Zenon
<1>5. RoomForNul /\ Submitted /\ CommandExact
  BY <1>1, <1>2, Zenon DEF RoomForNul, Submitted, CommandExact
<1> QED
  BY <1>3, <1>4, <1>5 DEF IndInv

\* Enter terminates the line.
LEMMA EnterInv ==
    ASSUME IndInv, NEW c \in Keys, EnterKey(c)
    PROVE  IndInv'
<1>1. /\ pc = "read" /\ line \in Seq(Keys \cup {"NUL"}) /\ Len(line) < LINE_MAX
      /\ row \in Rows /\ cursor \in 0 .. LINE_MAX /\ above \in 0 .. LINE_MAX
      /\ clean \in BOOLEAN /\ did \in Deeds /\ alive \subseteq Procs
  BY TypeParts, Zenon DEF IndInv, RoomForNul, EnterKey, Reading
<1>2. /\ line' = Append(line, "NUL") /\ pc' = "dispatch"
      /\ row' = row /\ cursor' = cursor /\ above' = above /\ clean' = clean
      /\ did' = did /\ alive' = alive
  BY Zenon DEF EnterKey, terminal
<1>3. /\ line' \in Seq(Keys \cup {"NUL"}) /\ line' # <<>>
      /\ Len(line') = Len(line) + 1 /\ line'[Len(line')] = "NUL" /\ Len(line') <= LINE_MAX
  <2>1. line \in Seq(Keys \cup {"NUL"}) /\ Len(line) \in Nat /\ Len(line) < LINE_MAX
    BY <1>1, LenProperties
  <2>2. "NUL" \in Keys \cup {"NUL"}
    OBVIOUS
  <2>3. /\ Append(line, "NUL") \in Seq(Keys \cup {"NUL"}) /\ Append(line, "NUL") # <<>>
        /\ Len(Append(line, "NUL")) = Len(line) + 1
        /\ Append(line, "NUL")[Len(line) + 1] = "NUL"
    BY <2>1, <2>2, AppendProperties
  <2>4. Len(line) + 1 <= LINE_MAX
    BY <2>1, Sizes
  <2> QED
    BY <1>2, <2>3, <2>4, Zenon
<1>4. TypeOK'
  BY <1>1, <1>2, <1>3, Zenon DEF TypeOK, Rows, Deeds
<1>5. ScreenShowsLine'
  BY <1>2, Zenon DEF ScreenShowsLine, Shows
<1>6. RoomForNul' /\ Submitted' /\ CommandExact'
  BY <1>2, <1>3, Zenon DEF RoomForNul, Submitted, CommandExact
<1> QED
  BY <1>4, <1>5, <1>6 DEF IndInv

\* An erase takes the last character off the line and off the row.
LEMMA EraseInv ==
    ASSUME IndInv, NEW c \in Keys, EraseKey(c)
    PROVE  IndInv'
<1>1. /\ pc = "read" /\ line \in Seq(Keys \cup {"NUL"}) /\ Len(line) < LINE_MAX
      /\ Len(line) <= LINE_MAX /\ row \in Rows /\ cursor \in 0 .. LINE_MAX
      /\ above \in 0 .. LINE_MAX
      /\ clean \in BOOLEAN /\ did \in Deeds /\ alive \subseteq Procs
      /\ clean => Shows(line, above, row, cursor)
  BY TypeParts, ScreenIs, Zenon DEF IndInv, RoomForNul, EraseKey, Reading
<1>2. pc' = pc /\ clean' = clean /\ did' = did /\ alive' = alive
  BY Zenon DEF EraseKey
<1>3. CASE line = <<>>
  <2>1. line' = line /\ row' = row /\ cursor' = cursor /\ above' = above
    BY <1>3, Zenon DEF EraseKey
  <2>2. TypeOK' /\ ScreenShowsLine'
    BY <1>1, <1>2, <2>1, Zenon DEF TypeOK, Rows, Deeds, ScreenShowsLine, Shows
  <2> QED
    BY <1>1, <1>2, <2>1, <2>2, Editing, Zenon
<1>4. CASE line # <<>>
  <2>1. /\ line' = SubSeq(line, 1, Len(line) - 1)
        /\ above' = IF above > Len(line') THEN Len(line') ELSE above
    BY <1>4, Zenon DEF EraseKey
  <2>2. /\ line' \in Seq(Keys \cup {"NUL"}) /\ Len(line') < LINE_MAX /\ Len(line') <= LINE_MAX
        /\ Len(line') \in 0 .. LINE_MAX
    <3>1. line \in Seq(Keys \cup {"NUL"}) /\ Len(line) < LINE_MAX
      BY <1>1
    <3>2. /\ Len(line) \in Nat /\ SubSeq(line, 1, Len(line) - 1) \in Seq(Keys \cup {"NUL"})
          /\ Len(SubSeq(line, 1, Len(line) - 1)) = Len(line) - 1 /\ Len(line) > 0
      BY <1>4, <3>1, LineShortened
    <3>3. /\ Len(line) - 1 < LINE_MAX /\ Len(line) - 1 <= LINE_MAX
          /\ Len(line) - 1 \in 0 .. LINE_MAX
      BY <3>1, <3>2, Sizes
    <3> QED
      BY <2>1, <3>2, <3>3, Zenon
  <2>3. above' \in 0 .. LINE_MAX
    BY <1>1, <2>1, <2>2, Zenon
  <2>4. CASE clean /\ cursor > 0
    <3>1. /\ cursor \in 1 .. LINE_MAX /\ cursor - 1 \in 0 .. LINE_MAX
          /\ ~(above > Len(line'))
          /\ [row EXCEPT ![cursor] = " "] \in Rows
          /\ Shows(line', above, [row EXCEPT ![cursor] = " "], cursor - 1)
      BY <1>1, <1>4, <2>1, <2>4, ShowsErased, Zenon
    <3>2. row' = [row EXCEPT ![cursor] = " "] /\ cursor' = cursor - 1 /\ above' = above
      BY <1>4, <2>1, <2>4, <3>1, Zenon DEF EraseKey, TermErase
    <3>3. TypeOK' /\ ScreenShowsLine'
      BY <1>1, <1>2, <2>2, <3>1, <3>2, Zenon DEF TypeOK, Rows, Deeds, ScreenShowsLine, Shows
    <3> QED
      BY <1>1, <1>2, <2>2, <3>3, Editing, Zenon
  <2>5. CASE clean /\ ~(cursor > 0)
    <3>1. cursor = 0 /\ cursor \notin 1 .. LINE_MAX
      BY <1>1, <2>5, Sizes
    <3>2. above > Len(line') /\ Shows(line', Len(line'), row, 0)
      BY <1>1, <1>4, <2>1, <2>5, <3>1, ShowsErasedBefore, Zenon
    <3>3. row' = row /\ cursor' = 0 /\ above' = Len(line')
      BY <1>4, <2>1, <2>5, <3>1, <3>2, Zenon DEF EraseKey, TermErase
    <3>4. TypeOK' /\ ScreenShowsLine'
      BY <1>1, <1>2, <2>2, <3>1, <3>2, <3>3, Zenon DEF TypeOK, Rows, Deeds, ScreenShowsLine, Shows
    <3> QED
      BY <1>1, <1>2, <2>2, <3>4, Editing, Zenon
  <2>6. CASE ~clean
    <3>1. row' = row /\ cursor' = cursor
      BY <1>4, <2>6, Zenon DEF EraseKey
    <3>2. TypeOK' /\ ScreenShowsLine'
      BY <1>1, <1>2, <2>2, <2>3, <2>6, <3>1, Zenon DEF TypeOK, Rows, Deeds, ScreenShowsLine, Shows
    <3> QED
      BY <1>1, <1>2, <2>2, <3>2, Editing, Zenon
  <2> QED
    BY <2>4, <2>5, <2>6
<1> QED
  BY <1>3, <1>4

\* Any other key is appended to the line and echoed, or dropped.
LEMMA OtherInv ==
    ASSUME IndInv, NEW c \in Keys, OtherKey(c)
    PROVE  IndInv'
<1>1. /\ pc = "read" /\ line \in Seq(Keys \cup {"NUL"}) /\ Len(line) < LINE_MAX
      /\ Len(line) <= LINE_MAX /\ row \in Rows /\ cursor \in 0 .. LINE_MAX
      /\ above \in 0 .. LINE_MAX
      /\ clean \in BOOLEAN /\ did \in Deeds /\ alive \subseteq Procs
      /\ clean => Shows(line, above, row, cursor)
  BY TypeParts, ScreenIs, Zenon DEF IndInv, RoomForNul, OtherKey, Reading
<1>2. pc' = pc /\ did' = did /\ alive' = alive
  BY Zenon DEF OtherKey
<1>3. CASE ~Room
  <2>1. /\ line' = line /\ row' = row /\ cursor' = cursor /\ above' = above
        /\ clean' = clean
    BY <1>3, Zenon DEF OtherKey, terminal
  <2>2. TypeOK' /\ ScreenShowsLine'
    BY <1>1, <1>2, <2>1, Zenon DEF TypeOK, Rows, Deeds, ScreenShowsLine, Shows
  <2> QED
    BY <1>1, <1>2, <2>1, <2>2, Editing, Zenon
<1>4. CASE Room
  <2>1. /\ line' = Append(line, c) /\ Len(line) + 1 < LINE_MAX
        /\ clean' = (clean /\ c \notin Controls)
    BY <1>4, Zenon DEF OtherKey, Room
  <2>2. line' \in Seq(Keys \cup {"NUL"}) /\ Len(line') < LINE_MAX /\ Len(line') <= LINE_MAX
    <3>1. line \in Seq(Keys \cup {"NUL"}) /\ c \in Keys \cup {"NUL"} /\ Len(line) + 1 < LINE_MAX
      BY <1>1, <2>1
    <3>2. /\ Append(line, c) \in Seq(Keys \cup {"NUL"})
          /\ Len(Append(line, c)) = Len(line) + 1
      BY <3>1, AppendProperties
    <3>3. Len(line) + 1 <= LINE_MAX
      <4>1. Len(line) \in Nat
        BY <3>1, LenProperties
      <4> QED
        BY <3>1, <4>1, Sizes
    <3> QED
      BY <2>1, <3>1, <3>2, <3>3, Zenon
  <2>3. clean' \in BOOLEAN /\ (clean' => clean)
    BY <1>1, <2>1, Zenon
  <2>4. CASE clean'
    <3>1. /\ cursor < LINE_MAX /\ cursor + 1 \in 0 .. LINE_MAX
          /\ [row EXCEPT ![cursor + 1] = c] \in Rows
          /\ Shows(line', above, [row EXCEPT ![cursor + 1] = c], cursor + 1)
      BY <1>1, <2>1, <2>3, <2>4, ShowsPut, Zenon
    <3>2. row' = [row EXCEPT ![cursor + 1] = c] /\ cursor' = cursor + 1 /\ above' = above
      BY <1>4, <2>4, <3>1, Zenon DEF OtherKey, TermPut
    <3>3. TypeOK' /\ ScreenShowsLine'
      BY <1>1, <1>2, <2>2, <2>3, <3>1, <3>2, Zenon DEF TypeOK, Rows, Deeds, ScreenShowsLine, Shows
    <3> QED
      BY <1>1, <1>2, <2>2, <3>3, Editing, Zenon
  <2>5. CASE ~clean'
    <3>1. row' = BlankRow /\ cursor' = 0 /\ above' = 0
      BY <1>4, <2>5, Zenon DEF OtherKey, TermForget
    <3>2. 0 \in 0 .. LINE_MAX
      BY Sizes
    <3>3. TypeOK' /\ ScreenShowsLine'
      BY <1>1, <1>2, <2>2, <2>3, <2>5, <3>1, <3>2, ShowsNothing, Zenon DEF TypeOK, Rows, Deeds, ScreenShowsLine, Shows
    <3> QED
      BY <1>1, <1>2, <2>2, <3>3, Editing, Zenon
  <2> QED
    BY <2>4, <2>5, Zenon
<1> QED
  BY <1>3, <1>4

\* Output of somebody else starts the row anew, with none of the line on it.
LEMMA OtherOutputInv ==
    ASSUME IndInv, OtherOutput
    PROVE  IndInv'
<1>1. /\ pc = "read" /\ line \in Seq(Keys \cup {"NUL"}) /\ Len(line) < LINE_MAX
      /\ Len(line) <= LINE_MAX
      /\ clean \in BOOLEAN /\ did \in Deeds /\ alive \subseteq Procs
  BY TypeParts, Zenon DEF IndInv, RoomForNul, OtherOutput
<1>2. /\ pc' = pc /\ line' = line /\ clean' = clean /\ did' = did /\ alive' = alive
      /\ row' = BlankRow /\ cursor' = 0 /\ above' = Len(line)
  BY Zenon DEF OtherOutput
<1>3. 0 \in 0 .. LINE_MAX /\ Len(line) \in 0 .. LINE_MAX
  BY <1>1, LenProperties, Sizes
<1>4. TypeOK'
  BY <1>1, <1>2, <1>3, ShowsNothing, Zenon DEF TypeOK, Rows, Deeds
<1>5. ScreenShowsLine'
  BY <1>1, <1>2, ShowsNothing, Zenon DEF ScreenShowsLine, Shows
<1> QED
  BY <1>1, <1>2, <1>4, <1>5, Editing, Zenon

\* What a line means depends on the line only.
LEMMA MeaningStays ==
    ASSUME line' = line
    PROVE  Meaning' = Meaning
<1>1. Text' = Text
  BY DEF Text
<1> QED
  BY <1>1 DEF Meaning

\* dispatch performs something and leaves the line and the screen alone.
Performs ==
    /\ pc = "dispatch" /\ pc' \in {"prompt", "gone"}
    /\ line' = line /\ row' = row /\ cursor' = cursor /\ above' = above
    /\ clean' = clean /\ alive' \subseteq Procs
    /\ did' \in Deeds /\ did' = Meaning

\* ... which keeps the invariant if it is what the line means.
LEMMA PerformInv ==
    ASSUME IndInv, Performs
    PROVE  IndInv'
<1>1. /\ line \in Seq(Keys \cup {"NUL"}) /\ Len(line) <= LINE_MAX
      /\ row \in Rows /\ cursor \in 0 .. LINE_MAX /\ above \in 0 .. LINE_MAX
      /\ clean \in BOOLEAN
      /\ pc # "read" /\ line # <<>> /\ line[Len(line)] = "NUL"
  BY TypeParts, Zenon DEF IndInv, Submitted, Performs
<1>2. pc' # "read" /\ pc' \in {"read", "dispatch", "prompt", "gone"}
  BY DEF Performs
<1>3. TypeOK'
  BY <1>1, <1>2, Zenon DEF TypeOK, Rows, Deeds, Performs
<1>4. RoomForNul' /\ Submitted' /\ ScreenShowsLine'
  BY <1>1, <1>2, Zenon DEF RoomForNul, Submitted, ScreenShowsLine, Performs
<1>5. CommandExact'
  BY MeaningStays, Zenon DEF CommandExact, Performs
<1> QED
  BY <1>3, <1>4, <1>5 DEF IndInv

\* What dispatch may record.
LEMMA DeedTypes ==
    ASSUME NEW c \in Commands \cup {"empty", "unknown", "usage"}
    PROVE  /\ \A x \in Seq(Keys) : Done(c, x, 0) \in Deeds
           /\ \A v \in 0 .. WORD - 1 : Done(c, <<>>, v) \in Deeds
<1>1. <<>> \in Seq(Keys) /\ 0 \in 0 .. WORD - 1
  BY EmptySeq, Sizes
<1> QED
  BY <1>1 DEF Done, Deeds

\* The line when dispatch looks at it.
LEMMA Dispatching ==
    ASSUME IndInv, pc = "dispatch"
    PROVE  Terminated /\ alive \subseteq Procs
BY TypeParts DEF IndInv, Submitted, Terminated

\* A command that only prints performs what the line means if it records that.
LEMMA PrintsPerforms ==
    ASSUME IndInv, pc = "dispatch", NEW c \in Commands \cup {"empty", "unknown", "usage"},
           NEW x \in Seq(Keys), Prints(c, x), Meaning = Done(c, x, 0)
    PROVE  IndInv'
<1>1. Done(c, x, 0) \in Deeds
  BY DeedTypes
<1>2. Performs
  BY <1>1, Dispatching, Zenon DEF Performs, Prints, terminal
<1> QED
  BY <1>2, PerformInv

\* The commands are the ones of Order.
LEMMA OrderIs ==
    /\ Order[1] = "help" /\ Order[2] = "ps" /\ Order[3] = "kill"
    /\ Order[4] = "echo" /\ Order[5] = "clear" /\ Order[6] = "crash"
    /\ \A c \in Commands : \E k \in 1 .. 6 : Order[k] = c
BY DEF Order, Commands

\* A command that dispatch selects is the one the line means.
LEMMA SelectedMeans ==
    ASSUME IndInv, NEW k \in 1 .. 6, Selected(k), NEW c \in Commands, c = Order[k]
    PROVE  /\ pc = "dispatch"
           /\ Meaning = IF c = "kill"
                        THEN IF line[Rest(c)] = "NUL" THEN Done("usage", <<>>, 0)
                             ELSE Done("kill", <<>>, ulib_atoi(Rest(c)))
                        ELSE Done(c, IF c = "echo" THEN CString(Rest(c)) ELSE <<>>, 0)
           /\ CString(Rest(c)) \in Seq(Keys)
           /\ line[Rest(c)] # "NUL" => ulib_atoi(Rest(c)) \in 0 .. WORD - 1
<1>1. pc = "dispatch" /\ line[First] # "NUL" /\ match_word(First, Word[c])
  BY DEF Selected
<1>2. Terminated
  BY <1>1, Dispatching
<1> QED
  BY <1>1, <1>2, CommandMeans

\* Lines that are no command.
LEMMA NoCommandInv ==
    ASSUME IndInv, EmptyLine \/ Unknown
    PROVE  IndInv'
<1>0. <<>> \in Seq(Keys)
  BY EmptySeq
<1>1. CASE EmptyLine
  <2>1. pc = "dispatch" /\ line[First] = "NUL" /\ Prints("empty", <<>>)
    BY <1>1 DEF EmptyLine
  <2>2. Meaning = Done("empty", <<>>, 0)
    BY <2>1, Dispatching, EmptyMeans
  <2> QED
    BY <1>0, <2>1, <2>2, PrintsPerforms
<1>2. CASE Unknown
  <2>1. /\ pc = "dispatch" /\ line[First] # "NUL" /\ Prints("unknown", <<>>)
        /\ \A k \in 1 .. 6 : ~match_word(First, Word[Order[k]])
    BY <1>2 DEF Unknown
  <2>2. \A c \in Commands : ~match_word(First, Word[c])
    BY <2>1, OrderIs, Zenon
  <2>3. Meaning = Done("unknown", <<>>, 0)
    BY <2>1, <2>2, Dispatching, UnknownMeans
  <2> QED
    BY <1>0, <2>1, <2>3, PrintsPerforms
<1> QED
  BY <1>1, <1>2

\* help, ps, echo and clear.
LEMMA PrintingInv ==
    ASSUME IndInv, cmd_help \/ cmd_ps \/ cmd_echo \/ cmd_clear
    PROVE  IndInv'
<1>0. <<>> \in Seq(Keys)
  BY EmptySeq
<1>1. CASE cmd_help
  <2>1. Selected(1) /\ Prints("help", <<>>) /\ "help" \in Commands /\ "help" = Order[1]
    BY <1>1, OrderIs DEF cmd_help, Commands
  <2>2. pc = "dispatch" /\ Meaning = Done("help", <<>>, 0)
    BY <2>1, SelectedMeans
  <2> QED
    BY <1>0, <2>1, <2>2, PrintsPerforms
<1>2. CASE cmd_ps
  <2>1. Selected(2) /\ Prints("ps", <<>>) /\ "ps" \in Commands /\ "ps" = Order[2]
    BY <1>2, OrderIs DEF cmd_ps, Commands
  <2>2. pc = "dispatch" /\ Meaning = Done("ps", <<>>, 0)
    BY <2>1, SelectedMeans
  <2> QED
    BY <1>0, <2>1, <2>2, PrintsPerforms
<1>3. CASE cmd_echo
  <2>1. /\ Selected(4) /\ Prints("echo", CString(Rest("echo")))
        /\ "echo" \in Commands /\ "echo" = Order[4]
    BY <1>3, OrderIs DEF cmd_echo, Commands
  <2>2. /\ pc = "dispatch" /\ CString(Rest("echo")) \in Seq(Keys)
        /\ Meaning = Done("echo", CString(Rest("echo")), 0)
    BY <2>1, SelectedMeans
  <2> QED
    BY <2>1, <2>2, PrintsPerforms
<1>4. CASE cmd_clear
  <2>1. Selected(5) /\ Prints("clear", <<>>) /\ "clear" \in Commands /\ "clear" = Order[5]
    BY <1>4, OrderIs DEF cmd_clear, Commands
  <2>2. pc = "dispatch" /\ Meaning = Done("clear", <<>>, 0)
    BY <2>1, SelectedMeans
  <2> QED
    BY <1>0, <2>1, <2>2, PrintsPerforms
<1> QED
  BY <1>1, <1>2, <1>3, <1>4

\* kill, with and without an argument, and crash.
LEMMA KillingInv ==
    ASSUME IndInv, cmd_kill \/ cmd_crash
    PROVE  IndInv'
<1>0. <<>> \in Seq(Keys)
  BY EmptySeq
<1>1. CASE cmd_kill
  <2> DEFINE arg == Rest("kill")
  <2>1. Selected(3) /\ "kill" \in Commands /\ "kill" = Order[3]
    BY <1>1, OrderIs DEF cmd_kill, Commands
  <2>2. /\ pc = "dispatch"
        /\ Meaning = IF line[arg] = "NUL" THEN Done("usage", <<>>, 0)
                     ELSE Done("kill", <<>>, ulib_atoi(arg))
        /\ line[arg] # "NUL" => ulib_atoi(arg) \in 0 .. WORD - 1
    BY <2>1, SelectedMeans
  <2>3. CASE line[arg] = "NUL"
    <3>1. Prints("usage", <<>>)
      BY <1>1, <2>3 DEF cmd_kill
    <3> QED
      BY <1>0, <2>2, <2>3, <3>1, PrintsPerforms
  <2>4. CASE line[arg] # "NUL"
    <3>1. /\ alive' = alive \ {ulib_atoi(arg)} /\ did' = Done("kill", <<>>, ulib_atoi(arg))
          /\ GoesOn /\ UNCHANGED <<line, row, cursor, above, clean>>
      BY <1>1, <2>4 DEF cmd_kill, sys_kill, terminal
    <3>2. pc' \in {"prompt", "gone"}
      BY <3>1 DEF GoesOn
    <3>3. did' \in Deeds /\ did' = Meaning
      BY <2>1, <2>2, <2>4, <3>1, DeedTypes
    <3>4. alive' \subseteq Procs
      BY <2>2, <3>1, Dispatching
    <3>5. Performs
      BY <2>2, <3>1, <3>2, <3>3, <3>4, Zenon DEF Performs
    <3> QED
      BY <3>5, PerformInv
  <2> QED
    BY <2>3, <2>4
<1>2. CASE cmd_crash
  <2>1. /\ Selected(6) /\ "crash" \in Commands /\ "crash" = Order[6]
        /\ did' = Done("crash", <<>>, 0) /\ alive' = alive \ {SHELL_PID} /\ pc' = "gone"
        /\ UNCHANGED <<line, row, cursor, above, clean>>
    BY <1>2, OrderIs DEF cmd_crash, Commands, terminal
  <2>2. pc = "dispatch" /\ Meaning = Done("crash", <<>>, 0)
    BY <2>1, SelectedMeans
  <2>3. Done("crash", <<>>, 0) \in Deeds
    BY <1>0, <2>1, DeedTypes
  <2>4. alive' \subseteq Procs /\ pc' \in {"prompt", "gone"}
    BY <2>1, <2>2, Dispatching
  <2>5. Performs
    BY <2>1, <2>2, <2>3, <2>4, Zenon DEF Performs
  <2> QED
    BY <2>5, PerformInv
<1> QED
  BY <1>1, <1>2

\* A new prompt.
LEMMA PromptInv ==
    ASSUME IndInv, Prompt
    PROVE  IndInv'
<1>1. alive \subseteq Procs
  BY TypeParts DEF IndInv
<1>2. /\ pc' = "read" /\ line' = <<>> /\ row' = BlankRow /\ cursor' = 0 /\ above' = 0
      /\ clean' = TRUE /\ did' = Nothing /\ alive' \subseteq Procs
  BY <1>1, Zenon DEF Prompt, prompt
<1> QED
  BY <1>2, AtPrompt

\* Every step keeps the invariant.
LEMMA NextInv ==
    ASSUME IndInv, [Next]_vars
    PROVE  IndInv'
<1>1. CASE Next
  <2>1. CASE \E c \in Keys : EnterKey(c) \/ EraseKey(c) \/ OtherKey(c)
    BY <2>1, EnterInv, EraseInv, OtherInv
  <2>2. CASE EmptyLine \/ Unknown
    BY <2>2, NoCommandInv
  <2>3. CASE cmd_help \/ cmd_ps \/ cmd_echo \/ cmd_clear
    BY <2>3, PrintingInv
  <2>4. CASE cmd_kill \/ cmd_crash
    BY <2>4, KillingInv
  <2>5. CASE Prompt
    BY <2>5, PromptInv
  <2>6. CASE OtherOutput
    BY <2>6, OtherOutputInv
  <2> QED
    BY <1>1, <2>1, <2>2, <2>3, <2>4, <2>5, <2>6 DEF Next
<1>2. CASE UNCHANGED vars
  <2>1. /\ pc' = pc /\ line' = line /\ row' = row /\ cursor' = cursor /\ above' = above
        /\ clean' = clean /\ did' = did /\ alive' = alive
    BY <1>2, Zenon DEF vars, terminal
  <2>2. TypeOK' /\ RoomForNul' /\ Submitted' /\ ScreenShowsLine'
    BY <2>1, Zenon DEF IndInv, TypeOK, RoomForNul, Submitted, ScreenShowsLine
  <2>3. CommandExact'
    BY <2>1, MeaningStays, Zenon DEF IndInv, CommandExact
  <2> QED
    BY <2>2, <2>3 DEF IndInv
<1> QED
  BY <1>1, <1>2

-----------------------------------------------------------------------------
(* Theorems.                                                               *)

\* The shell keeps its invariant.
THEOREM Invariance == Spec => []IndInv
BY InitInv, NextInv, PTL DEF Spec

\* The collected line with its terminator never leaves the line buffer of main, and
\* the other variables keep their types.
THEOREM TypeCorrectness == Spec => []TypeOK
<1>1. IndInv => TypeOK
  BY DEF IndInv
<1> QED
  BY <1>1, Invariance, PTL

\* While the user edits a line of printable characters, the terminal shows what Enter
\* would dispatch, as far as it was typed since the prompt or since another process
\* last printed.
THEOREM ScreenFaithful == Spec => []ScreenShowsLine
<1>1. IndInv => ScreenShowsLine
  BY DEF IndInv
<1> QED
  BY <1>1, Invariance, PTL

\* dispatch performs the command that the line means, with its argument, for every
\* line the buffer can hold.
THEOREM CommandsExact == Spec => []CommandExact
<1>1. IndInv => CommandExact
  BY DEF IndInv
<1> QED
  BY <1>1, Invariance, PTL
=============================================================================
