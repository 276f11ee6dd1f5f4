-------------------------- MODULE CoderProofs --------------------------
(***************************************************************************)
(* The Reed-Solomon coder does what a coder must do, for every number of   *)
(* parity bytes and every length up to 255: encode_data makes code words,  *)
(* correct_errors_erasures gives a code word back when as many bytes are   *)
(* missing as there are parity bytes, and when one byte more is wrong and  *)
(* two parity bytes are left for it.  Nothing is assumed but what the two  *)
(* tables of galois.h say of themselves (TablesAssumption).                *)
(***************************************************************************)
EXTENDS ReedSolomon, FiniteSetTheorems, WellFoundedInduction, TLAPS

-----------------------------------------------------------------------------
(* Induction over numbers, and recursions over an interval. *)

Byte == 0 .. 255

-----------------------------------------------------------------------------
\* Induction on the natural numbers, the hypothesis given as a set.
LEMMA SetInduction ==
  ASSUME NEW S, 0 \in S, \A i \in Nat : i \in S => i + 1 \in S
  PROVE  \A i \in Nat : i \in S
<1>. DEFINE R == OpToRel(<, Nat)
            T == Nat \ S
<1>1. IsWellFoundedOn(R, Nat)
  BY NatLessThanWellFounded, Zenon
<1>2. \A x, y \in Nat : <<y, x>> \in R <=> y < x
  BY DEF OpToRel
<1>. HIDE DEF R
<1>. SUFFICES ASSUME T # {} PROVE FALSE
  OBVIOUS
<1>3. PICK x \in T : \A y \in T : ~ (<<y, x>> \in R)
  BY <1>1, WFMin
<1>4. x - 1 \in T /\ x - 1 < x
  OBVIOUS
<1> QED
  BY <1>2, <1>3, <1>4

\* Step D from value to value can be taken n times, from c on.
Iterates(D, c, V, n) ==
    \E g \in [0 .. n -> V] : \A i \in 0 .. n : g[i] = IF i = 0 THEN c ELSE D[<<i, g[i - 1]>>]

\* A recursive function over an interval has a value: what CHOOSE takes in
\* one exists.
LEMMA FiniteRecursion ==
  ASSUME NEW V, NEW c \in V, NEW D \in [Nat \X V -> V], NEW n \in Nat
  PROVE  Iterates(D, c, V, n)
<1>. DEFINE Is(g, m) == \A i \in 0 .. m : g[i] = IF i = 0 THEN c ELSE D[<<i, g[i - 1]>>]
            S == {m \in Nat : \E g \in [0 .. m -> V] : Is(g, m)}
<1>1. 0 \in S
  <2>. DEFINE g == [i \in 0 .. 0 |-> c]
  <2>1. g \in [0 .. 0 -> V]
    OBVIOUS
  <2>2. Is(g, 0)
    OBVIOUS
  <2> QED
    BY <2>1, <2>2
<1>2. ASSUME NEW m \in Nat, m \in S PROVE m + 1 \in S
  <2>1. PICK g \in [0 .. m -> V] : Is(g, m)
    BY <1>2
  <2>. DEFINE h == [i \in 0 .. m + 1 |-> IF i = m + 1 THEN D[<<m + 1, g[m]>>] ELSE g[i]]
  <2>2. h \in [0 .. m + 1 -> V]
    OBVIOUS
  <2>3. h[0] = c
    <3>1. 0 \in 0 .. m /\ 0 \in 0 .. m + 1 /\ 0 # m + 1
      OBVIOUS
    <3>2. g[0] = c
      BY <2>1, <3>1
    <3> QED
      BY <3>1, <3>2
  <2>4. \A i \in 1 .. m : g[i] = D[<<i, g[i - 1]>>]
    BY <2>1
  <2>5. ASSUME NEW i \in 0 .. m + 1
        PROVE  h[i] = IF i = 0 THEN c ELSE D[<<i, h[i - 1]>>]
    <3>1. CASE i = 0
      BY <2>3, <3>1
    <3>2. CASE i \in 1 .. m
      <4>1. h[i] = g[i] /\ h[i - 1] = g[i - 1]
        BY <3>2
      <4> QED
        BY <4>1, <2>4, <3>2
    <3>3. CASE i = m + 1
      <4>1. h[i] = D[<<i, g[m]>>] /\ h[i - 1] = g[m] /\ i # 0
        BY <3>3
      <4> QED
        BY <4>1
    <3> QED
      BY <3>1, <3>2, <3>3
  <2>. HIDE DEF h
  <2>6. Is(h, m + 1)
    BY <2>5
  <2>. HIDE DEF Is
  <2> QED
    BY <2>2, <2>6
<1>3. n \in S
  BY <1>1, <1>2, SetInduction
<1> QED
  BY <1>3 DEF Iterates

\* What holds first and is kept by each step holds all along.
LEMMA Invariantly ==
  ASSUME NEW V, NEW n \in Nat, NEW g, g[0] \in V,
         \A i \in 1 .. n : g[i - 1] \in V => g[i] \in V
  PROVE  \A i \in 0 .. n : g[i] \in V
<1>. DEFINE S == {i \in Nat : i <= n => g[i] \in V}
<1>1. 0 \in S
  OBVIOUS
<1>2. ASSUME NEW i \in Nat, i \in S PROVE i + 1 \in S
  <2>1. (i + 1) - 1 = i /\ (i + 1 <= n => i + 1 \in 1 .. n /\ i <= n)
    OBVIOUS
  <2> QED
    BY <1>2, <2>1
<1>3. \A i \in Nat : i \in S
  <2>. HIDE DEF S
  <2> QED
    BY <1>1, <1>2, SetInduction
<1> QED
  BY <1>3

-----------------------------------------------------------------------------
(* Bytes as eight bits; their exclusive or. *)

\* The bits of a byte, and bytes with the same bits.
Places == {1, 2, 4, 8, 16, 32, 64, 128}
Bit(a, i) == (a \div i) % 2

LEMMA BitType == \A a \in Byte, i \in Places : Bit(a, i) \in {0, 1}
BY DEF Byte, Places, Bit

LEMMA NibbleBits ==
  ASSUME NEW x \in 0 .. 15
  PROVE  x = Bit(x, 1) + 2 * Bit(x, 2) + 4 * Bit(x, 4) + 8 * Bit(x, 8)
BY DEF Bit

LEMMA ByteNibbles ==
  ASSUME NEW a \in Byte
  PROVE  /\ a \div 16 \in 0 .. 15 /\ a % 16 \in 0 .. 15
         /\ a = 16 * (a \div 16) + (a % 16)
         /\ \A i \in {1, 2, 4, 8} : /\ Bit(a, i) = Bit(a % 16, i)
                                    /\ Bit(a, 16 * i) = Bit(a \div 16, i)
<1>1. /\ a \div 16 \in 0 .. 15 /\ a % 16 \in 0 .. 15
      /\ a = 16 * (a \div 16) + (a % 16)
  BY DEF Byte
<1>2. /\ Bit(a, 1) = Bit(a % 16, 1) /\ Bit(a, 2) = Bit(a % 16, 2)
      /\ Bit(a, 4) = Bit(a % 16, 4) /\ Bit(a, 8) = Bit(a % 16, 8)
  BY DEF Byte, Bit
<1>3. /\ Bit(a, 16) = Bit(a \div 16, 1) /\ Bit(a, 32) = Bit(a \div 16, 2)
      /\ Bit(a, 64) = Bit(a \div 16, 4) /\ Bit(a, 128) = Bit(a \div 16, 8)
  BY DEF Byte, Bit
<1> QED
  BY <1>1, <1>2, <1>3

\* Two bytes with the same bits are equal.
LEMMA SameBits ==
  ASSUME NEW a \in Byte, NEW b \in Byte, \A i \in Places : Bit(a, i) = Bit(b, i)
  PROVE  a = b
<1>1. \A i \in {1, 2, 4, 8} : Bit(a, i) = Bit(b, i) /\ Bit(a, 16 * i) = Bit(b, 16 * i)
  BY DEF Places
<1>2. /\ a = 16 * (a \div 16) + (a % 16) /\ a \div 16 \in 0 .. 15 /\ a % 16 \in 0 .. 15
      /\ \A i \in {1, 2, 4, 8} : /\ Bit(a, i) = Bit(a % 16, i)
                                 /\ Bit(a, 16 * i) = Bit(a \div 16, i)
  BY ByteNibbles
<1>3. /\ b = 16 * (b \div 16) + (b % 16) /\ b \div 16 \in 0 .. 15 /\ b % 16 \in 0 .. 15
      /\ \A i \in {1, 2, 4, 8} : /\ Bit(b, i) = Bit(b % 16, i)
                                 /\ Bit(b, 16 * i) = Bit(b \div 16, i)
  BY ByteNibbles
<1>. DEFINE l == a % 16 
            h == a \div 16 
            m == b % 16 
            g == b \div 16
<1>4. l = m
  <2>1. \A i \in {1, 2, 4, 8} : Bit(l, i) = Bit(m, i)
    BY <1>1, <1>2, <1>3
  <2>2. l \in 0 .. 15 /\ m \in 0 .. 15
    BY <1>2, <1>3
  <2>. HIDE DEF l, m
  <2> QED
    BY <2>1, <2>2, NibbleBits
<1>5. h = g
  <2>1. \A i \in {1, 2, 4, 8} : Bit(h, i) = Bit(g, i)
    BY <1>1, <1>2, <1>3
  <2>2. h \in 0 .. 15 /\ g \in 0 .. 15
    BY <1>2, <1>3
  <2>. HIDE DEF h, g
  <2> QED
    BY <2>1, <2>2, NibbleBits
<1> QED
  BY <1>2, <1>3, <1>4, <1>5

\* The exclusive or, bit by bit.
LEMMA Xor4Bits ==
  ASSUME NEW x \in 0 .. 15, NEW y \in 0 .. 15
  PROVE  /\ Xor4[x][y] \in 0 .. 15
         /\ \A i \in {1, 2, 4, 8} :
              Bit(Xor4[x][y], i) = IF Bit(x, i) = Bit(y, i) THEN 0 ELSE 1
<1>. DEFINE bit(i) == IF Bit(x, i) = Bit(y, i) THEN 0 ELSE 1
            p == bit(1) 
            q == bit(2) 
            r == bit(4) 
            s == bit(8)
<1>1. Xor4[x][y] = p + 2 * q + 4 * r + 8 * s
  BY DEF Xor4, Bit
<1>2. p \in {0, 1} /\ q \in {0, 1} /\ r \in {0, 1} /\ s \in {0, 1}
  OBVIOUS
<1>3. bit(1) = p /\ bit(2) = q /\ bit(4) = r /\ bit(8) = s
  OBVIOUS
<1>. HIDE DEF p, q, r, s
<1>4. ASSUME NEW z, z = p + 2 * q + 4 * r + 8 * s
      PROVE  z \in 0 .. 15 /\ Bit(z, 1) = p /\ Bit(z, 2) = q /\ Bit(z, 4) = r /\ Bit(z, 8) = s
  BY <1>2, <1>4 DEF Bit
<1>. HIDE DEF bit
<1>5. Bit(Xor4[x][y], 1) = bit(1) /\ Bit(Xor4[x][y], 2) = bit(2) /\ Bit(Xor4[x][y], 4) = bit(4)
        /\ Bit(Xor4[x][y], 8) = bit(8) /\ Xor4[x][y] \in 0 .. 15
  BY <1>1, <1>3, <1>4
<1> QED
  BY <1>5 DEF bit

\* The exclusive or works bit by bit.
LEMMA XorBits ==
  ASSUME NEW a \in Byte, NEW b \in Byte
  PROVE  /\ a \oplus b \in Byte
         /\ \A i \in Places : Bit(a \oplus b, i) = IF Bit(a, i) = Bit(b, i) THEN 0 ELSE 1
<1>. DEFINE h == Xor4[a \div 16][b \div 16] 
            l == Xor4[a % 16][b % 16] 
            c == a \oplus b
<1>1. /\ a \div 16 \in 0 .. 15 /\ a % 16 \in 0 .. 15
      /\ \A i \in {1, 2, 4, 8} : /\ Bit(a, i) = Bit(a % 16, i)
                                 /\ Bit(a, 16 * i) = Bit(a \div 16, i)
  BY ByteNibbles
<1>2. /\ b \div 16 \in 0 .. 15 /\ b % 16 \in 0 .. 15
      /\ \A i \in {1, 2, 4, 8} : /\ Bit(b, i) = Bit(b % 16, i)
                                 /\ Bit(b, 16 * i) = Bit(b \div 16, i)
  BY ByteNibbles
<1>3. /\ h \in 0 .. 15
      /\ \A i \in {1, 2, 4, 8} : Bit(h, i) = IF Bit(a, 16 * i) = Bit(b, 16 * i) THEN 0 ELSE 1
  <2>1. /\ h \in 0 .. 15
        /\ \A i \in {1, 2, 4, 8} :
             Bit(h, i) = IF Bit(a \div 16, i) = Bit(b \div 16, i) THEN 0 ELSE 1
    BY <1>1, <1>2, Xor4Bits, Zenon
  <2>. HIDE DEF h
  <2> QED
    BY <1>1, <1>2, <2>1
<1>4. /\ l \in 0 .. 15
      /\ \A i \in {1, 2, 4, 8} : Bit(l, i) = IF Bit(a, i) = Bit(b, i) THEN 0 ELSE 1
  <2>1. /\ l \in 0 .. 15
        /\ \A i \in {1, 2, 4, 8} :
             Bit(l, i) = IF Bit(a % 16, i) = Bit(b % 16, i) THEN 0 ELSE 1
    BY <1>1, <1>2, Xor4Bits, Zenon
  <2>. HIDE DEF l
  <2> QED
    BY <1>1, <1>2, <2>1
<1>5. c = 16 * h + l
  BY DEF \oplus
<1>. HIDE DEF h, l, c
<1>6. c \in Byte /\ c \div 16 = h /\ c % 16 = l
  BY <1>3, <1>4, <1>5 DEF Byte
<1>7. \A i \in {1, 2, 4, 8} : Bit(c, i) = Bit(l, i) /\ Bit(c, 16 * i) = Bit(h, i)
  BY <1>6, ByteNibbles
<1>8. \A i \in {1, 2, 4, 8} : /\ Bit(c, i) = IF Bit(a, i) = Bit(b, i) THEN 0 ELSE 1
                              /\ Bit(c, 16 * i) = IF Bit(a, 16 * i) = Bit(b, 16 * i) THEN 0 ELSE 1
  BY <1>3, <1>4, <1>7
<1>9. \A i \in Places : Bit(c, i) = IF Bit(a, i) = Bit(b, i) THEN 0 ELSE 1
  BY <1>8 DEF Places
<1> QED
  BY <1>6, <1>9 DEF c

\* Bytes are a group under the exclusive or, each its own inverse.
LEMMA XorType == \A a, b \in Byte : a \oplus b \in Byte
BY XorBits

LEMMA XorCommutes ==
  ASSUME NEW a \in Byte, NEW b \in Byte
  PROVE  a \oplus b = b \oplus a
<1>1. \A i \in Places : Bit(a \oplus b, i) = Bit(b \oplus a, i)
  BY XorBits
<1> QED
  BY <1>1, XorBits, SameBits

LEMMA XorAssociates ==
  ASSUME NEW a \in Byte, NEW b \in Byte, NEW c \in Byte
  PROVE  (a \oplus b) \oplus c = a \oplus (b \oplus c)
<1>1. a \oplus b \in Byte /\ b \oplus c \in Byte
  BY XorType
<1>2. ASSUME NEW i \in Places PROVE Bit((a \oplus b) \oplus c, i) = Bit(a \oplus (b \oplus c), i)
  <2>1. Bit((a \oplus b) \oplus c, i) = IF Bit(a \oplus b, i) = Bit(c, i) THEN 0 ELSE 1
    BY <1>1, XorBits
  <2>2. Bit(a \oplus (b \oplus c), i) = IF Bit(a, i) = Bit(b \oplus c, i) THEN 0 ELSE 1
    BY <1>1, XorBits
  <2>3. /\ Bit(a \oplus b, i) = IF Bit(a, i) = Bit(b, i) THEN 0 ELSE 1
        /\ Bit(b \oplus c, i) = IF Bit(b, i) = Bit(c, i) THEN 0 ELSE 1
    BY XorBits
  <2> QED
    BY <2>1, <2>2, <2>3, BitType
<1>3. (a \oplus b) \oplus c \in Byte /\ a \oplus (b \oplus c) \in Byte
  BY <1>1, XorType
<1> QED
  BY <1>2, <1>3, SameBits

LEMMA XorZero ==
  ASSUME NEW a \in Byte
  PROVE  a \oplus 0 = a /\ 0 \oplus a = a /\ a \oplus a = 0
<1>1. 0 \in Byte /\ \A i \in Places : Bit(0, i) = 0
  BY DEF Byte, Places, Bit
<1>2. \A i \in Places : Bit(a \oplus 0, i) = Bit(a, i) /\ Bit(0 \oplus a, i) = Bit(a, i)
  BY <1>1, XorBits, BitType
<1>3. \A i \in Places : Bit(a \oplus a, i) = Bit(0, i)
  BY <1>1, XorBits
<1> QED
  BY <1>1, <1>2, <1>3, XorBits, SameBits

\* A byte that the exclusive or with another makes 0 is that byte.
LEMMA XorCancels ==
  ASSUME NEW a \in Byte, NEW b \in Byte
  PROVE  /\ a \oplus b = 0 <=> a = b
         /\ a \oplus (a \oplus b) = b /\ (a \oplus b) \oplus b = a
<1>1. a \oplus (a \oplus b) = b
  BY XorAssociates, XorZero
<1>2. (a \oplus b) \oplus b = a
  BY XorAssociates, XorZero
<1>3. a \oplus b = 0 => a = b
  BY <1>1, XorZero
<1> QED
  BY <1>1, <1>2, <1>3, XorZero

\* Two sums of two, taken the other way round.
LEMMA XorSwaps ==
  ASSUME NEW a \in Byte, NEW b \in Byte, NEW c \in Byte, NEW d \in Byte
  PROVE  (a \oplus b) \oplus (c \oplus d) = (a \oplus c) \oplus (b \oplus d)
<1>1. /\ a \oplus b \in Byte /\ c \oplus d \in Byte /\ b \oplus d \in Byte
      /\ b \oplus c \in Byte /\ c \oplus b \in Byte
  BY XorType
<1>2. (a \oplus b) \oplus (c \oplus d) = a \oplus (b \oplus (c \oplus d))
  BY <1>1, XorAssociates
<1>3. b \oplus (c \oplus d) = c \oplus (b \oplus d)
  BY XorAssociates, XorCommutes
<1>4. a \oplus (c \oplus (b \oplus d)) = (a \oplus c) \oplus (b \oplus d)
  BY <1>1, XorAssociates
<1> QED
  BY <1>2, <1>3, <1>4

-----------------------------------------------------------------------------
(* The powers of x and their logarithms. *)

\* Multiplication with x moves the bits up and takes the modulus off.
LEMMA TimesXBits ==
  ASSUME NEW a \in Byte
  PROVE  /\ TimesX(a) \in Byte
         /\ Bit(TimesX(a), 1) = Bit(a, 128)
         /\ \A i \in {1, 16, 32, 64} : Bit(TimesX(a), 2 * i) = Bit(a, i)
         /\ \A i \in {2, 4, 8} :
              Bit(TimesX(a), 2 * i) = IF Bit(a, i) = Bit(a, 128) THEN 0 ELSE 1
<1>. DEFINE s == IF a < 128 THEN 2 * a ELSE 2 * a - 256
            z == TimesX(a)
<1>1. s \in Byte /\ Bit(s, 1) = 0 /\ Bit(s, 2) = Bit(a, 1) /\ Bit(s, 4) = Bit(a, 2)
  BY DEF Byte, Bit
<1>2. Bit(s, 8) = Bit(a, 4) /\ Bit(s, 16) = Bit(a, 8) /\ Bit(s, 32) = Bit(a, 16)
  <2>1. Bit(s, 8) = Bit(a, 4)
    BY DEF Byte, Bit
  <2>2. Bit(s, 16) = Bit(a, 8)
    BY DEF Byte, Bit
  <2>3. Bit(s, 32) = Bit(a, 16)
    BY DEF Byte, Bit
  <2> QED
    BY <2>1, <2>2, <2>3
<1>3. Bit(s, 64) = Bit(a, 32) /\ Bit(s, 128) = Bit(a, 64)
  BY DEF Byte, Bit
<1>4. a < 128 <=> Bit(a, 128) = 0
  BY DEF Byte, Bit
<1>5. z = IF a < 128 THEN s ELSE s \oplus 29
  BY DEF TimesX
<1>6. \A i \in Places : Bit(s, i) \in {0, 1} /\ Bit(a, i) \in {0, 1}
  BY <1>1, BitType
<1>. HIDE DEF s, z
<1>7. /\ 29 \in Byte /\ Bit(29, 1) = 1 /\ Bit(29, 2) = 0 /\ Bit(29, 4) = 1 /\ Bit(29, 8) = 1
      /\ Bit(29, 16) = 1 /\ Bit(29, 32) = 0 /\ Bit(29, 64) = 0 /\ Bit(29, 128) = 0
  BY DEF Byte, Bit
<1>8. CASE a < 128
  BY <1>1, <1>2, <1>3, <1>4, <1>5, <1>6, <1>8 DEF z, Places
<1>9. CASE ~ (a < 128)
  <2>1. z \in Byte /\ \A i \in Places : Bit(z, i) = IF Bit(s, i) = Bit(29, i) THEN 0 ELSE 1
    BY <1>1, <1>5, <1>7, <1>9, XorBits
  <2>2. /\ Bit(z, 1) = 1 /\ Bit(z, 2) = Bit(s, 2) /\ Bit(z, 32) = Bit(s, 32)
        /\ Bit(z, 64) = Bit(s, 64) /\ Bit(z, 128) = Bit(s, 128)
    BY <2>1, <1>1, <1>6, <1>7 DEF Places
  <2>3. /\ Bit(z, 4) = IF Bit(s, 4) = 1 THEN 0 ELSE 1
        /\ Bit(z, 8) = IF Bit(s, 8) = 1 THEN 0 ELSE 1
        /\ Bit(z, 16) = IF Bit(s, 16) = 1 THEN 0 ELSE 1
    BY <2>1, <1>7 DEF Places
  <2>4. Bit(a, 128) = 1
    BY <1>4, <1>6, <1>9 DEF Places
  <2> QED
    BY <2>1, <2>2, <2>3, <2>4, <1>1, <1>2, <1>3 DEF z
<1> QED
  BY <1>8, <1>9

\* TimesX, one step of the shift register of PPOLY, is linear.
LEMMA TimesXDistributes ==
  ASSUME NEW a \in Byte, NEW b \in Byte
  PROVE  TimesX(a \oplus b) = TimesX(a) \oplus TimesX(b)
<1>. DEFINE c == a \oplus b
            x == TimesX(a)
            y == TimesX(b)
            z == TimesX(c)
<1>1. c \in Byte /\ \A i \in Places : Bit(c, i) = IF Bit(a, i) = Bit(b, i) THEN 0 ELSE 1
  BY XorBits
<1>2. \A i \in Places : Bit(a, i) \in {0, 1} /\ Bit(b, i) \in {0, 1} /\ Bit(c, i) \in {0, 1}
  BY <1>1, BitType
<1>3. /\ x \in Byte /\ Bit(x, 1) = Bit(a, 128)
      /\ \A i \in {1, 16, 32, 64} : Bit(x, 2 * i) = Bit(a, i)
      /\ \A i \in {2, 4, 8} : Bit(x, 2 * i) = IF Bit(a, i) = Bit(a, 128) THEN 0 ELSE 1
  BY TimesXBits
<1>4. /\ y \in Byte /\ Bit(y, 1) = Bit(b, 128)
      /\ \A i \in {1, 16, 32, 64} : Bit(y, 2 * i) = Bit(b, i)
      /\ \A i \in {2, 4, 8} : Bit(y, 2 * i) = IF Bit(b, i) = Bit(b, 128) THEN 0 ELSE 1
  BY TimesXBits
<1>5. /\ z \in Byte /\ Bit(z, 1) = Bit(c, 128)
      /\ \A i \in {1, 16, 32, 64} : Bit(z, 2 * i) = Bit(c, i)
      /\ \A i \in {2, 4, 8} : Bit(z, 2 * i) = IF Bit(c, i) = Bit(c, 128) THEN 0 ELSE 1
  BY <1>1, TimesXBits
<1>. HIDE DEF c, x, y, z
<1>6. /\ x \oplus y \in Byte
      /\ \A i \in Places : Bit(x \oplus y, i) = IF Bit(x, i) = Bit(y, i) THEN 0 ELSE 1
  BY <1>3, <1>4, XorBits
<1>7. \A i \in {1, 16, 32, 64} : Bit(x \oplus y, 2 * i) = Bit(z, 2 * i)
  BY <1>1, <1>3, <1>4, <1>5, <1>6 DEF Places
<1>8. \A i \in {2, 4, 8} : Bit(x \oplus y, 2 * i) = Bit(z, 2 * i)
  BY <1>1, <1>2, <1>3, <1>4, <1>5, <1>6 DEF Places
<1>9. Bit(x \oplus y, 1) = Bit(z, 1)
  BY <1>1, <1>3, <1>4, <1>5, <1>6 DEF Places
<1>10. \A i \in Places : Bit(x \oplus y, i) = Bit(z, i)
  BY <1>7, <1>8, <1>9 DEF Places
<1>11. x \oplus y = z
  BY <1>5, <1>6, <1>10, SameBits
<1> QED
  BY <1>11 DEF c, x, y, z

\* It takes no byte but 0 to 0.
LEMMA TimesXNonzero ==
  ASSUME NEW a \in 1 .. 255
  PROVE  TimesX(a) \in 1 .. 255
<1>1. a \in Byte /\ TimesX(a) \in Byte /\ Bit(TimesX(a), 1) = Bit(a, 128)
  <2>1. a \in Byte
    BY DEF Byte
  <2> QED
    BY <2>1, TimesXBits
<1>2. CASE a < 128
  BY <1>2 DEF TimesX
<1>3. CASE ~ (a < 128)
  <2>1. Bit(a, 128) = 1 /\ Bit(0, 1) = 0
    BY <1>3 DEF Bit
  <2> QED
    BY <1>1, <2>1 DEF Byte
<1> QED
  BY <1>2, <1>3

-----------------------------------------------------------------------------
\* The tables: gexp runs through all bytes but 0, and Logs is its inverse.
LEMMA FirstPower == Powers[1] = 1
BY TablesAssumption, Zenon DEF TablesAssumption

LEMMA NextPower == \A i \in 1 .. 255 : Powers[(i % 255) + 1] = TimesX(Powers[i])
BY TablesAssumption, Zenon DEF TablesAssumption

LEMMA PowerOfLog == \A a \in 1 .. 255 : Logs[a] \in 0 .. 254 /\ Powers[Logs[a] + 1] = a
BY TablesAssumption, Zenon DEF TablesAssumption

LEMMA PowersType == \A i \in 1 .. 255 : Powers[i] \in 1 .. 255
<1>. DEFINE S == {i \in Nat : i < 255 => Powers[i + 1] \in 1 .. 255}
<1>1. 0 \in S
  <2>1. 0 + 1 = 1 /\ Powers[1] = 1
    BY FirstPower
  <2> QED
    BY <2>1
<1>2. ASSUME NEW i \in Nat, i \in S PROVE i + 1 \in S
  <2>1. CASE i + 1 < 255
    <3>1. Powers[i + 1] \in 1 .. 255 /\ i + 1 \in 1 .. 255 /\ ((i + 1) % 255) = i + 1
      BY <1>2, <2>1
    <3>2. Powers[(i + 1) + 1] = TimesX(Powers[i + 1])
      BY <3>1, NextPower
    <3>3. Powers[(i + 1) + 1] \in 1 .. 255
      BY <3>1, <3>2, TimesXNonzero
    <3> QED
      BY <3>3
  <2> QED
    BY <2>1
<1>3. \A i \in Nat : i \in S
  <2>. HIDE DEF S
  <2> QED
    BY <1>1, <1>2, SetInduction
<1>4. ASSUME NEW i \in 1 .. 255 PROVE Powers[i] \in 1 .. 255
  <2>1. i - 1 \in Nat /\ i - 1 < 255 /\ (i - 1) + 1 = i
    OBVIOUS
  <2>2. i - 1 \in S
    BY <1>3, <2>1
  <2> QED
    BY <2>1, <2>2
<1> QED
  BY <1>4

LEMMA ExpType == \A i \in Nat : gexp(i) \in 1 .. 255 /\ gexp(i) \in Byte
<1>1. \A i \in Nat : (i % 255) + 1 \in 1 .. 255
  OBVIOUS
<1>2. \A i \in Nat : gexp(i) \in 1 .. 255
  BY <1>1, PowersType DEF gexp
<1> QED
  BY <1>2 DEF Byte

\* gexp goes on from one power of x to the next.
LEMMA ExpNext ==
  /\ gexp(0) = 1
  /\ \A i \in Nat : gexp(i + 1) = TimesX(gexp(i))
<1>1. gexp(0) = 1
  <2>1. (0 % 255) + 1 = 1 /\ Powers[1] = 1
    BY FirstPower
  <2> QED
    BY <2>1 DEF gexp
<1>2. ASSUME NEW i \in Nat PROVE gexp(i + 1) = TimesX(gexp(i))
  <2>1. (i % 255) + 1 \in 1 .. 255 /\ ((i % 255) + 1) % 255 = (i + 1) % 255
    OBVIOUS
  <2>2. Powers[(((i % 255) + 1) % 255) + 1] = TimesX(Powers[(i % 255) + 1])
    BY <2>1, NextPower
  <2> QED
    BY <2>1, <2>2 DEF gexp
<1> QED
  BY <1>1, <1>2

LEMMA IntervalSize ==
  ASSUME NEW a \in Int, NEW b \in Int, a <= b
  PROVE  IsFiniteSet(a .. b) /\ Cardinality(a .. b) = (b - a) + 1
BY FS_Interval

\* The powers 0 .. 254 are different: 255 of them are the 255 bytes that are
\* not 0.
LEMMA ExpInjective ==
  ASSUME NEW i \in 0 .. 254, NEW j \in 0 .. 254, gexp(i) = gexp(j)
  PROVE  i = j
<1>. DEFINE f == [m \in 0 .. 254 |-> Powers[m + 1]]
<1>1. f \in Surjection(0 .. 254, 1 .. 255)
  <2>1. f \in [0 .. 254 -> 1 .. 255]
    <3>1. \A m \in 0 .. 254 : m + 1 \in 1 .. 255
      OBVIOUS
    <3> QED
      BY <3>1, PowersType
  <2>2. ASSUME NEW a \in 1 .. 255 PROVE \E m \in 0 .. 254 : f[m] = a
    BY PowerOfLog
  <2> QED
    BY <2>1, <2>2 DEF Surjection
<1>2. IsFiniteSet(0 .. 254) /\ IsFiniteSet(1 .. 255) /\ Cardinality(0 .. 254) = Cardinality(1 .. 255)
  <2>1. 0 \in Int /\ 1 \in Int /\ 254 \in Int /\ 255 \in Int /\ 254 - 0 = 255 - 1
        /\ 0 <= 254 /\ 1 <= 255
    OBVIOUS
  <2>2. IsFiniteSet(0 .. 254) /\ Cardinality(0 .. 254) = (254 - 0) + 1
    BY <2>1, IntervalSize, Zenon
  <2>3. IsFiniteSet(1 .. 255) /\ Cardinality(1 .. 255) = (255 - 1) + 1
    BY <2>1, IntervalSize, Zenon
  <2> QED
    BY <2>2, <2>3
<1>3. f \in Injection(0 .. 254, 1 .. 255)
  <2>. HIDE DEF f
  <2> QED
    BY <1>1, <1>2, FS_SurjSameCardinalityImpliesInj
<1>4. f[i] = f[j]
  BY DEF gexp
<1> QED
  BY <1>3, <1>4 DEF Injection, IsInjective

LEMMA LogType == \A a \in 1 .. 255 : Logs[a] \in 0 .. 254 /\ gexp(Logs[a]) = a
<1>1. \A i \in 0 .. 254 : i % 255 = i
  OBVIOUS
<1> QED
  <2>1. ASSUME NEW a \in 1 .. 255 PROVE Logs[a] \in 0 .. 254 /\ gexp(Logs[a]) = a
    <3>1. Logs[a] \in 0 .. 254 /\ Powers[Logs[a] + 1] = a
      BY PowerOfLog, Zenon
    <3>2. Logs[a] % 255 = Logs[a]
      BY <1>1, <3>1
    <3> QED
      BY <3>1, <3>2, Zenon DEF gexp
  <2> QED
    BY <2>1

LEMMA ExpModulo ==
  ASSUME NEW i \in Nat, NEW j \in Nat
  PROVE  gexp((i % 255) + j) = gexp(i + j) /\ gexp(i % 255) = gexp(i)
<1>1. ((i % 255) + j) % 255 = (i + j) % 255 /\ (i % 255) % 255 = i % 255
  OBVIOUS
<1> QED
  BY <1>1 DEF gexp

\* Logs is the inverse of gexp.
LEMMA LogExp ==
  ASSUME NEW i \in Nat
  PROVE  Logs[gexp(i)] = i % 255
<1>1. Logs[gexp(i)] \in 0 .. 254 /\ gexp(Logs[gexp(i)]) = gexp(i)
  BY ExpType, LogType
<1>2. gexp(i % 255) = gexp(i) /\ i % 255 \in 0 .. 254
  BY ExpModulo
<1> QED
  BY <1>1, <1>2, ExpInjective

-----------------------------------------------------------------------------
(* Multiplication in GF(256). *)

\* Bytes are a field with gmult.
LEMMA ByteIsExp ==
  ASSUME NEW a \in Byte, a # 0
  PROVE  \E i \in Nat : a = gexp(i)
<1>1. a \in 1 .. 255
  BY DEF Byte
<1>2. Logs[a] \in 0 .. 254 /\ gexp(Logs[a]) = a
  BY <1>1, LogType, Zenon
<1> QED
  BY <1>2

LEMMA ExpNotZero == \A i \in Nat : gexp(i) # 0 /\ gexp(i) \in Byte
BY ExpType

\* gmult of two powers adds their exponents.
LEMMA MultExp ==
  ASSUME NEW i \in Nat, NEW j \in Nat
  PROVE  gmult(gexp(i), gexp(j)) = gexp(i + j)
<1>1. gexp(i) # 0 /\ gexp(j) # 0
  BY ExpNotZero
<1>2. gmult(gexp(i), gexp(j)) = gexp((i % 255) + (j % 255))
  BY <1>1, LogExp DEF gmult
<1>3. i % 255 \in Nat /\ j % 255 \in Nat
  OBVIOUS
<1>4. gexp((i % 255) + (j % 255)) = gexp(i + (j % 255))
  BY <1>3, ExpModulo
<1>5. i + (j % 255) = (j % 255) + i /\ j + i = i + j
  BY <1>3
<1>6. gexp((j % 255) + i) = gexp(j + i)
  BY ExpModulo
<1> QED
  BY <1>2, <1>4, <1>5, <1>6

LEMMA MultZero == \A a : gmult(a, 0) = 0 /\ gmult(0, a) = 0
BY DEF gmult

LEMMA MultType ==
  ASSUME NEW a \in Byte, NEW b \in Byte
  PROVE  gmult(a, b) \in Byte /\ (a # 0 /\ b # 0 => gmult(a, b) # 0)
<1>1. CASE a = 0 \/ b = 0
  BY <1>1, MultZero DEF Byte
<1>2. CASE a # 0 /\ b # 0
  <2>1. PICK i \in Nat : a = gexp(i)
    BY <1>2, ByteIsExp
  <2>2. PICK j \in Nat : b = gexp(j)
    BY <1>2, ByteIsExp
  <2>3. gmult(a, b) = gexp(i + j) /\ i + j \in Nat
    BY <2>1, <2>2, MultExp
  <2> QED
    BY <2>3, ExpNotZero
<1> QED
  BY <1>1, <1>2

LEMMA MultOne ==
  ASSUME NEW a \in Byte
  PROVE  gmult(1, a) = a /\ gmult(a, 1) = a
<1>1. CASE a = 0
  BY <1>1, MultZero
<1>2. CASE a # 0
  <2>1. PICK i \in Nat : a = gexp(i)
    BY <1>2, ByteIsExp
  <2>2. 1 = gexp(0) /\ 0 \in Nat /\ 0 + i = i /\ i + 0 = i
    BY ExpNext
  <2>3. gmult(gexp(0), gexp(i)) = gexp(0 + i) /\ gmult(gexp(i), gexp(0)) = gexp(i + 0)
    BY <2>2, MultExp
  <2> QED
    BY <2>1, <2>2, <2>3
<1> QED
  BY <1>1, <1>2

LEMMA MultCommutes ==
  ASSUME NEW a \in Byte, NEW b \in Byte
  PROVE  gmult(a, b) = gmult(b, a)
<1>1. CASE a = 0 \/ b = 0
  BY <1>1, MultZero
<1>2. CASE a # 0 /\ b # 0
  <2>1. PICK i \in Nat : a = gexp(i)
    BY <1>2, ByteIsExp
  <2>2. PICK j \in Nat : b = gexp(j)
    BY <1>2, ByteIsExp
  <2>3. i + j = j + i
    OBVIOUS
  <2> QED
    BY <2>1, <2>2, <2>3, MultExp
<1> QED
  BY <1>1, <1>2

LEMMA MultAssociates ==
  ASSUME NEW a \in Byte, NEW b \in Byte, NEW c \in Byte
  PROVE  gmult(gmult(a, b), c) = gmult(a, gmult(b, c))
<1>1. CASE a = 0 \/ b = 0 \/ c = 0
  BY <1>1, MultZero
<1>2. CASE a # 0 /\ b # 0 /\ c # 0
  <2>1. PICK i \in Nat : a = gexp(i)
    BY <1>2, ByteIsExp
  <2>2. PICK j \in Nat : b = gexp(j)
    BY <1>2, ByteIsExp
  <2>3. PICK m \in Nat : c = gexp(m)
    BY <1>2, ByteIsExp
  <2>4. (i + j) + m = i + (j + m) /\ i + j \in Nat /\ j + m \in Nat
    OBVIOUS
  <2>5. gmult(gmult(a, b), c) = gexp((i + j) + m)
    BY <2>1, <2>2, <2>3, <2>4, MultExp
  <2>6. gmult(a, gmult(b, c)) = gexp(i + (j + m))
    BY <2>1, <2>2, <2>3, <2>4, MultExp
  <2> QED
    BY <2>4, <2>5, <2>6
<1> QED
  BY <1>1, <1>2

\* A factor x more is one TimesX more.
LEMMA MultNext ==
  ASSUME NEW i \in Nat, NEW b \in Byte
  PROVE  gmult(gexp(i + 1), b) = TimesX(gmult(gexp(i), b))
<1>1. CASE b = 0
  <2>1. TimesX(0) = 0
    BY DEF TimesX
  <2> QED
    BY <1>1, <2>1, MultZero
<1>2. CASE b # 0
  <2>1. PICK j \in Nat : b = gexp(j)
    BY <1>2, ByteIsExp
  <2>2. (i + 1) + j = (i + j) + 1 /\ i + j \in Nat /\ i + 1 \in Nat
    OBVIOUS
  <2>3. gmult(gexp(i + 1), b) = gexp((i + j) + 1)
    BY <2>1, <2>2, MultExp
  <2>4. gexp((i + j) + 1) = TimesX(gexp(i + j))
    BY <2>2, ExpNext
  <2> QED
    BY <2>1, <2>3, <2>4, MultExp
<1> QED
  BY <1>1, <1>2

\* gmult distributes over the exclusive or, by induction on the logarithm.
LEMMA MultDistributes ==
  ASSUME NEW a \in Byte, NEW b \in Byte, NEW c \in Byte
  PROVE  /\ gmult(a, b \oplus c) = gmult(a, b) \oplus gmult(a, c)
         /\ gmult(b \oplus c, a) = gmult(b, a) \oplus gmult(c, a)
<1>1. b \oplus c \in Byte /\ 0 \in Byte /\ 0 \oplus 0 = 0
  <2>1. 0 \in Byte
    BY DEF Byte
  <2> QED
    BY <2>1, XorType, XorZero
<1>. DEFINE S == {i \in Nat : gmult(gexp(i), b \oplus c) = gmult(gexp(i), b) \oplus gmult(gexp(i), c)}
<1>2. 0 \in S
  BY <1>1, ExpNext, MultOne
<1>3. ASSUME NEW i \in Nat, i \in S PROVE i + 1 \in S
  <2>1. gexp(i) \in Byte
    BY ExpNotZero
  <2>2. gmult(gexp(i), b) \in Byte /\ gmult(gexp(i), c) \in Byte
    BY <2>1, MultType
  <2>3. TimesX(gmult(gexp(i), b) \oplus gmult(gexp(i), c))
          = TimesX(gmult(gexp(i), b)) \oplus TimesX(gmult(gexp(i), c))
    BY <2>2, TimesXDistributes
  <2>4. gmult(gexp(i + 1), b \oplus c) = TimesX(gmult(gexp(i), b) \oplus gmult(gexp(i), c))
    BY <1>1, <1>3, MultNext
  <2> QED
    BY <2>3, <2>4, MultNext
<1>4. \A i \in Nat : i \in S
  <2>. HIDE DEF S
  <2> QED
    BY <1>2, <1>3, SetInduction
<1>5. gmult(a, b \oplus c) = gmult(a, b) \oplus gmult(a, c)
  <2>1. CASE a = 0
    BY <2>1, <1>1, MultZero
  <2>2. CASE a # 0
    BY <2>2, <1>4, ByteIsExp
  <2> QED
    BY <2>1, <2>2
<1>6. gmult(b \oplus c, a) = gmult(b, a) \oplus gmult(c, a)
  BY <1>1, <1>5, MultCommutes
<1> QED
  BY <1>5, <1>6

\* ginv is the inverse.
LEMMA ByteInverse ==
  ASSUME NEW a \in Byte, a # 0
  PROVE  ginv(a) \in Byte /\ gmult(a, ginv(a)) = 1 /\ gmult(ginv(a), a) = 1
<1>1. a \in 1 .. 255
  BY DEF Byte
<1>. DEFINE l == Logs[a]
<1>2. l \in 0 .. 254 /\ gexp(l) = a
  BY <1>1, LogType, Zenon
<1>3. ginv(a) = gexp(255 - l)
  BY DEF ginv
<1>. HIDE DEF l
<1>4. l \in Nat /\ 255 - l \in Nat /\ l + (255 - l) = 255 /\ 255 % 255 = 0 % 255
  BY <1>2
<1>5. gexp(255) = 1
  BY <1>4, ExpNext DEF gexp
<1>6. gmult(a, ginv(a)) = 1
  BY <1>2, <1>3, <1>4, <1>5, MultExp
<1>7. ginv(a) \in Byte
  BY <1>3, <1>4, ExpNotZero
<1> QED
  BY <1>6, <1>7, MultCommutes

\* Products of a byte with a nonzero one tell bytes apart.
LEMMA MultCancels ==
  ASSUME NEW a \in Byte, NEW b \in Byte, NEW c \in Byte, c # 0, gmult(a, c) = gmult(b, c)
  PROVE  a = b
<1>1. ginv(c) \in Byte /\ gmult(c, ginv(c)) = 1
  BY ByteInverse
<1>2. gmult(gmult(a, c), ginv(c)) = gmult(a, 1) /\ gmult(gmult(b, c), ginv(c)) = gmult(b, 1)
  BY <1>1, MultAssociates
<1> QED
  BY <1>2, MultOne

-----------------------------------------------------------------------------
(* Sums of bytes. *)

\* XorSum: its partial sums, then what it is for no and for one more byte.
IsSum(g, f, n) == g = [i \in 0 .. n |-> IF i = 0 THEN 0 ELSE g[i - 1] \oplus f[i - 1]]
Bytes(f, n) == \A i \in 0 .. n - 1 : f[i] \in Byte

LEMMA ZeroIsByte == 0 \in Byte /\ 1 \in Byte
BY DEF Byte

\* The recursive function in XorSum exists,
LEMMA SumExists ==
  ASSUME NEW n \in Nat, NEW f, Bytes(f, n)
  PROVE  \E g \in [0 .. n -> Byte] : IsSum(g, f, n)
<1>. DEFINE D == [p \in Nat \X Byte |-> IF p[1] \in 1 .. n THEN p[2] \oplus f[p[1] - 1] ELSE 0]
<1>1. D \in [Nat \X Byte -> Byte]
  <2>1. ASSUME NEW p \in Nat \X Byte
        PROVE  (IF p[1] \in 1 .. n THEN p[2] \oplus f[p[1] - 1] ELSE 0) \in Byte
    <3>1. p[2] \in Byte /\ 0 \in Byte
      BY ZeroIsByte
    <3>2. p[1] \in 1 .. n => f[p[1] - 1] \in Byte
      BY DEF Bytes
    <3> QED
      BY <3>1, <3>2, XorType
  <2> QED
    BY <2>1
<1>2. \A i \in 1 .. n, b \in Byte : D[<<i, b>>] = b \oplus f[i - 1]
  OBVIOUS
<1>. HIDE DEF D
<1>3. PICK g \in [0 .. n -> Byte] :
        \A i \in 0 .. n : g[i] = IF i = 0 THEN 0 ELSE D[<<i, g[i - 1]>>]
  <2>1. 0 \in Byte
    BY ZeroIsByte
  <2>2. Iterates(D, 0, Byte, n)
    BY <1>1, <2>1, FiniteRecursion
  <2> QED
    BY <2>2 DEF Iterates
<1>4. ASSUME NEW i \in 0 .. n
      PROVE  g[i] = IF i = 0 THEN 0 ELSE g[i - 1] \oplus f[i - 1]
  <2>1. g[i] = IF i = 0 THEN 0 ELSE D[<<i, g[i - 1]>>]
    BY <1>3
  <2>2. i # 0 => i \in 1 .. n /\ g[i - 1] \in Byte
    OBVIOUS
  <2> QED
    BY <1>2, <2>1, <2>2
<1>5. g = [i \in 0 .. n |-> g[i]]
  OBVIOUS
<1>6. IsSum(g, f, n)
  BY <1>4, <1>5 DEF IsSum
<1> QED
  BY <1>6

\* so CHOOSE gives one,
LEMMA SumChosen ==
  ASSUME NEW n \in Nat, NEW f, Bytes(f, n)
  PROVE  \E g : IsSum(g, f, n) /\ XorSum(f, n) = g[n]
<1>. DEFINE h == CHOOSE g : g = [i \in 0 .. n |-> IF i = 0 THEN 0 ELSE g[i - 1] \oplus f[i - 1]]
<1>1. XorSum(f, n) = h[n]
  BY DEF XorSum
<1>2. h = [i \in 0 .. n |-> IF i = 0 THEN 0 ELSE h[i - 1] \oplus f[i - 1]]
  <2>1. \E g : g = [i \in 0 .. n |-> IF i = 0 THEN 0 ELSE g[i - 1] \oplus f[i - 1]]
    BY SumExists DEF IsSum
  <2> QED
    BY <2>1, Zenon
<1> QED
  BY <1>1, <1>2 DEF IsSum

\* and all that satisfy the recursion agree.
LEMMA SumsAgree ==
  ASSUME NEW n \in Nat, NEW f, Bytes(f, n), NEW g, IsSum(g, f, n)
  PROVE  \A m \in 0 .. n : g[m] \in Byte /\ g[m] = XorSum(f, m)
<1>. DEFINE S == {m \in Nat : m <= n =>
                    g[m] \in Byte /\ \A q \in m .. n : \A h : IsSum(h, f, q) => h[m] = g[m]}
<1>1. 0 \in S
  <2>1. \A q \in Nat : \A h : IsSum(h, f, q) => h[0] = 0
    BY DEF IsSum
  <2> QED
    BY <2>1, ZeroIsByte
<1>2. ASSUME NEW m \in Nat, m \in S PROVE m + 1 \in S
  <2>. SUFFICES ASSUME m + 1 <= n
                PROVE  /\ g[m + 1] \in Byte
                       /\ \A q \in m + 1 .. n : \A h : IsSum(h, f, q) => h[m + 1] = g[m + 1]
    OBVIOUS
  <2>1. \A q \in m + 1 .. n : \A h : IsSum(h, f, q) => h[m + 1] = h[m] \oplus f[m]
    BY DEF IsSum
  <2>2. \A q \in m + 1 .. n : \A h : IsSum(h, f, q) => h[m] = g[m]
    BY <1>2
  <2>3. g[m] \in Byte /\ f[m] \in Byte
    BY <1>2 DEF Bytes
  <2>4. n \in m + 1 .. n
    OBVIOUS
  <2> QED
    BY <2>1, <2>2, <2>3, <2>4, XorType
<1>3. \A m \in Nat : m \in S
  <2>. HIDE DEF S
  <2> QED
    BY <1>1, <1>2, SetInduction
<1>4. ASSUME NEW m \in 0 .. n PROVE g[m] = XorSum(f, m)
  <2>1. m \in Nat /\ m \in m .. n /\ Bytes(f, m)
    BY DEF Bytes
  <2>2. PICK h : IsSum(h, f, m) /\ XorSum(f, m) = h[m]
    BY <2>1, SumChosen
  <2> QED
    BY <1>3, <2>1, <2>2
<1> QED
  BY <1>3, <1>4

LEMMA SumType ==
  ASSUME NEW n \in Nat, NEW f, Bytes(f, n)
  PROVE  XorSum(f, n) \in Byte
<1>1. PICK g \in [0 .. n -> Byte] : IsSum(g, f, n)
  BY SumExists
<1>2. n \in 0 .. n
  OBVIOUS
<1> QED
  BY <1>1, <1>2, SumsAgree

LEMMA SumNone == \A f : XorSum(f, 0) = 0
<1>. TAKE f
<1>1. Bytes(f, 0)
  BY DEF Bytes
<1>2. PICK g : IsSum(g, f, 0) /\ XorSum(f, 0) = g[0]
  BY <1>1, SumChosen
<1>3. g[0] = 0
  BY <1>2 DEF IsSum
<1> QED
  BY <1>2, <1>3

LEMMA SumNext ==
  ASSUME NEW n \in Nat, NEW f, Bytes(f, n + 1)
  PROVE  XorSum(f, n + 1) = XorSum(f, n) \oplus f[n]
<1>1. PICK g \in [0 .. n + 1 -> Byte] : IsSum(g, f, n + 1)
  BY SumExists
<1>2. g[n + 1] = g[n] \oplus f[n]
  BY <1>1 DEF IsSum
<1>3. g[n + 1] = XorSum(f, n + 1) /\ g[n] = XorSum(f, n)
  BY <1>1, SumsAgree
<1> QED
  BY <1>2, <1>3

\* Sums of bytes: equal ones, sums of sums and of multiples, and zeros.
LEMMA SumEqual ==
  ASSUME NEW n \in Nat, NEW f, NEW g, Bytes(f, n), \A i \in 0 .. n - 1 : f[i] = g[i]
  PROVE  XorSum(f, n) = XorSum(g, n)
<1>. DEFINE S == {m \in Nat : m <= n => XorSum(f, m) = XorSum(g, m)}
<1>1. 0 \in S
  BY SumNone
<1>2. ASSUME NEW m \in Nat, m \in S PROVE m + 1 \in S
  <2>. SUFFICES ASSUME m + 1 <= n PROVE XorSum(f, m + 1) = XorSum(g, m + 1)
    OBVIOUS
  <2>1. Bytes(f, m + 1) /\ Bytes(g, m + 1) /\ f[m] = g[m]
    BY DEF Bytes
  <2> QED
    BY <1>2, <2>1, SumNext
<1>3. \A m \in Nat : m \in S
  <2>. HIDE DEF S
  <2> QED
    BY <1>1, <1>2, SetInduction
<1> QED
  BY <1>3

\* Two sums may be added term by term,
LEMMA SumOfSums ==
  ASSUME NEW n \in Nat, NEW f, NEW g, NEW h, Bytes(f, n), Bytes(g, n),
         \A i \in 0 .. n - 1 : h[i] = f[i] \oplus g[i]
  PROVE  XorSum(h, n) = XorSum(f, n) \oplus XorSum(g, n)
<1>. DEFINE S == {m \in Nat : m <= n => XorSum(h, m) = XorSum(f, m) \oplus XorSum(g, m)}
<1>1. 0 \in S
  BY SumNone, ZeroIsByte, XorZero
<1>2. ASSUME NEW m \in Nat, m \in S PROVE m + 1 \in S
  <2>. SUFFICES ASSUME m + 1 <= n
                PROVE  XorSum(h, m + 1) = XorSum(f, m + 1) \oplus XorSum(g, m + 1)
    OBVIOUS
  <2>1. Bytes(f, m + 1) /\ Bytes(g, m + 1) /\ Bytes(f, m) /\ Bytes(g, m)
    BY DEF Bytes
  <2>2. f[m] \in Byte /\ g[m] \in Byte /\ h[m] = f[m] \oplus g[m]
    BY DEF Bytes
  <2>3. \A i \in 0 .. m : h[i] \in Byte
    BY XorType DEF Bytes
  <2>4. Bytes(h, m + 1)
    BY <2>3 DEF Bytes
  <2>5. XorSum(f, m) \in Byte /\ XorSum(g, m) \in Byte
    BY <2>1, SumType
  <2>6. XorSum(h, m + 1) = (XorSum(f, m) \oplus XorSum(g, m)) \oplus (f[m] \oplus g[m])
    BY <1>2, <2>2, <2>4, SumNext
  <2>7. XorSum(h, m + 1) = (XorSum(f, m) \oplus f[m]) \oplus (XorSum(g, m) \oplus g[m])
    BY <2>2, <2>5, <2>6, XorSwaps
  <2> QED
    BY <2>1, <2>7, SumNext
<1>3. \A m \in Nat : m \in S
  <2>. HIDE DEF S
  <2> QED
    BY <1>1, <1>2, SetInduction
<1> QED
  BY <1>3

\* and a common factor be taken out.
LEMMA SumOfMultiples ==
  ASSUME NEW n \in Nat, NEW f, NEW h, NEW c \in Byte, Bytes(f, n),
         \A i \in 0 .. n - 1 : h[i] = gmult(c, f[i])
  PROVE  XorSum(h, n) = gmult(c, XorSum(f, n))
<1>. DEFINE S == {m \in Nat : m <= n => XorSum(h, m) = gmult(c, XorSum(f, m))}
<1>1. 0 \in S
  BY SumNone, MultZero
<1>2. ASSUME NEW m \in Nat, m \in S PROVE m + 1 \in S
  <2>. SUFFICES ASSUME m + 1 <= n
                PROVE  XorSum(h, m + 1) = gmult(c, XorSum(f, m + 1))
    OBVIOUS
  <2>1. Bytes(f, m + 1) /\ Bytes(f, m)
    BY DEF Bytes
  <2>2. f[m] \in Byte /\ h[m] = gmult(c, f[m])
    BY DEF Bytes
  <2>3. \A i \in 0 .. m : h[i] \in Byte
    BY MultType DEF Bytes
  <2>4. Bytes(h, m + 1)
    BY <2>3 DEF Bytes
  <2>5. XorSum(f, m) \in Byte
    BY <2>1, SumType
  <2>6. XorSum(h, m + 1) = gmult(c, XorSum(f, m)) \oplus gmult(c, f[m])
    BY <1>2, <2>2, <2>4, SumNext
  <2>7. XorSum(h, m + 1) = gmult(c, XorSum(f, m) \oplus f[m])
    BY <2>2, <2>5, <2>6, MultDistributes
  <2> QED
    BY <2>1, <2>7, SumNext
<1>3. \A m \in Nat : m \in S
  <2>. HIDE DEF S
  <2> QED
    BY <1>1, <1>2, SetInduction
<1> QED
  BY <1>3

\* Zeros at the end of a sum change nothing.
LEMMA SumThenZeros ==
  ASSUME NEW n \in Nat, NEW k \in Nat, k <= n, NEW f, Bytes(f, k),
         \A i \in k .. n - 1 : f[i] = 0
  PROVE  XorSum(f, n) = XorSum(f, k)
<1>. DEFINE S == {m \in Nat : k + m <= n => XorSum(f, k + m) = XorSum(f, k)}
<1>1. 0 \in S
  OBVIOUS
<1>2. ASSUME NEW m \in Nat, m \in S PROVE m + 1 \in S
  <2>. SUFFICES ASSUME (k + m) + 1 <= n PROVE XorSum(f, (k + m) + 1) = XorSum(f, k)
    OBVIOUS
  <2>1. \A i \in 0 .. k + m : f[i] \in Byte
    BY ZeroIsByte DEF Bytes
  <2>2. Bytes(f, (k + m) + 1) /\ k + m \in Nat
    BY <2>1 DEF Bytes
  <2>3. XorSum(f, (k + m) + 1) = XorSum(f, k + m) \oplus f[k + m] /\ f[k + m] = 0
    BY <2>2, SumNext
  <2>4. XorSum(f, k + m) = XorSum(f, k) /\ XorSum(f, k) \in Byte
    BY <1>2, SumType
  <2> QED
    BY <2>3, <2>4, XorZero
<1>3. \A m \in Nat : m \in S
  <2>. HIDE DEF S
  <2> QED
    BY <1>1, <1>2, SetInduction
<1>4. n - k \in Nat /\ k + (n - k) = n
  OBVIOUS
<1> QED
  BY <1>3, <1>4

LEMMA SumOfZeros ==
  ASSUME NEW n \in Nat, NEW f, \A i \in 0 .. n - 1 : f[i] = 0
  PROVE  XorSum(f, n) = 0
<1>1. Bytes(f, 0)
  BY DEF Bytes
<1>2. XorSum(f, n) = XorSum(f, 0)
  BY <1>1, SumThenZeros
<1> QED
  BY <1>2, SumNone

\* The first byte taken out of a sum.
LEMMA SumFirst ==
  ASSUME NEW n \in Nat, NEW f, NEW h, Bytes(f, n + 1), \A i \in 0 .. n - 1 : h[i] = f[i + 1]
  PROVE  XorSum(f, n + 1) = f[0] \oplus XorSum(h, n)
<1>. DEFINE S == {m \in Nat : m <= n => XorSum(f, m + 1) = f[0] \oplus XorSum(h, m)}
<1>1. 0 \in S
  <2>1. Bytes(f, 1) /\ f[0] \in Byte /\ 0 + 1 = 1
    BY DEF Bytes
  <2>2. XorSum(f, 0 + 1) = XorSum(f, 0) \oplus f[0]
    BY <2>1, SumNext
  <2> QED
    BY <2>1, <2>2, SumNone, XorZero
<1>2. ASSUME NEW m \in Nat, m \in S PROVE m + 1 \in S
  <2>. SUFFICES ASSUME m + 1 <= n
                PROVE  XorSum(f, (m + 1) + 1) = f[0] \oplus XorSum(h, m + 1)
    OBVIOUS
  <2>1. Bytes(f, (m + 1) + 1) /\ Bytes(h, m + 1) /\ Bytes(h, m) /\ m + 1 \in Nat
    BY DEF Bytes
  <2>2. f[0] \in Byte /\ f[m + 1] \in Byte /\ h[m] = f[m + 1]
    BY DEF Bytes
  <2>3. XorSum(f, (m + 1) + 1) = (f[0] \oplus XorSum(h, m)) \oplus f[m + 1]
    BY <1>2, <2>1, SumNext
  <2>4. XorSum(h, m) \in Byte
    BY <2>1, SumType
  <2>5. XorSum(f, (m + 1) + 1) = f[0] \oplus (XorSum(h, m) \oplus f[m + 1])
    BY <2>2, <2>3, <2>4, XorAssociates
  <2> QED
    BY <2>1, <2>2, <2>5, SumNext
<1>3. \A m \in Nat : m \in S
  <2>. HIDE DEF S
  <2> QED
    BY <1>1, <1>2, SetInduction
<1> QED
  BY <1>3

\* A sum with one byte that is not 0.
LEMMA SumOfOne ==
  ASSUME NEW n \in Nat, NEW f, NEW j \in 0 .. n - 1, f[j] \in Byte,
         \A i \in 0 .. n - 1 : i # j => f[i] = 0
  PROVE  XorSum(f, n) = f[j]
<1>1. \A i \in 0 .. j : f[i] \in Byte
  BY ZeroIsByte
<1>2. j \in Nat /\ j + 1 <= n /\ Bytes(f, j + 1)
  BY <1>1 DEF Bytes
<1>3. XorSum(f, j) = 0
  BY <1>2, SumOfZeros
<1>4. XorSum(f, j + 1) = f[j]
  BY <1>2, <1>3, SumNext, XorZero
<1>5. XorSum(f, n) = XorSum(f, j + 1)
  BY <1>2, SumThenZeros
<1> QED
  BY <1>4, <1>5

-----------------------------------------------------------------------------
(* Values of polynomials. *)

\* Value: a polynomial with n coefficients at the power e of x.
Terms(p, n, e) == [j \in 0 .. n - 1 |-> gmult(p[j], gexp(e * j))]

LEMMA TermsType ==
  ASSUME NEW n \in Nat, NEW p, Bytes(p, n), NEW e \in Nat
  PROVE  /\ Bytes(Terms(p, n, e), n)
         /\ Value(p, n, e) = XorSum(Terms(p, n, e), n)
<1>1. \A j \in 0 .. n - 1 : e * j \in Nat
  OBVIOUS
<1>2. \A j \in 0 .. n - 1 : gmult(p[j], gexp(e * j)) \in Byte
  BY <1>1, ExpNotZero, MultType DEF Bytes
<1>3. Bytes(Terms(p, n, e), n)
  BY <1>2 DEF Bytes, Terms
<1> QED
  BY <1>3 DEF Value, Terms

LEMMA ValueType ==
  ASSUME NEW n \in Nat, NEW p, Bytes(p, n), NEW e \in Nat
  PROVE  Value(p, n, e) \in Byte
BY TermsType, SumType

LEMMA ValueEqual ==
  ASSUME NEW n \in Nat, NEW p, NEW q, Bytes(p, n), \A i \in 0 .. n - 1 : p[i] = q[i],
         NEW e \in Nat
  PROVE  Value(p, n, e) = Value(q, n, e)
<1>1. \A j \in 0 .. n - 1 : Terms(p, n, e)[j] = Terms(q, n, e)[j]
  BY DEF Terms
<1>2. Bytes(q, n)
  BY DEF Bytes
<1>3. /\ Value(p, n, e) = XorSum(Terms(p, n, e), n) /\ Value(q, n, e) = XorSum(Terms(q, n, e), n)
      /\ Bytes(Terms(p, n, e), n)
  BY <1>2, TermsType
<1>4. XorSum(Terms(p, n, e), n) = XorSum(Terms(q, n, e), n)
  BY <1>1, <1>3, SumEqual
<1> QED
  BY <1>3, <1>4

\* Values of polynomials add,
LEMMA ValueOfSum ==
  ASSUME NEW n \in Nat, NEW p, NEW q, NEW h, Bytes(p, n), Bytes(q, n),
         \A i \in 0 .. n - 1 : h[i] = p[i] \oplus q[i], NEW e \in Nat
  PROVE  Value(h, n, e) = Value(p, n, e) \oplus Value(q, n, e)
<1>1. Bytes(h, n)
  BY XorType DEF Bytes
<1>2. ASSUME NEW j \in 0 .. n - 1
      PROVE  Terms(h, n, e)[j] = Terms(p, n, e)[j] \oplus Terms(q, n, e)[j]
  <2>1. p[j] \in Byte /\ q[j] \in Byte /\ gexp(e * j) \in Byte
    <3>1. e * j \in Nat
      OBVIOUS
    <3> QED
      BY <3>1, ExpNotZero DEF Bytes
  <2>2. gmult(p[j] \oplus q[j], gexp(e * j)) = gmult(p[j], gexp(e * j)) \oplus gmult(q[j], gexp(e * j))
    BY <2>1, MultDistributes
  <2> QED
    BY <2>2 DEF Terms
<1>3. /\ Value(p, n, e) = XorSum(Terms(p, n, e), n) /\ Bytes(Terms(p, n, e), n)
      /\ Value(q, n, e) = XorSum(Terms(q, n, e), n) /\ Bytes(Terms(q, n, e), n)
      /\ Value(h, n, e) = XorSum(Terms(h, n, e), n)
  BY <1>1, TermsType
<1>4. XorSum(Terms(h, n, e), n) = XorSum(Terms(p, n, e), n) \oplus XorSum(Terms(q, n, e), n)
  BY <1>2, <1>3, SumOfSums
<1> QED
  BY <1>3, <1>4

\* and scale,
LEMMA ValueOfMultiple ==
  ASSUME NEW n \in Nat, NEW p, NEW h, NEW c \in Byte, Bytes(p, n),
         \A i \in 0 .. n - 1 : h[i] = gmult(c, p[i]), NEW e \in Nat
  PROVE  Value(h, n, e) = gmult(c, Value(p, n, e))
<1>1. Bytes(h, n)
  BY MultType DEF Bytes
<1>2. ASSUME NEW j \in 0 .. n - 1
      PROVE  Terms(h, n, e)[j] = gmult(c, Terms(p, n, e)[j])
  <2>1. p[j] \in Byte /\ gexp(e * j) \in Byte
    <3>1. e * j \in Nat
      OBVIOUS
    <3> QED
      BY <3>1, ExpNotZero DEF Bytes
  <2>2. gmult(gmult(c, p[j]), gexp(e * j)) = gmult(c, gmult(p[j], gexp(e * j)))
    BY <2>1, MultAssociates
  <2> QED
    BY <2>2 DEF Terms
<1>3. /\ Value(p, n, e) = XorSum(Terms(p, n, e), n) /\ Bytes(Terms(p, n, e), n)
      /\ Value(h, n, e) = XorSum(Terms(h, n, e), n)
  BY <1>1, TermsType
<1>4. XorSum(Terms(h, n, e), n) = gmult(c, XorSum(Terms(p, n, e), n))
  BY <1>2, <1>3, SumOfMultiples
<1> QED
  BY <1>3, <1>4

LEMMA ValueNone == \A p, e : Value(p, 0, e) = 0
BY SumNone DEF Value

LEMMA ValueNext ==
  ASSUME NEW n \in Nat, NEW p, Bytes(p, n + 1), NEW e \in Nat
  PROVE  Value(p, n + 1, e) = Value(p, n, e) \oplus gmult(p[n], gexp(e * n))
<1>1. Bytes(p, n) /\ n + 1 \in Nat
  BY DEF Bytes
<1>. DEFINE f == Terms(p, n + 1, e)
            g == Terms(p, n, e)
<1>2. Bytes(f, n + 1) /\ Value(p, n + 1, e) = XorSum(f, n + 1)
  BY <1>1, TermsType
<1>3. Bytes(g, n) /\ Value(p, n, e) = XorSum(g, n)
  BY <1>1, TermsType
<1>4. /\ \A j \in 0 .. n - 1 : g[j] = f[j]
      /\ f[n] = gmult(p[n], gexp(e * n))
  BY DEF Terms
<1>. HIDE DEF f, g
<1>5. XorSum(g, n) = XorSum(f, n)
  BY <1>3, <1>4, SumEqual
<1> QED
  BY <1>2, <1>3, <1>4, <1>5, SumNext

LEMMA ValueThenZeros ==
  ASSUME NEW n \in Nat, NEW k \in Nat, k <= n, NEW p, Bytes(p, k),
         \A i \in k .. n - 1 : p[i] = 0, NEW e \in Nat
  PROVE  Value(p, n, e) = Value(p, k, e) /\ Bytes(p, n)
<1>1. \A i \in 0 .. n - 1 : p[i] \in Byte
  BY ZeroIsByte DEF Bytes
<1>2. Bytes(p, n)
  BY <1>1 DEF Bytes
<1>. DEFINE f == Terms(p, n, e)
            g == Terms(p, k, e)
<1>3. Bytes(f, n) /\ Value(p, n, e) = XorSum(f, n)
  BY <1>2, TermsType
<1>4. Bytes(g, k) /\ Value(p, k, e) = XorSum(g, k)
  BY TermsType
<1>5. \A j \in 0 .. k - 1 : g[j] = f[j]
  BY DEF Terms
<1>6. \A j \in k .. n - 1 : f[j] = 0
  BY MultZero DEF Terms
<1>. HIDE DEF f, g
<1>7. XorSum(g, k) = XorSum(f, k) /\ Bytes(f, k)
  BY <1>4, <1>5, SumEqual DEF Bytes
<1> QED
  BY <1>2, <1>3, <1>4, <1>6, <1>7, SumThenZeros

\* A polynomial p with all coefficients moved up and b below them.
LEMMA ValueFirst ==
  ASSUME NEW n \in Nat, NEW p, NEW h, Bytes(p, n), NEW b \in Byte, h[0] = b,
         \A i \in 0 .. n - 1 : h[i + 1] = p[i], NEW e \in Nat
  PROVE  Value(h, n + 1, e) = b \oplus gmult(gexp(e), Value(p, n, e)) /\ Bytes(h, n + 1)
<1>1. ASSUME NEW i \in 0 .. n PROVE h[i] \in Byte
  <2>1. CASE i = 0
    BY <2>1
  <2>2. CASE i # 0
    <3>1. i - 1 \in 0 .. n - 1 /\ (i - 1) + 1 = i
      BY <2>2
    <3> QED
      BY <3>1 DEF Bytes
  <2> QED
    BY <2>1, <2>2
<1>2. Bytes(h, n + 1) /\ n + 1 \in Nat
  BY <1>1 DEF Bytes
<1>. DEFINE f == Terms(h, n + 1, e)
            g == Terms(p, n, e)
            u == [j \in 0 .. n - 1 |-> gmult(gexp(e), g[j])]
<1>3. Bytes(f, n + 1) /\ Value(h, n + 1, e) = XorSum(f, n + 1)
  BY <1>2, TermsType
<1>4. Bytes(g, n) /\ Value(p, n, e) = XorSum(g, n)
  BY TermsType
<1>5. f[0] = b
  <2>1. e * 0 = 0 /\ 0 \in 0 .. n /\ gexp(0) = 1
    BY ExpNext
  <2>2. f[0] = gmult(b, gexp(e * 0))
    BY <2>1 DEF Terms
  <2> QED
    BY <2>1, <2>2, MultOne
<1>6. ASSUME NEW j \in 0 .. n - 1 PROVE u[j] = f[j + 1]
  <2>1. e * j \in Nat /\ e * (j + 1) = e + e * j /\ e * (j + 1) \in Nat
    OBVIOUS
  <2>2. gexp(e * (j + 1)) = gmult(gexp(e), gexp(e * j))
    BY <2>1, MultExp
  <2>3. p[j] \in Byte /\ gexp(e) \in Byte /\ gexp(e * j) \in Byte
    BY <2>1, ExpNotZero DEF Bytes
  <2>4. gmult(p[j], gmult(gexp(e), gexp(e * j))) = gmult(gexp(e), gmult(p[j], gexp(e * j)))
    BY <2>3, MultAssociates, MultCommutes
  <2>5. f[j + 1] = gmult(p[j], gexp(e * (j + 1)))
    BY DEF Terms
  <2>6. u[j] = gmult(gexp(e), gmult(p[j], gexp(e * j)))
    BY DEF Terms
  <2> QED
    BY <2>2, <2>4, <2>5, <2>6
<1>7. \A j \in 0 .. n - 1 : u[j] = gmult(gexp(e), g[j])
  OBVIOUS
<1>. HIDE DEF f, g, u
<1>8. XorSum(f, n + 1) = f[0] \oplus XorSum(u, n)
  BY <1>3, <1>6, SumFirst
<1>9. XorSum(u, n) = gmult(gexp(e), XorSum(g, n))
  BY <1>4, <1>7, ExpNotZero, SumOfMultiples
<1> QED
  BY <1>2, <1>3, <1>4, <1>5, <1>8, <1>9

\* a shift by one degree multiplies by the point.
LEMMA ValueOfShift ==
  ASSUME NEW n \in Nat, NEW p, NEW h, Bytes(p, n), h[0] = 0,
         \A i \in 0 .. n - 1 : h[i + 1] = p[i], NEW e \in Nat
  PROVE  Value(h, n + 1, e) = gmult(gexp(e), Value(p, n, e)) /\ Bytes(h, n + 1)
<1>1. Value(h, n + 1, e) = 0 \oplus gmult(gexp(e), Value(p, n, e)) /\ Bytes(h, n + 1)
  BY ZeroIsByte, ValueFirst
<1>2. gmult(gexp(e), Value(p, n, e)) \in Byte
  BY ValueType, ExpNotZero, MultType
<1> QED
  BY <1>1, <1>2, XorZero

\* A polynomial in two parts: the first k coefficients, and those from k on.
IsTail(q, p, k, n) == \A i \in 0 .. n - 1 : q[i] = p[k + i]

\* Low and high coefficients may be evaluated apart.
LEMMA ValueSplit ==
  ASSUME NEW k \in Nat, NEW n \in Nat, NEW p, NEW q, NEW e \in Nat,
         Bytes(p, k + n), IsTail(q, p, k, n)
  PROVE  Value(p, k + n, e) = Value(p, k, e) \oplus gmult(gexp(e * k), Value(q, n, e))
<1>. DEFINE S == {m \in Nat : m <= n =>
         Value(p, k + m, e) = Value(p, k, e) \oplus gmult(gexp(e * k), Value(q, m, e))}
<1>1. e * k \in Nat /\ gexp(e * k) \in Byte
  <2>1. e * k \in Nat
    OBVIOUS
  <2> QED
    BY <2>1, ExpNotZero
<1>2. 0 \in S
  <2>1. Bytes(p, k) /\ k + 0 = k
    BY DEF Bytes
  <2> QED
    BY <2>1, ValueNone, MultZero, ValueType, XorZero
<1>3. ASSUME NEW m \in Nat, m \in S PROVE m + 1 \in S
  <2>. SUFFICES ASSUME m + 1 <= n
                PROVE  Value(p, (k + m) + 1, e)
                         = Value(p, k, e) \oplus gmult(gexp(e * k), Value(q, m + 1, e))
    OBVIOUS
  <2>. DEFINE v == Value(p, k, e)
              w == Value(q, m, e)
              x == gexp(e * k)
              y == gexp(e * m)
              b == p[k + m]
  <2>1. Bytes(p, (k + m) + 1) /\ Bytes(q, m + 1) /\ Bytes(q, m) /\ Bytes(p, k) /\ b \in Byte
        /\ k + m \in Nat /\ q[m] = b
    BY DEF Bytes, IsTail
  <2>2. v \in Byte /\ w \in Byte
    BY <2>1, ValueType
  <2>3. e * m \in Nat /\ e * (k + m) = e * k + e * m
    OBVIOUS
  <2>4. y \in Byte /\ gexp(e * (k + m)) = gmult(x, y)
    BY <1>1, <2>3, ExpNotZero, MultExp
  <2>5. Value(p, (k + m) + 1, e) = Value(p, k + m, e) \oplus gmult(b, gexp(e * (k + m)))
    BY <2>1, ValueNext
  <2>6. Value(q, m + 1, e) = w \oplus gmult(b, y)
    BY <2>1, ValueNext
  <2>7. Value(p, k + m, e) = v \oplus gmult(x, w)
    BY <1>3
  <2>8. x \in Byte
    BY <1>1
  <2>. HIDE DEF v, w, x, y, b
  <2>9. gmult(b, gmult(x, y)) = gmult(x, gmult(b, y))
    BY <2>1, <2>4, <2>8, MultAssociates, MultCommutes
  <2>10. gmult(b, y) \in Byte /\ gmult(x, w) \in Byte /\ gmult(x, gmult(b, y)) \in Byte
    BY <2>1, <2>2, <2>4, <2>8, MultType
  <2>11. gmult(x, w \oplus gmult(b, y)) = gmult(x, w) \oplus gmult(x, gmult(b, y))
    BY <2>2, <2>8, <2>10, MultDistributes
  <2>12. (v \oplus gmult(x, w)) \oplus gmult(x, gmult(b, y))
           = v \oplus (gmult(x, w) \oplus gmult(x, gmult(b, y)))
    BY <2>2, <2>10, XorAssociates
  <2> QED
    BY <2>4, <2>5, <2>6, <2>7, <2>9, <2>11, <2>12 DEF v, x
<1>4. \A m \in Nat : m \in S
  <2>. HIDE DEF S
  <2> QED
    BY <1>2, <1>3, SetInduction
<1> QED
  BY <1>4

-----------------------------------------------------------------------------
(* compute_genpoly. *)

\* compute_genpoly: x + a^i for i = 1 .. npar, multiplied one after the other.
Polys(npar) == [Degrees(npar) -> Byte]
Root(i, npar) == [j \in Degrees(npar) |-> IF j = 0 THEN gexp(i) ELSE IF j = 1 THEN 1 ELSE 0]
Cut(p, npar) == [j \in Degrees(npar) |-> p[j]]

LEMMA PolyBytes ==
  ASSUME NEW npar \in Nat \ {0}, NEW p \in Polys(npar)
  PROVE  /\ Bytes(p, 2 * npar) /\ \A j \in 0 .. 2 * npar - 1 : p[j] \in Byte
         /\ \A j \in Nat : j <= 2 * npar => Bytes(p, j)
BY DEF Polys, Degrees, maxdeg, Bytes

LEMMA DegreesSize ==
  ASSUME NEW npar \in Nat \ {0}
  PROVE  Degrees(npar) = 0 .. 2 * npar - 1 /\ Cardinality(Degrees(npar)) = 2 * npar
<1>1. Degrees(npar) = 0 .. 2 * npar - 1
  BY DEF Degrees, maxdeg
<1>2. 0 \in Int /\ 2 * npar - 1 \in Int /\ 0 <= 2 * npar - 1 /\ ((2 * npar - 1) - 0) + 1 = 2 * npar
  OBVIOUS
<1>3. Cardinality(0 .. 2 * npar - 1) = ((2 * npar - 1) - 0) + 1
  BY <1>2, IntervalSize
<1> QED
  BY <1>1, <1>2, <1>3

\* A product with x + a^i needs two summands only.
LEMMA RootTimes ==
  ASSUME NEW npar \in Nat \ {0}, NEW i \in Nat, NEW q \in Polys(npar), NEW m \in 0 .. 2 * npar - 1
  PROVE  mult_polys(Root(i, npar), q)[m]
           = gmult(gexp(i), q[m]) \oplus (IF m = 0 THEN 0 ELSE q[m - 1])
<1>. DEFINE p == Root(i, npar)
            f == [j \in 0 .. 2 * npar - 1 |-> gmult(p[j], Coefficient(q, m - j))]
<1>1. DOMAIN p = 0 .. 2 * npar - 1 /\ Cardinality(DOMAIN p) = 2 * npar
  BY DegreesSize DEF Root
<1>2. mult_polys(p, q)[m] = XorSum(f, 2 * npar)
  <2>1. m \in 0 .. 2 * (2 * npar) - 1
    OBVIOUS
  <2> QED
    BY <1>1, <2>1 DEF mult_polys
<1>3. /\ f[0] = gmult(gexp(i), q[m])
      /\ f[1] = gmult(1, IF m = 0 THEN 0 ELSE q[m - 1])
      /\ \A j \in 2 .. 2 * npar - 1 : f[j] = 0
  <2>1. DOMAIN q = 0 .. 2 * npar - 1
    BY DegreesSize DEF Polys
  <2>2. p[0] = gexp(i) /\ p[1] = 1 /\ \A j \in 2 .. 2 * npar - 1 : p[j] = 0
    <3>1. 0 \in 0 .. 2 * npar - 1 /\ 1 \in 0 .. 2 * npar - 1
          /\ \A j \in 2 .. 2 * npar - 1 : j \in 0 .. 2 * npar - 1 /\ j # 0 /\ j # 1
      OBVIOUS
    <3>2. \A j \in 0 .. 2 * npar - 1 : p[j] = IF j = 0 THEN gexp(i) ELSE IF j = 1 THEN 1 ELSE 0
      BY DegreesSize DEF Root
    <3>. HIDE DEF p
    <3> QED
      BY <3>1, <3>2
  <2>3. Coefficient(q, m - 0) = q[m] /\ Coefficient(q, m - 1) = IF m = 0 THEN 0 ELSE q[m - 1]
    BY <2>1 DEF Coefficient
  <2>. HIDE DEF p
  <2>4. /\ f[0] = gmult(p[0], Coefficient(q, m - 0)) /\ f[1] = gmult(p[1], Coefficient(q, m - 1))
        /\ \A j \in 2 .. 2 * npar - 1 : f[j] = gmult(p[j], Coefficient(q, m - j))
    OBVIOUS
  <2> QED
    BY <2>2, <2>3, <2>4, MultZero
<1>. HIDE DEF f
<1>4. q[m] \in Byte /\ (m # 0 => q[m - 1] \in Byte)
  BY PolyBytes
<1>. DEFINE r == IF m = 0 THEN 0 ELSE q[m - 1]
<1>5. r \in Byte
  BY <1>4, ZeroIsByte
<1>6. f[0] = gmult(gexp(i), q[m]) /\ f[1] = gmult(1, r)
  BY <1>3
<1>. HIDE DEF r
<1>7. f[0] \in Byte /\ f[1] = r /\ f[1] \in Byte
  BY <1>4, <1>5, <1>6, ExpNotZero, MultType, MultOne
<1>8. Bytes(f, 2) /\ Bytes(f, 1)
  BY <1>7 DEF Bytes
<1>9. XorSum(f, 2 * npar) = XorSum(f, 2)
  <2>1. 2 \in Nat /\ 2 * npar \in Nat /\ 2 <= 2 * npar
    OBVIOUS
  <2> QED
    BY <1>3, <1>8, <2>1, SumThenZeros
<1>10. XorSum(f, 2) = f[0] \oplus f[1]
  <2>1. 0 + 1 = 1 /\ 1 + 1 = 2 /\ 1 \in Nat /\ 0 \in Nat
    OBVIOUS
  <2>2. XorSum(f, 1) = XorSum(f, 0) \oplus f[0]
    BY <1>8, <2>1, SumNext
  <2>3. XorSum(f, 1) = f[0]
    BY <2>2, <1>7, SumNone, XorZero
  <2>4. XorSum(f, 2) = XorSum(f, 1) \oplus f[1]
    BY <1>8, <2>1, SumNext
  <2> QED
    BY <2>3, <2>4
<1> QED
  BY <1>2, <1>6, <1>7, <1>9, <1>10 DEF r

LEMMA RootTimesType ==
  ASSUME NEW npar \in Nat \ {0}, NEW i \in Nat, NEW q \in Polys(npar)
  PROVE  Cut(mult_polys(Root(i, npar), q), npar) \in Polys(npar)
<1>1. ASSUME NEW m \in 0 .. 2 * npar - 1 PROVE mult_polys(Root(i, npar), q)[m] \in Byte
  <2>1. q[m] \in Byte /\ (m # 0 => q[m - 1] \in Byte) /\ 0 \in Byte
    BY PolyBytes, ZeroIsByte
  <2>2. gmult(gexp(i), q[m]) \in Byte
    BY <2>1, ExpNotZero, MultType
  <2> QED
    BY <2>1, <2>2, RootTimes, XorType
<1> QED
  BY <1>1, DegreesSize DEF Cut, Polys

LEMMA ConstantType ==
  ASSUME NEW npar \in Nat \ {0}
  PROVE  Constant(1, npar) \in Polys(npar)
BY ZeroIsByte DEF Constant, Polys

IsProduct(g, npar) ==
    g = [i \in 0 .. npar |-> IF i = 0 THEN Constant(1, npar)
                             ELSE Cut(mult_polys(Root(i, npar), g[i - 1]), npar)]

\* compute_genpoly multiplies x + a^i one after the other,
LEMMA ProductExists ==
  ASSUME NEW npar \in Nat \ {0}
  PROVE  \E g : IsProduct(g, npar)
<1>. DEFINE D == [p \in Nat \X Polys(npar) |-> Cut(mult_polys(Root(p[1], npar), p[2]), npar)]
            c == Constant(1, npar)
            V == Polys(npar)
<1>1. D \in [Nat \X V -> V]
  <2>1. ASSUME NEW p \in Nat \X V PROVE Cut(mult_polys(Root(p[1], npar), p[2]), npar) \in V
    BY RootTimesType
  <2> QED
    BY <2>1
<1>2. \A i \in Nat, q \in V : D[<<i, q>>] = Cut(mult_polys(Root(i, npar), q), npar)
  OBVIOUS
<1>3. c \in V
  BY ConstantType
<1>. HIDE DEF D, c, V
<1>4. Iterates(D, c, V, npar)
  BY <1>1, <1>3, FiniteRecursion
<1>5. PICK g \in [0 .. npar -> V] :
        \A i \in 0 .. npar : g[i] = IF i = 0 THEN c ELSE D[<<i, g[i - 1]>>]
  BY <1>4 DEF Iterates
<1>6. ASSUME NEW i \in 0 .. npar
      PROVE  g[i] = IF i = 0 THEN c ELSE Cut(mult_polys(Root(i, npar), g[i - 1]), npar)
  <2>1. i \in Nat /\ (i # 0 => g[i - 1] \in V)
    OBVIOUS
  <2> QED
    BY <1>2, <1>5, <2>1
<1>7. g = [i \in 0 .. npar |-> g[i]]
  OBVIOUS
<1> QED
  BY <1>6, <1>7 DEF IsProduct, c

\* The products g, the last of which is the generator polynomial.
Products(g, npar) ==
    /\ compute_genpoly(npar) = g[npar]
    /\ g[0] = Constant(1, npar)
    /\ \A i \in 0 .. npar : g[i] \in Polys(npar)
    /\ \A i \in 1 .. npar, m \in 0 .. 2 * npar - 1 :
         g[i][m] = gmult(gexp(i), g[i - 1][m]) \oplus (IF m = 0 THEN 0 ELSE g[i - 1][m - 1])

\* and they are what compute_genpoly takes.
LEMMA GenpolyProducts ==
  ASSUME NEW npar \in Nat \ {0}
  PROVE  \E g : Products(g, npar)
<1>. DEFINE P(g) == g = [i \in 0 .. npar |-> IF i = 0 THEN Constant(1, npar)
                          ELSE LET p == mult_polys(Root(i, npar), g[i - 1])
                               IN  [j \in Degrees(npar) |-> p[j]]]
            g == CHOOSE h : P(h)
<1>1. compute_genpoly(npar) = g[npar]
  BY DEF compute_genpoly, Root
<1>2. IsProduct(g, npar)
  <2>1. \E h : P(h)
    BY ProductExists DEF IsProduct, Cut
  <2>2. P(g)
    BY <2>1, Zenon
  <2> QED
    BY <2>2 DEF IsProduct, Cut
<1>. HIDE DEF g
<1>3. /\ g[0] = Constant(1, npar)
      /\ \A i \in 1 .. npar : g[i] = Cut(mult_polys(Root(i, npar), g[i - 1]), npar)
  BY <1>2 DEF IsProduct
<1>4. \A i \in 0 .. npar : g[i] \in Polys(npar)
  <2>1. g[0] \in Polys(npar)
    BY <1>3, ConstantType
  <2>2. \A i \in 1 .. npar : g[i - 1] \in Polys(npar) => g[i] \in Polys(npar)
    BY <1>3, RootTimesType
  <2> QED
    BY <2>1, <2>2, Invariantly
<1>5. ASSUME NEW i \in 1 .. npar, NEW m \in 0 .. 2 * npar - 1
      PROVE  g[i][m] = gmult(gexp(i), g[i - 1][m]) \oplus (IF m = 0 THEN 0 ELSE g[i - 1][m - 1])
  <2>1. g[i - 1] \in Polys(npar) /\ i \in Nat
    BY <1>4
  <2>2. g[i][m] = mult_polys(Root(i, npar), g[i - 1])[m]
    BY <1>3, DegreesSize DEF Cut
  <2> QED
    BY <2>1, <2>2, RootTimes
<1> QED
  BY <1>1, <1>3, <1>4, <1>5 DEF Products

\* The i-th product has degree i, leads with 1 and is 0 at x, ..., x^i.
LEMMA ProductDegree ==
  ASSUME NEW npar \in Nat \ {0}, NEW g, Products(g, npar)
  PROVE  \A i \in 0 .. npar : g[i][i] = 1 /\ \A m \in i + 1 .. 2 * npar - 1 : g[i][m] = 0
<1>. DEFINE S == {i \in Nat : i <= npar =>
                    g[i][i] = 1 /\ \A m \in i + 1 .. 2 * npar - 1 : g[i][m] = 0}
<1>1. 0 \in S
  <2>1. \A m \in 0 .. 2 * npar - 1 : g[0][m] = IF m = 0 THEN 1 ELSE 0
    BY DegreesSize DEF Products, Constant
  <2>2. 0 \in 0 .. 2 * npar - 1 /\ \A m \in 0 + 1 .. 2 * npar - 1 : m \in 0 .. 2 * npar - 1 /\ m # 0
    OBVIOUS
  <2> QED
    BY <2>1, <2>2
<1>2. ASSUME NEW i \in Nat, i \in S PROVE i + 1 \in S
  <2>. SUFFICES ASSUME i + 1 <= npar
                PROVE  /\ g[i + 1][i + 1] = 1
                       /\ \A m \in (i + 1) + 1 .. 2 * npar - 1 : g[i + 1][m] = 0
    OBVIOUS
  <2>1. g[i][i] = 1 /\ \A m \in i + 1 .. 2 * npar - 1 : g[i][m] = 0
    BY <1>2
  <2>2. \A m \in i + 1 .. 2 * npar - 1 :
          g[i + 1][m] = gmult(gexp(i + 1), g[i][m]) \oplus g[i][m - 1]
    <3>1. (i + 1) - 1 = i /\ i + 1 \in 1 .. npar
          /\ \A m \in i + 1 .. 2 * npar - 1 : m \in 0 .. 2 * npar - 1 /\ m # 0
      OBVIOUS
    <3> QED
      BY <3>1 DEF Products
  <2>3. ASSUME NEW m \in i + 1 .. 2 * npar - 1 PROVE g[i + 1][m] = g[i][m - 1]
    <3>1. g[i][m] = 0 /\ g[i][m - 1] \in {0, 1}
      <4>1. m - 1 = i \/ m - 1 \in i + 1 .. 2 * npar - 1
        OBVIOUS
      <4> QED
        BY <4>1, <2>1
    <3> QED
      BY <2>2, <3>1, MultZero, XorZero, ZeroIsByte
  <2>4. i + 1 \in i + 1 .. 2 * npar - 1 /\ (i + 1) - 1 = i
    OBVIOUS
  <2>5. \A m \in (i + 1) + 1 .. 2 * npar - 1 : m \in i + 1 .. 2 * npar - 1 /\ m - 1 \in i + 1 .. 2 * npar - 1
    OBVIOUS
  <2> QED
    BY <2>1, <2>3, <2>4, <2>5
<1>3. \A i \in Nat : i \in S
  <2>. HIDE DEF S
  <2> QED
    BY <1>1, <1>2, SetInduction
<1> QED
  BY <1>3

\* The value of a product with x + a^i.
LEMMA ProductValue ==
  ASSUME NEW npar \in Nat \ {0}, NEW g, Products(g, npar), NEW i \in 1 .. npar, NEW e \in Nat
  PROVE  Value(g[i], 2 * npar, e)
           = gmult(gexp(i) \oplus gexp(e), Value(g[i - 1], 2 * npar, e))
<1>. DEFINE N == 2 * npar
            p == g[i - 1]
            u == [m \in 0 .. N - 1 |-> gmult(gexp(i), p[m])]
            s == [m \in 0 .. N - 1 |-> IF m = 0 THEN 0 ELSE p[m - 1]]
            v == Value(p, N, e)
<1>1. p \in Polys(npar) /\ g[i] \in Polys(npar) /\ i - 1 \in 0 .. npar /\ N \in Nat
  BY DEF Products
<1>2. Bytes(p, N) /\ Bytes(p, N - 1) /\ N - 1 \in Nat
  BY <1>1, PolyBytes
<1>3. \A m \in 0 .. N - 1 : g[i][m] = u[m] \oplus s[m]
  BY DEF Products
<1>4. s[0] = 0 /\ \A m \in 0 .. (N - 1) - 1 : s[m + 1] = p[m]
  OBVIOUS
<1>5. \A m \in 0 .. N - 1 : u[m] = gmult(gexp(i), p[m])
  OBVIOUS
<1>6. p[N - 1] = 0
  <2>1. N - 1 \in (i - 1) + 1 .. 2 * npar - 1
    OBVIOUS
  <2> QED
    BY <1>1, <2>1, ProductDegree
<1>7. gexp(i) \in Byte /\ gexp(e) \in Byte
  BY ExpNotZero
<1>8. Bytes(u, N)
  BY <1>2, <1>5, <1>7, MultType DEF Bytes
<1>9. v \in Byte
  BY <1>1, <1>2, ValueType
<1>. HIDE DEF u, s, p, v, N
<1>10. Value(u, N, e) = gmult(gexp(i), v)
  BY <1>1, <1>2, <1>5, <1>7, ValueOfMultiple DEF v
<1>11. Value(p, N - 1, e) = v
  <2>1. \A m \in N - 1 .. N - 1 : p[m] = 0
    BY <1>1, <1>6
  <2>2. N - 1 <= N
    BY <1>1
  <2> QED
    BY <1>1, <1>2, <2>1, <2>2, ValueThenZeros DEF v
<1>12. Value(s, N, e) = gmult(gexp(e), v) /\ Bytes(s, N)
  <2>1. (N - 1) + 1 = N
    BY <1>1
  <2>2. Value(s, (N - 1) + 1, e) = gmult(gexp(e), Value(p, N - 1, e)) /\ Bytes(s, (N - 1) + 1)
    BY <1>2, <1>4, ValueOfShift
  <2> QED
    BY <1>11, <2>1, <2>2
<1>13. Value(g[i], N, e) = gmult(gexp(i), v) \oplus gmult(gexp(e), v)
  <2>. DEFINE h == g[i]
  <2>1. \A m \in 0 .. N - 1 : h[m] = u[m] \oplus s[m]
    BY <1>3
  <2>. HIDE DEF h
  <2>2. Value(h, N, e) = Value(u, N, e) \oplus Value(s, N, e)
    BY <1>1, <1>8, <1>12, <2>1, ValueOfSum
  <2> QED
    BY <1>10, <1>12, <2>2 DEF h
<1> QED
  BY <1>7, <1>9, <1>13, MultDistributes DEF v, N, p

\* After i factors the product is 0 at the first i powers,
LEMMA ProductRoots ==
  ASSUME NEW npar \in Nat \ {0}, NEW g, Products(g, npar)
  PROVE  \A i \in 0 .. npar : \A e \in 1 .. i : Value(g[i], 2 * npar, e) = 0
<1>. DEFINE S == {i \in Nat : i <= npar => \A e \in 1 .. i : Value(g[i], 2 * npar, e) = 0}
<1>1. 0 \in S
  OBVIOUS
<1>2. ASSUME NEW i \in Nat, i \in S PROVE i + 1 \in S
  <2>. SUFFICES ASSUME i + 1 <= npar, NEW e \in 1 .. i + 1
                PROVE  Value(g[i + 1], 2 * npar, e) = 0
    OBVIOUS
  <2>1. i + 1 \in 1 .. npar /\ (i + 1) - 1 = i /\ e \in Nat /\ i \in 0 .. npar /\ 2 * npar \in Nat
    OBVIOUS
  <2>. DEFINE v == Value(g[i], 2 * npar, e)
  <2>2. v \in Byte
    <3>1. g[i] \in Polys(npar)
      BY <2>1 DEF Products
    <3> QED
      BY <2>1, <3>1, PolyBytes, ValueType
  <2>3. Value(g[i + 1], 2 * npar, e) = gmult(gexp(i + 1) \oplus gexp(e), v)
    BY <2>1, ProductValue
  <2>4. CASE e = i + 1
    <3>1. gexp(i + 1) \oplus gexp(e) = 0
      BY <2>1, <2>4, ExpNotZero, XorZero
    <3> QED
      BY <2>3, <3>1, MultZero
  <2>5. CASE e # i + 1
    <3>1. v = 0
      BY <1>2, <2>5
    <3> QED
      BY <2>3, <3>1, MultZero
  <2> QED
    BY <2>4, <2>5
<1>3. \A i \in Nat : i \in S
  <2>. HIDE DEF S
  <2> QED
    BY <1>1, <1>2, SetInduction
<1> QED
  BY <1>3

\* What the encoder needs of the generator polynomial: at its roots the powers
\* below npar add up to the leading one.
LEMMA GenpolyType ==
  ASSUME NEW npar \in Nat \ {0}
  PROVE  compute_genpoly(npar) \in Polys(npar)
<1>1. PICK g : Products(g, npar)
  BY GenpolyProducts
<1> QED
  BY <1>1 DEF Products

\* so the generator polynomial is 0 at the first npar powers of x.
LEMMA GenpolyRoots ==
  ASSUME NEW npar \in Nat \ {0}, NEW e \in 1 .. npar
  PROVE  Value(compute_genpoly(npar), npar, e) = gexp(e * npar)
<1>1. PICK g : Products(g, npar)
  BY GenpolyProducts
<1>. DEFINE p == g[npar]
<1>2. p \in Polys(npar) /\ p = compute_genpoly(npar)
  BY <1>1 DEF Products
<1>3. p[npar] = 1 /\ \A m \in npar + 1 .. 2 * npar - 1 : p[m] = 0
  BY <1>1, ProductDegree
<1>4. Value(p, 2 * npar, e) = 0
  BY <1>1, ProductRoots
<1>. HIDE DEF p
<1>5. npar + 1 \in Nat /\ npar + 1 <= 2 * npar /\ 2 * npar \in Nat /\ e \in Nat /\ e * npar \in Nat
  OBVIOUS
<1>6. Bytes(p, npar + 1) /\ Bytes(p, npar)
  BY <1>2, <1>5, PolyBytes
<1>7. Value(p, npar + 1, e) = 0
  BY <1>3, <1>4, <1>5, <1>6, ValueThenZeros
<1>8. Value(p, npar + 1, e) = Value(p, npar, e) \oplus gmult(1, gexp(e * npar))
  BY <1>3, <1>5, <1>6, ValueNext
<1>9. Value(p, npar, e) \in Byte /\ gexp(e * npar) \in Byte
  BY <1>5, <1>6, ValueType, ExpNotZero
<1>10. gmult(1, gexp(e * npar)) = gexp(e * npar)
  BY <1>9, MultOne
<1> QED
  BY <1>2, <1>7, <1>8, <1>9, <1>10, XorCancels

-----------------------------------------------------------------------------
(* The shift register of the encoder. *)

\* encode_data: the shift register after each byte of the message.
Registers(npar) == [0 .. npar - 1 -> Byte]

LEMMA ShiftType ==
  ASSUME NEW npar \in Nat \ {0}, NEW l \in Registers(npar), NEW b \in Byte,
         NEW G \in Polys(npar)
  PROVE  Shift(l, b, G, npar) \in Registers(npar)
<1>. DEFINE d == b \oplus l[npar - 1]
<1>1. d \in Byte
  BY XorType DEF Registers
<1>. HIDE DEF d
<1>2. ASSUME NEW j \in 0 .. npar - 1
      PROVE  gmult(G[j], d) \oplus (IF j = 0 THEN 0 ELSE l[j - 1]) \in Byte
  <2>1. G[j] \in Byte /\ (j # 0 => l[j - 1] \in Byte) /\ 0 \in Byte
    BY PolyBytes, ZeroIsByte DEF Registers
  <2> QED
    BY <1>1, <2>1, MultType, XorType
<1> QED
  BY <1>2 DEF Shift, Registers, d

\* A byte shifted in, seen at a root of the generator polynomial.
LEMMA ShiftValue ==
  ASSUME NEW npar \in Nat \ {0}, NEW l \in Registers(npar), NEW b \in Byte, NEW e \in 1 .. npar
  PROVE  Value(Shift(l, b, compute_genpoly(npar), npar), npar, e)
           = gmult(gexp(e * npar), b) \oplus gmult(gexp(e), Value(l, npar, e))
<1>. DEFINE G == compute_genpoly(npar)
            t == l[npar - 1]
            d == b \oplus t
            h == Shift(l, b, G, npar)
            u == [j \in 0 .. npar - 1 |-> gmult(d, G[j])]
            s == [j \in 0 .. npar - 1 |-> IF j = 0 THEN 0 ELSE l[j - 1]]
            x == gexp(e)
            X == gexp(e * npar)
            v == Value(l, npar - 1, e)
<1>1. G \in Polys(npar) /\ Bytes(G, npar) /\ \A j \in 0 .. npar - 1 : G[j] \in Byte
  BY GenpolyType, PolyBytes
<1>2. Bytes(l, npar) /\ Bytes(l, npar - 1) /\ t \in Byte /\ npar - 1 \in Nat /\ (npar - 1) + 1 = npar
  BY DEF Registers, Bytes
<1>3. d \in Byte /\ e \in Nat /\ npar \in Nat
  BY <1>2, XorType
<1>4. x \in Byte /\ X \in Byte
  <2>1. e * npar \in Nat /\ e \in Nat
    OBVIOUS
  <2> QED
    BY <2>1, ExpNotZero
<1>5. \A j \in 0 .. npar - 1 : h[j] = u[j] \oplus s[j]
  <2>1. \A j \in 0 .. npar - 1 : gmult(G[j], d) = gmult(d, G[j])
    BY <1>1, <1>3, MultCommutes
  <2>2. \A j \in 0 .. npar - 1 : h[j] = gmult(G[j], d) \oplus (IF j = 0 THEN 0 ELSE l[j - 1])
    BY DEF Shift
  <2>. HIDE DEF h, d, G
  <2> QED
    BY <2>1, <2>2
<1>6. Value(u, npar, e) = gmult(d, X) /\ Bytes(u, npar)
  <2>1. \A j \in 0 .. npar - 1 : u[j] = gmult(d, G[j])
    OBVIOUS
  <2>2. Value(G, npar, e) = X
    BY GenpolyRoots
  <2>. HIDE DEF u, G, X, d
  <2>3. Bytes(u, npar)
    BY <1>1, <1>3, <2>1, MultType DEF Bytes
  <2> QED
    BY <1>1, <1>3, <2>1, <2>2, <2>3, ValueOfMultiple
<1>7. Value(s, npar, e) = gmult(x, v) /\ Bytes(s, npar)
  <2>1. s[0] = 0 /\ \A i \in 0 .. (npar - 1) - 1 : s[i + 1] = l[i]
    OBVIOUS
  <2>. HIDE DEF s
  <2>2. Value(s, (npar - 1) + 1, e) = gmult(gexp(e), v) /\ Bytes(s, (npar - 1) + 1)
    BY <1>2, <1>3, <2>1, ValueOfShift
  <2> QED
    BY <1>2, <2>2
<1>8. Value(l, npar, e) = v \oplus gmult(t, gexp(e * (npar - 1)))
  <2>1. Value(l, (npar - 1) + 1, e) = v \oplus gmult(t, gexp(e * (npar - 1)))
    <3>1. Bytes(l, (npar - 1) + 1)
      BY <1>2
    <3> QED
      BY <1>2, <1>3, <3>1, ValueNext
  <2> QED
    BY <1>2, <2>1
<1>. DEFINE y == gexp(e * (npar - 1))
<1>9. gmult(x, y) = X /\ y \in Byte
  <2>1. e * (npar - 1) \in Nat /\ e + e * (npar - 1) = e * npar
    OBVIOUS
  <2> QED
    BY <1>3, <2>1, MultExp, ExpNotZero
<1>10. v \in Byte
  BY <1>2, <1>3, ValueType
<1>11. Value(h, npar, e) = gmult(d, X) \oplus gmult(x, v)
  <2>. HIDE DEF h, u, s
  <2> QED
    BY <1>3, <1>5, <1>6, <1>7, ValueOfSum
<1>12. Value(l, npar, e) = v \oplus gmult(t, y)
  BY <1>8
<1>13. d = b \oplus t
  OBVIOUS
<1>. HIDE DEF G, t, d, h, u, s, x, X, v, y
<1>14. gmult(x, v \oplus gmult(t, y)) = gmult(x, v) \oplus gmult(t, X)
  <2>1. gmult(t, y) \in Byte
    BY <1>2, <1>9, MultType
  <2>2. gmult(x, gmult(t, y)) = gmult(t, gmult(x, y))
    BY <1>2, <1>4, <1>9, MultAssociates, MultCommutes
  <2> QED
    BY <1>4, <1>9, <1>10, <2>1, <2>2, MultDistributes
<1>15. gmult(d, X) = gmult(X, b) \oplus gmult(t, X)
  BY <1>2, <1>4, <1>13, MultDistributes, MultCommutes
<1>. DEFINE p == gmult(X, b)
            q == gmult(t, X)
            r == gmult(x, v)
<1>16. p \in Byte /\ q \in Byte /\ r \in Byte
  BY <1>2, <1>4, <1>10, MultType
<1>17. (p \oplus q) \oplus r = p \oplus (r \oplus q)
  <2>. HIDE DEF p, q, r
  <2> QED
    BY <1>16, XorAssociates, XorCommutes
<1> QED
  BY <1>11, <1>12, <1>14, <1>15, <1>17 DEF h, G, X, x

Encoding(g, msg, k, npar) ==
    /\ \A i \in 0 .. k : g[i] \in Registers(npar)
    /\ g[0] = [j \in 0 .. npar - 1 |-> 0]
    /\ \A i \in 1 .. k : g[i] = Shift(g[i - 1], msg[i - 1], compute_genpoly(npar), npar)
    /\ encode_data(msg, k, compute_genpoly(npar), npar)
         = [i \in 0 .. k + npar - 1 |-> IF i < k THEN msg[i] ELSE g[k][npar - 1 - (i - k)]]

LEMMA ZeroRegisters ==
  ASSUME NEW npar \in Nat \ {0}
  PROVE  [j \in 0 .. npar - 1 |-> 0] \in Registers(npar)
BY ZeroIsByte DEF Registers

\* The registers of encode_data, round by round.
LEMMA EncodeRegisters ==
  ASSUME NEW npar \in Nat \ {0}, NEW k \in Nat, NEW msg, Bytes(msg, k)
  PROVE  \E g : Encoding(g, msg, k, npar)
<1>. DEFINE G == compute_genpoly(npar)
            V == Registers(npar)
            c == [j \in 0 .. npar - 1 |-> 0]
            P(g) == g = [i \in 0 .. k |-> IF i = 0 THEN c ELSE Shift(g[i - 1], msg[i - 1], G, npar)]
            h == CHOOSE g : P(g)
            D == [p \in Nat \X V |-> IF p[1] \in 1 .. k THEN Shift(p[2], msg[p[1] - 1], G, npar) ELSE c]
<1>1. encode_data(msg, k, G, npar)
        = [i \in 0 .. k + npar - 1 |-> IF i < k THEN msg[i] ELSE h[k][npar - 1 - (i - k)]]
  BY DEF encode_data
<1>2. c \in V /\ G \in Polys(npar)
  BY ZeroRegisters, GenpolyType
<1>3. \A i \in 1 .. k, l \in V : Shift(l, msg[i - 1], G, npar) \in V
  <2>1. \A i \in 1 .. k : msg[i - 1] \in Byte
    BY DEF Bytes
  <2> QED
    BY <1>2, <2>1, ShiftType
<1>4. \A i \in 1 .. k, l \in V : D[<<i, l>>] = Shift(l, msg[i - 1], G, npar)
  OBVIOUS
<1>5. D \in [Nat \X V -> V]
  <2>1. ASSUME NEW p \in Nat \X V
        PROVE  (IF p[1] \in 1 .. k THEN Shift(p[2], msg[p[1] - 1], G, npar) ELSE c) \in V
    <3>1. p[2] \in V
      OBVIOUS
    <3>. HIDE DEF V, c, G
    <3> QED
      BY <1>2, <1>3, <3>1
  <2>. HIDE DEF V, c, G
  <2> QED
    BY <2>1
<1>6. \E g : P(g)
  <2>. HIDE DEF D, c, V, G
  <2>1. Iterates(D, c, V, k)
    BY <1>2, <1>5, FiniteRecursion
  <2>2. PICK g \in [0 .. k -> V] : \A i \in 0 .. k : g[i] = IF i = 0 THEN c ELSE D[<<i, g[i - 1]>>]
    BY <2>1 DEF Iterates
  <2>3. ASSUME NEW i \in 0 .. k
        PROVE  g[i] = IF i = 0 THEN c ELSE Shift(g[i - 1], msg[i - 1], G, npar)
    <3>1. i # 0 => i \in 1 .. k /\ g[i - 1] \in V
      OBVIOUS
    <3> QED
      BY <1>4, <2>2, <3>1
  <2>4. g = [i \in 0 .. k |-> g[i]]
    OBVIOUS
  <2> QED
    BY <2>3, <2>4
<1>7. P(h)
  <2>. HIDE DEF P
  <2> QED
    BY <1>6, Zenon
<1>. HIDE DEF D, c, V, G, h
<1>8. h[0] = c /\ \A i \in 1 .. k : h[i] = Shift(h[i - 1], msg[i - 1], G, npar)
  BY <1>7
<1>9. \A i \in 0 .. k : h[i] \in V
  <2>1. \A i \in 1 .. k : h[i - 1] \in V => h[i] \in V
    BY <1>3, <1>8
  <2> QED
    BY <1>2, <1>8, <2>1, Invariantly
<1> QED
  BY <1>1, <1>8, <1>9 DEF Encoding, G, V, c

-----------------------------------------------------------------------------
\* The first n bytes of d as the coefficients from the highest power on down,
\* which is how the coder reads a code word.
Rev(d, n) == [i \in 0 .. n - 1 |-> d[n - 1 - i]]

LEMMA RevBytes ==
  ASSUME NEW n \in Nat, NEW d, Bytes(d, n)
  PROVE  Bytes(Rev(d, n), n)
BY DEF Bytes, Rev

\* One byte more of a message, by Horner.
LEMMA HornerNext ==
  ASSUME NEW n \in Nat, NEW d, Bytes(d, n + 1), NEW e \in Nat
  PROVE  Value(Rev(d, n + 1), n + 1, e) = d[n] \oplus gmult(gexp(e), Value(Rev(d, n), n, e))
<1>1. Bytes(d, n) /\ d[n] \in Byte
  BY DEF Bytes
<1>2. Bytes(Rev(d, n), n)
  BY <1>1, RevBytes
<1>3. Rev(d, n + 1)[0] = d[n] /\ \A i \in 0 .. n - 1 : Rev(d, n + 1)[i + 1] = Rev(d, n)[i]
  BY DEF Rev
<1> QED
  BY <1>1, <1>2, <1>3, ValueFirst

\* The register is what the message leaves, times the power for its parity.
LEMMA RegisterValue ==
  ASSUME NEW npar \in Nat \ {0}, NEW k \in Nat, NEW msg, Bytes(msg, k), NEW g,
         Encoding(g, msg, k, npar), NEW e \in 1 .. npar
  PROVE  \A i \in 0 .. k :
           Value(g[i], npar, e) = gmult(gexp(e * npar), Value(Rev(msg, i), i, e))
<1>. DEFINE X == gexp(e * npar)
            x == gexp(e)
            S == {i \in Nat : i <= k => Value(g[i], npar, e) = gmult(X, Value(Rev(msg, i), i, e))}
<1>1. X \in Byte /\ x \in Byte /\ e \in Nat
  <2>1. e * npar \in Nat /\ e \in Nat
    OBVIOUS
  <2> QED
    BY <2>1, ExpNotZero
<1>2. 0 \in S
  <2>1. \A j \in 0 .. npar - 1 : g[0][j] = 0
    BY DEF Encoding
  <2>2. Bytes(g[0], 0) /\ npar \in Nat /\ 0 <= npar
    BY DEF Bytes
  <2>3. Value(g[0], npar, e) = 0
    BY <1>1, <2>1, <2>2, ValueThenZeros, ValueNone
  <2> QED
    BY <2>3, ValueNone, MultZero
<1>3. ASSUME NEW i \in Nat, i \in S PROVE i + 1 \in S
  <2>. SUFFICES ASSUME i + 1 <= k
                PROVE  Value(g[i + 1], npar, e) = gmult(X, Value(Rev(msg, i + 1), i + 1, e))
    OBVIOUS
  <2>. DEFINE v == Value(Rev(msg, i), i, e)
              b == msg[i]
  <2>1. Bytes(msg, i) /\ Bytes(msg, i + 1) /\ b \in Byte
    BY DEF Bytes
  <2>2. v \in Byte
    BY <1>1, <2>1, RevBytes, ValueType
  <2>3. g[i + 1] = Shift(g[i], b, compute_genpoly(npar), npar) /\ g[i] \in Registers(npar)
    <3>1. i + 1 \in 1 .. k /\ (i + 1) - 1 = i /\ i \in 0 .. k
      OBVIOUS
    <3> QED
      BY <3>1 DEF Encoding
  <2>4. Value(g[i + 1], npar, e) = gmult(X, b) \oplus gmult(x, Value(g[i], npar, e))
    BY <2>1, <2>3, ShiftValue
  <2>5. Value(Rev(msg, i + 1), i + 1, e) = b \oplus gmult(x, v)
    BY <1>1, <2>1, HornerNext
  <2>6. Value(g[i], npar, e) = gmult(X, v)
    BY <1>3
  <2>. HIDE DEF X, x, v, b
  <2>7. gmult(x, gmult(X, v)) = gmult(X, gmult(x, v))
    BY <1>1, <2>2, MultAssociates, MultCommutes
  <2>8. gmult(x, v) \in Byte
    BY <1>1, <2>2, MultType
  <2>9. gmult(X, b \oplus gmult(x, v)) = gmult(X, b) \oplus gmult(X, gmult(x, v))
    BY <1>1, <2>1, <2>8, MultDistributes
  <2> QED
    BY <2>4, <2>5, <2>6, <2>7, <2>9
<1>4. \A i \in Nat : i \in S
  <2>. HIDE DEF S
  <2> QED
    BY <1>2, <1>3, SetInduction
<1> QED
  BY <1>4

(***************************************************************************)
(* encode_data gives, for any message and any number of parity bytes, the  *)
(* message itself followed by parity bytes, such that the whole, read as a *)
(* polynomial with the first byte as its highest coefficient, is 0 at the  *)
(* first npar powers of x: the linear feedback shift register of           *)
(* encode_data divides by the polynomial of compute_genpoly.               *)
(***************************************************************************)
THEOREM CodeWord ==
  ASSUME NEW npar \in Nat \ {0}, NEW k \in Nat, NEW msg, Bytes(msg, k)
  PROVE  LET w == encode_data(msg, k, compute_genpoly(npar), npar)
         IN  /\ w \in [0 .. k + npar - 1 -> Byte]
             /\ \A i \in 0 .. k - 1 : w[i] = msg[i]
             /\ \A e \in 1 .. npar : Value(Rev(w, k + npar), k + npar, e) = 0
<1>. DEFINE w == encode_data(msg, k, compute_genpoly(npar), npar)
<1>1. PICK g : Encoding(g, msg, k, npar)
  BY EncodeRegisters
<1>. DEFINE l == g[k]
<1>2. l \in Registers(npar) /\ Bytes(l, npar)
  BY <1>1 DEF Encoding, Registers, Bytes
<1>3. w = [i \in 0 .. k + npar - 1 |-> IF i < k THEN msg[i] ELSE l[npar - 1 - (i - k)]]
  BY <1>1 DEF Encoding
<1>. HIDE DEF w, l
<1>4. w \in [0 .. k + npar - 1 -> Byte]
  <2>1. ASSUME NEW i \in 0 .. k + npar - 1
        PROVE  (IF i < k THEN msg[i] ELSE l[npar - 1 - (i - k)]) \in Byte
    BY <1>2 DEF Bytes
  <2> QED
    BY <1>3, <2>1
<1>5. \A i \in 0 .. k - 1 : w[i] = msg[i]
  BY <1>3
<1>6. ASSUME NEW e \in 1 .. npar PROVE Value(Rev(w, k + npar), k + npar, e) = 0
  <2>. DEFINE p == Rev(w, k + npar)
              q == Rev(msg, k)
              v == Value(l, npar, e)
  <2>1. e \in Nat /\ npar + k = k + npar /\ npar \in Nat /\ k + npar \in Nat
    OBVIOUS
  <2>2. Bytes(w, k + npar) /\ Bytes(p, npar + k)
    <3>1. Bytes(w, k + npar)
      BY <1>4 DEF Bytes
    <3> QED
      BY <2>1, <3>1, RevBytes
  <2>3. \A j \in 0 .. npar - 1 : l[j] = p[j]
    <3>1. ASSUME NEW j \in 0 .. npar - 1 PROVE l[j] = p[j]
      <4>. DEFINE i == k + npar - 1 - j
      <4>1. i \in 0 .. k + npar - 1 /\ ~ (i < k) /\ npar - 1 - (i - k) = j
        OBVIOUS
      <4>2. p[j] = w[i]
        BY DEF Rev
      <4>. HIDE DEF i
      <4> QED
        BY <1>3, <4>1, <4>2
    <3> QED
      BY <3>1
  <2>4. \A t \in 0 .. k - 1 : q[t] = p[npar + t]
    <3>1. ASSUME NEW t \in 0 .. k - 1 PROVE q[t] = p[npar + t]
      <4>1. p[npar + t] = w[k - 1 - t] /\ q[t] = msg[k - 1 - t] /\ k - 1 - t \in 0 .. k - 1
        BY DEF Rev
      <4> QED
        BY <1>5, <4>1
    <3> QED
      BY <3>1
  <2>5. Value(p, npar, e) = v
    <3>. HIDE DEF p
    <3> QED
      BY <1>2, <2>1, <2>3, ValueEqual
  <2>6. v = gmult(gexp(e * npar), Value(q, k, e))
    <3>1. k \in 0 .. k
      OBVIOUS
    <3> QED
      BY <1>1, <3>1, RegisterValue DEF l
  <2>. HIDE DEF p, q, v
  <2>7. Value(p, npar + k, e) = Value(p, npar, e) \oplus gmult(gexp(e * npar), Value(q, k, e))
    <3>1. IsTail(q, p, npar, k)
      BY <2>4 DEF IsTail
    <3> QED
      BY <2>1, <2>2, <3>1, ValueSplit
  <2>8. v \in Byte
    BY <1>2, <2>1, ValueType DEF v
  <2> QED
    BY <2>1, <2>5, <2>6, <2>7, <2>8, XorZero DEF p
<1> QED
  BY <1>4, <1>5, <1>6 DEF w

-----------------------------------------------------------------------------
(* init_gamma: locator polynomials. *)

\* The locator polynomial of the locations X[1], ..., X[L], factor by factor.
TimesFactor(p, x) == add_polys(p, mul_z_poly(scale_poly(gexp(x), p)))
Locations(X, L) == \A l \in 1 .. L : X[l] \in 0 .. 254
Distinct(X, L) == \A l, j \in 1 .. L : X[l] = X[j] => l = j
Locator(g, X, L, npar) ==
    /\ g[0] = Constant(1, npar)
    /\ \A l \in 0 .. L : g[l] \in Polys(npar)
    /\ \A l \in 1 .. L : g[l] = TimesFactor(g[l - 1], X[l])

LEMMA LocationsType ==
  ASSUME NEW X, NEW L \in Nat, Locations(X, L)
  PROVE  \A l \in 1 .. L : X[l] \in 0 .. 254 /\ X[l] \in Nat
BY DEF Locations

LEMMA FactorTerms ==
  ASSUME NEW npar \in Nat \ {0}, NEW p \in Polys(npar), NEW x \in Nat
  PROVE  /\ TimesFactor(p, x) \in Polys(npar)
         /\ \A m \in 0 .. 2 * npar - 1 : TimesFactor(p, x)[m]
              = p[m] \oplus gmult(gexp(x), IF m = 0 THEN 0 ELSE p[m - 1])
<1>1. p = [m \in 0 .. 2 * npar - 1 |-> p[m]] /\ DOMAIN p = 0 .. 2 * npar - 1
  BY DegreesSize DEF Polys
<1>. DEFINE s == scale_poly(gexp(x), p)
            z == mul_z_poly(s)
            h == TimesFactor(p, x)
<1>2. DOMAIN s = 0 .. 2 * npar - 1 /\ \A m \in 0 .. 2 * npar - 1 : s[m] = gmult(gexp(x), p[m])
  BY <1>1 DEF scale_poly
<1>. HIDE DEF s
<1>3. \A m \in 0 .. 2 * npar - 1 : z[m] = IF m = 0 THEN 0 ELSE s[m - 1]
  BY <1>2 DEF mul_z_poly
<1>. HIDE DEF z
<1>4. h = [m \in 0 .. 2 * npar - 1 |-> p[m] \oplus z[m]]
  BY <1>1 DEF TimesFactor, add_polys, z, s
<1>. HIDE DEF h
<1>5. ASSUME NEW m \in 0 .. 2 * npar - 1
      PROVE  /\ h[m] = p[m] \oplus gmult(gexp(x), IF m = 0 THEN 0 ELSE p[m - 1])
             /\ h[m] \in Byte
  <2>1. z[m] = gmult(gexp(x), IF m = 0 THEN 0 ELSE p[m - 1])
    <3>1. CASE m = 0
      BY <1>3, <3>1, MultZero
    <3>2. CASE m # 0
      <4>1. m - 1 \in 0 .. 2 * npar - 1
        BY <3>2
      <4> QED
        BY <1>2, <1>3, <3>2, <4>1
    <3> QED
      BY <3>1, <3>2
  <2>2. p[m] \in Byte /\ (m # 0 => p[m - 1] \in Byte) /\ 0 \in Byte
    BY PolyBytes, ZeroIsByte
  <2>3. z[m] \in Byte
    BY <2>1, <2>2, ExpNotZero, MultType
  <2> QED
    BY <1>4, <2>1, <2>2, <2>3, XorType
<1>6. h \in Polys(npar)
  BY <1>4, <1>5, DegreesSize DEF Polys
<1> QED
  BY <1>5, <1>6 DEF h

\* init_gamma multiplies 1 + x z for the locations one after the other.
LEMMA LocatorExists ==
  ASSUME NEW npar \in Nat \ {0}, NEW L \in Nat, NEW X, Locations(X, L)
  PROVE  \E g \in [0 .. L -> Polys(npar)] : Locator(g, X, L, npar)
<1>. DEFINE V == Polys(npar)
            c == Constant(1, npar)
            D == [p \in Nat \X V |-> IF p[1] \in 1 .. L THEN TimesFactor(p[2], X[p[1]]) ELSE c]
<1>1. c \in V
  BY ConstantType
<1>2. ASSUME NEW l \in 1 .. L, NEW q \in V PROVE TimesFactor(q, X[l]) \in V
  <2>1. X[l] \in Nat
    BY DEF Locations
  <2> QED
    BY <2>1, FactorTerms
<1>3. \A l \in 1 .. L, q \in V : D[<<l, q>>] = TimesFactor(q, X[l])
  OBVIOUS
<1>4. D \in [Nat \X V -> V]
  <2>1. ASSUME NEW p \in Nat \X V
        PROVE  (IF p[1] \in 1 .. L THEN TimesFactor(p[2], X[p[1]]) ELSE c) \in V
    <3>. HIDE DEF V, c
    <3> QED
      BY <1>1, <1>2
  <2>. HIDE DEF V, c
  <2> QED
    BY <2>1
<1>. HIDE DEF D, c, V
<1>5. Iterates(D, c, V, L)
  BY <1>1, <1>4, FiniteRecursion
<1>6. PICK g \in [0 .. L -> V] : \A l \in 0 .. L : g[l] = IF l = 0 THEN c ELSE D[<<l, g[l - 1]>>]
  BY <1>5 DEF Iterates
<1>7. ASSUME NEW l \in 1 .. L PROVE g[l] = TimesFactor(g[l - 1], X[l])
  <2>1. g[l] = D[<<l, g[l - 1]>>] /\ g[l - 1] \in V
    BY <1>6
  <2> QED
    BY <1>3, <2>1
<1>8. g[0] = c /\ \A l \in 0 .. L : g[l] \in V
  <2>1. 0 \in 0 .. L
    OBVIOUS
  <2>2. g[0] = c
    BY <1>6, <2>1
  <2>3. \A l \in 0 .. L : g[l] \in V
    OBVIOUS
  <2> QED
    BY <2>2, <2>3
<1> QED
  BY <1>7, <1>8 DEF Locator, c, V

\* init_gamma computes the locator polynomial of the erasures.
LEMMA GammaLocator ==
  ASSUME NEW npar \in Nat \ {0}, NEW X, NEW L \in Nat, Len(X) = L, Locations(X, L)
  PROVE  \E g : Locator(g, X, L, npar) /\ init_gamma(X, npar) = g[L]
<1>. DEFINE P(g) == g = [l \in 0 .. L |-> IF l = 0 THEN Constant(1, npar)
                           ELSE add_polys(g[l - 1], mul_z_poly(scale_poly(gexp(X[l]), g[l - 1])))]
            h == CHOOSE g : P(g)
<1>1. init_gamma(X, npar) = h[L]
  BY DEF init_gamma
<1>2. \E g : P(g)
  <2>1. PICK g \in [0 .. L -> Polys(npar)] : Locator(g, X, L, npar)
    BY LocatorExists
  <2>2. \A l \in 0 .. L : g[l] = IF l = 0 THEN Constant(1, npar)
                          ELSE add_polys(g[l - 1], mul_z_poly(scale_poly(gexp(X[l]), g[l - 1])))
    BY <2>1 DEF Locator, TimesFactor
  <2>3. g = [l \in 0 .. L |-> g[l]]
    OBVIOUS
  <2> QED
    BY <2>2, <2>3
<1>3. P(h)
  <2>. HIDE DEF P
  <2> QED
    BY <1>2, Zenon
<1>. HIDE DEF h
<1>0. L \in Nat /\ \A l \in 1 .. L : X[l] \in Nat
  <2>1. L \in Nat
    OBVIOUS
  <2> QED
    BY <2>1, LocationsType, Zenon
<1>4. h[0] = Constant(1, npar) /\ \A l \in 1 .. L : h[l] = TimesFactor(h[l - 1], X[l])
  BY <1>3 DEF TimesFactor
<1>. HIDE DEF P
<1>5. \A l \in 0 .. L : h[l] \in Polys(npar)
  <2>1. h[0] \in Polys(npar)
    BY <1>4, ConstantType
  <2>2. ASSUME NEW l \in 1 .. L, h[l - 1] \in Polys(npar) PROVE h[l] \in Polys(npar)
    <3>1. X[l] \in Nat /\ h[l] = TimesFactor(h[l - 1], X[l])
      BY <1>0, <1>4
    <3>2. TimesFactor(h[l - 1], X[l]) \in Polys(npar)
      BY <2>2, <3>1, FactorTerms
    <3> QED
      BY <3>1, <3>2
  <2> QED
    BY <1>0, <2>1, <2>2, Invariantly
<1> QED
  BY <1>1, <1>4, <1>5 DEF Locator

\* One more location.
LEMMA LocatorAppend ==
  ASSUME NEW npar \in Nat \ {0}, NEW L \in Nat, NEW X, NEW g, Locator(g, X, L, npar),
         NEW Z, Z[L + 1] \in 0 .. 254, \A l \in 1 .. L : Z[l] = X[l]
  PROVE  \E h : /\ Locator(h, Z, L + 1, npar) /\ h[L] = g[L]
                /\ h[L + 1] = TimesFactor(g[L], Z[L + 1])
<1>. DEFINE h == [l \in 0 .. L + 1 |-> IF l = L + 1 THEN TimesFactor(g[L], Z[L + 1]) ELSE g[l]]
<1>1. h[L + 1] = TimesFactor(g[L], Z[L + 1]) /\ \A l \in 0 .. L : h[l] = g[l]
  OBVIOUS
<1>. HIDE DEF h
<1>2. h[0] = Constant(1, npar) /\ h[L] = g[L]
  BY <1>1 DEF Locator
<1>3. ASSUME NEW l \in 0 .. L + 1 PROVE h[l] \in Polys(npar)
  <2>1. CASE l = L + 1
    <3>1. g[L] \in Polys(npar)
      BY DEF Locator
    <3> QED
      BY <1>1, <2>1, <3>1, FactorTerms
  <2>2. CASE l \in 0 .. L
    BY <1>1, <2>2 DEF Locator
  <2> QED
    BY <2>1, <2>2
<1>4. ASSUME NEW l \in 1 .. L + 1 PROVE h[l] = TimesFactor(h[l - 1], Z[l])
  <2>1. CASE l = L + 1
    BY <1>1, <1>2, <2>1
  <2>2. CASE l \in 1 .. L
    <3>1. h[l] = g[l] /\ h[l - 1] = g[l - 1] /\ Z[l] = X[l]
      BY <1>1, <2>2
    <3> QED
      BY <2>2, <3>1 DEF Locator
  <2> QED
    BY <2>1, <2>2
<1> QED
  BY <1>1, <1>2, <1>3, <1>4 DEF Locator

\* The locator polynomial of l locations has no coefficient beyond l.
LEMMA LocatorDegree ==
  ASSUME NEW npar \in Nat \ {0}, NEW L \in Nat, NEW X, Locations(X, L), NEW g,
         Locator(g, X, L, npar)
  PROVE  \A l \in 0 .. L : \A m \in l + 1 .. 2 * npar - 1 : g[l][m] = 0
<1>. DEFINE S == {l \in Nat : l <= L => \A m \in l + 1 .. 2 * npar - 1 : g[l][m] = 0}
<1>1. 0 \in S
  <2>1. \A m \in 0 .. 2 * npar - 1 : g[0][m] = IF m = 0 THEN 1 ELSE 0
    BY DegreesSize DEF Locator, Constant
  <2> QED
    BY <2>1
<1>2. ASSUME NEW l \in Nat, l \in S PROVE l + 1 \in S
  <2>. SUFFICES ASSUME l + 1 <= L, NEW m \in (l + 1) + 1 .. 2 * npar - 1
                PROVE  g[l + 1][m] = 0
    OBVIOUS
  <2>1. g[l][m] = 0 /\ g[l][m - 1] = 0
    <3>1. m \in l + 1 .. 2 * npar - 1 /\ m - 1 \in l + 1 .. 2 * npar - 1
      OBVIOUS
    <3> QED
      BY <1>2, <3>1
  <2>2. l + 1 \in 1 .. L /\ (l + 1) - 1 = l /\ l \in 0 .. L /\ m \in 0 .. 2 * npar - 1 /\ m # 0
    OBVIOUS
  <2>3. g[l + 1] = TimesFactor(g[l], X[l + 1]) /\ g[l] \in Polys(npar) /\ X[l + 1] \in Nat
    BY <2>2 DEF Locator, Locations
  <2>4. TimesFactor(g[l], X[l + 1])[m]
          = g[l][m] \oplus gmult(gexp(X[l + 1]), IF m = 0 THEN 0 ELSE g[l][m - 1])
    <3>. DEFINE p == g[l]
                x == X[l + 1]
    <3>1. p \in Polys(npar) /\ x \in Nat
      BY <2>3
    <3>. HIDE DEF p, x
    <3>2. \A j \in 0 .. 2 * npar - 1 : TimesFactor(p, x)[j]
              = p[j] \oplus gmult(gexp(x), IF j = 0 THEN 0 ELSE p[j - 1])
      BY <3>1, FactorTerms
    <3> QED
      BY <2>2, <3>2 DEF p, x
  <2>5. gmult(gexp(X[l + 1]), 0) = 0 /\ 0 \oplus 0 = 0
    BY MultZero, XorZero, ZeroIsByte
  <2> QED
    BY <2>1, <2>2, <2>3, <2>4, <2>5
<1>3. \A l \in Nat : l \in S
  <2>. HIDE DEF S
  <2> QED
    BY <1>1, <1>2, SetInduction
<1> QED
  BY <1>3

-----------------------------------------------------------------------------
(* What one more factor 1 + x z does to a polynomial. *)

\* The values of a polynomial times z, and times 1 + x z.
IsUp(h, p, n) == \A m \in 0 .. n - 1 : h[m] = IF m = 0 THEN 0 ELSE p[m - 1]
IsFactor(h, p, x, n) ==
    \A m \in 0 .. n - 1 : h[m] = p[m] \oplus gmult(gexp(x), IF m = 0 THEN 0 ELSE p[m - 1])

IsMultiple(u, c, p, n) == \A m \in 0 .. n - 1 : u[m] = gmult(c, p[m])
IsSumOf(h, p, u, n) == \A m \in 0 .. n - 1 : h[m] = p[m] \oplus u[m]

LEMMA ValueUp ==
  ASSUME NEW n \in Nat \ {0}, NEW p, NEW h, Bytes(p, n), p[n - 1] = 0, IsUp(h, p, n), NEW e \in Nat
  PROVE  Value(h, n, e) = gmult(gexp(e), Value(p, n, e)) /\ Bytes(h, n)
<1>. DEFINE k == n - 1
<1>1. k \in Nat /\ k + 1 = n /\ k <= n /\ n \in Nat
  OBVIOUS
<1>2. Bytes(p, k)
  BY <1>1 DEF Bytes
<1>3. h[0] = 0 /\ \A i \in 0 .. k - 1 : h[i + 1] = p[i]
  <2>1. 0 \in 0 .. n - 1 /\ \A i \in 0 .. k - 1 : i + 1 \in 0 .. n - 1 /\ i + 1 # 0 /\ (i + 1) - 1 = i
    OBVIOUS
  <2> QED
    BY <2>1 DEF IsUp
<1>4. \A i \in k .. n - 1 : p[i] = 0
  OBVIOUS
<1>. HIDE DEF k
<1>5. Value(h, k + 1, e) = gmult(gexp(e), Value(p, k, e)) /\ Bytes(h, k + 1)
  BY <1>1, <1>2, <1>3, ValueOfShift
<1>6. Value(p, n, e) = Value(p, k, e)
  BY <1>1, <1>2, <1>4, ValueThenZeros
<1> QED
  BY <1>1, <1>5, <1>6

\* The same in two steps: the multiple of z p, and the sum with p.
LEMMA FactorParts ==
  ASSUME NEW n \in Nat, NEW p, NEW h, Bytes(p, n), NEW x \in Nat, IsFactor(h, p, x, n)
  PROVE  \E z, u : /\ IsUp(z, p, n) /\ Bytes(z, n) /\ Bytes(u, n) /\ Bytes(h, n)
                   /\ IsMultiple(u, gexp(x), z, n) /\ IsSumOf(h, p, u, n)
<1>. DEFINE z == [m \in 0 .. n - 1 |-> IF m = 0 THEN 0 ELSE p[m - 1]]
            u == [m \in 0 .. n - 1 |-> gmult(gexp(x), z[m])]
<1>1. IsUp(z, p, n)
  BY DEF IsUp
<1>2. \A m \in 0 .. n - 1 : z[m] \in Byte
  BY ZeroIsByte DEF Bytes
<1>3. \A m \in 0 .. n - 1 : u[m] = gmult(gexp(x), z[m])
  OBVIOUS
<1>4. \A m \in 0 .. n - 1 : h[m] = p[m] \oplus u[m]
  BY DEF IsFactor
<1>. HIDE DEF z, u
<1>5. \A m \in 0 .. n - 1 : u[m] \in Byte
  BY <1>2, <1>3, ExpNotZero, MultType
<1>6. \A m \in 0 .. n - 1 : h[m] \in Byte
  BY <1>4, <1>5, XorType DEF Bytes
<1>7. Bytes(z, n) /\ Bytes(u, n) /\ Bytes(h, n)
  BY <1>2, <1>5, <1>6 DEF Bytes
<1> QED
  BY <1>1, <1>3, <1>4, <1>7 DEF IsMultiple, IsSumOf

LEMMA ExpTimes ==
  ASSUME NEW x \in Nat, NEW e \in Nat, NEW v \in Byte
  PROVE  gmult(gexp(x), gmult(gexp(e), v)) = gmult(gexp(x + e), v)
<1>1. gexp(x) \in Byte /\ gexp(e) \in Byte
  BY ExpNotZero
<1>2. gmult(gexp(x), gexp(e)) = gexp(x + e)
  BY MultExp
<1> QED
  BY <1>1, <1>2, MultAssociates

\* What a factor 1 + x z does to a value.
LEMMA FactorValue ==
  ASSUME NEW n \in Nat \ {0}, NEW p, NEW h, Bytes(p, n), p[n - 1] = 0, NEW x \in Nat,
         IsFactor(h, p, x, n), NEW e \in Nat
  PROVE  Value(h, n, e) = Value(p, n, e) \oplus gmult(gexp(x + e), Value(p, n, e))
<1>1. n \in Nat
  OBVIOUS
<1>2. PICK z, u : /\ IsUp(z, p, n) /\ Bytes(z, n) /\ Bytes(u, n) /\ Bytes(h, n)
                  /\ IsMultiple(u, gexp(x), z, n) /\ IsSumOf(h, p, u, n)
  BY <1>1, FactorParts
<1>3. Value(z, n, e) = gmult(gexp(e), Value(p, n, e))
  BY <1>2, ValueUp
<1>4. gexp(x) \in Byte
  BY ExpNotZero
<1>5. Value(u, n, e) = gmult(gexp(x), Value(z, n, e))
  BY <1>1, <1>2, <1>4, ValueOfMultiple DEF IsMultiple
<1>6. Value(h, n, e) = Value(p, n, e) \oplus Value(u, n, e)
  BY <1>1, <1>2, ValueOfSum DEF IsSumOf
<1>7. Value(p, n, e) \in Byte
  BY <1>1, ValueType
<1> QED
  BY <1>3, <1>5, <1>6, <1>7, ExpTimes

\* What a locator polynomial is made of, step by step.
ZerosFrom(p, l, n) == \A m \in l .. n - 1 : p[m] = 0

LEMMA LocatorStep ==
  ASSUME NEW npar \in Nat \ {0}, NEW L \in 0 .. npar, NEW X, Locations(X, L), NEW g,
         Locator(g, X, L, npar), NEW l \in 1 .. L
  PROVE  /\ IsFactor(g[l], g[l - 1], X[l], 2 * npar) /\ X[l] \in Nat /\ X[l] \in 0 .. 254
         /\ g[l] \in Polys(npar) /\ g[l - 1] \in Polys(npar)
         /\ Bytes(g[l], 2 * npar) /\ Bytes(g[l - 1], 2 * npar)
         /\ g[l - 1][2 * npar - 1] = 0
         /\ ZerosFrom(g[l - 1], l, 2 * npar)
<1>1. l - 1 \in 0 .. L /\ l \in 0 .. L /\ L \in Nat
  OBVIOUS
<1>2. X[l] \in Nat /\ X[l] \in 0 .. 254
  BY <1>1, LocationsType
<1>. DEFINE p == g[l - 1]
            x == X[l]
            h == TimesFactor(p, x)
<1>3. p \in Polys(npar) /\ g[l] \in Polys(npar) /\ g[l] = h /\ x \in Nat
  BY <1>1, <1>2 DEF Locator
<1>4. \A m \in (l - 1) + 1 .. 2 * npar - 1 : p[m] = 0
  <2>1. \A j \in 0 .. L : \A m \in j + 1 .. 2 * npar - 1 : g[j][m] = 0
    BY <1>1, LocatorDegree
  <2> QED
    BY <1>1, <2>1
<1>5. 2 * npar - 1 \in (l - 1) + 1 .. 2 * npar - 1 /\ (l - 1) + 1 = l
  OBVIOUS
<1>. HIDE DEF p, x
<1>6. \A m \in 0 .. 2 * npar - 1 : h[m]
              = p[m] \oplus gmult(gexp(x), IF m = 0 THEN 0 ELSE p[m - 1])
  BY <1>3, FactorTerms
<1>. HIDE DEF h
<1>7. IsFactor(g[l], p, x, 2 * npar)
  BY <1>3, <1>6 DEF IsFactor
<1>8. Bytes(g[l], 2 * npar) /\ Bytes(p, 2 * npar)
  BY <1>3, PolyBytes
<1> QED
  BY <1>2, <1>3, <1>4, <1>5, <1>7, <1>8 DEF p, x, ZerosFrom

-----------------------------------------------------------------------------
(* The derivative of a polynomial, as Magnitude takes it. *)

\* The derivative of a polynomial, as Magnitude computes it.
OddTerms(p, n, e) ==
    [j \in 0 .. n - 1 |-> IF j % 2 = 1 THEN gmult(p[j], gexp(e * (j - 1))) ELSE 0]
EvenTerms(p, n, e) == [j \in 0 .. n - 1 |-> IF j % 2 = 1 THEN 0 ELSE gmult(p[j], gexp(e * j))]
Deriv(p, n, e) == XorSum(OddTerms(p, n, e), n)

LEMMA OddType ==
  ASSUME NEW n \in Nat, NEW p, Bytes(p, n), NEW e \in Nat
  PROVE  Bytes(OddTerms(p, n, e), n) /\ Deriv(p, n, e) \in Byte
<1>1. ASSUME NEW j \in 0 .. n - 1 PROVE OddTerms(p, n, e)[j] \in Byte
  <2>1. CASE j % 2 = 1
    <3>1. e * (j - 1) \in Nat /\ p[j] \in Byte
      <4>1. j - 1 \in Nat
        BY <2>1
      <4> QED
        BY <4>1 DEF Bytes
    <3>2. gmult(p[j], gexp(e * (j - 1))) \in Byte
      BY <3>1, ExpNotZero, MultType
    <3> QED
      BY <2>1, <3>2 DEF OddTerms
  <2>2. CASE j % 2 # 1
    BY <2>2, ZeroIsByte DEF OddTerms
  <2> QED
    BY <2>1, <2>2
<1>2. Bytes(OddTerms(p, n, e), n)
  BY <1>1 DEF Bytes
<1> QED
  BY <1>2, SumType DEF Deriv

LEMMA EvenType ==
  ASSUME NEW n \in Nat, NEW p, Bytes(p, n), NEW e \in Nat
  PROVE  Bytes(EvenTerms(p, n, e), n)
<1>1. ASSUME NEW j \in 0 .. n - 1 PROVE EvenTerms(p, n, e)[j] \in Byte
  <2>1. e * j \in Nat /\ p[j] \in Byte
    BY DEF Bytes
  <2>2. gmult(p[j], gexp(e * j)) \in Byte
    BY <2>1, ExpNotZero, MultType
  <2> QED
    BY <2>2, ZeroIsByte DEF EvenTerms
<1> QED
  BY <1>1 DEF Bytes

\* A polynomial is its even terms and x times its derivative.
LEMMA ValueByParity ==
  ASSUME NEW n \in Nat, NEW p, Bytes(p, n), NEW e \in Nat
  PROVE  Value(p, n, e) = XorSum(EvenTerms(p, n, e), n) \oplus gmult(gexp(e), Deriv(p, n, e))
<1>. DEFINE t == Terms(p, n, e)
            a == EvenTerms(p, n, e)
            b == OddTerms(p, n, e)
            u == [j \in 0 .. n - 1 |-> gmult(gexp(e), b[j])]
<1>1. Bytes(a, n) /\ Bytes(b, n) /\ Value(p, n, e) = XorSum(t, n) /\ gexp(e) \in Byte
  BY EvenType, OddType, TermsType, ExpNotZero
<1>2. \A j \in 0 .. n - 1 : u[j] = gmult(gexp(e), b[j])
  OBVIOUS
<1>3. Bytes(u, n)
  BY <1>1, <1>2, MultType DEF Bytes
<1>4. ASSUME NEW j \in 0 .. n - 1 PROVE t[j] = a[j] \oplus u[j]
  <2>1. t[j] = gmult(p[j], gexp(e * j)) /\ t[j] \in Byte /\ p[j] \in Byte
    BY TermsType DEF Terms, Bytes
  <2>2. CASE j % 2 = 1
    <3>1. j - 1 \in Nat
      BY <2>2
    <3>2. e * (j - 1) \in Nat /\ e + e * (j - 1) = e * j
      BY <3>1
    <3>3. gmult(gexp(e), gexp(e * (j - 1))) = gexp(e * j) /\ gexp(e * (j - 1)) \in Byte
      BY <3>2, MultExp, ExpNotZero
    <3>4. gmult(gexp(e), gmult(p[j], gexp(e * (j - 1)))) = gmult(p[j], gexp(e * j))
      BY <1>1, <2>1, <3>3, MultAssociates, MultCommutes
    <3>5. a[j] = 0 /\ b[j] = gmult(p[j], gexp(e * (j - 1)))
      BY <2>2 DEF EvenTerms, OddTerms
    <3> QED
      BY <1>2, <2>1, <3>4, <3>5, XorZero
  <2>3. CASE j % 2 # 1
    <3>1. b[j] = 0 /\ a[j] = t[j]
      BY <2>1, <2>3 DEF EvenTerms, OddTerms
    <3> QED
      BY <1>2, <2>1, <3>1, MultZero, XorZero
  <2> QED
    BY <2>2, <2>3
<1>. HIDE DEF t, a, b, u
<1>5. XorSum(t, n) = XorSum(a, n) \oplus XorSum(u, n)
  BY <1>1, <1>3, <1>4, SumOfSums
<1>6. XorSum(u, n) = gmult(gexp(e), XorSum(b, n))
  BY <1>1, <1>2, SumOfMultiples
<1> QED
  BY <1>1, <1>5, <1>6 DEF a, b, Deriv

\* The derivative of z p is the sum of the even terms of p.
LEMMA DerivOfUp ==
  ASSUME NEW k \in Nat, NEW p, NEW z, Bytes(p, 2 * k), Bytes(z, 2 * k), IsUp(z, p, 2 * k), NEW e \in Nat
  PROVE  Deriv(z, 2 * k, e) = XorSum(EvenTerms(p, 2 * k, e), 2 * k)
<1>1. CASE k = 0
  BY <1>1, SumNone DEF Deriv
<1>2. CASE k # 0
  <2>. DEFINE n == 2 * k
              q == n - 1
              f == OddTerms(z, n, e)
              a == EvenTerms(p, n, e)
  <2>1. n \in Nat /\ q \in Nat /\ q + 1 = n /\ q <= n /\ q % 2 = 1
    BY <1>2
  <2>2. Bytes(f, n) /\ Bytes(a, n)
    BY <2>1, OddType, EvenType
  <2>3. f[0] = 0 /\ a[q] = 0
    <3>1. 0 \in 0 .. n - 1 /\ q \in 0 .. n - 1 /\ 0 % 2 = 0
      BY <2>1
    <3> QED
      BY <2>1, <3>1 DEF OddTerms, EvenTerms
  <2>4. ASSUME NEW j \in 0 .. q - 1 PROVE a[j] = f[j + 1]
    <3>1. j \in 0 .. n - 1 /\ j + 1 \in 0 .. n - 1 /\ j + 1 # 0 /\ (j + 1) - 1 = j
      BY <2>1
    <3>2. (j + 1) % 2 = 1 <=> j % 2 # 1
      OBVIOUS
    <3>3. z[j + 1] = p[j]
      BY <3>1 DEF IsUp
    <3> QED
      BY <3>1, <3>2, <3>3 DEF OddTerms, EvenTerms
  <2>. HIDE DEF n, q, f, a
  <2>5. XorSum(f, q + 1) = f[0] \oplus XorSum(a, q)
    BY <2>1, <2>2, <2>4, SumFirst
  <2>6. XorSum(a, q + 1) = XorSum(a, q) \oplus a[q]
    BY <2>1, <2>2, SumNext
  <2>7. XorSum(a, q) \in Byte
    <3>1. Bytes(a, q)
      BY <2>1, <2>2 DEF Bytes
    <3> QED
      BY <2>1, <3>1, SumType
  <2>8. XorSum(f, n) = XorSum(a, n)
    BY <2>1, <2>3, <2>5, <2>6, <2>7, XorZero
  <2> QED
    BY <2>8 DEF n, f, a, Deriv
<1> QED
  BY <1>1, <1>2

\* The derivative, as the loop over odd coefficients takes it, is linear.
LEMMA DerivOfSum ==
  ASSUME NEW n \in Nat, NEW p, NEW u, NEW h, Bytes(p, n), Bytes(u, n), IsSumOf(h, p, u, n),
         NEW e \in Nat
  PROVE  Deriv(h, n, e) = Deriv(p, n, e) \oplus Deriv(u, n, e)
<1>. DEFINE a == OddTerms(p, n, e)
            b == OddTerms(u, n, e)
            c == OddTerms(h, n, e)
<1>1. Bytes(a, n) /\ Bytes(b, n)
  BY OddType
<1>2. ASSUME NEW j \in 0 .. n - 1 PROVE c[j] = a[j] \oplus b[j]
  <2>1. CASE j % 2 = 1
    <3>1. j - 1 \in Nat
      BY <2>1
    <3>2. e * (j - 1) \in Nat
      BY <3>1
    <3>3. h[j] = p[j] \oplus u[j] /\ p[j] \in Byte /\ u[j] \in Byte
      BY DEF IsSumOf, Bytes
    <3>4. gmult(p[j] \oplus u[j], gexp(e * (j - 1)))
            = gmult(p[j], gexp(e * (j - 1))) \oplus gmult(u[j], gexp(e * (j - 1)))
      BY <3>2, <3>3, ExpNotZero, MultDistributes
    <3> QED
      BY <2>1, <3>3, <3>4 DEF OddTerms
  <2>2. CASE j % 2 # 1
    BY <2>2, XorZero, ZeroIsByte DEF OddTerms
  <2> QED
    BY <2>1, <2>2
<1>. HIDE DEF a, b, c
<1>3. XorSum(c, n) = XorSum(a, n) \oplus XorSum(b, n)
  BY <1>1, <1>2, SumOfSums
<1> QED
  BY <1>3 DEF a, b, c, Deriv

LEMMA DerivOfMultiple ==
  ASSUME NEW n \in Nat, NEW p, NEW u, Bytes(p, n), NEW x \in Byte, IsMultiple(u, x, p, n), NEW e \in Nat
  PROVE  Deriv(u, n, e) = gmult(x, Deriv(p, n, e))
<1>. DEFINE a == OddTerms(p, n, e)
            b == OddTerms(u, n, e)
<1>1. Bytes(a, n)
  BY OddType
<1>2. ASSUME NEW j \in 0 .. n - 1 PROVE b[j] = gmult(x, a[j])
  <2>1. CASE j % 2 = 1
    <3>1. j - 1 \in Nat
      BY <2>1
    <3>2. e * (j - 1) \in Nat
      BY <3>1
    <3>3. u[j] = gmult(x, p[j]) /\ p[j] \in Byte
      BY DEF IsMultiple, Bytes
    <3>4. gmult(gmult(x, p[j]), gexp(e * (j - 1))) = gmult(x, gmult(p[j], gexp(e * (j - 1))))
      BY <3>2, <3>3, ExpNotZero, MultAssociates
    <3> QED
      BY <2>1, <3>3, <3>4 DEF OddTerms
  <2>2. CASE j % 2 # 1
    BY <2>2, MultZero DEF OddTerms
  <2> QED
    BY <2>1, <2>2
<1>. HIDE DEF a, b
<1>3. XorSum(b, n) = gmult(x, XorSum(a, n))
  BY <1>1, <1>2, SumOfMultiples
<1> QED
  BY <1>3 DEF a, b, Deriv

\* The derivative of p (1 + x z).
LEMMA FactorDeriv ==
  ASSUME NEW k \in Nat, NEW p, NEW h, Bytes(p, 2 * k), NEW x \in Nat,
         IsFactor(h, p, x, 2 * k), NEW e \in Nat
  PROVE  Deriv(h, 2 * k, e)
           = (Deriv(p, 2 * k, e) \oplus gmult(gexp(x + e), Deriv(p, 2 * k, e)))
               \oplus gmult(gexp(x), Value(p, 2 * k, e))
<1>. DEFINE n == 2 * k
            d == Deriv(p, n, e)
            v == Value(p, n, e)
            a == XorSum(EvenTerms(p, n, e), n)
<1>1. n \in Nat /\ gexp(x) \in Byte /\ gexp(e) \in Byte /\ x + e \in Nat
  BY ExpNotZero
<1>2. PICK z, u : /\ IsUp(z, p, n) /\ Bytes(z, n) /\ Bytes(u, n) /\ Bytes(h, n)
                  /\ IsMultiple(u, gexp(x), z, n) /\ IsSumOf(h, p, u, n)
  BY <1>1, FactorParts
<1>3. Deriv(h, n, e) = d \oplus Deriv(u, n, e)
  BY <1>1, <1>2, DerivOfSum
<1>4. Deriv(u, n, e) = gmult(gexp(x), Deriv(z, n, e))
  BY <1>1, <1>2, DerivOfMultiple
<1>5. Deriv(z, n, e) = a
  BY <1>2, DerivOfUp
<1>6. v = a \oplus gmult(gexp(e), d)
  BY <1>1, ValueByParity
<1>7. d \in Byte /\ v \in Byte /\ a \in Byte
  BY <1>1, OddType, ValueType, EvenType, SumType
<1>8. gmult(gexp(x + e), d) = gmult(gexp(x), gmult(gexp(e), d))
  BY <1>7, ExpTimes
<1>. DEFINE c == gmult(gexp(e), d)
            y == gexp(x)
<1>9. c \in Byte /\ y \in Byte
  BY <1>1, <1>7, MultType
<1>. HIDE DEF n, d, v, a, c, y
<1>10. a = v \oplus c
  BY <1>6, <1>7, <1>9, XorCancels DEF c
<1>11. gmult(y, a) = gmult(y, v) \oplus gmult(y, c) /\ gmult(y, v) \in Byte /\ gmult(y, c) \in Byte
  BY <1>7, <1>9, <1>10, MultDistributes, MultType
<1>12. d \oplus (gmult(y, v) \oplus gmult(y, c)) = (d \oplus gmult(y, c)) \oplus gmult(y, v)
  BY <1>7, <1>11, XorAssociates, XorCommutes
<1>13. Deriv(h, n, e) = d \oplus gmult(y, a)
  BY <1>3, <1>4, <1>5 DEF y
<1>14. gmult(gexp(x + e), d) = gmult(y, c)
  BY <1>8 DEF y, c
<1> QED
  BY <1>11, <1>12, <1>13, <1>14 DEF n, d, v, y

\* Where a locator polynomial is 0, and that its derivative is not 0 there.
LEMMA ExpIsOne ==
  ASSUME NEW x \in 0 .. 254, NEW q \in 1 .. 255
  PROVE  gexp(x + q) = 1 <=> x = 255 - q
<1>1. x + q \in Nat /\ (x + q) % 255 \in 0 .. 254 /\ ((x + q) % 255 = 0 <=> x = 255 - q)
  <2>. DEFINE s == x + q
  <2>1. s \in 1 .. 509 /\ (s = 255 <=> x = 255 - q)
    OBVIOUS
  <2>. HIDE DEF s
  <2>2. CASE s \in 1 .. 254
    <3>1. s % 255 = s
      BY <2>2
    <3>2. s \in Nat /\ s % 255 \in 0 .. 254 /\ (s % 255 = 0 <=> s = 255)
      BY <2>2, <3>1
    <3> QED
      BY <2>1, <3>2 DEF s
  <2>3. CASE s = 255
    <3>1. s % 255 = 0
      BY <2>3
    <3>2. s \in Nat /\ s % 255 \in 0 .. 254 /\ (s % 255 = 0 <=> s = 255)
      BY <2>3, <3>1
    <3> QED
      BY <2>1, <3>2 DEF s
  <2>4. CASE s \in 256 .. 509
    <3>1. s % 255 = s - 255
      BY <2>4
    <3>2. s \in Nat /\ s % 255 \in 0 .. 254 /\ (s % 255 = 0 <=> s = 255)
      BY <2>4, <3>1
    <3> QED
      BY <2>1, <3>2 DEF s
  <2>5. s \in 1 .. 254 \/ s = 255 \/ s \in 256 .. 509
    BY <2>1
  <2> QED
    BY <2>2, <2>3, <2>4, <2>5
<1>2. gexp((x + q) % 255) = gexp(x + q) /\ gexp(0) = 1
  BY <1>1, ExpModulo, ExpNext
<1>3. gexp(x + q) = 1 => (x + q) % 255 = 0
  <2>. DEFINE s == (x + q) % 255
  <2>1. 0 \in 0 .. 254 /\ s \in 0 .. 254
    BY <1>1
  <2>2. gexp(s) = gexp(x + q)
    BY <1>2
  <2>. HIDE DEF s
  <2>3. gexp(s) = gexp(0) => s = 0
    BY <2>1, ExpInjective
  <2> QED
    BY <1>2, <2>2, <2>3 DEF s
<1> QED
  BY <1>1, <1>2, <1>3

LEMMA ExpsOfOne == \A x \in 0 .. 254, q \in 1 .. 255 : gexp(x + q) = 1 <=> x = 255 - q
BY ExpIsOne

LEMMA FactorZero ==
  ASSUME NEW v \in Byte, NEW y \in Byte
  PROVE  v \oplus gmult(y, v) = 0 <=> v = 0 \/ y = 1
<1>1. v \oplus gmult(y, v) = gmult(1 \oplus y, v) /\ 1 \oplus y \in Byte
  <2>1. gmult(1 \oplus y, v) = gmult(1, v) \oplus gmult(y, v)
    BY ZeroIsByte, MultDistributes
  <2> QED
    BY <2>1, MultOne, ZeroIsByte, XorType
<1>2. 1 \oplus y = 0 <=> y = 1
  BY ZeroIsByte, XorCancels
<1> QED
  BY <1>1, <1>2, MultZero, MultType

LEMMA ConstantValue ==
  ASSUME NEW npar \in Nat \ {0}, NEW e \in Nat
  PROVE  Value(Constant(1, npar), 2 * npar, e) = 1
<1>. DEFINE p == Constant(1, npar)
            n == 2 * npar
<1>1. p[0] = 1 /\ \A i \in 1 .. n - 1 : p[i] = 0
  <2>1. \A m \in 0 .. n - 1 : p[m] = IF m = 0 THEN 1 ELSE 0
    BY DegreesSize DEF Constant
  <2>2. 0 \in 0 .. n - 1 /\ \A i \in 1 .. n - 1 : i \in 0 .. n - 1 /\ i # 0
    OBVIOUS
  <2>. HIDE DEF p, n
  <2> QED
    BY <2>1, <2>2
<1>2. n \in Nat /\ 1 <= n /\ 0 + 1 = 1 /\ e * 0 = 0
  OBVIOUS
<1>3. Bytes(p, 1)
  BY <1>1, ZeroIsByte DEF Bytes
<1>. HIDE DEF p, n
<1>4. Value(p, n, e) = Value(p, 1, e)
  BY <1>1, <1>2, <1>3, ValueThenZeros
<1>5. Value(p, 0 + 1, e) = Value(p, 0, e) \oplus gmult(p[0], gexp(e * 0))
  BY <1>2, <1>3, ValueNext
<1>6. gmult(1, 1) = 1 /\ 0 \oplus 1 = 1
  BY ZeroIsByte, MultOne, XorZero
<1> QED
  BY <1>1, <1>2, <1>4, <1>5, <1>6, ValueNone, ExpNext DEF p, n

IsRootAt(g, X, l, npar, q) ==
    Value(g[l], 2 * npar, q) = 0 <=> \E j \in 1 .. l : X[j] = 255 - q

\* The roots of the locator polynomial are the inverses of the locations, and
\* no others.
LEMMA LocatorRoots ==
  ASSUME NEW npar \in Nat \ {0}, NEW L \in 0 .. npar, NEW X, Locations(X, L), NEW g,
         Locator(g, X, L, npar), NEW q \in 1 .. 255
  PROVE  \A l \in 0 .. L : IsRootAt(g, X, l, npar, q)
<1>. DEFINE S == {l \in Nat : l <= L => IsRootAt(g, X, l, npar, q)}
<1>0. q \in Nat /\ L \in Nat
  OBVIOUS
<1>1. 0 \in S
  <2>1. Value(g[0], 2 * npar, q) = 1
    BY <1>0, ConstantValue DEF Locator
  <2> QED
    BY <2>1 DEF IsRootAt
<1>2. ASSUME NEW l \in Nat, l \in S PROVE l + 1 \in S
  <2>. SUFFICES ASSUME l + 1 <= L PROVE IsRootAt(g, X, l + 1, npar, q)
    OBVIOUS
  <2>. DEFINE v == Value(g[l], 2 * npar, q)
              x == X[l + 1]
              y == gexp(x + q)
              n == 2 * npar
  <2>1. l + 1 \in 1 .. L /\ (l + 1) - 1 = l /\ n \in Nat \ {0} /\ n \in Nat
    OBVIOUS
  <2>2. /\ IsFactor(g[l + 1], g[l], x, n) /\ x \in Nat /\ x \in 0 .. 254
        /\ Bytes(g[l], n) /\ g[l][n - 1] = 0
    <3>. DEFINE i == l + 1
    <3>1. i \in 1 .. L /\ i - 1 = l
      OBVIOUS
    <3>. HIDE DEF i
    <3>2. /\ IsFactor(g[i], g[i - 1], X[i], n) /\ X[i] \in Nat /\ X[i] \in 0 .. 254
          /\ Bytes(g[i - 1], n) /\ g[i - 1][n - 1] = 0
      BY <3>1, LocatorStep
    <3> QED
      BY <3>1, <3>2 DEF i
  <2>3. v \in Byte
    BY <1>0, <2>1, <2>2, ValueType
  <2>4. Value(g[l + 1], n, q) = v \oplus gmult(y, v)
    BY <1>0, <2>1, <2>2, FactorValue
  <2>5. y \in Byte
    <3>1. x + q \in Nat
      BY <1>0, <2>2
    <3> QED
      BY <3>1, ExpNotZero
  <2>6. y = 1 <=> x = 255 - q
    <3>1. x \in 0 .. 254
      BY <2>2
    <3>. HIDE DEF x
    <3>2. gexp(x + q) = 1 <=> x = 255 - q
      BY <3>1, ExpIsOne
    <3> QED
      BY <3>2
  <2>7. v = 0 <=> \E j \in 1 .. l : X[j] = 255 - q
    BY <1>2 DEF IsRootAt
  <2>8. Value(g[l + 1], n, q) = 0 <=> v = 0 \/ y = 1
    BY <2>3, <2>4, <2>5, FactorZero
  <2>9. (\E j \in 1 .. l + 1 : X[j] = 255 - q) <=> (\E j \in 1 .. l : X[j] = 255 - q) \/ x = 255 - q
    <3>1. \A j \in 1 .. l + 1 : j \in 1 .. l \/ j = l + 1
      OBVIOUS
    <3>2. \A j \in 1 .. l : j \in 1 .. l + 1
      OBVIOUS
    <3>3. l + 1 \in 1 .. l + 1
      OBVIOUS
    <3> QED
      BY <3>1, <3>2, <3>3
  <2> QED
    BY <2>6, <2>7, <2>8, <2>9 DEF IsRootAt
<1>3. \A l \in Nat : l \in S
  <2>. HIDE DEF S
  <2> QED
    BY <1>1, <1>2, SetInduction
<1> QED
  BY <1>0, <1>3

DerivNext(g, X, i, npar, q) ==
    LET n == 2 * npar
        d == Deriv(g[i - 1], n, q)
        v == Value(g[i - 1], n, q)
        y == gexp(X[i] + q)
    IN  /\ Deriv(g[i], n, q) = (d \oplus gmult(y, d)) \oplus gmult(gexp(X[i]), v)
        /\ d \in Byte /\ v \in Byte /\ y \in Byte /\ gexp(X[i]) \in Byte /\ gexp(X[i]) # 0
        /\ y = 1 <=> X[i] = 255 - q
        /\ v = 0 <=> \E j \in 1 .. i - 1 : X[j] = 255 - q

LEMMA DerivStep ==
  ASSUME NEW npar \in Nat \ {0}, NEW L \in 0 .. npar, NEW X, Locations(X, L), NEW g,
         Locator(g, X, L, npar), NEW i \in 1 .. L, NEW q \in 1 .. 255
  PROVE  DerivNext(g, X, i, npar, q)
<1>. DEFINE n == 2 * npar
<1>0. q \in Nat
  OBVIOUS
<1>1. /\ IsFactor(g[i], g[i - 1], X[i], n) /\ X[i] \in Nat /\ X[i] \in 0 .. 254
      /\ Bytes(g[i - 1], n)
  BY LocatorStep
<1>2. n \in Nat /\ npar \in Nat /\ X[i] + q \in Nat
  BY <1>0, <1>1
<1>3. Deriv(g[i - 1], n, q) \in Byte /\ Value(g[i - 1], n, q) \in Byte
  <2>1. Bytes(g[i - 1], n) /\ n \in Nat
    BY <1>1, <1>2
  <2>. HIDE DEF n
  <2>2. Deriv(g[i - 1], n, q) \in Byte
    BY <1>0, <2>1, OddType
  <2>3. Value(g[i - 1], n, q) \in Byte
    BY <1>0, <2>1, ValueType
  <2> QED
    BY <2>2, <2>3
<1>4. gexp(X[i] + q) \in Byte /\ gexp(X[i]) \in Byte /\ gexp(X[i]) # 0
  BY <1>1, <1>2, ExpNotZero
<1>5. gexp(X[i] + q) = 1 <=> X[i] = 255 - q
  BY <1>1, ExpsOfOne, Zenon
<1>6. Value(g[i - 1], n, q) = 0 <=> \E j \in 1 .. i - 1 : X[j] = 255 - q
  <2>1. i - 1 \in 0 .. L
    OBVIOUS
  <2>2. IsRootAt(g, X, i - 1, npar, q)
    BY <1>0, <2>1, LocatorRoots
  <2> QED
    BY <2>2 DEF IsRootAt
<1>7. Deriv(g[i], n, q) = (Deriv(g[i - 1], n, q) \oplus gmult(gexp(X[i] + q), Deriv(g[i - 1], n, q)))
                            \oplus gmult(gexp(X[i]), Value(g[i - 1], n, q))
  BY <1>1, <1>2, FactorDeriv
<1> QED
  BY <1>3, <1>4, <1>5, <1>6, <1>7 DEF DerivNext

\* At such a root its derivative is not 0: the locations are distinct.
LEMMA LocatorDeriv ==
  ASSUME NEW npar \in Nat \ {0}, NEW L \in 0 .. npar, NEW X, Locations(X, L), Distinct(X, L), NEW g,
         Locator(g, X, L, npar), NEW l \in 1 .. L
  PROVE  \A i \in l .. L : Deriv(g[i], 2 * npar, 255 - X[l]) # 0
<1>. DEFINE q == 255 - X[l]
            n == 2 * npar
            S == {i \in Nat : l + i <= L => Deriv(g[l + i], n, q) # 0}
<1>0. q \in 1 .. 255 /\ q \in Nat /\ X[l] \in 0 .. 254 /\ X[l] = 255 - q /\ L \in Nat /\ l \in Nat
  <2>1. X[l] \in 0 .. 254
    BY LocatorStep
  <2> QED
    BY <2>1
<1>. HIDE DEF q
<1>1. \A i \in 1 .. L : DerivNext(g, X, i, npar, q)
  BY <1>0, DerivStep
<1>. HIDE DEF n
<1>2. 0 \in S
  <2>. DEFINE d == Deriv(g[l - 1], n, q)
              v == Value(g[l - 1], n, q)
              y == gexp(X[l] + q)
              x == gexp(X[l])
  <2>1. /\ Deriv(g[l], n, q) = (d \oplus gmult(y, d)) \oplus gmult(x, v)
        /\ d \in Byte /\ v \in Byte /\ y \in Byte /\ x \in Byte /\ x # 0
        /\ y = 1 <=> X[l] = 255 - q
        /\ v = 0 <=> \E j \in 1 .. l - 1 : X[j] = 255 - q
    <3>1. DerivNext(g, X, l, npar, q)
      BY <1>1
    <3> QED
      BY <3>1 DEF DerivNext, n
  <2>2. ~ \E j \in 1 .. l - 1 : X[j] = 255 - q
    <3>1. \A j \in 1 .. l - 1 : j \in 1 .. L /\ j # l
      OBVIOUS
    <3> QED
      BY <1>0, <3>1 DEF Distinct
  <2>. HIDE DEF d, v, y, x
  <2>3. v # 0 /\ y = 1
    BY <1>0, <2>1, <2>2
  <2>4. d \oplus gmult(y, d) = 0
    BY <2>1, <2>3, FactorZero
  <2>5. gmult(x, v) \in Byte /\ gmult(x, v) # 0
    BY <2>1, <2>3, MultType
  <2>6. Deriv(g[l], n, q) # 0
    BY <2>1, <2>4, <2>5, XorZero
  <2>7. l + 0 = l
    OBVIOUS
  <2> QED
    BY <2>6, <2>7
<1>3. ASSUME NEW i \in Nat, i \in S PROVE i + 1 \in S
  <2>. SUFFICES ASSUME l + (i + 1) <= L PROVE Deriv(g[l + (i + 1)], n, q) # 0
    OBVIOUS
  <2>. DEFINE m == l + (i + 1)
              d == Deriv(g[l + i], n, q)
              v == Value(g[l + i], n, q)
              y == gexp(X[m] + q)
              x == gexp(X[m])
  <2>1. m \in 1 .. L /\ m - 1 = l + i /\ l \in 1 .. m - 1 /\ l # m
    OBVIOUS
  <2>2. /\ Deriv(g[m], n, q) = (d \oplus gmult(y, d)) \oplus gmult(x, v)
        /\ d \in Byte /\ v \in Byte /\ y \in Byte /\ x \in Byte /\ x # 0
        /\ y = 1 <=> X[m] = 255 - q
        /\ v = 0 <=> \E j \in 1 .. m - 1 : X[j] = 255 - q
    <3>1. DerivNext(g, X, m, npar, q)
      BY <1>1, <2>1
    <3> QED
      BY <2>1, <3>1 DEF DerivNext, n
  <2>3. v = 0
    BY <1>0, <2>1, <2>2
  <2>4. y # 1
    <3>1. X[m] # X[l]
      BY <2>1 DEF Distinct
    <3> QED
      BY <1>0, <2>2, <3>1
  <2>5. d # 0
    BY <1>3
  <2>. HIDE DEF d, v, y, x, m
  <2>6. d \oplus gmult(y, d) # 0 /\ d \oplus gmult(y, d) \in Byte
    BY <2>2, <2>4, <2>5, FactorZero, MultType, XorType
  <2>7. Deriv(g[m], n, q) = d \oplus gmult(y, d)
    BY <2>2, <2>3, <2>6, MultZero, XorZero
  <2> QED
    BY <2>6, <2>7 DEF m
<1>4. \A i \in Nat : i \in S
  <2>. HIDE DEF S
  <2> QED
    BY <1>2, <1>3, SetInduction
<1>5. ASSUME NEW i \in l .. L PROVE Deriv(g[i], n, q) # 0
  <2>1. i - l \in Nat /\ l + (i - l) = i /\ i <= L
    OBVIOUS
  <2> QED
    BY <1>4, <2>1
<1> QED
  BY <1>5 DEF n, q

-----------------------------------------------------------------------------
(* Products of a polynomial and a power series. *)

\* The coefficients of the product of two polynomials.
ConvTerms(p, s, m) == [j \in 0 .. m |-> gmult(p[j], s[m - j])]
Conv(p, s, m) == XorSum(ConvTerms(p, s, m), m + 1)

LEMMA ConvType ==
  ASSUME NEW n \in Nat, NEW p, NEW s, Bytes(p, n), Bytes(s, n), NEW m \in 0 .. n - 1
  PROVE  /\ Bytes(ConvTerms(p, s, m), m + 1) /\ Conv(p, s, m) \in Byte
         /\ m \in Nat /\ m + 1 \in Nat
<1>1. ASSUME NEW j \in 0 .. m PROVE ConvTerms(p, s, m)[j] \in Byte
  <2>1. p[j] \in Byte /\ s[m - j] \in Byte
    BY DEF Bytes
  <2> QED
    BY <2>1, MultType DEF ConvTerms
<1>2. (m + 1) - 1 = m /\ m + 1 \in Nat
  OBVIOUS
<1>3. Bytes(ConvTerms(p, s, m), m + 1)
  BY <1>1, <1>2 DEF Bytes
<1> QED
  BY <1>2, <1>3, SumType DEF Conv

\* The product with a series is linear in the polynomial.
LEMMA ConvOfSum ==
  ASSUME NEW n \in Nat, NEW p, NEW u, NEW h, NEW s, Bytes(p, n), Bytes(u, n), Bytes(s, n),
         IsSumOf(h, p, u, n), NEW m \in 0 .. n - 1
  PROVE  /\ Conv(h, s, m) = Conv(p, s, m) \oplus Conv(u, s, m)
         /\ Conv(s, h, m) = Conv(s, p, m) \oplus Conv(s, u, m)
<1>1. m + 1 \in Nat /\ (m + 1) - 1 = m
  OBVIOUS
<1>2. ASSUME NEW j \in 0 .. m
      PROVE  /\ ConvTerms(h, s, m)[j] = ConvTerms(p, s, m)[j] \oplus ConvTerms(u, s, m)[j]
             /\ ConvTerms(s, h, m)[j] = ConvTerms(s, p, m)[j] \oplus ConvTerms(s, u, m)[j]
  <2>1. m - j \in 0 .. n - 1 /\ j \in 0 .. n - 1
    OBVIOUS
  <2>2. /\ h[j] = p[j] \oplus u[j] /\ p[j] \in Byte /\ u[j] \in Byte /\ s[j] \in Byte
        /\ h[m - j] = p[m - j] \oplus u[m - j] /\ p[m - j] \in Byte /\ u[m - j] \in Byte
        /\ s[m - j] \in Byte
    BY <2>1 DEF IsSumOf, Bytes
  <2>3. /\ gmult(h[j], s[m - j]) = gmult(p[j], s[m - j]) \oplus gmult(u[j], s[m - j])
        /\ gmult(s[j], h[m - j]) = gmult(s[j], p[m - j]) \oplus gmult(s[j], u[m - j])
    BY <2>2, MultDistributes
  <2> QED
    BY <2>3 DEF ConvTerms
<1>3. /\ Bytes(ConvTerms(p, s, m), m + 1) /\ Bytes(ConvTerms(u, s, m), m + 1)
      /\ Bytes(ConvTerms(s, p, m), m + 1) /\ Bytes(ConvTerms(s, u, m), m + 1)
  BY ConvType
<1>4. Conv(h, s, m) = Conv(p, s, m) \oplus Conv(u, s, m)
  <2>. DEFINE a == ConvTerms(p, s, m)
              b == ConvTerms(u, s, m)
              c == ConvTerms(h, s, m)
  <2>1. Bytes(a, m + 1) /\ Bytes(b, m + 1) /\ \A j \in 0 .. (m + 1) - 1 : c[j] = a[j] \oplus b[j]
    BY <1>1, <1>2, <1>3
  <2>. HIDE DEF a, b, c
  <2>2. XorSum(c, m + 1) = XorSum(a, m + 1) \oplus XorSum(b, m + 1)
    BY <1>1, <2>1, SumOfSums
  <2> QED
    BY <2>2 DEF a, b, c, Conv
<1>5. Conv(s, h, m) = Conv(s, p, m) \oplus Conv(s, u, m)
  <2>. DEFINE a == ConvTerms(s, p, m)
              b == ConvTerms(s, u, m)
              c == ConvTerms(s, h, m)
  <2>1. Bytes(a, m + 1) /\ Bytes(b, m + 1) /\ \A j \in 0 .. (m + 1) - 1 : c[j] = a[j] \oplus b[j]
    BY <1>1, <1>2, <1>3
  <2>. HIDE DEF a, b, c
  <2>2. XorSum(c, m + 1) = XorSum(a, m + 1) \oplus XorSum(b, m + 1)
    BY <1>1, <2>1, SumOfSums
  <2> QED
    BY <2>2 DEF a, b, c, Conv
<1> QED
  BY <1>4, <1>5

LEMMA ConvOfMultiple ==
  ASSUME NEW n \in Nat, NEW p, NEW u, NEW s, Bytes(p, n), Bytes(s, n), NEW x \in Byte,
         IsMultiple(u, x, p, n), NEW m \in 0 .. n - 1
  PROVE  Conv(u, s, m) = gmult(x, Conv(p, s, m))
<1>. DEFINE a == ConvTerms(p, s, m)
            b == ConvTerms(u, s, m)
<1>1. m + 1 \in Nat /\ (m + 1) - 1 = m /\ Bytes(a, m + 1)
  BY ConvType
<1>2. ASSUME NEW j \in 0 .. m PROVE b[j] = gmult(x, a[j])
  <2>1. m - j \in 0 .. n - 1 /\ j \in 0 .. n - 1
    OBVIOUS
  <2>2. u[j] = gmult(x, p[j]) /\ p[j] \in Byte /\ s[m - j] \in Byte
    BY <2>1 DEF IsMultiple, Bytes
  <2>3. gmult(gmult(x, p[j]), s[m - j]) = gmult(x, gmult(p[j], s[m - j]))
    BY <2>2, MultAssociates
  <2> QED
    BY <2>2, <2>3 DEF ConvTerms
<1>. HIDE DEF a, b
<1>3. XorSum(b, m + 1) = gmult(x, XorSum(a, m + 1))
  BY <1>1, <1>2, SumOfMultiples
<1> QED
  BY <1>3 DEF a, b, Conv

LEMMA ConvOfUp ==
  ASSUME NEW n \in Nat, NEW p, NEW z, NEW s, Bytes(p, n), Bytes(z, n), Bytes(s, n),
         IsUp(z, p, n), NEW m \in 0 .. n - 1
  PROVE  Conv(z, s, m) = IF m = 0 THEN 0 ELSE Conv(p, s, m - 1)
<1>. DEFINE a == ConvTerms(z, s, m)
            b == ConvTerms(p, s, m - 1)
<1>1. m \in Nat /\ m + 1 \in Nat /\ Bytes(a, m + 1)
  BY ConvType
<1>2. a[0] = 0
  <2>1. 0 \in 0 .. m /\ 0 \in 0 .. n - 1
    OBVIOUS
  <2>2. z[0] = 0
    BY <2>1 DEF IsUp
  <2> QED
    BY <2>1, <2>2, MultZero DEF ConvTerms
<1>3. ASSUME NEW j \in 0 .. m - 1 PROVE b[j] = a[j + 1]
  <2>1. j + 1 \in 0 .. n - 1 /\ j + 1 # 0 /\ (j + 1) - 1 = j /\ m - (j + 1) = (m - 1) - j
        /\ j + 1 \in 0 .. m
    OBVIOUS
  <2>2. z[j + 1] = p[j]
    BY <2>1 DEF IsUp
  <2> QED
    BY <2>1, <2>2 DEF ConvTerms
<1>4. m # 0 => XorSum(b, m) \in Byte /\ Conv(p, s, m - 1) = XorSum(b, m)
  <2>. SUFFICES ASSUME m # 0 PROVE XorSum(b, m) \in Byte /\ Conv(p, s, m - 1) = XorSum(b, m)
    OBVIOUS
  <2>1. m - 1 \in 0 .. n - 1 /\ (m - 1) + 1 = m
    OBVIOUS
  <2> QED
    BY <2>1, ConvType DEF Conv
<1>. HIDE DEF a, b
<1>5. XorSum(a, m + 1) = a[0] \oplus XorSum(b, m)
  BY <1>1, <1>3, SumFirst
<1>6. Conv(z, s, m) = XorSum(a, m + 1)
  BY DEF a, Conv
<1> QED
  BY <1>2, <1>4, <1>5, <1>6, XorZero, ZeroIsByte, SumNone

\* A product with 1 + x z.
LEMMA ConvOfFactor ==
  ASSUME NEW n \in Nat, NEW p, NEW h, NEW s, Bytes(p, n), Bytes(s, n), NEW x \in Nat,
         IsFactor(h, p, x, n), NEW m \in 0 .. n - 1
  PROVE  /\ m = 0 => Conv(h, s, m) = Conv(p, s, m)
         /\ m # 0 => Conv(h, s, m) = Conv(p, s, m) \oplus gmult(gexp(x), Conv(p, s, m - 1))
<1>1. PICK z, u : /\ IsUp(z, p, n) /\ Bytes(z, n) /\ Bytes(u, n) /\ Bytes(h, n)
                  /\ IsMultiple(u, gexp(x), z, n) /\ IsSumOf(h, p, u, n)
  BY FactorParts
<1>2. gexp(x) \in Byte
  BY ExpNotZero
<1>3. Conv(h, s, m) = Conv(p, s, m) \oplus Conv(u, s, m)
  BY <1>1, ConvOfSum
<1>4. Conv(u, s, m) = gmult(gexp(x), Conv(z, s, m))
  BY <1>1, <1>2, ConvOfMultiple
<1>5. Conv(z, s, m) = IF m = 0 THEN 0 ELSE Conv(p, s, m - 1)
  BY <1>1, ConvOfUp
<1>6. Conv(p, s, m) \in Byte
  BY ConvType
<1> QED
  BY <1>3, <1>4, <1>5, <1>6, MultZero, XorZero

\* A geometric series: 1 + x z makes it finite.
IsSeries(t, y, x, n) == \A j \in 0 .. n - 1 : t[j] = gmult(y, gexp(x * (j + 1)))

LEMMA SeriesBytes ==
  ASSUME NEW n \in Nat, NEW t, NEW y \in Byte, NEW x \in Nat, IsSeries(t, y, x, n)
  PROVE  /\ Bytes(t, n)
         /\ \A j \in 0 .. n - 1 : j + 1 < n => t[j + 1] = gmult(gexp(x), t[j])
         /\ n # 0 => t[0] = gmult(y, gexp(x))
<1>1. \A j \in 0 .. n - 1 : x * (j + 1) \in Nat /\ x * ((j + 1) + 1) = x + x * (j + 1)
  OBVIOUS
<1>2. \A j \in 0 .. n - 1 : gexp(x * (j + 1)) \in Byte /\ gexp(x) \in Byte
  BY <1>1, ExpNotZero
<1>3. \A j \in 0 .. n - 1 : t[j] \in Byte
  BY <1>2, MultType DEF IsSeries
<1>4. ASSUME NEW j \in 0 .. n - 1, j + 1 < n PROVE t[j + 1] = gmult(gexp(x), t[j])
  <2>1. j + 1 \in 0 .. n - 1
    BY <1>4
  <2>2. t[j + 1] = gmult(y, gexp(x + x * (j + 1))) /\ t[j] = gmult(y, gexp(x * (j + 1)))
    BY <1>1, <2>1 DEF IsSeries
  <2>3. gexp(x + x * (j + 1)) = gmult(gexp(x), gexp(x * (j + 1)))
    BY <1>1, MultExp
  <2> QED
    BY <1>2, <2>2, <2>3, MultAssociates, MultCommutes
<1>5. n # 0 => t[0] = gmult(y, gexp(x))
  <2>1. x * (0 + 1) = x /\ (n # 0 => 0 \in 0 .. n - 1)
    OBVIOUS
  <2> QED
    BY <2>1 DEF IsSeries
<1> QED
  BY <1>3, <1>4, <1>5 DEF Bytes

LEMMA ConvNextOfSeries ==
  ASSUME NEW n \in Nat, NEW p, NEW t, Bytes(p, n), NEW y \in Byte, NEW x \in Nat,
         IsSeries(t, y, x, n), NEW m \in 1 .. n - 1
  PROVE  Conv(p, t, m) = gmult(gexp(x), Conv(p, t, m - 1)) \oplus gmult(p[m], t[0])
<1>. DEFINE a == ConvTerms(p, t, m)
            b == ConvTerms(p, t, m - 1)
<1>0. /\ Bytes(t, n) /\ \A j \in 0 .. n - 1 : j + 1 < n => t[j + 1] = gmult(gexp(x), t[j])
      /\ gexp(x) \in Byte
  BY SeriesBytes, ExpNotZero
<1>1. m \in Nat /\ m \in 0 .. n - 1 /\ m - 1 \in 0 .. n - 1 /\ (m - 1) + 1 = m
  OBVIOUS
<1>2. Bytes(a, m + 1) /\ Bytes(b, m) /\ Conv(p, t, m - 1) = XorSum(b, m)
  BY <1>0, <1>1, ConvType DEF Conv
<1>3. ASSUME NEW j \in 0 .. m - 1 PROVE a[j] = gmult(gexp(x), b[j])
  <2>. DEFINE i == (m - 1) - j
  <2>1. i \in 0 .. n - 1 /\ i + 1 < n /\ i + 1 = m - j /\ j \in 0 .. n - 1 /\ j \in 0 .. m
    OBVIOUS
  <2>2. a[j] = gmult(p[j], t[i + 1]) /\ b[j] = gmult(p[j], t[i])
    BY <2>1 DEF ConvTerms
  <2>. HIDE DEF i
  <2>3. t[i + 1] = gmult(gexp(x), t[i]) /\ t[i] \in Byte /\ p[j] \in Byte
    BY <1>0, <2>1 DEF Bytes
  <2> QED
    BY <1>0, <2>2, <2>3, MultAssociates, MultCommutes
<1>4. a[m] = gmult(p[m], t[0])
  BY DEF ConvTerms
<1>5. Conv(p, t, m) = XorSum(a, m + 1)
  BY DEF Conv
<1>. HIDE DEF a, b
<1>6. XorSum(a, m) = gmult(gexp(x), XorSum(b, m))
  BY <1>0, <1>1, <1>2, <1>3, SumOfMultiples
<1>7. XorSum(a, m + 1) = XorSum(a, m) \oplus a[m]
  BY <1>1, <1>2, SumNext
<1> QED
  BY <1>2, <1>4, <1>5, <1>6, <1>7

LEMMA ConvFirst ==
  ASSUME NEW n \in Nat \ {0}, NEW p, NEW s, Bytes(p, n), Bytes(s, n)
  PROVE  Conv(p, s, 0) = gmult(p[0], s[0])
<1>. DEFINE a == ConvTerms(p, s, 0)
<1>1. 0 \in 0 .. n - 1 /\ 0 + 1 = 1 /\ n \in Nat
  OBVIOUS
<1>2. Bytes(a, 0 + 1)
  BY <1>1, ConvType
<1>3. a[0] = gmult(p[0], s[0]) /\ Conv(p, s, 0) = XorSum(a, 0 + 1)
  BY DEF ConvTerms, Conv
<1>4. a[0] \in Byte
  BY <1>1, <1>2 DEF Bytes
<1>. HIDE DEF a
<1>5. XorSum(a, 0 + 1) = XorSum(a, 0) \oplus a[0]
  BY <1>2, SumNext
<1> QED
  BY <1>3, <1>4, <1>5, SumNone, XorZero

\* Together: what 1 + x z leaves of the product with a series.
LEMMA ConvFactorOfSeries ==
  ASSUME NEW n \in Nat, NEW p, NEW h, NEW t, Bytes(p, n), NEW y \in Byte, NEW x \in Nat,
         IsFactor(h, p, x, n), IsSeries(t, y, x, n), NEW m \in 0 .. n - 1
  PROVE  Conv(h, t, m) = gmult(gmult(y, gexp(x)), p[m])
<1>1. Bytes(t, n) /\ gexp(x) \in Byte /\ t[0] = gmult(y, gexp(x)) /\ t[0] \in Byte /\ p[m] \in Byte
  <2>1. 0 \in 0 .. n - 1 /\ n # 0
    OBVIOUS
  <2> QED
    BY <2>1, SeriesBytes, ExpNotZero DEF Bytes
<1>2. /\ m = 0 => Conv(h, t, m) = Conv(p, t, m)
      /\ m # 0 => Conv(h, t, m) = Conv(p, t, m) \oplus gmult(gexp(x), Conv(p, t, m - 1))
  BY <1>1, ConvOfFactor
<1>3. CASE m = 0
  <2>1. Conv(p, t, 0) = gmult(p[0], t[0])
    <3>1. n \in Nat \ {0}
      OBVIOUS
    <3> QED
      BY <1>1, <3>1, ConvFirst
  <2>2. gmult(p[0], t[0]) = gmult(t[0], p[0])
    BY <1>1, <1>3, MultCommutes
  <2> QED
    BY <1>1, <1>2, <1>3, <2>1, <2>2
<1>4. CASE m # 0
  <2>. DEFINE c == gmult(gexp(x), Conv(p, t, m - 1))
              d == gmult(p[m], t[0])
  <2>1. m \in 1 .. n - 1 /\ m - 1 \in 0 .. n - 1
    BY <1>4
  <2>2. Conv(p, t, m) = c \oplus d
    BY <2>1, ConvNextOfSeries
  <2>3. c \in Byte /\ d \in Byte /\ d = gmult(t[0], p[m])
    BY <1>1, <2>1, ConvType, MultType, MultCommutes
  <2>4. Conv(h, t, m) = (c \oplus d) \oplus c
    BY <1>2, <1>4, <2>2
  <2>. HIDE DEF c, d
  <2>5. (c \oplus d) \oplus c = d
    BY <2>3, XorCommutes, XorCancels
  <2> QED
    BY <1>1, <2>3, <2>4, <2>5
<1> QED
  BY <1>3, <1>4

-----------------------------------------------------------------------------
(* The errors of a code word, and the modified omega. *)

\* Errors Y[1], ..., Y[L] at the locations X[1], ..., X[L]: s[l][j] is the sum of
\* the first l of them times the powers j + 1 of their locations.
PowerSums(s, X, Y, L, n) ==
    /\ \A l \in 0 .. L : Bytes(s[l], n)
    /\ \A j \in 0 .. n - 1 : s[0][j] = 0
    /\ \A l \in 1 .. L : \E t : IsSeries(t, Y[l], X[l], n) /\ IsSumOf(s[l], s[l - 1], t, n)
Errors(g, s, X, Y, L, npar) ==
    /\ L \in 0 .. npar
    /\ Locations(X, L)
    /\ \A l \in 1 .. L : Y[l] \in Byte
    /\ Locator(g, X, L, npar)
    /\ PowerSums(s, X, Y, L, 2 * npar)
Omega(g, s, l, npar) == [m \in 0 .. 2 * npar - 1 |-> Conv(g[l], s[l], m)]

LEMMA LocatorBytes ==
  ASSUME NEW npar \in Nat \ {0}, NEW L, NEW X, NEW g, Locator(g, X, L, npar), NEW l \in 0 .. L
  PROVE  g[l] \in Polys(npar) /\ Bytes(g[l], 2 * npar)
<1>1. g[l] \in Polys(npar)
  BY DEF Locator
<1> QED
  BY <1>1, PolyBytes


LEMMA OmegaBytes ==
  ASSUME NEW npar \in Nat \ {0}, NEW L, NEW X, NEW Y, NEW g, NEW s,
         Errors(g, s, X, Y, L, npar), NEW l \in 0 .. L
  PROVE  /\ Bytes(Omega(g, s, l, npar), 2 * npar) /\ Bytes(g[l], 2 * npar) /\ Bytes(s[l], 2 * npar)
         /\ 2 * npar \in Nat
<1>1. Bytes(s[l], 2 * npar) /\ Locator(g, X, L, npar)
  BY DEF Errors, PowerSums
<1>2. Bytes(g[l], 2 * npar) /\ 2 * npar \in Nat
  BY <1>1, LocatorBytes
<1>3. ASSUME NEW m \in 0 .. 2 * npar - 1 PROVE Omega(g, s, l, npar)[m] \in Byte
  <2>1. Conv(g[l], s[l], m) \in Byte
    BY <1>1, <1>2, ConvType
  <2> QED
    BY <2>1 DEF Omega
<1> QED
  BY <1>1, <1>2, <1>3 DEF Bytes

\* One more error: the product so far times 1 + x z, and a multiple of the
\* locator polynomial so far.
LEMMA OmegaParts ==
  ASSUME NEW npar \in Nat \ {0}, NEW L, NEW X, NEW Y, NEW g, NEW s,
         Errors(g, s, X, Y, L, npar), NEW l \in 1 .. L
  PROVE  \E f, u : /\ IsFactor(f, Omega(g, s, l - 1, npar), X[l], 2 * npar)
                   /\ IsMultiple(u, gmult(Y[l], gexp(X[l])), g[l - 1], 2 * npar)
                   /\ IsSumOf(Omega(g, s, l, npar), f, u, 2 * npar)
                   /\ Bytes(f, 2 * npar) /\ Bytes(u, 2 * npar)
<1>. DEFINE n == 2 * npar
            x == X[l]
            y == Y[l]
            p == g[l - 1]
            h == g[l]
            a == s[l - 1]
            w == Omega(g, s, l - 1, npar)
            f == [m \in 0 .. n - 1 |-> Conv(h, a, m)]
            u == [m \in 0 .. n - 1 |-> gmult(gmult(y, gexp(x)), p[m])]
<1>1. n \in Nat /\ l \in 0 .. L /\ l - 1 \in 0 .. L
  BY DEF Errors
<1>2. /\ L \in 0 .. npar /\ Locations(X, L) /\ y \in Byte /\ Locator(g, X, L, npar)
      /\ Bytes(a, n)
  BY <1>1 DEF Errors, PowerSums
<1>3. IsFactor(h, p, x, n) /\ x \in Nat /\ Bytes(h, n) /\ Bytes(p, n)
  BY <1>2, LocatorStep
<1>4. PICK t : IsSeries(t, y, x, n) /\ IsSumOf(s[l], a, t, n)
  BY DEF Errors, PowerSums
<1>5. Bytes(t, n)
  BY <1>1, <1>2, <1>3, <1>4, SeriesBytes
<1>6. \A m \in 0 .. n - 1 : f[m] = Conv(h, a, m) /\ u[m] = gmult(gmult(y, gexp(x)), p[m])
                              /\ w[m] = Conv(p, a, m)
                              /\ Omega(g, s, l, npar)[m] = Conv(h, s[l], m)
  BY DEF Omega
<1>. HIDE DEF n, x, y, p, h, a, w, f, u
<1>7. ASSUME NEW m \in 0 .. n - 1
      PROVE  f[m] = w[m] \oplus gmult(gexp(x), IF m = 0 THEN 0 ELSE w[m - 1])
  <2>1. /\ m = 0 => Conv(h, a, m) = Conv(p, a, m)
        /\ m # 0 => Conv(h, a, m) = Conv(p, a, m) \oplus gmult(gexp(x), Conv(p, a, m - 1))
    BY <1>1, <1>2, <1>3, ConvOfFactor
  <2>2. Conv(p, a, m) \in Byte
    BY <1>1, <1>2, <1>3, ConvType
  <2>3. m # 0 => m - 1 \in 0 .. n - 1
    BY <1>1
  <2>4. gmult(gexp(x), 0) = 0 /\ Conv(p, a, m) \oplus 0 = Conv(p, a, m)
    BY <2>2, MultZero, XorZero
  <2>5. CASE m = 0
    BY <1>6, <2>1, <2>4, <2>5
  <2>6. CASE m # 0
    BY <1>6, <2>1, <2>3, <2>6
  <2> QED
    BY <2>5, <2>6
<1>8. IsFactor(f, w, x, n)
  BY <1>7 DEF IsFactor
<1>9. IsMultiple(u, gmult(y, gexp(x)), p, n)
  BY <1>6 DEF IsMultiple
<1>10. ASSUME NEW m \in 0 .. n - 1 PROVE Omega(g, s, l, npar)[m] = f[m] \oplus u[m]
  <2>1. Conv(h, s[l], m) = Conv(h, a, m) \oplus Conv(h, t, m)
    BY <1>1, <1>2, <1>3, <1>4, <1>5, ConvOfSum
  <2>2. Conv(h, t, m) = gmult(gmult(y, gexp(x)), p[m])
    BY <1>1, <1>2, <1>3, <1>4, ConvFactorOfSeries
  <2> QED
    BY <1>6, <2>1, <2>2
<1>11. Bytes(f, n) /\ Bytes(u, n)
  <2>1. \A m \in 0 .. n - 1 : f[m] \in Byte
    BY <1>1, <1>2, <1>3, <1>6, ConvType
  <2>2. gmult(y, gexp(x)) \in Byte
    BY <1>2, <1>3, ExpNotZero, MultType
  <2>3. \A m \in 0 .. n - 1 : u[m] \in Byte
    BY <1>3, <1>6, <2>2, MultType DEF Bytes
  <2> QED
    BY <2>1, <2>3 DEF Bytes
<1>12. IsSumOf(Omega(g, s, l, npar), f, u, n)
  BY <1>10 DEF IsSumOf
<1> QED
  BY <1>8, <1>9, <1>11, <1>12 DEF n, x, y, p, w

\* omega, locator times syndromes, of l errors has no coefficient from l on.
LEMMA OmegaDegree ==
  ASSUME NEW npar \in Nat \ {0}, NEW L, NEW X, NEW Y, NEW g, NEW s,
         Errors(g, s, X, Y, L, npar)
  PROVE  \A l \in 0 .. L : \A m \in l .. 2 * npar - 1 : Omega(g, s, l, npar)[m] = 0
<1>. DEFINE n == 2 * npar
            S == {l \in Nat : l <= L => \A m \in l .. n - 1 : Omega(g, s, l, npar)[m] = 0}
<1>0. L \in 0 .. npar /\ L \in Nat /\ n \in Nat
  BY DEF Errors
<1>1. 0 \in S
  <2>1. ASSUME NEW m \in 0 .. n - 1 PROVE Conv(g[0], s[0], m) = 0
    <3>1. \A j \in 0 .. (m + 1) - 1 : s[0][m - j] = 0
      <4>1. \A j \in 0 .. (m + 1) - 1 : m - j \in 0 .. n - 1
        OBVIOUS
      <4> QED
        BY <4>1 DEF Errors, PowerSums
    <3>2. \A j \in 0 .. (m + 1) - 1 : ConvTerms(g[0], s[0], m)[j] = 0
      <4>1. \A j \in 0 .. (m + 1) - 1 : j \in 0 .. m
        OBVIOUS
      <4> QED
        BY <3>1, <4>1, MultZero DEF ConvTerms
    <3>3. m + 1 \in Nat
      OBVIOUS
    <3> QED
      BY <3>2, <3>3, SumOfZeros DEF Conv
  <2> QED
    BY <2>1 DEF Omega
<1>2. ASSUME NEW l \in Nat, l \in S PROVE l + 1 \in S
  <2>. SUFFICES ASSUME l + 1 <= L, NEW m \in l + 1 .. n - 1 PROVE Omega(g, s, l + 1, npar)[m] = 0
    OBVIOUS
  <2>. DEFINE i == l + 1
              x == X[i]
              v == Omega(g, s, i - 1, npar)
              w == Omega(g, s, i, npar)
              p == g[i - 1]
              c == gmult(Y[i], gexp(X[i]))
  <2>1. i \in 1 .. L /\ i - 1 = l /\ l \in 0 .. L /\ m \in 0 .. n - 1 /\ m # 0 /\ l <= L
        /\ m \in l .. n - 1 /\ m - 1 \in l .. n - 1 /\ m \in i .. n - 1
    BY <1>0
  <2>2. v[m] = 0 /\ v[m - 1] = 0
    BY <1>2, <2>1
  <2>. HIDE DEF i
  <2>3. p[m] = 0 /\ x \in Nat
    <3>1. Locations(X, L) /\ Locator(g, X, L, npar)
      BY DEF Errors
    <3>2. x \in Nat /\ ZerosFrom(g[i - 1], i, n)
      BY <1>0, <2>1, <3>1, LocatorStep
    <3> QED
      BY <2>1, <3>2 DEF ZerosFrom
  <2>4. PICK f, u : IsFactor(f, v, x, n) /\ IsMultiple(u, c, p, n) /\ IsSumOf(w, f, u, n)
    BY <2>1, OmegaParts
  <2>. HIDE DEF x, v, w, p, c, n
  <2>5. f[m] = v[m] \oplus gmult(gexp(x), v[m - 1])
    BY <2>1, <2>4 DEF IsFactor
  <2>6. u[m] = gmult(c, p[m]) /\ w[m] = f[m] \oplus u[m]
    BY <2>1, <2>4 DEF IsMultiple, IsSumOf
  <2>7. w[m] = 0
    BY <2>2, <2>3, <2>5, <2>6, MultZero, XorZero, ZeroIsByte
  <2> QED
    BY <2>7 DEF w, i
<1>3. \A l \in Nat : l \in S
  <2>. HIDE DEF S
  <2> QED
    BY <1>1, <1>2, SetInduction
<1> QED
  BY <1>0, <1>3

\* What one more error does to the value of omega at a point.
LEMMA OmegaValue ==
  ASSUME NEW npar \in Nat \ {0}, NEW L, NEW X, NEW Y, NEW g, NEW s,
         Errors(g, s, X, Y, L, npar), NEW l \in 1 .. L, NEW e \in Nat
  PROVE  LET v == Value(Omega(g, s, l - 1, npar), 2 * npar, e)
         IN  Value(Omega(g, s, l, npar), 2 * npar, e)
               = (v \oplus gmult(gexp(X[l] + e), v))
                   \oplus gmult(gmult(Y[l], gexp(X[l])), Value(g[l - 1], 2 * npar, e))
<1>. DEFINE n == 2 * npar
            x == X[l]
            a == Omega(g, s, l - 1, npar)
            w == Omega(g, s, l, npar)
            p == g[l - 1]
            c == gmult(Y[l], gexp(X[l]))
<1>1. n \in Nat /\ n \in Nat \ {0} /\ l \in 0 .. L /\ l - 1 \in 0 .. L /\ L \in 0 .. npar
      /\ n - 1 \in l - 1 .. n - 1
  BY DEF Errors
<1>2. Bytes(a, n) /\ Bytes(p, n)
  BY <1>1, OmegaBytes
<1>3. x \in Nat /\ c \in Byte
  <2>1. Locations(X, L) /\ Locator(g, X, L, npar) /\ Y[l] \in Byte
    BY DEF Errors
  <2>2. X[l] \in Nat
    BY <1>1, <2>1, LocatorStep
  <2> QED
    BY <2>1, <2>2, ExpNotZero, MultType
<1>4. a[n - 1] = 0
  BY <1>1, OmegaDegree
<1>5. PICK f, u : /\ IsFactor(f, a, x, n) /\ IsMultiple(u, c, p, n) /\ IsSumOf(w, f, u, n)
                  /\ Bytes(f, n) /\ Bytes(u, n)
  BY OmegaParts
<1>. HIDE DEF n, x, a, w, p, c
<1>6. Value(f, n, e) = Value(a, n, e) \oplus gmult(gexp(x + e), Value(a, n, e))
  BY <1>1, <1>2, <1>3, <1>4, <1>5, FactorValue
<1>7. Value(u, n, e) = gmult(c, Value(p, n, e))
  BY <1>1, <1>2, <1>3, <1>5, ValueOfMultiple DEF IsMultiple
<1>8. Value(w, n, e) = Value(f, n, e) \oplus Value(u, n, e)
  BY <1>1, <1>5, ValueOfSum DEF IsSumOf
<1> QED
  BY <1>6, <1>7, <1>8 DEF n, x, a, w, p, c

-----------------------------------------------------------------------------
(* Forney's formula: the value of an error at its location. *)

\* Forney's formula: the value of omega over the derivative of lambda, at the
\* inverse of a location, is the error there.
LEMMA ForneyValue ==
  ASSUME NEW npar \in Nat \ {0}, NEW L, NEW X, NEW Y, NEW g, NEW s,
         Errors(g, s, X, Y, L, npar), NEW l \in 1 .. L
  PROVE  LET q == 255 - X[l]
         IN  \A i \in l .. L : Value(Omega(g, s, i, npar), 2 * npar, q)
                                 = gmult(Y[l], Deriv(g[i], 2 * npar, q))
<1>. DEFINE q == 255 - X[l]
            n == 2 * npar
            c == Y[l]
            W(i) == Value(Omega(g, s, i, npar), n, q)
            S == {i \in Nat : l + i <= L => W(l + i) = gmult(c, Deriv(g[l + i], n, q))}
<1>0. /\ L \in 0 .. npar /\ Locations(X, L) /\ Locator(g, X, L, npar) /\ c \in Byte
      /\ \A i \in 1 .. L : Y[i] \in Byte
  BY DEF Errors
<1>1. q \in 1 .. 255 /\ q \in Nat /\ X[l] = 255 - q /\ X[l] \in 0 .. 254 /\ L \in Nat
      /\ l \in Nat /\ n \in Nat
  <2>1. X[l] \in 0 .. 254
    BY <1>0, LocatorStep
  <2> QED
    BY <1>0, <2>1
<1>. HIDE DEF q
<1>2. \A i \in 1 .. L : DerivNext(g, X, i, npar, q)
  BY <1>0, <1>1, DerivStep
<1>3. \A i \in 0 .. L : W(i) \in Byte
  BY <1>1, OmegaBytes, ValueType
<1>4. ASSUME NEW i \in 1 .. L
      PROVE  /\ W(i) = (W(i - 1) \oplus gmult(gexp(X[i] + q), W(i - 1)))
                         \oplus gmult(gmult(Y[i], gexp(X[i])), Value(g[i - 1], n, q))
             /\ W(i - 1) \in Byte
  <2>1. i - 1 \in 0 .. L
    BY <1>1
  <2> QED
    BY <1>1, <1>3, <2>1, OmegaValue
<1>. HIDE DEF W, n
<1>5. 0 \in S
  <2>. DEFINE d == Deriv(g[l - 1], n, q)
              v == Value(g[l - 1], n, q)
              y == gexp(X[l] + q)
              x == gexp(X[l])
              w == W(l - 1)
  <2>1. /\ Deriv(g[l], n, q) = (d \oplus gmult(y, d)) \oplus gmult(x, v)
        /\ d \in Byte /\ v \in Byte /\ y \in Byte /\ x \in Byte /\ y = 1
    <3>1. DerivNext(g, X, l, npar, q)
      BY <1>2
    <3> QED
      BY <1>1, <3>1 DEF DerivNext, n
  <2>2. W(l) = (w \oplus gmult(y, w)) \oplus gmult(gmult(c, x), v) /\ w \in Byte
    BY <1>4
  <2>. HIDE DEF d, v, y, x, w
  <2>3. d \oplus gmult(y, d) = 0 /\ w \oplus gmult(y, w) = 0
    BY <2>1, <2>2, FactorZero
  <2>4. gmult(x, v) \in Byte /\ gmult(gmult(c, x), v) = gmult(c, gmult(x, v))
        /\ gmult(c, gmult(x, v)) \in Byte
    <3>1. c \in Byte /\ x \in Byte /\ v \in Byte
      BY <1>0, <2>1
    <3>2. gmult(x, v) \in Byte
      BY <3>1, MultType
    <3>3. gmult(c, gmult(x, v)) \in Byte
      BY <3>1, <3>2, MultType
    <3>4. gmult(gmult(c, x), v) = gmult(c, gmult(x, v))
      BY <3>1, MultAssociates
    <3> QED
      BY <3>2, <3>3, <3>4
  <2>5. W(l) = gmult(c, Deriv(g[l], n, q))
    BY <2>1, <2>2, <2>3, <2>4, XorZero
  <2>6. l + 0 = l
    BY <1>1
  <2> QED
    BY <2>5, <2>6
<1>6. ASSUME NEW i \in Nat, i \in S PROVE i + 1 \in S
  <2>. SUFFICES ASSUME l + (i + 1) <= L
                PROVE  W(l + (i + 1)) = gmult(c, Deriv(g[l + (i + 1)], n, q))
    OBVIOUS
  <2>. DEFINE m == l + (i + 1)
              k == l + i
              d == Deriv(g[k], n, q)
              v == Value(g[k], n, q)
              y == gexp(X[m] + q)
              x == gexp(X[m])
              w == W(k)
  <2>1. m \in 1 .. L /\ m - 1 = k /\ l \in 1 .. m - 1 /\ k <= L
    BY <1>1
  <2>2. w = gmult(c, d)
    BY <1>6, <2>1
  <2>. HIDE DEF m, k
  <2>3. /\ Deriv(g[m], n, q) = (d \oplus gmult(y, d)) \oplus gmult(x, v)
        /\ d \in Byte /\ v \in Byte /\ y \in Byte /\ x \in Byte
        /\ v = 0 <=> \E j \in 1 .. m - 1 : X[j] = 255 - q
    <3>1. DerivNext(g, X, m, npar, q)
      BY <1>2, <2>1
    <3> QED
      BY <2>1, <3>1 DEF DerivNext, n
  <2>4. v = 0
    BY <1>1, <2>1, <2>3
  <2>5. W(m) = (w \oplus gmult(y, w)) \oplus gmult(gmult(Y[m], x), v) /\ w \in Byte
    BY <1>4, <2>1
  <2>. HIDE DEF d, v, y, x, w
  <2>6. gmult(y, d) \in Byte /\ gmult(y, w) \in Byte
        /\ d \oplus gmult(y, d) \in Byte /\ w \oplus gmult(y, w) \in Byte
    BY <2>3, <2>5, MultType, XorType
  <2>7. Deriv(g[m], n, q) = d \oplus gmult(y, d) /\ W(m) = w \oplus gmult(y, w)
    BY <2>3, <2>4, <2>5, <2>6, MultZero, XorZero
  <2>8. gmult(y, w) = gmult(c, gmult(y, d))
    BY <1>0, <2>2, <2>3, MultAssociates, MultCommutes
  <2>9. gmult(c, d \oplus gmult(y, d)) = gmult(c, d) \oplus gmult(c, gmult(y, d))
    BY <1>0, <2>3, <2>6, MultDistributes
  <2>10. W(m) = gmult(c, Deriv(g[m], n, q))
    BY <2>2, <2>7, <2>8, <2>9
  <2> QED
    BY <2>10 DEF m
<1>7. \A i \in Nat : i \in S
  <2>. HIDE DEF S
  <2> QED
    BY <1>5, <1>6, SetInduction
<1>8. ASSUME NEW i \in l .. L PROVE W(i) = gmult(c, Deriv(g[i], n, q))
  <2>1. i - l \in Nat /\ l + (i - l) = i /\ i <= L
    BY <1>1
  <2> QED
    BY <1>7, <2>1
<1> QED
  BY <1>8 DEF n, q, W

\* So the quotient that Magnitude computes is the error at the location.
LEMMA Forney ==
  ASSUME NEW npar \in Nat \ {0}, NEW L, NEW X, NEW Y, NEW g, NEW s,
         Errors(g, s, X, Y, L, npar), Distinct(X, L), NEW l \in 1 .. L
  PROVE  Magnitude(g[L], Omega(g, s, L, npar), X[l], npar) = Y[l]
<1>. DEFINE q == 255 - X[l]
            n == 2 * npar
            c == Y[l]
            d == Deriv(g[L], n, q)
            w == Value(Omega(g, s, L, npar), n, q)
<1>1. /\ L \in 0 .. npar /\ Locations(X, L) /\ Locator(g, X, L, npar) /\ c \in Byte
      /\ L \in l .. L /\ n \in Nat /\ L \in 0 .. L
  BY DEF Errors
<1>2. d # 0
  BY <1>1, LocatorDeriv
<1>3. w = gmult(c, d)
  BY <1>1, ForneyValue
<1>4. q \in Nat
  <2>1. X[l] \in 0 .. 254
    BY <1>1, LocatorStep
  <2> QED
    BY <2>1
<1>5. d \in Byte
  <2>1. Bytes(g[L], n)
    BY <1>1, LocatorBytes
  <2> QED
    BY <1>1, <1>4, <2>1, OddType
<1>6. Magnitude(g[L], Omega(g, s, L, npar), X[l], npar) = gmult(w, ginv(d))
  <2>1. Degrees(npar) = 0 .. n - 1 /\ maxdeg(npar) = n
    BY DEF Degrees, maxdeg
  <2> QED
    BY <2>1 DEF Magnitude, Deriv, OddTerms
<1>. HIDE DEF q, n, c, d, w
<1>7. gmult(gmult(c, d), ginv(d)) = c
  <2>1. ginv(d) \in Byte /\ gmult(d, ginv(d)) = 1
    BY <1>2, <1>5, ByteInverse
  <2>2. gmult(gmult(c, d), ginv(d)) = gmult(c, gmult(d, ginv(d)))
    BY <1>1, <1>5, <2>1, MultAssociates
  <2> QED
    BY <1>1, <2>1, <2>2, MultOne
<1> QED
  BY <1>3, <1>6, <1>7 DEF c

-----------------------------------------------------------------------------
(* correct_errors_erasures, once the locator polynomial is right. *)

\* Find_Roots finds the locations, and correct_errors_erasures puts the errors
\* there right.
LEMMA FoundRoots ==
  ASSUME NEW npar \in Nat \ {0}, NEW L \in 0 .. npar, NEW X, Locations(X, L), NEW g,
         Locator(g, X, L, npar)
  PROVE  Find_Roots(g[L], npar) = {X[l] : l \in 1 .. L}
<1>. DEFINE p == g[L]
            R == {q \in 1 .. 255 : Value(p, npar + 1, q) = 0}
<1>1. ASSUME NEW q \in 1 .. 255 PROVE Value(p, npar + 1, q) = 0 <=> \E j \in 1 .. L : X[j] = 255 - q
  <2>1. L \in 0 .. L /\ q \in Nat /\ 2 * npar \in Nat /\ npar + 1 \in Nat /\ npar + 1 <= 2 * npar
    OBVIOUS
  <2>2. IsRootAt(g, X, L, npar, q)
    BY <2>1, LocatorRoots
  <2>3. p \in Polys(npar)
    BY <2>1, LocatorBytes
  <2>4. Bytes(p, npar + 1)
    BY <2>1, <2>3, PolyBytes
  <2>5. \A m \in npar + 1 .. 2 * npar - 1 : p[m] = 0
    <3>1. \A l \in 0 .. L : \A m \in l + 1 .. 2 * npar - 1 : g[l][m] = 0
      <4>1. L \in Nat
        OBVIOUS
      <4> QED
        BY <4>1, LocatorDegree
    <3>2. \A m \in npar + 1 .. 2 * npar - 1 : m \in L + 1 .. 2 * npar - 1
      OBVIOUS
    <3> QED
      BY <2>1, <3>1, <3>2
  <2>. HIDE DEF p
  <2>6. Value(p, 2 * npar, q) = Value(p, npar + 1, q)
    BY <2>1, <2>4, <2>5, ValueThenZeros
  <2> QED
    BY <2>2, <2>6 DEF IsRootAt, p
<1>2. Find_Roots(p, npar) = {255 - r : r \in R}
  BY DEF Find_Roots
<1>3. \A l \in 1 .. L : X[l] \in 0 .. 254
  <2>1. L \in Nat
    OBVIOUS
  <2> QED
    BY <2>1, LocationsType
<1>. HIDE DEF p
<1>4. ASSUME NEW r \in R PROVE 255 - r \in {X[l] : l \in 1 .. L}
  <2>1. \E j \in 1 .. L : X[j] = 255 - r
    BY <1>1
  <2> QED
    BY <2>1
<1>5. ASSUME NEW l \in 1 .. L PROVE X[l] \in {255 - r : r \in R}
  <2>. DEFINE q == 255 - X[l]
  <2>1. q \in 1 .. 255 /\ X[l] = 255 - q
    <3>1. X[l] \in 0 .. 254
      BY <1>3
    <3> QED
      BY <3>1
  <2>. HIDE DEF q
  <2>2. q \in R
    BY <1>1, <2>1
  <2> QED
    BY <2>1, <2>2
<1> QED
  BY <1>2, <1>4, <1>5 DEF p

\* Distinct locations are as many as their list is long.
LEMMA LocationsCount ==
  ASSUME NEW L \in Nat \ {0}, NEW X, Locations(X, L), Distinct(X, L)
  PROVE  Cardinality({X[l] : l \in 1 .. L}) = L
<1>. DEFINE T == {X[l] : l \in 1 .. L}
            f == [l \in 1 .. L |-> X[l]]
<1>1. f \in Bijection(1 .. L, T)
  BY DEF Bijection, Injection, Surjection, IsInjective, Distinct
<1>2. IsFiniteSet(1 .. L) /\ Cardinality(1 .. L) = L
  <2>1. 1 \in Int /\ L \in Int /\ 1 <= L /\ (L - 1) + 1 = L
    OBVIOUS
  <2> QED
    BY <2>1, IntervalSize
<1>3. ExistsBijection(1 .. L, T)
  BY <1>1 DEF ExistsBijection
<1>. HIDE DEF T
<1> QED
  BY <1>2, <1>3, FS_Bijection DEF T

\* compute_modified_omega multiplies lambda and the syndromes.
LEMMA ModifiedOmega ==
  ASSUME NEW npar \in Nat \ {0}, NEW L, NEW X, NEW Y, NEW g, NEW s,
         Errors(g, s, X, Y, L, npar), NEW syn \in Polys(npar),
         \A j \in 0 .. npar - 1 : syn[j] = s[L][j]
  PROVE  compute_modified_omega(g[L], syn, npar) = Omega(g, s, L, npar)
<1>. DEFINE n == 2 * npar
            p == g[L]
            a == s[L]
            w == Omega(g, s, L, npar)
<1>1. L \in 0 .. L /\ L \in 0 .. npar /\ n \in Nat /\ Locator(g, X, L, npar)
  BY DEF Errors
<1>2. p \in Polys(npar) /\ Bytes(p, n) /\ Bytes(a, n)
  BY <1>1, LocatorBytes, OmegaBytes
<1>3. DOMAIN p = 0 .. n - 1 /\ DOMAIN syn = 0 .. n - 1 /\ Cardinality(DOMAIN p) = n
  BY <1>2, DegreesSize DEF Polys
<1>4. \A m \in L .. n - 1 : w[m] = 0
  BY <1>1, OmegaDegree
<1>5. \A m \in 0 .. n - 1 : w[m] = Conv(p, a, m)
  BY DEF Omega
<1>6. w = [m \in 0 .. n - 1 |-> w[m]]
  BY DEF Omega
<1>. HIDE DEF w, p, a
<1>7. ASSUME NEW m \in 0 .. npar - 1 PROVE mult_polys(p, syn)[m] = w[m]
  <2>. DEFINE f == [j \in 0 .. n - 1 |-> gmult(p[j], Coefficient(syn, m - j))]
              b == ConvTerms(p, a, m)
  <2>1. mult_polys(p, syn)[m] = XorSum(f, n)
    <3>1. m \in 0 .. 2 * n - 1
      OBVIOUS
    <3> QED
      BY <1>3, <3>1 DEF mult_polys
  <2>2. m \in 0 .. n - 1 /\ m + 1 \in Nat /\ m + 1 <= n /\ (m + 1) - 1 = m
    OBVIOUS
  <2>3. ASSUME NEW j \in 0 .. m PROVE b[j] = f[j]
    <3>1. m - j \in 0 .. npar - 1 /\ m - j \in 0 .. n - 1 /\ j \in 0 .. n - 1
      OBVIOUS
    <3>2. Coefficient(syn, m - j) = a[m - j]
      BY <1>3, <3>1 DEF Coefficient, a
    <3> QED
      BY <3>1, <3>2 DEF ConvTerms
  <2>4. \A j \in m + 1 .. n - 1 : f[j] = 0
    <3>1. ASSUME NEW j \in m + 1 .. n - 1 PROVE f[j] = 0
      <4>1. ~ (m - j \in 0 .. n - 1) /\ j \in 0 .. n - 1
        OBVIOUS
      <4>2. Coefficient(syn, m - j) = 0
        BY <1>3, <4>1 DEF Coefficient
      <4> QED
        BY <4>1, <4>2, MultZero
    <3> QED
      BY <3>1
  <2>5. Bytes(b, m + 1)
    BY <1>1, <1>2, <2>2, ConvType
  <2>. HIDE DEF f, b
  <2>6. XorSum(b, m + 1) = XorSum(f, m + 1)
    BY <2>2, <2>3, <2>5, SumEqual
  <2>7. Bytes(f, m + 1)
    BY <2>2, <2>3, <2>5 DEF Bytes
  <2>8. XorSum(f, n) = XorSum(f, m + 1)
    BY <1>1, <2>2, <2>4, <2>7, SumThenZeros
  <2>9. Conv(p, a, m) = XorSum(b, m + 1)
    BY DEF Conv, b
  <2> QED
    BY <1>5, <2>1, <2>2, <2>6, <2>8, <2>9
<1>8. compute_modified_omega(p, syn, npar)
        = [m \in 0 .. n - 1 |-> IF m < npar THEN mult_polys(p, syn)[m] ELSE 0]
  BY DegreesSize DEF compute_modified_omega
<1>9. ASSUME NEW m \in 0 .. n - 1
      PROVE  (IF m < npar THEN mult_polys(p, syn)[m] ELSE 0) = w[m]
  <2>1. CASE m < npar
    BY <1>7, <2>1
  <2>2. CASE ~ (m < npar)
    <3>1. m \in L .. n - 1
      BY <1>1, <2>2
    <3> QED
      BY <1>4, <2>2, <3>1
  <2> QED
    BY <2>1, <2>2
<1> QED
  BY <1>6, <1>8, <1>9 DEF p, w

\* What was received: w with the errors Y at the locations X.
Damaged(c, w, X, Y, L, csize) == \A i \in 0 .. csize - 1 :
    /\ w[i] \in Byte
    /\ \A l \in 1 .. L : csize - i - 1 = X[l] => c[i] = w[i] \oplus Y[l]
    /\ (\A l \in 1 .. L : csize - i - 1 # X[l]) => c[i] = w[i]

\* With the right locator polynomial correct_errors_erasures adds each error
\* at its place.
LEMMA Corrected ==
  ASSUME NEW npar \in Nat \ {0}, NEW L \in Nat \ {0}, NEW X, NEW Y, NEW g, NEW s,
         Errors(g, s, X, Y, L, npar), Distinct(X, L), NEW syn \in Polys(npar),
         \A j \in 0 .. npar - 1 : syn[j] = s[L][j], NEW erasures,
         Modified_Berlekamp_Massey(syn, erasures, npar) = g[L],
         NEW csize \in Nat, \A l \in 1 .. L : X[l] < csize,
         NEW c, NEW w, Damaged(c, w, X, Y, L, csize)
  PROVE  correct_errors_erasures(c, csize, erasures, syn, npar) = [i \in 0 .. csize - 1 |-> w[i]]
<1>. DEFINE p == g[L]
            v == Omega(g, s, L, npar)
            locs == {X[l] : l \in 1 .. L}
            r == [i \in 0 .. csize - 1 |-> IF csize - i - 1 \in locs
                    THEN c[i] \oplus Magnitude(p, v, csize - i - 1, npar) ELSE c[i]]
<1>1. L \in 0 .. npar /\ Locations(X, L) /\ Locator(g, X, L, npar)
      /\ \A l \in 1 .. L : Y[l] \in Byte
  BY DEF Errors
<1>2. Find_Roots(p, npar) = locs
  BY <1>1, FoundRoots
<1>3. Cardinality(locs) \in 1 .. npar
  <2>1. Cardinality(locs) = L
    BY <1>1, LocationsCount
  <2> QED
    BY <1>1, <2>1
<1>4. compute_modified_omega(p, syn, npar) = v
  BY ModifiedOmega
<1>5. \A e \in locs : e < csize
  OBVIOUS
<1>. HIDE DEF locs, v, p
<1>6. correct_errors_erasures(c, csize, erasures, syn, npar) = r
  BY <1>2, <1>3, <1>4, <1>5 DEF correct_errors_erasures, p
<1>7. ASSUME NEW i \in 0 .. csize - 1 PROVE r[i] = w[i]
  <2>. DEFINE e == csize - i - 1
  <2>1. /\ w[i] \in Byte
        /\ \A l \in 1 .. L : e = X[l] => c[i] = w[i] \oplus Y[l]
        /\ (\A l \in 1 .. L : e # X[l]) => c[i] = w[i]
    BY DEF Damaged
  <2>2. CASE e \in locs
    <3>1. PICK l \in 1 .. L : e = X[l]
      BY <2>2 DEF locs
    <3>2. Magnitude(p, v, e, npar) = Y[l]
      BY <1>1, <3>1, Forney DEF p, v
    <3>3. r[i] = c[i] \oplus Magnitude(p, v, e, npar)
      BY <2>2
    <3> QED
      BY <1>1, <2>1, <3>1, <3>2, <3>3, XorCancels
  <2>3. CASE e \notin locs
    <3>1. \A l \in 1 .. L : e # X[l]
      BY <2>3 DEF locs
    <3> QED
      BY <2>1, <2>3, <3>1
  <2> QED
    BY <2>2, <2>3
<1>8. r = [i \in 0 .. csize - 1 |-> r[i]]
  OBVIOUS
<1>. HIDE DEF r
<1> QED
  BY <1>6, <1>7, <1>8

-----------------------------------------------------------------------------
(* Modified_Berlekamp_Massey. *)

\* The rounds of Modified_Berlekamp_Massey.
SameSyndromes(syn, a, npar) ==
    syn \in Polys(npar) /\ \A j \in 0 .. npar - 1 : syn[j] = a[j]
FirstRound(gamma, e) == [psi |-> gamma, D |-> mul_z_poly(gamma), L |-> e, k |-> -1]
IsMassey(m, gamma, e, syn, npar) ==
    m = [n \in e .. npar |-> IF n = e THEN FirstRound(gamma, e) ELSE MasseyRound(m[n - 1], syn, n - 1)]

\* The rounds of Modified_Berlekamp_Massey satisfy their recursion,
LEMMA MasseyChosen ==
  ASSUME NEW npar, NEW syn, NEW erasures, NEW e, Len(erasures) = e, ~ (e >= npar),
         \E m : IsMassey(m, init_gamma(erasures, npar), e, syn, npar)
  PROVE  \E m : /\ IsMassey(m, init_gamma(erasures, npar), e, syn, npar)
                /\ Modified_Berlekamp_Massey(syn, erasures, npar) = m[npar].psi
<1>. DEFINE P(m) == m = [n \in e .. npar |->
                IF n = e THEN [psi |-> init_gamma(erasures, npar),
                               D |-> mul_z_poly(init_gamma(erasures, npar)), L |-> e, k |-> -1]
                ELSE MasseyRound(m[n - 1], syn, n - 1)]
            h == CHOOSE m : P(m)
<1>1. \A m : P(m) <=> IsMassey(m, init_gamma(erasures, npar), e, syn, npar)
  BY DEF IsMassey, FirstRound
<1>2. Modified_Berlekamp_Massey(syn, erasures, npar) = h[npar].psi
  BY DEF Modified_Berlekamp_Massey
<1>3. \E m : P(m)
  BY <1>1
<1>. HIDE DEF P
<1>4. P(h)
  BY <1>3, Zenon
<1> QED
  BY <1>1, <1>2, <1>4

\* A discrepancy is a coefficient of the product with the syndromes.
LEMMA Discrepancy ==
  ASSUME NEW npar \in Nat \ {0}, NEW p, NEW a, NEW syn, Bytes(p, 2 * npar), Bytes(a, 2 * npar),
         SameSyndromes(syn, a, npar), NEW n \in 0 .. npar - 1, NEW l \in 0 .. n,
         ZerosFrom(p, l + 1, 2 * npar)
  PROVE  compute_discrepancy(p, syn, l, n) = Conv(p, a, n)
<1>. DEFINE f == [i \in 0 .. l |-> gmult(p[i], syn[n - i])]
            b == ConvTerms(p, a, n)
<1>1. l \in Nat /\ l + 1 \in Nat /\ (l + 1) - 1 = l /\ n + 1 \in Nat /\ l + 1 <= n + 1
      /\ (n + 1) - 1 = n /\ n \in 0 .. 2 * npar - 1
  OBVIOUS
<1>2. ASSUME NEW i \in 0 .. l PROVE b[i] = f[i]
  <2>1. n - i \in 0 .. npar - 1 /\ i \in 0 .. n
    OBVIOUS
  <2>2. syn[n - i] = a[n - i]
    BY <2>1 DEF SameSyndromes
  <2> QED
    BY <2>1, <2>2 DEF ConvTerms
<1>3. ASSUME NEW i \in l + 1 .. n PROVE b[i] = 0
  <2>1. i \in l + 1 .. 2 * npar - 1 /\ i \in 0 .. n
    BY <1>1
  <2>2. p[i] = 0
    BY <2>1 DEF ZerosFrom
  <2> QED
    BY <2>1, <2>2, MultZero DEF ConvTerms
<1>4. Bytes(b, n + 1) /\ Bytes(b, l + 1)
  <2>1. Bytes(b, n + 1)
    <3>1. 2 * npar \in Nat
      OBVIOUS
    <3> QED
      BY <1>1, <3>1, ConvType
  <2> QED
    BY <1>1, <2>1 DEF Bytes
<1>5. compute_discrepancy(p, syn, l, n) = XorSum(f, l + 1)
  BY DEF compute_discrepancy
<1>6. Conv(p, a, n) = XorSum(b, n + 1)
  BY DEF Conv
<1>. HIDE DEF f, b
<1>7. XorSum(b, l + 1) = XorSum(f, l + 1)
  BY <1>1, <1>2, <1>4, SumEqual
<1>8. XorSum(b, n + 1) = XorSum(b, l + 1)
  BY <1>1, <1>3, <1>4, SumThenZeros
<1> QED
  BY <1>5, <1>6, <1>7, <1>8

\* A round whose discrepancy is 0 only shifts D,
LEMMA QuietRound ==
  ASSUME NEW m, NEW syn, NEW n, compute_discrepancy(m.psi, syn, m.L, n) = 0
  PROVE  MasseyRound(m, syn, n) = [psi |-> m.psi, D |-> mul_z_poly(m.D), L |-> m.L, k |-> m.k]
BY DEF MasseyRound

LEMMA UpType ==
  ASSUME NEW npar \in Nat \ {0}, NEW p \in Polys(npar)
  PROVE  mul_z_poly(p) \in Polys(npar) /\ IsUp(mul_z_poly(p), p, 2 * npar)
<1>1. p \in [0 .. 2 * npar - 1 -> Byte] /\ Polys(npar) = [0 .. 2 * npar - 1 -> Byte]
  BY DegreesSize DEF Polys
<1>2. mul_z_poly(p) = [i \in 0 .. 2 * npar - 1 |-> IF i = 0 THEN 0 ELSE p[i - 1]]
  BY <1>1 DEF mul_z_poly
<1>3. \A i \in 0 .. 2 * npar - 1 : (IF i = 0 THEN 0 ELSE p[i - 1]) \in Byte
  BY <1>1, ZeroIsByte
<1> QED
  BY <1>1, <1>2, <1>3 DEF IsUp

LEMMA ScaleType ==
  ASSUME NEW npar \in Nat \ {0}, NEW p \in Polys(npar), NEW c \in Byte
  PROVE  scale_poly(c, p) \in Polys(npar) /\ IsMultiple(scale_poly(c, p), c, p, 2 * npar)
<1>1. p \in [0 .. 2 * npar - 1 -> Byte] /\ Polys(npar) = [0 .. 2 * npar - 1 -> Byte]
  BY DegreesSize DEF Polys
<1>2. scale_poly(c, p) = [i \in 0 .. 2 * npar - 1 |-> gmult(c, p[i])]
  BY <1>1 DEF scale_poly
<1>3. \A i \in 0 .. 2 * npar - 1 : gmult(c, p[i]) \in Byte
  BY <1>1, MultType
<1> QED
  BY <1>1, <1>2, <1>3 DEF IsMultiple

LEMMA AddType ==
  ASSUME NEW npar \in Nat \ {0}, NEW p \in Polys(npar), NEW q \in Polys(npar)
  PROVE  add_polys(p, q) \in Polys(npar) /\ IsSumOf(add_polys(p, q), p, q, 2 * npar)
<1>1. /\ p \in [0 .. 2 * npar - 1 -> Byte] /\ q \in [0 .. 2 * npar - 1 -> Byte]
      /\ Polys(npar) = [0 .. 2 * npar - 1 -> Byte]
  BY DegreesSize DEF Polys
<1>2. add_polys(p, q) = [i \in 0 .. 2 * npar - 1 |-> p[i] \oplus q[i]]
  BY <1>1 DEF add_polys
<1>3. \A i \in 0 .. 2 * npar - 1 : p[i] \oplus q[i] \in Byte
  BY <1>1, XorType
<1> QED
  BY <1>1, <1>2, <1>3 DEF IsSumOf

Shifted(d, D, npar, r) ==
    /\ d[0] = D
    /\ \A i \in 1 .. r : d[i] = mul_z_poly(d[i - 1])

\* Rounds that only shift D make a function of their own.
LEMMA ShiftsExist ==
  ASSUME NEW npar \in Nat \ {0}, NEW D \in Polys(npar), NEW r \in Nat
  PROVE  \E d : Shifted(d, D, npar, r)
<1>. DEFINE V == Polys(npar)
            up == [p \in Nat \X V |-> mul_z_poly(p[2])]
<1>1. up \in [Nat \X V -> V]
  <2>1. \A p \in Nat \X V : mul_z_poly(p[2]) \in V
    BY UpType
  <2> QED
    BY <2>1
<1>2. \A i \in Nat, p \in V : up[<<i, p>>] = mul_z_poly(p)
  OBVIOUS
<1>. HIDE DEF up, V
<1>3. Iterates(up, D, V, r)
  BY <1>1, FiniteRecursion DEF V
<1>4. PICK d \in [0 .. r -> V] : \A i \in 0 .. r : d[i] = IF i = 0 THEN D ELSE up[<<i, d[i - 1]>>]
  BY <1>3 DEF Iterates
<1>5. d[0] = D
  <2>1. 0 \in 0 .. r
    OBVIOUS
  <2> QED
    BY <1>4, <2>1
<1>6. ASSUME NEW i \in 1 .. r PROVE d[i] = mul_z_poly(d[i - 1])
  <2>1. i \in 0 .. r /\ i # 0 /\ i \in Nat /\ d[i - 1] \in V
    OBVIOUS
  <2> QED
    BY <1>2, <1>4, <2>1
<1> QED
  BY <1>5, <1>6 DEF Shifted

-----------------------------------------------------------------------------
(* Erasures only: every discrepancy is 0. *)

\* Once the discrepancies are 0 the rounds leave the locator polynomial alone.
IsQuiet(p, syn, l, a, npar) == \A n \in a .. npar - 1 : compute_discrepancy(p, syn, l, n) = 0
Begins(f, gamma, e, a, syn) ==
    \A n \in e .. a : f[n] = IF n = e THEN FirstRound(gamma, e) ELSE MasseyRound(f[n - 1], syn, n - 1)

\* since such a function exists.
LEMMA MasseyExists ==
  ASSUME NEW npar \in Nat \ {0}, NEW e \in Nat, NEW a \in e .. npar, NEW gamma, NEW syn, NEW f,
         Begins(f, gamma, e, a, syn), NEW p, NEW D \in Polys(npar), NEW l, NEW k,
         f[a] = [psi |-> p, D |-> D, L |-> l, k |-> k], IsQuiet(p, syn, l, a, npar)
  PROVE  \E m : IsMassey(m, gamma, e, syn, npar)
<1>1. npar - a \in Nat /\ a \in Nat /\ e <= a /\ a <= npar
  OBVIOUS
<1>2. PICK d : Shifted(d, D, npar, npar - a)
  BY <1>1, ShiftsExist
<1>. DEFINE m == [n \in e .. npar |-> IF n < a THEN f[n]
                    ELSE [psi |-> p, D |-> d[n - a], L |-> l, k |-> k]]
<1>3. \A n \in e .. a : m[n] = f[n]
  <2>1. ASSUME NEW n \in e .. a PROVE m[n] = f[n]
    <3>1. n \in e .. npar
      BY <1>1
    <3>2. CASE n < a
      BY <3>1, <3>2
    <3>3. CASE n = a
      <4>1. d[n - a] = D
        BY <1>1, <1>2, <3>3 DEF Shifted
      <4> QED
        BY <3>1, <3>3, <4>1
    <3> QED
      BY <1>1, <3>2, <3>3
  <2> QED
    BY <2>1
<1>4. \A n \in a .. npar : m[n] = [psi |-> p, D |-> d[n - a], L |-> l, k |-> k]
  BY <1>1
<1>5. m = [n \in e .. npar |-> m[n]]
  OBVIOUS
<1>. HIDE DEF m
<1>6. ASSUME NEW n \in e .. npar
      PROVE  m[n] = IF n = e THEN FirstRound(gamma, e) ELSE MasseyRound(m[n - 1], syn, n - 1)
  <2>1. CASE n \in e .. a
    <3>1. m[n] = f[n] /\ (n # e => n - 1 \in e .. a /\ m[n - 1] = f[n - 1])
      BY <1>1, <1>3, <2>1
    <3> QED
      BY <2>1, <3>1 DEF Begins
  <2>2. CASE ~ (n \in e .. a)
    <3>1. n - 1 \in a .. npar /\ n \in a .. npar /\ n - 1 \in a .. npar - 1 /\ n # e
          /\ n - a \in 1 .. npar - a /\ (n - a) - 1 = (n - 1) - a
      BY <1>1, <2>2
    <3>2. m[n - 1] = [psi |-> p, D |-> d[(n - 1) - a], L |-> l, k |-> k]
      BY <1>4, <3>1
    <3>3. compute_discrepancy(m[n - 1].psi, syn, m[n - 1].L, n - 1) = 0
      BY <3>1, <3>2 DEF IsQuiet
    <3>4. MasseyRound(m[n - 1], syn, n - 1)
            = [psi |-> m[n - 1].psi, D |-> mul_z_poly(m[n - 1].D), L |-> m[n - 1].L, k |-> m[n - 1].k]
      BY <3>3, QuietRound
    <3>5. d[n - a] = mul_z_poly(d[(n - 1) - a])
      BY <1>2, <3>1 DEF Shifted
    <3> QED
      BY <1>4, <3>1, <3>2, <3>4, <3>5
  <2> QED
    BY <2>1, <2>2
<1> QED
  BY <1>5, <1>6 DEF IsMassey

\* and so do any number of them.
LEMMA QuietRounds ==
  ASSUME NEW npar \in Nat \ {0}, NEW e \in Nat, NEW a \in e .. npar, NEW gamma, NEW syn, NEW m,
         IsMassey(m, gamma, e, syn, npar), NEW p, NEW l,
         m[a].psi = p, m[a].L = l, IsQuiet(p, syn, l, a, npar)
  PROVE  m[npar].psi = p
<1>. DEFINE S == {i \in Nat : a + i <= npar => m[a + i].psi = p /\ m[a + i].L = l}
<1>0. a \in Nat /\ e <= a /\ a <= npar
  OBVIOUS
<1>1. 0 \in S
  <2>1. a + 0 = a
    BY <1>0
  <2> QED
    BY <2>1
<1>2. ASSUME NEW i \in Nat, i \in S PROVE i + 1 \in S
  <2>. DEFINE n == a + (i + 1)
  <2>. SUFFICES ASSUME n <= npar PROVE m[n].psi = p /\ m[n].L = l
    OBVIOUS
  <2>1. n - 1 = a + i /\ n \in e .. npar /\ n # e /\ n - 1 \in a .. npar - 1
    BY <1>0
  <2>2. m[n - 1].psi = p /\ m[n - 1].L = l
    BY <1>2, <2>1
  <2>. HIDE DEF n
  <2>3. m[n] = MasseyRound(m[n - 1], syn, n - 1)
    BY <2>1 DEF IsMassey
  <2>4. compute_discrepancy(m[n - 1].psi, syn, m[n - 1].L, n - 1) = 0
    BY <2>1, <2>2 DEF IsQuiet
  <2>5. MasseyRound(m[n - 1], syn, n - 1)
          = [psi |-> m[n - 1].psi, D |-> mul_z_poly(m[n - 1].D), L |-> m[n - 1].L, k |-> m[n - 1].k]
    BY <2>4, QuietRound
  <2> QED
    BY <2>2, <2>3, <2>5
<1>3. \A i \in Nat : i \in S
  <2>. HIDE DEF S
  <2> QED
    BY <1>1, <1>2, SetInduction
<1>4. npar - a \in Nat /\ a + (npar - a) = npar
  BY <1>0
<1> QED
  BY <1>3, <1>4

\* Beyond its degree the product with the syndromes is 0.
LEMMA LocatorIsQuiet ==
  ASSUME NEW npar \in Nat \ {0}, NEW L, NEW X, NEW Y, NEW g, NEW s,
         Errors(g, s, X, Y, L, npar), NEW syn, SameSyndromes(syn, s[L], npar)
  PROVE  IsQuiet(g[L], syn, L, L, npar) /\ ZerosFrom(g[L], L + 1, 2 * npar)
<1>1. L \in 0 .. npar /\ L \in 0 .. L /\ L \in Nat /\ Locations(X, L) /\ Locator(g, X, L, npar)
  BY DEF Errors
<1>2. Bytes(g[L], 2 * npar) /\ Bytes(s[L], 2 * npar)
  BY <1>1, OmegaBytes
<1>3. ZerosFrom(g[L], L + 1, 2 * npar)
  <2>1. \A l \in 0 .. L : \A m \in l + 1 .. 2 * npar - 1 : g[l][m] = 0
    BY <1>1, LocatorDegree
  <2> QED
    BY <1>1, <2>1 DEF ZerosFrom
<1>4. ASSUME NEW n \in L .. npar - 1 PROVE compute_discrepancy(g[L], syn, L, n) = 0
  <2>1. n \in 0 .. npar - 1 /\ L \in 0 .. n /\ n \in L .. 2 * npar - 1 /\ n \in 0 .. 2 * npar - 1
    BY <1>1
  <2>2. compute_discrepancy(g[L], syn, L, n) = Conv(g[L], s[L], n)
    BY <1>2, <1>3, <2>1, Discrepancy
  <2>3. Omega(g, s, L, npar)[n] = 0
    BY <1>1, <2>1, OmegaDegree
  <2> QED
    BY <2>1, <2>2, <2>3 DEF Omega
<1> QED
  BY <1>3, <1>4 DEF IsQuiet

\* Nothing but erasures: the locator polynomial is the one of the erasures.
LEMMA MasseyErasures ==
  ASSUME NEW npar \in Nat \ {0}, NEW L, NEW X, NEW Y, NEW g, NEW s,
         Errors(g, s, X, Y, L, npar), NEW syn, SameSyndromes(syn, s[L], npar),
         NEW erasures, Len(erasures) = L, init_gamma(erasures, npar) = g[L]
  PROVE  Modified_Berlekamp_Massey(syn, erasures, npar) = g[L]
<1>. DEFINE p == g[L]
<1>1. L \in 0 .. npar /\ L \in 0 .. L /\ L \in Nat /\ Locator(g, X, L, npar)
  BY DEF Errors
<1>2. p \in Polys(npar)
  BY <1>1, LocatorBytes
<1>3. IsQuiet(p, syn, L, L, npar)
  BY LocatorIsQuiet
<1>. HIDE DEF p
<1>4. CASE L >= npar
  BY <1>4 DEF Modified_Berlekamp_Massey, p
<1>5. CASE ~ (L >= npar)
  <2>. DEFINE f == [n \in L .. L |-> FirstRound(p, L)]
  <2>1. Begins(f, p, L, L, syn)
    BY <1>1 DEF Begins
  <2>2. f[L] = [psi |-> p, D |-> mul_z_poly(p), L |-> L, k |-> -1]
    BY <1>1 DEF FirstRound
  <2>3. mul_z_poly(p) \in Polys(npar) /\ L \in L .. npar
    BY <1>1, <1>2, UpType
  <2>. HIDE DEF f
  <2>4. \E m : IsMassey(m, p, L, syn, npar)
    BY <1>1, <1>3, <2>1, <2>2, <2>3, MasseyExists
  <2>5. PICK m : /\ IsMassey(m, p, L, syn, npar)
                 /\ Modified_Berlekamp_Massey(syn, erasures, npar) = m[npar].psi
    BY <1>5, <2>4, MasseyChosen DEF p
  <2>6. m[L] = FirstRound(p, L)
    BY <2>3, <2>5 DEF IsMassey
  <2>7. m[L].psi = p /\ m[L].L = L
    BY <2>6 DEF FirstRound
  <2>8. m[npar].psi = p
    BY <1>1, <1>3, <2>3, <2>5, <2>7, QuietRounds
  <2> QED
    BY <2>5, <2>8 DEF p
<1> QED
  BY <1>4, <1>5

-----------------------------------------------------------------------------
(* One error more: the first two discrepancies that can be other than 0. *)

\* A series at a new location is not cancelled by the locator polynomials.
LEMMA SeriesNotCancelled ==
  ASSUME NEW npar \in Nat \ {0}, NEW L \in 0 .. npar, NEW X, Locations(X, L), NEW g,
         Locator(g, X, L, npar), NEW y \in Byte, y # 0, NEW x \in 0 .. 254,
         \A l \in 1 .. L : X[l] # x, NEW t, IsSeries(t, y, x, 2 * npar)
  PROVE  \A l \in 0 .. L : Conv(g[l], t, l) # 0
<1>. DEFINE n == 2 * npar
            S == {l \in Nat : l <= L => Conv(g[l], t, l) # 0}
<1>0. /\ n \in Nat /\ n \in Nat \ {0} /\ x \in Nat /\ L \in Nat /\ L <= n - 1
      /\ 0 \in 0 .. L /\ n # 0
  OBVIOUS
<1>1. /\ Bytes(t, n) /\ t[0] = gmult(y, gexp(x)) /\ gexp(x) \in Byte /\ gexp(x) # 0
      /\ IsSeries(t, y, x, n)
  BY <1>0, SeriesBytes, ExpNotZero
<1>2. \A l \in 0 .. L : Bytes(g[l], n)
  BY LocatorBytes
<1>3. 0 \in S
  <2>1. g[0] = Constant(1, npar)
    BY DEF Locator
  <2>2. g[0][0] = 1
    <3>1. 0 \in 0 .. 2 * npar - 1
      OBVIOUS
    <3> QED
      BY <2>1, <3>1, DegreesSize DEF Constant
  <2>3. Conv(g[0], t, 0) = gmult(g[0][0], t[0])
    BY <1>0, <1>1, <1>2, ConvFirst
  <2>4. t[0] # 0 /\ t[0] \in Byte
    BY <1>1, MultType
  <2> QED
    BY <2>2, <2>3, <2>4, MultOne
<1>4. ASSUME NEW l \in Nat, l \in S PROVE l + 1 \in S
  <2>. SUFFICES ASSUME l + 1 <= L PROVE Conv(g[l + 1], t, l + 1) # 0
    OBVIOUS
  <2>. DEFINE i == l + 1
              p == g[i - 1]
              h == g[i]
              c == Conv(p, t, i - 1)
              z == X[i]
  <2>1. i \in 1 .. L /\ i - 1 = l /\ l \in 0 .. L /\ i \in 1 .. n - 1 /\ i \in 0 .. n - 1 /\ i # 0
        /\ i - 1 \in 0 .. n - 1 /\ i \in i .. n - 1
    BY <1>0
  <2>2. c # 0
    BY <1>4, <2>1
  <2>. HIDE DEF i
  <2>3. IsFactor(h, p, z, n) /\ z \in Nat /\ z \in 0 .. 254 /\ Bytes(p, n) /\ ZerosFrom(p, i, n)
    <3>1. i \in 1 .. L
      BY <2>1
    <3>2. /\ IsFactor(g[i], g[i - 1], X[i], 2 * npar) /\ X[i] \in Nat /\ X[i] \in 0 .. 254
          /\ Bytes(g[i - 1], 2 * npar) /\ ZerosFrom(g[i - 1], i, 2 * npar)
      BY <3>1, LocatorStep
    <3> QED
      BY <3>2
  <2>4. z # x
    BY <2>1
  <2>5. p[i] = 0
    BY <2>1, <2>3 DEF ZerosFrom
  <2>. HIDE DEF p, h, c, z, n
  <2>6. Conv(h, t, i) = Conv(p, t, i) \oplus gmult(gexp(z), c)
    <3>1. /\ n \in Nat /\ Bytes(p, n) /\ Bytes(t, n) /\ z \in Nat /\ IsFactor(h, p, z, n)
          /\ i \in 0 .. n - 1 /\ i # 0
      BY <1>0, <1>1, <2>1, <2>3
    <3> QED
      BY <3>1, ConvOfFactor DEF c
  <2>7. Conv(p, t, i) = gmult(gexp(x), c) \oplus gmult(p[i], t[0])
    <3>1. /\ n \in Nat /\ Bytes(p, n) /\ x \in Nat /\ IsSeries(t, y, x, n)
          /\ i \in 1 .. n - 1
      BY <1>0, <1>1, <2>1, <2>3
    <3> QED
      BY <3>1, ConvNextOfSeries DEF c
  <2>8. c \in Byte /\ gexp(z) \in Byte /\ gmult(gexp(x), c) \in Byte
    <3>1. c \in Byte
      BY <1>0, <1>1, <2>1, <2>3, ConvType DEF c
    <3>2. gexp(z) \in Byte
      BY <2>3, ExpNotZero
    <3> QED
      BY <1>1, <3>1, <3>2, MultType
  <2>9. Conv(h, t, i) = gmult(gexp(x) \oplus gexp(z), c)
    <3>1. Conv(p, t, i) = gmult(gexp(x), c)
      BY <2>5, <2>7, <2>8, MultZero, XorZero
    <3> QED
      BY <1>1, <2>6, <2>8, <3>1, MultDistributes
  <2>10. gexp(x) \oplus gexp(z) # 0 /\ gexp(x) \oplus gexp(z) \in Byte
    <3>1. gexp(x) # gexp(z)
      BY <2>3, <2>4, ExpInjective
    <3> QED
      BY <1>1, <2>8, <3>1, XorCancels, XorType
  <2> QED
    BY <2>2, <2>8, <2>9, <2>10, MultType DEF i, h
<1>5. \A l \in Nat : l \in S
  <2>. HIDE DEF S
  <2> QED
    BY <1>3, <1>4, SetInduction
<1> QED
  BY <1>0, <1>5

\* The two rounds after the erasures: the first adds d z gamma, the second
\* makes of it what belongs to the location.
LEMMA TwoRounds ==
  ASSUME NEW a \in Byte, NEW z \in Byte, NEW d \in Byte, d # 0, NEW x \in Byte
  PROVE  LET r == gmult(x, d) \oplus gmult(d, d)
         IN  /\ r \in Byte
             /\ r = 0 => x = d
             /\ (a \oplus gmult(d, z)) \oplus gmult(r, gmult(ginv(d), z)) = a \oplus gmult(x, z)
<1>. DEFINE r == gmult(x, d) \oplus gmult(d, d)
            i == ginv(d)
            q == x \oplus d
<1>1. i \in Byte /\ gmult(d, i) = 1 /\ q \in Byte
  BY ByteInverse, XorType
<1>2. r = gmult(q, d) /\ r \in Byte
  BY <1>1, MultDistributes, MultType
<1>3. r = 0 => x = d
  <2>1. r = 0 => q = 0
    BY <1>1, <1>2, MultType
  <2> QED
    BY <2>1, XorCancels
<1>. HIDE DEF r, i
<1>4. gmult(r, gmult(i, z)) = gmult(q, z)
  <2>1. gmult(i, z) \in Byte
    BY <1>1, MultType
  <2>2. gmult(gmult(q, d), gmult(i, z)) = gmult(q, gmult(d, gmult(i, z)))
    BY <1>1, <2>1, MultAssociates
  <2>3. gmult(d, gmult(i, z)) = z
    <3>1. gmult(d, gmult(i, z)) = gmult(gmult(d, i), z)
      BY <1>1, MultAssociates
    <3> QED
      BY <1>1, <3>1, MultOne
  <2> QED
    BY <1>2, <2>2, <2>3
<1>5. gmult(q, z) = gmult(x, z) \oplus gmult(d, z)
  BY MultDistributes
<1>. DEFINE u == gmult(x, z)
            v == gmult(d, z)
<1>6. u \in Byte /\ v \in Byte /\ a \oplus v \in Byte
  BY MultType, XorType
<1>. HIDE DEF u, v
<1>7. (a \oplus v) \oplus (u \oplus v) = a \oplus u
  <2>1. (a \oplus v) \oplus (u \oplus v) = (a \oplus u) \oplus (v \oplus v)
    BY <1>6, XorSwaps
  <2>2. v \oplus v = 0 /\ a \oplus u \in Byte
    BY <1>6, XorZero, XorType
  <2> QED
    BY <2>1, <2>2, XorZero
<1> QED
  BY <1>2, <1>3, <1>4, <1>5, <1>7 DEF r, i, u, v

\* The discrepancies of the two rounds after the erasures.
LEMMA FirstDiscrepancies ==
  ASSUME NEW npar \in Nat \ {0}, NEW E \in Nat, E + 2 <= npar, NEW X, NEW Y, NEW g, NEW s,
         Errors(g, s, X, Y, E + 1, npar), Distinct(X, E + 1), Y[E + 1] # 0
  PROVE  LET d == Conv(g[E], s[E + 1], E)
         IN  /\ d \in Byte /\ d # 0
             /\ Conv(g[E], s[E + 1], E + 1) = gmult(gexp(X[E + 1]), d)
<1>. DEFINE n == 2 * npar
            L == E + 1
            p == g[E]
            x == X[L]
            y == Y[L]
            a == s[L]
            b == s[E]
<1>1. /\ n \in Nat /\ L \in 1 .. L /\ L - 1 = E /\ E \in 0 .. L /\ E \in 0 .. npar
      /\ E \in 0 .. n - 1 /\ L \in 0 .. n - 1 /\ L \in 1 .. n - 1 /\ L \in Nat /\ L \in 0 .. npar
  OBVIOUS
<1>2. /\ Locations(X, L) /\ Locator(g, X, L, npar) /\ y \in Byte
      /\ \E t : IsSeries(t, y, x, n) /\ IsSumOf(a, s[L - 1], t, n)
  BY <1>1 DEF Errors, PowerSums
<1>3. PICK t : IsSeries(t, y, x, n) /\ IsSumOf(a, b, t, n)
  BY <1>1, <1>2
<1>4. x \in 0 .. 254 /\ x \in Nat
  BY <1>1, <1>2, LocationsType
<1>5. Bytes(p, n) /\ Bytes(b, n)
  BY <1>1, OmegaBytes
<1>6. Bytes(t, n)
  BY <1>1, <1>2, <1>3, <1>4, SeriesBytes
<1>7. Conv(p, b, E) = 0 /\ Conv(p, b, L) = 0
  <2>1. \A m \in E .. n - 1 : Omega(g, s, E, npar)[m] = 0
    BY <1>1, OmegaDegree
  <2>2. E \in E .. n - 1 /\ L \in E .. n - 1
    BY <1>1
  <2> QED
    BY <1>1, <2>1, <2>2 DEF Omega
<1>8. Conv(p, t, E) # 0
  <2>1. Locations(X, E) /\ Locator(g, X, E, npar)
    <3>1. \A l \in 1 .. E : l \in 1 .. L
      OBVIOUS
    <3>2. \A l \in 0 .. E : l \in 0 .. L
      OBVIOUS
    <3> QED
      BY <1>2, <3>1, <3>2 DEF Locations, Locator
  <2>2. \A l \in 1 .. E : X[l] # x
    <3>1. \A l \in 1 .. E : l \in 1 .. L /\ l # L
      OBVIOUS
    <3> QED
      BY <1>1, <3>1 DEF Distinct
  <2>3. y # 0 /\ E \in 0 .. E
    OBVIOUS
  <2>. HIDE DEF x, y
  <2>4. \A l \in 0 .. E : Conv(g[l], t, l) # 0
    BY <1>1, <1>2, <1>3, <1>4, <2>1, <2>2, <2>3, SeriesNotCancelled
  <2> QED
    BY <2>3, <2>4
<1>9. p[L] = 0
  <2>1. ZerosFrom(g[L - 1], L, n)
    BY <1>1, <1>2, LocatorStep
  <2>2. L \in L .. n - 1
    BY <1>1
  <2> QED
    BY <1>1, <2>1, <2>2 DEF ZerosFrom
<1>. HIDE DEF n, L, p, x, y, a, b
<1>10. Conv(p, a, E) = Conv(p, t, E) /\ Conv(p, t, E) \in Byte
  <2>1. Conv(p, a, E) = Conv(p, b, E) \oplus Conv(p, t, E)
    BY <1>1, <1>3, <1>5, <1>6, ConvOfSum
  <2>2. Conv(p, t, E) \in Byte
    BY <1>1, <1>5, <1>6, ConvType
  <2> QED
    BY <1>7, <2>1, <2>2, XorZero
<1>11. Conv(p, a, L) = Conv(p, t, L) /\ Conv(p, t, L) \in Byte
  <2>1. Conv(p, a, L) = Conv(p, b, L) \oplus Conv(p, t, L)
    BY <1>1, <1>3, <1>5, <1>6, ConvOfSum
  <2>2. Conv(p, t, L) \in Byte
    BY <1>1, <1>5, <1>6, ConvType
  <2> QED
    BY <1>7, <2>1, <2>2, XorZero
<1>12. Conv(p, t, L) = gmult(gexp(x), Conv(p, t, E))
  <2>1. Conv(p, t, L) = gmult(gexp(x), Conv(p, t, L - 1)) \oplus gmult(p[L], t[0])
    BY <1>1, <1>2, <1>3, <1>4, <1>5, ConvNextOfSeries
  <2>2. gexp(x) \in Byte
    BY <1>4, ExpNotZero
  <2>3. gmult(gexp(x), Conv(p, t, E)) \in Byte
    BY <1>10, <2>2, MultType
  <2> QED
    BY <1>1, <1>9, <2>1, <2>3, MultZero, XorZero
<1>. QED
  BY <1>8, <1>10, <1>11, <1>12 DEF p, a, x, L

\* One error besides the erasures: two rounds make the locator polynomial of both.
LEMMA MasseyError ==
  ASSUME NEW npar \in Nat \ {0}, NEW E \in Nat, E + 2 <= npar, NEW X, NEW Y, NEW g, NEW s,
         Errors(g, s, X, Y, E + 1, npar), Distinct(X, E + 1), Y[E + 1] # 0,
         NEW syn, SameSyndromes(syn, s[E + 1], npar),
         NEW erasures, Len(erasures) = E, init_gamma(erasures, npar) = g[E]
  PROVE  Modified_Berlekamp_Massey(syn, erasures, npar) = g[E + 1]
<1>. DEFINE n == 2 * npar
            L == E + 1
            p == g[E]
            h == g[L]
            x == X[L]
            a == s[L]
            d == Conv(p, a, E)
            z == mul_z_poly(p)
            q == add_polys(p, scale_poly(d, z))
            r == gmult(gexp(x), d) \oplus gmult(d, d)
            u == mul_z_poly(scale_poly(ginv(d), p))
            v == IF r = 0 THEN q ELSE add_polys(q, scale_poly(r, u))
            m0 == FirstRound(p, E)
            m1 == [psi |-> q, D |-> u, L |-> L, k |-> 0]
            m2 == [psi |-> v, D |-> mul_z_poly(u), L |-> L, k |-> 0]
<1>1. /\ n \in Nat /\ L \in 1 .. L /\ L - 1 = E /\ E \in 0 .. L /\ L \in 0 .. L /\ E \in 0 .. E
      /\ E \in 0 .. npar - 1 /\ L \in 0 .. npar - 1 /\ L \in Nat /\ L \in 0 .. npar
      /\ E \in 0 .. n - 1 /\ L \in 0 .. n - 1 /\ L # 0 /\ npar \in Nat
  OBVIOUS
<1>2. Locations(X, L) /\ Locator(g, X, L, npar) /\ IsQuiet(h, syn, L, L, npar)
      /\ ZerosFrom(h, L + 1, n)
  BY LocatorIsQuiet DEF Errors
<1>3. /\ d \in Byte /\ d # 0 /\ Conv(p, a, L) = gmult(gexp(x), d)
  BY FirstDiscrepancies
<1>4. p \in Polys(npar) /\ h \in Polys(npar) /\ Bytes(p, n) /\ Bytes(a, n)
  BY <1>1, <1>2, LocatorBytes, OmegaBytes
<1>5. IsFactor(h, p, x, n) /\ ZerosFrom(p, L, n) /\ gexp(x) \in Byte
  <2>1. IsFactor(h, g[L - 1], x, n) /\ ZerosFrom(g[L - 1], L, n) /\ x \in Nat
    BY <1>1, <1>2, LocatorStep
  <2>2. gexp(x) \in Byte
    BY <2>1, ExpNotZero
  <2> QED
    BY <1>1, <2>1, <2>2
<1>6. SameSyndromes(syn, a, npar)
  OBVIOUS
<1>. HIDE DEF p, h, x, a, d
<1>7. z \in Polys(npar) /\ IsUp(z, p, n)
  BY <1>4, UpType
<1>8. q \in Polys(npar) /\ IsSumOf(q, p, scale_poly(d, z), n) /\ scale_poly(d, z) \in Polys(npar)
      /\ IsMultiple(scale_poly(d, z), d, z, n)
  <2>. HIDE DEF z
  <2>1. scale_poly(d, z) \in Polys(npar) /\ IsMultiple(scale_poly(d, z), d, z, n)
    BY <1>3, <1>7, ScaleType
  <2> QED
    BY <1>4, <2>1, AddType
<1>9. u \in Polys(npar) /\ IsUp(u, scale_poly(ginv(d), p), n)
      /\ IsMultiple(scale_poly(ginv(d), p), ginv(d), p, n)
  <2>1. ginv(d) \in Byte
    BY <1>3, ByteInverse
  <2>2. scale_poly(ginv(d), p) \in Polys(npar) /\ IsMultiple(scale_poly(ginv(d), p), ginv(d), p, n)
    BY <1>4, <2>1, ScaleType
  <2> QED
    BY <2>2, UpType
<1>10. r \in Byte
  BY <1>3, <1>5, MultType, XorType
<1>. HIDE DEF z, q, u, r
<1>11. ASSUME NEW m \in 0 .. n - 1
       PROVE  /\ q[m] = p[m] \oplus gmult(d, z[m]) /\ u[m] = gmult(ginv(d), z[m])
              /\ h[m] = p[m] \oplus gmult(gexp(x), z[m])
              /\ p[m] \in Byte /\ z[m] \in Byte
              /\ z[m] = IF m = 0 THEN 0 ELSE p[m - 1]
  <2>1. z[m] = IF m = 0 THEN 0 ELSE p[m - 1]
    BY <1>7 DEF IsUp
  <2>2. q[m] = p[m] \oplus gmult(d, z[m])
    BY <1>8 DEF IsSumOf, IsMultiple
  <2>3. h[m] = p[m] \oplus gmult(gexp(x), z[m])
    BY <1>5, <2>1 DEF IsFactor
  <2>4. u[m] = gmult(ginv(d), z[m])
    <3>1. CASE m = 0
      BY <1>9, <2>1, <3>1, MultZero DEF IsUp
    <3>2. CASE m # 0
      <4>1. m - 1 \in 0 .. n - 1
        BY <1>1, <3>2
      <4>2. u[m] = scale_poly(ginv(d), p)[m - 1]
        BY <1>9, <3>2 DEF IsUp
      <4>3. scale_poly(ginv(d), p)[m - 1] = gmult(ginv(d), p[m - 1])
        BY <1>9, <4>1 DEF IsMultiple
      <4> QED
        BY <2>1, <3>2, <4>2, <4>3
    <3> QED
      BY <3>1, <3>2
  <2>5. p[m] \in Byte /\ z[m] \in Byte
    BY <1>4, <1>7, PolyBytes DEF n
  <2> QED
    BY <2>1, <2>2, <2>3, <2>4, <2>5
\* The first of the two rounds.
<1>12. compute_discrepancy(p, syn, E, E) = d
  BY <1>1, <1>4, <1>5, <1>6, Discrepancy DEF d, L
<1>13. MasseyRound(m0, syn, E) = m1
  <2>1. E < E - (-1) /\ E - (-1) = L /\ E - E = 0
    OBVIOUS
  <2> QED
    BY <1>3, <1>12, <2>1 DEF MasseyRound, FirstRound, q, u, z
\* The second one.
<1>14. compute_discrepancy(q, syn, L, L) = r
  <2>. DEFINE f == scale_poly(d, z)
  <2>1. Bytes(z, n) /\ Bytes(f, n) /\ Bytes(q, n)
    BY <1>7, <1>8, PolyBytes DEF n
  <2>2. ZerosFrom(q, L + 1, n)
    <3>1. ASSUME NEW m \in L + 1 .. n - 1 PROVE q[m] = 0
      <4>1. m \in 0 .. n - 1 /\ m # 0 /\ m \in L .. n - 1 /\ m - 1 \in L .. n - 1
        BY <1>1
      <4>2. p[m] = 0 /\ p[m - 1] = 0
        BY <1>5, <4>1 DEF ZerosFrom
      <4>3. q[m] = p[m] \oplus gmult(d, z[m]) /\ z[m] = p[m - 1]
        BY <1>11, <4>1
      <4> QED
        BY <4>2, <4>3, MultZero, XorZero, ZeroIsByte
    <3> QED
      BY <3>1 DEF ZerosFrom
  <2>. HIDE DEF f
  <2>3. compute_discrepancy(q, syn, L, L) = Conv(q, a, L)
    <3>1. L \in 0 .. L
      BY <1>1
    <3> QED
      BY <1>1, <1>4, <1>6, <2>1, <2>2, <3>1, Discrepancy DEF n
  <2>4. Conv(q, a, L) = Conv(p, a, L) \oplus Conv(f, a, L)
    <3>1. IsSumOf(q, p, f, n)
      BY <1>8 DEF f
    <3> QED
      BY <1>1, <1>4, <2>1, <3>1, ConvOfSum
  <2>5. Conv(f, a, L) = gmult(d, Conv(z, a, L))
    <3>1. IsMultiple(f, d, z, n)
      BY <1>8 DEF f
    <3> QED
      BY <1>1, <1>3, <1>4, <2>1, <3>1, ConvOfMultiple
  <2>6. Conv(z, a, L) = d
    <3>1. Conv(z, a, L) = IF L = 0 THEN 0 ELSE Conv(p, a, L - 1)
      BY <1>1, <1>4, <1>7, <2>1, ConvOfUp
    <3> QED
      BY <1>1, <3>1 DEF d
  <2> QED
    BY <1>3, <2>3, <2>4, <2>5, <2>6 DEF r
<1>15. MasseyRound(m1, syn, L) = m2
  <2>1. ~ (L < L - 0)
    BY <1>1
  <2>. HIDE DEF L
  <2>2. compute_discrepancy(m1.psi, syn, m1.L, L) = r /\ ~ (m1.L < L - m1.k)
    BY <1>14, <2>1
  <2> QED
    BY <2>2 DEF MasseyRound
<1>16. v = h
  <2>1. r = 0 => gexp(x) = d
    BY <1>3, <1>5, TwoRounds DEF r
  <2>2. v \in Polys(npar)
    <3>1. scale_poly(r, u) \in Polys(npar)
      BY <1>9, <1>10, ScaleType
    <3>2. add_polys(q, scale_poly(r, u)) \in Polys(npar)
      BY <1>8, <3>1, AddType
    <3> QED
      BY <1>8, <3>2
  <2>3. ASSUME NEW m \in 0 .. n - 1 PROVE v[m] = h[m]
    <3>1. CASE r = 0
      BY <1>11, <2>1, <3>1
    <3>2. CASE r # 0
      <4>1. v[m] = q[m] \oplus gmult(r, u[m])
        <5>1. scale_poly(r, u) \in Polys(npar) /\ IsMultiple(scale_poly(r, u), r, u, n)
          BY <1>9, <1>10, ScaleType
        <5>2. IsSumOf(add_polys(q, scale_poly(r, u)), q, scale_poly(r, u), n)
          BY <1>8, <5>1, AddType
        <5> QED
          BY <3>2, <5>1, <5>2 DEF IsSumOf, IsMultiple
      <4>2. (p[m] \oplus gmult(d, z[m])) \oplus gmult(r, gmult(ginv(d), z[m]))
              = p[m] \oplus gmult(gexp(x), z[m])
        <5>1. p[m] \in Byte /\ z[m] \in Byte
          BY <1>11
        <5> QED
          BY <1>3, <1>5, <5>1, TwoRounds DEF r
      <4> QED
        BY <1>11, <4>1, <4>2
    <3> QED
      BY <3>1, <3>2
  <2>. HIDE DEF v
  <2>4. v \in [0 .. n - 1 -> Byte] /\ h \in [0 .. n - 1 -> Byte]
    BY <1>4, <2>2, DegreesSize DEF Polys, n
  <2> QED
    BY <2>3, <2>4
<1>17. \E m : IsMassey(m, p, E, syn, npar)
  <2>. DEFINE b == E + 2
              f == [i \in E .. b |-> IF i = E THEN m0 ELSE IF i = E + 1 THEN m1 ELSE m2]
  <2>1. b \in E .. npar /\ \A i \in E .. b : i = E \/ i = E + 1 \/ i = b
    BY <1>1
  <2>2. f[E] = m0 /\ f[E + 1] = m1 /\ f[b] = m2
    BY <1>1
  <2>. HIDE DEF f, m0, m1, m2
  <2>3. Begins(f, p, E, b, syn)
    <3>1. ASSUME NEW i \in E .. b
          PROVE  f[i] = IF i = E THEN FirstRound(p, E) ELSE MasseyRound(f[i - 1], syn, i - 1)
      <4>1. CASE i = E
        BY <2>2, <4>1 DEF m0
      <4>2. CASE i = E + 1
        <5>1. i - 1 = E /\ i # E
          BY <4>2
        <5> QED
          BY <1>13, <2>2, <4>2, <5>1
      <4>3. CASE i = b
        <5>1. i - 1 = L /\ i # E
          BY <4>3
        <5> QED
          BY <1>15, <2>2, <4>3, <5>1
      <4> QED
        BY <2>1, <4>1, <4>2, <4>3
    <3> QED
      BY <3>1 DEF Begins
  <2>4. mul_z_poly(u) \in Polys(npar)
    BY <1>9, UpType
  <2>5. IsQuiet(v, syn, L, b, npar)
    <3>1. \A i \in b .. npar - 1 : i \in L .. npar - 1
      BY <1>1
    <3> QED
      BY <1>2, <1>16, <3>1 DEF IsQuiet
  <2>6. f[b] = [psi |-> v, D |-> mul_z_poly(u), L |-> L, k |-> 0]
    BY <2>2 DEF m2
  <2>. HIDE DEF v, L, b
  <2> QED
    BY <2>1, <2>3, <2>4, <2>5, <2>6, MasseyExists
<1>18. PICK m : /\ IsMassey(m, p, E, syn, npar)
                /\ Modified_Berlekamp_Massey(syn, erasures, npar) = m[npar].psi
  <2>1. ~ (E >= npar) /\ init_gamma(erasures, npar) = p /\ Len(erasures) = E
    BY <1>1 DEF p
  <2> QED
    BY <1>17, <2>1, MasseyChosen
<1>19. m[E + 2].psi = h /\ m[E + 2].L = L /\ E + 2 \in E .. npar
  <2>1. E \in E .. npar /\ E + 1 \in E .. npar /\ E + 2 \in E .. npar /\ (E + 1) - 1 = E
        /\ (E + 2) - 1 = L /\ E + 1 # E /\ E + 2 # E
    BY <1>1
  <2>. HIDE DEF m0, m1, m2
  <2>2. m[E] = m0
    BY <1>18, <2>1 DEF IsMassey, m0
  <2>3. m[E + 1] = m1
    BY <1>13, <1>18, <2>1, <2>2 DEF IsMassey
  <2>4. m[E + 2] = m2
    BY <1>15, <1>18, <2>1, <2>3 DEF IsMassey
  <2> QED
    BY <1>16, <2>1, <2>4 DEF m2
<1>20. m[npar].psi = h
  <2>1. IsQuiet(h, syn, L, E + 2, npar)
    <3>1. \A i \in E + 2 .. npar - 1 : i \in L .. npar - 1
      BY <1>1
    <3> QED
      BY <1>2, <3>1 DEF IsQuiet
  <2>. HIDE DEF L
  <2> QED
    BY <1>18, <1>19, <2>1, QuietRounds
<1> QED
  BY <1>18, <1>20 DEF h

-----------------------------------------------------------------------------
(* decode_data: the syndromes of a damaged code word. *)

\* decode_data: Horner's rule gives the value of the reversed code word.
IsHorner(s, d, n, e) ==
    s = [i \in 0 .. n |-> IF i = 0 THEN 0 ELSE d[i - 1] \oplus gmult(gexp(e), s[i - 1])]

LEMMA HornerExists ==
  ASSUME NEW n \in Nat, NEW d, Bytes(d, n), NEW e \in Nat
  PROVE  \E s : IsHorner(s, d, n, e)
<1>. DEFINE s == [i \in 0 .. n |-> Value(Rev(d, i), i, e)]
<1>1. ASSUME NEW i \in 0 .. n
      PROVE  s[i] = IF i = 0 THEN 0 ELSE d[i - 1] \oplus gmult(gexp(e), s[i - 1])
  <2>1. CASE i = 0
    BY <2>1, ValueNone
  <2>2. CASE i # 0
    <3>. DEFINE k == i - 1
    <3>1. k \in Nat /\ k \in 0 .. n /\ k + 1 = i
      BY <2>2
    <3>2. Bytes(d, k + 1)
      BY <3>1 DEF Bytes
    <3>. HIDE DEF k
    <3>3. Value(Rev(d, k + 1), k + 1, e) = d[k] \oplus gmult(gexp(e), Value(Rev(d, k), k, e))
      BY <3>1, <3>2, HornerNext
    <3>4. s[i] = Value(Rev(d, k + 1), k + 1, e) /\ s[k] = Value(Rev(d, k), k, e)
      BY <3>1
    <3> QED
      BY <2>2, <3>3, <3>4 DEF k
  <2> QED
    BY <2>1, <2>2
<1>2. s = [i \in 0 .. n |-> s[i]]
  OBVIOUS
<1>. HIDE DEF s
<1> QED
  BY <1>1, <1>2 DEF IsHorner

\* decode_data evaluates by Horner.
LEMMA HornerValue ==
  ASSUME NEW n \in Nat, NEW d, Bytes(d, n), NEW e \in Nat, NEW s, IsHorner(s, d, n, e)
  PROVE  s[n] = Value(Rev(d, n), n, e)
<1>. DEFINE S == {i \in Nat : i <= n => s[i] = Value(Rev(d, i), i, e)}
<1>1. 0 \in S
  <2>1. s[0] = 0
    BY DEF IsHorner
  <2> QED
    BY <2>1, ValueNone
<1>2. ASSUME NEW i \in Nat, i \in S PROVE i + 1 \in S
  <2>. SUFFICES ASSUME i + 1 <= n PROVE s[i + 1] = Value(Rev(d, i + 1), i + 1, e)
    OBVIOUS
  <2>1. i + 1 \in 0 .. n /\ i + 1 # 0 /\ (i + 1) - 1 = i
    OBVIOUS
  <2>2. s[i + 1] = d[i] \oplus gmult(gexp(e), s[i])
    BY <2>1 DEF IsHorner
  <2>3. Bytes(d, i + 1)
    BY DEF Bytes
  <2>4. Value(Rev(d, i + 1), i + 1, e) = d[i] \oplus gmult(gexp(e), Value(Rev(d, i), i, e))
    BY <2>3, HornerNext
  <2> QED
    BY <1>2, <2>2, <2>4
<1>3. \A i \in Nat : i \in S
  <2>. HIDE DEF S
  <2> QED
    BY <1>1, <1>2, SetInduction
<1> QED
  BY <1>3

\* Its results are the values of the received word at the first npar powers.
LEMMA Syndromes ==
  ASSUME NEW npar \in Nat \ {0}, NEW n \in Nat, NEW d, Bytes(d, n)
  PROVE  /\ decode_data(d, n, npar) \in Polys(npar)
         /\ \A j \in 0 .. npar - 1 : decode_data(d, n, npar)[j] = Value(Rev(d, n), n, j + 1)
<1>. DEFINE h(j) == CHOOSE s : s = [i \in 0 .. n |-> IF i = 0 THEN 0
                                     ELSE d[i - 1] \oplus gmult(gexp(j + 1), s[i - 1])]
<1>1. decode_data(d, n, npar) = [j \in 0 .. 2 * npar - 1 |-> IF j < npar THEN h(j)[n] ELSE 0]
  BY DegreesSize DEF decode_data
<1>2. ASSUME NEW j \in 0 .. npar - 1 PROVE h(j)[n] = Value(Rev(d, n), n, j + 1)
  <2>. DEFINE P(s) == s = [i \in 0 .. n |-> IF i = 0 THEN 0
                                     ELSE d[i - 1] \oplus gmult(gexp(j + 1), s[i - 1])]
              g == CHOOSE s : P(s)
  <2>1. h(j) = g
    OBVIOUS
  <2>2. j + 1 \in Nat
    OBVIOUS
  <2>3. \A s : P(s) <=> IsHorner(s, d, n, j + 1)
    BY DEF IsHorner
  <2>. HIDE DEF P
  <2>4. \E s : P(s)
    BY <2>2, <2>3, HornerExists
  <2>5. P(g)
    BY <2>4, Zenon
  <2>. HIDE DEF g, h
  <2>6. IsHorner(g, d, n, j + 1)
    BY <2>3, <2>5
  <2> QED
    BY <2>1, <2>2, <2>6, HornerValue
<1>. HIDE DEF h
<1>3. \A j \in 0 .. npar - 1 : Value(Rev(d, n), n, j + 1) \in Byte
  <2>1. Bytes(Rev(d, n), n)
    BY RevBytes
  <2>2. \A j \in 0 .. npar - 1 : j + 1 \in Nat
    OBVIOUS
  <2> QED
    BY <2>1, <2>2, ValueType
<1>4. \A j \in 0 .. 2 * npar - 1 : (IF j < npar THEN h(j)[n] ELSE 0) \in Byte
  <2>1. ASSUME NEW j \in 0 .. 2 * npar - 1, j < npar PROVE h(j)[n] \in Byte
    <3>1. j \in 0 .. npar - 1
      BY <2>1
    <3> QED
      BY <1>2, <1>3, <3>1
  <2> QED
    BY <2>1, ZeroIsByte
<1>5. decode_data(d, n, npar) \in [0 .. 2 * npar - 1 -> Byte]
  BY <1>1, <1>4
<1>6. \A j \in 0 .. npar - 1 : decode_data(d, n, npar)[j] = h(j)[n]
  <2>1. \A j \in 0 .. npar - 1 : j \in 0 .. 2 * npar - 1 /\ j < npar
    OBVIOUS
  <2> QED
    BY <1>1, <2>1
<1> QED
  BY <1>2, <1>5, <1>6, DegreesSize DEF Polys

LEMMA ValueOfSumOf ==
  ASSUME NEW n \in Nat, NEW p, NEW u, NEW h, Bytes(p, n), Bytes(u, n), IsSumOf(h, p, u, n),
         NEW e \in Nat
  PROVE  Value(h, n, e) = Value(p, n, e) \oplus Value(u, n, e)
<1> QED
  BY ValueOfSum DEF IsSumOf

\* The first l errors as a polynomial, and its values.
Part(X, Y, l, n) == [t \in 0 .. n - 1 |->
    IF \E i \in 1 .. l : X[i] = t THEN Y[CHOOSE i \in 1 .. l : X[i] = t] ELSE 0]
AtPlaces(X, Y, L, n) ==
    /\ Distinct(X, L)
    /\ \A l \in 1 .. L : Y[l] \in Byte /\ X[l] \in 0 .. n - 1

LEMMA PartTerms ==
  ASSUME NEW n \in Nat, NEW L \in Nat, NEW X, NEW Y, AtPlaces(X, Y, L, n), NEW l \in 0 .. L
  PROVE  /\ Bytes(Part(X, Y, l, n), n)
         /\ \A i \in 1 .. l : Part(X, Y, l, n)[X[i]] = Y[i]
         /\ \A t \in 0 .. n - 1 : (\A i \in 1 .. l : X[i] # t) => Part(X, Y, l, n)[t] = 0
<1>1. \A i \in 1 .. l : i \in 1 .. L
  OBVIOUS
<1>2. ASSUME NEW i \in 1 .. l PROVE Part(X, Y, l, n)[X[i]] = Y[i]
  <2>. DEFINE j == CHOOSE j \in 1 .. l : X[j] = X[i]
  <2>1. j \in 1 .. l /\ X[j] = X[i]
    OBVIOUS
  <2>2. Part(X, Y, l, n)[X[i]] = Y[j]
    BY <1>1 DEF Part, AtPlaces
  <2>. HIDE DEF j
  <2>3. j = i
    BY <1>1, <2>1 DEF AtPlaces, Distinct
  <2> QED
    BY <2>2, <2>3
<1>3. \A t \in 0 .. n - 1 : (\A i \in 1 .. l : X[i] # t) => Part(X, Y, l, n)[t] = 0
  BY DEF Part
<1>4. ASSUME NEW t \in 0 .. n - 1 PROVE Part(X, Y, l, n)[t] \in Byte
  <2>1. CASE \E i \in 1 .. l : X[i] = t
    BY <1>1, <1>2, <2>1 DEF AtPlaces
  <2>2. CASE \A i \in 1 .. l : X[i] # t
    BY <1>3, <2>2, ZeroIsByte
  <2> QED
    BY <2>1, <2>2
<1> QED
  BY <1>2, <1>3, <1>4 DEF Bytes

\* One more error adds one more term to the values of a word of errors.
LEMMA PartNext ==
  ASSUME NEW n \in Nat, NEW L \in Nat, NEW X, NEW Y, AtPlaces(X, Y, L, n), NEW l \in 1 .. L,
         NEW e \in Nat
  PROVE  Value(Part(X, Y, l, n), n, e)
           = Value(Part(X, Y, l - 1, n), n, e) \oplus gmult(Y[l], gexp(X[l] * e))
<1>. DEFINE p == Part(X, Y, l - 1, n)
            h == Part(X, Y, l, n)
            x == X[l]
            y == Y[l]
            u == [t \in 0 .. n - 1 |-> IF t = x THEN y ELSE 0]
            f == Terms(u, n, e)
<1>1. l - 1 \in 0 .. L /\ l \in 0 .. L /\ l \in 1 .. l /\ (\A i \in 1 .. l - 1 : i \in 1 .. l /\ i # l /\ i \in 1 .. L)
      /\ \A i \in 1 .. l : i \in 1 .. l - 1 \/ i = l
  OBVIOUS
<1>2. y \in Byte /\ x \in 0 .. n - 1 /\ \A i \in 1 .. l - 1 : X[i] # x
  BY <1>1 DEF AtPlaces, Distinct
<1>3. /\ Bytes(p, n) /\ \A i \in 1 .. l - 1 : p[X[i]] = Y[i]
      /\ \A t \in 0 .. n - 1 : (\A i \in 1 .. l - 1 : X[i] # t) => p[t] = 0
  BY <1>1, PartTerms
<1>4. /\ Bytes(h, n) /\ \A i \in 1 .. l : h[X[i]] = Y[i]
      /\ \A t \in 0 .. n - 1 : (\A i \in 1 .. l : X[i] # t) => h[t] = 0
  BY <1>1, PartTerms
<1>. HIDE DEF p, h
<1>5. ASSUME NEW t \in 0 .. n - 1 PROVE h[t] = p[t] \oplus u[t]
  <2>0. p[t] \in Byte /\ h[t] \in Byte
    BY <1>3, <1>4 DEF Bytes
  <2>1. CASE t = x
    <3>1. h[t] = y /\ p[t] = 0 /\ u[t] = y
      BY <1>1, <1>2, <1>3, <1>4, <2>1
    <3> QED
      BY <1>2, <3>1, XorZero
  <2>2. CASE t # x
    <3>1. u[t] = 0
      BY <2>2
    <3>2. h[t] = p[t]
      <4>1. CASE \E i \in 1 .. l - 1 : X[i] = t
        <5>1. PICK i \in 1 .. l - 1 : X[i] = t
          BY <4>1
        <5> QED
          BY <1>1, <1>3, <1>4, <5>1
      <4>2. CASE \A i \in 1 .. l - 1 : X[i] # t
        <5>1. \A i \in 1 .. l : X[i] # t
          BY <1>1, <2>2, <4>2
        <5> QED
          BY <1>3, <1>4, <4>2, <5>1
      <4> QED
        BY <4>1, <4>2
    <3> QED
      BY <2>0, <3>1, <3>2, XorZero
  <2> QED
    BY <2>1, <2>2
<1>6. \A t \in 0 .. n - 1 : u[t] \in Byte
  BY <1>2, ZeroIsByte
<1>7. Bytes(u, n)
  BY <1>6 DEF Bytes
<1>8. f[x] = gmult(y, gexp(e * x)) /\ \A t \in 0 .. n - 1 : t # x => f[t] = 0
  BY <1>2, MultZero DEF Terms
<1>9. Value(u, n, e) = XorSum(f, n) /\ f[x] \in Byte
  BY <1>2, <1>7, TermsType DEF Bytes
<1>. HIDE DEF u, f
<1>10. XorSum(f, n) = f[x]
  BY <1>2, <1>8, <1>9, SumOfOne
<1>11. Value(h, n, e) = Value(p, n, e) \oplus Value(u, n, e)
  <2>1. Bytes(p, n) /\ Bytes(u, n) /\ IsSumOf(h, p, u, n)
    BY <1>3, <1>5, <1>7 DEF IsSumOf
  <2> QED
    BY <2>1, ValueOfSumOf
<1>12. e * x = x * e
  BY <1>2
<1> QED
  BY <1>8, <1>9, <1>10, <1>11, <1>12 DEF h, p, x, y

\* The syndromes of the first l errors are power sums.
Sums(X, Y, L, n, m) ==
    [l \in 0 .. L |-> [j \in 0 .. m - 1 |-> Value(Part(X, Y, l, n), n, j + 1)]]

\* A word that is 0 but at some places has the power sums of its errors as
\* values.
LEMMA SumsOfPowers ==
  ASSUME NEW n \in Nat, NEW L \in Nat, NEW X, NEW Y, AtPlaces(X, Y, L, n), NEW m \in Nat
  PROVE  PowerSums(Sums(X, Y, L, n, m), X, Y, L, m)
<1>. DEFINE s == Sums(X, Y, L, n, m)
<1>1. \A j \in 0 .. m - 1 : j + 1 \in Nat
  OBVIOUS
<1>2. \A l \in 0 .. L : \A j \in 0 .. m - 1 : s[l][j] = Value(Part(X, Y, l, n), n, j + 1)
  BY DEF Sums
<1>. HIDE DEF s
<1>3. ASSUME NEW l \in 0 .. L PROVE Bytes(s[l], m)
  <2>1. Bytes(Part(X, Y, l, n), n)
    BY PartTerms
  <2>2. \A j \in 0 .. m - 1 : Value(Part(X, Y, l, n), n, j + 1) \in Byte
    BY <1>1, <2>1, ValueType
  <2> QED
    BY <1>2, <2>2 DEF Bytes
<1>4. ASSUME NEW j \in 0 .. m - 1 PROVE s[0][j] = 0
  <2>. DEFINE p == Part(X, Y, 0, n)
  <2>0. 0 \in 0 .. L
    OBVIOUS
  <2>1. \A i \in 0 .. n - 1 : p[i] = 0
    BY DEF Part
  <2>2. Bytes(p, 0)
    BY DEF Bytes
  <2>3. \A i \in 0 .. n - 1 : p[i] = 0 /\ i \in 0 .. n - 1
    BY <2>1
  <2>. HIDE DEF p
  <2>4. Value(p, n, j + 1) = Value(p, 0, j + 1)
    BY <1>1, <2>2, <2>3, ValueThenZeros
  <2>5. s[0][j] = Value(p, n, j + 1)
    BY <1>2, <2>0 DEF p
  <2> QED
    BY <2>4, <2>5, ValueNone
<1>5. ASSUME NEW l \in 1 .. L
      PROVE  \E t : IsSeries(t, Y[l], X[l], m) /\ IsSumOf(s[l], s[l - 1], t, m)
  <2>. DEFINE t == [j \in 0 .. m - 1 |-> gmult(Y[l], gexp(X[l] * (j + 1)))]
  <2>1. IsSeries(t, Y[l], X[l], m)
    BY DEF IsSeries
  <2>2. ASSUME NEW j \in 0 .. m - 1 PROVE s[l][j] = s[l - 1][j] \oplus t[j]
    <3>1. l \in 0 .. L /\ l - 1 \in 0 .. L
      OBVIOUS
    <3>2. Value(Part(X, Y, l, n), n, j + 1)
            = Value(Part(X, Y, l - 1, n), n, j + 1) \oplus gmult(Y[l], gexp(X[l] * (j + 1)))
      BY <1>1, PartNext
    <3> QED
      BY <1>2, <3>1, <3>2
  <2>3. IsSumOf(s[l], s[l - 1], t, m)
    BY <2>2 DEF IsSumOf
  <2> QED
    BY <2>1, <2>3
<1> QED
  BY <1>3, <1>4, <1>5 DEF PowerSums, s

\* A damaged word is the code word plus its errors.
LEMMA DamagedTerms ==
  ASSUME NEW n \in Nat, NEW L \in Nat, NEW X, NEW Y, AtPlaces(X, Y, L, n),
         NEW c, NEW w, Damaged(c, w, X, Y, L, n)
  PROVE  /\ Bytes(w, n) /\ Bytes(c, n) /\ Bytes(Part(X, Y, L, n), n)
         /\ IsSumOf(Rev(c, n), Rev(w, n), Part(X, Y, L, n), n)
<1>. DEFINE p == Part(X, Y, L, n)
<1>0. L \in 0 .. L
  OBVIOUS
<1>1. /\ Bytes(p, n) /\ \A i \in 1 .. L : p[X[i]] = Y[i]
      /\ \A t \in 0 .. n - 1 : (\A i \in 1 .. L : X[i] # t) => p[t] = 0
  BY <1>0, PartTerms
<1>. HIDE DEF p
<1>2. ASSUME NEW i \in 0 .. n - 1
      PROVE  w[i] \in Byte /\ c[i] = w[i] \oplus p[n - i - 1] /\ c[i] \in Byte
  <2>1. w[i] \in Byte /\ n - i - 1 \in 0 .. n - 1
    BY DEF Damaged
  <2>2. CASE \E l \in 1 .. L : n - i - 1 = X[l]
    <3>1. PICK l \in 1 .. L : n - i - 1 = X[l]
      BY <2>2
    <3>2. c[i] = w[i] \oplus Y[l]
      BY <3>1 DEF Damaged
    <3>3. p[n - i - 1] = Y[l] /\ Y[l] \in Byte
      BY <1>1, <3>1 DEF AtPlaces
    <3> QED
      BY <2>1, <3>2, <3>3, XorType
  <2>3. CASE \A l \in 1 .. L : n - i - 1 # X[l]
    <3>1. c[i] = w[i]
      BY <2>3 DEF Damaged
    <3>2. p[n - i - 1] = 0
      BY <1>1, <2>1, <2>3
    <3> QED
      BY <2>1, <3>1, <3>2, XorZero
  <2> QED
    BY <2>2, <2>3
<1>3. ASSUME NEW t \in 0 .. n - 1 PROVE Rev(c, n)[t] = Rev(w, n)[t] \oplus p[t]
  <2>1. n - 1 - t \in 0 .. n - 1 /\ n - (n - 1 - t) - 1 = t
    OBVIOUS
  <2>2. c[n - 1 - t] = w[n - 1 - t] \oplus p[t]
    BY <1>2, <2>1
  <2> QED
    BY <2>2 DEF Rev
<1> QED
  BY <1>1, <1>2, <1>3 DEF Bytes, IsSumOf, p

\* decode_data of a damaged code word: the power sums of its errors.
LEMMA DamagedSyndromes ==
  ASSUME NEW npar \in Nat \ {0}, NEW n \in Nat, NEW L \in Nat, NEW X, NEW Y,
         AtPlaces(X, Y, L, n), NEW c, NEW w, Damaged(c, w, X, Y, L, n),
         \A e \in 1 .. npar : Value(Rev(w, n), n, e) = 0
  PROVE  SameSyndromes(decode_data(c, n, npar), Sums(X, Y, L, n, 2 * npar)[L], npar)
<1>. DEFINE p == Part(X, Y, L, n)
            a == Sums(X, Y, L, n, 2 * npar)[L]
<1>1. Bytes(w, n) /\ Bytes(c, n) /\ Bytes(p, n) /\ IsSumOf(Rev(c, n), Rev(w, n), p, n)
  BY DamagedTerms
<1>2. Bytes(Rev(w, n), n)
  BY <1>1, RevBytes
<1>3. \A j \in 0 .. npar - 1 : a[j] = Value(p, n, j + 1)
  BY DEF Sums
<1>. HIDE DEF p, a
<1>4. ASSUME NEW j \in 0 .. npar - 1 PROVE decode_data(c, n, npar)[j] = a[j]
  <2>1. j + 1 \in Nat /\ j + 1 \in 1 .. npar
    OBVIOUS
  <2>2. Value(Rev(c, n), n, j + 1) = Value(Rev(w, n), n, j + 1) \oplus Value(p, n, j + 1)
    BY <1>1, <1>2, <2>1, ValueOfSumOf
  <2>3. Value(Rev(w, n), n, j + 1) = 0
    BY <2>1
  <2>4. Value(p, n, j + 1) \in Byte
    BY <1>1, <2>1, ValueType
  <2>5. decode_data(c, n, npar)[j] = Value(Rev(c, n), n, j + 1)
    BY <1>1, Syndromes
  <2> QED
    BY <1>3, <2>2, <2>3, <2>4, <2>5, XorZero
<1>5. decode_data(c, n, npar) \in Polys(npar)
  BY <1>1, Syndromes
<1> QED
  BY <1>4, <1>5 DEF SameSyndromes, a

-----------------------------------------------------------------------------
(* The decoder. *)

\* c is w but for the bytes whose locations are X[1], ..., X[L].
DiffersAt(c, w, X, L, n) ==
    /\ Bytes(c, n) /\ Bytes(w, n) /\ Distinct(X, L)
    /\ \A l \in 1 .. L : X[l] \in 0 .. n - 1
    /\ \A i \in 0 .. n - 1 : (\A l \in 1 .. L : n - i - 1 # X[l]) => c[i] = w[i]
IsCodeWord(w, n, npar) == \A e \in 1 .. npar : Value(Rev(w, n), n, e) = 0
Finds(c, n, X, npar, p) ==
    Modified_Berlekamp_Massey(decode_data(c, n, npar), X, npar) = p
Corrects(c, n, X, npar, w) ==
    correct_errors_erasures(c, n, X, decode_data(c, n, npar), npar) = [i \in 0 .. n - 1 |-> w[i]]
HasLength(X, L) == Len(X) = L
Continues(Z, X, L) == \A l \in 1 .. L : Z[l] = X[l]
Difference(c, w, X, L, n) == [l \in 1 .. L |-> w[n - 1 - X[l]] \oplus c[n - 1 - X[l]]]

\* The errors are the differences at the places where there may be some.
LEMMA DifferencesDamage ==
  ASSUME NEW n \in Nat, NEW L \in Nat, NEW X, NEW c, NEW w, DiffersAt(c, w, X, L, n)
  PROVE  /\ AtPlaces(X, Difference(c, w, X, L, n), L, n)
         /\ Damaged(c, w, X, Difference(c, w, X, L, n), L, n)
         /\ \A l \in 1 .. L : Difference(c, w, X, L, n)[l] = 0 <=> w[n - 1 - X[l]] = c[n - 1 - X[l]]
<1>. DEFINE Y == Difference(c, w, X, L, n)
<1>1. ASSUME NEW l \in 1 .. L
      PROVE  /\ X[l] \in 0 .. n - 1 /\ n - 1 - X[l] \in 0 .. n - 1
             /\ Y[l] \in Byte /\ Y[l] = w[n - 1 - X[l]] \oplus c[n - 1 - X[l]]
             /\ Y[l] = 0 <=> w[n - 1 - X[l]] = c[n - 1 - X[l]]
             /\ c[n - 1 - X[l]] = w[n - 1 - X[l]] \oplus Y[l]
  <2>1. X[l] \in 0 .. n - 1
    BY DEF DiffersAt
  <2>2. n - 1 - X[l] \in 0 .. n - 1
    BY <2>1
  <2>3. w[n - 1 - X[l]] \in Byte /\ c[n - 1 - X[l]] \in Byte
    BY <2>2 DEF DiffersAt, Bytes
  <2>4. Y[l] = w[n - 1 - X[l]] \oplus c[n - 1 - X[l]]
    BY DEF Difference
  <2> QED
    BY <2>1, <2>2, <2>3, <2>4, XorType, XorCancels
<1>. HIDE DEF Y
<1>2. AtPlaces(X, Y, L, n)
  BY <1>1 DEF AtPlaces, DiffersAt
<1>3. ASSUME NEW i \in 0 .. n - 1, NEW l \in 1 .. L, n - i - 1 = X[l]
      PROVE  c[i] = w[i] \oplus Y[l]
  <2>1. n - 1 - X[l] = i
    BY <1>3
  <2> QED
    BY <1>1, <2>1
<1>4. Damaged(c, w, X, Y, L, n)
  BY <1>3 DEF Damaged, DiffersAt, Bytes
<1> QED
  BY <1>1, <1>2, <1>4 DEF Y

LEMMA DiffersLocations ==
  ASSUME NEW n \in 0 .. 255, NEW L \in Nat, NEW X, NEW c, NEW w, DiffersAt(c, w, X, L, n)
  PROVE  Locations(X, L) /\ \A l \in 1 .. L : X[l] \in 0 .. 254 /\ X[l] < n
<1>1. \A l \in 1 .. L : X[l] \in 0 .. n - 1
  BY DEF DiffersAt
<1>2. \A l \in 1 .. L : X[l] \in 0 .. 254 /\ X[l] < n
  BY <1>1
<1> QED
  BY <1>2 DEF Locations

LEMMA DifferenceIsErrors ==
  ASSUME NEW npar \in Nat \ {0}, NEW n \in 0 .. 255, NEW L \in 0 .. npar, NEW X, NEW c, NEW w,
         DiffersAt(c, w, X, L, n), IsCodeWord(w, n, npar), NEW g, Locator(g, X, L, npar)
  PROVE  LET Y == Difference(c, w, X, L, n)
             s == Sums(X, Y, L, n, 2 * npar)
         IN  /\ Errors(g, s, X, Y, L, npar) /\ Damaged(c, w, X, Y, L, n)
             /\ SameSyndromes(decode_data(c, n, npar), s[L], npar)
             /\ Distinct(X, L) /\ \A l \in 1 .. L : X[l] < n
<1>. DEFINE Y == Difference(c, w, X, L, n)
            s == Sums(X, Y, L, n, 2 * npar)
<1>1. n \in Nat /\ L \in Nat /\ 2 * npar \in Nat
  OBVIOUS
<1>2. AtPlaces(X, Y, L, n) /\ Damaged(c, w, X, Y, L, n)
  BY <1>1, DifferencesDamage
<1>. HIDE DEF Y
<1>3. PowerSums(s, X, Y, L, 2 * npar)
  BY <1>1, <1>2, SumsOfPowers
<1>4. \A e \in 1 .. npar : Value(Rev(w, n), n, e) = 0
  BY DEF IsCodeWord
<1>5. SameSyndromes(decode_data(c, n, npar), s[L], npar)
  BY <1>1, <1>2, <1>4, DamagedSyndromes
<1>. HIDE DEF s
<1>6. Locations(X, L)
  BY <1>1, DiffersLocations
<1>7. \A l \in 1 .. L : Y[l] \in Byte
  BY <1>2 DEF AtPlaces
<1>8. Errors(g, s, X, Y, L, npar)
  BY <1>3, <1>6, <1>7 DEF Errors
<1>9. Distinct(X, L) /\ \A l \in 1 .. L : X[l] < n
  BY DEF DiffersAt
<1> QED
  BY <1>2, <1>5, <1>8, <1>9 DEF Y, s

\* A decoder that has found the locator polynomial of the differences puts
\* them right.
LEMMA LocatedIsCorrected ==
  ASSUME NEW npar \in Nat \ {0}, NEW n \in 0 .. 255, NEW L \in 1 .. npar, NEW X, NEW c, NEW w,
         DiffersAt(c, w, X, L, n), IsCodeWord(w, n, npar), NEW g, Locator(g, X, L, npar),
         NEW erasures, Finds(c, n, erasures, npar, g[L])
  PROVE  Corrects(c, n, erasures, npar, w)
<1>. DEFINE Y == Difference(c, w, X, L, n)
            s == Sums(X, Y, L, n, 2 * npar)
            syn == decode_data(c, n, npar)
<1>1. L \in 0 .. npar /\ L \in Nat \ {0} /\ n \in Nat
  OBVIOUS
<1>2. /\ Errors(g, s, X, Y, L, npar) /\ Damaged(c, w, X, Y, L, n)
      /\ SameSyndromes(syn, s[L], npar)
      /\ Distinct(X, L) /\ \A l \in 1 .. L : X[l] < n
  BY <1>1, DifferenceIsErrors
<1>. HIDE DEF Y, s, syn
<1>3. syn \in Polys(npar) /\ \A j \in 0 .. npar - 1 : syn[j] = s[L][j]
  BY <1>2 DEF SameSyndromes
<1>4. Modified_Berlekamp_Massey(syn, erasures, npar) = g[L]
  BY DEF syn, Finds
<1>5. correct_errors_erasures(c, n, erasures, syn, npar) = [i \in 0 .. n - 1 |-> w[i]]
  BY <1>1, <1>2, <1>3, <1>4, Corrected
<1> QED
  BY <1>5 DEF syn, Corrects

\* As many wrong bytes at known places as there are parity bytes are
\* corrected,
LEMMA ErasuresCorrected ==
  ASSUME NEW npar \in Nat \ {0}, NEW n \in 0 .. 255, NEW L \in 1 .. npar, NEW X, HasLength(X, L),
         NEW c, NEW w, DiffersAt(c, w, X, L, n), IsCodeWord(w, n, npar)
  PROVE  Corrects(c, n, X, npar, w)
<1>. DEFINE Y == Difference(c, w, X, L, n)
            s == Sums(X, Y, L, n, 2 * npar)
            syn == decode_data(c, n, npar)
<1>0. L \in 0 .. npar /\ L \in Nat
  OBVIOUS
<1>1. L \in 0 .. npar /\ L \in Nat /\ Locations(X, L)
  BY <1>0, DiffersLocations
<1>2. PICK g : Locator(g, X, L, npar) /\ init_gamma(X, npar) = g[L]
  BY <1>1, GammaLocator DEF HasLength
<1>3. Errors(g, s, X, Y, L, npar) /\ SameSyndromes(syn, s[L], npar)
  BY <1>1, <1>2, DifferenceIsErrors
<1>. HIDE DEF Y, s, syn
<1>4. Modified_Berlekamp_Massey(syn, X, npar) = g[L]
  BY <1>2, <1>3, MasseyErasures DEF HasLength
<1>5. Finds(c, n, X, npar, g[L])
  BY <1>4 DEF syn, Finds
<1>6. /\ DiffersAt(c, w, X, L, n) /\ IsCodeWord(w, n, npar) /\ Locator(g, X, L, npar)
      /\ Finds(c, n, X, npar, g[L])
  BY <1>2, <1>5
<1> QED
  BY <1>6, LocatedIsCorrected

LEMMA LocatorContinues ==
  ASSUME NEW npar \in Nat \ {0}, NEW L \in Nat, NEW X, NEW g, Locator(g, X, L, npar),
         NEW Z, Z[L + 1] \in 0 .. 254, Continues(Z, X, L)
  PROVE  \E h : Locator(h, Z, L + 1, npar) /\ h[L] = g[L]
<1>1. \E h : /\ Locator(h, Z, L + 1, npar) /\ h[L] = g[L]
             /\ h[L + 1] = TimesFactor(g[L], Z[L + 1])
  BY LocatorAppend DEF Continues
<1> QED
  BY <1>1

\* and one more at an unknown place if two parity bytes are left.
LEMMA ErrorCorrected ==
  ASSUME NEW npar \in Nat \ {0}, NEW n \in 0 .. 255, NEW E \in Nat, E + 2 <= npar,
         NEW X, HasLength(X, E), NEW Z, Continues(Z, X, E),
         NEW c, NEW w, DiffersAt(c, w, Z, E + 1, n), IsCodeWord(w, n, npar),
         c[n - 1 - Z[E + 1]] # w[n - 1 - Z[E + 1]]
  PROVE  Corrects(c, n, X, npar, w)
<1>. DEFINE L == E + 1
            Y == Difference(c, w, Z, L, n)
            s == Sums(Z, Y, L, n, 2 * npar)
            syn == decode_data(c, n, npar)
<1>1. L \in 0 .. npar /\ L \in 1 .. npar /\ L \in Nat /\ n \in Nat /\ L \in 1 .. L
      /\ \A l \in 1 .. E : l \in 1 .. L
  OBVIOUS
<1>0. DiffersAt(c, w, Z, L, n)
  OBVIOUS
<1>2. Z[L] \in 0 .. 254 /\ Locations(X, E)
  <2>1. \A l \in 1 .. L : Z[l] \in 0 .. 254
    BY <1>0, <1>1, DiffersLocations
  <2> QED
    BY <1>1, <2>1 DEF Locations, Continues
<1>3. PICK g : Locator(g, X, E, npar) /\ init_gamma(X, npar) = g[E]
  BY <1>2, GammaLocator DEF HasLength
<1>4. PICK h : Locator(h, Z, E + 1, npar) /\ h[E] = g[E]
  BY <1>2, <1>3, LocatorContinues
<1>5. Errors(h, s, Z, Y, L, npar) /\ SameSyndromes(syn, s[L], npar) /\ Distinct(Z, L)
  BY <1>1, <1>4, DifferenceIsErrors
<1>6. Y[L] # 0
  BY <1>1, DifferencesDamage
<1>7. DiffersAt(c, w, Z, L, n) /\ Locator(h, Z, L, npar)
  BY <1>4
<1>. HIDE DEF Y, s, syn
<1>8. init_gamma(X, npar) = h[E]
  BY <1>3, <1>4
<1>9. Modified_Berlekamp_Massey(syn, X, npar) = h[L]
  BY <1>5, <1>6, <1>8, MasseyError DEF HasLength
<1>10. Finds(c, n, X, npar, h[L])
  BY <1>9 DEF syn, Finds
<1>. HIDE DEF L
<1>11. /\ DiffersAt(c, w, Z, L, n) /\ IsCodeWord(w, n, npar) /\ Locator(h, Z, L, npar)
      /\ Finds(c, n, X, npar, h[L])
  BY <1>7, <1>10
<1>12. L \in 1 .. npar
  BY <1>1
<1> QED
  BY <1>11, <1>12, LocatedIsCorrected

-----------------------------------------------------------------------------
(* The list of the missing pieces. *)

\* How many of the first m pieces there are.
Below(S, m) == S \cap (0 .. m - 1)

LEMMA BelowSize ==
  ASSUME NEW S, NEW m \in Nat
  PROVE  /\ IsFiniteSet(Below(S, m)) /\ Cardinality(Below(S, m)) \in Nat
         /\ Below(S, 0) = {} /\ Cardinality(Below(S, 0)) = 0
         /\ m \in S => Cardinality(Below(S, m + 1)) = Cardinality(Below(S, m)) + 1
         /\ m \notin S => Cardinality(Below(S, m + 1)) = Cardinality(Below(S, m))
<1>. DEFINE A == Below(S, m)
            I == 0 .. m - 1
<1>1. IsFiniteSet(I)
  BY FS_Interval
<1>2. A \in SUBSET I
  BY DEF Below
<1>3. m \in S => Below(S, m + 1) = A \cup {m}
  BY DEF Below
<1>4. m \notin S => Below(S, m + 1) = A
  BY DEF Below
<1>5. m \notin A
  BY DEF Below
<1>6. Below(S, 0) = {}
  BY DEF Below
<1>. HIDE DEF A, I
<1>7. IsFiniteSet(A)
  BY <1>1, <1>2, FS_Subset
<1>8. Cardinality(A) \in Nat
  BY <1>7, FS_CardinalityType
<1>9. Cardinality(A \cup {m}) = Cardinality(A) + 1
  BY <1>5, <1>7, FS_AddElement
<1>10. Cardinality({}) = 0
  BY FS_EmptySet
<1> QED
  BY <1>3, <1>4, <1>6, <1>7, <1>8, <1>9, <1>10 DEF A

\* X lists the locations of the L pieces that are missing among the first m of n.
Lists(X, L, S, m, n) ==
    /\ Distinct(X, L)
    /\ \A l \in 1 .. L : X[l] \in n - m .. n - 1 /\ n - 1 - X[l] \notin S
    /\ \A t \in 0 .. m - 1 : t \notin S => \E l \in 1 .. L : X[l] = n - 1 - t
Missing(X, S, m, n) ==
    /\ X \in Seq(Nat)
    /\ Len(X) = m - Cardinality(Below(S, m))
    /\ Lists(X, m - Cardinality(Below(S, m)), S, m, n)

LEMMA ListsNext ==
  ASSUME NEW n \in Nat, NEW S, NEW m \in Nat, m < n, NEW L \in Nat, NEW X, Lists(X, L, S, m, n),
         NEW Z
  PROVE  /\ m \in S => Lists(X, L, S, m + 1, n)
         /\ m \notin S /\ Continues(Z, X, L) /\ Z[L + 1] = n - (m + 1) => Lists(Z, L + 1, S, m + 1, n)
<1>1. \A l \in 1 .. L : X[l] \in n - m .. n - 1 /\ n - 1 - X[l] \notin S
  BY DEF Lists
<1>2. \A t \in 0 .. (m + 1) - 1 : t \in 0 .. m - 1 \/ t = m
  OBVIOUS
<1>3. \A x \in n - m .. n - 1 : x \in n - (m + 1) .. n - 1 /\ x # n - (m + 1)
  OBVIOUS
<1>4. ASSUME m \in S PROVE Lists(X, L, S, m + 1, n)
  <2>1. \A l \in 1 .. L : X[l] \in n - (m + 1) .. n - 1 /\ n - 1 - X[l] \notin S
    BY <1>1, <1>3
  <2>2. \A t \in 0 .. (m + 1) - 1 : t \notin S => \E l \in 1 .. L : X[l] = n - 1 - t
    BY <1>2, <1>4 DEF Lists
  <2> QED
    BY <2>1, <2>2 DEF Lists
<1>5. ASSUME m \notin S, Continues(Z, X, L), Z[L + 1] = n - (m + 1)
      PROVE  Lists(Z, L + 1, S, m + 1, n)
  <2>1. \A l \in 1 .. L + 1 : l \in 1 .. L \/ l = L + 1
    OBVIOUS
  <2>2. \A l \in 1 .. L : Z[l] = X[l]
    BY <1>5 DEF Continues
  <2>3. \A l \in 1 .. L : Z[l] \in n - (m + 1) .. n - 1 /\ n - 1 - Z[l] \notin S
                          /\ Z[l] # n - (m + 1)
    BY <1>1, <1>3, <2>2
  <2>4. n - (m + 1) \in n - (m + 1) .. n - 1 /\ n - 1 - (n - (m + 1)) = m
    OBVIOUS
  <2>5. \A l \in 1 .. L + 1 : Z[l] \in n - (m + 1) .. n - 1 /\ n - 1 - Z[l] \notin S
    BY <1>5, <2>1, <2>3, <2>4
  <2>6. ASSUME NEW l \in 1 .. L + 1, NEW j \in 1 .. L + 1, Z[l] = Z[j] PROVE l = j
    <3>1. CASE l \in 1 .. L /\ j \in 1 .. L
      BY <2>2, <2>6, <3>1 DEF Lists, Distinct
    <3>2. CASE l = L + 1 \/ j = L + 1
      BY <1>5, <2>1, <2>3, <2>6, <3>2
    <3> QED
      BY <2>1, <3>1, <3>2
  <2>7. ASSUME NEW t \in 0 .. (m + 1) - 1, t \notin S
        PROVE  \E l \in 1 .. L + 1 : Z[l] = n - 1 - t
    <3>1. CASE t \in 0 .. m - 1
      <4>1. PICK l \in 1 .. L : X[l] = n - 1 - t
        BY <2>7, <3>1 DEF Lists
      <4>2. Z[l] = n - 1 - t /\ l \in 1 .. L + 1
        BY <2>2, <4>1
      <4> QED
        BY <4>2
    <3>2. CASE t = m
      <4>1. Z[L + 1] = n - 1 - t /\ L + 1 \in 1 .. L + 1
        BY <1>5, <3>2
      <4> QED
        BY <4>1
    <3> QED
      BY <1>2, <3>1, <3>2
  <2> QED
    BY <2>5, <2>6, <2>7 DEF Lists, Distinct
<1> QED
  BY <1>4, <1>5

LEMMA NoneMissing ==
  ASSUME NEW n \in Nat, NEW S
  PROVE  Missing(<<>>, S, 0, n)
<1>1. <<>> \in Seq(Nat) /\ Len(<<>>) = 0
  OBVIOUS
<1>2. 0 \in Nat
  OBVIOUS
<1>3. Cardinality(Below(S, 0)) = 0
  BY <1>2, BelowSize
<1>4. Lists(<<>>, 0, S, 0, n)
  BY DEF Lists, Distinct
<1> QED
  BY <1>1, <1>3, <1>4 DEF Missing

LEMMA MissingNext ==
  ASSUME NEW n \in Nat, NEW S, NEW m \in Nat, m < n, NEW X, Missing(X, S, m, n)
  PROVE  /\ m \in S => Missing(X, S, m + 1, n)
         /\ m \notin S => Missing(Append(X, n - (m + 1)), S, m + 1, n)
<1>. DEFINE L == Len(X)
            Z == Append(X, n - (m + 1))
<1>1. X \in Seq(Nat) /\ L \in Nat /\ L = m - Cardinality(Below(S, m)) /\ Lists(X, L, S, m, n)
  BY DEF Missing
<1>2. n - (m + 1) \in Nat
  OBVIOUS
<1>3. Z \in Seq(Nat) /\ Len(Z) = L + 1 /\ Z[L + 1] = n - (m + 1) /\ \A l \in 1 .. L : Z[l] = X[l]
  BY <1>1, <1>2
<1>4. Cardinality(Below(S, m)) \in Nat
      /\ (m \in S => Cardinality(Below(S, m + 1)) = Cardinality(Below(S, m)) + 1)
      /\ (m \notin S => Cardinality(Below(S, m + 1)) = Cardinality(Below(S, m)))
  BY BelowSize
<1>. DEFINE M == (m + 1) - Cardinality(Below(S, m + 1))
<1>5. (m \in S => M = L) /\ (m \notin S => M = L + 1)
  BY <1>1, <1>4
<1>6. X \in Seq(Nat) /\ Len(X) = L /\ Continues(Z, X, L)
  BY <1>1, <1>3 DEF Continues
<1>. HIDE DEF L, Z
<1>7. /\ m \in S => Lists(X, L, S, m + 1, n)
      /\ m \notin S => Lists(Z, L + 1, S, m + 1, n)
  BY <1>1, <1>3, <1>6, ListsNext
<1>8. m \in S => X \in Seq(Nat) /\ Len(X) = M /\ Lists(X, M, S, m + 1, n)
  BY <1>5, <1>6, <1>7
<1>9. m \notin S => Z \in Seq(Nat) /\ Len(Z) = M /\ Lists(Z, M, S, m + 1, n)
  BY <1>3, <1>5, <1>7
<1> QED
  BY <1>8, <1>9 DEF Missing, Z

\* How decode_merge lists the missing pieces, from the first storage on.
IsErasures(e, S, n) ==
    e = [s \in 0 .. n |-> IF s = 0 THEN <<>>
            ELSE IF s - 1 \in S THEN e[s - 1] ELSE Append(e[s - 1], n - s)]

\* The list of erasures grows as decode_merge passes the storages,
LEMMA ErasuresExist ==
  ASSUME NEW n \in Nat, NEW S
  PROVE  \E e : IsErasures(e, S, n)
<1>. DEFINE V == Seq(Nat)
            c == <<>>
            D == [p \in Nat \X V |-> IF p[1] - 1 \in S THEN p[2]
                                     ELSE IF p[1] \in 1 .. n THEN Append(p[2], n - p[1]) ELSE c]
<1>1. c \in V
  OBVIOUS
<1>2. ASSUME NEW i \in 1 .. n, NEW q \in V PROVE Append(q, n - i) \in V
  <2>1. n - i \in Nat
    OBVIOUS
  <2> QED
    BY <2>1
<1>3. \A i \in 1 .. n, q \in V :
         D[<<i, q>>] = IF i - 1 \in S THEN q ELSE Append(q, n - i)
  OBVIOUS
<1>4. D \in [Nat \X V -> V]
  <2>1. ASSUME NEW p \in Nat \X V
        PROVE  (IF p[1] - 1 \in S THEN p[2]
                ELSE IF p[1] \in 1 .. n THEN Append(p[2], n - p[1]) ELSE c) \in V
    <3>. HIDE DEF V, c
    <3> QED
      BY <1>1, <1>2
  <2>. HIDE DEF V, c
  <2> QED
    BY <2>1
<1>. HIDE DEF D, c, V
<1>5. Iterates(D, c, V, n)
  BY <1>1, <1>4, FiniteRecursion
<1>6. PICK g \in [0 .. n -> V] : \A i \in 0 .. n : g[i] = IF i = 0 THEN c ELSE D[<<i, g[i - 1]>>]
  BY <1>5 DEF Iterates
<1>7. ASSUME NEW i \in 0 .. n
      PROVE  g[i] = IF i = 0 THEN <<>> ELSE IF i - 1 \in S THEN g[i - 1] ELSE Append(g[i - 1], n - i)
  <2>1. CASE i = 0
    BY <1>6, <2>1 DEF c
  <2>2. CASE i # 0
    <3>1. i \in 1 .. n /\ i - 1 \in 0 .. n
      BY <2>2
    <3>2. g[i] = D[<<i, g[i - 1]>>] /\ g[i - 1] \in V
      BY <1>6, <2>2, <3>1
    <3>3. g[i] = IF i - 1 \in S THEN g[i - 1] ELSE Append(g[i - 1], n - i)
      BY <1>3, <3>1, <3>2
    <3> QED
      BY <2>2, <3>3
  <2> QED
    BY <2>1, <2>2
<1>8. g = [i \in 0 .. n |-> g[i]]
  BY <1>6
<1>9. IsErasures(g, S, n)
  BY <1>7, <1>8 DEF IsErasures
<1> QED
  BY <1>9

\* and holds the location of each missing piece once.
LEMMA ErasuresMissing ==
  ASSUME NEW n \in Nat, NEW S, NEW e, IsErasures(e, S, n)
  PROVE  Missing(e[n], S, n, n)
<1>. DEFINE T == {m \in Nat : m <= n => Missing(e[m], S, m, n)}
<1>1. 0 \in T
  <2>1. e[0] = <<>>
    BY DEF IsErasures
  <2> QED
    BY <2>1, NoneMissing
<1>2. ASSUME NEW m \in Nat, m \in T PROVE m + 1 \in T
  <2>. SUFFICES ASSUME m + 1 <= n PROVE Missing(e[m + 1], S, m + 1, n)
    OBVIOUS
  <2>1. m + 1 \in 0 .. n /\ m + 1 # 0 /\ (m + 1) - 1 = m /\ m < n /\ m <= n
    OBVIOUS
  <2>2. e[m + 1] = IF m \in S THEN e[m] ELSE Append(e[m], n - (m + 1))
    BY <2>1 DEF IsErasures
  <2>3. Missing(e[m], S, m, n)
    BY <1>2, <2>1
  <2>4. /\ m \in S => Missing(e[m], S, m + 1, n)
        /\ m \notin S => Missing(Append(e[m], n - (m + 1)), S, m + 1, n)
    BY <2>1, <2>3, MissingNext
  <2> QED
    BY <2>2, <2>4
<1>3. \A m \in Nat : m \in T
  <2>. HIDE DEF T
  <2> QED
    BY <1>1, <1>2, SetInduction
<1> QED
  BY <1>3

\* All pieces of S are those of the code word w, but for the piece p.
Delivers(c, w, S, p, n) ==
    /\ Bytes(c, n) /\ Bytes(w, n)
    /\ \A i \in S : i # p => c[i] = w[i]

\* After the last storage it is the list of all that is missing.
LEMMA MissingAll ==
  ASSUME NEW n \in Nat, NEW S \in SUBSET (0 .. n - 1), NEW X, Missing(X, S, n, n)
  PROVE  /\ n - Cardinality(S) \in Nat /\ HasLength(X, n - Cardinality(S))
         /\ Lists(X, n - Cardinality(S), S, n, n) /\ X \in Seq(Nat)
<1>1. Below(S, n) = S
  BY DEF Below
<1>2. X \in Seq(Nat) /\ Len(X) = n - Cardinality(S) /\ Lists(X, n - Cardinality(S), S, n, n)
  BY <1>1 DEF Missing
<1>3. Len(X) \in Nat
  BY <1>2
<1> QED
  BY <1>2, <1>3 DEF HasLength

(***************************************************************************)
(* The coder restores a code word of at most 255 bytes from the pieces of  *)
(* any storages S, as long as no more pieces are missing than there are    *)
(* parity bytes, whatever bytes stand in for the missing ones, if X lists  *)
(* their locations: this is decode_data and correct_errors_erasures as     *)
(* decode_merge calls them.                                                *)
(***************************************************************************)
THEOREM MergeErasures ==
  ASSUME NEW npar \in Nat \ {0}, NEW n \in 0 .. 255, NEW S \in SUBSET (0 .. n - 1),
         NEW X, Missing(X, S, n, n), n - Cardinality(S) \in 1 .. npar,
         NEW c, NEW w, Delivers(c, w, S, n, n), IsCodeWord(w, n, npar)
  PROVE  Corrects(c, n, X, npar, w)
<1>. DEFINE L == n - Cardinality(S)
<1>1. n \in Nat
  OBVIOUS
<1>2. HasLength(X, L) /\ Lists(X, L, S, n, n) /\ L \in 1 .. npar
  BY <1>1, MissingAll
<1>. HIDE DEF L
<1>3. \A l \in 1 .. L : X[l] \in 0 .. n - 1
  BY <1>2 DEF Lists
<1>4. ASSUME NEW i \in 0 .. n - 1, \A l \in 1 .. L : n - i - 1 # X[l] PROVE c[i] = w[i]
  <2>1. i \in S
    <3>. SUFFICES ASSUME i \notin S PROVE FALSE
      OBVIOUS
    <3>1. PICK l \in 1 .. L : X[l] = n - 1 - i
      BY <1>2 DEF Lists
    <3>2. n - 1 - i = n - i - 1
      OBVIOUS
    <3> QED
      BY <1>4, <3>1, <3>2
  <2>2. i # n
    OBVIOUS
  <2> QED
    BY <2>1, <2>2 DEF Delivers
<1>5. DiffersAt(c, w, X, L, n)
  BY <1>2, <1>3, <1>4 DEF DiffersAt, Lists, Delivers
<1>6. /\ L \in 1 .. npar /\ HasLength(X, L) /\ DiffersAt(c, w, X, L, n) /\ IsCodeWord(w, n, npar)
  BY <1>2, <1>5
<1> QED
  BY <1>6, ErasuresCorrected

(***************************************************************************)
(* It also restores the code word when, besides the missing pieces, one    *)
(* piece p that was delivered is damaged, as long as two parity bytes are  *)
(* left for it: Modified_Berlekamp_Massey then finds its location by       *)
(* itself.                                                                 *)
(***************************************************************************)
THEOREM MergeError ==
  ASSUME NEW npar \in Nat \ {0}, NEW n \in 0 .. 255, NEW S \in SUBSET (0 .. n - 1),
         NEW X, Missing(X, S, n, n), n - Cardinality(S) + 2 <= npar,
         NEW c, NEW w, NEW p \in S, Delivers(c, w, S, p, n), IsCodeWord(w, n, npar), c[p] # w[p]
  PROVE  Corrects(c, n, X, npar, w)
<1>. DEFINE E == n - Cardinality(S)
            x == n - 1 - p
            Z == Append(X, x)
<1>1. n \in Nat /\ p \in 0 .. n - 1 /\ x \in 0 .. n - 1 /\ x \in Nat /\ n - 1 - x = p
  OBVIOUS
<1>2. HasLength(X, E) /\ Lists(X, E, S, n, n) /\ E \in Nat /\ X \in Seq(Nat) /\ E + 2 <= npar
  BY <1>1, MissingAll
<1>. HIDE DEF E, x
<1>3. Z[E + 1] = x /\ \A l \in 1 .. E : Z[l] = X[l]
  BY <1>1, <1>2 DEF HasLength
<1>. HIDE DEF Z
<1>4. \A l \in 1 .. E : X[l] \in 0 .. n - 1 /\ X[l] # x
  <2>1. \A l \in 1 .. E : X[l] \in n - n .. n - 1 /\ n - 1 - X[l] \notin S
    BY <1>2 DEF Lists
  <2> QED
    BY <1>1, <2>1
<1>5. \A l \in 1 .. E + 1 : l \in 1 .. E \/ l = E + 1
  BY <1>2
<1>6. \A l \in 1 .. E + 1 : Z[l] \in 0 .. n - 1
  BY <1>1, <1>3, <1>4, <1>5
<1>7. ASSUME NEW l \in 1 .. E + 1, NEW j \in 1 .. E + 1, Z[l] = Z[j] PROVE l = j
  <2>1. CASE l \in 1 .. E /\ j \in 1 .. E
    BY <1>2, <1>3, <1>7, <2>1 DEF Lists, Distinct
  <2>2. CASE l = E + 1 \/ j = E + 1
    BY <1>3, <1>4, <1>5, <1>7, <2>2
  <2> QED
    BY <1>5, <2>1, <2>2
<1>8. ASSUME NEW i \in 0 .. n - 1, \A l \in 1 .. E + 1 : n - i - 1 # Z[l] PROVE c[i] = w[i]
  <2>0. n - 1 - i = n - i - 1 /\ E + 1 \in 1 .. E + 1 /\ \A l \in 1 .. E : l \in 1 .. E + 1
    <3>1. n - 1 - i = n - i - 1
      OBVIOUS
    <3>2. E \in Nat
      BY <1>2
    <3>3. E + 1 \in 1 .. E + 1
      BY <3>2
    <3>4. \A l \in 1 .. E : l \in 1 .. E + 1
      BY <3>2
    <3> QED
      BY <3>1, <3>3, <3>4
  <2>1. i \in S
    <3>. SUFFICES ASSUME i \notin S PROVE FALSE
      OBVIOUS
    <3>1. PICK l \in 1 .. E : X[l] = n - 1 - i
      BY <1>2 DEF Lists
    <3> QED
      BY <1>3, <1>8, <2>0, <3>1
  <2>2. i # p
    BY <1>3, <1>8, <2>0 DEF x
  <2> QED
    BY <2>1, <2>2 DEF Delivers
<1>9. DiffersAt(c, w, Z, E + 1, n)
  BY <1>6, <1>7, <1>8 DEF DiffersAt, Distinct, Delivers
<1>10. c[n - 1 - Z[E + 1]] # w[n - 1 - Z[E + 1]]
  BY <1>1, <1>3
<1>11. Continues(Z, X, E)
  BY <1>3 DEF Continues
<1>12. /\ E \in Nat /\ E + 2 <= npar /\ HasLength(X, E) /\ Continues(Z, X, E)
       /\ DiffersAt(c, w, Z, E + 1, n) /\ IsCodeWord(w, n, npar)
       /\ c[n - 1 - Z[E + 1]] # w[n - 1 - Z[E + 1]]
  BY <1>2, <1>9, <1>10, <1>11
<1> QED
  BY <1>12, ErrorCorrected

-----------------------------------------------------------------------------
(* Rows and units of a file. *)

\* Rows of m bytes.
LEMMA Product == \A a, b \in Nat : a * b \in Nat
OBVIOUS

LEMMA MoreRows ==
  ASSUME NEW a \in Nat, NEW b \in Nat, NEW m \in Nat, a <= b
  PROVE  a * m <= b * m
OBVIOUS

LEMMA NextRow ==
  ASSUME NEW a \in Nat, NEW m \in Nat
  PROVE  (a + 1) * m = a * m + m
OBVIOUS

LEMMA AddRows ==
  ASSUME NEW a \in Nat, NEW b \in Nat, NEW m \in Nat
  PROVE  (a + b) * m = a * m + b * m
OBVIOUS

LEMMA DivBounds ==
  ASSUME NEW a \in Nat, NEW m \in Nat \ {0}
  PROVE  /\ a \div m \in Nat /\ a % m \in 0 .. m - 1
         /\ a = (a \div m) * m + (a % m)
OBVIOUS

LEMMA DivIs ==
  ASSUME NEW a \in Nat, NEW m \in Nat \ {0}, NEW q \in Nat, q * m <= a, a < q * m + m
  PROVE  a \div m = q /\ a % m = a - q * m
<1>. DEFINE d == a \div m
            r == a % m
            x == d * m
            y == q * m
<1>1. d \in Nat /\ r \in 0 .. m - 1 /\ a = x + r
  BY DivBounds
<1>2. x \in Nat /\ y \in Nat /\ y <= a /\ a < y + m
  BY <1>1, Product
<1>3. d + 1 <= q => x + m <= y
  BY <1>1, MoreRows, NextRow
<1>4. q + 1 <= d => y + m <= x
  BY <1>1, MoreRows, NextRow
<1>. HIDE DEF d, r, x, y
<1>5. d = q
  BY <1>1, <1>2, <1>3, <1>4
<1>6. d = q => x = y
  BY DEF x, y
<1>7. d = q /\ r = a - y
  BY <1>1, <1>2, <1>5, <1>6
<1> QED
  BY <1>7 DEF d, r, y

LEMMA CeilIs ==
  ASSUME NEW r \in Nat, NEW m \in Nat \ {0}, NEW q \in Nat, r <= q * m, q * m < r + m
  PROVE  (r + m - 1) \div m = q
<1>. DEFINE a == r + m - 1
            y == q * m
<1>1. y \in Nat
  BY Product
<1>2. a \in Nat /\ y <= a /\ a < y + m
  BY <1>1
<1>3. q * m <= a /\ a < q * m + m
  BY <1>2
<1>. HIDE DEF a
<1>4. a \div m = q
  BY <1>2, <1>3, DivIs
<1> QED
  BY <1>4 DEF a

LEMMA CeilBounds ==
  ASSUME NEW r \in Nat, NEW m \in Nat \ {0}
  PROVE  LET c == (r + m - 1) \div m
         IN  /\ c \in Nat /\ c * m \in Nat /\ r <= c * m /\ c * m < r + m
             /\ \A u \in 1 .. c : (u - 1) * m < r /\ (u - 1) * m \in Nat
             /\ r = 0 => c = 0
<1>. DEFINE a == r + m - 1
            c == a \div m
            y == c * m
<1>1. a \in Nat
  OBVIOUS
<1>. HIDE DEF a
<1>2. c \in Nat /\ a % m \in 0 .. m - 1 /\ a = y + (a % m)
  BY <1>1, DivBounds
<1>3. y \in Nat
  BY <1>2, Product
<1>. HIDE DEF c
<1>4. ASSUME NEW u \in 1 .. c PROVE (u - 1) * m <= y - m /\ (u - 1) * m \in Nat
  <2>1. u - 1 \in Nat /\ (u - 1) + 1 <= c /\ (u - 1) + 1 \in Nat
    BY <1>2
  <2>. DEFINE v == u - 1
              z == v * m
  <2>. HIDE DEF v
  <2>2. (v + 1) * m = z + m
    BY <2>1, NextRow DEF v
  <2>3. (v + 1) * m <= y
    BY <1>2, <2>1, MoreRows DEF v
  <2>4. z \in Nat
    BY <2>1, Product DEF v
  <2>5. v = u - 1
    BY DEF v
  <2>6. z = (u - 1) * m
    BY <2>5
  <2>. HIDE DEF z
  <2>7. z <= y - m
    BY <1>3, <2>2, <2>3, <2>4
  <2> QED
    BY <2>4, <2>6, <2>7
<1>5. r <= y /\ y < r + m
  <2>. HIDE DEF y
  <2> QED
    BY <1>2, <1>3 DEF a
<1>6. \A u \in 1 .. c : (u - 1) * m < r
  <2>. HIDE DEF y
  <2>1. y - m < r
    BY <1>3, <1>5
  <2>2. ASSUME NEW u \in 1 .. c PROVE (u - 1) * m < r
    <3>. DEFINE z == (u - 1) * m
    <3>1. z \in Nat /\ z <= y - m
      BY <1>4
    <3>. HIDE DEF z
    <3>2. z < r
      BY <1>3, <2>1, <3>1
    <3> QED
      BY <3>2 DEF z
  <2> QED
    BY <2>2
<1>7. r = 0 => c = 0
  <2>. SUFFICES ASSUME r = 0, c # 0 PROVE FALSE
    OBVIOUS
  <2>1. 1 \in 1 .. c
    BY <1>2
  <2>2. (1 - 1) * m < 0
    BY <1>6, <2>1
  <2> QED
    BY <2>2
<1> QED
  BY <1>2, <1>3, <1>4, <1>5, <1>6, <1>7 DEF a, c

\* Rounding up may be done chunk by chunk where a chunk is full rows.
LEMMA CeilAdd ==
  ASSUME NEW R \in Nat, NEW r \in Nat, NEW m \in Nat \ {0}
  PROVE  (R * m + r + m - 1) \div m = R + ((r + m - 1) \div m)
<1>. DEFINE c == (r + m - 1) \div m
            x == R * m
            y == c * m
            s == x + r
            q == R + c
<1>1. c \in Nat /\ y \in Nat /\ r <= y /\ y < r + m
  BY CeilBounds
<1>2. x \in Nat
  BY Product
<1>3. q * m = x + y
  BY <1>1, AddRows
<1>. HIDE DEF c, x, y
<1>4. q \in Nat /\ s \in Nat /\ s <= x + y /\ x + y < s + m
  BY <1>1, <1>2
<1>5. q \in Nat /\ s \in Nat /\ s <= q * m /\ q * m < s + m
  BY <1>3, <1>4
<1>. HIDE DEF q, s
<1>6. (s + m - 1) \div m = q
  BY <1>5, CeilIs
<1> QED
  BY <1>6 DEF q, s, x, c

\* The place of the byte b of some rows.
LEMMA RowOfByte ==
  ASSUME NEW rows \in Nat, NEW m \in Nat \ {0}, NEW b \in Nat \ {0}, b <= rows * m
  PROVE  LET u == ((b - 1) \div m) + 1
             i == (b - 1) % m
         IN  u \in 1 .. rows /\ i \in 0 .. m - 1 /\ (u - 1) * m + i + 1 = b
<1>. DEFINE a == b - 1
            v == a \div m
            i == a % m
            y == rows * m
            x == v * m
<1>1. a \in Nat /\ a + 1 = b
  OBVIOUS
<1>. HIDE DEF a
<1>2. v \in Nat /\ i \in 0 .. m - 1 /\ a = x + i
  BY <1>1, DivBounds
<1>3. x \in Nat /\ y \in Nat
  BY <1>2, Product
<1>4. rows <= v => y <= x
  BY <1>2, MoreRows
<1>5. a < y
  BY <1>1, <1>3
<1>. HIDE DEF v, i, x, y
<1>6. v < rows
  BY <1>2, <1>3, <1>4, <1>5
<1>7. v + 1 \in 1 .. rows /\ (v + 1) - 1 = v /\ x + i + 1 = b
  BY <1>1, <1>2, <1>3, <1>6
<1>8. ((v + 1) - 1) * m = x
  BY <1>7 DEF x
<1> QED
  BY <1>2, <1>7, <1>8 DEF v, i, a

\* A chunk that begins at row R, of r bytes out of the L in the file: whole rows,
\* or all that is left.
LEMMA ChunkBytes ==
  ASSUME NEW m \in Nat \ {0}, NEW R \in Nat, NEW L \in Nat, NEW C \in Nat, NEW r \in Nat,
         r = L - R * m \/ (r = C * m /\ r <= L - R * m),
         NEW u \in 1 .. (r + m - 1) \div m, NEW i \in 0 .. m - 1
  PROVE  /\ (u - 1) * m + i < r <=> ((R + u) - 1) * m + i < L
         /\ (R * m + 1) + ((u - 1) * m + i) = (((R + u) - 1) * m + i) + 1
<1>. DEFINE c == (r + m - 1) \div m
            v == u - 1
            x == R * m
            y == v * m
            z == y + i
<1>1. c \in Nat /\ u \in 1 .. c
  BY CeilBounds
<1>. HIDE DEF c
<1>2. v \in Nat /\ v + 1 \in Nat /\ v + 1 <= c /\ R + v = (R + u) - 1
  BY <1>1
<1>. HIDE DEF v
<1>3. x \in Nat /\ y \in Nat /\ (R + v) * m = x + y
  BY <1>2, Product, AddRows
<1>4. r = L - x \/ (r = C * m /\ r <= L - x)
  OBVIOUS
<1>5. r = C * m => z < r
  <2>. SUFFICES ASSUME r = C * m PROVE z < r
    OBVIOUS
  <2>1. r <= C * m /\ C * m < r + m
    OBVIOUS
  <2>2. c = C
    BY <2>1, CeilIs DEF c
  <2>3. (v + 1) * m <= r
    BY <1>2, <2>2, MoreRows
  <2>4. (v + 1) * m = y + m
    BY <1>2, NextRow
  <2>. HIDE DEF y
  <2>5. y + m <= r
    BY <2>3, <2>4
  <2> QED
    BY <1>3, <2>5
<1>. HIDE DEF x, y
<1>6. z < r <=> (x + y) + i < L
  BY <1>3, <1>4, <1>5
<1>7. (x + 1) + z = ((x + y) + i) + 1
  BY <1>3
<1>8. (x + y) = ((R + u) - 1) * m
  BY <1>2, <1>3
<1> QED
  BY <1>6, <1>7, <1>8 DEF x, y, v

\* How many rows there are after the chunk.
LEMMA ChunkRowsAdd ==
  ASSUME NEW m \in Nat \ {0}, NEW R \in Nat, NEW L \in Nat, NEW C \in Nat, NEW r \in Nat
  PROVE  /\ r = L - R * m => (L + m - 1) \div m = R + ((r + m - 1) \div m)
         /\ r = C * m => (r + m - 1) \div m = C /\ R * m + r = (R + C) * m
         /\ r = 0 => (r + m - 1) \div m = 0
<1>1. R * m \in Nat /\ C * m \in Nat
  BY Product
<1>2. ASSUME r = L - R * m PROVE (L + m - 1) \div m = R + ((r + m - 1) \div m)
  <2>1. (R * m + r + m - 1) \div m = R + ((r + m - 1) \div m)
    BY CeilAdd
  <2>. DEFINE x == R * m
  <2>. HIDE DEF x
  <2>2. x + r + m - 1 = L + m - 1
    BY <1>1, <1>2 DEF x
  <2> QED
    BY <2>1, <2>2 DEF x
<1>3. ASSUME r = C * m PROVE (r + m - 1) \div m = C
  <2>1. r <= C * m /\ C * m < r + m
    BY <1>3
  <2> QED
    BY <2>1, CeilIs
<1>4. (R + C) * m = R * m + C * m
  BY AddRows
<1>5. ASSUME r = 0 PROVE (r + m - 1) \div m = 0
  <2>1. r <= 0 * m /\ 0 * m < r + m
    BY <1>5
  <2> QED
    BY <2>1, CeilIs
<1> QED
  BY <1>2, <1>3, <1>4, <1>5

LEMMA ConcatParts ==
  ASSUME NEW T, NEW a \in Seq(T), NEW b \in Seq(T), NEW A, NEW B, Len(a) = A, Len(b) = B
  PROVE  /\ A \in Nat /\ B \in Nat /\ a \o b \in Seq(T) /\ Len(a \o b) = A + B
         /\ \A i \in 1 .. A : (a \o b)[i] = a[i]
         /\ \A i \in 1 .. B : (a \o b)[A + i] = b[i]
<1>1. A \in Nat /\ B \in Nat /\ a \o b \in Seq(T) /\ Len(a \o b) = A + B
  OBVIOUS
<1>2. \A i \in 1 .. A : (a \o b)[i] = a[i]
  OBVIOUS
<1>3. ASSUME NEW i \in 1 .. B PROVE (a \o b)[A + i] = b[i]
  <2>1. A + i \in 1 .. A + B /\ ~ (A + i <= A) /\ (A + i) - A = i
    BY <1>1
  <2> QED
    BY <2>1
<1> QED
  BY <1>1, <1>2, <1>3

\* A function over 1 .. m is a sequence of length m.
LEMMA FunctionIsSequence ==
  ASSUME NEW T, NEW N \in Nat, NEW f \in [1 .. N -> T]
  PROVE  f \in Seq(T) /\ Len(f) = N
OBVIOUS

LEMMA PrefixParts ==
  ASSUME NEW T, NEW s \in Seq(T), NEW m \in 0 .. Len(s)
  PROVE  /\ SubSeq(s, 1, m) \in Seq(T) /\ Len(SubSeq(s, 1, m)) = m
         /\ \A i \in 1 .. m : SubSeq(s, 1, m)[i] = s[i]
OBVIOUS

LEMMA SequencesEqual ==
  ASSUME NEW T, NEW s \in Seq(T), NEW t \in Seq(T), NEW m, Len(s) = m, Len(t) = m,
         \A i \in 1 .. m : s[i] = t[i]
  PROVE  s = t
OBVIOUS
=============================================================================
