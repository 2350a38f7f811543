------------------------- MODULE ElementCodes_proofs -------------------------
(***************************************************************************)
(* Lemmas about the coding of elements: what its parser reads of each kind *)
(* of element that its builder has made.                                   *)
(*                                                                         *)
(* Each kind has a lemma <Kind>Coded: the contents its builder makes fit   *)
(* into one element, and its parser reads from the element a value p that  *)
(* is the one built, but for what Exact says is lost.  Before them are     *)
(* what they need: numbers and their bits, sequences of bits and octets,   *)
(* and groups of octets that end with bit 8.                               *)
(***************************************************************************)
EXTENDS ElementCoding, SequenceTheorems, WellFoundedInduction, TLAPS

-----------------------------------------------------------------------------
(***************************************************************************)
(* Numbers.  The provers know a power of numerals only, so that the powers *)
(* of two are taken one by one; Positional is what its recursive function  *)
(* says.                                                                   *)
(***************************************************************************)

\* A set of naturals has a least one.
LEMMA LeastNat ==
    ASSUME NEW T, T \subseteq Nat, T # {}
    PROVE  \E x \in T : \A y \in T : x <= y
<1>1. IsWellFoundedOn(OpToRel(<,Nat), Nat)
  BY NatLessThanWellFounded
<1>2. PICK x \in T : \A y \in T : ~ (<<y, x>> \in OpToRel(<,Nat))
  BY <1>1, WFMin
<1>3. \A y \in T : ~ (y < x)
  BY <1>2 DEF OpToRel
<1> QED
  BY <1>3

\* Powers of two, one by one: the provers know a power of numerals only.
Doubles(k) == 2^k \in Nat /\ 2^k >= 1 /\ 2^(k + 1) = 2 * 2^k

\* The next power of two is twice the last.
LEMMA Double ==
    ASSUME NEW k \in 0 .. 30
    PROVE  Doubles(k)
<1>1. k \in 0 .. 7 => Doubles(k)
  <2> SUFFICES ASSUME k \in 0 .. 7 PROVE Doubles(k)
    OBVIOUS
  <2>0. k = 0 => Doubles(k)
    BY SMT DEF Doubles
  <2>1. k = 1 => Doubles(k)
    BY SMT DEF Doubles
  <2>2. k = 2 => Doubles(k)
    BY SMT DEF Doubles
  <2>3. k = 3 => Doubles(k)
    BY SMT DEF Doubles
  <2>4. k = 4 => Doubles(k)
    BY SMT DEF Doubles
  <2>5. k = 5 => Doubles(k)
    BY SMT DEF Doubles
  <2>6. k = 6 => Doubles(k)
    BY SMT DEF Doubles
  <2>7. k = 7 => Doubles(k)
    BY SMT DEF Doubles
  <2> QED BY <2>0, <2>1, <2>2, <2>3, <2>4, <2>5, <2>6, <2>7
<1>2. k \in 8 .. 15 => Doubles(k)
  <2> SUFFICES ASSUME k \in 8 .. 15 PROVE Doubles(k)
    OBVIOUS
  <2>8. k = 8 => Doubles(k)
    BY SMT DEF Doubles
  <2>9. k = 9 => Doubles(k)
    BY SMT DEF Doubles
  <2>10. k = 10 => Doubles(k)
    BY SMT DEF Doubles
  <2>11. k = 11 => Doubles(k)
    BY SMT DEF Doubles
  <2>12. k = 12 => Doubles(k)
    BY SMT DEF Doubles
  <2>13. k = 13 => Doubles(k)
    BY SMT DEF Doubles
  <2>14. k = 14 => Doubles(k)
    BY SMT DEF Doubles
  <2>15. k = 15 => Doubles(k)
    BY SMT DEF Doubles
  <2> QED BY <2>8, <2>9, <2>10, <2>11, <2>12, <2>13, <2>14, <2>15
<1>3. k \in 16 .. 23 => Doubles(k)
  <2> SUFFICES ASSUME k \in 16 .. 23 PROVE Doubles(k)
    OBVIOUS
  <2>16. k = 16 => Doubles(k)
    BY SMT DEF Doubles
  <2>17. k = 17 => Doubles(k)
    BY SMT DEF Doubles
  <2>18. k = 18 => Doubles(k)
    BY SMT DEF Doubles
  <2>19. k = 19 => Doubles(k)
    BY SMT DEF Doubles
  <2>20. k = 20 => Doubles(k)
    BY SMT DEF Doubles
  <2>21. k = 21 => Doubles(k)
    BY SMT DEF Doubles
  <2>22. k = 22 => Doubles(k)
    BY SMT DEF Doubles
  <2>23. k = 23 => Doubles(k)
    BY SMT DEF Doubles
  <2> QED BY <2>16, <2>17, <2>18, <2>19, <2>20, <2>21, <2>22, <2>23
<1>4. k \in 24 .. 30 => Doubles(k)
  <2> SUFFICES ASSUME k \in 24 .. 30 PROVE Doubles(k)
    OBVIOUS
  <2>24. k = 24 => Doubles(k)
    BY SMT DEF Doubles
  <2>25. k = 25 => Doubles(k)
    BY SMT DEF Doubles
  <2>26. k = 26 => Doubles(k)
    BY SMT DEF Doubles
  <2>27. k = 27 => Doubles(k)
    BY SMT DEF Doubles
  <2>28. k = 28 => Doubles(k)
    BY SMT DEF Doubles
  <2>29. k = 29 => Doubles(k)
    BY SMT DEF Doubles
  <2>30. k = 30 => Doubles(k)
    BY SMT DEF Doubles
  <2> QED BY <2>24, <2>25, <2>26, <2>27, <2>28, <2>29, <2>30
<1> QED
  BY <1>1, <1>2, <1>3, <1>4

\* A power of two is positive.
LEMMA Power ==
    ASSUME NEW k \in 0 .. 31
    PROVE  2^k \in Nat /\ 2^k >= 1
<1>1. CASE k = 31
  BY SMT, <1>1
<1>2. CASE k # 31
  <2>1. k \in 0 .. 30
    BY <1>2
  <2>2. Doubles(k)
    BY <2>1, Double
  <2> QED BY <2>2 DEF Doubles
<1> QED BY <1>1, <1>2

\* Dividing by P and then by two is dividing by 2P.
LEMMA DivHalf ==
    ASSUME NEW v \in Nat, NEW P \in Nat, P >= 1
    PROVE  (v \div P) \in Nat /\ (v \div P) \div 2 = v \div (2 * P)
  OBVIOUS

\* The values of the first n digits
Value0(base, digits, f) ==
    f[0] = 0 /\ \A n \in 1 .. Len(digits) : f[n] = base * f[n - 1] + digits[n]

ValueOf(base, digits, f, n) == IF n = 0 THEN 0 ELSE base * f[n - 1] + digits[n]

\* The recursive function in Positional is a function, ...
LEMMA ValueExists ==
    ASSUME NEW base, NEW digits, Len(digits) \in Nat
    PROVE  \E f : f = [k \in 0 .. Len(digits) |-> ValueOf(base, digits, f, k)]
<1> DEFINE P(n) == \E f : f = [k \in 0 .. n |-> ValueOf(base, digits, f, k)]
           T == {n \in Nat : ~ P(n)}
<1>1. ASSUME NEW n \in Nat, \A m \in Nat : m < n => P(m)
      PROVE  P(n)
  <2>1. CASE n = 0
    <3> DEFINE f == [k \in 0 .. 0 |-> 0]
    <3>1. f = [k \in 0 .. 0 |-> ValueOf(base, digits, f, k)]
      BY DEF ValueOf
    <3> QED BY <2>1, <3>1
  <2>2. CASE n # 0
    <3>1. PICK f : f = [k \in 0 .. n - 1 |-> ValueOf(base, digits, f, k)]
      BY SMTT(30), <1>1, <2>2
    <3> DEFINE g == [k \in 0 .. n |-> IF k = n THEN ValueOf(base, digits, f, n) ELSE f[k]]
    <3>2. ASSUME NEW k \in 0 .. n
          PROVE  g[k] = ValueOf(base, digits, g, k)
      <4>1. k # 0 => g[k - 1] = f[k - 1]
        BY <2>2
      <4>2. ValueOf(base, digits, f, k) = ValueOf(base, digits, g, k)
        BY <4>1 DEF ValueOf
      <4>3. k # n => f[k] = ValueOf(base, digits, f, k)
        BY <2>2, <3>1
      <4> QED BY <4>2, <4>3
    <3>3. g = [k \in 0 .. n |-> ValueOf(base, digits, g, k)]
      <4>1. g = [k \in 0 .. n |-> g[k]]
        OBVIOUS
      <4> HIDE DEF g
      <4> QED BY <3>2, <4>1
    <3> QED BY <3>3
  <2> QED BY <2>1, <2>2
<1> HIDE DEF P
<1>2. T = {}
  <2>1. SUFFICES ASSUME T # {} PROVE FALSE
    OBVIOUS
  <2>2. PICK n \in T : \A y \in T : n <= y
    BY <2>1, LeastNat
  <2> QED BY <1>1, <2>2
<1> QED
  BY <1>2 DEF P

\* ... and Positional its last value.
LEMMA PositionalOK ==
    ASSUME NEW base, NEW digits, Len(digits) \in Nat
    PROVE  \E f : Value0(base, digits, f) /\ Positional(base, digits) = f[Len(digits)]
<1> DEFINE F == CHOOSE f : f = [k \in 0 .. Len(digits) |-> ValueOf(base, digits, f, k)]
<1>2. F = [k \in 0 .. Len(digits) |-> ValueOf(base, digits, F, k)]
  BY ValueExists
<1>3. Positional(base, digits) = F[Len(digits)]
  BY DEF Positional, ValueOf
<1> HIDE DEF F
<1>4. F[0] = ValueOf(base, digits, F, 0) /\ \A n \in 1 .. Len(digits) : F[n] = ValueOf(base, digits, F, n)
  BY <1>2
<1> QED
  BY <1>3, <1>4 DEF ValueOf, Value0

\* A number is that of its bits.
LEMMA NumberOfBits ==
    ASSUME NEW w \in 0 .. 31, NEW v \in Nat, v < 2^w
    PROVE  Number(Bits(v, w)) = v
<1> DEFINE b == Bits(v, w)
<1>1. Len(b) = w /\ \A i \in 1 .. w : b[i] = (v \div 2^(w - i)) % 2
  BY DEF Bits
<1> HIDE DEF b
<1>2. PICK f : Value0(2, b, f) /\ Positional(2, b) = f[w]
  BY SMTT(30), <1>1, PositionalOK
<1> DEFINE T == {n \in 0 .. w : f[n] # v \div 2^(w - n)}
<1>3. 0 \notin T
  <2>1. 2^w \in Nat /\ 2^w >= 1
    BY Power
  <2> QED BY <1>2, <2>1 DEF Value0
<1>4. ASSUME NEW n \in 1 .. w, f[n - 1] = v \div 2^(w - (n - 1))
      PROVE  f[n] = v \div 2^(w - n)
  <2> DEFINE P == 2^(w - n)
  <2>1. w - n \in 0 .. 30 /\ w - (n - 1) = (w - n) + 1
    OBVIOUS
  <2>2. P \in Nat /\ P >= 1 /\ 2^(w - (n - 1)) = 2 * P
    BY <2>1, Double DEF Doubles
  <2>3. f[n] = 2 * f[n - 1] + b[n] /\ b[n] = (v \div P) % 2
    BY <1>1, <1>2 DEF Value0
  <2> HIDE DEF P
  <2>4. (v \div P) \in Nat /\ f[n - 1] = (v \div P) \div 2
    BY <1>4, <2>2, DivHalf
  <2>5. f[n] = v \div P
    BY <2>3, <2>4
  <2> QED BY <2>5 DEF P
<1>5. T = {}
  <2>1. SUFFICES ASSUME T # {} PROVE FALSE
    OBVIOUS
  <2>2. PICK n \in T : \A y \in T : n <= y
    <3>1. T \subseteq Nat
      OBVIOUS
    <3> QED BY <2>1, <3>1, LeastNat
  <2>3. n \in 1 .. w /\ n - 1 \in 0 .. w /\ n - 1 \notin T
    BY <1>3, <2>2
  <2> QED BY <1>4, <2>2, <2>3
<1>6. f[w] = v \div 2^(w - w)
  <2>1. w \in 0 .. w
    OBVIOUS
  <2>2. w \in {n \in 0 .. w : f[n] # v \div 2^(w - n)} <=> f[w] # v \div 2^(w - w)
    BY <2>1
  <2> QED BY <1>5, <2>2
<1>7. 2^(w - w) = 1
  <2>1. w - w = 0
    OBVIOUS
  <2> QED BY SMT, <2>1
<1> QED BY <1>2, <1>6, <1>7 DEF Number, b

-----------------------------------------------------------------------------
(* Bit strings: the bits of a number, and the number of some bits *)

Bit == {0, 1}

\* Bits(v, w) has w bits, the highest first.
LEMMA BitsOK ==
    ASSUME NEW w \in 0 .. 31, NEW v \in Nat
    PROVE  /\ Bits(v, w) \in Seq(Bit)
           /\ Len(Bits(v, w)) = w
           /\ \A i \in 1 .. w : Bits(v, w)[i] = (v \div 2^(w - i)) % 2 /\ Bits(v, w)[i] \in Bit
<1>1. ASSUME NEW i \in 1 .. w
      PROVE  (v \div 2^(w - i)) % 2 \in Bit
  <2> DEFINE P == 2^(w - i)
  <2>1. w - i \in 0 .. 31
    OBVIOUS
  <2>2. P \in Nat /\ P >= 1
    BY <2>1, Power
  <2> HIDE DEF P
  <2>3. (v \div P) \in Nat
    BY <2>2
  <2>4. (v \div P) % 2 \in Bit
    BY <2>3 DEF Bit
  <2> QED BY <2>4 DEF P
<1>2. Bits(v, w) = [i \in 1 .. w |-> (v \div 2^(w - i)) % 2]
  BY DEF Bits
<1> QED
  BY <1>1, <1>2

\* Zeros(n) has n bits, none of them set.
LEMMA ZerosOK ==
    ASSUME NEW n \in Nat
    PROVE  Zeros(n) \in Seq(Bit) /\ Len(Zeros(n)) = n /\ \A i \in 1 .. n : Zeros(n)[i] = 0
  BY DEF Zeros, Bit

\* Eight bits are an octet.
LEMMA NumberOfEight ==
    ASSUME NEW b, Len(b) = 8, \A i \in 1 .. 8 : b[i] \in Bit
    PROVE  Number(b) = 128 * b[1] + 64 * b[2] + 32 * b[3] + 16 * b[4] + 8 * b[5] + 4 * b[6]
                         + 2 * b[7] + b[8]
<1>1. PICK f : Value0(2, b, f) /\ Positional(2, b) = f[8]
  <2>1. Len(b) \in Nat
    OBVIOUS
  <2>2. \E f : Value0(2, b, f) /\ Positional(2, b) = f[Len(b)]
    BY <2>1, PositionalOK
  <2> QED BY <2>2
<1>2. b[1] \in Int /\ b[2] \in Int /\ b[3] \in Int /\ b[4] \in Int /\ b[5] \in Int
        /\ b[6] \in Int /\ b[7] \in Int /\ b[8] \in Int
  BY DEF Bit
<1>3. f[0] = 0 /\ \A n \in 1 .. 8 : f[n] = 2 * f[n - 1] + b[n]
  BY <1>1 DEF Value0
<1>4. f[1] = b[1]
  BY <1>2, <1>3
<1>5. f[2] = 2 * b[1] + b[2]
  BY <1>2, <1>3, <1>4
<1>6. f[3] = 4 * b[1] + 2 * b[2] + b[3]
  BY <1>2, <1>3, <1>5
<1>7. f[4] = 8 * b[1] + 4 * b[2] + 2 * b[3] + b[4]
  BY <1>2, <1>3, <1>6
<1>8. f[5] = 16 * b[1] + 8 * b[2] + 4 * b[3] + 2 * b[4] + b[5]
  BY <1>2, <1>3, <1>7
<1>9. f[6] = 32 * b[1] + 16 * b[2] + 8 * b[3] + 4 * b[4] + 2 * b[5] + b[6]
  BY <1>2, <1>3, <1>8
<1>10. f[7] = 64 * b[1] + 32 * b[2] + 16 * b[3] + 8 * b[4] + 4 * b[5] + 2 * b[6] + b[7]
  BY <1>2, <1>3, <1>9
<1>11. f[8] = 128 * b[1] + 64 * b[2] + 32 * b[3] + 16 * b[4] + 8 * b[5] + 4 * b[6] + 2 * b[7] + b[8]
  BY <1>2, <1>3, <1>10
<1> QED
  BY <1>1, <1>11 DEF Number

\* Eight bits are the bits of the octet they are put into.
LEMMA BitsOfEight ==
    ASSUME NEW b, Len(b) = 8, \A i \in 1 .. 8 : b[i] \in Bit
    PROVE  Number(b) \in Octet /\ \A i \in 1 .. 8 : Bits(Number(b), 8)[i] = b[i]
<1> DEFINE n == Number(b)
<1>1. n = 128 * b[1] + 64 * b[2] + 32 * b[3] + 16 * b[4] + 8 * b[5] + 4 * b[6] + 2 * b[7] + b[8]
  BY NumberOfEight
<1>2. /\ b[1] \in Bit /\ b[2] \in Bit /\ b[3] \in Bit /\ b[4] \in Bit
      /\ b[5] \in Bit /\ b[6] \in Bit /\ b[7] \in Bit /\ b[8] \in Bit
  OBVIOUS
<1> HIDE DEF n
<1>3. n \in Octet
  BY <1>1, <1>2 DEF Octet, Bit
<1>4. /\ (n \div 128) % 2 = b[1] /\ (n \div 64) % 2 = b[2]
      /\ (n \div 32) % 2 = b[3] /\ (n \div 16) % 2 = b[4]
  <2> DEFINE r == 32 * b[3] + 16 * b[4] + 8 * b[5] + 4 * b[6] + 2 * b[7] + b[8]
  <2>0. n = 128 * b[1] + 64 * b[2] + r /\ r \in 0 .. 63
    BY <1>1, <1>2 DEF Bit
  <2>1. n \div 128 = b[1] /\ n \div 64 = 2 * b[1] + b[2]
    <3> DEFINE q == 64 * b[2] + r
               p == 2 * b[1] + b[2]
    <3>1. n = 128 * b[1] + q /\ q \in 0 .. 127 /\ b[1] \in 0 .. 1
      BY <1>2, <2>0 DEF Bit
    <3>2. n = 64 * p + r /\ r \in 0 .. 63 /\ p \in 0 .. 3
      BY <1>2, <2>0 DEF Bit
    <3> HIDE DEF p, q, r
    <3>3. n \div 128 = b[1]
      BY <3>1
    <3>4. n \div 64 = p
      BY <3>2
    <3> QED BY <3>3, <3>4 DEF p
  <2>2. n \div 32 = 4 * b[1] + 2 * b[2] + b[3]
    <3>1. n = 32 * (4 * b[1] + 2 * b[2] + b[3]) + (16 * b[4] + 8 * b[5] + 4 * b[6] + 2 * b[7] + b[8])
      BY <1>1, <1>2 DEF Bit
    <3>2. 16 * b[4] + 8 * b[5] + 4 * b[6] + 2 * b[7] + b[8] \in 0 .. 31 /\ 4 * b[1] + 2 * b[2] + b[3] \in 0 .. 7
      BY <1>2 DEF Bit
    <3> QED BY <3>1, <3>2
  <2>3. n \div 16 = 8 * b[1] + 4 * b[2] + 2 * b[3] + b[4]
    <3>1. n = 16 * (8 * b[1] + 4 * b[2] + 2 * b[3] + b[4]) + (8 * b[5] + 4 * b[6] + 2 * b[7] + b[8])
      BY <1>1, <1>2 DEF Bit
    <3>2. 8 * b[5] + 4 * b[6] + 2 * b[7] + b[8] \in 0 .. 15 /\ 8 * b[1] + 4 * b[2] + 2 * b[3] + b[4] \in 0 .. 15
      BY <1>2 DEF Bit
    <3> QED BY <3>1, <3>2
  <2> QED BY <1>2, <2>1, <2>2, <2>3 DEF Bit
<1>5. /\ (n \div 8) % 2 = b[5] /\ (n \div 4) % 2 = b[6]
      /\ (n \div 2) % 2 = b[7] /\ n % 2 = b[8]
  BY <1>1, <1>2 DEF Bit
<1>6. ASSUME NEW i \in 1 .. 8
      PROVE  Bits(n, 8)[i] = b[i]
  <2>1. Bits(n, 8)[i] = (n \div 2^(8 - i)) % 2
    BY DEF Bits
  <2>2. n \div 1 = n
    BY <1>3 DEF Octet
  <2>3. i = 1 \/ i = 2 \/ i = 3 \/ i = 4 \/ i = 5 \/ i = 6 \/ i = 7 \/ i = 8
    OBVIOUS
  <2>4. i = 1 => 2^(8 - i) = 128
    BY SMT
  <2>5. i = 2 => 2^(8 - i) = 64
    BY SMT
  <2>6. i = 3 => 2^(8 - i) = 32
    BY SMT
  <2>7. i = 4 => 2^(8 - i) = 16
    BY SMT
  <2>8. i = 5 => 2^(8 - i) = 8
    BY SMT
  <2>9. i = 6 => 2^(8 - i) = 4
    BY SMT
  <2>10. i = 7 => 2^(8 - i) = 2
    BY SMT
  <2>11. i = 8 => 2^(8 - i) = 1
    BY SMT
  <2> QED BY <1>4, <1>5, <2>1, <2>2, <2>3, <2>4, <2>5, <2>6, <2>7, <2>8, <2>9, <2>10, <2>11
<1> QED
  BY <1>3, <1>6 DEF n

\* A field is read as it was written.
LEMMA FieldOK ==
    ASSUME NEW bits, Len(bits) \in Nat, NEW n \in Nat, NEW w \in 0 .. 31, NEW v \in Nat, v < 2^w,
           n + w <= Len(bits), \A i \in 1 .. w : bits[n + i] = Bits(v, w)[i]
    PROVE  Field(bits, n, w) = v
<1> DEFINE part == [i \in 1 .. w |-> IF n + i <= Len(bits) THEN bits[n + i] ELSE 0]
<1>1. Bits(v, w) = [i \in 1 .. w |-> Bits(v, w)[i]]
  BY DEF Bits
<1>2. part = [i \in 1 .. w |-> Bits(v, w)[i]]
  OBVIOUS
<1> HIDE DEF part
<1>3. Field(bits, n, w) = Number(part)
  BY DEF Field, part
<1> QED
  BY <1>1, <1>2, <1>3, NumberOfBits

\* The octets of a bit string have its bits, and zeros where it has ended.
LEMMA ToOctetsOK ==
    ASSUME NEW bits \in Seq(Bit)
    PROVE  LET n == RoundUp(Len(bits), 8) IN
           /\ n \in Nat /\ 8 * n >= Len(bits) /\ 8 * n < Len(bits) + 8
           /\ ToOctets(bits) \in Seq(Octet)
           /\ Len(ToOctets(bits)) = n
           /\ \A i \in 1 .. 8 * n : Bits(ToOctets(bits)[(i + 7) \div 8], 8)[((i - 1) % 8) + 1]
                                      = IF i <= Len(bits) THEN bits[i] ELSE 0
<1> DEFINE n == RoundUp(Len(bits), 8)
           z == Zeros(8 * n - Len(bits))
           filled == bits \o z
           part(i) == SubSeq(filled, 8 * i - 7, 8 * i)
           octs == ToOctets(bits)
<1>1. Len(bits) \in Nat /\ n = (Len(bits) + 7) \div 8
  BY DEF RoundUp
<1>2. n \in Nat /\ 8 * n >= Len(bits) /\ 8 * n < Len(bits) + 8
  BY <1>1
<1>3. octs = [i \in 1 .. n |-> Number(part(i))]
  BY DEF ToOctets
<1> HIDE DEF n, octs
<1>4. z \in Seq(Bit) /\ Len(z) = 8 * n - Len(bits) /\ \A i \in 1 .. 8 * n - Len(bits) : z[i] = 0
  BY SMTT(30), <1>1, <1>2, ZerosOK
<1> HIDE DEF z
<1>5. /\ filled \in Seq(Bit) /\ Len(filled) = 8 * n
      /\ \A i \in 1 .. 8 * n : filled[i] = IF i <= Len(bits) THEN bits[i] ELSE 0
  BY <1>1, <1>2, <1>4
<1> HIDE DEF filled
<1>6. ASSUME NEW i \in 1 .. n
      PROVE  /\ Len(part(i)) = 8
             /\ \A k \in 1 .. 8 : part(i)[k] = filled[8 * (i - 1) + k] /\ part(i)[k] \in Bit
  <2>1. 8 * i - 7 \in 1 .. 8 * n /\ 8 * i \in 1 .. 8 * n
    BY <1>2
  <2>2. part(i) = [k \in 1 .. 8 |-> filled[8 * (i - 1) + k]]
    BY <1>2, <1>5, <2>1
  <2>3. \A k \in 1 .. 8 : 8 * (i - 1) + k \in 1 .. 8 * n
    BY <1>2
  <2>4. \A k \in 1 .. 8 : filled[8 * (i - 1) + k] \in Bit
    BY <1>5, <2>3
  <2> QED BY <2>2, <2>4
<1> HIDE DEF part
<1>7. \A i \in 1 .. n : octs[i] \in Octet /\ \A k \in 1 .. 8 : Bits(octs[i], 8)[k] = part(i)[k]
  BY <1>3, <1>6, BitsOfEight
<1>8. octs \in Seq(Octet) /\ Len(octs) = n
  BY <1>2, <1>3, <1>7
<1>9. ASSUME NEW i \in 1 .. 8 * n
      PROVE  Bits(octs[(i + 7) \div 8], 8)[((i - 1) % 8) + 1] = IF i <= Len(bits) THEN bits[i] ELSE 0
  <2> DEFINE j == (i + 7) \div 8
             k == ((i - 1) % 8) + 1
  <2>1. j \in 1 .. n /\ k \in 1 .. 8 /\ 8 * (j - 1) + k = i
    BY <1>2
  <2> HIDE DEF j, k
  <2>2. Bits(octs[j], 8)[k] = filled[i]
    BY <1>6, <1>7, <2>1
  <2> QED BY <1>5, <2>2 DEF j, k
<1> QED
  BY <1>2, <1>8, <1>9 DEF n, octs

-----------------------------------------------------------------------------
(* Access rights identities *)

\* The four parts of an access rights identity have at most 36 bits.
LEMMA Widths ==
    ASSUME NEW arc \in AriClass
    PROVE  /\ CodeWidth[arc] \in 0 .. 20 /\ FpnWidth[arc] \in 0 .. 17 /\ FpsWidth[arc] \in 0 .. 4
           /\ AriLen(arc) = 3 + CodeWidth[arc] + FpnWidth[arc] + FpsWidth[arc]
           /\ AriLen(arc) \in 3 .. 36 /\ AriLen(0) = 36
  BY DEF AriClass, CodeWidth, FpnWidth, FpsWidth, AriLen, ArcWidth

\* The places of two sequences in their concatenation
LEMMA Joined ==
    ASSUME NEW S, NEW s \in Seq(S), NEW t \in Seq(S)
    PROVE  /\ s \o t \in Seq(S) /\ Len(s \o t) = Len(s) + Len(t)
           /\ \A i \in 1 .. Len(s) : (s \o t)[i] = s[i]
           /\ \A i \in 1 .. Len(t) : (s \o t)[Len(s) + i] = t[i]
  OBVIOUS

\* The fields of an access rights identity fit into their widths.
LEMMA AriTyped ==
    ASSUME NEW ari \in Ari
    PROVE  /\ ari = [arc |-> ari.arc, code |-> ari.code, fpn |-> ari.fpn, fps |-> ari.fps]
           /\ ari.arc \in AriClass /\ ari.code \in Nat /\ ari.fpn \in Nat /\ ari.fps \in Nat
           /\ ari.code < 2^CodeWidth[ari.arc] /\ ari.fpn < 2^FpnWidth[ari.arc]
           /\ ari.fps < 2^FpsWidth[ari.arc]
<1> DEFINE C == 0 .. (2^20 - 1)
           F == 0 .. (2^17 - 1)
<1>1. /\ ari \in [arc : AriClass, code : C, fpn : F, fps : 0 .. 15]
      /\ ari.code < 2^CodeWidth[ari.arc] /\ ari.fpn < 2^FpnWidth[ari.arc]
      /\ ari.fps < 2^FpsWidth[ari.arc]
  BY DEF Ari
<1>2. C \subseteq Nat /\ F \subseteq Nat
  <2>1. \A x, y : x \in 0 .. y => x \in Nat
    OBVIOUS
  <2> QED BY <2>1
<1> HIDE DEF C, F
<1>3. ari.arc \in AriClass /\ ari.code \in C /\ ari.fpn \in F /\ ari.fps \in 0 .. 15
  BY <1>1
<1>4. ari = [arc |-> ari.arc, code |-> ari.code, fpn |-> ari.fpn, fps |-> ari.fps]
  BY <1>1
<1>5. ari.code \in Nat /\ ari.fpn \in Nat
  BY <1>2, <1>3
<1>6. ari.fps \in Nat
  BY <1>3
<1>7. ari.arc \in AriClass
  BY <1>3
<1>8. /\ ari.code < 2^CodeWidth[ari.arc] /\ ari.fpn < 2^FpnWidth[ari.arc]
      /\ ari.fps < 2^FpsWidth[ari.arc]
  BY <1>1
<1> QED BY <1>4, <1>5, <1>6, <1>7, <1>8

\* dect_build_ari writes the class and three parts at their places.
LEMMA AriBits ==
    ASSUME NEW ari \in Ari
    PROVE  LET b == BuildAri(ari)
               c == CodeWidth[ari.arc]
               f == FpnWidth[ari.arc]
               s == FpsWidth[ari.arc]
           IN  /\ b \in Seq(Bit) /\ Len(b) = AriLen(ari.arc)
               /\ \A i \in 1 .. 3 : b[i] = Bits(ari.arc, 3)[i]
               /\ \A i \in 1 .. c : b[3 + i] = Bits(ari.code, c)[i]
               /\ \A i \in 1 .. f : b[3 + c + i] = Bits(ari.fpn, f)[i]
               /\ \A i \in 1 .. s : b[3 + c + f + i] = Bits(ari.fps, s)[i]
<1> DEFINE c == CodeWidth[ari.arc]
           f == FpnWidth[ari.arc]
           s == FpsWidth[ari.arc]
           ba == Bits(ari.arc, 3)
           bc == Bits(ari.code, c)
           bf == Bits(ari.fpn, f)
           bs == Bits(ari.fps, s)
<1>1. ari.arc \in AriClass /\ ari.code \in Nat /\ ari.fpn \in Nat /\ ari.fps \in Nat
  BY AriTyped
<1>2. /\ c \in 0 .. 31 /\ f \in 0 .. 31 /\ s \in 0 .. 31 /\ ari.arc \in Nat
      /\ AriLen(ari.arc) = 3 + c + f + s
  BY <1>1, Widths DEF AriClass
<1>3. BuildAri(ari) = ((ba \o bc) \o bf) \o bs
  BY DEF BuildAri, ArcWidth
<1> HIDE DEF c, f, s
<1>4. ba \in Seq(Bit) /\ bc \in Seq(Bit) /\ bf \in Seq(Bit) /\ bs \in Seq(Bit)
  <2>1. 3 \in 0 .. 31
    OBVIOUS
  <2> QED BY <1>1, <1>2, <2>1, BitsOK
<1>5. Len(ba) = 3 /\ Len(bc) = c /\ Len(bf) = f /\ Len(bs) = s
  <2>1. 3 \in 0 .. 31
    OBVIOUS
  <2> QED BY <1>1, <1>2, <2>1, BitsOK
<1> HIDE DEF ba, bc, bf, bs
<1> DEFINE b2 == ba \o bc
<1>7. b2 \in Seq(Bit)
  BY <1>4, Joined
<1>8. /\ Len(b2) = 3 + c
      /\ \A i \in 1 .. 3 : b2[i] = ba[i]
      /\ \A i \in 1 .. c : b2[3 + i] = bc[i]
  <2>1. /\ ba \o bc \in Seq(Bit) /\ Len(ba \o bc) = Len(ba) + Len(bc)
        /\ \A i \in 1 .. Len(ba) : (ba \o bc)[i] = ba[i]
        /\ \A i \in 1 .. Len(bc) : (ba \o bc)[Len(ba) + i] = bc[i]
    BY <1>4, Joined
  <2> QED BY <1>5, <2>1
<1> DEFINE b3 == b2 \o bf
<1> HIDE DEF b2
<1>71. b3 \in Seq(Bit)
  BY <1>4, <1>7, Joined
<1>9. /\ Len(b3) = 3 + c + f
      /\ \A i \in 1 .. 3 + c : b3[i] = b2[i]
      /\ \A i \in 1 .. f : b3[3 + c + i] = bf[i]
  <2>1. /\ b2 \o bf \in Seq(Bit) /\ Len(b2 \o bf) = Len(b2) + Len(bf)
        /\ \A i \in 1 .. Len(b2) : (b2 \o bf)[i] = b2[i]
        /\ \A i \in 1 .. Len(bf) : (b2 \o bf)[Len(b2) + i] = bf[i]
    BY <1>4, <1>7, Joined
  <2> QED BY <1>5, <1>8, <2>1
<1> DEFINE b == b3 \o bs
<1> HIDE DEF b3
<1>10. /\ b \in Seq(Bit) /\ Len(b) = 3 + c + f + s
       /\ \A i \in 1 .. 3 + c + f : b[i] = b3[i]
       /\ \A i \in 1 .. s : b[3 + c + f + i] = bs[i]
  <2>1. /\ b3 \o bs \in Seq(Bit) /\ Len(b3 \o bs) = Len(b3) + Len(bs)
        /\ \A i \in 1 .. Len(b3) : (b3 \o bs)[i] = b3[i]
        /\ \A i \in 1 .. Len(bs) : (b3 \o bs)[Len(b3) + i] = bs[i]
    BY <1>4, <1>71, Joined
  <2> QED BY <1>5, <1>9, <2>1
<1> HIDE DEF b
<1>11. ASSUME NEW i \in 1 .. 3 PROVE b[i] = ba[i]
  <2>1. i \in 1 .. 3 + c /\ i \in 1 .. 3 + c + f
    BY <1>2
  <2> QED BY <1>8, <1>9, <1>10, <2>1
<1>12. ASSUME NEW i \in 1 .. c PROVE b[3 + i] = bc[i]
  <2>1. 3 + i \in 1 .. 3 + c /\ 3 + i \in 1 .. 3 + c + f
    BY <1>2
  <2> QED BY <1>8, <1>9, <1>10, <2>1
<1>13. ASSUME NEW i \in 1 .. f PROVE b[3 + c + i] = bf[i]
  <2>1. 3 + c + i \in 1 .. 3 + c + f
    BY <1>2
  <2> QED BY <1>9, <1>10, <2>1
<1>14. BuildAri(ari) = b
  BY <1>3 DEF b, b2, b3
<1>15. /\ b \in Seq(Bit) /\ Len(b) = AriLen(ari.arc)
       /\ \A i \in 1 .. 3 : b[i] = ba[i]
       /\ \A i \in 1 .. c : b[3 + i] = bc[i]
       /\ \A i \in 1 .. f : b[3 + c + i] = bf[i]
       /\ \A i \in 1 .. s : b[3 + c + f + i] = bs[i]
  BY <1>2, <1>10, <1>11, <1>12, <1>13
<1> QED
  BY <1>14, <1>15 DEF ba, bc, bf, bs, c, f, s

\* An access rights identity is read as it was built, whatever follows it.
LEMMA AriForm ==
    ASSUME NEW ari \in Ari, NEW bits, Len(bits) \in Nat, AriLen(ari.arc) <= Len(bits),
           \A i \in 1 .. AriLen(ari.arc) : bits[i] = BuildAri(ari)[i]
    PROVE  ParseAri(bits) = [len |-> AriLen(ari.arc), ari |-> ari] /\ AriLen(ari.arc) # 0
<1> DEFINE c == CodeWidth[ari.arc]
           f == FpnWidth[ari.arc]
           s == FpsWidth[ari.arc]
           b == BuildAri(ari)
<1>1. /\ ari = [arc |-> ari.arc, code |-> ari.code, fpn |-> ari.fpn, fps |-> ari.fps]
      /\ ari.arc \in AriClass /\ ari.code \in Nat /\ ari.fpn \in Nat /\ ari.fps \in Nat
      /\ ari.code < 2^c /\ ari.fpn < 2^f /\ ari.fps < 2^s
  BY AriTyped
<1>2. /\ c \in 0 .. 31 /\ f \in 0 .. 31 /\ s \in 0 .. 31
      /\ AriLen(ari.arc) = 3 + c + f + s
  BY <1>1, Widths
<1>3. ari.arc \in Nat /\ ari.arc < 8
  BY <1>1 DEF AriClass
<1>31. \A i \in 1 .. 3 : b[i] = Bits(ari.arc, 3)[i]
  BY AriBits
<1>32. \A i \in 1 .. c : b[3 + i] = Bits(ari.code, c)[i]
  BY AriBits
<1>33. \A i \in 1 .. f : b[3 + c + i] = Bits(ari.fpn, f)[i]
  BY AriBits
<1>34. \A i \in 1 .. s : b[3 + c + f + i] = Bits(ari.fps, s)[i]
  BY AriBits
<1> HIDE DEF b, c, f, s
<1>4. \A i \in 1 .. 3 + c + f + s : bits[i] = b[i]
  BY <1>2 DEF b
<1>41. Len(bits) \in Nat /\ 3 + c + f + s <= Len(bits)
  BY <1>2
<1>5. Field(bits, 0, 3) = ari.arc
  <2>1. ASSUME NEW i \in 1 .. 3 PROVE bits[0 + i] = Bits(ari.arc, 3)[i]
    <3>1. 0 + i = i /\ i \in 1 .. 3 + c + f + s
      BY <1>2
    <3> QED BY <1>31, <1>4, <3>1
  <2>2. ari.arc < 2^3
    BY <1>3
  <2>3. 0 \in Nat /\ 3 \in 0 .. 31 /\ 0 + 3 <= Len(bits)
    BY <1>2, <1>41
  <2> QED BY <1>3, <1>41, <2>1, <2>2, <2>3, FieldOK
<1>6. Field(bits, 3, c) = ari.code
  <2>1. ASSUME NEW i \in 1 .. c PROVE bits[3 + i] = Bits(ari.code, c)[i]
    <3>1. 3 + i \in 1 .. 3 + c + f + s
      BY <1>2
    <3> QED BY <1>32, <1>4, <3>1
  <2>2. 3 \in Nat /\ 3 + c <= Len(bits)
    BY <1>2, <1>41
  <2> QED BY ZenonT(40), <1>1, <1>2, <1>41, <2>1, <2>2, FieldOK
<1>7. Field(bits, 3 + c, f) = ari.fpn
  <2>1. ASSUME NEW i \in 1 .. f PROVE bits[3 + c + i] = Bits(ari.fpn, f)[i]
    <3>1. 3 + c + i \in 1 .. 3 + c + f + s
      BY <1>2
    <3> QED BY <1>33, <1>4, <3>1
  <2>2. 3 + c \in Nat /\ 3 + c + f <= Len(bits)
    BY <1>2, <1>41
  <2> QED BY <1>1, <1>2, <1>41, <2>1, <2>2, FieldOK
<1>8. Field(bits, 3 + c + f, s) = ari.fps
  <2>1. ASSUME NEW i \in 1 .. s PROVE bits[3 + c + f + i] = Bits(ari.fps, s)[i]
    <3>1. 3 + c + f + i \in 1 .. 3 + c + f + s
      BY <1>2
    <3> QED BY <1>34, <1>4, <3>1
  <2>2. 3 + c + f \in Nat /\ 3 + c + f + s <= Len(bits)
    BY <1>2, <1>41
  <2> QED BY <1>1, <1>2, <1>41, <2>1, <2>2, FieldOK
<1>9. ParseAri(bits) = [len |-> AriLen(ari.arc),
                        ari |-> [arc |-> ari.arc, code |-> ari.code, fpn |-> ari.fpn, fps |-> ari.fps]]
  BY <1>1, <1>5, <1>6, <1>7, <1>8 DEF ParseAri, ArcWidth, c, f, s
<1>10. AriLen(ari.arc) # 0
  BY <1>2
<1> QED
  BY <1>1, <1>9, <1>10

-----------------------------------------------------------------------------
(* The contents of an element, and the element.  Elements of fixed contents *)

\* The contents of an element, and the element
Contents(body) == body \in Seq(Octet) /\ Len(body) \in 1 .. 255
Wrap(id, body) == <<id, Len(body)>> \o body

\* After the header come the contents.
LEMMA Wrapped ==
    ASSUME NEW id, NEW body \in Seq(Octet)
    PROVE  LET o == Wrap(id, body) IN
           /\ Len(o) = Len(body) + 2
           /\ \A n \in Nat : At(o, n + 2) = At(body, n)
           /\ \A n \in 0 .. Len(body) : Rest(o, n + 2) = Rest(body, n)
<1> DEFINE o == <<id, Len(body)>> \o body
<1>1. Len(o) = Len(body) + 2
  OBVIOUS
<1>2. ASSUME NEW n \in Nat
      PROVE  At(o, n + 2) = At(body, n)
  BY DEF At
<1>3. ASSUME NEW n \in 0 .. Len(body)
      PROVE  Rest(o, n + 2) = Rest(body, n)
  BY DEF Rest
<1> QED
  BY <1>1, <1>2, <1>3 DEF Wrap

\* The octets after the header, one by one
LEMMA WrappedAt ==
    ASSUME NEW id, NEW body \in Seq(Octet)
    PROVE  LET o == Wrap(id, body) IN
           /\ At(o, 2) = At(body, 0) /\ At(o, 3) = At(body, 1) /\ At(o, 4) = At(body, 2)
           /\ At(o, 5) = At(body, 3) /\ At(o, 6) = At(body, 4)
<1> DEFINE o == Wrap(id, body)
<1>1. \A n \in Nat : At(o, n + 2) = At(body, n)
  BY Wrapped
<1> HIDE DEF o
<1>2. /\ At(o, 0 + 2) = At(body, 0) /\ At(o, 1 + 2) = At(body, 1) /\ At(o, 2 + 2) = At(body, 2)
      /\ At(o, 3 + 2) = At(body, 3) /\ At(o, 4 + 2) = At(body, 4)
  BY <1>1
<1> QED
  BY <1>2 DEF o

\* An octet with bit 8 set ends a group and keeps seven bits of its value.
LEMMA EndedOctet ==
    ASSUME NEW n \in Nat
    PROVE  /\ Ended(n) \in Octet /\ Ends(Ended(n)) /\ (n < 128 => Value(Ended(n)) = n)
           /\ Value(Ended(n)) = n % 128 /\ Value(n) \in 0 .. 127 /\ Low(n) \in Nibble
  BY DEF Ended, Ends, Value, Octet, GroupEnd, Low, Nibble

\* Contents of an octet, of two and of three, and the rest
LEMMA Prefix1 ==
    ASSUME NEW x \in Octet, NEW t \in Seq(Octet)
    PROVE  LET body == <<x>> \o t IN
           /\ body \in Seq(Octet) /\ Len(body) = Len(t) + 1 /\ At(body, 0) = x
           /\ Rest(body, 1) = t
<1>1. Rest(<<x>> \o t, 1) = t
  BY DEF Rest
<1> QED
  BY <1>1 DEF At

LEMMA Prefix2 ==
    ASSUME NEW x \in Octet, NEW y \in Octet, NEW t \in Seq(Octet)
    PROVE  LET body == <<x, y>> \o t IN
           /\ body \in Seq(Octet) /\ Len(body) = Len(t) + 2 /\ At(body, 0) = x /\ At(body, 1) = y
           /\ Rest(body, 2) = t
<1>1. Rest(<<x, y>> \o t, 2) = t
  BY DEF Rest
<1> QED
  BY <1>1 DEF At

LEMMA Prefix3 ==
    ASSUME NEW x \in Octet, NEW y \in Octet, NEW z \in Octet, NEW t \in Seq(Octet)
    PROVE  LET body == <<x, y, z>> \o t IN
           /\ body \in Seq(Octet) /\ Len(body) = Len(t) + 3
           /\ At(body, 0) = x /\ At(body, 1) = y /\ At(body, 2) = z
           /\ Rest(body, 3) = t
<1>1. Rest(<<x, y, z>> \o t, 3) = t
  BY DEF Rest
<1> QED
  BY <1>1 DEF At

\* All octets are the rest from the first one.
LEMMA WholeRest ==
    ASSUME NEW t \in Seq(Octet)
    PROVE  Rest(t, 0) = t
  BY DEF Rest

\* An array of n values is a sequence of length n.
LEMMA ArrayIsSeq ==
    ASSUME NEW S, NEW n \in Nat, NEW f \in [1 .. n -> S]
    PROVE  f \in Seq(S) /\ Len(f) = n
  OBVIOUS

\* Texts
LEMMA TextOK ==
    ASSUME NEW n \in Nat, NEW t \in Text(n)
    PROVE  t \in Seq(Octet) /\ Len(t) \in 0 .. n
  BY DEF Text, AtMost

\* The elements of fixed contents are read as they were built.
LEMMA IdentityTypeCoded ==
    ASSUME NEW id, NEW e \in IdentityType
    PROVE  LET body == BuildIdentityType(e) IN
           Contents(body) /\ ParseIdentityType(Wrap(id, body)) = e
<1> DEFINE body == BuildIdentityType(e)
<1>1. e = [group |-> e.group, type |-> e.type] /\ e.group \in 0 .. 127 /\ e.type \in 0 .. 127
  BY DEF IdentityType
<1>2. Contents(body) /\ At(body, 0) = Ended(e.group) /\ At(body, 1) = Ended(e.type)
  BY <1>1, EndedOctet DEF Contents, BuildIdentityType, At
<1> DEFINE o == Wrap(id, body)
<1> HIDE DEF body
<1>3. At(o, 2) = Ended(e.group) /\ At(o, 3) = Ended(e.type)
  BY <1>2, WrappedAt DEF Contents
<1> HIDE DEF o
<1>4. Value(Ended(e.group)) = e.group /\ Value(Ended(e.type)) = e.type
  BY <1>1, EndedOctet
<1>5. ParseIdentityType(o) = [group |-> e.group, type |-> e.type]
  BY <1>3, <1>4 DEF ParseIdentityType
<1> QED
  BY <1>1, <1>2, <1>5 DEF body, o

LEMMA LocationAreaCoded ==
    ASSUME NEW id, NEW e \in LocationArea
    PROVE  LET body == BuildLocationArea(e) IN
           Contents(body) /\ ParseLocationArea(Wrap(id, body)) = e
<1> DEFINE body == BuildLocationArea(e)
<1>1. e = [type |-> e.type, level |-> e.level] /\ e.type \in 0 .. 3 /\ e.level \in 0 .. 63
  BY DEF LocationArea
<1>2. Contents(body) /\ At(body, 0) = 64 * e.type + e.level
  BY <1>1 DEF Contents, BuildLocationArea, At, Octet
<1> DEFINE o == Wrap(id, body)
<1> HIDE DEF body
<1>3. At(o, 2) = 64 * e.type + e.level
  BY <1>2, WrappedAt DEF Contents
<1> HIDE DEF o
<1>4. (64 * e.type + e.level) \div 64 = e.type /\ (64 * e.type + e.level) % 64 = e.level
  BY <1>1
<1>5. ParseLocationArea(o) = [type |-> e.type, level |-> e.level]
  BY <1>3, <1>4 DEF ParseLocationArea
<1> QED
  BY <1>1, <1>2, <1>5 DEF body, o

LEMMA AllocationTypeCoded ==
    ASSUME NEW id, NEW e \in AllocationType
    PROVE  LET body == BuildAllocationType(e) IN
           Contents(body) /\ ParseAllocationType(Wrap(id, body)) = e
<1> DEFINE body == BuildAllocationType(e)
<1>1. /\ e = [auth_id |-> e.auth_id, auth_key_num |-> e.auth_key_num, auth_code_num |-> e.auth_code_num]
      /\ e.auth_id \in Octet /\ e.auth_key_num \in 0 .. 15 /\ e.auth_code_num \in 0 .. 15
  BY DEF AllocationType, Nibble
<1>2. Contents(body) /\ At(body, 0) = e.auth_id /\ At(body, 1) = 16 * e.auth_key_num + e.auth_code_num
  BY <1>1 DEF Contents, BuildAllocationType, At, Octet
<1> DEFINE o == Wrap(id, body)
<1> HIDE DEF body
<1>3. At(o, 2) = e.auth_id /\ At(o, 3) = 16 * e.auth_key_num + e.auth_code_num
  BY <1>2, WrappedAt DEF Contents
<1> HIDE DEF o
<1>4. ParseAllocationType(o)
        = [auth_id |-> e.auth_id, auth_key_num |-> e.auth_key_num, auth_code_num |-> e.auth_code_num]
  BY <1>1, <1>3 DEF ParseAllocationType, Low
<1> QED
  BY <1>1, <1>2, <1>4 DEF body, o

LEMMA ProgressIndicatorCoded ==
    ASSUME NEW id, NEW e \in ProgressIndicator
    PROVE  LET body == BuildProgressIndicator(e) IN
           Contents(body) /\ ParseProgressIndicator(Wrap(id, body)) = e
<1> DEFINE body == BuildProgressIndicator(e)
<1>1. /\ e = [location |-> e.location, progress |-> e.progress]
      /\ e.location \in 0 .. 15 /\ e.progress \in 0 .. 127
  BY DEF ProgressIndicator
<1>2. Contents(body) /\ At(body, 0) = Ended(e.location) /\ At(body, 1) = Ended(e.progress)
  BY <1>1, EndedOctet DEF Contents, BuildProgressIndicator, At
<1> DEFINE o == Wrap(id, body)
<1> HIDE DEF body
<1>3. At(o, 2) = Ended(e.location) /\ At(o, 3) = Ended(e.progress)
  BY <1>2, WrappedAt DEF Contents
<1> HIDE DEF o
<1>4. Low(Ended(e.location)) = e.location /\ Value(Ended(e.progress)) = e.progress
  BY <1>1 DEF Low, Ended, Value, GroupEnd
<1>5. ParseProgressIndicator(o) = [location |-> e.location, progress |-> e.progress]
  BY <1>3, <1>4 DEF ParseProgressIndicator
<1> QED
  BY <1>1, <1>2, <1>5 DEF body, o

LEMMA FeatureActivateCoded ==
    ASSUME NEW id, NEW e \in FeatureActivate
    PROVE  LET body == BuildFeatureActivate(e) IN
           Contents(body) /\ ParseFeatureActivate(Wrap(id, body)) = e
<1> DEFINE body == BuildFeatureActivate(e)
<1>1. e = [feature |-> e.feature] /\ e.feature \in 0 .. 127
  BY DEF FeatureActivate, Feature
<1>2. Contents(body) /\ At(body, 0) = Ended(e.feature)
  BY <1>1, EndedOctet DEF Contents, BuildFeatureActivate, At
<1> DEFINE o == Wrap(id, body)
<1> HIDE DEF body
<1>3. At(o, 2) = Ended(e.feature)
  BY <1>2, WrappedAt DEF Contents
<1> HIDE DEF o
<1>4. Value(Ended(e.feature)) = e.feature
  BY <1>1, EndedOctet
<1>5. ParseFeatureActivate(o) = [feature |-> e.feature]
  BY <1>3, <1>4 DEF ParseFeatureActivate
<1> QED
  BY <1>1, <1>2, <1>5 DEF body, o

LEMMA RejectReasonCoded ==
    ASSUME NEW id, NEW e \in RejectReason
    PROVE  LET body == BuildRejectReason(e) IN
           Contents(body) /\ ParseRejectReason(Wrap(id, body)) = e
<1> DEFINE body == BuildRejectReason(e)
<1>1. e = [reason |-> e.reason] /\ e.reason \in Octet
  BY DEF RejectReason, Octet
<1>2. Contents(body) /\ At(body, 0) = e.reason
  BY <1>1 DEF Contents, BuildRejectReason, At
<1> DEFINE o == Wrap(id, body)
<1> HIDE DEF body
<1>3. At(o, 2) = e.reason
  BY <1>2, WrappedAt DEF Contents
<1> HIDE DEF o
<1>5. ParseRejectReason(o) = [reason |-> e.reason]
  BY <1>3 DEF ParseRejectReason
<1> QED
  BY <1>1, <1>2, <1>5 DEF body, o

LEMMA SetupCapabilityCoded ==
    ASSUME NEW id, NEW e \in SetupCapability
    PROVE  LET body == BuildSetupCapability(e) IN
           Contents(body) /\ ParseSetupCapability(Wrap(id, body)) = e
<1> DEFINE body == BuildSetupCapability(e)
           x == e.page_capability + 4 * e.setup_capability + 128
<1>1. /\ e = [page_capability |-> e.page_capability, setup_capability |-> e.setup_capability]
      /\ e.page_capability \in 0 .. 3 /\ e.setup_capability \in 0 .. 3
  BY DEF SetupCapability
<1>2. Contents(body) /\ At(body, 0) = x
  BY <1>1 DEF Contents, BuildSetupCapability, At, Octet, GroupEnd
<1> DEFINE o == Wrap(id, body)
<1> HIDE DEF body
<1>3. At(o, 2) = x
  BY <1>2, WrappedAt DEF Contents
<1> HIDE DEF o
<1>4. x % 4 = e.page_capability /\ (x \div 4) % 4 = e.setup_capability
  BY <1>1
<1>5. ParseSetupCapability(o)
        = [page_capability |-> e.page_capability, setup_capability |-> e.setup_capability]
  BY <1>3, <1>4 DEF ParseSetupCapability
<1> QED
  BY <1>1, <1>2, <1>5 DEF body, o

\* Values of 8 and of 4 octets are the whole contents.
LEMMA AuthValueCoded ==
    ASSUME NEW id, NEW e \in AuthValue
    PROVE  LET body == BuildAuthValue(e) IN
           Contents(body) /\ ParseAuthValue(Wrap(id, body)) = e
<1> DEFINE body == BuildAuthValue(e)
<1>1. e = [value |-> e.value] /\ e.value \in [1 .. 8 -> Octet]
  BY DEF AuthValue
<1>2. body = e.value /\ Len(body) = 8
  BY <1>1, ArrayIsSeq DEF BuildAuthValue
<1>3. Contents(body)
  <2>1. body \in Seq(Octet)
    BY <1>1, ArrayIsSeq DEF BuildAuthValue
  <2>2. Len(body) \in 1 .. 255
    BY <1>2
  <2> QED BY <2>1, <2>2 DEF Contents
<1> DEFINE o == Wrap(id, body)
<1> HIDE DEF body
<1>4. Len(o) = Len(body) + 2 /\ Rest(o, 2) = body
  <2>1. body \in Seq(Octet) /\ 0 \in 0 .. Len(body)
    BY <1>3 DEF Contents
  <2>2. Len(o) = Len(body) + 2 /\ Rest(o, 0 + 2) = Rest(body, 0)
    BY <2>1, Wrapped
  <2> QED BY <2>1, <2>2, WholeRest
<1> HIDE DEF o
<1>5. ParseAuthValue(o) = [value |-> e.value]
  BY <1>2, <1>4 DEF ParseAuthValue
<1> QED
  BY <1>1, <1>3, <1>5 DEF body, o

LEMMA AuthResCoded ==
    ASSUME NEW id, NEW e \in AuthRes
    PROVE  LET body == BuildAuthRes(e) IN
           Contents(body) /\ ParseAuthRes(Wrap(id, body)) = e
<1> DEFINE body == BuildAuthRes(e)
<1>1. e = [value |-> e.value] /\ e.value \in [1 .. 4 -> Octet]
  BY DEF AuthRes
<1>2. body = e.value /\ Len(body) = 4
  BY <1>1, ArrayIsSeq DEF BuildAuthRes
<1>3. Contents(body)
  <2>1. body \in Seq(Octet)
    BY <1>1, ArrayIsSeq DEF BuildAuthRes
  <2>2. Len(body) \in 1 .. 255
    BY <1>2
  <2> QED BY <2>1, <2>2 DEF Contents
<1> DEFINE o == Wrap(id, body)
<1> HIDE DEF body
<1>4. Len(o) = Len(body) + 2 /\ Rest(o, 2) = body
  <2>1. body \in Seq(Octet) /\ 0 \in 0 .. Len(body)
    BY <1>3 DEF Contents
  <2>2. Len(o) = Len(body) + 2 /\ Rest(o, 0 + 2) = Rest(body, 0)
    BY <2>1, Wrapped
  <2> QED BY <2>1, <2>2, WholeRest
<1> HIDE DEF o
<1>5. ParseAuthRes(o) = [value |-> e.value]
  BY <1>2, <1>4 DEF ParseAuthRes
<1> QED
  BY <1>1, <1>3, <1>5 DEF body, o

-----------------------------------------------------------------------------
(* Elements of up to three octets and a text *)

\* Contents of one, two or three octets and a text of n octets, and what is read of
\* them after the header
Head1(body, x, t, n) ==
    /\ x \in Octet /\ t \in Seq(Octet)
    /\ n \in 0 .. 128 /\ Len(t) = n /\ body = <<x>> \o t
Read1(o, x, t, n) ==
    At(o, 2) = x /\ Rest(o, 3) = t /\ Len(o) = n + 3

Head2(body, x, y, t, n) ==
    /\ x \in Octet /\ y \in Octet /\ t \in Seq(Octet)
    /\ n \in 0 .. 128 /\ Len(t) = n /\ body = <<x, y>> \o t
Read2(o, x, y, t, n) ==
    At(o, 2) = x /\ At(o, 3) = y /\ Rest(o, 4) = t /\ Len(o) = n + 4

Head3(body, x, y, z, t, n) ==
    /\ x \in Octet /\ y \in Octet /\ z \in Octet /\ t \in Seq(Octet)
    /\ n \in 0 .. 128 /\ Len(t) = n /\ body = <<x, y, z>> \o t
Read3(o, x, y, z, t, n) ==
    At(o, 2) = x /\ At(o, 3) = y /\ At(o, 4) = z /\ Rest(o, 5) = t /\ Len(o) = n + 5

\* A text behind one, two or three octets is read as it was built.
LEMMA TextAfter1 ==
    ASSUME NEW id, NEW body, NEW x, NEW t, NEW n, Head1(body, x, t, n)
    PROVE  Contents(body) /\ Read1(Wrap(id, body), x, t, n)
<1> DEFINE o == Wrap(id, body)
<1>1. n \in 0 .. 128 /\ Len(t) = n
  BY DEF Head1
<1>2. body \in Seq(Octet) /\ Len(body) = Len(t) + 1 /\ At(body, 0) = x /\ Rest(body, 1) = t
  BY Prefix1 DEF Head1
<1>3. Len(body) = n + 1
  BY <1>1, <1>2
<1>4. Len(body) \in 1 .. 255 /\ 1 \in 0 .. Len(body)
  BY <1>1, <1>3
<1>5. Len(o) = Len(body) + 2 /\ Rest(o, 1 + 2) = t
  BY <1>2, <1>4, Wrapped
<1>6. At(o, 2) = x
  BY <1>2, WrappedAt
<1>7. Len(o) = n + 3
  BY <1>1, <1>3, <1>5
<1> QED
  BY <1>2, <1>4, <1>5, <1>6, <1>7 DEF Contents, Read1

LEMMA TextAfter2 ==
    ASSUME NEW id, NEW body, NEW x, NEW y, NEW t, NEW n, Head2(body, x, y, t, n)
    PROVE  Contents(body) /\ Read2(Wrap(id, body), x, y, t, n)
<1> DEFINE o == Wrap(id, body)
<1>1. n \in 0 .. 128 /\ Len(t) = n
  BY DEF Head2
<1>2. body \in Seq(Octet) /\ Len(body) = Len(t) + 2 /\ At(body, 0) = x /\ At(body, 1) = y /\ Rest(body, 2) = t
  BY Prefix2 DEF Head2
<1>3. Len(body) = n + 2
  BY <1>1, <1>2
<1>4. Len(body) \in 1 .. 255 /\ 2 \in 0 .. Len(body)
  BY <1>1, <1>3
<1>5. Len(o) = Len(body) + 2 /\ Rest(o, 2 + 2) = t
  BY <1>2, <1>4, Wrapped
<1>6. At(o, 2) = x /\ At(o, 3) = y
  BY <1>2, WrappedAt
<1>7. Len(o) = n + 4
  BY <1>1, <1>3, <1>5
<1> QED
  BY <1>2, <1>4, <1>5, <1>6, <1>7 DEF Contents, Read2

LEMMA TextAfter3 ==
    ASSUME NEW id, NEW body, NEW x, NEW y, NEW z, NEW t, NEW n, Head3(body, x, y, z, t, n)
    PROVE  Contents(body) /\ Read3(Wrap(id, body), x, y, z, t, n)
<1> DEFINE o == Wrap(id, body)
<1>1. n \in 0 .. 128 /\ Len(t) = n
  BY DEF Head3
<1>2. body \in Seq(Octet) /\ Len(body) = Len(t) + 3 /\ At(body, 0) = x /\ At(body, 1) = y /\ At(body, 2) = z /\ Rest(body, 3) = t
  BY Prefix3 DEF Head3
<1>3. Len(body) = n + 3
  BY <1>1, <1>2
<1>4. Len(body) \in 1 .. 255 /\ 3 \in 0 .. Len(body)
  BY <1>1, <1>3
<1>5. Len(o) = Len(body) + 2 /\ Rest(o, 3 + 2) = t
  BY <1>2, <1>4, Wrapped
<1>6. At(o, 2) = x /\ At(o, 3) = y /\ At(o, 4) = z
  BY <1>2, WrappedAt
<1>7. Len(o) = n + 5
  BY <1>1, <1>3, <1>5
<1> QED
  BY <1>2, <1>4, <1>5, <1>6, <1>7 DEF Contents, Read3

LEMMA MultiTextCoded ==
    ASSUME NEW id, NEW e \in [info : Text(MaxText)], e.info # <<>>
    PROVE  LET body == BuildMultiText(e) IN
           Contents(body) /\ ParseMultiText(Wrap(id, body)) = e
<1> DEFINE body == BuildMultiText(e)
           o == Wrap(id, body)
<1>1. e = [info |-> e.info] /\ e.info \in Seq(Octet) /\ Len(e.info) \in 0 .. 124
  <2>1. e.info \in Text(124)
    BY DEF MaxText
  <2> QED BY <2>1, TextOK
<1>2. body = e.info /\ body \in Seq(Octet) /\ Len(body) \in 1 .. 124
  BY <1>1 DEF BuildMultiText
<1> HIDE DEF body
<1>3. Len(o) = Len(body) + 2 /\ Rest(o, 2) = body
  <2>1. 0 \in 0 .. Len(body)
    BY <1>2
  <2>2. Len(o) = Len(body) + 2 /\ Rest(o, 0 + 2) = Rest(body, 0)
    BY <1>2, <2>1, Wrapped
  <2> QED BY <1>2, <2>2, WholeRest
<1> HIDE DEF o
<1>4. Fits(o, 2, 256)
  BY <1>2, <1>3 DEF Fits
<1>5. ParseMultiText(o) = [info |-> e.info]
  BY <1>2, <1>3, <1>4 DEF ParseMultiText
<1>6. Len(body) \in 1 .. 255
  BY <1>2
<1>7. Contents(body)
  BY Zenon, <1>2, <1>6 DEF Contents
<1> QED
  BY Zenon, <1>1, <1>5, <1>7 DEF body, o

LEMMA NetworkParameterCoded ==
    ASSUME NEW id, NEW e \in NetworkParameter
    PROVE  LET body == BuildNetworkParameter(e) IN
           Contents(body) /\ ParseNetworkParameter(Wrap(id, body)) = e
<1> DEFINE body == BuildNetworkParameter(e)
           o == Wrap(id, body)
<1>1. e = [discriminator |-> e.discriminator, data |-> e.data] /\ e.discriminator \in Octet
        /\ e.data \in Text(64)
  BY DEF NetworkParameter, Octet
<1> DEFINE n == Len(e.data)
<1>2. e.data \in Seq(Octet) /\ n \in 0 .. 64 /\ n \in 0 .. 128
  <2>1. e.data \in Seq(Octet) /\ n \in 0 .. 64
    BY <1>1, TextOK
  <2> QED BY <2>1
<1>21. Len(e.data) = n
  OBVIOUS
<1> HIDE DEF n
<1>22. e.discriminator \in Octet
  BY <1>1
<1>3. body = <<e.discriminator>> \o e.data
  BY DEF BuildNetworkParameter
<1> HIDE DEF body
<1>30. Head1(body, e.discriminator, e.data, n)
  BY <1>2, <1>22, <1>3, <1>21 DEF Head1
<1>31. Contents(body) /\ Read1(o, e.discriminator, e.data, n)
  BY <1>30, TextAfter1
<1>4. At(o, 2) = e.discriminator /\ Rest(o, 3) = e.data /\ Len(o) = n + 3
  BY <1>31 DEF Read1
<1> HIDE DEF o
<1>5. Fits(o, 3, 64)
  BY <1>2, <1>4 DEF Fits
<1>6. ParseNetworkParameter(o) = [discriminator |-> e.discriminator, data |-> e.data]
  BY <1>4, <1>5 DEF ParseNetworkParameter
<1> QED
  BY <1>1, <1>31, <1>6 DEF body, o

LEMMA CalledPartyNumberCoded ==
    ASSUME NEW id, NEW e \in CalledPartyNumber
    PROVE  LET body == BuildCalledPartyNumber(e) IN
           Contents(body) /\ ParseCalledPartyNumber(Wrap(id, body)) = e
<1> DEFINE body == BuildCalledPartyNumber(e)
           o == Wrap(id, body)
           x == Ended(16 * e.type + e.npi)
<1>1. /\ e = [type |-> e.type, npi |-> e.npi, address |-> e.address]
      /\ e.type \in 0 .. 7 /\ e.npi \in 0 .. 15 /\ e.address \in Text(64)
  BY DEF CalledPartyNumber, NumberType, NumberingPlan
<1> DEFINE n == Len(e.address)
<1>2. e.address \in Seq(Octet) /\ n \in 0 .. 64 /\ n \in 0 .. 128
  <2>1. e.address \in Seq(Octet) /\ n \in 0 .. 64
    BY <1>1, TextOK
  <2> QED BY <2>1
<1>21. Len(e.address) = n
  OBVIOUS
<1> HIDE DEF n
<1>3. body = <<x>> \o e.address
  BY DEF BuildCalledPartyNumber
<1>4. High(x) = e.type /\ Low(x) = e.npi
  BY <1>1 DEF Ended, GroupEnd, High, Low
<1>41. x \in Octet
  BY <1>1 DEF Ended, GroupEnd, Octet
<1> HIDE DEF body, x
<1>42. Head1(body, x, e.address, n)
  BY <1>2, <1>3, <1>41, <1>21 DEF Head1
<1>43. Contents(body) /\ Read1(o, x, e.address, n)
  BY <1>42, TextAfter1
<1>5. At(o, 2) = x /\ Rest(o, 3) = e.address /\ Len(o) = n + 3
  BY <1>43 DEF Read1
<1> HIDE DEF o
<1>6. Fits(o, 3, 64)
  BY <1>2, <1>5 DEF Fits
<1>7. ParseCalledPartyNumber(o) = [type |-> e.type, npi |-> e.npi, address |-> e.address]
  BY <1>4, <1>5, <1>6 DEF ParseCalledPartyNumber
<1> QED
  BY <1>1, <1>43, <1>7 DEF body, o

\* The presentation indicator is read as zero.
LEMMA CallingPartyNumberCoded ==
    ASSUME NEW id, NEW e \in CallingPartyNumber
    PROVE  LET body == BuildCallingPartyNumber(e)
               p == ParseCallingPartyNumber(Wrap(id, body))
           IN  Contents(body) /\ p \in CallingPartyNumber /\ p.presentation = 0
                 /\ (e.presentation = 0 => p = e)
<1> DEFINE body == BuildCallingPartyNumber(e)
           o == Wrap(id, body)
           number == 16 * e.type + e.npi
           y == Ended(32 * e.presentation + e.screening)
<1>1. /\ e = [type |-> e.type, npi |-> e.npi, presentation |-> e.presentation,
              screening |-> e.screening, address |-> e.address]
      /\ e.type \in NumberType /\ e.npi \in NumberingPlan
      /\ e.presentation \in 0 .. 3 /\ e.screening \in 0 .. 3 /\ e.address \in Text(64)
  BY DEF CallingPartyNumber, Presentation, Screening
<1> DEFINE n == Len(e.address)
<1>2. e.address \in Seq(Octet) /\ n \in 0 .. 64 /\ n \in 0 .. 128
  <2>1. e.address \in Seq(Octet) /\ n \in 0 .. 64
    BY <1>1, TextOK
  <2> QED BY <2>1
<1>21. Len(e.address) = n
  OBVIOUS
<1> HIDE DEF n
<1>3. e.type \in 0 .. 7 /\ e.npi \in 0 .. 15
  BY <1>1 DEF NumberType, NumberingPlan
<1>4. /\ High(number) = e.type /\ Low(number) = e.npi /\ ~Ends(number)
      /\ High(Ended(number)) = e.type /\ Low(Ended(number)) = e.npi /\ Ends(Ended(number))
  BY <1>3 DEF Ended, Ends, GroupEnd, High, Low
<1>5. Ends(y) /\ y % 4 = e.screening
  BY <1>1 DEF Ended, Ends, GroupEnd
<1>51. number \in Octet /\ Ended(number) \in Octet /\ y \in Octet
  BY <1>1, <1>3 DEF Ended, GroupEnd, Octet
<1>6. CASE e.presentation \in {Restricted, NotAvailable}
  <2>1. body = <<Ended(number)>> \o e.address
    BY <1>6 DEF BuildCallingPartyNumber
  <2> HIDE DEF body, number, y
  <2>10. Head1(body, Ended(number), e.address, n)
    BY <1>2, <1>51, <2>1, <1>21 DEF Head1
  <2>11. Contents(body) /\ Read1(o, Ended(number), e.address, n)
    BY <2>10, TextAfter1
  <2>2. At(o, 2) = Ended(number) /\ Rest(o, 3) = e.address /\ Len(o) = n + 3
    BY <2>11 DEF Read1
  <2> HIDE DEF o
  <2>3. Fits(o, 3, 64)
    BY <1>2, <2>2 DEF Fits
  <2>4. ParseCallingPartyNumber(o) = [type |-> e.type, npi |-> e.npi, presentation |-> 0,
                                      screening |-> 0, address |-> e.address]
    BY <1>4, <2>2, <2>3 DEF ParseCallingPartyNumber
  <2>5. e.presentation # 0
    BY <1>6 DEF Restricted, NotAvailable
  <2> QED BY <1>1, <2>11, <2>4, <2>5 DEF body, o, CallingPartyNumber, Presentation, Screening
<1>7. CASE e.presentation \notin {Restricted, NotAvailable}
  <2>1. body = <<number, y>> \o e.address
    BY <1>7 DEF BuildCallingPartyNumber
  <2> HIDE DEF body, number, y
  <2>10. Head2(body, number, y, e.address, n)
    BY <1>2, <1>51, <2>1, <1>21 DEF Head2
  <2>11. Contents(body) /\ Read2(o, number, y, e.address, n)
    BY <2>10, TextAfter2
  <2>2. At(o, 2) = number /\ At(o, 3) = y /\ Rest(o, 4) = e.address /\ Len(o) = n + 4
    BY <2>11 DEF Read2
  <2> HIDE DEF o
  <2>3. Fits(o, 4, 64)
    BY <1>2, <2>2 DEF Fits
  <2>4. ParseCallingPartyNumber(o) = [type |-> e.type, npi |-> e.npi, presentation |-> 0,
                                      screening |-> e.screening, address |-> e.address]
    BY <1>4, <1>5, <2>2, <2>3 DEF ParseCallingPartyNumber
  <2> QED BY <1>1, <2>11, <2>4 DEF body, o, CallingPartyNumber, Presentation, Screening
<1> QED
  BY <1>6, <1>7

-----------------------------------------------------------------------------
(* Elements with a word, the name of the calling party, the cipher info *)

\* A word has 16 bits.
LEMMA WordIs ==
    ASSUME NEW n \in Word
    PROVE  n \in Nat /\ n < 65536
<1>1. MaxWord \in Nat /\ MaxWord < 65536
  BY SMT DEF MaxWord
<1>2. n \in Nat /\ n <= MaxWord
  BY <1>1 DEF Word
<1> QED BY SMT, <1>1, <1>2

\* Two octets are a word.
LEMMA WordOctets ==
    ASSUME NEW n \in Word, NEW q, NEW r, q = n \div 256, r = n % 256
    PROVE  q \in Octet /\ r \in Octet /\ 256 * q + r = n
<1>1. n \in Nat /\ n < 65536
  BY WordIs
<1>2. q \in Nat /\ r \in 0 .. 255 /\ n = 256 * q + r
  BY SMT, <1>1
<1>3. q < 256
  BY SMT, <1>1, <1>2
<1> QED
  BY SMT, <1>2, <1>3 DEF Octet

LEMMA IsWord ==
    ASSUME NEW n \in Nat, n < 65536
    PROVE  n \in Word
<1>1. MaxWord \in Nat /\ n <= MaxWord
  BY SMT DEF MaxWord
<1> QED BY <1>1 DEF Word

\* Two octets are a word.
LEMMA OctetsWord ==
    ASSUME NEW y \in Octet, NEW z \in Octet
    PROVE  256 * y + z \in Word
<1>1. y \in Nat /\ y <= 255 /\ z \in Nat /\ z <= 255
  BY DEF Octet
<1> DEFINE n == 256 * y + z
<1>2. n \in Nat /\ n < 65536
  BY SMT, <1>1
<1> HIDE DEF n
<1>3. n \in Word
  BY SMT, <1>2, IsWord
<1> QED
  BY Zenon, <1>3 DEF n

\* The presentation is read as zero, and one bit of the alphabet.
LEMMA CallingPartyNameCoded ==
    ASSUME NEW id, NEW e \in CallingPartyName
    PROVE  LET body == BuildCallingPartyName(e)
               p == ParseCallingPartyName(Wrap(id, body))
           IN  Contents(body) /\ p \in CallingPartyName /\ p.presentation = 0 /\ p.alphabet \in {0, 1}
                 /\ (e.presentation = 0 /\ e.alphabet \in {0, 1} => p = e)
<1> DEFINE body == BuildCallingPartyName(e)
           o == Wrap(id, body)
           x == 32 * e.presentation + 4 * e.alphabet + e.screening
           n == Len(e.name)
<1>1. e = [presentation |-> e.presentation, alphabet |-> e.alphabet, screening |-> e.screening,
           name |-> e.name]
  BY DEF CallingPartyName
<1>2. /\ e.presentation \in 0 .. 3 /\ e.alphabet \in {0, 1, 7} /\ e.screening \in 0 .. 3
      /\ e.name \in Text(64)
  BY DEF CallingPartyName, Presentation, Screening, Alphabet
<1>3. e.name \in Seq(Octet) /\ n \in 0 .. 64
  BY <1>2, TextOK
<1>4. Len(e.name) = n
  OBVIOUS
<1> HIDE DEF n
<1>5. n \in 0 .. 128
  BY <1>3
<1>6. body = <<x>> \o e.name
  BY DEF BuildCallingPartyName
<1>7. x \in Octet
  BY <1>2 DEF Octet
<1>8. x % 4 = e.screening /\ (x % 8) \div 4 \in {0, 1}
        /\ (e.alphabet \in {0, 1} => (x % 8) \div 4 = e.alphabet)
  BY <1>2
<1> HIDE DEF body, x
<1>9. Head1(body, x, e.name, n)
  BY <1>3, <1>4, <1>5, <1>6, <1>7 DEF Head1
<1>10. Contents(body) /\ Read1(o, x, e.name, n)
  BY <1>9, TextAfter1
<1>11. At(o, 2) = x /\ Rest(o, 3) = e.name /\ Len(o) = n + 3
  BY <1>10 DEF Read1
<1> HIDE DEF o
<1>12. Fits(o, 3, 64)
  BY <1>3, <1>11 DEF Fits
<1> DEFINE p == ParseCallingPartyName(o)
<1>13. p = [presentation |-> 0, alphabet |-> (x % 8) \div 4, screening |-> e.screening,
            name |-> e.name]
  BY <1>8, <1>11, <1>12 DEF ParseCallingPartyName
<1> HIDE DEF p
<1>14. p \in CallingPartyName /\ p.presentation = 0 /\ p.alphabet \in {0, 1}
  BY <1>2, <1>8, <1>13 DEF CallingPartyName, Presentation, Screening, Alphabet
<1>15. e.presentation = 0 /\ e.alphabet \in {0, 1} => p = e
  BY <1>1, <1>8, <1>13
<1> QED
  BY <1>10, <1>14, <1>15 DEF body, o, p

LEMMA IwuToIwuCoded ==
    ASSUME NEW id, NEW e \in IwuToIwu
    PROVE  LET body == BuildIwuToIwu(e) IN
           Contents(body) /\ ParseIwuToIwu(Wrap(id, body)) = e
<1> DEFINE body == BuildIwuToIwu(e)
           o == Wrap(id, body)
           x == Ended(Flag(e.sr, 64) + e.pd)
           n == Len(e.data)
<1>1. e = [sr |-> e.sr, pd |-> e.pd, data |-> e.data]
  BY DEF IwuToIwu
<1>2. e.sr \in BOOLEAN /\ e.pd \in 0 .. 63 /\ e.data \in Text(123)
  BY DEF IwuToIwu, IwuDiscriminator, MaxText
<1>3. e.data \in Seq(Octet) /\ n \in 0 .. 123
  BY <1>2, TextOK
<1>4. Len(e.data) = n
  OBVIOUS
<1> HIDE DEF n
<1>5. n \in 0 .. 128
  BY <1>3
<1>6. body = <<x>> \o e.data
  BY DEF BuildIwuToIwu
<1>7. x \in Octet
  BY <1>2 DEF Octet, Ended, GroupEnd, Flag
<1>8. Ends(x) /\ x % 64 = e.pd /\ HasBit(x, 64) = e.sr
  <2>1. CASE e.sr = TRUE
    <3>1. x = 64 * 3 + e.pd
      BY <1>2, <2>1 DEF Ended, GroupEnd, Flag
    <3> HIDE DEF x
    <3>2. x \div 64 = 3 /\ x % 64 = e.pd /\ x >= 128
      BY <1>2, <3>1
    <3>3. Ends(x) /\ HasBit(x, 64)
      BY <3>2 DEF Ends, GroupEnd, HasBit
    <3> QED BY Zenon, <2>1, <3>2, <3>3 DEF HasBit
  <2>2. CASE e.sr = FALSE
    <3>1. x = 64 * 2 + e.pd
      BY <1>2, <2>2 DEF Ended, GroupEnd, Flag
    <3> HIDE DEF x
    <3>2. x \div 64 = 2 /\ x % 64 = e.pd /\ x >= 128
      BY <1>2, <3>1
    <3>3. Ends(x) /\ ~ HasBit(x, 64)
      BY <3>2 DEF Ends, GroupEnd, HasBit
    <3> QED BY Zenon, <2>2, <3>2, <3>3 DEF HasBit
  <2> QED BY <1>2, <2>1, <2>2
<1> HIDE DEF body, x
<1>9. Head1(body, x, e.data, n)
  BY <1>3, <1>4, <1>5, <1>6, <1>7 DEF Head1
<1>10. Contents(body) /\ Read1(o, x, e.data, n)
  BY <1>9, TextAfter1
<1>11. At(o, 2) = x /\ Rest(o, 3) = e.data /\ Len(o) = n + 3
  BY <1>10 DEF Read1
<1> HIDE DEF o
<1>12. Fits(o, 3, 256)
  BY <1>3, <1>11 DEF Fits
<1>13. ParseIwuToIwu(o) = [sr |-> e.sr, pd |-> e.pd, data |-> e.data]
  BY <1>8, <1>11, <1>12 DEF ParseIwuToIwu
<1> QED
  BY <1>1, <1>10, <1>13 DEF body, o

LEMMA EscapeToProprietaryCoded ==
    ASSUME NEW id, NEW e \in EscapeToProprietary
    PROVE  LET body == BuildEscapeToProprietary(e) IN
           Contents(body) /\ ParseEscapeToProprietary(Wrap(id, body)) = e
<1> DEFINE body == BuildEscapeToProprietary(e)
           o == Wrap(id, body)
           x == Ended(DescriptionEmc)
           y == e.emc \div 256
           z == e.emc % 256
           n == Len(e.content)
<1>1. e = [emc |-> e.emc, content |-> e.content]
  BY SMT DEF EscapeToProprietary
<1>2. e.emc \in Word /\ e.content \in Text(64)
  BY SMT DEF EscapeToProprietary
<1>3. e.content \in Seq(Octet) /\ n \in 0 .. 64
  BY <1>2, TextOK
<1>4. Len(e.content) = n
  OBVIOUS
<1> HIDE DEF n
<1>5. n \in 0 .. 128
  BY <1>3
<1>6. body = <<x, y, z>> \o e.content
  BY DEF BuildEscapeToProprietary
<1>70. y \in Octet /\ z \in Octet /\ 256 * y + z = e.emc
  BY <1>2, WordOctets
<1> HIDE DEF y, z
<1>7. x \in Octet /\ y \in Octet /\ z \in Octet
  BY <1>70 DEF Octet, Ended, GroupEnd, DescriptionEmc
<1>8. Value(x) = DescriptionEmc /\ 256 * y + z = e.emc
  BY <1>70 DEF Value, Ended, GroupEnd, DescriptionEmc
<1> HIDE DEF body, x, y, z
<1>9. Head3(body, x, y, z, e.content, n)
  BY <1>3, <1>4, <1>5, <1>6, <1>7 DEF Head3
<1>10. Contents(body) /\ Read3(o, x, y, z, e.content, n)
  BY <1>9, TextAfter3
<1>11. At(o, 2) = x /\ At(o, 3) = y /\ At(o, 4) = z /\ Rest(o, 5) = e.content /\ Len(o) = n + 5
  BY <1>10 DEF Read3
<1> HIDE DEF o
<1>12. Fits(o, 5, 64)
  BY <1>3, <1>11 DEF Fits
<1>13. ParseEscapeToProprietary(o) = [emc |-> e.emc, content |-> e.content]
  BY <1>8, <1>11, <1>12 DEF ParseEscapeToProprietary
<1> QED
  BY <1>1, <1>10, <1>13 DEF body, o

\* Bit 4 of a nibble is set.
LEMMA EitherEight ==
    ASSUME NEW a \in Nibble
    PROVE  Either(a, 8) \in 8 .. 15 /\ (a >= 8 => Either(a, 8) = a)
<1>1. /\ HasBit(8, 8) /\ ~ HasBit(8, 4) /\ ~ HasBit(8, 2) /\ ~ HasBit(8, 1)
  BY DEF HasBit
<1>2. Either(a, 8) = 8 + Flag(HasBit(a, 4), 4) + Flag(HasBit(a, 2), 2) + Flag(HasBit(a, 1), 1)
  BY <1>1 DEF Either, Flag
<1>3. /\ HasBit(a, 4) <=> a \in {4, 5, 6, 7, 12, 13, 14, 15}
      /\ HasBit(a, 2) <=> a \in {2, 3, 6, 7, 10, 11, 14, 15}
      /\ HasBit(a, 1) <=> a \in {1, 3, 5, 7, 9, 11, 13, 15}
  BY DEF Nibble, HasBit
<1> QED
  BY <1>2, <1>3 DEF Flag, Nibble

\* A key number is read with its bit 4 set.
LEMMA CipherInfoCoded ==
    ASSUME NEW id, NEW e \in CipherInfo
    PROVE  LET body == BuildCipherInfo(e)
               p == ParseCipherInfo(Wrap(id, body))
           IN  Contents(body) /\ p \in CipherInfo /\ p.cipher_key_num >= 8
                 /\ (e.cipher_key_num >= 8 => p = e)
<1> DEFINE body == BuildCipherInfo(e)
           o == Wrap(id, body)
           x == Flag(e.enable, 128) + e.cipher_alg_id
           k == Either(e.cipher_key_num, 8)
           y == 16 * e.cipher_key_type + k
<1>1. e = [enable |-> e.enable, cipher_alg_id |-> e.cipher_alg_id,
           cipher_key_type |-> e.cipher_key_type, cipher_key_num |-> e.cipher_key_num]
  BY DEF CipherInfo
<1>2. /\ e.enable \in BOOLEAN /\ e.cipher_alg_id \in {1, 127} \cup 40 .. 47
      /\ e.cipher_key_type \in {9, 10} /\ e.cipher_key_num \in Nibble
  BY DEF CipherInfo
<1>3. k \in 8 .. 15 /\ (e.cipher_key_num >= 8 => k = e.cipher_key_num)
  BY <1>2, EitherEight
<1>4. body = <<x, y>>
  BY DEF BuildCipherInfo
<1> HIDE DEF body, k
<1> DEFINE above == x >= 128
<1>5. x \in Octet /\ x % 128 = e.cipher_alg_id /\ above = e.enable
  <2>0. e.cipher_alg_id \in 0 .. 127
    BY <1>2
  <2>1. CASE e.enable = TRUE
    <3>1. x = 128 * 1 + e.cipher_alg_id
      BY <2>0, <2>1 DEF Flag
    <3> HIDE DEF x
    <3>2. x \in Octet /\ x % 128 = e.cipher_alg_id /\ above
      BY <2>0, <3>1 DEF Octet
    <3> HIDE DEF above
    <3> QED BY Zenon, <2>1, <3>2
  <2>2. CASE e.enable = FALSE
    <3>1. x = e.cipher_alg_id
      BY <2>0, <2>2 DEF Flag
    <3> HIDE DEF x
    <3>0. above \in BOOLEAN
      BY SMT
    <3>2. x \in Octet /\ x % 128 = e.cipher_alg_id /\ ~ above
      BY <2>0, <3>1 DEF Octet
    <3> HIDE DEF above
    <3>3. above = FALSE
      BY Zenon, <3>2, <3>0
    <3> QED BY Zenon, <2>2, <3>2, <3>3
  <2> QED BY <1>2, <2>1, <2>2
<1>6. y \in Octet /\ y \div 16 = e.cipher_key_type /\ Low(y) = k
  BY <1>2, <1>3 DEF Octet, Low
<1> HIDE DEF x, y
<1>7. body \in Seq(Octet) /\ Len(body) \in {2} /\ At(body, 0) = x /\ At(body, 1) = y
  BY <1>4, <1>5, <1>6 DEF At
<1>8. Contents(body)
  BY <1>7 DEF Contents
<1>9. At(o, 2) = x /\ At(o, 3) = y /\ Len(o) = Len(body) + 2
  BY <1>7, Wrapped, WrappedAt
<1>10. Len(o) = 4
  <2>1. \A n \in {2} : n + 2 = 4
    OBVIOUS
  <2> QED BY <1>7, <1>9, <2>1
<1> DEFINE p == ParseCipherInfo(o)
<1> HIDE DEF o
<1>11. p = [enable |-> e.enable, cipher_alg_id |-> e.cipher_alg_id,
            cipher_key_type |-> e.cipher_key_type, cipher_key_num |-> k]
  BY <1>5, <1>6, <1>9, <1>10 DEF ParseCipherInfo
<1> HIDE DEF p
<1>12. p \in CipherInfo /\ p.cipher_key_num >= 8
  BY <1>2, <1>3, <1>11 DEF CipherInfo, Nibble
<1>13. e.cipher_key_num >= 8 => p = e
  BY <1>1, <1>3, <1>11
<1> QED
  BY <1>8, <1>12, <1>13 DEF body, o, p

-----------------------------------------------------------------------------
(* Durations, and the date and the time *)

\* The values of a duration that was parsed are others than those of the type.
AnyDuration == [lock : 0 .. 112, time : {0, 4, 15} \cup DefinedTimeLimit, duration : Octet]

\* Reading beyond the end yields an octet.
LEMMA AtOctet ==
    ASSUME NEW o \in Seq(Octet), NEW n \in Nat
    PROVE  At(o, n) \in Octet
<1>1. CASE n < Len(o)
  <2>1. n + 1 \in 1 .. Len(o)
    BY <1>1
  <2>2. o[n + 1] \in Octet
    BY <2>1
  <2> QED BY <1>1, <2>2 DEF At
<1>2. CASE ~ (n < Len(o))
  BY <1>2 DEF At, Octet
<1> QED BY <1>1, <1>2

\* The octet of the lock and the time limit, with bit 8 or without
Limits(x, time) ==
    /\ x \in Octet /\ Low(x) = time /\ Low(Ended(x)) = time /\ Ended(x) \in Octet
    /\ High(x) \in 0 .. 7 /\ High(Ended(x)) \in 0 .. 7

LEMMA LimitsOK ==
    ASSUME NEW lock \in 0 .. 112, NEW time \in 0 .. 15
    PROVE  Limits((16 * lock + time) % 256, time)
<1> SUFFICES ASSUME NEW x, x = (16 * lock + time) % 256
             PROVE  Limits(x, time)
  OBVIOUS
<1>1. x \in 0 .. 255 /\ 16 * lock + time = 256 * ((16 * lock + time) \div 256) + x
  BY SMT
<1>2. PICK q \in Nat : 16 * lock + time = 256 * q + x
  BY <1>1
<1>3. x = 16 * (lock - 16 * q) + time
  BY <1>2
<1>4. x % 16 = time
  BY <1>3
<1>5. PICK k \in 0 .. 15 : x = 16 * k + time
  BY SMTT(30), <1>1, <1>3
<1>6. \E m \in 0 .. 7 : Ended(x) = 128 + 16 * m + time
  <2>1. CASE k < 8
    BY <1>5, <2>1 DEF Ended, GroupEnd
  <2>2. CASE k >= 8
    <3>1. k - 8 \in 0 .. 7 /\ Ended(x) = 128 + 16 * (k - 8) + time
      BY <1>5, <2>2 DEF Ended, GroupEnd
    <3> QED BY <3>1
  <2> QED BY <2>1, <2>2
<1>7. Low(x) = time /\ High(x) \in 0 .. 7 /\ x \in Octet
  BY <1>1, <1>4 DEF Low, High, Octet
<1>8. PICK m \in 0 .. 7 : Ended(x) = 128 + 16 * m + time
  BY <1>6
<1> DEFINE y == Ended(x)
<1>9. y = 16 * (8 + m) + time
  BY <1>8
<1> HIDE DEF y
<1>10. Low(y) = time /\ High(y) \in 0 .. 7 /\ y \in Octet
  BY <1>9 DEF Low, High, Octet
<1> QED
  BY <1>7, <1>10 DEF y, Limits

\* What is parsed of a duration is a duration again, never with a lock of 5 to 7.
LEMMA DurationCoded ==
    ASSUME NEW id, NEW e \in AnyDuration
    PROVE  LET body == BuildDuration(e)
               p == ParseDuration(Wrap(id, body))
           IN  Contents(body) /\ p \in AnyDuration /\ p.lock \notin 5 .. 7
<1> DEFINE body == BuildDuration(e)
           o == Wrap(id, body)
           p == ParseDuration(o)
           x == (16 * e.lock + e.time) % 256
<1>1. /\ e.lock \in 0 .. 112 /\ e.time \in {0, 4, 15} \cup DefinedTimeLimit /\ e.time \in 0 .. 15
      /\ e.duration \in Octet
  BY DEF AnyDuration, DefinedTimeLimit
<1>2. /\ x \in Octet /\ Low(x) = e.time /\ Low(Ended(x)) = e.time /\ Ended(x) \in Octet
      /\ High(x) \in 0 .. 7 /\ High(Ended(x)) \in 0 .. 7
  <2> DEFINE lock == e.lock
             time == e.time
  <2>1. lock \in 0 .. 112 /\ time \in 0 .. 15
    BY Zenon, <1>1
  <2> HIDE DEF lock, time
  <2>2. Limits((16 * lock + time) % 256, time)
    BY Zenon, <2>1, LimitsOK
  <2> QED BY Zenon, <2>2 DEF Limits, lock, time
<1>3. body = IF e.time \in DefinedTimeLimit THEN <<x, e.duration>> ELSE <<Ended(x)>>
  BY DEF BuildDuration
<1> HIDE DEF body, x
<1>4. body \in Seq(Octet) /\ Len(body) \in 1 .. 2 /\ At(body, 0) \in {x, Ended(x)}
  BY <1>1, <1>2, <1>3 DEF At
<1>5. Contents(body)
  BY <1>4 DEF Contents
<1>6. At(o, 2) \in {x, Ended(x)} /\ At(o, 3) \in Octet
  <2>1. At(o, 2) = At(body, 0) /\ At(o, 3) = At(body, 1)
    BY <1>4, WrappedAt
  <2> QED BY <1>4, <2>1, AtOctet
<1> HIDE DEF o
<1>7. High(At(o, 2)) \in 0 .. 7 /\ Low(At(o, 2)) = e.time
  BY <1>2, <1>6
<1>8. p = [lock |-> 16 * High(At(o, 2)), time |-> e.time,
           duration |-> IF Ends(At(o, 2)) THEN 0 ELSE At(o, 3)]
  BY <1>7 DEF ParseDuration
<1> HIDE DEF p
<1>9. 16 * High(At(o, 2)) \in 0 .. 112 /\ 16 * High(At(o, 2)) \notin 5 .. 7
  BY <1>7
<1>10. 0 \in Octet
  BY DEF Octet
<1>11. p \in AnyDuration /\ p.lock \notin 5 .. 7
  BY <1>1, <1>6, <1>8, <1>9, <1>10 DEF AnyDuration
<1> QED
  BY <1>5, <1>11 DEF body, o, p

LEMMA WrappedMore ==
    ASSUME NEW id, NEW body \in Seq(Octet)
    PROVE  LET o == Wrap(id, body) IN
           At(o, 7) = At(body, 5) /\ At(o, 8) = At(body, 6) /\ At(o, 9) = At(body, 7)
<1> DEFINE o == Wrap(id, body)
<1>1. \A n \in Nat : At(o, n + 2) = At(body, n)
  BY Wrapped
<1> HIDE DEF o
<1>2. At(o, 5 + 2) = At(body, 5) /\ At(o, 6 + 2) = At(body, 6) /\ At(o, 7 + 2) = At(body, 7)
  BY <1>1
<1> QED
  BY <1>2 DEF o

\* The octets of two parts that follow each other
LEMMA AtJoined ==
    ASSUME NEW s \in Seq(Octet), NEW t \in Seq(Octet)
    PROVE  /\ s \o t \in Seq(Octet) /\ Len(s \o t) = Len(s) + Len(t)
           /\ \A n \in Nat : n < Len(s) => At(s \o t, n) = At(s, n)
           /\ \A n \in Nat : At(s \o t, Len(s) + n) = At(t, n)
<1>1. /\ s \o t \in Seq(Octet) /\ Len(s \o t) = Len(s) + Len(t)
      /\ \A i \in 1 .. Len(s) : (s \o t)[i] = s[i]
      /\ \A i \in 1 .. Len(t) : (s \o t)[Len(s) + i] = t[i]
  BY Joined
<1> DEFINE j == s \o t
<1> HIDE DEF j
<1>2. ASSUME NEW n \in Nat, n < Len(s)
      PROVE  At(j, n) = At(s, n)
  BY <1>1, <1>2 DEF At, j
<1>3. ASSUME NEW n \in Nat
      PROVE  At(j, Len(s) + n) = At(t, n)
  BY <1>1, <1>3 DEF At, j
<1> QED
  BY <1>1, <1>2, <1>3 DEF j

\* Contents of one octet and two parts of m and k octets
Parts(body, x, s, m, t, k) ==
    /\ x \in Octet /\ s \in Seq(Octet) /\ t \in Seq(Octet) /\ body = (<<x>> \o s) \o t
    /\ m \in Nat /\ Len(s) = m /\ k \in Nat /\ Len(t) = k
PartsRead(body, x, s, m, t, k) ==
    /\ body \in Seq(Octet) /\ Len(body) = 1 + m + k /\ At(body, 0) = x
    /\ \A n \in 0 .. m - 1 : At(body, 1 + n) = At(s, n)
    /\ \A n \in 0 .. k - 1 : At(body, 1 + m + n) = At(t, n)

LEMMA TypedParts ==
    ASSUME NEW x \in Octet, NEW s \in Seq(Octet), NEW t \in Seq(Octet)
    PROVE  LET body == (<<x>> \o s) \o t IN
           /\ body \in Seq(Octet) /\ Len(body) = 1 + Len(s) + Len(t) /\ At(body, 0) = x
           /\ \A n \in Nat : n < Len(s) => At(body, 1 + n) = At(s, n)
           /\ \A n \in Nat : At(body, (1 + Len(s)) + n) = At(t, n)
<1> DEFINE h == <<x>>
           j == h \o s
<1>1. h \in Seq(Octet) /\ Len(h) = 1 /\ At(h, 0) = x
  BY DEF At
<1> HIDE DEF h
<1>2. /\ j \in Seq(Octet) /\ Len(j) = 1 + Len(s) /\ At(j, 0) = x
      /\ \A n \in Nat : At(j, 1 + n) = At(s, n)
  <2>1. /\ j \in Seq(Octet) /\ Len(j) = Len(h) + Len(s)
        /\ \A n \in Nat : n < Len(h) => At(j, n) = At(h, n)
        /\ \A n \in Nat : At(j, Len(h) + n) = At(s, n)
    BY <1>1, AtJoined
  <2> HIDE DEF j
  <2> QED BY <1>1, <2>1
<1> HIDE DEF j
<1>3. /\ j \o t \in Seq(Octet) /\ Len(j \o t) = Len(j) + Len(t)
      /\ \A n \in Nat : n < Len(j) => At(j \o t, n) = At(j, n)
      /\ \A n \in Nat : At(j \o t, Len(j) + n) = At(t, n)
  BY <1>2, AtJoined
<1> DEFINE body == j \o t
<1> HIDE DEF body
<1>4. /\ body \in Seq(Octet) /\ Len(body) = 1 + Len(s) + Len(t)
      /\ \A n \in Nat : n < 1 + Len(s) => At(body, n) = At(j, n)
      /\ \A n \in Nat : At(body, (1 + Len(s)) + n) = At(t, n)
  BY <1>2, <1>3 DEF body
<1>5. At(body, 0) = x
  BY <1>2, <1>4
<1>6. ASSUME NEW n \in Nat, n < Len(s)
      PROVE  At(body, 1 + n) = At(s, n)
  BY SMTT(30), <1>2, <1>4, <1>6
<1> QED
  BY <1>4, <1>5, <1>6 DEF body, j, h

\* Reading the parts from the element
LEMMA PartsAt ==
    ASSUME NEW body, NEW x, NEW s, NEW m, NEW t, NEW k, Parts(body, x, s, m, t, k)
    PROVE  PartsRead(body, x, s, m, t, k)
<1>1. x \in Octet /\ s \in Seq(Octet) /\ t \in Seq(Octet)
  BY DEF Parts
<1> DEFINE b == (<<x>> \o s) \o t
<1>2. /\ b \in Seq(Octet) /\ Len(b) = 1 + Len(s) + Len(t) /\ At(b, 0) = x
      /\ \A n \in Nat : n < Len(s) => At(b, 1 + n) = At(s, n)
      /\ \A n \in Nat : At(b, (1 + Len(s)) + n) = At(t, n)
  BY ZenonT(40), <1>1, TypedParts
<1>3. body = b /\ m \in Nat /\ Len(s) = m /\ k \in Nat /\ Len(t) = k
  BY DEF Parts
<1> HIDE DEF b
<1>4. /\ body \in Seq(Octet) /\ Len(body) = 1 + m + k /\ At(body, 0) = x
      /\ \A n \in Nat : n < m => At(body, 1 + n) = At(s, n)
      /\ \A n \in Nat : At(body, (1 + m) + n) = At(t, n)
  BY Zenon, <1>2, <1>3
<1>5. ASSUME NEW n \in 0 .. m - 1
      PROVE  At(body, 1 + n) = At(s, n)
  BY <1>3, <1>4
<1>6. ASSUME NEW n \in 0 .. k - 1
      PROVE  At(body, 1 + m + n) = At(t, n)
  BY <1>3, <1>4
<1> QED
  BY <1>4, <1>5, <1>6 DEF PartsRead

LEMMA Three ==
    ASSUME NEW a \in Octet, NEW b \in Octet, NEW c \in Octet
    PROVE  LET s == <<a, b, c>> IN
           s \in Seq(Octet) /\ Len(s) = 3 /\ At(s, 0) = a /\ At(s, 1) = b /\ At(s, 2) = c
  BY DEF At

LEMMA Four ==
    ASSUME NEW a \in Octet, NEW b \in Octet, NEW c \in Octet, NEW d \in Octet
    PROVE  LET s == <<a, b, c, d>> IN
           /\ s \in Seq(Octet) /\ Len(s) = 4
           /\ At(s, 0) = a /\ At(s, 1) = b /\ At(s, 2) = c /\ At(s, 3) = d
  BY DEF At

LEMMA Empty == <<>> \in Seq(Octet) /\ Len(<<>>) = 0
  OBVIOUS
\* What the coding does not announce of date and time is read as zero.
LEMMA TimeDateCoded ==
    ASSUME NEW id, NEW e \in TimeDate
    PROVE  LET body == BuildTimeDate(e)
               p == ParseTimeDate(Wrap(id, body))
           IN  /\ Contents(body) /\ p \in TimeDate /\ Exact("TIME_DATE", p)
               /\ Exact("TIME_DATE", e) => p = e
<1> DEFINE body == BuildTimeDate(e)
           o == Wrap(id, body)
           p == ParseTimeDate(o)
           x == 64 * e.coding + e.interpretation
<1>1. e = [coding |-> e.coding, interpretation |-> e.interpretation, year |-> e.year,
           month |-> e.month, day |-> e.day, hour |-> e.hour, minute |-> e.minute,
           second |-> e.second, timezone |-> e.timezone]
  BY DEF TimeDate
<1>2. /\ e.coding \in 1 .. 3 /\ e.interpretation \in {0, 1}
      /\ e.year \in Octet /\ e.month \in Octet /\ e.day \in Octet /\ e.hour \in Octet
      /\ e.minute \in Octet /\ e.second \in Octet /\ e.timezone \in Octet
  BY DEF TimeDate
<1>3. x \in Octet /\ x \div 64 = e.coding /\ x % 64 = e.interpretation
  BY <1>2 DEF Octet
<1>4. /\ ~ HasDate(1) /\ HasTime(1) /\ HasDate(2) /\ ~ HasTime(2) /\ HasDate(3) /\ HasTime(3)
  BY DEF HasDate, HasTime, HasBit
<1> DEFINE date == <<e.year, e.month, e.day>>
           time == <<e.hour, e.minute, e.second, e.timezone>>
<1>5. body = <<x>> \o (IF HasDate(e.coding) THEN date ELSE <<>>)
                   \o (IF HasTime(e.coding) THEN time ELSE <<>>)
  BY DEF BuildTimeDate
<1> HIDE DEF body, x
<1>50. x \in Octet
  BY <1>3
<1>51. At(date, 0) = e.year /\ At(date, 1) = e.month /\ At(date, 2) = e.day
  BY <1>2, Three
<1>52. /\ At(time, 0) = e.hour /\ At(time, 1) = e.minute /\ At(time, 2) = e.second
       /\ At(time, 3) = e.timezone
  BY <1>2, Four
<1>53. date \in Seq(Octet) /\ time \in Seq(Octet)
  BY <1>2, Three, Four
<1>54. Len(date) = 3 /\ Len(time) = 4
  BY <1>2, Three, Four
<1> HIDE DEF date, time
<1>6. CASE e.coding = 1
  <2>1. Parts(body, x, <<>>, 0, time, 4)
    BY <1>4, <1>5, <1>50, <1>53, <1>54, Empty, <1>6 DEF Parts
  <2>10. PartsRead(body, x, <<>>, 0, time, 4)
    BY <2>1, PartsAt
  <2>2. body \in Seq(Octet) /\ Len(body) \in {5}
    BY <2>10 DEF PartsRead
  <2>11. /\ At(body, 1 + 0) = At(time, 0)
         /\ At(body, 1 + 1) = At(time, 1)
         /\ At(body, 1 + 2) = At(time, 2)
         /\ At(body, 1 + 3) = At(time, 3)
    BY <2>10 DEF PartsRead
  <2>3. /\ At(body, 0) = x
        /\ At(body, 1) = e.hour
        /\ At(body, 2) = e.minute
        /\ At(body, 3) = e.second
        /\ At(body, 4) = e.timezone
    BY <1>51, <1>52, <2>10, <2>11 DEF PartsRead
  <2>4. /\ At(o, 2) = x /\ At(o, 3) = e.hour /\ At(o, 4) = e.minute
        /\ At(o, 5) = e.second /\ At(o, 6) = e.timezone
    BY <2>2, <2>3, WrappedAt
  <2> HIDE DEF o
  <2>5. p = [coding |-> e.coding, interpretation |-> e.interpretation, year |-> 0,
             month |-> 0, day |-> 0, hour |-> e.hour, minute |-> e.minute,
             second |-> e.second, timezone |-> e.timezone]
    BY <1>3, <1>4, <1>6, <2>4 DEF ParseTimeDate, Flag
  <2> HIDE DEF p
  <2>6. p \in TimeDate
    BY <1>2, <2>5 DEF TimeDate, Octet
  <2>7. Exact("TIME_DATE", p) /\ (Exact("TIME_DATE", e) => p = e)
    BY <1>1, <1>4, <1>6, <2>5 DEF Exact
  <2>8. Contents(body)
    BY <2>2 DEF Contents
  <2> QED BY <2>6, <2>7, <2>8 DEF body, o, p
<1>7. CASE e.coding = 2
  <2>1. Parts(body, x, date, 3, <<>>, 0)
    BY <1>4, <1>5, <1>50, <1>53, <1>54, Empty, <1>7 DEF Parts
  <2>10. PartsRead(body, x, date, 3, <<>>, 0)
    BY <2>1, PartsAt
  <2>2. body \in Seq(Octet) /\ Len(body) \in {4}
    BY <2>10 DEF PartsRead
  <2>11. /\ At(body, 1 + 0) = At(date, 0)
         /\ At(body, 1 + 1) = At(date, 1)
         /\ At(body, 1 + 2) = At(date, 2)
    BY <2>10 DEF PartsRead
  <2>3. /\ At(body, 0) = x
        /\ At(body, 1) = e.year
        /\ At(body, 2) = e.month
        /\ At(body, 3) = e.day
    BY <1>51, <1>52, <2>10, <2>11 DEF PartsRead
  <2>4. /\ At(o, 2) = x /\ At(o, 3) = e.year /\ At(o, 4) = e.month /\ At(o, 5) = e.day
    BY <2>2, <2>3, WrappedAt
  <2> HIDE DEF o
  <2>5. p = [coding |-> e.coding, interpretation |-> e.interpretation, year |-> e.year,
             month |-> e.month, day |-> e.day, hour |-> 0, minute |-> 0,
             second |-> 0, timezone |-> 0]
    BY <1>3, <1>4, <1>7, <2>4 DEF ParseTimeDate
  <2> HIDE DEF p
  <2>6. p \in TimeDate
    BY <1>2, <2>5 DEF TimeDate, Octet
  <2>7. Exact("TIME_DATE", p) /\ (Exact("TIME_DATE", e) => p = e)
    BY <1>1, <1>4, <1>7, <2>5 DEF Exact
  <2>8. Contents(body)
    BY <2>2 DEF Contents
  <2> QED BY <2>6, <2>7, <2>8 DEF body, o, p
<1>8. CASE e.coding = 3
  <2>1. Parts(body, x, date, 3, time, 4)
    BY <1>4, <1>5, <1>50, <1>53, <1>54, Empty, <1>8 DEF Parts
  <2>10. PartsRead(body, x, date, 3, time, 4)
    BY <2>1, PartsAt
  <2>2. body \in Seq(Octet) /\ Len(body) \in {8}
    BY <2>10 DEF PartsRead
  <2>11. /\ At(body, 1 + 0) = At(date, 0)
         /\ At(body, 1 + 1) = At(date, 1)
         /\ At(body, 1 + 2) = At(date, 2)
         /\ At(body, 4 + 0) = At(time, 0)
         /\ At(body, 4 + 1) = At(time, 1)
         /\ At(body, 4 + 2) = At(time, 2)
         /\ At(body, 4 + 3) = At(time, 3)
    BY <2>10 DEF PartsRead
  <2>3. /\ At(body, 0) = x
        /\ At(body, 1) = e.year
        /\ At(body, 2) = e.month
        /\ At(body, 3) = e.day
        /\ At(body, 4) = e.hour
        /\ At(body, 5) = e.minute
        /\ At(body, 6) = e.second
        /\ At(body, 7) = e.timezone
    BY <1>51, <1>52, <2>10, <2>11 DEF PartsRead
  <2>4. /\ At(o, 2) = x /\ At(o, 3) = e.year /\ At(o, 4) = e.month /\ At(o, 5) = e.day
        /\ At(o, 6) = e.hour /\ At(o, 7) = e.minute /\ At(o, 8) = e.second
        /\ At(o, 9) = e.timezone
    BY <2>2, <2>3, WrappedAt, WrappedMore
  <2> HIDE DEF o
  <2>5. p = e
    <3>1. /\ 3 + Flag(HasDate(3), 3) = 6 /\ 4 + Flag(HasDate(3), 3) = 7
          /\ 5 + Flag(HasDate(3), 3) = 8 /\ 6 + Flag(HasDate(3), 3) = 9
      BY <1>4 DEF Flag
    <3>2. p = [coding |-> e.coding, interpretation |-> e.interpretation, year |-> e.year,
           month |-> e.month, day |-> e.day, hour |-> e.hour, minute |-> e.minute,
           second |-> e.second, timezone |-> e.timezone]
      BY <1>3, <1>4, <1>8, <2>4, <3>1 DEF ParseTimeDate
    <3> HIDE DEF p
    <3> QED BY <1>1, <3>2
  <2>7. Exact("TIME_DATE", e)
    BY <1>4, <1>8 DEF Exact
  <2>8. Contents(body)
    BY <2>2 DEF Contents
  <2> QED BY <2>5, <2>7, <2>8 DEF body, o, p
<1>9. e.coding = 1 \/ e.coding = 2 \/ e.coding = 3
  BY <1>2
<1> QED
  BY <1>6, <1>7, <1>8, <1>9

-----------------------------------------------------------------------------
(* The type of an authentication *)

LEMMA NothingJoined ==
    ASSUME NEW s \in Seq(Octet)
    PROVE  s \o <<>> = s
  OBVIOUS

LEMMA One ==
    ASSUME NEW a \in Octet
    PROVE  LET s == <<a>> IN
           s \in Seq(Octet) /\ Len(s) = 1 /\ At(s, 0) = a
  BY DEF At

LEMMA Two ==
    ASSUME NEW a \in Octet, NEW b \in Octet
    PROVE  LET s == <<a, b>> IN
           s \in Seq(Octet) /\ Len(s) = 2 /\ At(s, 0) = a /\ At(s, 1) = b
  BY DEF At

\* The values of a type that was parsed: the octet of a proprietary algorithm is
\* taken for the key.
AnyAuthType ==
    [auth_id : AuthId, proprietary_auth_id : Octet, auth_key_type : Nibble,
     auth_key_num : Nibble, flags : AuthFlags, cipher_key_num : Nibble, defck_index : Word]

\* Two nibbles are an octet.
LEMMA NibblesOK ==
    ASSUME NEW a \in Nibble, NEW b \in Nibble, NEW n, n = 16 * a + b
    PROVE  n \in Octet /\ n \div 16 = a /\ Low(n) = b
  BY DEF Nibble, Octet, Low

LEMMA FlagsOK ==
    ASSUME NEW f \in AuthFlags, NEW b \in Nibble, NEW n, n = f + b
    PROVE  n \in Octet /\ 16 * (n \div 16) = f /\ Low(n) = b
<1>1. PICK a \in Nibble : f = 16 * a
  BY DEF AuthFlags
<1>2. n = 16 * a + b
  BY <1>1
<1> QED
  BY <1>1, <1>2, NibblesOK

LEMMA OctetFlags ==
    ASSUME NEW n \in Octet
    PROVE  16 * (n \div 16) \in AuthFlags /\ n \div 16 \in Nibble /\ Low(n) \in Nibble
<1>1. n \div 16 \in Nibble /\ Low(n) \in Nibble
  BY DEF Octet, Nibble, Low
<1> QED
  BY <1>1 DEF AuthFlags

\* The octet of a proprietary algorithm is taken for the numbers of key and code.
LEMMA AuthTypeCoded ==
    ASSUME NEW id, NEW e \in AnyAuthType
    PROVE  LET body == BuildAuthType(e)
               p == ParseAuthType(Wrap(id, body))
           IN  /\ Contents(body) /\ p \in AnyAuthType
               /\ e.auth_id # AuthProprietary => Exact("AUTH_TYPE", p)
               /\ e.auth_id = AuthProprietary => p.auth_id = AuthProprietary /\ p.auth_key_type = 0
               /\ Exact("AUTH_TYPE", e) => p = e
<1> DEFINE body == BuildAuthType(e)
           o == Wrap(id, body)
           p == ParseAuthType(o)
           key == 16 * e.auth_key_type + e.auth_key_num
           second == e.flags + e.cipher_key_num
           high == e.defck_index \div 256
           low == e.defck_index % 256
           keys == <<key, second>>
           index == IF IsDef(e.flags) THEN <<high, low>> ELSE <<>>
           k == IF IsDef(e.flags) THEN 2 ELSE 0
<1>1. e = [auth_id |-> e.auth_id, proprietary_auth_id |-> e.proprietary_auth_id,
           auth_key_type |-> e.auth_key_type, auth_key_num |-> e.auth_key_num,
           flags |-> e.flags, cipher_key_num |-> e.cipher_key_num, defck_index |-> e.defck_index]
  BY DEF AnyAuthType
<1>2. /\ e.auth_id \in AuthId /\ e.proprietary_auth_id \in Octet /\ e.auth_key_type \in Nibble
      /\ e.auth_key_num \in Nibble /\ e.flags \in AuthFlags /\ e.cipher_key_num \in Nibble
      /\ e.defck_index \in Word
  BY DEF AnyAuthType
<1>3. key \in Octet /\ key \div 16 = e.auth_key_type /\ Low(key) = e.auth_key_num
  BY <1>2, NibblesOK
<1>4. second \in Octet /\ 16 * (second \div 16) = e.flags /\ Low(second) = e.cipher_key_num
  BY <1>2, FlagsOK
<1>5. high \in Octet /\ low \in Octet /\ 256 * high + low = e.defck_index
  BY <1>2, WordOctets
<1>6. e.auth_id \in Octet /\ 0 \in Octet
  BY <1>2 DEF AuthId, AuthProprietary, Octet
<1>7. body = ((<<e.auth_id>> \o (IF e.auth_id = AuthProprietary THEN <<0>> ELSE <<>>)) \o keys) \o index
  BY DEF BuildAuthType
<1> HIDE DEF body, key, second, high, low
<1>8. keys \in Seq(Octet) /\ Len(keys) = 2 /\ At(keys, 0) = key /\ At(keys, 1) = second
  BY <1>3, <1>4, Two
<1>9. /\ index \in Seq(Octet) /\ Len(index) = k /\ k \in {0, 2}
      /\ IsDef(e.flags) => k = 2 /\ At(index, 0) = high /\ At(index, 1) = low
  BY <1>5, Two, Empty
<1> HIDE DEF keys, index, k
<1>10. CASE e.auth_id # AuthProprietary
  <2>1. <<e.auth_id>> \o <<>> = <<e.auth_id>>
    BY <1>6, One, NothingJoined
  <2>2. body = (<<e.auth_id>> \o keys) \o index
    BY <1>7, <1>10, <2>1
  <2>3. Parts(body, e.auth_id, keys, 2, index, k)
    BY <1>6, <1>8, <1>9, <2>2 DEF Parts
  <2>4. PartsRead(body, e.auth_id, keys, 2, index, k)
    BY <2>3, PartsAt
  <2>5. At(body, 1 + 0) = At(keys, 0) /\ At(body, 1 + 1) = At(keys, 1)
    BY <2>4 DEF PartsRead
  <2>6. k = 2 => At(body, 1 + 2 + 0) = At(index, 0) /\ At(body, 1 + 2 + 1) = At(index, 1)
    BY <2>4 DEF PartsRead
  <2>7. body \in Seq(Octet) /\ Len(body) = 1 + 2 + k /\ At(body, 0) = e.auth_id
    BY <2>4 DEF PartsRead
  <2>8. Contents(body)
    BY <1>9, <2>7 DEF Contents
  <2>9. /\ At(o, 2) = e.auth_id /\ At(o, 3) = key /\ At(o, 4) = second
        /\ IsDef(e.flags) => At(o, 5) = high /\ At(o, 6) = low
    BY <1>8, <1>9, <2>5, <2>6, <2>7, WrappedAt
  <2> HIDE DEF o
  <2>10. p = [auth_id |-> e.auth_id, proprietary_auth_id |-> 0,
              auth_key_type |-> e.auth_key_type, auth_key_num |-> e.auth_key_num,
              flags |-> e.flags, cipher_key_num |-> e.cipher_key_num,
              defck_index |-> IF IsDef(e.flags) THEN e.defck_index ELSE 0]
    BY <1>3, <1>4, <1>5, <1>10, <2>9 DEF ParseAuthType
  <2> HIDE DEF p
  <2>11. 0 \in Word
    BY IsWord
  <2>12. p \in AnyAuthType
    BY <1>2, <1>6, <2>10, <2>11 DEF AnyAuthType
  <2>13. Exact("AUTH_TYPE", p) /\ (Exact("AUTH_TYPE", e) => p = e)
    BY <1>1, <1>10, <2>10 DEF Exact
  <2> QED BY <1>10, <2>8, <2>12, <2>13 DEF body, o, p
<1>11. CASE e.auth_id = AuthProprietary
  <2> DEFINE zero == <<0>>
             j == (<<e.auth_id>> \o zero) \o keys
  <2>1. body = j \o index
    BY <1>7, <1>11
  <2>2. zero \in Seq(Octet) /\ Len(zero) = 1 /\ At(zero, 0) = 0
    BY <1>6, One
  <2> HIDE DEF zero
  <2>3. Parts(j, e.auth_id, zero, 1, keys, 2)
    BY <1>6, <1>8, <2>2 DEF Parts
  <2> HIDE DEF j
  <2>4. PartsRead(j, e.auth_id, zero, 1, keys, 2)
    BY <2>3, PartsAt
  <2>5. /\ j \in Seq(Octet) /\ Len(j) = 1 + 1 + 2 /\ At(j, 0) = e.auth_id
        /\ At(j, 1 + 0) = At(zero, 0) /\ At(j, 1 + 1 + 0) = At(keys, 0)
    BY <2>4 DEF PartsRead
  <2>6. /\ j \o index \in Seq(Octet) /\ Len(j \o index) = Len(j) + Len(index)
        /\ \A n \in Nat : n < Len(j) => At(j \o index, n) = At(j, n)
    BY <1>9, <2>5, AtJoined
  <2>7. /\ body \in Seq(Octet) /\ Len(body) = Len(j) + Len(index)
        /\ \A n \in Nat : n < Len(j) => At(body, n) = At(j, n)
    BY <2>1, <2>6
  <2>8. Contents(body)
    BY <1>9, <2>5, <2>7 DEF Contents
  <2>9. At(body, 0) = e.auth_id /\ At(body, 1) = 0 /\ At(body, 2) = key
    BY <1>8, <2>2, <2>5, <2>7
  <2>10. /\ At(o, 2) = e.auth_id /\ At(o, 3) = 0 /\ At(o, 4) = key
         /\ At(o, 5) \in Octet /\ At(o, 6) \in Octet
    <3>1. At(body, 3) \in Octet /\ At(body, 4) \in Octet
      BY <2>7, AtOctet
    <3> QED BY <2>7, <2>9, <3>1, WrappedAt
  <2> DEFINE flags == 16 * (key \div 16)
             def == IF IsDef(flags) THEN 256 * At(o, 5) + At(o, 6) ELSE 0
  <2>11. flags \in AuthFlags /\ Low(key) \in Nibble
    BY <1>3, OctetFlags
  <2>12. 0 \in Word
    BY IsWord
  <2>13. def \in Word
    BY <2>10, <2>12, OctetsWord
  <2> HIDE DEF o
  <2>14. p = [auth_id |-> e.auth_id, proprietary_auth_id |-> 0,
              auth_key_type |-> 0, auth_key_num |-> 1,
              flags |-> flags, cipher_key_num |-> Low(key), defck_index |-> def]
    <3>1. (0 + 1) % 256 = 1 /\ 1 \div 16 = 0 /\ Low(1) = 1
      BY DEF Low
    <3> QED BY <1>11, <2>10, <3>1 DEF ParseAuthType
  <2> HIDE DEF p, flags, def
  <2>15. 0 \in Nibble /\ 1 \in Nibble
    BY DEF Nibble
  <2>16. p \in AnyAuthType
    BY <1>2, <1>6, <2>11, <2>13, <2>14, <2>15 DEF AnyAuthType
  <2>17. p.auth_id = AuthProprietary /\ p.auth_key_type = 0 /\ ~ Exact("AUTH_TYPE", e)
    BY <1>11, <2>14 DEF Exact
  <2> QED BY <1>11, <2>8, <2>16, <2>17 DEF body, o, p
<1> QED
  BY <1>10, <1>11

-----------------------------------------------------------------------------
(* Lists of octets and of triples *)

\* A list of at most n parts is a sequence.
LEMMA Listed ==
    ASSUME NEW S, NEW n \in Nat, NEW s \in AtMost(n, S)
    PROVE  s \in Seq(S) /\ Len(s) \in 0 .. n /\ (s # <<>> => Len(s) \in 1 .. n)
  BY EmptySeq DEF AtMost

\* A value of seven bits is read with or without bit 8.
LEMMA SevenBits ==
    ASSUME NEW v \in 0 .. 127
    PROVE  /\ v \in Nat /\ v < 128 /\ v \in Octet /\ ~ Ends(v) /\ Value(v) = v
           /\ Ended(v) \in Octet /\ Ends(Ended(v)) /\ Value(Ended(v)) = v
  BY DEF Ended, Ends, Value, Octet, GroupEnd

\* A list of types arrives as it was built.
LEMMA InfoTypeCoded ==
    ASSUME NEW id, NEW e \in InfoType, e.type # <<>>
    PROVE  LET body == BuildInfoType(e) IN
           Contents(body) /\ ParseInfoType(Wrap(id, body)) = e
<1> DEFINE body == BuildInfoType(e)
           o == Wrap(id, body)
           p == ParseInfoType(o)
           n == Len(e.type)
<1>1. e = [type |-> e.type]
  BY DEF InfoType
<1>2. e.type \in Seq(InfoParameter) /\ n \in 1 .. 8
  <2>1. e.type \in AtMost(8, InfoParameter)
    BY DEF InfoType
  <2> QED BY <2>1, Listed
<1>21. ASSUME NEW i \in 1 .. n
       PROVE  e.type[i] \in 0 .. 127
  <2>1. InfoParameter \subseteq 0 .. 127
    BY DEF InfoParameter
  <2>2. e.type[i] \in InfoParameter
    BY <1>2
  <2> QED BY <2>1, <2>2
<1>3. body = [i \in 1 .. n |-> IF i = n THEN Ended(e.type[i]) ELSE e.type[i]]
  BY <1>2 DEF BuildInfoType, Finish
<1>22. Len(e.type) = n /\ e.type = [i \in 1 .. n |-> e.type[i]]
  BY <1>2
<1> HIDE DEF body, n
<1>4. ASSUME NEW i \in 1 .. n
      PROVE  /\ body[i] \in Octet /\ Value(body[i]) = e.type[i] /\ (Ends(body[i]) <=> i = n)
  <2>1. e.type[i] \in 0 .. 127
    BY <1>21
  <2>2. body[i] = IF i = n THEN Ended(e.type[i]) ELSE e.type[i]
    BY <1>3
  <2> DEFINE v == e.type[i]
  <2>3. /\ v \in Octet /\ ~ Ends(v) /\ Value(v) = v
        /\ Ended(v) \in Octet /\ Ends(Ended(v)) /\ Value(Ended(v)) = v
    BY <2>1, SevenBits
  <2> HIDE DEF v
  <2>4. body[i] = IF i = n THEN Ended(v) ELSE v
    BY <2>2 DEF v
  <2> QED BY <2>3, <2>4 DEF v
<1>5. body \in Seq(Octet) /\ Len(body) = n
  BY <1>2, <1>3, <1>4
<1>6. Rest(o, 2) = body
  <2>1. 0 \in 0 .. Len(body)
    BY <1>2, <1>5
  <2>2. Rest(o, 0 + 2) = Rest(body, 0)
    BY <1>5, <2>1, Wrapped
  <2> QED BY <1>5, <2>2, WholeRest
<1> HIDE DEF o
<1>7. SelectInSeq(body, Ends) = n
  <2> DEFINE I == {i \in 1 .. Len(body) : Ends(body[i])}
  <2>1. I = {n}
    BY <1>2, <1>4, <1>5
  <2>2. SelectInSeq(body, Ends) = IF I # {} THEN Min(I) ELSE 0
    BY DEF SelectInSeq
  <2> HIDE DEF I
  <2>3. Min({n}) = n
    BY <1>2 DEF Min
  <2> QED BY <2>1, <2>2, <2>3
<1>8. p = [type |-> [i \in 1 .. n |-> Value(body[i])]]
  <2>1. n # 0 /\ (IF n < 8 THEN n ELSE 8) = n
    BY <1>2
  <2> QED BY <1>6, <1>7, <2>1 DEF ParseInfoType
<1>9. [i \in 1 .. n |-> Value(body[i])] = e.type
  BY <1>4, <1>22
<1>10. Contents(body)
  <2>1. Len(body) \in 1 .. 255
    BY <1>2, <1>5
  <2> QED BY <1>5, <2>1 DEF Contents
<1> HIDE DEF p
<1> QED
  BY <1>1, <1>8, <1>9, <1>10 DEF body, o, p

\* The places of a list of n parts with three octets each
LEMMA Threes ==
    ASSUME NEW n \in Nat, NEW i \in 1 .. 3 * n
    PROVE  (i + 2) \div 3 \in 1 .. n /\ ((i - 1) % 3) + 1 \in 1 .. 3
  OBVIOUS

Triples(n, F, f) ==
    /\ n \in Nat
    /\ F = [i \in 1 .. 3 * n |-> f[(i + 2) \div 3][((i - 1) % 3) + 1]]
    /\ \A k \in 1 .. n : \A j \in 1 .. 3 : f[k][j] \in Octet

\* The octets of n triples, one after the other
LEMMA InThreesOK ==
    ASSUME NEW n, NEW F, NEW f, Triples(n, F, f)
    PROVE  /\ F \in Seq(Octet) /\ Len(F) = 3 * n
           /\ \A k \in 1 .. n : F[3 * k - 2] = f[k][1] /\ F[3 * k - 1] = f[k][2] /\ F[3 * k] = f[k][3]
<1>0. /\ n \in Nat
      /\ F = [i \in 1 .. 3 * n |-> f[(i + 2) \div 3][((i - 1) % 3) + 1]]
      /\ \A k \in 1 .. n : \A j \in 1 .. 3 : f[k][j] \in Octet
  BY DEF Triples
<1>1. ASSUME NEW i \in 1 .. 3 * n
      PROVE  F[i] \in Octet
  <2> DEFINE k == (i + 2) \div 3
             j == ((i - 1) % 3) + 1
  <2>1. k \in 1 .. n /\ j \in 1 .. 3
    BY <1>0, Threes
  <2>2. F[i] = f[k][j]
    BY <1>0
  <2> HIDE DEF k, j
  <2> QED BY <1>0, <2>1, <2>2
<1>2. F \in Seq(Octet) /\ Len(F) = 3 * n
  BY <1>0, <1>1
<1>3. ASSUME NEW k \in 1 .. n
      PROVE  F[3 * k - 2] = f[k][1] /\ F[3 * k - 1] = f[k][2] /\ F[3 * k] = f[k][3]
  <2>1. 3 * k - 2 \in 1 .. 3 * n /\ 3 * k - 1 \in 1 .. 3 * n /\ 3 * k \in 1 .. 3 * n
    BY <1>0
  <2>2. /\ (3 * k - 2 + 2) \div 3 = k /\ ((3 * k - 2 - 1) % 3) + 1 = 1
        /\ (3 * k - 1 + 2) \div 3 = k /\ ((3 * k - 1 - 1) % 3) + 1 = 2
        /\ (3 * k + 2) \div 3 = k /\ ((3 * k - 1) % 3) + 1 = 3
    BY <1>0
  <2> QED BY <1>0, <2>1, <2>2
<1> QED
  BY <1>2, <1>3

\* A list of events fits into an element; no parser reads it.
LEMMA EventsNotificationBuilt ==
    ASSUME NEW e \in EventsNotification, e.events # <<>>
    PROVE  Contents(BuildEventsNotification(e))
<1> DEFINE body == BuildEventsNotification(e)
           n == Len(e.events)
           f == [k \in 1 .. n |-> <<e.events[k].type, Ended(e.events[k].subtype),
                                    Ended(e.events[k].multiplicity)>>]
<1>1. e.events \in Seq(Event) /\ n \in 1 .. 8
  <2>1. e.events \in AtMost(8, Event)
    BY DEF EventsNotification
  <2> QED BY <2>1, Listed
<1>2. ASSUME NEW k \in 1 .. n
      PROVE  \A j \in 1 .. 3 : f[k][j] \in Octet
  <2> DEFINE v == e.events[k]
  <2>1. v \in Event
    BY <1>1
  <2> HIDE DEF v
  <2>2. v.type \in 0 .. 3 /\ v.subtype \in Nat /\ v.multiplicity \in Nat
    <3>1. v.type \in 0 .. 3 /\ v.subtype \in 0 .. 3 /\ v.multiplicity \in 0 .. 127
      BY <2>1 DEF Event
    <3>2. 0 .. 3 \subseteq Nat /\ 0 .. 127 \subseteq Nat
      OBVIOUS
    <3> QED BY Zenon, <3>1, <3>2
  <2>3. v.type \in Octet
    BY <2>2 DEF Octet
  <2>4. Ended(v.subtype) \in Octet /\ Ended(v.multiplicity) \in Octet
    BY <2>2, EndedOctet
  <2>5. f[k] = <<v.type, Ended(v.subtype), Ended(v.multiplicity)>>
    BY DEF v
  <2> HIDE DEF f
  <2> QED BY <2>3, <2>4, <2>5
<1>3. body = [i \in 1 .. 3 * n |-> f[(i + 2) \div 3][((i - 1) % 3) + 1]]
  <2>1. \A i \in 1 .. 3 * n : (i + 2) \div 3 \in 1 .. n
    BY <1>1, Threes
  <2> QED BY <2>1 DEF BuildEventsNotification, InThrees
<1>4. n \in Nat
  BY <1>1
<1> HIDE DEF body, f, n
<1>41. Triples(n, body, f)
  BY <1>2, <1>3, <1>4 DEF Triples
<1>5. body \in Seq(Octet) /\ Len(body) = 3 * n
  BY <1>41, InThreesOK
<1>6. Len(body) \in 1 .. 255
  <2> DEFINE m == 3 * n
  <2>1. m \in 1 .. 255
    BY <1>1
  <2> HIDE DEF m
  <2> QED BY <1>5, <2>1 DEF m
<1> QED
  BY <1>5, <1>6 DEF Contents, body

-----------------------------------------------------------------------------
(* Lists of codecs *)

\* The bits of the sixteen nibbles
LEMMA BitsOfNibble ==
    ASSUME NEW a \in Nibble
    PROVE  /\ HasBit(a, 8) <=> a \in {8, 9, 10, 11, 12, 13, 14, 15}
           /\ HasBit(a, 4) <=> a \in {4, 5, 6, 7, 12, 13, 14, 15}
           /\ HasBit(a, 2) <=> a \in {2, 3, 6, 7, 10, 11, 14, 15}
           /\ HasBit(a, 1) <=> a \in {1, 3, 5, 7, 9, 11, 13, 15}
  BY DEF Nibble, HasBit

\* The bits of two nibbles are a nibble.
LEMMA EitherOK ==
    ASSUME NEW a \in Nibble, NEW b \in Nibble
    PROVE  Either(a, b) \in Nibble /\ Either(0, b) = b
<1>1. Either(a, b) \in Nibble
  BY DEF Either, Flag, Nibble
<1>2. ~ HasBit(0, 8) /\ ~ HasBit(0, 4) /\ ~ HasBit(0, 2) /\ ~ HasBit(0, 1)
  BY DEF HasBit
<1>4. Either(0, b) = b
  BY <1>2, BitsOfNibble DEF Either, Flag, Nibble
<1> QED
  BY <1>1, <1>4

\* The values of a codec list that was parsed: the slot has the bits of both fields.
AnyCodec == [codec : 1 .. 9, service : 0 .. 5, slot : Nibble, cplane : {0, 1, 2, 4}]
AnyCodecList == [negotiation : {0, 1}, entry : AtMost(8, AnyCodec)]

\* A codec as it was parsed
LEMMA AnyCodecOK ==
    ASSUME NEW c \in AnyCodec
    PROVE  /\ c = [codec |-> c.codec, service |-> c.service, slot |-> c.slot, cplane |-> c.cplane]
           /\ c.codec \in 1 .. 9 /\ c.service \in 0 .. 5 /\ c.slot \in Nibble
           /\ c.cplane \in {0, 1, 2, 4} /\ c.cplane \in Nibble
           /\ c.codec \in Octet /\ c.service \in Octet /\ Either(c.cplane, c.slot) \in Octet
           /\ Low(c.service) = c.service
<1>1. c = [codec |-> c.codec, service |-> c.service, slot |-> c.slot, cplane |-> c.cplane]
  BY DEF AnyCodec
<1>2. /\ c.codec \in 1 .. 9 /\ c.service \in 0 .. 5 /\ c.slot \in Nibble
      /\ c.cplane \in {0, 1, 2, 4}
  BY DEF AnyCodec
<1>3. c.cplane \in Nibble
  BY <1>2 DEF Nibble
<1>4. Either(c.cplane, c.slot) \in Nibble
  BY <1>2, <1>3, EitherOK
<1>5. Either(c.cplane, c.slot) \in Octet
  <2>1. Nibble \subseteq Octet
    BY DEF Nibble, Octet
  <2> QED BY <1>4, <2>1
<1>6. c.codec \in Octet /\ c.service \in Octet /\ Low(c.service) = c.service
  BY <1>2 DEF Octet, Low
<1> QED
  BY <1>1, <1>2, <1>3, <1>5, <1>6

\* The last octet of three is read as it was written whether it ends the list or not.
LEMMA PlaneOK ==
    ASSUME NEW b \in Nibble, NEW x \in {b, Ended(b)}
    PROVE  High(x) = 0 /\ Low(x) = b /\ x \in Octet
<1>1. b \in Nat /\ b < 16
  BY DEF Nibble
<1>2. High(b) = 0 /\ Low(b) = b /\ b \in Octet
  BY <1>1 DEF High, Low, Octet
<1>3. Ended(b) = 128 + b
  BY <1>1 DEF Ended, GroupEnd
<1>4. High(Ended(b)) = 0 /\ Low(Ended(b)) = b /\ Ended(b) \in Octet
  BY <1>1, <1>3 DEF High, Low, Octet
<1> QED
  BY <1>2, <1>4

\* A list of codecs arrives with the bits of the slot and the C-plane mixed,
\* and then as it is.
LEMMA CodecListCoded ==
    ASSUME NEW id, NEW e \in AnyCodecList
    PROVE  LET body == BuildCodecList(e)
               p == ParseCodecList(Wrap(id, body))
           IN  /\ Contents(body) /\ p \in AnyCodecList /\ Exact("CODEC_LIST", p)
               /\ Exact("CODEC_LIST", e) => p = e
<1> DEFINE body == BuildCodecList(e)
           o == Wrap(id, body)
           p == ParseCodecList(o)
           n == Len(e.entry)
           x == Ended(16 * e.negotiation)
           f == [k \in 1 .. n |-> <<e.entry[k].codec, e.entry[k].service,
                                    Either(e.entry[k].cplane, e.entry[k].slot)>>]
           list == [i \in 1 .. 3 * n |-> f[(i + 2) \div 3][((i - 1) % 3) + 1]]
           all == <<x>> \o list
<1>1. /\ e = [negotiation |-> e.negotiation, entry |-> e.entry] /\ e.negotiation \in {0, 1}
      /\ e.entry \in AtMost(8, AnyCodec)
  BY DEF AnyCodecList
<1>2. e.entry \in Seq(AnyCodec) /\ n \in 0 .. 8 /\ Len(e.entry) = n
  BY <1>1, Listed
<1>3. ASSUME NEW k \in 1 .. n
      PROVE  e.entry[k] \in AnyCodec
  BY <1>2
<1>4. ASSUME NEW k \in 1 .. n
      PROVE  /\ f[k][1] = e.entry[k].codec /\ f[k][2] = e.entry[k].service
             /\ f[k][3] = Either(e.entry[k].cplane, e.entry[k].slot)
  OBVIOUS
<1>5. body = Finish(all)
  <2>1. \A i \in 1 .. 3 * n : (i + 2) \div 3 \in 1 .. n
    BY <1>2, Threes
  <2>2. InThrees(e.entry, LAMBDA c : <<c.codec, c.service, Either(c.cplane, c.slot)>>) = list
    BY <2>1 DEF InThrees
  <2> QED BY <2>2 DEF BuildCodecList
<1> HIDE DEF body
<1>6. list = [i \in 1 .. 3 * n |-> f[(i + 2) \div 3][((i - 1) % 3) + 1]]
  OBVIOUS
<1>7. n \in Nat
  BY <1>2
<1>8. ASSUME NEW k \in 1 .. n
      PROVE  \A j \in 1 .. 3 : f[k][j] \in Octet
  <2>1. f[k][1] \in Octet /\ f[k][2] \in Octet /\ f[k][3] \in Octet
    BY <1>3, <1>4, AnyCodecOK
  <2> HIDE DEF f
  <2> QED BY <2>1
<1> HIDE DEF f, list, n
<1>9. /\ list \in Seq(Octet) /\ Len(list) = 3 * n
      /\ \A k \in 1 .. n : list[3 * k - 2] = f[k][1] /\ list[3 * k - 1] = f[k][2] /\ list[3 * k] = f[k][3]
  <2>1. Triples(n, list, f)
    BY <1>6, <1>7, <1>8 DEF Triples
  <2> QED BY <2>1, InThreesOK
<1>91. list \in Seq(Octet)
  BY <1>9
<1>10. x \in Octet /\ High(x) = e.negotiation /\ High(Ended(x)) = e.negotiation
  BY <1>1 DEF Ended, High, Octet, GroupEnd
<1> HIDE DEF x
<1>11. /\ all \in Seq(Octet) /\ Len(all) = 3 * n + 1 /\ all[1] = x
       /\ \A i \in 1 .. 3 * n : all[1 + i] = list[i]
  <2> DEFINE h == <<x>>
  <2>1. h \in Seq(Octet) /\ Len(h) = 1 /\ h[1] = x
    BY <1>10
  <2> HIDE DEF h
  <2>2. /\ h \o list \in Seq(Octet) /\ Len(h \o list) = Len(h) + Len(list)
        /\ \A i \in 1 .. Len(h) : (h \o list)[i] = h[i]
        /\ \A i \in 1 .. Len(list) : (h \o list)[Len(h) + i] = list[i]
    <3>1. h \in Seq(Octet)
      BY <2>1
    <3> QED BY <1>91, <3>1, Joined
  <2>3. all = h \o list
    BY DEF h
  <2> HIDE DEF all
  <2>4. Len(all) = 3 * n + 1
    BY <1>7, <1>9, <2>1, <2>2, <2>3
  <2>5. all[1] = x
    BY <2>1, <2>2, <2>3
  <2>6. \A i \in 1 .. 3 * n : all[1 + i] = list[i]
    BY <1>9, <2>1, <2>2, <2>3
  <2> QED BY <2>2, <2>3, <2>4, <2>5, <2>6
<1> HIDE DEF all
<1> DEFINE last == 3 * n + 1
<1>12. last \in Nat \ {0} /\ last \in 1 .. 25
  <2>1. \A m \in 0 .. 8 : 3 * m + 1 \in Nat \ {0} /\ 3 * m + 1 \in 1 .. 25
    OBVIOUS
  <2> QED BY <1>2, <2>1
<1>13. body = [i \in 1 .. last |-> IF i = last THEN Ended(all[i]) ELSE all[i]]
  BY <1>5, <1>11 DEF Finish
<1>14. Len(all) = last
  BY <1>11
<1>15. last = 3 * n + 1
  OBVIOUS
<1> HIDE DEF last
<1>16. ASSUME NEW i \in 1 .. last
       PROVE  body[i] \in {all[i], Ended(all[i])} /\ body[i] \in Octet
  <2>1. all[i] \in Octet
    BY <1>11, <1>14
  <2>2. all[i] \in Nat
    BY <2>1 DEF Octet
  <2>3. Ended(all[i]) \in Octet
    BY <2>2, EndedOctet
  <2>4. body[i] \in {all[i], Ended(all[i])}
    BY <1>13
  <2> QED BY <2>1, <2>3, <2>4
<1>17. body \in Seq(Octet) /\ Len(body) = last
  BY <1>12, <1>13, <1>16
<1>18. Contents(body)
  <2>1. Len(body) \in 1 .. 255
    BY <1>12, <1>17
  <2> QED BY <1>17, <2>1 DEF Contents
<1>19. ASSUME NEW k \in 1 .. n
       PROVE  /\ body[3 * k - 1] = e.entry[k].codec
              /\ body[3 * k] = e.entry[k].service
              /\ LET b == Either(e.entry[k].cplane, e.entry[k].slot)
                 IN  body[3 * k + 1] \in {b, Ended(b)}
  <2>1. /\ 3 * k - 2 \in 1 .. 3 * n /\ 3 * k - 1 \in 1 .. 3 * n /\ 3 * k \in 1 .. 3 * n
        /\ 1 + (3 * k - 2) = 3 * k - 1 /\ 1 + (3 * k - 1) = 3 * k /\ 1 + 3 * k = 3 * k + 1
    BY <1>7
  <2>2. /\ 3 * k - 1 \in 1 .. last /\ 3 * k - 1 # last /\ 3 * k \in 1 .. last /\ 3 * k # last
        /\ 3 * k + 1 \in 1 .. last
    BY <1>7, <1>15
  <2>3. body[3 * k - 1] = all[3 * k - 1] /\ body[3 * k] = all[3 * k]
    BY <1>13, <2>2
  <2>4. body[3 * k + 1] \in {all[3 * k + 1], Ended(all[3 * k + 1])}
    BY <1>16, <2>2
  <2>5. all[3 * k - 1] = f[k][1] /\ all[3 * k] = f[k][2] /\ all[3 * k + 1] = f[k][3]
    BY ZenonT(40), <1>9, <1>11, <2>1
  <2> QED BY <1>4, <2>3, <2>4, <2>5
<1>20. At(body, 0) \in {x, Ended(x)}
  <2>1. 1 \in 1 .. last /\ 0 < last
    BY <1>12
  <2>2. body[1] \in {x, Ended(x)}
    BY <1>11, <1>16, <2>1
  <2>3. At(body, 0) = body[1]
    BY <1>17, <2>1 DEF At
  <2> QED BY <2>2, <2>3
<1>21. Len(o) = last + 2
  BY <1>17, Wrapped
<1>22. High(At(o, 2)) = e.negotiation
  <2>1. At(o, 2) = At(body, 0)
    BY <1>17, WrappedAt
  <2> QED BY <1>10, <1>20, <2>1
<1> DEFINE cd(k) == e.entry[k]
           slot(k) == Either(e.entry[k].cplane, e.entry[k].slot)
           read(k) == [codec |-> cd(k).codec, service |-> cd(k).service, cplane |-> 0,
                       slot |-> slot(k)]
<1>23. ASSUME NEW k \in 1 .. n
       PROVE  [codec |-> At(o, 3 * k), service |-> Low(At(o, 3 * k + 1)),
               cplane |-> High(At(o, 3 * k + 2)), slot |-> Low(At(o, 3 * k + 2))] = read(k)
  <2>1. \A m \in Nat : At(o, m + 2) = At(body, m)
    BY <1>17, Wrapped
  <2>2. /\ 3 * k - 2 \in Nat /\ 3 * k - 1 \in Nat /\ 3 * k \in Nat
        /\ (3 * k - 2) + 2 = 3 * k /\ (3 * k - 1) + 2 = 3 * k + 1
    BY <1>7
  <2>3. At(o, 3 * k) = At(body, 3 * k - 2) /\ At(o, 3 * k + 1) = At(body, 3 * k - 1)
          /\ At(o, 3 * k + 2) = At(body, 3 * k)
    BY <2>1, <2>2
  <2>4. /\ 3 * k - 2 < last /\ 3 * k - 1 < last /\ 3 * k < last
        /\ (3 * k - 2) + 1 = 3 * k - 1 /\ (3 * k - 1) + 1 = 3 * k
    BY <1>7, <1>15
  <2>5. /\ At(body, 3 * k - 2) = body[3 * k - 1] /\ At(body, 3 * k - 1) = body[3 * k]
        /\ At(body, 3 * k) = body[3 * k + 1]
    BY <1>17, <2>4 DEF At
  <2>6. cd(k) \in AnyCodec
    BY <1>3
  <2>7. slot(k) \in Nibble /\ Low(cd(k).service) = cd(k).service
    BY <2>6, AnyCodecOK, EitherOK
  <2>8. At(o, 3 * k) = cd(k).codec /\ At(o, 3 * k + 1) = cd(k).service
          /\ At(o, 3 * k + 2) \in {slot(k), Ended(slot(k))}
    BY <1>19, <2>3, <2>5
  <2> HIDE DEF cd, slot, o
  <2>9. High(At(o, 3 * k + 2)) = 0 /\ Low(At(o, 3 * k + 2)) = slot(k)
    BY <2>7, <2>8, PlaneOK
  <2> QED BY <2>7, <2>8, <2>9
<1>24. \A k \in 1 .. n : read(k) \in AnyCodec
  <2>1. ASSUME NEW k \in 1 .. n
        PROVE  read(k) \in AnyCodec
    <3>1. cd(k) \in AnyCodec
      BY <1>3
    <3>2. cd(k).codec \in 1 .. 9 /\ cd(k).service \in 0 .. 5 /\ slot(k) \in Nibble
      BY <3>1, AnyCodecOK, EitherOK
    <3> HIDE DEF cd, slot
    <3> QED BY <3>2 DEF AnyCodec
  <2> QED BY <2>1
<1> DEFINE entries == [k \in 1 .. n |-> read(k)]
<1>25. p = [negotiation |-> e.negotiation, entry |-> entries]
  <2>1. (Len(o) - 3) \div 3 = n /\ (IF n < 8 THEN n ELSE 8) = n
    BY <1>2, <1>7, <1>15, <1>21
  <2> HIDE DEF o, read
  <2>2. p = [negotiation |-> High(At(o, 2)),
             entry |-> [k \in 1 .. n |->
                 [codec |-> At(o, 3 * k), service |-> Low(At(o, 3 * k + 1)),
                  cplane |-> High(At(o, 3 * k + 2)), slot |-> Low(At(o, 3 * k + 2))]]]
    BY <2>1 DEF ParseCodecList
  <2>3. [k \in 1 .. n |->
                 [codec |-> At(o, 3 * k), service |-> Low(At(o, 3 * k + 1)),
                  cplane |-> High(At(o, 3 * k + 2)), slot |-> Low(At(o, 3 * k + 2))]] = entries
    BY <1>23
  <2> QED BY <1>22, <2>2, <2>3
<1> HIDE DEF p, o
<1>26. entries \in AtMost(8, AnyCodec) /\ Len(entries) = n
  <2> HIDE DEF read
  <2>1. entries \in Seq(AnyCodec) /\ Len(entries) = n
    BY <1>7, <1>24
  <2>2. n <= 8
    BY <1>2
  <2> HIDE DEF entries
  <2> QED BY <2>1, <2>2 DEF AtMost
<1>27. p \in AnyCodecList
  <2> HIDE DEF entries
  <2> QED BY <1>1, <1>25, <1>26 DEF AnyCodecList
<1>28. Exact("CODEC_LIST", p)
  <2>1. \A i \in 1 .. n : entries[i].cplane = 0
    OBVIOUS
  <2> HIDE DEF entries
  <2>2. DOMAIN entries = 1 .. n
    BY <1>26 DEF AtMost
  <2>3. p.entry = entries
    BY <1>25
  <2> QED BY <2>1, <2>2, <2>3 DEF Exact
<1>29. ASSUME Exact("CODEC_LIST", e)
       PROVE  p = e
  <2>1. \A i \in DOMAIN e.entry : e.entry[i].cplane = 0
    BY <1>29 DEF Exact
  <2>2. DOMAIN e.entry = 1 .. n
    BY <1>2
  <2>3. ASSUME NEW k \in 1 .. n
        PROVE  read(k) = cd(k)
    <3>1. cd(k) \in AnyCodec /\ cd(k).cplane = 0
      BY <1>3, <2>1, <2>2
    <3> HIDE DEF cd
    <3>2. cd(k).slot \in Nibble
      BY <3>1, AnyCodecOK
    <3>3. Either(0, cd(k).slot) = cd(k).slot
      BY <3>2, EitherOK
    <3>4. cd(k) = [codec |-> cd(k).codec, service |-> cd(k).service, slot |-> cd(k).slot, cplane |-> cd(k).cplane]
      BY <3>1, AnyCodecOK
    <3>5. slot(k) = Either(cd(k).cplane, cd(k).slot)
      BY DEF cd
    <3> HIDE DEF slot
    <3>6. read(k) = [codec |-> cd(k).codec, service |-> cd(k).service, slot |-> cd(k).slot, cplane |-> cd(k).cplane]
      BY <3>1, <3>3, <3>5
    <3> QED BY <3>4, <3>6
  <2>4. entries = [k \in 1 .. n |-> cd(k)]
    <3> HIDE DEF read
    <3> QED BY <2>3
  <2>5. e.entry = [k \in 1 .. n |-> cd(k)]
    BY <1>2
  <2> HIDE DEF entries
  <2> QED BY <1>1, <1>25, <2>4, <2>5
<1> QED
  BY <1>18, <1>27, <1>28, <1>29 DEF body, o, p

-----------------------------------------------------------------------------
(* Octets as a bit string, and the identity of a fixed part *)

\* Octets of the memory from data[4] as a bit string: the one that was filled into
\* the octets
LEMMA BitsRead ==
    ASSUME NEW bits \in Seq(Bit), NEW octs \in Seq(Octet), NEW i \in 1 .. Len(bits),
           \A j \in 1 .. RoundUp(Len(bits), 8) : j \in 1 .. Len(octs) /\ octs[j] = ToOctets(bits)[j]
    PROVE  ToBits(octs)[i] = bits[i]
<1> DEFINE n == RoundUp(Len(bits), 8)
           j == (i + 7) \div 8
           r == ((i - 1) % 8) + 1
<1>1. /\ n \in Nat /\ 8 * n >= Len(bits)
      /\ \A k \in 1 .. 8 * n : Bits(ToOctets(bits)[(k + 7) \div 8], 8)[((k - 1) % 8) + 1]
                                 = IF k <= Len(bits) THEN bits[k] ELSE 0
  BY ToOctetsOK
<1>2. j \in 1 .. n /\ i \in 1 .. 8 * n
  BY <1>1
<1>3. j \in 1 .. Len(octs) /\ octs[j] = ToOctets(bits)[j]
  BY <1>2
<1>4. i \in 1 .. 8 * Len(octs)
  BY <1>2, <1>3
<1>5. ToBits(octs)[i] = Bits(octs[j], 8)[r]
  BY <1>4 DEF ToBits
<1>6. Bits(ToOctets(bits)[j], 8)[r] = bits[i]
  BY <1>1, <1>2
<1> QED
  BY <1>3, <1>5, <1>6

\* The first n of a sequence, and all but its first
LEMMA FirstOf ==
    ASSUME NEW S, NEW s \in Seq(S), NEW n \in Nat, n <= Len(s)
    PROVE  /\ SubSeq(s, 1, n) \in Seq(S) /\ Len(SubSeq(s, 1, n)) = n
           /\ \A i \in 1 .. n : SubSeq(s, 1, n)[i] = s[i]
  OBVIOUS

LEMMA TailOf ==
    ASSUME NEW S, NEW s \in Seq(S), NEW n \in Nat, Len(s) = n + 1
    PROVE  Len(Tail(s)) = n /\ \A i \in 1 .. n : Tail(s)[i] = s[i + 1]
  OBVIOUS

\* An octet is eight bits.
LEMMA ToBitsOK ==
    ASSUME NEW octs \in Seq(Octet)
    PROVE  ToBits(octs) \in Seq(Bit) /\ Len(ToBits(octs)) = 8 * Len(octs)
<1> DEFINE n == 8 * Len(octs)
           b == ToBits(octs)
<1>1. n \in Nat
  OBVIOUS
<1>2. ASSUME NEW i \in 1 .. n
      PROVE  b[i] \in Bit
  <2> DEFINE j == (i + 7) \div 8
             r == ((i - 1) % 8) + 1
  <2>1. j \in 1 .. Len(octs) /\ r \in 1 .. 8
    OBVIOUS
  <2>2. b[i] = Bits(octs[j], 8)[r]
    BY DEF ToBits
  <2>3. octs[j] \in Octet
    BY <2>1
  <2> HIDE DEF j, r, b
  <2>4. octs[j] \in Nat /\ 8 \in 0 .. 31
    <3>1. Octet \subseteq Nat
      BY DEF Octet
    <3>2. 8 \in 0 .. 31
      OBVIOUS
    <3> QED BY Zenon, <2>3, <3>1, <3>2
  <2> QED BY <2>1, <2>2, <2>4, BitsOK
<1>3. b = [i \in 1 .. n |-> b[i]]
  BY DEF ToBits
<1> HIDE DEF n, b
<1>4. b \in Seq(Bit) /\ Len(b) = n
  BY <1>1, <1>2, <1>3
<1> QED BY <1>4 DEF n, b

\* The radio part number is not sent.
LEMMA FixedIdentityCoded ==
    ASSUME NEW id, NEW e \in FixedIdentity
    PROVE  LET body == BuildFixedIdentity(e)
               p == ParseFixedIdentity(Wrap(id, body))
           IN  /\ Contents(body) /\ p \in FixedIdentity /\ p.rpn = 0
               /\ e.rpn = 0 => p = e
<1> DEFINE body == BuildFixedIdentity(e)
           o == Wrap(id, body)
           p == ParseFixedIdentity(o)
           a == BuildAri(e.ari)
           all == (<<0>> \o a) \o Zeros(40)
           bits == SubSeq(all, 1, 40)
           t == ToOctets(bits)
           x == Ended(e.type)
           y == Ended(AriLen(0) + 1)
           len == AriLen(e.ari.arc)
<1>7. body = <<x, y>> \o t
  BY DEF BuildFixedIdentity
<1> HIDE DEF body
<1>1. e = [type |-> e.type, ari |-> e.ari, rpn |-> e.rpn]
  BY DEF FixedIdentity
<1>2. e.type \in FixedIdentityType /\ e.ari \in Ari /\ e.rpn \in Octet
  BY DEF FixedIdentity
<1>3. a \in Seq(Bit) /\ Len(a) = len
  BY <1>2, AriBits
<1>4. len \in 3 .. 36
  BY <1>2, AriTyped, Widths
<1>5. /\ all \in Seq(Bit) /\ Len(all) = 41 + len /\ \A i \in 1 .. len : all[1 + i] = a[i]
  <2> DEFINE h == <<0>>
             z == Zeros(40)
             j == h \o a
  <2>1. h \in Seq(Bit) /\ Len(h) = 1
    BY DEF Bit
  <2>11. h \in Seq(Bit)
    BY <2>1
  <2>12. a \in Seq(Bit)
    BY <1>3
  <2>2. z \in Seq(Bit)
    BY ZerosOK
  <2>3. Len(z) = 40
    BY ZerosOK
  <2> HIDE DEF h, z, a
  <2>4. /\ j \in Seq(Bit) /\ Len(j) = Len(h) + Len(a)
        /\ \A i \in 1 .. Len(a) : j[Len(h) + i] = a[i]
    BY <2>11, <2>12, Joined
  <2>5. Len(j) = 1 + len /\ \A i \in 1 .. len : j[1 + i] = a[i]
    BY <1>3, <2>1, <2>4
  <2>6. j \in Seq(Bit)
    BY <2>4
  <2> HIDE DEF j
  <2>7. /\ j \o z \in Seq(Bit) /\ Len(j \o z) = Len(j) + Len(z)
        /\ \A i \in 1 .. Len(j) : (j \o z)[i] = j[i]
    BY <2>2, <2>6, Joined
  <2> DEFINE jz == j \o z
  <2>8. all = jz
    BY DEF j, h, z
  <2> HIDE DEF jz
  <2>9. jz \in Seq(Bit) /\ Len(jz) = Len(j) + Len(z) /\ \A i \in 1 .. Len(j) : jz[i] = j[i]
    BY <2>7 DEF jz
  <2>10. Len(jz) = 41 + len
    <3>1. Len(jz) = Len(j) + Len(z) /\ Len(j) = 1 + len
      BY <2>5, <2>9
    <3>2. (1 + len) + 40 = 41 + len
      BY <1>4
    <3> QED BY Zenon, <2>3, <3>1, <3>2
  <2>13. ASSUME NEW i \in 1 .. len
         PROVE  jz[1 + i] = a[i]
    <3>1. 1 + i \in 1 .. 1 + len
      BY <1>4
    <3>2. 1 + i \in 1 .. Len(j)
      BY Zenon, <2>5, <3>1
    <3> QED BY Zenon, <2>5, <2>9, <3>2
  <2> HIDE DEF all
  <2> QED BY <2>8, <2>9, <2>10, <2>13
<1> HIDE DEF all, a, len
<1>6. bits \in Seq(Bit) /\ Len(bits) = 40 /\ \A i \in 1 .. len : bits[1 + i] = a[i]
  <2>1. 40 <= Len(all) /\ all \in Seq(Bit)
    BY <1>4, <1>5
  <2>2. bits \in Seq(Bit) /\ Len(bits) = 40 /\ \A i \in 1 .. 40 : bits[i] = all[i]
    BY <2>1, FirstOf
  <2> HIDE DEF bits
  <2>3. ASSUME NEW i \in 1 .. len
        PROVE  bits[1 + i] = a[i]
    <3>1. 1 + i \in 1 .. 40
      BY <1>4
    <3> QED BY <1>5, <2>2, <3>1
  <2> QED BY <2>2, <2>3
<1> HIDE DEF bits
<1>8. RoundUp(Len(bits), 8) = 5
  BY <1>6 DEF RoundUp
<1>9. t \in Seq(Octet) /\ Len(t) = 5
  BY <1>6, <1>8, ToOctetsOK
<1>10. x \in Octet /\ y \in Octet /\ Ends(x) /\ Ends(y) /\ Value(x) = e.type
  <2>1. e.type \in 0 .. 127
    BY <1>2 DEF FixedIdentityType
  <2>2. AriLen(0) + 1 = 37 /\ 37 \in 0 .. 127
    BY Widths DEF AriClass
  <2> QED BY <2>1, <2>2, SevenBits
<1> HIDE DEF x, y, t
<1> DEFINE h == <<x, y>>
<1>11. h \in Seq(Octet) /\ Len(h) = 2 /\ At(h, 0) = x /\ At(h, 1) = y
  BY <1>10, Two
<1>12. body = h \o t
  BY <1>7
<1> HIDE DEF h
<1>13. /\ body \in Seq(Octet) /\ Len(body) = Len(h) + Len(t)
       /\ \A n \in Nat : n < Len(h) => At(body, n) = At(h, n)
       /\ \A n \in Nat : At(body, Len(h) + n) = At(t, n)
  BY <1>9, <1>11, <1>12, AtJoined
<1>14. Contents(body)
  BY <1>9, <1>11, <1>13 DEF Contents
<1>15. At(o, 2) = x /\ At(o, 3) = y
  <2>1. At(body, 0) = x /\ At(body, 1) = y
    BY <1>11, <1>13
  <2> QED BY <1>13, <2>1, WrappedAt
<1> DEFINE octs == [i \in 1 .. 8 |-> At(o, i + 3)]
           read == Tail(ToBits(octs))
<1>16. \A j \in 1 .. 8 : octs[j] = At(t, j - 1)
  <2>1. \A n \in Nat : At(o, n + 2) = At(body, n)
    BY <1>13, Wrapped
  <2> HIDE DEF o
  <2>2. ASSUME NEW j \in 1 .. 8
        PROVE  octs[j] = At(t, j - 1)
    <3>1. octs[j] = At(o, j + 3)
      OBVIOUS
    <3>2. j + 1 \in Nat /\ (j + 1) + 2 = j + 3 /\ j - 1 \in Nat /\ 2 + (j - 1) = j + 1
      OBVIOUS
    <3>3. At(o, j + 3) = At(body, j + 1)
      BY <2>1, <3>2
    <3>4. At(body, j + 1) = At(t, j - 1)
      BY <1>11, <1>13, <3>2
    <3> QED BY <3>1, <3>3, <3>4
  <2> QED BY <2>2
<1>17. octs \in Seq(Octet) /\ Len(octs) = 8
  <2>1. \A j \in 1 .. 8 : j - 1 \in Nat
    OBVIOUS
  <2>2. \A j \in 1 .. 8 : octs[j] \in Octet
    BY <1>9, <1>16, <2>1, AtOctet
  <2> HIDE DEF o
  <2> QED BY <2>2
<1>18. \A j \in 1 .. 5 : octs[j] = t[j]
  BY <1>9, <1>16 DEF At
<1> HIDE DEF octs
<1>19. ToBits(octs) \in Seq(Bit) /\ Len(ToBits(octs)) = 64
  <2>1. ToBits(octs) \in Seq(Bit) /\ Len(ToBits(octs)) = 8 * Len(octs)
    BY <1>17, ToBitsOK
  <2>2. 8 * 8 = 64
    OBVIOUS
  <2> QED BY ZenonT(40), <1>17, <2>1, <2>2
<1>20. \A i \in 1 .. 40 : ToBits(octs)[i] = bits[i]
  <2>1. \A j \in 1 .. RoundUp(Len(bits), 8) : j \in 1 .. Len(octs) /\ octs[j] = ToOctets(bits)[j]
    <3>1. ASSUME NEW j \in 1 .. 5
          PROVE  j \in 1 .. Len(octs) /\ octs[j] = t[j]
      BY <1>17, <1>18
    <3> QED BY Zenon, <1>8, <3>1 DEF t
  <2>2. bits \in Seq(Bit) /\ octs \in Seq(Octet)
    BY <1>6, <1>17
  <2>3. \A i \in 1 .. Len(bits) : ToBits(octs)[i] = bits[i]
    BY <2>1, <2>2, BitsRead
  <2> QED BY Zenon, <1>6, <2>3
<1>21. Len(read) = 63 /\ \A i \in 1 .. 63 : read[i] = ToBits(octs)[i + 1]
  <2> DEFINE b == ToBits(octs)
  <2> HIDE DEF b
  <2>1. b \in Seq(Bit) /\ Len(b) = 64
    BY <1>19 DEF b
  <2>2. Len(Tail(b)) = 63 /\ \A i \in 1 .. 63 : Tail(b)[i] = b[i + 1]
    <3>1. 63 \in Nat /\ 63 + 1 = 64
      OBVIOUS
    <3>2. Len(b) = 63 + 1
      BY <2>1, <3>1
    <3> QED BY <2>1, <3>1, <3>2, TailOf
  <2> QED BY <2>2 DEF b
<1> HIDE DEF read
<1>22. ASSUME NEW i \in 1 .. len
       PROVE  read[i] = a[i]
  <2>1. i \in 1 .. 63 /\ i + 1 \in 1 .. 40 /\ i + 1 = 1 + i
    BY <1>4
  <2>2. read[i] = ToBits(octs)[i + 1]
    BY <1>21, <2>1
  <2>3. ToBits(octs)[i + 1] = bits[i + 1]
    BY <1>20, <2>1
  <2>4. bits[1 + i] = a[i]
    BY <1>6
  <2> QED BY <2>1, <2>2, <2>3, <2>4
<1>23. ParseAri(read) = [len |-> len, ari |-> e.ari] /\ len # 0
  <2>1. Len(read) \in Nat /\ len <= Len(read)
    BY <1>4, <1>21
  <2>2. \A i \in 1 .. AriLen(e.ari.arc) : read[i] = BuildAri(e.ari)[i]
    BY <1>22 DEF len, a
  <2>3. AriLen(e.ari.arc) <= Len(read)
    BY <2>1 DEF len
  <2> QED BY <1>2, <2>1, <2>2, <2>3, AriForm DEF len
<1>24. p = [type |-> e.type, ari |-> e.ari, rpn |-> 0]
  <2>1. ParseAri(Tail(ToBits([i \in 1 .. 8 |-> At(o, i + 3)]))) = [len |-> len, ari |-> e.ari]
    BY <1>23 DEF read, octs
  <2> HIDE DEF o
  <2> DEFINE ari == ParseAri(Tail(ToBits([i \in 1 .. 8 |-> At(o, i + 3)])))
  <2>2. ari.len # 0 /\ ari.ari = e.ari
    BY <1>23, <2>1
  <2>3. p = IF /\ Ends(At(o, 2)) /\ Ends(At(o, 3)) /\ ari.len # 0
               /\ Value(At(o, 2)) \in FixedIdentityType
            THEN [type |-> Value(At(o, 2)), ari |-> ari.ari, rpn |-> 0] ELSE Invalid
    BY DEF ParseFixedIdentity
  <2> HIDE DEF ari, p
  <2> QED BY <1>2, <1>10, <1>15, <2>2, <2>3
<1> HIDE DEF p, o
<1>25. 0 \in Octet
  BY DEF Octet
<1>26. p \in FixedIdentity /\ p.rpn = 0
  BY <1>2, <1>24, <1>25 DEF FixedIdentity
<1> QED
  BY <1>1, <1>14, <1>24, <1>26 DEF body, o, p

-----------------------------------------------------------------------------
(***************************************************************************)
(* The length of a number in bits.  It is a CHOOSE, so that the length is  *)
(* shown to exist and to be unique.                                        *)
(***************************************************************************)

\* Powers of two grow.
LEMMA Monotone ==
    ASSUME NEW a \in 0 .. 31, NEW b \in 0 .. 31, a <= b
    PROVE  2^a <= 2^b
<1> DEFINE T == {d \in Nat : a + d <= 31 /\ ~ (2^a <= 2^(a + d))}
<1>1. ASSUME NEW d \in T, \A y \in T : d <= y
      PROVE  FALSE
  <2>0. d \in Nat /\ a + d <= 31 /\ ~ (2^a <= 2^(a + d))
    OBVIOUS
  <2>1. d # 0
    <3>1. SUFFICES ASSUME d = 0 PROVE FALSE
      OBVIOUS
    <3>2. a + d = a
      BY <3>1
    <3>3. 2^a \in Nat
      BY Power
    <3> DEFINE p == 2^a
    <3>4. p \in Nat /\ ~ (p <= p)
      BY <2>0, <3>2, <3>3
    <3> HIDE DEF p
    <3> QED BY <3>4
  <2> DEFINE c == a + (d - 1)
  <2>2. c \in 0 .. 30 /\ c + 1 = a + d /\ d - 1 \in Nat /\ a + (d - 1) <= 31
    BY <2>0, <2>1
  <2>3. d - 1 \notin T
    BY <1>1, <2>0
  <2>4. 2^a <= 2^c
    BY <2>2, <2>3
  <2> HIDE DEF c
  <2>5. Doubles(c) /\ 2^a \in Nat
    BY <2>2, Double, Power
  <2>6. 2^c \in Nat /\ 2^(c + 1) = 2 * 2^c
    BY <2>5 DEF Doubles
  <2> DEFINE low == 2^a
             mid == 2^c
             high == 2^(c + 1)
  <2>7. low \in Nat /\ mid \in Nat /\ high = 2 * mid /\ low <= mid
    BY <2>4, <2>5, <2>6
  <2>8. ~ (low <= high)
    BY <2>0, <2>2
  <2> HIDE DEF low, mid, high
  <2> QED BY <2>7, <2>8
<1>2. T = {}
  <2>1. T \subseteq Nat
    OBVIOUS
  <2> HIDE DEF T
  <2> QED BY <1>1, <2>1, LeastNat
<1>3. b - a \in Nat /\ a + (b - a) = b /\ a + (b - a) <= 31
  OBVIOUS
<1> QED
  BY <1>2, <1>3

\* A number of at most 31 bits
Small(n) == n \in Nat /\ n \div 2 < 2^30

\* The largest number of an IPUI has 31 bits.
LEMMA MaxNumberIs == MaxNumber \in Int /\ MaxNumber < 2147483648
  BY SMT DEF MaxNumber

LEMMA SmallNumber ==
    ASSUME NEW n \in 0 .. MaxNumber
    PROVE  Small(n)
<1>1. MaxNumber \in Int /\ MaxNumber < 2147483648
  BY SMT, MaxNumberIs
<1> DEFINE m == MaxNumber
           p == 2^30
<1>2. p = 1073741824
  BY SMT
<1>3. m \in Int /\ m < 2147483648 /\ n \in 0 .. m
  BY ONLY SMT, <1>1
<1> HIDE DEF p, m
<1>4. p \in Int /\ m < 2 * p
  BY ONLY SMT, <1>2, <1>3
<1>5. n \in Nat /\ n \div 2 < p
  BY ONLY SMT, <1>3, <1>4
<1> QED BY ONLY Zenon, <1>5 DEF Small, p

\* The length in bits of a number
Long(n, k) == 2^(k - 1) <= n /\ n \div 2 < 2^(k - 1)

\* There is one, and only one, length of a number in bits.
LEMMA LongExists ==
    ASSUME NEW n, Small(n), n # 0
    PROVE  \E k \in 1 .. 31 : Long(n, k)
<1>0. n \in Nat /\ n \div 2 < 2^30
  BY DEF Small
<1> DEFINE T == {k \in 1 .. 31 : n \div 2 < 2^(k - 1)}
<1>1. 31 \in T
  <2>1. n \div 2 < 2^(31 - 1)
    <3>1. 31 - 1 = 30
      OBVIOUS
    <3> QED BY Zenon, <1>0, <3>1
  <2>2. 31 \in 1 .. 31
    OBVIOUS
  <2> QED BY Zenon, <2>1, <2>2
<1>2. PICK k \in T : \A y \in T : k <= y
  <2>1. T \subseteq Nat
    OBVIOUS
  <2> HIDE DEF T
  <2>2. T # {}
    BY <1>1
  <2> QED BY <2>1, <2>2, LeastNat
<1>3. k \in 1 .. 31 /\ n \div 2 < 2^(k - 1)
  OBVIOUS
<1>4. CASE k = 1
  <2>1. 2^(k - 1) = 1
    BY <1>4
  <2>2. 1 <= n
    BY <1>0
  <2> QED BY Zenon, <1>3, <2>1, <2>2 DEF Long
<1>5. CASE k # 1
  <2> DEFINE j == k - 1
  <2>1. j \in 1 .. 30 /\ j \notin T
    BY <1>2, <1>3, <1>5
  <2>2. ~ (n \div 2 < 2^(j - 1))
    BY <2>1
  <2>3. j - 1 \in 0 .. 30 /\ (j - 1) + 1 = j
    BY <2>1
  <2>4. Doubles(j - 1)
    BY <2>3, Double
  <2>5. 2^(j - 1) \in Nat /\ 2^j = 2 * 2^(j - 1)
    BY <2>3, <2>4 DEF Doubles
  <2> DEFINE p == 2^(j - 1)
             q == 2^j
  <2>6. p \in Nat /\ q = 2 * p /\ ~ (n \div 2 < p)
    BY <2>2, <2>5
  <2> HIDE DEF p, q
  <2>7. q <= n
    BY <1>0, <2>6
  <2> QED BY <1>3, <2>7 DEF Long, q
<1> QED
  BY <1>3, <1>4, <1>5

LEMMA LongUnique ==
    ASSUME NEW n \in Nat, NEW k \in 1 .. 31, NEW m \in 1 .. 31, Long(n, k), Long(n, m)
    PROVE  k = m
<1>1. ASSUME NEW a \in 1 .. 31, NEW b \in 1 .. 31, Long(n, a), Long(n, b), a < b
      PROVE  FALSE
  <2>1. a - 1 \in 0 .. 30 /\ (a - 1) + 1 = a /\ a \in 0 .. 31 /\ b - 1 \in 0 .. 31 /\ a <= b - 1
    BY <1>1
  <2>2. Doubles(a - 1)
    BY <2>1, Double
  <2>3. 2^a <= 2^(b - 1)
    BY <2>1, Monotone
  <2> DEFINE p == 2^(a - 1)
             q == 2^a
             r == 2^(b - 1)
  <2>4. p \in Nat /\ q = 2 * p /\ q <= r /\ r <= n /\ n \div 2 < p
    BY <1>1, <2>1, <2>2, <2>3 DEF Doubles, Long
  <2>5. r \in Nat
    BY <2>1, Power
  <2> HIDE DEF p, q, r
  <2> QED BY <2>4, <2>5
<1> QED
  BY <1>1

LEMMA BitLengthIs ==
    ASSUME NEW n \in Nat, NEW k \in 1 .. 31, Long(n, k)
    PROVE  BitLength(n) = k
<1>1. n # 0
  <2>1. k - 1 \in 0 .. 31
    OBVIOUS
  <2>2. 2^(k - 1) \in Nat /\ 2^(k - 1) >= 1 /\ 2^(k - 1) <= n
    BY <2>1, Power DEF Long
  <2> DEFINE p == 2^(k - 1)
  <2>3. p \in Nat /\ p >= 1 /\ p <= n
    BY <2>2
  <2> HIDE DEF p
  <2> QED BY <2>3
<1> DEFINE c == CHOOSE j \in 1 .. 31 : Long(n, j)
<1>2. c \in 1 .. 31 /\ Long(n, c)
  <2>1. \E j \in 1 .. 31 : Long(n, j)
    OBVIOUS
  <2> QED BY Zenon, <2>1
<1>3. c = k
  <2> HIDE DEF c
  <2> QED BY <1>2, LongUnique
<1>4. BitLength(n) = c
  BY <1>1 DEF BitLength, Long
<1> QED BY <1>3, <1>4

LEMMA BitLengthOK ==
    ASSUME NEW n, Small(n)
    PROVE  /\ BitLength(n) \in 0 .. 31
           /\ n # 0 => BitLength(n) \in 1 .. 31 /\ Long(n, BitLength(n))
           /\ n = 0 => BitLength(n) = 0
           /\ n < 2^BitLength(n)
<1>0. n \in Nat /\ n \div 2 < 2^30
  BY DEF Small
<1>1. CASE n = 0
  <2>1. BitLength(n) = 0
    BY <1>1 DEF BitLength
  <2>2. 0 < 2^0
    OBVIOUS
  <2>3. n < 2^BitLength(n)
    BY Zenon, <1>1, <2>1, <2>2
  <2>4. 0 \in 0 .. 31
    OBVIOUS
  <2> QED BY Zenon, <1>1, <2>1, <2>3, <2>4
<1>2. CASE n # 0
  <2>1. PICK k \in 1 .. 31 : Long(n, k)
    BY <1>0, <1>2, LongExists
  <2>2. BitLength(n) = k
    BY <1>0, <2>1, BitLengthIs
  <2>3. k - 1 \in 0 .. 30 /\ (k - 1) + 1 = k
    OBVIOUS
  <2>4. Doubles(k - 1)
    BY <2>3, Double
  <2> DEFINE p == 2^(k - 1)
             q == 2^k
  <2>5. p \in Nat /\ q = 2 * p /\ n \div 2 < p
    BY <2>1, <2>3, <2>4 DEF Doubles, Long
  <2> HIDE DEF p, q
  <2>6. n < q
    BY <1>0, <2>5
  <2> QED BY <1>0, <1>2, <2>1, <2>2, <2>6 DEF q
<1> QED
  BY <1>1, <1>2

-----------------------------------------------------------------------------
(* A number without its last bits *)

\* A number without its last l bits
Cleared(n, l) == 2^l * (n \div 2^l)

\* The facts about c = Cleared(n, l) that do not need an induction
Truncated(n, l, c) ==
    /\ c \in Nat /\ c <= n /\ c % 2^l = 0 /\ (n % 2^l = 0 <=> c = n)
    /\ c \div 2^l = n \div 2^l
    /\ \A j \in 0 .. 7 : j < l => (c \div 2^j) % 2 = 0

SmallPowers == {1, 2, 4, 8, 16, 32, 64, 128}

\* The powers of two up to 128
LEMMA SmallPower ==
    ASSUME NEW l \in 0 .. 7
    PROVE  2^l \in SmallPowers
<1>0. l = 0 => 2^l \in SmallPowers
  BY SMT DEF SmallPowers
<1>1. l = 1 => 2^l \in SmallPowers
  BY SMT DEF SmallPowers
<1>2. l = 2 => 2^l \in SmallPowers
  BY SMT DEF SmallPowers
<1>3. l = 3 => 2^l \in SmallPowers
  BY SMT DEF SmallPowers
<1>4. l = 4 => 2^l \in SmallPowers
  BY SMT DEF SmallPowers
<1>5. l = 5 => 2^l \in SmallPowers
  BY SMT DEF SmallPowers
<1>6. l = 6 => 2^l \in SmallPowers
  BY SMT DEF SmallPowers
<1>7. l = 7 => 2^l \in SmallPowers
  BY SMT DEF SmallPowers
<1> QED BY <1>0, <1>1, <1>2, <1>3, <1>4, <1>5, <1>6, <1>7

LEMMA Multiple ==
    ASSUME NEW n \in Nat, NEW L \in SmallPowers, NEW c, c = L * (n \div L)
    PROVE  c \in Nat /\ c <= n /\ c % L = 0 /\ (n % L = 0 <=> c = n) /\ c \div L = n \div L
<1>1. CASE L = 1
  BY <1>1
<1>2. CASE L = 2
  BY <1>2
<1>3. CASE L = 4
  BY <1>3
<1>4. CASE L = 8
  BY <1>4
<1>5. CASE L = 16
  BY <1>5
<1>6. CASE L = 32
  BY <1>6
<1>7. CASE L = 64
  BY <1>7
<1>8. CASE L = 128
  BY <1>8
<1> QED BY <1>1, <1>2, <1>3, <1>4, <1>5, <1>6, <1>7, <1>8 DEF SmallPowers

\* A multiple of 2^l has l last bits that are not set.
LEMMA EvenBits ==
    ASSUME NEW q \in Nat
    PROVE  /\ \A c : c = 2 * q => (c \div 1) % 2 = 0
           /\ \A c : c = 4 * q => (c \div 1) % 2 = 0 /\ (c \div 2) % 2 = 0
           /\ \A c : c = 8 * q => (c \div 1) % 2 = 0 /\ (c \div 2) % 2 = 0 /\ (c \div 4) % 2 = 0
           /\ \A c : c = 16 * q => /\ (c \div 1) % 2 = 0 /\ (c \div 2) % 2 = 0
                                   /\ (c \div 4) % 2 = 0 /\ (c \div 8) % 2 = 0
           /\ \A c : c = 32 * q => /\ (c \div 1) % 2 = 0 /\ (c \div 2) % 2 = 0
                                   /\ (c \div 4) % 2 = 0 /\ (c \div 8) % 2 = 0
                                   /\ (c \div 16) % 2 = 0
           /\ \A c : c = 64 * q => /\ (c \div 1) % 2 = 0 /\ (c \div 2) % 2 = 0
                                   /\ (c \div 4) % 2 = 0 /\ (c \div 8) % 2 = 0
                                   /\ (c \div 16) % 2 = 0 /\ (c \div 32) % 2 = 0
           /\ \A c : c = 128 * q => /\ (c \div 1) % 2 = 0 /\ (c \div 2) % 2 = 0
                                   /\ (c \div 4) % 2 = 0 /\ (c \div 8) % 2 = 0
                                   /\ (c \div 16) % 2 = 0 /\ (c \div 32) % 2 = 0
                                   /\ (c \div 64) % 2 = 0
<1>1. \A c : c = 2 * q => (c \div 1) % 2 = 0
  OBVIOUS
<1>2. \A c : c = 4 * q => (c \div 1) % 2 = 0 /\ (c \div 2) % 2 = 0
  OBVIOUS
<1>3. \A c : c = 8 * q => (c \div 1) % 2 = 0 /\ (c \div 2) % 2 = 0 /\ (c \div 4) % 2 = 0
  OBVIOUS
<1>4. \A c : c = 16 * q => /\ (c \div 1) % 2 = 0 /\ (c \div 2) % 2 = 0
                           /\ (c \div 4) % 2 = 0 /\ (c \div 8) % 2 = 0
  OBVIOUS
<1>5. \A c : c = 32 * q => /\ (c \div 1) % 2 = 0 /\ (c \div 2) % 2 = 0
                           /\ (c \div 4) % 2 = 0 /\ (c \div 8) % 2 = 0
                           /\ (c \div 16) % 2 = 0
  OBVIOUS
<1>6. \A c : c = 64 * q => /\ (c \div 1) % 2 = 0 /\ (c \div 2) % 2 = 0
                           /\ (c \div 4) % 2 = 0 /\ (c \div 8) % 2 = 0
                           /\ (c \div 16) % 2 = 0 /\ (c \div 32) % 2 = 0
  OBVIOUS
<1>7. \A c : c = 128 * q => /\ (c \div 1) % 2 = 0 /\ (c \div 2) % 2 = 0
                            /\ (c \div 4) % 2 = 0 /\ (c \div 8) % 2 = 0
                            /\ (c \div 16) % 2 = 0 /\ (c \div 32) % 2 = 0
                            /\ (c \div 64) % 2 = 0
  OBVIOUS
<1> QED BY <1>1, <1>2, <1>3, <1>4, <1>5, <1>6, <1>7

LEMMA Powers ==
    /\ 2^0 = 1 /\ 2^1 = 2 /\ 2^2 = 4 /\ 2^3 = 8 /\ 2^4 = 16 /\ 2^5 = 32 /\ 2^6 = 64 /\ 2^7 = 128
  BY SMT

\* (c \div 2^j) % 2 = 0 for every j below l
Even(c, l) == \A j \in 0 .. 7 : j < l => (c \div 2^j) % 2 = 0

LEMMA EvenBelow ==
    ASSUME NEW c, NEW l \in 0 .. 7,
           l > 0 => (c \div 1) % 2 = 0, l > 1 => (c \div 2) % 2 = 0,
           l > 2 => (c \div 4) % 2 = 0, l > 3 => (c \div 8) % 2 = 0,
           l > 4 => (c \div 16) % 2 = 0, l > 5 => (c \div 32) % 2 = 0,
           l > 6 => (c \div 64) % 2 = 0
    PROVE  Even(c, l)
<1> SUFFICES ASSUME NEW j \in 0 .. 7, j < l
             PROVE  (c \div 2^j) % 2 = 0
  BY DEF Even
<1>1. j = 0 \/ j = 1 \/ j = 2 \/ j = 3 \/ j = 4 \/ j = 5 \/ j = 6
  OBVIOUS
<1>2. (j = 0 => l > 0) /\ (j = 1 => l > 1) /\ (j = 2 => l > 2) /\ (j = 3 => l > 3)
      /\ (j = 4 => l > 4) /\ (j = 5 => l > 5) /\ (j = 6 => l > 6)
  OBVIOUS
<1> QED BY ZenonT(40), <1>1, <1>2, Powers

\* Clearing the last bits leaves none of them set, and changes nothing if none was.
LEMMA ClearedOK ==
    ASSUME NEW n \in Nat, NEW l \in 0 .. 7
    PROVE  Truncated(n, l, Cleared(n, l))
<1> DEFINE L == 2^l
           q == n \div L
           c == Cleared(n, l)
<1>1. L \in SmallPowers
  BY SmallPower
<1>2. c = L * (n \div L)
  BY DEF Cleared
<1>3. c \in Nat /\ c <= n /\ c % L = 0 /\ (n % L = 0 <=> c = n) /\ c \div L = n \div L
  <2> HIDE DEF c, L, q
  <2> QED BY <1>1, <1>2, Multiple
<1>4. Even(c, l)
  <2>1. q \in Nat /\ c = L * q
    <3>1. L \in Nat /\ L >= 1
      <4> HIDE DEF L
      <4> QED BY <1>1 DEF SmallPowers
    <3> HIDE DEF L
    <3> QED BY <1>2, <3>1, DivHalf
  <2>2. /\ (l = 1 => L = 2) /\ (l = 2 => L = 4) /\ (l = 3 => L = 8) /\ (l = 4 => L = 16)
        /\ (l = 5 => L = 32) /\ (l = 6 => L = 64) /\ (l = 7 => L = 128)
    BY ZenonT(40), Powers
  <2> HIDE DEF c, L, q
  <2>3. CASE l = 0
    BY <2>3, EvenBelow
  <2>4. CASE l = 1
    BY <2>1, <2>2, <2>4, EvenBits, EvenBelow
  <2>5. CASE l = 2
    BY <2>1, <2>2, <2>5, EvenBits, EvenBelow
  <2>6. CASE l = 3
    BY <2>1, <2>2, <2>6, EvenBits, EvenBelow
  <2>7. CASE l = 4
    BY <2>1, <2>2, <2>7, EvenBits, EvenBelow
  <2>8. CASE l = 5
    BY <2>1, <2>2, <2>8, EvenBits, EvenBelow
  <2>9. CASE l = 6
    BY <2>1, <2>2, <2>9, EvenBits, EvenBelow
  <2>10. CASE l = 7
    BY <2>1, <2>2, <2>10, EvenBits, EvenBelow
  <2> QED BY <2>3, <2>4, <2>5, <2>6, <2>7, <2>8, <2>9, <2>10
<1> HIDE DEF c
<1> QED
  BY Zenon, <1>3, <1>4 DEF Truncated, Even, c

\* Clearing the last bits keeps the others.
LEMMA ClearedHigh ==
    ASSUME NEW n \in Nat, NEW l \in 0 .. 7, NEW m \in 0 .. 31, l <= m
    PROVE  Cleared(n, l) \div 2^m = n \div 2^m
<1> DEFINE c == Cleared(n, l)
           T == {d \in Nat : l + d <= 31 /\ c \div 2^(l + d) # n \div 2^(l + d)}
<1>1. c \in Nat /\ c \div 2^l = n \div 2^l
  BY ClearedOK DEF Truncated
<1> HIDE DEF c
<1>2. ASSUME NEW d \in T, \A y \in T : d <= y
      PROVE  FALSE
  <2>0. d \in Nat /\ l + d <= 31 /\ c \div 2^(l + d) # n \div 2^(l + d)
    OBVIOUS
  <2>1. d # 0
    <3> SUFFICES ASSUME d = 0 PROVE FALSE
      OBVIOUS
    <3>1. l + d = l
      OBVIOUS
    <3> QED BY Zenon, <1>1, <2>0, <3>1
  <2> DEFINE k == l + (d - 1)
  <2>2. k \in 0 .. 30 /\ k + 1 = l + d /\ d - 1 \in Nat /\ l + (d - 1) <= 31
    BY <2>0, <2>1
  <2>3. d - 1 \notin T
    <3> HIDE DEF T
    <3> QED BY <1>2, <2>0
  <2>4. c \div 2^k = n \div 2^k
    BY <2>2, <2>3
  <2> HIDE DEF k
  <2>5. Doubles(k)
    BY <2>2, Double
  <2> DEFINE p == 2^k
             r == 2^(k + 1)
  <2>6. p \in Nat /\ p >= 1 /\ r = 2 * p /\ c \div p = n \div p
    BY <2>4, <2>5 DEF Doubles
  <2>7. c \div r # n \div r
    BY <2>0, <2>2
  <2> HIDE DEF p, r
  <2>8. (c \div p) \div 2 = c \div (2 * p) /\ (n \div p) \div 2 = n \div (2 * p)
    BY <1>1, <2>6, DivHalf
  <2> QED BY Zenon, <2>6, <2>7, <2>8
<1>3. T = {}
  <2>1. T \subseteq Nat
    OBVIOUS
  <2> HIDE DEF T
  <2> QED BY <1>2, <2>1, LeastNat
<1>4. m - l \in Nat /\ l + (m - l) = m /\ l + (m - l) <= 31
  OBVIOUS
<1> QED
  BY <1>3, <1>4 DEF c

-----------------------------------------------------------------------------
(***************************************************************************)
(* The number of an IPUI.  dect_build_ipui writes whole octets after the   *)
(* first four bits: the last ones of a number can be lost.                 *)
(***************************************************************************)

\* The bits of a number of k bits that are not written
Lost(k) == IF k <= 4 THEN 0 ELSE (k - 4) % 8

\* The bits of a number as dect_build_ipui has them before the loop
Padded(n, k) == Bits(n, k) \o Zeros(IF k < 4 THEN 4 - k ELSE 0)

\* How many bits are lost of a number of k bits
LEMMA LostIs ==
    ASSUME NEW k \in 0 .. 31
    PROVE  LET m == IF k < 4 THEN 4 ELSE k IN
           /\ Lost(k) \in 0 .. 7 /\ 4 + 8 * ((m - 4) \div 8) = m - Lost(k)
           /\ (k < 4 => Lost(k) = 0) /\ (Lost(k) # 0 => k > 4 /\ k - 1 >= Lost(k))
           /\ m \in 4 .. 31 /\ k <= m
<1>1. CASE k <= 4
  BY <1>1 DEF Lost
<1>2. CASE k > 4
  BY <1>2 DEF Lost
<1> QED BY <1>1, <1>2

\* A number of less than four bits is written with four.
LEMMA PaddedOK ==
    ASSUME NEW n \in Nat, NEW k \in 0 .. 31
    PROVE  LET m == IF k < 4 THEN 4 ELSE k
               b == Padded(n, k)
           IN  b \in Seq(Bit) /\ Len(b) = m /\ \A i \in 1 .. k : b[i] = Bits(n, k)[i]
<1> DEFINE s == Bits(n, k)
           d == IF k < 4 THEN 4 - k ELSE 0
           t == Zeros(d)
<1>1. s \in Seq(Bit) /\ Len(s) = k
  BY BitsOK
<1>2. d \in Nat
  OBVIOUS
<1>3. t \in Seq(Bit) /\ Len(t) = d
  <2> HIDE DEF d
  <2> QED BY <1>2, ZerosOK
<1> HIDE DEF s, t
<1>4. /\ s \o t \in Seq(Bit) /\ Len(s \o t) = Len(s) + Len(t)
      /\ \A i \in 1 .. Len(s) : (s \o t)[i] = s[i]
  BY <1>1, <1>3, Joined
<1> DEFINE b == s \o t
<1>5. b = Padded(n, k)
  BY DEF s, t, Padded
<1> HIDE DEF b
<1>6. b \in Seq(Bit) /\ Len(b) = Len(s) + Len(t) /\ \A i \in 1 .. Len(s) : b[i] = s[i]
  BY <1>4 DEF b
<1>7. k + d = IF k < 4 THEN 4 ELSE k
  OBVIOUS
<1> HIDE DEF d
<1>8. Len(b) = k + d
  BY Zenon, <1>1, <1>3, <1>6
<1>9. \A i \in 1 .. k : b[i] = s[i]
  BY Zenon, <1>1, <1>6
<1> QED BY <1>5, <1>6, <1>7, <1>8, <1>9 DEF s

\* What is written of a number are the bits of the number without its last ones.
LEMMA WrittenOK ==
    ASSUME NEW n \in Nat, NEW k \in 0 .. 31
    PROVE  LET m == IF k < 4 THEN 4 ELSE k
               w == Written(Padded(n, k))
           IN  /\ w \in Seq(Bit) /\ Len(w) = m /\ m \in 4 .. 31 /\ k <= m
               /\ \A i \in 1 .. k : w[i] = Bits(Cleared(n, Lost(k)), k)[i]
<1> DEFINE m == IF k < 4 THEN 4 ELSE k
           b == Padded(n, k)
           l == Lost(k)
           keep == m - l
           c == Cleared(n, l)
           s == SubSeq(b, 1, keep)
           t == Zeros(m - keep)
           w == s \o t
<1>1. /\ l \in 0 .. 7 /\ 4 + 8 * ((m - 4) \div 8) = m - l
      /\ (k < 4 => l = 0) /\ (l # 0 => k > 4 /\ k - 1 >= l) /\ m \in 4 .. 31 /\ k <= m
  BY LostIs
<1>2. b \in Seq(Bit) /\ Len(b) = m /\ \A i \in 1 .. k : b[i] = Bits(n, k)[i]
  BY PaddedOK
<1>3. c \in Nat
  BY <1>1, ClearedOK DEF Truncated
<1>0. (k < 4 => m = 4) /\ (k >= 4 => m = k)
  OBVIOUS
<1> HIDE DEF m, b, l, c
<1>4. keep \in Nat /\ keep <= m /\ m - keep = l /\ m - keep \in Nat
  BY <1>1, <1>0
<1>5. s \in Seq(Bit) /\ Len(s) = keep /\ \A i \in 1 .. keep : s[i] = b[i]
  <2> HIDE DEF keep
  <2> QED BY <1>2, <1>4, FirstOf
<1>6. t \in Seq(Bit) /\ Len(t) = m - keep /\ \A i \in 1 .. m - keep : t[i] = 0
  <2> DEFINE r == m - keep
  <2>1. r \in Nat
    BY <1>4
  <2> HIDE DEF r
  <2>2. Zeros(r) \in Seq(Bit) /\ Len(Zeros(r)) = r /\ \A i \in 1 .. r : Zeros(r)[i] = 0
    BY <2>1, ZerosOK
  <2> QED BY <2>2 DEF r
<1>7. Written(b) = w
  <2>1. 4 + 8 * ((Len(b) - 4) \div 8) = keep /\ Len(b) - keep = m - keep
    BY <1>1, <1>2
  <2> HIDE DEF keep
  <2> QED BY Zenon, <1>2, <2>1 DEF Written
<1> HIDE DEF s, t
<1>8. /\ w \in Seq(Bit) /\ Len(w) = Len(s) + Len(t)
      /\ \A i \in 1 .. Len(s) : w[i] = s[i]
      /\ \A i \in 1 .. Len(t) : w[Len(s) + i] = t[i]
  <2>1. s \in Seq(Bit) /\ t \in Seq(Bit)
    BY <1>5, <1>6
  <2>2. /\ s \o t \in Seq(Bit) /\ Len(s \o t) = Len(s) + Len(t)
        /\ \A i \in 1 .. Len(s) : (s \o t)[i] = s[i]
        /\ \A i \in 1 .. Len(t) : (s \o t)[Len(s) + i] = t[i]
    BY <2>1, Joined
  <2> QED BY Zenon, <2>2
<1> HIDE DEF w
<1>9. Len(w) = m
  <2>1. Len(s) + Len(t) = keep + (m - keep)
    BY Zenon, <1>5, <1>6
  <2>2. keep + (m - keep) = m
    BY <1>1, <1>4
  <2> QED BY Zenon, <1>8, <2>1, <2>2
<1>10. ASSUME NEW i \in 1 .. k
       PROVE  w[i] = Bits(c, k)[i]
  <2>1. k - i \in 0 .. 31 /\ i \in Nat
    OBVIOUS
  <2>2. Bits(n, k)[i] = (n \div 2^(k - i)) % 2 /\ Bits(c, k)[i] = (c \div 2^(k - i)) % 2
    BY <1>3, BitsOK
  <2>3. CASE i <= keep
    <3>1. i \in 1 .. keep
      BY <2>1, <2>3, <1>4
    <3>2. i \in 1 .. Len(s)
      BY Zenon, <1>5, <3>1
    <3>3. w[i] = Bits(n, k)[i]
      BY <1>2, <1>5, <1>8, <3>1, <3>2
    <3>4. l <= k - i
      BY <1>0, <1>1, <2>3
    <3>5. c \div 2^(k - i) = n \div 2^(k - i)
      BY <1>1, <2>1, <3>4, ClearedHigh DEF c
    <3> QED BY Zenon, <2>2, <3>3, <3>5
  <2>4. CASE i > keep
    <3> DEFINE j == i - keep
    <3>1. j \in 1 .. m - keep /\ keep + j = i /\ k - i \in 0 .. 7 /\ k - i < l
      BY <1>0, <1>1, <1>4, <2>1, <2>4
    <3>2. w[i] = 0
      <4>1. j \in 1 .. Len(t) /\ Len(s) + j = i /\ t[j] = 0
        BY Zenon, <1>5, <1>6, <3>1
      <4> QED BY Zenon, <1>8, <4>1
    <3>3. (c \div 2^(k - i)) % 2 = 0
      BY <1>1, <3>1, ClearedOK DEF Truncated, c
    <3> QED BY Zenon, <2>2, <3>2, <3>3
  <2> QED BY <1>4, <2>1, <2>3, <2>4
<1> QED
  BY <1>1, <1>7, <1>8, <1>9, <1>10 DEF c, l, m, b

\* A quotient is at least one if the number is at least the divisor.
LEMMA Quotient ==
    ASSUME NEW n \in Nat, NEW p \in Nat, p >= 1
    PROVE  p <= n <=> n \div p >= 1
<1> DEFINE q == n \div p
           r == n % p
<1>1. q \in Nat /\ r \in Nat /\ r < p /\ n = p * q + r
  OBVIOUS
<1> HIDE DEF q, r
<1>2. q = 0 => n < p
  BY <1>1
<1>3. q >= 1 => p * q >= p
  BY <1>1
<1>4. p * q \in Nat
  BY <1>1
<1>5. q >= 1 => p <= n
  BY <1>1, <1>3, <1>4
<1>6. p <= n <=> q >= 1
  BY <1>1, <1>2, <1>5
<1> QED BY <1>6 DEF q

\* A number without the bits that are lost has as many bits, and loses none.
LEMMA ClearedKept ==
    ASSUME NEW n \in 0 .. MaxNumber
    PROVE  LET k == BitLength(n)
               c == Cleared(n, Lost(k))
           IN  /\ k \in 0 .. 31 /\ n \in Nat /\ c \in 0 .. MaxNumber /\ c \in Nat /\ c < 2^k
               /\ BitLength(c) = k
               /\ k <= 4 \/ c % 2^((k - 4) % 8) = 0
               /\ (k <= 4 \/ n % 2^((k - 4) % 8) = 0) <=> c = n
<1> DEFINE k == BitLength(n)
           l == Lost(k)
           c == Cleared(n, l)
<1>0. Small(n)
  BY SmallNumber
<1>1. n \in Nat /\ n \div 2 < 2^30
  BY Zenon, <1>0 DEF Small
<1>2. k \in 0 .. 31 /\ n < 2^k /\ (n # 0 => k \in 1 .. 31 /\ Long(n, k)) /\ (n = 0 => k = 0)
  BY <1>0, BitLengthOK
<1> HIDE DEF k
<1>3. l \in 0 .. 7 /\ (l # 0 => k > 4 /\ k - 1 >= l)
  BY <1>2, LostIs
<1>31. (k > 4 => l = (k - 4) % 8) /\ (k <= 4 => l = 0)
  BY <1>2 DEF Lost
<1>4. /\ c \in Nat /\ c <= n /\ c % 2^l = 0 /\ (n % 2^l = 0 <=> c = n)
  BY <1>1, <1>3, ClearedOK DEF Truncated
<1>5. c \in 0 .. MaxNumber
  <2> DEFINE m == MaxNumber
  <2>1. m \in Int /\ n \in 0 .. m
    BY MaxNumberIs
  <2> HIDE DEF m, c
  <2>2. c \in 0 .. m
    BY <1>4, <2>1
  <2> QED BY <2>2 DEF m
<1>6. c < 2^k
  <2> DEFINE p == 2^k
  <2>1. p \in Nat /\ n < p
    BY <1>2, Power
  <2> HIDE DEF p, c
  <2>2. c < p
    BY <1>1, <1>4, <2>1
  <2> QED BY <2>2 DEF p
<1>7. l = 0 => c = n
  <2> SUFFICES ASSUME l = 0 PROVE c = n
    OBVIOUS
  <2>1. 2^l = 1
    BY Zenon, Powers
  <2>2. n % 1 = 0
    BY <1>1
  <2> QED BY Zenon, <1>4, <2>1, <2>2
<1>8. BitLength(c) = k
  <2>1. CASE l = 0
    BY <2>1, <1>7 DEF k
  <2>2. CASE l # 0
    <3>1. k > 4 /\ k - 1 >= l /\ n # 0
      BY <1>2, <1>3, <2>2
    <3>2. k \in 1 .. 31 /\ Long(n, k) /\ k - 1 \in 0 .. 31
      BY <1>2, <3>1
    <3> DEFINE p == 2^(k - 1)
    <3>3. c \div p = n \div p
      BY <1>1, <1>3, <3>1, <3>2, ClearedHigh
    <3>4. p \in Nat /\ p >= 1 /\ p <= n /\ n \div 2 < p
      BY <3>2, Power DEF Long
    <3> HIDE DEF p, c
    <3>5. p <= n <=> n \div p >= 1
      BY <1>1, <3>4, Quotient
    <3>6. p <= c <=> c \div p >= 1
      BY <1>4, <3>4, Quotient
    <3>7. p <= c
      BY Zenon, <3>3, <3>4, <3>5, <3>6
    <3>8. c \div 2 < p
      BY <1>1, <1>4, <3>4
    <3>9. Long(c, k)
      BY Zenon, <3>7, <3>8 DEF Long, p
    <3> QED BY <1>4, <3>2, <3>9, BitLengthIs
  <2> QED BY <2>1, <2>2
<1> HIDE DEF l
<1>9. k <= 4 \/ c % 2^((k - 4) % 8) = 0
  <2>1. k <= 4 \/ k > 4
    BY <1>2
  <2> HIDE DEF c
  <2> QED BY Zenon, <1>31, <1>4, <2>1
<1>10. (k <= 4 \/ n % 2^((k - 4) % 8) = 0) <=> c = n
  <2>1. (k <= 4 \/ k > 4) /\ ~ (k <= 4 /\ k > 4)
    BY <1>2
  <2> HIDE DEF c
  <2> QED BY Zenon, <1>31, <1>4, <1>7, <2>1
<1> HIDE DEF c
<1> QED
  BY Zenon, <1>1, <1>2, <1>4, <1>5, <1>6, <1>8, <1>9, <1>10 DEF c, l, k

-----------------------------------------------------------------------------
(* A bit string that is put into octets is read from them *)

\* A bit string that was put into octets is read from them.
LEMMA ReadBack ==
    ASSUME NEW all \in Seq(Bit), Len(all) \in 1 .. 40
    PROVE  LET octs == ToOctets(all) IN
           /\ octs \in Seq(Octet) /\ Len(octs) \in 1 .. 5
           /\ ToBits(octs) \in Seq(Bit) /\ Len(ToBits(octs)) \in Nat
           /\ Len(ToBits(octs)) >= Len(all) /\ (Len(all) = 40 => Len(ToBits(octs)) = 40)
           /\ \A i \in 1 .. Len(all) : ToBits(octs)[i] = all[i]
<1> DEFINE octs == ToOctets(all)
           n == RoundUp(Len(all), 8)
           b == ToBits(octs)
<1>1. /\ n \in Nat /\ 8 * n >= Len(all) /\ 8 * n < Len(all) + 8
      /\ octs \in Seq(Octet) /\ Len(octs) = n
  BY ToOctetsOK
<1>2. n \in 1 .. 5 /\ (Len(all) = 40 => n = 5)
  <2> DEFINE L == Len(all)
  <2>1. L \in 1 .. 40 /\ n \in Nat /\ 8 * n >= L /\ 8 * n < L + 8
    BY <1>1
  <2> HIDE DEF n, L
  <2>2. n \in 1 .. 5 /\ (L = 40 => n = 5)
    BY ONLY <2>1
  <2> QED BY Zenon, <2>2 DEF L
<1> HIDE DEF octs, n
<1>3. b \in Seq(Bit) /\ Len(b) = 8 * Len(octs)
  BY <1>1, ToBitsOK
<1>4. ASSUME NEW i \in 1 .. Len(all)
      PROVE  b[i] = all[i]
  <2>1. \A j \in 1 .. RoundUp(Len(all), 8) : j \in 1 .. Len(octs) /\ octs[j] = ToOctets(all)[j]
    BY Zenon, <1>1 DEF n, octs
  <2>2. octs \in Seq(Octet)
    BY <1>1
  <2> QED BY <2>1, <2>2, BitsRead
<1> HIDE DEF b
<1>5. 8 * 5 = 40
  OBVIOUS
<1>6. Len(b) \in Nat /\ Len(b) >= Len(all) /\ (Len(all) = 40 => Len(b) = 40)
  BY <1>1, <1>2, <1>3
<1> QED
  BY <1>1, <1>2, <1>3, <1>4, <1>6 DEF b, octs

\* The type of an IPUI is in its first four bits.
LEMMA TypeBits ==
    ASSUME NEW v \in {0, 1}
    PROVE  Bits(v, 4) \in Seq(Bit) /\ Len(Bits(v, 4)) = 4 /\ v < 2^4 /\ v \in Nat
<1>1. v \in Nat /\ 4 \in 0 .. 31
  OBVIOUS
<1>2. 2^4 = 16
  BY Zenon, Powers
<1>3. v < 2^4
  BY <1>2
<1> QED BY <1>1, <1>3, BitsOK

\* A number, its first four bits being its type
LEMMA NumberRead ==
    ASSUME NEW n \in 0 .. MaxNumber
    PROVE  LET b == BuildIpui([put |-> PutO, number |-> n])
               k == BitLength(n)
           IN  /\ b.len = 4 + k /\ k \in 0 .. 31
               /\ b.octets \in Seq(Octet) /\ Len(b.octets) \in 1 .. 5
               /\ ParseIpui(b.octets, b.len) = [put |-> PutO, number |-> Cleared(n, Lost(k))]
<1> DEFINE k == BitLength(n)
           c == Cleared(n, Lost(k))
           w == Written(Padded(n, k))
           h == Bits(PutO, 4)
           all == h \o w
           octs == ToOctets(all)
           m == IF k < 4 THEN 4 ELSE k
           x == [put |-> PutO, number |-> n]
           b == BuildIpui(x)
           read == ToBits(octs)
<1>1. k \in 0 .. 31 /\ n \in Nat /\ c \in Nat /\ c < 2^k
  BY ClearedKept
<1>2. b = [len |-> 4 + k, octets |-> octs]
  <2>1. x.put = PutO /\ x.put # PutN /\ x.number = n
    BY DEF PutO, PutN
  <2>2. BuildIpui(x) = [len |-> 4 + k, octets |-> ToOctets(Bits(PutO, 4) \o Written(Padded(n, k)))]
    <3> HIDE DEF x
    <3> QED BY <2>1 DEF BuildIpui, Padded
  <2> QED BY Zenon, <2>2
<1> HIDE DEF k, b
<1>3. w \in Seq(Bit) /\ Len(w) = m /\ m \in 4 .. 31 /\ k <= m /\ \A i \in 1 .. k : w[i] = Bits(c, k)[i]
  BY <1>1, WrittenOK
<1>4. h \in Seq(Bit) /\ Len(h) = 4
  BY TypeBits DEF PutO
<1> HIDE DEF w, h, m, c
<1>5. /\ h \o w \in Seq(Bit) /\ Len(h \o w) = Len(h) + Len(w)
      /\ \A i \in 1 .. Len(h) : (h \o w)[i] = h[i]
      /\ \A i \in 1 .. Len(w) : (h \o w)[Len(h) + i] = w[i]
  <2>1. h \in Seq(Bit) /\ w \in Seq(Bit)
    BY <1>3, <1>4
  <2> QED BY <2>1, Joined
<1> HIDE DEF all
<1>6. /\ all \in Seq(Bit) /\ Len(all) = 4 + m /\ (\A i \in 1 .. 4 : all[i] = h[i])
      /\ \A i \in 1 .. m : all[4 + i] = w[i]
  BY Zenon, <1>3, <1>4, <1>5 DEF all
<1>7. Len(all) \in 1 .. 40
  BY <1>3, <1>6
<1>8. /\ octs \in Seq(Octet) /\ Len(octs) \in 1 .. 5
      /\ Len(read) \in Nat /\ Len(read) >= Len(all) /\ \A i \in 1 .. Len(all) : read[i] = all[i]
  BY <1>6, <1>7, ReadBack
<1> HIDE DEF octs
<1>9. ParseIpui(octs, 4 + k) = [put |-> PutO, number |-> c]
  <2>1. \A i \in 1 .. 4 : read[0 + i] = Bits(PutO, 4)[i]
    <3>1. \A i \in 1 .. 4 : 0 + i = i /\ i \in 1 .. Len(all)
      BY <1>3, <1>6
    <3> QED BY Zenon, <1>6, <1>8, <3>1 DEF h
  <2>2. \A i \in 1 .. k : read[4 + i] = Bits(c, k)[i]
    <3>1. \A i \in 1 .. k : 4 + i \in 1 .. Len(all) /\ i \in 1 .. m
      <4>1. k \in 0 .. 31 /\ m \in 4 .. 31 /\ k <= m
        BY Zenon, <1>1, <1>3
      <4>2. \A i \in 1 .. k : 4 + i \in 1 .. 4 + m /\ i \in 1 .. m
        BY <4>1
      <4>3. Len(all) = 4 + m
        BY Zenon, <1>6
      <4> QED BY Zenon, <4>2, <4>3
    <3> QED BY Zenon, <1>3, <1>6, <1>8, <3>1
  <2>3. Len(read) \in Nat /\ 0 + 4 <= Len(read) /\ 4 + k <= Len(read)
    BY <1>1, <1>3, <1>6, <1>8
  <2> HIDE DEF read
  <2>4. Field(read, 0, 4) = PutO
    <3>1. PutO \in Nat /\ PutO < 2^4
      BY TypeBits DEF PutO
    <3>2. 0 \in Nat /\ 4 \in 0 .. 31
      OBVIOUS
    <3> QED BY <2>1, <2>3, <3>1, <3>2, FieldOK
  <2>5. Field(read, 4, k) = c
    <3>1. 4 \in Nat
      OBVIOUS
    <3> QED BY <1>1, <2>2, <2>3, <3>1, FieldOK
  <2>6. (4 + k) - 4 = k
    BY <1>1
  <2>7. Field(ToBits(octs), 0, 4) = PutO /\ Field(ToBits(octs), 4, (4 + k) - 4) = c
    BY Zenon, <2>4, <2>5, <2>6 DEF read
  <2>8. PutO # PutN
    BY DEF PutO, PutN
  <2>9. ~ (4 + k < 4)
    BY <1>1
  <2> QED BY Zenon, <2>7, <2>8, <2>9 DEF ParseIpui
<1> HIDE DEF x
<1>10. b.len = 4 + k /\ b.octets = octs
  BY <1>2
<1>11. b = BuildIpui([put |-> PutO, number |-> n])
  BY Zenon DEF b, x
<1> QED
  BY Zenon, <1>1, <1>8, <1>9, <1>10, <1>11 DEF k, c

-----------------------------------------------------------------------------
(* The equipment identity *)

\* The manufacturer has 16 bits, the serial number 20.
LEMMA IpeiTyped ==
    ASSUME NEW ipei \in Ipei
    PROVE  /\ ipei.emc \in Nat /\ ipei.emc < 2^16 /\ ipei.emc \in Word
           /\ ipei.psn \in Nat /\ ipei.psn < 2^20
           /\ ipei = [emc |-> ipei.emc, psn |-> ipei.psn]
<1>1. ipei.emc \in Word /\ ipei.psn \in 0 .. (2^PsnWidth - 1)
      /\ ipei = [emc |-> ipei.emc, psn |-> ipei.psn]
  BY DEF Ipei
<1>2. ipei.emc \in Nat /\ ipei.emc < 65536
  BY <1>1, WordIs
<1>3. 2^16 = 65536
  BY SMT
<1>4. ipei.emc < 2^16
  BY SMT, <1>2, <1>3
<1>5. 20 \in 0 .. 31
  OBVIOUS
<1>6. 2^20 \in Nat /\ 2^20 >= 1
  BY <1>5, Power
<1>7. ipei.psn \in 0 .. (2^20 - 1)
  BY <1>1 DEF PsnWidth
<1> DEFINE p == 2^20
           x == ipei.psn
<1>8. p \in Nat /\ p >= 1 /\ x \in 0 .. (p - 1)
  BY Zenon, <1>6, <1>7
<1> HIDE DEF p, x
<1>9. x \in Nat /\ x < p
  BY ONLY <1>8
<1>10. ipei.emc \in Nat
  BY <1>2
<1> QED BY Zenon, <1>1, <1>4, <1>9, <1>10 DEF p, x

\* 40 bits: the type, the manufacturer's code and the serial number
EquipmentBits(ipei) == Bits(PutN, 4) \o BuildIpei(ipei)

\* The bits of an equipment identity, type first
LEMMA EquipmentBitsOK ==
    ASSUME NEW ipei \in Ipei
    PROVE  LET all == EquipmentBits(ipei) IN
           /\ all \in Seq(Bit) /\ Len(all) = 40
           /\ \A i \in 1 .. 4 : all[i] = Bits(PutN, 4)[i]
           /\ \A i \in 1 .. 16 : all[4 + i] = Bits(ipei.emc, 16)[i]
           /\ \A i \in 1 .. 20 : all[20 + i] = Bits(ipei.psn, 20)[i]
<1> DEFINE h == Bits(PutN, 4)
           s == Bits(ipei.emc, 16)
           t == Bits(ipei.psn, 20)
           st == s \o t
           all == h \o st
<1>1. h \in Seq(Bit) /\ Len(h) = 4
  BY TypeBits DEF PutN
<1>2. s \in Seq(Bit) /\ Len(s) = 16 /\ t \in Seq(Bit) /\ Len(t) = 20
  <2>1. ipei.emc \in Nat /\ ipei.psn \in Nat /\ 16 \in 0 .. 31 /\ 20 \in 0 .. 31
    BY IpeiTyped
  <2> QED BY <2>1, BitsOK
<1>3. EquipmentBits(ipei) = all
  BY DEF EquipmentBits, BuildIpei, PsnWidth
<1> HIDE DEF h, s, t
<1>4. /\ s \o t \in Seq(Bit) /\ Len(s \o t) = Len(s) + Len(t)
      /\ \A i \in 1 .. Len(s) : (s \o t)[i] = s[i]
      /\ \A i \in 1 .. Len(t) : (s \o t)[Len(s) + i] = t[i]
  <2>1. s \in Seq(Bit) /\ t \in Seq(Bit)
    BY <1>2
  <2> QED BY <2>1, Joined
<1> HIDE DEF st
<1>5. /\ h \o st \in Seq(Bit) /\ Len(h \o st) = Len(h) + Len(st)
      /\ \A i \in 1 .. Len(h) : (h \o st)[i] = h[i]
      /\ \A i \in 1 .. Len(st) : (h \o st)[Len(h) + i] = st[i]
  <2>1. h \in Seq(Bit) /\ st \in Seq(Bit)
    BY <1>1, <1>4 DEF st
  <2> QED BY <2>1, Joined
<1> HIDE DEF all
<1>6. 16 + 20 = 36 /\ 4 + 36 = 40
  OBVIOUS
<1>7. /\ Len(st) = 36 /\ (\A i \in 1 .. 16 : st[i] = s[i]) /\ \A i \in 1 .. 20 : st[16 + i] = t[i]
  BY ZenonT(40), <1>2, <1>4, <1>6 DEF st
<1>8. /\ all \in Seq(Bit) /\ Len(all) = 40 /\ (\A i \in 1 .. 4 : all[i] = h[i])
      /\ \A i \in 1 .. 36 : all[4 + i] = st[i]
  BY Zenon, <1>1, <1>5, <1>6, <1>7 DEF all
<1>9. \A i \in 1 .. 16 : all[4 + i] = s[i]
  <2>1. \A i \in 1 .. 16 : i \in 1 .. 36
    OBVIOUS
  <2> QED BY Zenon, <1>7, <1>8, <2>1
<1>10. \A i \in 1 .. 20 : all[20 + i] = t[i]
  <2> SUFFICES ASSUME NEW i \in 1 .. 20 PROVE all[20 + i] = t[i]
    OBVIOUS
  <2>1. 16 + i \in 1 .. 36 /\ 4 + (16 + i) = 20 + i
    OBVIOUS
  <2>2. all[4 + (16 + i)] = st[16 + i] /\ st[16 + i] = t[i]
    BY <1>7, <1>8, <2>1
  <2> QED BY <2>1, <2>2
<1> QED
  BY Zenon, <1>3, <1>8, <1>9, <1>10 DEF h, s, t

\* An equipment identity is read as it was built.
LEMMA EquipmentRead ==
    ASSUME NEW ipei \in Ipei
    PROVE  LET b == BuildIpui([put |-> PutN, ipei |-> ipei]) IN
           /\ b.len = 40 /\ b.octets \in Seq(Octet) /\ Len(b.octets) \in 1 .. 5
           /\ ParseIpui(b.octets, b.len) = [put |-> PutN, ipei |-> ipei]
<1> DEFINE all == EquipmentBits(ipei)
           octs == ToOctets(all)
           x == [put |-> PutN, ipei |-> ipei]
           b == BuildIpui(x)
           read == ToBits(octs)
           part == SubSeq(read, 5, 40)
<1>1. b = [len |-> 40, octets |-> octs]
  <2>1. x.put = PutN /\ x.ipei = ipei
    OBVIOUS
  <2>2. BuildIpui(x) = [len |-> 40, octets |-> ToOctets(Bits(PutN, 4) \o BuildIpei(ipei))]
    <3> HIDE DEF x
    <3> DEFINE f == x.put
               g == ToOctets(Bits(PutN, 4) \o BuildIpei(x.ipei))
               len == BitLength(x.number)
               bits == Bits(x.number, len) \o Zeros(IF len < 4 THEN 4 - len ELSE 0)
               n == [len |-> 4 + len, octets |-> ToOctets(Bits(PutO, 4) \o Written(bits))]
               r == BuildIpui(x)
    <3>1. r = CASE f = PutN -> [len |-> 40, octets |-> g]
                [] f = PutO -> n
                [] OTHER -> [len |-> 0, octets |-> <<>>]
      BY DEF BuildIpui
    <3>2. f = PutN /\ PutN # PutO
      BY <2>1 DEF PutN, PutO
    <3> HIDE DEF f, g, n, r
    <3>3. r = [len |-> 40, octets |-> g]
      BY <3>1, <3>2
    <3> QED BY Zenon, <2>1, <3>3 DEF r, g
  <2> QED BY Zenon, <2>2 DEF EquipmentBits
<1>2. /\ all \in Seq(Bit) /\ Len(all) = 40
      /\ \A i \in 1 .. 4 : all[i] = Bits(PutN, 4)[i]
      /\ \A i \in 1 .. 16 : all[4 + i] = Bits(ipei.emc, 16)[i]
      /\ \A i \in 1 .. 20 : all[20 + i] = Bits(ipei.psn, 20)[i]
  BY EquipmentBitsOK
<1> HIDE DEF all, b, x
<1>3. Len(all) \in 1 .. 40
  BY <1>2
<1>4. /\ octs \in Seq(Octet) /\ Len(octs) \in 1 .. 5
      /\ read \in Seq(Bit) /\ Len(read) = 40 /\ \A i \in 1 .. 40 : read[i] = all[i]
  <2>1. /\ octs \in Seq(Octet) /\ Len(octs) \in 1 .. 5
        /\ read \in Seq(Bit) /\ (Len(all) = 40 => Len(read) = 40)
        /\ \A i \in 1 .. Len(all) : read[i] = all[i]
    BY <1>2, <1>3, ReadBack
  <2> QED BY Zenon, <1>2, <2>1
<1> HIDE DEF octs, read
<1>5. Len(part) = 36 /\ \A i \in 1 .. 36 : part[i] = read[i + 4]
  BY <1>4
<1> HIDE DEF part
<1>6. Field(read, 0, 4) = PutN
  <2>1. \A i \in 1 .. 4 : read[0 + i] = Bits(PutN, 4)[i]
    <3>1. \A i \in 1 .. 4 : 0 + i = i /\ i \in 1 .. 40
      OBVIOUS
    <3> QED BY Zenon, <1>2, <1>4, <3>1
  <2>2. PutN \in Nat /\ PutN < 2^4
    BY TypeBits DEF PutN
  <2>3. 0 \in Nat /\ 4 \in 0 .. 31 /\ Len(read) \in Nat /\ 0 + 4 <= Len(read)
    BY <1>4
  <2> QED BY <2>1, <2>2, <2>3, FieldOK
<1>7. Field(part, 0, 16) = ipei.emc
  <2>1. \A i \in 1 .. 16 : part[0 + i] = Bits(ipei.emc, 16)[i]
    <3> SUFFICES ASSUME NEW i \in 1 .. 16 PROVE part[0 + i] = Bits(ipei.emc, 16)[i]
      OBVIOUS
    <3>1. 0 + i = i /\ i \in 1 .. 36 /\ i + 4 = 4 + i /\ 4 + i \in 1 .. 40
      OBVIOUS
    <3>2. part[i] = read[i + 4] /\ read[4 + i] = all[4 + i]
      BY <1>4, <1>5, <3>1
    <3>3. all[4 + i] = Bits(ipei.emc, 16)[i]
      BY <1>2
    <3> QED BY Zenon, <3>1, <3>2, <3>3
  <2>2. 0 \in Nat /\ 16 \in 0 .. 31 /\ Len(part) \in Nat /\ 0 + 16 <= Len(part)
    BY <1>5
  <2>3. ipei.emc \in Nat /\ ipei.emc < 2^16
    BY IpeiTyped
  <2> QED BY <2>1, <2>2, <2>3, FieldOK
<1>8. Field(part, 16, 20) = ipei.psn
  <2>1. \A i \in 1 .. 20 : part[16 + i] = Bits(ipei.psn, 20)[i]
    <3> SUFFICES ASSUME NEW i \in 1 .. 20 PROVE part[16 + i] = Bits(ipei.psn, 20)[i]
      OBVIOUS
    <3>1. 16 + i \in 1 .. 36 /\ (16 + i) + 4 = 20 + i /\ 20 + i \in 1 .. 40
      OBVIOUS
    <3>2. part[16 + i] = read[(16 + i) + 4] /\ read[20 + i] = all[20 + i]
      BY <1>4, <1>5, <3>1
    <3>3. all[20 + i] = Bits(ipei.psn, 20)[i]
      BY <1>2
    <3> QED BY <3>1, <3>2, <3>3
  <2>2. 16 \in Nat /\ 20 \in 0 .. 31 /\ Len(part) \in Nat /\ 16 + 20 <= Len(part)
    BY <1>5
  <2>3. ipei.psn \in Nat /\ ipei.psn < 2^20
    BY IpeiTyped
  <2> QED BY <2>1, <2>2, <2>3, FieldOK
<1>9. ParseIpei(part) = ipei
  <2>1. ParseIpei(part) = [emc |-> Field(part, 0, 16), psn |-> Field(part, 16, 20)]
    BY DEF ParseIpei, PsnWidth
  <2> QED BY Zenon, <1>7, <1>8, <2>1, IpeiTyped
<1>10. ParseIpui(octs, 40) = [put |-> PutN, ipei |-> ipei]
  <2>1. Field(ToBits(octs), 0, 4) = PutN /\ ParseIpei(SubSeq(ToBits(octs), 5, 40)) = ipei
    BY Zenon, <1>6, <1>9 DEF read, part
  <2>2. ParseIpui(octs, 40) = [put |-> PutN, ipei |-> ParseIpei(SubSeq(ToBits(octs), 5, 40))]
    <3> DEFINE f == Field(ToBits(octs), 0, 4)
               g == ParseIpei(SubSeq(ToBits(octs), 5, 40))
               n == Field(ToBits(octs), 4, 40 - 4)
               r == ParseIpui(octs, 40)
    <3>1. r = IF 40 < 4 THEN [put |-> PutN, ipei |-> [emc |-> 0, psn |-> 0]]
              ELSE CASE f = PutN /\ 40 = 40 -> [put |-> f, ipei |-> g]
                     [] f = PutN /\ 40 # 40 -> [put |-> f, ipei |-> [emc |-> 0, psn |-> 0]]
                     [] f = PutO -> [put |-> f, number |-> n]
                     [] OTHER -> [put |-> f]
      BY DEF ParseIpui
    <3>2. f = PutN /\ PutN # PutO
      BY <2>1 DEF PutN, PutO
    <3> HIDE DEF f, g, n, r
    <3>3. r = [put |-> PutN, ipei |-> g]
      BY <3>1, <3>2
    <3> QED BY Zenon, <3>3 DEF r, g
  <2> QED BY Zenon, <2>1, <2>2
<1>11. b.len = 40 /\ b.octets = octs
  BY <1>1
<1>12. b = BuildIpui([put |-> PutN, ipei |-> ipei])
  BY Zenon DEF b, x
<1> QED
  BY Zenon, <1>4, <1>10, <1>11, <1>12

-----------------------------------------------------------------------------
(* The assigned individual TPUI *)

\* The number that a sequence of five digits stands for
LEMMA FiveDigits ==
    ASSUME NEW base \in Nat, NEW d, Len(d) = 5, \A i \in 1 .. 5 : d[i] \in Nat
    PROVE  \E v1, v2, v3, v4 \in Nat :
              /\ v1 = d[1] /\ v2 = base * v1 + d[2] /\ v3 = base * v2 + d[3]
              /\ v4 = base * v3 + d[4] /\ Positional(base, d) = base * v4 + d[5]
<1>1. Len(d) \in Nat
  OBVIOUS
<1>2. PICK f : Value0(base, d, f) /\ Positional(base, d) = f[Len(d)]
  BY <1>1, PositionalOK
<1>3. f[0] = 0 /\ \A n \in 1 .. 5 : f[n] = base * f[n - 1] + d[n]
  BY <1>2 DEF Value0
<1>4. f[1] = base * f[0] + d[1] /\ f[2] = base * f[1] + d[2] /\ f[3] = base * f[2] + d[3]
      /\ f[4] = base * f[3] + d[4] /\ f[5] = base * f[4] + d[5]
  <2>1. 1 - 1 = 0 /\ 2 - 1 = 1 /\ 3 - 1 = 2 /\ 4 - 1 = 3 /\ 5 - 1 = 4
        /\ 1 \in 1 .. 5 /\ 2 \in 1 .. 5 /\ 3 \in 1 .. 5 /\ 4 \in 1 .. 5 /\ 5 \in 1 .. 5
    OBVIOUS
  <2> QED BY Zenon, <1>3, <2>1
<1>5. d[1] \in Nat /\ d[2] \in Nat /\ d[3] \in Nat /\ d[4] \in Nat /\ d[5] \in Nat
  OBVIOUS
<1>6. base * f[0] = 0
  BY <1>3
<1>7. f[1] = d[1] /\ f[1] \in Nat
  BY <1>4, <1>5, <1>6
<1>8. ASSUME NEW x \in Nat, NEW y \in Nat
      PROVE  base * x + y \in Nat
  OBVIOUS
<1>9. f[2] \in Nat
  BY Zenon, <1>4, <1>5, <1>7, <1>8
<1>10. f[3] \in Nat
  BY Zenon, <1>4, <1>5, <1>9, <1>8
<1>11. f[4] \in Nat
  BY Zenon, <1>4, <1>5, <1>10, <1>8
<1> QED
  BY Zenon, <1>2, <1>4, <1>7, <1>9, <1>10, <1>11

\* 24 bits
Short(n) == n \in Nat /\ n < 16777216

\* A number of 24 bits is three octets.
LEMMA ThreeOctets ==
    ASSUME NEW n, Short(n)
    PROVE  n \div 65536 \in Octet /\ (n \div 256) % 256 \in Octet /\ n % 256 \in Octet
<1>1. n \in Nat /\ n < 16777216
  BY SMT DEF Short
<1>2. n \div 65536 \in Nat /\ n \div 65536 < 256
  BY ONLY SMT, <1>1
<1>3. n \div 256 \in Nat
  BY ONLY SMT, <1>1
<1>4. (n \div 256) % 256 \in 0 .. 255 /\ n % 256 \in 0 .. 255
  BY ONLY SMT, <1>1, <1>3
<1>5. \A m \in Nat : m < 256 => m \in Octet
  BY ONLY SMT DEF Octet
<1>6. \A m \in 0 .. 255 : m \in Octet
  BY ONLY SMT DEF Octet
<1> QED BY ONLY SMT, <1>2, <1>4, <1>5, <1>6

\* A TPUI fits into 24 bits.
LEMMA TpuiShort ==
    ASSUME NEW tpui \in Tpui
    PROVE  Short(BuildTpui(tpui))
<1>1. CASE tpui.type = "assigned"
  <2> DEFINE d == tpui.digits
  <2>1. d \in [1 .. 5 -> 0 .. 15]
    BY <1>1 DEF Tpui
  <2>2. Len(d) = 5 /\ \A i \in 1 .. 5 : d[i] \in 0 .. 15
    BY <2>1
  <2>3. BuildTpui(tpui) = Positional(16, d)
    BY <1>1 DEF BuildTpui
  <2> HIDE DEF d
  <2>4. 16 \in Nat /\ \A i \in 1 .. 5 : d[i] \in Nat
    BY <2>2
  <2>5. PICK v1, v2, v3, v4 \in Nat :
              /\ v1 = d[1] /\ v2 = 16 * v1 + d[2] /\ v3 = 16 * v2 + d[3]
              /\ v4 = 16 * v3 + d[4] /\ Positional(16, d) = 16 * v4 + d[5]
    BY <2>2, <2>4, FiveDigits
  <2>6. d[1] \in 0 .. 15 /\ d[2] \in 0 .. 15 /\ d[3] \in 0 .. 15 /\ d[4] \in 0 .. 15
        /\ d[5] \in 0 .. 15
    BY <2>2
  <2>7. v1 < 16 /\ v2 < 256 /\ v3 < 4096
    <3>1. v1 < 16
      BY <2>5, <2>6
    <3>2. v2 = 16 * v1 + d[2] /\ d[2] \in 0 .. 15 /\ v3 = 16 * v2 + d[3] /\ d[3] \in 0 .. 15
      BY Zenon, <2>5, <2>6
    <3>3. v2 < 256
      BY SMT, <3>1, <3>2
    <3>4. v3 < 4096
      BY SMT, <3>2, <3>3
    <3> QED BY SMT, <3>1, <3>3, <3>4
  <2>8. v4 < 65536
    BY SMT, <2>5, <2>6, <2>7
  <2>9. Positional(16, d) \in Nat /\ Positional(16, d) < 16777216
    BY SMT, <2>5, <2>6, <2>8
  <2> QED BY SMT, <2>3, <2>9 DEF Short
<1>2. CASE tpui.type = "connectionless_group"
  BY SMT, <1>2 DEF BuildTpui, Short
<1>3. CASE tpui.type = "call_group"
  BY SMT, <1>3 DEF BuildTpui, Short
<1>4. CASE tpui.type = "emergency"
  BY SMT, <1>4 DEF BuildTpui, Short
<1>5. CASE tpui.type = "default"
  <2> DEFINE w == tpui.ipui
  <2>1. w \in Word
    BY <1>5 DEF Tpui
  <2>2. w \in Nat /\ w < 65536
    BY SMT, <2>1, WordIs
  <2>3. BuildTpui(tpui) = 917504 + w
    BY SMT, <1>5 DEF BuildTpui
  <2> HIDE DEF w
  <2> QED BY SMT, <2>2, <2>3 DEF Short
<1> QED
  BY <1>1, <1>2, <1>3, <1>4, <1>5 DEF Tpui

-----------------------------------------------------------------------------
(* The identity of a portable part *)

\* The kinds of an IPUI
LEMMA IpuiTyped ==
    ASSUME NEW ipui \in Ipui
    PROVE  \/ ipui.put = PutN /\ ipui.ipei \in Ipei /\ ipui = [put |-> PutN, ipei |-> ipui.ipei]
           \/ /\ ipui.put = PutO /\ ipui.number \in 0 .. MaxNumber
              /\ ipui = [put |-> PutO, number |-> ipui.number]
           \/ ipui.put \in OtherPut
<1>1. CASE ipui \in [put : {PutN}, ipei : Ipei]
  BY <1>1
<1>2. CASE ipui \in [put : {PutO}, number : 0 .. MaxNumber]
  BY <1>2
<1>3. CASE ipui \in [put : OtherPut]
  BY <1>3
<1> QED BY <1>1, <1>2, <1>3 DEF Ipui

\* The octets of an identity are read as the identity without the bits that are lost.
LEMMA IpuiCoded ==
    ASSUME NEW ipui \in Ipui, ipui.put \notin OtherPut
    PROVE  LET b == BuildIpui(ipui)
               p == ParseIpui(b.octets, b.len)
           IN  /\ b.len \in 1 .. 40 /\ b.octets \in Seq(Octet) /\ Len(b.octets) \in 1 .. 5
               /\ p \in Ipui /\ ExactIpui(p) /\ (ExactIpui(ipui) <=> p = ipui)
               /\ p.put = ipui.put
<1> DEFINE b == BuildIpui(ipui)
           p == ParseIpui(b.octets, b.len)
<1>1. CASE ipui.put = PutN
  <2> DEFINE x == ipui.ipei
  <2>1. x \in Ipei /\ ipui = [put |-> PutN, ipei |-> x]
    BY <1>1, IpuiTyped DEF PutN, PutO
  <2>2. b = BuildIpui([put |-> PutN, ipei |-> x])
    BY Zenon, <2>1
  <2> HIDE DEF x
  <2>3. /\ b.len = 40 /\ b.octets \in Seq(Octet) /\ Len(b.octets) \in 1 .. 5
        /\ p = [put |-> PutN, ipei |-> x]
    BY Zenon, <2>1, <2>2, EquipmentRead
  <2> HIDE DEF b, p
  <2>4. p = ipui
    BY Zenon, <2>1, <2>3
  <2>5. ExactIpui(ipui)
    BY <1>1 DEF ExactIpui, PutN, PutO
  <2>6. b.len \in 1 .. 40
    BY <2>3
  <2>7. p \in Ipui /\ ExactIpui(p)
    BY Zenon, <2>4, <2>5
  <2> QED BY Zenon, <2>3, <2>4, <2>5, <2>6, <2>7 DEF b, p
<1>2. CASE ipui.put = PutO
  <2> DEFINE n == ipui.number
             k == BitLength(n)
             c == Cleared(n, Lost(k))
             r == [put |-> PutO, number |-> c]
  <2>1. n \in 0 .. MaxNumber /\ ipui = [put |-> PutO, number |-> n]
    BY <1>2, IpuiTyped DEF PutN, PutO, OtherPut
  <2>2. b = BuildIpui([put |-> PutO, number |-> n])
    BY Zenon, <2>1
  <2> HIDE DEF n
  <2>3. /\ b.len = 4 + k /\ k \in 0 .. 31 /\ b.octets \in Seq(Octet) /\ Len(b.octets) \in 1 .. 5
        /\ p = r
    BY Zenon, <2>1, <2>2, NumberRead
  <2>4. /\ c \in 0 .. MaxNumber /\ BitLength(c) = k
        /\ k <= 4 \/ c % 2^((k - 4) % 8) = 0
        /\ (k <= 4 \/ n % 2^((k - 4) % 8) = 0) <=> c = n
    BY Zenon, <2>1, ClearedKept
  <2> HIDE DEF b, p, c, k
  <2>5. r.put = PutO /\ r.number = c
    OBVIOUS
  <2>51. ipui.put = PutO /\ ipui.number = n
    BY <2>1
  <2> HIDE DEF r
  <2>6. ExactIpui(r)
    BY Zenon, <2>4, <2>5 DEF ExactIpui
  <2>7. ExactIpui(ipui) <=> c = n
    BY Zenon, <2>4, <2>51 DEF ExactIpui, k
  <2>8. r = ipui <=> c = n
    BY <2>1 DEF r
  <2>9. r \in Ipui
    BY Zenon, <2>4 DEF Ipui, r
  <2>10. b.len \in 1 .. 40
    BY <2>3
  <2> QED BY Zenon, <2>3, <2>5, <2>51, <2>6, <2>7, <2>8, <2>9, <2>10 DEF b, p
<1>3. ipui.put = PutN \/ ipui.put = PutO
  BY IpuiTyped
<1> QED
  BY <1>1, <1>2, <1>3

\* The kinds of an identity of a portable part
LEMMA PortableIdentityTyped ==
    ASSUME NEW e \in PortableIdentity
    PROVE  \/ e.type \in {0, 16} /\ e.ipui \in Ipui /\ e = [type |-> e.type, ipui |-> e.ipui]
           \/ e.type = 32 /\ e.tpui \in Tpui /\ e = [type |-> 32, tpui |-> e.tpui]
<1>1. CASE e \in [type : {IdTypeIpui, IdTypeIpei}, ipui : Ipui]
  BY <1>1 DEF IdTypeIpui, IdTypeIpei
<1>2. CASE e \in [type : {IdTypeTpui}, tpui : Tpui]
  BY <1>2 DEF IdTypeTpui
<1> QED BY <1>1, <1>2 DEF PortableIdentity

\* What is parsed of the type, the length and the rest
LEMMA PortableIdentityRead ==
    ASSUME NEW o, NEW x, NEW y, NEW t, NEW n, Read2(o, x, y, t, n), n \in Nat, Ends(x), Ends(y)
    PROVE  ParsePortableIdentity(o) =
              IF Value(x) \in {IdTypeIpui, IdTypeIpei}
              THEN [type |-> Value(x), ipui |-> ParseIpui(t, Value(y))]
              ELSE IF Value(x) = IdTypeTpui THEN [type |-> Value(x), tpui |-> ClearedTpui]
              ELSE Invalid
<1> DEFINE f == ParseIpui(Rest(o, 4), Value(At(o, 3)))
           v == Value(At(o, 2))
           r == ParsePortableIdentity(o)
           a == Ends(At(o, 2))
           b == Ends(At(o, 3))
           m == Len(o)
           els == IF v \in {IdTypeIpui, IdTypeIpei} THEN [type |-> v, ipui |-> f]
                  ELSE IF v = IdTypeTpui THEN [type |-> v, tpui |-> ClearedTpui] ELSE Invalid
<1>1. r = CASE m = 2 -> [type |-> IdTypeIpui, ipui |-> ClearedIpui]
            [] m # 2 /\ (~a \/ ~b) -> Invalid
            [] OTHER -> els
  BY DEF ParsePortableIdentity
<1>2. At(o, 2) = x /\ At(o, 3) = y /\ Rest(o, 4) = t /\ m = n + 4
  BY Zenon DEF Read2
<1>3. m # 2
  BY <1>2
<1>4. a /\ b
  BY Zenon, <1>2
<1>5. els = IF Value(x) \in {IdTypeIpui, IdTypeIpei}
              THEN [type |-> Value(x), ipui |-> ParseIpui(t, Value(y))]
              ELSE IF Value(x) = IdTypeTpui THEN [type |-> Value(x), tpui |-> ClearedTpui]
              ELSE Invalid
  BY Zenon, <1>2
<1> HIDE DEF els, a, b, m, f, v, r
<1>6. r = els
  BY <1>1, <1>3, <1>4
<1> QED BY Zenon, <1>5, <1>6 DEF r

\* The types of a portable identity, as numbers
LEMMA IdTypes ==
    /\ IdTypeIpui = 0 /\ IdTypeIpei = 16 /\ IdTypeTpui = 32
  BY DEF IdTypeIpui, IdTypeIpei, IdTypeTpui

\* dect_build_ipui knows the types N and O only.
LEMMA PortableIdentityNotBuilt ==
    ASSUME NEW e \in PortableIdentity, e.type # IdTypeTpui, e.ipui.put \in OtherPut
    PROVE  BuildPortableIdentity(e) = NotBuilt
<1>1. e.ipui.put # PutN /\ e.ipui.put # PutO
  BY DEF OtherPut, PutN, PutO
<1>2. BuildIpui(e.ipui).len = 0
  <2> DEFINE x == e.ipui
             g == ToOctets(Bits(PutN, 4) \o BuildIpei(x.ipei))
             len == BitLength(x.number)
             bits == Bits(x.number, len) \o Zeros(IF len < 4 THEN 4 - len ELSE 0)
             n == [len |-> 4 + len, octets |-> ToOctets(Bits(PutO, 4) \o Written(bits))]
             r == BuildIpui(x)
             f == x.put
  <2>1. r = CASE f = PutN -> [len |-> 40, octets |-> g]
              [] f = PutO -> n
              [] OTHER -> [len |-> 0, octets |-> <<>>]
    BY DEF BuildIpui
  <2>2. f # PutN /\ f # PutO
    BY <1>1
  <2> HIDE DEF f, g, n, r
  <2>3. r = [len |-> 0, octets |-> <<>>]
    BY <2>1, <2>2
  <2>4. r.len = 0
    BY <2>3
  <2> QED BY Zenon, <2>4 DEF r
<1> DEFINE tpui == BuildTpui(e.tpui)
           a == <<Ended(e.type), Ended(BuildIpui(e.ipui).len)>> \o BuildIpui(e.ipui).octets
           b == <<Ended(e.type), Ended(20), tpui \div 65536, (tpui \div 256) % 256, tpui % 256>>
           r == BuildPortableIdentity(e)
           l == BuildIpui(e.ipui).len
           t == e.type # IdTypeTpui
<1>3. r = CASE t /\ l = 0 -> NotBuilt
            [] t /\ l # 0 -> a
            [] e.type = IdTypeTpui -> b
  BY SMT DEF BuildPortableIdentity
<1>4. t /\ l = 0
  BY <1>2
<1> HIDE DEF a, b, r, l
<1>5. r = NotBuilt
  BY Zenon, <1>3, <1>4
<1> QED BY Zenon, <1>5 DEF r

\* An IPUI arrives without the bits that are lost.
LEMMA PortableUserCoded ==
    ASSUME NEW id, NEW e \in PortableIdentity, e.type # IdTypeTpui, e.ipui.put \notin OtherPut
    PROVE  LET body == BuildPortableIdentity(e)
               p == ParsePortableIdentity(Wrap(id, body))
           IN  /\ Contents(body) /\ p \in PortableIdentity /\ Exact("PORTABLE_IDENTITY", p)
               /\ Exact("PORTABLE_IDENTITY", e) <=> p = e
               /\ p.ipui.put = e.ipui.put
<1> DEFINE body == BuildPortableIdentity(e)
           o == Wrap(id, body)
           p == ParsePortableIdentity(o)
           b == BuildIpui(e.ipui)
           x == Ended(e.type)
           y == Ended(b.len)
           t == b.octets
           q == ParseIpui(t, b.len)
<1>1. e.type \in {0, 16} /\ e.ipui \in Ipui /\ e = [type |-> e.type, ipui |-> e.ipui]
  BY PortableIdentityTyped, IdTypes
<1>2. /\ b.len \in 1 .. 40 /\ t \in Seq(Octet) /\ Len(t) \in 1 .. 5
      /\ q \in Ipui /\ ExactIpui(q) /\ (ExactIpui(e.ipui) <=> q = e.ipui)
      /\ q.put = e.ipui.put
  BY <1>1, IpuiCoded
<1>3. body = <<x, y>> \o t
  <2> DEFINE tpui == BuildTpui(e.tpui)
             a == <<x, y>> \o t
             c == <<Ended(e.type), Ended(20), tpui \div 65536, (tpui \div 256) % 256, tpui % 256>>
             l == b.len
             k == e.type # IdTypeTpui
  <2>1. body = CASE k /\ l = 0 -> NotBuilt
                 [] k /\ l # 0 -> a
                 [] e.type = IdTypeTpui -> c
    BY SMT DEF BuildPortableIdentity
  <2>2. k /\ l # 0
    <3>1. b.len \in 1 .. 40
      BY <1>2
    <3> HIDE DEF b
    <3> QED BY <3>1
  <2> HIDE DEF a, c, body, l
  <2>3. body = a
    BY Zenon, <2>1, <2>2
  <2> QED BY Zenon, <2>3 DEF a
<1> HIDE DEF body, b, q
<1>4. x \in Octet /\ y \in Octet /\ Ends(x) /\ Ends(y) /\ Value(x) = e.type /\ Value(y) = b.len
  <2>1. e.type \in 0 .. 127 /\ b.len \in 0 .. 127
    BY <1>1, <1>2
  <2> QED BY <2>1, SevenBits
<1> HIDE DEF x, y, t
<1> DEFINE n == Len(t)
<1>5. n \in 0 .. 128 /\ n \in Nat
  BY <1>2
<1>6. Head2(body, x, y, t, n)
  BY Zenon, <1>2, <1>3, <1>4, <1>5 DEF Head2
<1>7. Contents(body) /\ Read2(o, x, y, t, n)
  BY <1>6, TextAfter2
<1> HIDE DEF n, o
<1>8. p = [type |-> e.type, ipui |-> q]
  <2>1. p = IF Value(x) \in {IdTypeIpui, IdTypeIpei}
              THEN [type |-> Value(x), ipui |-> ParseIpui(t, Value(y))]
              ELSE IF Value(x) = IdTypeTpui THEN [type |-> Value(x), tpui |-> ClearedTpui]
              ELSE Invalid
    BY Zenon, <1>4, <1>5, <1>7, PortableIdentityRead
  <2>2. e.type \in {IdTypeIpui, IdTypeIpei}
    BY <1>1, IdTypes
  <2>3. ParseIpui(t, Value(y)) = q
    BY Zenon, <1>4 DEF q, t
  <2> HIDE DEF p
  <2> QED BY Zenon, <1>4, <2>1, <2>2, <2>3
<1> HIDE DEF p
<1>9. p \in PortableIdentity
  <2>1. e.type \in {IdTypeIpui, IdTypeIpei}
    BY <1>1, IdTypes
  <2> QED BY <1>2, <1>8, <2>1 DEF PortableIdentity
<1>10. p.type = e.type /\ p.ipui = q
  BY <1>8
<1>11. Exact("PORTABLE_IDENTITY", p)
  BY <1>2, <1>10 DEF Exact
<1>12. Exact("PORTABLE_IDENTITY", e) <=> ExactIpui(e.ipui)
  BY DEF Exact
<1>13. p = e <=> q = e.ipui
  <2>1. p = e => p.ipui = e.ipui
    BY Zenon
  <2> QED BY Zenon, <1>1, <1>8, <1>10, <2>1
<1> QED
  BY Zenon, <1>2, <1>7, <1>9, <1>10, <1>11, <1>12, <1>13 DEF body, p, o

\* A TPUI is not read: what arrives is the cleared one.
LEMMA TemporaryCoded ==
    ASSUME NEW id, NEW e \in PortableIdentity, e.type = IdTypeTpui
    PROVE  LET body == BuildPortableIdentity(e)
               p == ParsePortableIdentity(Wrap(id, body))
           IN  /\ Contents(body) /\ p \in PortableIdentity /\ Exact("PORTABLE_IDENTITY", p)
               /\ Exact("PORTABLE_IDENTITY", e) <=> p = e
               /\ p.type = IdTypeTpui
<1> DEFINE body == BuildPortableIdentity(e)
           o == Wrap(id, body)
           p == ParsePortableIdentity(o)
           u == BuildTpui(e.tpui)
           x == Ended(e.type)
           y == Ended(20)
           z1 == u \div 65536
           z2 == (u \div 256) % 256
           z3 == u % 256
<1>1. e.type = 32 /\ e.tpui \in Tpui /\ e = [type |-> 32, tpui |-> e.tpui]
  BY PortableIdentityTyped, IdTypes
<1>2. z1 \in Octet /\ z2 \in Octet /\ z3 \in Octet
  <2>1. Short(u)
    BY <1>1, TpuiShort
  <2> HIDE DEF u
  <2> QED BY <2>1, ThreeOctets
<1>3. body = <<x, y, z1, z2, z3>>
  <2> DEFINE a == <<x, Ended(BuildIpui(e.ipui).len)>> \o BuildIpui(e.ipui).octets
             c == <<x, y, z1, z2, z3>>
             l == BuildIpui(e.ipui).len
             k == e.type # IdTypeTpui
  <2>1. body = CASE k /\ l = 0 -> NotBuilt
                 [] k /\ l # 0 -> a
                 [] e.type = IdTypeTpui -> c
    BY SMT DEF BuildPortableIdentity
  <2> HIDE DEF a, c, body, l
  <2>3. body = c
    BY <2>1
  <2> QED BY SMT, <2>3 DEF c
<1> HIDE DEF body, u, z1, z2, z3
<1>4. x \in Octet /\ y \in Octet /\ Ends(x) /\ Ends(y) /\ Value(x) = 32 /\ Value(y) = 20
  <2>1. e.type \in 0 .. 127 /\ 20 \in 0 .. 127
    BY <1>1
  <2> QED BY <1>1, <2>1, SevenBits
<1> HIDE DEF x, y
<1>5. /\ body \in Seq(Octet) /\ Len(body) = 5
      /\ At(body, 0) = x /\ At(body, 1) = y
  BY <1>2, <1>3, <1>4 DEF At
<1>6. Contents(body)
  BY <1>5 DEF Contents
<1> DEFINE t == Rest(o, 4)
<1>7. Read2(o, x, y, t, 3)
  <2>1. At(o, 2) = x /\ At(o, 3) = y
    BY <1>5, WrappedAt
  <2>2. Len(o) = Len(body) + 2
    BY <1>5, Wrapped
  <2>3. Len(o) = 3 + 4
    BY <1>5, <2>2
  <2> QED BY Zenon, <2>1, <2>3 DEF Read2
<1> HIDE DEF o, t
<1>8. p = [type |-> 32, tpui |-> ClearedTpui]
  <2>1. p = IF Value(x) \in {IdTypeIpui, IdTypeIpei}
              THEN [type |-> Value(x), ipui |-> ParseIpui(t, Value(y))]
              ELSE IF Value(x) = IdTypeTpui THEN [type |-> Value(x), tpui |-> ClearedTpui]
              ELSE Invalid
    <3>1. 3 \in Nat
      OBVIOUS
    <3> QED BY Zenon, <1>4, <1>7, <3>1, PortableIdentityRead
  <2>2. 32 \notin {IdTypeIpui, IdTypeIpei} /\ 32 = IdTypeTpui
    BY IdTypes
  <2> HIDE DEF p
  <2> QED BY <1>4, <2>1, <2>2
<1> HIDE DEF p
<1>9. ClearedTpui \in Tpui
  BY DEF ClearedTpui, Tpui
<1>10. p \in PortableIdentity
  BY <1>8, <1>9, IdTypes DEF PortableIdentity
<1>11. p.type = IdTypeTpui /\ p.tpui = ClearedTpui
  BY <1>8, IdTypes
<1>12. Exact("PORTABLE_IDENTITY", p)
  BY <1>11 DEF Exact
<1>13. Exact("PORTABLE_IDENTITY", e) <=> e.tpui = ClearedTpui
  BY DEF Exact
<1>14. p = e <=> e.tpui = ClearedTpui
  <2>1. p = e => p.tpui = e.tpui
    BY Zenon
  <2> QED BY Zenon, <1>1, <1>8, <1>11, <2>1
<1> QED
  BY Zenon, <1>6, <1>10, <1>11, <1>12, <1>13, <1>14 DEF body, p, o

-----------------------------------------------------------------------------
(* Groups of octets that end with bit 8, and those of a terminal capability *)

\* k octets from data[n] are a group.
Group(o, n, max, k) ==
    /\ \A i \in 1 .. (k - 1) : ~ Ends(At(o, n + i - 1))
    /\ k = max \/ Ends(At(o, n + k - 1))

\* A group ends at the first octet with bit 8, or at its largest length.
LEMMA GroupLenOK ==
    ASSUME NEW o, NEW n \in Nat, NEW max \in Nat, max >= 1
    PROVE  GroupLen(o, n, max) \in 1 .. max /\ Group(o, n, max, GroupLen(o, n, max))
<1> DEFINE T == {k \in 1 .. max : k = max \/ Ends(At(o, n + k - 1))}
<1>1. T \subseteq Nat /\ max \in T
  OBVIOUS
<1>2. PICK k \in T : \A y \in T : k <= y
  <2>1. T \subseteq Nat /\ T # {}
    <3>1. T # {}
      BY <1>1
    <3> HIDE DEF T
    <3> QED BY <1>1, <3>1
  <2> HIDE DEF T
  <2> QED BY <2>1, LeastNat
<1>3. k \in 1 .. max /\ (k = max \/ Ends(At(o, n + k - 1)))
  OBVIOUS
<1>4. ASSUME NEW i \in 1 .. (k - 1)
      PROVE  ~ Ends(At(o, n + i - 1))
  <2>1. i \in 1 .. max /\ ~ (k <= i)
    BY <1>3
  <2> QED BY <1>2, <2>1
<1>5. \E j \in 1 .. max : Group(o, n, max, j)
  BY Zenon, <1>3, <1>4 DEF Group
<1>6. GroupLen(o, n, max) = CHOOSE j \in 1 .. max : Group(o, n, max, j)
  BY Zenon DEF GroupLen, Group
<1> QED BY Zenon, <1>5, <1>6

\* A group has one length only.
LEMMA GroupUnique ==
    ASSUME NEW o, NEW n \in Nat, NEW max \in Nat, NEW k \in 1 .. max, Group(o, n, max, k)
    PROVE  GroupLen(o, n, max) = k
<1> DEFINE g == GroupLen(o, n, max)
<1>1. max >= 1
  OBVIOUS
<1>2. g \in 1 .. max /\ Group(o, n, max, g)
  BY <1>1, GroupLenOK
<1> HIDE DEF g
<1>3. ASSUME NEW a \in 1 .. max, NEW b \in 1 .. max, Group(o, n, max, a), Group(o, n, max, b),
             a < b
      PROVE  FALSE
  <2>1. a # max /\ a \in 1 .. (b - 1)
    BY <1>3
  <2> QED BY Zenon, <1>3, <2>1 DEF Group
<1> QED BY <1>2, <1>3 DEF g

\* What is beyond the end of a group is read as zero.
LEMMA InGroupOK ==
    ASSUME NEW o \in Seq(Octet), NEW n \in Nat, NEW len \in Nat, NEW i \in Nat, i >= 1
    PROVE  /\ InGroup(o, n, len, i) \in Octet
           /\ i <= len => InGroup(o, n, len, i) = At(o, n + i - 1)
           /\ i > len => InGroup(o, n, len, i) = 0
<1>1. n + i - 1 \in Nat
  OBVIOUS
<1>2. At(o, n + i - 1) \in Octet
  BY <1>1, AtOctet
<1>3. 0 \in Octet
  BY DEF Octet
<1> QED BY <1>2, <1>3 DEF InGroup

\* The three groups of a terminal capability: the first one ends between the
\* octets 5 and 9 of the element, all before octet 13.
Groups(o) ==
    /\ o \in Seq(Octet) /\ Len(o) = 13
    /\ ~ Ends(At(o, 2)) /\ ~ Ends(At(o, 3)) /\ ~ Ends(At(o, 4))
    /\ Ends(At(o, 9)) /\ Ends(At(o, 10)) /\ ~ Ends(At(o, 11)) /\ Ends(At(o, 12))

Third(o) == GroupLen(o, 2, 8)
Fourth(o) == GroupLen(o, 2 + Third(o), ProfileLen)
Fifth(o) == 2 + Third(o) + Fourth(o)
Sixth(o) == Fifth(o) + GroupLen(o, Fifth(o), 2)

\* Where the groups of a terminal capability can end
LEMMA GroupsOK ==
    ASSUME NEW o, Groups(o)
    PROVE  /\ Third(o) \in 4 .. 8 /\ Fourth(o) \in 1 .. 4 /\ Fifth(o) \in 7 .. 11
           /\ Sixth(o) \in 8 .. 13
           /\ Sixth(o) = Len(o) \/ Ends(At(o, Sixth(o))) \/ Ends(At(o, Sixth(o) + 1))
<1> DEFINE a == Third(o)
           s == 2 + a
           b == Fourth(o)
           c == GroupLen(o, Fifth(o), 2)
<1>0. /\ Len(o) = 13
      /\ ~ Ends(At(o, 2)) /\ ~ Ends(At(o, 3)) /\ ~ Ends(At(o, 4))
      /\ Ends(At(o, 9)) /\ Ends(At(o, 10)) /\ Ends(At(o, 12))
  BY DEF Groups
<1>1. a \in 1 .. 8 /\ Group(o, 2, 8, a)
  BY GroupLenOK DEF Third
<1>2. a \in 4 .. 8
  <2>1. a # 1
    <3> SUFFICES ASSUME a = 1 PROVE FALSE
      OBVIOUS
    <3>1. a # 8 /\ 2 + a - 1 = 2
      OBVIOUS
    <3> QED BY Zenon, <1>0, <1>1, <3>1 DEF Group
  <2>2. a # 2
    <3> SUFFICES ASSUME a = 2 PROVE FALSE
      OBVIOUS
    <3>1. a # 8 /\ 2 + a - 1 = 3
      OBVIOUS
    <3> QED BY Zenon, <1>0, <1>1, <3>1 DEF Group
  <2>3. a # 3
    <3> SUFFICES ASSUME a = 3 PROVE FALSE
      OBVIOUS
    <3>1. a # 8 /\ 2 + a - 1 = 4
      OBVIOUS
    <3> QED BY Zenon, <1>0, <1>1, <3>1 DEF Group
  <2> HIDE DEF a
  <2> QED BY <1>1, <2>1, <2>2, <2>3
<1>3. b \in 1 .. 8 /\ Group(o, s, 8, b)
  <2>1. s \in Nat /\ 8 \in Nat /\ 8 >= 1
    BY <1>2
  <2>2. b = GroupLen(o, s, 8)
    BY DEF Fourth, ProfileLen
  <2> HIDE DEF s, b
  <2> QED BY <2>1, <2>2, GroupLenOK
<1> HIDE DEF a, b
<1>4. b \in 1 .. 4 /\ s + b \in 7 .. 11
  <2>0. \A i \in 1 .. (b - 1) : ~ Ends(At(o, s + i - 1))
    BY Zenon, <1>3 DEF Group
  <2>1. CASE s \in 6 .. 9
    <3>1. ~ (s + b >= 11)
      <4> SUFFICES ASSUME s + b >= 11 PROVE FALSE
        OBVIOUS
      <4> DEFINE i == 10 - s
      <4>1. i \in 1 .. (b - 1) /\ s + i - 1 = 9
        BY <1>3, <2>1
      <4> QED BY Zenon, <1>0, <2>0, <4>1
    <3> QED BY <1>3, <2>1, <3>1
  <2>2. CASE s = 10
    <3>1. ~ (b >= 2)
      <4> SUFFICES ASSUME b >= 2 PROVE FALSE
        OBVIOUS
      <4>1. 1 \in 1 .. (b - 1) /\ s + 1 - 1 = 10
        BY <1>3, <2>2
      <4> QED BY Zenon, <1>0, <2>0, <4>1
    <3> QED BY <1>3, <2>2, <3>1
  <2> QED BY <1>2, <2>1, <2>2
<1>5. Fifth(o) = s + b
  BY DEF Fifth, a, b
<1>6. c \in 1 .. 2
  <2>1. Fifth(o) \in Nat /\ 2 \in Nat /\ 2 >= 1
    BY <1>4, <1>5
  <2> QED BY <2>1, GroupLenOK
<1>7. Sixth(o) = Fifth(o) + c
  BY DEF Sixth
<1> HIDE DEF c
<1>8. Fifth(o) \in 7 .. 11 /\ Sixth(o) \in 8 .. 13
  BY <1>4, <1>5, <1>6, <1>7
<1>9. Sixth(o) = Len(o) \/ Ends(At(o, Sixth(o))) \/ Ends(At(o, Sixth(o) + 1))
  <2> DEFINE x == Sixth(o)
  <2>1. x \in 8 .. 13
    BY <1>8
  <2> HIDE DEF x
  <2>2. x = 8 \/ x = 9 \/ x = 10 \/ x = 11 \/ x = 12 \/ x = 13
    BY <2>1
  <2>3. (x = 8 => x + 1 = 9) /\ (x = 11 => x + 1 = 12)
    OBVIOUS
  <2>4. x = Len(o) \/ Ends(At(o, x)) \/ Ends(At(o, x + 1))
    BY Zenon, <1>0, <2>2, <2>3
  <2> QED BY Zenon, <2>4 DEF x
<1> QED
  BY Zenon, <1>2, <1>4, <1>8, <1>9 DEF a, b

-----------------------------------------------------------------------------
(* The terminal capability: what is built *)

\* The values of a capability that was parsed
AnyTerminal ==
    [tone : 0 .. 7, echo : 0 .. 7, noise_rejection : 0 .. 3, volume_ctrl : 0 .. 3,
     slot : 0 .. 127, display : 0 .. 15, display_memory : Word, display_lines : Octet,
     display_columns : Octet, display_control : 0 .. 7, display_charsets : 0 .. 127,
     scrolling : 0 .. 127,
     profile_indicator : {p \in [1 .. ProfileLen -> 0 .. 127] : p[ProfileLen] = 0}]

\* Only the first octet of the profile is built.
LEMMA ProfileBuilt ==
    ASSUME NEW p \in [1 .. 8 -> 0 .. 127], p[8] = 0
    PROVE  ProfileOctets(p) = <<Ended(p[1])>>
<1> DEFINE last == {i \in 1 .. ProfileLen : \A j \in (ProfileLen + 1 - i) .. ProfileLen : p[j] = 0}
           m == CHOOSE i \in last : \A j \in last : i <= j
           s == SubSeq(p, 1, 1)
<1>1. 1 \in last /\ last # {}
  <2>1. ASSUME NEW j \in (8 + 1 - 1) .. 8
        PROVE  p[j] = 0
    <3>1. j = 8
      OBVIOUS
    <3> QED BY <3>1
  <2>2. 1 \in last
    BY <2>1 DEF ProfileLen
  <2> HIDE DEF last
  <2> QED BY <2>2
<1>2. \A j \in last : j \in 1 .. 8
  BY DEF ProfileLen
<1>3. m = 1
  <2> HIDE DEF last
  <2>1. \E i \in last : \A j \in last : i <= j
    <3>1. \A j \in last : 1 <= j
      BY <1>2
    <3> QED BY <1>1, <3>1
  <2>2. m \in last /\ \A j \in last : m <= j
    BY Zenon, <2>1
  <2> HIDE DEF m
  <2> QED BY <1>1, <1>2, <2>2
<1>4. ProfileOctets(p) = Finish(SubSeq(p, 1, m))
  BY Zenon, <1>1 DEF ProfileOctets
<1>5. ProfileOctets(p) = Finish(s)
  BY Zenon, <1>3, <1>4
<1>6. s \in Seq(0 .. 127) /\ Len(s) = 1 /\ s[1] = p[1]
  <2>1. p \in Seq(0 .. 127) /\ Len(p) = 8
    <3>1. 8 \in Nat
      OBVIOUS
    <3> DEFINE S == 0 .. 127
    <3>2. p \in [1 .. 8 -> S]
      OBVIOUS
    <3> HIDE DEF S
    <3>3. p \in Seq(S)
      BY ONLY <3>1, <3>2, ArrayIsSeq
    <3>4. Len(p) = 8
      BY ONLY <3>1, <3>2, ArrayIsSeq
    <3> QED BY Zenon, <3>3, <3>4 DEF S
  <2>2. 1 \in Nat /\ 1 <= Len(p) /\ 1 \in 1 .. 1
    BY <2>1
  <2> QED BY <2>1, <2>2, FirstOf
<1> HIDE DEF s
<1>7. Finish(s) = <<Ended(p[1])>>
  <2> DEFINE f == Finish(s)
             a == Ended(p[1])
  <2>1. f = [i \in 1 .. 1 |-> a]
    <3>1. DOMAIN s = 1 .. 1
      BY <1>6
    <3>2. \A i \in 1 .. 1 : i = 1
      OBVIOUS
    <3>3. [i \in 1 .. 1 |-> IF i = Len(s) THEN Ended(s[i]) ELSE s[i]] = [i \in 1 .. 1 |-> a]
      BY Zenon, <1>6, <3>2
    <3> QED BY Zenon, <3>1, <3>3 DEF Finish
  <2> HIDE DEF f, a
  <2>2. f = <<a>>
    BY <2>1
  <2> QED BY Zenon, <2>2 DEF f, a
<1> QED BY Zenon, <1>5, <1>7

\* The fields of a capability
LEMMA TerminalTyped ==
    ASSUME NEW e \in AnyTerminal
    PROVE  /\ e.tone \in 0 .. 7 /\ e.echo \in 0 .. 7 /\ e.noise_rejection \in 0 .. 3
           /\ e.volume_ctrl \in 0 .. 3 /\ e.slot \in 0 .. 127 /\ e.display \in 0 .. 15
           /\ e.display_memory \in Word /\ e.display_lines \in Octet /\ e.display_columns \in Octet
           /\ e.display_control \in 0 .. 7 /\ e.display_charsets \in 0 .. 127
           /\ e.scrolling \in 0 .. 127
           /\ e.profile_indicator \in [1 .. 8 -> 0 .. 127] /\ e.profile_indicator[8] = 0
           /\ e.profile_indicator[1] \in 0 .. 127
<1>1. e.profile_indicator \in {p \in [1 .. 8 -> 0 .. 127] : p[8] = 0}
  BY DEF AnyTerminal, ProfileLen
<1>2. e.profile_indicator \in [1 .. 8 -> 0 .. 127] /\ e.profile_indicator[8] = 0
      /\ e.profile_indicator[1] \in 0 .. 127
  BY <1>1
<1> QED BY <1>2 DEF AnyTerminal

\* The octets of an element that the parser looks at
Eight(s, a, b, c, d, f, g, h, k) ==
    /\ s \in Seq(Octet) /\ Len(s) = 8
    /\ At(s, 0) = a /\ At(s, 1) = b /\ At(s, 2) = c /\ At(s, 3) = d
    /\ At(s, 4) = f /\ At(s, 5) = g /\ At(s, 6) = h /\ At(s, 7) = k

\* Eight octets, one by one
LEMMA EightOK ==
    ASSUME NEW a \in Octet, NEW b \in Octet, NEW c \in Octet, NEW d \in Octet,
           NEW f \in Octet, NEW g \in Octet, NEW h \in Octet, NEW k \in Octet
    PROVE  Eight(<<a, b, c, d, f, g, h, k>>, a, b, c, d, f, g, h, k)
<1> DEFINE s == <<a, b, c, d, f, g, h, k>>
<1>1. s \in Seq(Octet) /\ Len(s) = 8
  OBVIOUS
<1>2. /\ s[0 + 1] = a /\ s[1 + 1] = b /\ s[2 + 1] = c /\ s[3 + 1] = d
      /\ s[4 + 1] = f /\ s[5 + 1] = g /\ s[6 + 1] = h /\ s[7 + 1] = k
  OBVIOUS
<1> HIDE DEF s
<1>3. /\ At(s, 0) = a /\ At(s, 1) = b /\ At(s, 2) = c /\ At(s, 3) = d
      /\ At(s, 4) = f /\ At(s, 5) = g /\ At(s, 6) = h /\ At(s, 7) = k
  BY <1>1, <1>2 DEF At
<1> QED BY Zenon, <1>1, <1>3 DEF Eight, s

\* Eight octets, one and two more
LEMMA Eleven ==
    ASSUME NEW id \in Octet, NEW s, NEW a, NEW b, NEW c, NEW d, NEW f, NEW g, NEW h, NEW k,
           Eight(s, a, b, c, d, f, g, h, k), NEW x \in Octet, NEW y \in Octet, NEW z \in Octet
    PROVE  LET body == s \o <<x>> \o <<y, z>>
               o == Wrap(id, body)
           IN  /\ Contents(body) /\ o \in Seq(Octet) /\ Len(o) = 13
               /\ At(o, 2) = a /\ At(o, 3) = b /\ At(o, 4) = c /\ At(o, 5) = d
               /\ At(o, 6) = f /\ At(o, 7) = g /\ At(o, 8) = h /\ At(o, 9) = k
               /\ At(o, 10) = x /\ At(o, 11) = y /\ At(o, 12) = z
<1> DEFINE t == <<x>>
           u == <<y, z>>
           st == s \o t
           body == st \o u
           o == Wrap(id, body)
<1>1. t \in Seq(Octet) /\ Len(t) = 1 /\ At(t, 0) = x
  BY One
<1>2. u \in Seq(Octet) /\ Len(u) = 2 /\ At(u, 0) = y /\ At(u, 1) = z
  BY Two
<1>3. s \in Seq(Octet) /\ Len(s) = 8
  BY DEF Eight
<1> HIDE DEF t, u
<1>4. /\ st \in Seq(Octet) /\ Len(st) = Len(s) + Len(t)
      /\ \A n \in Nat : n < Len(s) => At(st, n) = At(s, n)
      /\ \A n \in Nat : At(st, Len(s) + n) = At(t, n)
  <2>1. s \in Seq(Octet) /\ t \in Seq(Octet)
    BY <1>1, <1>3
  <2> QED BY <2>1, AtJoined
<1> HIDE DEF st
<1>5. /\ body \in Seq(Octet) /\ Len(body) = Len(st) + Len(u)
      /\ \A n \in Nat : n < Len(st) => At(body, n) = At(st, n)
      /\ \A n \in Nat : At(body, Len(st) + n) = At(u, n)
  <2>1. st \in Seq(Octet) /\ u \in Seq(Octet)
    BY <1>2, <1>4
  <2> QED BY <2>1, AtJoined
<1> HIDE DEF body
<1>6. 8 + 1 = 9 /\ 9 + 2 = 11
  OBVIOUS
<1>7. Len(st) = 9 /\ Len(body) = 11
  BY Zenon, <1>1, <1>2, <1>3, <1>4, <1>5, <1>6
<1>8. ASSUME NEW n \in 0 .. 7
      PROVE  At(body, n) = At(s, n)
  <2>1. n \in Nat /\ n < 8 /\ n < 9
    OBVIOUS
  <2> QED BY Zenon, <1>3, <1>4, <1>5, <1>7, <2>1
<1>9. At(body, 8) = x
  <2>1. 8 \in Nat /\ 8 < 9 /\ 8 + 0 = 8 /\ 0 \in Nat
    OBVIOUS
  <2> QED BY Zenon, <1>1, <1>3, <1>4, <1>5, <1>7, <2>1
<1>10. At(body, 9) = y /\ At(body, 10) = z
  <2>1. 9 + 0 = 9 /\ 0 \in Nat /\ 9 + 1 = 10 /\ 1 \in Nat
    OBVIOUS
  <2> QED BY Zenon, <1>2, <1>5, <1>7, <2>1
<1>11. Contents(body)
  <2>1. 11 \in 1 .. 255
    OBVIOUS
  <2> QED BY Zenon, <1>5, <1>7, <2>1 DEF Contents
<1>12. Len(o) = 13 /\ \A n \in Nat : At(o, n + 2) = At(body, n)
  <2>1. Len(o) = Len(body) + 2 /\ \A n \in Nat : At(o, n + 2) = At(body, n)
    BY <1>5, Wrapped
  <2>2. 11 + 2 = 13
    OBVIOUS
  <2> QED BY Zenon, <1>7, <2>1, <2>2
<1>13. o \in Seq(Octet)
  <2> DEFINE S == Octet
             hh == <<id, Len(body)>>
  <2>1. Len(body) \in Octet
    BY <1>7 DEF Octet
  <2>2. hh \in Seq(S)
    BY <2>1
  <2>3. body \in Seq(S)
    BY <1>5
  <2> HIDE DEF hh, S
  <2>4. hh \o body \in Seq(S)
    BY <2>2, <2>3
  <2> QED BY Zenon, <2>4 DEF hh, S, Wrap
<1> HIDE DEF o
<1>14. /\ At(s, 0) = a /\ At(s, 1) = b /\ At(s, 2) = c /\ At(s, 3) = d
       /\ At(s, 4) = f /\ At(s, 5) = g /\ At(s, 6) = h /\ At(s, 7) = k
  BY Zenon DEF Eight
<1>15. /\ At(body, 0) = a /\ At(body, 1) = b /\ At(body, 2) = c /\ At(body, 3) = d
       /\ At(body, 4) = f /\ At(body, 5) = g /\ At(body, 6) = h /\ At(body, 7) = k
  <2>1. 0 \in 0 .. 7 /\ 1 \in 0 .. 7 /\ 2 \in 0 .. 7 /\ 3 \in 0 .. 7 /\ 4 \in 0 .. 7
        /\ 5 \in 0 .. 7 /\ 6 \in 0 .. 7 /\ 7 \in 0 .. 7
    OBVIOUS
  <2> QED BY Zenon, <1>8, <1>14, <2>1
<1>16. /\ At(o, 2) = a /\ At(o, 3) = b /\ At(o, 4) = c /\ At(o, 5) = d
       /\ At(o, 6) = f /\ At(o, 7) = g /\ At(o, 8) = h /\ At(o, 9) = k
       /\ At(o, 10) = x /\ At(o, 11) = y /\ At(o, 12) = z
  <2>1. /\ 0 \in Nat /\ 0 + 2 = 2 /\ 1 \in Nat /\ 1 + 2 = 3 /\ 2 \in Nat /\ 2 + 2 = 4
        /\ 3 \in Nat /\ 3 + 2 = 5 /\ 4 \in Nat /\ 4 + 2 = 6 /\ 5 \in Nat /\ 5 + 2 = 7
        /\ 6 \in Nat /\ 6 + 2 = 8 /\ 7 \in Nat /\ 7 + 2 = 9 /\ 8 \in Nat /\ 8 + 2 = 10
        /\ 9 \in Nat /\ 9 + 2 = 11 /\ 10 \in Nat /\ 10 + 2 = 12
    OBVIOUS
  <2> QED BY Zenon, <1>9, <1>10, <1>12, <1>15, <2>1
<1> QED
  BY Zenon, <1>11, <1>12, <1>13, <1>16 DEF o, body, st, t, u

-----------------------------------------------------------------------------
(* The terminal capability: what is parsed of three groups *)

\* What is parsed of three groups
ReadTerminal(o) ==
    LET a == Third(o)
        five == Fifth(o)
        three(i) == Value(InGroup(o, 2, a, i))
    IN  [display |-> Low(At(o, 2)), tone |-> High(At(o, 2)), echo |-> High(At(o, 3)),
         noise_rejection |-> (At(o, 3) \div 4) % 4, volume_ctrl |-> At(o, 3) % 4,
         slot |-> Value(At(o, 4)),
         display_memory |-> (IF a >= 5 THEN 128 ELSE 1) * three(4) + three(5),
         display_lines |-> three(6), display_columns |-> three(7), scrolling |-> three(8),
         profile_indicator |-> [i \in 1 .. ProfileLen |-> Value(InGroup(o, 2 + a, Fourth(o), i))],
         display_control |-> At(o, five) % 8,
         display_charsets |-> IF Sixth(o) = five + 2 THEN Value(At(o, five + 1)) ELSE 0]

\* The parser reads the fields at these places.
LEMMA TerminalRead ==
    ASSUME NEW o, Groups(o)
    PROVE  ParseTerminalCapability(o) = ReadTerminal(o)
<1> DEFINE a == Third(o)
           five == Fifth(o)
           six == Sixth(o)
           three(i) == InGroup(o, 2, a, i)
           z(q) == [display |-> Low(q[1]), tone |-> High(q[1]), echo |-> High(q[2]),
         noise_rejection |-> (q[2] \div 4) % 4, volume_ctrl |-> q[2] % 4,
         slot |-> Value(q[3]),
         display_memory |-> (IF a >= 5 THEN 128 ELSE 1) * Value(three(4)) + Value(three(5)),
         display_lines |-> Value(three(6)), display_columns |-> Value(three(7)),
         scrolling |-> Value(three(8)),
         profile_indicator |-> [i \in 1 .. ProfileLen |-> Value(InGroup(o, 2 + a, Fourth(o), i))],
         display_control |-> At(o, five) % 8,
         display_charsets |-> IF six = five + 2 THEN Value(At(o, five + 1)) ELSE 0]
           r == ParseTerminalCapability(o)
           s == <<three(1), three(2), three(3)>>
           bad == six # Len(o) /\ ~ Ends(At(o, six)) /\ ~ Ends(At(o, six + 1))
<1>1. r = IF bad THEN Invalid ELSE z(s)
  BY Zenon DEF ParseTerminalCapability, Third, Fourth, Fifth, Sixth
<1>2. a \in 4 .. 8 /\ ~ bad
  BY Zenon, GroupsOK
<1>3. three(1) = At(o, 2) /\ three(2) = At(o, 3) /\ three(3) = At(o, 4)
  <2>1. 1 <= a /\ 2 <= a /\ 3 <= a /\ 2 + 1 - 1 = 2 /\ 2 + 2 - 1 = 3 /\ 2 + 3 - 1 = 4
    <3> HIDE DEF a
    <3> QED BY <1>2
  <2> QED BY Zenon, <2>1 DEF InGroup
<1>4. r = z(<<At(o, 2), At(o, 3), At(o, 4)>>)
  <2> HIDE DEF bad, r, z
  <2> QED BY Zenon, <1>1, <1>2, <1>3
<1> QED
  BY <1>4 DEF ReadTerminal

-----------------------------------------------------------------------------
(* The terminal capability: the octets of its fields *)

\* The fields of an octet
LEMMA Masks ==
    ASSUME NEW x \in Octet
    PROVE  /\ Low(x) \in 0 .. 15 /\ High(x) \in 0 .. 7 /\ (x \div 4) % 4 \in 0 .. 3
           /\ x % 4 \in 0 .. 3 /\ x % 8 \in 0 .. 7 /\ Value(x) \in 0 .. 127
  BY DEF Octet, Low, High, Value, GroupEnd

\* 14 bits
SmallMemory == 0 .. 16383

\* 14 bits of a display memory
LEMMA Weighted ==
    ASSUME NEW u \in 0 .. 127, NEW v \in 0 .. 127, NEW w, w = 1 \/ w = 128
    PROVE  w * u + v \in SmallMemory
<1>1. ASSUME NEW n \in Nat, n < 16384
      PROVE  n \in SmallMemory
  <2> DEFINE k == 16383
  <2>1. k \in Nat /\ n <= k
    BY SMT, <1>1
  <2>2. SmallMemory = 0 .. k
    BY SMT DEF SmallMemory
  <2> HIDE DEF k
  <2> QED BY <2>1, <2>2
<1>2. w * u + v \in Nat /\ w * u + v < 16384
  <2>1. CASE w = 1
    BY SMT, <2>1
  <2>2. CASE w = 128
    BY SMT, <2>2
  <2> QED BY <2>1, <2>2
<1> QED BY <1>1, <1>2

LEMMA SmallMemoryIs ==
    ASSUME NEW m \in SmallMemory
    PROVE  m \in Nat /\ m < 16384 /\ m < 65536
  BY SMT DEF SmallMemory

\* The values that are parsed
LEMMA TerminalParsed ==
    ASSUME NEW o, Groups(o)
    PROVE  LET p == ReadTerminal(o) IN
           /\ p \in AnyTerminal /\ p # Invalid
           /\ p.display_memory \in SmallMemory /\ p.display_lines \in 0 .. 127
           /\ p.display_columns \in 0 .. 127
<1> DEFINE a == Third(o)
           b == Fourth(o)
           five == Fifth(o)
           six == Sixth(o)
           three(i) == Value(InGroup(o, 2, a, i))
           four(i) == Value(InGroup(o, 2 + a, b, i))
           mem == (IF a >= 5 THEN 128 ELSE 1) * three(4) + three(5)
           prof == [i \in 1 .. ProfileLen |-> four(i)]
           chars == IF six = five + 2 THEN Value(At(o, five + 1)) ELSE 0
           p == ReadTerminal(o)
<1>0. o \in Seq(Octet)
  BY DEF Groups
<1>1. a \in 4 .. 8 /\ b \in 1 .. 4 /\ five \in 7 .. 11 /\ six \in 8 .. 13
  BY Zenon, GroupsOK
<1>2. /\ p = [display |-> Low(At(o, 2)), tone |-> High(At(o, 2)), echo |-> High(At(o, 3)),
         noise_rejection |-> (At(o, 3) \div 4) % 4, volume_ctrl |-> At(o, 3) % 4,
         slot |-> Value(At(o, 4)), display_memory |-> mem,
         display_lines |-> three(6), display_columns |-> three(7), scrolling |-> three(8),
         profile_indicator |-> prof, display_control |-> At(o, five) % 8,
         display_charsets |-> chars]
  BY Zenon DEF ReadTerminal
<1> HIDE DEF a, b, five, six, p
<1>3. \A n \in Nat : At(o, n) \in Octet
  BY <1>0, AtOctet
<1>4. ASSUME NEW i \in 1 .. 8
      PROVE  three(i) \in 0 .. 127 /\ four(i) \in 0 .. 127
  <2>1. i \in Nat /\ i >= 1 /\ a \in Nat /\ b \in Nat /\ 2 \in Nat /\ 2 + a \in Nat
    BY <1>1
  <2>2. InGroup(o, 2, a, i) \in Octet /\ InGroup(o, 2 + a, b, i) \in Octet
    BY <1>0, <2>1, InGroupOK
  <2> QED BY <2>2, Masks
<1>5. three(4) \in 0 .. 127 /\ three(5) \in 0 .. 127 /\ three(6) \in 0 .. 127
      /\ three(7) \in 0 .. 127 /\ three(8) \in 0 .. 127
  BY <1>4
<1>6. mem \in SmallMemory
  <2> DEFINE w == IF a >= 5 THEN 128 ELSE 1
  <2>1. w = 1 \/ w = 128
    OBVIOUS
  <2> HIDE DEF three, w
  <2>2. w * three(4) + three(5) \in SmallMemory
    BY <1>5, <2>1, Weighted
  <2> QED BY Zenon, <2>2 DEF w
<1>7. prof \in [1 .. 8 -> 0 .. 127] /\ prof[8] = 0
  <2>1. four(8) = 0
    <3>1. InGroup(o, 2 + a, b, 8) = 0
      <4>1. 8 \in Nat /\ 8 >= 1 /\ b \in Nat /\ 2 + a \in Nat /\ 8 > b
        BY <1>1
      <4> QED BY <1>0, <4>1, InGroupOK
    <3>2. Value(0) = 0
      BY DEF Value, GroupEnd
    <3> QED BY Zenon, <3>1, <3>2
  <2>2. prof = [i \in 1 .. 8 |-> four(i)]
    BY DEF ProfileLen
  <2>3. \A i \in 1 .. 8 : four(i) \in 0 .. 127
    BY <1>4
  <2> HIDE DEF four, prof
  <2> QED BY <2>1, <2>2, <2>3
<1>8. chars \in 0 .. 127
  <2>1. five + 1 \in Nat
    BY <1>1
  <2>2. Value(At(o, five + 1)) \in 0 .. 127
    BY <1>3, <2>1, Masks
  <2> QED BY <2>2
<1>9. mem \in Word
  <2>1. mem \in Nat /\ mem < 65536
    <3> HIDE DEF mem
    <3> QED BY SMT, <1>6, SmallMemoryIs
  <2> HIDE DEF mem
  <2> QED BY <2>1, IsWord
<1>10. three(6) \in Octet /\ three(7) \in Octet
  <2>1. \A n \in 0 .. 127 : n \in Octet
    BY DEF Octet
  <2> QED BY Zenon, <1>5, <2>1
<1>11. /\ Low(At(o, 2)) \in 0 .. 15 /\ High(At(o, 2)) \in 0 .. 7 /\ High(At(o, 3)) \in 0 .. 7
       /\ (At(o, 3) \div 4) % 4 \in 0 .. 3 /\ At(o, 3) % 4 \in 0 .. 3 /\ Value(At(o, 4)) \in 0 .. 127
       /\ At(o, five) % 8 \in 0 .. 7
  <2>1. At(o, 2) \in Octet /\ At(o, 3) \in Octet /\ At(o, 4) \in Octet /\ At(o, five) \in Octet
    BY <1>1, <1>3
  <2> QED BY <2>1, Masks
<1>12. prof \in {q \in [1 .. ProfileLen -> 0 .. 127] : q[ProfileLen] = 0}
  <2> HIDE DEF prof
  <2> QED BY <1>7 DEF ProfileLen
<1> HIDE DEF three, mem, prof, chars
<1>13. p \in AnyTerminal
  BY Zenon, <1>2, <1>5, <1>8, <1>9, <1>10, <1>11, <1>12 DEF AnyTerminal
<1>14. p.display_memory = mem /\ p.display_lines = three(6) /\ p.display_columns = three(7)
       /\ DOMAIN p # DOMAIN Invalid
  BY <1>2 DEF Invalid
<1> QED
  BY SMT, <1>5, <1>6, <1>13, <1>14 DEF p

\* The octets that are built
TerminalOctets(e, o) ==
    /\ At(o, 2) = e.display + 16 * e.tone
    /\ At(o, 3) = 16 * e.echo + 4 * e.noise_rejection + e.volume_ctrl
    /\ At(o, 4) = e.slot
    /\ At(o, 5) = (e.display_memory \div 128) % 256 /\ At(o, 6) = e.display_memory % 256
    /\ At(o, 7) = e.display_lines /\ At(o, 8) = e.display_columns
    /\ At(o, 9) = Ended(e.scrolling) /\ At(o, 10) = Ended(e.profile_indicator[1])
    /\ At(o, 11) = e.display_control /\ At(o, 12) = Ended(e.display_charsets)

\* The first two octets of a capability hold five fields.
LEMMA TerminalNumbers ==
    ASSUME NEW tone \in 0 .. 7, NEW display \in 0 .. 15, NEW echo \in 0 .. 7, NEW noise \in 0 .. 3,
           NEW volume \in 0 .. 3, NEW slot \in 0 .. 127, NEW x, x = display + 16 * tone,
           NEW y, y = 16 * echo + 4 * noise + volume
    PROVE  /\ x \in Octet /\ x < 128 /\ Low(x) = display /\ High(x) = tone
           /\ y \in Octet /\ y < 128 /\ High(y) = echo /\ (y \div 4) % 4 = noise /\ y % 4 = volume
           /\ slot \in Octet /\ slot < 128 /\ Value(slot) = slot
<1>1. x \in 0 .. 127 /\ Low(x) = display /\ High(x) = tone
  BY DEF Low, High
<1>2. y \in 0 .. 127 /\ High(y) = echo /\ (y \div 4) % 4 = noise /\ y % 4 = volume
  BY DEF High
<1>3. Value(slot) = slot
  BY DEF Value, GroupEnd
<1> QED BY <1>1, <1>2, <1>3 DEF Octet

\* A number and its last seven bits
LEMMA Divided128 ==
    ASSUME NEW n \in Nat, NEW q, NEW r, q = n \div 128, r = n % 128
    PROVE  q \in Nat /\ r \in 0 .. 127 /\ n = 128 * q + r
  BY SMT

\* A display memory of at most 14 bits is in two octets of seven.
LEMMA MemoryOctets ==
    ASSUME NEW m \in Word, NEW q, NEW r, q = (m \div 128) % 256, r = m % 256
    PROVE  /\ q \in Octet /\ r \in Octet
           /\ m < 16384 => q < 128 /\ 128 * q + (r % 128) = m
<1>1. m \in Nat
  BY WordIs
<1>2. q \in 0 .. 255 /\ r \in 0 .. 255
  BY <1>1
<1>3. m < 16384 => q < 128 /\ 128 * q + (r % 128) = m
  <2> SUFFICES ASSUME m < 16384 PROVE q < 128 /\ 128 * q + (r % 128) = m
    OBVIOUS
  <2> DEFINE u == m \div 128
             v == m % 128
  <2>1. u \in 0 .. 127
    BY SMT, <1>1
  <2>2. q = u
    BY SMT, <2>1
  <2>3. r % 128 = v
    BY SMT, <1>1
  <2>4. m = 128 * u + v
    BY <1>1, Divided128
  <2>7. v \in 0 .. 127
    BY <1>1, Divided128
  <2> HIDE DEF u, v
  <2>5. q < 128
    BY ONLY <2>1, <2>2
  <2>6. 128 * q + (r % 128) = m
    <3> DEFINE s == r % 128
    <3>1. s = v
      BY <2>3
    <3> HIDE DEF s
    <3>2. 128 * q + s = m
      BY ONLY SMT, <2>1, <2>2, <2>4, <2>7, <3>1
    <3> QED BY <3>2 DEF s
  <2> QED BY ONLY <2>5, <2>6
<1> QED BY <1>2, <1>3 DEF Octet

\* The element that is built has three groups.
LEMMA TerminalBuilt ==
    ASSUME NEW id \in Octet, NEW e \in AnyTerminal
    PROVE  LET body == BuildTerminalCapability(e)
               o == Wrap(id, body)
           IN  Contents(body) /\ Groups(o) /\ TerminalOctets(e, o)
<1> DEFINE body == BuildTerminalCapability(e)
           o == Wrap(id, body)
           a == e.display + 16 * e.tone
           b == 16 * e.echo + 4 * e.noise_rejection + e.volume_ctrl
           c == e.slot
           d == (e.display_memory \div 128) % 256
           f == e.display_memory % 256
           g == e.display_lines
           h == e.display_columns
           k == Ended(e.scrolling)
           x == Ended(e.profile_indicator[1])
           y == e.display_control
           z == Ended(e.display_charsets)
           s == <<a, b, c, d, f, g, h, k>>
<1>1. /\ e.tone \in 0 .. 7 /\ e.echo \in 0 .. 7 /\ e.noise_rejection \in 0 .. 3
      /\ e.volume_ctrl \in 0 .. 3 /\ e.slot \in 0 .. 127 /\ e.display \in 0 .. 15
      /\ e.display_memory \in Word /\ e.display_lines \in Octet /\ e.display_columns \in Octet
      /\ e.display_control \in 0 .. 7 /\ e.display_charsets \in 0 .. 127
      /\ e.scrolling \in 0 .. 127
      /\ e.profile_indicator \in [1 .. 8 -> 0 .. 127] /\ e.profile_indicator[8] = 0
      /\ e.profile_indicator[1] \in 0 .. 127
  BY TerminalTyped
<1>2. body = s \o <<x>> \o <<y, z>>
  <2>1. ProfileOctets(e.profile_indicator) = <<x>>
    BY Zenon, <1>1, ProfileBuilt
  <2> QED BY <2>1 DEF BuildTerminalCapability
<1>3. a \in Octet /\ a < 128 /\ b \in Octet /\ b < 128 /\ c \in Octet /\ c < 128
  <2>1. a \in 0 .. 127 /\ b \in 0 .. 127 /\ c \in 0 .. 127
    BY <1>1
  <2>2. \A n \in 0 .. 127 : n \in Octet /\ n < 128
    BY DEF Octet
  <2> QED BY Zenon, <2>1, <2>2
<1>4. d \in Octet /\ f \in Octet
  <2>1. \A u, v : u = d /\ v = f => u \in Octet /\ v \in Octet
    BY <1>1, MemoryOctets
  <2> QED BY Zenon, <2>1
<1>5. g \in Octet /\ h \in Octet
  BY <1>1
<1>6. k \in Octet /\ Ends(k) /\ x \in Octet /\ Ends(x) /\ z \in Octet /\ Ends(z)
  BY <1>1, SevenBits
<1>7. y \in Octet /\ y < 128
  BY <1>1 DEF Octet
<1> HIDE DEF a, b, c, d, f, g, h, k, x, y, z
<1>8. Eight(s, a, b, c, d, f, g, h, k)
  BY <1>3, <1>4, <1>5, <1>6, EightOK
<1> HIDE DEF s, body
<1>9. /\ Contents(body) /\ o \in Seq(Octet) /\ Len(o) = 13
      /\ At(o, 2) = a /\ At(o, 3) = b /\ At(o, 4) = c /\ At(o, 5) = d
      /\ At(o, 6) = f /\ At(o, 7) = g /\ At(o, 8) = h /\ At(o, 9) = k
      /\ At(o, 10) = x /\ At(o, 11) = y /\ At(o, 12) = z
  <2> DEFINE bb == s \o <<x>> \o <<y, z>>
             oo == Wrap(id, bb)
  <2>1. x \in Octet /\ y \in Octet /\ z \in Octet
    BY <1>6, <1>7
  <2>2. /\ Contents(bb) /\ oo \in Seq(Octet) /\ Len(oo) = 13
        /\ At(oo, 2) = a /\ At(oo, 3) = b /\ At(oo, 4) = c /\ At(oo, 5) = d
        /\ At(oo, 6) = f /\ At(oo, 7) = g /\ At(oo, 8) = h /\ At(oo, 9) = k
        /\ At(oo, 10) = x /\ At(oo, 11) = y /\ At(oo, 12) = z
    BY <2>1, <1>8, Eleven
  <2>3. body = bb
    BY Zenon, <1>2
  <2> HIDE DEF bb
  <2> QED BY Zenon, <2>2, <2>3
<1> HIDE DEF o
<1>10. ~ Ends(a) /\ ~ Ends(b) /\ ~ Ends(c) /\ ~ Ends(y)
  <2>1. \A n \in Octet : n < 128 => ~ Ends(n)
    BY DEF Octet, Ends, GroupEnd
  <2> QED BY Zenon, <1>3, <1>7, <2>1
<1>11. Groups(o)
  BY Zenon, <1>6, <1>9, <1>10 DEF Groups
<1>12. TerminalOctets(e, o)
  BY ONLY <1>9 DEF TerminalOctets, a, b, c, d, f, g, h, k, x, y, z
<1> QED BY Zenon, <1>9, <1>11, <1>12 DEF o, body

-----------------------------------------------------------------------------
(***************************************************************************)
(* The terminal capability: the fields as they are read.  What arrives is  *)
(* the element if, and only if, Exact says so.                             *)
(***************************************************************************)

\* The fields but the groups
SameStart(p, e) ==
    /\ p.display = e.display /\ p.tone = e.tone /\ p.echo = e.echo
    /\ p.noise_rejection = e.noise_rejection /\ p.volume_ctrl = e.volume_ctrl /\ p.slot = e.slot

SameRest(p, e) ==
    /\ p.display_memory = e.display_memory /\ p.display_lines = e.display_lines
    /\ p.display_columns = e.display_columns /\ p.scrolling = e.scrolling
    /\ p.profile_indicator = e.profile_indicator /\ p.display_control = e.display_control
    /\ p.display_charsets = e.display_charsets

\* Two capabilities are the same if all their fields are.
LEMMA SameTerminal ==
    ASSUME NEW p \in AnyTerminal, NEW e \in AnyTerminal
    PROVE  p = e <=> SameStart(p, e) /\ SameRest(p, e)
<1>1. ASSUME NEW x \in AnyTerminal
      PROVE  x = [tone |-> x.tone, echo |-> x.echo, noise_rejection |-> x.noise_rejection,
                  volume_ctrl |-> x.volume_ctrl, slot |-> x.slot, display |-> x.display,
                  display_memory |-> x.display_memory, display_lines |-> x.display_lines,
                  display_columns |-> x.display_columns, display_control |-> x.display_control,
                  display_charsets |-> x.display_charsets, scrolling |-> x.scrolling,
                  profile_indicator |-> x.profile_indicator]
  BY DEF AnyTerminal
<1>2. SameStart(p, e) /\ SameRest(p, e) => p = e
  BY Zenon, <1>1 DEF SameStart, SameRest
<1>3. p = e => SameStart(p, e) /\ SameRest(p, e)
  BY Zenon DEF SameStart, SameRest
<1> QED BY <1>2, <1>3

\* The fields before the display memory always arrive.
LEMMA StartRead ==
    ASSUME NEW e \in AnyTerminal, NEW o, TerminalOctets(e, o)
    PROVE  SameStart(ReadTerminal(o), e)
<1> DEFINE x == At(o, 2)
           y == At(o, 3)
           p == ReadTerminal(o)
<1>1. /\ x = e.display + 16 * e.tone /\ y = 16 * e.echo + 4 * e.noise_rejection + e.volume_ctrl
      /\ At(o, 4) = e.slot
  BY DEF TerminalOctets
<1>2. /\ p.display = Low(x) /\ p.tone = High(x) /\ p.echo = High(y)
      /\ p.noise_rejection = (y \div 4) % 4 /\ p.volume_ctrl = y % 4 /\ p.slot = Value(At(o, 4))
  BY DEF ReadTerminal
<1>3. /\ e.tone \in 0 .. 7 /\ e.echo \in 0 .. 7 /\ e.noise_rejection \in 0 .. 3
      /\ e.volume_ctrl \in 0 .. 3 /\ e.slot \in 0 .. 127 /\ e.display \in 0 .. 15
  BY TerminalTyped
<1> HIDE DEF x, y, p
<1>4. /\ Low(x) = e.display /\ High(x) = e.tone /\ High(y) = e.echo
      /\ (y \div 4) % 4 = e.noise_rejection /\ y % 4 = e.volume_ctrl /\ Value(e.slot) = e.slot
  <2> DEFINE t == e.tone
             d == e.display
             c == e.echo
             n == e.noise_rejection
             v == e.volume_ctrl
             s == e.slot
  <2>1. /\ t \in 0 .. 7 /\ c \in 0 .. 7 /\ n \in 0 .. 3 /\ v \in 0 .. 3 /\ s \in 0 .. 127
        /\ d \in 0 .. 15 /\ x = d + 16 * t /\ y = 16 * c + 4 * n + v
    BY Zenon, <1>1, <1>3
  <2> HIDE DEF t, d, c, n, v, s
  <2>3. /\ t \in 0 .. 7 /\ c \in 0 .. 7 /\ n \in 0 .. 3 /\ v \in 0 .. 3 /\ s \in 0 .. 127
        /\ d \in 0 .. 15
    BY Zenon, <2>1
  <2>4. x = d + 16 * t /\ y = 16 * c + 4 * n + v
    BY Zenon, <2>1
  <2>5. Low(x) = d /\ High(x) = t
    BY <2>3, <2>4 DEF Low, High
  <2>6. High(y) = c /\ (y \div 4) % 4 = n /\ y % 4 = v
    BY <2>3, <2>4 DEF High
  <2>7. Value(s) = s
    BY <2>3 DEF Value, GroupEnd
  <2>2. /\ Low(x) = d /\ High(x) = t /\ High(y) = c /\ (y \div 4) % 4 = n /\ y % 4 = v /\ Value(s) = s
    BY Zenon, <2>5, <2>6, <2>7
  <2> QED BY Zenon, <2>2 DEF t, d, c, n, v, s
<1> QED
  BY Zenon, <1>1, <1>2, <1>4 DEF SameStart, p

\* The fields of the groups as they are read
LEMMA RestRead ==
    ASSUME NEW o, NEW a, a = Third(o), NEW b, b = Fourth(o), NEW five, five = Fifth(o),
           NEW six, six = Sixth(o)
    PROVE  LET p == ReadTerminal(o)
               three(i) == Value(InGroup(o, 2, a, i))
           IN  /\ p.display_memory = (IF a >= 5 THEN 128 ELSE 1) * three(4) + three(5)
               /\ p.display_lines = three(6) /\ p.display_columns = three(7)
               /\ p.scrolling = three(8)
               /\ p.profile_indicator = [i \in 1 .. ProfileLen |-> Value(InGroup(o, 2 + a, b, i))]
               /\ p.display_control = At(o, five) % 8
               /\ p.display_charsets = IF six = five + 2 THEN Value(At(o, five + 1)) ELSE 0
  BY DEF ReadTerminal

\* No octet of the first group ends it before the last one.
LEMMA LongGroup ==
    ASSUME NEW o, Groups(o), ~ Ends(At(o, 5)), ~ Ends(At(o, 6)), ~ Ends(At(o, 7)), ~ Ends(At(o, 8))
    PROVE  Third(o) = 8 /\ Fourth(o) = 1 /\ Fifth(o) = 11 /\ Sixth(o) = 13
<1>0. /\ ~ Ends(At(o, 2)) /\ ~ Ends(At(o, 3)) /\ ~ Ends(At(o, 4))
      /\ Ends(At(o, 10)) /\ ~ Ends(At(o, 11))
  BY DEF Groups
<1>1. Third(o) = 8
  <2>1. \A i \in 1 .. (8 - 1) : ~ Ends(At(o, 2 + i - 1))
    <3> SUFFICES ASSUME NEW i \in 1 .. 7 PROVE ~ Ends(At(o, 2 + i - 1))
      OBVIOUS
    <3>1. i = 1 \/ i = 2 \/ i = 3 \/ i = 4 \/ i = 5 \/ i = 6 \/ i = 7
      OBVIOUS
    <3>2. /\ 2 + 1 - 1 = 2 /\ 2 + 2 - 1 = 3 /\ 2 + 3 - 1 = 4 /\ 2 + 4 - 1 = 5 /\ 2 + 5 - 1 = 6
          /\ 2 + 6 - 1 = 7 /\ 2 + 7 - 1 = 8
      OBVIOUS
    <3> QED BY Zenon, <1>0, <3>1, <3>2
  <2>2. Group(o, 2, 8, 8)
    BY Zenon, <2>1 DEF Group
  <2>3. 2 \in Nat /\ 8 \in Nat /\ 8 \in 1 .. 8
    OBVIOUS
  <2> QED BY <2>2, <2>3, GroupUnique DEF Third
<1>2. Fourth(o) = 1
  <2>1. 2 + 8 = 10 /\ 10 + 1 - 1 = 10 /\ 1 .. (1 - 1) = {}
    OBVIOUS
  <2>2. Group(o, 10, 8, 1)
    BY Zenon, <1>0, <2>1 DEF Group
  <2>3. 10 \in Nat /\ 8 \in Nat /\ 1 \in 1 .. 8
    OBVIOUS
  <2>4. GroupLen(o, 10, 8) = 1
    BY <2>2, <2>3, GroupUnique
  <2> QED BY Zenon, <1>1, <2>1, <2>4 DEF Fourth, ProfileLen
<1>3. Fifth(o) = 11
  <2>1. 2 + 8 + 1 = 11
    OBVIOUS
  <2> QED BY Zenon, <1>1, <1>2, <2>1 DEF Fifth
<1>4. GroupLen(o, 11, 2) = 2
  <2>1. \A i \in 1 .. (2 - 1) : i = 1
    OBVIOUS
  <2>2. 11 + 1 - 1 = 11
    OBVIOUS
  <2>3. Group(o, 11, 2, 2)
    BY Zenon, <1>0, <2>1, <2>2 DEF Group
  <2>4. 11 \in Nat /\ 2 \in Nat /\ 2 \in 1 .. 2
    OBVIOUS
  <2> QED BY <2>3, <2>4, GroupUnique
<1>5. Sixth(o) = 13
  <2>1. 11 + 2 = 13
    OBVIOUS
  <2> QED BY Zenon, <1>3, <1>4, <2>1 DEF Sixth
<1> QED BY <1>1, <1>2, <1>3, <1>5

\* The second octet of the memory ends the first group.
LEMMA ShortGroup ==
    ASSUME NEW o, Groups(o), ~ Ends(At(o, 5)), Ends(At(o, 6)), ~ Ends(At(o, 7)), ~ Ends(At(o, 8))
    PROVE  Third(o) = 5 /\ Fourth(o) = 3 /\ Fifth(o) = 10 /\ Sixth(o) = 11
<1>0. /\ ~ Ends(At(o, 2)) /\ ~ Ends(At(o, 3)) /\ ~ Ends(At(o, 4))
      /\ Ends(At(o, 9)) /\ Ends(At(o, 10))
  BY DEF Groups
<1>1. Third(o) = 5
  <2>1. \A i \in 1 .. (5 - 1) : ~ Ends(At(o, 2 + i - 1))
    <3> SUFFICES ASSUME NEW i \in 1 .. 4 PROVE ~ Ends(At(o, 2 + i - 1))
      OBVIOUS
    <3>1. i = 1 \/ i = 2 \/ i = 3 \/ i = 4
      OBVIOUS
    <3>2. 2 + 1 - 1 = 2 /\ 2 + 2 - 1 = 3 /\ 2 + 3 - 1 = 4 /\ 2 + 4 - 1 = 5
      OBVIOUS
    <3> QED BY Zenon, <1>0, <3>1, <3>2
  <2>2. 2 + 5 - 1 = 6
    OBVIOUS
  <2>3. Group(o, 2, 8, 5)
    BY Zenon, <2>1, <2>2 DEF Group
  <2>4. 2 \in Nat /\ 8 \in Nat /\ 5 \in 1 .. 8
    OBVIOUS
  <2> QED BY <2>3, <2>4, GroupUnique DEF Third
<1>2. Fourth(o) = 3
  <2>1. \A i \in 1 .. (3 - 1) : i = 1 \/ i = 2
    OBVIOUS
  <2>2. 2 + 5 = 7 /\ 7 + 1 - 1 = 7 /\ 7 + 2 - 1 = 8 /\ 7 + 3 - 1 = 9
    OBVIOUS
  <2>3. Group(o, 7, 8, 3)
    BY Zenon, <1>0, <2>1, <2>2 DEF Group
  <2>4. 7 \in Nat /\ 8 \in Nat /\ 3 \in 1 .. 8
    OBVIOUS
  <2>5. GroupLen(o, 7, 8) = 3
    BY <2>3, <2>4, GroupUnique
  <2> QED BY Zenon, <1>1, <2>2, <2>5 DEF Fourth, ProfileLen
<1>3. Fifth(o) = 10
  <2>1. 2 + 5 + 3 = 10
    OBVIOUS
  <2> QED BY Zenon, <1>1, <1>2, <2>1 DEF Fifth
<1>4. GroupLen(o, 10, 2) = 1
  <2>1. 10 + 1 - 1 = 10 /\ 1 .. (1 - 1) = {}
    OBVIOUS
  <2>3. Group(o, 10, 2, 1)
    BY Zenon, <1>0, <2>1 DEF Group
  <2>4. 10 \in Nat /\ 2 \in Nat /\ 1 \in 1 .. 2
    OBVIOUS
  <2> QED BY <2>3, <2>4, GroupUnique
<1>5. Sixth(o) = 11
  <2>1. 10 + 1 = 11
    OBVIOUS
  <2> QED BY Zenon, <1>3, <1>4, <2>1 DEF Sixth
<1> QED BY <1>1, <1>2, <1>3, <1>5

\* Which fields after the display memory arrive
LEMMA SameFields ==
    ASSUME NEW e \in AnyTerminal, NEW o, TerminalOctets(e, o)
    PROVE  /\ Value(At(o, 7)) = e.display_lines <=> e.display_lines < 128
           /\ Value(At(o, 8)) = e.display_columns <=> e.display_columns < 128
           /\ Ends(At(o, 7)) <=> ~ (e.display_lines < 128)
           /\ Ends(At(o, 8)) <=> ~ (e.display_columns < 128)
           /\ Value(At(o, 9)) = e.scrolling /\ Value(At(o, 10)) = e.profile_indicator[1]
           /\ Value(At(o, 12)) = e.display_charsets
           /\ At(o, 11) % 8 = e.display_control
           /\ At(o, 10) % 8 = e.profile_indicator[1] % 8
<1>1. /\ e.display_lines \in Octet /\ e.display_columns \in Octet
      /\ e.display_control \in 0 .. 7 /\ e.display_charsets \in 0 .. 127
      /\ e.scrolling \in 0 .. 127 /\ e.profile_indicator[1] \in 0 .. 127
  BY TerminalTyped
<1>2. /\ At(o, 7) = e.display_lines /\ At(o, 8) = e.display_columns
      /\ At(o, 9) = Ended(e.scrolling) /\ At(o, 10) = Ended(e.profile_indicator[1])
      /\ At(o, 11) = e.display_control /\ At(o, 12) = Ended(e.display_charsets)
  BY DEF TerminalOctets
<1>3. ASSUME NEW n \in Octet
      PROVE  (Value(n) = n <=> n < 128) /\ (Ends(n) <=> ~ (n < 128))
  BY DEF Octet, Value, Ends, GroupEnd
<1>4. ASSUME NEW n \in 0 .. 127
      PROVE  Value(Ended(n)) = n /\ Ended(n) % 8 = n % 8
  BY DEF Value, Ended, GroupEnd
<1>5. ASSUME NEW n \in 0 .. 7
      PROVE  n % 8 = n
  OBVIOUS
<1>6. /\ Value(At(o, 7)) = e.display_lines <=> e.display_lines < 128
      /\ Value(At(o, 8)) = e.display_columns <=> e.display_columns < 128
  BY Zenon, <1>1, <1>2, <1>3
<1>7. /\ Ends(At(o, 7)) <=> ~ (e.display_lines < 128)
      /\ Ends(At(o, 8)) <=> ~ (e.display_columns < 128)
  BY ZenonT(40), <1>1, <1>2, <1>3
<1>8. /\ Value(At(o, 9)) = e.scrolling /\ Value(At(o, 10)) = e.profile_indicator[1]
      /\ Value(At(o, 12)) = e.display_charsets
  BY Zenon, <1>1, <1>2, <1>4
<1>9. At(o, 11) % 8 = e.display_control /\ At(o, 10) % 8 = e.profile_indicator[1] % 8
  BY ZenonT(40), <1>1, <1>2, <1>4, <1>5
<1> QED BY Zenon, <1>6, <1>7, <1>8, <1>9

\* Only the first octet of the profile is sent.
LEMMA ProfileRead ==
    ASSUME NEW f \in [1 .. 8 -> 0 .. 127], NEW g \in [1 .. 8 -> 0 .. 127], g[1] = f[1],
           \A i \in 2 .. 8 : g[i] = 0
    PROVE  g = f <=> \A i \in 2 .. 8 : f[i] = 0
<1>1. \A i \in 1 .. 8 : i = 1 \/ i \in 2 .. 8
  OBVIOUS
<1>2. \A i \in 2 .. 8 : i \in 1 .. 8
  OBVIOUS
<1>3. ASSUME \A i \in 2 .. 8 : f[i] = 0
      PROVE  g = f
  <2>1. \A i \in 1 .. 8 : g[i] = f[i]
    BY SMT, <1>1, <1>3
  <2> QED BY SMT, <2>1
<1> QED BY Zenon, <1>2, <1>3

\* A display memory of at most 14 bits arrives.
LEMMA MemoryRead ==
    ASSUME NEW e \in AnyTerminal, NEW o, TerminalOctets(e, o), e.display_memory < 16384
    PROVE  /\ ~ Ends(At(o, 5))
           /\ 128 * Value(At(o, 5)) + Value(At(o, 6)) = e.display_memory
           /\ Ends(At(o, 6)) <=> ~ (e.display_memory % 256 < 128)
<1> DEFINE m == e.display_memory
           q == (m \div 128) % 256
           r == m % 256
<1>1. m \in Word
  BY TerminalTyped
<1>2. At(o, 5) = q /\ At(o, 6) = r
  BY SMT DEF TerminalOctets
<1>3. m < 16384
  BY SMT
<1> HIDE DEF m
<1>4. \A u, v : u = q /\ v = r => u \in Octet /\ v \in Octet /\ u < 128 /\ 128 * u + (v % 128) = m
  BY SMT, <1>1, <1>3, MemoryOctets
<1>5. q \in Octet /\ r \in Octet /\ q < 128 /\ 128 * q + (r % 128) = m
  BY SMT, <1>4
<1> HIDE DEF q, r
<1>6. Value(q) = q /\ ~ Ends(q) /\ Value(r) = r % 128 /\ (Ends(r) <=> ~ (r < 128))
  BY SMT, <1>5 DEF Octet, Value, Ends, GroupEnd
<1>7. ~ Ends(q) /\ 128 * Value(q) + Value(r) = m /\ (Ends(r) <=> ~ (r < 128))
  BY SMT, <1>5, <1>6
<1> QED BY SMT, <1>2, <1>7 DEF m, r

\* An element whose first group does not end too early arrives but for the profile.
LEMMA LongRead ==
    ASSUME NEW e \in AnyTerminal, NEW o, Groups(o), TerminalOctets(e, o),
           ~ Ends(At(o, 5)), ~ Ends(At(o, 6)), ~ Ends(At(o, 7)), ~ Ends(At(o, 8)),
           128 * Value(At(o, 5)) + Value(At(o, 6)) = e.display_memory
    PROVE  SameRest(ReadTerminal(o), e) <=> \A i \in 2 .. 8 : e.profile_indicator[i] = 0
<1> DEFINE p == ReadTerminal(o)
           in(i) == InGroup(o, 2, 8, i)
           g == [i \in 1 .. 8 |-> Value(InGroup(o, 10, 1, i))]
           f == e.profile_indicator
<1>0. o \in Seq(Octet)
  BY DEF Groups
<1>1. Third(o) = 8 /\ Fourth(o) = 1 /\ Fifth(o) = 11 /\ Sixth(o) = 13
  BY Zenon, LongGroup
<1>2. /\ p.display_memory = (IF 8 >= 5 THEN 128 ELSE 1) * Value(in(4)) + Value(in(5))
      /\ p.display_lines = Value(in(6)) /\ p.display_columns = Value(in(7))
      /\ p.scrolling = Value(in(8))
      /\ p.profile_indicator = [i \in 1 .. ProfileLen |-> Value(InGroup(o, 2 + 8, 1, i))]
      /\ p.display_control = At(o, 11) % 8
      /\ p.display_charsets = IF 13 = 11 + 2 THEN Value(At(o, 11 + 1)) ELSE 0
  BY Zenon, <1>1 DEF ReadTerminal
<1>3. in(4) = At(o, 5) /\ in(5) = At(o, 6) /\ in(6) = At(o, 7) /\ in(7) = At(o, 8) /\ in(8) = At(o, 9)
  <2>1. /\ 4 <= 8 /\ 5 <= 8 /\ 6 <= 8 /\ 7 <= 8 /\ 8 <= 8 /\ 2 + 4 - 1 = 5 /\ 2 + 5 - 1 = 6
        /\ 2 + 6 - 1 = 7 /\ 2 + 7 - 1 = 8 /\ 2 + 8 - 1 = 9
    OBVIOUS
  <2> QED BY Zenon, <2>1 DEF InGroup
<1>4. p.profile_indicator = g
  <2>1. 2 + 8 = 10
    OBVIOUS
  <2> QED BY Zenon, <1>2, <2>1 DEF ProfileLen
<1>5. g[1] = f[1] /\ \A i \in 2 .. 8 : g[i] = 0
  <2>1. InGroup(o, 10, 1, 1) = At(o, 10)
    <3>1. 1 <= 1 /\ 10 + 1 - 1 = 10
      OBVIOUS
    <3> QED BY Zenon, <3>1 DEF InGroup
  <2>2. ASSUME NEW i \in 2 .. 8
        PROVE  InGroup(o, 10, 1, i) = 0
    <3>1. ~ (i <= 1)
      OBVIOUS
    <3> QED BY Zenon, <3>1 DEF InGroup
  <2>3. Value(0) = 0
    BY DEF Value, GroupEnd
  <2>4. Value(At(o, 10)) = f[1]
    BY Zenon, SameFields
  <2>5. 1 \in 1 .. 8 /\ \A i \in 2 .. 8 : i \in 1 .. 8
    OBVIOUS
  <2> QED BY Zenon, <2>1, <2>2, <2>3, <2>4, <2>5
<1>6. g \in [1 .. 8 -> 0 .. 127] /\ f \in [1 .. 8 -> 0 .. 127]
  <2>1. ASSUME NEW i \in 1 .. 8
        PROVE  Value(InGroup(o, 10, 1, i)) \in 0 .. 127
    <3>1. 10 \in Nat /\ 1 \in Nat /\ i \in Nat /\ i >= 1
      OBVIOUS
    <3>2. InGroup(o, 10, 1, i) \in Octet
      BY <1>0, <3>1, InGroupOK
    <3> QED BY <3>2, Masks
  <2>2. f \in [1 .. 8 -> 0 .. 127]
    BY TerminalTyped
  <2> QED BY Zenon, <2>1, <2>2
<1> HIDE DEF g, f, in, p
<1>7. g = f <=> \A i \in 2 .. 8 : f[i] = 0
  BY <1>5, <1>6, ProfileRead
<1>8. (IF 8 >= 5 THEN 128 ELSE 1) = 128 /\ 13 = 11 + 2 /\ 11 + 1 = 12
  OBVIOUS
<1>9. p.display_memory = e.display_memory
  BY ZenonT(40), <1>2, <1>3, <1>8
<1>10. /\ Value(At(o, 7)) = e.display_lines /\ Value(At(o, 8)) = e.display_columns
       /\ Value(At(o, 9)) = e.scrolling
       /\ Value(At(o, 12)) = e.display_charsets /\ At(o, 11) % 8 = e.display_control
  BY Zenon, SameFields
<1>11. /\ p.display_lines = e.display_lines /\ p.display_columns = e.display_columns
       /\ p.scrolling = e.scrolling /\ p.display_control = e.display_control
       /\ p.display_charsets = e.display_charsets
  BY ZenonT(40), <1>2, <1>3, <1>8, <1>10
<1>12. SameRest(p, e) <=> g = f
  BY Zenon, <1>4, <1>9, <1>11 DEF SameRest, f
<1> QED BY Zenon, <1>7, <1>12 DEF p, f

\* All of these are read as a part of something else.
RestZero(e) ==
    /\ e.display_lines = 0 /\ e.display_columns = 0 /\ e.scrolling = 0 /\ e.display_control = 0
    /\ e.display_charsets = 0 /\ e.profile_indicator[1] = 0
    /\ \A i \in 2 .. 8 : e.profile_indicator[i] = 0

\* With an early end of the first group the fields behind are read as zero.
LEMMA ShortRead ==
    ASSUME NEW e \in AnyTerminal, NEW o, Groups(o), TerminalOctets(e, o),
           ~ Ends(At(o, 5)), Ends(At(o, 6)), ~ Ends(At(o, 7)), ~ Ends(At(o, 8)),
           128 * Value(At(o, 5)) + Value(At(o, 6)) = e.display_memory
    PROVE  SameRest(ReadTerminal(o), e) <=> RestZero(e)
<1> DEFINE p == ReadTerminal(o)
           in(i) == InGroup(o, 2, 5, i)
           pr(i) == InGroup(o, 7, 3, i)
           g == [i \in 1 .. 8 |-> Value(pr(i))]
           f == e.profile_indicator
<1>1. Third(o) = 5 /\ Fourth(o) = 3 /\ Fifth(o) = 10 /\ Sixth(o) = 11
  BY Zenon, ShortGroup
<1>2. /\ p.display_memory = (IF 5 >= 5 THEN 128 ELSE 1) * Value(in(4)) + Value(in(5))
      /\ p.display_lines = Value(in(6)) /\ p.display_columns = Value(in(7))
      /\ p.scrolling = Value(in(8))
      /\ p.profile_indicator = [i \in 1 .. ProfileLen |-> Value(InGroup(o, 2 + 5, 3, i))]
      /\ p.display_control = At(o, 10) % 8
      /\ p.display_charsets = IF 11 = 10 + 2 THEN Value(At(o, 10 + 1)) ELSE 0
  BY Zenon, <1>1 DEF ReadTerminal
<1>3. in(4) = At(o, 5) /\ in(5) = At(o, 6) /\ in(6) = 0 /\ in(7) = 0 /\ in(8) = 0
  <2>1. /\ 4 <= 5 /\ 5 <= 5 /\ ~ (6 <= 5) /\ ~ (7 <= 5) /\ ~ (8 <= 5)
        /\ 2 + 4 - 1 = 5 /\ 2 + 5 - 1 = 6
    OBVIOUS
  <2> QED BY Zenon, <2>1 DEF InGroup
<1>4. p.profile_indicator = g
  <2>1. 2 + 5 = 7
    OBVIOUS
  <2> QED BY Zenon, <1>2, <2>1 DEF ProfileLen
<1>5. /\ pr(1) = At(o, 7) /\ pr(2) = At(o, 8) /\ pr(3) = At(o, 9)
      /\ pr(4) = 0 /\ pr(5) = 0 /\ pr(6) = 0 /\ pr(7) = 0 /\ pr(8) = 0
  <2>1. /\ 1 <= 3 /\ 2 <= 3 /\ 3 <= 3 /\ ~ (4 <= 3) /\ ~ (5 <= 3) /\ ~ (6 <= 3) /\ ~ (7 <= 3)
        /\ ~ (8 <= 3) /\ 7 + 1 - 1 = 7 /\ 7 + 2 - 1 = 8 /\ 7 + 3 - 1 = 9
    OBVIOUS
  <2> QED BY Zenon, <2>1 DEF InGroup
<1>6. Value(0) = 0
  BY DEF Value, GroupEnd
<1>7. /\ Value(At(o, 7)) = e.display_lines /\ Value(At(o, 8)) = e.display_columns
      /\ Value(At(o, 9)) = e.scrolling
  BY Zenon, SameFields
<1>8. /\ g[1] = e.display_lines /\ g[2] = e.display_columns /\ g[3] = e.scrolling
      /\ g[4] = 0 /\ g[5] = 0 /\ g[6] = 0 /\ g[7] = 0 /\ g[8] = 0
  <2>1. /\ 1 \in 1 .. 8 /\ 2 \in 1 .. 8 /\ 3 \in 1 .. 8 /\ 4 \in 1 .. 8
        /\ 5 \in 1 .. 8 /\ 6 \in 1 .. 8 /\ 7 \in 1 .. 8 /\ 8 \in 1 .. 8
    OBVIOUS
  <2>2. \A i \in 1 .. 8 : g[i] = Value(pr(i))
    OBVIOUS
  <2> HIDE DEF g, pr
  <2> QED BY Zenon, <1>5, <1>6, <1>7, <2>1, <2>2
<1>9. DOMAIN g = 1 .. 8 /\ f \in [1 .. 8 -> 0 .. 127] /\ f[1] \in 0 .. 127
  BY TerminalTyped
<1>10. g = [i \in 1 .. 8 |-> g[i]]
  OBVIOUS
<1> HIDE DEF g, f, in, p, pr
<1>11. (IF 5 >= 5 THEN 128 ELSE 1) = 128 /\ 11 # 10 + 2
  OBVIOUS
<1>12. /\ p.display_memory = e.display_memory /\ p.display_lines = 0 /\ p.display_columns = 0
       /\ p.scrolling = 0 /\ p.display_charsets = 0
  <2>1. p.display_memory = 128 * Value(At(o, 5)) + Value(At(o, 6))
    BY Zenon, <1>2, <1>3, <1>11
  <2>2. p.display_lines = 0 /\ p.display_columns = 0 /\ p.scrolling = 0
    BY Zenon, <1>2, <1>3, <1>6
  <2>3. p.display_charsets = 0
    BY Zenon, <1>2, <1>11
  <2> QED BY Zenon, <2>1, <2>2, <2>3
<1>13. p.display_control = f[1] % 8
  <2>1. At(o, 10) % 8 = f[1] % 8
    BY Zenon, SameFields DEF f
  <2> QED BY Zenon, <1>2, <2>1
<1>14. SameRest(p, e) <=> /\ e.display_lines = 0 /\ e.display_columns = 0 /\ e.scrolling = 0
                          /\ g = f /\ e.display_control = f[1] % 8 /\ e.display_charsets = 0
  BY Zenon, <1>4, <1>12, <1>13 DEF SameRest, f
<1>15. 0 % 8 = 0
  OBVIOUS
<1>16. \A i \in 2 .. 8 : i \in {2, 3, 4, 5, 6, 7, 8}
  OBVIOUS
<1>17. ASSUME SameRest(p, e)
       PROVE  RestZero(e)
  <2>1. \A i \in 2 .. 8 : f[i] = 0
    BY Zenon, <1>8, <1>14, <1>16, <1>17
  <2>2. f[1] = 0
    BY Zenon, <1>8, <1>14, <1>17
  <2> QED BY Zenon, <1>14, <1>15, <1>17, <2>1, <2>2 DEF RestZero, f
<1>18. ASSUME RestZero(e)
       PROVE  SameRest(p, e)
  <2>0. f[1] = 0 /\ \A i \in 2 .. 8 : f[i] = 0
    BY Zenon, <1>18 DEF RestZero, f
  <2>1. g = f
    <3>1. ASSUME NEW i \in 1 .. 8
          PROVE  g[i] = f[i]
      <4>1. i = 1 \/ i = 2 \/ i = 3 \/ (i \in 4 .. 8 /\ i \in {4, 5, 6, 7, 8})
        OBVIOUS
      <4>2. 2 \in 2 .. 8 /\ 3 \in 2 .. 8 /\ \A j \in 4 .. 8 : j \in 2 .. 8
        OBVIOUS
      <4> QED BY Zenon, <1>8, <1>18, <2>0, <4>1, <4>2 DEF RestZero
    <3> QED BY SMT, <1>9, <1>10, <3>1
  <2> QED BY Zenon, <1>14, <1>15, <1>18, <2>0, <2>1 DEF RestZero
<1> QED BY Zenon, <1>17, <1>18 DEF p

\* A capability arrives if, and only if, Exact says so.
LEMMA TerminalCoded ==
    ASSUME NEW id \in Octet, NEW e \in AnyTerminal
    PROVE  LET body == BuildTerminalCapability(e)
               p == ParseTerminalCapability(Wrap(id, body))
           IN  /\ Contents(body) /\ p \in AnyTerminal /\ p # Invalid
               /\ p = e <=> Exact("TERMINAL_CAPABILITY", e)
<1> DEFINE body == BuildTerminalCapability(e)
           o == Wrap(id, body)
           p == ReadTerminal(o)
           m == e.display_memory
           small == m < 16384 /\ e.display_lines < 128 /\ e.display_columns < 128
           first == \A i \in 2 .. 8 : e.profile_indicator[i] = 0
           long == m % 256 < 128
<1>1. Contents(body) /\ Groups(o) /\ TerminalOctets(e, o)
  BY Zenon, TerminalBuilt
<1>2. ParseTerminalCapability(o) = p
  BY Zenon, <1>1, TerminalRead
<1> HIDE DEF body, o
<1>3. /\ p \in AnyTerminal /\ p # Invalid
      /\ p.display_memory \in SmallMemory /\ p.display_lines \in 0 .. 127
      /\ p.display_columns \in 0 .. 127
  BY Zenon, <1>1, TerminalParsed
<1>4. SameStart(p, e)
  BY Zenon, <1>1, StartRead
<1>5. p = e <=> SameRest(p, e)
  BY Zenon, <1>3, <1>4, SameTerminal
<1>6. Exact("TERMINAL_CAPABILITY", e) <=>
        /\ small /\ first
        /\ long \/ {e.display_lines, e.display_columns, e.scrolling, e.display_control,
                    e.display_charsets, e.profile_indicator[1]} = {0}
  <2>1. 128^2 = 16384
    BY SMT
  <2> QED BY SMT, <2>1 DEF Exact, ProfileLen
<1>7. first /\ {e.display_lines, e.display_columns, e.scrolling, e.display_control,
                e.display_charsets, e.profile_indicator[1]} = {0} <=> RestZero(e)
  BY SMT DEF RestZero
<1>8. p = e => small
  <2>1. p.display_memory < 16384
    <3> HIDE DEF p
    <3> QED BY SMT, <1>3, SmallMemoryIs
  <2>2. p.display_lines < 128 /\ p.display_columns < 128
    <3> DEFINE u == p.display_lines
               v == p.display_columns
    <3>1. u \in 0 .. 127 /\ v \in 0 .. 127
      BY Zenon, <1>3
    <3> HIDE DEF u, v
    <3>2. u < 128 /\ v < 128
      BY <3>1
    <3> QED BY Zenon, <3>2 DEF u, v
  <2> QED BY SMT, <2>1, <2>2
<1>9. ASSUME small
      PROVE  p = e <=> Exact("TERMINAL_CAPABILITY", e)
  <2>1. /\ ~ Ends(At(o, 5)) /\ 128 * Value(At(o, 5)) + Value(At(o, 6)) = e.display_memory
        /\ Ends(At(o, 6)) <=> ~ long
    BY SMT, <1>1, <1>9, MemoryRead
  <2>2. ~ Ends(At(o, 7)) /\ ~ Ends(At(o, 8))
    BY SMT, <1>1, <1>9, SameFields
  <2> HIDE DEF p, m
  <2>3. CASE long
    <3>1. SameRest(p, e) <=> first
      BY SMT, <1>1, <2>1, <2>2, <2>3, LongRead DEF p
    <3> HIDE DEF small, first
    <3> QED BY SMT, <1>5, <1>6, <1>9, <2>3, <3>1
  <2>4. CASE ~ long
    <3>1. SameRest(p, e) <=> RestZero(e)
      BY SMT, <1>1, <2>1, <2>2, <2>4, ShortRead DEF p
    <3> HIDE DEF small, first
    <3> QED BY SMT, <1>5, <1>6, <1>7, <1>9, <2>4, <3>1
  <2> QED BY SMT, <2>3, <2>4
<1> HIDE DEF small, p
<1>10. p = e <=> Exact("TERMINAL_CAPABILITY", e)
  BY SMT, <1>6, <1>8, <1>9
<1> QED BY SMT, <1>1, <1>2, <1>3, <1>10 DEF body, o
=============================================================================
