--------------------------- MODULE LabFile_proofs ---------------------------
(***************************************************************************)
(* That what a codec encodes comes back, from octets and from the file of  *)
(* an ipv4udp-file sink, for all descriptions, values, flows and lengths.  *)
(*                                                                         *)
(* The recursive functions (bits read and written, headers, loops over     *)
(* elements and datagrams, sums of words) come first: each is shown to     *)
(* exist and to obey its recursion, by induction over a set of naturals;   *)
(* then what one encode and one decode do to each other, what a datagram   *)
(* carries and what the reader of a file finds in it; last the invariant,  *)
(* which says where a unit is between two calls.                           *)
(***************************************************************************)
EXTENDS LabFile, WellFoundedInduction, SequenceTheorems, TLAPS

----------------------------------------------------------------------------
(* Induction *)

\* The order of the naturals as a relation, as the library has it.
LEMMA LessThanPairs == OpToRel(<, Nat) = {ss \in Nat \X Nat : ss[1] < ss[2]}
BY DEF OpToRel

\* A set of naturals has a least one.
LEMMA Least ==
  ASSUME NEW T, T \subseteq Nat, T # {}
  PROVE  \E n \in T : \A m \in T : n <= m
<1>1. \E x \in T : \A y \in T : ~ (<<y, x>> \in OpToRel(<, Nat))
  BY NatLessThanWellFounded, WFMin
<1>2. PICK x \in T : \A y \in T : ~ (<<y, x>> \in {ss \in Nat \X Nat : ss[1] < ss[2]})
  BY <1>1, LessThanPairs
<1>3. \A y \in T : ~ (y < x)
  BY <1>2
<1> QED BY <1>3

\* Induction, over a set in the place of a predicate.
LEMMA UpFromZero ==
  ASSUME NEW T, 0 \in T, \A n \in Nat : n \in T => n + 1 \in T
  PROVE  \A n \in Nat : n \in T
<1> SUFFICES ASSUME NEW k \in Nat, k \notin T PROVE FALSE
  OBVIOUS
<1> DEFINE U == Nat \ T
<1>1. PICK n \in U : \A m \in U : n <= m
  <2>1. U \subseteq Nat /\ U # {}
    OBVIOUS
  <2> HIDE DEF U
  <2> QED BY <2>1, Least
<1>2. n - 1 \in Nat /\ n - 1 \notin U
  BY <1>1
<1> QED BY <1>1, <1>2

\* Induction up to a bound.
LEMMA UpTo ==
  ASSUME NEW n \in Nat, NEW T, 0 \in T, \A i \in 0..(n - 1) : i \in T => i + 1 \in T
  PROVE  \A i \in 0..n : i \in T
<1> DEFINE U == {i \in Nat : i <= n => i \in T}
<1>1. 0 \in U
  OBVIOUS
<1>2. \A i \in Nat : i \in U => i + 1 \in U
  OBVIOUS
<1>3. \A i \in Nat : i \in U
  <2> HIDE DEF U
  <2> QED BY <1>1, <1>2, UpFromZero
<1> QED BY <1>3

----------------------------------------------------------------------------
(* Powers of two *)

Doubles(g, D) == g = [n \in D |-> IF n = 0 THEN 1 ELSE 2 * g[n - 1]]

\* The recursive definition of Pow2, one step of it.
LEMMA DoublesOf ==
  ASSUME NEW g, NEW n \in Nat, Doubles(g, 0..n)
  PROVE  g[0] = 1 /\ \A i \in 1..n : g[i] = 2 * g[i - 1]
BY DEF Doubles

\* Up to every n there is a table of the powers of two.
LEMMA DoublesExist ==
  ASSUME NEW n \in Nat
  PROVE  \E g : Doubles(g, 0..n)
<1> DEFINE T == {m \in Nat : \E g : Doubles(g, 0..m)}
<1>1. 0 \in T
  <2>1. Doubles([i \in 0..0 |-> 1], 0..0)
    BY DEF Doubles
  <2> QED BY <2>1
<1>2. ASSUME NEW m \in Nat, m \in T PROVE m + 1 \in T
  <2>1. PICK g : Doubles(g, 0..m)
    BY <1>2
  <2> DEFINE h == [i \in 0..(m + 1) |-> IF i = 0 THEN 1 ELSE 2 * g[i - 1]]
  <2>2. \A i \in 0..m : h[i] = g[i]
    BY <2>1 DEF Doubles
  <2>3. \A i \in 0..(m + 1) : i # 0 => h[i - 1] = g[i - 1]
    BY <2>2
  <2>4. h = [i \in 0..(m + 1) |-> IF i = 0 THEN 1 ELSE 2 * h[i - 1]]
    BY <2>3
  <2> HIDE DEF h
  <2>5. Doubles(h, 0..(m + 1))
    BY <2>4 DEF Doubles
  <2> QED BY <2>5
<1>3. \A m \in Nat : m \in T
  <2> HIDE DEF T
  <2> QED BY <1>1, <1>2, UpFromZero
<1> QED BY <1>3

\* Two such tables are the same where both are defined.
LEMMA DoublesAgree ==
  ASSUME NEW n \in Nat, NEW m \in Nat, n <= m, NEW g, NEW h,
         Doubles(g, 0..n), Doubles(h, 0..m)
  PROVE  \A i \in 0..n : g[i] = h[i]
<1> DEFINE T == {i \in 0..n : g[i] = h[i]}
<1>1. 0 \in T
  BY DoublesOf
<1>2. \A i \in 0..(n - 1) : i \in T => i + 1 \in T
  <2>1. \A i \in 1..n : g[i] = 2 * g[i - 1] /\ h[i] = 2 * h[i - 1]
    BY DoublesOf
  <2> SUFFICES ASSUME NEW i \in 0..(n - 1), g[i] = h[i] PROVE g[i + 1] = h[i + 1]
    OBVIOUS
  <2>2. i + 1 \in 1..n /\ (i + 1) - 1 = i
    OBVIOUS
  <2> QED BY <2>1, <2>2
<1>3. \A i \in 0..n : i \in T
  <2> HIDE DEF T
  <2> QED BY <1>1, <1>2, UpTo
<1> QED BY <1>3

\* The tables make one function.
LEMMA DoublesGlue == \E g : Doubles(g, Nat)
<1> DEFINE part(n) == CHOOSE g : Doubles(g, 0..n)
           g == [n \in Nat |-> part(n)[n]]
<1>1. \A n \in Nat : Doubles(part(n), 0..n)
  BY DoublesExist
<1> HIDE DEF part
<1>2. ASSUME NEW n \in Nat PROVE g[n] = IF n = 0 THEN 1 ELSE 2 * g[n - 1]
  <2>1. CASE n = 0
    BY <1>1, <2>1, DoublesOf
  <2>2. CASE n # 0
    <3>1. n - 1 \in Nat /\ n - 1 \in 0..(n - 1) /\ n \in 1..n
      BY <2>2
    <3>2. part(n)[n] = 2 * part(n)[n - 1]
      BY <1>1, <3>1, DoublesOf
    <3>3. part(n - 1)[n - 1] = part(n)[n - 1]
      BY <1>1, <3>1, DoublesAgree
    <3> QED BY <2>2, <3>1, <3>2, <3>3
  <2> QED BY <2>1, <2>2
<1>3. g = [n \in Nat |-> IF n = 0 THEN 1 ELSE 2 * g[n - 1]]
  BY <1>2
<1> HIDE DEF g
<1> QED BY <1>3 DEF Doubles

\* Pow2 is what its recursion says.
LEMMA Pow2Unfolds == Pow2[0] = 1 /\ \A n \in Nat : Pow2[n + 1] = 2 * Pow2[n]
<1>1. Doubles(Pow2, Nat)
  BY DoublesGlue DEF Pow2, Doubles
<1>2. \A n \in Nat : Pow2[n] = IF n = 0 THEN 1 ELSE 2 * Pow2[n - 1]
  BY <1>1 DEF Doubles
<1> QED BY <1>2

\* Powers of two are positive naturals.
LEMMA Pow2Positive == \A n \in Nat : Pow2[n] \in Nat /\ Pow2[n] > 0
<1> DEFINE T == {n \in Nat : Pow2[n] \in Nat /\ Pow2[n] > 0}
<1>1. 0 \in T
  BY Pow2Unfolds
<1>2. \A n \in Nat : n \in T => n + 1 \in T
  BY Pow2Unfolds
<1>3. \A n \in Nat : n \in T
  <2> HIDE DEF T
  <2> QED BY <1>1, <1>2, UpFromZero
<1> QED BY <1>3

\* The powers of two within an octet.
LEMMA Pow2Small ==
  /\ Pow2[0] = 1 /\ Pow2[1] = 2 /\ Pow2[2] = 4 /\ Pow2[3] = 8
  /\ Pow2[4] = 16 /\ Pow2[5] = 32 /\ Pow2[6] = 64 /\ Pow2[7] = 128
  /\ Pow2[8] = 256
<1>1. Pow2[0 + 1] = 2
  BY Pow2Unfolds
<1>2. Pow2[1 + 1] = 4
  BY <1>1, Pow2Unfolds
<1>3. Pow2[2 + 1] = 8
  BY <1>2, Pow2Unfolds
<1>4. Pow2[3 + 1] = 16
  BY <1>3, Pow2Unfolds
<1>5. Pow2[4 + 1] = 32
  BY <1>4, Pow2Unfolds
<1>6. Pow2[5 + 1] = 64
  BY <1>5, Pow2Unfolds
<1>7. Pow2[6 + 1] = 128
  BY <1>6, Pow2Unfolds
<1>8. Pow2[7 + 1] = 256
  BY <1>7, Pow2Unfolds
<1> QED BY <1>1, <1>2, <1>3, <1>4, <1>5, <1>6, <1>7, <1>8, Pow2Unfolds

\* A larger exponent gives no smaller a power.
LEMMA Pow2Monotone ==
  ASSUME NEW n \in Nat, NEW m \in Nat, n <= m
  PROVE  Pow2[n] <= Pow2[m]
<1> DEFINE T == {k \in Nat : Pow2[n] <= Pow2[n + k]}
<1>1. 0 \in T
  BY Pow2Positive
<1>2. ASSUME NEW k \in Nat, k \in T PROVE k + 1 \in T
  <2>1. Pow2[(n + k) + 1] = 2 * Pow2[n + k] /\ Pow2[n + k] \in Nat /\ Pow2[n] \in Nat
    BY Pow2Unfolds, Pow2Positive
  <2>2. (n + k) + 1 = n + (k + 1)
    OBVIOUS
  <2> QED BY <1>2, <2>1, <2>2
<1>3. \A k \in Nat : k \in T
  <2> HIDE DEF T
  <2> QED BY <1>1, <1>2, UpFromZero
<1>4. m - n \in Nat /\ n + (m - n) = m
  OBVIOUS
<1> QED BY <1>3, <1>4

\* Dividing by two once more.
LEMMA HalfOf ==
  ASSUME NEW v \in Nat, NEW m \in Nat, m > 0
  PROVE  /\ v \div m \in Nat
         /\ v \div (2 * m) = (v \div m) \div 2
<1> DEFINE q == v \div m
           r == v % m
           p == q \div 2
           b == q % 2
<1>1. q \in Nat /\ r \in Nat /\ r < m /\ v = (m * q) + r
  OBVIOUS
<1>2. p \in Nat /\ b \in 0..1 /\ q = (2 * p) + b
  BY <1>1
<1> HIDE DEF q, r, p, b
<1>3. m * q = ((2 * m) * p) + (b * m)
  BY <1>1, <1>2
<1>4. (b * m) + r \in Nat /\ (b * m) + r < 2 * m
  BY <1>1, <1>2
<1>5. v = ((2 * m) * p) + ((b * m) + r)
  BY <1>1, <1>3, <1>4, <1>2
<1>6. v \div (2 * m) = p
  <2> DEFINE M == 2 * m
             R == (b * m) + r
  <2>1. M \in Nat /\ M > 0 /\ R \in Nat /\ R < M /\ v = (M * p) + R
    BY <1>4, <1>5
  <2> HIDE DEF M, R
  <2>2. v \div M = p
    BY <2>1, <1>2
  <2> QED BY <2>2 DEF M
<1> QED BY <1>1, <1>6 DEF q, p

----------------------------------------------------------------------------
(* Bits *)

\* An octet, of its bits.
OctetOf(b) ==
  b[0] + (2 * b[1]) + (4 * b[2]) + (8 * b[3])
    + (16 * b[4]) + (32 * b[5]) + (64 * b[6]) + (128 * b[7])

\* An octet has eight bits.
LEMMA EightCases ==
  ASSUME NEW s \in 0..7
  PROVE  s = 0 \/ s = 1 \/ s = 2 \/ s = 3 \/ s = 4 \/ s = 5 \/ s = 6 \/ s = 7
OBVIOUS

HasBits(x, b0, b1, b2, b3, b4, b5, b6, b7) ==
  /\ x \in 0..255 /\ x % 2 = b0 /\ (x \div 2) % 2 = b1
  /\ (x \div 4) % 2 = b2 /\ (x \div 8) % 2 = b3
  /\ (x \div 16) % 2 = b4 /\ (x \div 32) % 2 = b5
  /\ (x \div 64) % 2 = b6 /\ (x \div 128) % 2 = b7
IsSum(x, b0, b1, b2, b3, b4, b5, b6, b7) ==
  x = b0 + (2 * b1) + (4 * b2) + (8 * b3) + (16 * b4) + (32 * b5) + (64 * b6) + (128 * b7)

\* Eight bits can be taken out of their sum again.
LEMMA SumOfBits ==
  ASSUME NEW b0 \in 0..1, NEW b1 \in 0..1, NEW b2 \in 0..1, NEW b3 \in 0..1,
         NEW b4 \in 0..1, NEW b5 \in 0..1, NEW b6 \in 0..1, NEW b7 \in 0..1, NEW x,
         IsSum(x, b0, b1, b2, b3, b4, b5, b6, b7)
  PROVE  HasBits(x, b0, b1, b2, b3, b4, b5, b6, b7)
<1>x. x = b0 + (2 * b1) + (4 * b2) + (8 * b3) + (16 * b4) + (32 * b5) + (64 * b6) + (128 * b7)
  BY DEF IsSum
<1>0. x \in 0..255
  BY <1>x
<1>1. x \div 128 = b7
  BY <1>x
<1>2. x \div 64 = (2 * b7) + b6
  BY <1>x
<1>3. x \div 32 = (4 * b7) + (2 * b6) + b5
  BY <1>x
<1>4. x \div 16 = (8 * b7) + (4 * b6) + (2 * b5) + b4
  BY <1>x
<1>5. x \div 8 = (16 * b7) + (8 * b6) + (4 * b5) + (2 * b4) + b3
  BY <1>x
<1>6. x \div 4 = (32 * b7) + (16 * b6) + (8 * b5) + (4 * b4) + (2 * b3) + b2
  BY <1>x
<1>7. x \div 2 = (64 * b7) + (32 * b6) + (16 * b5) + (8 * b4) + (4 * b3) + (2 * b2) + b1
  BY <1>x
<1>8. x % 2 = b0
  BY <1>x
<1>9. \A h \in Nat : \A b \in 0..1 : ((2 * h) + b) % 2 = b
  OBVIOUS
<1>10. (x \div 128) % 2 = b7
  BY <1>1
<1>11. (x \div 64) % 2 = b6
  BY <1>2, <1>9
<1>12. (x \div 32) % 2 = b5
  <2>1. x \div 32 = (2 * ((2 * b7) + b6)) + b5 /\ (2 * b7) + b6 \in Nat
    BY <1>3
  <2> QED BY <2>1, <1>9
<1>13. (x \div 16) % 2 = b4
  <2>1. x \div 16 = (2 * ((4 * b7) + (2 * b6) + b5)) + b4 /\ (4 * b7) + (2 * b6) + b5 \in Nat
    BY <1>4
  <2> QED BY <2>1, <1>9
<1>14. (x \div 8) % 2 = b3
  <2>1. x \div 8 = (2 * ((8 * b7) + (4 * b6) + (2 * b5) + b4)) + b3 /\ (8 * b7) + (4 * b6) + (2 * b5) + b4 \in Nat
    BY <1>5
  <2> QED BY <2>1, <1>9
<1>15. (x \div 4) % 2 = b2
  <2> DEFINE h == (16 * b7) + (8 * b6) + (4 * b5) + (2 * b4) + b3
  <2>1. x \div 4 = (2 * h) + b2 /\ h \in Nat
    BY <1>6
  <2> HIDE DEF h
  <2> QED BY <2>1, <1>9
<1>16. (x \div 2) % 2 = b1
  <2> DEFINE h == (32 * b7) + (16 * b6) + (8 * b5) + (4 * b4) + (2 * b3) + b2
  <2>1. x \div 2 = (2 * h) + b1 /\ h \in Nat
    BY <1>7
  <2> HIDE DEF h
  <2> QED BY <2>1, <1>9
<1> QED BY <1>0, <1>8, <1>10, <1>11, <1>12, <1>13, <1>14, <1>15, <1>16 DEF HasBits

\* They can be taken out of the octet they make.
LEMMA BitsOf ==
  ASSUME NEW b \in [0..7 -> 0..1]
  PROVE  /\ OctetOf(b) \in Octet
         /\ \A t \in 0..7 : (OctetOf(b) \div Pow2[t]) % 2 = b[t]
<1> DEFINE x == OctetOf(b)
<1>1. /\ b[0] \in 0..1 /\ b[1] \in 0..1 /\ b[2] \in 0..1 /\ b[3] \in 0..1
      /\ b[4] \in 0..1 /\ b[5] \in 0..1 /\ b[6] \in 0..1 /\ b[7] \in 0..1
  OBVIOUS
<1>2. /\ x \in 0..255 /\ x % 2 = b[0] /\ (x \div 2) % 2 = b[1]
      /\ (x \div 4) % 2 = b[2] /\ (x \div 8) % 2 = b[3]
      /\ (x \div 16) % 2 = b[4] /\ (x \div 32) % 2 = b[5]
      /\ (x \div 64) % 2 = b[6] /\ (x \div 128) % 2 = b[7]
  <2> DEFINE b0 == b[0]  b1 == b[1]  b2 == b[2]  b3 == b[3]
             b4 == b[4]  b5 == b[5]  b6 == b[6]  b7 == b[7]
  <2>1. IsSum(x, b0, b1, b2, b3, b4, b5, b6, b7)
    BY DEF OctetOf, IsSum
  <2>2. /\ b0 \in 0..1 /\ b1 \in 0..1 /\ b2 \in 0..1 /\ b3 \in 0..1
        /\ b4 \in 0..1 /\ b5 \in 0..1 /\ b6 \in 0..1 /\ b7 \in 0..1
    BY <1>1
  <2> HIDE DEF x, b0, b1, b2, b3, b4, b5, b6, b7
  <2>3. HasBits(x, b0, b1, b2, b3, b4, b5, b6, b7)
    BY <2>1, <2>2, SumOfBits
  <2> QED BY <2>3 DEF HasBits, b0, b1, b2, b3, b4, b5, b6, b7
<1> HIDE DEF x
<1>3. x \div 1 = x
  BY <1>2
<1>4. ASSUME NEW t \in 0..7 PROVE (x \div Pow2[t]) % 2 = b[t]
  BY <1>2, <1>3, Pow2Small, EightCases
<1> QED BY <1>2, <1>4 DEF x, Octet

\* Eight bits make every octet.
LEMMA OctetOfBits ==
  ASSUME NEW x \in Octet
  PROVE  \E b \in [0..7 -> 0..1] : x = OctetOf(b)
<1> DEFINE d[i \in 0..7] == CASE i = 0 -> x % 2 [] i = 1 -> (x \div 2) % 2
                              [] i = 2 -> (x \div 4) % 2 [] i = 3 -> (x \div 8) % 2
                              [] i = 4 -> (x \div 16) % 2 [] i = 5 -> (x \div 32) % 2
                              [] i = 6 -> (x \div 64) % 2 [] i = 7 -> (x \div 128) % 2
<1>0. x \in 0..255
  BY DEF Octet
<1>1. /\ d[0] = x % 2 /\ d[1] = (x \div 2) % 2 /\ d[2] = (x \div 4) % 2 /\ d[3] = (x \div 8) % 2
      /\ d[4] = (x \div 16) % 2 /\ d[5] = (x \div 32) % 2 /\ d[6] = (x \div 64) % 2
      /\ d[7] = (x \div 128) % 2
  OBVIOUS
<1>2. \A n \in Nat : n % 2 \in 0..1 /\ n = (2 * (n \div 2)) + (n % 2) /\ n \div 2 \in Nat
  OBVIOUS
<1>3. /\ x \div 4 = (x \div 2) \div 2 /\ x \div 8 = (x \div 4) \div 2
      /\ x \div 16 = (x \div 8) \div 2 /\ x \div 32 = (x \div 16) \div 2
      /\ x \div 64 = (x \div 32) \div 2 /\ x \div 128 = (x \div 64) \div 2
  BY <1>0
<1>4. /\ x \div 2 \in Nat /\ x \div 4 \in Nat /\ x \div 8 \in Nat /\ x \div 16 \in Nat
      /\ x \div 32 \in Nat /\ x \div 64 \in Nat /\ x \div 128 \in 0..1
  BY <1>0
<1>5. d \in [0..7 -> 0..1]
  <2>1. \A i \in 0..7 : d[i] \in 0..1
    <3> HIDE DEF d
    <3> QED BY <1>0, <1>1, <1>2, <1>4, EightCases
  <2>2. d = [i \in 0..7 |-> d[i]]
    OBVIOUS
  <2> HIDE DEF d
  <2> QED BY <2>1, <2>2
<1> HIDE DEF d
<1>6. x = (2 * (x \div 2)) + d[0]
  BY <1>0, <1>1, <1>2
<1>7. x \div 2 = (2 * (x \div 4)) + d[1]
  BY <1>1, <1>2, <1>3, <1>4
<1>8. x \div 4 = (2 * (x \div 8)) + d[2]
  BY <1>1, <1>2, <1>3, <1>4
<1>9. x \div 8 = (2 * (x \div 16)) + d[3]
  BY <1>1, <1>2, <1>3, <1>4
<1>10. x \div 16 = (2 * (x \div 32)) + d[4]
  BY <1>1, <1>2, <1>3, <1>4
<1>11. x \div 32 = (2 * (x \div 64)) + d[5]
  BY <1>1, <1>2, <1>3, <1>4
<1>12. x \div 64 = (2 * (x \div 128)) + d[6]
  BY <1>1, <1>2, <1>3, <1>4
<1>13. x \div 128 = d[7]
  <2>1. \A n \in 0..1 : n % 2 = n
    OBVIOUS
  <2> QED BY <1>1, <1>4, <2>1
<1>14. /\ d[0] \in Int /\ d[1] \in Int /\ d[2] \in Int /\ d[3] \in Int
       /\ d[4] \in Int /\ d[5] \in Int /\ d[6] \in Int /\ d[7] \in Int
  BY <1>5
<1>15. x = OctetOf(d)
  <2> DEFINE x1 == x \div 2   x2 == x \div 4   x3 == x \div 8   x4 == x \div 16
             x5 == x \div 32  x6 == x \div 64  x7 == x \div 128
             d0 == d[0]  d1 == d[1]  d2 == d[2]  d3 == d[3]
             d4 == d[4]  d5 == d[5]  d6 == d[6]  d7 == d[7]
  <2>1. /\ x = (2 * x1) + d0 /\ x1 = (2 * x2) + d1 /\ x2 = (2 * x3) + d2 /\ x3 = (2 * x4) + d3
        /\ x4 = (2 * x5) + d4 /\ x5 = (2 * x6) + d5 /\ x6 = (2 * x7) + d6 /\ x7 = d7
    BY <1>6, <1>7, <1>8, <1>9, <1>10, <1>11, <1>12, <1>13
  <2>2. /\ d0 \in Int /\ d1 \in Int /\ d2 \in Int /\ d3 \in Int
        /\ d4 \in Int /\ d5 \in Int /\ d6 \in Int /\ d7 \in Int
    BY <1>14
  <2>3. x \in Int
    BY <1>0
  <2> HIDE DEF x1, x2, x3, x4, x5, x6, x7, d0, d1, d2, d3, d4, d5, d6, d7
  <2>4. x = d0 + (2 * d1) + (4 * d2) + (8 * d3) + (16 * d4) + (32 * d5) + (64 * d6) + (128 * d7)
    BY <2>1, <2>2, <2>3
  <2> QED BY <2>4 DEF OctetOf, d0, d1, d2, d3, d4, d5, d6, d7
<1> QED BY <1>5, <1>15

\* Adding a power of two whose bit is 0 sets that bit and leaves the others.
LEMMA OctetOr ==
  ASSUME NEW x \in Octet, NEW s \in 0..7, (x \div Pow2[s]) % 2 = 0
  PROVE  /\ x + Pow2[s] \in Octet
         /\ \A t \in 0..7 : ((x + Pow2[s]) \div Pow2[t]) % 2
                              = IF t = s THEN 1 ELSE (x \div Pow2[t]) % 2
<1>1. PICK b \in [0..7 -> 0..1] : x = OctetOf(b)
  BY OctetOfBits
<1> DEFINE c == [b EXCEPT ![s] = 1]
<1>2. c \in [0..7 -> 0..1] /\ \A t \in 0..7 : c[t] = IF t = s THEN 1 ELSE b[t]
  OBVIOUS
<1>3. b[s] = 0 /\ \A t \in 0..7 : (x \div Pow2[t]) % 2 = b[t]
  BY <1>1, BitsOf
<1> HIDE DEF c
<1>4. OctetOf(c) = x + Pow2[s]
  <2>1. /\ c[0] \in Int /\ c[1] \in Int /\ c[2] \in Int /\ c[3] \in Int
        /\ c[4] \in Int /\ c[5] \in Int /\ c[6] \in Int /\ c[7] \in Int
        /\ b[0] \in Int /\ b[1] \in Int /\ b[2] \in Int /\ b[3] \in Int
        /\ b[4] \in Int /\ b[5] \in Int /\ b[6] \in Int /\ b[7] \in Int
    BY <1>2
  <2>2. /\ c[0] = IF 0 = s THEN 1 ELSE b[0]
        /\ c[1] = IF 1 = s THEN 1 ELSE b[1]
        /\ c[2] = IF 2 = s THEN 1 ELSE b[2]
        /\ c[3] = IF 3 = s THEN 1 ELSE b[3]
        /\ c[4] = IF 4 = s THEN 1 ELSE b[4]
        /\ c[5] = IF 5 = s THEN 1 ELSE b[5]
        /\ c[6] = IF 6 = s THEN 1 ELSE b[6]
        /\ c[7] = IF 7 = s THEN 1 ELSE b[7]
    BY <1>2
  <2>3. x = b[0] + (2 * b[1]) + (4 * b[2]) + (8 * b[3])
              + (16 * b[4]) + (32 * b[5]) + (64 * b[6]) + (128 * b[7])
    BY <1>1 DEF OctetOf
  <2>p. b[s] = 0
    BY <1>3
  <2>4. OctetOf(c) = c[0] + (2 * c[1]) + (4 * c[2]) + (8 * c[3])
              + (16 * c[4]) + (32 * c[5]) + (64 * c[6]) + (128 * c[7])
    BY DEF OctetOf
  <2>10. CASE s = 0
    <3>1. /\ c[0] = 1 /\ b[0] = 0 /\ Pow2[s] = 1
          /\ c[1] = b[1] /\ c[2] = b[2] /\ c[3] = b[3]
          /\ c[4] = b[4] /\ c[5] = b[5] /\ c[6] = b[6] /\ c[7] = b[7]
      BY <2>2, <2>p, <2>10, Pow2Small
    <3> QED BY <2>1, <2>3, <2>4, <3>1
  <2>11. CASE s = 1
    <3>1. /\ c[1] = 1 /\ b[1] = 0 /\ Pow2[s] = 2
          /\ c[0] = b[0] /\ c[2] = b[2] /\ c[3] = b[3]
          /\ c[4] = b[4] /\ c[5] = b[5] /\ c[6] = b[6] /\ c[7] = b[7]
      BY <2>2, <2>p, <2>11, Pow2Small
    <3> QED BY <2>1, <2>3, <2>4, <3>1
  <2>12. CASE s = 2
    <3>1. /\ c[2] = 1 /\ b[2] = 0 /\ Pow2[s] = 4
          /\ c[0] = b[0] /\ c[1] = b[1] /\ c[3] = b[3]
          /\ c[4] = b[4] /\ c[5] = b[5] /\ c[6] = b[6] /\ c[7] = b[7]
      BY <2>2, <2>p, <2>12, Pow2Small
    <3> QED BY <2>1, <2>3, <2>4, <3>1
  <2>13. CASE s = 3
    <3>1. /\ c[3] = 1 /\ b[3] = 0 /\ Pow2[s] = 8
          /\ c[0] = b[0] /\ c[1] = b[1] /\ c[2] = b[2]
          /\ c[4] = b[4] /\ c[5] = b[5] /\ c[6] = b[6] /\ c[7] = b[7]
      BY <2>2, <2>p, <2>13, Pow2Small
    <3> QED BY <2>1, <2>3, <2>4, <3>1
  <2>14. CASE s = 4
    <3>1. /\ c[4] = 1 /\ b[4] = 0 /\ Pow2[s] = 16
          /\ c[0] = b[0] /\ c[1] = b[1] /\ c[2] = b[2] /\ c[3] = b[3]
          /\ c[5] = b[5] /\ c[6] = b[6] /\ c[7] = b[7]
      BY <2>2, <2>p, <2>14, Pow2Small
    <3> QED BY <2>1, <2>3, <2>4, <3>1
  <2>15. CASE s = 5
    <3>1. /\ c[5] = 1 /\ b[5] = 0 /\ Pow2[s] = 32
          /\ c[0] = b[0] /\ c[1] = b[1] /\ c[2] = b[2] /\ c[3] = b[3]
          /\ c[4] = b[4] /\ c[6] = b[6] /\ c[7] = b[7]
      BY <2>2, <2>p, <2>15, Pow2Small
    <3> QED BY <2>1, <2>3, <2>4, <3>1
  <2>16. CASE s = 6
    <3>1. /\ c[6] = 1 /\ b[6] = 0 /\ Pow2[s] = 64
          /\ c[0] = b[0] /\ c[1] = b[1] /\ c[2] = b[2] /\ c[3] = b[3]
          /\ c[4] = b[4] /\ c[5] = b[5] /\ c[7] = b[7]
      BY <2>2, <2>p, <2>16, Pow2Small
    <3> QED BY <2>1, <2>3, <2>4, <3>1
  <2>17. CASE s = 7
    <3>1. /\ c[7] = 1 /\ b[7] = 0 /\ Pow2[s] = 128
          /\ c[0] = b[0] /\ c[1] = b[1] /\ c[2] = b[2] /\ c[3] = b[3]
          /\ c[4] = b[4] /\ c[5] = b[5] /\ c[6] = b[6]
      BY <2>2, <2>p, <2>17, Pow2Small
    <3> QED BY <2>1, <2>3, <2>4, <3>1
  <2> QED BY <2>10, <2>11, <2>12, <2>13, <2>14, <2>15, <2>16, <2>17, EightCases
<1> QED BY <1>2, <1>3, <1>4, BitsOf

\* An octet is its bits.
LEMMA OctetBits ==
  ASSUME NEW x \in Octet, NEW y \in Octet,
         \A s \in 0..7 : (x \div Pow2[s]) % 2 = (y \div Pow2[s]) % 2
  PROVE  x = y
<1>1. PICK b \in [0..7 -> 0..1] : x = OctetOf(b)
  BY OctetOfBits
<1>2. PICK c \in [0..7 -> 0..1] : y = OctetOf(c)
  BY OctetOfBits
<1>3. \A s \in 0..7 : b[s] = c[s]
  BY <1>1, <1>2, BitsOf
<1>4. b = c
  BY <1>3
<1> QED BY <1>1, <1>2, <1>4

Bits(octets) == 0..(8 * Len(octets) - 1)

\* Where a bit is in the octets.
LEMMA BitPlace ==
  ASSUME NEW octets \in Seq(Octet), NEW bit \in Bits(octets)
  PROVE  /\ bit \in Nat
         /\ bit \div 8 + 1 \in 1..Len(octets)
         /\ Shift(bit) \in 0..7
         /\ bit = (8 * (bit \div 8)) + (7 - Shift(bit))
         /\ octets[bit \div 8 + 1] \in Octet
<1>1. Len(octets) \in Nat
  OBVIOUS
<1>2. bit \in Nat /\ bit \div 8 + 1 \in 1..Len(octets)
  BY <1>1 DEF Bits
<1>3. /\ Shift(bit) \in 0..7
      /\ bit = (8 * (bit \div 8)) + (7 - Shift(bit))
  BY <1>2 DEF Shift
<1> QED BY <1>2, <1>3

\* A bit is 0 or 1.
LEMMA BitIsBit ==
  ASSUME NEW octets \in Seq(Octet), NEW bit \in Bits(octets)
  PROVE  BitAt(octets, bit) \in {0, 1}
<1>1. octets[bit \div 8 + 1] \in Nat
  <2>1. octets[bit \div 8 + 1] \in Octet
    BY BitPlace
  <2>2. \A x \in Octet : x \in Nat
    BY DEF Octet
  <2> QED BY <2>1, <2>2
<1>2. Pow2[Shift(bit)] \in Nat /\ Pow2[Shift(bit)] > 0
  <2>1. Shift(bit) \in Nat
    BY BitPlace
  <2> QED BY <2>1, Pow2Positive
<1>3. octets[bit \div 8 + 1] \div Pow2[Shift(bit)] \in Nat
  BY <1>1, <1>2, HalfOf
<1> QED BY <1>3 DEF BitAt

\* Octets are their bits.
LEMMA SameBits ==
  ASSUME NEW a \in Seq(Octet), NEW b \in Seq(Octet), Len(a) = Len(b),
         \A bit \in Bits(a) : BitAt(a, bit) = BitAt(b, bit)
  PROVE  a = b
<1>1. ASSUME NEW i \in 1..Len(a) PROVE a[i] = b[i]
  <2>1. ASSUME NEW s \in 0..7 PROVE (a[i] \div Pow2[s]) % 2 = (b[i] \div Pow2[s]) % 2
    <3> DEFINE bit == (8 * (i - 1)) + (7 - s)
    <3>1. Len(a) \in Nat
      OBVIOUS
    <3>2. bit \in Bits(a) /\ bit \div 8 + 1 = i /\ Shift(bit) = s
      BY <3>1 DEF Bits, Shift
    <3> HIDE DEF bit
    <3>3. BitAt(a, bit) = BitAt(b, bit)
      BY <3>2
    <3> QED BY <3>2, <3>3 DEF BitAt
  <2>2. a[i] \in Octet /\ b[i] \in Octet
    OBVIOUS
  <2> QED BY <2>1, <2>2, OctetBits
<1> QED BY <1>1, SeqEqual

\* One bit is set, or nothing happens.
LEMMA OrBitSets ==
  ASSUME NEW octets \in Seq(Octet), NEW bit \in Bits(octets), NEW b \in {0, 1}
  PROVE  /\ OrBit(octets, bit, b) \in Seq(Octet)
         /\ Len(OrBit(octets, bit, b)) = Len(octets)
         /\ \A c \in Bits(octets) :
              BitAt(OrBit(octets, bit, b), c) =
                IF c = bit /\ b = 1 THEN 1 ELSE BitAt(octets, c)
<1>1. CASE ~ (b = 1 /\ BitAt(octets, bit) = 0)
  <2>1. OrBit(octets, bit, b) = octets
    BY <1>1 DEF OrBit
  <2>2. b = 1 => BitAt(octets, bit) = 1
    BY <1>1, BitIsBit
  <2> QED BY <2>1, <2>2
<1>2. CASE b = 1 /\ BitAt(octets, bit) = 0
  <2> DEFINE k == bit \div 8 + 1
             x == octets[k]
             s == Shift(bit)
             y == x + Pow2[s]
             new == [octets EXCEPT ![k] = y]
  <2>1. OrBit(octets, bit, b) = new
    BY <1>2 DEF OrBit
  <2>2. k \in 1..Len(octets) /\ x \in Octet /\ s \in 0..7
    BY BitPlace
  <2>3. (x \div Pow2[s]) % 2 = 0
    BY <1>2 DEF BitAt
  <2> HIDE DEF x, s
  <2>4. y \in Octet
    BY <2>2, <2>3, OctetOr
  <2>5. \A t \in 0..7 : (y \div Pow2[t]) % 2 = IF t = s THEN 1 ELSE (x \div Pow2[t]) % 2
    BY <2>2, <2>3, OctetOr
  <2> HIDE DEF y
  <2>6. /\ new \in Seq(Octet) /\ Len(new) = Len(octets)
        /\ \A j \in 1..Len(octets) : new[j] = IF j = k THEN y ELSE octets[j]
    BY <2>2, <2>4, ExceptSeq
  <2> HIDE DEF new, k
  <2>7. ASSUME NEW c \in Bits(octets)
        PROVE  BitAt(new, c) = IF c = bit THEN 1 ELSE BitAt(octets, c)
    <3> DEFINE j == c \div 8 + 1
               t == Shift(c)
    <3>1. j \in 1..Len(octets) /\ t \in 0..7 /\ c = (8 * (j - 1)) + (7 - t)
      BY BitPlace
    <3>2. k \in Nat /\ bit = (8 * (k - 1)) + (7 - s)
      BY BitPlace DEF k, s
    <3>3. BitAt(new, c) = (new[j] \div Pow2[t]) % 2 /\ BitAt(octets, c) = (octets[j] \div Pow2[t]) % 2
      BY DEF BitAt
    <3> HIDE DEF j, t
    <3>4. CASE j # k
      <4>1. c # bit
        BY <3>1, <3>2, <3>4, <2>2
      <4> QED BY <3>1, <3>3, <3>4, <2>6, <4>1
    <3>5. CASE j = k
      <4>1. new[j] = y /\ octets[j] = x
        BY <3>1, <3>5, <2>6 DEF x
      <4>2. c = bit <=> t = s
        BY <3>1, <3>2, <3>5, <2>2
      <4> QED BY <3>1, <3>3, <4>1, <4>2, <2>5
    <3> QED BY <3>4, <3>5
  <2> QED BY <1>2, <2>1, <2>6, <2>7
<1> QED BY <1>1, <1>2

----------------------------------------------------------------------------
(* Reading and writing a field *)

\* The recursion of ReadBits.
Reading(g, octets, off, n) ==
  g = [i \in 0..n |-> IF i = 0 THEN 0 ELSE (2 * g[i - 1]) + BitAt(octets, off + i - 1)]

\* The accumulator of read_uint exists.
LEMMA ReadingExists ==
  ASSUME NEW octets, NEW off, NEW n \in Nat
  PROVE  \E g : Reading(g, octets, off, n)
<1> DEFINE T == {m \in Nat : \E g : Reading(g, octets, off, m)}
<1>1. 0 \in T
  <2>1. Reading([i \in 0..0 |-> 0], octets, off, 0)
    BY DEF Reading
  <2> QED BY <2>1
<1>2. ASSUME NEW m \in Nat, m \in T PROVE m + 1 \in T
  <2>1. PICK g : Reading(g, octets, off, m)
    BY <1>2
  <2> DEFINE h == [i \in 0..(m + 1) |->
                     IF i = 0 THEN 0 ELSE (2 * g[i - 1]) + BitAt(octets, off + i - 1)]
  <2>2. \A i \in 0..m : h[i] = g[i]
    BY <2>1 DEF Reading
  <2>3. \A i \in 0..(m + 1) : i # 0 => h[i - 1] = g[i - 1]
    <3>1. \A i \in 0..(m + 1) : i # 0 => i - 1 \in 0..m
      OBVIOUS
    <3> HIDE DEF h
    <3> QED BY <2>2, <3>1
  <2>4. h = [i \in 0..(m + 1) |->
               IF i = 0 THEN 0 ELSE (2 * h[i - 1]) + BitAt(octets, off + i - 1)]
    BY <2>3
  <2> HIDE DEF h
  <2>5. Reading(h, octets, off, m + 1)
    BY <2>4 DEF Reading
  <2> QED BY <2>5
<1>3. \A m \in Nat : m \in T
  <2> HIDE DEF T
  <2> QED BY <1>1, <1>2, UpFromZero
<1> QED BY <1>3

\* read_uint, as its accumulator.
LEMMA ReadBitsUnfolds ==
  ASSUME NEW octets, NEW off, NEW n \in Nat
  PROVE  \E g : Reading(g, octets, off, n) /\ ReadBits(octets, off, n) = g[n]
<1> DEFINE g == CHOOSE g : Reading(g, octets, off, n)
<1>1. Reading(g, octets, off, n)
  BY ReadingExists
<1>2. ReadBits(octets, off, n) = g[n]
  BY DEF ReadBits, Reading
<1> QED BY <1>1, <1>2

FieldIn(octets, off, n) == off \in Nat /\ n \in Nat /\ off + n <= 8 * Len(octets)

\* The bits of a field are among those of the octets.
LEMMA BitsOfField ==
  ASSUME NEW octets \in Seq(Octet), NEW off, NEW n, FieldIn(octets, off, n), NEW i \in 1..n
  PROVE  /\ off + i - 1 \in Bits(octets)
         /\ BitAt(octets, off + i - 1) \in {0, 1}
<1>1. Len(octets) \in Nat
  OBVIOUS
<1>2. off + i - 1 \in Bits(octets)
  BY <1>1 DEF FieldIn, Bits
<1> QED BY <1>2, BitIsBit

\* The accumulator doubles, adds a bit, and stays below its power of two.
LEMMA ReadingSteps ==
  ASSUME NEW octets \in Seq(Octet), NEW off, NEW n, FieldIn(octets, off, n),
         NEW g, Reading(g, octets, off, n)
  PROVE  /\ g[0] = 0
         /\ \A i \in 1..n : g[i] = (2 * g[i - 1]) + BitAt(octets, off + i - 1)
         /\ \A i \in 0..n : g[i] \in Nat /\ g[i] < Pow2[i]
<1>n. n \in Nat
  BY DEF FieldIn
<1>1. g[0] = 0
  BY <1>n DEF Reading
<1>2. \A i \in 1..n : g[i] = (2 * g[i - 1]) + BitAt(octets, off + i - 1)
  BY <1>n DEF Reading
<1> DEFINE T == {i \in Nat : g[i] \in Nat /\ g[i] < Pow2[i]}
<1>3. 0 \in T
  BY <1>1, Pow2Unfolds
<1>4. ASSUME NEW i \in 0..(n - 1), i \in T PROVE i + 1 \in T
  <2> DEFINE j == i + 1
  <2>1. j \in 1..n /\ j - 1 = i /\ i \in Nat
    BY <1>n
  <2>2. Pow2[j] = 2 * Pow2[i] /\ Pow2[i] \in Nat
    BY <2>1, Pow2Unfolds, Pow2Positive
  <2>3. BitAt(octets, off + j - 1) \in {0, 1}
    BY <2>1, BitsOfField
  <2> HIDE DEF j
  <2>4. g[j] = (2 * g[i]) + BitAt(octets, off + j - 1)
    BY <1>2, <2>1
  <2>5. g[j] \in Nat /\ g[j] < Pow2[j]
    BY <1>4, <2>2, <2>3, <2>4
  <2> QED BY <2>1, <2>5 DEF j
<1>5. \A i \in 0..n : i \in T
  <2> HIDE DEF T
  <2> QED BY <1>n, <1>3, <1>4, UpTo
<1> QED BY <1>1, <1>2, <1>5

\* Bit i of n, from the most significant one on.
Digit(v, n, i) == (v \div Pow2[n - i]) % 2

\* What is read has the bits that were there, and is less than 2^n.
LEMMA ReadBitsDigits ==
  ASSUME NEW octets \in Seq(Octet), NEW off, NEW n, FieldIn(octets, off, n)
  PROVE  /\ ReadBits(octets, off, n) \in Nat
         /\ ReadBits(octets, off, n) < Pow2[n]
         /\ \A i \in 1..n : Digit(ReadBits(octets, off, n), n, i) = BitAt(octets, off + i - 1)
<1>n. n \in Nat
  BY DEF FieldIn
<1>1. PICK g : Reading(g, octets, off, n) /\ ReadBits(octets, off, n) = g[n]
  BY <1>n, ReadBitsUnfolds
<1>2. /\ \A i \in 1..n : g[i] = (2 * g[i - 1]) + BitAt(octets, off + i - 1)
      /\ \A i \in 0..n : g[i] \in Nat /\ g[i] < Pow2[i]
  BY <1>1, ReadingSteps
<1> DEFINE v == g[n]
           T == {k \in Nat : g[n - k] = v \div Pow2[k]}
<1>3. v \in Nat /\ v < Pow2[n]
  BY <1>n, <1>2
<1>4. 0 \in T
  <2>1. v \div 1 = v
    BY <1>3
  <2>2. n - 0 = n
    BY <1>n
  <2>3. Pow2[0] = 1
    BY Pow2Unfolds
  <2>4. g[n - 0] = v \div Pow2[0]
    BY <2>1, <2>2, <2>3
  <2> QED BY <2>4
<1>5. \A k \in 0..(n - 1) : k \in T => k + 1 \in T
  <2> SUFFICES ASSUME NEW k \in 0..(n - 1), k \in T PROVE k + 1 \in T
    OBVIOUS
  <2> DEFINE j == n - k
             b == BitAt(octets, off + j - 1)
  <2>1. j \in 1..n /\ n - (k + 1) = j - 1 /\ j - 1 \in 0..n /\ k \in Nat
    BY <1>n
  <2>2. b \in {0, 1}
    BY <2>1, BitsOfField
  <2>3. g[j] = (2 * g[j - 1]) + b /\ g[j - 1] \in Nat
    BY <1>2, <2>1
  <2>4. g[j] = v \div Pow2[k]
    OBVIOUS
  <2>5. v \div Pow2[k + 1] = g[j] \div 2
    <3>1. Pow2[k] \in Nat /\ Pow2[k] > 0 /\ Pow2[k + 1] = 2 * Pow2[k]
      BY <2>1, Pow2Unfolds, Pow2Positive
    <3> HIDE DEF v
    <3> QED BY <3>1, <1>3, <2>4, HalfOf
  <2> HIDE DEF j, b, v
  <2>6. g[j] \div 2 = g[j - 1]
    BY <2>2, <2>3
  <2> QED BY <2>1, <2>5, <2>6
<1>6. \A k \in 0..n : k \in T
  <2> HIDE DEF T
  <2> QED BY <1>n, <1>4, <1>5, UpTo
<1>7. ASSUME NEW i \in 1..n PROVE Digit(v, n, i) = BitAt(octets, off + i - 1)
  <2> DEFINE k == n - i
             b == BitAt(octets, off + i - 1)
  <2>1. k \in 0..n /\ n - k = i
    BY <1>n
  <2>2. g[i] = v \div Pow2[k]
    BY <1>6, <2>1
  <2>3. b \in {0, 1}
    BY BitsOfField
  <2>4. g[i] = (2 * g[i - 1]) + b /\ g[i - 1] \in Nat
    BY <1>n, <1>2
  <2> HIDE DEF b
  <2>5. g[i] % 2 = b
    BY <2>3, <2>4
  <2> QED BY <2>2, <2>5 DEF Digit, b
<1> QED BY <1>1, <1>3, <1>7

\* A value below 2^n that has the bits that are there is the one read.
LEMMA ReadBitsOf ==
  ASSUME NEW octets \in Seq(Octet), NEW off, NEW n, FieldIn(octets, off, n),
         NEW v \in Nat, v < Pow2[n],
         \A i \in 1..n : BitAt(octets, off + i - 1) = Digit(v, n, i)
  PROVE  ReadBits(octets, off, n) = v
<1>n. n \in Nat
  BY DEF FieldIn
<1>1. PICK g : Reading(g, octets, off, n) /\ ReadBits(octets, off, n) = g[n]
  BY <1>n, ReadBitsUnfolds
<1>2. /\ g[0] = 0
      /\ \A i \in 1..n : g[i] = (2 * g[i - 1]) + BitAt(octets, off + i - 1)
  BY <1>1, ReadingSteps
<1> DEFINE T == {i \in Nat : g[i] = v \div Pow2[n - i]}
<1>3. 0 \in T
  <2>1. v \div Pow2[n] = 0
    <3> DEFINE m == Pow2[n]
    <3>1. m \in Nat /\ m > 0
      BY <1>n, Pow2Positive
    <3>2. v < m
      OBVIOUS
    <3> HIDE DEF m
    <3>3. v \div m = 0
      BY <3>1, <3>2
    <3> QED BY <3>3 DEF m
  <2> QED BY <1>n, <1>2, <2>1
<1>4. \A i \in 0..(n - 1) : i \in T => i + 1 \in T
  <2> SUFFICES ASSUME NEW i \in 0..(n - 1), i \in T PROVE i + 1 \in T
    OBVIOUS
  <2> DEFINE k == n - (i + 1)
             q == v \div Pow2[k]
             j == i + 1
  <2>1. k \in Nat /\ k + 1 = n - i /\ j \in 1..n /\ j - 1 = i
    BY <1>n
  <2>2. Pow2[k] \in Nat /\ Pow2[k] > 0 /\ Pow2[k + 1] = 2 * Pow2[k]
    BY <2>1, Pow2Unfolds, Pow2Positive
  <2>3. q \in Nat /\ v \div Pow2[k + 1] = q \div 2
    BY <2>2, HalfOf
  <2>4. BitAt(octets, off + j - 1) = q % 2
    BY <2>1 DEF Digit
  <2>5. g[j] = (2 * g[i]) + BitAt(octets, off + j - 1)
    BY <1>2, <2>1
  <2>6. g[i] = q \div 2
    BY <2>1, <2>3
  <2> HIDE DEF q, j, k
  <2>7. g[j] = q
    BY <2>3, <2>4, <2>5, <2>6
  <2> QED BY <2>1, <2>7 DEF q, j, k
<1>5. \A i \in 0..n : i \in T
  <2> HIDE DEF T
  <2> QED BY <1>n, <1>3, <1>4, UpTo
<1>6. v \div Pow2[0] = v
  <2>1. v \div 1 = v
    OBVIOUS
  <2> QED BY <2>1, Pow2Unfolds
<1> QED BY <1>n, <1>1, <1>5, <1>6

\* The recursion of WriteBits.
Writing(g, octets, off, n, v) ==
  g = [i \in 0..n |-> IF i = 0 THEN octets
                      ELSE OrBit(g[i - 1], off + i - 1, (v \div Pow2[n - i]) % 2)]

WritingTo(g, octets, off, n, v, m) ==
  g = [i \in 0..m |-> IF i = 0 THEN octets
                      ELSE OrBit(g[i - 1], off + i - 1, (v \div Pow2[n - i]) % 2)]

\* The octets between the steps of write_uint exist.
LEMMA WritingExists ==
  ASSUME NEW octets, NEW off, NEW n \in Nat, NEW v
  PROVE  \E g : Writing(g, octets, off, n, v)
<1> DEFINE T == {m \in Nat : \E g : WritingTo(g, octets, off, n, v, m)}
<1>1. 0 \in T
  <2>1. WritingTo([i \in 0..0 |-> octets], octets, off, n, v, 0)
    BY DEF WritingTo
  <2> QED BY <2>1
<1>2. ASSUME NEW m \in Nat, m \in T PROVE m + 1 \in T
  <2>1. PICK g : WritingTo(g, octets, off, n, v, m)
    BY <1>2
  <2> DEFINE h == [i \in 0..(m + 1) |-> IF i = 0 THEN octets
                      ELSE OrBit(g[i - 1], off + i - 1, (v \div Pow2[n - i]) % 2)]
  <2>2. \A i \in 0..m : h[i] = g[i]
    BY <2>1 DEF WritingTo
  <2>3. \A i \in 0..(m + 1) : i # 0 => h[i - 1] = g[i - 1]
    <3>1. \A i \in 0..(m + 1) : i # 0 => i - 1 \in 0..m
      OBVIOUS
    <3> HIDE DEF h
    <3> QED BY <2>2, <3>1
  <2>4. h = [i \in 0..(m + 1) |-> IF i = 0 THEN octets
                      ELSE OrBit(h[i - 1], off + i - 1, (v \div Pow2[n - i]) % 2)]
    BY <2>3
  <2> HIDE DEF h
  <2>5. WritingTo(h, octets, off, n, v, m + 1)
    BY <2>4 DEF WritingTo
  <2> QED BY <2>5
<1>3. \A m \in Nat : m \in T
  <2> HIDE DEF T
  <2> QED BY <1>1, <1>2, UpFromZero
<1> QED BY <1>3 DEF Writing, WritingTo

\* write_uint, as the octets after its last step.
LEMMA WriteBitsUnfolds ==
  ASSUME NEW octets, NEW off, NEW n \in Nat, NEW v
  PROVE  \E g : Writing(g, octets, off, n, v) /\ WriteBits(octets, off, n, v) = g[n]
<1> DEFINE g == CHOOSE g : Writing(g, octets, off, n, v)
<1>1. Writing(g, octets, off, n, v)
  BY WritingExists
<1>2. WriteBits(octets, off, n, v) = g[n]
  BY DEF WriteBits, Writing
<1> QED BY <1>1, <1>2

\* A field whose bits were 0 holds the bits of the value; the others are as before.
LEMMA WriteBitsSets ==
  ASSUME NEW octets \in Seq(Octet), NEW off, NEW n, FieldIn(octets, off, n), NEW v \in Nat,
         \A i \in 1..n : BitAt(octets, off + i - 1) = 0
  PROVE  LET out == WriteBits(octets, off, n, v) IN
         /\ out \in Seq(Octet) /\ Len(out) = Len(octets)
         /\ \A i \in 1..n : BitAt(out, off + i - 1) = Digit(v, n, i)
         /\ \A c \in Bits(octets) : c \notin off..(off + n - 1) => BitAt(out, c) = BitAt(octets, c)
<1>n. n \in Nat /\ off \in Nat
  BY DEF FieldIn
<1>1. PICK g : Writing(g, octets, off, n, v) /\ WriteBits(octets, off, n, v) = g[n]
  BY <1>n, WriteBitsUnfolds
<1>2. g[0] = octets /\ \A i \in 1..n : g[i] = OrBit(g[i - 1], off + i - 1, Digit(v, n, i))
  BY <1>n, <1>1 DEF Writing, Digit
<1>3. \A i \in 1..n : Digit(v, n, i) \in {0, 1}
  <2> SUFFICES ASSUME NEW i \in 1..n PROVE Digit(v, n, i) \in {0, 1}
    OBVIOUS
  <2>1. n - i \in Nat
    BY <1>n
  <2>2. v \div Pow2[n - i] \in Nat
    BY <2>1, Pow2Positive, HalfOf
  <2> QED BY <2>2 DEF Digit
<1> DEFINE P(i) == /\ g[i] \in Seq(Octet) /\ Len(g[i]) = Len(octets)
                   /\ \A j \in 1..n : BitAt(g[i], off + j - 1) = IF j <= i THEN Digit(v, n, j) ELSE 0
                   /\ \A c \in Bits(octets) :
                        c \notin off..(off + n - 1) => BitAt(g[i], c) = BitAt(octets, c)
           T == {i \in Nat : P(i)}
<1>4. 0 \in T
  BY <1>2
<1>5. \A i \in 0..(n - 1) : i \in T => i + 1 \in T
  <2> SUFFICES ASSUME NEW i \in 0..(n - 1), P(i) PROVE P(i + 1)
    OBVIOUS
  <2> DEFINE k == i + 1
             bit == off + k - 1
             b == Digit(v, n, k)
             old == g[i]
             new == g[k]
  <2>1. k \in 1..n /\ k - 1 = i
    BY <1>n
  <2>2. new = OrBit(old, bit, b) /\ b \in {0, 1}
    BY <1>2, <1>3, <2>1
  <2>3. bit \in Bits(octets) /\ Bits(old) = Bits(octets) /\ \A j \in 1..n : off + j - 1 \in Bits(octets)
    BY <2>1, BitsOfField DEF Bits
  <2>4. old \in Seq(Octet) /\ Len(old) = Len(octets)
    OBVIOUS
  <2> HIDE DEF new, old, b, bit, k
  <2>5. /\ new \in Seq(Octet) /\ Len(new) = Len(octets)
        /\ \A c \in Bits(octets) : BitAt(new, c) = IF c = bit /\ b = 1 THEN 1 ELSE BitAt(old, c)
    BY <2>2, <2>3, <2>4, OrBitSets
  <2>6. ASSUME NEW j \in 1..n
        PROVE  BitAt(new, off + j - 1) = IF j <= k THEN Digit(v, n, j) ELSE 0
    <3>1. BitAt(old, off + j - 1) = IF j <= i THEN Digit(v, n, j) ELSE 0
      BY DEF old
    <3>2. CASE j = k
      <4>1. off + j - 1 = bit /\ ~(j <= i) /\ j <= k
        BY <1>n, <3>2, <2>1 DEF bit
      <4>2. Digit(v, n, j) = b
        BY <3>2 DEF b
      <4> QED BY <4>1, <4>2, <3>1, <2>2, <2>3, <2>5
    <3>3. CASE j # k
      <4>1. off + j - 1 # bit /\ (j <= i <=> j <= k)
        BY <1>n, <3>3, <2>1 DEF bit
      <4>2. BitAt(new, off + j - 1) = BitAt(old, off + j - 1)
        BY <4>1, <2>3, <2>5
      <4> QED BY <4>1, <4>2, <3>1
    <3> QED BY <3>2, <3>3
  <2>7. ASSUME NEW c \in Bits(octets), c \notin off..(off + n - 1)
        PROVE  BitAt(new, c) = BitAt(octets, c)
    <3>1. bit \in off..(off + n - 1)
      BY <1>n, <2>1 DEF bit
    <3>2. BitAt(new, c) = BitAt(old, c)
      BY <2>5, <2>7, <3>1
    <3> QED BY <3>2, <2>7 DEF old
  <2> QED BY <2>5, <2>6, <2>7 DEF new, k
<1>6. \A i \in 0..n : i \in T
  <2> HIDE DEF T
  <2> QED BY <1>n, <1>4, <1>5, UpTo
<1>7. P(n)
  BY <1>n, <1>6
<1>8. \A j \in 1..n : j <= n
  BY <1>n
<1> QED BY <1>1, <1>7, <1>8

----------------------------------------------------------------------------
(* Sequences of sequences *)

\* Functions on 1..n are sequences.
LEMMA FunctionIsSeq ==
  ASSUME NEW S, NEW n \in Nat, NEW f \in [1..n -> S]
  PROVE  f \in Seq(S) /\ Len(f) = n /\ DOMAIN f = 1..n
<1>1. f \in Seq(S)
  OBVIOUS
<1>2. DOMAIN f = 1..n
  OBVIOUS
<1>3. Len(f) \in Nat /\ DOMAIN f = 1..Len(f)
  BY <1>1
<1>4. Len(f) = n
  BY <1>2, <1>3
<1> QED BY <1>1, <1>2, <1>4

\* The recursion of FlattenSeq, of the first m sequences.
Flattening(g, seqs, m) ==
  g = [i \in 1..m |-> IF i = 1 THEN seqs[i] ELSE g[i - 1] \o seqs[i]]

\* The accumulator of FlattenSeq exists.
LEMMA FlatteningExists ==
  ASSUME NEW seqs, NEW n \in Nat
  PROVE  \E g : Flattening(g, seqs, n)
<1> DEFINE T == {m \in Nat : \E g : Flattening(g, seqs, m)}
<1>1. 0 \in T
  <2>1. Flattening([i \in 1..0 |-> 0], seqs, 0)
    BY DEF Flattening
  <2> QED BY <2>1
<1>2. ASSUME NEW m \in Nat, m \in T PROVE m + 1 \in T
  <2>1. PICK g : Flattening(g, seqs, m)
    BY <1>2
  <2> DEFINE h == [i \in 1..(m + 1) |-> IF i = 1 THEN seqs[i] ELSE g[i - 1] \o seqs[i]]
  <2>2. \A i \in 1..m : h[i] = g[i]
    <3>1. \A i \in 1..m : g[i] = IF i = 1 THEN seqs[i] ELSE g[i - 1] \o seqs[i]
      BY <2>1 DEF Flattening
    <3>2. \A i \in 1..m : i \in 1..(m + 1)
      OBVIOUS
    <3>3. \A i \in 1..(m + 1) : h[i] = IF i = 1 THEN seqs[i] ELSE g[i - 1] \o seqs[i]
      OBVIOUS
    <3> HIDE DEF h
    <3> QED BY <3>1, <3>2, <3>3
  <2>3. \A i \in 1..(m + 1) : i # 1 => h[i - 1] = g[i - 1]
    <3>1. \A i \in 1..(m + 1) : i # 1 => i - 1 \in 1..m
      OBVIOUS
    <3> HIDE DEF h
    <3> QED BY <2>2, <3>1
  <2>4. h = [i \in 1..(m + 1) |-> IF i = 1 THEN seqs[i] ELSE h[i - 1] \o seqs[i]]
    BY <2>3
  <2> HIDE DEF h
  <2>5. Flattening(h, seqs, m + 1)
    BY <2>4 DEF Flattening
  <2> QED BY <2>5
<1>3. \A m \in Nat : m \in T
  <2> HIDE DEF T
  <2> QED BY <1>1, <1>2, UpFromZero
<1> QED BY <1>3

\* What is left of a list: octets put one behind the other, from the empty one on.
Piles(h, seqs) ==
  /\ h[0] = <<>>
  /\ \A i \in 1..Len(seqs) : h[i] = h[i - 1] \o seqs[i]

\* The empty sequence, in front or behind.
LEMMA EmptyConcat ==
  ASSUME NEW S, NEW s \in Seq(S)
  PROVE  <<>> \o s = s /\ s \o <<>> = s
BY ConcatEmptySeq

\* FlattenSeq is the end of any such pile.
LEMMA FlattenIs ==
  ASSUME NEW S, NEW seqs \in Seq(Seq(S)), NEW h, Piles(h, seqs)
  PROVE  /\ FlattenSeq(seqs) = h[Len(seqs)]
         /\ \A i \in 0..Len(seqs) : h[i] \in Seq(S)
<1> DEFINE n == Len(seqs)
<1>n. n \in Nat /\ \A i \in 1..n : seqs[i] \in Seq(S)
  OBVIOUS
<1>h. h[0] = <<>> /\ \A i \in 1..n : h[i] = h[i - 1] \o seqs[i]
  BY DEF Piles
<1> HIDE DEF n
<1>1. \A i \in 0..n : h[i] \in Seq(S)
  <2> DEFINE T == {i \in Nat : h[i] \in Seq(S)}
  <2>1. 0 \in T
    BY <1>h, EmptySeq
  <2>2. ASSUME NEW i \in 0..(n - 1), i \in T PROVE i + 1 \in T
    <3>1. i + 1 \in 1..n /\ (i + 1) - 1 = i
      BY <1>n
    <3>2. h[i + 1] = h[i] \o seqs[i + 1] /\ seqs[i + 1] \in Seq(S)
      BY <1>n, <1>h, <3>1
    <3>3. h[i] \in Seq(S)
      BY <2>2
    <3>4. h[i + 1] \in Seq(S)
      BY <3>2, <3>3, ConcatProperties
    <3> QED BY <3>4
  <2>3. \A i \in 0..n : i \in T
    <3> HIDE DEF T
    <3> QED BY <1>n, <2>1, <2>2, UpTo
  <2> QED BY <2>3
<1>2. CASE n = 0
  <2>1. seqs = <<>> /\ FlattenSeq(seqs) = seqs
    BY <1>2 DEF n, FlattenSeq
  <2> QED BY <1>1, <1>2, <1>h, <2>1 DEF n
<1>3. CASE n # 0
  <2> DEFINE g == CHOOSE g : Flattening(g, seqs, n)
  <2>1. Flattening(g, seqs, n)
    BY <1>n, FlatteningExists
  <2>2. FlattenSeq(seqs) = g[n]
    BY <1>3 DEF n, FlattenSeq, Flattening
  <2>3. \A i \in 1..n : g[i] = IF i = 1 THEN seqs[i] ELSE g[i - 1] \o seqs[i]
    BY <2>1 DEF Flattening
  <2> HIDE DEF g
  <2> DEFINE T == {i \in Nat : i # 0 => g[i] = h[i]}
  <2>4. 0 \in T
    OBVIOUS
  <2>5. ASSUME NEW i \in 0..(n - 1), i \in T PROVE i + 1 \in T
    <3> DEFINE j == i + 1
    <3>1. j \in 1..n /\ j - 1 = i /\ j # 0 /\ (j = 1 <=> i = 0)
      BY <1>n
    <3>2. h[j] = h[i] \o seqs[j] /\ seqs[j] \in Seq(S)
      BY <1>n, <1>h, <3>1
    <3> HIDE DEF j
    <3>3. CASE i = 0
      <4>1. h[j] = seqs[j]
        BY <3>2, <3>3, <1>h, EmptyConcat
      <4>2. g[j] = seqs[j]
        BY <2>3, <3>1, <3>3
      <4> QED BY <4>1, <4>2 DEF j
    <3>4. CASE i # 0
      <4>1. g[j] = g[i] \o seqs[j]
        BY <2>3, <3>1, <3>4
      <4>2. g[i] = h[i]
        BY <2>5, <3>4
      <4>3. g[j] = h[j]
        BY <3>2, <4>1, <4>2
      <4>4. j \in Nat
        BY <3>1
      <4> QED BY <4>3, <4>4 DEF j
    <3> QED BY <3>3, <3>4
  <2>6. \A i \in 0..n : i \in T
    <3> HIDE DEF T
    <3> QED BY <1>n, <2>4, <2>5, UpTo
  <2>7. g[n] = h[n]
    BY <1>3, <1>n, <2>6
  <2> QED BY <1>1, <2>2, <2>7 DEF n
<1> QED BY <1>2, <1>3

\* Sequences can be piled up, one behind the other.
LEMMA PilesExist ==
  ASSUME NEW S, NEW seqs \in Seq(Seq(S))
  PROVE  \E h : Piles(h, seqs)
<1> DEFINE n == Len(seqs)
<1>n. n \in Nat /\ \A i \in 1..n : seqs[i] \in Seq(S)
  OBVIOUS
<1>1. PICK g : Flattening(g, seqs, n)
  BY <1>n, FlatteningExists
<1>2. \A i \in 1..n : g[i] = IF i = 1 THEN seqs[i] ELSE g[i - 1] \o seqs[i]
  BY <1>1 DEF Flattening
<1> DEFINE h == [i \in 0..n |-> IF i = 0 THEN <<>> ELSE g[i]]
<1>3. h[0] = <<>>
  BY <1>n
<1>4. ASSUME NEW i \in 1..n PROVE h[i] = h[i - 1] \o seqs[i]
  <2>1. h[i] = g[i]
    BY <1>n
  <2>2. CASE i = 1
    <3>1. h[i - 1] = <<>> /\ g[i] = seqs[i]
      BY <1>2, <2>2
    <3>2. <<>> \o seqs[i] = seqs[i]
      BY <1>n, EmptyConcat
    <3> QED BY <2>1, <3>1, <3>2
  <2>3. CASE i # 1
    <3>1. h[i - 1] = g[i - 1]
      BY <1>n, <2>3
    <3> HIDE DEF h
    <3> QED BY <1>2, <2>1, <2>3, <3>1
  <2> QED BY <2>2, <2>3
<1> HIDE DEF h
<1>5. Piles(h, seqs)
  BY <1>3, <1>4 DEF Piles
<1> QED BY <1>5

\* A flattened sequence has the type of what it is made of.
LEMMA FlattenType ==
  ASSUME NEW S, NEW seqs \in Seq(Seq(S))
  PROVE  FlattenSeq(seqs) \in Seq(S)
<1>1. PICK h : Piles(h, seqs)
  BY PilesExist
<1>2. FlattenSeq(seqs) = h[Len(seqs)] /\ \A i \in 0..Len(seqs) : h[i] \in Seq(S)
  BY <1>1, FlattenIs
<1> QED BY <1>2

\* Nothing, flattened.
LEMMA FlattenEmpty == FlattenSeq(<<>>) = <<>>
BY DEF FlattenSeq

\* One sequence more, flattened.
LEMMA FlattenAppend ==
  ASSUME NEW S, NEW seqs \in Seq(Seq(S)), NEW s \in Seq(S)
  PROVE  FlattenSeq(Append(seqs, s)) = FlattenSeq(seqs) \o s
<1> DEFINE n == Len(seqs)
           more == Append(seqs, s)
<1>1. PICK h : Piles(h, seqs)
  BY PilesExist
<1>2. FlattenSeq(seqs) = h[n]
  BY <1>1, FlattenIs
<1>n. n \in Nat
  OBVIOUS
<1>3. /\ more \in Seq(Seq(S)) /\ Len(more) = n + 1
      /\ \A i \in 1..n : more[i] = seqs[i]
      /\ more[n + 1] = s
  BY AppendProperties
<1> DEFINE g == [i \in 0..(n + 1) |-> IF i = n + 1 THEN h[n] \o s ELSE h[i]]
<1>4. g[0] = <<>>
  BY <1>1, <1>n DEF Piles
<1>5. ASSUME NEW i \in 1..(n + 1) PROVE g[i] = g[i - 1] \o more[i]
  <2>1. CASE i = n + 1
    <3>1. g[i] = h[n] \o s
      BY <2>1, <1>n
    <3>2. i - 1 \in 0..(n + 1) /\ i - 1 # n + 1 /\ i - 1 = n
      BY <2>1, <1>n
    <3>3. g[i - 1] = h[n]
      BY <3>2
    <3> HIDE DEF g, more
    <3> QED BY <2>1, <1>3, <3>1, <3>3
  <2>2. CASE i # n + 1
    <3>1. i \in 1..n /\ g[i] = h[i] /\ g[i - 1] = h[i - 1]
      BY <1>n, <2>2
    <3>2. h[i] = h[i - 1] \o seqs[i]
      BY <1>1, <3>1 DEF Piles
    <3> HIDE DEF g, more
    <3> QED BY <1>3, <3>1, <3>2
  <2> QED BY <2>1, <2>2
<1>6. g[n + 1] = h[n] \o s
  BY <1>n
<1> HIDE DEF g, more
<1>7. Piles(g, more)
  BY <1>3, <1>4, <1>5 DEF Piles
<1>8. FlattenSeq(more) = g[n + 1]
  BY <1>3, <1>7, FlattenIs
<1> QED BY <1>2, <1>6, <1>8 DEF more

\* The sequences of the first k.
LEMMA FlattenFirst ==
  ASSUME NEW S, NEW seqs \in Seq(Seq(S)), NEW k \in 1..Len(seqs)
  PROVE  /\ SubSeq(seqs, 1, k - 1) \in Seq(Seq(S))
         /\ FlattenSeq(SubSeq(seqs, 1, k)) = FlattenSeq(SubSeq(seqs, 1, k - 1)) \o seqs[k]
<1> DEFINE a == SubSeq(seqs, 1, k - 1)
<1>1. a \in Seq(Seq(S)) /\ seqs[k] \in Seq(S)
  <2>1. \A i \in 1..(k - 1) : seqs[i] \in Seq(S)
    OBVIOUS
  <2> QED BY <2>1, SubSeqProperties
<1>2. SubSeq(seqs, 1, k) = Append(a, seqs[k])
  <2>1. SubSeq(seqs, 1, k) = a \o << seqs[k] >>
    <3>1. 1 \in 1..Len(seqs) /\ k \in 1..Len(seqs)
      OBVIOUS
    <3> QED BY <3>1, SubSeqRecursiveSecond
  <2>2. Append(a, seqs[k]) = a \o << seqs[k] >>
    <3> HIDE DEF a
    <3> QED BY <1>1, AppendIsConcat
  <2> QED BY <2>1, <2>2
<1> HIDE DEF a
<1>3. FlattenSeq(Append(a, seqs[k])) = FlattenSeq(a) \o seqs[k]
  BY <1>1, FlattenAppend
<1> QED BY <1>1, <1>2, <1>3 DEF a

\* A header before its fields are written.
LEMMA ZerosAre ==
  ASSUME NEW n \in Nat
  PROVE  /\ Zeros(n) \in Seq(Octet) /\ Len(Zeros(n)) = n
         /\ \A i \in 1..n : Zeros(n)[i] = 0
<1> DEFINE seqs == [i \in 1..n |-> <<0>>]
<1>1. 0 \in Octet /\ <<0>> \in Seq(Octet)
  BY DEF Octet
<1>2. seqs \in Seq(Seq(Octet)) /\ Len(seqs) = n
  <2>1. seqs \in [1..n -> Seq(Octet)]
    BY <1>1
  <2> HIDE DEF seqs
  <2> QED BY <2>1, FunctionIsSeq
<1>3. PICK h : Piles(h, seqs)
  BY <1>2, PilesExist
<1>4. Zeros(n) = h[n] /\ \A i \in 0..n : h[i] \in Seq(Octet)
  <2>1. Zeros(n) = FlattenSeq(seqs)
    BY DEF Zeros
  <2> HIDE DEF seqs
  <2> QED BY <1>2, <1>3, <2>1, FlattenIs
<1>5. h[0] = <<>> /\ \A i \in 1..n : h[i] = h[i - 1] \o <<0>>
  BY <1>2, <1>3 DEF Piles
<1> DEFINE T == {m \in Nat : Len(h[m]) = m /\ \A i \in 1..m : h[m][i] = 0}
<1>6. 0 \in T
  BY <1>5
<1>7. ASSUME NEW m \in 0..(n - 1), m \in T PROVE m + 1 \in T
  <2> DEFINE old == h[m]
             new == h[m + 1]
  <2>1. old \in Seq(Octet) /\ new = old \o <<0>> /\ Len(old) = m /\ \A i \in 1..m : old[i] = 0
    <3>1. m + 1 \in 1..n /\ (m + 1) - 1 = m /\ m \in 0..n
      OBVIOUS
    <3> QED BY <1>4, <1>5, <1>7, <3>1
  <2> HIDE DEF old, new
  <2>2. Len(new) = m + 1 /\ \A i \in 1..(m + 1) : new[i] = 0
    BY <1>1, <2>1
  <2> QED BY <2>2 DEF new
<1>8. \A m \in 0..n : m \in T
  <2> HIDE DEF T
  <2> QED BY <1>6, <1>7, UpTo
<1> QED BY <1>4, <1>8

----------------------------------------------------------------------------
(* The header of a unit *)

\* A description that the linter lets pass.
Linted(doc) == doc \in Description /\ HeaderLints(doc)
InHeader(doc, f) == f.off \in Nat /\ f.width \in Nat /\ f.width > 0 /\ f.off + f.width <= doc.bits
Typed(f) == f.type \in {"uint", "bool", "enum"} /\ (f.type = "bool" => f.width = 1)

\* The members of a field.
LEMMA FieldType ==
  ASSUME NEW f \in FieldDescr
  PROVE  f.off \in Int /\ f.width \in Int
BY DEF FieldDescr

\* The members of a description.
LEMMA DescriptionType ==
  ASSUME NEW doc \in Description
  PROVE  /\ doc.bits \in Int /\ doc.fields \in Seq(FieldDescr)
         /\ Len(doc.fields) \in Nat /\ DOMAIN doc.fields = 1..Len(doc.fields)
         /\ \A j \in 1..Len(doc.fields) : doc.fields[j] \in FieldDescr
<1>1. doc.bits \in Int /\ doc.fields \in Seq(FieldDescr)
  BY Zenon DEF Description
<1> DEFINE fs == doc.fields
<1>2. fs \in Seq(FieldDescr)
  BY <1>1
<1> HIDE DEF fs
<1>3. /\ Len(fs) \in Nat /\ DOMAIN fs = 1..Len(fs)
      /\ \A j \in 1..Len(fs) : fs[j] \in FieldDescr
  BY <1>2
<1> QED BY <1>1, <1>3 DEF fs

\* What the linter says of the fields of a description.
LEMMA LintedShape ==
  ASSUME NEW doc, Linted(doc)
  PROVE  /\ HeaderOctets(doc) \in Nat /\ HeaderOctets(doc) > 0
         /\ doc.bits = 8 * HeaderOctets(doc)
         /\ \A j \in 1..Len(doc.fields) : InHeader(doc, doc.fields[j]) /\ Typed(doc.fields[j])
         /\ \A i, j \in 1..Len(doc.fields) : i # j =>
              /\ doc.fields[i].name # doc.fields[j].name
              /\ FieldBits(doc.fields[i]) \cap FieldBits(doc.fields[j]) = {}
<1>1. doc \in Description /\ HeaderLints(doc)
  BY DEF Linted
<1> DEFINE n == Len(doc.fields)
           b == doc.bits
<1>2. b \in Int /\ b > 0 /\ b % 8 = 0
  BY <1>1, DescriptionType DEF HeaderLints
<1>3. DOMAIN doc.fields = 1..n
  BY <1>1, DescriptionType
<1>4. HeaderOctets(doc) \in Nat /\ HeaderOctets(doc) > 0 /\ b = 8 * HeaderOctets(doc)
  <2>1. HeaderOctets(doc) = (b + 7) \div 8
    BY DEF HeaderOctets
  <2> HIDE DEF b
  <2>2. (b + 7) \div 8 \in Nat /\ (b + 7) \div 8 > 0 /\ b = 8 * ((b + 7) \div 8)
    BY <1>2
  <2> QED BY <2>1, <2>2
<1>5. ASSUME NEW j \in 1..n PROVE InHeader(doc, doc.fields[j]) /\ Typed(doc.fields[j])
  <2> DEFINE f == doc.fields[j]
  <2>1. f.off \in Int /\ f.width \in Int
    BY <1>1, DescriptionType, FieldType
  <2>2. FieldFits(doc, f)
    BY <1>1, <1>3 DEF HeaderLints
  <2> HIDE DEF f
  <2>3. f.off >= 0 /\ f.width > 0 /\ f.off + f.width <= b
    BY <2>2 DEF FieldFits
  <2>4. Typed(f)
    BY <2>2 DEF FieldFits, Typed
  <2>5. InHeader(doc, f)
    BY <2>1, <2>3 DEF InHeader
  <2> QED BY <2>4, <2>5 DEF f
<1>6. ASSUME NEW i \in 1..n, NEW j \in 1..n, i # j
      PROVE  /\ doc.fields[i].name # doc.fields[j].name
             /\ FieldBits(doc.fields[i]) \cap FieldBits(doc.fields[j]) = {}
  BY <1>1, <1>3, <1>6 DEF HeaderLints, BitsFree
<1> QED BY <1>4, <1>5, <1>6

\* The field is within any octets that hold the header.
LEMMA FieldInside ==
  ASSUME NEW doc, Linted(doc), NEW j \in 1..Len(doc.fields),
         NEW octets \in Seq(Octet), Len(octets) >= HeaderOctets(doc)
  PROVE  FieldIn(octets, doc.fields[j].off, doc.fields[j].width)
<1> DEFINE h == HeaderOctets(doc)
           off == doc.fields[j].off
           w == doc.fields[j].width
           b == doc.bits
<1>1. h \in Nat /\ b = 8 * h /\ off \in Nat /\ w \in Nat /\ off + w <= b
  BY LintedShape DEF InHeader
<1>2. Len(octets) \in Nat /\ Len(octets) >= h
  OBVIOUS
<1> HIDE DEF h, off, w, b
<1>3. off + w <= 8 * Len(octets)
  BY <1>1, <1>2
<1>4. FieldIn(octets, off, w)
  BY <1>1, <1>3 DEF FieldIn
<1> QED BY <1>4 DEF off, w

NatMembers(doc, m) == \A j \in 1..Len(doc.fields) : m[doc.fields[j].name] \in Nat

\* The recursion of Header, of the first n fields.
LaysOut(g, doc, m, n) ==
  g = [i \in 0..n |-> IF i = 0 THEN Zeros(HeaderOctets(doc))
                      ELSE WriteBits(g[i - 1], doc.fields[i].off, doc.fields[i].width,
                                     m[doc.fields[i].name])]

\* The octets between the fields exist.
LEMMA LaysOutExists ==
  ASSUME NEW doc, NEW m, NEW n \in Nat
  PROVE  \E g : LaysOut(g, doc, m, n)
<1> DEFINE T == {k \in Nat : \E g : LaysOut(g, doc, m, k)}
<1>1. 0 \in T
  <2>1. LaysOut([i \in 0..0 |-> Zeros(HeaderOctets(doc))], doc, m, 0)
    BY DEF LaysOut
  <2> QED BY <2>1
<1>2. ASSUME NEW k \in Nat, k \in T PROVE k + 1 \in T
  <2>1. PICK g : LaysOut(g, doc, m, k)
    BY <1>2
  <2> DEFINE h == [i \in 0..(k + 1) |-> IF i = 0 THEN Zeros(HeaderOctets(doc))
                      ELSE WriteBits(g[i - 1], doc.fields[i].off, doc.fields[i].width,
                                     m[doc.fields[i].name])]
  <2>2. \A i \in 0..k : h[i] = g[i]
    BY <2>1 DEF LaysOut
  <2>3. \A i \in 0..(k + 1) : i # 0 => h[i - 1] = g[i - 1]
    <3>1. \A i \in 0..(k + 1) : i # 0 => i - 1 \in 0..k
      OBVIOUS
    <3> HIDE DEF h
    <3> QED BY <2>2, <3>1
  <2>4. h = [i \in 0..(k + 1) |-> IF i = 0 THEN Zeros(HeaderOctets(doc))
                      ELSE WriteBits(h[i - 1], doc.fields[i].off, doc.fields[i].width,
                                     m[doc.fields[i].name])]
    BY <2>3
  <2> HIDE DEF h
  <2>5. LaysOut(h, doc, m, k + 1)
    BY <2>4 DEF LaysOut
  <2> QED BY <2>5
<1>3. \A k \in Nat : k \in T
  <2> HIDE DEF T
  <2> QED BY <1>1, <1>2, UpFromZero
<1> QED BY <1>3

\* The header is what they are behind the last field.
LEMMA HeaderUnfolds ==
  ASSUME NEW doc \in Description, NEW m
  PROVE  \E g : LaysOut(g, doc, m, Len(doc.fields)) /\ Header(doc, m) = g[Len(doc.fields)]
<1> DEFINE g == CHOOSE g : LaysOut(g, doc, m, Len(doc.fields))
<1>1. LaysOut(g, doc, m, Len(doc.fields))
  BY LaysOutExists, DescriptionType
<1>2. Header(doc, m) = g[Len(doc.fields)]
  BY DEF Header, LaysOut
<1> QED BY <1>1, <1>2

\* Octets in which field f holds v.
Holds(octets, f, v) == \A i \in 1..f.width : BitAt(octets, f.off + i - 1) = Digit(v, f.width, i)
Blank(octets, f) == \A i \in 1..f.width : BitAt(octets, f.off + i - 1) = 0

\* No bit of it is set.
LEMMA ZerosBlank ==
  ASSUME NEW n \in Nat, NEW bit \in Bits(Zeros(n))
  PROVE  BitAt(Zeros(n), bit) = 0
<1>1. Zeros(n)[bit \div 8 + 1] = 0
  BY ZerosAre, BitPlace
<1>2. Pow2[Shift(bit)] \in Nat /\ Pow2[Shift(bit)] > 0
  <2>1. Shift(bit) \in Nat
    <3>1. Shift(bit) \in 0..7
      BY ZerosAre, BitPlace
    <3> QED BY <3>1
  <2> QED BY <2>1, Pow2Positive
<1> DEFINE m == Pow2[Shift(bit)]
<1> HIDE DEF m
<1>3. 0 \div m = 0
  BY <1>2 DEF m
<1> QED BY <1>1, <1>3 DEF BitAt, m

\* Writing a field leaves another one as it is.
LEMMA OtherField ==
  ASSUME NEW doc, Linted(doc), NEW octets \in Seq(Octet), Len(octets) = HeaderOctets(doc),
         NEW j \in 1..Len(doc.fields), NEW k \in 1..Len(doc.fields), j # k,
         Blank(octets, doc.fields[j]), NEW v \in Nat,
         NEW i \in 1..doc.fields[k].width
  PROVE  BitAt(WriteBits(octets, doc.fields[j].off, doc.fields[j].width, v), doc.fields[k].off + i - 1)
           = BitAt(octets, doc.fields[k].off + i - 1)
<1> DEFINE f == doc.fields[j]
           e == doc.fields[k]
           c == e.off + i - 1
<1>1. FieldIn(octets, f.off, f.width) /\ FieldIn(octets, e.off, e.width)
  <2>1. Len(octets) >= HeaderOctets(doc)
    BY LintedShape
  <2> QED BY <2>1, FieldInside
<1>2. FieldBits(f) \cap FieldBits(e) = {}
  BY LintedShape
<1>3. \A x \in 1..f.width : BitAt(octets, f.off + x - 1) = 0
  BY DEF Blank
<1> HIDE DEF f, e
<1>4. c \in Bits(octets)
  BY <1>1, BitsOfField DEF e
<1>5. c \in FieldBits(e)
  <2>1. e.off \in Nat /\ e.width \in Nat /\ i \in 1..e.width
    BY <1>1 DEF FieldIn, e
  <2>2. c \in e.off..(e.off + e.width - 1)
    BY <2>1
  <2> QED BY <2>2 DEF FieldBits
<1>6. c \notin f.off..(f.off + f.width - 1)
  BY <1>2, <1>5 DEF FieldBits
<1>7. BitAt(WriteBits(octets, f.off, f.width, v), c) = BitAt(octets, c)
  BY <1>1, <1>3, <1>4, <1>6, WriteBitsSets
<1> QED BY <1>7 DEF f, e

\* The header holds every member in its field.
LEMMA HeaderHolds ==
  ASSUME NEW doc, Linted(doc), NEW m, NatMembers(doc, m)
  PROVE  /\ Header(doc, m) \in Seq(Octet)
         /\ Len(Header(doc, m)) = HeaderOctets(doc)
         /\ \A j \in 1..Len(doc.fields) :
              Holds(Header(doc, m), doc.fields[j], m[doc.fields[j].name])
<1> DEFINE n == Len(doc.fields)
           F(j) == doc.fields[j]
           V(j) == m[doc.fields[j].name]
           h == HeaderOctets(doc)
<1>0. doc \in Description /\ n \in Nat /\ h \in Nat
  BY DescriptionType, LintedShape DEF Linted
<1>1. PICK g : LaysOut(g, doc, m, n) /\ Header(doc, m) = g[n]
  BY <1>0, HeaderUnfolds
<1>2. /\ g[0] = Zeros(h)
      /\ \A i \in 1..n : g[i] = WriteBits(g[i - 1], F(i).off, F(i).width, V(i))
  <2>1. \A i \in 0..n : g[i] = IF i = 0 THEN Zeros(h)
                               ELSE WriteBits(g[i - 1], F(i).off, F(i).width, V(i))
    BY <1>1 DEF LaysOut
  <2> HIDE DEF h, F, V
  <2> QED BY <1>0, <2>1
<1>3. \A i \in 1..n : V(i) \in Nat
  BY DEF NatMembers
<1> DEFINE P(i) == /\ g[i] \in Seq(Octet) /\ Len(g[i]) = h
                   /\ \A j \in 1..n : IF j <= i THEN Holds(g[i], F(j), V(j)) ELSE Blank(g[i], F(j))
           T == {i \in Nat : P(i)}
<1>4. 0 \in T
  <2>1. Zeros(h) \in Seq(Octet) /\ Len(Zeros(h)) = h
    BY <1>0, ZerosAre
  <2>2. ASSUME NEW j \in 1..n PROVE Blank(Zeros(h), F(j))
    <3> SUFFICES ASSUME NEW i \in 1..F(j).width PROVE BitAt(Zeros(h), F(j).off + i - 1) = 0
      BY DEF Blank
    <3>1. Len(Zeros(h)) >= h
      BY <1>0, <2>1
    <3>2. F(j).off + i - 1 \in Bits(Zeros(h))
      BY <2>1, <3>1, FieldInside, BitsOfField
    <3> QED BY <1>0, <3>2, ZerosBlank
  <2>3. \A j \in 1..n : ~(j <= 0)
    BY <1>0
  <2> QED BY <1>2, <2>1, <2>2, <2>3
<1>5. ASSUME NEW i \in 0..(n - 1), i \in T PROVE i + 1 \in T
  <2> DEFINE k == i + 1
             old == g[i]
             new == g[k]
  <2>1. k \in 1..n /\ k - 1 = i /\ ~(k <= i) /\ k \in Nat
    BY <1>0
  <2>2. old \in Seq(Octet) /\ Len(old) = h
    BY <1>5
  <2>3. \A j \in 1..n : IF j <= i THEN Holds(old, F(j), V(j)) ELSE Blank(old, F(j))
    BY <1>5
  <2>4. new = WriteBits(old, F(k).off, F(k).width, V(k))
    BY <1>2, <2>1
  <2>5. V(k) \in Nat /\ FieldIn(old, F(k).off, F(k).width)
    <3>1. Len(old) >= h
      BY <1>0, <2>2
    <3> HIDE DEF k, old
    <3> QED BY <1>3, <2>1, <2>2, <3>1, FieldInside
  <2>6. Blank(old, F(k))
    BY <2>1, <2>3
  <2>7. \A x \in 1..F(k).width : BitAt(old, F(k).off + x - 1) = 0
    BY <2>6 DEF Blank
  <2> HIDE DEF old, new, k
  <2>8. /\ new \in Seq(Octet) /\ Len(new) = h
        /\ \A x \in 1..F(k).width : BitAt(new, F(k).off + x - 1) = Digit(V(k), F(k).width, x)
    BY <2>2, <2>4, <2>5, <2>7, WriteBitsSets
  <2>9. ASSUME NEW j \in 1..n
        PROVE  IF j <= k THEN Holds(new, F(j), V(j)) ELSE Blank(new, F(j))
    <3>1. CASE j = k
      <4>1. Holds(new, F(k), V(k))
        BY <2>8 DEF Holds
      <4>2. k <= k
        BY <2>1
      <4> QED BY <3>1, <4>1, <4>2
    <3>2. CASE j # k
      <4>1. \A x \in 1..F(j).width : BitAt(new, F(j).off + x - 1) = BitAt(old, F(j).off + x - 1)
        BY <2>1, <2>2, <2>4, <2>5, <2>6, <3>2, OtherField
      <4>2. j <= k <=> j <= i
        BY <1>0, <2>1, <3>2
      <4>3. Holds(old, F(j), V(j)) => Holds(new, F(j), V(j))
        BY <4>1 DEF Holds
      <4>4. Blank(old, F(j)) => Blank(new, F(j))
        BY <4>1 DEF Blank
      <4> QED BY <2>3, <4>2, <4>3, <4>4
    <3> QED BY <3>1, <3>2
  <2>10. P(k)
    BY <2>8, <2>9 DEF new
  <2> QED BY <2>1, <2>10 DEF k
<1>6. \A i \in 0..n : i \in T
  <2> HIDE DEF T
  <2> QED BY <1>0, <1>4, <1>5, UpTo
<1>7. P(n)
  <2>1. n \in 0..n
    BY <1>0
  <2> QED BY <1>6, <2>1
<1>8. \A j \in 1..n : j <= n
  BY <1>0
<1> QED BY <1>1, <1>7, <1>8

----------------------------------------------------------------------------
(* Units without elements *)

\* The type of a member is no narrower than its field.
LEMMA TypeWidth ==
  ASSUME NEW f \in FieldDescr, Typed(f)
  PROVE  /\ TypeOctets(f) \in Nat
         /\ Pow2[8 * TypeOctets(f)] \in Nat /\ Pow2[8 * TypeOctets(f)] > 0
         /\ f.type = "enum" => TypeOctets(f) = 1
         /\ f.type = "uint" /\ f.width <= 64 => f.width <= 8 * TypeOctets(f)
<1> DEFINE t == f.type
           w == f.width
           k == TypeOctets(f)
<1>1. w \in Int
  BY FieldType
<1>2. k = CASE t # "uint" \/ w <= 8 -> 1
            [] t = "uint" /\ w \in 9..16 -> 2
            [] t = "uint" /\ w \in 17..32 -> 4
            [] t = "uint" /\ w > 32 -> 8
  BY DEF TypeOctets
<1>3. t = "enum" => t # "uint"
  OBVIOUS
<1> HIDE DEF t, w, k
<1>4. t # "uint" => k = 1
  BY <1>1, <1>2
<1>5. t = "uint" => \/ w <= 8 /\ k = 1
                    \/ w \in 9..16 /\ k = 2
                    \/ w \in 17..32 /\ k = 4
                    \/ w > 32 /\ k = 8
  BY <1>1, <1>2
<1>6. k \in Nat /\ 8 * k \in Nat
  BY <1>4, <1>5
<1>7. t = "uint" /\ w <= 64 => w <= 8 * k
  BY <1>1, <1>5
<1>8. Pow2[8 * k] \in Nat /\ Pow2[8 * k] > 0
  BY <1>6, Pow2Positive
<1> QED BY <1>3, <1>4, <1>6, <1>7, <1>8 DEF t, w, k

\* A cast of what fits changes nothing.
LEMMA RemainderIs ==
  ASSUME NEW v \in Nat, NEW m \in Nat, m > 0
  PROVE  v % m \in Nat /\ v % m < m /\ (v < m => v % m = v)
OBVIOUS

\* A member keeps what fits it.
LEMMA CastKeeps ==
  ASSUME NEW f \in FieldDescr, Typed(f), NEW v \in Nat
  PROVE  /\ Cast(f, v) \in Nat
         /\ v \in Member(f) => Cast(f, v) = v
<1> DEFINE m == Pow2[8 * TypeOctets(f)]
<1>1. m \in Nat /\ m > 0
  BY TypeWidth
<1>2. CASE f.type = "bool"
  BY <1>2 DEF Cast
<1>3. CASE f.type # "bool"
  <2>1. Cast(f, v) = v % m /\ (v \in Member(f) => v \in 0..m - 1)
    BY <1>3 DEF Cast, Member
  <2> HIDE DEF m
  <2>2. v \in 0..m - 1 => v < m
    BY <1>1
  <2> QED BY <1>1, <2>1, <2>2, RemainderIs
<1> QED BY <1>2, <1>3

\* A member holds a natural number.
LEMMA MemberIsNat ==
  ASSUME NEW f \in FieldDescr, Typed(f), NEW v \in Member(f)
  PROVE  v \in Nat
<1> DEFINE m == Pow2[8 * TypeOctets(f)]
<1>1. m \in Nat
  BY TypeWidth
<1>2. v \in {0, 1} \/ v \in 0..m - 1
  BY DEF Member
<1> HIDE DEF m
<1> QED BY <1>1, <1>2

\* The name of a field is a name of its description.
LEMMA FieldOf ==
  ASSUME NEW doc, Linted(doc), NEW j \in 1..Len(doc.fields)
  PROVE  /\ doc.fields[j] \in FieldDescr /\ Typed(doc.fields[j])
         /\ doc.fields[j].name \in Names(doc)
BY DescriptionType, LintedShape DEF Linted, Names

\* A name is that of one field.
LEMMA NamedField ==
  ASSUME NEW doc, Linted(doc), NEW n \in Names(doc)
  PROVE  \E j \in 1..Len(doc.fields) : doc.fields[j].name = n
BY DescriptionType DEF Linted, Names

\* What decode puts into a member is what it has read from its field.
LEMMA MembersAre ==
  ASSUME NEW doc, Linted(doc), NEW octets
  PROVE  /\ Members(doc, octets) = [n \in Names(doc) |-> Members(doc, octets)[n]]
         /\ \A j \in 1..Len(doc.fields) :
              Members(doc, octets)[doc.fields[j].name] =
                Cast(doc.fields[j], ReadBits(octets, doc.fields[j].off, doc.fields[j].width))
<1> DEFINE fs == doc.fields
           pick(n) == CHOOSE i \in DOMAIN fs : fs[i].name = n
           val(n) == Cast(fs[pick(n)], ReadBits(octets, fs[pick(n)].off, fs[pick(n)].width))
<1>1. Members(doc, octets) = [n \in Names(doc) |-> val(n)]
  BY DEF Members
<1>2. ASSUME NEW j \in 1..Len(fs) PROVE pick(fs[j].name) = j
  <2>1. DOMAIN fs = 1..Len(fs)
    BY DescriptionType DEF Linted
  <2>2. \A i, k \in 1..Len(fs) : i # k => fs[i].name # fs[k].name
    BY LintedShape
  <2> HIDE DEF fs
  <2> QED BY <2>1, <2>2
<1> HIDE DEF pick
<1>3. ASSUME NEW j \in 1..Len(fs)
      PROVE  Members(doc, octets)[fs[j].name] = Cast(fs[j], ReadBits(octets, fs[j].off, fs[j].width))
  <2>1. fs[j].name \in Names(doc)
    BY FieldOf
  <2>2. Members(doc, octets)[fs[j].name] = val(fs[j].name)
    BY <1>1, <2>1
  <2> QED BY <1>2, <2>2
<1> QED BY <1>1, <1>3

\* Members hold naturals.
LEMMA MembersType ==
  ASSUME NEW doc, Linted(doc), NEW octets \in Seq(Octet), Len(octets) >= HeaderOctets(doc)
  PROVE  /\ Members(doc, octets) \in [Names(doc) -> Nat]
         /\ NatMembers(doc, Members(doc, octets))
<1> DEFINE m == Members(doc, octets)
<1>1. ASSUME NEW j \in 1..Len(doc.fields) PROVE m[doc.fields[j].name] \in Nat
  <2> DEFINE f == doc.fields[j]
  <2>1. f \in FieldDescr /\ Typed(f)
    BY FieldOf
  <2>2. FieldIn(octets, f.off, f.width)
    BY FieldInside
  <2>3. ReadBits(octets, f.off, f.width) \in Nat
    BY <2>2, ReadBitsDigits
  <2>4. m[f.name] = Cast(f, ReadBits(octets, f.off, f.width))
    BY MembersAre
  <2> HIDE DEF f, m
  <2>5. m[f.name] \in Nat
    BY <2>1, <2>3, <2>4, CastKeeps
  <2> QED BY <2>5 DEF f
<1>2. m = [n \in Names(doc) |-> m[n]]
  BY MembersAre
<1> HIDE DEF m
<1>3. \A n \in Names(doc) : m[n] \in Nat
  BY <1>1, NamedField
<1>4. m \in [Names(doc) -> Nat]
  BY <1>2, <1>3
<1> QED BY <1>1, <1>4 DEF NatMembers, m

\* Bits in front of what is put behind, or cut off.
LEMMA BitConcat ==
  ASSUME NEW a \in Seq(Octet), NEW b \in Seq(Octet), NEW bit \in Bits(a)
  PROVE  BitAt(a \o b, bit) = BitAt(a, bit)
<1>1. bit \div 8 + 1 \in 1..Len(a)
  BY BitPlace
<1> DEFINE i == bit \div 8 + 1
<1> HIDE DEF i
<1>2. (a \o b)[i] = a[i]
  BY <1>1 DEF i
<1> QED BY <1>2 DEF BitAt, i

\* A bit of a part is a bit of the whole.
LEMMA BitSubSeq ==
  ASSUME NEW a \in Seq(Octet), NEW h \in 0..Len(a), NEW bit \in 0..(8 * h - 1)
  PROVE  /\ SubSeq(a, 1, h) \in Seq(Octet) /\ Len(SubSeq(a, 1, h)) = h
         /\ BitAt(SubSeq(a, 1, h), bit) = BitAt(a, bit)
<1>1. Len(a) \in Nat /\ h \in Nat
  OBVIOUS
<1>2. \A i \in 1..h : a[i] \in Octet
  OBVIOUS
<1>3. SubSeq(a, 1, h) \in Seq(Octet) /\ Len(SubSeq(a, 1, h)) = h
  BY <1>1, <1>2, SubSeqProperties
<1> DEFINE i == bit \div 8 + 1
<1>4. i \in 1..h
  BY <1>1
<1> HIDE DEF i
<1>5. SubSeq(a, 1, h)[i] = a[i]
  BY <1>1, <1>4
<1> QED BY <1>3, <1>5 DEF BitAt, i

\* What fits is in its type, and has no bit above its field.
LEMMA FitsIs ==
  ASSUME NEW doc, Linted(doc), NEW m, FitsAlone(doc, m)
  PROVE  /\ NatMembers(doc, m)
         /\ \A j \in 1..Len(doc.fields) :
              /\ m[doc.fields[j].name] \in Member(doc.fields[j])
              /\ m[doc.fields[j].name] < Pow2[doc.fields[j].width]
<1>1. DOMAIN doc.fields = 1..Len(doc.fields)
  BY DescriptionType DEF Linted
<1>2. ASSUME NEW j \in 1..Len(doc.fields)
      PROVE  /\ m[doc.fields[j].name] \in Member(doc.fields[j])
             /\ m[doc.fields[j].name] < Pow2[doc.fields[j].width]
  BY <1>1 DEF FitsAlone
<1>3. ASSUME NEW j \in 1..Len(doc.fields) PROVE m[doc.fields[j].name] \in Nat
  BY <1>2, FieldOf, MemberIsNat
<1> QED BY <1>2, <1>3 DEF NatMembers

\* Members that fit are read from their header as they were.
LEMMA HeaderReads ==
  ASSUME NEW doc, Linted(doc), NEW m, m = [n \in Names(doc) |-> m[n]], FitsAlone(doc, m),
         NEW rest \in Seq(Octet)
  PROVE  /\ Members(doc, Header(doc, m) \o rest) = m
         /\ Header(doc, m) \in Seq(Octet) /\ Len(Header(doc, m)) = HeaderOctets(doc)
<1> DEFINE h == Header(doc, m)
           o == h \o rest
           r == Members(doc, o)
<1>1. /\ h \in Seq(Octet) /\ Len(h) = HeaderOctets(doc)
      /\ \A j \in 1..Len(doc.fields) : Holds(h, doc.fields[j], m[doc.fields[j].name])
  BY FitsIs, HeaderHolds
<1>2. HeaderOctets(doc) \in Nat
  BY LintedShape
<1> HIDE DEF h
<1>3. o \in Seq(Octet) /\ Len(o) >= HeaderOctets(doc)
  <2>0. h \in Seq(Octet) /\ rest \in Seq(Octet) /\ Len(rest) \in Nat
    BY <1>1
  <2>1. h \o rest \in Seq(Octet) /\ Len(h \o rest) = Len(h) + Len(rest)
    BY <2>0, ConcatProperties
  <2> DEFINE q == h \o rest
  <2>2. o = q
    OBVIOUS
  <2> HIDE DEF o, q
  <2>3. q \in Seq(Octet) /\ Len(q) = Len(h) + Len(rest)
    BY <2>1 DEF q
  <2> QED BY <1>1, <1>2, <2>0, <2>2, <2>3
<1>4. ASSUME NEW j \in 1..Len(doc.fields) PROVE r[doc.fields[j].name] = m[doc.fields[j].name]
  <2> DEFINE f == doc.fields[j]
             v == m[f.name]
  <2>1. f \in FieldDescr /\ Typed(f)
    BY FieldOf
  <2>2. v \in Member(f) /\ v < Pow2[f.width] /\ v \in Nat
    BY FitsIs DEF NatMembers
  <2>3. FieldIn(h, f.off, f.width)
    <3>1. Len(h) >= HeaderOctets(doc)
      BY <1>1, <1>2
    <3> QED BY <1>1, <3>1, FieldInside
  <2>4. FieldIn(o, f.off, f.width)
    BY <1>3, FieldInside
  <2>5. \A i \in 1..f.width : BitAt(h, f.off + i - 1) = Digit(v, f.width, i)
    BY <1>1 DEF Holds
  <2>6. r[f.name] = Cast(f, ReadBits(o, f.off, f.width))
    BY MembersAre
  <2> HIDE DEF f, v, o, r
  <2>7. \A i \in 1..f.width : BitAt(o, f.off + i - 1) = Digit(v, f.width, i)
    BY <1>1, <2>3, <2>5, BitsOfField, BitConcat DEF o
  <2>8. ReadBits(o, f.off, f.width) = v
    BY <1>3, <2>2, <2>4, <2>7, ReadBitsOf
  <2>9. r[f.name] = v
    BY <2>1, <2>2, <2>6, <2>8, CastKeeps
  <2> QED BY <2>9 DEF f, v
<1>5. r = [n \in Names(doc) |-> r[n]]
  BY MembersAre
<1> HIDE DEF r
<1>6. \A n \in Names(doc) : r[n] = m[n]
  BY <1>4, NamedField
<1>7. r = m
  BY <1>5, <1>6
<1> QED BY <1>1, <1>7 DEF r, h

\* No bit of a header is lost: what was read is written as it was.
LEMMA HeaderWrites ==
  ASSUME NEW doc, Linted(doc), WithinRuntime(doc), LosslessAlone(doc),
         NEW octets \in Seq(Octet), Len(octets) >= HeaderOctets(doc)
  PROVE  Header(doc, Members(doc, octets)) = SubSeq(octets, 1, HeaderOctets(doc))
<1> DEFINE m == Members(doc, octets)
           h == Header(doc, m)
           k == HeaderOctets(doc)
           s == SubSeq(octets, 1, k)
<1>1. /\ h \in Seq(Octet) /\ Len(h) = k
      /\ \A j \in 1..Len(doc.fields) : Holds(h, doc.fields[j], m[doc.fields[j].name])
  BY MembersType, HeaderHolds
<1>2. k \in Nat /\ doc.bits = 8 * k /\ Len(octets) \in Nat /\ k > 0
  BY LintedShape
<1>3. k \in 0..Len(octets)
  BY <1>2
<1>4. ASSUME NEW j \in 1..Len(doc.fields), NEW i \in 1..doc.fields[j].width
      PROVE  BitAt(h, doc.fields[j].off + i - 1) = BitAt(octets, doc.fields[j].off + i - 1)
  <2> DEFINE f == doc.fields[j]
             v == ReadBits(octets, f.off, f.width)
  <2>1. f \in FieldDescr /\ Typed(f) /\ f.width \in Nat
    BY FieldOf, LintedShape DEF InHeader
  <2>2. FieldIn(octets, f.off, f.width)
    BY FieldInside
  <2>3. /\ v \in Nat /\ v < Pow2[f.width]
        /\ \A x \in 1..f.width : Digit(v, f.width, x) = BitAt(octets, f.off + x - 1)
    BY <2>2, ReadBitsDigits
  <2>4. m[f.name] = Cast(f, v)
    BY MembersAre
  <2>5. v \in Member(f)
    <3>1. CASE f.type = "bool"
      <4>1. f.width = 1
        BY <2>1, <3>1 DEF Typed
      <4>2. v < 2
        BY <2>3, <4>1, Pow2Small
      <4> HIDE DEF v, f
      <4>3. v \in {0, 1}
        BY <2>3, <4>2
      <4> QED BY <3>1, <4>3 DEF Member
    <3>2. CASE f.type # "bool"
      <4> DEFINE t == 8 * TypeOctets(f)
      <4>0. TypeOctets(f) \in Nat
        BY <2>1, TypeWidth
      <4>1. t \in Nat
        BY <4>0
      <4>2. f.width <= t
        <5>1. j \in DOMAIN doc.fields
          BY DescriptionType DEF Linted
        <5>2. f.width <= 64
          BY <5>1 DEF WithinRuntime
        <5>3. f.type = "enum" => f.width <= 8
          BY <5>1 DEF LosslessAlone
        <5>4. f.type = "enum" \/ f.type = "uint"
          BY <2>1, <3>2 DEF Typed
        <5>5. f.type = "enum" => t = 8
          BY <2>1, TypeWidth
        <5>6. f.type = "uint" => f.width <= t
          BY <2>1, <5>2, TypeWidth
        <5> QED BY <5>3, <5>4, <5>5, <5>6
      <4>3. Pow2[f.width] <= Pow2[t] /\ Pow2[f.width] \in Nat /\ Pow2[t] \in Nat
        BY <2>1, <4>1, <4>2, Pow2Monotone, Pow2Positive
      <4>4. Member(f) = 0..Pow2[t] - 1
        BY <3>2 DEF Member
      <4> HIDE DEF v, f, t
      <4> QED BY <2>3, <4>3, <4>4
    <3> QED BY <3>1, <3>2
  <2>6. Holds(h, f, m[f.name])
    BY <1>1
  <2> HIDE DEF f, v, m, h
  <2>7. Cast(f, v) = v
    BY <2>1, <2>3, <2>5, CastKeeps
  <2>8. BitAt(h, f.off + i - 1) = Digit(v, f.width, i)
    BY <2>4, <2>6, <2>7 DEF Holds, f
  <2> QED BY <2>3, <2>8 DEF f
<1>5. ASSUME NEW bit \in 0..(8 * k - 1) PROVE BitAt(h, bit) = BitAt(s, bit)
  <2>1. bit \in UNION {FieldBits(doc.fields[i]) : i \in DOMAIN doc.fields}
    BY <1>2 DEF LosslessAlone
  <2>2. PICK j \in 1..Len(doc.fields) : bit \in FieldBits(doc.fields[j])
    BY <2>1, DescriptionType DEF Linted
  <2> DEFINE off == doc.fields[j].off
             w == doc.fields[j].width
             i == bit - off + 1
  <2>3. off \in Nat /\ w \in Nat /\ bit \in off..(off + w - 1)
    BY <2>2, LintedShape DEF FieldBits, InHeader
  <2>4. i \in 1..w /\ off + i - 1 = bit
    <3> HIDE DEF off, w
    <3> QED BY <1>2, <2>3
  <2>5. BitAt(h, bit) = BitAt(octets, bit)
    <3> HIDE DEF h, i
    <3> QED BY <1>4, <2>4
  <2> HIDE DEF h, k
  <2>6. BitAt(s, bit) = BitAt(octets, bit)
    BY <1>3, BitSubSeq
  <2> QED BY <2>5, <2>6
<1>6. s \in Seq(Octet) /\ Len(s) = k
  <2> HIDE DEF k
  <2>1. 0 \in 0..(8 * k - 1)
    BY <1>2 DEF k
  <2> QED BY <1>3, <2>1, BitSubSeq
<1> HIDE DEF h, s, k
<1>7. h = s
  BY <1>1, <1>5, <1>6, SameBits DEF Bits
<1> QED BY <1>7 DEF h, s, k, m

----------------------------------------------------------------------------
(* Parts of sequences *)

\* Type, length and elements of a concatenation.
LEMMA Concat ==
  ASSUME NEW S, NEW a \in Seq(S), NEW b \in Seq(S)
  PROVE  /\ a \o b \in Seq(S) /\ Len(a \o b) = Len(a) + Len(b)
         /\ Len(a) \in Nat /\ Len(b) \in Nat
         /\ \A i \in 1..Len(a) : (a \o b)[i] = a[i]
         /\ \A i \in 1..Len(b) : (a \o b)[Len(a) + i] = b[i]
<1>1. Len(a) \in Nat /\ Len(b) \in Nat
  OBVIOUS
<1>2. /\ a \o b \in Seq(S) /\ Len(a \o b) = Len(a) + Len(b)
      /\ \A i \in 1..(Len(a) + Len(b)) : (a \o b)[i] = IF i <= Len(a) THEN a[i] ELSE b[i - Len(a)]
  BY ConcatProperties
<1> DEFINE n == Len(a)
           m == Len(b)
           c == a \o b
<1>3. ASSUME NEW i \in 1..n PROVE c[i] = a[i]
  <2>1. i \in 1..(n + m) /\ i <= n
    BY <1>1
  <2> HIDE DEF n, m, c
  <2> QED BY <1>2, <2>1 DEF n, m, c
<1>4. ASSUME NEW i \in 1..m PROVE c[n + i] = b[i]
  <2>1. n + i \in 1..(n + m) /\ ~(n + i <= n) /\ (n + i) - n = i
    BY <1>1
  <2> HIDE DEF n, m, c
  <2> QED BY <1>2, <2>1 DEF n, m, c
<1> QED BY <1>1, <1>2, <1>3, <1>4

\* The same of a part.
LEMMA Part ==
  ASSUME NEW S, NEW s \in Seq(S), NEW i \in Nat, NEW j \in Nat, i <= j, j <= Len(s)
  PROVE  /\ SubSeq(s, i + 1, j) \in Seq(S) /\ Len(SubSeq(s, i + 1, j)) = j - i
         /\ \A k \in 1..(j - i) : SubSeq(s, i + 1, j)[k] = s[i + k]
<1>1. Len(s) \in Nat /\ i + 1 \in Int /\ j \in Int
  OBVIOUS
<1>2. \A k \in (i + 1)..j : s[k] \in S
  OBVIOUS
<1>3. /\ SubSeq(s, i + 1, j) \in Seq(S)
      /\ Len(SubSeq(s, i + 1, j)) = IF i + 1 <= j THEN j - (i + 1) + 1 ELSE 0
      /\ \A k \in 1..(j - (i + 1) + 1) : SubSeq(s, i + 1, j)[k] = s[(i + 1) + k - 1]
  BY <1>1, <1>2, SubSeqProperties
<1> DEFINE t == SubSeq(s, i + 1, j)
<1> HIDE DEF t
<1>4. Len(t) = j - i
  BY <1>3 DEF t
<1>5. ASSUME NEW k \in 1..(j - i) PROVE t[k] = s[i + k]
  <2>1. k \in 1..(j - (i + 1) + 1) /\ (i + 1) + k - 1 = i + k
    OBVIOUS
  <2> QED BY <1>3, <2>1 DEF t
<1> QED BY <1>3, <1>4, <1>5 DEF t

\* A part that is known octet by octet.
LEMMA PartIs ==
  ASSUME NEW S, NEW s \in Seq(S), NEW t \in Seq(S), NEW i \in Nat, i + Len(t) <= Len(s),
         \A k \in 1..Len(t) : s[i + k] = t[k]
  PROVE  SubSeq(s, i + 1, i + Len(t)) = t
<1> DEFINE n == Len(t)
           p == SubSeq(s, i + 1, i + n)
<1>1. n \in Nat /\ Len(s) \in Nat
  OBVIOUS
<1> HIDE DEF n
<1>2. i + n \in Nat /\ i <= i + n /\ i + n <= Len(s) /\ (i + n) - i = n
  BY <1>1 DEF n
<1>3. p \in Seq(S) /\ Len(p) = n /\ \A k \in 1..n : p[k] = s[i + k]
  BY <1>2, Part
<1> HIDE DEF p
<1>4. p = t
  BY <1>3, SeqEqual DEF n
<1> QED BY <1>4 DEF p, n

\* The first of two parts, and what is behind it.
LEMMA FirstPart ==
  ASSUME NEW S, NEW a \in Seq(S), NEW b \in Seq(S)
  PROVE  /\ SubSeq(a \o b, 1, Len(a)) = a
         /\ SubSeq(a \o b, Len(a) + 1, Len(a) + Len(b)) = b
         /\ SubSeq(a \o b, Len(a) + 1, Len(a \o b)) = b
<1> DEFINE c == a \o b
           n == Len(a)
           m == Len(b)
<1>1. /\ c \in Seq(S) /\ Len(c) = n + m /\ n \in Nat /\ m \in Nat
      /\ \A i \in 1..n : c[i] = a[i]
      /\ \A i \in 1..m : c[n + i] = b[i]
  BY Concat
<1> HIDE DEF c
<1>2. SubSeq(c, 0 + 1, 0 + Len(a)) = a
  <2>1. 0 + Len(a) <= Len(c) /\ \A k \in 1..Len(a) : c[0 + k] = a[k]
    BY <1>1
  <2> QED BY <1>1, <2>1, PartIs
<1>3. 0 + 1 = 1 /\ 0 + Len(a) = Len(a)
  BY <1>1
<1>4. SubSeq(c, n + 1, n + Len(b)) = b
  <2>1. n \in Nat /\ n + Len(b) <= Len(c) /\ \A k \in 1..Len(b) : c[n + k] = b[k]
    BY <1>1
  <2> HIDE DEF n, m
  <2> QED BY <1>1, <2>1, PartIs
<1>5. Len(c) = n + Len(b)
  BY <1>1
<1>6. SubSeq(c, 1, n) = a
  <2> HIDE DEF n
  <2> QED BY <1>2, <1>3 DEF n
<1>7. SubSeq(c, n + 1, Len(c)) = b
  BY <1>4, <1>5
<1> QED BY <1>4, <1>6, <1>7 DEF c

\* The second of three.
LEMMA MiddlePart ==
  ASSUME NEW S, NEW a \in Seq(S), NEW b \in Seq(S), NEW c \in Seq(S)
  PROVE  SubSeq((a \o b) \o c, Len(a) + 1, Len(a) + Len(b)) = b
<1> DEFINE ab == a \o b
           s == ab \o c
<1>1. /\ ab \in Seq(S) /\ Len(ab) = Len(a) + Len(b) /\ Len(a) \in Nat /\ Len(b) \in Nat
      /\ \A k \in 1..Len(b) : ab[Len(a) + k] = b[k]
  BY Concat
<1> HIDE DEF ab
<1>2. /\ s \in Seq(S) /\ Len(s) = Len(ab) + Len(c) /\ Len(c) \in Nat
      /\ \A k \in 1..Len(ab) : s[k] = ab[k]
  <2>1. ab \in Seq(S)
    BY <1>1
  <2> QED BY <2>1, Concat
<1> HIDE DEF s
<1>3. Len(a) + Len(b) <= Len(s)
  BY <1>1, <1>2
<1>4. ASSUME NEW k \in 1..Len(b) PROVE s[Len(a) + k] = b[k]
  <2>1. Len(a) + k \in 1..Len(ab)
    BY <1>1
  <2>2. s[Len(a) + k] = ab[Len(a) + k]
    BY <1>2, <2>1
  <2> QED BY <1>1, <2>2
<1>5. SubSeq(s, Len(a) + 1, Len(a) + Len(b)) = b
  BY <1>1, <1>2, <1>3, <1>4, PartIs
<1> QED BY <1>5 DEF s, ab

\* A sequence cut in two.
LEMMA TwoParts ==
  ASSUME NEW S, NEW s \in Seq(S), NEW i \in Nat, NEW j \in Nat, i <= j, j <= Len(s)
  PROVE  SubSeq(s, 1, i) \o SubSeq(s, i + 1, j) = SubSeq(s, 1, j)
<1>1. Len(s) \in Nat
  OBVIOUS
<1>2. 1 \in 1..Len(s) + 1 /\ i \in 1 - 1..Len(s) /\ j \in i..Len(s)
  BY <1>1
<1> QED BY <1>2, ConcatAdjacentSubSeq

----------------------------------------------------------------------------
(* A unit, its elements taken for a payload *)

\* A description that passes the linter, the elements of its trailer aside.
Spoken(doc) ==
  /\ Linted(doc) /\ doc.bits < SizeT
  /\ doc.trailer \in {"none", "payload", "repeated"}
  /\ doc.trailer # "none" => doc.length \in Names(doc)

\* The parts of a unit.
LEMMA UnitParts ==
  ASSUME NEW m, NEW payload, NEW es, NEW n
  PROVE  /\ Unit(m, payload, es, n).ok /\ Unit(m, payload, es, n).consumed = n
         /\ Unit(m, payload, es, n).value.fields = m
         /\ Unit(m, payload, es, n).value.payload = payload
         /\ Unit(m, payload, es, n).value.elements = es
         /\ Unit(m, payload, es, n).value = [fields |-> m, payload |-> payload, elements |-> es]
BY DEF Unit

\* The length in front of a trailer is a natural.
LEMMA LengthIsNat ==
  ASSUME NEW doc, Spoken(doc), NEW octets \in Seq(Octet), Len(octets) >= HeaderOctets(doc)
  PROVE  Declared(doc, Members(doc, octets)) \in Nat
<1>1. Members(doc, octets) \in [Names(doc) -> Nat]
  BY MembersType DEF Spoken
<1> QED BY <1>1 DEF Spoken, Declared

\* A sum of size_t that does not wrap.
LEMMA SumIs ==
  ASSUME NEW n \in Nat, n < SizeT
  PROVE  n % SizeT = n
BY CodecAssumption, RemainderIs

\* Behind a length field that is narrow, the sum of header and trailer does not.
LEMMA SumStays ==
  ASSUME NEW doc, Spoken(doc), NarrowAlone(doc), NEW octets \in Seq(Octet),
         Len(octets) >= HeaderOctets(doc)
  PROVE  /\ Declared(doc, Members(doc, octets)) \in Nat
         /\ HeaderOctets(doc) + Declared(doc, Members(doc, octets)) < SizeT
<1> DEFINE head == HeaderOctets(doc)
           m == Members(doc, octets)
<1>1. head \in Nat /\ head > 0 /\ doc.bits = 8 * head /\ doc.bits < SizeT /\ SizeT \in Nat
  BY LintedShape, CodecAssumption DEF Spoken
<1>2. CASE doc.trailer = "none"
  <2>1. Declared(doc, m) = 0
    BY <1>2 DEF Declared
  <2> DEFINE b == doc.bits
             len == Declared(doc, m)
  <2> HIDE DEF head, b, len
  <2>2. len = 0 /\ b = 8 * head /\ b < SizeT
    BY <1>1, <2>1 DEF b, len
  <2> QED BY <1>1, <2>2 DEF head, len, m
<1>3. CASE doc.trailer # "none"
  <2>1. PICK k \in 1..Len(doc.fields) : doc.fields[k].name = doc.length
    BY <1>3, NamedField DEF Spoken
  <2> DEFINE f == doc.fields[k]
             v == ReadBits(octets, f.off, f.width)
             len == Declared(doc, m)
             most == Pow2[f.width]
  <2>2. f \in FieldDescr /\ Typed(f) /\ FieldIn(octets, f.off, f.width)
    BY FieldOf, FieldInside DEF Spoken
  <2>3. v \in Nat /\ v < most
    BY <2>2, ReadBitsDigits
  <2>4. len = Cast(f, v)
    BY <1>3, <2>1, MembersAre DEF Declared, Spoken
  <2>5. head + most <= SizeT
    <3>1. DOMAIN doc.fields = 1..Len(doc.fields)
      BY DescriptionType DEF Spoken, Linted
    <3> QED BY <1>3, <2>1, <3>1 DEF NarrowAlone
  <2>6. most \in Nat
    <3>1. f.width \in Nat
      BY <2>2 DEF FieldIn
    <3> QED BY <3>1, Pow2Positive
  <2> DEFINE c == Pow2[8 * TypeOctets(f)]
  <2>7. c \in Nat /\ c > 0
    BY <2>2, TypeWidth
  <2>8. len = v \/ len = v % c
    BY <2>4 DEF Cast
  <2> HIDE DEF f, v, len, most, head, c
  <2>9. v % c \in Nat /\ v % c <= v
    BY <2>3, <2>7
  <2>10. len \in Nat /\ head + len < SizeT
    BY <1>1, <2>3, <2>5, <2>6, <2>8, <2>9
  <2> QED BY <2>10 DEF len, head, m
<1> QED BY <1>2, <1>3

\* The three ends of decode.
LEMMA DecodeAloneIs ==
  ASSUME NEW doc, NEW octets
  PROVE  LET head == HeaderOctets(doc)
             m == Members(doc, octets)
             len == Declared(doc, m)
             end == (head + len) % SizeT
         IN DecodeAlone(doc, octets) =
              IF Len(octets) < head THEN Failed("short header")
              ELSE IF Len(octets) < end THEN Failed("short trailer")
              ELSE Unit(m, Trailer(octets, head, len), <<>>, end)
BY DEF DecodeAlone

\* A trailer that is in the input.
Span(octets, head, len) == SubSeq(octets, head + 1, head + len)

LEMMA TrailerIs ==
  ASSUME NEW octets, NEW head \in Nat, NEW len \in Nat, Len(octets) \in Nat,
         head + len <= Len(octets)
  PROVE  Trailer(octets, head, len) = Span(octets, head, len)
<1>1. (IF head + len < Len(octets) THEN head + len ELSE Len(octets)) = head + len
  OBVIOUS
<1> QED BY <1>1 DEF Trailer, Span

\* Decode of what is long enough.
LEMMA DecodeGives ==
  ASSUME NEW doc, NEW octets, NEW m, m = Members(doc, octets),
         HeaderOctets(doc) \in Nat, Declared(doc, m) \in Nat, Len(octets) \in Nat,
         HeaderOctets(doc) + Declared(doc, m) <= Len(octets),
         HeaderOctets(doc) + Declared(doc, m) < SizeT
  PROVE  DecodeAlone(doc, octets) =
           Unit(m, Span(octets, HeaderOctets(doc), Declared(doc, m)), <<>>,
                HeaderOctets(doc) + Declared(doc, m))
<1> DEFINE head == HeaderOctets(doc)
           len == Declared(doc, m)
           n == Len(octets)
           end == (head + len) % SizeT
           r == DecodeAlone(doc, octets)
           u == Unit(m, Trailer(octets, head, len), <<>>, end)
<1>1. r = IF n < head THEN Failed("short header")
          ELSE IF n < end THEN Failed("short trailer") ELSE u
  BY DecodeAloneIs
<1>2. head \in Nat /\ len \in Nat /\ n \in Nat /\ head + len <= n /\ head + len < SizeT
  OBVIOUS
<1>3. end = head + len
  <2> HIDE DEF n, head, len
  <2> QED BY <1>2, SumIs
<1>4. Trailer(octets, head, len) = Span(octets, head, len)
  <2> HIDE DEF head, len
  <2> QED BY <1>2, TrailerIs
<1>5. ~(n < head) /\ ~(n < end)
  <2> HIDE DEF n, head, len, end
  <2> QED BY <1>2, <1>3
<1>6. r = u
  <2> HIDE DEF r, u, n, head, end
  <2> QED BY <1>1, <1>5
<1> QED BY <1>3, <1>4, <1>6

\* What decode returned: within the input, and not empty.
Took(doc, octets, r) ==
  LET head == HeaderOctets(doc)
      len == Declared(doc, r.value.fields)
  IN /\ r = Unit(Members(doc, octets), Span(octets, head, len), <<>>, head + len)
     /\ head \in Nat /\ head > 0 /\ len \in Nat /\ head + len <= Len(octets)
     /\ head + len < SizeT
     /\ r.consumed = head + len /\ r.value.fields = Members(doc, octets)
     /\ r.value.payload = Span(octets, head, len) /\ r.value.elements = <<>>

\* A decode that did not fail found its input long enough.
LEMMA DecodeLong ==
  ASSUME NEW doc, NEW octets, DecodeAlone(doc, octets).ok
  PROVE  LET end == (HeaderOctets(doc) + Declared(doc, Members(doc, octets))) % SizeT
         IN ~(Len(octets) < HeaderOctets(doc)) /\ ~(Len(octets) < end)
            /\ DecodeAlone(doc, octets).consumed = end
<1> DEFINE head == HeaderOctets(doc)
           m == Members(doc, octets)
           len == Declared(doc, m)
           n == Len(octets)
           end == (head + len) % SizeT
           t == Trailer(octets, head, len)
           r == DecodeAlone(doc, octets)
           u == Unit(m, t, <<>>, end)
<1>1. r = IF n < head THEN Failed("short header")
          ELSE IF n < end THEN Failed("short trailer") ELSE u
  BY DecodeAloneIs
<1>2. ~Failed("short header").ok /\ ~Failed("short trailer").ok
  BY DEF Failed
<1>3. r.ok
  OBVIOUS
<1>4. u.consumed = end
  <2> HIDE DEF m, t, end
  <2> QED BY DEF Unit
<1> HIDE DEF r, u, n, head, end
<1>5. ~(n < head) /\ ~(n < end) /\ r = u
  BY <1>1, <1>2, <1>3
<1> QED BY <1>4, <1>5 DEF r, n, head, end

\* What a decode that did not fail has read, by a narrow length.
LEMMA DecodeTakes ==
  ASSUME NEW doc, Spoken(doc), NarrowAlone(doc), NEW octets \in Seq(Octet),
         DecodeAlone(doc, octets).ok
  PROVE  Took(doc, octets, DecodeAlone(doc, octets))
<1> DEFINE head == HeaderOctets(doc)
           m == Members(doc, octets)
           len == Declared(doc, m)
           r == DecodeAlone(doc, octets)
           n == Len(octets)
           t == Span(octets, head, len)
<1>1. head \in Nat /\ head > 0 /\ n \in Nat
  BY LintedShape DEF Spoken
<1>2. ~(n < head) /\ ~(n < (head + len) % SizeT)
  BY DecodeLong
<1>3. n >= head
  <2> HIDE DEF n, head
  <2> QED BY <1>1, <1>2
<1>4. len \in Nat /\ head + len < SizeT
  BY <1>3, SumStays
<1>5. head + len <= n
  <2> HIDE DEF n, head, len
  <2>1. (head + len) % SizeT = head + len
    BY <1>1, <1>4, SumIs
  <2> QED BY <1>1, <1>2, <1>4, <2>1
<1>6. r = Unit(m, t, <<>>, head + len)
  BY <1>1, <1>4, <1>5, DecodeGives
<1>7. r.value.fields = m /\ r.consumed = head + len /\ r.value.payload = t /\ r.value.elements = <<>>
  <2> DEFINE k == head + len
  <2> HIDE DEF r, m, t, k
  <2>1. r = Unit(m, t, <<>>, k)
    BY <1>6 DEF k
  <2>2. r.value.fields = m /\ r.consumed = k /\ r.value.payload = t /\ r.value.elements = <<>>
    BY <2>1 DEF Unit
  <2> QED BY <2>2 DEF k
<1>8. len = Declared(doc, r.value.fields)
  BY <1>7
<1> HIDE DEF r
<1> QED BY <1>1, <1>4, <1>5, <1>6, <1>7, <1>8 DEF Took, r

\* A decode that fails says which part is short.
LEMMA DecodeFails ==
  ASSUME NEW doc, NEW octets, ~DecodeAlone(doc, octets).ok
  PROVE  \E why \in {"short header", "short trailer"} : DecodeAlone(doc, octets) = Failed(why)
<1> DEFINE head == HeaderOctets(doc)
           m == Members(doc, octets)
           len == Declared(doc, m)
           end == (head + len) % SizeT
           u == Unit(m, Trailer(octets, head, len), <<>>, end)
           r == DecodeAlone(doc, octets)
<1>1. r = IF Len(octets) < head THEN Failed("short header")
          ELSE IF Len(octets) < end THEN Failed("short trailer") ELSE u
  BY DecodeAloneIs
<1>2. u.ok
  BY UnitParts
<1>3. r # u
  BY <1>2
<1> HIDE DEF r, u, head, end
<1>4. r = Failed("short header") \/ r = Failed("short trailer")
  BY <1>1, <1>3
<1> QED BY <1>4 DEF r

\* What encode made is decoded to what was encoded, whatever follows it.
LEMMA AloneReads ==
  ASSUME NEW doc, Spoken(doc), NEW m, m = [n \in Names(doc) |-> m[n]], FitsAlone(doc, m),
         NEW body \in Seq(Octet), Declared(doc, m) = Len(body), NEW rest \in Seq(Octet)
  PROVE  /\ Header(doc, m) \o body \in Seq(Octet)
         /\ Len(Header(doc, m) \o body) = HeaderOctets(doc) + Len(body)
         /\ HeaderOctets(doc) + Len(body) < SizeT =>
              DecodeAlone(doc, (Header(doc, m) \o body) \o rest) =
                Unit(m, body, <<>>, HeaderOctets(doc) + Len(body))
<1> DEFINE h == Header(doc, m)
           hb == h \o body
           o == hb \o rest
           head == HeaderOctets(doc)
<1>0. Linted(doc) /\ head \in Nat
  BY LintedShape DEF Spoken
<1>1. body \o rest \in Seq(Octet) /\ Len(body \o rest) = Len(body) + Len(rest)
      /\ Len(body) \in Nat /\ Len(rest) \in Nat
  BY Concat
<1>2. Members(doc, h \o (body \o rest)) = m /\ h \in Seq(Octet) /\ Len(h) = head
  <2> DEFINE br == body \o rest
  <2>1. br \in Seq(Octet)
    BY <1>1
  <2> HIDE DEF br
  <2> QED BY <1>0, <2>1, HeaderReads DEF br
<1> HIDE DEF h, head
<1>3. o = h \o (body \o rest)
  BY <1>2, ConcatAssociative
<1>4. hb \in Seq(Octet) /\ Len(hb) = head + Len(body)
  <2> HIDE DEF hb
  <2>1. hb \in Seq(Octet) /\ Len(hb) = Len(h) + Len(body)
    BY <1>2, Concat DEF hb
  <2> QED BY <1>2, <2>1
<1> HIDE DEF hb
<1>5. o \in Seq(Octet) /\ Len(o) = (head + Len(body)) + Len(rest)
  <2> HIDE DEF o
  <2>1. o \in Seq(Octet) /\ Len(o) = Len(hb) + Len(rest)
    BY <1>4, Concat DEF o
  <2> QED BY <1>4, <2>1
<1>6. Span(o, head, Len(body)) = body
  <2>1. SubSeq((h \o body) \o rest, Len(h) + 1, Len(h) + Len(body)) = body
    BY <1>2, MiddlePart
  <2>2. o = (h \o body) \o rest
    BY DEF hb
  <2> HIDE DEF o
  <2> QED BY <1>2, <2>1, <2>2 DEF Span
<1>7. m = Members(doc, o)
  BY <1>2, <1>3
<1> HIDE DEF o
<1>8. ASSUME head + Len(body) < SizeT
      PROVE  DecodeAlone(doc, o) = Unit(m, Span(o, head, Declared(doc, m)), <<>>, head + Declared(doc, m))
  <2>1. HeaderOctets(doc) \in Nat /\ Declared(doc, m) \in Nat /\ Len(o) \in Nat
    BY <1>0, <1>1, <1>5 DEF head
  <2>2. HeaderOctets(doc) + Declared(doc, m) <= Len(o)
    BY <1>0, <1>1, <1>5 DEF head
  <2>3. HeaderOctets(doc) + Declared(doc, m) < SizeT
    BY <1>8 DEF head
  <2> QED BY <1>7, <2>1, <2>2, <2>3, DecodeGives DEF head
<1>9. head + Len(body) < SizeT => DecodeAlone(doc, o) = Unit(m, body, <<>>, head + Len(body))
  BY <1>6, <1>8
<1> QED BY <1>4, <1>9 DEF o, hb, h, head

\* What was decoded is encoded to the octets that were decoded.
LEMMA AloneWrites ==
  ASSUME NEW doc, Spoken(doc), NarrowAlone(doc), WithinRuntime(doc), LosslessAlone(doc),
         NEW octets \in Seq(Octet), NEW r, r = DecodeAlone(doc, octets), r.ok
  PROVE  /\ r.value.payload \in Seq(Octet)
         /\ Len(r.value.payload) = Declared(doc, r.value.fields)
         /\ r.consumed \in 1..Len(octets)
         /\ Header(doc, r.value.fields) \o r.value.payload = SubSeq(octets, 1, r.consumed)
<1> DEFINE head == HeaderOctets(doc)
           len == Declared(doc, r.value.fields)
           n == Len(octets)
<1>1. Took(doc, octets, r)
  BY DecodeTakes
<1>2. /\ head \in Nat /\ head > 0 /\ len \in Nat /\ head + len <= n /\ n \in Nat
      /\ r.consumed = head + len /\ r.value.fields = Members(doc, octets)
      /\ r.value.payload = Span(octets, head, len)
  BY <1>1 DEF Took
<1>3. Header(doc, r.value.fields) = SubSeq(octets, 1, head)
  <2>1. Len(octets) >= HeaderOctets(doc)
    <3> HIDE DEF head, len
    <3>1. n >= head
      BY <1>2
    <3> QED BY <3>1 DEF head
  <2> QED BY <1>2, <2>1, HeaderWrites DEF Spoken
<1>4. /\ head + len \in Nat /\ head <= head + len /\ (head + len) - head = len
      /\ head + len \in 1..n
  <2> HIDE DEF head, len, n
  <2> QED BY <1>2
<1> HIDE DEF head, len
<1>5. Span(octets, head, len) \in Seq(Octet) /\ Len(Span(octets, head, len)) = len
  BY <1>2, <1>4, Part DEF Span
<1>6. SubSeq(octets, 1, head) \o Span(octets, head, len) = SubSeq(octets, 1, head + len)
  BY <1>2, <1>4, TwoParts DEF Span
<1> QED BY <1>2, <1>3, <1>4, <1>5, <1>6 DEF len

----------------------------------------------------------------------------
(* The loop over the elements of a trailer *)

LoopAt(off, elements, why) == [off |-> off, elements |-> elements, why |-> why]

\* The recursion of Elements, of n turns.
TakesTurns(g, doc, octets, n) ==
  g = [i \in 0..n |-> IF i = 0 THEN LoopAt(0, <<>>, "none") ELSE Turn(doc, octets, g[i - 1])]

\* The states of the loop exist.
LEMMA TakesTurnsExists ==
  ASSUME NEW doc, NEW octets, NEW n \in Nat
  PROVE  \E g : TakesTurns(g, doc, octets, n)
<1> DEFINE T == {k \in Nat : \E g : TakesTurns(g, doc, octets, k)}
<1>1. 0 \in T
  <2>1. TakesTurns([i \in 0..0 |-> LoopAt(0, <<>>, "none")], doc, octets, 0)
    BY DEF TakesTurns
  <2> QED BY <2>1
<1>2. ASSUME NEW k \in Nat, k \in T PROVE k + 1 \in T
  <2>1. PICK g : TakesTurns(g, doc, octets, k)
    BY <1>2
  <2> DEFINE h == [i \in 0..(k + 1) |-> IF i = 0 THEN LoopAt(0, <<>>, "none")
                                        ELSE Turn(doc, octets, g[i - 1])]
  <2>2. \A i \in 0..k : h[i] = g[i]
    <3>1. \A i \in 0..k : g[i] = IF i = 0 THEN LoopAt(0, <<>>, "none") ELSE Turn(doc, octets, g[i - 1])
      BY <2>1 DEF TakesTurns
    <3>2. \A i \in 0..k : i \in 0..(k + 1)
      OBVIOUS
    <3> QED BY <3>1, <3>2
  <2>3. \A i \in 0..(k + 1) : i # 0 => h[i - 1] = g[i - 1]
    <3>1. \A i \in 0..(k + 1) : i # 0 => i - 1 \in 0..k
      OBVIOUS
    <3> HIDE DEF h
    <3> QED BY <2>2, <3>1
  <2>4. h = [i \in 0..(k + 1) |-> IF i = 0 THEN LoopAt(0, <<>>, "none")
                                  ELSE Turn(doc, octets, h[i - 1])]
    BY <2>3
  <2> HIDE DEF h
  <2>5. TakesTurns(h, doc, octets, k + 1)
    BY <2>4 DEF TakesTurns
  <2> QED BY <2>5
<1>3. \A k \in Nat : k \in T
  <2> HIDE DEF T
  <2> QED BY <1>1, <1>2, UpFromZero
<1> QED BY <1>3

LoopEnd(s, n) ==
  IF s.why # "none" THEN Failed(s.why)
  ELSE IF s.off # n THEN Failed("overran")
  ELSE [ok |-> TRUE, elements |-> s.elements]

Loops(g, doc, octets) ==
  /\ Elements(doc, octets) = LoopEnd(g[Len(octets)], Len(octets))
  /\ g[0] = LoopAt(0, <<>>, "none")
  /\ \A i \in 1..Len(octets) : g[i] = Turn(doc, octets, g[i - 1])

\* The loop, as its last state.
LEMMA ElementsUnfolds ==
  ASSUME NEW doc, NEW octets, Len(octets) \in Nat
  PROVE  \E g : Loops(g, doc, octets)
<1> DEFINE n == Len(octets)
           g == CHOOSE g : TakesTurns(g, doc, octets, n)
<1>1. TakesTurns(g, doc, octets, n)
  BY TakesTurnsExists
<1>2. Elements(doc, octets) = LoopEnd(g[n], n)
  BY DEF Elements, LoopEnd, TakesTurns, LoopAt
<1> HIDE DEF g
<1>3. \A i \in 0..n : g[i] = IF i = 0 THEN LoopAt(0, <<>>, "none") ELSE Turn(doc, octets, g[i - 1])
  BY <1>1 DEF TakesTurns
<1>4. g[0] = LoopAt(0, <<>>, "none") /\ \A i \in 1..n : g[i] = Turn(doc, octets, g[i - 1])
  <2>1. n \in Nat
    OBVIOUS
  <2> HIDE DEF n
  <2> QED BY <1>3, <2>1
<1> QED BY <1>2, <1>4 DEF Loops

\* Where the loop is.
LEMMA LoopAtIs ==
  ASSUME NEW off, NEW elements, NEW why
  PROVE  /\ LoopAt(off, elements, why).off = off
         /\ LoopAt(off, elements, why).elements = elements
         /\ LoopAt(off, elements, why).why = why
BY DEF LoopAt

\* A turn that finds nothing left.
LEMMA TurnIdle ==
  ASSUME NEW doc, NEW octets, NEW s, s.off >= Len(octets) \/ s.why # "none"
  PROVE  Turn(doc, octets, s) = s
BY DEF Turn

\* A turn that fails.
LEMMA TurnFails ==
  ASSUME NEW doc, NEW octets, NEW off, NEW es, ~(off >= Len(octets)),
         ~DecodeAlone(doc, SubInput(octets, off)).ok
  PROVE  Turn(doc, octets, LoopAt(off, es, "none")) = LoopAt(off, es, "element")
BY DEF Turn, LoopAt

\* A turn that takes an element.
LEMMA TurnTakes ==
  ASSUME NEW doc, NEW octets, NEW off, NEW es, ~(off >= Len(octets)),
         NEW sub, sub = DecodeAlone(doc, SubInput(octets, off)), sub.ok, sub.consumed # 0
  PROVE  Turn(doc, octets, LoopAt(off, es, "none")) =
           LoopAt(off + sub.consumed, Append(es, sub.value), "none")
<1> DEFINE s == LoopAt(off, es, "none")
           c == sub.consumed
           v == sub.value
<1>1. s = LoopAt(off, es, "none") /\ sub.ok /\ c # 0
  OBVIOUS
<1>2. Turn(doc, octets, s) =
        IF s.off >= Len(octets) \/ s.why # "none" THEN s
        ELSE LET r == DecodeAlone(doc, SubInput(octets, s.off)) IN
             IF ~r.ok THEN [s EXCEPT !.why = "element"]
             ELSE IF r.consumed = 0 THEN [s EXCEPT !.why = "consumed nothing"]
             ELSE [s EXCEPT !.off = @ + r.consumed, !.elements = Append(@, r.value)]
  BY DEF Turn
<1> HIDE DEF s, c, v
<1>3. s.off = off /\ s.elements = es /\ s.why = "none"
  BY <1>1, LoopAtIs
<1>4. Turn(doc, octets, s) = [s EXCEPT !.off = @ + c, !.elements = Append(@, v)]
  BY <1>1, <1>2, <1>3 DEF c, v
<1>5. [s EXCEPT !.off = @ + c, !.elements = Append(@, v)] = LoopAt(off + c, Append(es, v), "none")
  <2> DEFINE x == off + c
             y == Append(es, v)
  <2>1. [s EXCEPT !.off = @ + c, !.elements = Append(@, v)] = [s EXCEPT !.off = x, !.elements = y]
    BY <1>3
  <2> HIDE DEF x, y
  <2>2. LET t == [s EXCEPT !.off = x] IN
        t = LoopAt(x, es, "none") /\ [t EXCEPT !.elements = y] = LoopAt(x, y, "none")
    <3> DEFINE t == [s EXCEPT !.off = x]
    <3>1. t = LoopAt(x, es, "none")
      BY <1>1 DEF LoopAt
    <3> HIDE DEF t
    <3>2. [t EXCEPT !.elements = y] = LoopAt(x, y, "none")
      BY <3>1 DEF LoopAt
    <3> QED BY <3>1, <3>2 DEF t
  <2> QED BY <2>1, <2>2 DEF x, y
<1> QED BY <1>1, <1>4, <1>5 DEF c, v

\* The input left to an element.
LEMMA SubInputIs ==
  ASSUME NEW octets \in Seq(Octet), NEW off \in 0..Len(octets)
  PROVE  SubInput(octets, off) \in Seq(Octet) /\ Len(SubInput(octets, off)) = Len(octets) - off
<1>1. Len(octets) \in Nat /\ off \in Nat /\ off <= Len(octets) /\ Len(octets) <= Len(octets)
  OBVIOUS
<1> QED BY <1>1, Part DEF SubInput

\* The values that a loop may find.
Found(doc, octets) ==
  {DecodeAlone(doc, SubInput(octets, i)).value :
     i \in {j \in 0..Len(octets) : DecodeAlone(doc, SubInput(octets, j)).ok}}

\* After i turns: an element was cut off, or the end is reached, or every turn
\* took an octet.
Turned(s, doc, octets, i) ==
  /\ s = LoopAt(s.off, s.elements, s.why)
  /\ s.off \in 0..Len(octets) /\ s.why \in {"none", "element"}
  /\ s.elements \in Seq(Found(doc, octets))
  /\ s.why = "none" => s.off = Len(octets) \/ s.off >= i

\* A turn keeps what is said of the loop.
LEMMA OneTurn ==
  ASSUME NEW doc, Spoken(doc), NarrowAlone(doc), NEW octets \in Seq(Octet), NEW i \in Nat, NEW s,
         Turned(s, doc, octets, i)
  PROVE  /\ Turned(Turn(doc, octets, s), doc, octets, i + 1)
         /\ \/ Turn(doc, octets, s) = s
            \/ Turn(doc, octets, s).why = "element"
            \/ LET sub == DecodeAlone(doc, SubInput(octets, s.off)) IN
               /\ sub.ok /\ s.why = "none" /\ s.off + sub.consumed <= Len(octets)
               /\ sub.consumed \in Nat /\ sub.consumed > 0
               /\ Turn(doc, octets, s) = LoopAt(s.off + sub.consumed, Append(s.elements, sub.value), "none")
<1> DEFINE n == Len(octets)
           t == Turn(doc, octets, s)
           sub == DecodeAlone(doc, SubInput(octets, s.off))
<1>0. n \in Nat /\ s = LoopAt(s.off, s.elements, s.why) /\ s.off \in 0..n
      /\ s.why \in {"none", "element"} /\ s.elements \in Seq(Found(doc, octets))
      /\ (s.why = "none" => s.off = n \/ s.off >= i)
  BY DEF Turned
<1>1. CASE s.off >= n \/ s.why # "none"
  <2>1. t = s
    BY <1>1, TurnIdle
  <2>2. s.why = "none" => s.off = n \/ s.off >= i + 1
    <3> HIDE DEF n
    <3> QED BY <1>0, <1>1
  <2>3. Turned(s, doc, octets, i + 1)
    BY <1>0, <2>2 DEF Turned
  <2> QED BY <2>1, <2>3
<1>2. CASE ~(s.off >= n) /\ s.why = "none" /\ ~sub.ok
  <2>1. t = LoopAt(s.off, s.elements, "element")
    <3>1. t = Turn(doc, octets, LoopAt(s.off, s.elements, "none"))
      BY <1>0, <1>2
    <3>2. Turn(doc, octets, LoopAt(s.off, s.elements, "none")) = LoopAt(s.off, s.elements, "element")
      BY <1>2, TurnFails
    <3> QED BY <3>1, <3>2
  <2> HIDE DEF t
  <2>2. t.why = "element" /\ t.off = s.off /\ t.elements = s.elements
    BY <2>1, LoopAtIs
  <2>3. t = LoopAt(t.off, t.elements, t.why) /\ t.why # "none"
    BY <2>1, <2>2
  <2>4. Turned(t, doc, octets, i + 1)
    BY <1>0, <2>2, <2>3 DEF Turned
  <2> QED BY <2>2, <2>4 DEF t
<1>3. CASE ~(s.off >= n) /\ s.why = "none" /\ sub.ok
  <2> DEFINE o == SubInput(octets, s.off)
             c == sub.consumed
  <2>1. o \in Seq(Octet) /\ Len(o) = n - s.off
    BY <1>0, SubInputIs
  <2>2. Took(doc, o, sub)
    BY <1>3, <2>1, DecodeTakes
  <2>3. c \in Nat /\ c > 0 /\ c <= Len(o)
    <3> DEFINE head == HeaderOctets(doc)
               len == Declared(doc, sub.value.fields)
    <3>1. head \in Nat /\ head > 0 /\ len \in Nat /\ head + len <= Len(o) /\ c = head + len
      BY <2>2 DEF Took
    <3> HIDE DEF head, len, c
    <3> QED BY <3>1
  <2>4. t = LoopAt(s.off + c, Append(s.elements, sub.value), "none")
    <3>1. c # 0
      <4> HIDE DEF c
      <4> QED BY <2>3
    <3>2. t = Turn(doc, octets, LoopAt(s.off, s.elements, "none"))
      BY <1>0, <1>3
    <3>3. Turn(doc, octets, LoopAt(s.off, s.elements, "none")) =
            LoopAt(s.off + c, Append(s.elements, sub.value), "none")
      BY <1>3, <3>1, TurnTakes
    <3> QED BY <3>2, <3>3
  <2>5. sub.value \in Found(doc, octets)
    BY <1>0, <1>3 DEF Found
  <2>6. Append(s.elements, sub.value) \in Seq(Found(doc, octets))
    BY <1>0, <2>5, AppendProperties
  <2> HIDE DEF t
  <2>7. t.why = "none" /\ t.off = s.off + c /\ t.elements = Append(s.elements, sub.value)
    BY <2>4 DEF LoopAt
  <2>8. s.off + c \in 0..n /\ s.off + c >= i + 1 /\ s.off + c <= n
    <3> HIDE DEF c, n, sub, o
    <3> QED BY <1>0, <1>3, <2>1, <2>3
  <2>9. t = LoopAt(t.off, t.elements, t.why)
    BY <2>4, <2>7
  <2>10. Turned(t, doc, octets, i + 1)
    BY <2>6, <2>7, <2>8, <2>9 DEF Turned
  <2> QED BY <1>3, <2>3, <2>4, <2>8, <2>10 DEF t
<1> QED BY <1>0, <1>1, <1>2, <1>3

\* The loop ends; if it fails, an element was cut off.
LEMMA ElementsEnd ==
  ASSUME NEW doc, Spoken(doc), NarrowAlone(doc), NEW octets \in Seq(Octet)
  PROVE  \/ Elements(doc, octets) = Failed("element")
         \/ /\ Elements(doc, octets).ok
            /\ Elements(doc, octets).elements \in Seq(Found(doc, octets))
<1> DEFINE n == Len(octets)
           r == Elements(doc, octets)
<1>0. n \in Nat
  OBVIOUS
<1>l. PICK g : Loops(g, doc, octets)
  BY <1>0, ElementsUnfolds
<1>1. /\ r = LoopEnd(g[n], n) /\ g[0] = LoopAt(0, <<>>, "none")
      /\ \A i \in 1..n : g[i] = Turn(doc, octets, g[i - 1])
  BY <1>l DEF Loops
<1> DEFINE T == {i \in Nat : Turned(g[i], doc, octets, i)}
<1>2. 0 \in T
  <2>1. g[0].off = 0 /\ g[0].elements = <<>> /\ g[0].why = "none"
    BY <1>1 DEF LoopAt
  <2>2. <<>> \in Seq(Found(doc, octets))
    BY EmptySeq
  <2>3. g[0] = LoopAt(g[0].off, g[0].elements, g[0].why)
    BY <1>1, <2>1
  <2>4. 0 \in 0..n /\ 0 >= 0
    BY <1>0
  <2>5. Turned(g[0], doc, octets, 0)
    BY <2>1, <2>2, <2>3, <2>4 DEF Turned
  <2> QED BY <2>5
<1>3. ASSUME NEW i \in 0..(n - 1), i \in T PROVE i + 1 \in T
  <2>1. i + 1 \in 1..n /\ (i + 1) - 1 = i /\ i \in Nat /\ i + 1 \in Nat
    BY <1>0
  <2>2. g[i + 1] = Turn(doc, octets, g[i])
    BY <1>1, <2>1
  <2>3. Turned(g[i + 1], doc, octets, i + 1)
    BY <1>3, <2>1, <2>2, OneTurn
  <2> QED BY <2>1, <2>3
<1>4. \A i \in 0..n : i \in T
  <2> HIDE DEF T
  <2> QED BY <1>0, <1>2, <1>3, UpTo
<1>5. Turned(g[n], doc, octets, n)
  <2>1. n \in 0..n
    BY <1>0
  <2> QED BY <1>4, <2>1
<1> DEFINE s == g[n]
<1>6. /\ s.off \in 0..n /\ s.why \in {"none", "element"} /\ s.elements \in Seq(Found(doc, octets))
      /\ s.why = "none" => s.off = n \/ s.off >= n
  BY <1>5 DEF Turned
<1>7. r = LoopEnd(s, n)
  BY <1>1
<1> HIDE DEF s, n, r
<1>8. s.why = "none" => s.off = n
  BY <1>0, <1>6
<1>9. CASE s.why = "element"
  BY <1>7, <1>9 DEF LoopEnd, r
<1>10. CASE s.why = "none"
  <2>1. r = [ok |-> TRUE, elements |-> s.elements]
    BY <1>7, <1>8, <1>10 DEF LoopEnd
  <2> QED BY <1>6, <2>1 DEF r
<1> QED BY <1>6, <1>9, <1>10

----------------------------------------------------------------------------
(* Elements that were encoded, and that are encoded again *)

Grouped(a, b, c) == (a \o b) \o c = a \o (b \o c)

\* Concatenation is associative.
LEMMA GroupAgain ==
  ASSUME NEW S, NEW a \in Seq(S), NEW b \in Seq(S), NEW c \in Seq(S)
  PROVE  Grouped(a, b, c)
BY ConcatAssociative DEF Grouped

\* What is behind the first k sequences.
LEMMA PileRest ==
  ASSUME NEW S, NEW seqs \in Seq(Seq(S)), NEW h, Piles(h, seqs), NEW k \in 0..Len(seqs)
  PROVE  \E r \in Seq(S) : FlattenSeq(seqs) = h[k] \o r
<1> DEFINE n == Len(seqs)
           all == FlattenSeq(seqs)
<1>0. n \in Nat /\ \A i \in 1..n : seqs[i] \in Seq(S)
  <2>1. n \in Nat /\ DOMAIN seqs = 1..n
    OBVIOUS
  <2> QED BY <2>1, ElementOfSeq
<1>1. all = h[n] /\ \A i \in 0..n : h[i] \in Seq(S)
  BY FlattenIs
<1>2. \A i \in 1..n : h[i] = h[i - 1] \o seqs[i]
  BY DEF Piles
<1> HIDE DEF n, all
<1> DEFINE T == {j \in Nat : \E r \in Seq(S) : all = h[n - j] \o r}
<1>3. 0 \in T
  <2>1. n - 0 = n /\ h[n] \in Seq(S)
    BY <1>0, <1>1
  <2>2. h[n] = h[n] \o <<>> /\ <<>> \in Seq(S)
    BY <2>1, EmptyConcat, EmptySeq
  <2>3. all = h[n - 0] \o <<>>
    BY <1>1, <2>1, <2>2
  <2> QED BY <2>2, <2>3
<1>4. ASSUME NEW j \in 0..(n - 1), j \in T PROVE j + 1 \in T
  <2> DEFINE i == n - j
             p == n - (j + 1)
  <2>1. i \in 1..n /\ i - 1 = p /\ p \in 0..n /\ j \in Nat /\ j + 1 \in Nat
    BY <1>0
  <2>2. PICK r \in Seq(S) : all = h[i] \o r
    BY <1>4
  <2> HIDE DEF i
  <2>3. h[i] = h[p] \o seqs[i] /\ h[p] \in Seq(S) /\ seqs[i] \in Seq(S)
    BY <1>0, <1>1, <1>2, <2>1
  <2> HIDE DEF p
  <2>4. seqs[i] \o r \in Seq(S)
    BY <2>3, ConcatProperties
  <2>5. all = h[p] \o (seqs[i] \o r)
    <3>1. Grouped(h[p], seqs[i], r)
      BY <2>3, GroupAgain
    <3> USE DEF Grouped
    <3> QED BY <2>2, <2>3, <3>1
  <2>6. \E q \in Seq(S) : all = h[p] \o q
    BY <2>4, <2>5
  <2> QED BY <2>1, <2>6 DEF p
<1>5. \A j \in 0..n : j \in T
  <2> HIDE DEF T
  <2> QED BY <1>0, <1>3, <1>4, UpTo
<1>6. n - k \in 0..n /\ n - (n - k) = k
  BY <1>0 DEF n
<1>7. n - k \in T
  BY <1>5, <1>6
<1>8. \E r \in Seq(S) : all = h[n - (n - k)] \o r
  BY <1>7
<1> QED BY <1>6, <1>8 DEF all

\* A sequence is no longer than what it is a part of.
LEMMA PieceFits ==
  ASSUME NEW S, NEW seqs \in Seq(Seq(S)), NEW i \in 1..Len(seqs)
  PROVE  /\ Len(seqs[i]) \in Nat /\ Len(FlattenSeq(seqs)) \in Nat
         /\ Len(seqs[i]) <= Len(FlattenSeq(seqs))
<1>1. PICK h : Piles(h, seqs)
  BY PilesExist
<1>2. i \in 0..Len(seqs) /\ i - 1 \in 0..Len(seqs) /\ seqs[i] \in Seq(S)
  BY ElementOfSeq
<1>3. PICK r \in Seq(S) : FlattenSeq(seqs) = h[i] \o r
  BY <1>1, <1>2, PileRest
<1>4. h[i] \in Seq(S) /\ h[i - 1] \in Seq(S) /\ h[i] = h[i - 1] \o seqs[i]
  BY <1>1, <1>2, FlattenIs DEF Piles
<1> DEFINE a == h[i - 1]
           b == h[i]
           c == seqs[i]
           all == FlattenSeq(seqs)
<1> HIDE DEF a, b, c, all
<1>5. a \in Seq(S) /\ b \in Seq(S) /\ c \in Seq(S) /\ b = a \o c /\ all = b \o r
  BY <1>2, <1>3, <1>4 DEF a, b, c, all
<1>6. Len(b) = Len(a) + Len(c) /\ Len(a) \in Nat /\ Len(c) \in Nat
  BY <1>5, Concat
<1>7. Len(all) = Len(b) + Len(r) /\ Len(r) \in Nat
  BY <1>5, Concat
<1>8. Len(c) \in Nat /\ Len(all) \in Nat /\ Len(c) <= Len(all)
  BY <1>6, <1>7
<1> QED BY <1>8 DEF c, all

\* Each of the octets is decoded to its value, whatever follows it.
Reads(doc, bytes, v) ==
  /\ bytes \in Seq(Octet) /\ Len(bytes) > 0
  /\ \A rest \in Seq(Octet) :
       LET r == DecodeAlone(doc, bytes \o rest) IN
       r.ok /\ r.consumed = Len(bytes) /\ r.value = v

\* The loop, on elements that were encoded one behind the other.
LEMMA ElementsRead ==
  ASSUME NEW doc, NEW seqs \in Seq(Seq(Octet)), NEW S, NEW vs \in Seq(S), Len(vs) = Len(seqs),
         \A i \in 1..Len(seqs) : Reads(doc, seqs[i], vs[i])
  PROVE  Elements(doc, FlattenSeq(seqs)) = [ok |-> TRUE, elements |-> vs]
<1> DEFINE k == Len(seqs)
           all == FlattenSeq(seqs)
           n == Len(all)
           Upto(i) == SubSeq(vs, 1, i)
<1>0. k \in Nat
  OBVIOUS
<1>1. all \in Seq(Octet) /\ n \in Nat
  BY FlattenType
<1>2. PICK h : Piles(h, seqs)
  BY PilesExist
<1>3. /\ all = h[k] /\ h[0] = <<>> /\ \A i \in 0..k : h[i] \in Seq(Octet)
      /\ \A i \in 1..k : h[i] = h[i - 1] \o seqs[i]
  BY <1>2, FlattenIs DEF Piles
<1>4. \A i \in 0..k : \E r \in Seq(Octet) : all = h[i] \o r
  BY <1>2, PileRest
<1> HIDE DEF all
<1>l. PICK g : Loops(g, doc, all)
  BY <1>1, ElementsUnfolds
<1>5. /\ Elements(doc, all) = LoopEnd(g[n], n) /\ g[0] = LoopAt(0, <<>>, "none")
      /\ \A i \in 1..n : g[i] = Turn(doc, all, g[i - 1])
  BY <1>l DEF Loops
<1> HIDE DEF n
\* While there are elements, a turn takes one.
<1>6. ASSUME NEW i \in 0..(k - 1)
      PROVE  /\ Len(h[i]) \in Nat /\ Len(h[i + 1]) > Len(h[i]) /\ Len(h[i + 1]) <= n
             /\ Turn(doc, all, LoopAt(Len(h[i]), Upto(i), "none")) =
                  LoopAt(Len(h[i + 1]), Upto(i + 1), "none")
  <2> DEFINE j == i + 1
             off == Len(h[i])
             b == seqs[j]
             v == vs[j]
  <2>1. j \in 1..k /\ j \in 0..k /\ i \in 0..k /\ j - 1 = i
    BY <1>0
  <2>2. b \in Seq(Octet) /\ Len(b) > 0 /\ Reads(doc, b, v)
    BY <2>1 DEF Reads
  <2>3. h[j] = h[i] \o b /\ h[i] \in Seq(Octet)
    BY <1>3, <2>1
  <2> HIDE DEF b, v, j
  <2>4. h[j] \in Seq(Octet) /\ Len(h[j]) = off + Len(b) /\ off \in Nat /\ Len(b) \in Nat
    BY <2>2, <2>3, Concat
  <2>5. PICK r \in Seq(Octet) : all = h[j] \o r
    BY <1>4, <2>1
  <2>6. n = Len(h[j]) + Len(r) /\ Len(r) \in Nat
    BY <2>4, <2>5, Concat DEF n
  <2>7. all = h[i] \o (b \o r) /\ b \o r \in Seq(Octet)
    <3>1. b \o r \in Seq(Octet)
      BY <2>2, ConcatProperties
    <3>2. Grouped(h[i], b, r)
      BY <2>2, <2>3, GroupAgain
    <3> USE DEF Grouped
    <3> QED BY <2>3, <2>5, <3>1, <3>2
  <2>8. SubInput(all, off) = b \o r
    <3> DEFINE br == b \o r
    <3>1. br \in Seq(Octet) /\ all = h[i] \o br
      BY <2>7
    <3> HIDE DEF br
    <3>2. SubSeq(h[i] \o br, Len(h[i]) + 1, Len(h[i] \o br)) = br
      BY <2>3, <3>1, FirstPart
    <3> QED BY <3>1, <3>2 DEF SubInput, br
  <2> DEFINE sub == DecodeAlone(doc, SubInput(all, off))
  <2>9. sub.ok /\ sub.consumed = Len(b) /\ sub.value = v
    BY <2>2, <2>8 DEF Reads
  <2> HIDE DEF sub
  <2>10. sub = DecodeAlone(doc, SubInput(all, off))
    BY DEF sub
  <2> HIDE DEF off
  <2>11. ~(off >= n) /\ sub.consumed # 0 /\ Len(h[j]) = off + sub.consumed
         /\ Len(h[j]) > off /\ Len(h[j]) <= n
    BY <2>2, <2>4, <2>6, <2>9
  <2>12. ~(off >= Len(all))
    BY <2>11 DEF n
  <2>13. Turn(doc, all, LoopAt(off, Upto(i), "none")) =
           LoopAt(off + sub.consumed, Append(Upto(i), sub.value), "none")
    <3> DEFINE es == Upto(i)
    <3>1. sub.ok /\ sub.consumed # 0
      BY <2>9, <2>11
    <3> HIDE DEF es, Upto
    <3>2. Turn(doc, all, LoopAt(off, es, "none")) =
            LoopAt(off + sub.consumed, Append(es, sub.value), "none")
      BY <2>10, <2>12, <3>1, TurnTakes
    <3> QED BY <3>2 DEF es
  <2>14. Upto(j) = Append(Upto(i), v)
    <3>1. i \in Nat /\ j = i + 1 /\ j <= Len(vs)
      BY <1>0, <2>1 DEF j
    <3> QED BY <3>1 DEF v
  <2> HIDE DEF Upto
  <2>15. Turn(doc, all, LoopAt(off, Upto(i), "none")) = LoopAt(Len(h[j]), Upto(j), "none")
    BY <2>9, <2>11, <2>13, <2>14
  <2> QED BY <2>4, <2>11, <2>15 DEF off, j
<1>7. k <= n
  <2> DEFINE T == {i \in Nat : Len(h[i]) \in Nat /\ Len(h[i]) >= i /\ i <= n}
  <2>1. 0 \in T
    BY <1>1, <1>3
  <2>2. ASSUME NEW i \in 0..(k - 1), i \in T PROVE i + 1 \in T
    <3> DEFINE a == Len(h[i])
               b == Len(h[i + 1])
    <3>1. h[i + 1] \in Seq(Octet)
      BY <1>0, <1>3
    <3>2. b \in Nat
      BY <3>1
    <3>3. a \in Nat /\ b > a /\ b <= n /\ a >= i
      BY <1>6, <2>2
    <3> HIDE DEF a, b
    <3>4. b >= i + 1 /\ i + 1 <= n /\ i + 1 \in Nat
      BY <1>1, <3>2, <3>3
    <3> QED BY <3>2, <3>4 DEF b
  <2>3. \A i \in 0..k : i \in T
    <3> HIDE DEF T
    <3> QED BY <1>0, <2>1, <2>2, UpTo
  <2> QED BY <1>0, <2>3
<1> DEFINE U == {i \in Nat : IF i <= k THEN g[i] = LoopAt(Len(h[i]), Upto(i), "none")
                             ELSE g[i] = LoopAt(n, vs, "none")}
<1>8. Upto(k) = vs /\ Len(h[k]) = n
  BY <1>3, SubSeqFull DEF n
<1>9. 0 \in U
  <2>1. Upto(0) = <<>> /\ Len(h[0]) = 0
    BY <1>3
  <2> HIDE DEF Upto
  <2>2. g[0] = LoopAt(Len(h[0]), Upto(0), "none")
    BY <1>5, <2>1
  <2>3. 0 <= k /\ 0 \in Nat
    BY <1>0
  <2> HIDE DEF Upto
  <2> QED BY <2>2, <2>3
<1>10. ASSUME NEW i \in 0..(n - 1), i \in U PROVE i + 1 \in U
  <2>1. i + 1 \in 1..n /\ (i + 1) - 1 = i /\ i + 1 \in Nat /\ i \in Nat
    BY <1>1
  <2>2. g[i + 1] = Turn(doc, all, g[i])
    BY <1>5, <2>1
  <2>3. CASE i < k
    <3>1. i \in 0..(k - 1) /\ i + 1 <= k /\ i <= k
      BY <1>0, <2>1, <2>3
    <3>2. g[i] = LoopAt(Len(h[i]), Upto(i), "none")
      BY <1>10, <3>1
    <3>3. g[i + 1] = LoopAt(Len(h[i + 1]), Upto(i + 1), "none")
      <4> HIDE DEF Upto
      <4> QED BY <1>6, <2>2, <3>1, <3>2
    <3> HIDE DEF Upto
    <3> QED BY <2>1, <3>1, <3>3
  <2>4. CASE ~(i < k)
    <3>1. ~(i + 1 <= k) /\ (i <= k => i = k)
      BY <1>0, <2>1, <2>4
    <3>2. g[i] = LoopAt(n, vs, "none")
      <4> HIDE DEF Upto
      <4> QED BY <1>8, <1>10, <3>1
    <3>3. Turn(doc, all, g[i]) = g[i]
      <4>1. g[i].off = n
        BY <3>2 DEF LoopAt
      <4>2. g[i].off >= Len(all)
        BY <1>1, <4>1 DEF n
      <4> QED BY <4>2, TurnIdle
    <3>4. g[i + 1] = LoopAt(n, vs, "none")
      BY <2>2, <3>2, <3>3
    <3> HIDE DEF Upto
    <3> QED BY <2>1, <3>1, <3>4
  <2> QED BY <2>3, <2>4
<1>11. \A i \in 0..n : i \in U
  <2> HIDE DEF U
  <2> QED BY <1>1, <1>9, <1>10, UpTo
<1>12. g[n] = LoopAt(n, vs, "none")
  <2>1. n \in 0..n /\ n \in U
    BY <1>1, <1>11
  <2>2. CASE n <= k
    <3>1. n = k
      BY <1>0, <1>1, <1>7, <2>2
    <3> HIDE DEF Upto
    <3> QED BY <1>8, <2>1, <2>2, <3>1
  <2>3. CASE ~(n <= k)
    <3> HIDE DEF Upto
    <3> QED BY <2>1, <2>3
  <2> QED BY <2>2, <2>3
<1>13. LoopEnd(g[n], n) = [ok |-> TRUE, elements |-> vs]
  <2> DEFINE s == g[n]
  <2>1. s.why = "none" /\ s.off = n /\ s.elements = vs
    BY <1>12, LoopAtIs
  <2> HIDE DEF s
  <2>2. LoopEnd(s, n) = [ok |-> TRUE, elements |-> vs]
    BY <2>1 DEF LoopEnd
  <2> QED BY <2>2 DEF s
<1> QED BY <1>5, <1>13 DEF all

UnitOctets(doc, v) == Header(doc, v.fields) \o v.payload
AllOctets(doc, es) == [i \in 1..Len(es) |-> UnitOctets(doc, es[i])]

\* A part of what is behind a part.
LEMMA PartOfRest ==
  ASSUME NEW S, NEW s \in Seq(S), NEW off \in Nat, NEW c \in Nat, off + c <= Len(s)
  PROVE  SubSeq(SubSeq(s, off + 1, Len(s)), 1, c) = SubSeq(s, off + 1, off + c)
<1> DEFINE n == Len(s)
           rest == SubSeq(s, off + 1, n)
           a == SubSeq(rest, 1, c)
           b == SubSeq(s, off + 1, off + c)
<1>0. n \in Nat
  OBVIOUS
<1> HIDE DEF n
<1>1. /\ off <= n /\ n <= Len(s) /\ off + c \in Nat /\ off <= off + c /\ off + c <= Len(s)
      /\ (off + c) - off = c /\ n - off \in Nat /\ c <= n - off
  BY <1>0 DEF n
<1>2. /\ rest \in Seq(S) /\ Len(rest) = n - off
      /\ \A k \in 1..(n - off) : rest[k] = s[off + k]
  <2> HIDE DEF b, a
  <2>1. off \in Nat /\ n \in Nat /\ off <= n /\ n <= Len(s)
    BY <1>0, <1>1
  <2> QED BY <2>1, Part
<1>3. /\ b \in Seq(S) /\ Len(b) = c /\ \A k \in 1..c : b[k] = s[off + k]
  <2> DEFINE e == off + c
  <2>1. off \in Nat /\ e \in Nat /\ off <= e /\ e <= Len(s) /\ e - off = c
    BY <1>1
  <2>2. b = SubSeq(s, off + 1, e)
    OBVIOUS
  <2> HIDE DEF e, b
  <2>3. /\ SubSeq(s, off + 1, e) \in Seq(S) /\ Len(SubSeq(s, off + 1, e)) = e - off
        /\ \A k \in 1..(e - off) : SubSeq(s, off + 1, e)[k] = s[off + k]
    BY <2>1, Part
  <2> QED BY <2>1, <2>2, <2>3
<1> HIDE DEF rest, b
<1>4. 0 \in Nat /\ 0 + 1 = 1 /\ 0 <= c /\ c <= Len(rest) /\ c - 0 = c
  BY <1>1, <1>2
<1>5. /\ SubSeq(rest, 0 + 1, c) \in Seq(S) /\ Len(SubSeq(rest, 0 + 1, c)) = c - 0
      /\ \A k \in 1..(c - 0) : SubSeq(rest, 0 + 1, c)[k] = rest[0 + k]
  BY <1>2, <1>4, Part
<1>6. /\ a \in Seq(S) /\ Len(a) = c
      /\ \A k \in 1..c : a[k] = rest[0 + k]
  BY <1>4, <1>5
<1> HIDE DEF a
<1>7. \A k \in 1..c : a[k] = b[k]
  <2> SUFFICES ASSUME NEW k \in 1..c PROVE a[k] = b[k]
    OBVIOUS
  <2>1. k \in 1..(n - off) /\ 0 + k = k
    BY <1>1
  <2> QED BY <1>2, <1>3, <1>6, <2>1
<1>8. a = b
  BY <1>3, <1>6, <1>7, SeqEqual
<1> QED BY <1>8 DEF a, b, rest, n

\* Each element that the loop has found is a unit without elements.
LEMMA FoundIs ==
  ASSUME NEW doc, Spoken(doc), NarrowAlone(doc), NEW octets \in Seq(Octet), NEW v \in Found(doc, octets)
  PROVE  /\ v.elements = <<>> /\ v.payload \in Seq(Octet)
         /\ Len(v.payload) = Declared(doc, v.fields)
         /\ v.fields \in [Names(doc) -> Nat]
         /\ v = [fields |-> v.fields, payload |-> v.payload, elements |-> <<>>]
         /\ UnitOctets(doc, v) \in Seq(Octet)
<1>1. PICK i \in 0..Len(octets) :
        DecodeAlone(doc, SubInput(octets, i)).ok /\ v = DecodeAlone(doc, SubInput(octets, i)).value
  BY DEF Found
<1> DEFINE o == SubInput(octets, i)
           r == DecodeAlone(doc, o)
           head == HeaderOctets(doc)
           len == Declared(doc, v.fields)
<1>2. o \in Seq(Octet)
  BY SubInputIs
<1>3. r.ok /\ v = r.value
  BY <1>1
<1> HIDE DEF o
<1>4. Took(doc, o, r)
  BY <1>2, <1>3, DecodeTakes
<1> HIDE DEF r
<1>5. /\ head \in Nat /\ len \in Nat /\ head + len <= Len(o) /\ v.fields = Members(doc, o)
      /\ v.payload = Span(o, head, len) /\ v.elements = <<>>
      /\ r = Unit(Members(doc, o), Span(o, head, len), <<>>, head + len)
  BY <1>3, <1>4 DEF Took
<1>6. v = [fields |-> v.fields, payload |-> v.payload, elements |-> <<>>]
  BY <1>3, <1>5 DEF Unit
<1>7. Len(o) >= HeaderOctets(doc) /\ Len(o) \in Nat
  <2>1. Len(o) \in Nat
    BY <1>2
  <2> HIDE DEF len
  <2> QED BY <1>5, <2>1
<1>8. v.fields \in [Names(doc) -> Nat] /\ NatMembers(doc, v.fields)
  BY <1>2, <1>5, <1>7, MembersType DEF Spoken
<1> HIDE DEF head, len
<1>9. Span(o, head, len) \in Seq(Octet) /\ Len(Span(o, head, len)) = len
  <2>1. head + len \in Nat /\ head <= head + len /\ (head + len) - head = len
    BY <1>5
  <2> QED BY <1>2, <1>5, <2>1, Part DEF Span
<1>10. Header(doc, v.fields) \in Seq(Octet)
  BY <1>8, HeaderHolds DEF Spoken
<1>11. UnitOctets(doc, v) \in Seq(Octet)
  <2>1. v.payload \in Seq(Octet)
    BY <1>5, <1>9
  <2> QED BY <1>10, <2>1, ConcatProperties DEF UnitOctets
<1> QED BY <1>5, <1>6, <1>8, <1>9, <1>11 DEF len

\* One element more.
LEMMA AllOctetsAppend ==
  ASSUME NEW doc, NEW S, NEW es \in Seq(S), NEW v \in S,
         \A x \in S : UnitOctets(doc, x) \in Seq(Octet)
  PROVE  /\ AllOctets(doc, es) \in Seq(Seq(Octet))
         /\ AllOctets(doc, Append(es, v)) = Append(AllOctets(doc, es), UnitOctets(doc, v))
<1> DEFINE n == Len(es)
           more == Append(es, v)
           a == AllOctets(doc, es)
           b == AllOctets(doc, more)
           c == Append(a, UnitOctets(doc, v))
<1>1. n \in Nat /\ \A i \in 1..n : es[i] \in S
  OBVIOUS
<1>2. Len(more) = n + 1 /\ (\A i \in 1..n : more[i] = es[i]) /\ more[n + 1] = v
  BY AppendProperties
<1> HIDE DEF more, n
<1>3. a \in [1..n -> Seq(Octet)] /\ \A i \in 1..n : a[i] = UnitOctets(doc, es[i])
  BY <1>1 DEF AllOctets, n
<1>4. \A i \in 1..(n + 1) : i \in 1..n \/ i = n + 1
  BY <1>1
<1>5. b \in [1..(n + 1) -> Seq(Octet)] /\ \A i \in 1..(n + 1) : b[i] = UnitOctets(doc, more[i])
  <2>1. ASSUME NEW i \in 1..(n + 1) PROVE UnitOctets(doc, more[i]) \in Seq(Octet)
    <3>1. more[i] \in S
      BY <1>1, <1>2, <1>4
    <3> QED BY <3>1
  <2>2. b = [i \in 1..(n + 1) |-> UnitOctets(doc, more[i])]
    BY <1>2 DEF AllOctets
  <2> QED BY <2>1, <2>2
<1> HIDE DEF a, b
<1>6. a \in Seq(Seq(Octet)) /\ Len(a) = n
  BY <1>1, <1>3, FunctionIsSeq
<1>7. b \in Seq(Seq(Octet)) /\ Len(b) = n + 1
  <2>1. n + 1 \in Nat
    BY <1>1
  <2> QED BY <1>5, <2>1, FunctionIsSeq
<1>8. /\ c \in Seq(Seq(Octet)) /\ Len(c) = n + 1
      /\ \A i \in 1..n : c[i] = a[i]
      /\ c[n + 1] = UnitOctets(doc, v)
  BY <1>6, AppendProperties
<1> HIDE DEF c
<1>9. \A i \in 1..(n + 1) : b[i] = c[i]
  <2> SUFFICES ASSUME NEW i \in 1..(n + 1) PROVE b[i] = c[i]
    OBVIOUS
  <2>1. CASE i \in 1..n
    BY <1>2, <1>3, <1>5, <1>8, <2>1
  <2>2. CASE i = n + 1
    BY <1>2, <1>5, <1>8, <2>2
  <2> QED BY <1>4, <2>1, <2>2
<1>10. b = c
  BY <1>7, <1>8, <1>9, SeqEqual
<1> QED BY <1>6, <1>10 DEF a, b, c, more

\* The elements found, one behind the other, are the octets they were found in.
LEMMA ElementsWrite ==
  ASSUME NEW doc, Spoken(doc), NarrowAlone(doc), WithinRuntime(doc), LosslessAlone(doc),
         NEW octets \in Seq(Octet), Elements(doc, octets).ok
  PROVE  FlattenSeq(AllOctets(doc, Elements(doc, octets).elements)) = octets
<1> DEFINE n == Len(octets)
           r == Elements(doc, octets)
           F == Found(doc, octets)
<1>0. n \in Nat
  OBVIOUS
<1>l. PICK g : Loops(g, doc, octets)
  BY <1>0, ElementsUnfolds
<1>1. /\ r = LoopEnd(g[n], n) /\ g[0] = LoopAt(0, <<>>, "none")
      /\ \A i \in 1..n : g[i] = Turn(doc, octets, g[i - 1])
  BY <1>l DEF Loops
<1>o. \A v \in F : UnitOctets(doc, v) \in Seq(Octet)
  BY FoundIs
<1> DEFINE Written(s) == s.why = "none" =>
             FlattenSeq(AllOctets(doc, s.elements)) = SubSeq(octets, 1, s.off)
           T == {i \in Nat : Turned(g[i], doc, octets, i) /\ Written(g[i])}
<1>2. 0 \in T
  <2>1. g[0].off = 0 /\ g[0].elements = <<>> /\ g[0].why = "none"
    BY <1>1 DEF LoopAt
  <2>2. <<>> \in Seq(F)
    BY EmptySeq
  <2>3. g[0] = LoopAt(g[0].off, g[0].elements, g[0].why)
    BY <1>1, <2>1
  <2>4. 0 \in 0..n /\ 0 >= 0
    BY <1>0
  <2>5. Turned(g[0], doc, octets, 0)
    BY <2>1, <2>2, <2>3, <2>4 DEF Turned
  <2>6. FlattenSeq(AllOctets(doc, <<>>)) = SubSeq(octets, 1, 0)
    <3>1. AllOctets(doc, <<>>) = <<>>
      BY DEF AllOctets
    <3>2. SubSeq(octets, 1, 0) = <<>>
      BY SubSeqEmpty
    <3> QED BY <3>1, <3>2, FlattenEmpty
  <2> QED BY <2>1, <2>5, <2>6
<1>3. ASSUME NEW i \in 0..(n - 1), i \in T PROVE i + 1 \in T
  <2> DEFINE s == g[i]
             t == Turn(doc, octets, s)
             o == SubInput(octets, s.off)
             sub == DecodeAlone(doc, o)
  <2>1. i + 1 \in 1..n /\ (i + 1) - 1 = i /\ i \in Nat /\ i + 1 \in Nat
    BY <1>0
  <2>2. g[i + 1] = t
    BY <1>1, <2>1
  <2>3. Turned(s, doc, octets, i) /\ Written(s)
    BY <1>3
  <2>4. /\ Turned(t, doc, octets, i + 1)
        /\ \/ t = s
           \/ t.why = "element"
           \/ /\ sub.ok /\ s.why = "none" /\ s.off + sub.consumed <= n
              /\ sub.consumed \in Nat /\ sub.consumed > 0
              /\ t = LoopAt(s.off + sub.consumed, Append(s.elements, sub.value), "none")
    BY <2>1, <2>3, OneTurn
  <2>5. Written(t)
    <3>1. CASE t = s
      BY <2>3, <3>1
    <3>2. CASE t.why = "element"
      BY <3>2
    <3>3. CASE /\ sub.ok /\ s.why = "none" /\ s.off + sub.consumed <= n
               /\ sub.consumed \in Nat /\ sub.consumed > 0
               /\ t = LoopAt(s.off + sub.consumed, Append(s.elements, sub.value), "none")
      <4> DEFINE c == sub.consumed
                 v == sub.value
                 off == s.off
                 es == s.elements
      <4>1. off \in 0..n /\ es \in Seq(F)
        BY <2>3 DEF Turned
      <4>2. o \in Seq(Octet) /\ Len(o) = n - off
        BY <4>1, SubInputIs
      <4>3. v \in F
        BY <3>3, <4>1 DEF Found
      <4>4. UnitOctets(doc, v) = SubSeq(o, 1, c)
        <5> HIDE DEF o
        <5>1. Header(doc, sub.value.fields) \o sub.value.payload = SubSeq(o, 1, sub.consumed)
          BY <3>3, <4>2, AloneWrites
        <5> QED BY <5>1 DEF UnitOctets
      <4>5. SubSeq(o, 1, c) = SubSeq(octets, off + 1, off + c)
        <5>1. off \in Nat /\ c \in Nat /\ off + c <= Len(octets)
          BY <3>3, <4>1
        <5> HIDE DEF off, c
        <5>2. SubSeq(SubSeq(octets, off + 1, Len(octets)), 1, c) = SubSeq(octets, off + 1, off + c)
          BY <5>1, PartOfRest
        <5> QED BY <5>2 DEF SubInput, off
      <4>6. AllOctets(doc, es) \in Seq(Seq(Octet))
            /\ AllOctets(doc, Append(es, v)) = Append(AllOctets(doc, es), UnitOctets(doc, v))
        <5> HIDE DEF es, v, F
        <5> QED BY <1>o, <4>1, <4>3, AllOctetsAppend
      <4>7. FlattenSeq(AllOctets(doc, Append(es, v))) =
              FlattenSeq(AllOctets(doc, es)) \o UnitOctets(doc, v)
        <5> DEFINE a == AllOctets(doc, es)
                   b == UnitOctets(doc, v)
        <5>1. a \in Seq(Seq(Octet)) /\ b \in Seq(Octet)
          BY <1>o, <4>3, <4>6
        <5>2. AllOctets(doc, Append(es, v)) = Append(a, b)
          BY <4>6
        <5> HIDE DEF a, b
        <5>3. FlattenSeq(Append(a, b)) = FlattenSeq(a) \o b
          BY <5>1, FlattenAppend
        <5> QED BY <5>2, <5>3 DEF a, b
      <4>8. FlattenSeq(AllOctets(doc, es)) = SubSeq(octets, 1, off)
        BY <2>3, <3>3
      <4>9. SubSeq(octets, 1, off) \o SubSeq(octets, off + 1, off + c) = SubSeq(octets, 1, off + c)
        <5>1. off \in Nat /\ off + c \in Nat /\ off <= off + c /\ off + c <= Len(octets)
          <6>1. off \in 0..n /\ c \in Nat /\ off + c <= n
            BY <3>3, <4>1
          <6> HIDE DEF off, c
          <6> QED BY <1>0, <6>1
        <5> HIDE DEF off, c
        <5> QED BY <5>1, TwoParts
      <4>10. t.off = off + c /\ t.elements = Append(es, v)
        <5> DEFINE x == off + c
                   y == Append(es, v)
        <5>1. t = LoopAt(x, y, "none")
          BY <3>3
        <5> HIDE DEF x, y, t
        <5>2. t.off = x /\ t.elements = y
          BY <5>1 DEF LoopAt
        <5> QED BY <5>2 DEF x, y
      <4> HIDE DEF t, off, c, es, v, o
      <4> QED BY <4>4, <4>5, <4>7, <4>8, <4>9, <4>10
    <3> QED BY <2>4, <3>1, <3>2, <3>3
  <2> HIDE DEF t, Written
  <2> QED BY <2>1, <2>2, <2>4, <2>5
<1>4. \A i \in 0..n : i \in T
  <2> HIDE DEF T
  <2> QED BY <1>0, <1>2, <1>3, UpTo
<1>5. Turned(g[n], doc, octets, n) /\ Written(g[n])
  <2>1. n \in 0..n
    BY <1>0
  <2> HIDE DEF Written
  <2> QED BY <1>4, <2>1
<1> DEFINE s == g[n]
<1>6. /\ s.off \in 0..n /\ s.why \in {"none", "element"}
      /\ s.why = "none" => s.off = n \/ s.off >= n
  BY <1>5 DEF Turned
<1>7. r = LoopEnd(s, n) /\ r.ok
  BY <1>1
<1>8. s.why = "none"
  <2> HIDE DEF s, r
  <2>1. s.why = "element" => ~LoopEnd(s, n).ok
    BY DEF LoopEnd, Failed
  <2> QED BY <1>6, <1>7, <2>1
<1>9. s.off = n
  <2> HIDE DEF s, n
  <2> QED BY <1>0, <1>6, <1>8
<1>10. FlattenSeq(AllOctets(doc, s.elements)) = octets
  BY <1>5, <1>8, <1>9, SubSeqFull
<1>11. r.elements = s.elements
  <2> HIDE DEF s, r, n
  <2>1. r = [ok |-> TRUE, elements |-> s.elements]
    BY <1>7, <1>8, <1>9 DEF LoopEnd
  <2> QED BY <2>1
<1> QED BY <1>10, <1>11

----------------------------------------------------------------------------
(* Encode and decode, of a description that was accepted *)

Passed(l, p) == l \in Libraries /\ p \in DOMAIN l /\ \A q \in DOMAIN l : Lints(l[q], DOMAIN l)

\* What the linter has said of one description of a library.
LEMMA PassedOne ==
  ASSUME NEW l, NEW p, Passed(l, p)
  PROVE  /\ Spoken(l[p]) /\ WithinRuntime(l[p])
         /\ l[p].trailer = "repeated" => l[p].element \in DOMAIN l
<1> DEFINE doc == l[p]
           known == DOMAIN l
<1>1. doc \in Description /\ WithinRuntime(doc) /\ doc.bits < SizeT
  BY CodecAssumption DEF Passed
<1>2. HeaderLints(doc) /\ TrailerLints(doc, known)
  BY DEF Passed, Lints
<1> HIDE DEF doc, known
<1>3. doc.trailer \in {"none", "payload", "repeated", "both"}
  BY <1>1 DEF Description
<1>4. TrailerLints(doc, known) =
        CASE doc.trailer = "none"     -> TRUE
          [] doc.trailer = "payload"  -> doc.length \in Names(doc)
          [] doc.trailer = "repeated" -> doc.length \in Names(doc) /\ doc.element \in known
          [] doc.trailer = "both"     -> FALSE
  BY DEF TrailerLints
<1>5. /\ doc.trailer # "both"
      /\ doc.trailer = "payload" => doc.length \in Names(doc)
      /\ doc.trailer = "repeated" => doc.length \in Names(doc) /\ doc.element \in known
  <2>1. CASE doc.trailer = "none"
    BY <2>1
  <2>2. CASE doc.trailer = "payload"
    BY <1>2, <1>4, <2>2
  <2>3. CASE doc.trailer = "repeated"
    BY <1>2, <1>4, <2>3
  <2>4. CASE doc.trailer = "both"
    BY <1>2, <1>4, <2>4
  <2> QED BY <1>3, <2>1, <2>2, <2>3, <2>4
<1>6. Spoken(doc)
  BY <1>1, <1>2, <1>3, <1>5 DEF Spoken, Linted
<1> QED BY <1>1, <1>5, <1>6 DEF doc, known

\* The same of the description of its elements.
LEMMA PassedElement ==
  ASSUME NEW l, NEW p, Passed(l, p), l[p].trailer = "repeated"
  PROVE  /\ Passed(l, l[p].element)
         /\ l[l[p].element].trailer # "repeated"
<1>1. l[p].element \in DOMAIN l
  BY PassedOne
<1>2. l[l[p].element].trailer # "repeated"
  BY <1>1, CodecAssumption DEF Passed
<1> QED BY <1>1, <1>2 DEF Passed

\* The bits of a field of a library that was accepted are in the header.
LEMMA PassedStays ==
  ASSUME NEW l, NEW p, Passed(l, p)
  PROVE  StaysInHeader(l[p])
<1> SUFFICES ASSUME NEW i \in DOMAIN l[p].fields, NEW b \in FieldBits(l[p].fields[i])
             PROVE  b \div 8 \in 0..HeaderOctets(l[p]) - 1
  BY DEF StaysInHeader
<1> DEFINE doc == l[p]
           f == doc.fields[i]
<1>1. l \in Libraries /\ Lints(doc, DOMAIN l)
  BY DEF Passed
<1>2. doc \in Description
  BY <1>1, CodecAssumption DEF Passed
<1>3. HeaderLints(doc) /\ FieldFits(doc, f)
  BY <1>1 DEF Lints, HeaderLints
<1>4. doc.bits \in Int /\ f.off \in Int /\ f.width \in Int
  <2> HIDE DEF doc
  <2>1. doc.bits \in Int /\ \A j \in 1..Len(doc.fields) : doc.fields[j] \in FieldDescr
    BY <1>2, DescriptionType
  <2>2. f \in FieldDescr
    <3>1. DOMAIN doc.fields = 1..Len(doc.fields)
      BY <1>2, DescriptionType
    <3> QED BY <2>1, <3>1 DEF doc
  <2> QED BY <2>1, <2>2 DEF FieldDescr
<1>5. doc.bits > 0 /\ doc.bits % 8 = 0
  BY <1>3 DEF HeaderLints
<1>6. f.off >= 0 /\ f.off + f.width <= doc.bits
  BY <1>3 DEF FieldFits
<1>7. b \in f.off..(f.off + f.width - 1)
  BY DEF FieldBits
<1> DEFINE n == doc.bits
           o == f.off
           w == f.width
<1>8. b \in Int /\ 0 <= b /\ b < n /\ n \in Int /\ n % 8 = 0 /\ n > 0
  <2>1. o \in Int /\ w \in Int /\ n \in Int /\ o >= 0 /\ o + w <= n /\ b \in o..(o + w - 1)
    BY <1>4, <1>6, <1>7
  <2> HIDE DEF o, w, n
  <2> QED BY <2>1, <1>5 DEF n
<1>9. HeaderOctets(doc) = (n + 7) \div 8
  BY DEF HeaderOctets
<1> HIDE DEF n
<1>10. b \div 8 \in 0..((n + 7) \div 8) - 1
  BY <1>8
<1> QED BY <1>9, <1>10

\* A bounded sequence is a sequence.
LEMMA BoundedIsSeq ==
  ASSUME NEW S, NEW n \in Nat, NEW s \in BoundedSeq(S, n)
  PROVE  s \in Seq(S) /\ DOMAIN s = 1..Len(s)
<1>1. PICK m \in 0..n : s \in [1..m -> S]
  BY DEF BoundedSeq, SeqOf
<1>2. m \in Nat
  BY <1>1
<1>3. s \in Seq(S) /\ Len(s) = m /\ DOMAIN s = 1..m
  BY <1>1, <1>2, FunctionIsSeq
<1> QED BY <1>3

\* A value of a unit without elements.
Single(doc, d) ==
  /\ d = [fields |-> d.fields, payload |-> d.payload, elements |-> <<>>]
  /\ d.fields = [n \in Names(doc) |-> d.fields[n]]
  /\ d.payload \in Seq(Octet)
  /\ doc.trailer # "payload" => d.payload = <<>>
  /\ \A n \in Names(doc) : d.fields[n] \in Nat

\* The values that a caller gives to fields.
LEMMA FieldValuesType ==
  ASSUME NEW doc, Linted(doc), NEW m \in FieldValues(doc)
  PROVE  m = [n \in Names(doc) |-> m[n]] /\ \A n \in Names(doc) : m[n] \in Nat
<1> DEFINE Given(f) == {v \in Samples : v \in Member(f) /\ v <= Pow2[f.width]}
           all == {doc.fields[i] : i \in DOMAIN doc.fields}
<1>1. m \in [Names(doc) -> UNION {Given(f) : f \in all}] /\ \A f \in all : m[f.name] \in Given(f)
  BY DEF FieldValues
<1>2. m = [n \in Names(doc) |-> m[n]]
  <2> DEFINE U == UNION {Given(f) : f \in all}
  <2>1. m \in [Names(doc) -> U]
    BY <1>1
  <2> HIDE DEF U
  <2> QED BY <2>1
<1>3. ASSUME NEW n \in Names(doc) PROVE m[n] \in Nat
  <2>1. PICK i \in DOMAIN doc.fields : n = doc.fields[i].name
    BY DEF Names
  <2>2. m[n] \in Given(doc.fields[i])
    BY <1>1, <2>1
  <2>3. m[n] \in Samples
    BY <2>2
  <2> QED BY <2>3, CodecAssumption
<1> QED BY <1>2, <1>3

\* The values of a unit without elements.
LEMMA SingleValues ==
  ASSUME NEW doc, Linted(doc), NEW d \in ValuesAlone(doc)
  PROVE  Single(doc, d) /\ d.fields \in FieldValues(doc)
<1> DEFINE P == IF doc.trailer = "payload" THEN BoundedSeq(Octets, MaxPayload) ELSE {<<>>}
           M == FieldValues(doc)
<1>1. d \in [fields : M, payload : P, elements : {<<>>}]
  BY DEF ValuesAlone
<1>2. doc.trailer # "payload" => P = {<<>>}
  OBVIOUS
<1>3. P \subseteq Seq(Octet)
  <2>1. CASE doc.trailer = "payload"
    <3>1. \A s \in BoundedSeq(Octets, MaxPayload) : s \in Seq(Octets)
      BY CodecAssumption, BoundedIsSeq
    <3>2. \A s \in Seq(Octets) : s \in Seq(Octet)
      BY CodecAssumption, SeqMonotonic
    <3> QED BY <2>1, <3>1, <3>2
  <2>2. CASE doc.trailer # "payload"
    <3>1. <<>> \in Seq(Octet)
      BY EmptySeq
    <3> QED BY <1>2, <2>2, <3>1
  <2> QED BY <2>1, <2>2
<1> HIDE DEF P, M
<1>4. d = [fields |-> d.fields, payload |-> d.payload, elements |-> <<>>]
      /\ d.fields \in M /\ d.payload \in P
  BY <1>1
<1>5. d.fields = [n \in Names(doc) |-> d.fields[n]] /\ \A n \in Names(doc) : d.fields[n] \in Nat
  BY <1>4, FieldValuesType DEF M
<1> QED BY <1>2, <1>3, <1>4, <1>5 DEF Single, M

\* Values for the fields, as a function from their names.
LEMMA MembersOf ==
  ASSUME NEW doc, Linted(doc), NEW m, \A n \in Names(doc) : m[n] \in Nat
  PROVE  NatMembers(doc, m)
BY FieldOf DEF NatMembers

\* Encode refuses a payload of another length than its member says.
LEMMA EncodesAlone ==
  ASSUME NEW doc, Spoken(doc), doc.trailer # "repeated", NEW d, Single(doc, d)
  PROVE  /\ EncodeAlone(doc, d).ok <=> Declared(doc, d.fields) = Len(d.payload)
         /\ EncodeAlone(doc, d).ok => EncodeAlone(doc, d) = Bytes(UnitOctets(doc, d))
         /\ UnitOctets(doc, d) \in Seq(Octet)
         /\ Len(UnitOctets(doc, d)) = HeaderOctets(doc) + Len(d.payload)
<1> DEFINE h == Header(doc, d.fields)
<1>1. h \in Seq(Octet) /\ Len(h) = HeaderOctets(doc)
  BY MembersOf, HeaderHolds DEF Spoken, Single
<1>2. d.payload \in Seq(Octet) /\ (doc.trailer # "payload" => d.payload = <<>>)
  BY DEF Single
<1> HIDE DEF h
<1>3. h \o d.payload \in Seq(Octet) /\ Len(h \o d.payload) = Len(h) + Len(d.payload)
  BY <1>1, <1>2, Concat
<1>4. UnitOctets(doc, d) = h \o d.payload
  BY DEF UnitOctets, h
<1>5. doc.trailer = "none" \/ doc.trailer = "payload"
  BY DEF Spoken
<1>6. Bytes(UnitOctets(doc, d)).ok /\ ~Failed("payload size").ok
  BY DEF Bytes, Failed
<1>7. EncodeAlone(doc, d) = IF doc.trailer = "payload" /\ d.fields[doc.length] # Len(d.payload)
                            THEN Failed("payload size") ELSE Bytes(UnitOctets(doc, d))
  BY DEF EncodeAlone, UnitOctets
<1>8. Declared(doc, d.fields) = IF doc.trailer = "none" THEN 0 ELSE d.fields[doc.length]
  BY DEF Declared
<1>9. doc.trailer = "none" => Len(d.payload) = 0
  BY <1>2, EmptySeq
<1> DEFINE e == EncodeAlone(doc, d)
           o == UnitOctets(doc, d)
<1> HIDE DEF e, o
<1>10. (e.ok <=> Declared(doc, d.fields) = Len(d.payload)) /\ (e.ok => e = Bytes(o))
  <2>1. CASE doc.trailer = "none"
    BY <1>6, <1>7, <1>8, <1>9, <2>1 DEF e, o
  <2>2. CASE doc.trailer = "payload"
    BY <1>6, <1>7, <1>8, <2>2 DEF e, o
  <2> QED BY <1>5, <2>1, <2>2
<1> QED BY <1>1, <1>3, <1>4, <1>10 DEF e, o

\* A unit without elements that was encoded is read back.
LEMMA EncodedAloneReads ==
  ASSUME NEW doc, Spoken(doc), doc.trailer # "repeated", NEW d, Single(doc, d),
         EncodeAlone(doc, d).ok, FitsAlone(doc, d.fields), Len(UnitOctets(doc, d)) < SizeT
  PROVE  Reads(doc, UnitOctets(doc, d), d)
<1> DEFINE m == d.fields
           body == d.payload
           o == UnitOctets(doc, d)
           n == HeaderOctets(doc) + Len(body)
<1>1. Declared(doc, m) = Len(body) /\ o \in Seq(Octet) /\ Len(o) = n /\ n < SizeT
  BY EncodesAlone
<1>2. /\ d = [fields |-> m, payload |-> body, elements |-> <<>>]
      /\ m = [k \in Names(doc) |-> m[k]] /\ body \in Seq(Octet)
  BY DEF Single
<1>3. HeaderOctets(doc) \in Nat /\ HeaderOctets(doc) > 0 /\ Len(body) \in Nat
  BY <1>2, LintedShape DEF Spoken
<1>4. n > 0
  <2> DEFINE k == HeaderOctets(doc)
  <2> HIDE DEF k, body
  <2>1. k + Len(body) > 0
    BY <1>3 DEF k
  <2> QED BY <2>1 DEF k, body
<1>5. ASSUME NEW rest \in Seq(Octet)
      PROVE  LET r == DecodeAlone(doc, o \o rest) IN r.ok /\ r.consumed = Len(o) /\ r.value = d
  <2> DEFINE r == DecodeAlone(doc, o \o rest)
  <2> HIDE DEF m, body, n
  <2>1. r = Unit(m, body, <<>>, n)
    BY <1>1, <1>2, AloneReads DEF UnitOctets, m, body, n
  <2> HIDE DEF r
  <2>2. r.ok /\ r.consumed = n /\ r.value = [fields |-> m, payload |-> body, elements |-> <<>>]
    BY <2>1 DEF Unit
  <2> QED BY <1>1, <1>2, <2>2 DEF r
<1> HIDE DEF o, n
<1> QED BY <1>1, <1>4, <1>5 DEF Reads, o

\* A unit with its elements, as encode is given it.
Whole(l, p, d) ==
  IF l[p].trailer # "repeated" THEN Single(l[p], d)
  ELSE /\ d = [fields |-> d.fields, payload |-> <<>>, elements |-> d.elements]
       /\ d.fields = [n \in Names(l[p]) |-> d.fields[n]]
       /\ \A n \in Names(l[p]) : d.fields[n] \in Nat
       /\ \E S : d.elements \in Seq(S)
       /\ \A i \in 1..Len(d.elements) : Single(l[l[p].element], d.elements[i])

\* The values a caller may hand to encode are units.
LEMMA WholeValues ==
  ASSUME NEW l, NEW p, Passed(l, p), NEW d \in Values(l, p)
  PROVE  Whole(l, p, d)
<1> DEFINE doc == l[p]
<1>1. Spoken(doc)
  BY PassedOne
<1>2. CASE doc.trailer # "repeated"
  <2>1. d \in ValuesAlone(doc)
    BY <1>2 DEF Values
  <2>2. Single(doc, d)
    BY <1>1, <2>1, SingleValues DEF Spoken
  <2> QED BY <1>2, <2>2 DEF Whole
<1>3. CASE doc.trailer = "repeated"
  <2> DEFINE edoc == l[doc.element]
             S == ValuesAlone(edoc)
             M == FieldValues(doc)
             E == BoundedSeq(S, MaxElements)
  <2>1. d \in [fields : M, payload : {<<>>}, elements : E]
    BY <1>3 DEF Values
  <2>2. Spoken(edoc)
    BY <1>3, PassedElement, PassedOne
  <2> HIDE DEF M, E, S
  <2>3. d = [fields |-> d.fields, payload |-> <<>>, elements |-> d.elements]
        /\ d.fields \in M /\ d.elements \in E
    BY <2>1
  <2>4. d.fields = [n \in Names(doc) |-> d.fields[n]] /\ \A n \in Names(doc) : d.fields[n] \in Nat
    BY <1>1, <2>3, FieldValuesType DEF M, Spoken
  <2>5. d.elements \in Seq(S)
    BY <2>3, CodecAssumption, BoundedIsSeq DEF E
  <2>6. ASSUME NEW i \in 1..Len(d.elements) PROVE Single(edoc, d.elements[i])
    <3>1. d.elements[i] \in S
      BY <2>5, ElementOfSeq
    <3> QED BY <2>2, <3>1, SingleValues DEF S, Spoken
  <2> QED BY <1>3, <2>3, <2>4, <2>5, <2>6 DEF Whole
<1> QED BY <1>2, <1>3

\* What the elements are encoded to.
LEMMA BodyIs ==
  ASSUME NEW l, NEW p, NEW d, NEW edoc, edoc = l[l[p].element],
         Spoken(edoc), edoc.trailer # "repeated",
         NEW S, d.elements \in Seq(S),
         \A i \in 1..Len(d.elements) : Single(edoc, d.elements[i]) /\ EncodeAlone(edoc, d.elements[i]).ok
  PROVE  /\ AllOctets(edoc, d.elements) \in Seq(Seq(Octet))
         /\ Len(AllOctets(edoc, d.elements)) = Len(d.elements)
         /\ Body(l, p, d) = FlattenSeq(AllOctets(edoc, d.elements))
         /\ Body(l, p, d) \in Seq(Octet)
<1> DEFINE es == d.elements
           n == Len(es)
           enc == EncodedElements(l, p, d)
           a == AllOctets(edoc, es)
<1>1. n \in Nat /\ DOMAIN es = 1..n
  OBVIOUS
<1>2. enc = [i \in 1..n |-> EncodeAlone(edoc, es[i])]
  BY <1>1 DEF EncodedElements
<1> HIDE DEF n
<1>3. \A i \in 1..n : EncodeAlone(edoc, es[i]) = Bytes(UnitOctets(edoc, es[i])) /\ UnitOctets(edoc, es[i]) \in Seq(Octet)
  <2> SUFFICES ASSUME NEW i \in 1..n
               PROVE  EncodeAlone(edoc, es[i]) = Bytes(UnitOctets(edoc, es[i])) /\ UnitOctets(edoc, es[i]) \in Seq(Octet)
    OBVIOUS
  <2> DEFINE e == es[i]
  <2>1. Single(edoc, e) /\ EncodeAlone(edoc, e).ok
    BY DEF n
  <2> HIDE DEF e
  <2> QED BY <2>1, EncodesAlone DEF e
<1>4. a = [i \in 1..n |-> UnitOctets(edoc, es[i])]
  BY DEF AllOctets, n
<1>5. a \in [1..n -> Seq(Octet)]
  BY <1>3, <1>4
<1>6. a \in Seq(Seq(Octet)) /\ Len(a) = n
  <2> HIDE DEF a
  <2> QED BY <1>1, <1>5, FunctionIsSeq
<1>7. [i \in DOMAIN enc |-> enc[i].bytes] = a
  <2>1. \A i \in 1..n : enc[i].bytes = UnitOctets(edoc, es[i])
    <3> SUFFICES ASSUME NEW i \in 1..n PROVE enc[i].bytes = UnitOctets(edoc, es[i])
      OBVIOUS
    <3> DEFINE o == UnitOctets(edoc, es[i])
    <3>1. enc[i] = Bytes(o)
      BY <1>2, <1>3
    <3> HIDE DEF enc, o
    <3>2. enc[i].bytes = o
      BY <3>1 DEF Bytes
    <3> QED BY <3>2 DEF o
  <2>2. DOMAIN enc = 1..n
    BY <1>2
  <2> HIDE DEF enc, a
  <2> QED BY <1>4, <2>1, <2>2
<1>8. Body(l, p, d) = FlattenSeq(a)
  <2>1. Body(l, p, d) = FlattenSeq([i \in DOMAIN enc |-> enc[i].bytes])
    BY DEF Body
  <2> QED BY <1>7, <2>1
<1> HIDE DEF a
<1>9. FlattenSeq(a) \in Seq(Octet)
  BY <1>6, FlattenType
<1> QED BY <1>6, <1>8, <1>9 DEF a, n

\* Encode of a unit with elements.
LEMMA EncodeRepeated ==
  ASSUME NEW l, NEW p, l[p].trailer = "repeated", NEW d
  PROVE  LET es == EncodedElements(l, p, d)
             body == Body(l, p, d)
         IN Encode(l, p, d) =
              IF \E i \in DOMAIN es : ~es[i].ok THEN Failed("element")
              ELSE IF d.fields[l[p].length] \notin {0, Len(body)} THEN Failed("loop length")
              ELSE Bytes(Header(l[p], [d.fields EXCEPT ![l[p].length] = Len(body)]) \o body)
<1> DEFINE doc == l[p]
           body == Body(l, p, d)
           g == [d.fields EXCEPT ![doc.length] = Len(body)]
<1>1. Derived(l, p, d) = [d EXCEPT !.fields = g]
  BY DEF Derived
<1> QED BY <1>1 DEF Encode, Derived

OneRead(doc, m, body, rest) ==
  /\ Header(doc, m) \o body \in Seq(Octet)
  /\ Len(Header(doc, m) \o body) = HeaderOctets(doc) + Len(body)
  /\ HeaderOctets(doc) + Len(body) < SizeT =>
       DecodeAlone(doc, (Header(doc, m) \o body) \o rest) =
         Unit(m, body, <<>>, HeaderOctets(doc) + Len(body))

\* Header and trailer, as the template writes them, are read back.
LEMMA OneReads ==
  ASSUME NEW doc, Spoken(doc), NEW m, m = [n \in Names(doc) |-> m[n]], FitsAlone(doc, m),
         NEW body \in Seq(Octet), Declared(doc, m) = Len(body), NEW rest \in Seq(Octet)
  PROVE  OneRead(doc, m, body, rest)
BY AloneReads DEF OneRead

\* Encode, then decode: every member comes back, with what encode writes as the
\* length of the elements.
LEMMA EncodeThenDecode ==
  ASSUME NEW l, NEW p, Passed(l, p), NEW d, Whole(l, p, d), Encode(l, p, d).ok, Fits(l, p, d),
         Len(Encode(l, p, d).bytes) < SizeT
  PROVE  /\ Encode(l, p, d) = Bytes(Encode(l, p, d).bytes)
         /\ Encode(l, p, d).bytes \in Seq(Octet) /\ Len(Encode(l, p, d).bytes) > 0
         /\ \A rest \in Seq(Octet) :
              LET r == Decode(l, p, Encode(l, p, d).bytes \o rest) IN
              r.ok /\ r.value = Derived(l, p, d) /\ r.consumed = Len(Encode(l, p, d).bytes)
<1> DEFINE doc == l[p]
           e == Encode(l, p, d)
<1>1. Spoken(doc)
  BY PassedOne
<1>2. CASE doc.trailer # "repeated"
  <2>1. e = EncodeAlone(doc, d) /\ Single(doc, d) /\ Derived(l, p, d) = d
    BY <1>2 DEF Encode, Whole, Derived
  <2>2. e.ok /\ FitsAlone(doc, d.fields)
    BY <2>1 DEF Fits
  <2> DEFINE o == UnitOctets(doc, d)
  <2>3. e = Bytes(o)
    BY <1>1, <1>2, <2>1, <2>2, EncodesAlone
  <2>s. Len(o) < SizeT
    <3> HIDE DEF o
    <3>1. e.bytes = o
      BY <2>3 DEF Bytes
    <3> QED BY <3>1
  <2>4. Reads(doc, o, d)
    BY <1>1, <1>2, <2>1, <2>2, <2>s, EncodedAloneReads
  <2>5. \A octets : Decode(l, p, octets) = DecodeAlone(doc, octets)
    BY <1>2 DEF Decode
  <2> HIDE DEF e, o
  <2>6. e.bytes = o
    BY <2>3 DEF Bytes
  <2>7. o \in Seq(Octet) /\ Len(o) > 0
    BY <2>4 DEF Reads
  <2>8. \A rest \in Seq(Octet) : LET r == DecodeAlone(doc, o \o rest) IN
          r.ok /\ r.consumed = Len(o) /\ r.value = d
    BY <2>4 DEF Reads
  <2> QED BY <2>1, <2>3, <2>5, <2>6, <2>7, <2>8 DEF e
<1>3. CASE doc.trailer = "repeated"
  <2> DEFINE edoc == l[doc.element]
             es == d.elements
             enc == EncodedElements(l, p, d)
             body == Body(l, p, d)
             m == [d.fields EXCEPT ![doc.length] = Len(body)]
             o == Header(doc, m) \o body
             n == HeaderOctets(doc) + Len(body)
  <2>1. Spoken(edoc) /\ edoc.trailer # "repeated"
    BY <1>3, PassedElement, PassedOne
  <2>2. /\ d = [fields |-> d.fields, payload |-> <<>>, elements |-> es]
        /\ d.fields = [k \in Names(doc) |-> d.fields[k]]
        /\ \A i \in 1..Len(es) : Single(edoc, es[i])
    BY <1>3 DEF Whole
  <2>3. PICK S : es \in Seq(S)
    BY <1>3 DEF Whole
  <2>4. e = IF \E i \in DOMAIN enc : ~enc[i].ok THEN Failed("element")
            ELSE IF d.fields[doc.length] \notin {0, Len(body)} THEN Failed("loop length")
            ELSE Bytes(o)
    BY <1>3, EncodeRepeated
  <2>5. e = Bytes(o) /\ \A i \in DOMAIN enc : enc[i].ok
    <3>1. ~Failed("element").ok /\ ~Failed("loop length").ok
      BY DEF Failed
    <3>2. e.ok
      OBVIOUS
    <3> HIDE DEF e, enc, body, o
    <3> QED BY <2>4, <3>1, <3>2
  <2>6. \A i \in 1..Len(es) : Single(edoc, es[i]) /\ EncodeAlone(edoc, es[i]).ok
    <3>1. DOMAIN es = 1..Len(es)
      BY <2>3
    <3>2. enc = [i \in 1..Len(es) |-> EncodeAlone(edoc, es[i])]
      BY <3>1 DEF EncodedElements
    <3>3. \A i \in 1..Len(es) : enc[i].ok
      <4>1. DOMAIN enc = 1..Len(es)
        BY <3>2
      <4> HIDE DEF enc
      <4> QED BY <2>5, <4>1
    <3> QED BY <2>2, <3>2, <3>3
  <2>7. /\ AllOctets(edoc, es) \in Seq(Seq(Octet)) /\ Len(AllOctets(edoc, es)) = Len(es)
        /\ body = FlattenSeq(AllOctets(edoc, es)) /\ body \in Seq(Octet)
    BY <2>1, <2>3, <2>6, BodyIs
  <2>8. Derived(l, p, d) = [d EXCEPT !.fields = m]
    BY <1>3 DEF Derived
  <2> HIDE DEF body
  <2>9. doc.length \in Names(doc)
    BY <1>1, <1>3 DEF Spoken
  <2>10. m = [k \in Names(doc) |-> m[k]] /\ m[doc.length] = Len(body)
    BY <2>2, <2>9
  <2>11. Derived(l, p, d) = [fields |-> m, payload |-> <<>>, elements |-> es]
    <3> HIDE DEF m
    <3>1. [d EXCEPT !.fields = m] = [fields |-> m, payload |-> <<>>, elements |-> es]
      BY <2>2
    <3> QED BY <2>8, <3>1
  <2> HIDE DEF m
  <2>12. FitsAlone(doc, m) /\ \A i \in 1..Len(es) : FitsAlone(edoc, es[i].fields)
    <3>1. FitsAlone(doc, Derived(l, p, d).fields)
          /\ \A i \in DOMAIN es : FitsAlone(edoc, es[i].fields)
      BY DEF Fits
    <3>2. Derived(l, p, d).fields = m
      BY <2>11
    <3>3. DOMAIN es = 1..Len(es)
      BY <2>3
    <3> QED BY <3>1, <3>2, <3>3
  <2>13. Declared(doc, m) = Len(body)
    BY <1>3, <2>10 DEF Declared
  <2>14. ASSUME NEW rest \in Seq(Octet)
         PROVE  /\ o \in Seq(Octet) /\ Len(o) = n
                /\ n < SizeT => DecodeAlone(doc, o \o rest) = Unit(m, body, <<>>, n)
    <3>1. OneRead(doc, m, body, rest)
      <4>1. Spoken(doc)
        BY <1>1
      <4>2. m = [k \in Names(doc) |-> m[k]]
        BY <2>10
      <4>3. FitsAlone(doc, m) /\ body \in Seq(Octet)
        BY <2>7, <2>12
      <4> HIDE DEF doc
      <4> QED BY <4>1, <4>2, <4>3, <2>13, OneReads
    <3> QED BY <3>1 DEF OneRead
  <2>15. o \in Seq(Octet) /\ Len(o) = n /\ Len(o) > 0
    <3>1. <<>> \in Seq(Octet)
      BY EmptySeq
    <3>2. o \in Seq(Octet) /\ Len(o) = n
      BY <2>14, <3>1
    <3>3. HeaderOctets(doc) \in Nat /\ HeaderOctets(doc) > 0 /\ Len(body) \in Nat
      BY <1>1, <2>7, LintedShape DEF Spoken
    <3> DEFINE h == HeaderOctets(doc)
    <3> HIDE DEF o, h, body
    <3> QED BY <3>2, <3>3 DEF h
  <2>s. n < SizeT /\ Len(body) < SizeT
    <3> DEFINE h == HeaderOctets(doc)
    <3>1. h \in Nat /\ Len(body) \in Nat
      BY <1>1, <2>7, LintedShape DEF Spoken
    <3> HIDE DEF o, e, h, body
    <3>2. e.bytes = o
      BY <2>5 DEF Bytes
    <3>3. Len(o) < SizeT /\ Len(o) = h + Len(body)
      BY <2>15, <3>2 DEF e, h
    <3>4. SizeT \in Nat
      BY CodecAssumption
    <3> QED BY <3>1, <3>3, <3>4 DEF h
  <2> HIDE DEF o, n
  <2>16. Elements(edoc, body) = [ok |-> TRUE, elements |-> es]
    <3> DEFINE seqs == AllOctets(edoc, es)
    <3>1. seqs \in Seq(Seq(Octet)) /\ Len(es) = Len(seqs)
      BY <2>7
    <3>2. ASSUME NEW i \in 1..Len(seqs) PROVE Reads(edoc, seqs[i], es[i])
      <4> DEFINE x == es[i]
      <4>1. i \in 1..Len(es)
        BY <3>1
      <4>2. Single(edoc, x) /\ EncodeAlone(edoc, x).ok /\ FitsAlone(edoc, x.fields)
        BY <2>6, <2>12, <4>1
      <4>3. seqs[i] = UnitOctets(edoc, x)
        BY <4>1 DEF AllOctets
      <4> HIDE DEF x, seqs
      <4>5. Len(UnitOctets(edoc, x)) < SizeT
        <5>1. body = FlattenSeq(seqs)
          BY <2>7 DEF seqs
        <5>2. Len(seqs[i]) \in Nat /\ Len(body) \in Nat /\ Len(seqs[i]) <= Len(body)
          BY <3>1, <5>1, PieceFits
        <5>3. SizeT \in Nat
          BY CodecAssumption
        <5> QED BY <2>s, <4>3, <5>2, <5>3
      <4>4. Reads(edoc, UnitOctets(edoc, x), x)
        BY <2>1, <4>2, <4>5, EncodedAloneReads
      <4> QED BY <4>3, <4>4 DEF x
    <3>3. body = FlattenSeq(seqs)
      BY <2>7
    <3> HIDE DEF seqs, es
    <3>4. Elements(edoc, FlattenSeq(seqs)) = [ok |-> TRUE, elements |-> es]
      BY <2>3, <3>1, <3>2, ElementsRead
    <3> QED BY <3>3, <3>4
  <2>17. ASSUME NEW rest \in Seq(Octet)
         PROVE  LET r == Decode(l, p, o \o rest) IN
                r.ok /\ r.value = Derived(l, p, d) /\ r.consumed = Len(o)
    <3> DEFINE w == o \o rest
               u == DecodeAlone(doc, w)
    <3>1. u = Unit(m, body, <<>>, n)
      BY <2>14, <2>s
    <3> HIDE DEF w
    <3>2. Decode(l, p, w) =
            IF doc.trailer # "repeated" \/ ~u.ok THEN u
            ELSE IF HeaderOctets(doc) + Declared(doc, u.value.fields) >= SizeT
                 THEN Failed("undefined")
            ELSE IF ~Elements(edoc, u.value.payload).ok THEN Elements(edoc, u.value.payload)
            ELSE Unit(u.value.fields, <<>>, Elements(edoc, u.value.payload).elements, u.consumed)
      BY DEF Decode
    <3> HIDE DEF u
    <3>3. u.ok /\ u.value.fields = m /\ u.value.payload = body /\ u.consumed = n
      BY <3>1 DEF Unit
    <3>g. ~(HeaderOctets(doc) + Declared(doc, u.value.fields) >= SizeT)
      <4>1. HeaderOctets(doc) + Declared(doc, u.value.fields) = n
        BY <2>13, <3>3 DEF n
      <4>2. n \in Nat /\ SizeT \in Nat
        <5>1. n = Len(o) /\ o \in Seq(Octet)
          BY <2>15
        <5> QED BY <5>1, CodecAssumption
      <4> QED BY <2>s, <4>1, <4>2
    <3> HIDE DEF edoc, es
    <3>4. Decode(l, p, w) = Unit(m, <<>>, es, n)
      BY <1>3, <2>16, <3>2, <3>3, <3>g
    <3> DEFINE r == Decode(l, p, w)
    <3> HIDE DEF r
    <3>5. r.ok /\ r.value = [fields |-> m, payload |-> <<>>, elements |-> es] /\ r.consumed = n
      BY <3>4 DEF Unit, r
    <3>6. r.value = Derived(l, p, d) /\ r.consumed = Len(o)
      BY <2>11, <2>15, <3>5 DEF es
    <3> QED BY <3>5, <3>6 DEF r, w
  <2> HIDE DEF e
  <2>18. e.bytes = o
    BY <2>5 DEF Bytes
  <2> QED BY <2>5, <2>15, <2>17, <2>18 DEF e
<1> QED BY <1>2, <1>3

\* Decode of a unit with elements.
LEMMA DecodeRepeated ==
  ASSUME NEW l, NEW p, NEW octets, NEW u, u = DecodeAlone(l[p], octets), u.ok,
         l[p].trailer = "repeated", NEW es, es = Elements(l[l[p].element], u.value.payload),
         ~(HeaderOctets(l[p]) + Declared(l[p], u.value.fields) >= SizeT)
  PROVE  /\ ~es.ok => Decode(l, p, octets) = es
         /\ es.ok => Decode(l, p, octets) = Unit(u.value.fields, <<>>, es.elements, u.consumed)
BY DEF Decode

\* Whatever decode has read, it is in the input.
LEMMA DecodeWithin ==
  ASSUME NEW l, NEW p, Passed(l, p), NEW octets \in Seq(Octet), Decode(l, p, octets).ok
  PROVE  Decode(l, p, octets).consumed \in 0..Len(octets)
<1> DEFINE doc == l[p]
           u == DecodeAlone(doc, octets)
           r == Decode(l, p, octets)
           x == Elements(l[doc.element], u.value.payload)
           head == HeaderOctets(doc)
           len == Declared(doc, Members(doc, octets))
           n == Len(octets)
           over == head + Declared(doc, u.value.fields) >= SizeT
<1>1. r = IF doc.trailer # "repeated" \/ ~u.ok THEN u
          ELSE IF over THEN Failed("undefined")
          ELSE IF ~x.ok THEN x
          ELSE Unit(u.value.fields, <<>>, x.elements, u.consumed)
  BY DEF Decode
<1>2. u.ok /\ r.consumed = u.consumed
  <2> DEFINE m == u.value.fields
             k == u.consumed
             es == x.elements
  <2>1. Unit(m, <<>>, es, k).consumed = k
    <3> HIDE DEF m, k, es
    <3> QED BY DEF Unit
  <2>2. ~Failed("undefined").ok /\ r.ok
    BY DEF Failed
  <2> HIDE DEF u, r, x, over
  <2> QED BY <1>1, <2>1, <2>2
<1>3. ~(n < head) /\ ~(n < (head + len) % SizeT) /\ u.consumed = (head + len) % SizeT
  BY <1>2, DecodeLong
<1>4. head \in Nat /\ n \in Nat
  BY PassedOne, LintedShape DEF Spoken
<1>5. n >= head
  <2> HIDE DEF n, head
  <2> QED BY <1>3, <1>4
<1>6. len \in Nat
  BY <1>5, PassedOne, LengthIsNat
<1> HIDE DEF head, len, n, u, r
<1>7. (head + len) % SizeT \in Nat
  <2>1. head + len \in Nat /\ SizeT \in Nat /\ SizeT > 0
    BY <1>4, <1>6, CodecAssumption
  <2> QED BY <2>1, RemainderIs
<1>8. r.consumed \in 0..n
  BY <1>2, <1>3, <1>4, <1>7
<1> QED BY <1>8 DEF r, n

\* What decode returns, by narrow lengths: an error that is none of those at the
\* end of its loop, or a unit that takes an octet at least and no more than there
\* are.
LEMMA DecodeEnds ==
  ASSUME NEW l, NEW p, Passed(l, p), Narrow(l, p), NEW octets \in Seq(Octet)
  PROVE  \/ \E why \in {"short header", "short trailer", "element"} :
              Decode(l, p, octets) = Failed(why)
         \/ /\ Decode(l, p, octets).ok
            /\ \E m, b, es, n : Decode(l, p, octets) = Unit(m, b, es, n)
            /\ Decode(l, p, octets).consumed \in 1..Len(octets)
<1> DEFINE doc == l[p]
           u == DecodeAlone(doc, octets)
           r == Decode(l, p, octets)
<1>0. Spoken(doc) /\ NarrowAlone(doc)
  BY PassedOne DEF Narrow
<1>1. CASE ~u.ok
  <2>1. r = u
    BY <1>1 DEF Decode
  <2>2. \E why \in {"short header", "short trailer"} : u = Failed(why)
    BY <1>1, DecodeFails
  <2> QED BY <2>1, <2>2
<1>2. CASE u.ok
  <2> DEFINE head == HeaderOctets(doc)
             len == Declared(doc, u.value.fields)
  <2>1. /\ u = Unit(Members(doc, octets), Span(octets, head, len), <<>>, head + len)
        /\ head \in Nat /\ head > 0 /\ len \in Nat /\ head + len <= Len(octets)
        /\ head + len < SizeT
        /\ u.consumed = head + len /\ u.value.payload = Span(octets, head, len)
    BY <1>0, <1>2, DecodeTakes DEF Took
  <2>2. u.consumed \in 1..Len(octets) /\ head + len \in Nat /\ head <= head + len
    <3>1. Len(octets) \in Nat
      OBVIOUS
    <3> HIDE DEF head, len, u
    <3> QED BY <2>1, <3>1
  <2> HIDE DEF head, len
  <2>3. CASE doc.trailer # "repeated"
    <3>1. r = u
      BY <2>3 DEF Decode
    <3> HIDE DEF r, u
    <3>2. \E m, b, es, n : u = Unit(m, b, es, n)
      BY <2>1
    <3> QED BY <1>2, <2>2, <3>1, <3>2 DEF r, u
  <2>4. CASE doc.trailer = "repeated"
    <3> DEFINE edoc == l[doc.element]
               x == Elements(edoc, u.value.payload)
    <3>1. Spoken(edoc) /\ NarrowAlone(edoc)
      BY <2>4, PassedElement, PassedOne DEF Narrow
    <3>2. u.value.payload \in Seq(Octet)
      <4>1. Span(octets, head, len) \in Seq(Octet)
        BY <2>1, <2>2, Part DEF Span
      <4> QED BY <2>1, <4>1
    <3>3. x = Failed("element") \/ x.ok
      BY <3>1, <3>2, ElementsEnd
    <3>4. ~Failed("element").ok
      BY DEF Failed
    <3>5. /\ ~x.ok => r = x
          /\ x.ok => r = Unit(u.value.fields, <<>>, x.elements, u.consumed)
      <4>1. ~(head + len >= SizeT)
        BY <2>1, CodecAssumption
      <4> QED BY <1>2, <2>4, <4>1, DecodeRepeated DEF head, len
    <3> HIDE DEF x, r
    <3>6. CASE x = Failed("element")
      BY <3>4, <3>5, <3>6 DEF r
    <3>7. CASE x.ok
      <4> DEFINE k == u.consumed
                 m == u.value.fields
      <4>1. r = Unit(m, <<>>, x.elements, k)
        BY <3>5, <3>7
      <4> HIDE DEF k, m
      <4>2. r.ok /\ r.consumed = k
        BY <4>1 DEF Unit
      <4>3. \E mm, b, es, n : r = Unit(mm, b, es, n)
        BY <4>1
      <4> QED BY <2>2, <4>2, <4>3 DEF r, k
    <3> QED BY <3>3, <3>6, <3>7
  <2> QED BY <2>3, <2>4
<1> QED BY <1>1, <1>2

\* Decode, then encode: the octets come back.
LEMMA DecodeThenEncode ==
  ASSUME NEW l, NEW p, Passed(l, p), Lossless(l, p), Narrow(l, p), NEW octets \in Seq(Octet),
         Decode(l, p, octets).ok
  PROVE  Encode(l, p, Decode(l, p, octets).value) =
           Bytes(SubSeq(octets, 1, Decode(l, p, octets).consumed))
<1> DEFINE doc == l[p]
           u == DecodeAlone(doc, octets)
           r == Decode(l, p, octets)
           v == r.value
<1>0. Spoken(doc) /\ NarrowAlone(doc) /\ WithinRuntime(doc) /\ LosslessAlone(doc)
  BY PassedOne DEF Lossless, Narrow
<1>1. u.ok
  <2>1. ~u.ok => r = u
    BY DEF Decode
  <2> QED BY <2>1
<1>2. /\ u.value.payload \in Seq(Octet)
      /\ Len(u.value.payload) = Declared(doc, u.value.fields)
      /\ Header(doc, u.value.fields) \o u.value.payload = SubSeq(octets, 1, u.consumed)
  <2> HIDE DEF u
  <2>1. u = DecodeAlone(doc, octets)
    BY DEF u
  <2> QED BY <1>0, <1>1, <2>1, AloneWrites
<1>3. CASE doc.trailer # "repeated"
  <2>1. r = u
    BY <1>3 DEF Decode
  <2>2. Encode(l, p, v) = EncodeAlone(doc, u.value)
    BY <1>3, <2>1 DEF Encode
  <2>3. ~(doc.trailer = "payload" /\ u.value.fields[doc.length] # Len(u.value.payload))
    BY <1>2 DEF Declared
  <2>4. EncodeAlone(doc, u.value) = Bytes(Header(doc, u.value.fields) \o u.value.payload)
    BY <2>3 DEF EncodeAlone
  <2> QED BY <1>2, <2>1, <2>2, <2>4
<1>4. CASE doc.trailer = "repeated"
  <2> DEFINE edoc == l[doc.element]
             o == u.value.payload
             x == Elements(edoc, o)
             es == x.elements
             m == u.value.fields
             k == u.consumed
  <2>1. Spoken(edoc) /\ NarrowAlone(edoc) /\ WithinRuntime(edoc) /\ LosslessAlone(edoc)
        /\ edoc.trailer # "repeated"
    BY <1>4, PassedElement, PassedOne DEF Lossless, Narrow
  <2>2. /\ ~x.ok => r = x
        /\ x.ok => r = Unit(m, <<>>, es, k)
    <3>1. ~(HeaderOctets(doc) + Declared(doc, u.value.fields) >= SizeT)
      <4> DEFINE n == HeaderOctets(doc) + Declared(doc, u.value.fields)
      <4>1. n \in Nat /\ n < SizeT
        <5> DEFINE head == HeaderOctets(doc)
                   len == Declared(doc, u.value.fields)
        <5>1. head \in Nat /\ len \in Nat /\ head + len < SizeT
          BY <1>0, <1>1, DecodeTakes DEF Took
        <5> HIDE DEF head, len
        <5>2. head + len \in Nat /\ head + len < SizeT
          BY <5>1
        <5> QED BY <5>2 DEF head, len
      <4> HIDE DEF n
      <4>2. ~(n >= SizeT)
        BY <4>1, CodecAssumption
      <4> QED BY <4>2 DEF n
    <3> QED BY <1>1, <1>4, <3>1, DecodeRepeated
  <2>3. x.ok
    BY <2>2
  <2>4. o \in Seq(Octet)
    BY <1>2
  <2>5. FlattenSeq(AllOctets(edoc, es)) = o
    <3> HIDE DEF o
    <3> QED BY <2>1, <2>3, <2>4, ElementsWrite
  <2>6. es \in Seq(Found(edoc, o))
    <3>1. ~Failed("element").ok
      BY DEF Failed
    <3> HIDE DEF o
    <3>2. x = Failed("element") \/ x.elements \in Seq(Found(edoc, o))
      BY <2>1, <2>4, ElementsEnd
    <3> QED BY <2>3, <3>1, <3>2
  <2>7. r = Unit(m, <<>>, es, k)
    BY <2>2, <2>3
  <2>h. v = [fields |-> m, payload |-> <<>>, elements |-> es] /\ r.consumed = k
    <3> HIDE DEF r, m, es, k
    <3> QED BY <2>7 DEF Unit
  <2> HIDE DEF r, v
  <2>8. v.fields = m /\ v.elements = es
    <3> HIDE DEF m, es
    <3> QED BY <2>h
  <2> HIDE DEF x, o, m, k, es
  <2>9. \A i \in 1..Len(es) : Single(edoc, es[i]) /\ EncodeAlone(edoc, es[i]).ok
    <3> SUFFICES ASSUME NEW i \in 1..Len(es)
                 PROVE  Single(edoc, es[i]) /\ EncodeAlone(edoc, es[i]).ok
      OBVIOUS
    <3> DEFINE e == es[i]
    <3>1. e \in Found(edoc, o)
      BY <2>6, ElementOfSeq
    <3> HIDE DEF e
    <3>2. /\ e.elements = <<>> /\ e.payload \in Seq(Octet)
          /\ Len(e.payload) = Declared(edoc, e.fields)
          /\ e.fields \in [Names(edoc) -> Nat]
          /\ e = [fields |-> e.fields, payload |-> e.payload, elements |-> <<>>]
      BY <2>1, <2>4, <3>1, FoundIs
    <3>3. edoc.trailer # "payload" => e.payload = <<>>
      <4>1. edoc.trailer # "payload" => Len(e.payload) = 0
        BY <2>1, <3>2 DEF Declared, Spoken
      <4> QED BY <3>2, <4>1, EmptySeq
    <3>4. Single(edoc, e)
      BY <3>2, <3>3 DEF Single
    <3>5. EncodeAlone(edoc, e).ok
      BY <2>1, <3>2, <3>4, EncodesAlone
    <3> QED BY <3>4, <3>5 DEF e
  <2>10. Body(l, p, v) = o
    <3>1. \A i \in 1..Len(v.elements) : Single(edoc, v.elements[i]) /\ EncodeAlone(edoc, v.elements[i]).ok
      BY <2>8, <2>9
    <3>2. v.elements \in Seq(Found(edoc, o))
      BY <2>6, <2>8
    <3>3. Body(l, p, v) = FlattenSeq(AllOctets(edoc, v.elements))
      BY <2>1, <3>1, <3>2, BodyIs
    <3> QED BY <2>5, <2>8, <3>3
  <2> DEFINE enc == EncodedElements(l, p, v)
             body == Body(l, p, v)
  <2>11. \A i \in DOMAIN enc : enc[i].ok
    <3>1. enc = [i \in DOMAIN es |-> EncodeAlone(edoc, es[i])]
      BY <2>8 DEF EncodedElements
    <3>2. DOMAIN es = 1..Len(es)
      BY <2>6
    <3>3. DOMAIN enc = 1..Len(es)
      BY <3>1, <3>2
    <3> QED BY <2>9, <3>1, <3>2, <3>3
  <2>12. m[doc.length] = Len(o)
    BY <1>2, <1>4 DEF Declared, m, o
  <2>13. v.fields[doc.length] = Len(body)
    BY <2>8, <2>10, <2>12
  <2>14. [v.fields EXCEPT ![doc.length] = Len(body)] = m
    <3>1. m \in [Names(doc) -> Nat]
      <4>1. m = Members(doc, octets)
        BY <1>0, <1>1, DecodeTakes DEF Took, m
      <4>2. Len(octets) >= HeaderOctets(doc)
        <5> DEFINE head == HeaderOctets(doc)
                   len == Declared(doc, u.value.fields)
        <5>1. head \in Nat /\ len \in Nat /\ head + len <= Len(octets) /\ Len(octets) \in Nat
          BY <1>0, <1>1, DecodeTakes DEF Took
        <5> HIDE DEF head, len
        <5>2. Len(octets) >= head
          BY <5>1
        <5> QED BY <5>2 DEF head
      <4> QED BY <1>0, <4>1, <4>2, MembersType DEF Spoken
    <3>2. v.fields = m /\ v.fields[doc.length] = Len(body)
      BY <2>8, <2>13
    <3> DEFINE n == Len(body)
               q == doc.length
               A == Names(doc)
    <3>3. m \in [A -> Nat] /\ m[q] = n
      BY <3>1, <3>2
    <3> HIDE DEF n, q, A
    <3>4. [m EXCEPT ![q] = n] = m
      BY <3>3
    <3> QED BY <3>2, <3>4 DEF n, q
  <2>15. Encode(l, p, v) =
           IF \E i \in DOMAIN enc : ~enc[i].ok THEN Failed("element")
           ELSE IF v.fields[doc.length] \notin {0, Len(body)} THEN Failed("loop length")
           ELSE Bytes(Header(doc, [v.fields EXCEPT ![doc.length] = Len(body)]) \o body)
    BY <1>4, EncodeRepeated
  <2>16. Encode(l, p, v) = Bytes(Header(doc, m) \o o)
    <3> HIDE DEF enc
    <3> QED BY <2>10, <2>11, <2>13, <2>14, <2>15
  <2>17. Header(doc, m) \o o = SubSeq(octets, 1, r.consumed)
    BY <1>2, <2>h DEF m, o, k
  <2> QED BY <2>16, <2>17 DEF v, r
<1> QED BY <1>3, <1>4

----------------------------------------------------------------------------
(* Sums of 16-bit words *)

\* The recursion of a sum over n words.
Summing(g, octets, n) ==
  g = [i \in 0..n |-> IF i = 0 THEN 0 ELSE g[i - 1] + Sink!Load16(octets, 2 * i - 1)]

\* The running sums exist.
LEMMA SummingExists ==
  ASSUME NEW octets, NEW n \in Nat
  PROVE  \E g : Summing(g, octets, n)
<1> DEFINE T == {k \in Nat : \E g : Summing(g, octets, k)}
<1>1. 0 \in T
  <2>1. Summing([i \in 0..0 |-> 0], octets, 0)
    BY DEF Summing
  <2> QED BY <2>1
<1>2. ASSUME NEW k \in Nat, k \in T PROVE k + 1 \in T
  <2>1. PICK g : Summing(g, octets, k)
    BY <1>2
  <2> DEFINE h == [i \in 0..(k + 1) |-> IF i = 0 THEN 0
                                        ELSE g[i - 1] + Sink!Load16(octets, 2 * i - 1)]
  <2>2. \A i \in 0..k : h[i] = g[i]
    <3>1. \A i \in 0..k : g[i] = IF i = 0 THEN 0 ELSE g[i - 1] + Sink!Load16(octets, 2 * i - 1)
      BY <2>1 DEF Summing
    <3>2. \A i \in 0..k : i \in 0..(k + 1)
      OBVIOUS
    <3> QED BY <3>1, <3>2
  <2>3. \A i \in 0..(k + 1) : i # 0 => h[i - 1] = g[i - 1]
    <3>1. \A i \in 0..(k + 1) : i # 0 => i - 1 \in 0..k
      OBVIOUS
    <3> HIDE DEF h
    <3> QED BY <2>2, <3>1
  <2>4. h = [i \in 0..(k + 1) |-> IF i = 0 THEN 0
                                  ELSE h[i - 1] + Sink!Load16(octets, 2 * i - 1)]
    BY <2>3
  <2> HIDE DEF h
  <2>5. Summing(h, octets, k + 1)
    BY <2>4 DEF Summing
  <2> QED BY <2>5
<1>3. \A k \in Nat : k \in T
  <2> HIDE DEF T
  <2> QED BY <1>1, <1>2, UpFromZero
<1> QED BY <1>3

\* The sum of n words, and that it is one.
IsSumOf(octets, n, total) ==
  \E g : /\ g[0] = 0 /\ g[n] = total
         /\ \A i \in 1..n : g[i] = g[i - 1] + Sink!Load16(octets, 2 * i - 1)
WordSum(octets, n) == CHOOSE total : IsSumOf(octets, n, total)

\* The running sums add a word each.
LEMMA SummingSteps ==
  ASSUME NEW octets, NEW n \in Nat, NEW g, Summing(g, octets, n)
  PROVE  IsSumOf(octets, n, g[n])
<1>1. \A i \in 0..n : g[i] = IF i = 0 THEN 0 ELSE g[i - 1] + Sink!Load16(octets, 2 * i - 1)
  BY DEF Summing
<1>2. g[0] = 0 /\ \A i \in 1..n : g[i] = g[i - 1] + Sink!Load16(octets, 2 * i - 1)
  BY <1>1
<1> QED BY <1>2 DEF IsSumOf

\* There is one such sum.
LEMMA SumsAlike ==
  ASSUME NEW octets, NEW n \in Nat, NEW x, NEW y, IsSumOf(octets, n, x), IsSumOf(octets, n, y)
  PROVE  x = y
<1>1. PICK g : /\ g[0] = 0 /\ g[n] = x
               /\ \A i \in 1..n : g[i] = g[i - 1] + Sink!Load16(octets, 2 * i - 1)
  BY DEF IsSumOf
<1>2. PICK h : /\ h[0] = 0 /\ h[n] = y
               /\ \A i \in 1..n : h[i] = h[i - 1] + Sink!Load16(octets, 2 * i - 1)
  BY DEF IsSumOf
<1> DEFINE T == {i \in Nat : g[i] = h[i]}
<1>3. 0 \in T
  BY <1>1, <1>2
<1>4. ASSUME NEW i \in 0..(n - 1), i \in T PROVE i + 1 \in T
  <2>1. i + 1 \in 1..n /\ (i + 1) - 1 = i /\ i + 1 \in Nat
    OBVIOUS
  <2>2. g[i] = h[i]
    BY <1>4
  <2>3. g[i + 1] = g[i] + Sink!Load16(octets, 2 * (i + 1) - 1)
    BY <1>1, <2>1
  <2>4. h[i + 1] = h[i] + Sink!Load16(octets, 2 * (i + 1) - 1)
    BY <1>2, <2>1
  <2> QED BY <2>1, <2>2, <2>3, <2>4
<1>5. \A i \in 0..n : i \in T
  <2> HIDE DEF T
  <2> QED BY <1>3, <1>4, UpTo
<1>6. n \in 0..n
  OBVIOUS
<1> QED BY <1>1, <1>2, <1>5, <1>6

\* The sum of the 16-bit words of octets, as a running sum.
LEMMA WordSumIs ==
  ASSUME NEW octets, NEW n \in Nat
  PROVE  IsSumOf(octets, n, WordSum(octets, n))
<1>1. PICK g : Summing(g, octets, n)
  BY SummingExists
<1>2. IsSumOf(octets, n, g[n])
  BY <1>1, SummingSteps
<1> QED BY <1>2 DEF WordSum

\* Any such sum is it.
LEMMA SumIsWordSum ==
  ASSUME NEW octets, NEW n \in Nat, NEW x, IsSumOf(octets, n, x)
  PROVE  x = WordSum(octets, n)
<1>1. IsSumOf(octets, n, WordSum(octets, n))
  BY WordSumIs
<1> DEFINE y == WordSum(octets, n)
<1> HIDE DEF y
<1>2. IsSumOf(octets, n, y)
  BY <1>1 DEF y
<1> QED BY <1>2, SumsAlike DEF y

\* What an octet is.
LEMMA OctetIs == \A x : x \in Octet <=> x \in Nat /\ x < 256
BY DEF Octet

\* Octets in pairs.
Paired(octets, n) == octets \in Seq(Octet) /\ n \in Nat /\ Len(octets) = 2 * n

\* Each pair of octets is a word.
LEMMA WordIs ==
  ASSUME NEW octets, NEW n, Paired(octets, n), NEW i \in 1..n
  PROVE  /\ 2 * i - 1 \in 1..Len(octets) /\ (2 * i - 1) + 1 \in 1..Len(octets)
         /\ Sink!Load16(octets, 2 * i - 1) \in Nat
         /\ Sink!Load16(octets, 2 * i - 1) < 65536
<1>1. 2 * i - 1 \in 1..Len(octets) /\ (2 * i - 1) + 1 \in 1..Len(octets)
  BY DEF Paired
<1> DEFINE a == octets[2 * i - 1]
           b == octets[(2 * i - 1) + 1]
<1>2. a \in Nat /\ a < 256 /\ b \in Nat /\ b < 256
  <2>1. a \in Octet /\ b \in Octet
    BY <1>1 DEF Paired
  <2> HIDE DEF a, b
  <2> QED BY <2>1, OctetIs
<1>3. Sink!Load16(octets, 2 * i - 1) = 256 * a + b
  BY DEF Sink!Load16
<1> HIDE DEF a, b
<1>4. 256 * a + b \in Nat /\ 256 * a + b < 65536
  BY <1>2
<1> QED BY <1>1, <1>3, <1>4

\* A sum of words is a natural.
LEMMA WordSumIsNat ==
  ASSUME NEW octets, NEW n, Paired(octets, n)
  PROVE  WordSum(octets, n) \in Nat
<1>0. n \in Nat
  BY DEF Paired
<1>1. PICK g : /\ g[0] = 0 /\ g[n] = WordSum(octets, n)
               /\ \A i \in 1..n : g[i] = g[i - 1] + Sink!Load16(octets, 2 * i - 1)
  BY <1>0, WordSumIs DEF IsSumOf
<1> DEFINE T == {i \in Nat : g[i] \in Nat}
<1>2. 0 \in T
  BY <1>1
<1>3. ASSUME NEW i \in 0..(n - 1), i \in T PROVE i + 1 \in T
  <2>1. i + 1 \in 1..n /\ (i + 1) - 1 = i /\ i + 1 \in Nat
    BY <1>0
  <2> DEFINE w == Sink!Load16(octets, 2 * (i + 1) - 1)
  <2>2. w \in Nat
    BY <2>1, WordIs
  <2>3. g[i + 1] = g[i] + w /\ g[i] \in Nat
    BY <1>1, <1>3, <2>1
  <2> HIDE DEF w
  <2>4. g[i + 1] \in Nat
    BY <2>2, <2>3
  <2> QED BY <2>1, <2>4
<1>4. \A i \in 0..n : i \in T
  <2> HIDE DEF T
  <2> QED BY <1>0, <1>2, <1>3, UpTo
<1>5. n \in 0..n
  BY <1>0
<1> QED BY <1>1, <1>4, <1>5

\* The words of what is put together are the words of both.
LEMMA WordSumConcat ==
  ASSUME NEW a, NEW n, Paired(a, n), NEW b, NEW m, Paired(b, m)
  PROVE  /\ Paired(a \o b, n + m)
         /\ WordSum(a \o b, n + m) = WordSum(a, n) + WordSum(b, m)
<1> DEFINE c == a \o b
<1>0. n \in Nat /\ m \in Nat /\ n + m \in Nat /\ Len(a) = 2 * n /\ Len(b) = 2 * m
      /\ a \in Seq(Octet) /\ b \in Seq(Octet)
  BY DEF Paired
<1>1. /\ c \in Seq(Octet) /\ Len(c) = Len(a) + Len(b)
      /\ \A i \in 1..Len(a) : c[i] = a[i]
      /\ \A i \in 1..Len(b) : c[Len(a) + i] = b[i]
  <2>1. a \in Seq(Octet) /\ b \in Seq(Octet)
    BY <1>0
  <2> QED BY <2>1, Concat
<1> HIDE DEF c
<1>2. Paired(c, n + m)
  BY <1>0, <1>1 DEF Paired
<1>3. ASSUME NEW i \in 1..n PROVE Sink!Load16(c, 2 * i - 1) = Sink!Load16(a, 2 * i - 1)
  <2> DEFINE k == 2 * i - 1
  <2>1. k \in 1..Len(a) /\ k + 1 \in 1..Len(a)
    BY WordIs
  <2> HIDE DEF k
  <2>2. Sink!Load16(c, k) = Sink!Load16(a, k)
    BY <1>1, <2>1 DEF Sink!Load16
  <2> QED BY <2>2 DEF k
<1>4. ASSUME NEW i \in 1..m PROVE Sink!Load16(c, 2 * (n + i) - 1) = Sink!Load16(b, 2 * i - 1)
  <2> DEFINE k == 2 * i - 1
             x == 2 * (n + i) - 1
  <2>1. k \in 1..Len(b) /\ k + 1 \in 1..Len(b)
    BY WordIs
  <2>2. x = Len(a) + k /\ x + 1 = Len(a) + (k + 1)
    BY <1>0
  <2> HIDE DEF k, x
  <2>3. c[x] = b[k] /\ c[x + 1] = b[k + 1]
    BY <1>1, <2>1, <2>2
  <2>4. Sink!Load16(c, x) = Sink!Load16(b, k)
    BY <2>3 DEF Sink!Load16
  <2> QED BY <2>4 DEF k, x
<1>5. PICK g : /\ g[0] = 0 /\ g[n] = WordSum(a, n)
               /\ \A i \in 1..n : g[i] = g[i - 1] + Sink!Load16(a, 2 * i - 1)
  BY <1>0, WordSumIs DEF IsSumOf
<1>6. PICK h : /\ h[0] = 0 /\ h[m] = WordSum(b, m)
               /\ \A i \in 1..m : h[i] = h[i - 1] + Sink!Load16(b, 2 * i - 1)
  BY <1>0, WordSumIs DEF IsSumOf
<1>7. PICK f : /\ f[0] = 0 /\ f[n + m] = WordSum(c, n + m)
               /\ \A i \in 1..(n + m) : f[i] = f[i - 1] + Sink!Load16(c, 2 * i - 1)
  BY <1>0, WordSumIs DEF IsSumOf
<1> DEFINE T == {i \in Nat : f[i] = g[i]}
           U == {i \in Nat : f[n + i] = WordSum(a, n) + h[i] /\ h[i] \in Nat}
<1>8. \A i \in 0..n : i \in T
  <2>1. 0 \in T
    BY <1>5, <1>7
  <2>2. ASSUME NEW i \in 0..(n - 1), i \in T PROVE i + 1 \in T
    <3> DEFINE j == i + 1
    <3>1. j \in 1..n /\ j - 1 = i /\ j \in 1..(n + m) /\ j \in Nat
      BY <1>0
    <3> HIDE DEF j
    <3>2. f[j] = f[i] + Sink!Load16(c, 2 * j - 1) /\ g[j] = g[i] + Sink!Load16(a, 2 * j - 1)
      BY <1>5, <1>7, <3>1
    <3>3. f[i] = g[i]
      BY <2>2
    <3> QED BY <1>3, <3>1, <3>2, <3>3 DEF j
  <2> HIDE DEF T
  <2> QED BY <1>0, <2>1, <2>2, UpTo
<1>9. f[n] = WordSum(a, n)
  <2>1. n \in 0..n
    BY <1>0
  <2> QED BY <1>5, <1>8, <2>1
<1>10. WordSum(a, n) \in Nat
  BY WordSumIsNat
<1>11. \A i \in 0..m : i \in U
  <2>1. 0 \in U
    <3>1. n + 0 = n
      BY <1>0
    <3> QED BY <1>6, <1>9, <1>10, <3>1
  <2>2. ASSUME NEW i \in 0..(m - 1), i \in U PROVE i + 1 \in U
    <3> DEFINE j == i + 1
               k == n + j
               w == Sink!Load16(b, 2 * j - 1)
               s == WordSum(a, n)
    <3>1. j \in 1..m /\ j - 1 = i /\ k \in 1..(n + m) /\ k - 1 = n + i /\ j \in Nat
      BY <1>0
    <3>2. f[n + i] = s + h[i] /\ h[i] \in Nat
      BY <2>2
    <3>3. w \in Nat
      BY <3>1, WordIs
    <3>4. Sink!Load16(c, 2 * k - 1) = w
      BY <1>4, <3>1
    <3> HIDE DEF j, k, w, s
    <3>5. f[k] = f[n + i] + w
      BY <1>7, <3>1, <3>4
    <3>6. h[j] = h[i] + w
      BY <1>6, <3>1 DEF w
    <3>7. f[k] = s + h[j] /\ h[j] \in Nat
      BY <1>10, <3>2, <3>3, <3>5, <3>6 DEF s
    <3> QED BY <3>1, <3>7 DEF j, k, s
  <2> HIDE DEF U
  <2> QED BY <1>0, <2>1, <2>2, UpTo
<1>12. f[n + m] = WordSum(a, n) + WordSum(b, m)
  <2>1. m \in 0..m
    BY <1>0
  <2> QED BY <1>6, <1>11, <2>1
<1> QED BY <1>2, <1>7, <1>12 DEF c

----------------------------------------------------------------------------
(* Checksums *)

\* A carry added again changes nothing modulo 65535.
LEMMA FoldOnceIs ==
  ASSUME NEW x \in Nat, x < 131072
  PROVE  /\ Sink!FoldOnce(x) \in Nat /\ Sink!FoldOnce(x) <= 65536
         /\ Sink!FoldOnce(x) % 65535 = x % 65535
         /\ Sink!FoldOnce(x) = 0 <=> x = 0
         /\ x < 65536 => Sink!FoldOnce(x) = x
         /\ x = 65536 => Sink!FoldOnce(x) = 1
<1> DEFINE q == x \div 65536
           r == x % 65536
<1>1. q \in Nat /\ q <= 1 /\ r \in Nat /\ r < 65536 /\ x = 65536 * q + r
  OBVIOUS
<1>2. Sink!FoldOnce(x) = r + q
  BY DEF Sink!FoldOnce
<1> HIDE DEF q, r
<1>3. (r + q) % 65535 = x % 65535
  <2>1. q = 0 \/ q = 1
    BY <1>1
  <2>2. CASE q = 0
    BY <1>1, <2>2
  <2>3. CASE q = 1
    <3>1. x = (r + q) + 65535
      BY <1>1, <2>3
    <3>2. r + q \in Nat
      BY <1>1
    <3> DEFINE y == r + q
    <3> HIDE DEF y
    <3>3. y \in Nat /\ x = y + 65535
      BY <3>1, <3>2 DEF y
    <3>4. y % 65535 = x % 65535
      BY <3>3
    <3> QED BY <3>4 DEF y
  <2> QED BY <2>1, <2>2, <2>3
<1>4. r + q \in Nat /\ r + q <= 65536 /\ (r + q = 0 <=> x = 0)
      /\ (x < 65536 => r + q = x) /\ (x = 65536 => r + q = 1)
  BY <1>1
<1> QED BY <1>2, <1>3, <1>4

\* After two folds the sum is a word.
LEMMA FoldIs ==
  ASSUME NEW x \in Nat, x < 131072
  PROVE  /\ Sink!Fold(x) \in Nat /\ Sink!Fold(x) < 65536
         /\ Sink!Fold(x) % 65535 = x % 65535
         /\ Sink!Fold(x) = 0 <=> x = 0
<1> DEFINE y == Sink!FoldOnce(x)
           z == Sink!FoldOnce(y)
<1>1. y \in Nat /\ y <= 65536 /\ y % 65535 = x % 65535 /\ (y = 0 <=> x = 0)
  BY FoldOnceIs
<1> HIDE DEF y
<1>2. y < 131072
  BY <1>1
<1>3. /\ z \in Nat /\ z <= 65536 /\ z % 65535 = y % 65535 /\ (z = 0 <=> y = 0)
      /\ (y < 65536 => z = y) /\ (y = 65536 => z = 1)
  BY <1>1, <1>2, FoldOnceIs
<1> HIDE DEF z
<1>4. z < 65536
  BY <1>1, <1>3
<1>5. Sink!Fold(x) = z
  BY DEF Sink!Fold, z, y
<1> QED BY <1>1, <1>3, <1>4, <1>5

\* The recursion of the checksum, over n words.
Folding(g, octets, n) ==
  g = [i \in 0..n |-> IF i = 0 THEN 0 ELSE Sink!Fold(g[i - 1] + Sink!Load16(octets, 2 * i - 1))]

\* The folded running sums exist.
LEMMA FoldingExists ==
  ASSUME NEW octets, NEW n \in Nat
  PROVE  \E g : Folding(g, octets, n)
<1> DEFINE T == {k \in Nat : \E g : Folding(g, octets, k)}
<1>1. 0 \in T
  <2>1. Folding([i \in 0..0 |-> 0], octets, 0)
    BY DEF Folding
  <2> QED BY <2>1
<1>2. ASSUME NEW k \in Nat, k \in T PROVE k + 1 \in T
  <2>1. PICK g : Folding(g, octets, k)
    BY <1>2
  <2> DEFINE h == [i \in 0..(k + 1) |-> IF i = 0 THEN 0
                     ELSE Sink!Fold(g[i - 1] + Sink!Load16(octets, 2 * i - 1))]
  <2>2. \A i \in 0..k : h[i] = g[i]
    <3>1. \A i \in 0..k : g[i] = IF i = 0 THEN 0
                                 ELSE Sink!Fold(g[i - 1] + Sink!Load16(octets, 2 * i - 1))
      BY <2>1 DEF Folding
    <3>2. \A i \in 0..k : i \in 0..(k + 1)
      OBVIOUS
    <3> QED BY <3>1, <3>2
  <2>3. \A i \in 0..(k + 1) : i # 0 => h[i - 1] = g[i - 1]
    <3>1. \A i \in 0..(k + 1) : i # 0 => i - 1 \in 0..k
      OBVIOUS
    <3> HIDE DEF h
    <3> QED BY <2>2, <3>1
  <2>4. h = [i \in 0..(k + 1) |-> IF i = 0 THEN 0
                     ELSE Sink!Fold(h[i - 1] + Sink!Load16(octets, 2 * i - 1))]
    BY <2>3
  <2> HIDE DEF h
  <2>5. Folding(h, octets, k + 1)
    BY <2>4 DEF Folding
  <2> QED BY <2>5
<1>3. \A k \in Nat : k \in T
  <2> HIDE DEF T
  <2> QED BY <1>1, <1>2, UpFromZero
<1> QED BY <1>3

\* w is the sum of the words of octets, as far as a checksum tells.
FoldedSum(octets, n, w) ==
  /\ w \in Nat /\ w < 65536
  /\ w % 65535 = WordSum(octets, n) % 65535
  /\ w = 0 <=> WordSum(octets, n) = 0

\* They are the running sums, modulo 65535.
LEMMA FoldingSums ==
  ASSUME NEW octets, NEW n, Paired(octets, n), NEW g, Folding(g, octets, n)
  PROVE  FoldedSum(octets, n, g[n])
<1>0. n \in Nat
  BY DEF Paired
<1>1. PICK h : /\ h[0] = 0 /\ h[n] = WordSum(octets, n)
               /\ \A i \in 1..n : h[i] = h[i - 1] + Sink!Load16(octets, 2 * i - 1)
  BY <1>0, WordSumIs DEF IsSumOf
<1>2. \A i \in 0..n : g[i] = IF i = 0 THEN 0
                             ELSE Sink!Fold(g[i - 1] + Sink!Load16(octets, 2 * i - 1))
  BY DEF Folding
<1>3. g[0] = 0 /\ \A i \in 1..n : g[i] = Sink!Fold(g[i - 1] + Sink!Load16(octets, 2 * i - 1))
  BY <1>0, <1>2
<1> DEFINE T == {i \in Nat : /\ g[i] \in Nat /\ g[i] < 65536 /\ h[i] \in Nat
                             /\ g[i] % 65535 = h[i] % 65535
                             /\ g[i] = 0 <=> h[i] = 0}
<1>4. 0 \in T
  BY <1>1, <1>3
<1>5. ASSUME NEW i \in 0..(n - 1), i \in T PROVE i + 1 \in T
  <2> DEFINE j == i + 1
             w == Sink!Load16(octets, 2 * j - 1)
             a == g[i]
             b == h[i]
             x == a + w
             c == Sink!Fold(x)
             d == b + w
  <2>1. j \in 1..n /\ j - 1 = i /\ j \in Nat
    BY <1>0
  <2>2. w \in Nat /\ w < 65536
    BY <2>1, WordIs
  <2>3. a \in Nat /\ a < 65536 /\ b \in Nat /\ a % 65535 = b % 65535 /\ (a = 0 <=> b = 0)
    BY <1>5
  <2>4. g[j] = c /\ h[j] = d
    BY <1>1, <1>3, <2>1
  <2> HIDE DEF a, b, w, j
  <2>5. x \in Nat /\ x < 131072 /\ (x = 0 <=> a = 0 /\ w = 0)
    BY <2>2, <2>3
  <2>6. d \in Nat /\ (d = 0 <=> b = 0 /\ w = 0)
    BY <2>2, <2>3
  <2>7. x % 65535 = d % 65535
    BY <2>2, <2>3
  <2> HIDE DEF x, d
  <2>8. c \in Nat /\ c < 65536 /\ c % 65535 = x % 65535 /\ (c = 0 <=> x = 0)
    BY <2>5, FoldIs
  <2> HIDE DEF c
  <2>9. j \in T
    BY <2>1, <2>3, <2>4, <2>5, <2>6, <2>7, <2>8
  <2> QED BY <2>9 DEF j
<1>6. \A i \in 0..n : i \in T
  <2> HIDE DEF T
  <2> QED BY <1>0, <1>4, <1>5, UpTo
<1>7. n \in T
  <2>1. n \in 0..n
    BY <1>0
  <2> QED BY <1>6, <2>1
<1> QED BY <1>1, <1>7 DEF FoldedSum

\* The checksum is the complement of the sum.
LEMMA OnesComplementIs ==
  ASSUME NEW octets, NEW n, Paired(octets, n)
  PROVE  \E w : FoldedSum(octets, n, w) /\ Sink!OnesComplementSum(octets) = 65535 - w
<1> DEFINE g == CHOOSE g : Folding(g, octets, Len(octets) \div 2)
<1>0. n \in Nat /\ Len(octets) = 2 * n
  BY DEF Paired
<1>1. Len(octets) \div 2 = n /\ Len(octets) % 2 = 0
  <2> DEFINE k == Len(octets)
  <2>1. k = 2 * n
    BY <1>0
  <2> HIDE DEF k
  <2>2. k \div 2 = n /\ k % 2 = 0
    BY <1>0, <2>1
  <2> QED BY <2>2 DEF k
<1>2. Folding(g, octets, n)
  BY <1>0, <1>1, FoldingExists
<1>3. FoldedSum(octets, n, g[n])
  <2> HIDE DEF g
  <2> QED BY <1>2, FoldingSums
<1>4. Sink!OnesComplementSum(octets) = 65535 - g[n]
  <2>1. Sink!OnesComplementSum(octets) = 65535 - (IF Len(octets) % 2 = 0 THEN g[Len(octets) \div 2]
           ELSE Sink!Fold(g[Len(octets) \div 2] + 256 * Sink!Last(octets)))
    BY DEF Sink!OnesComplementSum, Folding
  <2> HIDE DEF g
  <2> QED BY <1>1, <2>1
<1> HIDE DEF g
<1> QED BY <1>3, <1>4

\* The sum with the checksum that was made from the sum without it.
Completes(s, w) == (s + (65535 - w)) % 65535 = 0 /\ (w = 65535 => (s + 65535) % 65535 = 0)

\* Words and their checksum add up to a multiple of 65535.
LEMMA ChecksumCompletes ==
  ASSUME NEW s \in Nat, NEW w \in Nat, w < 65536, w % 65535 = s % 65535
  PROVE  Completes(s, w)
<1> DEFINE a == s \div 65535
           b == w \div 65535
           r == s % 65535
<1>1. a \in Nat /\ b \in Nat /\ r \in Nat /\ s = 65535 * a + r /\ w = 65535 * b + r /\ b <= 1
  OBVIOUS
<1> HIDE DEF a, b, r
<1>2. s + (65535 - w) = 65535 * (a + 1 - b)
  BY <1>1
<1> DEFINE c == a + 1 - b
<1>3. c \in Nat
  BY <1>1
<1> HIDE DEF c
<1>4. (65535 * c) % 65535 = 0
  BY <1>3
<1>5. w = 65535 => (s + 65535) % 65535 = 0
  <2> SUFFICES ASSUME w = 65535 PROVE (s + 65535) % 65535 = 0
    OBVIOUS
  <2>1. s % 65535 = 0
    OBVIOUS
  <2> QED BY <2>1
<1> QED BY <1>2, <1>4, <1>5 DEF c, Completes

----------------------------------------------------------------------------
(* The pieces of a datagram *)

\* Two octets of a word.
LEMMA TwoOctets ==
  ASSUME NEW a \in Octet, NEW b \in Octet
  PROVE  Paired(<<a, b>>, 1) /\ WordSum(<<a, b>>, 1) = 256 * a + b
<1> DEFINE s == <<a, b>>
<1>1. s \in Seq(Octet) /\ Len(s) = 2 /\ s[1] = a /\ s[2] = b
  OBVIOUS
<1> HIDE DEF s
<1>2. Paired(s, 1)
  BY <1>1 DEF Paired
<1>3. PICK g : /\ g[0] = 0 /\ g[1] = WordSum(s, 1)
               /\ \A i \in 1..1 : g[i] = g[i - 1] + Sink!Load16(s, 2 * i - 1)
  BY WordSumIs DEF IsSumOf
<1>4. g[1] = g[0] + Sink!Load16(s, 1)
  <2>1. 1 \in 1..1 /\ 1 - 1 = 0 /\ 2 * 1 - 1 = 1
    OBVIOUS
  <2> QED BY <1>3, <2>1
<1>5. Sink!Load16(s, 1) = 256 * a + b
  BY <1>1 DEF Sink!Load16
<1>6. 256 * a + b \in Nat
  BY OctetIs
<1> QED BY <1>2, <1>3, <1>4, <1>5, <1>6 DEF s

\* A word written is a word read.
LEMMA Be16Is ==
  ASSUME NEW v \in Nat, v < 65536
  PROVE  /\ Paired(Sink!Be16(v), 1) /\ WordSum(Sink!Be16(v), 1) = v
         /\ Sink!Be16(v) \in Seq(Octet) /\ Len(Sink!Be16(v)) = 2
         /\ 256 * Sink!Be16(v)[1] + Sink!Be16(v)[2] = v
<1> DEFINE a == (v \div 256) % 256
           b == v % 256
<1>1. a \in Nat /\ a < 256 /\ b \in Nat /\ b < 256 /\ 256 * a + b = v
  OBVIOUS
<1>2. Sink!Be16(v) = <<a, b>>
  BY DEF Sink!Be16
<1> HIDE DEF a, b
<1>3. a \in Octet /\ b \in Octet
  BY <1>1, OctetIs
<1>4. Paired(<<a, b>>, 1) /\ WordSum(<<a, b>>, 1) = 256 * a + b
  BY <1>3, TwoOctets
<1>5. <<a, b>> \in Seq(Octet) /\ Len(<<a, b>>) = 2 /\ <<a, b>>[1] = a /\ <<a, b>>[2] = b
  BY <1>3
<1> QED BY <1>1, <1>2, <1>4, <1>5

\* The addresses and ports of a flow are octets and words.
LEMMA FlowIs ==
  ASSUME NEW f \in Flows
  PROVE  /\ Paired(f.src, 2) /\ Paired(f.dst, 2) /\ f.ttl \in Octet
         /\ f.srcport \in Nat /\ f.srcport < 65536 /\ f.dstport \in Nat /\ f.dstport < 65536
<1>1. f \in [src : [1..4 -> Octet], dst : [1..4 -> Octet],
             srcport : Word, dstport : Word, ttl : Octet]
  BY LabFileAssumption
<1>2. f.src \in [1..4 -> Octet] /\ f.dst \in [1..4 -> Octet] /\ f.ttl \in Octet
      /\ f.srcport \in Word /\ f.dstport \in Word
  BY <1>1
<1>3. f.src \in Seq(Octet) /\ Len(f.src) = 4 /\ f.dst \in Seq(Octet) /\ Len(f.dst) = 4
  <2> DEFINE x == f.src
             y == f.dst
  <2>1. x \in [1..4 -> Octet] /\ y \in [1..4 -> Octet]
    BY <1>2
  <2> HIDE DEF x, y
  <2>2. x \in Seq(Octet) /\ Len(x) = 4
    BY <2>1, FunctionIsSeq
  <2>3. y \in Seq(Octet) /\ Len(y) = 4
    BY <2>1, FunctionIsSeq
  <2> QED BY <2>2, <2>3 DEF x, y
<1>4. Paired(f.src, 2) /\ Paired(f.dst, 2)
  BY <1>3 DEF Paired
<1> QED BY <1>2, <1>4 DEF Word

\* t stands in s behind its first k octets.
Stands(s, k, t) ==
  /\ s \in Seq(Octet) /\ t \in Seq(Octet) /\ k \in Nat /\ k + Len(t) <= Len(s)
  /\ \A i \in 1..Len(t) : s[k + i] = t[i]

\* More octets behind them change nothing.
LEMMA StandsMore ==
  ASSUME NEW a, NEW k, NEW t, Stands(a, k, t), NEW b \in Seq(Octet)
  PROVE  Stands(a \o b, k, t)
<1> DEFINE c == a \o b
<1>1. a \in Seq(Octet) /\ t \in Seq(Octet) /\ k \in Nat /\ k + Len(t) <= Len(a)
      /\ \A i \in 1..Len(t) : a[k + i] = t[i]
  BY DEF Stands
<1>2. c \in Seq(Octet) /\ Len(c) = Len(a) + Len(b) /\ Len(a) \in Nat /\ Len(b) \in Nat
      /\ \A i \in 1..Len(a) : c[i] = a[i]
  BY <1>1, Concat
<1>3. Len(t) \in Nat
  BY <1>1
<1> HIDE DEF c
<1>4. ASSUME NEW i \in 1..Len(t) PROVE c[k + i] = t[i]
  <2>1. k + i \in 1..Len(a)
    BY <1>1, <1>2, <1>3
  <2> QED BY <1>1, <1>2, <2>1
<1>5. k + Len(t) <= Len(c)
  BY <1>1, <1>2, <1>3
<1>6. Stands(c, k, t)
  BY <1>1, <1>2, <1>4, <1>5 DEF Stands
<1> QED BY <1>6 DEF c

StandsBehind(a, b) == Stands(a \o b, Len(a), b)

\* Octets stand where those in front of them end.
LEMMA StandsLast ==
  ASSUME NEW a \in Seq(Octet), NEW b \in Seq(Octet)
  PROVE  StandsBehind(a, b)
<1> DEFINE c == a \o b
<1>1. c \in Seq(Octet) /\ Len(c) = Len(a) + Len(b) /\ Len(a) \in Nat /\ Len(b) \in Nat
      /\ \A i \in 1..Len(b) : c[Len(a) + i] = b[i]
  BY Concat
<1> HIDE DEF c
<1>2. Stands(c, Len(a), b)
  BY <1>1 DEF Stands
<1> QED BY <1>2 DEF c, StandsBehind

\* A word that stands somewhere is read there.
LEMMA StandsWord ==
  ASSUME NEW s, NEW k, NEW v \in Nat, v < 65536, Stands(s, k, Sink!Be16(v))
  PROVE  Sink!Load16(s, k + 1) = v
<1> DEFINE t == Sink!Be16(v)
<1>1. Len(t) = 2 /\ 256 * t[1] + t[2] = v
  BY Be16Is
<1> HIDE DEF t
<1>2. k \in Nat /\ \A i \in 1..Len(t) : s[k + i] = t[i]
  BY DEF Stands, t
<1>3. s[k + 1] = t[1] /\ s[k + 2] = t[2] /\ (k + 1) + 1 = k + 2
  BY <1>1, <1>2
<1>4. Sink!Load16(s, k + 1) = 256 * s[k + 1] + s[(k + 1) + 1]
  BY DEF Sink!Load16
<1> QED BY <1>1, <1>3, <1>4

\* Two of them in one sequence.
LEMMA PairedConcat ==
  ASSUME NEW a, NEW n, Paired(a, n), NEW b, NEW m, Paired(b, m), NEW k, k = n + m
  PROVE  Paired(a \o b, k) /\ WordSum(a \o b, k) = WordSum(a, n) + WordSum(b, m)
         /\ WordSum(a, n) \in Nat /\ WordSum(b, m) \in Nat
BY WordSumConcat, WordSumIsNat

\* What stands in front of the checksum of the IP header.
IpFront(f, id, total) ==
  <<69, 0>> \o Sink!Be16(total) \o Sink!Be16(id) \o <<64, 0>> \o <<f.ttl, 17>>

\* What both headers begin with, as far as a reader looks.
Begins(s, f, total) ==
  /\ Stands(s, 0, <<69, 0>>)
  /\ Stands(s, 2, Sink!Be16(total))
  /\ Stands(s, 8, <<f.ttl, 17>>)

\* More octets behind a header change nothing of it.
LEMMA BeginsMore ==
  ASSUME NEW a, NEW f, NEW total, Begins(a, f, total), NEW b \in Seq(Octet)
  PROVE  Begins(a \o b, f, total)
BY StandsMore DEF Begins

\* What a reader looks at in a header.
LEMMA BeginsWith ==
  ASSUME NEW s, NEW f, NEW total \in Nat, total < 65536, Begins(s, f, total)
  PROVE  s[1] = 69 /\ Sink!Load16(s, 3) = total /\ s[10] = 17
<1>1. s[1] = 69
  <2> DEFINE t == <<69, 0>>
  <2>1. t[1] = 69 /\ 1 \in 1..Len(t)
    OBVIOUS
  <2>2. Stands(s, 0, t)
    BY DEF Begins
  <2> HIDE DEF t
  <2>3. s[0 + 1] = t[1]
    BY <2>1, <2>2 DEF Stands
  <2> QED BY <2>1, <2>3
<1>2. s[10] = 17
  <2> DEFINE t == <<f.ttl, 17>>
  <2>1. t[2] = 17 /\ 2 \in 1..Len(t)
    OBVIOUS
  <2>2. Stands(s, 8, t)
    BY DEF Begins
  <2> HIDE DEF t
  <2>3. s[8 + 2] = t[2]
    BY <2>1, <2>2 DEF Stands
  <2> QED BY <2>1, <2>3
<1>3. Sink!Load16(s, 3) = total
  <2>1. Sink!Load16(s, 2 + 1) = total
    BY StandsWord DEF Begins
  <2> QED BY <2>1
<1> QED BY <1>1, <1>2, <1>3

\* The IP header before its checksum.
LEMMA IpFrontIs ==
  ASSUME NEW f \in Flows, NEW id \in Nat, id < 65536, NEW total \in Nat, total < 65536
  PROVE  Paired(IpFront(f, id, total), 5) /\ Begins(IpFront(f, id, total), f, total)
<1> DEFINE a == <<69, 0>>
           v == Sink!Be16(total)
           w == Sink!Be16(id)
           x == <<64, 0>>
           t == <<f.ttl, 17>>
           b == a \o v
           c == b \o w
           d == c \o x
           e == d \o t
<1>0. 69 \in Octet /\ 0 \in Octet /\ 64 \in Octet /\ 17 \in Octet /\ f.ttl \in Octet
  BY FlowIs, OctetIs
<1>1. Paired(a, 1) /\ Paired(x, 1) /\ Paired(t, 1)
  BY <1>0, TwoOctets
<1>2. Paired(v, 1) /\ Paired(w, 1)
  BY Be16Is
<1> HIDE DEF a, v, w, x, t
<1>3. Paired(b, 2)
  BY <1>1, <1>2, PairedConcat
<1>4. a \in Seq(Octet) /\ v \in Seq(Octet) /\ w \in Seq(Octet) /\ x \in Seq(Octet)
      /\ t \in Seq(Octet) /\ Len(a) = 2
  BY <1>1, <1>2 DEF Paired
<1>5. Stands(a, 0, a)
  BY <1>4 DEF Stands
<1>6. Stands(b, 0, a) /\ Stands(b, Len(a), v)
  <2>1. Stands(b, 0, a)
    BY <1>4, <1>5, StandsMore
  <2>2. Stands(b, Len(a), v)
    <3>1. StandsBehind(a, v)
      BY <1>4, StandsLast
    <3> QED BY <3>1 DEF StandsBehind
  <2> QED BY <2>1, <2>2
<1> HIDE DEF b
<1>7. Paired(c, 3)
  BY <1>2, <1>3, PairedConcat
<1>8. Stands(c, 0, a) /\ Stands(c, Len(a), v)
  BY <1>4, <1>6, StandsMore
<1> HIDE DEF c
<1>9. Paired(d, 4)
  BY <1>1, <1>7, PairedConcat
<1>10. Stands(d, 0, a) /\ Stands(d, Len(a), v)
  BY <1>4, <1>8, StandsMore
<1> HIDE DEF d
<1>11. Paired(e, 5)
  BY <1>1, <1>9, PairedConcat
<1>12. Len(d) = 8 /\ d \in Seq(Octet)
  BY <1>9 DEF Paired
<1>13. Stands(e, 0, a) /\ Stands(e, Len(a), v) /\ Stands(e, Len(d), t)
  <2>1. Stands(e, 0, a) /\ Stands(e, Len(a), v)
    BY <1>4, <1>10, StandsMore
  <2>2. Stands(e, Len(d), t)
    <3>1. StandsBehind(d, t)
      BY <1>4, <1>12, StandsLast
    <3> QED BY <3>1 DEF StandsBehind
  <2> QED BY <2>1, <2>2
<1>14. Stands(e, 0, a) /\ Stands(e, 2, v) /\ Stands(e, 8, t)
  BY <1>4, <1>12, <1>13
<1>15. e = IpFront(f, id, total)
  BY DEF IpFront, a, b, c, d, e, t, v, w, x
<1> HIDE DEF e
<1>16. Begins(e, f, total)
  BY <1>14 DEF Begins, a, v, t
<1> QED BY <1>11, <1>15, <1>16

\* The words of the IP header, and what they add up to with a checksum.
LEMMA IpHeaderIs ==
  ASSUME NEW f \in Flows, NEW id \in Nat, id < 65536, NEW total \in Nat, total < 65536,
         NEW c \in Nat, c < 65536
  PROVE  /\ Paired(Sink!IpHeader(f, id, total, c), 10)
         /\ WordSum(Sink!IpHeader(f, id, total, c), 10) =
              WordSum(IpFront(f, id, total), 5) + c + WordSum(f.src, 2) + WordSum(f.dst, 2)
         /\ Begins(Sink!IpHeader(f, id, total, c), f, total)
<1> DEFINE x == IpFront(f, id, total)
           w == Sink!Be16(c)
           src == f.src
           dst == f.dst
           y == x \o w
           z == y \o src
           h == z \o dst
<1>1. Paired(x, 5) /\ Begins(x, f, total)
  BY IpFrontIs
<1>2. Paired(w, 1) /\ WordSum(w, 1) = c
  BY Be16Is
<1>3. Paired(src, 2) /\ Paired(dst, 2)
  BY FlowIs
<1>4. h = Sink!IpHeader(f, id, total, c)
  BY DEF Sink!IpHeader, IpFront
<1> HIDE DEF x, w, src, dst
<1>5. w \in Seq(Octet) /\ src \in Seq(Octet) /\ dst \in Seq(Octet)
  BY <1>2, <1>3 DEF Paired
<1>6. Paired(y, 6) /\ WordSum(y, 6) = WordSum(x, 5) + c /\ WordSum(x, 5) \in Nat
  BY <1>1, <1>2, PairedConcat
<1>7. Begins(y, f, total)
  BY <1>1, <1>5, BeginsMore
<1> HIDE DEF y
<1>8. Paired(z, 8) /\ WordSum(z, 8) = WordSum(y, 6) + WordSum(src, 2) /\ WordSum(src, 2) \in Nat
  BY <1>3, <1>6, PairedConcat
<1>9. Begins(z, f, total)
  BY <1>5, <1>7, BeginsMore
<1> HIDE DEF z
<1>10. Paired(h, 10) /\ WordSum(h, 10) = WordSum(z, 8) + WordSum(dst, 2) /\ WordSum(dst, 2) \in Nat
  BY <1>3, <1>8, PairedConcat
<1>11. Begins(h, f, total)
  BY <1>5, <1>9, BeginsMore
<1> HIDE DEF h
<1>12. WordSum(h, 10) = WordSum(x, 5) + c + WordSum(src, 2) + WordSum(dst, 2)
  BY <1>6, <1>8, <1>10
<1> QED BY <1>4, <1>10, <1>11, <1>12 DEF x, src, dst

----------------------------------------------------------------------------
(* Octets that are not in pairs *)

Evened(s, n) == Paired(Sink!Padded(s), n)

\* A zero is put behind an odd number of octets.
LEMMA PaddedIs ==
  ASSUME NEW s \in Seq(Octet)
  PROVE  \E n : Evened(s, n)
<1> DEFINE k == Len(s)
<1>1. k \in Nat
  OBVIOUS
<1>2. CASE k % 2 = 0
  <2>1. Sink!Padded(s) = s
    BY <1>2 DEF Sink!Padded
  <2>2. k \div 2 \in Nat /\ k = 2 * (k \div 2)
    BY <1>1, <1>2
  <2>3. Paired(s, k \div 2)
    BY <2>2 DEF Paired
  <2> QED BY <2>1, <2>3 DEF Evened
<1>3. CASE k % 2 # 0
  <2> DEFINE t == Append(s, 0)
  <2>1. Sink!Padded(s) = t
    BY <1>3 DEF Sink!Padded
  <2>2. t \in Seq(Octet) /\ Len(t) = k + 1
    BY OctetIs
  <2> HIDE DEF t, k
  <2>3. (k + 1) \div 2 \in Nat /\ k + 1 = 2 * ((k + 1) \div 2)
    BY <1>1, <1>3
  <2>4. Paired(t, (k + 1) \div 2)
    BY <2>2, <2>3 DEF Paired
  <2> QED BY <2>1, <2>4 DEF Evened
<1> QED BY <1>2, <1>3

\* What follows octets in pairs is padded as it is alone.
PaddedLast(a, b) == Sink!Padded(a \o b) = a \o Sink!Padded(b)

\* Padding what is put behind octets that are in pairs.
LEMMA PaddedBehind ==
  ASSUME NEW a, NEW n, Paired(a, n), NEW b \in Seq(Octet)
  PROVE  PaddedLast(a, b)
<1> DEFINE c == a \o b
           k == Len(b)
<1>1. a \in Seq(Octet) /\ n \in Nat /\ Len(a) = 2 * n
  BY DEF Paired
<1>2. c \in Seq(Octet) /\ Len(c) = 2 * n + k /\ k \in Nat
  BY <1>1, Concat
<1>3. (2 * n + k) % 2 = k % 2
  <2> HIDE DEF k
  <2> QED BY <1>1, <1>2
<1>4. CASE k % 2 = 0
  <2>1. Sink!Padded(b) = b
    BY <1>4 DEF Sink!Padded
  <2> HIDE DEF c
  <2>2. Sink!Padded(c) = c
    BY <1>2, <1>3, <1>4 DEF Sink!Padded
  <2> QED BY <2>1, <2>2 DEF PaddedLast, c
<1>5. CASE k % 2 # 0
  <2>1. Sink!Padded(b) = Append(b, 0)
    BY <1>5 DEF Sink!Padded
  <2>2. Sink!Padded(c) = Append(c, 0)
    <3> HIDE DEF c
    <3> QED BY <1>2, <1>3, <1>5 DEF Sink!Padded
  <2> DEFINE z == <<0>>
  <2>3. Append(b, 0) = b \o z /\ Append(c, 0) = c \o z /\ z \in Seq(Octet)
    <3>1. 0 \in Octet
      BY OctetIs
    <3> HIDE DEF c
    <3> QED BY <1>2, <3>1
  <2> HIDE DEF z
  <2>4. Grouped(a, b, z)
    BY <1>1, <2>3, GroupAgain
  <2>5. c \o z = a \o (b \o z)
    BY <2>4 DEF Grouped
  <2> QED BY <2>1, <2>2, <2>3, <2>5 DEF PaddedLast
<1> QED BY <1>4, <1>5

\* What a receiver adds up.
LEMMA AddsUpIs ==
  ASSUME NEW s \in Seq(Octet), NEW n, Evened(s, n)
  PROVE  Sink!AddsUp(s) <=> WordSum(Sink!Padded(s), n) % 65535 = 0
<1> DEFINE e == Sink!Padded(s)
           half == Len(e) \div 2
           g == CHOOSE h : Summing(h, e, half)
<1>0. n \in Nat /\ Len(e) = 2 * n
  BY DEF Paired, Evened
<1>1. Len(e) \div 2 = n
  <2> DEFINE k == Len(e)
  <2>1. k = 2 * n
    BY <1>0
  <2> HIDE DEF k
  <2>2. k \div 2 = n
    BY <1>0, <2>1
  <2> QED BY <2>2 DEF k
<1>2. Sink!AddsUp(s) <=> (g[Len(e) \div 2] % 65535 = 0)
  BY DEF Sink!AddsUp, Sink!Padded, Summing
<1> HIDE DEF e
<1>3. Summing(g, e, n)
  <2>1. half \in Nat
    BY <1>0, <1>1
  <2> HIDE DEF half, g
  <2>2. \E h : Summing(h, e, half)
    BY <2>1, SummingExists
  <2>3. Summing(g, e, half)
    BY <2>2 DEF g
  <2> QED BY <1>1, <2>3 DEF half
<1> HIDE DEF g
<1>4. IsSumOf(e, n, g[n])
  BY <1>0, <1>3, SummingSteps
<1>5. g[n] = WordSum(e, n)
  BY <1>0, <1>4, SumIsWordSum
<1> QED BY <1>1, <1>2, <1>5 DEF e

\* It accepts what adds up.
LEMMA AddsUpIf ==
  ASSUME NEW s \in Seq(Octet), NEW n, Evened(s, n), WordSum(Sink!Padded(s), n) % 65535 = 0
  PROVE  Sink!AddsUp(s)
BY AddsUpIs

----------------------------------------------------------------------------
(* The headers *)

\* A checksum and what it makes of the words it stands among.
Right(c, s) == c \in Nat /\ c < 65536 /\ (s + c) % 65535 = 0

IpMade(f, total, h) ==
  Paired(h, 10) /\ WordSum(h, 10) % 65535 = 0 /\ Begins(h, f, total)

\* The IP header adds up.
LEMMA IpChecksumIs ==
  ASSUME NEW f \in Flows, NEW id \in Nat, id < 65536, NEW total \in Nat, total < 65536,
         NEW c, c = Sink!OnesComplementSum(Sink!IpHeader(f, id, total, 0))
  PROVE  IpMade(f, total, Sink!IpHeader(f, id, total, c))
<1> DEFINE h0 == Sink!IpHeader(f, id, total, 0)
           x == WordSum(IpFront(f, id, total), 5)
           y == WordSum(f.src, 2)
           z == WordSum(f.dst, 2)
           s == WordSum(h0, 10)
<1>1. Paired(h0, 10) /\ s = x + 0 + y + z
  BY IpHeaderIs
<1>2. x \in Nat /\ y \in Nat /\ z \in Nat
  BY IpFrontIs, FlowIs, WordSumIsNat
<1> HIDE DEF x, y, z
<1>3. s \in Nat /\ s = x + y + z
  BY <1>1, <1>2
<1>4. PICK w : FoldedSum(h0, 10, w) /\ Sink!OnesComplementSum(h0) = 65535 - w
  BY <1>1, OnesComplementIs
<1>5. c = 65535 - w /\ w \in Nat /\ w < 65536 /\ w % 65535 = s % 65535
  BY <1>4 DEF FoldedSum
<1> HIDE DEF s
<1>6. (s + (65535 - w)) % 65535 = 0
  <2>1. Completes(s, w)
    BY <1>3, <1>5, ChecksumCompletes
  <2> QED BY <2>1 DEF Completes
<1>7. c \in Nat /\ c < 65536
  BY <1>5
<1> DEFINE h == Sink!IpHeader(f, id, total, c)
<1>8. Paired(h, 10) /\ WordSum(h, 10) = x + c + y + z /\ Begins(h, f, total)
  BY <1>7, IpHeaderIs DEF x, y, z
<1> HIDE DEF h
<1>9. WordSum(h, 10) = s + (65535 - w)
  <2> DEFINE k == WordSum(h, 10)
  <2>1. k = x + c + y + z
    BY <1>8
  <2> HIDE DEF k
  <2>2. k = s + (65535 - w)
    BY <1>2, <1>3, <1>5, <1>7, <2>1
  <2> QED BY <2>2 DEF k
<1>10. WordSum(h, 10) % 65535 = 0
  BY <1>6, <1>9
<1> QED BY <1>8, <1>10 DEF IpMade, h

\* What stands in front of the checksum of the UDP header.
UdpFront(f, len) == Sink!Be16(f.srcport) \o Sink!Be16(f.dstport) \o Sink!Be16(len)

UdpMade(f, len, c) ==
  LET h == Sink!UdpHeader(f, len, c) IN
  /\ Paired(h, 4) /\ WordSum(h, 4) = WordSum(UdpFront(f, len), 3) + c
  /\ WordSum(UdpFront(f, len), 3) \in Nat
  /\ Stands(h, 4, Sink!Be16(len)) /\ Stands(h, 6, Sink!Be16(c))

\* The UDP header, and where its checksum is.
LEMMA UdpHeaderIs ==
  ASSUME NEW f \in Flows, NEW len \in Nat, len < 65536, NEW c \in Nat, c < 65536
  PROVE  UdpMade(f, len, c)
<1> DEFINE v == Sink!Be16(f.srcport)
           w == Sink!Be16(f.dstport)
           x == Sink!Be16(len)
           y == Sink!Be16(c)
           a == v \o w
           b == a \o x
           h == b \o y
<1>1. Paired(v, 1) /\ Paired(w, 1)
  BY FlowIs, Be16Is
<1>2. Paired(x, 1) /\ Paired(y, 1) /\ WordSum(y, 1) = c
  BY Be16Is
<1>3. h = Sink!UdpHeader(f, len, c) /\ b = UdpFront(f, len)
  BY DEF Sink!UdpHeader, UdpFront
<1> HIDE DEF v, w, x, y
<1>4. x \in Seq(Octet) /\ y \in Seq(Octet)
  BY <1>2 DEF Paired
<1>5. Paired(a, 2)
  BY <1>1, PairedConcat
<1> HIDE DEF a
<1>6. a \in Seq(Octet) /\ Len(a) = 4
  BY <1>5 DEF Paired
<1>7. Paired(b, 3)
  BY <1>2, <1>5, PairedConcat
<1>8. Stands(b, 4, x)
  <2>1. StandsBehind(a, x)
    BY <1>4, <1>6, StandsLast
  <2> QED BY <1>6, <2>1 DEF StandsBehind
<1> HIDE DEF b
<1>9. b \in Seq(Octet) /\ Len(b) = 6
  BY <1>7 DEF Paired
<1>10. Paired(h, 4) /\ WordSum(h, 4) = WordSum(b, 3) + c /\ WordSum(b, 3) \in Nat
  BY <1>2, <1>7, PairedConcat
<1>11. Stands(h, 6, y)
  <2>1. StandsBehind(b, y)
    BY <1>4, <1>9, StandsLast
  <2> QED BY <1>9, <2>1 DEF StandsBehind
<1>12. Stands(h, 4, x)
  BY <1>4, <1>8, StandsMore
<1> HIDE DEF h
<1> QED BY <1>3, <1>10, <1>11, <1>12 DEF UdpMade, x, y

\* The pseudo header is in pairs.
LEMMA PseudoIs ==
  ASSUME NEW f \in Flows, NEW len \in Nat, len < 65536
  PROVE  Paired(Sink!Pseudo(f, len), 6)
<1> DEFINE src == f.src
           dst == f.dst
           x == <<0, 17>>
           y == Sink!Be16(len)
           a == src \o dst
           b == a \o x
           c == b \o y
<1>1. Paired(src, 2) /\ Paired(dst, 2)
  BY FlowIs
<1>2. Paired(x, 1)
  BY TwoOctets, OctetIs
<1>3. Paired(y, 1)
  BY Be16Is
<1>4. c = Sink!Pseudo(f, len)
  BY DEF Sink!Pseudo
<1> HIDE DEF src, dst, x, y
<1>5. Paired(a, 4)
  BY <1>1, PairedConcat
<1> HIDE DEF a
<1>6. Paired(b, 5)
  BY <1>2, <1>5, PairedConcat
<1> HIDE DEF b
<1>7. Paired(c, 6)
  BY <1>3, <1>6, PairedConcat
<1> QED BY <1>4, <1>7

\* All that the UDP checksum is computed over.
Covered(f, payload, c) ==
  Sink!Pseudo(f, 8 + Len(payload)) \o Sink!UdpHeader(f, 8 + Len(payload), c)
  \o Sink!Padded(payload)

CoveredBy(f, payload, n, s) ==
  \A c \in Nat : c < 65536 =>
    /\ Paired(Covered(f, payload, c), 10 + n)
    /\ WordSum(Covered(f, payload, c), 10 + n) = s + c

\* What the UDP checksum covers, as one sum.
LEMMA CoveredSum ==
  ASSUME NEW f \in Flows, NEW payload \in Seq(Octet), Len(payload) <= 65000,
         NEW n, Evened(payload, n)
  PROVE  \E s \in Nat : CoveredBy(f, payload, n, s)
<1> DEFINE len == 8 + Len(payload)
           p == Sink!Pseudo(f, len)
           t == Sink!Padded(payload)
           x == WordSum(p, 6)
           y == WordSum(UdpFront(f, len), 3)
           z == WordSum(t, n)
<1>1. len \in Nat /\ len < 65536
  OBVIOUS
<1>2. Paired(t, n) /\ n \in Nat
  BY DEF Evened, Paired
<1> HIDE DEF len
<1>3. Paired(p, 6)
  BY <1>1, PseudoIs
<1>4. y \in Nat
  <2>1. UdpMade(f, len, 0)
    BY <1>1, UdpHeaderIs
  <2> QED BY <2>1 DEF UdpMade
<1>5. x \in Nat /\ z \in Nat
  <2> HIDE DEF p, t
  <2> QED BY <1>2, <1>3, WordSumIsNat
<1> HIDE DEF p, t, x, y, z
<1>6. ASSUME NEW c \in Nat, c < 65536
      PROVE  Paired(Covered(f, payload, c), 10 + n) /\ WordSum(Covered(f, payload, c), 10 + n) = x + y + z + c
  <2> DEFINE h == Sink!UdpHeader(f, len, c)
             a == p \o h
             b == a \o t
  <2>1. Paired(h, 4) /\ WordSum(h, 4) = y + c
    <3>1. UdpMade(f, len, c)
      BY <1>1, <1>6, UdpHeaderIs
    <3> QED BY <3>1 DEF UdpMade, y
  <2>2. b = Covered(f, payload, c)
    BY DEF Covered, len, p, t
  <2> HIDE DEF h
  <2>3. Paired(a, 10) /\ WordSum(a, 10) = x + (y + c)
    BY <1>3, <2>1, PairedConcat DEF x
  <2> HIDE DEF a
  <2>4. Paired(b, 10 + n) /\ WordSum(b, 10 + n) = WordSum(a, 10) + z
    BY <1>2, <2>3, PairedConcat DEF z
  <2> HIDE DEF b
  <2>5. WordSum(b, 10 + n) = x + y + z + c
    BY <1>4, <1>5, <1>6, <2>3, <2>4
  <2> QED BY <2>2, <2>4, <2>5
<1>7. x + y + z \in Nat
  BY <1>4, <1>5
<1> DEFINE s == x + y + z
<1>8. CoveredBy(f, payload, n, s)
  <2> HIDE DEF s
  <2> SUFFICES ASSUME NEW c \in Nat, c < 65536
               PROVE  Paired(Covered(f, payload, c), 10 + n) /\ WordSum(Covered(f, payload, c), 10 + n) = s + c
    BY DEF CoveredBy
  <2> QED BY <1>6 DEF s
<1> HIDE DEF s
<1>9. s \in Nat
  BY <1>7 DEF s
<1> QED BY <1>8, <1>9

\* The UDP checksum makes it add up.
LEMMA UdpChecksumIs ==
  ASSUME NEW f \in Flows, NEW payload \in Seq(Octet), Len(payload) <= 65000,
         NEW n, Evened(payload, n), NEW c, c = Sink!UdpChecksum(f, payload)
  PROVE  /\ c \in Nat /\ c < 65536 /\ c # 0
         /\ Paired(Covered(f, payload, c), 10 + n)
         /\ WordSum(Covered(f, payload, c), 10 + n) % 65535 = 0
<1>1. PICK s \in Nat : CoveredBy(f, payload, n, s)
  BY CoveredSum
<1> DEFINE z == Covered(f, payload, 0)
<1>2. Paired(z, 10 + n) /\ WordSum(z, 10 + n) = s
  BY <1>1 DEF CoveredBy
<1>3. c = IF Sink!OnesComplementSum(z) = 0 THEN 65535 ELSE Sink!OnesComplementSum(z)
  BY DEF Sink!UdpChecksum, Covered
<1> HIDE DEF z
<1>4. PICK w : FoldedSum(z, 10 + n, w) /\ Sink!OnesComplementSum(z) = 65535 - w
  BY <1>2, OnesComplementIs
<1>5. w \in Nat /\ w < 65536 /\ w % 65535 = s % 65535
  BY <1>2, <1>4 DEF FoldedSum
<1>6. (s + (65535 - w)) % 65535 = 0 /\ (w = 65535 => (s + 65535) % 65535 = 0)
  <2>1. Completes(s, w)
    BY <1>5, ChecksumCompletes
  <2> QED BY <2>1 DEF Completes
<1>7. c = IF w = 65535 THEN 65535 ELSE 65535 - w
  BY <1>3, <1>4, <1>5
<1>8. c \in Nat /\ c < 65536 /\ c # 0 /\ (s + c) % 65535 = 0
  <2>1. CASE w = 65535
    BY <1>6, <1>7, <2>1
  <2>2. CASE w # 65535
    BY <1>5, <1>6, <1>7, <2>2
  <2> QED BY <2>1, <2>2
<1>9. Paired(Covered(f, payload, c), 10 + n) /\ WordSum(Covered(f, payload, c), 10 + n) = s + c
  BY <1>1, <1>8 DEF CoveredBy
<1> QED BY <1>8, <1>9

----------------------------------------------------------------------------
(* The datagram *)

\* A datagram around a payload, as far as a reader of the file looks.
Carries(u, payload) ==
  /\ u \in Seq(Octet) /\ Len(u) = 28 + Len(payload) /\ Len(u) < 65536
  /\ u[1] = 69 /\ u[10] = 17
  /\ Sink!Load16(u, 3) = Len(u) /\ Sink!Load16(u, 25) = 8 + Len(payload)
  /\ SubSeq(u, 29, Len(u)) = payload

\* A datagram as a receiver wants it.
Verified(f, u) ==
  /\ Sink!AddsUp(SubSeq(u, 1, 20))
  /\ Sink!AddsUp(Sink!Pseudo(f, Len(u) - 20) \o SubSeq(u, 21, Len(u)))
  /\ Sink!Load16(u, 27) # 0

\* Within the limit, a frame is put into a datagram that a receiver accepts.
LEMMA EncapsulateIs ==
  ASSUME NEW f \in Flows, NEW id \in Nat, id < 65536, NEW payload \in Seq(Octet),
         Len(payload) <= Limit
  PROVE  /\ Carries(Sink!Encapsulate(f, id, payload), payload)
         /\ Verified(f, Sink!Encapsulate(f, id, payload))
<1> DEFINE k == Len(payload)
           len == 8 + k
           total == 28 + k
           ic == Sink!OnesComplementSum(Sink!IpHeader(f, id, total, 0))
           uc == Sink!UdpChecksum(f, payload)
           ip == Sink!IpHeader(f, id, total, ic)
           udp == Sink!UdpHeader(f, len, uc)
           a == ip \o udp
           u == a \o payload
<1>1. k \in Nat /\ k <= 65000
  BY LabFileAssumption
<1>2. Sink!TotalLength(payload) = total
  <2>1. Sink!TotalLength(payload) = (20 + 8) + k
    BY DEF Sink!TotalLength
  <2> HIDE DEF k
  <2> QED BY <1>1, <2>1
<1>3. Sink!Encapsulate(f, id, payload) = u
  <2>1. ~ (Len(payload) > Limit)
    BY <1>1, LabFileAssumption
  <2> QED BY <1>2, <2>1 DEF Sink!Encapsulate
<1>4. total \in Nat /\ total < 65536 /\ len \in Nat /\ len < 65536
  BY <1>1
<1> HIDE DEF total
<1>5. /\ Paired(ip, 10) /\ WordSum(ip, 10) % 65535 = 0 /\ Begins(ip, f, total)
  <2>1. IpMade(f, total, ip)
    <3>1. ic = Sink!OnesComplementSum(Sink!IpHeader(f, id, total, 0))
      OBVIOUS
    <3> HIDE DEF ic
    <3> QED BY <1>4, <3>1, IpChecksumIs
  <2> QED BY <2>1 DEF IpMade
<1>6. PICK n : Evened(payload, n)
  BY PaddedIs
<1>7. uc \in Nat /\ uc < 65536 /\ uc # 0
  BY <1>1, <1>6, UdpChecksumIs
<1>8. Paired(Covered(f, payload, uc), 10 + n) /\ WordSum(Covered(f, payload, uc), 10 + n) % 65535 = 0
  BY <1>1, <1>6, UdpChecksumIs
<1> HIDE DEF uc, ic, ip
<1>9. Paired(udp, 4) /\ Stands(udp, 4, Sink!Be16(len)) /\ Stands(udp, 6, Sink!Be16(uc))
  <2>1. UdpMade(f, len, uc)
    BY <1>4, <1>7, UdpHeaderIs
  <2> QED BY <2>1 DEF UdpMade
<1> HIDE DEF len, udp
<1>10. ip \in Seq(Octet) /\ udp \in Seq(Octet)
  BY <1>5, <1>9 DEF Paired
<1>L. Len(ip) = 20 /\ Len(udp) = 8
  BY <1>5, <1>9 DEF Paired
<1>A. a \in Seq(Octet) /\ Len(a) = Len(ip) + Len(udp)
  BY <1>10, Concat
<1>11. a \in Seq(Octet)
  BY <1>A
<1>12. Begins(a, f, total)
  BY <1>5, <1>10, BeginsMore
<1> HIDE DEF a
<1>K. Len(a) = 28
  BY <1>A, <1>L
<1>13. u \in Seq(Octet) /\ Len(u) = total
  <2>1. u \in Seq(Octet) /\ Len(u) = Len(a) + k
    BY <1>11, Concat
  <2> QED BY <1>K, <2>1 DEF total
<1>14. Begins(u, f, total)
  BY <1>12, BeginsMore
<1>15. SubSeq(u, 29, Len(u)) = payload
  <2>1. SubSeq(u, Len(a) + 1, Len(u)) = payload
    BY <1>11, FirstPart
  <2> QED BY <1>K, <2>1
<1>16. u = ip \o (udp \o payload)
  <2>1. Grouped(ip, udp, payload)
    BY <1>10, GroupAgain
  <2> QED BY <2>1 DEF Grouped, a
<1> DEFINE rest == udp \o payload
<1>17. rest \in Seq(Octet)
  BY <1>10, Concat
<1> HIDE DEF u
<1>18. SubSeq(u, 1, 20) = ip /\ SubSeq(u, 21, Len(u)) = rest
  <2> HIDE DEF rest
  <2>1. u = ip \o rest
    BY <1>16 DEF rest
  <2>2. SubSeq(ip \o rest, 1, Len(ip)) = ip /\ SubSeq(ip \o rest, Len(ip) + 1, Len(ip \o rest)) = rest
    BY <1>10, <1>17, FirstPart
  <2>3. SubSeq(u, 1, Len(ip)) = ip /\ SubSeq(u, Len(ip) + 1, Len(u)) = rest
    BY <2>1, <2>2
  <2> QED BY <1>L, <2>3
<1>19. Sink!Load16(u, 25) = len /\ Sink!Load16(u, 27) = uc
  <2>1. Sink!Load16(udp, 4 + 1) = len /\ Sink!Load16(udp, 6 + 1) = uc
    <3>1. Sink!Load16(udp, 4 + 1) = len
      BY <1>4, <1>9, StandsWord
    <3>2. Sink!Load16(udp, 6 + 1) = uc
      BY <1>7, <1>9, StandsWord
    <3> QED BY <3>1, <3>2
  <2>2. \A i \in 1..Len(rest) : u[20 + i] = rest[i]
    <3> HIDE DEF rest
    <3>1. u = ip \o rest
      BY <1>16 DEF rest
    <3>2. \A i \in 1..Len(rest) : (ip \o rest)[Len(ip) + i] = rest[i]
      BY <1>10, <1>17, Concat
    <3>3. \A i \in 1..Len(rest) : u[Len(ip) + i] = rest[i]
      BY <3>1, <3>2
    <3> QED BY <1>L, <3>3
  <2>3. Len(rest) = 8 + k /\ \A i \in 1..8 : rest[i] = udp[i]
    <3>1. Len(rest) = Len(udp) + k /\ \A i \in 1..Len(udp) : rest[i] = udp[i]
      BY <1>10, Concat
    <3> QED BY <1>L, <3>1
  <2> HIDE DEF rest, k
  <2>4. u[25] = udp[5] /\ u[26] = udp[6] /\ u[27] = udp[7] /\ u[28] = udp[8]
    <3>1. \A i \in 1..8 : i \in 1..Len(rest)
      BY <1>1, <2>3
    <3>2. ASSUME NEW i \in 1..8 PROVE u[20 + i] = udp[i]
      <4>1. u[20 + i] = rest[i]
        BY <2>2, <3>1
      <4>2. rest[i] = udp[i]
        BY <2>3
      <4> QED BY <4>1, <4>2
    <3> QED BY <3>2
  <2>5. Sink!Load16(u, 25) = Sink!Load16(udp, 5) /\ Sink!Load16(u, 27) = Sink!Load16(udp, 7)
    BY <2>4 DEF Sink!Load16
  <2> QED BY <2>1, <2>5
<1>20. Carries(u, payload)
  <2>1. u[1] = 69 /\ Sink!Load16(u, 3) = total /\ u[10] = 17
    BY <1>4, <1>14, BeginsWith
  <2>2. total = 28 + Len(payload) /\ len = 8 + Len(payload)
    BY DEF total, len
  <2> QED BY <1>4, <1>13, <1>15, <1>19, <2>1, <2>2 DEF Carries
<1>21. Sink!AddsUp(SubSeq(u, 1, 20))
  <2>1. Sink!Padded(ip) = ip
    BY <1>L DEF Sink!Padded
  <2>2. Evened(ip, 10) /\ WordSum(Sink!Padded(ip), 10) % 65535 = 0
    BY <1>5, <2>1 DEF Evened
  <2>3. Sink!AddsUp(ip)
    BY <1>10, <2>2, AddsUpIf
  <2> DEFINE part == SubSeq(u, 1, 20)
  <2>4. part = ip
    BY <1>18
  <2> HIDE DEF part
  <2>5. Sink!AddsUp(part)
    BY <2>3, <2>4
  <2> QED BY <2>5 DEF part
<1>22. Sink!AddsUp(Sink!Pseudo(f, Len(u) - 20) \o SubSeq(u, 21, Len(u)))
  <2> DEFINE p == Sink!Pseudo(f, len)
             h == p \o udp
             s == h \o payload
  <2>1. Len(u) - 20 = len
    BY <1>1, <1>13 DEF total, len
  <2>2. Paired(p, 6)
    BY <1>4, PseudoIs
  <2>3. Covered(f, payload, uc) = h \o Sink!Padded(payload)
    BY DEF Covered, len, udp
  <2> HIDE DEF p
  <2>4. Paired(h, 10)
    BY <1>9, <2>2, PairedConcat
  <2>5. Grouped(p, udp, payload)
    BY <1>10, <2>2, GroupAgain DEF Paired
  <2>6. p \o rest = s
    BY <2>5 DEF Grouped
  <2> HIDE DEF h
  <2>7. PaddedLast(h, payload)
    BY <2>4, PaddedBehind
  <2>8. Sink!Padded(s) = Covered(f, payload, uc)
    BY <2>3, <2>7 DEF PaddedLast
  <2>9. s \in Seq(Octet)
    BY <2>4, Concat DEF Paired
  <2> HIDE DEF s, rest
  <2>10. Evened(s, 10 + n) /\ WordSum(Sink!Padded(s), 10 + n) % 65535 = 0
    BY <1>8, <2>8 DEF Evened
  <2>11. Sink!AddsUp(s)
    BY <2>9, <2>10, AddsUpIf
  <2> DEFINE part == SubSeq(u, 21, Len(u))
             q == Sink!Pseudo(f, Len(u) - 20)
             all == q \o part
  <2>12. part = rest
    BY <1>18
  <2>13. q = p
    BY <2>1 DEF p
  <2> HIDE DEF part, q
  <2>14. all = s
    BY <2>6, <2>12, <2>13
  <2> HIDE DEF all
  <2>15. Sink!AddsUp(all)
    BY <2>11, <2>14
  <2> QED BY <2>15 DEF all, part, q
<1>23. Verified(f, u)
  BY <1>7, <1>19, <1>21, <1>22 DEF Verified
<1> QED BY <1>3, <1>20, <1>23

\* An empty result is a refusal.
LEMMA RefusedOrCarried ==
  ASSUME NEW f \in Flows, NEW id \in Nat, id < 65536, NEW payload \in Seq(Octet),
         NEW u, u = Sink!Encapsulate(f, id, payload)
  PROVE  u = <<>> \/ (Carries(u, payload) /\ Verified(f, u))
<1>1. CASE Len(payload) > Limit
  <2> DEFINE big == Len(payload) > Limit
  <2>1. big
    BY <1>1
  <2> HIDE DEF big
  <2>2. Sink!Encapsulate(f, id, payload) = <<>>
    BY <2>1 DEF Sink!Encapsulate, big
  <2>3. u = <<>>
    BY <2>2
  <2> QED BY <2>3
<1>2. CASE ~ (Len(payload) > Limit)
  <2>1. Len(payload) <= Limit
    BY <1>2, LabFileAssumption
  <2> QED BY <2>1, EncapsulateIs
<1> QED BY <1>1, <1>2

----------------------------------------------------------------------------
(* Datagrams behind one another, and the file cut anywhere *)

\* Datagrams and the payloads they carry.
Carrying(us, ps) ==
  /\ us \in Seq(Seq(Octet)) /\ ps \in Seq(Seq(Octet)) /\ Len(us) = Len(ps)
  /\ \A i \in 1..Len(us) : Carries(us[i], ps[i])

\* The first k of them, and the next.
Stacked(h, us, k) ==
  LET all == FlattenSeq(us) IN
  /\ h[k - 1] \in Seq(Octet) /\ h[k] \in Seq(Octet)
  /\ Len(h[k]) = Len(h[k - 1]) + Len(us[k]) /\ Len(us[k]) >= 28
  /\ Len(h[k]) <= Len(all)
  /\ \A j \in 1..Len(us[k]) : all[Len(h[k - 1]) + j] = us[k][j]

\* A datagram among others, and where it stands.
LEMMA StackedIs ==
  ASSUME NEW us, NEW ps, Carrying(us, ps), NEW h, Piles(h, us), NEW k \in 1..Len(us)
  PROVE  Stacked(h, us, k)
<1> DEFINE all == FlattenSeq(us)
           a == h[k - 1]
           b == us[k]
           c == h[k]
<1>0. us \in Seq(Seq(Octet)) /\ Len(us) \in Nat
  BY DEF Carrying
<1>1. b \in Seq(Octet) /\ Len(b) >= 28
  <2>1. Carries(us[k], ps[k])
    BY DEF Carrying
  <2> DEFINE p == ps[k]
  <2>2. p \in Seq(Octet)
    BY ElementOfSeq DEF Carrying
  <2> HIDE DEF b, p
  <2>3. b \in Seq(Octet) /\ Len(b) = 28 + Len(p) /\ Len(p) \in Nat
    BY <2>1, <2>2 DEF Carries, b, p
  <2> QED BY <2>3
<1>2. \A i \in 0..Len(us) : h[i] \in Seq(Octet)
  BY <1>0, FlattenIs
<1>3. k \in 0..Len(us) /\ k - 1 \in 0..Len(us)
  BY <1>0
<1>4. a \in Seq(Octet) /\ c \in Seq(Octet)
  BY <1>2, <1>3
<1>5. c = a \o b
  BY DEF Piles
<1>6. PICK r \in Seq(Octet) : all = c \o r
  <2>1. k \in 0..Len(us)
    BY <1>3
  <2>2. \E r \in Seq(Octet) : FlattenSeq(us) = h[k] \o r
    BY <1>0, <2>1, PileRest
  <2> QED BY <2>2
<1> HIDE DEF all, a, b, c
<1>7. /\ Len(c) = Len(a) + Len(b) /\ Len(a) \in Nat /\ Len(b) \in Nat
      /\ \A j \in 1..Len(b) : c[Len(a) + j] = b[j]
  BY <1>1, <1>4, <1>5, Concat
<1>8. Len(all) = Len(c) + Len(r) /\ Len(r) \in Nat /\ \A j \in 1..Len(c) : all[j] = c[j]
  BY <1>4, <1>6, Concat
<1>9. \A j \in 1..Len(b) : all[Len(a) + j] = b[j]
  <2> SUFFICES ASSUME NEW j \in 1..Len(b) PROVE all[Len(a) + j] = b[j]
    OBVIOUS
  <2>1. Len(a) + j \in 1..Len(c)
    BY <1>7
  <2> QED BY <1>7, <1>8, <2>1
<1>10. Len(c) <= Len(all)
  BY <1>7, <1>8
<1> QED BY <1>1, <1>4, <1>7, <1>9, <1>10 DEF Stacked, all, a, b, c

\* Each takes 28 octets at least.
LEMMA StackRoom ==
  ASSUME NEW us, NEW ps, Carrying(us, ps), NEW h, Piles(h, us), NEW k \in 0..Len(us)
  PROVE  /\ h[k] \in Seq(Octet) /\ Len(h[k]) \in Nat /\ 28 * k <= Len(h[k])
         /\ Len(h[k]) <= Len(FlattenSeq(us))
         /\ k = Len(us) => Len(h[k]) = Len(FlattenSeq(us))
         /\ k < Len(us) => Len(h[k]) + 28 <= Len(FlattenSeq(us))
<1> DEFINE n == Len(us)
           all == FlattenSeq(us)
           T == {i \in Nat : Len(h[i]) \in Nat /\ 28 * i <= Len(h[i])}
<1>0. us \in Seq(Seq(Octet)) /\ n \in Nat
  BY DEF Carrying
<1>1. all = h[n] /\ \A i \in 0..n : h[i] \in Seq(Octet)
  BY <1>0, FlattenIs
<1>2. 0 \in T
  <2>1. h[0] = <<>>
    BY DEF Piles
  <2>2. Len(h[0]) = 0
    BY <2>1
  <2> QED BY <2>2
<1>3. ASSUME NEW i \in 0..(n - 1), i \in T PROVE i + 1 \in T
  <2> DEFINE j == i + 1
             x == Len(h[i])
             y == Len(h[j])
             z == Len(us[j])
  <2>1. j \in 1..n /\ j - 1 = i /\ j \in Nat
    BY <1>0
  <2>2. Stacked(h, us, j)
    BY <2>1, StackedIs
  <2>3. y = x + z /\ z >= 28 /\ us[j] \in Seq(Octet)
    <3>1. us[j] \in Seq(Octet)
      BY <1>0, <2>1, ElementOfSeq
    <3>2. h[j - 1] = h[i]
      BY <2>1
    <3> HIDE DEF j
    <3> QED BY <2>2, <3>1, <3>2 DEF Stacked
  <2>4. z \in Nat
    BY <2>3
  <2>5. x \in Nat /\ 28 * i <= x
    BY <1>3
  <2>6. y \in Nat /\ 28 * j <= y
    <3> HIDE DEF x, y, z
    <3> QED BY <2>3, <2>4, <2>5
  <2> HIDE DEF j
  <2> QED BY <2>1, <2>6 DEF j
<1>4. \A i \in 0..n : i \in T
  <2> HIDE DEF T
  <2> QED BY <1>0, <1>2, <1>3, UpTo
<1>5. h[k] \in Seq(Octet) /\ Len(h[k]) \in Nat /\ 28 * k <= Len(h[k])
  BY <1>1, <1>4
<1>6. CASE k = n
  <2>1. Len(h[k]) = Len(all)
    BY <1>1, <1>6
  <2> HIDE DEF n, all
  <2> QED BY <1>0, <1>5, <1>6, <2>1 DEF n, all
<1>7. CASE k # n
  <2> DEFINE j == k + 1
             x == Len(h[k])
             y == Len(h[j])
             z == Len(us[j])
  <2>1. j \in 1..n /\ j - 1 = k
    BY <1>0, <1>7
  <2>2. Stacked(h, us, j)
    BY <2>1, StackedIs
  <2>3. y = x + z /\ z >= 28 /\ y <= Len(all)
    <3>1. h[j - 1] = h[k]
      BY <2>1
    <3> HIDE DEF j
    <3> QED BY <2>2, <3>1 DEF Stacked
  <2>4. z \in Nat /\ Len(all) \in Nat
    <3>1. us[j] \in Seq(Octet) /\ all \in Seq(Octet)
      BY <1>0, <2>1, ElementOfSeq, FlattenType
    <3> QED BY <3>1
  <2>5. x \in Nat
    BY <1>5
  <2> DEFINE w == Len(all)
  <2> HIDE DEF x, y, z, w
  <2>6. x + 28 <= w /\ x <= w
    BY <2>3, <2>4, <2>5 DEF w
  <2> QED BY <1>5, <1>7, <2>6 DEF x, w
<1> QED BY <1>6, <1>7

\* The recursion of the reader.
Splitting(g, data, n) ==
  g = [i \in 0..n |-> IF i = 0 THEN [at |-> 0, pkts |-> <<>>, ok |-> TRUE]
                      ELSE Sink!SplitTurn(data, g[i - 1])]

\* The states of the loop of split_ipv4_chain exist.
LEMMA SplittingExists ==
  ASSUME NEW data, NEW n \in Nat
  PROVE  \E g : Splitting(g, data, n)
<1> DEFINE start == [at |-> 0, pkts |-> <<>>, ok |-> TRUE]
           T == {k \in Nat : \E g : Splitting(g, data, k)}
<1>1. 0 \in T
  <2>1. Splitting([i \in 0..0 |-> start], data, 0)
    BY DEF Splitting
  <2> QED BY <2>1
<1>2. ASSUME NEW k \in Nat, k \in T PROVE k + 1 \in T
  <2>1. PICK g : Splitting(g, data, k)
    BY <1>2
  <2> DEFINE h == [i \in 0..(k + 1) |-> IF i = 0 THEN start ELSE Sink!SplitTurn(data, g[i - 1])]
  <2>2. \A i \in 0..k : h[i] = g[i]
    <3>1. \A i \in 0..k : g[i] = IF i = 0 THEN start ELSE Sink!SplitTurn(data, g[i - 1])
      BY <2>1 DEF Splitting
    <3>2. \A i \in 0..k : i \in 0..(k + 1)
      OBVIOUS
    <3> HIDE DEF start
    <3> QED BY <3>1, <3>2
  <2>3. \A i \in 0..(k + 1) : i # 0 => h[i - 1] = g[i - 1]
    <3>1. \A i \in 0..(k + 1) : i # 0 => i - 1 \in 0..k
      OBVIOUS
    <3> HIDE DEF h
    <3> QED BY <2>2, <3>1
  <2>4. h = [i \in 0..(k + 1) |-> IF i = 0 THEN start ELSE Sink!SplitTurn(data, h[i - 1])]
    <3> HIDE DEF start
    <3> QED BY <2>3
  <2> HIDE DEF h
  <2>5. Splitting(h, data, k + 1)
    BY <2>4 DEF Splitting
  <2> QED BY <2>5
<1>3. \A k \in Nat : k \in T
  <2> HIDE DEF T
  <2> QED BY <1>1, <1>2, UpFromZero
<1> QED BY <1>3

ReaderAt(at, pkts) == [at |-> at, pkts |-> pkts, ok |-> TRUE]

Moves(s, x, y, c) == [s EXCEPT !.at = x, !.pkts = y] = [at |-> x, pkts |-> y, ok |-> c]

\* From one datagram to the next.
LEMMA ReaderMoves ==
  ASSUME NEW a, NEW b, NEW c, NEW x, NEW y, NEW s, s = [at |-> a, pkts |-> b, ok |-> c]
  PROVE  Moves(s, x, y, c)
<1> DEFINE t == [s EXCEPT !.at = x]
<1>1. t = [at |-> x, pkts |-> b, ok |-> c]
  OBVIOUS
<1> HIDE DEF t
<1>2. [t EXCEPT !.pkts = y] = [at |-> x, pkts |-> y, ok |-> c]
  BY <1>1
<1> QED BY <1>2 DEF t, Moves

\* One turn, where a whole datagram begins.
LEMMA TurnReads ==
  ASSUME NEW data, NEW at, NEW pkts, NEW total, total = Sink!Load16(data, at + 3),
         ~ (at + 20 > Len(data)), data[at + 1] = 69, total >= 28, total \in Nat
  PROVE  Sink!SplitTurn(data, ReaderAt(at, pkts)) =
           IF at + total > Len(data) THEN [ReaderAt(at, pkts) EXCEPT !.ok = FALSE]
           ELSE ReaderAt(at + total, Append(pkts, SubSeq(data, at + 1, at + total)))
<1> DEFINE s == ReaderAt(at, pkts)
           x == at + total
           y == Append(pkts, SubSeq(data, at + 1, at + total))
<1>1. s.at = at /\ s.pkts = pkts /\ s.ok = TRUE
  BY DEF ReaderAt
<1>2. 4 * (data[at + 1] % 16) = 20 /\ data[at + 1] \div 16 = 4
  <2> DEFINE b == data[at + 1]
  <2>1. b = 69
    OBVIOUS
  <2> HIDE DEF b
  <2>2. 4 * (b % 16) = 20 /\ b \div 16 = 4
    BY <2>1
  <2> QED BY <2>2 DEF b
<1>3. Sink!SplitTurn(data, s) =
        IF s.at + 20 > Len(data) \/ ~s.ok THEN s
        ELSE IF data[s.at + 1] \div 16 # 4 \/ 4 * (data[s.at + 1] % 16) < 20
                \/ Sink!Load16(data, s.at + 3) < 4 * (data[s.at + 1] % 16)
                \/ s.at + Sink!Load16(data, s.at + 3) > Len(data)
        THEN [s EXCEPT !.ok = FALSE]
        ELSE [s EXCEPT !.at = @ + Sink!Load16(data, s.at + 3),
                       !.pkts = Append(@, SubSeq(data, s.at + 1, s.at + Sink!Load16(data, s.at + 3)))]
  BY DEF Sink!SplitTurn
<1> DEFINE t == [s EXCEPT !.at = @ + total, !.pkts = Append(@, SubSeq(data, at + 1, at + total))]
<1> HIDE DEF s
<1>4. Sink!SplitTurn(data, s) = IF at + total > Len(data) THEN [s EXCEPT !.ok = FALSE] ELSE t
  <2>1. ~ (at + 20 > Len(data)) /\ ~ (data[at + 1] \div 16 # 4) /\ ~ (4 * (data[at + 1] % 16) < 20)
        /\ ~ (total < 4 * (data[at + 1] % 16))
    BY <1>2
  <2> QED BY <1>1, <1>3, <2>1
<1>5. t = ReaderAt(x, y)
  <2>1. t = [s EXCEPT !.at = x, !.pkts = y]
    BY <1>1
  <2>2. s = ReaderAt(at, pkts)
    BY DEF s
  <2> HIDE DEF x, y, t
  <2> DEFINE c == TRUE
  <2>3. s = [at |-> at, pkts |-> pkts, ok |-> c]
    BY <2>2 DEF ReaderAt
  <2> HIDE DEF c
  <2>4. [s EXCEPT !.at = x, !.pkts = y] = [at |-> x, pkts |-> y, ok |-> c]
    <3>1. Moves(s, x, y, c)
      BY <2>3, ReaderMoves
    <3> QED BY <3>1 DEF Moves
  <2>5. ReaderAt(x, y) = [at |-> x, pkts |-> y, ok |-> c]
    BY DEF ReaderAt, c
  <2> QED BY <2>1, <2>4, <2>5
<1> QED BY <1>4, <1>5 DEF s, x, y

\* One turn, where there is nothing left, or after an error.
LEMMA TurnStays ==
  ASSUME NEW data, NEW s, s.at + 20 > Len(data) \/ ~s.ok
  PROVE  Sink!SplitTurn(data, s) = s
BY DEF Sink!SplitTurn

----------------------------------------------------------------------------
(* Datagrams taken apart *)

\* What a crash, or the orderly end, leaves of them.
CutOf(data, all) ==
  data \in Seq(Octet) /\ Len(data) <= Len(all) /\ \A j \in 1..Len(data) : data[j] = all[j]

\* What begins a file is a cut of it.
LEMMA CutIs ==
  ASSUME NEW all \in Seq(Octet), NEW n \in 0..Len(all), NEW data, data = SubSeq(all, 1, n)
  PROVE  CutOf(data, all) /\ Len(data) = n
<1>1. n \in Nat /\ n <= Len(all) /\ 0 <= n /\ n - 0 = n /\ 0 + 1 = 1
  OBVIOUS
<1>2. /\ SubSeq(all, 0 + 1, n) \in Seq(Octet) /\ Len(SubSeq(all, 0 + 1, n)) = n - 0
      /\ \A k \in 1..(n - 0) : SubSeq(all, 0 + 1, n)[k] = all[0 + k]
  BY <1>1, Part
<1>3. data \in Seq(Octet) /\ Len(data) = n /\ \A k \in 1..n : data[k] = all[0 + k]
  BY <1>1, <1>2
<1>4. \A k \in 1..n : 0 + k = k
  OBVIOUS
<1> QED BY <1>1, <1>3, <1>4 DEF CutOf

\* A word read in a cut is the word of the whole.
LEMMA LoadOfPart ==
  ASSUME NEW s, NEW t, NEW x, NEW i, s[x] = t[i], s[x + 1] = t[i + 1]
  PROVE  Sink!Load16(s, x) = Sink!Load16(t, i)
BY DEF Sink!Load16

\* The reader has the first k datagrams after k turns, or nothing is left to read,
\* or a datagram is cut.
ReadTo(us, h, data, i, k, s) ==
  /\ s = ReaderAt(Len(h[k]), SubSeq(us, 1, k))
  /\ Len(h[k]) <= Len(data)
  /\ k >= i \/ Len(h[k]) + 20 > Len(data)
Cut(us, data, s) == s.ok = FALSE /\ Len(data) < Len(FlattenSeq(us))
Along(us, h, data, i, s) ==
  (\E k \in 0..Len(us) : ReadTo(us, h, data, i, k, s)) \/ Cut(us, data, s)

\* One turn keeps along.
LEMMA AlongTurn ==
  ASSUME NEW us, NEW ps, Carrying(us, ps), NEW h, Piles(h, us),
         NEW data, CutOf(data, FlattenSeq(us)), NEW i \in Nat, NEW s, Along(us, h, data, i, s)
  PROVE  Along(us, h, data, i + 1, Sink!SplitTurn(data, s))
<1> DEFINE all == FlattenSeq(us)
           n == Len(us)
           d == Len(data)
           after == Sink!SplitTurn(data, s)
<1>0. us \in Seq(Seq(Octet)) /\ n \in Nat
  BY DEF Carrying
<1>1. all \in Seq(Octet) /\ data \in Seq(Octet) /\ d <= Len(all)
      /\ \A j \in 1..d : data[j] = all[j]
  BY <1>0, FlattenType DEF CutOf
<1>2. d \in Nat /\ Len(all) \in Nat
  BY <1>1
<1>3. CASE Cut(us, data, s)
  <2>1. s.ok = FALSE
    BY <1>3 DEF Cut
  <2>2. after = s
    BY <2>1, TurnStays
  <2> QED BY <1>3, <2>2 DEF Along
<1>4. ASSUME NEW k \in 0..n, ReadTo(us, h, data, i, k, s)
      PROVE  Along(us, h, data, i + 1, after)
  <2> DEFINE at == Len(h[k])
             pk == SubSeq(us, 1, k)
  <2>1. /\ at \in Nat /\ at <= Len(all) /\ (k = n => at = Len(all))
        /\ (k < n => at + 28 <= Len(all))
    BY StackRoom
  <2>2. s = ReaderAt(at, pk) /\ at <= d /\ (k >= i \/ at + 20 > d)
    BY <1>4 DEF ReadTo
  <2>3. s.at = at /\ s.ok = TRUE
    BY <2>2 DEF ReaderAt
  <2>4. CASE at + 20 > d
    <3>1. s.at + 20 > Len(data)
      BY <2>3, <2>4
    <3>2. after = s
      BY <3>1, TurnStays
    <3>3. ReadTo(us, h, data, i + 1, k, after)
      BY <2>2, <2>4, <3>2 DEF ReadTo
    <3> QED BY <3>3 DEF Along
  <2>5. CASE ~ (at + 20 > d)
    <3> DEFINE j == k + 1
               u == us[j]
               total == Sink!Load16(data, at + 3)
    <3>1. k < n /\ k >= i /\ at + 28 <= Len(all)
      BY <1>1, <1>2, <2>1, <2>2, <2>5
    <3>2. j \in 1..n /\ j \in 0..n /\ j - 1 = k /\ j >= i + 1
      BY <1>0, <3>1
    <3> HIDE DEF j
    <3>3. Stacked(h, us, j)
      BY <3>2, StackedIs
    <3>4. /\ Len(h[j]) = at + Len(u) /\ Len(u) >= 28 /\ Len(h[j]) <= Len(all)
          /\ \A m \in 1..Len(u) : all[at + m] = u[m]
      BY <3>2, <3>3 DEF Stacked
    <3>5. Carries(u, ps[j])
      BY <3>2 DEF Carrying
    <3>6. u \in Seq(Octet) /\ Len(u) \in Nat /\ u[1] = 69 /\ Sink!Load16(u, 3) = Len(u)
      <4>1. u \in Seq(Octet) /\ u[1] = 69 /\ Sink!Load16(u, 3) = Len(u)
        BY <3>5 DEF Carries
      <4> QED BY <4>1
    <3> HIDE DEF u, at, all, d
    <3>7. \A m \in 1..20 : data[at + m] = u[m]
      <4>1. \A m \in 1..20 : at + m \in 1..d /\ m \in 1..Len(u)
        BY <1>2, <2>1, <2>5, <3>4, <3>6
      <4> QED BY <1>1, <3>4, <4>1
    <3>8. data[at + 1] = 69
      <4>1. 1 \in 1..20
        OBVIOUS
      <4>2. data[at + 1] = u[1]
        BY <3>7, <4>1
      <4> QED BY <3>6, <4>2
    <3>9. total = Len(u)
      <4>1. data[at + 3] = u[3] /\ data[(at + 3) + 1] = u[3 + 1]
        <5>1. 3 \in 1..20 /\ 4 \in 1..20 /\ (at + 3) + 1 = at + 4 /\ 3 + 1 = 4
          BY <2>1
        <5> QED BY <3>7, <5>1
      <4>2. Sink!Load16(data, at + 3) = Sink!Load16(u, 3)
        BY <4>1, LoadOfPart
      <4> QED BY <3>6, <4>2
    <3> DEFINE t == SubSeq(data, at + 1, at + total)
               more == ReaderAt(at + total, Append(pk, t))
               stop == [ReaderAt(at, pk) EXCEPT !.ok = FALSE]
    <3>10. after = IF at + total > Len(data) THEN stop ELSE more
      <4>1. ~ (at + 20 > Len(data)) /\ total >= 28 /\ total \in Nat
        BY <2>5, <3>4, <3>6, <3>9 DEF d
      <4> HIDE DEF total, pk
      <4>2. total = Sink!Load16(data, at + 3)
        BY DEF total
      <4>3. Sink!SplitTurn(data, ReaderAt(at, pk)) = IF at + total > Len(data) THEN stop ELSE more
        BY <3>8, <4>1, <4>2, TurnReads
      <4> QED BY <2>2, <4>3
    <3> HIDE DEF total
    <3>11. CASE at + total > d
      <4>1. after = stop
        BY <3>10, <3>11 DEF d
      <4>2. stop.ok = FALSE
        BY DEF ReaderAt
      <4>3. d < Len(all)
        BY <1>2, <2>1, <3>4, <3>6, <3>9, <3>11
      <4> HIDE DEF stop
      <4>4. Cut(us, data, after)
        BY <4>1, <4>2, <4>3 DEF Cut, d, all
      <4> QED BY <4>4 DEF Along
    <3>12. CASE ~ (at + total > d)
      <4>1. after = more
        BY <3>10, <3>12 DEF d
      <4>2. t = u
        <5>1. at + Len(u) <= Len(data)
          BY <2>1, <3>6, <3>9, <3>12 DEF d
        <5>2. \A m \in 1..Len(u) : data[at + m] = u[m]
          <6>1. \A m \in 1..Len(u) : at + m \in 1..d
            BY <1>2, <2>1, <3>6, <5>1 DEF d
          <6> QED BY <1>1, <3>4, <6>1
        <5>3. SubSeq(data, at + 1, at + Len(u)) = u
          BY <1>1, <2>1, <3>6, <5>1, <5>2, PartIs
        <5> QED BY <3>9, <5>3
      <4>3. Append(pk, u) = SubSeq(us, 1, j)
        <5>1. 1 \in 1..Len(us) /\ j \in 1..Len(us)
          BY <1>0, <3>2
        <5>2. SubSeq(us, 1, j) = SubSeq(us, 1, j - 1) \o <<us[j]>>
          BY <1>0, <5>1, SubSeqRecursiveSecond
        <5>3. SubSeq(us, 1, j - 1) = pk
          BY <3>2
        <5>4. pk \in Seq(Seq(Octet))
          <6>1. \A m \in 1..k : us[m] \in Seq(Octet)
            BY <1>0, <3>2, ElementOfSeq
          <6> QED BY <6>1, SubSeqProperties
        <5> HIDE DEF pk
        <5>5. Append(pk, u) = pk \o <<u>>
          BY <3>6, <5>4
        <5> QED BY <5>2, <5>3, <5>5 DEF u
      <4>4. at + total = Len(h[j])
        BY <3>4, <3>9
      <4>5. after = ReaderAt(Len(h[j]), SubSeq(us, 1, j))
        BY <4>1, <4>2, <4>3, <4>4
      <4>6. Len(h[j]) <= Len(data)
        BY <1>2, <2>1, <3>4, <3>6, <3>9, <3>12, <4>4 DEF d
      <4>7. ReadTo(us, h, data, i + 1, j, after)
        BY <3>2, <4>5, <4>6 DEF ReadTo
      <4> QED BY <3>2, <4>7 DEF Along
    <3> QED BY <3>11, <3>12
  <2> QED BY <2>4, <2>5
<1> QED BY <1>3, <1>4 DEF Along

\* split_ipv4_chain, as its last state.
LEMMA SplitUnfolds ==
  ASSUME NEW data \in Seq(Octet)
  PROVE  \E g : /\ g[0] = ReaderAt(0, <<>>)
                /\ \A i \in 1..(Len(data) \div 20) : g[i] = Sink!SplitTurn(data, g[i - 1])
                /\ LET last == g[Len(data) \div 20] IN
                   Sink!Split(data) = IF last.ok /\ last.at = Len(data)
                                      THEN [ok |-> TRUE, pkts |-> last.pkts] ELSE Sink!Refused
<1> DEFINE n == Len(data) \div 20
           g == CHOOSE g : Splitting(g, data, n)
           last == g[n]
<1>0. n \in Nat
  <2> DEFINE k == Len(data)
  <2>1. k \in Nat
    OBVIOUS
  <2> HIDE DEF k
  <2>2. k \div 20 \in Nat
    BY <2>1
  <2> QED BY <2>2 DEF k
<1>1. Sink!Split(data) = IF last.ok /\ last.at = Len(data)
                         THEN [ok |-> TRUE, pkts |-> last.pkts] ELSE Sink!Refused
  BY DEF Sink!Split, Splitting
<1> HIDE DEF n
<1>2. Splitting(g, data, n)
  BY <1>0, SplittingExists
<1> HIDE DEF g
<1>3. \A i \in 0..n : g[i] = IF i = 0 THEN [at |-> 0, pkts |-> <<>>, ok |-> TRUE]
                             ELSE Sink!SplitTurn(data, g[i - 1])
  BY <1>2 DEF Splitting
<1>4. g[0] = [at |-> 0, pkts |-> <<>>, ok |-> TRUE]
      /\ \A i \in 1..n : g[i] = Sink!SplitTurn(data, g[i - 1])
  BY <1>0, <1>3
<1>5. g[0] = ReaderAt(0, <<>>)
  BY <1>4 DEF ReaderAt
<1> QED BY <1>1, <1>4, <1>5 DEF n

\* The reader takes the first k datagrams from octets that end behind them, and
\* refuses any others; all of them when nothing was cut.
Taken(us, h, data, r) ==
  /\ \/ r = Sink!Refused
     \/ \E k \in 0..Len(us) : r = [ok |-> TRUE, pkts |-> SubSeq(us, 1, k)] /\ Len(h[k]) = Len(data)
  /\ Len(data) = Len(FlattenSeq(us)) =>
       r = [ok |-> TRUE, pkts |-> SubSeq(us, 1, Len(us))]

\* What it returns of a file that was cut anywhere.
LEMMA SplitIs ==
  ASSUME NEW us, NEW ps, Carrying(us, ps), NEW h, Piles(h, us),
         NEW data, CutOf(data, FlattenSeq(us))
  PROVE  Taken(us, h, data, Sink!Split(data))
<1> DEFINE all == FlattenSeq(us)
           n == Len(us)
           d == Len(data)
           q == d \div 20
           r == Sink!Split(data)
<1>0. us \in Seq(Seq(Octet)) /\ n \in Nat
  BY DEF Carrying
<1>1. all \in Seq(Octet) /\ data \in Seq(Octet) /\ d <= Len(all) /\ Len(all) \in Nat /\ d \in Nat
  <2>1. all \in Seq(Octet) /\ data \in Seq(Octet) /\ d <= Len(all)
    BY <1>0, FlattenType DEF CutOf
  <2> QED BY <2>1
<1>2. q \in Nat /\ d < 20 * q + 20
  <2> HIDE DEF d
  <2> QED BY <1>1
<1>3. PICK g : /\ g[0] = ReaderAt(0, <<>>)
               /\ \A i \in 1..q : g[i] = Sink!SplitTurn(data, g[i - 1])
               /\ r = IF g[q].ok /\ g[q].at = d THEN [ok |-> TRUE, pkts |-> g[q].pkts]
                      ELSE Sink!Refused
  BY <1>1, SplitUnfolds
<1> HIDE DEF q, r
<1> DEFINE T == {i \in Nat : Along(us, h, data, i, g[i])}
<1>4. 0 \in T
  <2>1. h[0] = <<>> /\ 0 \in 0..n
    BY <1>0 DEF Piles
  <2>2. Len(h[0]) = 0 /\ SubSeq(us, 1, 0) = <<>>
    BY <2>1, SubSeqEmpty
  <2>3. g[0] = ReaderAt(Len(h[0]), SubSeq(us, 1, 0))
    BY <1>3, <2>2
  <2>4. Len(h[0]) <= Len(data)
    BY <1>1, <2>2
  <2>5. ReadTo(us, h, data, 0, 0, g[0])
    BY <2>3, <2>4 DEF ReadTo
  <2>6. Along(us, h, data, 0, g[0])
    BY <2>1, <2>5 DEF Along
  <2> QED BY <2>6
<1>5. ASSUME NEW i \in 0..(q - 1), i \in T PROVE i + 1 \in T
  <2> DEFINE j == i + 1
  <2>1. j \in 1..q /\ j - 1 = i /\ j \in Nat /\ i \in Nat
    BY <1>2
  <2>2. Along(us, h, data, i, g[i])
    BY <1>5
  <2>3. Along(us, h, data, i + 1, Sink!SplitTurn(data, g[i]))
    BY <2>1, <2>2, AlongTurn
  <2>4. g[j] = Sink!SplitTurn(data, g[i])
    <3> HIDE DEF j
    <3>1. g[j] = Sink!SplitTurn(data, g[j - 1])
      BY <1>3, <2>1
    <3> QED BY <2>1, <3>1
  <2>5. Along(us, h, data, j, g[j])
    BY <2>3, <2>4
  <2> HIDE DEF j
  <2>6. j \in T
    BY <2>1, <2>5
  <2> QED BY <2>6 DEF j
<1>6. \A i \in 0..q : i \in T
  <2> HIDE DEF T
  <2> QED BY <1>2, <1>4, <1>5, UpTo
<1>7. Along(us, h, data, q, g[q])
  <2>1. q \in 0..q
    BY <1>2
  <2> QED BY <1>6, <2>1
<1>8. CASE Cut(us, data, g[q])
  <2>1. g[q].ok = FALSE /\ d < Len(all)
    BY <1>8 DEF Cut
  <2>2. r = Sink!Refused
    BY <1>3, <2>1
  <2>3. d # Len(all)
    BY <1>1, <2>1
  <2> QED BY <2>2, <2>3 DEF Taken, r
<1>9. ASSUME NEW k \in 0..n, ReadTo(us, h, data, q, k, g[q])
      PROVE  Taken(us, h, data, r)
  <2> DEFINE at == Len(h[k])
  <2>1. /\ at \in Nat /\ 28 * k <= at /\ (k = n => at = Len(all))
        /\ (k < n => at + 28 <= Len(all))
    BY StackRoom
  <2>2. /\ g[q].ok = TRUE /\ g[q].at = at /\ g[q].pkts = SubSeq(us, 1, k)
        /\ at <= d /\ (k >= q \/ at + 20 > d)
    BY <1>9 DEF ReadTo, ReaderAt
  <2> HIDE DEF at
  <2>3. r = IF at = d THEN [ok |-> TRUE, pkts |-> SubSeq(us, 1, k)] ELSE Sink!Refused
    BY <1>3, <2>2
  <2>4. d = Len(all) => k = n /\ at = d
    <3> SUFFICES ASSUME d = Len(all), k # n PROVE FALSE
      BY <2>1
    <3> DEFINE e == Len(all)
    <3>1. k < n /\ k \in Nat
      BY <1>0
    <3>2. at + 28 <= e /\ d = e
      BY <2>1, <3>1
    <3> HIDE DEF d, e
    <3>3. k >= q
      BY <1>1, <2>1, <2>2, <3>2 DEF e
    <3> QED BY <1>1, <1>2, <2>1, <3>1, <3>2, <3>3 DEF e
  <2>5. CASE at = d
    BY <2>3, <2>4, <2>5 DEF Taken, at
  <2>6. CASE at # d
    BY <2>3, <2>4, <2>6 DEF Taken
  <2> QED BY <2>5, <2>6
<1> QED BY <1>7, <1>8, <1>9 DEF Along, r

----------------------------------------------------------------------------
(* The payloads of a file *)

PayloadOut(payload) == [ok |-> TRUE, payload |-> payload]
NothingOut == [ok |-> FALSE, payload |-> <<>>]

\* The payload of a datagram is taken out.
LEMMA ExtractIs ==
  ASSUME NEW u, NEW payload \in Seq(Octet), Carries(u, payload)
  PROVE  Sink!Extract(u) = PayloadOut(payload)
<1> DEFINE k == Len(payload)
           d == Len(u)
           b == u[1]
           total == Sink!Load16(u, 3)
           udp == Sink!Load16(u, 25)
           part == SubSeq(u, 29, d)
<1>1. k \in Nat /\ d = 28 + k /\ b = 69 /\ u[10] = 17 /\ total = d /\ udp = 8 + k /\ part = payload
  BY DEF Carries
<1>2. 4 * (b % 16) = 20
  <2> HIDE DEF b
  <2> QED BY <1>1
<1>3. Sink!Extract(u) =
        LET ihl == 4 * (b % 16)
            inside == total - ihl
            len == Sink!Load16(u, ihl + 5)
        IN IF /\ d >= ihl + 8 /\ u[10] = 17
              /\ inside >= 8 /\ len = inside /\ ihl + len = d
           THEN [ok |-> TRUE, payload |-> SubSeq(u, ihl + 9, ihl + len)]
           ELSE [ok |-> FALSE, payload |-> <<>>]
  BY DEF Sink!Extract
<1> DEFINE udp2 == Sink!Load16(u, 20 + 5)
<1>4. udp2 = udp
  BY <1>1 DEF Sink!Load16
<1> HIDE DEF b, total, udp
<1>5. Sink!Extract(u) =
        IF /\ d >= 20 + 8 /\ u[10] = 17
           /\ total - 20 >= 8 /\ udp2 = total - 20 /\ 20 + udp2 = d
        THEN [ok |-> TRUE, payload |-> SubSeq(u, 20 + 9, 20 + udp2)]
        ELSE [ok |-> FALSE, payload |-> <<>>]
  BY <1>2, <1>3
<1> HIDE DEF udp2, k
<1>6. /\ d >= 20 + 8 /\ u[10] = 17
      /\ total - 20 >= 8 /\ udp2 = total - 20 /\ 20 + udp2 = d /\ 20 + 9 = 29
  <2> HIDE DEF d
  <2> QED BY <1>1, <1>4
<1>7. Sink!Extract(u) = [ok |-> TRUE, payload |-> SubSeq(u, 20 + 9, 20 + udp2)]
  BY <1>5, <1>6
<1>8. SubSeq(u, 20 + 9, 20 + udp2) = part
  BY <1>6
<1> HIDE DEF part
<1> QED BY <1>1, <1>7, <1>8 DEF PayloadOut

\* Ipv4Udp flattens as this module does.
LEMMA SameFlatten == \A seqs : Sink!FlattenSeq(seqs) = FlattenSeq(seqs)
BY DEF Sink!FlattenSeq, FlattenSeq

\* The datagrams of r, one after the other.
LEMMA ExtractAllUnfolds ==
  ASSUME NEW data, NEW us, NEW ps, NEW k \in Nat,
         us \in Seq(Seq(Octet)), ps \in Seq(Seq(Octet)), Len(us) = Len(ps), k <= Len(us),
         \A i \in 1..Len(us) : Carries(us[i], ps[i]),
         Sink!Split(data) = [ok |-> TRUE, pkts |-> SubSeq(us, 1, k)]
  PROVE  Sink!ExtractAll(data) = PayloadOut(FlattenSeq(SubSeq(ps, 1, k)))
<1> DEFINE s == Sink!Split(data)
           es == [i \in DOMAIN s.pkts |-> Sink!Extract(s.pkts[i])]
           pls == [i \in DOMAIN es |-> es[i].payload]
           a == SubSeq(us, 1, k)
           b == SubSeq(ps, 1, k)
<1>1. /\ a \in Seq(Seq(Octet)) /\ Len(a) = k /\ DOMAIN a = 1..k /\ \A i \in 1..k : a[i] = us[i]
      /\ b \in Seq(Seq(Octet)) /\ Len(b) = k /\ DOMAIN b = 1..k /\ \A i \in 1..k : b[i] = ps[i]
  <2>1. 0 \in Nat /\ 0 <= k /\ k <= Len(us) /\ k <= Len(ps) /\ k - 0 = k /\ 0 + 1 = 1
        /\ \A i \in 1..k : 0 + i = i
    OBVIOUS
  <2>2. /\ SubSeq(us, 0 + 1, k) \in Seq(Seq(Octet)) /\ Len(SubSeq(us, 0 + 1, k)) = k - 0
        /\ \A i \in 1..(k - 0) : SubSeq(us, 0 + 1, k)[i] = us[0 + i]
    BY <2>1, Part
  <2>3. /\ SubSeq(ps, 0 + 1, k) \in Seq(Seq(Octet)) /\ Len(SubSeq(ps, 0 + 1, k)) = k - 0
        /\ \A i \in 1..(k - 0) : SubSeq(ps, 0 + 1, k)[i] = ps[0 + i]
    BY <2>1, Part
  <2>4. a \in Seq(Seq(Octet)) /\ Len(a) = k /\ \A i \in 1..k : a[i] = us[0 + i]
    BY <2>1, <2>2
  <2>5. b \in Seq(Seq(Octet)) /\ Len(b) = k /\ \A i \in 1..k : b[i] = ps[0 + i]
    BY <2>1, <2>3
  <2> HIDE DEF a, b
  <2>6. DOMAIN a = 1..k /\ DOMAIN b = 1..k
    BY <2>4, <2>5
  <2> QED BY <2>1, <2>4, <2>5, <2>6
<1>2. s.ok = TRUE /\ s.pkts = a
  OBVIOUS
<1>3. Sink!ExtractAll(data) = IF s.ok /\ \A i \in DOMAIN es : es[i].ok
                              THEN [ok |-> TRUE, payload |-> Sink!FlattenSeq(pls)]
                              ELSE [ok |-> FALSE, payload |-> <<>>]
  BY DEF Sink!ExtractAll
<1> HIDE DEF s, a, b
<1>4. DOMAIN es = 1..k /\ \A i \in 1..k : es[i] = Sink!Extract(us[i])
  BY <1>1, <1>2
<1>5. \A i \in 1..k : es[i] = PayloadOut(ps[i])
  <2> SUFFICES ASSUME NEW i \in 1..k PROVE Sink!Extract(us[i]) = PayloadOut(ps[i])
    BY <1>4
  <2> DEFINE u == us[i]
             p == ps[i]
  <2>1. i \in 1..Len(us) /\ i \in 1..Len(ps)
    OBVIOUS
  <2>2. p \in Seq(Octet)
    BY <2>1, ElementOfSeq
  <2>3. Carries(u, p)
    BY <2>1
  <2> HIDE DEF u, p
  <2>4. Sink!Extract(u) = PayloadOut(p)
    BY <2>2, <2>3, ExtractIs
  <2> QED BY <2>4 DEF u, p
<1>6. DOMAIN pls = 1..k /\ \A i \in 1..k : pls[i] = es[i].payload
  BY <1>4
<1> DEFINE es1 == es
<1>7. \A i \in DOMAIN es : es[i].ok
  <2> SUFFICES ASSUME NEW i \in DOMAIN es PROVE es[i].ok
    OBVIOUS
  <2> DEFINE e == es[i]
             p == ps[i]
  <2>1. e = PayloadOut(p)
    BY <1>4, <1>5
  <2> HIDE DEF e, p
  <2>2. e.ok
    BY <2>1 DEF PayloadOut
  <2> QED BY <2>2 DEF e
<1>8. pls = b
  <2>1. \A i \in 1..k : pls[i] = b[i]
    <3> SUFFICES ASSUME NEW i \in 1..k PROVE pls[i] = b[i]
      OBVIOUS
    <3>1. pls[i] = es[i].payload /\ es[i] = PayloadOut(ps[i]) /\ b[i] = ps[i]
      BY <1>1, <1>5, <1>6
    <3> HIDE DEF pls, es
    <3> QED BY <3>1 DEF PayloadOut
  <2>2. pls = [i \in 1..k |-> pls[i]]
    BY <1>4
  <2>3. b = [i \in 1..k |-> b[i]]
    BY <1>1
  <2> HIDE DEF pls
  <2> QED BY <2>1, <2>2, <2>3
<1> HIDE DEF pls, es
<1>9. Sink!ExtractAll(data) = [ok |-> TRUE, payload |-> Sink!FlattenSeq(pls)]
  BY <1>2, <1>3, <1>7
<1>10. Sink!FlattenSeq(pls) = FlattenSeq(b)
  BY <1>8, SameFlatten
<1> QED BY <1>9, <1>10 DEF PayloadOut, b

\* What comes out of a file that was cut: nothing, or the payloads that were written
\* first; all of them if nothing was cut.
Extracted(ps, whole, r) ==
  /\ r = NothingOut \/ \E k \in 0..Len(ps) : r = PayloadOut(FlattenSeq(SubSeq(ps, 1, k)))
  /\ whole => r = PayloadOut(FlattenSeq(ps))

\* What m8_bin_to_pcap.py returns of a file that was cut anywhere.
LEMMA ExtractAllIs ==
  ASSUME NEW us, NEW ps, Carrying(us, ps), NEW data, CutOf(data, FlattenSeq(us))
  PROVE  Extracted(ps, Len(data) = Len(FlattenSeq(us)), Sink!ExtractAll(data))
<1> DEFINE s == Sink!Split(data)
           n == Len(us)
           whole == Len(data) = Len(FlattenSeq(us))
           r == Sink!ExtractAll(data)
<1>0. us \in Seq(Seq(Octet)) /\ ps \in Seq(Seq(Octet)) /\ n \in Nat /\ Len(ps) = n
      /\ \A i \in 1..n : Carries(us[i], ps[i])
  BY DEF Carrying
<1>1. PICK h : Piles(h, us)
  BY <1>0, PilesExist
<1>2. Taken(us, h, data, s)
  BY <1>1, SplitIs
<1>3. whole => s = [ok |-> TRUE, pkts |-> SubSeq(us, 1, n)]
  BY <1>2 DEF Taken
<1>4. ASSUME NEW k \in 0..n, s = [ok |-> TRUE, pkts |-> SubSeq(us, 1, k)]
      PROVE  r = PayloadOut(FlattenSeq(SubSeq(ps, 1, k)))
  <2>1. k \in Nat /\ k <= n
    BY <1>0
  <2> QED BY <1>0, <1>4, <2>1, ExtractAllUnfolds
<1>5. CASE s = Sink!Refused
  <2>1. r = NothingOut
    <3>1. s.ok = FALSE
      BY <1>5 DEF Sink!Refused
    <3> DEFINE es == [i \in DOMAIN s.pkts |-> Sink!Extract(s.pkts[i])]
    <3>2. r = IF s.ok /\ \A i \in DOMAIN es : es[i].ok
              THEN [ok |-> TRUE, payload |-> Sink!FlattenSeq([i \in DOMAIN es |-> es[i].payload])]
              ELSE [ok |-> FALSE, payload |-> <<>>]
      BY DEF Sink!ExtractAll
    <3> HIDE DEF r, s
    <3> QED BY <3>1, <3>2 DEF NothingOut
  <2>2. ~ whole
    <3>1. ~ ([ok |-> TRUE, pkts |-> SubSeq(us, 1, n)].ok = FALSE)
      OBVIOUS
    <3>2. s.ok = FALSE
      BY <1>5 DEF Sink!Refused
    <3> DEFINE x == [ok |-> TRUE, pkts |-> SubSeq(us, 1, n)]
    <3> HIDE DEF s, x
    <3> QED BY <1>3, <3>1, <3>2 DEF x
  <2> HIDE DEF r, whole
  <2>3. Extracted(ps, whole, r)
    BY <2>1, <2>2 DEF Extracted
  <2> QED BY <2>3 DEF r, whole
<1>6. ASSUME NEW k \in 0..n, s = [ok |-> TRUE, pkts |-> SubSeq(us, 1, k)]
      PROVE  Extracted(ps, whole, r)
  <2>1. r = PayloadOut(FlattenSeq(SubSeq(ps, 1, k)))
    BY <1>4, <1>6
  <2>2. whole => r = PayloadOut(FlattenSeq(ps))
    <3> SUFFICES ASSUME whole PROVE r = PayloadOut(FlattenSeq(ps))
      OBVIOUS
    <3>1. n \in 0..n
      BY <1>0
    <3>2. r = PayloadOut(FlattenSeq(SubSeq(ps, 1, n)))
      BY <1>3, <1>4, <3>1
    <3>3. SubSeq(ps, 1, n) = ps
      BY <1>0, SubSeqFull
    <3> QED BY <3>2, <3>3
  <2>3. k \in 0..Len(ps)
    BY <1>0
  <2> HIDE DEF r, whole
  <2>4. Extracted(ps, whole, r)
    BY <2>1, <2>2, <2>3 DEF Extracted
  <2> QED BY <2>4 DEF r, whole
<1> QED BY <1>2, <1>5, <1>6 DEF Taken

----------------------------------------------------------------------------
(* What the calls return *)

\* Octets, or one of the errors of encode.
Encoded(e) ==
  \/ \E why \in {"payload size", "element", "loop length"} : e = Failed(why)
  \/ e = Bytes(e.bytes) /\ e.ok /\ e.bytes \in Seq(Octet)

\* A result with octets.
LEMMA BytesAre ==
  ASSUME NEW o \in Seq(Octet), NEW e, e = Bytes(o)
  PROVE  Encoded(e) /\ e.ok /\ e.bytes = o
<1>1. e.ok /\ e.bytes = o
  BY DEF Bytes
<1> QED BY <1>1 DEF Encoded

\* Encode returns octets or an error.
LEMMA EncodeType ==
  ASSUME NEW l, NEW p, Passed(l, p), NEW d, Whole(l, p, d)
  PROVE  Encoded(Encode(l, p, d))
<1> DEFINE doc == l[p]
           e == Encode(l, p, d)
<1>1. Spoken(doc)
  BY PassedOne
<1>2. CASE doc.trailer # "repeated"
  <2>1. e = EncodeAlone(doc, d) /\ Single(doc, d)
    BY <1>2 DEF Encode, Whole
  <2>2. CASE e.ok
    <3>1. e = Bytes(UnitOctets(doc, d)) /\ UnitOctets(doc, d) \in Seq(Octet)
      BY <1>1, <1>2, <2>1, <2>2, EncodesAlone
    <3> HIDE DEF e
    <3>2. Encoded(e)
      BY <3>1, BytesAre
    <3> QED BY <3>2 DEF e
  <2>3. CASE ~e.ok
    <3> DEFINE o == Header(doc, d.fields) \o d.payload
    <3>1. e = IF doc.trailer = "payload" /\ d.fields[doc.length] # Len(d.payload)
              THEN Failed("payload size") ELSE Bytes(o)
      BY <2>1 DEF EncodeAlone
    <3>2. Bytes(o).ok
      BY DEF Bytes
    <3> HIDE DEF e, o
    <3>3. e = Failed("payload size")
      BY <2>3, <3>1, <3>2
    <3>4. Encoded(e)
      BY <3>3 DEF Encoded
    <3> QED BY <3>4 DEF e
  <2> QED BY <2>2, <2>3
<1>3. CASE doc.trailer = "repeated"
  <2> DEFINE edoc == l[doc.element]
             es == d.elements
             enc == EncodedElements(l, p, d)
             body == Body(l, p, d)
             m == [d.fields EXCEPT ![doc.length] = Len(body)]
             o == Header(doc, m) \o body
  <2>1. Spoken(edoc) /\ edoc.trailer # "repeated"
    BY <1>3, PassedElement, PassedOne
  <2>2. /\ d.fields = [k \in Names(doc) |-> d.fields[k]]
        /\ \A k \in Names(doc) : d.fields[k] \in Nat
        /\ \A i \in 1..Len(es) : Single(edoc, es[i])
    BY <1>3 DEF Whole
  <2>3. PICK S : es \in Seq(S)
    BY <1>3 DEF Whole
  <2>4. e = IF \E i \in DOMAIN enc : ~enc[i].ok THEN Failed("element")
            ELSE IF d.fields[doc.length] \notin {0, Len(body)} THEN Failed("loop length")
            ELSE Bytes(o)
    BY <1>3, EncodeRepeated
  <2>5. CASE \A i \in DOMAIN enc : enc[i].ok
    <3>1. \A i \in 1..Len(es) : Single(edoc, es[i]) /\ EncodeAlone(edoc, es[i]).ok
      <4>1. DOMAIN es = 1..Len(es)
        BY <2>3
      <4>2. enc = [i \in 1..Len(es) |-> EncodeAlone(edoc, es[i])]
        BY <4>1 DEF EncodedElements
      <4>3. \A i \in 1..Len(es) : enc[i].ok
        <5>1. DOMAIN enc = 1..Len(es)
          BY <4>2
        <5> HIDE DEF enc
        <5> QED BY <2>5, <5>1
      <4> QED BY <2>2, <4>2, <4>3
    <3>2. body \in Seq(Octet)
      BY <2>1, <2>3, <3>1, BodyIs
    <3> HIDE DEF body
    <3>3. doc.length \in Names(doc) /\ Len(body) \in Nat
      BY <1>1, <1>3, <3>2 DEF Spoken
    <3>4. \A k \in Names(doc) : m[k] \in Nat
      BY <2>2, <3>3
    <3> HIDE DEF m
    <3>5. Header(doc, m) \in Seq(Octet)
      BY <1>1, <3>4, MembersOf, HeaderHolds DEF Spoken
    <3> DEFINE hd == Header(doc, m)
    <3> HIDE DEF hd
    <3>6. hd \o body \in Seq(Octet)
      BY <3>2, <3>5, Concat DEF hd
    <3>7. o \in Seq(Octet)
      BY <3>6 DEF hd
    <3> HIDE DEF o, e, enc
    <3>8. e = Failed("loop length") \/ e = Bytes(o)
      BY <2>4, <2>5
    <3>9. CASE e = Failed("loop length")
      <4>1. Encoded(e)
        BY <3>9 DEF Encoded
      <4> QED BY <4>1 DEF e
    <3>10. CASE e = Bytes(o)
      <4>1. Encoded(e)
        BY <3>7, <3>10, BytesAre
      <4> QED BY <4>1 DEF e
    <3> QED BY <3>8, <3>9, <3>10
  <2>6. CASE ~ \A i \in DOMAIN enc : enc[i].ok
    <3>1. e = Failed("element")
      <4> HIDE DEF e, enc, body, o
      <4> QED BY <2>4, <2>6
    <3> HIDE DEF e
    <3>2. Encoded(e)
      BY <3>1 DEF Encoded
    <3> QED BY <3>2 DEF e
  <2> QED BY <2>5, <2>6
<1> QED BY <1>2, <1>3

\* What the end of the loop checks never shows, and a unit takes an octet.
Timely(r) ==
  /\ r.ok = FALSE => r.error \notin {"overran", "consumed nothing", "undefined"}
  /\ "consumed" \in DOMAIN r => r.consumed > 0

\* An error of another kind is timely.
LEMMA FailsTimely ==
  ASSUME NEW why, why \notin {"overran", "consumed nothing", "undefined"},
         NEW r, r = Failed(why)
  PROVE  Timely(r)
BY DEF Timely, Failed

\* What encode returns is timely.
LEMMA EncodeTimely ==
  ASSUME NEW e, Encoded(e)
  PROVE  Timely(e)
<1>1. ASSUME NEW why \in {"payload size", "element", "loop length"}, e = Failed(why)
      PROVE  Timely(e)
  BY <1>1, FailsTimely
<1>2. ASSUME NEW o, e = Bytes(o) PROVE Timely(e)
  BY <1>2 DEF Timely, Bytes
<1> QED BY <1>1, <1>2 DEF Encoded

\* What decode returns by narrow lengths is.
LEMMA DecodeTimely ==
  ASSUME NEW l, NEW p, Passed(l, p), Narrow(l, p), NEW octets \in Seq(Octet)
  PROVE  Timely(Decode(l, p, octets))
<1> DEFINE r == Decode(l, p, octets)
<1>1. \/ \E why \in {"short header", "short trailer", "element"} : r = Failed(why)
      \/ /\ r.ok /\ \E m, b, es, n : r = Unit(m, b, es, n)
         /\ r.consumed \in 1..Len(octets)
  BY DecodeEnds
<1> HIDE DEF r
<1>2. CASE \E why \in {"short header", "short trailer", "element"} : r = Failed(why)
  <2>1. Timely(r)
    BY <1>2, FailsTimely
  <2> QED BY <2>1 DEF r
<1>3. CASE r.ok /\ r.consumed \in 1..Len(octets)
  <2>1. r.consumed > 0
    BY <1>3
  <2>2. Timely(r)
    BY <1>3, <2>1 DEF Timely
  <2> QED BY <2>2 DEF r
<1> QED BY <1>1, <1>2, <1>3

----------------------------------------------------------------------------
(* What verify has read of the frames in a file *)

Frames(l, p, ds) == [i \in 1..Len(ds) |-> Encode(l, p, ds[i]).bytes]
Written(l, p, ds) == [i \in DOMAIN ds |-> Derived(l, p, ds[i])]
AllFit(l, p, ds) == \A i \in DOMAIN ds : Fits(l, p, ds[i])

\* Values that were encoded, and the frames made of them.
Made(l, p, ds) ==
  /\ Passed(l, p) /\ ds \in Seq(Values(l, p))
  /\ \A i \in 1..Len(ds) : Encode(l, p, ds[i]).ok

\* Of the first k frames j were read, and w is what is left of them.
ReadSome(l, p, ds, rd, w, k) ==
  LET fs == SubSeq(Frames(l, p, ds), 1, k) IN
  \E h : \E j \in 0..k :
    Piles(h, fs) /\ FlattenSeq(fs) = h[j] \o w /\ rd = SubSeq(Written(l, p, ds), 1, j)

\* What was encoded is in memory.
LEMMA InMemory ==
  ASSUME NEW l, NEW p, Passed(l, p), NEW d \in Values(l, p), Encode(l, p, d).ok
  PROVE  Len(Encode(l, p, d).bytes) < SizeT
<1>1. \A q \in DOMAIN l : Lints(l[q], DOMAIN l) /\ StaysInHeader(l[q])
  BY PassedStays DEF Passed
<1> QED BY <1>1, MemoryAssumption DEF Passed

\* One of the values that were encoded.
LEMMA MadeOne ==
  ASSUME NEW l, NEW p, NEW ds, Made(l, p, ds), NEW i \in 1..Len(ds)
  PROVE  /\ Whole(l, p, ds[i]) /\ Encode(l, p, ds[i]).ok /\ Encoded(Encode(l, p, ds[i]))
         /\ Len(Encode(l, p, ds[i]).bytes) < SizeT
<1>1. ds[i] \in Values(l, p) /\ Passed(l, p) /\ Encode(l, p, ds[i]).ok
  BY ElementOfSeq DEF Made
<1>2. Whole(l, p, ds[i])
  BY <1>1, WholeValues
<1>3. Encoded(Encode(l, p, ds[i]))
  BY <1>1, <1>2, EncodeType
<1>4. Len(Encode(l, p, ds[i]).bytes) < SizeT
  BY <1>1, InMemory
<1> QED BY <1>1, <1>2, <1>3, <1>4

\* Octets, if there was no error.
LEMMA EncodedBytes ==
  ASSUME NEW e, Encoded(e), e.ok
  PROVE  e.bytes \in Seq(Octet)
<1>1. ASSUME NEW why, e = Failed(why) PROVE FALSE
  BY <1>1 DEF Failed
<1> QED BY <1>1 DEF Encoded

\* The frames, one for each value.
LEMMA FramesAre ==
  ASSUME NEW l, NEW p, NEW ds, Made(l, p, ds)
  PROVE  /\ Frames(l, p, ds) \in Seq(Seq(Octet)) /\ Len(Frames(l, p, ds)) = Len(ds)
         /\ Len(ds) \in Nat /\ DOMAIN ds = 1..Len(ds)
         /\ \A i \in 1..Len(ds) : Frames(l, p, ds)[i] = Encode(l, p, ds[i]).bytes
<1> DEFINE n == Len(ds)
           fs == Frames(l, p, ds)
<1>1. n \in Nat /\ DOMAIN ds = 1..n
  <2>1. ds \in Seq(Values(l, p))
    BY DEF Made
  <2> QED BY <2>1, LenProperties
<1>2. \A i \in 1..n : Encode(l, p, ds[i]).bytes \in Seq(Octet)
  BY MadeOne, EncodedBytes
<1>3. fs \in [1..n -> Seq(Octet)]
  BY <1>2 DEF Frames
<1>4. \A i \in 1..n : fs[i] = Encode(l, p, ds[i]).bytes
  BY DEF Frames
<1> HIDE DEF fs
<1>5. fs \in Seq(Seq(Octet)) /\ Len(fs) = n
  BY <1>1, <1>3, FunctionIsSeq
<1> QED BY <1>1, <1>4, <1>5 DEF fs

\* The values to be read, one for each.
LEMMA WrittenAre ==
  ASSUME NEW l, NEW p, NEW ds, Made(l, p, ds)
  PROVE  /\ \E S : Written(l, p, ds) \in Seq(S)
         /\ Len(Written(l, p, ds)) = Len(ds)
         /\ \A i \in 1..Len(ds) : Written(l, p, ds)[i] = Derived(l, p, ds[i])
<1> DEFINE n == Len(ds)
           w == Written(l, p, ds)
           S == {Derived(l, p, ds[i]) : i \in 1..n}
<1>1. n \in Nat /\ DOMAIN ds = 1..n
  BY FramesAre
<1>2. w \in [1..n -> S] /\ \A i \in 1..n : w[i] = Derived(l, p, ds[i])
  BY <1>1 DEF Written
<1> HIDE DEF w, S
<1>3. w \in Seq(S) /\ Len(w) = n
  BY <1>1, <1>2, FunctionIsSeq
<1> QED BY <1>2, <1>3 DEF w

\* Before the first turn of verify.
LEMMA ReadStart ==
  ASSUME NEW l, NEW p, NEW ds, Made(l, p, ds), NEW k \in 0..Len(ds),
         NEW w, w = FlattenSeq(SubSeq(Frames(l, p, ds), 1, k))
  PROVE  ReadSome(l, p, ds, <<>>, w, k)
<1> DEFINE all == Frames(l, p, ds)
           fs == SubSeq(all, 1, k)
<1>1. all \in Seq(Seq(Octet)) /\ Len(all) = Len(ds) /\ Len(ds) \in Nat
  BY FramesAre
<1> HIDE DEF all
<1>2. fs \in Seq(Seq(Octet))
  <2>1. \A i \in 1..k : all[i] \in Seq(Octet)
    BY <1>1, ElementOfSeq
  <2> QED BY <1>1, <2>1, SubSeqProperties
<1>3. w = FlattenSeq(fs)
  BY DEF all
<1> HIDE DEF fs
<1>4. PICK h : Piles(h, fs)
  BY <1>2, PilesExist
<1>5. h[0] = <<>>
  BY <1>4 DEF Piles
<1>6. FlattenSeq(fs) = h[0] \o w
  <2>1. w \in Seq(Octet)
    BY <1>2, <1>3, FlattenType
  <2>2. <<>> \o w = w
    BY <2>1, EmptyConcat
  <2> QED BY <1>3, <1>5, <2>2
<1>7. SubSeq(Written(l, p, ds), 1, 0) = <<>>
  BY SubSeqEmpty
<1>8. 0 \in 0..k
  BY <1>1
<1> QED BY <1>4, <1>6, <1>7, <1>8 DEF ReadSome, fs, all

\* Where the reading of k frames stands.
Standing(l, p, ds, rd, w, k, h, j) ==
  LET fs == SubSeq(Frames(l, p, ds), 1, k) IN
  /\ fs \in Seq(Seq(Octet)) /\ Len(fs) = k /\ Piles(h, fs)
  /\ j \in 0..k /\ h[j] \in Seq(Octet) /\ FlattenSeq(fs) = h[j] \o w
  /\ rd = SubSeq(Written(l, p, ds), 1, j)
  /\ \A i \in 1..k : fs[i] = Encode(l, p, ds[i]).bytes

\* Where verify is, in the frames.
LEMMA StandingIs ==
  ASSUME NEW l, NEW p, NEW ds, Made(l, p, ds), NEW k \in 0..Len(ds),
         NEW rd, NEW w, ReadSome(l, p, ds, rd, w, k)
  PROVE  \E h, j : Standing(l, p, ds, rd, w, k, h, j)
<1> DEFINE all == Frames(l, p, ds)
           fs == SubSeq(all, 1, k)
<1>1. /\ all \in Seq(Seq(Octet)) /\ Len(all) = Len(ds) /\ Len(ds) \in Nat
      /\ \A i \in 1..Len(ds) : all[i] = Encode(l, p, ds[i]).bytes
  BY FramesAre
<1>2. PICK h, j : j \in 0..k /\ Piles(h, fs) /\ FlattenSeq(fs) = h[j] \o w
                  /\ rd = SubSeq(Written(l, p, ds), 1, j)
  BY DEF ReadSome
<1> HIDE DEF all
<1>3. fs \in Seq(Seq(Octet)) /\ Len(fs) = k /\ \A i \in 1..k : fs[i] = all[i]
  <2>1. 0 \in Nat /\ k \in Nat /\ 0 <= k /\ k <= Len(all) /\ 0 + 1 = 1 /\ k - 0 = k
        /\ \A i \in 1..k : 0 + i = i
    BY <1>1
  <2>2. /\ SubSeq(all, 0 + 1, k) \in Seq(Seq(Octet)) /\ Len(SubSeq(all, 0 + 1, k)) = k - 0
        /\ \A i \in 1..(k - 0) : SubSeq(all, 0 + 1, k)[i] = all[0 + i]
    BY <1>1, <2>1, Part
  <2>3. fs \in Seq(Seq(Octet)) /\ Len(fs) = k /\ \A i \in 1..k : fs[i] = all[0 + i]
    BY <2>1, <2>2
  <2> HIDE DEF fs
  <2> QED BY <2>1, <2>3
<1> HIDE DEF fs
<1>4. h[j] \in Seq(Octet)
  <2>1. \A i \in 0..Len(fs) : h[i] \in Seq(Octet)
    BY <1>2, <1>3, FlattenIs
  <2> QED BY <1>2, <1>3, <2>1
<1>5. \A i \in 1..k : fs[i] = Encode(l, p, ds[i]).bytes
  <2>1. \A i \in 1..k : i \in 1..Len(ds)
    BY <1>1
  <2> QED BY <1>1, <1>3, <2>1
<1>6. Standing(l, p, ds, rd, w, k, h, j)
  BY <1>2, <1>3, <1>4, <1>5 DEF Standing, fs, all
<1> QED BY <1>6

\* w is the next frame with r behind it, and r follows that frame.
Follows(l, p, ds, k, h, j, w, r) ==
  /\ w = Encode(l, p, ds[j + 1]).bytes \o r
  /\ FlattenSeq(SubSeq(Frames(l, p, ds), 1, k)) = h[j + 1] \o r

\* What is left before the last frame begins with the next one.
LEMMA NextFrame ==
  ASSUME NEW l, NEW p, NEW ds, Made(l, p, ds), NEW k \in 0..Len(ds),
         NEW rd, NEW w \in Seq(Octet), NEW h, NEW j, Standing(l, p, ds, rd, w, k, h, j), j # k
  PROVE  \E r \in Seq(Octet) : Follows(l, p, ds, k, h, j, w, r)
<1> DEFINE fs == SubSeq(Frames(l, p, ds), 1, k)
           m == j + 1
           a == h[j]
           b == fs[m]
<1>1. /\ fs \in Seq(Seq(Octet)) /\ Len(fs) = k /\ Piles(h, fs)
      /\ j \in 0..k /\ a \in Seq(Octet) /\ FlattenSeq(fs) = a \o w
      /\ \A i \in 1..k : fs[i] = Encode(l, p, ds[i]).bytes
  BY DEF Standing
<1>2. k \in Nat
  BY FramesAre
<1>3. m \in 1..k /\ m \in 0..k /\ m - 1 = j
  BY <1>1, <1>2
<1> HIDE DEF fs, m
<1>4. PICK r \in Seq(Octet) : FlattenSeq(fs) = h[m] \o r
  <2>1. m \in 0..Len(fs)
    BY <1>1, <1>3
  <2>2. fs \in Seq(Seq(Octet)) /\ Piles(h, fs)
    BY <1>1
  <2>3. \E r \in Seq(Octet) : FlattenSeq(fs) = h[m] \o r
    BY <2>1, <2>2, PileRest
  <2> QED BY <2>3
<1>5. b \in Seq(Octet)
  BY <1>1, <1>3, ElementOfSeq
<1>6. h[m] = a \o b
  <2>1. h[m] = h[m - 1] \o fs[m]
    BY <1>1, <1>3 DEF Piles
  <2> QED BY <1>3, <2>1
<1>7. b = Encode(l, p, ds[m]).bytes
  BY <1>1, <1>3
<1> HIDE DEF a, b
<1> DEFINE c == b \o r
<1>8. c \in Seq(Octet)
  BY <1>5, Concat
<1>9. a \o w = a \o c
  <2>1. Grouped(a, b, r)
    BY <1>1, <1>5, GroupAgain
  <2> QED BY <1>1, <1>4, <1>6, <2>1 DEF Grouped
<1> HIDE DEF c
<1>10. w = c
  BY <1>1, <1>8, <1>9, ConcatSimplifications
<1>11. Follows(l, p, ds, k, h, j, w, r)
  BY <1>4, <1>7, <1>10 DEF c, m, fs, Follows
<1> QED BY <1>11

\* Verify has read all when nothing is left.
LEMMA ReadEnds ==
  ASSUME NEW l, NEW p, NEW ds, Made(l, p, ds), AllFit(l, p, ds), NEW k \in 0..Len(ds),
         NEW rd, ReadSome(l, p, ds, rd, <<>>, k)
  PROVE  rd = SubSeq(Written(l, p, ds), 1, k)
<1> DEFINE w == <<>>
<1>0. w \in Seq(Octet)
  BY EmptySeq
<1>1. PICK h, j : Standing(l, p, ds, rd, w, k, h, j)
  BY StandingIs
<1>2. rd = SubSeq(Written(l, p, ds), 1, j) /\ j \in 0..k
  BY <1>1 DEF Standing
<1>3. j = k
  <2> SUFFICES ASSUME j # k PROVE FALSE
    OBVIOUS
  <2> DEFINE m == j + 1
             e == Encode(l, p, ds[m])
  <2>1. m \in 1..Len(ds)
    BY <1>2, FramesAre
  <2>2. PICK r \in Seq(Octet) : w = e.bytes \o r
    <3> HIDE DEF w
    <3>1. PICK r \in Seq(Octet) : Follows(l, p, ds, k, h, j, w, r)
      BY <1>0, <1>1, <1>2, j # k, NextFrame
    <3> QED BY <3>1 DEF Follows
  <2>3. /\ Passed(l, p) /\ Whole(l, p, ds[m]) /\ e.ok /\ Fits(l, p, ds[m])
        /\ Len(e.bytes) < SizeT
    BY <2>1, MadeOne, FramesAre DEF Made, AllFit
  <2>4. e.bytes \in Seq(Octet) /\ Len(e.bytes) > 0
    BY <2>3, EncodeThenDecode
  <2> DEFINE b == e.bytes
  <2> HIDE DEF e, b
  <2>5. Len(b \o r) = Len(b) + Len(r) /\ Len(b) \in Nat /\ Len(r) \in Nat
    BY <2>4, Concat DEF b
  <2>6. Len(w) = 0
    OBVIOUS
  <2> QED BY <2>2, <2>4, <2>5, <2>6 DEF b
<1> QED BY <1>2, <1>3

\* One turn of verify.
LEMMA ReadOne ==
  ASSUME NEW l, NEW p, NEW ds, Made(l, p, ds), AllFit(l, p, ds), NEW k \in 0..Len(ds),
         NEW rd, NEW w \in Seq(Octet), w # <<>>, ReadSome(l, p, ds, rd, w, k),
         NEW d, d = Decode(l, p, w)
  PROVE  /\ d.ok
         /\ ReadSome(l, p, ds, Append(rd, d.value), SubSeq(w, d.consumed + 1, Len(w)), k)
<1>1. PICK h, j : Standing(l, p, ds, rd, w, k, h, j)
  BY StandingIs
<1> DEFINE fs == SubSeq(Frames(l, p, ds), 1, k)
           all == Written(l, p, ds)
           m == j + 1
           e == Encode(l, p, ds[m])
           b == e.bytes
<1>2. /\ rd = SubSeq(all, 1, j) /\ j \in 0..k /\ FlattenSeq(fs) = h[j] \o w
      /\ fs \in Seq(Seq(Octet)) /\ Len(fs) = k /\ Piles(h, fs) /\ h[j] \in Seq(Octet)
  BY <1>1 DEF Standing
<1>3. j # k
  <2> SUFFICES ASSUME j = k PROVE FALSE
    OBVIOUS
  <2>1. FlattenSeq(fs) = h[k]
    <3> HIDE DEF fs
    <3>1. FlattenSeq(fs) = h[Len(fs)]
      BY <1>2, FlattenIs
    <3> QED BY <1>2, <3>1
  <2>2. h[j] \o w = h[j]
    BY <1>2, <2>1
  <2> QED BY <1>2, <2>2, ConcatEqualIffEmpty
<1>4. m \in 1..Len(ds) /\ m \in 1..k /\ m \in 0..k /\ m - 1 = j
  BY <1>2, <1>3, FramesAre
<1>5. PICK r \in Seq(Octet) : w = b \o r /\ FlattenSeq(fs) = h[m] \o r
  <2>1. PICK r \in Seq(Octet) : Follows(l, p, ds, k, h, j, w, r)
    BY <1>1, <1>3, NextFrame
  <2> QED BY <2>1 DEF Follows
<1>6. /\ Passed(l, p) /\ Whole(l, p, ds[m]) /\ e.ok /\ Fits(l, p, ds[m])
      /\ Len(b) < SizeT
  BY <1>4, MadeOne, FramesAre DEF Made, AllFit
<1>7. b \in Seq(Octet)
  BY <1>6, EncodeThenDecode
<1>8. d.ok /\ d.value = Derived(l, p, ds[m]) /\ d.consumed = Len(b)
  <2>1. LET q == Decode(l, p, b \o r) IN q.ok /\ q.value = Derived(l, p, ds[m]) /\ q.consumed = Len(b)
    BY <1>6, EncodeThenDecode
  <2> HIDE DEF b
  <2> QED BY <1>5, <2>1
<1> HIDE DEF e, b
<1>9. SubSeq(w, d.consumed + 1, Len(w)) = r
  <2>1. SubSeq(b \o r, Len(b) + 1, Len(b \o r)) = r
    BY <1>7, FirstPart
  <2>2. w = b \o r
    BY <1>5
  <2> QED BY <1>8, <2>1, <2>2
<1>10. Append(rd, d.value) = SubSeq(all, 1, m)
  <2>1. PICK S : all \in Seq(S)
    BY WrittenAre
  <2>2. Len(all) = Len(ds) /\ all[m] = Derived(l, p, ds[m]) /\ Len(ds) \in Nat
    BY <1>4, WrittenAre, FramesAre
  <2> HIDE DEF all
  <2>3. 1 \in 1..Len(all) /\ m \in 1..Len(all)
    BY <1>4, <2>2
  <2>4. SubSeq(all, 1, m) = SubSeq(all, 1, m - 1) \o <<all[m]>>
    BY <2>1, <2>3, SubSeqRecursiveSecond
  <2>5. SubSeq(all, 1, m - 1) = rd
    BY <1>2, <1>4
  <2>6. rd \in Seq(S) /\ all[m] \in S
    <3>1. \A i \in 1..j : all[i] \in S
      BY <1>2, <1>4, <2>1, <2>2, ElementOfSeq
    <3>2. SubSeq(all, 1, j) \in Seq(S)
      BY <1>2, <3>1, SubSeqProperties
    <3> QED BY <1>2, <2>1, <2>3, <3>2, ElementOfSeq
  <2> DEFINE v == all[m]
  <2> HIDE DEF v
  <2>7. Append(rd, v) = rd \o <<v>>
    <3>1. rd \in Seq(S) /\ v \in S
      BY <2>6 DEF v
    <3> QED BY <3>1, AppendIsConcat
  <2>8. v = d.value
    BY <1>8, <2>2 DEF v
  <2> QED BY <2>4, <2>5, <2>7, <2>8 DEF v
<1>11. ReadSome(l, p, ds, SubSeq(all, 1, m), r, k)
  BY <1>2, <1>4, <1>5 DEF ReadSome
<1> QED BY <1>8, <1>9, <1>10, <1>11

----------------------------------------------------------------------------
(* The invariant *)

\* w is what encode has made of d.
Sent(l, p, d, w) ==
  d \in Values(l, p) /\ Encode(l, p, d).ok /\ w = Encode(l, p, d).bytes

\* w begins with what encode has made of d, if there was a d.
From(l, p, d, w) ==
  d # None =>
    /\ Whole(l, p, d) /\ Encode(l, p, d).ok /\ Len(Encode(l, p, d).bytes) < SizeT
    /\ \E t \in Seq(Octet) : w = Encode(l, p, d).bytes \o t

Tried(l, p, w, r) == r = Decode(l, p, w)

\* What a call has returned, by narrow lengths.
OnTime(l, p, s, r) == s \in {"described", "refused"} \/ Narrow(l, p) => Timely(r)

\* Between the calls of a codec.
CallOk(l, p, s, v, w, d, r) ==
  /\ l \in Libraries /\ w \in Seq(Octet) /\ OnTime(l, p, s, r)
  /\ s \notin {"described", "refused"} => Passed(l, p)
  /\ s \in {"described", "generated"} => d = None
  /\ s = "encoded" => Sent(l, p, d, w)
  /\ s \in {"received", "decoded", "failed"} => From(l, p, d, w)
  /\ s = "decoded" => Tried(l, p, w, r) /\ r.ok /\ v = r.value
  /\ s = "failed" /\ d # None => Tried(l, p, w, r) /\ ~r.ok
CallInv == CallOk(lib, name, stage, value, wire, sent, result)

\* The datagrams of a sink carry the frames of the values that were shipped.
Shipped(l, p, us, ds) == Made(l, p, ds) /\ Carrying(us, Frames(l, p, ds))

\* What the end of a sink leaves in the file.
Left(us, fl, ph) ==
  \/ ph = "open"
  \/ /\ ph \in {"closed", "crashed"} /\ CutOf(fl, FlattenSeq(us))
     /\ ph = "closed" => Len(fl) = Len(FlattenSeq(us))

SinkOk(l, p, s, f, id, us, fl, ph, ds) ==
  /\ f \in Flows /\ id \in Nat /\ id < 65536
  /\ s \notin {"described", "refused"} => Shipped(l, p, us, ds)
  /\ s \in {"described", "refused"} => us = <<>> /\ ds = <<>>
  /\ \A i \in DOMAIN us : Verified(f, us[i])
  /\ Left(us, fl, ph)
SinkInv == SinkOk(lib, name, stage, flow, ident, units, file, phase, shipped)

\* Of the first k frames some were read; all of them if verify has ended.
ReadAlong(l, p, s, w, ph, ds, rd) ==
  \E k \in 0..Len(ds) :
    /\ ph = "closed" => k = Len(ds)
    /\ ReadSome(l, p, ds, rd, w, k)
    /\ s = "verified" => rd = SubSeq(Written(l, p, ds), 1, k)

ReadOk(l, p, s, w, ph, ds, rd) ==
  /\ s \notin {"extracted", "verified", "unverified"} => rd = <<>>
  /\ s = "cut" => ph = "crashed"
  /\ AllFit(l, p, ds) =>
       /\ s # "unverified"
       /\ s \in {"extracted", "verified"} => ReadAlong(l, p, s, w, ph, ds, rd)
ReadInv == ReadOk(lib, name, stage, wire, phase, shipped, read)

LabInv == CallInv /\ SinkInv /\ ReadInv

----------------------------------------------------------------------------
(* What follows from it *)

\* The bits of an accepted field are in the header.
LEMMA InvTouches ==
  ASSUME LabInv
  PROVE  TouchesItsHeader
<1> SUFFICES ASSUME Accepted, NEW p \in DOMAIN lib
             PROVE  StaysInHeader(lib[p])
  BY DEF TouchesItsHeader
<1>1. Passed(lib, p)
  BY DEF LabInv, CallInv, CallOk, Accepted, Passed
<1> QED BY <1>1, PassedStays

\* Decode ends on time.
LEMMA InvLoopEnds ==
  ASSUME LabInv
  PROVE  LoopEndsOnTime
<1> SUFFICES ASSUME Accepted, Narrow(lib, name)
             PROVE  /\ result.ok = FALSE =>
                         result.error \notin {"overran", "consumed nothing", "undefined"}
                    /\ stage = "decoded" => result.consumed \in 1..Len(wire)
                    /\ stage = "extracted" /\ "consumed" \in DOMAIN result => result.consumed > 0
  BY DEF LoopEndsOnTime
<1>1. /\ Timely(result) /\ wire \in Seq(Octet)
      /\ stage = "decoded" => Passed(lib, name) /\ Tried(lib, name, wire, result) /\ result.ok
  BY DEF LabInv, CallInv, CallOk, OnTime
<1>2. ASSUME stage = "decoded" PROVE result.consumed \in 1..Len(wire)
  <2>1. result = Decode(lib, name, wire) /\ result.ok /\ Passed(lib, name)
    BY <1>1, <1>2 DEF Tried
  <2>2. ASSUME NEW why, result = Failed(why) PROVE FALSE
    BY <2>1, <2>2 DEF Failed
  <2> QED BY <1>1, <2>1, <2>2, DecodeEnds
<1> QED BY <1>1, <1>2 DEF Timely

\* What was encoded is read back.
LEMMA InvReadsBack ==
  ASSUME LabInv
  PROVE  EncodedReadsBack
<1> SUFFICES ASSUME Accepted, sent # None, stage \in {"decoded", "failed"},
                    Fits(lib, name, sent)
             PROVE  /\ stage = "decoded"
                    /\ value = Derived(lib, name, sent)
                    /\ result.consumed = Len(Encode(lib, name, sent).bytes)
  BY DEF EncodedReadsBack
<1> DEFINE b == Encode(lib, name, sent).bytes
<1>1. /\ Passed(lib, name) /\ From(lib, name, sent, wire) /\ Tried(lib, name, wire, result)
      /\ stage = "decoded" => value = result.value
      /\ stage = "failed" => ~result.ok
  BY DEF LabInv, CallInv, CallOk, Accepted
<1>2. PICK t \in Seq(Octet) : wire = b \o t
  BY <1>1 DEF From
<1>3. Whole(lib, name, sent) /\ Encode(lib, name, sent).ok /\ Len(b) < SizeT
  BY <1>1 DEF From
<1>4. LET r == Decode(lib, name, b \o t) IN
      r.ok /\ r.value = Derived(lib, name, sent) /\ r.consumed = Len(b)
  BY <1>1, <1>3, EncodeThenDecode
<1> HIDE DEF b
<1>5. result = Decode(lib, name, b \o t)
  BY <1>1, <1>2 DEF Tried
<1>6. result.ok /\ result.value = Derived(lib, name, sent) /\ result.consumed = Len(b)
  BY <1>4, <1>5
<1> QED BY <1>1, <1>6 DEF b

\* What was decoded is written back.
LEMMA InvWritesBack ==
  ASSUME LabInv
  PROVE  DecodedWritesBack
<1> SUFFICES ASSUME Accepted, stage = "decoded", Lossless(lib, name), Narrow(lib, name)
             PROVE  Encode(lib, name, value) = Bytes(SubSeq(wire, 1, result.consumed))
  BY DEF DecodedWritesBack
<1>1. /\ Passed(lib, name) /\ wire \in Seq(Octet)
      /\ result = Decode(lib, name, wire) /\ result.ok /\ value = result.value
  BY DEF LabInv, CallInv, CallOk, Tried
<1>2. Encode(lib, name, Decode(lib, name, wire).value) =
        Bytes(SubSeq(wire, 1, Decode(lib, name, wire).consumed))
  BY <1>1, DecodeThenEncode
<1> QED BY <1>1, <1>2

\* Datagrams that a receiver accepts.
LEMMA InvChecksums ==
  ASSUME LabInv
  PROVE  ChecksumsVerify
<1>1. \A i \in DOMAIN units : Verified(flow, units[i])
  BY DEF LabInv, SinkInv, SinkOk
<1> QED BY <1>1 DEF ChecksumsVerify, Sink!ChecksumsVerify, Verified

\* A beginning of a sequence, in the sense of SequencesExt.
LEMMA PrefixOf ==
  ASSUME NEW S, NEW t \in Seq(S), NEW k \in 0..Len(t), NEW s, s = SubSeq(t, 1, k)
  PROVE  IsPrefix(s, t)
<1>1. Len(s) = k /\ s \in Seq(S)
  <2>1. \A i \in 1..k : t[i] \in S
    BY ElementOfSeq
  <2> QED BY <2>1, SubSeqProperties
<1>2. SubSeq(s, 1, Len(s)) = s
  BY <1>1, SubSeqFull
<1> HIDE DEF IsPrefix
<1>3. k <= Len(t)
  BY LenProperties
<1>4. SubSeq(s, 1, Len(s)) = SubSeq(t, 1, Len(s))
  BY <1>1, <1>2
<1> QED BY <1>1, <1>3, <1>4 DEF IsPrefix

\* What verify reads is what was written.
LEMMA InvFile ==
  ASSUME LabInv
  PROVE  FileReadsBack
<1> DEFINE written == Written(lib, name, shipped)
<1> SUFFICES ASSUME AllFit(lib, name, shipped)
             PROVE  /\ IsPrefix(read, written)
                    /\ stage # "unverified"
                    /\ stage = "verified" /\ phase = "closed" => read = written
                    /\ stage = "cut" => phase = "crashed"
  BY DEF FileReadsBack, AllFit, Written
<1>1. /\ stage \notin {"extracted", "verified", "unverified"} => read = <<>>
      /\ stage = "cut" => phase = "crashed"
      /\ stage # "unverified"
      /\ stage \in {"extracted", "verified"} =>
           ReadAlong(lib, name, stage, wire, phase, shipped, read)
  BY DEF LabInv, ReadInv, ReadOk
<1>2. CASE stage \in {"described", "refused"}
  <2>1. shipped = <<>> /\ read = <<>>
    BY <1>1, <1>2 DEF LabInv, SinkInv, SinkOk
  <2>2. written = <<>>
    BY <2>1 DEF Written
  <2>3. IsPrefix(read, written)
    BY <2>1, <2>2, EmptySeq, PrefixOf, SubSeqEmpty DEF IsPrefix
  <2> QED BY <1>1, <1>2, <2>3
<1>3. CASE stage \notin {"described", "refused"}
  <2>1. Made(lib, name, shipped)
    BY <1>3 DEF LabInv, SinkInv, SinkOk, Shipped
  <2>2. PICK S : written \in Seq(S)
    BY <2>1, WrittenAre
  <2>3. Len(written) = Len(shipped) /\ Len(shipped) \in Nat
    BY <2>1, WrittenAre, FramesAre
  <2> HIDE DEF written
  <2>4. CASE stage \notin {"extracted", "verified"}
    <3>1. read = SubSeq(written, 1, 0)
      <4>1. read = <<>>
        BY <1>1, <2>4
      <4> QED BY <4>1, SubSeqEmpty
    <3>2. 0 \in 0..Len(written)
      BY <2>3
    <3>3. IsPrefix(read, written)
      BY <2>2, <3>1, <3>2, PrefixOf
    <3> QED BY <1>1, <2>4, <3>3
  <2>5. CASE stage \in {"extracted", "verified"}
    <3>1. PICK k \in 0..Len(shipped) :
             /\ phase = "closed" => k = Len(shipped)
             /\ ReadSome(lib, name, shipped, read, wire, k)
             /\ stage = "verified" => read = SubSeq(written, 1, k)
      BY <1>1, <2>5 DEF ReadAlong, written
    <3>2. PICK j \in 0..k : read = SubSeq(written, 1, j)
      BY <3>1 DEF ReadSome, written
    <3>3. j \in 0..Len(written)
      BY <2>3, <3>1, <3>2
    <3>4. IsPrefix(read, written)
      BY <2>2, <3>2, <3>3, PrefixOf
    <3>5. ASSUME stage = "verified", phase = "closed" PROVE read = written
      <4>1. read = SubSeq(written, 1, Len(written))
        BY <2>3, <3>1, <3>5
      <4> QED BY <2>2, <4>1, SubSeqFull
    <3> QED BY <1>1, <3>4, <3>5
  <2> QED BY <2>4, <2>5
<1> QED BY <1>2, <1>3

----------------------------------------------------------------------------
(* It holds at first *)

\* A sink that was given nothing.
LEMMA NoUnits ==
  ASSUME NEW l, NEW p, Passed(l, p)
  PROVE  Shipped(l, p, <<>>, <<>>)
<1> DEFINE us == <<>>
           fs == Frames(l, p, us)
<1>1. us \in Seq(Seq(Octet)) /\ us \in Seq(Values(l, p)) /\ Len(us) = 0
  BY EmptySeq
<1>2. Made(l, p, us)
  <2> HIDE DEF us
  <2> QED BY <1>1 DEF Made
<1> HIDE DEF us
<1>3. fs \in Seq(Seq(Octet)) /\ Len(fs) = Len(us)
  BY <1>2, FramesAre
<1> HIDE DEF fs
<1>4. Carrying(us, fs)
  BY <1>1, <1>3 DEF Carrying
<1> QED BY <1>2, <1>4 DEF Shipped, fs, us

\* Nothing is read yet.
LEMMA ReadIdle ==
  ASSUME NEW l, NEW p, NEW s, s \notin {"extracted", "verified", "unverified", "cut"},
         NEW w, NEW ph, NEW ds, NEW rd, rd = <<>>
  PROVE  ReadOk(l, p, s, w, ph, ds, rd)
BY DEF ReadOk

\* The invariant holds at first.
LEMMA InvInit ==
  ASSUME Init
  PROVE  LabInv
<1>1. /\ lib \in Libraries /\ stage = "described" /\ value = None /\ wire = <<>>
      /\ sent = None /\ result = Failed("not called")
  BY Zenon DEF Init, Uncalled
<1>2. /\ flow \in Flows /\ ident = 0 /\ phase = "open" /\ units = <<>> /\ file = <<>>
      /\ shipped = <<>> /\ read = <<>>
  BY Zenon DEF Init, Sink!Opened
<1>3. CallInv
  <2>1. Timely(result)
    BY <1>1, FailsTimely
  <2>2. wire \in Seq(Octet)
    BY <1>1, EmptySeq
  <2> QED BY <1>1, <2>1, <2>2 DEF CallInv, CallOk, OnTime
<1>4. SinkInv
  <2>1. Left(units, file, phase)
    BY <1>2 DEF Left
  <2>2. \A i \in DOMAIN units : Verified(flow, units[i])
    BY <1>2
  <2>3. ident \in Nat /\ ident < 65536
    BY <1>2
  <2>4. flow \in Flows /\ units = <<>> /\ shipped = <<>> /\ stage \in {"described", "refused"}
    BY <1>1, <1>2
  <2> QED BY <2>1, <2>2, <2>3, <2>4 DEF SinkInv, SinkOk
<1>5. ReadInv
  BY <1>1, <1>2, ReadIdle DEF ReadInv
<1> QED BY <1>3, <1>4, <1>5 DEF LabInv

----------------------------------------------------------------------------
(* The calls of a codec keep it *)

\* A call leaves the sink alone.
LEMMA SinkLeft ==
  ASSUME SinkInv, UNCHANGED fileVars, lib' = lib, name' = name,
         stage \notin {"described", "refused"}, stage' \notin {"described", "refused"}
  PROVE  SinkInv'
<1>1. UNCHANGED <<flow, ident, units, file, phase, shipped>>
  BY DEF fileVars, sinkVars
<1> QED BY <1>1 DEF SinkInv, SinkOk

\* A call leaves what verify has read alone.
LEMMA ReadLeft ==
  ASSUME ReadInv, UNCHANGED read,
         stage \notin {"extracted", "verified", "unverified"},
         stage' \notin {"extracted", "verified", "unverified", "cut"}
  PROVE  ReadInv'
<1>1. read' = <<>>
  BY DEF ReadInv, ReadOk
<1> QED BY <1>1, ReadIdle DEF ReadInv

\* codegen.py, once.
LEMMA GeneratesKeeps ==
  ASSUME LabInv, Generates, UNCHANGED fileVars
  PROVE  LabInv'
<1>1. /\ stage = "described" /\ stage' \in {"generated", "refused"} /\ lib' = lib
      /\ wire' = wire /\ sent' = sent /\ result' = result
      /\ name' \in DOMAIN lib
      /\ stage' = "generated" => \A p \in DOMAIN lib : Lints(lib[p], DOMAIN lib)
  BY DEF Generates
<1>2. UNCHANGED <<flow, ident, units, file, phase, shipped, read>>
  BY DEF fileVars, sinkVars
<1>3. /\ lib \in Libraries /\ wire \in Seq(Octet) /\ Timely(result) /\ sent = None
  BY <1>1 DEF LabInv, CallInv, CallOk, OnTime
<1>4. stage' = "generated" => Passed(lib, name')
  BY <1>1, <1>3 DEF Passed
<1>5. CallInv'
  BY <1>1, <1>3, <1>4 DEF CallInv, CallOk, OnTime
<1>6. SinkInv'
  <2>1. /\ flow \in Flows /\ ident \in Nat /\ ident < 65536 /\ units = <<>> /\ shipped = <<>>
        /\ (\A i \in DOMAIN units : Verified(flow, units[i])) /\ Left(units, file, phase)
    BY <1>1 DEF LabInv, SinkInv, SinkOk
  <2>2. stage' = "generated" => Shipped(lib, name', units, shipped)
    BY <1>4, <2>1, NoUnits
  <2> QED BY <1>1, <1>2, <2>1, <2>2 DEF SinkInv, SinkOk
<1>7. ReadInv'
  BY <1>1, <1>2, ReadLeft DEF LabInv
<1> QED BY <1>5, <1>6, <1>7 DEF LabInv

\* A call of encode.
LEMMA EncodesKeeps ==
  ASSUME LabInv, Encodes, UNCHANGED fileVars
  PROVE  LabInv'
<1>1. PICK d \in Values(lib, name) :
        /\ result' = Encode(lib, name, d)
        /\ IF result'.ok THEN stage' = "encoded" /\ wire' = result'.bytes /\ sent' = d
           ELSE stage' = "failed" /\ UNCHANGED <<wire, sent>>
  BY DEF Encodes
<1>2. stage = "generated" /\ lib' = lib /\ name' = name /\ stage' \in {"encoded", "failed"}
  BY <1>1 DEF Encodes
<1>3. lib \in Libraries /\ wire \in Seq(Octet) /\ Passed(lib, name) /\ sent = None
  BY <1>2 DEF LabInv, CallInv, CallOk
<1> DEFINE e == Encode(lib, name, d)
<1>4. Encoded(e)
  BY <1>3, WholeValues, EncodeType
<1>5. Timely(e)
  BY <1>4, EncodeTimely
<1>6. e.ok => e.bytes \in Seq(Octet)
  BY <1>4, EncodedBytes
<1>7. CallInv'
  <2>1. CASE e.ok
    <3>1. stage' = "encoded" /\ wire' = e.bytes /\ sent' = d
      BY <1>1, <2>1
    <3>2. Sent(lib, name, d, e.bytes)
      BY <2>1 DEF Sent
    <3> HIDE DEF e
    <3> QED BY <1>1, <1>2, <1>3, <1>5, <1>6, <2>1, <3>1, <3>2 DEF CallInv, CallOk, OnTime, e
  <2>2. CASE ~e.ok
    <3>1. stage' = "failed" /\ wire' = wire /\ sent' = None
      BY <1>1, <1>3, <2>2
    <3>2. From(lib, name, None, wire)
      BY DEF From
    <3> HIDE DEF e
    <3> QED BY <1>1, <1>2, <1>3, <1>5, <3>1, <3>2 DEF CallInv, CallOk, OnTime, e
  <2> QED BY <2>1, <2>2
<1>8. SinkInv' /\ ReadInv'
  <2>1. read' = read
    BY DEF fileVars
  <2> QED BY <1>2, <2>1, SinkLeft, ReadLeft DEF LabInv
<1> QED BY <1>7, <1>8 DEF LabInv

\* An input for decode.
LEMMA ReceivesKeeps ==
  ASSUME LabInv, Receives, UNCHANGED fileVars
  PROVE  LabInv'
<1>1. /\ stage \in {"encoded", "generated"} /\ stage' = "received"
      /\ lib' = lib /\ name' = name /\ sent' = sent /\ result' = result
  BY DEF Receives
<1>2. /\ lib \in Libraries /\ wire \in Seq(Octet) /\ Passed(lib, name)
      /\ Narrow(lib, name) => Timely(result)
  BY <1>1 DEF LabInv, CallInv, CallOk, OnTime
<1>3. wire' \in Seq(Octet) /\ From(lib, name, sent, wire')
  <2>1. CASE stage = "encoded"
    <3>1. PICK t \in Tails : wire' = wire \o t
      BY <2>1 DEF Receives
    <3>2. t \in Seq(Octet)
      BY CodecAssumption
    <3>3. wire \o t \in Seq(Octet)
      BY <1>2, <3>2, ConcatProperties
    <3>4. Sent(lib, name, sent, wire)
      BY <2>1 DEF LabInv, CallInv, CallOk
    <3>5. /\ Whole(lib, name, sent) /\ Encode(lib, name, sent).ok
          /\ wire = Encode(lib, name, sent).bytes /\ Len(Encode(lib, name, sent).bytes) < SizeT
      BY <1>2, <3>4, WholeValues, InMemory DEF Sent
    <3>6. From(lib, name, sent, wire')
      BY <3>1, <3>2, <3>5 DEF From
    <3> QED BY <3>1, <3>3, <3>6
  <2>2. CASE stage = "generated"
    <3>1. wire' \in Wires
      BY <2>2 DEF Receives
    <3>2. sent = None
      BY <2>2 DEF LabInv, CallInv, CallOk
    <3>3. From(lib, name, sent, wire')
      BY <3>2 DEF From
    <3> QED BY <3>1, <3>3, CodecAssumption
  <2> QED BY <1>1, <2>1, <2>2
<1>4. CallInv'
  BY <1>1, <1>2, <1>3 DEF CallInv, CallOk, OnTime
<1>5. SinkInv' /\ ReadInv'
  <2>1. read' = read
    BY DEF fileVars
  <2> QED BY <1>1, <2>1, SinkLeft, ReadLeft DEF LabInv
<1> QED BY <1>4, <1>5 DEF LabInv

\* A call of decode.
LEMMA DecodesKeeps ==
  ASSUME LabInv, Decodes, UNCHANGED fileVars
  PROVE  LabInv'
<1>1. /\ stage = "received" /\ stage' \in {"decoded", "failed"}
      /\ lib' = lib /\ name' = name /\ sent' = sent /\ wire' = wire
      /\ result' = Decode(lib, name, wire)
      /\ stage' = "decoded" => result'.ok /\ value' = result'.value
      /\ stage' = "failed" => ~result'.ok
  BY DEF Decodes
<1>2. /\ lib \in Libraries /\ wire \in Seq(Octet) /\ Passed(lib, name)
      /\ From(lib, name, sent, wire)
  BY <1>1 DEF LabInv, CallInv, CallOk
<1>3. Narrow(lib, name) => Timely(result')
  BY <1>1, <1>2, DecodeTimely
<1>4. Tried(lib, name, wire, result')
  BY <1>1 DEF Tried
<1>5. CallInv'
  BY <1>1, <1>2, <1>3, <1>4 DEF CallInv, CallOk, OnTime
<1>6. SinkInv' /\ ReadInv'
  <2>1. read' = read
    BY DEF fileVars
  <2> QED BY <1>1, <2>1, SinkLeft, ReadLeft DEF LabInv
<1> QED BY <1>5, <1>6 DEF LabInv

----------------------------------------------------------------------------
(* The gateway and the sink keep it *)

\* One frame more in the sink.
LEMMA ShippedMore ==
  ASSUME NEW l, NEW p, NEW us, NEW ds, Shipped(l, p, us, ds), NEW d, NEW w, NEW u,
         Sent(l, p, d, w), Carries(u, w)
  PROVE  Shipped(l, p, Append(us, u), Append(ds, d))
<1> DEFINE us2 == Append(us, u)
           ds2 == Append(ds, d)
           n == Len(ds)
           fs == Frames(l, p, ds)
           fs2 == Frames(l, p, ds2)
<1>1. /\ Passed(l, p) /\ ds \in Seq(Values(l, p)) /\ d \in Values(l, p)
      /\ \A i \in 1..n : Encode(l, p, ds[i]).ok
      /\ Encode(l, p, d).ok /\ w = Encode(l, p, d).bytes
  BY DEF Shipped, Made, Sent
<1>2. /\ ds2 \in Seq(Values(l, p)) /\ Len(ds2) = n + 1 /\ ds2[n + 1] = d
      /\ \A i \in 1..n : ds2[i] = ds[i]
  BY <1>1, AppendProperties
<1>3. n \in Nat
  BY <1>1, LenProperties
<1> HIDE DEF ds2
<1>4. Made(l, p, ds2)
  <2>1. \A i \in 1..(n + 1) : i = n + 1 \/ i \in 1..n
    BY <1>3
  <2>2. \A i \in 1..(n + 1) : Encode(l, p, ds2[i]).ok
    BY <1>1, <1>2, <2>1
  <2> QED BY <1>1, <1>2, <2>2 DEF Made
<1>5. /\ fs \in Seq(Seq(Octet)) /\ Len(fs) = n
      /\ \A i \in 1..n : fs[i] = Encode(l, p, ds[i]).bytes
  BY FramesAre DEF Shipped
<1>6. /\ fs2 \in Seq(Seq(Octet)) /\ Len(fs2) = n + 1
      /\ \A i \in 1..(n + 1) : fs2[i] = Encode(l, p, ds2[i]).bytes
  BY <1>2, <1>4, FramesAre
<1>7. /\ us \in Seq(Seq(Octet)) /\ Len(us) = n /\ u \in Seq(Octet)
      /\ \A i \in 1..n : Carries(us[i], fs[i])
  <2>1. u \in Seq(Octet)
    BY DEF Carries
  <2>2. Carrying(us, fs)
    BY DEF Shipped
  <2> HIDE DEF fs
  <2> QED BY <1>5, <2>1, <2>2 DEF Carrying
<1> HIDE DEF fs, fs2
<1>8. /\ us2 \in Seq(Seq(Octet)) /\ Len(us2) = n + 1 /\ us2[n + 1] = u
      /\ \A i \in 1..n : us2[i] = us[i]
  BY <1>7, AppendProperties
<1> HIDE DEF us2
<1>9. ASSUME NEW i \in 1..(n + 1) PROVE Carries(us2[i], fs2[i])
  <2>1. CASE i \in 1..n
    <3>1. fs2[i] = fs[i]
      BY <1>2, <1>5, <1>6, <2>1
    <3> QED BY <1>7, <1>8, <2>1, <3>1
  <2>2. CASE i = n + 1
    <3>1. fs2[i] = w
      BY <1>1, <1>2, <1>6, <2>2
    <3> QED BY <1>8, <2>2, <3>1
  <2> QED BY <1>3, <2>1, <2>2
<1>10. Carrying(us2, fs2)
  BY <1>6, <1>8, <1>9 DEF Carrying
<1> QED BY <1>4, <1>10 DEF Shipped, us2, ds2, fs2

\* A write to the sink.
LEMMA ShipsKeeps ==
  ASSUME LabInv, Ships
  PROVE  LabInv'
<1> DEFINE u == Sink!Encapsulate(flow, ident, wire)
<1>1. /\ stage = "encoded" /\ stage' = "generated" /\ sent' = None
      /\ lib' = lib /\ name' = name /\ wire' = wire /\ result' = result /\ read' = read
      /\ shipped' = IF units' = units THEN shipped ELSE Append(shipped, sent)
  BY DEF Ships
<1>2. /\ phase = "open" /\ ident' = (ident + 1) % 65536
      /\ flow' = flow /\ file' = file /\ phase' = phase
      /\ units' = IF u = <<>> THEN units ELSE Append(units, u)
  BY DEF Ships, Sink!Writes
<1>3. /\ lib \in Libraries /\ wire \in Seq(Octet) /\ Passed(lib, name) /\ (Narrow(lib, name) => Timely(result))
      /\ Sent(lib, name, sent, wire)
  BY <1>1 DEF LabInv, CallInv, CallOk, OnTime
<1>4. CallInv'
  BY <1>1, <1>3 DEF CallInv, CallOk, OnTime
<1>5. ReadInv'
  BY <1>1, ReadLeft DEF LabInv
<1>6. /\ flow \in Flows /\ ident \in Nat /\ ident < 65536
      /\ Shipped(lib, name, units, shipped)
      /\ \A i \in DOMAIN units : Verified(flow, units[i])
  BY <1>1 DEF LabInv, SinkInv, SinkOk
<1>7. u = <<>> \/ (Carries(u, wire) /\ Verified(flow, u))
  BY <1>3, <1>6, RefusedOrCarried
<1> HIDE DEF u
<1>8. ident' \in Nat /\ ident' < 65536
  BY <1>2, <1>6
<1>9. Left(units', file', phase')
  BY <1>2 DEF Left
<1>10. Shipped(lib, name, units', shipped') /\ \A i \in DOMAIN units' : Verified(flow, units'[i])
  <2>1. CASE u = <<>>
    BY <1>1, <1>2, <1>6, <2>1
  <2>2. CASE u # <<>>
    <3> DEFINE n == Len(units)
               us2 == Append(units, u)
    <3>1. units \in Seq(Seq(Octet)) /\ u \in Seq(Octet)
      BY <1>6, <1>7, <2>2 DEF Shipped, Carrying, Carries
    <3>2. /\ Len(us2) = n + 1 /\ us2[n + 1] = u /\ DOMAIN us2 = 1..(n + 1)
          /\ \A i \in 1..n : us2[i] = units[i]
      BY <3>1, AppendProperties, LenProperties
    <3>3. n \in Nat /\ DOMAIN units = 1..n
      BY <3>1, LenProperties
    <3>4. units' = us2
      BY <1>2, <2>2
    <3> HIDE DEF us2
    <3>5. units' # units
      <4>1. n + 1 # n
        <5>1. n \in Nat
          BY <3>3
        <5> HIDE DEF n
        <5> QED BY <5>1
      <4> QED BY <3>2, <3>4, <4>1
    <3>6. shipped' = Append(shipped, sent)
      BY <1>1, <3>5
    <3>7. Shipped(lib, name, us2, Append(shipped, sent))
      BY <1>3, <1>6, <1>7, <2>2, ShippedMore DEF us2
    <3>8. ASSUME NEW i \in 1..(n + 1) PROVE Verified(flow, us2[i])
      <4>1. CASE i \in 1..n
        BY <1>6, <3>2, <3>3, <4>1
      <4>2. CASE i = n + 1
        BY <1>7, <2>2, <3>2, <4>2
      <4> QED BY <3>3, <4>1, <4>2
    <3> QED BY <3>2, <3>4, <3>6, <3>7, <3>8
  <2> QED BY <2>1, <2>2
<1>11. SinkInv'
  BY <1>1, <1>2, <1>6, <1>8, <1>9, <1>10 DEF SinkInv, SinkOk
<1> QED BY <1>4, <1>5, <1>11 DEF LabInv

\* The orderly or disorderly end of the sink.
LEMMA SinkEndsKeeps ==
  ASSUME LabInv, SinkEnds
  PROVE  LabInv'
<1>1. stage = "generated" /\ UNCHANGED <<callVars, shipped, read>>
      /\ (Sink!Closes \/ Sink!Crashes)
  BY DEF SinkEnds
<1>2. UNCHANGED <<lib, name, stage, value, wire, sent, result, shipped, read>>
  BY <1>1 DEF callVars
<1>3. /\ flow \in Flows /\ ident \in Nat /\ ident < 65536
      /\ Shipped(lib, name, units, shipped)
      /\ \A i \in DOMAIN units : Verified(flow, units[i])
  BY <1>1 DEF LabInv, SinkInv, SinkOk
<1> DEFINE all == FlattenSeq(units)
<1>4. all \in Seq(Octet) /\ Len(all) \in Nat
  <2>1. units \in Seq(Seq(Octet))
    BY <1>3 DEF Shipped, Carrying
  <2>2. all \in Seq(Octet)
    BY <2>1, FlattenType
  <2> QED BY <2>2, LenProperties
<1>5. flow' = flow /\ ident' = ident /\ units' = units
  BY <1>1 DEF Sink!Closes, Sink!Crashes
<1>6. Left(units, file', phase')
  <2>1. CASE Sink!Closes
    <3>1. phase' = "closed" /\ file' = all
      BY <2>1, SameFlatten DEF Sink!Closes
    <3> HIDE DEF all
    <3>2. CutOf(all, all)
      BY <1>4 DEF CutOf
    <3> QED BY <3>1, <3>2 DEF Left, all
  <2>2. CASE Sink!Crashes
    <3>1. phase' = "crashed"
      BY <2>2 DEF Sink!Crashes
    <3>2. PICK n \in 0..Len(all) : file' = SubSeq(all, 1, n)
      BY <2>2, SameFlatten DEF Sink!Crashes
    <3> HIDE DEF all
    <3>3. CutOf(file', all)
      BY <1>4, <3>2, CutIs
    <3> QED BY <3>1, <3>3 DEF Left, all
  <2> QED BY <1>1, <2>1, <2>2
<1>7. CallInv'
  BY <1>2 DEF LabInv, CallInv
<1>8. SinkInv'
  BY <1>1, <1>2, <1>3, <1>5, <1>6 DEF SinkInv, SinkOk
<1>9. ReadInv'
  BY <1>1, <1>2, ReadLeft DEF LabInv
<1> QED BY <1>7, <1>8, <1>9 DEF LabInv

----------------------------------------------------------------------------
(* What is read from the file keeps it *)

\* m8_bin_to_pcap.py on the file.
LEMMA ExtractsKeeps ==
  ASSUME LabInv, Extracts
  PROVE  LabInv'
<1> DEFINE out == Sink!ExtractAll(file)
           fs == Frames(lib, name, shipped)
           n == Len(shipped)
<1>1. /\ stage = "generated" /\ phase # "open"
      /\ stage' = (IF out.ok THEN "extracted" ELSE "cut") /\ wire' = out.payload
      /\ UNCHANGED <<lib, name, value, sent, result>> /\ UNCHANGED fileVars
  BY DEF Extracts
<1>2. UNCHANGED <<flow, ident, units, file, phase, shipped, read>>
  BY <1>1 DEF fileVars, sinkVars
<1>3. /\ lib \in Libraries /\ (Narrow(lib, name) => Timely(result)) /\ Passed(lib, name) /\ read = <<>>
  BY <1>1 DEF LabInv, CallInv, CallOk, OnTime, ReadInv, ReadOk
<1>4. /\ Made(lib, name, shipped) /\ Carrying(units, fs) /\ phase \in {"closed", "crashed"}
      /\ CutOf(file, FlattenSeq(units))
      /\ phase = "closed" => Len(file) = Len(FlattenSeq(units))
  BY <1>1 DEF LabInv, SinkInv, SinkOk, Shipped, Left
<1>5. fs \in Seq(Seq(Octet)) /\ Len(fs) = n /\ n \in Nat
  BY <1>4, FramesAre
<1> HIDE DEF fs
<1>6. Extracted(fs, Len(file) = Len(FlattenSeq(units)), out)
  BY <1>4, ExtractAllIs
<1> HIDE DEF out
<1>7. /\ out = NothingOut \/ \E k \in 0..n : out = PayloadOut(FlattenSeq(SubSeq(fs, 1, k)))
      /\ phase = "closed" => out = PayloadOut(FlattenSeq(fs))
  BY <1>4, <1>5, <1>6 DEF Extracted
<1>8. CASE out = NothingOut
  <2>1. ~out.ok /\ out.payload = <<>>
    BY <1>8 DEF NothingOut
  <2>2. stage' = "cut" /\ wire' = <<>>
    BY <1>1, <2>1
  <2>3. phase = "crashed"
    <3>1. ASSUME phase = "closed" PROVE FALSE
      <4>1. out = PayloadOut(FlattenSeq(fs))
        BY <1>7, <3>1
      <4>2. out.ok
        BY <4>1 DEF PayloadOut
      <4> QED BY <2>1, <4>2
    <3> QED BY <1>4, <3>1
  <2>4. wire' \in Seq(Octet)
    BY <2>2, EmptySeq
  <2>5. CallInv'
    BY <1>1, <1>3, <2>2, <2>4 DEF CallInv, CallOk, OnTime
  <2>6. SinkInv'
    BY <1>1, <1>2, <2>2 DEF LabInv, SinkInv, SinkOk
  <2>7. ReadInv'
    BY <1>2, <1>3, <2>2, <2>3 DEF ReadInv, ReadOk
  <2> QED BY <2>5, <2>6, <2>7 DEF LabInv
<1>9. CASE out # NothingOut
  <2> DEFINE Part1(k) == FlattenSeq(SubSeq(fs, 1, k))
  <2>1. PICK k \in 0..n : out = PayloadOut(Part1(k)) /\ (phase = "closed" => k = n)
    <3>1. CASE phase = "closed"
      <4>1. SubSeq(fs, 1, n) = fs
        BY <1>5, SubSeqFull
      <4>2. out = PayloadOut(Part1(n))
        BY <1>7, <3>1, <4>1
      <4> QED BY <1>5, <4>2
    <3>2. CASE phase # "closed"
      BY <1>7, <1>9, <3>2
    <3> QED BY <3>1, <3>2
  <2>2. out.ok /\ out.payload = Part1(k)
    BY <2>1 DEF PayloadOut
  <2>3. stage' = "extracted" /\ wire' = Part1(k)
    BY <1>1, <2>2
  <2>4. wire' \in Seq(Octet)
    <3>1. \A i \in 1..k : fs[i] \in Seq(Octet)
      BY <1>5, ElementOfSeq
    <3>2. SubSeq(fs, 1, k) \in Seq(Seq(Octet))
      BY <1>5, <3>1, SubSeqProperties
    <3>3. Part1(k) \in Seq(Octet)
      BY <3>2, FlattenType
    <3> QED BY <2>3, <3>3
  <2>5. CallInv'
    BY <1>1, <1>3, <2>3, <2>4 DEF CallInv, CallOk, OnTime
  <2>6. SinkInv'
    BY <1>1, <1>2, <2>3 DEF LabInv, SinkInv, SinkOk
  <2>7. ReadSome(lib, name, shipped, <<>>, wire', k)
    BY <1>4, <2>3, ReadStart DEF fs
  <2>8. ReadAlong(lib, name, "extracted", wire', phase, shipped, <<>>)
    BY <2>1, <2>7 DEF ReadAlong
  <2>9. ReadInv'
    BY <1>1, <1>2, <1>3, <2>3, <2>8 DEF ReadInv, ReadOk
  <2> QED BY <2>5, <2>6, <2>9 DEF LabInv
<1> QED BY <1>8, <1>9

\* A turn of verify.
LEMMA VerifiesKeeps ==
  ASSUME LabInv, Verifies
  PROVE  LabInv'
<1> DEFINE r == Decode(lib, name, wire)
<1>1. /\ stage = "extracted" /\ UNCHANGED <<lib, name, sent, sinkVars, shipped>>
  BY DEF Verifies
<1>2. UNCHANGED <<lib, name, sent, flow, ident, units, file, phase, shipped>>
  BY <1>1 DEF sinkVars
<1>3. /\ lib \in Libraries /\ wire \in Seq(Octet) /\ Passed(lib, name)
      /\ Narrow(lib, name) => Timely(result)
  BY <1>1 DEF LabInv, CallInv, CallOk, OnTime
<1>4. Made(lib, name, shipped)
  BY <1>1 DEF LabInv, SinkInv, SinkOk, Shipped
<1>5. AllFit(lib, name, shipped) =>
        ReadAlong(lib, name, "extracted", wire, phase, shipped, read)
  BY <1>1 DEF LabInv, ReadInv, ReadOk
<1>6. SinkInv' \/ stage' \in {"described", "refused"}
  BY <1>1, <1>2 DEF LabInv, SinkInv, SinkOk
<1>7. CASE wire = <<>>
  <2>1. stage' = "verified" /\ UNCHANGED <<value, wire, result, read>>
    BY <1>7 DEF Verifies
  <2>2. CallInv'
    BY <1>2, <1>3, <2>1 DEF CallInv, CallOk, OnTime
  <2>3. ASSUME AllFit(lib, name, shipped)
        PROVE  ReadAlong(lib, name, "verified", wire, phase, shipped, read)
    <3>1. PICK k \in 0..Len(shipped) :
             (phase = "closed" => k = Len(shipped)) /\ ReadSome(lib, name, shipped, read, wire, k)
      BY <1>5, <2>3 DEF ReadAlong
    <3>2. read = SubSeq(Written(lib, name, shipped), 1, k)
      BY <1>4, <1>7, <2>3, <3>1, ReadEnds
    <3> QED BY <3>1, <3>2 DEF ReadAlong
  <2>4. ReadInv'
    BY <1>2, <2>1, <2>3 DEF ReadInv, ReadOk
  <2> QED BY <1>6, <2>1, <2>2, <2>4 DEF LabInv
<1>8. CASE wire # <<>>
  <2>1. /\ result' = r
        /\ IF result'.ok
           THEN /\ read' = Append(read, result'.value)
                /\ wire' = SubSeq(wire, result'.consumed + 1, Len(wire))
                /\ UNCHANGED <<stage, value>>
           ELSE stage' = "unverified" /\ UNCHANGED <<value, wire, read>>
    BY <1>8 DEF Verifies
  <2>2. Narrow(lib, name) => Timely(r)
    BY <1>3, DecodeTimely
  <2>3. ASSUME AllFit(lib, name, shipped)
        PROVE  r.ok /\ ReadAlong(lib, name, "extracted", SubSeq(wire, r.consumed + 1, Len(wire)),
                                 phase, shipped, Append(read, r.value))
    <3>1. PICK k \in 0..Len(shipped) :
             (phase = "closed" => k = Len(shipped)) /\ ReadSome(lib, name, shipped, read, wire, k)
      BY <1>5, <2>3 DEF ReadAlong
    <3> HIDE DEF r
    <3>2. /\ r.ok
          /\ ReadSome(lib, name, shipped, Append(read, r.value),
                      SubSeq(wire, r.consumed + 1, Len(wire)), k)
      BY <1>3, <1>4, <1>8, <2>3, <3>1, ReadOne DEF r
    <3> QED BY <3>1, <3>2 DEF ReadAlong
  <2>4. r.ok => SubSeq(wire, r.consumed + 1, Len(wire)) \in Seq(Octet)
    <3> SUFFICES ASSUME r.ok PROVE SubSeq(wire, r.consumed + 1, Len(wire)) \in Seq(Octet)
      OBVIOUS
    <3>2. r.consumed \in 0..Len(wire)
      BY <1>3, DecodeWithin
    <3> DEFINE c == r.consumed
               m == c + 1
    <3>3. c \in 0..Len(wire)
      BY <3>2
    <3> HIDE DEF c
    <3>4. Len(wire) \in Nat /\ \A i \in m..Len(wire) : wire[i] \in Octet
      <4>1. Len(wire) \in Nat
        BY <1>3, LenProperties
      <4>2. \A i \in m..Len(wire) : i \in 1..Len(wire)
        BY <3>3, <4>1
      <4> QED BY <1>3, <4>1, <4>2, ElementOfSeq
    <3>5. m \in Int
      BY <3>3
    <3> HIDE DEF m
    <3>6. SubSeq(wire, m, Len(wire)) \in Seq(Octet)
      BY <1>3, <3>4, <3>5, SubSeqProperties
    <3> QED BY <3>6 DEF m, c
  <2> HIDE DEF r
  <2>5. CASE r.ok
    <3>1. /\ read' = Append(read, r.value) /\ wire' = SubSeq(wire, r.consumed + 1, Len(wire))
          /\ stage' = "extracted" /\ result' = r
      BY <1>1, <2>1, <2>5
    <3>2. wire' \in Seq(Octet)
      BY <2>4, <2>5, <3>1
    <3>3. CallInv'
      BY <1>2, <1>3, <2>2, <3>1, <3>2 DEF CallInv, CallOk, OnTime
    <3>4. AllFit(lib, name, shipped) => ReadAlong(lib, name, "extracted", wire', phase, shipped, read')
      BY <2>3, <3>1
    <3>5. ReadInv'
      BY <1>2, <3>1, <3>4 DEF ReadInv, ReadOk
    <3> QED BY <1>6, <3>1, <3>3, <3>5 DEF LabInv
  <2>6. CASE ~r.ok
    <3>1. read' = read /\ wire' = wire /\ stage' = "unverified" /\ result' = r
      BY <2>1, <2>6
    <3>2. CallInv'
      BY <1>2, <1>3, <2>2, <3>1 DEF CallInv, CallOk, OnTime
    <3>3. ~AllFit(lib, name, shipped)
      BY <2>3, <2>6
    <3>4. ReadInv'
      BY <1>2, <3>1, <3>3 DEF ReadInv, ReadOk
    <3> QED BY <1>6, <3>1, <3>2, <3>4 DEF LabInv
  <2> QED BY <2>5, <2>6
<1> QED BY <1>7, <1>8

----------------------------------------------------------------------------
(* Theorems *)

\* Every step keeps the invariant.
LEMMA LabStep ==
  ASSUME LabInv, [Next]_vars
  PROVE  LabInv'
<1>1. CASE Calls
  BY <1>1, GeneratesKeeps, EncodesKeeps, ReceivesKeeps, DecodesKeeps DEF Calls
<1>2. CASE Ships
  BY <1>2, ShipsKeeps
<1>3. CASE SinkEnds
  BY <1>3, SinkEndsKeeps
<1>4. CASE Extracts
  BY <1>4, ExtractsKeeps
<1>5. CASE Verifies
  BY <1>5, VerifiesKeeps
<1>6. CASE UNCHANGED vars
  <2>1. UNCHANGED <<lib, name, stage, value, wire, sent, result, flow, ident, units, file, phase,
                    shipped, read>>
    BY <1>6 DEF vars, callVars, fileVars, sinkVars
  <2>2. CallInv'
    BY <2>1 DEF LabInv, CallInv
  <2>3. SinkInv'
    BY <2>1 DEF LabInv, SinkInv
  <2>4. ReadInv'
    BY <2>1 DEF LabInv, ReadInv
  <2> QED BY <2>2, <2>3, <2>4 DEF LabInv
<1> QED BY <1>1, <1>2, <1>3, <1>4, <1>5, <1>6 DEF Next, Ended

\* The linter's verdict, where a unit is between encode and decode, which
\* datagrams the sink has put out and how far verify has come in the frames.
THEOREM LabInvariant == Spec => []LabInv
<1>1. Init => LabInv
  BY InvInit
<1>2. LabInv /\ [Next]_vars => LabInv'
  BY LabStep
<1> QED BY <1>1, <1>2, PTL DEF Spec

\* The bit reader and the bit writer, which check no bounds, are never sent past
\* the header of a description that the linter has accepted.
THEOREM NoBitPastTheHeader == Spec => []TouchesItsHeader
BY LabInvariant, InvTouches, PTL

\* The loops over elements, in decode and in verify, end with every octet in one
\* element, and their last checks never fire: for any input, and any description
\* whose length fields cannot make the sum of header and trailer wrap.
THEOREM LoopEnds == Spec => []LoopEndsOnTime
BY LabInvariant, InvLoopEnds, PTL

\* For every description that the linter accepts, and every value that fits its
\* fields, decode gives back what encode was given.
THEOREM EncodedComesBack == Spec => []EncodedReadsBack
BY LabInvariant, InvReadsBack, PTL

\* For every description that loses no bit, and whose length fields cannot make a
\* sum wrap, encode gives back the octets that decode was given.
THEOREM DecodedGoesBack == Spec => []DecodedWritesBack
BY LabInvariant, InvWritesBack, PTL

\* Both checksums of every datagram in the file are right, whatever the flow, the
\* identification and the payload.
THEOREM ReceiversAccept == Spec => []ChecksumsVerify
BY LabInvariant, InvChecksums, PTL

\* What verify reads from a file is what the gateway wrote, in order; a crash only
\* takes units from the end, or has the file refused.
THEOREM FileKeepsUnits == Spec => []FileReadsBack
BY LabInvariant, InvFile, PTL

==============================================================================
