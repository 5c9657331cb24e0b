--------------------------- MODULE ChecksumProofs ----------------------------
(***************************************************************************)
(* Proofs about Checksum: for LSAs of any length and contents.             *)
(***************************************************************************)
EXTENDS Checksum, WellFoundedInduction, TLAPS

-----------------------------------------------------------------------------
(* Induction and remainders                                                *)

\* Numbers up to n that include 0 and each one's successor are all of them.
LEMMA CountsUp ==
  ASSUME NEW n \in Nat, NEW T, 0 \in T, \A k \in 0..(n - 1) : k \in T => k + 1 \in T
  PROVE  0..n \subseteq T
<1> DEFINE U == {k \in 0..n : k \notin T}
<1>1. SUFFICES ASSUME U # {} PROVE FALSE
  OBVIOUS
<1>2. PICK k \in U : \A j \in U : ~ (<<j, k>> \in OpToRel(<, Nat))
  <2>1. U \subseteq Nat
    OBVIOUS
  <2> QED
    BY <1>1, <2>1, NatLessThanWellFounded, WFMin, Zenon
<1>3. k \in 1..n /\ k - 1 \in 0..(n - 1) /\ (k - 1) + 1 = k
  OBVIOUS
<1>4. k - 1 \in U
  BY <1>3
<1>5. <<k - 1, k>> \in OpToRel(<, Nat)
  <2>1. <<k - 1, k>> \in Nat \X Nat /\ k - 1 < k
    BY <1>3
  <2> QED
    BY <2>1, Zenon DEF OpToRel
<1> QED
  BY <1>2, <1>4, <1>5, Zenon

\* A remainder may be taken before an addition.
LEMMA AddedLater ==
  ASSUME NEW a \in Int, NEW b \in Int
  PROVE  ((a % 255) + b) % 255 = (a + b) % 255
OBVIOUS

\* A number without remainder.
Vanishes(a) == a % 255 = 0

\* Numbers with no remainder are the multiples.
LEMMA Multiple ==
  ASSUME NEW a \in Int
  PROVE  a % 255 = 0 <=> \E k \in Int : a = 255 * k
<1>1. a = 255 * (a \div 255) + (a % 255) /\ a \div 255 \in Int
  OBVIOUS
<1> QED
  BY <1>1

-----------------------------------------------------------------------------
(* The octets                                                              *)

\* What the conversions make of a number that was decremented or not.
LEMMA OctetOf ==
  ASSUME NEW a \in Int, NEW b \in {a, a - 1},
         b = a => a >= 0, b = a - 1 => a <= 0
  PROVE  /\ Octet(Remainder(b, 255)) \in Octets
         /\ ~Mistaken(a) => Vanishes(Octet(Remainder(b, 255)) - a)
         /\ Mistaken(a) => Octet(Remainder(b, 255)) = 255
<1>1. CASE b = a
  BY <1>1 DEF Octet, Remainder, Octets, Mistaken, Vanishes
<1>2. CASE b = a - 1
  <2>1. b < 0 /\ Remainder(b, 255) = -((1 - a) % 255) /\ (1 - a) % 255 \in 0..254
    BY <1>2 DEF Remainder
  <2>2. CASE (1 - a) % 255 = 0
    BY <2>1, <2>2 DEF Octet, Octets, Mistaken, Vanishes
  <2>3. CASE (1 - a) % 255 # 0
    BY <2>1, <2>3, <1>2 DEF Octet, Octets, Mistaken, Vanishes
  <2> QED
    BY <2>2, <2>3
<1> QED
  BY <1>1, <1>2

\* X is what it has to be, unless Mistaken.
LEMMA XOctet ==
  ASSUME NEW m \in Int, NEW c0 \in Int, NEW c1 \in Int
  PROVE  /\ X(m, c0, c1) \in Octets
         /\ ~Mistaken(m - c0 - c1) => Vanishes(X(m, c0, c1) - (m - c0 - c1))
<1> DEFINE a == m - c0 - c1
           b == IF a < 0 THEN a - 1 ELSE a
<1>1. X(m, c0, c1) = Octet(Remainder(b, 255))
  BY DEF X
<1>2. a \in Int /\ b \in {a, a - 1} /\ (b = a => a >= 0) /\ (b = a - 1 => a <= 0)
  OBVIOUS
<1> HIDE DEF a, b
<1>3. /\ Octet(Remainder(b, 255)) \in Octets
      /\ ~Mistaken(a) => Vanishes(Octet(Remainder(b, 255)) - a)
  BY <1>2, OctetOf
<1> QED
  BY <1>1, <1>3 DEF a

\* Y is what it has to be, unless Mistaken, when it is 255.
LEMMA YOctet ==
  ASSUME NEW m \in Int, NEW c1 \in Int
  PROVE  /\ Y(m, c1) \in Octets
         /\ ~Mistaken(c1 - m) => Vanishes(Y(m, c1) - (c1 - m))
         /\ Mistaken(c1 - m) => Y(m, c1) = 255
<1> DEFINE a == c1 - m
           b == IF a - 1 >= 0 THEN a ELSE a - 1
<1>1. Y(m, c1) = Octet(Remainder(b, 255))
  <2>1. (c1 - m - 1 >= 0 <=> a - 1 >= 0) /\ c1 - m - 1 + 1 = a /\ c1 - m - 1 = a - 1
    OBVIOUS
  <2> QED
    BY <2>1 DEF Y
<1>2. a \in Int /\ b \in {a, a - 1} /\ (b = a => a >= 0) /\ (b = a - 1 => a <= 0)
  OBVIOUS
<1> HIDE DEF a, b
<1>3. /\ Octet(Remainder(b, 255)) \in Octets
      /\ ~Mistaken(a) => Vanishes(Octet(Remainder(b, 255)) - a)
      /\ Mistaken(a) => Octet(Remainder(b, 255)) = 255
  BY <1>2, OctetOf
<1> QED
  BY <1>1, <1>3 DEF a

-----------------------------------------------------------------------------
(* The sums                                                                *)

\* An octet x at o is read at k; what it has added to the first sum after k
\* octets, and to the second one.
At(x, o, k)    == IF k = o THEN x ELSE 0
Once(x, o, k)  == IF k > o THEN x ELSE 0
Often(x, o, k) == IF k > o THEN x * (k - o) ELSE 0

LEMMA OnceStep ==
  ASSUME NEW x \in Int, NEW o \in Int, NEW k \in Int
  PROVE  /\ Once(x, o, k) \in Int /\ At(x, o, k) \in Int
         /\ Once(x, o, k + 1) = Once(x, o, k) + At(x, o, k)
BY DEF Once, At

LEMMA OftenStep ==
  ASSUME NEW x \in Int, NEW o \in Int, NEW k \in Int
  PROVE  /\ Often(x, o, k) \in Int
         /\ Often(x, o, k + 1) = Often(x, o, k) + Once(x, o, k + 1)
<1>1. x * (k - o) \in Int /\ x * ((k + 1) - o) = x * (k - o) + x
  OBVIOUS
<1>2. k = o => x * (k - o) = 0
  OBVIOUS
<1> DEFINE p == x * (k - o)   q == x * ((k + 1) - o)
<1>3. /\ p \in Int /\ q = p + x /\ (k = o => p = 0)
      /\ Often(x, o, k) = IF k > o THEN p ELSE 0
      /\ Often(x, o, k + 1) = IF k + 1 > o THEN q ELSE 0
  BY <1>1, <1>2 DEF Often
<1> HIDE DEF p, q
<1> QED
  BY <1>3 DEF Once

\* The octets of the LSA and what the loops read.
LEMMA Reads ==
  ASSUME NEW n \in Nat, NEW o \in Nat, NEW d \in [0..(n - 1) -> Octets],
         NEW x \in Octets, NEW y \in Octets, NEW k \in 0..(n - 1)
  PROVE  /\ Summed(d, o, n)[k] \in Int
         /\ Filled(d, x, y, o, n)[k] =
              Summed(d, o, n)[k] + At(x, o, k)
                                 + At(y, o + 1, k)
<1>1. d[k] \in 0..255 /\ k \in Int /\ x \in Int /\ y \in Int
  BY DEF Octets
<1>2. d[k] \in Int
  <2>1. \A a \in 0..255 : a \in Int
    OBVIOUS
  <2> QED
    BY <1>1, <2>1, Zenon
<1>3. Summed(d, o, n)[k] = IF k \in {o, o + 1} THEN 0 ELSE d[k]
  BY Zenon DEF Summed
<1>4. Filled(d, x, y, o, n)[k] = IF k = o THEN x ELSE IF k = o + 1 THEN y ELSE d[k]
  BY Zenon DEF Filled
<1>5. CASE k = o
  BY <1>1, <1>3, <1>4, <1>5 DEF At
<1>6. CASE k = o + 1
  BY <1>1, <1>3, <1>4, <1>6 DEF At
<1>7. CASE k \notin {o, o + 1}
  <2>1. Summed(d, o, n)[k] = d[k] /\ Filled(d, x, y, o, n)[k] = d[k]
    BY <1>3, <1>4, <1>7
  <2>2. At(x, o, k) = 0 /\ At(y, o + 1, k) = 0
    BY <1>7 DEF At
  <2>3. \A a \in Int : a + 0 + 0 = a
    OBVIOUS
  <2> QED
    BY <1>2, <2>1, <2>2, <2>3, Zenon
<1> QED
  BY <1>5, <1>6, <1>7

\* The values of a sum are numbers.
LEMMA SumValues ==
  ASSUME NEW n \in Nat, NEW f, NEW a, IsSum(f, a, n), NEW k \in 0..n
  PROVE  f[k] \in Int
BY DEF IsSum

\* The two octets at o add to the sums of an LSA without them.
LEMMA SumsFilled ==
  ASSUME NEW n \in Nat, NEW o \in Nat, o + 1 < n,
         NEW d \in [0..(n - 1) -> Octets], NEW x \in Octets, NEW y \in Octets,
         NEW c0, NEW c1, IsFletcher(c0, c1, d, o, n),
         NEW s1, NEW s2, IsVerified(s1, s2, Filled(d, x, y, o, n), n)
  PROVE  /\ s1[n] = (c0[n] + x + y) % 255
         /\ s2[n] = (c1[n] + x * (n - o) + y * (n - o - 1)) % 255
<1> DEFINE f    == Filled(d, x, y, o, n)
           A(k) == c0[k] + Once(x, o, k) + Once(y, o + 1, k)
           B(k) == c1[k] + Often(x, o, k) + Often(y, o + 1, k)
           T    == {k \in 0..n : s1[k] = A(k) % 255 /\ s2[k] = B(k) % 255}
<1>1. /\ c0[0] = 0 /\ c1[0] = 0
      /\ \A k \in 0..(n - 1) : c0[k + 1] = c0[k] + Summed(d, o, n)[k]
      /\ \A k \in 0..(n - 1) : c1[k + 1] = c1[k] + c0[k + 1]
  BY DEF IsFletcher, IsSum
<1>2. /\ s1[0] = 0 /\ s2[0] = 0
      /\ \A k \in 0..(n - 1) : s1[k + 1] = (s1[k] + f[k]) % 255
      /\ \A k \in 0..(n - 1) : s2[k + 1] = (s2[k] + s1[k + 1]) % 255
  BY DEF IsVerified
<1>3. \A k \in 0..n : c0[k] \in Int /\ c1[k] \in Int
  BY SumValues DEF IsFletcher
<1>4. x \in Int /\ y \in Int /\ o \in Int /\ o + 1 \in Int /\ 0 \in 0..n /\ n \in 0..n
  BY DEF Octets
<1>5. 0 \in T
  <2>1. Once(x, o, 0) = 0 /\ Once(y, o + 1, 0) = 0
    BY DEF Once
  <2>2. Often(x, o, 0) = 0 /\ Often(y, o + 1, 0) = 0
    BY DEF Often
  <2> QED
    BY <1>1, <1>2, <1>4, <2>1, <2>2
<1>6. ASSUME NEW k \in 0..(n - 1), k \in T PROVE k + 1 \in T
  <2>1. /\ k \in Int /\ k \in 0..n /\ k + 1 \in 0..n
        /\ c0[k] \in Int /\ c1[k] \in Int /\ c0[k + 1] \in Int
    BY <1>3
  <2> HIDE DEF A, B, f, T
  <2>2. A(k) \in Int /\ f[k] \in Int /\ A(k + 1) = A(k) + f[k]
    <3>1. /\ Summed(d, o, n)[k] \in Int
          /\ f[k] = Summed(d, o, n)[k] + At(x, o, k)
                                       + At(y, o + 1, k)
      BY Reads, Zenon DEF f
    <3>2. /\ Once(x, o, k) \in Int /\ Once(y, o + 1, k) \in Int
          /\ At(x, o, k) \in Int /\ At(y, o + 1, k) \in Int
          /\ Once(x, o, k + 1) = Once(x, o, k) + At(x, o, k)
          /\ Once(y, o + 1, k + 1) = Once(y, o + 1, k) + At(y, o + 1, k)
      <4>1. /\ Once(x, o, k) \in Int /\ At(x, o, k) \in Int
            /\ Once(x, o, k + 1) = Once(x, o, k) + At(x, o, k)
        BY <1>4, <2>1, OnceStep, Zenon
      <4>2. /\ Once(y, o + 1, k) \in Int /\ At(y, o + 1, k) \in Int
            /\ Once(y, o + 1, k + 1) = Once(y, o + 1, k) + At(y, o + 1, k)
        BY <1>4, <2>1, OnceStep, Zenon
      <4> QED
        BY <4>1, <4>2
    <3>3. c0[k + 1] = c0[k] + Summed(d, o, n)[k]
      BY <1>1
    <3> DEFINE c == c0[k]   s == Summed(d, o, n)[k]
               p == Once(x, o, k)   q == Once(y, o + 1, k)
               g == At(x, o, k)     h == At(y, o + 1, k)
    <3>4. /\ c \in Int /\ s \in Int /\ p \in Int /\ q \in Int /\ g \in Int /\ h \in Int
          /\ A(k) = c + p + q /\ f[k] = s + g + h
          /\ A(k + 1) = (c + s) + (p + g) + (q + h)
      BY <2>1, <3>1, <3>2, <3>3, Zenon DEF A
    <3> HIDE DEF c, s, p, q, g, h
    <3> QED
      BY <3>4
  <2>3. B(k) \in Int /\ B(k + 1) = B(k) + A(k + 1)
    <3>1. /\ Often(x, o, k) \in Int /\ Often(y, o + 1, k) \in Int
          /\ Often(x, o, k + 1) = Often(x, o, k) + Once(x, o, k + 1)
          /\ Often(y, o + 1, k + 1) = Often(y, o + 1, k) + Once(y, o + 1, k + 1)
      BY <1>4, <2>1, OftenStep
    <3>2. Once(x, o, k + 1) \in Int /\ Once(y, o + 1, k + 1) \in Int
      BY <1>4, <2>1 DEF Once
    <3>3. c1[k + 1] = c1[k] + c0[k + 1]
      BY <1>1
    <3> DEFINE c == c1[k]   s == c0[k + 1]
               p == Often(x, o, k)      q == Often(y, o + 1, k)
               g == Once(x, o, k + 1)   h == Once(y, o + 1, k + 1)
    <3>4. /\ c \in Int /\ s \in Int /\ p \in Int /\ q \in Int /\ g \in Int /\ h \in Int
          /\ B(k) = c + p + q /\ A(k + 1) = s + g + h
          /\ B(k + 1) = (c + s) + (p + g) + (q + h)
      BY <2>1, <3>1, <3>2, <3>3, Zenon DEF A, B
    <3> HIDE DEF c, s, p, q, g, h
    <3> QED
      BY <3>4
  <2>4. s1[k] = A(k) % 255 /\ s2[k] = B(k) % 255
    BY k \in T DEF T
  <2>5. s1[k + 1] = (s1[k] + f[k]) % 255 /\ s2[k + 1] = (s2[k] + s1[k + 1]) % 255
    BY <1>2 DEF f
  <2>6. s1[k + 1] = A(k + 1) % 255 /\ A(k + 1) \in Int
    BY <2>2, <2>4, <2>5, AddedLater
  <2>7. s2[k + 1] = B(k + 1) % 255
    BY <2>3, <2>4, <2>5, <2>6
  <2> QED
    BY <2>1, <2>6, <2>7 DEF T
<1>7. n \in T
  <2>1. 0..n \subseteq T
    <3> HIDE DEF T
    <3> QED
      BY <1>5, <1>6, CountsUp
  <2> HIDE DEF T
  <2> QED
    BY <2>1, <1>4
<1>8. /\ Once(x, o, n) = x /\ Once(y, o + 1, n) = y
      /\ Often(x, o, n) = x * (n - o) /\ Often(y, o + 1, n) = y * (n - (o + 1))
  BY DEF Once, Often
<1>9. n - (o + 1) = n - o - 1
  OBVIOUS
<1> QED
  BY <1>7, <1>8, <1>9

-----------------------------------------------------------------------------
(* What the octets have to be                                              *)

\* Octets that are what they have to be make the first sum vanish, and the
\* second one.
LEMMA FirstVanishes ==
  ASSUME NEW c \in Int, NEW r0 \in Int, NEW r1 \in Int, NEW m \in Int,
         NEW x \in Int, NEW y \in Int,
         Vanishes(c - r0), Vanishes(x - (m - r0 - r1)), Vanishes(y - (r1 - m))
  PROVE  Vanishes(c + x + y)
BY DEF Vanishes

\* A second octet of 255 instead of 1 leaves 254.
LEMMA SecondMistaken ==
  ASSUME NEW c \in Int, NEW r0 \in Int, NEW r1 \in Int, NEW m \in Int,
         NEW x \in Int, NEW y \in Int, NEW s, s = (c + x + y) % 255, y = 255,
         Vanishes(c - r0), Vanishes(x - (m - r0 - r1)), Mistaken(r1 - m)
  PROVE  s = 254
BY DEF Vanishes, Mistaken

LEMMA SecondVanishes ==
  ASSUME NEW c \in Int, NEW r0 \in Int, NEW r1 \in Int, NEW l \in Int,
         NEW x \in Int, NEW y \in Int,
         Vanishes(c - r1), Vanishes(x - (l * r0 - r0 - r1)),
         Vanishes(y - (r1 - l * r0))
  PROVE  Vanishes(c + x * l + y * (l - 1))
<1> DEFINE m == l * r0   a == x - (m - r0 - r1)   b == y - (r1 - m)   e == c - r1
<1>1. m \in Int
  OBVIOUS
<1> HIDE DEF m
<1>2. a \in Int /\ b \in Int /\ e \in Int
  BY <1>1
<1>3. a % 255 = 0 /\ b % 255 = 0 /\ e % 255 = 0
  BY DEF m, Vanishes
<1> HIDE DEF a, b, e
<1>4. PICK i \in Int : a = 255 * i
  BY <1>2, <1>3, Multiple
<1>5. PICK j \in Int : b = 255 * j
  BY <1>2, <1>3, Multiple
<1>6. PICK v \in Int : e = 255 * v
  BY <1>2, <1>3, Multiple
<1>7. x + y = 255 * (i + j) - r0 /\ y = r1 - m + 255 * j /\ c = r1 + 255 * v
  BY <1>1, <1>4, <1>5, <1>6 DEF a, b, e
<1>8. x * l + y * (l - 1) = l * (x + y) - y
  OBVIOUS
<1>9. l * (x + y) = 255 * (l * (i + j)) - m
  <2>1. l * (255 * (i + j) - r0) = 255 * (l * (i + j)) - l * r0
    OBVIOUS
  <2> QED
    BY <1>7, <2>1 DEF m
<1> DEFINE p == l * (i + j)   q == x * l   w == y * (l - 1)   z == l * (x + y)
<1>10. p \in Int /\ q \in Int /\ w \in Int /\ z \in Int
  OBVIOUS
<1>11. q + w = z - y /\ z = 255 * p - m
  BY <1>8, <1>9
<1>12. Vanishes(c + q + w)
  <2> HIDE DEF p, q, w, z
  <2>1. c + q + w = 255 * (v + p - j) /\ v + p - j \in Int
    BY <1>1, <1>7, <1>10, <1>11
  <2> QED
    BY <2>1 DEF Vanishes
<1> QED
  BY <1>12

\* The sums at the end of the loop and what is computed from them are numbers.
LEMMA Numbers ==
  ASSUME NEW n \in Nat, NEW o \in Nat, NEW c0, NEW c1, NEW d,
         IsFletcher(c0, c1, d, o, n)
  PROVE  /\ c0[n] \in Int /\ c1[n] \in Int
         /\ Reduced(c0[n]) \in Int /\ Reduced(c1[n]) \in Int
         /\ (n - o) * Reduced(c0[n]) \in Int
         /\ Vanishes(c0[n] - Reduced(c0[n])) /\ Vanishes(c1[n] - Reduced(c1[n]))
<1>1. c0[n] \in Int /\ c1[n] \in Int
  <2>1. n \in 0..n
    OBVIOUS
  <2> QED
    BY <2>1, SumValues DEF IsFletcher
<1>2. \A c \in Int : Reduced(c) \in Int /\ Vanishes(c - Reduced(c))
  BY DEF Reduced, Vanishes
<1>3. Reduced(c0[n]) \in Int /\ n - o \in Int
  BY <1>1, <1>2
<1>4. \A a, b \in Int : a * b \in Int
  OBVIOUS
<1> QED
  BY <1>1, <1>2, <1>3, <1>4

-----------------------------------------------------------------------------
(* Theorems                                                                *)

\* "fill osi fletcher checksum": an LSA with the two octets fletcher_checksum
\* computes is verified by not_a_fletcher_checksum, both of its sums are 0,
\* unless one of the octets has to be 1 and is made 255 instead.
THEOREM ChecksumVerifies ==
  ASSUME NEW n \in Nat, NEW o \in Nat, o + 1 < n,
         NEW d \in [0..(n - 1) -> Octets],
         NEW c0, NEW c1, IsFletcher(c0, c1, d, o, n),
         ~MistakenX(c0, c1, o, n), ~MistakenY(c0, c1, o, n),
         NEW s1, NEW s2, IsVerified(s1, s2, WithChecksum(d, c0, c1, o, n), n)
  PROVE  s1[n] = 0 /\ s2[n] = 0
<1> DEFINE r0 == Reduced(c0[n])
           r1 == Reduced(c1[n])
           l == n - o
           m == l * r0
           x == X(m, r0, r1)
           y == Y(m, r1)
<1>1. /\ c0[n] \in Int /\ c1[n] \in Int /\ r0 \in Int /\ r1 \in Int /\ m \in Int
      /\ Vanishes(c0[n] - r0) /\ Vanishes(c1[n] - r1)
  BY Numbers, Zenon
<1>2. ~Mistaken(m - r0 - r1) /\ ~Mistaken(r1 - m) /\ m = l * r0
  BY Zenon DEF MistakenX, MistakenY, Mul
<1>9. l \in Int
  OBVIOUS
<1>3. IsVerified(s1, s2, Filled(d, x, y, o, n), n)
  BY DEF WithChecksum, Mul
<1> HIDE DEF r0, r1, l, m
<1>4. /\ x \in Octets /\ Vanishes(x - (m - r0 - r1))
      /\ y \in Octets /\ Vanishes(y - (r1 - m))
  BY <1>1, <1>2, XOctet, YOctet
<1> HIDE DEF x, y
<1>5. /\ s1[n] = (c0[n] + x + y) % 255
      /\ s2[n] = (c1[n] + x * l + y * (l - 1)) % 255
  BY <1>3, <1>4, SumsFilled DEF l
<1>6. x \in Int /\ y \in Int
  BY <1>4 DEF Octets
<1>7. Vanishes(c0[n] + x + y)
  BY <1>1, <1>4, <1>6, FirstVanishes, Zenon
<1>8. Vanishes(c1[n] + x * l + y * (l - 1))
  <2>1. /\ Vanishes(x - (l * r0 - r0 - r1))
        /\ Vanishes(y - (r1 - l * r0))
    BY <1>2, <1>4, Zenon
  <2> QED
    BY <1>1, <1>9, <1>6, <2>1, SecondVanishes, Zenon
<1> QED
  BY <1>5, <1>7, <1>8, Zenon DEF Vanishes

\* An LSA whose second octet has to be 1 is never verified: the octet is 255.
THEOREM ChecksumMistaken ==
  ASSUME NEW n \in Nat, NEW o \in Nat, o + 1 < n,
         NEW d \in [0..(n - 1) -> Octets],
         NEW c0, NEW c1, IsFletcher(c0, c1, d, o, n),
         ~MistakenX(c0, c1, o, n), MistakenY(c0, c1, o, n),
         NEW s1, NEW s2, IsVerified(s1, s2, WithChecksum(d, c0, c1, o, n), n)
  PROVE  s1[n] = 254
<1> DEFINE r0 == Reduced(c0[n])
           r1 == Reduced(c1[n])
           l == n - o
           m == l * r0
           x == X(m, r0, r1)
           y == Y(m, r1)
<1>1. /\ c0[n] \in Int /\ r0 \in Int /\ r1 \in Int /\ m \in Int
      /\ Vanishes(c0[n] - r0)
  BY Numbers, Zenon
<1>2. ~Mistaken(m - r0 - r1) /\ Mistaken(r1 - m)
  BY Zenon DEF MistakenX, MistakenY, Mul
<1>3. IsVerified(s1, s2, Filled(d, x, y, o, n), n)
  BY DEF WithChecksum, Mul
<1> HIDE DEF r0, r1, l, m
<1>4. x \in Octets /\ Vanishes(x - (m - r0 - r1)) /\ y \in Octets /\ y = 255
  BY <1>1, <1>2, XOctet, YOctet
<1> HIDE DEF x, y
<1>5. s1[n] = (c0[n] + x + y) % 255
  BY <1>3, <1>4, SumsFilled
<1>6. x \in Int /\ y \in Int
  BY <1>4 DEF Octets
<1> QED
  <2> DEFINE c == c0[n]   s == s1[n]
  <2>1. /\ c \in Int /\ r0 \in Int /\ r1 \in Int /\ m \in Int /\ x \in Int /\ y \in Int
        /\ s = (c + x + y) % 255 /\ y = 255
        /\ Vanishes(c - r0) /\ Vanishes(x - (m - r0 - r1)) /\ Mistaken(r1 - m)
    BY <1>1, <1>2, <1>4, <1>5, <1>6, Zenon
  <2>2. s = (c + x + y) % 255 /\ s = 254
    <3> HIDE DEF c, s
    <3> QED
      BY <2>1, SecondMistaken
  <2> QED
    BY <2>2

=============================================================================
