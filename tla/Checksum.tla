------------------------------ MODULE Checksum -------------------------------
(***************************************************************************)
(* The checksum of an LSA: two octets that make both sums of the LSA, the  *)
(* sum of its octets and the sum of those sums, vanish modulo 255.         *)
(*                                                                         *)
(* A loop is modelled by the values its variables take: f[k] is the value  *)
(* after k octets. Octets are counted from 0. An LSA fits into a packet,   *)
(* so the 32-bit sums never wrap.                                          *)
(***************************************************************************)
EXTENDS Integers

Octets == 0..255

\* The values of a sum of the first n numbers of a.
IsSum(f, a, n) ==
  /\ f \in [0..n -> Int] /\ f[0] = 0
  /\ \A k \in 0..(n - 1) : f[k + 1] = f[k] + a[k]

\* c0 and c1 of fletcher_checksum: the octets of the checksum count as 0, and
\* c1 adds up the values of c0.
Summed(d, offset, n) ==
  [k \in 0..(n - 1) |-> IF k \in {offset, offset + 1} THEN 0 ELSE d[k]]

IsFletcher(c0, c1, d, offset, n) ==
  /\ IsSum(c0, Summed(d, offset, n), n)
  /\ IsSum(c1, [k \in 0..(n - 1) |-> c0[k + 1]], n)

\* The remainder of C has the sign of its dividend.
Remainder(a, b) == IF a >= 0 THEN a % b ELSE -((-a) % b)

\* The last octet of a number, 255 when it is 0.
Octet(a) == IF a = 0 THEN 255 ELSE a % 256

\* The octets of the checksum; mul is (length - checksum_offset) * c0, and c0
\* and c1 are reduced modulo 255.
X(mul, c0, c1) ==
  LET x == mul - c0 - c1 IN Octet(Remainder(IF x < 0 THEN x - 1 ELSE x, 255))

Y(mul, c1) ==
  LET y == c1 - mul - 1 IN Octet(Remainder(IF y >= 0 THEN y + 1 ELSE y, 255))

\* The LSA with its checksum.
Filled(d, x, y, offset, n) ==
  [k \in 0..(n - 1) |-> IF k = offset THEN x ELSE IF k = offset + 1 THEN y ELSE d[k]]

\* sum1 and sum2 of not_a_fletcher_checksum, with which an LSA is verified.
IsVerified(s1, s2, d, n) ==
  /\ s1 \in [0..n -> 0..254] /\ s1[0] = 0
  /\ \A k \in 0..(n - 1) : s1[k + 1] = (s1[k] + d[k]) % 255
  /\ s2 \in [0..n -> 0..254] /\ s2[0] = 0
  /\ \A k \in 0..(n - 1) : s2[k + 1] = (s2[k] + s1[k + 1]) % 255

\* The LSA with the octets fletcher_checksum computes from its sums.
Reduced(sum) == sum % 255

Mul(c0, offset, n) == (n - offset) * Reduced(c0[n])

WithChecksum(d, c0, c1, offset, n) ==
  LET mul == Mul(c0, offset, n) IN
  Filled(d, X(mul, Reduced(c0[n]), Reduced(c1[n])), Y(mul, Reduced(c1[n])), offset, n)

\* An octet that has to be 1 becomes 255, as does one that has to be 0, when
\* the number it is computed from is not positive.
Mistaken(a) == a <= 0 /\ a % 255 = 1

MistakenX(c0, c1, offset, n) ==
  Mistaken(Mul(c0, offset, n) - Reduced(c0[n]) - Reduced(c1[n]))

MistakenY(c0, c1, offset, n) == Mistaken(Reduced(c1[n]) - Mul(c0, offset, n))

=============================================================================
