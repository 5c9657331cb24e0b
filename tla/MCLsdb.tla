------------------------------- MODULE MCLsdb -------------------------------
(* Small instances of Lsdb for TLC.                                       *)
EXTENDS Lsdb, TLC

CONSTANTS own_router, own_network, other_router, other_network
CONSTANTS a1, a2, a3, a4, a5

\* Addresses are interchangeable.
MCSymmetry == Permutations(Addrs)

\* After a fault nothing happens any more, and nothing is claimed.
MCView == IF fault THEN << >> ELSE vars

\* The octets of the checksum of router LSAs without and with a link and of the
\* network LSA of two routers, for all sums: they are octets, and make both sums
\* vanish exactly when neither is Mistaken.
Octet == INSTANCE Checksum

ASSUME OctetsRight ==
  \A length \in {22, 30, 34}, c0 \in 0..254, c1 \in 0..254 :
    LET mul == (length - 14) * c0
        x   == Octet!X(mul, c0, c1)
        y   == Octet!Y(mul, c1)
    IN
    /\ x \in Octet!Octets /\ y \in Octet!Octets
    /\ ((c0 + x + y) % 255 = 0 /\ (c1 + x * (length - 14) + y * (length - 15)) % 255 = 0)
         <=> ~Octet!Mistaken(mul - c0 - c1) /\ ~Octet!Mistaken(c1 - mul)
=============================================================================
