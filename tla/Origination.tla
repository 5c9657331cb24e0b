---------------------------- MODULE Origination ----------------------------
(***************************************************************************)
(* What the host says of itself (src/lsa_manage.cpp): the links of its     *)
(* router LSA and the attached routers of its network LSA, as functions of *)
(* its interfaces. When they are originated, and how their instances are   *)
(* numbered and replaced, is in Lsdb; who is elected, in Election.         *)
(*                                                                         *)
(* An interface is a record: its state, its network net, its address ip,   *)
(* its cost, its dr, and full, the neighbours whose state is FULL.         *)
(***************************************************************************)
EXTENDS Sequences

Link(type, n, c, v) == [type |-> type, net |-> n, cost |-> c, id |-> v]

IsUp(i) == i.state # "DOWN"

\* The interface is adjacent to the designated router, or is it. (A designated
\* router is a neighbour: Election's ElectedIsKnown.)
Adjacent(i) == i.state # "WAITING" /\ (i.dr = i.ip \/ i.dr \in i.full)

\* A stub link is to the network itself, a transit link to the network LSA of
\* its designated router.
LinkOf(i) == Link(IF Adjacent(i) THEN "transit" ELSE "stub", i.net, i.cost, i.ip)

GenRouterLSA(sel_interfaces) ==
  LET up == SelectSeq(sel_interfaces, IsUp)
  IN [k \in DOMAIN up |-> LinkOf(up[k])]

\* The attached routers. The designated router itself is not among them.
GenNetworkLSA(i) == i.full
=============================================================================
