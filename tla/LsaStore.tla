------------------------------ MODULE LsaStore ------------------------------
(***************************************************************************)
(* What the link state database promises about the LSAs of other routers:  *)
(* it keeps one instance of each, the one that arrived last, and loses     *)
(* none, until it breaks.  Lsdb implements it.                             *)
(***************************************************************************)
CONSTANTS LSAs, Seqs, Missing

VARIABLES
  store,     \* the instance kept of each LSA, or Missing
  broken     \* TRUE once the objects of the database were destroyed

vars == <<store, broken>>

Init == store = [l \in LSAs |-> Missing] /\ broken = FALSE

Receive(l, s) ==
  /\ ~broken
  /\ store' = [store EXCEPT ![l] = s]
  /\ UNCHANGED broken

Break == broken' = TRUE /\ store' = [l \in LSAs |-> Missing]

Next == Break \/ \E l \in LSAs, s \in Seqs : Receive(l, s)

Spec == Init /\ [][Next]_vars
=============================================================================
