----------------------------- MODULE MCElection -----------------------------
(* Small instances of Election for TLC.                                   *)
EXTENDS Election, TLC

\* Memory the allocator hands out may hold anything,
AnyMemory == BOOLEAN

\* or nothing that looks like the neighbour's address.
CleanMemory == {FALSE}

Lan(hosts, staggered, atomic, stale) ==
  [hosts |-> hosts, staggered |-> staggered, atomic |-> atomic, stale |-> stale]

\* Two hosts in any order, or one joining the other, with the timer thread
\* racing the receiver; two hosts that join a third.
MCLans == {Lan({1, 2}, FALSE, FALSE, AnyMemory), Lan({1, 2}, TRUE, FALSE, AnyMemory),
           Lan({1, 2, 3}, TRUE, TRUE, AnyMemory)}

\* Two hosts that do not wait for each other, and nothing else against them.
MCPairs == {Lan({1, 2}, FALSE, TRUE, CleanMemory)}
=============================================================================
