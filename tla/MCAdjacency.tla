----------------------------- MODULE MCAdjacency -----------------------------
(* Small instances of Adjacency for TLC.                                  *)
EXTENDS Adjacency, TLC

\* The LSAs of the runs: the router and network LSA of this host, the router
\* LSA and the network LSA of the neighbour.
CONSTANTS own_router, own_network, nbr_router, nbr_network

\* 0 reads the same in both byte orders and, for an even MaxSeq, nothing else.
MCSwap == [s \in Seqs |-> (MaxSeq * s) % (MaxSeq + 1)]

\* Every LSA has its own link state id and router.
DistinctKeys == [l \in LSAs |-> l]

\* A peer that remembers the host is about to start its DD numbers over.
MCPeerSeq == [s \in PeerStarts |-> IF s = "fresh" THEN 0 ELSE 2]

\* The peer starts with LSAs of its own.
MCPeerLSAs == LSAs \ {own_router}

\* What is explored. Once an empty DD left late, nothing is promised any more:
\* every property but NeverCrashes excepts these states, and that one is about
\* the Hellos before. "exit" is combined with no loss.
Explored == ~late /\ (to_exit => losses = 0)
=============================================================================
