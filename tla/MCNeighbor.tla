----------------------------- MODULE MCNeighbor -----------------------------
(* Small instances of Neighbor for TLC.                                    *)
EXTENDS Neighbor, TLC

\* The LSAs of the runs: the router and network LSA of this host, the router
\* LSA and the network LSA of the neighbour.
CONSTANTS own_router, own_network, nbr_router, nbr_network

\* 0 reads the same in both byte orders and, for an even MaxSeq, nothing else.
MCSwap == [s \in Seqs |-> (MaxSeq * s) % (MaxSeq + 1)]

\* Link state id and router: every LSA has its own,
DistinctKeys == [l \in LSAs |-> l]

\* or a router whose id is its interface address is the designated router.
RouterNamedAfterAddress ==
  [l \in LSAs |-> IF l \in {own_router, own_network} THEN "own" ELSE "nbr"]

\* What no later step depends on: the packets of the last step, the one a slave
\* keeps to send it again, which number an announcement carries, and what is
\* recorded of a check that is over.
Relevant(n) ==
  [n EXCEPT !.last_dd_data = NoBody, !.dd_sending = {},
            !.checked = IF load_done THEN @ ELSE 0,
            !.claimed = Claimed]
StateView == <<Relevant(nbr), req_lock, load_done, rxmt, alloc_id, lsdb, receiver,
               lsu, lsu_i, to_exit>>

\* The threads that announce read the object and change nothing of it, and the
\* retransmitter is looked at in the first exchange only: if their number is not
\* bounded, nothing else depends on them. The last Hello counts in INIT, which
\* a Hello enters; role and descriptions count until they are set anew.
ExchangeView ==
  LET settled == nbr.state \in Adjacent \/ load_done IN
  <<nbr.id, nbr.state, nbr.dd_seq_num, nbr.last_dd_seq_num, nbr.summary, nbr.req,
    nbr.negotiations, nbr.lsr_threads, Check, Claimed,
    nbr.state = "INIT" /\ nbr.adjacent,
    settled /\ nbr.is_master, IF settled THEN nbr.described ELSE {},
    IF nbr.negotiations <= 1 THEN <<rxmt, alloc_id, nbr.rxmt_map>> ELSE << >>,
    req_lock, load_done, lsdb, receiver, lsu, lsu_i>>
=============================================================================
