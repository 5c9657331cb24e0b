--------------------------- MODULE ExchangeProofs ---------------------------
(***************************************************************************)
(* Proofs about the course of one exchange of Neighbor: which DD packet    *)
(* awaits an answer, which thread ends LOADING, and that descriptions are  *)
(* absorbed in the order of their numbers.  The peer is unconstrained.     *)
(***************************************************************************)
EXTENDS NeighborProofs

-----------------------------------------------------------------------------
(* The DD handler, seen from outside: what the switch makes of the         *)
(* neighbour before it rests, and what the state it rests in then does.    *)

\* The fields the switch never writes.
SameCourse(m, n) ==
  /\ m.id = n.id /\ m.req = n.req /\ m.last_dd_data = n.last_dd_data
  /\ m.rxmt_map = n.rxmt_map /\ m.lsr_threads = n.lsr_threads

\* The fields that only a negotiation or an answer writes.
SameRound(m, n) ==
  /\ SameCourse(m, n) /\ m.state = n.state /\ m.is_master = n.is_master
  /\ m.dd_seq_num = n.dd_seq_num /\ m.summary = n.summary
  /\ m.negotiations = n.negotiations /\ m.described = n.described

\* A neighbour that has just been agreed with, on the DD p.
Agreed(m, n, p) ==
  /\ SameCourse(m, n) /\ m.state = "EXCHANGE"
  /\ m.negotiations = n.negotiations + 1 /\ m.described = {}
  /\ \/ p.M /\ p.I /\ p.MS /\ m.id > RouterId /\ m.is_master /\ m.dd_seq_num = p.seq
     \/ ~p.I /\ ~p.MS /\ Swap[p.seq] = p.seq /\ m.id < RouterId /\ ~m.is_master
        /\ m.dd_seq_num \in {n.dd_seq_num, 0}

\* A two-way Hello, or a DD in INIT, may take a neighbour to EXSTART, with the
\* number 0 and as slave of the exchange; it changes no other field.
LEMMA TwoWayCourse ==
  ASSUME NEW n \in NeighborType
  PROVE  LET m == Event2WayReceived(n) IN
         /\ SameCourse(m, n) /\ m.negotiations = n.negotiations
         /\ m.adjacent = n.adjacent /\ m.last_dd_seq_num = n.last_dd_seq_num
         /\ m.dd_seq_num \in {n.dd_seq_num, 0}
         /\ n.state # "INIT" => m = n
         /\ n.state = "INIT" => m.state \in {"2WAY", "EXSTART"}
BY DEF Event2WayReceived, NeighborType, SameCourse

\* The end of a negotiation.
LEMMA NegotiationCourse ==
  ASSUME NEW r \in NeighborType, r.state = "EXSTART"
  PROVE  LET m == EventNegotiationDone(r) IN
         /\ SameCourse(m, r) /\ m.state = "EXCHANGE" /\ m.described = {}
         /\ m.negotiations = r.negotiations + 1 /\ m.is_master = r.is_master
         /\ m.dd_seq_num = r.dd_seq_num /\ m.last_dd_seq_num = r.last_dd_seq_num
         /\ m.adjacent = r.adjacent
BY DEF EventNegotiationDone, NeighborType, SameCourse

\* The switch leaves an adjacent neighbour alone, keeps another one below
\* EXCHANGE, or agrees with it.
LEMMA ArrivedCourse ==
  ASSUME TypeOK, NEW p \in DDs
  PROVE  LET n == Arrived(p) IN
         /\ n \in NeighborType /\ n.last_dd_seq_num = p.seq
         /\ n.adjacent = nbr.adjacent
         /\ nbr.state \in Adjacent => SameRound(n, nbr)
         /\ nbr.state \notin Adjacent =>
              \/ SameCourse(n, nbr) /\ n.state \notin Adjacent
                 /\ n.negotiations = nbr.negotiations
              \/ Agreed(n, nbr, p)
<1> DEFINE k == [nbr EXCEPT !.last_dd_seq_num = p.seq]
           m == Event2WayReceived(k)
           r1 == [m EXCEPT !.is_master = TRUE, !.dd_seq_num = p.seq]
           r2 == [m EXCEPT !.is_master = FALSE]
<1>1. /\ k \in NeighborType /\ SameRound(k, nbr) /\ k.last_dd_seq_num = p.seq
      /\ k.adjacent = nbr.adjacent
  BY DEF NeighborType, DDs, TypeOK, SameRound, SameCourse
<1> HIDE DEF k
<1>2. /\ m \in NeighborType /\ SameCourse(m, k) /\ m.negotiations = k.negotiations
      /\ m.adjacent = k.adjacent /\ m.last_dd_seq_num = k.last_dd_seq_num
      /\ m.dd_seq_num \in {k.dd_seq_num, 0}
      /\ k.state # "INIT" => m = k
      /\ k.state = "INIT" => m.state \in {"2WAY", "EXSTART"}
  BY <1>1, TwoWayType, TwoWayCourse
<1>3. Arrived(p) = Negotiate(k, p)
  BY DEF Arrived, k
<1> HIDE DEF m
<1>4. CASE m.state # "EXSTART"
  <2>1. Arrived(p) = m
    BY <1>3, <1>4 DEF Negotiate, m
  <2> QED
    BY <1>1, <1>2, <1>4, <2>1 DEF SameRound, SameCourse, Adjacent
<1>5. CASE m.state = "EXSTART"
  <2>1. nbr.state \notin Adjacent
    BY <1>1, <1>2, <1>5 DEF SameRound, Adjacent
  <2>2. /\ r1 \in NeighborType /\ SameCourse(r1, m) /\ r1.state = "EXSTART"
        /\ r1.is_master /\ r1.dd_seq_num = p.seq /\ r1.negotiations = m.negotiations
        /\ r1.adjacent = m.adjacent /\ r1.last_dd_seq_num = m.last_dd_seq_num
    BY <1>2, <1>5 DEF NeighborType, DDs, SameCourse
  <2>3. /\ r2 \in NeighborType /\ SameCourse(r2, m) /\ r2.state = "EXSTART"
        /\ ~r2.is_master /\ r2.dd_seq_num = m.dd_seq_num
        /\ r2.negotiations = m.negotiations
        /\ r2.adjacent = m.adjacent /\ r2.last_dd_seq_num = m.last_dd_seq_num
    BY <1>2, <1>5 DEF NeighborType, SameCourse
  <2>4. CASE PeerIsMaster(m, p)
    <3>1. Arrived(p) = EventNegotiationDone(r1)
      BY <1>3, <1>5, <2>4 DEF Negotiate, m
    <3>2. EventNegotiationDone(r1) \in NeighborType
      BY <2>2, NegotiationDoneType DEF TypeOK
    <3>3. Agreed(Arrived(p), nbr, p)
      <4> HIDE DEF r1
      <4> QED
        BY <1>1, <1>2, <2>2, <2>4, <3>1, NegotiationCourse
           DEF PeerIsMaster, Agreed, SameCourse, SameRound
    <3> HIDE DEF r1
    <3> QED
      BY <1>1, <1>2, <2>1, <2>2, <3>1, <3>2, <3>3, NegotiationCourse
  <2>5. CASE ~PeerIsMaster(m, p) /\ PeerIsSlave(m, p)
    <3>1. Arrived(p) = EventNegotiationDone(r2)
      BY <1>3, <1>5, <2>5 DEF Negotiate, m
    <3>2. EventNegotiationDone(r2) \in NeighborType
      BY <2>3, NegotiationDoneType DEF TypeOK
    <3>3. Agreed(Arrived(p), nbr, p)
      <4> HIDE DEF r2
      <4> QED
        BY <1>1, <1>2, <2>3, <2>5, <3>1, NegotiationCourse
           DEF PeerIsSlave, Agreed, SameCourse, SameRound
    <3> HIDE DEF r2
    <3> QED
      BY <1>1, <1>2, <2>1, <2>3, <3>1, <3>2, <3>3, NegotiationCourse
  <2>6. CASE ~PeerIsMaster(m, p) /\ ~PeerIsSlave(m, p)
    <3>1. Arrived(p) = m
      BY <1>3, <1>5, <2>6 DEF Negotiate, m
    <3> QED
      BY <1>1, <1>2, <1>5, <2>1, <3>1 DEF SameRound, SameCourse, Adjacent
  <2> QED
    BY <2>4, <2>5, <2>6
<1> QED
  BY <1>4, <1>5

\* An answer to p: the number advances, the exchange goes on or is over, and
\* the retransmitter of a master trades the DD acknowledged for the next one.
Answered(n, p) ==
  /\ n.state = "EXCHANGE" /\ ~IsDup(p) /\ ~FlagsMismatch(n, p) /\ Expected(n, p)
  /\ nbr'.id = n.id /\ nbr'.adjacent = n.adjacent
  /\ nbr'.is_master = n.is_master /\ nbr'.negotiations = n.negotiations
  /\ nbr'.dd_seq_num = Inc(n.dd_seq_num)
  /\ nbr'.req = Absorb(n, p).req /\ nbr'.described = Absorb(n, p).described
  /\ \/ nbr'.state = "EXCHANGE" /\ nbr'.lsr_threads = n.lsr_threads
     \/ nbr'.state = "FULL" /\ nbr'.lsr_threads = n.lsr_threads
        /\ Requested(nbr') = {}
     \/ nbr'.state = "LOADING" /\ nbr'.lsr_threads = n.lsr_threads + 1
  /\ n.is_master => rxmt' = rxmt
  /\ ~n.is_master /\ nbr'.state # "EXCHANGE" => rxmt' = Acked(n)
  /\ ~n.is_master /\ nbr'.state = "EXCHANGE" =>
       \E e : /\ rxmt' = Acked(n) \cup {e}
              /\ e.id = nbr'.rxmt_map[nbr'.dd_seq_num]
              /\ e.pkt.seq = nbr'.dd_seq_num

\* The end of the exchange changes the state and starts a thread, no more.
LEMMA ExchangeDoneCourse ==
  ASSUME NEW n \in NeighborType, n.state = "EXCHANGE"
  PROVE  LET m == EventExchangeDone(n) IN
         /\ m.id = n.id /\ m.adjacent = n.adjacent
         /\ m.is_master = n.is_master /\ m.req = n.req
         /\ m.negotiations = n.negotiations /\ m.dd_seq_num = n.dd_seq_num
         /\ m.described = n.described
         /\ \/ m.state = "FULL" /\ m.lsr_threads = n.lsr_threads
               /\ Requested(m) = {}
            \/ m.state = "LOADING" /\ m.lsr_threads = n.lsr_threads + 1
BY DEF EventExchangeDone, NeighborType, Requested

\* In EXCHANGE, LOADING and FULL a DD is dropped or repeated, starts the
\* negotiation over, or is answered.
LEMMA DDOutcome ==
  ASSUME TypeOK, NEW p \in DDs, NEW n \in NeighborType,
         \/ DDIgnored(p, n) \/ DDDuplicate(p, n) \/ DDMismatch(p, n)
         \/ DDLate(p, n) \/ DDAnsweredBySlave(p, n) \/ DDAnsweredByMaster(p, n)
  PROVE  \/ nbr' = n /\ rxmt' = rxmt /\ lsdb' = lsdb
         \/ /\ SameCourse(nbr', n) /\ nbr'.state = "EXSTART"
            /\ nbr'.negotiations = n.negotiations
            /\ nbr'.adjacent = n.adjacent
            /\ rxmt' = rxmt /\ lsdb' = lsdb
         \/ Answered(n, p)
<1>1. CASE DDIgnored(p, n) \/ DDDuplicate(p, n) \/ DDLate(p, n)
  BY <1>1 DEF DDIgnored, DDDuplicate, DDLate
<1>2. CASE DDMismatch(p, n)
  BY <1>2 DEF DDMismatch, EventSeqNumberMismatch, NeighborType, SameCourse
<1> DEFINE a == Absorb(n, p)
           rest == Remainder(n.summary)
<1>3. /\ a \in NeighborType /\ rest \in Seq(LSAs)
      /\ Chunk(n.summary) \in SUBSET LSAs
      /\ a.state = n.state /\ a.is_master = n.is_master /\ a.id = n.id
      /\ a.negotiations = n.negotiations /\ a.lsr_threads = n.lsr_threads
      /\ a.rxmt_map = n.rxmt_map /\ a.adjacent = n.adjacent
  <2>1. /\ a.state = n.state /\ a.is_master = n.is_master /\ a.id = n.id
        /\ a.negotiations = n.negotiations /\ a.lsr_threads = n.lsr_threads
        /\ a.rxmt_map = n.rxmt_map /\ a.adjacent = n.adjacent
    BY DEF Absorb, NeighborType
  <2> QED
    BY <2>1, AbsorbType, RemainderType DEF NeighborType
<1>4. CASE DDAnsweredBySlave(p, n)
  <2> DEFINE reply == DD(FALSE, rest # << >>, FALSE, p.seq, Chunk(n.summary), TRUE)
             m == [a EXCEPT !.dd_seq_num = p.seq, !.summary = rest,
                            !.last_dd_data = reply]
  <2>1. reply \in DDs
    BY <1>3 DEF DD, DDs
  <2>2. m \in NeighborType
    BY <1>3, <2>1 DEF NeighborType, DDs
  <2>3. /\ m.state = a.state /\ m.is_master = a.is_master /\ m.id = a.id
        /\ m.negotiations = a.negotiations /\ m.lsr_threads = a.lsr_threads
        /\ m.req = a.req /\ m.described = a.described /\ m.dd_seq_num = p.seq
        /\ m.adjacent = a.adjacent
    BY <1>3 DEF NeighborType
  <2>4. /\ n.state = "EXCHANGE" /\ ~IsDup(p) /\ ~FlagsMismatch(n, p)
        /\ Expected(n, p) /\ n.is_master
        /\ FinishExchange(m) \/ (nbr' = m /\ lsdb' = lsdb)
        /\ rxmt' = rxmt
    BY <1>4 DEF DDAnsweredBySlave
  <2>5. p.seq = Inc(n.dd_seq_num)
    BY <2>4 DEF Expected
  <2>6. FinishExchange(m) => nbr' = EventExchangeDone(m)
    BY DEF FinishExchange
  <2> HIDE DEF a, m
  <2>7. /\ nbr'.id = m.id /\ nbr'.is_master = m.is_master /\ nbr'.req = m.req
        /\ nbr'.negotiations = m.negotiations /\ nbr'.dd_seq_num = m.dd_seq_num
        /\ nbr'.described = m.described /\ nbr'.adjacent = m.adjacent
        /\ \/ nbr'.state = "EXCHANGE" /\ nbr'.lsr_threads = m.lsr_threads
           \/ nbr'.state = "FULL" /\ nbr'.lsr_threads = m.lsr_threads
              /\ Requested(nbr') = {}
           \/ nbr'.state = "LOADING" /\ nbr'.lsr_threads = m.lsr_threads + 1
    BY <1>3, <2>2, <2>3, <2>4, <2>6, ExchangeDoneCourse
  <2> QED
    BY <1>3, <2>3, <2>4, <2>5, <2>7 DEF Answered, a
<1>5. CASE DDAnsweredByMaster(p, n)
  <2> DEFINE seq == Inc(n.dd_seq_num)
             b == [a EXCEPT !.dd_seq_num = seq]
             next == DD(FALSE, rest # << >>, TRUE, seq, Chunk(n.summary), FALSE)
             m == [b EXCEPT !.summary = rest, !.rxmt_map[seq] = alloc_id]
             e == [id |-> alloc_id, pkt |-> next]
  <2>1. seq \in Seqs /\ alloc_id \in Nat
    BY IncType DEF NeighborType, TypeOK
  <2>2. /\ b \in NeighborType
        /\ b.state = a.state /\ b.is_master = a.is_master /\ b.id = a.id
        /\ b.negotiations = a.negotiations /\ b.lsr_threads = a.lsr_threads
        /\ b.req = a.req /\ b.described = a.described /\ b.dd_seq_num = seq
        /\ b.adjacent = a.adjacent
    BY <1>3, <2>1 DEF NeighborType
  <2>3. m \in NeighborType
    BY <1>3, <2>1, <2>2 DEF NeighborType
  <2>4. /\ m.state = b.state /\ m.is_master = b.is_master /\ m.id = b.id
        /\ m.negotiations = b.negotiations /\ m.lsr_threads = b.lsr_threads
        /\ m.req = b.req /\ m.described = b.described
        /\ m.dd_seq_num = b.dd_seq_num /\ m.adjacent = b.adjacent
    BY <2>2 DEF NeighborType
  <2>5. m.rxmt_map[seq] = alloc_id
    BY <2>1, <2>2 DEF NeighborType
  <2>6. e.id = alloc_id /\ e.pkt.seq = seq
    BY DEF DD
  <2>7. /\ n.state = "EXCHANGE" /\ ~IsDup(p) /\ ~FlagsMismatch(n, p)
        /\ Expected(n, p) /\ ~n.is_master
    BY <1>5 DEF DDAnsweredByMaster
  <2>8. CASE n.summary = << >> /\ ~p.M
    <3>1. nbr' = EventExchangeDone(b) /\ rxmt' = Acked(n)
      BY <1>5, <2>8 DEF DDAnsweredByMaster, FinishExchange
    <3> HIDE DEF a, b, seq
    <3> QED
      BY <1>3, <2>2, <2>7, <3>1, ExchangeDoneCourse DEF Answered, a, seq
  <2>9. CASE ~(n.summary = << >> /\ ~p.M)
    <3>1. nbr' = m /\ rxmt' = Acked(n) \cup {e}
      BY <1>5, <2>9 DEF DDAnsweredByMaster
    <3> HIDE DEF a, b, m, e, seq
    <3>2. nbr'.state = "EXCHANGE" /\ nbr'.lsr_threads = n.lsr_threads
      BY <1>3, <2>2, <2>4, <2>7, <3>1
    <3> QED
      BY <1>3, <2>2, <2>4, <2>5, <2>6, <2>7, <3>1, <3>2 DEF Answered, a, seq
  <2> QED
    BY <2>8, <2>9
<1> QED
  BY <1>1, <1>2, <1>4, <1>5

-----------------------------------------------------------------------------
(* Order. Requests are added by an answer only, and an answer takes the    *)
(* next number, unless the DD that is answered ended a negotiation.        *)

\* m requests nothing that n does not.
Fewer(n, m) == \A l \in LSAs : m.req[l] <= n.req[l]

\* Requests removed by the LSU handler are not added.
LEMMA LSURemoveFewer ==
  ASSUME Typed, LSURemove
  PROVE  Fewer(nbr, nbr')
<1> DEFINE l == lsu[lsu_i]
<1>1. nbr \in NeighborType /\ l \in LSAs
  <2>1. lsu_i \in 1..Len(lsu) /\ lsu \in Seq(LSAs)
    BY DEF LSURemove, Typed, TypeOK, LSUInRange
  <2> QED
    BY <2>1, ElementOfSeq DEF Typed, TypeOK
<1>2. PICK r \in ReqListRemove(nbr, l) : nbr' = [nbr EXCEPT !.req = r]
  BY DEF LSURemove
<1> HIDE DEF l
<1>3. \A k \in LSAs : r[k] <= nbr.req[k]
  <2>1. nbr.req \in [LSAs -> Nat]
    BY <1>1 DEF NeighborType
  <2>2. CASE r = nbr.req
    BY <2>1, <2>2
  <2>3. ASSUME NEW m \in LSAs, r = [nbr.req EXCEPT ![m] = @ - 1]
        PROVE  \A k \in LSAs : r[k] <= nbr.req[k]
    BY <2>1, <2>3
  <2> QED
    BY <1>2, <2>2, <2>3 DEF ReqListRemove, Requested
<1>4. nbr'.req = r
  BY <1>1, <1>2 DEF NeighborType
<1> QED
  BY <1>3, <1>4 DEF Fewer

\* A step adds requests only as an answer to a DD.
LEMMA NextInOrder ==
  ASSUME Typed, [AnyStep]_vars, NEW l \in LSAs, nbr'.req[l] > nbr.req[l]
  PROVE  \/ nbr'.negotiations > nbr.negotiations
         \/ nbr.state = "EXCHANGE" /\ nbr'.dd_seq_num = Inc(nbr.dd_seq_num)
<1>0. nbr \in NeighborType /\ nbr.req[l] \in Nat /\ nbr.negotiations \in Nat
  BY DEF Typed, TypeOK, NeighborType
<1>1. nbr'.req # nbr.req
  BY <1>0
<1>2. ~(RecvOther \/ RecvFromUnknown \/ LSRSend \/ Retransmit
        \/ WaitTimer \/ Exit \/ UNCHANGED vars)
  BY <1>1 DEF RecvOther, RecvFromUnknown, LSRSend, Retransmit,
              WaitTimer, Exit, vars
<1>3. ~(LSRExits \/ LoadDoneTest \/ LoadDoneCommit)
  BY <1>0, <1>1 DEF LSRExits, LoadDoneTest, LoadDoneCommit, NeighborType
<1>10. ~Announce
  BY <1>0, <1>1, AnnounceCourse DEF SameButAnnouncers
<1>4. \A s : ~(RecvMulticastLSU(s) \/ RecvDirectedLSU(s))
  BY <1>1 DEF RecvMulticastLSU, RecvDirectedLSU
<1>5. ASSUME NEW twoWay \in BOOLEAN, NEW adjacent \in BOOLEAN,
             NEW elects \in BOOLEAN, RecvHello(twoWay, adjacent, elects)
      PROVE  FALSE
  <2> DEFINE m == [nbr EXCEPT !.adjacent = adjacent]
             h == EventHelloReceived(m)
  <2>1. m \in NeighborType /\ m.req = nbr.req
    BY <1>0 DEF NeighborType
  <2>2. nbr' \in {Event2WayReceived(h), Event1WayReceived(h)}
    BY <1>5 DEF RecvHello
  <2> HIDE DEF m
  <2>3. h \in NeighborType /\ h.req = m.req
    BY <2>1, HelloType, EventsKeep
  <2> HIDE DEF h
  <2> QED
    BY <1>1, <2>1, <2>2, <2>3, EventsKeep
<1>6. \A asked \in SUBSET LSAs : ~RecvLSR(asked)
  <2> SUFFICES ASSUME NEW asked \in SUBSET LSAs, RecvLSR(asked) PROVE FALSE
    OBVIOUS
  <2>1. nbr' \in {nbr, EventSeqNumberMismatch(nbr)}
    BY DEF RecvLSR
  <2> QED
    BY <1>0, <1>1, <2>1, EventsKeep
<1>7. ~LSURemove
  <2> SUFFICES ASSUME LSURemove PROVE FALSE
    OBVIOUS
  <2>1. nbr'.req[l] <= nbr.req[l]
    BY LSURemoveFewer DEF Fewer
  <2>2. \A i \in Nat : \A j : j \in Int /\ j <= i => ~(j > i)
    OBVIOUS
  <2>3. nbr'.req[l] \in Int
    <3>1. nbr' \in NeighborType
      BY NextTyped DEF Typed, TypeOK
    <3> QED
      BY <3>1 DEF NeighborType
  <2> QED
    BY <1>0, <2>1, <2>2, <2>3
<1>8. ASSUME NEW p \in DDs, RecvDD(p)
      PROVE  \/ nbr'.negotiations > nbr.negotiations
             \/ nbr.state = "EXCHANGE" /\ nbr'.dd_seq_num = Inc(nbr.dd_seq_num)
  <2> DEFINE n == Arrived(p)
  <2>1. /\ n \in NeighborType
        /\ nbr.state \in Adjacent => SameRound(n, nbr)
        /\ nbr.state \notin Adjacent =>
             \/ SameCourse(n, nbr) /\ n.state \notin Adjacent
                /\ n.negotiations = nbr.negotiations
             \/ Agreed(n, nbr, p)
    BY ArrivedCourse DEF Typed
  <2>2. \/ DDIgnored(p, n) \/ DDDuplicate(p, n) \/ DDMismatch(p, n)
        \/ DDLate(p, n) \/ DDAnsweredBySlave(p, n) \/ DDAnsweredByMaster(p, n)
    BY <1>8 DEF RecvDD
  <2> HIDE DEF n
  <2>3. n.req = nbr.req
    BY <2>1 DEF SameRound, SameCourse, Agreed
  <2>4. Answered(n, p)
    BY <1>1, <2>1, <2>2, <2>3, DDOutcome DEF Typed, SameCourse
  <2>5. CASE nbr.state \in Adjacent
    BY <2>1, <2>4, <2>5 DEF SameRound, Answered
  <2>6. CASE nbr.state \notin Adjacent
    <3>1. n.negotiations = nbr.negotiations + 1
      BY <2>1, <2>4, <2>6 DEF Agreed, Answered, Adjacent
    <3> QED
      BY <1>0, <2>4, <3>1 DEF Answered
  <2> QED
    BY <2>5, <2>6
<1>9. Reception \/ ThreadStep
  BY <1>2 DEF AnyStep
<1> QED
  BY <1>2, <1>3, <1>4, <1>5, <1>6, <1>7, <1>8, <1>9, <1>10
     DEF Reception, ThreadStep, Announce

\* No description is absorbed twice, nor one out of order, whatever the peer
\* repeats, loses or delays: only the next DD adds requests.
THEOREM InOrder == Spec => AbsorbedInOrder
<1>1. Typed /\ [AnyStep]_vars =>
        [(\E l \in LSAs : nbr'.req[l] > nbr.req[l]) =>
           \/ nbr'.negotiations > nbr.negotiations
           \/ nbr.state = "EXCHANGE" /\ nbr'.dd_seq_num = Inc(nbr.dd_seq_num)]_vars
  BY NextInOrder
<1> QED
  BY SpecIsAny, InitTyped, NextTyped, <1>1, PTL DEF AnySpec, AbsorbedInOrder

-----------------------------------------------------------------------------
(* The first exchange. A renegotiation leaves the packets, the threads and *)
(* the mutex of the exchange before behind; until one happens, this much   *)
(* holds of them. The lock and the flag of eventLoadDone are idle up to    *)
(* the end of EXCHANGE, so a thread started there finds the mutex free.    *)

MutexIdle == req_lock = "free" /\ ~load_done

\* The DD in flight, if any, is the one the next answer acknowledges.
AwaitsOne(n, R) ==
  /\ n.is_master => R = {}
  /\ \A e, f \in R : e = f
  /\ \A e \in R : e.id = n.rxmt_map[n.dd_seq_num] /\ e.pkt.seq = n.dd_seq_num

FirstExchange ==
  /\ nbr.negotiations = 0 =>
       nbr.state \notin Adjacent /\ rxmt = {} /\ nbr.lsr_threads = 0 /\ MutexIdle
  /\ nbr.negotiations = 1 /\ nbr.state = "EXCHANGE" =>
       AwaitsOne(nbr, rxmt) /\ nbr.lsr_threads = 0 /\ MutexIdle
  /\ nbr.negotiations = 1 /\ nbr.state \in {"LOADING", "FULL"} => rxmt = {}
  /\ nbr.negotiations = 1 /\ load_done => rxmt = {}
  /\ nbr.negotiations = 1 /\ nbr.state = "LOADING" /\ ~to_exit =>
       load_done \/ (nbr.lsr_threads > 0 /\ req_lock = "free")

\* FirstExchange looks at some fields only, and gains nothing from a
\* neighbour that falls below EXCHANGE.
LEMMA FirstExchangeSame ==
  ASSUME FirstExchange, nbr'.negotiations = nbr.negotiations,
         nbr'.lsr_threads = nbr.lsr_threads,
         \/ nbr'.state \notin Adjacent
         \/ /\ nbr'.state = nbr.state /\ nbr'.is_master = nbr.is_master
            /\ nbr'.dd_seq_num = nbr.dd_seq_num /\ nbr'.rxmt_map = nbr.rxmt_map,
         to_exit' = to_exit \/ to_exit' = TRUE,
         UNCHANGED <<rxmt, req_lock, load_done>>
  PROVE  FirstExchange'
BY DEF FirstExchange, AwaitsOne, MutexIdle, Adjacent

\* The DD in flight is the one that is acknowledged.
LEMMA AckedAll ==
  ASSUME NEW n, AwaitsOne(n, rxmt)
  PROVE  Acked(n) = {}
BY DEF Acked, AwaitsOne

\* The DD handler: a first negotiation starts with nothing in flight, and an
\* answer acknowledges what is.
LEMMA FirstExchangeDD ==
  ASSUME Typed, FirstExchange, NEW p \in DDs, RecvDD(p)
  PROVE  FirstExchange'
<1> DEFINE n == Arrived(p)
<1>1. /\ n \in NeighborType
      /\ nbr.state \in Adjacent => SameRound(n, nbr)
      /\ nbr.state \notin Adjacent =>
           \/ SameCourse(n, nbr) /\ n.state \notin Adjacent
              /\ n.negotiations = nbr.negotiations
           \/ Agreed(n, nbr, p)
  BY ArrivedCourse DEF Typed
<1>2. \/ DDIgnored(p, n) \/ DDDuplicate(p, n) \/ DDMismatch(p, n)
      \/ DDLate(p, n) \/ DDAnsweredBySlave(p, n) \/ DDAnsweredByMaster(p, n)
  BY DEF RecvDD
<1>3. UNCHANGED <<req_lock, load_done, to_exit>>
  BY DEF RecvDD
<1> HIDE DEF n
<1>4. \/ nbr' = n /\ rxmt' = rxmt
      \/ /\ SameCourse(nbr', n) /\ nbr'.state = "EXSTART"
         /\ nbr'.negotiations = n.negotiations
         /\ rxmt' = rxmt
      \/ Answered(n, p)
  BY <1>1, <1>2, DDOutcome DEF Typed
<1>5. nbr.negotiations \in Nat /\ n.negotiations \in Nat /\ n.lsr_threads \in Nat
  BY <1>1 DEF Typed, TypeOK, NeighborType
<1>6. ASSUME n.negotiations = 1, AwaitsOne(n, rxmt), n.lsr_threads = 0, MutexIdle,
             Answered(n, p)
      PROVE  FirstExchange'
  <2>1. MutexIdle' /\ ~load_done' /\ req_lock' = "free"
    BY <1>3, <1>6 DEF MutexIdle
  <2>2. nbr'.negotiations = 1 /\ nbr'.is_master = n.is_master
    BY <1>6 DEF Answered
  <2>3. \/ nbr'.state \in {"EXCHANGE", "FULL"} /\ nbr'.lsr_threads = 0
        \/ nbr'.state = "LOADING" /\ nbr'.lsr_threads = 1
    BY <1>6 DEF Answered
  <2>4. Acked(n) = {}
    BY <1>6, AckedAll
  <2>5. n.is_master => rxmt' = {}
    BY <1>6 DEF Answered, AwaitsOne
  <2>6. nbr'.state # "EXCHANGE" => rxmt' = {}
    BY <1>6, <2>4, <2>5 DEF Answered
  <2>7. AwaitsOne(nbr', rxmt')
    <3>1. CASE rxmt' = {}
      BY <3>1 DEF AwaitsOne
    <3>2. CASE rxmt' # {}
      <4>1. ~n.is_master /\ nbr'.state = "EXCHANGE"
        BY <2>5, <2>6, <3>2
      <4>2. PICK e : /\ rxmt' = {e}
                     /\ e.id = nbr'.rxmt_map[nbr'.dd_seq_num]
                     /\ e.pkt.seq = nbr'.dd_seq_num
        BY <1>6, <2>4, <4>1 DEF Answered
      <4> QED
        BY <2>2, <4>1, <4>2 DEF AwaitsOne
    <3> QED
      BY <3>1, <3>2
  <2> QED
    BY <2>1, <2>2, <2>3, <2>6, <2>7 DEF FirstExchange
<1>7. CASE nbr.state \in Adjacent
  <2>1. SameRound(n, nbr) /\ nbr.negotiations # 0
    BY <1>1, <1>7 DEF FirstExchange
  <2>2. CASE ~Answered(n, p)
    <3>1. \/ nbr' = n
          \/ SameCourse(nbr', n) /\ nbr'.state = "EXSTART"
             /\ nbr'.negotiations = n.negotiations
      BY <1>4, <2>2
    <3>2. /\ nbr'.negotiations = nbr.negotiations
          /\ nbr'.lsr_threads = nbr.lsr_threads
          /\ \/ nbr'.state \notin Adjacent
             \/ /\ nbr'.state = nbr.state /\ nbr'.is_master = nbr.is_master
                /\ nbr'.dd_seq_num = nbr.dd_seq_num
                /\ nbr'.rxmt_map = nbr.rxmt_map
      BY <2>1, <3>1 DEF SameRound, SameCourse, Adjacent
    <3> QED
      BY <1>3, <1>4, <2>2, <3>2, FirstExchangeSame
  <2>3. CASE Answered(n, p) /\ nbr.negotiations = 1
    <3>1. n.state = "EXCHANGE" /\ nbr.state = "EXCHANGE"
      BY <2>1, <2>3 DEF Answered, SameRound
    <3>2. AwaitsOne(nbr, rxmt) /\ nbr.lsr_threads = 0 /\ MutexIdle
      BY <2>3, <3>1 DEF FirstExchange
    <3>3. AwaitsOne(n, rxmt) /\ n.lsr_threads = 0 /\ n.negotiations = 1
      BY <2>1, <2>3, <3>2 DEF AwaitsOne, SameRound, SameCourse
    <3> QED
      BY <1>6, <2>3, <3>2, <3>3
  <2>4. CASE Answered(n, p) /\ nbr.negotiations # 1
    <3>1. nbr'.negotiations \notin {0, 1}
      BY <2>1, <2>4 DEF Answered, SameRound
    <3> QED
      BY <3>1 DEF FirstExchange
  <2> QED
    BY <2>2, <2>3, <2>4
<1>8. CASE nbr.state \notin Adjacent /\ ~Agreed(n, nbr, p)
  <2>1. SameCourse(n, nbr) /\ n.state \notin Adjacent
        /\ n.negotiations = nbr.negotiations
    BY <1>1, <1>8
  <2>2. ~Answered(n, p)
    BY <2>1 DEF Answered, Adjacent
  <2>3. /\ nbr'.negotiations = nbr.negotiations
        /\ nbr'.lsr_threads = nbr.lsr_threads /\ nbr'.state \notin Adjacent
    BY <1>4, <2>1, <2>2 DEF SameCourse, Adjacent
  <2> QED
    BY <1>3, <1>4, <2>2, <2>3, FirstExchangeSame
<1>9. CASE nbr.state \notin Adjacent /\ Agreed(n, nbr, p)
  <2>1. n.negotiations = nbr.negotiations + 1 /\ n.state = "EXCHANGE"
        /\ n.lsr_threads = nbr.lsr_threads
    BY <1>9 DEF Agreed, SameCourse
  <2>2. CASE nbr.negotiations # 0
    <3>1. nbr'.negotiations = n.negotiations
      BY <1>4 DEF Answered
    <3>2. nbr'.negotiations \notin {0, 1}
      BY <1>5, <2>1, <2>2, <3>1
    <3> QED
      BY <3>2 DEF FirstExchange
  <2>3. CASE nbr.negotiations = 0
    <3>1. /\ rxmt = {} /\ n.lsr_threads = 0 /\ n.negotiations = 1
          /\ MutexIdle /\ AwaitsOne(n, rxmt)
      BY <2>1, <2>3 DEF FirstExchange, AwaitsOne
    <3>2. CASE ~Answered(n, p)
      <4>1. rxmt' = {} /\ MutexIdle' /\ ~load_done'
        BY <1>3, <1>4, <3>1, <3>2 DEF MutexIdle
      <4>2. nbr'.negotiations = 1 /\ nbr'.state \in {"EXCHANGE", "EXSTART"}
            /\ nbr'.lsr_threads = 0
        BY <1>4, <2>1, <3>1, <3>2 DEF SameCourse
      <4> QED
        BY <4>1, <4>2 DEF FirstExchange, AwaitsOne
    <3> QED
      BY <1>6, <3>1, <3>2
  <2> QED
    BY <2>2, <2>3
<1> QED
  BY <1>7, <1>8, <1>9

\* Every step of the host keeps FirstExchange, whichever thread takes it: no
\* handler needs to wait for eventLoadDone.
LEMMA NextFirst == Typed /\ FirstExchange /\ [AnyStep]_vars => FirstExchange'
<1> SUFFICES ASSUME Typed, FirstExchange, [AnyStep]_vars PROVE FirstExchange'
  OBVIOUS
<1>0. nbr \in NeighborType
  BY DEF Typed, TypeOK
<1>1. CASE RecvOther \/ RecvFromUnknown \/ LSRSend \/ Retransmit
           \/ WaitTimer \/ Exit \/ UNCHANGED vars
  <2>1. /\ nbr' = nbr /\ UNCHANGED <<rxmt, req_lock, load_done>>
        /\ to_exit' = to_exit \/ to_exit' = TRUE
    BY <1>1 DEF RecvOther, RecvFromUnknown, LSRSend, Retransmit,
                WaitTimer, Exit, vars
  <2> QED
    BY <2>1, FirstExchangeSame
<1>2. ASSUME NEW s, RecvMulticastLSU(s) \/ RecvDirectedLSU(s)
      PROVE  FirstExchange'
  <2>1. nbr' = nbr /\ UNCHANGED <<rxmt, req_lock, load_done, to_exit>>
    BY <1>2 DEF RecvMulticastLSU, RecvDirectedLSU
  <2> QED
    BY <2>1, FirstExchangeSame
<1>3. ASSUME NEW twoWay \in BOOLEAN, NEW adjacent \in BOOLEAN,
             NEW elects \in BOOLEAN, RecvHello(twoWay, adjacent, elects)
      PROVE  FirstExchange'
  <2> DEFINE m == [nbr EXCEPT !.adjacent = adjacent]
             h == EventHelloReceived(m)
  <2>1. /\ m \in NeighborType /\ SameRound(m, nbr)
    BY <1>0 DEF NeighborType, SameRound, SameCourse
  <2>2. nbr' \in {Event2WayReceived(h), Event1WayReceived(h)}
        /\ UNCHANGED <<rxmt, req_lock, load_done, to_exit>>
    BY <1>3 DEF RecvHello
  <2> HIDE DEF m
  <2>3. /\ h \in NeighborType
        /\ SameRound(h, m) \/ (h.state = "INIT" /\ SameCourse(h, m)
                               /\ h.negotiations = m.negotiations)
    BY <2>1, HelloType DEF EventHelloReceived, NeighborType, SameRound, SameCourse
  <2> HIDE DEF h
  <2>4. \/ SameRound(nbr', h)
        \/ /\ SameCourse(nbr', h) /\ nbr'.negotiations = h.negotiations
           /\ nbr'.state \notin Adjacent
    <3>1. CASE nbr' = Event2WayReceived(h)
      BY <2>3, <3>1, TwoWayCourse DEF SameRound, SameCourse, Adjacent
    <3>2. CASE nbr' = Event1WayReceived(h)
      BY <2>3, <3>2 DEF Event1WayReceived, NeighborType, SameRound, SameCourse,
                        Adjacent
    <3> QED
      BY <2>2, <3>1, <3>2
  <2>5. /\ nbr'.negotiations = nbr.negotiations
        /\ nbr'.lsr_threads = nbr.lsr_threads
        /\ \/ nbr'.state \notin Adjacent
           \/ /\ nbr'.state = nbr.state /\ nbr'.is_master = nbr.is_master
              /\ nbr'.dd_seq_num = nbr.dd_seq_num /\ nbr'.rxmt_map = nbr.rxmt_map
    BY <2>1, <2>3, <2>4 DEF SameRound, SameCourse, Adjacent
  <2> QED
    BY <2>2, <2>5, FirstExchangeSame
<1>4. ASSUME NEW asked \in SUBSET LSAs, RecvLSR(asked) PROVE FirstExchange'
  <2>1. nbr' \in {nbr, EventSeqNumberMismatch(nbr)}
        /\ UNCHANGED <<rxmt, req_lock, load_done, to_exit>>
    BY <1>4 DEF RecvLSR
  <2>2. /\ nbr'.negotiations = nbr.negotiations
        /\ nbr'.lsr_threads = nbr.lsr_threads
        /\ nbr' = nbr \/ nbr'.state \notin Adjacent
    BY <1>0, <2>1 DEF EventSeqNumberMismatch, NeighborType, Adjacent
  <2> QED
    BY <2>1, <2>2, FirstExchangeSame
<1>5. CASE LSURemove
  <2>1. PICK r : nbr' = [nbr EXCEPT !.req = r]
    BY <1>5 DEF LSURemove
  <2>2. UNCHANGED <<rxmt, req_lock, load_done, to_exit>>
    BY <1>5 DEF LSURemove
  <2>3. /\ nbr'.negotiations = nbr.negotiations
        /\ nbr'.lsr_threads = nbr.lsr_threads /\ nbr'.state = nbr.state
        /\ nbr'.is_master = nbr.is_master
        /\ nbr'.dd_seq_num = nbr.dd_seq_num /\ nbr'.rxmt_map = nbr.rxmt_map
    BY <1>0, <2>1 DEF NeighborType
  <2> QED
    BY <2>2, <2>3, FirstExchangeSame
<1>6. CASE Announce
  BY <1>0, <1>6, AnnounceCourse, FirstExchangeSame DEF SameButAnnouncers
<1>7. CASE LSRExits
  <2>1. /\ nbr'.negotiations = nbr.negotiations /\ nbr'.state = nbr.state
        /\ nbr.lsr_threads > 0 /\ to_exit /\ to_exit'
    BY <1>0, <1>7 DEF LSRExits, NeighborType
  <2>2. nbr.lsr_threads # 0
    BY <1>0, <2>1 DEF NeighborType
  <2>3. UNCHANGED <<rxmt, load_done>>
    BY <1>7 DEF LSRExits
  <2> QED
    BY <2>1, <2>2, <2>3 DEF FirstExchange
<1>8. CASE LoadDoneTest
  <2>1. /\ nbr'.negotiations = nbr.negotiations /\ nbr'.state = nbr.state
        /\ nbr.lsr_threads > 0 /\ load_done' = (nbr.state = "LOADING")
        /\ rxmt' = rxmt
    BY <1>0, <1>8 DEF LoadDoneTest, NeighborType
  <2>2. nbr.lsr_threads # 0
    BY <1>0, <2>1 DEF NeighborType
  <2> QED
    BY <2>1, <2>2 DEF FirstExchange
<1>9. CASE LoadDoneCommit
  <2>1. /\ nbr'.negotiations = nbr.negotiations /\ nbr'.state = "FULL"
        /\ load_done /\ ~load_done' /\ rxmt' = rxmt
    BY <1>0, <1>9 DEF LoadDoneCommit, NeighborType
  <2> QED
    BY <2>1 DEF FirstExchange, MutexIdle
<1>10. CASE Reception
  BY <1>1, <1>2, <1>3, <1>4, <1>5, <1>10, FirstExchangeDD DEF Reception
<1>11. CASE ThreadStep
  BY <1>1, <1>6, <1>7, <1>8, <1>9, <1>11 DEF ThreadStep, Announce
<1> QED
  BY <1>1, <1>10, <1>11 DEF AnyStep

\* FirstExchange is an invariant, for any peer.
LEMMA FirstExchangeAlways == AnySpec => [](Typed /\ FirstExchange)
<1>1. Init => FirstExchange
  <2> SUFFICES ASSUME Init PROVE FirstExchange
    OBVIOUS
  <2>1. nbr.state = "DOWN" /\ nbr.negotiations = 0 /\ nbr.lsr_threads = 0
    BY DEF Init, Absent
  <2> QED
    BY <2>1 DEF Init, FirstExchange, MutexIdle, Adjacent
<1>2. (Typed /\ FirstExchange) /\ [AnyStep]_vars => (Typed /\ FirstExchange)'
  BY NextTyped, NextFirst
<1> QED
  BY InitTyped, <1>1, <1>2, PTL DEF AnySpec

\* Until something is renegotiated at most one DD of the host awaits its
\* answer, the one with the current number, and none once the exchange ended.
THEOREM OneInFlight == Spec => []OneOutstandingDD
<1>1. Typed /\ FirstExchange => OneOutstandingDD
  <2> SUFFICES ASSUME Typed, FirstExchange, nbr.state \in Adjacent,
                      nbr.negotiations = 1
               PROVE  /\ Cardinality(rxmt) <= 1
                      /\ \A e \in rxmt : e.pkt.seq = nbr.dd_seq_num
                                         /\ nbr.state = "EXCHANGE"
    BY DEF OneOutstandingDD
  <2>1. (nbr.state = "EXCHANGE" /\ AwaitsOne(nbr, rxmt)) \/ rxmt = {}
    BY DEF FirstExchange, Adjacent
  <2>2. CASE rxmt = {}
    <3>1. Cardinality(rxmt) = 0
      BY <2>2, FS_EmptySet
    <3> QED
      BY <2>2, <3>1
  <2>3. CASE rxmt # {}
    <3>1. PICK e : rxmt = {e}
      <4>1. PICK e : e \in rxmt
        BY <2>3
      <4>2. \A f \in rxmt : f = e
        BY <2>1, <4>1 DEF AwaitsOne
      <4> QED
        BY <4>1, <4>2
    <3>2. Cardinality(rxmt) = 1
      BY <3>1, FS_Singleton
    <3> QED
      BY <2>1, <2>3, <3>2 DEF AwaitsOne
  <2> QED
    BY <2>2, <2>3
<1> QED
  BY SpecIsAny, FirstExchangeAlways, <1>1, PTL

\* Until something is renegotiated LOADING has a thread that can end it.
THEOREM LoadingHasThread == Spec => []SomeoneLoads
<1>1. FirstExchange => SomeoneLoads
  BY DEF FirstExchange, SomeoneLoads
<1> QED
  BY SpecIsAny, FirstExchangeAlways, <1>1, PTL
=============================================================================
