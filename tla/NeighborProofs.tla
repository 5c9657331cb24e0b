--------------------------- MODULE NeighborProofs ---------------------------
(***************************************************************************)
(* Proofs about Neighbor, for every value of its constants.                *)
(***************************************************************************)
EXTENDS Neighbor, FiniteSetTheorems, SequenceTheorems, TLAPS

-----------------------------------------------------------------------------
(* The operators the handlers are built from                               *)

\* The sequence numbers are closed under the increment of the code.
LEMMA IncType ==
  ASSUME NEW s \in Seqs PROVE Inc(s) \in Seqs
BY ConfigAssumption DEF Inc, Seqs

\* The conversion of a list of the database is a list of its LSAs.
LEMMA ListingType ==
  ASSUME NEW S, S \subseteq LSAs
  PROVE  Listing(S) \in Seq(LSAs)
<1>1. IsFiniteSet(S)
  BY ConfigAssumption, FS_Subset
<1>2. Cardinality(S) \in Nat
  BY <1>1, FS_CardinalityType
<1>3. \E f \in [1..Cardinality(S) -> S] :
        \A i, j \in 1..Cardinality(S) : f[i] = f[j] => i = j
  <2>1. PICK f : f \in Bijection(1..Cardinality(S), S)
    BY <1>1, FS_CardinalityType DEF ExistsBijection
  <2> QED
    BY <2>1 DEF Bijection, Injection, IsInjective, Surjection
<1>4. Listing(S) \in [1..Cardinality(S) -> S]
  BY <1>3 DEF Listing
<1> QED
  BY <1>2, <1>4

\* What the handlers leave of the summary list, and what they send of it.
LEMMA RemainderType ==
  ASSUME NEW s \in Seq(LSAs)
  PROVE  Remainder(s) \in Seq(LSAs) /\ Chunk(s) \subseteq LSAs
<1>1. Len(s) \in Nat /\ ChunkLen(s) \in 0..Len(s)
  BY ConfigAssumption, LenProperties DEF ChunkLen
<1>2. Chunk(s) \subseteq LSAs
  BY <1>1, ElementOfSeq DEF Chunk
<1>3. Remainder(s) \in Seq(LSAs)
  BY <1>1, SubSeqProperties DEF Remainder
<1> QED
  BY <1>2, <1>3

-----------------------------------------------------------------------------
(* The events keep the neighbour well typed.                               *)

\* A Hello, two-way or one-way.
LEMMA HelloType ==
  ASSUME NEW n \in NeighborType
  PROVE  /\ EventHelloReceived(n) \in NeighborType
         /\ Event1WayReceived(n) \in NeighborType
BY DEF EventHelloReceived, Event1WayReceived, NeighborType, States, TwoWay,
       Adjacent

\* A two-way Hello, or a DD in INIT.
LEMMA TwoWayType ==
  ASSUME NEW n \in NeighborType
  PROVE  Event2WayReceived(n) \in NeighborType
<1>0. 0 \in Seqs
  BY ConfigAssumption DEF Seqs
<1>1. n.dd_waiting + 1 \in Nat
  BY DEF NeighborType
<1>2. [n EXCEPT !.state = "EXSTART", !.dd_seq_num = 0, !.is_master = TRUE,
                !.dd_waiting = @ + 1] \in NeighborType
  BY <1>0, <1>1 DEF NeighborType, States, TwoWay
<1>3. [n EXCEPT !.state = "2WAY"] \in NeighborType
  BY DEF NeighborType, States, TwoWay
<1> QED
  BY <1>2, <1>3 DEF Event2WayReceived

\* The end of a negotiation.
LEMMA NegotiationDoneType ==
  ASSUME NEW n \in NeighborType, lsdb \subseteq LSAs
  PROVE  EventNegotiationDone(n) \in NeighborType
<1>1. n.summary \o Listing(lsdb) \in Seq(LSAs)
  BY ListingType, ConcatProperties DEF NeighborType
<1>2. n.negotiations + 1 \in Nat /\ "EXCHANGE" \in States
  BY DEF NeighborType, States, TwoWay, Adjacent
<1>3. [n EXCEPT !.state = "EXCHANGE", !.summary = @ \o Listing(lsdb),
                !.described = {}, !.negotiations = @ + 1] \in NeighborType
  BY <1>1, <1>2 DEF NeighborType
<1> QED
  BY <1>3 DEF EventNegotiationDone

\* A mismatch or a bad request.
LEMMA MismatchType ==
  ASSUME NEW n \in NeighborType
  PROVE  EventSeqNumberMismatch(n) \in NeighborType
BY DEF EventSeqNumberMismatch, NeighborType, States, TwoWay, Adjacent

\* The end of the exchange.
LEMMA ExchangeDoneType ==
  ASSUME NEW n \in NeighborType
  PROVE  EventExchangeDone(n) \in NeighborType
<1>1. n.lsr_threads + 1 \in Nat /\ "LOADING" \in States /\ "FULL" \in States
  BY DEF NeighborType, States, TwoWay, Adjacent
<1>2. [n EXCEPT !.state = "LOADING", !.lsr_threads = @ + 1] \in NeighborType
  BY <1>1 DEF NeighborType
<1>3. [n EXCEPT !.state = "FULL", !.claimed = FALSE] \in NeighborType
  BY <1>1 DEF NeighborType
<1> QED
  BY <1>2, <1>3 DEF EventExchangeDone

\* S_INIT and S_EXSTART of the DD handler.
LEMMA NegotiateType ==
  ASSUME NEW n \in NeighborType, NEW p \in DDs, lsdb \subseteq LSAs
  PROVE  Negotiate(n, p) \in NeighborType
<1> DEFINE m == Event2WayReceived(n)
<1>1. m \in NeighborType
  BY TwoWayType
<1>2. [m EXCEPT !.is_master = TRUE, !.dd_seq_num = p.seq] \in NeighborType
  BY <1>1 DEF NeighborType, DDs
<1>3. [m EXCEPT !.is_master = FALSE] \in NeighborType
  BY <1>1 DEF NeighborType
<1> QED
  BY <1>1, <1>2, <1>3, NegotiationDoneType DEF Negotiate

\* The headers of a DD.
LEMMA AbsorbType ==
  ASSUME NEW n \in NeighborType, NEW p \in DDs
  PROVE  Absorb(n, p) \in NeighborType
<1>1. [l \in LSAs |-> IF l \in p.hdrs \ lsdb THEN n.req[l] + 1 ELSE n.req[l]]
        \in [LSAs -> Nat]
  BY DEF NeighborType
<1>2. n.described \cup p.hdrs \in SUBSET LSAs
  BY DEF NeighborType, DDs
<1> QED
  BY <1>1, <1>2 DEF Absorb, NeighborType

\* Originating only adds to the database.
LEMMA OriginateType ==
  ASSUME lsdb \subseteq LSAs
  PROVE  Originate(lsdb) \subseteq LSAs /\ lsdb \subseteq Originate(lsdb)
BY ConfigAssumption DEF Originate

\* The removal of a request.
LEMMA ReqListRemoveType ==
  ASSUME NEW n \in NeighborType, NEW l \in LSAs, NEW r \in ReqListRemove(n, l)
  PROVE  [n EXCEPT !.req = r] \in NeighborType
<1>1. r \in [LSAs -> Nat]
  BY DEF ReqListRemove, Requested, NeighborType
<1> QED
  BY <1>1 DEF NeighborType

-----------------------------------------------------------------------------
(* Type correctness. While an LSU is being installed its loop variable is  *)
(* in range, which the type of the LSA looked up depends on.               *)

LSUInRange == receiver = "lsu" => lsu_i \in 1..Len(lsu) /\ lsu[lsu_i] \in lsdb

Typed == TypeOK /\ LSUInRange

\* A step of the host, whatever the packet that arrives: the bounds of the
\* runs are left out, so that what is proved of these steps holds for every
\* environment of the host, also for the peer of Adjacency.
Reception ==
  \/ RecvOther \/ RecvFromUnknown \/ LSURemove
  \/ \E twoWay, adjacent, elects \in BOOLEAN : RecvHello(twoWay, adjacent, elects)
  \/ \E p \in DDs : RecvDD(p)
  \/ \E asked \in SUBSET LSAs : RecvLSR(asked)
  \/ \E s \in Seq(LSAs) : RecvMulticastLSU(s) \/ RecvDirectedLSU(s)

AnyStep == Reception \/ ThreadStep

AnySpec == Init /\ [][AnyStep]_vars

\* The specification without the bounds allows everything that Spec does.
LEMMA SpecIsAny == Spec => AnySpec
<1>1. Next => AnyStep
  <2> SUFFICES ASSUME ReceiverStep PROVE Reception
    BY DEF Next, AnyStep
  <2>1. ASSUME NEW k \in 1..MaxLSU, NEW s \in [1..k -> LSAs] PROVE s \in Seq(LSAs)
    BY <2>1, ConfigAssumption
  <2> QED
    BY <2>1 DEF ReceiverStep, Reception
<1> QED
  BY <1>1, PTL DEF Spec, AnySpec

\* The host starts well typed.
LEMMA InitTyped == Init => Typed
<1> SUFFICES ASSUME Init PROVE Typed
  OBVIOUS
<1>1. 0 \in Seqs
  BY ConfigAssumption DEF Seqs
<1>2. << >> \in Seq(LSAs) /\ << >> \in Seq(Packets) /\ Len(<< >>) = 0
  BY EmptySeq
<1>3. \A id \in NbrIds : Absent(id) \in NeighborType
  BY <1>1, <1>2 DEF Absent, NeighborType, States, TwoWay
<1>4. nbr \in NeighborType
  BY <1>3 DEF Init
<1>5. lsu \in Seq(LSAs) /\ lsu_i \in 0..Len(lsu) /\ out \in Seq(Packets)
  BY <1>2 DEF Init
<1> QED
  BY <1>4, <1>5 DEF Init, Typed, TypeOK, LSUInRange

\* A packet handed to the socket, alone or not at all.
LEMMA OutType ==
  ASSUME NEW pkt \in Packets
  PROVE  <<pkt>> \in Seq(Packets) /\ << >> \in Seq(Packets)
OBVIOUS

\* Every disjunct of the DD handler, for a well typed neighbour n.
LEMMA DDTyped ==
  ASSUME TypeOK, NEW p \in DDs, NEW n \in NeighborType,
         \/ DDIgnored(p, n) \/ DDDuplicate(p, n) \/ DDMismatch(p, n)
         \/ DDLate(p, n) \/ DDAnsweredBySlave(p, n) \/ DDAnsweredByMaster(p, n)
  PROVE  /\ nbr' \in NeighborType /\ out' \in Seq(Packets)
         /\ rxmt' \subseteq [id : Nat, pkt : DDs] /\ alloc_id' \in Nat
         /\ lsdb' \subseteq LSAs /\ lsdb \subseteq lsdb'
<1> USE DEF TypeOK
<1>0. << >> \in Seq(Packets)
  BY EmptySeq
<1>1. CASE DDIgnored(p, n)
  BY <1>0, <1>1 DEF DDIgnored
<1>2. CASE DDDuplicate(p, n)
  <2>1. n.last_dd_data \in Packets
    BY DEF NeighborType, Packets
  <2> QED
    BY <1>0, <1>2, <2>1, OutType DEF DDDuplicate
<1>3. CASE DDMismatch(p, n)
  BY <1>0, <1>3, MismatchType DEF DDMismatch
<1>4. CASE DDLate(p, n)
  BY <1>0, <1>4 DEF DDLate
<1>5. ASSUME NEW m \in NeighborType, FinishExchange(m)
      PROVE  nbr' \in NeighborType /\ lsdb' \subseteq LSAs /\ lsdb \subseteq lsdb'
  BY <1>5, ExchangeDoneType, OriginateType DEF FinishExchange
<1> DEFINE rest == Remainder(n.summary)
           a == Absorb(n, p)
<1>6. a \in NeighborType /\ rest \in Seq(LSAs) /\ Chunk(n.summary) \in SUBSET LSAs
  BY AbsorbType, RemainderType DEF NeighborType
<1>7. CASE DDAnsweredBySlave(p, n)
  <2> DEFINE reply == DD(FALSE, rest # << >>, FALSE, p.seq, Chunk(n.summary), TRUE)
             m == [a EXCEPT !.dd_seq_num = p.seq, !.summary = rest,
                            !.last_dd_data = reply]
  <2>1. reply \in DDs /\ reply \in Packets
    BY <1>6 DEF DD, DDs, Packets
  <2>2. m \in NeighborType
    BY <1>6, <2>1 DEF NeighborType, DDs
  <2>3. out' = <<reply>> /\ rxmt' = rxmt /\ alloc_id' = alloc_id
    BY <1>7 DEF DDAnsweredBySlave
  <2>4. FinishExchange(m) \/ (nbr' = m /\ lsdb' = lsdb)
    BY <1>7 DEF DDAnsweredBySlave
  <2> QED
    BY <1>5, <2>1, <2>2, <2>3, <2>4, OutType
<1>8. CASE DDAnsweredByMaster(p, n)
  <2> DEFINE seq == Inc(n.dd_seq_num)
             b == [a EXCEPT !.dd_seq_num = seq]
             next == DD(FALSE, rest # << >>, TRUE, seq, Chunk(n.summary), FALSE)
             m == [b EXCEPT !.summary = rest, !.rxmt_map[seq] = alloc_id]
  <2>1. seq \in Seqs
    BY IncType DEF NeighborType
  <2>2. next \in DDs /\ next \in Packets
    BY <1>6, <2>1 DEF DD, DDs, Packets
  <2>3. b \in NeighborType
    BY <1>6, <2>1 DEF NeighborType
  <2>4. m \in NeighborType
    BY <1>6, <2>1, <2>3 DEF NeighborType
  <2>5. Acked(n) \subseteq rxmt
    BY DEF Acked
  <2>6. CASE n.summary = << >> /\ ~p.M
    <3>1. FinishExchange(b) /\ rxmt' = Acked(n) /\ out' = << >> /\ alloc_id' = alloc_id
      BY <1>8, <2>6 DEF DDAnsweredByMaster
    <3> QED
      BY <1>0, <1>5, <2>3, <2>5, <3>1
  <2>7. CASE ~(n.summary = << >> /\ ~p.M)
    <3>1. /\ nbr' = m
          /\ rxmt' = Acked(n) \cup {[id |-> alloc_id, pkt |-> next]}
          /\ alloc_id' = alloc_id + 1
          /\ out' = <<next>> /\ lsdb' = lsdb
      BY <1>8, <2>7 DEF DDAnsweredByMaster
    <3> HIDE DEF next, m
    <3>2. [id |-> alloc_id, pkt |-> next] \in [id : Nat, pkt : DDs]
      BY <2>2
    <3> QED
      BY <2>2, <2>4, <2>5, <3>1, <3>2, OutType
  <2> QED
    BY <2>6, <2>7
<1> QED
  BY <1>1, <1>2, <1>3, <1>4, <1>7, <1>8

\* The threads that announce: they only count themselves.
Announce ==
  AnnounceTest \/ AnnounceRead \/ AnnounceEnds \/ \E s \in Seqs : AnnounceSend(s)

\* Two neighbours that differ in the threads that announce at most
SameButAnnouncers(m, n) ==
  /\ m.id = n.id /\ m.adjacent = n.adjacent /\ m.state = n.state
  /\ m.is_master = n.is_master /\ m.dd_seq_num = n.dd_seq_num
  /\ m.last_dd_seq_num = n.last_dd_seq_num /\ m.last_dd_data = n.last_dd_data
  /\ m.rxmt_map = n.rxmt_map /\ m.summary = n.summary /\ m.req = n.req
  /\ m.described = n.described /\ m.negotiations = n.negotiations
  /\ m.lsr_threads = n.lsr_threads /\ m.checked = n.checked
  /\ m.claimed = n.claimed

\* What a thread that announces leaves alone.
LEMMA AnnounceCourse ==
  ASSUME nbr \in NeighborType, Announce
  PROVE  /\ nbr' \in NeighborType /\ SameButAnnouncers(nbr', nbr)
         /\ UNCHANGED <<req_lock, load_done, rxmt, alloc_id, lsdb, receiver, lsu,
                        lsu_i, to_exit>>
<1> USE DEF SameButAnnouncers
<1>1. CASE AnnounceTest
  <2>1. nbr.dd_waiting - 1 \in Nat /\ nbr.dd_tested + 1 \in Nat
    BY <1>1 DEF AnnounceTest, NeighborType
  <2> QED
    BY <1>1, <2>1 DEF AnnounceTest, NeighborType
<1>2. CASE AnnounceRead
  <2> DEFINE s == Swap[nbr.dd_seq_num]
             g == [nbr.dd_sending EXCEPT ![s] = @ + 1]
  <2>1. nbr.dd_tested - 1 \in Nat
    BY <1>2 DEF AnnounceRead, NeighborType
  <2>2. nbr.dd_sending \in [Seqs -> Nat] /\ nbr.dd_seq_num \in Seqs
    BY DEF NeighborType
  <2>3. s \in Seqs
    BY <2>2, ConfigAssumption
  <2>4. nbr' = [nbr EXCEPT !.dd_tested = @ - 1, !.dd_sending = g]
    BY <1>2 DEF AnnounceRead
  <2> HIDE DEF s
  <2>5. g \in [Seqs -> Nat]
    BY <2>2, <2>3
  <2> HIDE DEF g
  <2> QED
    BY <1>2, <2>1, <2>4, <2>5 DEF AnnounceRead, NeighborType
<1>3. ASSUME NEW s \in Seqs, AnnounceSend(s)
      PROVE  /\ nbr' \in NeighborType /\ SameButAnnouncers(nbr', nbr)
             /\ UNCHANGED <<req_lock, load_done, rxmt, alloc_id, lsdb, receiver, lsu,
                            lsu_i, to_exit>>
  <2>1. nbr.dd_waiting + 1 \in Nat /\ nbr.dd_sending[s] - 1 \in Nat
    BY <1>3 DEF AnnounceSend, NeighborType
  <2> QED
    BY <1>3, <2>1 DEF AnnounceSend, NeighborType
<1>4. CASE AnnounceEnds
  <2>1. nbr.dd_waiting - 1 \in Nat
    BY <1>4 DEF AnnounceEnds, NeighborType
  <2> QED
    BY <1>4, <2>1 DEF AnnounceEnds, NeighborType
<1> QED
  BY <1>1, <1>2, <1>3, <1>4 DEF Announce

\* Every step of the host keeps the types.
LEMMA NextTyped == Typed /\ [AnyStep]_vars => Typed'
<1> SUFFICES ASSUME Typed, [AnyStep]_vars PROVE Typed'
  OBVIOUS
<1> USE DEF Typed, TypeOK, LSUInRange
<1>0. << >> \in Seq(Packets)
  BY EmptySeq
<1>1. LoopTop \in {"recv", "exited"}
  BY DEF LoopTop
<1>2. CASE RecvOther
  BY <1>0, <1>1, <1>2 DEF RecvOther
<1>3. ASSUME NEW twoWay \in BOOLEAN, NEW adjacent \in BOOLEAN,
             NEW elects \in BOOLEAN, RecvHello(twoWay, adjacent, elects)
      PROVE  Typed'
  <2> DEFINE m == [nbr EXCEPT !.adjacent = adjacent]
  <2>1. m \in NeighborType
    BY DEF NeighborType
  <2>2. nbr' \in NeighborType
    <3>1. EventHelloReceived(m) \in NeighborType
      BY <2>1, HelloType
    <3>2. nbr' = Event2WayReceived(EventHelloReceived(m)) \/
          nbr' = Event1WayReceived(EventHelloReceived(m))
      BY <1>3 DEF RecvHello
    <3> QED
      BY <3>1, <3>2, HelloType, TwoWayType
  <2>3. lsdb' \subseteq LSAs
    BY <1>3, OriginateType DEF RecvHello
  <2> QED
    BY <1>0, <1>1, <1>3, <2>2, <2>3 DEF RecvHello
<1>4. CASE RecvFromUnknown
  BY <1>0, <1>4 DEF RecvFromUnknown
<1>5. ASSUME NEW p \in DDs, RecvDD(p) PROVE Typed'
  <2> DEFINE n == Arrived(p)
  <2>1. n \in NeighborType
    <3>1. [nbr EXCEPT !.last_dd_seq_num = p.seq] \in NeighborType
      BY DEF NeighborType, DDs
    <3> QED
      BY <3>1, NegotiateType DEF Arrived
  <2>2. \/ DDIgnored(p, n) \/ DDDuplicate(p, n) \/ DDMismatch(p, n)
        \/ DDLate(p, n) \/ DDAnsweredBySlave(p, n) \/ DDAnsweredByMaster(p, n)
    BY <1>5 DEF RecvDD
  <2> HIDE DEF n
  <2>3. /\ nbr' \in NeighborType /\ out' \in Seq(Packets)
        /\ rxmt' \subseteq [id : Nat, pkt : DDs] /\ alloc_id' \in Nat
        /\ lsdb' \subseteq LSAs
    BY <2>1, <2>2, DDTyped
  <2> QED
    BY <1>1, <1>5, <2>3 DEF RecvDD
<1>6. ASSUME NEW asked \in SUBSET LSAs, RecvLSR(asked) PROVE Typed'
  <2>1. [type |-> "LSU", lsas |-> asked] \in Packets
    BY DEF Packets, LSPackets
  <2>2. nbr' \in NeighborType
    BY <1>6, MismatchType DEF RecvLSR
  <2>3. out' \in Seq(Packets)
    BY <1>0, <1>6, <2>1, OutType DEF RecvLSR
  <2> QED
    BY <1>1, <1>6, <2>2, <2>3 DEF RecvLSR
<1>7. ASSUME NEW s \in Seq(LSAs) PROVE Ack(s) \in Seq(Packets)
  <2>1. \A i \in 1..Len(s) : s[i] \in LSAs
    BY <1>7, ElementOfSeq
  <2>2. [type |-> "LSAck", lsas |-> {s[i] : i \in 1..Len(s)}] \in Packets
    BY <2>1 DEF Packets, LSPackets
  <2> QED
    BY <2>2, OutType DEF Ack
<1>8. ASSUME NEW s \in Seq(LSAs), RecvMulticastLSU(s) PROVE Typed'
  <2>1. \A i \in 1..Len(s) : s[i] \in LSAs
    BY <1>8, ElementOfSeq
  <2>2. lsdb' \subseteq LSAs /\ out' \in Seq(Packets)
    BY <1>7, <1>8, <2>1 DEF RecvMulticastLSU
  <2> QED
    BY <1>1, <1>8, <2>2 DEF RecvMulticastLSU
<1>9. ASSUME NEW s \in Seq(LSAs), RecvDirectedLSU(s) PROVE Typed'
  <2>1. Len(s) \in Nat /\ 1 \in 1..Len(s)
    BY <1>9, LenProperties, EmptySeq DEF RecvDirectedLSU
  <2>2. s[1] \in LSAs
    BY <1>9, <2>1, ElementOfSeq
  <2>3. /\ lsdb' = lsdb \cup {s[1]} /\ lsu' = s /\ lsu_i' = 1
        /\ receiver' = "lsu" /\ out' = << >>
        /\ UNCHANGED <<nbr, req_lock, load_done, rxmt, alloc_id, to_exit>>
    BY <1>9 DEF RecvDirectedLSU
  <2> QED
    BY <1>0, <1>9, <2>1, <2>2, <2>3
<1>10. CASE LSURemove
  <2>1. lsu_i \in 1..Len(lsu) /\ lsu[lsu_i] \in LSAs
    BY <1>10, ElementOfSeq DEF LSURemove
  <2>2. nbr' \in NeighborType
    BY <1>10, <2>1, ReqListRemoveType DEF LSURemove
  <2>3. UNCHANGED <<req_lock, load_done, rxmt, alloc_id, to_exit>>
    BY <1>10 DEF LSURemove
  <2>4. CASE lsu_i = Len(lsu)
    <3>1. /\ receiver' = LoopTop /\ out' = Ack(lsu)
          /\ lsu' = << >> /\ lsu_i' = 0 /\ lsdb' = lsdb
      BY <1>10, <2>4 DEF LSURemove
    <3>2. << >> \in Seq(LSAs) /\ Len(<< >>) = 0
      BY EmptySeq
    <3> QED
      BY <1>1, <1>7, <2>2, <2>3, <3>1, <3>2
  <2>5. CASE lsu_i # Len(lsu)
    <3>1. /\ lsu_i' = lsu_i + 1 /\ lsdb' = lsdb \cup {lsu[lsu_i + 1]}
          /\ out' = << >> /\ receiver' = receiver /\ lsu' = lsu
      BY <1>10, <2>5 DEF LSURemove
    <3>2. lsu_i + 1 \in 1..Len(lsu)
      BY <2>1, <2>5, LenProperties
    <3>3. lsu[lsu_i + 1] \in LSAs
      BY <3>2, ElementOfSeq
    <3> QED
      BY <1>0, <2>2, <2>3, <3>1, <3>2, <3>3
  <2> QED
    BY <2>4, <2>5
<1>11. CASE Announce
  <2>1. \A q \in Seqs : DD(TRUE, TRUE, TRUE, q, {}, FALSE) \in Packets
    BY DEF DD, DDs, Packets
  <2>2. out' \in Seq(Packets)
    BY <1>0, <1>11, <2>1, OutType
       DEF Announce, AnnounceTest, AnnounceRead, AnnounceSend, AnnounceEnds
  <2> QED
    BY <1>11, <2>2, AnnounceCourse
<1>12. ASSUME LSRExits \/ LoadDoneTest PROVE Typed'
  <2>1. nbr.lsr_threads - 1 \in Nat
    BY <1>12 DEF LSRExits, LoadDoneTest, NeighborType
  <2>2. nbr' \in NeighborType
    <3>1. CASE LSRExits
      BY <2>1, <3>1 DEF LSRExits, NeighborType
    <3>2. CASE LoadDoneTest
      BY <2>1, <3>2 DEF LoadDoneTest, NeighborType
    <3> QED
      BY <1>12, <3>1, <3>2
  <2>3. /\ UNCHANGED <<rxmt, alloc_id, lsdb, receiver, lsu, lsu_i, to_exit>>
        /\ out' = << >>
    BY <1>12 DEF LSRExits, LoadDoneTest
  <2>4. req_lock' \in {"free", "held"} /\ load_done' \in BOOLEAN
    BY <1>12 DEF LSRExits, LoadDoneTest
  <2> QED
    BY <1>0, <2>2, <2>3, <2>4
<1>13. CASE LSRSend
  <2>1. [type |-> "LSR", lsas |-> Requested(nbr)] \in Packets
    BY DEF Packets, LSPackets, Requested
  <2> QED
    BY <1>13, <2>1, OutType DEF LSRSend
<1>14. CASE LoadDoneCommit
  <2>1. nbr' \in NeighborType
    <3>1. "FULL" \in States /\ Overtaken \in BOOLEAN
      BY DEF States, TwoWay, Adjacent, Overtaken
    <3> QED
      BY <1>14, <3>1 DEF LoadDoneCommit, NeighborType
  <2>2. lsdb' \subseteq LSAs
    BY <1>14, ConfigAssumption DEF LoadDoneCommit
  <2> QED
    BY <1>0, <1>14, <2>1, <2>2 DEF LoadDoneCommit
<1>15. CASE Retransmit
  <2>1. PICK e \in rxmt : out' = <<e.pkt>>
    BY <1>15 DEF Retransmit
  <2>2. e.pkt \in Packets
    BY <2>1 DEF Packets
  <2> QED
    BY <1>15, <2>1, <2>2, OutType DEF Retransmit
<1>16. CASE WaitTimer
  BY <1>0, <1>16, OriginateType DEF WaitTimer
<1>17. CASE Exit
  BY <1>0, <1>17 DEF Exit
<1>18. CASE UNCHANGED vars
  BY <1>18 DEF vars
<1>20. CASE Reception
  BY <1>2, <1>3, <1>4, <1>5, <1>6, <1>8, <1>9, <1>10, <1>20
     DEF Reception
<1>21. CASE ThreadStep
  BY <1>11, <1>12, <1>13, <1>14, <1>15, <1>16, <1>17, <1>21
     DEF ThreadStep, Announce
<1> QED
  BY <1>18, <1>20, <1>21 DEF AnyStep

\* Every state the host reaches is well typed, whatever the peer sends.
THEOREM TypeCorrect == Spec => []TypeOK
<1>1. Typed => TypeOK
  BY DEF Typed
<1> QED
  BY SpecIsAny, InitTyped, NextTyped, <1>1, PTL DEF AnySpec

-----------------------------------------------------------------------------
(* Nothing is forgotten. In every state of the neighbour, below EXCHANGE   *)
(* too, what was described since the last negotiation is stored or is      *)
(* requested: no event drops a request. This needs the keys of the LSAs    *)
(* to differ, and nothing of how the threads are scheduled.                *)

Kept(n, db) == n.described \subseteq db \cup Requested(n)

\* A neighbour that describes no more and requests the same keeps as much.
LEMMA KeptSame ==
  ASSUME NEW n, NEW m, NEW db, NEW db2, Kept(n, db), db \subseteq db2,
         m.described \subseteq n.described, m.req = n.req
  PROVE  Kept(m, db2)
BY DEF Kept, Requested

\* The events of the neighbour drop no request and describe nothing.
LEMMA EventsKeep ==
  ASSUME NEW n \in NeighborType
  PROVE  \A m \in {EventHelloReceived(n), Event1WayReceived(n),
                   Event2WayReceived(n), EventSeqNumberMismatch(n),
                   EventExchangeDone(n), EventNegotiationDone(n)} :
           m.described \subseteq n.described /\ m.req = n.req
<1>1. \A m \in {EventHelloReceived(n), Event1WayReceived(n),
                EventSeqNumberMismatch(n)} :
        m.described = n.described /\ m.req = n.req
  BY DEF EventHelloReceived, Event1WayReceived, EventSeqNumberMismatch,
         NeighborType
<1>2. Event2WayReceived(n).described = n.described
      /\ Event2WayReceived(n).req = n.req
  BY DEF Event2WayReceived, NeighborType
<1>3. EventExchangeDone(n).described = n.described
      /\ EventExchangeDone(n).req = n.req
  BY DEF EventExchangeDone, NeighborType
<1>4. EventNegotiationDone(n).described \subseteq n.described
      /\ EventNegotiationDone(n).req = n.req
  BY DEF EventNegotiationDone, NeighborType
<1> QED
  BY <1>1, <1>2, <1>3, <1>4

\* Nor does the negotiation, on the way through S_INIT and S_EXSTART.
LEMMA NegotiateKeeps ==
  ASSUME NEW n \in NeighborType, NEW p \in DDs
  PROVE  Negotiate(n, p).described \subseteq n.described
         /\ Negotiate(n, p).req = n.req
<1> DEFINE m == Event2WayReceived(n)
           r1 == [m EXCEPT !.is_master = TRUE, !.dd_seq_num = p.seq]
           r2 == [m EXCEPT !.is_master = FALSE]
<1>1. m \in NeighborType /\ m.described \subseteq n.described /\ m.req = n.req
  BY TwoWayType, EventsKeep
<1> HIDE DEF m
<1>2. r1 \in NeighborType /\ r1.described = m.described /\ r1.req = m.req
  BY <1>1 DEF NeighborType, DDs
<1>3. r2 \in NeighborType /\ r2.described = m.described /\ r2.req = m.req
  BY <1>1 DEF NeighborType
<1>4. Negotiate(n, p) \in {m, EventNegotiationDone(r1), EventNegotiationDone(r2)}
  BY DEF Negotiate, m
<1> HIDE DEF r1, r2
<1>5. \A r \in {r1, r2} : EventNegotiationDone(r).described \subseteq m.described
                          /\ EventNegotiationDone(r).req = m.req
  BY <1>2, <1>3, EventsKeep
<1> QED
  BY <1>1, <1>4, <1>5

\* What a DD describes is requested unless it is stored.
LEMMA AbsorbKeeps ==
  ASSUME NEW n \in NeighborType, NEW p \in DDs, Kept(n, lsdb)
  PROVE  Kept(Absorb(n, p), lsdb)
<1> DEFINE a == Absorb(n, p)
<1>1. /\ a.described = n.described \cup p.hdrs
      /\ a.req = [l \in LSAs |-> IF l \in p.hdrs \ lsdb
                                 THEN n.req[l] + 1 ELSE n.req[l]]
  BY DEF Absorb, NeighborType
<1>2. Requested(n) \subseteq Requested(a)
  BY <1>1 DEF Requested, NeighborType
<1>3. p.hdrs \subseteq lsdb \cup Requested(a)
  BY <1>1 DEF Requested, NeighborType, DDs
<1> QED
  BY <1>1, <1>2, <1>3 DEF Kept

\* Every disjunct of the DD handler.
LEMMA DDKeeps ==
  ASSUME TypeOK, NEW p \in DDs, NEW n \in NeighborType, Kept(n, lsdb),
         \/ DDIgnored(p, n) \/ DDDuplicate(p, n) \/ DDMismatch(p, n)
         \/ DDLate(p, n) \/ DDAnsweredBySlave(p, n) \/ DDAnsweredByMaster(p, n)
  PROVE  Kept(nbr', lsdb')
<1> DEFINE a == Absorb(n, p)
           rest == Remainder(n.summary)
<1>1. a \in NeighborType /\ Kept(a, lsdb) /\ rest \in Seq(LSAs)
      /\ Chunk(n.summary) \in SUBSET LSAs
  BY AbsorbType, AbsorbKeeps, RemainderType DEF NeighborType
<1>2. CASE DDIgnored(p, n) \/ DDDuplicate(p, n) \/ DDLate(p, n)
  BY <1>2 DEF DDIgnored, DDDuplicate, DDLate
<1>3. CASE DDMismatch(p, n)
  <2>1. nbr' = EventSeqNumberMismatch(n) /\ lsdb' = lsdb
    BY <1>3 DEF DDMismatch
  <2> QED
    BY <2>1, EventsKeep, KeptSame
<1>4. ASSUME NEW m \in NeighborType, m.described = a.described, m.req = a.req,
             FinishExchange(m) \/ (nbr' = m /\ lsdb' = lsdb)
      PROVE  Kept(nbr', lsdb')
  <2> HIDE DEF a
  <2>1. Kept(m, lsdb)
    BY <1>1, <1>4, KeptSame
  <2>2. CASE FinishExchange(m)
    <3>1. nbr' = EventExchangeDone(m) /\ lsdb \subseteq lsdb'
      BY <2>2, OriginateType DEF FinishExchange, TypeOK
    <3>2. nbr'.described \subseteq m.described /\ nbr'.req = m.req
      BY <3>1, EventsKeep
    <3> QED
      BY <2>1, <3>1, <3>2, KeptSame
  <2> QED
    BY <1>4, <2>1, <2>2
<1>5. CASE DDAnsweredBySlave(p, n)
  <2> DEFINE reply == DD(FALSE, rest # << >>, FALSE, p.seq, Chunk(n.summary), TRUE)
             m == [a EXCEPT !.dd_seq_num = p.seq, !.summary = rest,
                            !.last_dd_data = reply]
  <2>1. reply \in DDs
    BY <1>1 DEF DD, DDs
  <2>2. m \in NeighborType
    BY <1>1, <2>1 DEF NeighborType, DDs
  <2>3. m.described = a.described /\ m.req = a.req
    BY <1>1 DEF NeighborType
  <2>4. FinishExchange(m) \/ (nbr' = m /\ lsdb' = lsdb)
    BY <1>5 DEF DDAnsweredBySlave
  <2> HIDE DEF a, m
  <2> QED
    BY <1>4, <2>2, <2>3, <2>4
<1>6. CASE DDAnsweredByMaster(p, n)
  <2> DEFINE seq == Inc(n.dd_seq_num)
             b == [a EXCEPT !.dd_seq_num = seq]
             m == [b EXCEPT !.summary = rest, !.rxmt_map[seq] = alloc_id]
  <2>1. seq \in Seqs /\ alloc_id \in Nat
    BY IncType DEF NeighborType, TypeOK
  <2>2. b \in NeighborType /\ b.described = a.described /\ b.req = a.req
    BY <1>1, <2>1 DEF NeighborType
  <2>3. m \in NeighborType
    BY <1>1, <2>1, <2>2 DEF NeighborType
  <2>4. m.described = b.described /\ m.req = b.req
    BY <2>2 DEF NeighborType
  <2>5. FinishExchange(b) \/ (nbr' = m /\ lsdb' = lsdb)
    BY <1>6 DEF DDAnsweredByMaster
  <2> HIDE DEF a, b, m
  <2>6. m.described = a.described /\ m.req = a.req
    BY <2>2, <2>4
  <2> QED
    BY <1>4, <2>2, <2>3, <2>5, <2>6
<1> QED
  BY <1>2, <1>3, <1>5, <1>6

\* The entry that an LSU removes is that of the LSA it just installed.
LEMMA LSURemoveKeeps ==
  ASSUME NoKeyClash, Typed, Kept(nbr, lsdb), LSURemove
  PROVE  Kept(nbr', lsdb')
<1> DEFINE l == lsu[lsu_i]
<1>1. l \in lsdb /\ lsdb \subseteq lsdb' /\ nbr \in NeighborType /\ lsdb \subseteq LSAs
  BY DEF LSURemove, Typed, TypeOK, LSUInRange
<1>2. PICK r \in ReqListRemove(nbr, l) : nbr' = [nbr EXCEPT !.req = r]
  BY DEF LSURemove
<1> HIDE DEF l
<1>3. r \in [LSAs -> Nat] /\ \A k \in LSAs \ {l} : r[k] = nbr.req[k]
  BY <1>1, <1>2, NoKeyClash DEF ReqListRemove, Requested, NeighborType, NoKeyClash
<1>4. nbr'.described = nbr.described /\ nbr'.req = r
  BY <1>1, <1>2 DEF NeighborType
<1>5. Requested(nbr) \subseteq Requested(nbr') \cup {l}
  BY <1>3, <1>4 DEF Requested
<1> QED
  BY <1>1, <1>4, <1>5 DEF Kept

\* Every step keeps what was described, whichever thread takes it.
LEMMA NextKept ==
  ASSUME NoKeyClash
  PROVE  Typed /\ Kept(nbr, lsdb) /\ [AnyStep]_vars => Kept(nbr', lsdb')
<1> SUFFICES ASSUME Typed, Kept(nbr, lsdb), [AnyStep]_vars
             PROVE  Kept(nbr', lsdb')
  OBVIOUS
<1>0. nbr \in NeighborType /\ lsdb \subseteq LSAs
  BY DEF Typed, TypeOK
<1>1. ASSUME nbr'.described \subseteq nbr.described, nbr'.req = nbr.req,
             lsdb \subseteq lsdb'
      PROVE  Kept(nbr', lsdb')
  BY <1>1, KeptSame
<1>2. CASE RecvOther \/ RecvFromUnknown \/ LSRSend \/ Retransmit
           \/ WaitTimer \/ Exit \/ UNCHANGED vars
  <2>1. nbr' = nbr /\ lsdb \subseteq lsdb'
    BY <1>0, <1>2, OriginateType
       DEF RecvOther, RecvFromUnknown, LSRSend, Retransmit, WaitTimer, Exit,
           vars
  <2> QED
    BY <1>1, <2>1
<1>3. ASSUME NEW s, RecvMulticastLSU(s) \/ RecvDirectedLSU(s)
      PROVE  Kept(nbr', lsdb')
  <2>1. nbr' = nbr /\ lsdb \subseteq lsdb'
    BY <1>3 DEF RecvMulticastLSU, RecvDirectedLSU
  <2> QED
    BY <1>1, <2>1
<1>4. ASSUME NEW twoWay \in BOOLEAN, NEW adjacent \in BOOLEAN,
             NEW elects \in BOOLEAN, RecvHello(twoWay, adjacent, elects)
      PROVE  Kept(nbr', lsdb')
  <2> DEFINE m == [nbr EXCEPT !.adjacent = adjacent]
             h == EventHelloReceived(m)
  <2>1. m \in NeighborType /\ m.described = nbr.described /\ m.req = nbr.req
    BY <1>0 DEF NeighborType
  <2>2. nbr' \in {Event2WayReceived(h), Event1WayReceived(h)}
    BY <1>4 DEF RecvHello
  <2>3. lsdb \subseteq lsdb'
    BY <1>0, <1>4, OriginateType DEF RecvHello
  <2> HIDE DEF m
  <2>4. h \in NeighborType /\ h.described \subseteq m.described /\ h.req = m.req
    BY <2>1, HelloType, EventsKeep
  <2> HIDE DEF h
  <2>5. nbr'.described \subseteq h.described /\ nbr'.req = h.req
    BY <2>2, <2>4, EventsKeep
  <2> QED
    BY <1>1, <2>1, <2>3, <2>4, <2>5
<1>5. ASSUME NEW p \in DDs, RecvDD(p) PROVE Kept(nbr', lsdb')
  <2> DEFINE m == [nbr EXCEPT !.last_dd_seq_num = p.seq]
             n == Arrived(p)
  <2>1. m \in NeighborType /\ m.described = nbr.described /\ m.req = nbr.req
    BY <1>0 DEF NeighborType, DDs
  <2>2. n = Negotiate(m, p)
    BY DEF Arrived
  <2>3. \/ DDIgnored(p, n) \/ DDDuplicate(p, n) \/ DDMismatch(p, n)
        \/ DDLate(p, n) \/ DDAnsweredBySlave(p, n) \/ DDAnsweredByMaster(p, n)
    BY <1>5 DEF RecvDD
  <2> HIDE DEF m, n
  <2>4. n \in NeighborType /\ n.described \subseteq m.described /\ n.req = m.req
    BY <1>0, <2>1, <2>2, NegotiateType, NegotiateKeeps
  <2>5. Kept(n, lsdb)
    BY <2>1, <2>4, KeptSame
  <2> QED
    BY <2>3, <2>4, <2>5, DDKeeps DEF Typed
<1>6. ASSUME NEW asked \in SUBSET LSAs, RecvLSR(asked) PROVE Kept(nbr', lsdb')
  <2>1. nbr' \in {nbr, EventSeqNumberMismatch(nbr)} /\ lsdb' = lsdb
    BY <1>6 DEF RecvLSR
  <2>2. nbr'.described \subseteq nbr.described /\ nbr'.req = nbr.req
    BY <1>0, <2>1, EventsKeep
  <2> QED
    BY <1>1, <2>1, <2>2
<1>7. CASE LSRExits \/ LoadDoneTest \/ LoadDoneCommit
  <2>1. nbr'.described = nbr.described /\ nbr'.req = nbr.req
    BY <1>0, <1>7 DEF LSRExits, LoadDoneTest, LoadDoneCommit, NeighborType
  <2>2. lsdb \subseteq lsdb'
    BY <1>7 DEF LSRExits, LoadDoneTest, LoadDoneCommit
  <2> QED
    BY <1>1, <2>1, <2>2
<1>10. CASE Announce
  BY <1>0, <1>1, <1>10, AnnounceCourse DEF SameButAnnouncers
<1>8. CASE Reception
  BY <1>2, <1>3, <1>4, <1>5, <1>6, <1>8, LSURemoveKeeps DEF Reception
<1>9. CASE ThreadStep
  BY <1>2, <1>7, <1>9, <1>10 DEF ThreadStep, Announce
<1> QED
  BY <1>2, <1>8, <1>9 DEF AnyStep

\* Kept is an invariant.
LEMMA KeptAlways ==
  ASSUME NoKeyClash
  PROVE  AnySpec => [](Typed /\ Kept(nbr, lsdb))
<1>1. Init => Typed /\ Kept(nbr, lsdb)
  <2> SUFFICES ASSUME Init PROVE Kept(nbr, lsdb)
    BY InitTyped
  <2>1. nbr.described = {}
    BY DEF Init, Absent
  <2> QED
    BY <2>1 DEF Kept
<1>2. (Typed /\ Kept(nbr, lsdb)) /\ [AnyStep]_vars => (Typed /\ Kept(nbr, lsdb))'
  BY NextTyped, NextKept
<1> QED
  BY <1>1, <1>2, PTL DEF AnySpec

\* No described LSA is forgotten before it is stored: whatever the peer
\* sends, and even when a handler runs inside eventLoadDone.
THEOREM NothingForgotten ==
  ASSUME NoKeyClash
  PROVE  Spec => []RequestedOrStored
<1>1. Kept(nbr, lsdb) => RequestedOrStored
  BY DEF Kept, RequestedOrStored
<1> QED
  BY SpecIsAny, KeptAlways, <1>1, PTL

-----------------------------------------------------------------------------
(* Synchronisation. That FULL is reached with everything stored follows    *)
(* from Kept and from what is proved here: nothing is requested in FULL,   *)
(* unless it is claimed. Ready says so of a neighbour n, to follow n       *)
(* through the states of one handler. A handler may run inside             *)
(* eventLoadDone, where LOADING was found with nothing requested; Held     *)
(* says what is left of that: so it still is, unless the exchange started  *)
(* over, and then the negotiations tell.                                   *)

Held(n) ==
  /\ n.checked <= n.negotiations
  /\ n.state = "EXCHANGE" => n.checked < n.negotiations
  /\ n.state = "LOADING" /\ n.negotiations = n.checked => Requested(n) = {}

ClaimedFull(n) == n.state = "FULL" /\ n.claimed

Ready(n) ==
  /\ n.state \in Adjacent /\ ~ClaimedFull(n) => (n.is_master <=> n.id > RouterId)
  /\ n.state = "FULL" /\ ~n.claimed => Requested(n) = {}
  /\ load_done => Held(n)

Synced == Ready(nbr) /\ (load_done => req_lock = "held")

\* The fields that say which exchange a neighbour is in
SameExchange(m, n) ==
  /\ m.is_master = n.is_master /\ m.id = n.id /\ m.claimed = n.claimed
  /\ m.checked = n.checked /\ m.negotiations = n.negotiations

\* Readiness looks at these, the state and the requests only.
LEMMA ReadySame ==
  ASSUME NEW n, NEW m, Ready(n), m.state = n.state, m.req = n.req,
         SameExchange(m, n)
  PROVE  Ready(m)
BY DEF Ready, Requested, Held, ClaimedFull, SameExchange

\* A neighbour below EXCHANGE is ready.
LEMMA ReadyBelow ==
  ASSUME NEW n, n.state \notin Adjacent, load_done => n.checked <= n.negotiations
  PROVE  Ready(n)
BY DEF Ready, Adjacent, Held

\* The events of a Hello, and a mismatch.
LEMMA ReadyHello ==
  ASSUME NEW n \in NeighborType, Ready(n)
  PROVE  /\ Ready(EventHelloReceived(n))
         /\ Ready(Event1WayReceived(n))
         /\ Ready(Event2WayReceived(n))
         /\ Ready(EventSeqNumberMismatch(n))
<1>0. load_done => n.checked <= n.negotiations
  BY DEF Ready, Held
<1>1. ASSUME NEW st \in {"INIT", "2WAY", "EXSTART"}
      PROVE  Ready([n EXCEPT !.state = st])
  <2> DEFINE m == [n EXCEPT !.state = st]
  <2>1. /\ m.state \notin Adjacent
        /\ m.checked = n.checked /\ m.negotiations = n.negotiations
    BY DEF NeighborType, Adjacent
  <2> HIDE DEF m
  <2>2. Ready(m)
    BY <1>0, <2>1, ReadyBelow
  <2> QED
    BY <2>2 DEF m
<1>2. Ready([n EXCEPT !.state = "EXSTART", !.dd_seq_num = 0, !.is_master = TRUE,
                      !.dd_waiting = @ + 1])
  <2> DEFINE m == [n EXCEPT !.state = "EXSTART", !.dd_seq_num = 0,
                            !.is_master = TRUE, !.dd_waiting = @ + 1]
  <2>1. /\ m.state \notin Adjacent
        /\ m.checked = n.checked /\ m.negotiations = n.negotiations
    BY DEF NeighborType, Adjacent
  <2> HIDE DEF m
  <2>2. Ready(m)
    BY <1>0, <2>1, ReadyBelow
  <2> QED
    BY <2>2 DEF m
<1> QED
  BY <1>1, <1>2 DEF EventHelloReceived, Event1WayReceived, Event2WayReceived,
                    EventSeqNumberMismatch

\* Through S_INIT and S_EXSTART of the DD handler, which sets the role before
\* it enters EXCHANGE.
LEMMA ReadyNegotiate ==
  ASSUME NEW n \in NeighborType, NEW p \in DDs, Ready(n)
  PROVE  Ready(Negotiate(n, p))
<1> DEFINE m == Event2WayReceived(n)
<1>1. m \in NeighborType /\ Ready(m)
  BY TwoWayType, ReadyHello
<1> HIDE DEF m
<1>2. ASSUME NEW r \in NeighborType, r.state = "EXSTART",
             r.is_master <=> r.id > RouterId, load_done => r.checked <= r.negotiations
      PROVE  Ready(EventNegotiationDone(r))
  <2> DEFINE d == EventNegotiationDone(r)
  <2>1. d = [r EXCEPT !.state = "EXCHANGE", !.summary = @ \o Listing(lsdb),
                      !.described = {}, !.negotiations = @ + 1]
    BY <1>2 DEF EventNegotiationDone
  <2>2. /\ d.state = "EXCHANGE" /\ d.is_master = r.is_master /\ d.id = r.id
        /\ d.checked = r.checked /\ d.negotiations = r.negotiations + 1
    BY <2>1 DEF NeighborType
  <2>3. r.checked \in Nat /\ r.negotiations \in Nat
    BY DEF NeighborType
  <2> HIDE DEF d
  <2>4. load_done => Held(d)
    BY <1>2, <2>2, <2>3 DEF Held
  <2>5. Ready(d)
    BY <1>2, <2>2, <2>4 DEF Ready, ClaimedFull
  <2> QED
    BY <2>5 DEF d
<1>3. ASSUME m.state = "EXSTART", PeerIsMaster(m, p)
      PROVE  Ready(Negotiate(n, p))
  <2> DEFINE r == [m EXCEPT !.is_master = TRUE, !.dd_seq_num = p.seq]
  <2>1. r \in NeighborType
    BY <1>1 DEF NeighborType, DDs
  <2>2. /\ r.state = "EXSTART" /\ r.is_master = TRUE /\ r.id > RouterId
        /\ r.checked = m.checked /\ r.negotiations = m.negotiations
    BY <1>1, <1>3 DEF PeerIsMaster, NeighborType
  <2>3. Negotiate(n, p) = EventNegotiationDone(r)
    BY <1>3 DEF Negotiate, m
  <2> HIDE DEF r
  <2>4. load_done => r.checked <= r.negotiations
    BY <1>1, <2>2 DEF Ready, Held
  <2> QED
    BY <1>2, <2>1, <2>2, <2>3, <2>4
<1>4. ASSUME m.state = "EXSTART", ~PeerIsMaster(m, p), PeerIsSlave(m, p)
      PROVE  Ready(Negotiate(n, p))
  <2> DEFINE r == [m EXCEPT !.is_master = FALSE]
  <2>1. r \in NeighborType
    BY <1>1 DEF NeighborType
  <2>2. /\ r.state = "EXSTART" /\ r.is_master = FALSE /\ r.id < RouterId
        /\ r.checked = m.checked /\ r.negotiations = m.negotiations
    BY <1>1, <1>4 DEF PeerIsSlave, NeighborType
  <2>3. ~(r.id > RouterId)
    <3>1. r.id \in NbrIds
      BY <2>1 DEF NeighborType
    <3> HIDE DEF r
    <3>2. r.id \in Nat /\ RouterId \in Nat
      BY <3>1, ConfigAssumption
    <3> QED
      BY <2>2, <3>2
  <2>4. Negotiate(n, p) = EventNegotiationDone(r)
    BY <1>4 DEF Negotiate, m
  <2> HIDE DEF r
  <2>5. load_done => r.checked <= r.negotiations
    BY <1>1, <2>2 DEF Ready, Held
  <2> QED
    BY <1>2, <2>1, <2>2, <2>3, <2>4, <2>5
<1> QED
  BY <1>1, <1>3, <1>4 DEF Negotiate, m

\* The end of the exchange: FULL only without a request.
LEMMA ReadyExchangeDone ==
  ASSUME NEW n \in NeighborType, Ready(n)
  PROVE  Ready(EventExchangeDone(n))
<1>1. ASSUME n.state = "EXCHANGE", Requested(n) = {}
      PROVE  Ready([n EXCEPT !.state = "FULL", !.claimed = FALSE])
  BY <1>1 DEF Ready, Held, ClaimedFull, Requested, NeighborType, Adjacent
<1>2. ASSUME n.state = "EXCHANGE"
      PROVE  Ready([n EXCEPT !.state = "LOADING", !.lsr_threads = @ + 1])
  BY <1>2 DEF Ready, Held, ClaimedFull, Requested, NeighborType, Adjacent
<1> QED
  BY <1>1, <1>2 DEF EventExchangeDone

\* Every disjunct of the DD handler leaves a ready neighbour.
LEMMA ReadyDD ==
  ASSUME TypeOK, NEW p \in DDs, NEW n \in NeighborType, Ready(n),
         \/ DDIgnored(p, n) \/ DDDuplicate(p, n) \/ DDMismatch(p, n)
         \/ DDLate(p, n) \/ DDAnsweredBySlave(p, n) \/ DDAnsweredByMaster(p, n)
  PROVE  Ready(nbr')
<1> DEFINE a == Absorb(n, p)
           rest == Remainder(n.summary)
<1>1. CASE DDIgnored(p, n) \/ DDDuplicate(p, n) \/ DDLate(p, n)
  BY <1>1 DEF DDIgnored, DDDuplicate, DDLate
<1>2. CASE DDMismatch(p, n)
  BY <1>2, ReadyHello DEF DDMismatch
<1>3. /\ a \in NeighborType /\ rest \in Seq(LSAs)
      /\ Chunk(n.summary) \in SUBSET LSAs
      /\ a.state = n.state /\ SameExchange(a, n)
  <2>1. a.state = n.state /\ SameExchange(a, n)
    BY DEF Absorb, NeighborType, SameExchange
  <2> QED
    BY <2>1, AbsorbType, RemainderType DEF NeighborType
<1>4. ASSUME NEW m \in NeighborType, n.state = "EXCHANGE",
             m.state = a.state, SameExchange(m, a),
             FinishExchange(m) \/ nbr' = m
      PROVE  Ready(nbr')
  <2> HIDE DEF a
  <2>1. Ready(m)
    BY <1>3, <1>4 DEF Ready, Held, ClaimedFull, Adjacent, SameExchange
  <2>2. FinishExchange(m) => nbr' = EventExchangeDone(m)
    BY DEF FinishExchange
  <2> QED
    BY <1>4, <2>1, <2>2, ReadyExchangeDone
<1>5. CASE DDAnsweredBySlave(p, n)
  <2> DEFINE reply == DD(FALSE, rest # << >>, FALSE, p.seq, Chunk(n.summary), TRUE)
             m == [a EXCEPT !.dd_seq_num = p.seq, !.summary = rest,
                            !.last_dd_data = reply]
  <2>1. reply \in DDs
    BY <1>3 DEF DD, DDs
  <2>2. m \in NeighborType
    BY <1>3, <2>1 DEF NeighborType, DDs
  <2>3. m.state = a.state /\ SameExchange(m, a)
    BY <1>3 DEF NeighborType, SameExchange
  <2>4. n.state = "EXCHANGE" /\ (FinishExchange(m) \/ nbr' = m)
    BY <1>5 DEF DDAnsweredBySlave
  <2> HIDE DEF a, m
  <2> QED
    BY <1>4, <2>2, <2>3, <2>4
<1>6. CASE DDAnsweredByMaster(p, n)
  <2> DEFINE seq == Inc(n.dd_seq_num)
             b == [a EXCEPT !.dd_seq_num = seq]
             m == [b EXCEPT !.summary = rest, !.rxmt_map[seq] = alloc_id]
  <2>1. seq \in Seqs /\ alloc_id \in Nat
    BY IncType DEF NeighborType, TypeOK
  <2>2. b \in NeighborType /\ b.state = a.state /\ SameExchange(b, a)
    BY <1>3, <2>1 DEF NeighborType, SameExchange
  <2>3. m \in NeighborType
    BY <1>3, <2>1, <2>2 DEF NeighborType
  <2>4. m.state = b.state /\ SameExchange(m, b)
    BY <2>2 DEF NeighborType, SameExchange
  <2>5. n.state = "EXCHANGE" /\ (FinishExchange(b) \/ nbr' = m)
    BY <1>6 DEF DDAnsweredByMaster
  <2> HIDE DEF a, b, m
  <2>6. m.state = a.state /\ SameExchange(m, a)
    BY <2>2, <2>4 DEF SameExchange
  <2> QED
    BY <1>4, <2>2, <2>3, <2>5, <2>6
<1> QED
  BY <1>1, <1>2, <1>5, <1>6

\* Whichever thread takes a step, also when a handler runs inside eventLoadDone.
LEMMA NextSynced == Typed /\ Synced /\ [AnyStep]_vars => Synced'
<1> SUFFICES ASSUME Typed, Synced, [AnyStep]_vars PROVE Synced'
  OBVIOUS
<1> USE DEF Synced
<1>0. nbr \in NeighborType
  BY DEF Typed, TypeOK
<1>1. ASSUME Ready(nbr'), UNCHANGED <<load_done, req_lock>> PROVE Synced'
  BY <1>1 DEF Ready
<1>2. CASE RecvOther \/ RecvFromUnknown
  BY <1>1, <1>2 DEF RecvOther, RecvFromUnknown
<1>3. ASSUME NEW twoWay \in BOOLEAN, NEW adjacent \in BOOLEAN,
             NEW elects \in BOOLEAN, RecvHello(twoWay, adjacent, elects)
      PROVE  Synced'
  <2> DEFINE m == [nbr EXCEPT !.adjacent = adjacent]
             h == EventHelloReceived(m)
  <2>1. /\ m \in NeighborType
        /\ m.state = nbr.state /\ m.req = nbr.req /\ SameExchange(m, nbr)
    BY <1>0 DEF NeighborType, SameExchange
  <2>2. h \in NeighborType /\ Ready(h)
    BY <2>1, ReadySame, HelloType, ReadyHello
  <2>3. nbr' = Event2WayReceived(h) \/ nbr' = Event1WayReceived(h)
    BY <1>3 DEF RecvHello
  <2>4. Ready(nbr')
    BY <2>2, <2>3, ReadyHello
  <2> QED
    BY <1>1, <1>3, <2>4 DEF RecvHello
<1>4. ASSUME NEW p \in DDs, RecvDD(p) PROVE Synced'
  <2> DEFINE m == [nbr EXCEPT !.last_dd_seq_num = p.seq]
             n == Arrived(p)
  <2>1. /\ m \in NeighborType
        /\ m.state = nbr.state /\ m.req = nbr.req /\ SameExchange(m, nbr)
    BY <1>0 DEF NeighborType, DDs, SameExchange
  <2>2. Ready(m)
    BY <2>1, ReadySame
  <2>3. n \in NeighborType /\ Ready(n)
    BY <2>1, <2>2, NegotiateType, ReadyNegotiate DEF Arrived, Typed, TypeOK
  <2>4. \/ DDIgnored(p, n) \/ DDDuplicate(p, n) \/ DDMismatch(p, n)
        \/ DDLate(p, n) \/ DDAnsweredBySlave(p, n) \/ DDAnsweredByMaster(p, n)
    BY <1>4 DEF RecvDD
  <2> HIDE DEF n
  <2>5. Ready(nbr')
    BY <2>3, <2>4, ReadyDD DEF Typed
  <2> QED
    BY <1>1, <1>4, <2>5 DEF RecvDD
<1>5. ASSUME NEW asked \in SUBSET LSAs, RecvLSR(asked) PROVE Synced'
  BY <1>0, <1>1, <1>5, ReadyHello DEF RecvLSR
<1>6. ASSUME NEW s, RecvMulticastLSU(s) \/ RecvDirectedLSU(s) PROVE Synced'
  BY <1>1, <1>6 DEF RecvMulticastLSU, RecvDirectedLSU
<1>7. CASE LSURemove
  <2> DEFINE l == lsu[lsu_i]
  <2>1. PICK r \in ReqListRemove(nbr, l) : nbr' = [nbr EXCEPT !.req = r]
    BY <1>7 DEF LSURemove
  <2> HIDE DEF l
  <2>2. \A k \in LSAs : r[k] > 0 => nbr.req[k] > 0
    <3>1. r = nbr.req \/ \E m \in Requested(nbr) : r = [nbr.req EXCEPT ![m] = @ - 1]
      BY <2>1 DEF ReqListRemove
    <3>2. nbr.req \in [LSAs -> Nat] /\ \A m \in Requested(nbr) : nbr.req[m] > 0
      BY <1>0 DEF NeighborType, Requested
    <3> QED
      BY <3>1, <3>2
  <2>3. nbr'.state = nbr.state /\ nbr'.req = r /\ SameExchange(nbr', nbr)
    BY <1>0, <2>1 DEF NeighborType, SameExchange
  <2>4. Requested(nbr') \subseteq Requested(nbr)
    BY <2>2, <2>3 DEF Requested
  <2>5. load_done' = load_done /\ ~load_done
    BY <1>7 DEF LSURemove
  <2> QED
    BY <2>3, <2>4, <2>5 DEF Ready, ClaimedFull, SameExchange
<1>8. CASE LSRExits \/ Announce
  <2>1. nbr'.state = nbr.state /\ nbr'.req = nbr.req /\ SameExchange(nbr', nbr)
    <3>1. CASE Announce
      BY <1>0, <3>1, AnnounceCourse DEF SameButAnnouncers, SameExchange
    <3>2. CASE LSRExits
      BY <1>0, <3>2 DEF LSRExits, NeighborType, SameExchange
    <3> QED
      BY <1>8, <3>1, <3>2
  <2>2. UNCHANGED <<load_done, req_lock>>
    BY <1>0, <1>8, AnnounceCourse DEF LSRExits
  <2> QED
    BY <1>1, <2>1, <2>2, ReadySame
<1>9. CASE LoadDoneTest
  <2>1. /\ nbr'.state = nbr.state /\ nbr'.req = nbr.req /\ nbr'.id = nbr.id
        /\ nbr'.is_master = nbr.is_master /\ nbr'.claimed = nbr.claimed
        /\ nbr'.negotiations = nbr.negotiations
        /\ nbr'.checked = nbr.negotiations
    BY <1>0, <1>9 DEF LoadDoneTest, NeighborType
  <2>2. /\ Requested(nbr) = {} /\ req_lock' = "held"
        /\ load_done' => nbr.state = "LOADING"
    BY <1>9 DEF LoadDoneTest
  <2>3. nbr.negotiations \in Nat
    BY <1>0 DEF NeighborType
  <2>4. Requested(nbr') = {}
    BY <2>1, <2>2 DEF Requested
  <2>5. load_done' => Held(nbr)'
    BY <2>1, <2>2, <2>3, <2>4 DEF Held
  <2> QED
    BY <2>1, <2>2, <2>4, <2>5 DEF Ready, ClaimedFull
<1>13. CASE LoadDoneCommit
  <2>1. /\ nbr'.state = "FULL" /\ nbr'.is_master = nbr.is_master
        /\ nbr'.id = nbr.id /\ nbr'.req = nbr.req /\ nbr'.claimed = Overtaken
    BY <1>0, <1>13 DEF LoadDoneCommit, NeighborType
  <2>2. load_done /\ load_done' = FALSE
    BY <1>13 DEF LoadDoneCommit
  <2>3. CASE Overtaken
    BY <2>1, <2>2, <2>3 DEF Ready, ClaimedFull
  <2>4. CASE ~Overtaken
    <3>1. nbr.state = "LOADING" /\ Requested(nbr) = {}
      BY <2>2, <2>4 DEF Overtaken, Ready, Held
    <3>2. Requested(nbr') = {} /\ (nbr.is_master <=> nbr.id > RouterId)
      BY <2>1, <3>1 DEF Requested, Ready, ClaimedFull, Adjacent
    <3> QED
      BY <2>1, <2>2, <3>2 DEF Ready, ClaimedFull
  <2> QED
    BY <2>3, <2>4
<1>10. CASE LSRSend \/ Retransmit \/ WaitTimer \/ Exit \/ UNCHANGED vars
  <2>1. UNCHANGED <<nbr, load_done, req_lock>>
    BY <1>10 DEF LSRSend, Retransmit, WaitTimer, Exit, vars
  <2> QED
    BY <1>1, <2>1
<1>11. CASE Reception
  BY <1>2, <1>3, <1>4, <1>5, <1>6, <1>7, <1>11 DEF Reception
<1>12. CASE ThreadStep
  BY <1>8, <1>9, <1>10, <1>12, <1>13 DEF ThreadStep, Announce
<1> QED
  BY <1>10, <1>11, <1>12 DEF AnyStep

\* Synced is an invariant.
LEMMA SyncedAlways == AnySpec => [](Typed /\ Synced)
<1>1. Init => Typed /\ Synced
  <2> SUFFICES ASSUME Init PROVE Synced
    BY InitTyped
  <2>1. nbr.state = "DOWN" /\ load_done = FALSE
    BY DEF Init, Absent
  <2> QED
    BY <2>1, ReadyBelow DEF Synced, Adjacent
<1>2. (Typed /\ Synced) /\ [AnyStep]_vars => (Typed /\ Synced)'
  BY NextTyped, NextSynced
<1> QED
  BY <1>1, <1>2, PTL DEF AnySpec

\* The roles agreed on follow the router ids, for any peer and any order of the
\* threads: only FULL as claimed by a thread that was overtaken inside
\* eventLoadDone is without agreed roles.
THEOREM RolesCorrect == Spec => []RoleFollowsIds
<1>1. Synced => RoleFollowsIds
  BY DEF Synced, Ready, ClaimedFull, Claimed, RoleFollowsIds
<1> QED
  BY SpecIsAny, SyncedAlways, <1>1, PTL

\* A neighbour is FULL only when all it described is in the database, unless
\* FULL is claimed by a thread that was overtaken inside eventLoadDone.
THEOREM FullIsSynced ==
  ASSUME NoKeyClash
  PROVE  Spec => []FullMeansSynced
<1>1. Synced /\ Kept(nbr, lsdb) => FullMeansSynced
  BY DEF Synced, Ready, Kept, Claimed, FullMeansSynced
<1> QED
  BY SpecIsAny, SyncedAlways, KeptAlways, <1>1, PTL

-----------------------------------------------------------------------------
(* Neighbor implements DatabaseExchange. A step that keeps the neighbour's *)
(* state and what it described stores LSAs; the DD handler describes, or   *)
(* starts over; the rest leaves the exchange alone, ends it or completes.  *)

\* What the abstract variables are in a state of the neighbour.
LEMMA PhaseOf ==
  /\ nbr.state = "EXCHANGE" => Phase = "exchange"
  /\ nbr.state = "LOADING" => Phase = "loading"
  /\ nbr.state = "FULL" => Phase = IF nbr.claimed THEN "claimed" ELSE "full"
  /\ nbr.state \notin Adjacent => Phase = "down" /\ Missing = {}
  /\ nbr.state \in Adjacent => Missing = nbr.described \ lsdb
<1>1. Claimed = (nbr.state = "FULL" /\ nbr.claimed)
  BY DEF Claimed
<1>2. Phase = CASE nbr.state = "EXCHANGE" -> "exchange"
                [] nbr.state = "LOADING"  -> "loading"
                [] nbr.state = "FULL"     -> IF Claimed THEN "claimed" ELSE "full"
                [] OTHER                  -> "down"
  BY DEF Phase
<1> QED
  BY <1>1, <1>2 DEF Missing, Adjacent

\* And in the state after a step.
LEMMA PhaseOfNext ==
  /\ nbr'.state = "EXCHANGE" => Phase' = "exchange"
  /\ nbr'.state = "LOADING" => Phase' = "loading"
  /\ nbr'.state = "FULL" => Phase' = IF nbr'.claimed THEN "claimed" ELSE "full"
  /\ nbr'.state \notin Adjacent => Phase' = "down" /\ Missing' = {}
  /\ nbr'.state \in Adjacent => Missing' = nbr'.described \ lsdb'
<1>1. Claimed' = (nbr'.state = "FULL" /\ nbr'.claimed)
  BY DEF Claimed
<1>2. Phase' = CASE nbr'.state = "EXCHANGE" -> "exchange"
                [] nbr'.state = "LOADING"  -> "loading"
                [] nbr'.state = "FULL"     -> IF Claimed' THEN "claimed" ELSE "full"
                [] OTHER                  -> "down"
  BY DEF Phase
<1> QED
  BY <1>1, <1>2 DEF Missing, Adjacent

\* What becomes of the check of eventLoadDone: outside LOADING, and in an
\* exchange that started over, it is stale.
LEMMA CheckOf ==
  /\ Check = IF ~load_done THEN "none"
             ELSE IF nbr.state = "LOADING" /\ nbr.negotiations = nbr.checked
             THEN "valid" ELSE "stale"
  /\ Check' = IF ~load_done' THEN "none"
              ELSE IF nbr'.state = "LOADING" /\ nbr'.negotiations = nbr'.checked
              THEN "valid" ELSE "stale"
BY DEF Check, Overtaken

\* The neighbour stays where it is while the database grows.
LEMMA StoreStep ==
  ASSUME nbr'.state = nbr.state, nbr'.described = nbr.described,
         nbr'.claimed = nbr.claimed, lsdb \subseteq lsdb', Check' = Check
  PROVE  [Exchange!Next]_Exchange!vars
<1>1. CASE nbr.state \in Adjacent
  <2>1. Phase' = Phase /\ Missing' \in SUBSET Missing
    BY <1>1, PhaseOf, PhaseOfNext DEF Phase, Adjacent
  <2>2. Phase # "down"
    BY <1>1, PhaseOf DEF Adjacent
  <2>3. Exchange!Store
    BY <2>1, <2>2 DEF Exchange!Store
  <2> QED
    BY <2>3 DEF Exchange!Next
<1>2. CASE nbr.state \notin Adjacent
  BY <1>2, PhaseOf, PhaseOfNext DEF Exchange!vars
<1> QED
  BY <1>1, <1>2

\* The neighbour leaves, or stays out of, the adjacent states.
LEMMA RestartStep ==
  ASSUME nbr'.state \notin Adjacent, load_done' = load_done
  PROVE  [Exchange!Next]_Exchange!vars
<1>1. Check' = IF Check = "none" THEN "none" ELSE "stale"
  BY CheckOf DEF Adjacent
<1>2. Exchange!Restart
  BY <1>1, PhaseOfNext DEF Exchange!Restart
<1> QED
  BY <1>2 DEF Exchange!Next

\* A DD is absorbed by a neighbour that was in EXCHANGE, or got there.
LEMMA DescribeStep ==
  ASSUME Typed, NEW p \in DDs, NEW n \in NeighborType, NEW m \in NeighborType,
         n.state = "EXCHANGE",
         nbr.state \in Adjacent => n.state = nbr.state /\ n.described = nbr.described,
         m.state = "EXCHANGE", m.described = Absorb(n, p).described,
         nbr.state \notin {"LOADING", "FULL"}, Ready(m), load_done' = load_done,
         Kept(m, lsdb), lsdb' \subseteq LSAs,
         FinishExchange(m) \/ (nbr' = m /\ lsdb' = lsdb)
  PROVE  [Exchange!Next]_Exchange!vars
<1>1. m.described = n.described \cup p.hdrs /\ m.described \subseteq LSAs
  BY DEF Absorb, NeighborType
<1>2. /\ nbr'.state \in {"EXCHANGE", "LOADING", "FULL"}
      /\ nbr'.described = m.described
      /\ nbr'.state = "FULL" => Requested(m) = {}
      /\ nbr'.state = "FULL" => ~nbr'.claimed
      /\ nbr'.checked = m.checked /\ nbr'.negotiations = m.negotiations
      /\ nbr'.state # "FULL" => Requested(m) # {} \/ lsdb' = lsdb
      /\ lsdb \subseteq lsdb'
  <2>1. CASE nbr' = m /\ lsdb' = lsdb
    BY <2>1
  <2>2. CASE FinishExchange(m)
    <3>1. lsdb \subseteq lsdb'
      BY <2>2, OriginateType DEF FinishExchange, Typed, TypeOK
    <3>2. CASE Requested(m) = {}
      <4>1. nbr' = [m EXCEPT !.state = "FULL", !.claimed = FALSE]
        BY <2>2, <3>2 DEF FinishExchange, EventExchangeDone
      <4> QED
        BY <3>1, <3>2, <4>1 DEF NeighborType
    <3>3. CASE Requested(m) # {}
      <4>1. nbr' = [m EXCEPT !.state = "LOADING", !.lsr_threads = @ + 1]
        BY <2>2, <3>3 DEF FinishExchange, EventExchangeDone
      <4>2. /\ nbr'.state = "LOADING" /\ nbr'.described = m.described
            /\ nbr'.checked = m.checked /\ nbr'.negotiations = m.negotiations
        BY <4>1 DEF NeighborType
      <4> QED
        BY <3>1, <3>3, <4>2
    <3> QED
      BY <3>2, <3>3
  <2> QED
    BY <2>1, <2>2
<1>3. nbr'.state # "FULL" => lsdb' = lsdb
  <2>1. FinishExchange(m) /\ Requested(m) # {} => lsdb' = lsdb
    BY DEF FinishExchange
  <2> QED
    BY <1>2, <2>1
<1>4. m.described \subseteq lsdb \cup Requested(m)
  BY DEF Kept
<1>5. nbr'.state = "FULL" => m.described \subseteq lsdb
  BY <1>2, <1>4
<1>6. Missing' = nbr'.described \ lsdb' /\ Phase' \in {"exchange", "loading", "full"}
      /\ (Phase' = "full" => nbr'.state = "FULL")
  BY <1>2, PhaseOfNext DEF Adjacent
<1>7. Missing' \in SUBSET LSAs /\ (Phase' = "full" => Missing' = {})
  BY <1>1, <1>2, <1>5, <1>6
<1>10. Check' = Check
  <2>1. load_done => m.checked < m.negotiations
    BY DEF Ready, Held
  <2>2. m.checked \in Nat /\ m.negotiations \in Nat
    BY DEF NeighborType
  <2>3. load_done => nbr'.negotiations # nbr'.checked
    BY <1>2, <2>1, <2>2
  <2> QED
    BY <2>3, CheckOf
<1>8. CASE nbr.state \in Adjacent
  <2>1. Phase = "exchange" /\ Missing = n.described \ lsdb
    BY <1>8, PhaseOf DEF Adjacent
  <2>2. Missing \subseteq Missing'
    <3>1. CASE nbr'.state = "FULL"
      BY <1>1, <1>5, <2>1, <3>1
    <3>2. CASE nbr'.state # "FULL"
      BY <1>1, <1>2, <1>3, <1>6, <2>1, <3>2
    <3> QED
      BY <3>1, <3>2
  <2>3. Exchange!Describe
    BY <1>6, <1>7, <1>10, <2>1, <2>2 DEF Exchange!Describe
  <2> QED
    BY <2>3 DEF Exchange!Next
<1>9. CASE nbr.state \notin Adjacent
  <2>1. Phase = "down"
    BY <1>9, PhaseOf
  <2>2. Exchange!Describe
    BY <1>6, <1>7, <1>10, <2>1 DEF Exchange!Describe
  <2> QED
    BY <2>2 DEF Exchange!Next
<1> QED
  BY <1>8, <1>9

\* A DD changes nothing of an adjacent neighbour before it is looked at in
\* EXCHANGE, LOADING or FULL, and takes no other one past EXCHANGE.
LEMMA ArrivedFacts ==
  ASSUME Typed, NEW p \in DDs
  PROVE  LET n == Arrived(p) IN
         /\ n \in NeighborType
         /\ nbr.state \in Adjacent =>
              /\ n.state = nbr.state /\ n.described = nbr.described
              /\ SameExchange(n, nbr)
         /\ nbr.state \notin Adjacent => n.state \notin {"LOADING", "FULL"}
         /\ Kept(nbr, lsdb) => Kept(n, lsdb)
         /\ Ready(nbr) => Ready(n)
<1> DEFINE k == [nbr EXCEPT !.last_dd_seq_num = p.seq]
<1>1. k \in NeighborType
  BY DEF NeighborType, DDs, Typed, TypeOK
<1>2. /\ k.state = nbr.state /\ k.described = nbr.described /\ k.req = nbr.req
      /\ SameExchange(k, nbr)
  BY DEF NeighborType, Typed, TypeOK, SameExchange
<1> HIDE DEF k
<1>3. Arrived(p) = Negotiate(k, p)
  BY DEF Arrived, k
<1>4. Arrived(p) \in NeighborType
  BY <1>1, <1>3, NegotiateType DEF Typed, TypeOK
<1>5. Kept(nbr, lsdb) => Kept(Arrived(p), lsdb)
  <2> SUFFICES ASSUME Kept(nbr, lsdb) PROVE Kept(Arrived(p), lsdb)
    OBVIOUS
  <2>1. Arrived(p).described \subseteq k.described /\ Arrived(p).req = k.req
    BY <1>1, <1>3, NegotiateKeeps
  <2> QED
    BY <1>2, <2>1, KeptSame
<1>6. nbr.state \in Adjacent => Arrived(p) = k
  BY <1>2, <1>3 DEF Negotiate, Event2WayReceived, Adjacent
<1>7. ASSUME nbr.state \notin Adjacent
      PROVE  Arrived(p).state \notin {"LOADING", "FULL"}
  <2> DEFINE m == Event2WayReceived(k)
  <2>1. m \in NeighborType
    BY <1>1, TwoWayType
  <2>2. m.state \notin Adjacent
    <3>1. k.state # "INIT" => m = k
      BY DEF Event2WayReceived
    <3>2. k.state = "INIT" => m.state \in {"2WAY", "EXSTART"}
      BY <1>1 DEF Event2WayReceived, NeighborType
    <3> QED
      BY <1>2, <1>7, <3>1, <3>2 DEF Adjacent
  <2> HIDE DEF m
  <2>3. ASSUME NEW r \in NeighborType, r.state = "EXSTART"
        PROVE  EventNegotiationDone(r).state = "EXCHANGE"
    BY <2>3 DEF EventNegotiationDone, NeighborType
  <2>4. ASSUME m.state = "EXSTART"
        PROVE  Arrived(p).state \in {"EXSTART", "EXCHANGE"}
    <3> DEFINE r1 == [m EXCEPT !.is_master = TRUE, !.dd_seq_num = p.seq]
               r2 == [m EXCEPT !.is_master = FALSE]
    <3>1. r1 \in NeighborType /\ r1.state = "EXSTART"
      BY <2>1, <2>4 DEF NeighborType, DDs
    <3>2. r2 \in NeighborType /\ r2.state = "EXSTART"
      BY <2>1, <2>4 DEF NeighborType
    <3>3. Arrived(p) \in {EventNegotiationDone(r1), EventNegotiationDone(r2), m}
      BY <1>3, <2>4 DEF Negotiate, m
    <3> HIDE DEF r1, r2
    <3> QED
      BY <2>3, <2>4, <3>1, <3>2, <3>3
  <2>5. m.state # "EXSTART" => Arrived(p) = m
    BY <1>3 DEF Negotiate, m
  <2> QED
    BY <2>2, <2>4, <2>5 DEF Adjacent
<1>8. Ready(nbr) => Ready(Arrived(p))
  BY <1>1, <1>2, <1>3, ReadySame, ReadyNegotiate
<1> QED
  BY <1>2, <1>4, <1>5, <1>6, <1>7, <1>8

\* The DD handler takes a step of the exchange.
LEMMA DDImplements ==
  ASSUME Typed, Kept(nbr, lsdb), Synced, Typed', NEW p \in DDs, RecvDD(p)
  PROVE  [Exchange!Next]_Exchange!vars
<1> DEFINE n == Arrived(p)
           a == Absorb(n, p)
<1>1. /\ n \in NeighborType /\ Kept(n, lsdb) /\ Ready(n)
      /\ nbr.state \in Adjacent => /\ n.state = nbr.state /\ n.described = nbr.described
                                   /\ SameExchange(n, nbr)
      /\ nbr.state \notin Adjacent => n.state \notin {"LOADING", "FULL"}
  BY ArrivedFacts DEF Synced
<1>2. \/ DDIgnored(p, n) \/ DDDuplicate(p, n) \/ DDMismatch(p, n)
      \/ DDLate(p, n) \/ DDAnsweredBySlave(p, n) \/ DDAnsweredByMaster(p, n)
  BY DEF RecvDD
<1>3. lsdb' \subseteq LSAs /\ load_done' = load_done
  BY DEF Typed, TypeOK, RecvDD
<1> HIDE DEF n
<1>4. CASE DDIgnored(p, n)
  BY <1>3, <1>4, RestartStep DEF DDIgnored, Adjacent
<1>5. CASE DDDuplicate(p, n) \/ DDLate(p, n)
  <2>1. nbr' = n /\ lsdb' = lsdb /\ n.state \in Adjacent
    BY <1>5 DEF DDDuplicate, DDLate, Adjacent
  <2>2. CASE nbr.state \in Adjacent
    BY <1>1, <1>3, <2>1, <2>2, CheckOf, StoreStep DEF SameExchange
  <2>3. CASE nbr.state \notin Adjacent
    <3>1. nbr'.state = "EXCHANGE" /\ Phase = "down"
      BY <1>1, <2>1, <2>3, PhaseOf DEF Adjacent
    <3>2. Phase' = "exchange" /\ Missing' \in SUBSET LSAs
      BY <1>1, <2>1, <3>1, PhaseOfNext DEF NeighborType, Adjacent
    <3>3. Check' = Check
      BY <1>3, <2>3, <3>1, CheckOf DEF Adjacent
    <3>4. Exchange!Describe
      BY <3>1, <3>2, <3>3 DEF Exchange!Describe
    <3> QED
      BY <3>4 DEF Exchange!Next
  <2> QED
    BY <2>2, <2>3
<1>6. CASE DDMismatch(p, n)
  <2>1. n.state \in Adjacent /\ nbr' = [n EXCEPT !.state = "EXSTART"]
    BY <1>6 DEF DDMismatch, EventSeqNumberMismatch
  <2>2. nbr'.state = "EXSTART"
    BY <1>1, <2>1 DEF NeighborType
  <2> QED
    BY <1>3, <2>2, RestartStep DEF Adjacent
<1>7. ASSUME n.state = "EXCHANGE"
      PROVE  /\ a \in NeighborType /\ a.state = "EXCHANGE" /\ Kept(a, lsdb)
             /\ SameExchange(a, n) /\ nbr.state \notin {"LOADING", "FULL"}
             /\ Remainder(n.summary) \in Seq(LSAs)
             /\ Chunk(n.summary) \in SUBSET LSAs
  <2>1. a \in NeighborType /\ Kept(a, lsdb)
    BY <1>1, <1>7, AbsorbType, AbsorbKeeps
  <2>2. a.state = "EXCHANGE" /\ SameExchange(a, n)
    BY <1>1, <1>7 DEF Absorb, NeighborType, SameExchange
  <2>3. nbr.state \notin {"LOADING", "FULL"}
    BY <1>1, <1>7 DEF Adjacent
  <2> QED
    BY <1>1, <2>1, <2>2, <2>3, RemainderType DEF NeighborType
<1>8. CASE DDAnsweredBySlave(p, n)
  <2> DEFINE rest == Remainder(n.summary)
             reply == DD(FALSE, rest # << >>, FALSE, p.seq, Chunk(n.summary), TRUE)
             m == [a EXCEPT !.dd_seq_num = p.seq, !.summary = rest,
                            !.last_dd_data = reply]
  <2>1. n.state = "EXCHANGE"
    BY <1>8 DEF DDAnsweredBySlave
  <2>2. reply \in DDs
    BY <1>7, <2>1 DEF DD, DDs
  <2>3. m \in NeighborType
    BY <1>7, <2>1, <2>2 DEF NeighborType, DDs
  <2>4. /\ m.state = a.state /\ m.described = a.described /\ m.req = a.req
        /\ SameExchange(m, a)
    BY <1>7, <2>1 DEF NeighborType, SameExchange
  <2>5. FinishExchange(m) \/ (nbr' = m /\ lsdb' = lsdb)
    BY <1>8 DEF DDAnsweredBySlave
  <2> HIDE DEF m, a
  <2>6. Kept(m, lsdb)
    BY <1>7, <2>1, <2>4, KeptSame
  <2>7. m.state = "EXCHANGE" /\ m.described = Absorb(n, p).described
    BY <1>7, <2>1, <2>4 DEF a
  <2>8. Ready(m)
    BY <1>1, <1>7, <2>1, <2>4 DEF Ready, ClaimedFull, Held, Adjacent, SameExchange
  <2> QED
    BY <1>1, <1>3, <1>7, <2>1, <2>3, <2>5, <2>6, <2>7, <2>8, DescribeStep
<1>9. CASE DDAnsweredByMaster(p, n)
  <2> DEFINE rest == Remainder(n.summary)
             seq == Inc(n.dd_seq_num)
             b == [a EXCEPT !.dd_seq_num = seq]
             m == [b EXCEPT !.summary = rest, !.rxmt_map[seq] = alloc_id]
  <2>1. n.state = "EXCHANGE"
    BY <1>9 DEF DDAnsweredByMaster
  <2>2. b \in NeighborType
    BY <1>1, <1>7, <2>1, IncType DEF NeighborType
  <2>3. /\ b.state = a.state /\ b.described = a.described /\ b.req = a.req
        /\ SameExchange(b, a)
    BY <1>7, <2>1 DEF NeighborType, SameExchange
  <2>4. m \in NeighborType
    <3>1. seq \in Seqs /\ alloc_id \in Nat
      BY <1>1, IncType DEF NeighborType, Typed, TypeOK
    <3> QED
      BY <1>7, <2>1, <2>2, <3>1 DEF NeighborType
  <2>5. /\ m.state = b.state /\ m.described = b.described /\ m.req = b.req
        /\ SameExchange(m, b)
    BY <2>2 DEF NeighborType, SameExchange
  <2>6. FinishExchange(b) \/ (nbr' = m /\ lsdb' = lsdb)
    BY <1>9 DEF DDAnsweredByMaster
  <2> HIDE DEF m, b, a
  <2>7. Kept(b, lsdb)
    BY <1>7, <2>1, <2>3, KeptSame
  <2>8. Kept(m, lsdb)
    BY <2>5, <2>7, KeptSame
  <2>9. /\ b.state = "EXCHANGE" /\ b.described = Absorb(n, p).described
        /\ m.state = "EXCHANGE" /\ m.described = Absorb(n, p).described
    BY <1>7, <2>1, <2>3, <2>5 DEF a
  <2>12. Ready(b) /\ Ready(m)
    BY <1>1, <1>7, <2>1, <2>3, <2>5, <2>9
       DEF Ready, ClaimedFull, Held, Adjacent, SameExchange
  <2>10. CASE FinishExchange(b)
    BY <1>1, <1>3, <1>7, <2>1, <2>2, <2>7, <2>9, <2>10, <2>12, DescribeStep
  <2>11. CASE nbr' = m /\ lsdb' = lsdb
    BY <1>1, <1>3, <1>7, <2>1, <2>4, <2>8, <2>9, <2>11, <2>12, DescribeStep
  <2> QED
    BY <2>6, <2>10, <2>11
<1> QED
  BY <1>2, <1>4, <1>5, <1>6, <1>8, <1>9

\* Every step of the host is a step of the exchange, or none.
LEMMA NextImplements ==
  Typed /\ Kept(nbr, lsdb) /\ Synced /\ Typed' /\ [AnyStep]_vars
    => [Exchange!Next]_Exchange!vars
<1> SUFFICES ASSUME Typed, Kept(nbr, lsdb), Synced, Typed', [AnyStep]_vars
             PROVE  [Exchange!Next]_Exchange!vars
  OBVIOUS
<1>0. nbr \in NeighborType /\ lsdb \subseteq LSAs /\ lsdb' \subseteq LSAs
  BY DEF Typed, TypeOK
<1>1. ASSUME nbr' = nbr, lsdb \subseteq lsdb', load_done' = load_done
      PROVE  [Exchange!Next]_Exchange!vars
  BY <1>1, StoreStep, CheckOf
<1>2. CASE RecvOther \/ RecvFromUnknown \/ LSRSend \/ Retransmit
           \/ WaitTimer \/ Exit \/ UNCHANGED vars
  <2>1. nbr' = nbr /\ lsdb \subseteq lsdb' /\ load_done' = load_done
    BY <1>0, <1>2, OriginateType
       DEF RecvOther, RecvFromUnknown, LSRSend, Retransmit, WaitTimer, Exit,
           vars
  <2> QED
    BY <1>1, <2>1
<1>3. ASSUME NEW s, RecvMulticastLSU(s) \/ RecvDirectedLSU(s)
      PROVE  [Exchange!Next]_Exchange!vars
  <2>1. nbr' = nbr /\ lsdb \subseteq lsdb' /\ load_done' = load_done
    BY <1>3 DEF RecvMulticastLSU, RecvDirectedLSU
  <2> QED
    BY <1>1, <2>1
<1>4. ASSUME NEW twoWay \in BOOLEAN, NEW adjacent \in BOOLEAN,
             NEW elects \in BOOLEAN, RecvHello(twoWay, adjacent, elects)
      PROVE  [Exchange!Next]_Exchange!vars
  <2> DEFINE m == [nbr EXCEPT !.adjacent = adjacent]
             h == EventHelloReceived(m)
  <2>1. h \in NeighborType
    <3>1. m \in NeighborType
      BY <1>0 DEF NeighborType
    <3> QED
      BY <3>1, HelloType
  <2>2. /\ h.described = nbr.described /\ SameExchange(h, nbr)
        /\ nbr.state \in Adjacent => h.state = nbr.state
        /\ nbr.state \notin Adjacent => h.state \notin Adjacent
    BY <1>0 DEF EventHelloReceived, NeighborType, Adjacent, SameExchange
  <2>3. nbr' = Event2WayReceived(h) \/ nbr' = Event1WayReceived(h)
    BY <1>4 DEF RecvHello
  <2> HIDE DEF h
  <2>4. nbr' = h \/ nbr'.state \notin Adjacent
    <3>1. \A st \in {"INIT", "2WAY"} :
             [h EXCEPT !.state = st].state \notin Adjacent
      BY <2>1 DEF NeighborType, Adjacent
    <3>2. [h EXCEPT !.state = "EXSTART", !.dd_seq_num = 0, !.is_master = TRUE,
                    !.dd_waiting = @ + 1].state \notin Adjacent
      BY <2>1 DEF NeighborType, Adjacent
    <3> QED
      BY <2>3, <3>1, <3>2 DEF Event2WayReceived, Event1WayReceived
  <2>5. lsdb \subseteq lsdb' /\ load_done' = load_done
    BY <1>0, <1>4, OriginateType DEF RecvHello
  <2>6. CASE nbr' = h /\ nbr.state \in Adjacent
    BY <2>2, <2>5, <2>6, StoreStep, CheckOf DEF SameExchange
  <2>7. CASE nbr'.state \notin Adjacent
    BY <2>5, <2>7, RestartStep
  <2> QED
    BY <2>2, <2>4, <2>6, <2>7
<1>5. ASSUME NEW p \in DDs, RecvDD(p) PROVE [Exchange!Next]_Exchange!vars
  BY <1>5, DDImplements
<1>6. ASSUME NEW asked \in SUBSET LSAs, RecvLSR(asked)
      PROVE  [Exchange!Next]_Exchange!vars
  <2>1. nbr' = nbr \/ nbr'.state \notin Adjacent
    BY <1>0, <1>6 DEF RecvLSR, EventSeqNumberMismatch, NeighborType, Adjacent
  <2>2. lsdb' = lsdb /\ load_done' = load_done
    BY <1>6 DEF RecvLSR
  <2> QED
    BY <1>1, <2>1, <2>2, RestartStep
<1>7. CASE LSURemove
  <2>1. PICK r : nbr' = [nbr EXCEPT !.req = r]
    BY <1>7 DEF LSURemove
  <2>2. /\ nbr'.state = nbr.state /\ nbr'.described = nbr.described
        /\ SameExchange(nbr', nbr)
    BY <1>0, <2>1 DEF NeighborType, SameExchange
  <2>3. lsdb \subseteq lsdb' /\ load_done' = load_done
    BY <1>7 DEF LSURemove
  <2> QED
    BY <2>2, <2>3, StoreStep, CheckOf DEF SameExchange
<1>8. CASE LSRExits \/ Announce
  <2>1. /\ nbr'.state = nbr.state /\ nbr'.described = nbr.described
        /\ SameExchange(nbr', nbr)
    <3>1. CASE Announce
      BY <1>0, <3>1, AnnounceCourse DEF SameButAnnouncers, SameExchange
    <3>2. CASE LSRExits
      BY <1>0, <3>2 DEF LSRExits, NeighborType, SameExchange
    <3> QED
      BY <1>8, <3>1, <3>2
  <2>2. lsdb' = lsdb /\ load_done' = load_done
    BY <1>0, <1>8, AnnounceCourse DEF LSRExits
  <2> QED
    BY <2>1, <2>2, StoreStep, CheckOf DEF SameExchange
<1>9. CASE LoadDoneTest
  <2>1. /\ nbr'.state = nbr.state /\ nbr'.described = nbr.described
        /\ nbr'.claimed = nbr.claimed
        /\ nbr'.negotiations = nbr.negotiations /\ nbr'.checked = nbr.negotiations
    BY <1>0, <1>9 DEF LoadDoneTest, NeighborType
  <2>2. /\ lsdb' = lsdb /\ Requested(nbr) = {} /\ ~load_done
        /\ load_done' = (nbr.state = "LOADING")
    BY <1>9 DEF LoadDoneTest, Synced
  <2>3. CASE nbr.state = "LOADING"
    <3>1. nbr.described \subseteq lsdb
      BY <2>2 DEF Kept
    <3>2. Phase = "loading" /\ Missing = {} /\ Phase' = "loading" /\ Missing' = {}
      BY <2>1, <2>2, <2>3, <3>1, PhaseOf, PhaseOfNext DEF Adjacent
    <3>3. Check = "none" /\ Check' = "valid"
      BY <2>1, <2>2, <2>3, CheckOf
    <3>4. Exchange!Checked
      BY <3>2, <3>3 DEF Exchange!Checked
    <3> QED
      BY <3>4 DEF Exchange!Next
  <2>4. CASE nbr.state # "LOADING"
    BY <2>1, <2>2, <2>4, StoreStep, CheckOf
  <2> QED
    BY <2>3, <2>4
<1>13. CASE LoadDoneCommit
  <2>1. /\ nbr'.state = "FULL" /\ nbr'.described = nbr.described
        /\ nbr'.claimed = Overtaken /\ lsdb \subseteq lsdb'
    BY <1>0, <1>13 DEF LoadDoneCommit, NeighborType
  <2>2. load_done /\ ~load_done'
    BY <1>13 DEF LoadDoneCommit
  <2>3. Check' = "none" /\ Missing' = nbr.described \ lsdb'
    BY <2>1, <2>2, CheckOf, PhaseOfNext DEF Adjacent
  <2>4. CASE Overtaken
    <3>1. Check = "stale" /\ Phase' = "claimed"
      BY <2>1, <2>2, <2>4, CheckOf, PhaseOfNext DEF Overtaken
    <3>2. Missing' \in SUBSET LSAs
      BY <1>0, <2>3 DEF NeighborType
    <3>3. Phase # "down" => Missing' \subseteq Missing
      BY <2>1, <2>3, PhaseOf DEF Adjacent
    <3>4. Exchange!Claim
      BY <2>3, <3>1, <3>2, <3>3 DEF Exchange!Claim
    <3> QED
      BY <3>4 DEF Exchange!Next
  <2>5. CASE ~Overtaken
    <3>1. nbr.state = "LOADING" /\ Requested(nbr) = {} /\ Check = "valid"
      BY <2>2, <2>5, CheckOf DEF Overtaken, Synced, Ready, Held
    <3>2. nbr.described \subseteq lsdb
      BY <3>1 DEF Kept
    <3>3. Phase = "loading" /\ Missing = {} /\ Phase' = "full" /\ Missing' = {}
      BY <2>1, <2>3, <2>5, <3>1, <3>2, PhaseOf, PhaseOfNext DEF Adjacent
    <3>4. Exchange!Complete
      BY <2>3, <3>1, <3>3 DEF Exchange!Complete
    <3> QED
      BY <3>4 DEF Exchange!Next
  <2> QED
    BY <2>4, <2>5
<1>10. CASE Reception
  BY <1>2, <1>3, <1>4, <1>5, <1>6, <1>7, <1>10 DEF Reception
<1>11. CASE ThreadStep
  BY <1>2, <1>8, <1>9, <1>11, <1>13 DEF ThreadStep, Announce
<1> QED
  BY <1>2, <1>10, <1>11 DEF AnyStep

\* The neighbour implements a database exchange, for any environment.
LEMMA RefinementAny ==
  ASSUME NoKeyClash
  PROVE  AnySpec => ImplementsExchange
<1>1. Init => Exchange!Init
  <2> SUFFICES ASSUME Init PROVE Exchange!Init
    OBVIOUS
  <2>1. nbr.state = "DOWN" /\ ~load_done
    BY DEF Init, Absent
  <2> QED
    BY <2>1, PhaseOf, CheckOf DEF Exchange!Init, Adjacent
<1>2. (Typed /\ Kept(nbr, lsdb)) /\ Synced /\ Typed' /\ [AnyStep]_vars
        => [Exchange!Next]_Exchange!vars
  BY NextImplements
<1> QED
  BY SyncedAlways, KeptAlways, <1>1, <1>2, PTL DEF AnySpec, ImplementsExchange, Exchange!Spec

\* The neighbour implements a database exchange, for any peer and any order of
\* the threads; FULL as claimed after a stale check is a step of it of its own.
THEOREM Refinement ==
  ASSUME NoKeyClash
  PROVE  Spec => ImplementsExchange
BY SpecIsAny, RefinementAny, PTL
=============================================================================
