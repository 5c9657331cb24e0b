-------------------------- MODULE AgreementProofs --------------------------
(***************************************************************************)
(* Two full routers hold the same LSAs, and a master that described an LSA *)
(* is done with the exchange only after its slave: the invariant of        *)
(* Adjacency that says so, and its proof.  Packets may be lost or repeated *)
(* on the way, the peer may start fresh or remember the host, the handlers *)
(* may run inside eventLoadDone, and the host may originate at any time.   *)
(* What is left out is an empty DD that is sent after EXSTART.             *)
(***************************************************************************)
EXTENDS AdjacencyProofs

-----------------------------------------------------------------------------
(* The slave. A host whose peer has the larger id stays in EXSTART and     *)
(* EXCHANGE: it has a last DD without a body to repeat, so the peer never  *)
(* gets an answer and keeps to EXSTART, and all that is in flight are DDs  *)
(* that start a negotiation.                                               *)

Announcements == {d \in DDs : d.I}

SlaveHost ==
  /\ nbr.state \notin {"LOADING", "FULL"} /\ nbr.lsr_threads = 0
  /\ ~load_done /\ rxmt = {} /\ nbr.last_dd_data = NoBody /\ receiver # "lsu"

SlaveInv ==
  /\ SlaveHost
  /\ peer.state \in {"INIT", "EXSTART", "FULL"}
  /\ Range(toPeer) \subseteq Announcements
  /\ Range(toHost) \subseteq Announcements

\* A DD that starts a negotiation is never absorbed: the host drops it, takes
\* it for a mismatch, or repeats the DD without a body.
LEMMA SlaveReceives ==
  ASSUME Typed, SlaveHost, NEW p \in DDs, p.I, RecvDD(p)
  PROVE  SlaveHost' /\ out' \in {<< >>, <<NoBody>>}
<1> DEFINE n == Arrived(p)
<1>1. /\ n \in NeighborType /\ SameCourse(n, nbr)
      /\ n.state \notin {"LOADING", "FULL"}
  BY ArrivedCourse DEF Typed, SlaveHost, SameRound, Agreed, Adjacent
<1>2. \/ DDIgnored(p, n) \/ DDDuplicate(p, n) \/ DDMismatch(p, n)
  BY <1>1 DEF RecvDD, DDLate, DDAnsweredBySlave, DDAnsweredByMaster,
              FlagsMismatch
<1>3. receiver' # "lsu" /\ load_done' = load_done
  BY DEF RecvDD, LoopTop
<1> HIDE DEF n
<1>4. /\ SameCourse(nbr', n) /\ nbr'.state \notin {"LOADING", "FULL"}
      /\ rxmt' = rxmt
  <2>1. CASE nbr' = n
    BY <1>1, <1>2, <2>1 DEF DDIgnored, DDDuplicate, DDMismatch, SameCourse
  <2>2. CASE nbr' = EventSeqNumberMismatch(n)
    BY <1>1, <1>2, <2>2 DEF DDIgnored, DDDuplicate, DDMismatch, SameCourse,
                            EventSeqNumberMismatch, NeighborType
  <2> QED
    BY <1>2, <2>1, <2>2 DEF DDIgnored, DDDuplicate, DDMismatch
<1>5. out' \in {<< >>, <<n.last_dd_data>>}
  BY <1>2 DEF DDIgnored, DDDuplicate, DDMismatch
<1> QED
  BY <1>1, <1>3, <1>4, <1>5 DEF SlaveHost, SameCourse

\* The host as slave on the wire.
LEMMA SlaveHostStep ==
  ASSUME Typed, AdjTypeOK, SlaveInv, HostStep \/ HelloToHost
  PROVE  SlaveInv'
<1>0. nbr \in NeighborType /\ ~(nbr.lsr_threads > 0)
  BY DEF Typed, TypeOK, SlaveInv, SlaveHost
<1>1. ~HostInstalls /\ ~HostRequests /\ ~HostRepeats
  BY <1>0 DEF HostInstalls, LSURemove, HostRequests, LSRSend, HostRepeats,
              Retransmit, SlaveInv, SlaveHost
<1>2. ~LoadDoneTest /\ ~LoadDoneCommit /\ ~LSRExits
  BY <1>0 DEF LoadDoneTest, LoadDoneCommit, LSRExits, SlaveInv, SlaveHost
<1>3. CASE HostReceives
  <2> DEFINE m == Head(toHost)
  <2>1. /\ m \in Announcements /\ toHost \in Seq(Packets) /\ toHost # << >>
        /\ Range(toHost') \subseteq Announcements
    BY <1>3, ChannelTail DEF HostReceives, SlaveInv, AdjTypeOK
  <2>2. m \in DDs /\ m.I /\ m.type = "DD"
    BY <2>1 DEF Announcements, DDs
  <2>3. RecvDD(m) \/ RecvFromUnknown
    BY <1>3, <2>2 DEF HostReceives
  <2> HIDE DEF m
  <2>4. SlaveHost' /\ out' \in {<< >>, <<NoBody>>}
    <3>1. CASE RecvDD(m)
      BY <2>2, <3>1, SlaveReceives DEF SlaveInv
    <3>2. CASE RecvFromUnknown
      BY <3>2 DEF RecvFromUnknown, SlaveInv, SlaveHost
    <3> QED
      BY <2>3, <3>1, <3>2
  <2>5. toPeer' = toPeer /\ peer' = peer
    <3>1. Transmit /\ peer' = peer
      BY <1>3 DEF HostReceives, Transmit
    <3>2. NoBody \in Packets
      BY DEF Packets
    <3> QED
      BY <2>4, <3>1, <3>2, TransmitOne DEF AdjTypeOK
  <2> QED
    BY <2>1, <2>4, <2>5 DEF SlaveInv
<1>4. CASE HostAnnounces
  <2>0. PICK s \in Seqs : AnnounceSend(s)
    BY <1>4 DEF HostAnnounces
  <2> DEFINE d == DD(TRUE, TRUE, TRUE, s, {}, FALSE)
  <2>1. d \in Announcements /\ d \in Packets /\ d.type = "DD"
    BY DEF DD, DDs, Announcements, Packets
  <2>2. out' = <<d>> /\ Transmit
    BY <1>4, <2>0 DEF HostAnnounces, AnnounceSend
  <2> HIDE DEF d
  <2>3. toPeer' \in {toPeer, Append(toPeer, d)}
    BY <2>1, <2>2, TransmitOne DEF AdjTypeOK
  <2>4. Range(toPeer') \subseteq Announcements
    <3>1. toPeer \in Seq(Packets) /\ Range(toPeer) \subseteq Announcements
      BY DEF SlaveInv, AdjTypeOK
    <3>2. Range(Append(toPeer, d)) = Range(toPeer) \cup {d}
      BY <2>1, <3>1, ChannelAppend
    <3> QED
      BY <2>1, <2>3, <3>1, <3>2
  <2>5. /\ UNCHANGED <<load_done, rxmt, receiver, peer, toHost>>
        /\ SameButAnnouncers(nbr', nbr)
    <3>1. Announce
      BY <2>0 DEF Announce
    <3> QED
      BY <1>0, <1>4, <3>1, AnnounceCourse DEF HostAnnounces, Transmit
  <2> QED
    BY <2>4, <2>5 DEF SlaveInv, SlaveHost, SameButAnnouncers
<1>5. CASE HostInternal(AnnounceTest) \/ HostInternal(AnnounceRead)
           \/ HostInternal(AnnounceEnds)
  <2>1. UNCHANGED <<peer, toHost, toPeer>> /\ Announce
    BY <1>5 DEF HostInternal, Announce, wire
  <2>2. UNCHANGED <<rxmt, load_done, receiver>> /\ SameButAnnouncers(nbr', nbr)
    BY <1>0, <2>1, AnnounceCourse
  <2> QED
    BY <2>1, <2>2 DEF SlaveInv, SlaveHost, SameButAnnouncers
<1>7. CASE HostInternal(WaitTimer) \/ HostInternal(Exit)
  BY <1>7 DEF HostInternal, WaitTimer, Exit, wire, SlaveInv, SlaveHost
<1>6. CASE HelloToHost
  <2>1. PICK twoWay \in BOOLEAN : RecvHello(twoWay, TRUE, FALSE)
    BY <1>6 DEF HelloToHost, AdjTypeOK, PeerType
  <2> DEFINE m == [nbr EXCEPT !.adjacent = TRUE]
             h == EventHelloReceived(m)
  <2>2. m \in NeighborType /\ SameCourse(m, nbr) /\ m.state = nbr.state
    BY <1>0 DEF NeighborType, SameCourse
  <2> HIDE DEF m
  <2>3. h \in NeighborType /\ SameCourse(h, m) /\ h.state \in {m.state, "INIT"}
    BY <2>2, HelloType DEF EventHelloReceived, NeighborType, SameCourse
  <2>4. nbr' \in {Event2WayReceived(h), Event1WayReceived(h)}
    BY <2>1 DEF RecvHello, m
  <2> HIDE DEF h
  <2>5. SameCourse(nbr', h) /\ nbr'.state \in {h.state, "INIT", "2WAY", "EXSTART"}
    <3>1. CASE nbr' = Event2WayReceived(h)
      BY <2>3, <3>1, TwoWayCourse
    <3>2. CASE nbr' = Event1WayReceived(h)
      BY <2>3, <3>2 DEF Event1WayReceived, NeighborType, SameCourse
    <3> QED
      BY <2>4, <3>1, <3>2
  <2>6. SameCourse(nbr', nbr) /\ nbr'.state \notin {"LOADING", "FULL"}
    BY <2>2, <2>3, <2>5 DEF SlaveInv, SlaveHost, SameCourse
  <2>7. /\ UNCHANGED <<peer, toHost, toPeer, rxmt, load_done>>
        /\ receiver' # "lsu"
    BY <1>6, <2>1 DEF HelloToHost, RecvHello, wire, LoopTop
  <2> QED
    BY <2>6, <2>7 DEF SlaveInv, SlaveHost, SameCourse
<1> QED
  BY <1>1, <1>2, <1>3, <1>4, <1>5, <1>6, <1>7 DEF HostStep, HostInternal

\* The peer of a slave.
LEMMA SlavePeerStep ==
  ASSUME AdjTypeOK, ~HostIsMaster, SlaveInv, PeerStep \/ HelloToPeer \/ Lose
  PROVE  SlaveInv'
<1>0. peer \in PeerType
  BY DEF AdjTypeOK
<1>1. CASE PeerReceives
  <2> DEFINE m == Head(toPeer)
  <2>1. /\ m \in Announcements /\ toPeer # << >>
        /\ Range(toPeer') \subseteq Announcements
    BY <1>1, ChannelTail DEF PeerReceives, SlaveInv, AdjTypeOK
  <2>2. m \in DDs /\ m.I /\ m.type = "DD"
    BY <2>1 DEF Announcements, DDs
  <2>3. PeerNegotiates(m) \/ PeerExchanges(m) \/ PeerDiscards(m)
    BY <1>1, <2>2 DEF PeerReceives
  <2>4. UNCHANGED vars
    BY <1>1 DEF PeerReceives
  <2> HIDE DEF m
  <2>5. ~PeerNegotiates(m)
    BY <2>2 DEF PeerNegotiates, Agrees
  <2>6. toHost' = toHost /\ peer'.state \in {"INIT", "EXSTART", "FULL"}
    <3>1. CASE PeerExchanges(m)
      BY <1>0, <2>2, <3>1 DEF PeerExchanges, PeerRestarts, PeerType, SlaveInv
    <3>2. CASE PeerDiscards(m)
      BY <3>2 DEF PeerDiscards, SlaveInv
    <3> QED
      BY <2>3, <2>5, <3>1, <3>2
  <2> QED
    BY <2>1, <2>4, <2>6 DEF SlaveInv, SlaveHost, vars
<1>2. CASE PeerAnnounces
  <2> DEFINE d == DD(TRUE, TRUE, TRUE, peer.seq, {}, FALSE)
  <2>1. PeerSends(d) /\ UNCHANGED <<vars, peer, toPeer>>
    BY <1>2 DEF PeerAnnounces, SlaveInv
  <2>2. d \in Announcements /\ d \in Packets
    BY <1>0 DEF DD, DDs, Announcements, PeerType, Packets
  <2> HIDE DEF d
  <2>3. Range(toHost') \subseteq Announcements
    BY <2>1, <2>2, ChannelAppend DEF PeerSends, SlaveInv, AdjTypeOK
  <2> QED
    BY <2>1, <2>3 DEF SlaveInv, SlaveHost, vars
<1>3. ~PeerRequests
  BY DEF PeerRequests, SlaveInv
<1>4. CASE HelloToPeer
  <2>1. peer'.state \in {"INIT", "EXSTART", "FULL"}
    BY <1>0, <1>4 DEF HelloToPeer, SlaveInv, PeerType
  <2> QED
    BY <1>4, <2>1 DEF HelloToPeer, SlaveInv, SlaveHost, vars, wire
<1>5. CASE Lose
  <2>1. /\ Range(toPeer') \subseteq Announcements
        /\ Range(toHost') \subseteq Announcements
    BY <1>5, ChannelTail DEF Lose, SlaveInv, AdjTypeOK
  <2> QED
    BY <1>5, <2>1 DEF Lose, SlaveInv, SlaveHost, vars
<1> QED
  BY <1>1, <1>2, <1>3, <1>4, <1>5 DEF PeerStep

\* A host that is slave stays in EXSTART and EXCHANGE, and its peer in EXSTART.
LEMMA NextSlave ==
  ASSUME Typed, AdjTypeOK, ~HostIsMaster, SlaveInv, [AdjNext]_avars
  PROVE  SlaveInv'
<1>1. CASE UNCHANGED avars
  BY <1>1 DEF avars, vars, wire, SlaveInv, SlaveHost
<1> QED
  BY <1>1, SlaveHostStep, SlavePeerStep DEF AdjNext

-----------------------------------------------------------------------------
(* What a master sends. The first chunk of the summary list goes into a DD *)
(* and the rest stays: together they are the list, which was the database. *)

\* The database in some order: each of its LSAs, and nothing else.
LEMMA ListingRange ==
  ASSUME NEW S, S \subseteq LSAs
  PROVE  /\ Listing(S) \in Seq(LSAs) /\ Range(Listing(S)) = S
         /\ S # {} => Listing(S) # << >>
<1> DEFINE n == Cardinality(S)
           f == Listing(S)
<1>1. IsFiniteSet(S)
  BY ConfigAssumption, FS_Subset
<1>2. n \in Nat /\ (n = 0 <=> S = {})
  BY <1>1, FS_CardinalityType, FS_EmptySet
<1>3. \E g \in [1..n -> S] : \A i, j \in 1..n : g[i] = g[j] => i = j
  <2>1. PICK g : g \in Bijection(1..n, S)
    BY <1>1, FS_CardinalityType DEF ExistsBijection
  <2> QED
    BY <2>1 DEF Bijection, Injection, IsInjective, Surjection
<1>4. f \in [1..n -> S] /\ \A i, j \in 1..n : f[i] = f[j] => i = j
  BY <1>3 DEF Listing
<1> HIDE DEF f
<1>5. f \in Injection(1..n, S)
  BY <1>4 DEF Injection, IsInjective
<1>6. Cardinality(1..n) = n
  BY <1>2, FS_Interval
<1>7. f \in Surjection(1..n, S)
  BY <1>1, <1>5, <1>6, FS_Injection
<1>8. Range(f) = S
  BY <1>4, <1>7 DEF Surjection, Range
<1>9. f \in Seq(LSAs) /\ (S # {} => f # << >>)
  <2>1. f \in Seq(LSAs) /\ Len(f) = n
    BY <1>2, <1>4
  <2> QED
    BY <1>2, <2>1, EmptySeq
<1> QED
  BY <1>8, <1>9 DEF f

\* The next chunk and what is left of it make up the list.
LEMMA ChunkSplit ==
  ASSUME NEW s \in Seq(LSAs)
  PROVE  /\ Chunk(s) \subseteq Range(s) /\ Remainder(s) \in Seq(LSAs)
         /\ Range(s) = Chunk(s) \cup Range(Remainder(s))
         /\ s = << >> => Chunk(s) = {} /\ Remainder(s) = << >>
<1> DEFINE k == ChunkLen(s)
           r == Remainder(s)
<1>1. Len(s) \in Nat /\ k \in 0..Len(s)
  BY ConfigAssumption, LenProperties DEF ChunkLen
<1>2. /\ r \in Seq(LSAs)
      /\ Len(r) = IF k + 1 <= Len(s) THEN Len(s) - (k + 1) + 1 ELSE 0
      /\ \A i \in 1..Len(s) - (k + 1) + 1 : r[i] = s[k + 1 + i - 1]
  <2>1. \A i \in k + 1..Len(s) : s[i] \in LSAs
    BY <1>1, ElementOfSeq
  <2> HIDE DEF k
  <2>2. r = SubSeq(s, k + 1, Len(s))
    BY DEF Remainder, k
  <2> HIDE DEF r
  <2> QED
    BY <1>1, <2>1, <2>2, SubSeqProperties
<1>3. Range(s) = {s[i] : i \in 1..Len(s)} /\ Chunk(s) = {s[i] : i \in 1..k}
  BY RangeEquality DEF Chunk
<1>4. Range(r) = {r[i] : i \in 1..Len(r)}
  BY <1>2, RangeEquality
<1> HIDE DEF k, r
<1>5. Len(r) = Len(s) - k /\ \A i \in 1..Len(r) : r[i] = s[k + i]
  BY <1>1, <1>2
<1>6. ASSUME NEW x \in Range(s) PROVE x \in Chunk(s) \cup Range(r)
  <2>1. PICK i \in 1..Len(s) : x = s[i]
    BY <1>3
  <2>2. CASE i <= k
    <3>1. i \in 1..k
      BY <1>1, <2>2
    <3> QED
      BY <1>3, <2>1, <3>1
  <2>3. CASE i > k
    <3>1. i - k \in 1..Len(r) /\ k + (i - k) = i
      BY <1>1, <1>5, <2>3
    <3>2. r[i - k] = s[i]
      BY <1>5, <3>1
    <3> QED
      BY <1>4, <2>1, <3>1, <3>2
  <2> QED
    BY <1>1, <2>2, <2>3
<1>7. Range(r) \subseteq Range(s)
  <2>1. \A i \in 1..Len(r) : k + i \in 1..Len(s)
    BY <1>1, <1>5
  <2> QED
    BY <1>3, <1>4, <1>5, <2>1
<1>8. Chunk(s) \subseteq Range(s)
  <2>1. 1..k \subseteq 1..Len(s)
    BY <1>1
  <2> QED
    BY <1>3, <2>1
<1>9. ASSUME s = << >> PROVE Chunk(s) = {} /\ r = << >>
  <2>1. Len(s) = 0 /\ Len(r) = 0
    BY <1>1, <1>5, <1>9
  <2>2. r = << >>
    BY <1>2, <2>1, EmptySeq
  <2>3. \A i \in 1..k : FALSE
    BY <1>1, <2>1
  <2> QED
    BY <1>3, <2>2, <2>3
<1> QED
  BY <1>2, <1>6, <1>7, <1>8, <1>9 DEF r

\* The number of the next DD is another one.
LEMMA IncDiffers ==
  ASSUME MaxSeq >= 1, NEW s \in Seqs
  PROVE  Inc(s) \in Seqs /\ Inc(s) # s
<1>1. s \in Int /\ 0 <= s /\ s <= MaxSeq /\ MaxSeq \in Nat
  BY ConfigAssumption DEF Seqs
<1>2. CASE s = MaxSeq
  <2>1. Inc(s) = 0
    BY <1>1, <1>2 DEF Inc
  <2> QED
    BY <1>1, <1>2, <2>1 DEF Seqs
<1>3. CASE s < MaxSeq
  <2>1. Inc(s) = s + 1
    BY <1>1, <1>3 DEF Inc
  <2> QED
    BY <1>1, <1>3, <2>1 DEF Seqs
<1> QED
  BY <1>1, <1>2, <1>3

\* What an answer of a master does to the host: the DD in flight is
\* acknowledged, and the next one follows it, or the exchange is over.
AnswerCourse(n, p) ==
  /\ n.state = "EXCHANGE" /\ ~IsDup(p) /\ ~p.I /\ ~p.MS /\ p.seq = n.dd_seq_num
  /\ nbr'.dd_seq_num = Inc(n.dd_seq_num)
  /\ nbr'.last_dd_seq_num = n.last_dd_seq_num
  /\ nbr'.adjacent = n.adjacent /\ ~nbr'.is_master
  /\ nbr'.described = n.described \cup p.hdrs
  /\ nbr'.negotiations = n.negotiations
  /\ Requested(nbr') \subseteq Requested(n) \cup p.hdrs

AnswerNext(n, p) ==
  /\ n.summary # << >> \/ p.M
  /\ nbr'.state = "EXCHANGE" /\ nbr'.summary = Remainder(n.summary)
  /\ \E e : /\ rxmt' = Acked(n) \cup {e}
            /\ e.id = nbr'.rxmt_map[nbr'.dd_seq_num]
            /\ e.pkt = DD(FALSE, nbr'.summary # << >>, TRUE, nbr'.dd_seq_num,
                          Chunk(n.summary), FALSE)
            /\ out' = <<e.pkt>>
  /\ lsdb' = lsdb /\ alloc_id' = alloc_id + 1

AnswerLast(n, p) ==
  /\ n.summary = << >> /\ ~p.M
  /\ nbr'.state \in {"LOADING", "FULL"} /\ nbr'.summary = << >>
  /\ nbr'.state = "FULL" => Requested(nbr') = {}
  /\ rxmt' = Acked(n) /\ out' = << >> /\ alloc_id' = alloc_id
  /\ lsdb' \in {lsdb, Originate(lsdb)}

\* A master that answers sends its next chunk, or is done with the exchange.
LEMMA MasterAnswers ==
  ASSUME TypeOK, NEW p \in DDs, NEW n \in NeighborType, DDAnsweredByMaster(p, n)
  PROVE  AnswerCourse(n, p) /\ (AnswerNext(n, p) \/ AnswerLast(n, p))
<1> DEFINE a == Absorb(n, p)
           seq == Inc(n.dd_seq_num)
           rest == Remainder(n.summary)
           b == [a EXCEPT !.dd_seq_num = seq]
           next == DD(FALSE, rest # << >>, TRUE, seq, Chunk(n.summary), FALSE)
           m == [b EXCEPT !.summary = rest, !.rxmt_map[seq] = alloc_id]
           e == [id |-> alloc_id, pkt |-> next]
<1>1. /\ a \in NeighborType /\ a.state = n.state /\ a.adjacent = n.adjacent
      /\ a.is_master = n.is_master /\ a.last_dd_seq_num = n.last_dd_seq_num
      /\ a.summary = n.summary /\ a.described = n.described \cup p.hdrs
      /\ a.negotiations = n.negotiations
      /\ Requested(a) \subseteq Requested(n) \cup p.hdrs
  <2>1. /\ a.state = n.state /\ a.adjacent = n.adjacent
        /\ a.is_master = n.is_master /\ a.last_dd_seq_num = n.last_dd_seq_num
        /\ a.summary = n.summary /\ a.described = n.described \cup p.hdrs
        /\ a.negotiations = n.negotiations
    BY DEF Absorb, NeighborType
  <2>2. a.req = [l \in LSAs |-> IF l \in p.hdrs \ lsdb THEN n.req[l] + 1 ELSE n.req[l]]
    BY DEF Absorb, NeighborType
  <2>3. Requested(a) \subseteq Requested(n) \cup p.hdrs
    <3> HIDE DEF a
    <3> QED
      BY <2>2 DEF Requested
  <2> QED
    BY <2>1, <2>3, AbsorbType
<1>2. seq \in Seqs /\ alloc_id \in Nat /\ rest \in Seq(LSAs)
  BY IncType, ChunkSplit DEF NeighborType, TypeOK
<1>3. /\ n.state = "EXCHANGE" /\ ~IsDup(p) /\ ~p.I /\ ~p.MS
      /\ p.seq = n.dd_seq_num /\ ~n.is_master
  BY DEF DDAnsweredByMaster, FlagsMismatch, Expected, DDs
<1> HIDE DEF a
<1>4. /\ b \in NeighborType /\ b.state = a.state /\ b.adjacent = a.adjacent
      /\ b.is_master = a.is_master /\ b.last_dd_seq_num = a.last_dd_seq_num
      /\ b.summary = a.summary /\ b.described = a.described
      /\ b.negotiations = a.negotiations
      /\ b.req = a.req /\ b.dd_seq_num = seq
  BY <1>1, <1>2 DEF NeighborType
<1> HIDE DEF b
<1>5. CASE n.summary = << >> /\ ~p.M
  <2>1. /\ FinishExchange(b) /\ rxmt' = Acked(n) /\ out' = << >>
        /\ alloc_id' = alloc_id
    BY <1>5 DEF DDAnsweredByMaster, a, b
  <2>2. nbr' = EventExchangeDone(b) /\ lsdb' \in {lsdb, Originate(lsdb)}
    BY <2>1 DEF FinishExchange
  <2>3. /\ nbr'.state \in {"LOADING", "FULL"} /\ nbr'.adjacent = b.adjacent
        /\ nbr'.is_master = b.is_master
        /\ nbr'.last_dd_seq_num = b.last_dd_seq_num
        /\ nbr'.summary = b.summary /\ nbr'.described = b.described
        /\ nbr'.negotiations = b.negotiations
        /\ nbr'.req = b.req /\ nbr'.dd_seq_num = b.dd_seq_num
        /\ nbr'.state = "FULL" => Requested(b) = {}
    BY <1>1, <1>3, <1>4, <2>2 DEF EventExchangeDone, NeighborType
  <2>4. AnswerLast(n, p)
    BY <1>1, <1>4, <1>5, <2>1, <2>2, <2>3 DEF AnswerLast, Requested
  <2>5. AnswerCourse(n, p)
    BY <1>1, <1>3, <1>4, <2>3 DEF AnswerCourse, Requested
  <2> QED
    BY <2>4, <2>5
<1>6. CASE ~(n.summary = << >> /\ ~p.M)
  <2>1. /\ nbr' = m /\ rxmt' = Acked(n) \cup {e} /\ alloc_id' = alloc_id + 1
        /\ out' = <<next>> /\ lsdb' = lsdb
    BY <1>6 DEF DDAnsweredByMaster, a, b
  <2>2. /\ m.state = b.state /\ m.adjacent = b.adjacent
        /\ m.is_master = b.is_master /\ m.last_dd_seq_num = b.last_dd_seq_num
        /\ m.summary = rest /\ m.described = b.described
        /\ m.negotiations = b.negotiations
        /\ m.req = b.req /\ m.dd_seq_num = seq /\ m.rxmt_map[seq] = alloc_id
    BY <1>2, <1>4 DEF NeighborType
  <2>3. e.id = alloc_id /\ e.pkt = next
    OBVIOUS
  <2> HIDE DEF m, e
  <2>4. AnswerNext(n, p)
    <3>1. n.summary # << >> \/ p.M
      BY <1>6 DEF DDs
    <3>2. nbr'.state = "EXCHANGE" /\ nbr'.summary = rest
      BY <1>1, <1>3, <1>4, <2>1, <2>2
    <3>3. /\ e.id = nbr'.rxmt_map[nbr'.dd_seq_num]
          /\ e.pkt = DD(FALSE, nbr'.summary # << >>, TRUE, nbr'.dd_seq_num,
                        Chunk(n.summary), FALSE)
          /\ out' = <<e.pkt>>
      BY <2>1, <2>2, <2>3
    <3> QED
      BY <2>1, <3>1, <3>2, <3>3 DEF AnswerNext
  <2>5. AnswerCourse(n, p)
    BY <1>1, <1>3, <1>4, <2>1, <2>2 DEF AnswerCourse, Requested
  <2> QED
    BY <2>4, <2>5
<1> QED
  BY <1>5, <1>6

-----------------------------------------------------------------------------
(* The master. What holds from the first Hello on: the host is adjacent,   *)
(* and the peer has heard of it before anything is sent. Idle is what      *)
(* keeps a host below 2-Way where it is.                                   *)

Basics ==
  /\ nbr.state # "DOWN" => nbr.adjacent
  /\ nbr.state \in TwoWay \/ toHost # << >> \/ peer.state # "INIT" => peer.heard

Idle == nbr.state \notin TwoWay => receiver # "lsu" /\ ~load_done

\* A step of the host keeps the adjacency; one below 2-Way only Hellos and DDs
\* take further.
LEMMA HostStepFields ==
  ASSUME Typed, AdjTypeOK, HostStep
  PROVE  /\ nbr'.adjacent = nbr.adjacent /\ peer' = peer
         /\ toHost = << >> => toHost' = << >>
         /\ nbr.state \notin TwoWay /\ Idle /\ (toHost = << >> \/ nbr.state = "DOWN")
              => nbr'.state = nbr.state
<1>0. nbr \in NeighborType /\ "EXSTART" \in TwoWay /\ "DOWN" \notin TwoWay
  BY DEF Typed, TypeOK, TwoWay, Adjacent
<1>1. peer' = peer /\ (toHost = << >> => toHost' = << >>)
  BY DEF HostStep, HostReceives, HostInstalls, HostAnnounces, HostRequests,
         HostRepeats, HostInternal, Transmit, wire
<1>2. CASE HostReceives
  <2> DEFINE m == Head(toHost)
  <2>1. m \in Packets /\ toHost # << >>
    BY <1>2, ToHostHead DEF HostReceives
  <2>2. \/ m.type = "DD" /\ RecvDD(m)
        \/ m.type = "LSR" /\ RecvLSR(m.lsas)
        \/ m.type = "LSU" /\ RecvDirectedLSU(Listing(m.lsas))
        \/ RecvFromUnknown
    BY <1>2 DEF HostReceives
  <2> HIDE DEF m
  <2>3. CASE m \in DDs /\ RecvDD(m)
    <3> DEFINE n == Arrived(m)
    <3>1. n \in NeighborType /\ n.adjacent = nbr.adjacent
      BY <2>3, ArrivedCourse DEF Typed
    <3>2. \/ DDIgnored(m, n) \/ DDDuplicate(m, n) \/ DDMismatch(m, n)
          \/ DDLate(m, n) \/ DDAnsweredBySlave(m, n) \/ DDAnsweredByMaster(m, n)
      BY <2>3 DEF RecvDD
    <3>3. nbr.state # "DOWN"
      BY <2>3 DEF RecvDD
    <3> HIDE DEF n
    <3>4. \/ nbr' = n
          \/ nbr'.adjacent = n.adjacent
      BY <2>3, <3>1, <3>2, DDOutcome DEF Typed, Answered
    <3> QED
      BY <1>1, <2>1, <3>1, <3>3, <3>4
  <2>4. CASE RecvLSR(m.lsas)
    BY <1>0, <1>1, <2>1, <2>4 DEF RecvLSR, EventSeqNumberMismatch, NeighborType
  <2>5. CASE RecvDirectedLSU(Listing(m.lsas))
    BY <1>1, <2>1, <2>5 DEF RecvDirectedLSU
  <2>6. CASE RecvFromUnknown
    BY <1>1, <2>6 DEF RecvFromUnknown
  <2> QED
    BY <2>1, <2>2, <2>3, <2>4, <2>5, <2>6, PacketKinds
<1>3. CASE HostInstalls
  <2>1. LSURemove
    BY <1>3 DEF HostInstalls
  <2>2. nbr'.adjacent = nbr.adjacent /\ receiver = "lsu"
    BY <1>0, <2>1 DEF LSURemove, NeighborType
  <2> QED
    BY <1>1, <2>2 DEF Idle
<1>4. CASE HostRequests \/ HostRepeats \/ HostInternal(Exit)
           \/ HostInternal(WaitTimer)
  BY <1>1, <1>4 DEF HostRequests, LSRSend, HostRepeats, Retransmit, HostInternal,
                    Exit, WaitTimer
<1>5. CASE HostInternal(LoadDoneTest) \/ HostInternal(LSRExits)
  BY <1>0, <1>1, <1>5 DEF HostInternal, LoadDoneTest, LSRExits, NeighborType
<1>6. CASE HostInternal(LoadDoneCommit)
  BY <1>0, <1>1, <1>6 DEF HostInternal, LoadDoneCommit, NeighborType, Idle
<1>7. CASE HostAnnounces \/ HostInternal(AnnounceTest)
           \/ HostInternal(AnnounceRead) \/ HostInternal(AnnounceEnds)
  <2>1. Announce
    BY <1>7 DEF HostAnnounces, HostInternal, Announce
  <2> QED
    BY <1>0, <1>1, <2>1, AnnounceCourse DEF SameButAnnouncers
<1> QED
  BY <1>2, <1>3, <1>4, <1>5, <1>6, <1>7 DEF HostStep

\* A Hello of the peer, heard by the host.
LEMMA HelloCourse ==
  ASSUME Typed, AdjTypeOK, HelloToHost
  PROVE  LET n == nbr IN
         /\ nbr'.adjacent /\ nbr'.state # "DOWN"
         /\ nbr'.id = n.id /\ nbr'.req = n.req /\ nbr'.rxmt_map = n.rxmt_map
         /\ nbr'.summary = n.summary /\ nbr'.described = n.described
         /\ nbr'.last_dd_seq_num = n.last_dd_seq_num
         /\ nbr'.dd_sending = n.dd_sending
         /\ n.state \in TwoWay /\ peer.heard =>
              /\ nbr'.state = n.state /\ nbr'.is_master = n.is_master
              /\ nbr'.dd_seq_num = n.dd_seq_num
         /\ n.state \notin TwoWay =>
              /\ nbr'.state \in {"INIT", "EXSTART"}
              /\ nbr'.dd_seq_num \in {n.dd_seq_num, 0}
              /\ nbr'.state = "EXSTART" => peer.heard
         /\ UNCHANGED <<rxmt, alloc_id, load_done, lsdb, lsu, peer, wire>>
         /\ receiver' # "lsu"
<1> DEFINE m == [nbr EXCEPT !.adjacent = TRUE]
           h == EventHelloReceived(m)
<1>0. nbr \in NeighborType /\ peer.heard \in BOOLEAN
  BY DEF Typed, TypeOK, AdjTypeOK, PeerType
<1>1. /\ m \in NeighborType /\ m.adjacent /\ m.id = nbr.id /\ m.req = nbr.req
      /\ m.rxmt_map = nbr.rxmt_map /\ m.summary = nbr.summary
      /\ m.described = nbr.described /\ m.last_dd_seq_num = nbr.last_dd_seq_num
      /\ m.state = nbr.state /\ m.is_master = nbr.is_master
      /\ m.dd_seq_num = nbr.dd_seq_num /\ m.dd_sending = nbr.dd_sending
  BY <1>0 DEF NeighborType
<1>2. /\ nbr' = IF peer.heard THEN Event2WayReceived(h) ELSE Event1WayReceived(h)
      /\ receiver' = LoopTop
      /\ UNCHANGED <<rxmt, alloc_id, load_done, lsdb, lsu, peer, wire>>
  BY DEF HelloToHost, RecvHello
<1> HIDE DEF m
<1>3. /\ h \in NeighborType /\ h.adjacent /\ h.id = m.id /\ h.req = m.req
      /\ h.rxmt_map = m.rxmt_map /\ h.summary = m.summary
      /\ h.described = m.described /\ h.last_dd_seq_num = m.last_dd_seq_num
      /\ h.is_master = m.is_master /\ h.dd_seq_num = m.dd_seq_num
      /\ h.dd_sending = m.dd_sending
      /\ h.state = IF m.state = "DOWN" THEN "INIT" ELSE m.state
  BY <1>1, HelloType DEF EventHelloReceived, NeighborType
<1> HIDE DEF h
<1>4. CASE peer.heard
  <2> DEFINE r == Event2WayReceived(h)
  <2>1. nbr' = r
    BY <1>2, <1>4
  <2>2. /\ r.adjacent /\ r.id = h.id /\ r.req = h.req
        /\ r.rxmt_map = h.rxmt_map /\ r.summary = h.summary
        /\ r.described = h.described /\ r.last_dd_seq_num = h.last_dd_seq_num
        /\ r.dd_sending = h.dd_sending
        /\ h.state = "INIT" => r.state = "EXSTART" /\ r.dd_seq_num = 0
        /\ h.state # "INIT" => r = h
    BY <1>3 DEF Event2WayReceived, NeighborType
  <2> HIDE DEF r
  <2> QED
    BY <1>0, <1>1, <1>2, <1>3, <1>4, <2>1, <2>2
       DEF LoopTop, TwoWay, Adjacent, NeighborType, States
<1>5. CASE ~peer.heard
  <2> DEFINE r == Event1WayReceived(h)
  <2>1. nbr' = r
    BY <1>2, <1>5
  <2>2. /\ r.adjacent /\ r.id = h.id /\ r.req = h.req
        /\ r.rxmt_map = h.rxmt_map /\ r.summary = h.summary
        /\ r.described = h.described /\ r.last_dd_seq_num = h.last_dd_seq_num
        /\ r.dd_seq_num = h.dd_seq_num /\ r.dd_sending = h.dd_sending
        /\ r.state = IF h.state \in TwoWay THEN "INIT" ELSE h.state
    BY <1>3 DEF Event1WayReceived, NeighborType
  <2> HIDE DEF r
  <2> QED
    BY <1>0, <1>1, <1>2, <1>3, <1>5, <2>1, <2>2
       DEF LoopTop, TwoWay, Adjacent, NeighborType, States
<1> QED
  BY <1>4, <1>5

\* What holds of a master from the first Hello on is kept by every step.
LEMMA NextBasics ==
  ASSUME Typed, AdjTypeOK, Basics, Idle, [AdjNext]_avars
  PROVE  Basics'
<1>0. "DOWN" \notin TwoWay /\ "INIT" \notin TwoWay /\ peer \in PeerType
  BY DEF TwoWay, Adjacent, AdjTypeOK
<1>2. CASE HostStep
  <2>1. /\ nbr'.adjacent = nbr.adjacent /\ peer' = peer
        /\ toHost = << >> => toHost' = << >>
        /\ nbr.state \notin TwoWay /\ (toHost = << >> \/ nbr.state = "DOWN")
             => nbr'.state = nbr.state
    BY <1>2, HostStepFields
  <2>2. nbr'.state # "DOWN" => nbr'.adjacent
    BY <1>0, <2>1 DEF Basics
  <2>3. nbr'.state \in TwoWay \/ toHost' # << >> \/ peer'.state # "INIT"
          => peer'.heard
    BY <2>1 DEF Basics
  <2> QED
    BY <2>2, <2>3 DEF Basics
<1>3. CASE HelloToHost
  <2>1. /\ nbr'.adjacent
        /\ UNCHANGED <<peer, toHost>>
        /\ nbr.state \notin TwoWay /\ nbr'.state = "EXSTART" => peer.heard
        /\ nbr.state \notin TwoWay => nbr'.state \in {"INIT", "EXSTART"}
    BY <1>3, HelloCourse DEF wire
  <2> QED
    BY <1>0, <2>1 DEF Basics
<1>4. CASE HelloToPeer
  <2>1. peer'.heard /\ UNCHANGED nbr
    BY <1>0, <1>4 DEF HelloToPeer, PeerType, vars
  <2> QED
    BY <2>1 DEF Basics
<1>5. CASE Lose
  <2>1. UNCHANGED <<nbr, peer>> /\ (toHost = << >> => toHost' = << >>)
    BY <1>5 DEF Lose, vars
  <2> QED
    BY <2>1 DEF Basics
<1>6. CASE PeerStep
  <2>1. UNCHANGED nbr
    BY <1>6 DEF PeerStep, PeerReceives, PeerAnnounces, PeerRequests, vars
  <2>2. peer'.heard = peer.heard
    BY <1>0, <1>6 DEF PeerStep, PeerReceives, PeerAnnounces, PeerRequests,
                      PeerNegotiates, PeerExchanges, PeerAnswers, PeerRestarts,
                      PeerAnswersLSR, PeerInstalls, PeerDiscards, PeerType
  <2>3. CASE peer.state = "INIT"
    <3>1. toHost' = toHost /\ peer'.state = "INIT"
      BY <1>0, <1>6, <2>3
         DEF PeerStep, PeerReceives, PeerAnnounces, PeerRequests,
             PeerNegotiates, PeerExchanges, PeerAnswersLSR, PeerInstalls,
             PeerDiscards, PeerType
    <3> QED
      BY <2>1, <2>2, <3>1 DEF Basics
  <2>4. CASE peer.state # "INIT"
    BY <2>1, <2>2, <2>4 DEF Basics
  <2> QED
    BY <2>3, <2>4
<1>7. CASE UNCHANGED avars
  BY <1>7 DEF avars, vars, wire, Basics
<1> QED
  BY <1>2, <1>3, <1>4, <1>5, <1>6, <1>7 DEF AdjNext

-----------------------------------------------------------------------------
(* The exchange of a master, from its first numbered DD on. Old is the     *)
(* number of the DD the host absorbed last, dd_seq_num that of the DD in   *)
(* flight. The slave has answered the one or the other: its last reply is  *)
(* absorbed, or it is pending.                                             *)

\* DDs with the number s, requests for what the receiver has, and updates with
\* what the sender has.
Numbered(s) == {d \in DDs : d.seq = s}

Sound(sender, receives) ==
  {m \in LSPackets : \/ m.type = "LSR" /\ m.lsas \subseteq receives
                     \/ m.type = "LSU" /\ m.lsas \subseteq sender}

Awaited == {e.pkt : e \in rxmt}

Pending == peer.seq # nbr.last_dd_seq_num

\* The peer's last DD is the reply of a slave: more, if anything is unsent.
Replied ==
  /\ peer.last \in DDs /\ ~peer.last.I /\ ~peer.last.MS
  /\ peer.last.seq = peer.seq
  /\ peer.last.M <=> peer.unsent # {}
  /\ peer.last.hdrs \subseteq peer.db /\ peer.unsent \subseteq peer.db

\* The DD in flight is the only one the retransmitter has.
Asks ==
  \E e \in rxmt :
    /\ rxmt = {e} /\ e.id = nbr.rxmt_map[nbr.dd_seq_num]
    /\ e.pkt = DD(FALSE, nbr.summary # << >>, TRUE, nbr.dd_seq_num, e.pkt.hdrs,
                  FALSE)
    /\ e.pkt.hdrs \subseteq lsdb

MasterCourse ==
  /\ nbr.state \in Adjacent /\ ~nbr.is_master
  /\ nbr.dd_seq_num = Inc(nbr.last_dd_seq_num)
  /\ nbr.state = "EXCHANGE" => Asks
  /\ nbr.state # "EXCHANGE" => rxmt = {} /\ nbr.summary = << >>
  /\ nbr.state = "FULL" => Requested(nbr) = {}
  /\ load_done => nbr.state = "LOADING" /\ Requested(nbr) = {}

PeerCourse ==
  /\ peer.state \in {"EXCHANGE", "LOADING", "FULL"} /\ Replied
  /\ peer.seq \in {nbr.last_dd_seq_num, nbr.dd_seq_num}
  /\ Pending => nbr.state = "EXCHANGE"
  /\ nbr.state = "EXCHANGE" =>
       (peer.state = "EXCHANGE" <=>
          ~Pending \/ nbr.summary # << >> \/ peer.last.M)
  /\ nbr.state # "EXCHANGE" =>
       peer.unsent = {} /\ (summarized # {} => peer.state # "EXCHANGE")
  /\ peer.state = "FULL" => peer.req = {}

\* Whatever the peer has, or the host had when it wrote its summary list, and
\* the other has not, is on its way: it is to be described, it is described in
\* a DD not absorbed yet, or it is requested.
Stored ==
  /\ receiver = "lsu" => Range(lsu) \subseteq peer.db
  /\ Requested(nbr) \subseteq nbr.described /\ nbr.described \subseteq peer.db
  /\ Range(nbr.summary) \subseteq lsdb /\ peer.req \subseteq lsdb
  /\ peer.db \subseteq peer.unsent \cup nbr.described \cup lsdb
                       \cup (IF Pending THEN peer.last.hdrs ELSE {})
  /\ summarized \subseteq Range(nbr.summary) \cup peer.db \cup peer.req
                    \cup (IF Pending THEN {} ELSE UNION {d.hdrs : d \in Awaited})

\* No DD is behind one with a later number, so none is older than the two.
Wire ==
  /\ Range(toPeer) \subseteq Numbered(nbr.last_dd_seq_num) \cup Awaited
                             \cup Sound(lsdb, peer.db)
  /\ Pending => Range(toPeer) \cap Numbered(nbr.last_dd_seq_num) = {}
  /\ Range(toHost) \subseteq Numbered(nbr.last_dd_seq_num) \cup {peer.last}
                             \cup Sound(peer.db, lsdb)
  /\ NoneAfter(toPeer, Numbered(nbr.last_dd_seq_num), Numbered(nbr.dd_seq_num))
  /\ NoneAfter(toHost, Numbered(nbr.last_dd_seq_num), Numbered(nbr.dd_seq_num))

Active == MasterCourse /\ PeerCourse /\ Stored /\ Wire

\* What one of the two routers stores, the other may send or ask for.
LEMMA SoundGrows ==
  ASSUME NEW s, NEW r, NEW s2, NEW r2, s \subseteq s2, r \subseteq r2
  PROVE  Sound(s, r) \subseteq Sound(s2, r2)
BY DEF Sound

\* The packets of the phase after the exchange are none of the exchange.
LEMMA SoundIsNoDD ==
  ASSUME NEW s, NEW r, NEW n
  PROVE  /\ Sound(s, r) \cap Numbered(n) = {} /\ Sound(s, r) \subseteq Packets
         /\ \A m \in Sound(s, r) : m # NoBody /\ m.type # "LSAck" /\ m \notin DDs
<1>1. ASSUME NEW m \in Sound(s, r)
      PROVE  m \in LSPackets /\ m.type \in {"LSR", "LSU"}
  BY DEF Sound
<1>2. /\ \A d \in DDs : d.type = "DD"
      /\ NoBody.type = "no body"
  BY DEF DDs, NoBody
<1> QED
  BY <1>1, <1>2 DEF Numbered, Packets

\* The DD in flight has the number dd_seq_num, which is not the one before.
LEMMA AwaitedNumber ==
  ASSUME MaxSeq >= 1, Typed, MasterCourse
  PROVE  /\ nbr.last_dd_seq_num \in Seqs /\ nbr.dd_seq_num \in Seqs
         /\ nbr.dd_seq_num # nbr.last_dd_seq_num
         /\ Awaited \subseteq Numbered(nbr.dd_seq_num)
         /\ Awaited \cap Numbered(nbr.last_dd_seq_num) = {}
         /\ Awaited \subseteq DDs
<1>1. /\ nbr.last_dd_seq_num \in Seqs /\ nbr.dd_seq_num \in Seqs
      /\ \A e \in rxmt : e.pkt \in DDs
  BY DEF Typed, TypeOK, NeighborType
<1>2. nbr.dd_seq_num # nbr.last_dd_seq_num
  BY <1>1, IncDiffers DEF MasterCourse
<1>3. \A e \in rxmt : e.pkt.seq = nbr.dd_seq_num
  <2>1. CASE nbr.state = "EXCHANGE"
    <3>1. PICK e \in rxmt :
            /\ rxmt = {e}
            /\ e.pkt = DD(FALSE, nbr.summary # << >>, TRUE, nbr.dd_seq_num,
                          e.pkt.hdrs, FALSE)
      BY <2>1 DEF MasterCourse, Asks
    <3>2. \A more, hdrs :
            DD(FALSE, more, TRUE, nbr.dd_seq_num, hdrs, FALSE).seq = nbr.dd_seq_num
      BY DEF DD
    <3>3. e.pkt.seq = nbr.dd_seq_num
      BY <3>1, <3>2
    <3> QED
      BY <3>1, <3>3
  <2>2. CASE nbr.state # "EXCHANGE"
    BY <2>2 DEF MasterCourse
  <2> QED
    BY <2>1, <2>2
<1> QED
  BY <1>1, <1>2, <1>3 DEF Awaited, Numbered

\* The fields of the neighbour that only an answer writes.
SameAnswer(m, n) ==
  /\ m.is_master = n.is_master /\ m.dd_seq_num = n.dd_seq_num
  /\ m.last_dd_seq_num = n.last_dd_seq_num /\ m.rxmt_map = n.rxmt_map
  /\ m.summary = n.summary /\ m.described = n.described

\* What a step of the host other than an answer may do: install LSAs of the
\* peer, forget requests, end LOADING, receive, and send what it may send.
LEMMA HostFrame ==
  ASSUME MaxSeq >= 1, Typed, AdjTypeOK, Active,
         UNCHANGED <<peer, rxmt, summarized>>, SameAnswer(nbr', nbr),
         nbr'.state = nbr.state \/ (nbr.state = "LOADING" /\ nbr'.state = "FULL"),
         Requested(nbr') \subseteq Requested(nbr),
         nbr'.state = "FULL" => Requested(nbr') = {},
         lsdb \subseteq lsdb',
         load_done' => nbr'.state = "LOADING" /\ Requested(nbr') = {},
         receiver' = "lsu" => Range(lsu') \subseteq peer.db,
         toHost' = toHost \/ (toHost # << >> /\ toHost' = Tail(toHost)),
         \/ toPeer' = toPeer
         \/ \E x \in Awaited \cup Sound(lsdb, peer.db) : toPeer' = Append(toPeer, x)
  PROVE  Active'
<1> DEFINE Old == Numbered(nbr.last_dd_seq_num)
           New == Numbered(nbr.dd_seq_num)
<1>1. Awaited' = Awaited
  BY DEF Awaited
<1>2. Pending' <=> Pending
  BY DEF Pending, SameAnswer
<1>3. MasterCourse'
  <2>1. Asks => Asks'
    BY DEF Asks, SameAnswer
  <2> QED
    BY <2>1 DEF Active, MasterCourse, SameAnswer, Adjacent
<1>4. PeerCourse'
  <2>1. Replied'
    BY DEF Replied, Active, PeerCourse
  <2>2. nbr'.state = "EXCHANGE" <=> nbr.state = "EXCHANGE"
    OBVIOUS
  <2> QED
    BY <1>2, <2>1, <2>2 DEF PeerCourse, Active, SameAnswer
<1>5. Stored'
  <2>1. Range(nbr'.summary) = Range(nbr.summary)
    BY DEF SameAnswer
  <2>2. UNION {d.hdrs : d \in Awaited'} = UNION {d.hdrs : d \in Awaited}
    BY <1>1
  <2> QED
    BY <1>2, <2>1, <2>2 DEF Stored, Active, SameAnswer
<1>6. /\ Range(toHost') \subseteq Range(toHost)
      /\ NoneAfter(toHost', Old, New)
  <2>1. toHost \in Seq(Packets) /\ NoneAfter(toHost, Old, New)
    BY DEF Active, Wire, AdjTypeOK
  <2>2. CASE toHost' = toHost
    BY <2>1, <2>2
  <2>3. CASE toHost # << >> /\ toHost' = Tail(toHost)
    <3>1. Range(Tail(toHost)) \subseteq Range(toHost)
      BY <2>1, <2>3, ChannelTail
    <3>2. NoneAfter(Tail(toHost), Old, New)
      BY <2>1, <2>3, OrderTail
    <3> QED
      BY <2>3, <3>1, <3>2
  <2> QED
    BY <2>2, <2>3
<1>7. /\ Range(toPeer') \subseteq Range(toPeer) \cup Awaited \cup Sound(lsdb, peer.db)
      /\ NoneAfter(toPeer', Old, New)
  <2>1. CASE toPeer' = toPeer
    BY <2>1 DEF Active, Wire
  <2>2. ASSUME NEW x \in Awaited \cup Sound(lsdb, peer.db),
               toPeer' = Append(toPeer, x)
        PROVE  /\ Range(toPeer') \subseteq Range(toPeer) \cup {x}
               /\ NoneAfter(toPeer', Old, New)
    <3>1. x \notin Old /\ x \in Packets
      BY AwaitedNumber, SoundIsNoDD DEF Active, Packets
    <3>2. toPeer \in Seq(Packets) /\ NoneAfter(toPeer, Old, New)
      BY DEF Active, Wire, AdjTypeOK
    <3>3. NoneAfter(Append(toPeer, x), Old, New)
      BY <3>1, <3>2, OrderAppend
    <3>4. Range(Append(toPeer, x)) = Range(toPeer) \cup {x}
      BY <3>1, <3>2, ChannelAppend
    <3> QED
      BY <2>2, <3>3, <3>4
  <2> QED
    BY <2>1, <2>2
<1>8. Wire'
  <2>1. /\ Sound(lsdb, peer.db) \subseteq Sound(lsdb', peer'.db)
        /\ Sound(peer.db, lsdb) \subseteq Sound(peer'.db, lsdb')
    BY SoundGrows
  <2>2. /\ Numbered(nbr'.last_dd_seq_num) = Old /\ Numbered(nbr'.dd_seq_num) = New
    BY DEF SameAnswer
  <2>3. Awaited \cap Old = {} /\ Sound(lsdb, peer.db) \cap Old = {}
    BY AwaitedNumber, SoundIsNoDD DEF Active
  <2> HIDE DEF Old, New
  <2>4. /\ Range(toPeer) \subseteq Old \cup Awaited \cup Sound(lsdb, peer.db)
        /\ Pending => Range(toPeer) \cap Old = {}
        /\ Range(toHost) \subseteq Old \cup {peer.last} \cup Sound(peer.db, lsdb)
    BY DEF Active, Wire, Old
  <2>5. /\ Range(toPeer') \subseteq Old \cup Awaited' \cup Sound(lsdb', peer'.db)
        /\ Pending' => Range(toPeer') \cap Old = {}
    BY <1>1, <1>2, <1>7, <2>1, <2>3, <2>4
  <2>6. Range(toHost') \subseteq Old \cup {peer'.last} \cup Sound(peer'.db, lsdb')
    BY <1>6, <2>1, <2>4
  <2> QED
    BY <1>6, <1>7, <2>2, <2>5, <2>6 DEF Wire
<1> QED
  BY <1>3, <1>4, <1>5, <1>8 DEF Active

\* A DD that the host absorbs is the pending reply of its peer. Its answer
\* makes the number in flight the one absorbed last, and what the reply
\* describes is stored or requested from then on.
LEMMA ActiveAbsorbs ==
  ASSUME MaxSeq >= 1, Typed, AdjTypeOK, Active,
         NEW p \in DDs, toHost # << >>, p = Head(toHost),
         toHost' = Tail(toHost), Transmit, summarized' = summarized,
         NEW n \in NeighborType, SameRound(n, nbr), n.last_dd_seq_num = p.seq,
         DDAnsweredByMaster(p, n), p.seq # nbr.last_dd_seq_num,
         load_done' = load_done, receiver' # "lsu"
  PROVE  Active'
<1> DEFINE s0 == nbr.last_dd_seq_num
           s1 == nbr.dd_seq_num
           s2 == Inc(s1)
<1>1. /\ s0 \in Seqs /\ s1 \in Seqs /\ s1 # s0
      /\ Awaited \subseteq Numbered(s1) /\ Awaited \cap Numbered(s0) = {}
      /\ Awaited \subseteq DDs
  BY AwaitedNumber DEF Active
<1>2. s2 \in Seqs /\ s2 # s1
  BY <1>1, IncDiffers
<1>3. p = peer.last /\ peer.seq = p.seq /\ Pending /\ peer.seq = s1
  <2>1. p \in Range(toHost)
    BY ChannelTail DEF AdjTypeOK
  <2>2. p \in Numbered(s0) \cup {peer.last} \cup Sound(peer.db, lsdb)
    BY <2>1 DEF Active, Wire
  <2>3. p \notin Sound(peer.db, lsdb) /\ p \notin Numbered(s0)
    BY SoundIsNoDD DEF Numbered
  <2>4. p = peer.last
    BY <2>2, <2>3
  <2> QED
    BY <2>4 DEF Active, PeerCourse, Replied, Pending
<1>4. nbr.state = "EXCHANGE" /\ ~load_done
  BY <1>3 DEF Active, PeerCourse, MasterCourse
<1>5. /\ n.rxmt_map = nbr.rxmt_map /\ n.dd_seq_num = s1 /\ n.req = nbr.req
      /\ n.summary = nbr.summary /\ n.described = nbr.described
  BY DEF SameRound, SameCourse
<1>6. Acked(n) = {}
  <2>1. PICK e \in rxmt : rxmt = {e} /\ e.id = nbr.rxmt_map[s1]
    BY <1>4 DEF Active, MasterCourse, Asks
  <2> QED
    BY <1>5, <2>1 DEF Acked
<1>7. AnswerCourse(n, p) /\ (AnswerNext(n, p) \/ AnswerLast(n, p))
  BY MasterAnswers DEF Typed
<1>8. /\ nbr'.dd_seq_num = s2 /\ nbr'.last_dd_seq_num = s1 /\ ~nbr'.is_master
      /\ nbr'.described = nbr.described \cup p.hdrs
      /\ Requested(nbr') \subseteq Requested(nbr) \cup p.hdrs
      /\ ~Pending' /\ peer' = peer
  <2>1. Requested(n) = Requested(nbr)
    BY <1>5 DEF Requested
  <2>2. peer' = peer
    BY DEF Transmit
  <2> QED
    BY <1>3, <1>5, <1>7, <2>1, <2>2 DEF AnswerCourse, Pending
<1>9. lsdb \subseteq lsdb'
  BY <1>7 DEF AnswerNext, AnswerLast, Originate
<1>10. /\ Sound(lsdb, peer.db) \subseteq Sound(lsdb', peer.db)
       /\ Sound(peer.db, lsdb) \subseteq Sound(peer.db, lsdb')
  BY <1>9, SoundGrows
<1>11. PeerCourse /\ Replied /\ p.M \in BOOLEAN
  BY DEF Active, PeerCourse, DDs
<1>12. /\ p.hdrs \subseteq peer.db
       /\ peer.db \subseteq peer.unsent \cup nbr.described \cup lsdb \cup p.hdrs
       /\ summarized \subseteq Range(nbr.summary) \cup peer.db \cup peer.req
       /\ Requested(nbr) \subseteq nbr.described /\ nbr.described \subseteq peer.db
       /\ Range(nbr.summary) \subseteq lsdb /\ peer.req \subseteq lsdb
  BY <1>3, <1>11 DEF Active, Stored, Replied
\* what the two channels hold of DDs has the number just absorbed
<1>13. /\ Range(toHost') \subseteq {peer.last} \cup Sound(peer.db, lsdb)
       /\ Range(toPeer) \subseteq Awaited \cup Sound(lsdb, peer.db)
       /\ peer.last \in Numbered(s1)
       /\ toHost' \in Seq(Packets)
  <2>1. p \in Numbered(s1) /\ toHost \in Seq(Packets)
    BY <1>3 DEF Numbered, AdjTypeOK
  <2>2. Range(Tail(toHost)) \cap Numbered(s0) = {}
    BY <2>1, OrderTail DEF Active, Wire
  <2>3. Range(Tail(toHost)) \subseteq Range(toHost) /\ Tail(toHost) \in Seq(Packets)
    BY <2>1, ChannelTail
  <2> QED
    BY <1>3, <2>1, <2>2, <2>3 DEF Active, Wire
<1>14. /\ Range(toHost') \cap Numbered(s2) = {}
       /\ Range(toPeer) \cap Numbered(s2) = {}
  <2>1. Numbered(s1) \cap Numbered(s2) = {}
    BY <1>2 DEF Numbered
  <2> QED
    BY <1>1, <1>13, <2>1, SoundIsNoDD
<1> HIDE DEF s0, s1, s2
<1>15. CASE AnswerNext(n, p)
  <2>1. PICK e : /\ rxmt' = {e} /\ e.id = nbr'.rxmt_map[nbr'.dd_seq_num]
                 /\ e.pkt = DD(FALSE, nbr'.summary # << >>, TRUE, nbr'.dd_seq_num,
                               Chunk(nbr.summary), FALSE)
                 /\ out' = <<e.pkt>>
    BY <1>5, <1>6, <1>15 DEF AnswerNext
  <2>2. /\ nbr'.state = "EXCHANGE" /\ nbr'.summary = Remainder(nbr.summary)
        /\ nbr.summary # << >> \/ p.M
    BY <1>5, <1>15 DEF AnswerNext
  <2>3. /\ nbr.summary \in Seq(LSAs)
        /\ Chunk(nbr.summary) \subseteq Range(nbr.summary)
        /\ Range(nbr.summary) = Chunk(nbr.summary) \cup Range(nbr'.summary)
    <3>1. nbr.summary \in Seq(LSAs)
      BY DEF Typed, TypeOK, NeighborType
    <3> QED
      BY <2>2, <3>1, ChunkSplit
  <2>4. /\ e.pkt.hdrs = Chunk(nbr.summary) /\ e.pkt.seq = s2
        /\ e.pkt.type = "DD"
    BY <1>8, <2>1 DEF DD
  <2>5. e.pkt \in DDs
    <3>1. Chunk(nbr.summary) \subseteq LSAs
      BY <2>3, RangeOfSeq
    <3> QED
      BY <1>2, <1>8, <2>1, <3>1 DEF DD, DDs
  <2>6. Asks'
    <3>1. e.pkt.hdrs \subseteq lsdb'
      BY <1>9, <1>12, <2>3, <2>4
    <3>2. e.pkt = DD(FALSE, nbr'.summary # << >>, TRUE, nbr'.dd_seq_num,
                     e.pkt.hdrs, FALSE)
      BY <2>1, <2>4
    <3> QED
      BY <2>1, <3>1, <3>2 DEF Asks
  <2>7. MasterCourse'
    BY <1>4, <1>8, <2>2, <2>6 DEF MasterCourse, Adjacent, s2
  <2>8. PeerCourse'
    <3>1. peer.state = "EXCHANGE"
      BY <1>3, <1>4, <1>5, <1>11, <2>2 DEF PeerCourse
    <3> QED
      BY <1>3, <1>8, <1>11, <2>2, <3>1 DEF PeerCourse, Replied
  <2>9. Awaited' = {e.pkt}
    BY <2>1 DEF Awaited
  <2>10. UNION {d.hdrs : d \in Awaited'} = Chunk(nbr.summary)
    BY <2>4, <2>9
  <2>11. Stored'
    BY <1>8, <1>9, <1>12, <2>3, <2>10 DEF Stored
  <2>12. toPeer' = Append(toPeer, e.pkt) /\ e.pkt \in Packets
    BY <2>1, <2>4, <2>5, TransmitOne, PacketKinds DEF AdjTypeOK, Packets
  <2>13. /\ Range(toPeer') = Range(toPeer) \cup {e.pkt}
         /\ NoneAfter(toPeer', Numbered(s1), Numbered(s2))
    <3>1. toPeer \in Seq(Packets) /\ NoneAfter(toPeer, Numbered(s1), Numbered(s2))
      BY <1>14, OrderTrivial DEF AdjTypeOK
    <3> QED
      BY <1>14, <2>12, <3>1, ChannelAppend, OrderAppend
  <2>14. NoneAfter(toHost', Numbered(s1), Numbered(s2))
    BY <1>13, <1>14, OrderTrivial
  <2>15. Wire'
    <3>1. /\ Range(toPeer') \subseteq Numbered(s1) \cup Awaited' \cup Sound(lsdb, peer.db)
          /\ Range(toHost') \subseteq Numbered(s1) \cup {peer.last} \cup Sound(peer.db, lsdb)
      BY <1>1, <1>13, <2>9, <2>13 DEF s1
    <3> QED
      BY <1>8, <1>10, <2>13, <2>14, <3>1 DEF Wire
  <2> QED
    BY <2>7, <2>8, <2>11, <2>15 DEF Active
<1>16. CASE AnswerLast(n, p)
  <2>1. /\ nbr.summary = << >> /\ ~p.M
        /\ nbr'.state \in {"LOADING", "FULL"} /\ nbr'.summary = << >>
        /\ nbr'.state = "FULL" => Requested(nbr') = {}
        /\ rxmt' = {} /\ out' = << >>
    BY <1>5, <1>6, <1>16 DEF AnswerLast
  <2>2. MasterCourse'
    BY <1>4, <1>8, <2>1 DEF MasterCourse, Adjacent, s2
  <2>3. PeerCourse'
    <3>1. peer.unsent = {} /\ peer.state # "EXCHANGE"
      BY <1>3, <1>4, <1>11, <2>1 DEF PeerCourse, Replied
    <3> QED
      BY <1>3, <1>8, <1>11, <2>1, <3>1 DEF PeerCourse, Replied
  <2>4. peer.unsent = {}
    BY <1>3, <1>11, <2>1 DEF Replied
  <2>5. Range(nbr.summary) = {} /\ Range(nbr'.summary) = {}
    <3>1. Range(<< >>) = {}
      BY DEF Range
    <3> QED
      BY <2>1, <3>1
  <2>6. Stored'
    BY <1>8, <1>9, <1>12, <2>4, <2>5 DEF Stored
  <2>7. toPeer' = toPeer
    BY <2>1, TransmitOne DEF AdjTypeOK
  <2>8. /\ NoneAfter(toPeer', Numbered(s1), Numbered(s2))
        /\ NoneAfter(toHost', Numbered(s1), Numbered(s2))
    BY <1>13, <1>14, <2>7, OrderTrivial DEF AdjTypeOK
  <2>9. Wire'
    <3>1. /\ Range(toPeer') \subseteq Numbered(s1) \cup Sound(lsdb, peer.db)
          /\ Range(toHost') \subseteq Numbered(s1) \cup {peer.last} \cup Sound(peer.db, lsdb)
      BY <1>1, <1>13, <2>7 DEF s1
    <3> QED
      BY <1>8, <1>10, <2>8, <3>1 DEF Wire
  <2> QED
    BY <2>2, <2>3, <2>6, <2>9 DEF Active
<1> QED
  BY <1>7, <1>15, <1>16

\* A packet that reaches the host in EXCHANGE, LOADING or FULL: a DD is the
\* one absorbed last, and dropped, or the pending reply.
LEMMA ActiveReceives ==
  ASSUME MaxSeq >= 1, Typed, AdjTypeOK, Active, HostReceives
  PROVE  Active'
<1> DEFINE m == Head(toHost)
<1>1. /\ m \in Packets /\ toHost # << >> /\ toHost' = Tail(toHost) /\ Transmit
      /\ m \in Range(toHost) /\ peer' = peer
  BY ToHostHead, ChannelTail DEF HostReceives, AdjTypeOK, Transmit
<1>2. \/ m.type = "DD" /\ RecvDD(m)
      \/ m.type = "LSR" /\ RecvLSR(m.lsas)
      \/ m.type = "LSU" /\ RecvDirectedLSU(Listing(m.lsas))
      \/ RecvFromUnknown
  BY DEF HostReceives
<1>3. m \in Numbered(nbr.last_dd_seq_num) \cup {peer.last} \cup Sound(peer.db, lsdb)
  BY <1>1 DEF Active, Wire
<1> HIDE DEF m
<1>4. nbr \in NeighborType /\ nbr.state \in Adjacent /\ nbr.state # "DOWN"
      /\ ~nbr.is_master
  BY DEF Typed, TypeOK, Active, MasterCourse, Adjacent
<1>10. ASSUME nbr'.negotiations = nbr.negotiations PROVE summarized' = summarized
  BY <1>4, <1>10 DEF HostReceives, NeighborType
<1>5. m \notin DDs => m \in Sound(peer.db, lsdb)
  BY <1>3 DEF Numbered, Active, PeerCourse, Replied
<1>6. CASE m \in DDs /\ RecvDD(m)
  <2> DEFINE n == Arrived(m)
  <2>1. /\ n \in NeighborType /\ SameRound(n, nbr) /\ n.last_dd_seq_num = m.seq
    BY <1>4, <1>6, ArrivedCourse DEF Typed
  <2>2. \/ DDIgnored(m, n) \/ DDDuplicate(m, n) \/ DDMismatch(m, n)
        \/ DDLate(m, n) \/ DDAnsweredBySlave(m, n) \/ DDAnsweredByMaster(m, n)
    BY <1>6 DEF RecvDD
  <2>3. n.state = nbr.state /\ ~n.is_master /\ n.dd_seq_num = nbr.dd_seq_num
    BY <1>4, <2>1 DEF SameRound
  <2>4. load_done' = load_done /\ receiver' # "lsu"
    BY <1>6 DEF RecvDD, LoopTop
  <2> HIDE DEF n
  <2>5. CASE m.seq = nbr.last_dd_seq_num
    <3>1. DDDuplicate(m, n)
      BY <1>4, <2>2, <2>3, <2>5
         DEF DDIgnored, DDMismatch, DDLate, DDAnsweredBySlave,
             DDAnsweredByMaster, IsDup, Adjacent
    <3>2. nbr' = n /\ out' = << >> /\ UNCHANGED <<rxmt, alloc_id, lsdb>>
      BY <2>3, <3>1 DEF DDDuplicate
    <3>3. toPeer' = toPeer
      BY <1>1, <3>2, TransmitOne DEF AdjTypeOK
    <3>4. SameAnswer(nbr', nbr) /\ nbr'.state = nbr.state /\ nbr'.req = nbr.req
      BY <2>1, <2>5, <3>2 DEF SameRound, SameCourse, SameAnswer
    <3>5. Requested(nbr') = Requested(nbr)
      BY <3>4 DEF Requested
    <3>6. /\ nbr'.state = "FULL" => Requested(nbr') = {}
          /\ load_done' => nbr'.state = "LOADING" /\ Requested(nbr') = {}
      BY <2>4, <3>4, <3>5 DEF Active, MasterCourse
    <3>8. summarized' = summarized
      BY <1>10, <2>1, <3>2 DEF SameRound
    <3>7. Active'
      BY <1>1, <2>4, <3>2, <3>3, <3>4, <3>5, <3>6, <3>8, HostFrame
    <3> QED
      BY <3>7
  <2>6. CASE m.seq # nbr.last_dd_seq_num
    <3>1. m = peer.last
      BY <1>3, <1>6, <2>6, SoundIsNoDD DEF Numbered
    <3>2. ~m.I /\ ~m.MS /\ m.seq = nbr.dd_seq_num /\ nbr.state = "EXCHANGE"
      BY <2>6, <3>1 DEF Active, PeerCourse, Replied, Pending
    <3>3. DDAnsweredByMaster(m, n)
      <4>1. m.MS = n.is_master
        BY <1>6, <2>1, <2>3, <3>2 DEF DDs, NeighborType
      <4> QED
        BY <1>4, <2>2, <2>3, <2>6, <3>2, <4>1
           DEF DDIgnored, DDDuplicate, DDMismatch, DDLate, DDAnsweredBySlave,
               IsDup, FlagsMismatch, Expected, Adjacent
    <3>4. m = Head(toHost)
      BY DEF m
    <3>5. summarized' = summarized
      <4>1. AnswerCourse(n, m)
        BY <1>6, <2>1, <3>3, MasterAnswers DEF Typed
      <4> QED
        BY <1>10, <2>1, <4>1 DEF AnswerCourse, SameRound
    <3> QED
      BY <1>1, <1>6, <2>1, <2>4, <2>6, <3>3, <3>4, <3>5, ActiveAbsorbs
  <2> QED
    BY <2>5, <2>6
<1>7. CASE m.type = "LSR" /\ RecvLSR(m.lsas)
  <2>1. m \in LSPackets /\ m.lsas \subseteq lsdb
    <3>1. m \in Sound(peer.db, lsdb)
      BY <1>1, <1>5, <1>7, PacketKinds
    <3> QED
      BY <1>7, <3>1 DEF Sound
  <2> DEFINE x == [type |-> "LSU", lsas |-> m.lsas]
  <2>2. x \in Sound(lsdb, peer.db)
    BY <1>1, <2>1, PacketKinds DEF Sound, LSPackets
  <2>3. /\ nbr' = nbr /\ out' = <<x>> /\ receiver' # "lsu"
        /\ UNCHANGED <<rxmt, alloc_id, lsdb, load_done>>
    BY <1>4, <1>7, <2>1 DEF RecvLSR, LoopTop
  <2>4. x # NoBody /\ x.type = "LSU" /\ x \in Packets
    BY <2>2, SoundIsNoDD
  <2> HIDE DEF x
  <2>5. toPeer' = Append(toPeer, x)
    BY <1>1, <2>3, <2>4, TransmitOne DEF AdjTypeOK
  <2>6. /\ SameAnswer(nbr', nbr) /\ nbr'.state = nbr.state
        /\ Requested(nbr') = Requested(nbr)
        /\ nbr'.state = "FULL" => Requested(nbr') = {}
        /\ load_done' => nbr'.state = "LOADING" /\ Requested(nbr') = {}
    BY <2>3 DEF SameAnswer, Active, MasterCourse
  <2>7. Active'
    BY <1>1, <1>10, <2>2, <2>3, <2>5, <2>6, HostFrame
  <2> QED
    BY <2>7
<1>8. CASE m.type = "LSU" /\ RecvDirectedLSU(Listing(m.lsas))
  <2> DEFINE s == Listing(m.lsas)
  <2>1. m.lsas \subseteq peer.db /\ m.lsas \subseteq LSAs
    <3>1. m \in Sound(peer.db, lsdb)
      BY <1>1, <1>5, <1>8, PacketKinds
    <3> QED
      BY <1>1, <1>8, <3>1, PacketKinds DEF Sound
  <2>2. Range(s) = m.lsas /\ s \in Seq(LSAs) /\ s # << >>
    BY <1>8, <2>1, ListingRange DEF RecvDirectedLSU
  <2>3. s[1] \in Range(s)
    <3>1. Range(s) = {s[i] : i \in 1..Len(s)} /\ Len(s) \in Nat \ {0}
      BY <2>2, RangeEquality, EmptySeq
    <3>2. 1 \in 1..Len(s)
      BY <3>1
    <3> QED
      BY <3>1, <3>2
  <2> HIDE DEF s
  <2>4. /\ nbr' = nbr /\ out' = << >> /\ lsu' = s /\ lsdb' = lsdb \cup {s[1]}
        /\ UNCHANGED <<rxmt, alloc_id, load_done>>
    BY <1>8 DEF RecvDirectedLSU, s
  <2>5. toPeer' = toPeer
    BY <1>1, <2>4, TransmitOne DEF AdjTypeOK
  <2>6. /\ SameAnswer(nbr', nbr) /\ nbr'.state = nbr.state
        /\ Requested(nbr') = Requested(nbr)
        /\ nbr'.state = "FULL" => Requested(nbr') = {}
        /\ load_done' => nbr'.state = "LOADING" /\ Requested(nbr') = {}
    BY <2>4 DEF SameAnswer, Active, MasterCourse
  <2>7. Active'
    BY <1>1, <1>10, <2>1, <2>2, <2>3, <2>4, <2>5, <2>6, HostFrame
  <2> QED
    BY <2>7
<1>9. ~RecvFromUnknown
  BY <1>4 DEF RecvFromUnknown
<1> QED
  BY <1>1, <1>2, <1>6, <1>7, <1>8, <1>9, PacketKinds

\* The LSU handler removes requests and installs LSAs of the peer.
LEMMA ActiveInstalls ==
  ASSUME MaxSeq >= 1, Typed, AdjTypeOK, Active, HostInstalls
  PROVE  Active'
<1>0. nbr \in NeighborType /\ Transmit /\ LSURemove
      /\ UNCHANGED <<toHost, summarized>>
  BY DEF Typed, TypeOK, HostInstalls, history
<1>1. /\ receiver = "lsu" /\ lsu \in Seq(LSAs) /\ lsu_i \in 1..Len(lsu)
      /\ Range(lsu) \subseteq peer.db
  BY <1>0 DEF LSURemove, Typed, TypeOK, LSUInRange, Active, Stored
<1>2. PICK r \in ReqListRemove(nbr, lsu[lsu_i]) : nbr' = [nbr EXCEPT !.req = r]
  BY <1>0 DEF LSURemove
<1>3. /\ SameAnswer(nbr', nbr) /\ nbr'.state = nbr.state
  BY <1>0, <1>2 DEF NeighborType, SameAnswer
<1>4. Requested(nbr') \subseteq Requested(nbr)
  <2>1. Fewer(nbr, nbr') /\ nbr' \in NeighborType
    <3>1. lsu[lsu_i] \in LSAs
      BY <1>1, ElementOfSeq
    <3> QED
      BY <1>0, <1>2, <3>1, LSURemoveFewer, ReqListRemoveType
  <2>2. \A l \in LSAs : nbr'.req[l] \in Nat /\ nbr.req[l] \in Nat
    BY <1>0, <2>1 DEF NeighborType
  <2> QED
    BY <2>1, <2>2 DEF Fewer, Requested
<1>5. /\ UNCHANGED <<rxmt, load_done>>
      /\ lsdb \subseteq lsdb'
      /\ receiver' = "lsu" => Range(lsu') \subseteq peer.db
      /\ out' \in {<< >>, Ack(lsu)}
  <2>1. CASE lsu_i = Len(lsu)
    BY <1>0, <1>1, <2>1 DEF LSURemove, LoopTop
  <2>2. CASE lsu_i # Len(lsu)
    <3>1. lsu_i + 1 \in 1..Len(lsu)
      BY <1>1, <2>2, LenProperties
    <3>2. lsu[lsu_i + 1] \in Range(lsu)
      BY <1>1, <3>1, RangeEquality
    <3> QED
      BY <1>0, <1>1, <2>2, <3>2 DEF LSURemove
  <2> QED
    BY <2>1, <2>2
<1>6. toPeer' = toPeer
  <2> DEFINE x == [type |-> "LSAck", lsas |-> {lsu[i] : i \in 1..Len(lsu)}]
  <2>1. x \in Packets /\ x.type = "LSAck"
    <3>1. \A i \in 1..Len(lsu) : lsu[i] \in LSAs
      BY <1>1, ElementOfSeq
    <3> QED
      BY <3>1 DEF Packets, LSPackets
  <2>2. Ack(lsu) = <<x>>
    BY DEF Ack
  <2> HIDE DEF x
  <2> QED
    BY <1>0, <1>5, <2>1, <2>2, TransmitOne DEF AdjTypeOK
<1>7. /\ nbr'.state = "FULL" => Requested(nbr') = {}
      /\ load_done' => nbr'.state = "LOADING" /\ Requested(nbr') = {}
  BY <1>3, <1>4, <1>5 DEF Active, MasterCourse
<1>8. peer' = peer
  BY <1>0 DEF Transmit
<1> QED
  BY <1>0, <1>3, <1>4, <1>5, <1>6, <1>7, <1>8, HostFrame

\* The threads of the host, and the Hellos it hears.
LEMMA ActiveHostStep ==
  ASSUME MaxSeq >= 1, Typed, AdjTypeOK, Basics, Active, ~late',
         HostStep \/ HelloToHost
  PROVE  Active'
<1>0. /\ nbr \in NeighborType /\ nbr.state \in Adjacent
      /\ nbr.state \in TwoWay /\ nbr.state # "EXSTART"
  BY DEF Typed, TypeOK, Active, MasterCourse, TwoWay, Adjacent
<1>1. ~HostAnnounces
  BY <1>0 DEF HostAnnounces
<1>2. ASSUME UNCHANGED <<peer, toHost, rxmt, summarized>>, lsdb \subseteq lsdb',
             UNCHANGED lsu \/ receiver' # "lsu",
             receiver' = "lsu" => receiver = "lsu",
             SameAnswer(nbr', nbr), nbr'.req = nbr.req,
             \/ nbr'.state = nbr.state /\ load_done' = load_done
             \/ nbr'.state = nbr.state /\ Requested(nbr) = {}
                /\ load_done' = (nbr.state = "LOADING")
             \/ load_done /\ nbr'.state = "FULL" /\ load_done' = FALSE,
             \/ toPeer' = toPeer
             \/ \E x \in Awaited \cup Sound(lsdb, peer.db) :
                  toPeer' = Append(toPeer, x)
      PROVE  Active'
  <2>1. Requested(nbr') = Requested(nbr)
    BY <1>2 DEF Requested
  <2>2. /\ nbr'.state = "FULL" => Requested(nbr') = {}
        /\ load_done' => nbr'.state = "LOADING" /\ Requested(nbr') = {}
        /\ nbr'.state = nbr.state \/ (nbr.state = "LOADING" /\ nbr'.state = "FULL")
    <3>1. /\ nbr.state = "FULL" => Requested(nbr) = {}
          /\ load_done => nbr.state = "LOADING" /\ Requested(nbr) = {}
      BY DEF Active, MasterCourse
    <3>2. CASE nbr'.state = nbr.state /\ load_done' = load_done
      BY <2>1, <3>1, <3>2
    <3>3. CASE /\ nbr'.state = nbr.state /\ Requested(nbr) = {}
               /\ load_done' = (nbr.state = "LOADING")
      BY <2>1, <3>3
    <3>4. CASE load_done /\ nbr'.state = "FULL" /\ load_done' = FALSE
      BY <2>1, <3>1, <3>4
    <3> QED
      BY <1>2, <3>2, <3>3, <3>4
  <2>3. receiver' = "lsu" => Range(lsu') \subseteq peer.db
    BY <1>2 DEF Active, Stored
  <2> QED
    BY <1>2, <2>1, <2>2, <2>3, HostFrame
<1>3. CASE HostRequests
  <2> DEFINE x == [type |-> "LSR", lsas |-> Requested(nbr)]
  <2>1. x \in Sound(lsdb, peer.db)
    BY DEF Sound, LSPackets, Active, Stored, Requested
  <2>2. /\ out' = <<x>> /\ Transmit
        /\ UNCHANGED <<nbr, rxmt, lsdb, load_done, receiver, lsu, toHost, peer,
                       summarized>>
    BY <1>3 DEF HostRequests, LSRSend, Transmit, history
  <2>3. x # NoBody /\ x.type = "LSR" /\ x \in Packets
    BY <2>1, SoundIsNoDD
  <2> HIDE DEF x
  <2>4. toPeer' = Append(toPeer, x)
    BY <2>2, <2>3, TransmitOne DEF AdjTypeOK
  <2> QED
    BY <1>2, <2>1, <2>2, <2>4 DEF SameAnswer
<1>4. CASE HostRepeats
  <2>1. PICK e \in rxmt : out' = <<e.pkt>>
    BY <1>4 DEF HostRepeats, Retransmit
  <2>2. /\ Transmit
        /\ UNCHANGED <<nbr, rxmt, lsdb, load_done, receiver, lsu, toHost, peer,
                       summarized>>
    BY <1>4 DEF HostRepeats, Retransmit, Transmit, history
  <2>3. e.pkt \in Awaited /\ e.pkt \in DDs
    BY <2>1 DEF Awaited, Typed, TypeOK
  <2>4. e.pkt \in Packets /\ e.pkt # NoBody /\ e.pkt.type = "DD"
    BY <2>3, PacketKinds DEF Packets
  <2>5. toPeer' = Append(toPeer, e.pkt)
    BY <2>1, <2>2, <2>4, TransmitOne DEF AdjTypeOK
  <2> QED
    BY <1>2, <2>2, <2>3, <2>5 DEF SameAnswer
<1>5. CASE HostInternal(LSRExits) \/ HostInternal(LoadDoneTest)
  <2>1. /\ SameAnswer(nbr', nbr) /\ nbr'.req = nbr.req /\ nbr'.state = nbr.state
    BY <1>0, <1>5 DEF HostInternal, LSRExits, LoadDoneTest, NeighborType,
                      SameAnswer
  <2>2. /\ UNCHANGED <<peer, toHost, toPeer, rxmt, lsdb, receiver, lsu, summarized>>
        /\ \/ load_done' = load_done
           \/ Requested(nbr) = {} /\ load_done' = (nbr.state = "LOADING")
    BY <1>5 DEF HostInternal, LSRExits, LoadDoneTest, wire, history
  <2> QED
    BY <1>2, <2>1, <2>2
<1>6. CASE HostInternal(LoadDoneCommit)
  <2>1. /\ SameAnswer(nbr', nbr) /\ nbr'.req = nbr.req /\ nbr'.state = "FULL"
    BY <1>0, <1>6 DEF HostInternal, LoadDoneCommit, NeighborType, SameAnswer
  <2>2. /\ UNCHANGED <<peer, toHost, toPeer, rxmt, receiver, lsu, summarized>>
        /\ load_done /\ load_done' = FALSE /\ lsdb \subseteq lsdb'
    BY <1>0, <1>6 DEF HostInternal, LoadDoneCommit, wire, history
  <2> QED
    BY <1>2, <2>1, <2>2
<1>7. CASE HostInternal(WaitTimer) \/ HostInternal(Exit)
  <2>1. /\ UNCHANGED <<peer, toHost, toPeer, rxmt, receiver, lsu, nbr, load_done,
                       summarized>>
        /\ lsdb \subseteq lsdb'
    BY <1>0, <1>7 DEF HostInternal, WaitTimer, Exit, wire, history, Originate
  <2> QED
    BY <1>2, <2>1 DEF SameAnswer
<1>8. CASE HelloToHost
  <2>1. peer.heard
    BY <1>0 DEF Basics
  <2>2. /\ SameAnswer(nbr', nbr) /\ nbr'.req = nbr.req /\ nbr'.state = nbr.state
    BY <1>0, <1>8, <2>1, HelloCourse DEF SameAnswer
  <2>3. /\ UNCHANGED <<peer, toHost, toPeer, rxmt, lsdb, load_done, lsu, summarized>>
        /\ receiver' # "lsu"
    BY <1>8, HelloCourse DEF wire, history
  <2> QED
    BY <1>2, <2>2, <2>3
<1>9. CASE HostInternal(AnnounceTest) \/ HostInternal(AnnounceRead)
           \/ HostInternal(AnnounceEnds)
  <2>1. Announce /\ UNCHANGED <<peer, toHost, toPeer, summarized>>
    BY <1>9 DEF HostInternal, Announce, wire, history
  <2>2. /\ UNCHANGED <<load_done, rxmt, lsdb, receiver, lsu>>
        /\ SameButAnnouncers(nbr', nbr)
    BY <1>0, <2>1, AnnounceCourse
  <2>3. SameAnswer(nbr', nbr) /\ nbr'.req = nbr.req /\ nbr'.state = nbr.state
    BY <2>2 DEF SameButAnnouncers, SameAnswer
  <2> QED
    BY <1>2, <2>1, <2>2, <2>3
<1> QED
  BY <1>1, <1>3, <1>4, <1>5, <1>6, <1>7, <1>8, <1>9, ActiveReceives,
     ActiveInstalls DEF HostStep

\* What a step of the peer other than an answer may do: install LSAs of the
\* host, get what it requested, receive, and send what it may send.
LEMMA PeerFrame ==
  ASSUME MaxSeq >= 1, Typed, AdjTypeOK, Active, UNCHANGED <<vars, summarized>>,
         peer'.seq = peer.seq, peer'.last = peer.last, peer'.unsent = peer.unsent,
         peer'.state = peer.state \/ (peer.state = "LOADING" /\ peer'.state = "FULL"),
         peer'.state = "FULL" => peer'.req = {},
         peer'.req \subseteq peer.req, peer.req \subseteq peer'.req \cup peer'.db,
         peer.db \subseteq peer'.db, peer'.db \subseteq peer.db \cup lsdb,
         toPeer' = toPeer \/ (toPeer # << >> /\ toPeer' = Tail(toPeer)),
         \/ toHost' = toHost
         \/ toHost # << >> /\ toHost' = Tail(toHost)
         \/ \E x \in {peer.last} \cup Sound(peer.db, lsdb) :
              toHost' = Append(toHost, x)
  PROVE  Active'
<1> DEFINE Old == Numbered(nbr.last_dd_seq_num)
           New == Numbered(nbr.dd_seq_num)
<1>0. UNCHANGED <<nbr, rxmt, lsdb, load_done, receiver, lsu>>
  BY DEF vars
<1>1. Awaited' = Awaited
  BY <1>0 DEF Awaited
<1>2. Pending' <=> Pending
  BY <1>0 DEF Pending
<1>3. MasterCourse'
  BY <1>0 DEF Active, MasterCourse, Asks
<1>4. PeerCourse'
  <2>1. Replied'
    BY DEF Replied, Active, PeerCourse
  <2> QED
    BY <1>0, <1>2, <2>1 DEF PeerCourse, Active
<1>5. Stored'
  <2>1. UNION {d.hdrs : d \in Awaited'} = UNION {d.hdrs : d \in Awaited}
    BY <1>1
  <2>2. Range(nbr.summary)' = Range(nbr.summary) /\ Range(lsu)' = Range(lsu)
    BY <1>0
  <2> QED
    BY <1>0, <1>2, <2>1, <2>2 DEF Stored, Active
<1>6. /\ Range(toPeer') \subseteq Range(toPeer)
      /\ NoneAfter(toPeer', Old, New)
  <2>1. toPeer \in Seq(Packets) /\ NoneAfter(toPeer, Old, New)
    BY DEF Active, Wire, AdjTypeOK
  <2>2. CASE toPeer' = toPeer
    BY <2>1, <2>2
  <2>3. CASE toPeer # << >> /\ toPeer' = Tail(toPeer)
    <3>1. Range(Tail(toPeer)) \subseteq Range(toPeer)
      BY <2>1, <2>3, ChannelTail
    <3>2. NoneAfter(Tail(toPeer), Old, New)
      BY <2>1, <2>3, OrderTail
    <3> QED
      BY <2>3, <3>1, <3>2
  <2> QED
    BY <2>2, <2>3
<1>7. /\ Range(toHost') \subseteq Old \cup {peer.last} \cup Sound(peer.db, lsdb)
      /\ NoneAfter(toHost', Old, New)
  <2>1. /\ toHost \in Seq(Packets) /\ NoneAfter(toHost, Old, New)
        /\ Range(toHost) \subseteq Old \cup {peer.last} \cup Sound(peer.db, lsdb)
    BY DEF Active, Wire, AdjTypeOK
  <2>2. CASE toHost' = toHost
    BY <2>1, <2>2
  <2>3. CASE toHost # << >> /\ toHost' = Tail(toHost)
    <3>1. Range(Tail(toHost)) \subseteq Range(toHost)
      BY <2>1, <2>3, ChannelTail
    <3>2. NoneAfter(Tail(toHost), Old, New)
      BY <2>1, <2>3, OrderTail
    <3> QED
      BY <2>1, <2>3, <3>1, <3>2
  <2>4. ASSUME NEW x \in {peer.last} \cup Sound(peer.db, lsdb),
               toHost' = Append(toHost, x)
        PROVE  /\ Range(toHost') = Range(toHost) \cup {x}
               /\ NoneAfter(toHost', Old, New)
    <3>1. x \in Packets
      BY SoundIsNoDD DEF Active, PeerCourse, Replied, Packets
    <3>2. x \notin Old \/ Range(toHost) \cap New = {}
      <4>1. CASE x # peer.last \/ Pending
        BY <4>1, SoundIsNoDD DEF Active, PeerCourse, Replied, Pending, Numbered
      <4>2. CASE ~Pending
        <5>1. peer.last \in Old
          BY <4>2 DEF Active, PeerCourse, Replied, Pending, Numbered
        <5>2. Old \cap New = {}
          BY AwaitedNumber DEF Active, Numbered
        <5> QED
          BY <2>1, <5>1, <5>2, SoundIsNoDD
      <4> QED
        BY <4>1, <4>2
    <3>3. NoneAfter(Append(toHost, x), Old, New)
      BY <2>1, <3>1, <3>2, OrderAppend
    <3>4. Range(Append(toHost, x)) = Range(toHost) \cup {x}
      BY <2>1, <3>1, ChannelAppend
    <3> QED
      BY <2>4, <3>3, <3>4
  <2> QED
    BY <2>1, <2>2, <2>3, <2>4
<1>8. Wire'
  <2>1. /\ Sound(lsdb, peer.db) \subseteq Sound(lsdb', peer'.db)
        /\ Sound(peer.db, lsdb) \subseteq Sound(peer'.db, lsdb')
    BY <1>0, SoundGrows
  <2>2. /\ Numbered(nbr'.last_dd_seq_num) = Old /\ Numbered(nbr'.dd_seq_num) = New
    BY <1>0
  <2> HIDE DEF Old, New
  <2>3. /\ Range(toPeer) \subseteq Old \cup Awaited \cup Sound(lsdb, peer.db)
        /\ Pending => Range(toPeer) \cap Old = {}
    BY DEF Active, Wire, Old
  <2>4. /\ Range(toPeer') \subseteq Old \cup Awaited' \cup Sound(lsdb', peer'.db)
        /\ Pending' => Range(toPeer') \cap Old = {}
    BY <1>1, <1>2, <1>6, <2>1, <2>3
  <2>5. Range(toHost') \subseteq Old \cup {peer'.last} \cup Sound(peer'.db, lsdb')
    BY <1>7, <2>1
  <2> QED
    BY <1>6, <1>7, <2>2, <2>4, <2>5 DEF Wire
<1> QED
  BY <1>3, <1>4, <1>5, <1>8 DEF Active

\* The slave answers the DD in flight: its reply is pending, and what that DD
\* describes is stored or requested from then on.
LEMMA ActivePeerAnswers ==
  ASSUME MaxSeq >= 1, Typed, AdjTypeOK, Active, HostIsMaster, ~Pending,
         UNCHANGED <<vars, summarized>>, toPeer # << >>, toPeer' = Tail(toPeer),
         NEW d \in Awaited, d = Head(toPeer), peer.state = "EXCHANGE",
         PeerAnswers(d, peer.req \cup (d.hdrs \ peer.db))
  PROVE  Active'
<1> DEFINE s0 == nbr.last_dd_seq_num
           s1 == nbr.dd_seq_num
           req == peer.req \cup (d.hdrs \ peer.db)
<1>0. UNCHANGED <<nbr, rxmt, lsdb, load_done, receiver, lsu>>
  BY DEF vars
<1>1. /\ s0 \in Seqs /\ s1 \in Seqs /\ s1 # s0 /\ Awaited' = Awaited
      /\ Awaited \subseteq Numbered(s1) /\ Awaited \subseteq DDs
  BY <1>0, AwaitedNumber DEF Active, Awaited
<1>2. d \in DDs /\ d.seq = s1
  BY <1>1 DEF Numbered
<1>3. /\ nbr.state = "EXCHANGE" /\ Awaited = {d} /\ d.hdrs \subseteq lsdb
      /\ d.M <=> nbr.summary # << >>
  <2>1. nbr.state = "EXCHANGE"
    BY DEF Awaited, Active, MasterCourse
  <2>2. PICK e \in rxmt :
          /\ rxmt = {e} /\ e.pkt.hdrs \subseteq lsdb
          /\ e.pkt = DD(FALSE, nbr.summary # << >>, TRUE, nbr.dd_seq_num,
                        e.pkt.hdrs, FALSE)
    BY <2>1 DEF Active, MasterCourse, Asks
  <2>3. Awaited = {e.pkt}
    BY <2>2 DEF Awaited
  <2>4. \A more, hdrs :
          DD(FALSE, more, TRUE, nbr.dd_seq_num, hdrs, FALSE).M = more
    BY DEF DD
  <2>5. e.pkt.M = (nbr.summary # << >>)
    BY <2>2, <2>4
  <2> QED
    BY <2>1, <2>2, <2>3, <2>5
<1>4. PICK c \in Portions(peer.unsent) :
        LET reply == PeerReply(d, c, peer.unsent)
            done  == PeerIsDone(d, reply)
        IN
        /\ peer' = [peer EXCEPT !.seq = reply.seq, !.unsent = @ \ c, !.req = req,
                                !.last = reply,
                                !.state = IF ~done THEN "EXCHANGE"
                                          ELSE IF req = {} THEN "FULL" ELSE "LOADING"]
        /\ IF done /\ ~HostIsMaster THEN toHost' = toHost ELSE PeerSends(reply)
  BY DEF PeerAnswers
<1> DEFINE reply == PeerReply(d, c, peer.unsent)
           done  == PeerIsDone(d, reply)
<1>5. /\ c \subseteq peer.unsent /\ c \subseteq LSAs
      /\ reply = DD(FALSE, c # peer.unsent, FALSE, s1, c, FALSE)
  BY <1>2 DEF Portions, PeerReply, AdjTypeOK, PeerType
<1>6. /\ reply \in DDs /\ ~reply.I /\ ~reply.MS /\ reply.seq = s1
      /\ reply.hdrs = c /\ (reply.M <=> c # peer.unsent) /\ reply \in Packets
  <2>1. reply \in DDs /\ reply.hdrs = c
    BY <1>2, <1>5, ReplyType DEF DD
  <2>2. ~reply.I /\ ~reply.MS /\ reply.seq = s1 /\ (reply.M <=> c # peer.unsent)
    <3> HIDE DEF reply
    <3> QED
      BY <1>5 DEF DD
  <2> QED
    BY <2>1, <2>2 DEF Packets
<1>7. done <=> ~(nbr.summary # << >> \/ reply.M)
  BY <1>3 DEF PeerIsDone
<1> HIDE DEF reply, done
<1>8. /\ peer'.seq = s1 /\ peer'.unsent = peer.unsent \ c /\ peer'.req = req
      /\ peer'.last = reply /\ peer'.db = peer.db
      /\ peer'.state = IF ~done THEN "EXCHANGE"
                       ELSE IF req = {} THEN "FULL" ELSE "LOADING"
      /\ toHost' = Append(toHost, reply)
  BY <1>4, <1>6 DEF PeerSends, AdjTypeOK, PeerType, reply, done
<1>9. Pending' /\ peer.seq = s0
  BY <1>0, <1>1, <1>8 DEF Pending
<1>10. MasterCourse'
  BY <1>0 DEF Active, MasterCourse, Asks
<1>11. PeerCourse'
  <2>1. c \subseteq peer.db /\ peer.unsent \subseteq peer.db
    BY <1>5 DEF Active, PeerCourse, Replied
  <2>2. Replied'
    BY <1>5, <1>6, <1>8, <2>1 DEF Replied
  <2>3. peer'.state \in {"EXCHANGE", "LOADING", "FULL"}
    BY <1>8
  <2>4. peer'.state = "EXCHANGE" <=> (nbr.summary # << >> \/ peer'.last.M)
    BY <1>7, <1>8
  <2>5. peer'.state = "FULL" => peer'.req = {}
    BY <1>8
  <2> QED
    BY <1>0, <1>3, <1>8, <1>9, <2>2, <2>3, <2>4, <2>5 DEF PeerCourse
<1>12. Stored'
  <2>1. UNION {x.hdrs : x \in Awaited} = d.hdrs
    BY <1>3
  <2>2. /\ receiver = "lsu" => Range(lsu) \subseteq peer.db
        /\ Requested(nbr) \subseteq nbr.described /\ nbr.described \subseteq peer.db
        /\ Range(nbr.summary) \subseteq lsdb /\ peer.req \subseteq lsdb
        /\ peer.db \subseteq peer.unsent \cup nbr.described \cup lsdb
        /\ summarized \subseteq Range(nbr.summary) \cup peer.db \cup peer.req \cup d.hdrs
    BY <2>1 DEF Active, Stored
  <2>3. req \subseteq lsdb /\ d.hdrs \subseteq peer.db \cup req
    BY <1>3, <2>2
  <2> QED
    BY <1>0, <1>5, <1>6, <1>8, <1>9, <2>2, <2>3 DEF Stored
<1>13. /\ Range(toPeer') \subseteq Awaited \cup Sound(lsdb, peer.db)
       /\ NoneAfter(toPeer', Numbered(s0), Numbered(s1))
       /\ Range(toPeer') \cap Numbered(s0) = {}
  <2>1. /\ toPeer \in Seq(Packets) /\ NoneAfter(toPeer, Numbered(s0), Numbered(s1))
        /\ Range(toPeer) \subseteq Numbered(s0) \cup Awaited \cup Sound(lsdb, peer.db)
    BY DEF Active, Wire, AdjTypeOK
  <2>2. Head(toPeer) \in Numbered(s1)
    BY <1>1
  <2>3. /\ NoneAfter(Tail(toPeer), Numbered(s0), Numbered(s1))
        /\ Range(Tail(toPeer)) \cap Numbered(s0) = {}
    BY <2>1, <2>2, OrderTail
  <2>4. Range(Tail(toPeer)) \subseteq Range(toPeer)
    BY <2>1, ChannelTail
  <2> QED
    BY <2>1, <2>3, <2>4
<1>14. /\ Range(toHost') \subseteq Numbered(s0) \cup {reply} \cup Sound(peer.db, lsdb)
       /\ NoneAfter(toHost', Numbered(s0), Numbered(s1))
  <2>1. /\ toHost \in Seq(Packets) /\ NoneAfter(toHost, Numbered(s0), Numbered(s1))
        /\ Range(toHost) \subseteq Numbered(s0) \cup {peer.last} \cup Sound(peer.db, lsdb)
    BY DEF Active, Wire, AdjTypeOK
  <2>2. peer.last \in Numbered(s0)
    BY <1>9 DEF Active, PeerCourse, Replied, Numbered
  <2>3. reply \notin Numbered(s0)
    BY <1>1, <1>6 DEF Numbered
  <2>4. NoneAfter(Append(toHost, reply), Numbered(s0), Numbered(s1))
    BY <1>6, <2>1, <2>3, OrderAppend
  <2>5. Range(Append(toHost, reply)) = Range(toHost) \cup {reply}
    BY <1>6, <2>1, ChannelAppend
  <2> QED
    BY <1>8, <2>1, <2>2, <2>4, <2>5
<1>15. Wire'
  BY <1>0, <1>1, <1>8, <1>13, <1>14 DEF Wire
<1> QED
  BY <1>10, <1>11, <1>12, <1>15 DEF Active

\* A packet that reaches the slave: the DD in flight, or the one before, which
\* it answers with its last reply.
LEMMA ActivePeerReceives ==
  ASSUME MaxSeq >= 1, Typed, AdjTypeOK, Active, HostIsMaster, PeerReceives
  PROVE  Active'
<1> DEFINE m == Head(toPeer)
<1>1. /\ m \in Packets /\ toPeer # << >> /\ toPeer' = Tail(toPeer)
      /\ m \in Range(toPeer) /\ UNCHANGED <<vars, summarized>>
  BY ToPeerHead, ChannelTail DEF PeerReceives, AdjTypeOK, history
<1>2. \/ m.type = "DD" /\ (PeerNegotiates(m) \/ PeerExchanges(m))
      \/ m.type = "LSR" /\ PeerAnswersLSR(m)
      \/ m.type = "LSU" /\ PeerInstalls(m)
      \/ PeerDiscards(m)
  BY DEF PeerReceives
<1>3. /\ m \in Numbered(nbr.last_dd_seq_num) \cup Awaited \cup Sound(lsdb, peer.db)
      /\ Pending => m \notin Numbered(nbr.last_dd_seq_num)
  BY <1>1 DEF Active, Wire
<1>4. /\ peer.state \in {"EXCHANGE", "LOADING", "FULL"} /\ peer \in PeerType
      /\ peer.state = "FULL" => peer.req = {}
  BY DEF Active, PeerCourse, AdjTypeOK
<1>5. m \notin DDs => m \in Sound(lsdb, peer.db)
  BY <1>3, AwaitedNumber DEF Numbered, Active
<1>6. ~PeerNegotiates(m) /\ ~PeerDiscards(m)
  BY <1>4 DEF PeerNegotiates, PeerDiscards
<1>7. CASE m.type = "DD" /\ PeerExchanges(m)
  <2>1. m \in DDs
    BY <1>1, <1>7, PacketKinds
  <2>2. CASE m.seq = peer.seq
    <3>1. peer' = peer /\ PeerSends(peer.last)
      BY <1>7, <2>2 DEF PeerExchanges, Repeats
    <3>2. toHost' = Append(toHost, peer.last)
      BY <3>1 DEF PeerSends
    <3> HIDE DEF m
    <3> QED
      BY <1>1, <1>4, <3>1, <3>2, PeerFrame
  <2>3. CASE m.seq # peer.seq
    <3>1. m \in Awaited
      BY <1>3, <2>1, <2>3, SoundIsNoDD DEF Numbered, Pending
    <3>2. m.seq = nbr.dd_seq_num /\ ~Pending /\ peer.seq = nbr.last_dd_seq_num
      BY <2>3, <3>1, AwaitedNumber DEF Active, PeerCourse, Numbered, Pending
    <3>3. nbr.state = "EXCHANGE"
      BY <3>1 DEF Awaited, Active, MasterCourse
    <3>4. peer.state = "EXCHANGE"
      BY <3>2, <3>3 DEF Active, PeerCourse
    <3>5. ~m.I /\ m.MS = TRUE
      <4>1. PICK e \in rxmt :
              /\ rxmt = {e}
              /\ e.pkt = DD(FALSE, nbr.summary # << >>, TRUE, nbr.dd_seq_num,
                            e.pkt.hdrs, FALSE)
        BY <3>3 DEF Active, MasterCourse, Asks
      <4>2. m = e.pkt
        BY <3>1, <4>1 DEF Awaited
      <4>3. \A more, hdrs :
              /\ ~DD(FALSE, more, TRUE, nbr.dd_seq_num, hdrs, FALSE).I
              /\ DD(FALSE, more, TRUE, nbr.dd_seq_num, hdrs, FALSE).MS = TRUE
        BY DEF DD
      <4> HIDE DEF m
      <4> QED
        BY <4>1, <4>2, <4>3
    <3>6. IsNext(m) /\ ~Repeats(m)
      BY <2>3, <3>2 DEF IsNext, Repeats, Active, MasterCourse
    <3>7. HostIsMaster = TRUE
      BY DEF HostIsMaster
    <3>8. PeerAnswers(m, peer.req \cup (m.hdrs \ peer.db))
      BY <1>7, <3>4, <3>5, <3>6, <3>7 DEF PeerExchanges
    <3> QED
      BY <1>1, <3>1, <3>2, <3>4, <3>8, ActivePeerAnswers
  <2> QED
    BY <2>2, <2>3
<1>8. CASE m.type = "LSR" /\ PeerAnswersLSR(m)
  <2>1. m \in LSPackets /\ m.lsas \subseteq peer.db
    <3>1. m \in Sound(lsdb, peer.db)
      BY <1>1, <1>5, <1>8, PacketKinds
    <3> QED
      BY <1>8, <3>1 DEF Sound
  <2> DEFINE x == [type |-> "LSU", lsas |-> m.lsas]
  <2>2. x \in Sound(peer.db, lsdb)
    BY <1>1, <2>1, PacketKinds DEF Sound, LSPackets
  <2>3. peer' = peer /\ toHost' = Append(toHost, x)
    BY <1>8 DEF PeerAnswersLSR, PeerSends
  <2> HIDE DEF x, m
  <2> QED
    BY <1>1, <1>4, <2>2, <2>3, PeerFrame
<1>9. CASE m.type = "LSU" /\ PeerInstalls(m)
  <2>1. m.lsas \subseteq lsdb
    <3>1. m \in Sound(lsdb, peer.db)
      BY <1>1, <1>5, <1>9, PacketKinds
    <3> QED
      BY <1>9, <3>1 DEF Sound
  <2> HIDE DEF m
  <2>2. /\ peer'.seq = peer.seq /\ peer'.last = peer.last
        /\ peer'.unsent = peer.unsent /\ toHost' = toHost
        /\ peer'.req = peer.req \ m.lsas /\ peer'.db = peer.db \cup m.lsas
        /\ peer'.state = IF peer.state = "LOADING" /\ peer.req \ m.lsas = {}
                         THEN "FULL" ELSE peer.state
    BY <1>4, <1>9 DEF PeerInstalls, PeerType
  <2>3. /\ peer'.state = peer.state \/ (peer.state = "LOADING" /\ peer'.state = "FULL")
        /\ peer'.state = "FULL" => peer'.req = {}
    BY <1>4, <2>2
  <2>4. /\ peer'.req \subseteq peer.req /\ peer.req \subseteq peer'.req \cup peer'.db
        /\ peer.db \subseteq peer'.db /\ peer'.db \subseteq peer.db \cup lsdb
    BY <2>1, <2>2
  <2> QED
    BY <1>1, <2>2, <2>3, <2>4, PeerFrame
<1> HIDE DEF m
<1> QED
  BY <1>2, <1>6, <1>7, <1>8, <1>9

\* The timers of the peer, its Hellos, and losses.
LEMMA ActivePeerStep ==
  ASSUME MaxSeq >= 1, Typed, AdjTypeOK, Active, HostIsMaster,
         PeerStep \/ HelloToPeer \/ Lose
  PROVE  Active'
<1>0. /\ peer \in PeerType /\ peer.state \in {"EXCHANGE", "LOADING", "FULL"}
      /\ peer.state = "FULL" => peer.req = {}
      /\ nbr.state # "DOWN"
  BY DEF Active, PeerCourse, MasterCourse, Adjacent, AdjTypeOK
<1>1. UNCHANGED <<vars, summarized>>
  BY DEF PeerStep, PeerReceives, PeerAnnounces, PeerRequests, HelloToPeer, Lose,
         wire, history
<1>2. ~PeerAnnounces
  BY <1>0 DEF PeerAnnounces
<1>3. CASE PeerRequests
  <2> DEFINE x == [type |-> "LSR", lsas |-> peer.req]
  <2>1. x \in Sound(peer.db, lsdb)
    BY <1>0 DEF Sound, LSPackets, Active, Stored, PeerType
  <2>2. toHost' = Append(toHost, x) /\ peer' = peer /\ toPeer' = toPeer
    BY <1>3 DEF PeerRequests, PeerSends
  <2> HIDE DEF x
  <2> QED
    BY <1>0, <1>1, <2>1, <2>2, PeerFrame
<1>4. CASE HelloToPeer
  <2>1. /\ peer'.state = peer.state /\ peer'.seq = peer.seq
        /\ peer'.last = peer.last /\ peer'.unsent = peer.unsent
        /\ peer'.req = peer.req /\ peer'.db = peer.db
        /\ toHost' = toHost /\ toPeer' = toPeer
    BY <1>0, <1>4 DEF HelloToPeer, HelloLists, PeerType, wire
  <2> QED
    BY <1>0, <1>1, <2>1, PeerFrame
<1>5. CASE Lose
  <2>1. /\ peer' = peer
        /\ toPeer' = toPeer \/ (toPeer # << >> /\ toPeer' = Tail(toPeer))
        /\ toHost' = toHost \/ (toHost # << >> /\ toHost' = Tail(toHost))
    BY <1>5 DEF Lose
  <2> QED
    BY <1>0, <1>1, <2>1, PeerFrame
<1> QED
  BY <1>1, <1>2, <1>3, <1>4, <1>5, ActivePeerReceives DEF PeerStep

-----------------------------------------------------------------------------
(* Before the master has answered the slave. The slave's first reply is    *)
(* the only DD that starts the exchange; a host that takes it for a        *)
(* duplicate never goes on. Nothing is behind that reply that was sent     *)
(* before it. A host with an empty database answers by being done.         *)

Opening == DD(TRUE, TRUE, TRUE, 0, {}, FALSE)

Firsts == Announcements \cup {NoBody}

QuietHost ==
  /\ nbr.state \in {"DOWN", "INIT", "EXSTART", "EXCHANGE"} /\ nbr.dd_seq_num = 0
  /\ Requested(nbr) = {} /\ rxmt = {} /\ ~load_done /\ receiver # "lsu"
  /\ nbr.state # "EXCHANGE" =>
       nbr.summary = << >> /\ \A i \in Seqs : nbr.dd_sending[i] > 0 => i = 0
  /\ nbr.state = "EXCHANGE" => nbr.last_dd_seq_num = 0 /\ ~nbr.is_master

QuietPeer ==
  IF peer.last = NoBody
  THEN peer.state \in {"INIT", "EXSTART", "FULL"} /\ nbr.state # "EXCHANGE"
  ELSE /\ peer.state = "EXCHANGE" /\ peer.seq = 0 /\ peer.req = {} /\ Replied
       /\ peer.db \subseteq peer.unsent \cup peer.last.hdrs
       /\ nbr.state \in {"EXSTART", "EXCHANGE"}

QuietWire ==
  /\ Range(toPeer) \subseteq {Opening}
  /\ toPeer # << >> => nbr.state \in {"EXSTART", "EXCHANGE"}
  /\ Range(toHost) \subseteq Firsts \cup {peer.last}
  /\ nbr.state = "EXCHANGE" => Range(toHost) \subseteq {peer.last}
  /\ NoneAfter(toHost, Firsts, DDs \ Announcements)

Quiet == QuietHost /\ QuietPeer /\ QuietWire

\* The DD with which a negotiation starts.
LEMMA OpeningKind ==
  /\ Opening \in DDs /\ Opening \in Packets /\ Opening \in Announcements
  /\ Opening.type = "DD" /\ Opening.seq = 0 /\ Opening.hdrs = {}
  /\ Opening.I /\ Opening.M /\ Opening.MS
<1>1. 0 \in Seqs
  BY ConfigAssumption DEF Seqs
<1> QED
  BY <1>1 DEF Opening, DD, DDs, Packets, Announcements

\* A master hears the announcement of its peer: both wait for the slave.
LEMMA OpeningArrives ==
  ASSUME TypeOK, HostIsMaster, nbr.adjacent, nbr.state \in {"INIT", "EXSTART"},
         NEW p \in DDs, p.I
  PROVE  LET n == Arrived(p) IN
         /\ n.state = "EXSTART" /\ n.dd_seq_num \in {nbr.dd_seq_num, 0}
         /\ n.req = nbr.req /\ n.summary = nbr.summary
         /\ n.dd_sending = nbr.dd_sending
<1> DEFINE h == [nbr EXCEPT !.last_dd_seq_num = p.seq]
           m == Event2WayReceived(h)
<1>1. /\ h \in NeighborType /\ h.state = nbr.state /\ h.adjacent
      /\ h.dd_seq_num = nbr.dd_seq_num /\ h.req = nbr.req
      /\ h.summary = nbr.summary /\ h.id = nbr.id
      /\ h.dd_sending = nbr.dd_sending
  BY DEF TypeOK, NeighborType, DDs
<1>0. ~(nbr.id > RouterId)
  <2>1. nbr.id \in NbrIds
    BY DEF TypeOK, NeighborType
  <2>2. nbr.id \in Nat /\ RouterId \in Nat /\ nbr.id < RouterId
    BY <2>1, ConfigAssumption DEF HostIsMaster
  <2> QED
    BY <2>2
<1> HIDE DEF h
<1>2. /\ m.state = "EXSTART" /\ m.dd_seq_num \in {nbr.dd_seq_num, 0}
      /\ m.req = nbr.req /\ m.summary = nbr.summary /\ m.id = nbr.id
      /\ m.dd_sending = nbr.dd_sending
  BY <1>1 DEF Event2WayReceived, NeighborType
<1>3. ~(m.id > RouterId)
  BY <1>0, <1>2
<1>4. Arrived(p) = Negotiate(h, p)
  BY DEF Arrived, h
<1>5. ~PeerIsMaster(m, p) /\ ~PeerIsSlave(m, p)
  BY <1>2, <1>3 DEF PeerIsMaster, PeerIsSlave
<1>6. Negotiate(h, p) = m
  BY <1>2, <1>5 DEF Negotiate
<1> HIDE DEF m
<1> QED
  BY <1>2, <1>4, <1>6

\* The reply of a slave ends the negotiation.
LEMMA ReplyArrives ==
  ASSUME TypeOK, HostIsMaster, nbr.state = "EXSTART", NEW p \in DDs,
         ~p.I, ~p.MS, Swap[p.seq] = p.seq
  PROVE  LET n == Arrived(p) IN
         /\ n.state = "EXCHANGE" /\ ~n.is_master /\ n.dd_seq_num = nbr.dd_seq_num
         /\ n.last_dd_seq_num = p.seq /\ n.req = nbr.req /\ n.described = {}
         /\ n.summary = nbr.summary \o Listing(lsdb)
         /\ n.negotiations = nbr.negotiations + 1
<1> DEFINE h == [nbr EXCEPT !.last_dd_seq_num = p.seq]
           s == [h EXCEPT !.is_master = FALSE]
           r == EventNegotiationDone(s)
<1>1. /\ h \in NeighborType /\ h.state = "EXSTART"
      /\ h.dd_seq_num = nbr.dd_seq_num /\ h.req = nbr.req
      /\ h.summary = nbr.summary /\ h.id = nbr.id
      /\ h.last_dd_seq_num = p.seq /\ h.negotiations = nbr.negotiations
  BY DEF TypeOK, NeighborType, DDs
<1>2. nbr.id < RouterId /\ ~(nbr.id > RouterId)
  <2>1. nbr.id \in NbrIds
    BY DEF TypeOK, NeighborType
  <2>2. nbr.id \in Nat /\ RouterId \in Nat /\ nbr.id < RouterId
    BY <2>1, ConfigAssumption DEF HostIsMaster
  <2> QED
    BY <2>2
<1>3. Arrived(p) = Negotiate(h, p)
  BY DEF Arrived, h
<1> HIDE DEF h
<1>4. Event2WayReceived(h) = h
  BY <1>1 DEF Event2WayReceived
<1>5. ~PeerIsMaster(h, p) /\ PeerIsSlave(h, p)
  BY <1>1, <1>2 DEF PeerIsMaster, PeerIsSlave
<1>6. Negotiate(h, p) = r
  BY <1>1, <1>4, <1>5 DEF Negotiate
<1>7. /\ s \in NeighborType /\ s.state = "EXSTART" /\ ~s.is_master
      /\ s.dd_seq_num = nbr.dd_seq_num /\ s.req = nbr.req
      /\ s.summary = nbr.summary /\ s.last_dd_seq_num = p.seq
      /\ s.negotiations = nbr.negotiations
  BY <1>1 DEF NeighborType
<1> HIDE DEF s
<1>8. /\ r.state = "EXCHANGE" /\ ~r.is_master /\ r.dd_seq_num = nbr.dd_seq_num
      /\ r.last_dd_seq_num = p.seq /\ r.req = nbr.req /\ r.described = {}
      /\ r.summary = nbr.summary \o Listing(lsdb)
      /\ r.negotiations = nbr.negotiations + 1
  BY <1>7 DEF EventNegotiationDone, NeighborType
<1> HIDE DEF r
<1> QED
  BY <1>3, <1>6, <1>8

\* The first reply, taken as such: the exchange starts, or it is over at once
\* because neither router has anything to describe any more.
LEMMA QuietAnswers ==
  ASSUME MaxSeq >= 1, Typed, AdjTypeOK, Quiet, peer.last # NoBody,
         NEW n \in NeighborType, n.state = "EXCHANGE", ~n.is_master,
         n.dd_seq_num = 0, n.last_dd_seq_num = 0, n.req = nbr.req,
         n.described = {}, n.summary = Listing(lsdb),
         DDAnsweredByMaster(peer.last, n), Transmit, summarized' = lsdb,
         Range(toHost') \subseteq {peer.last}, toHost' \in Seq(Packets),
         load_done' = load_done, receiver' # "lsu"
  PROVE  Active'
<1> DEFINE p == peer.last
           s2 == Inc(0)
<1>1. 0 \in Seqs /\ s2 \in Seqs /\ s2 # 0
  <2>1. 0 \in Seqs
    BY ConfigAssumption DEF Seqs
  <2> QED
    BY <2>1, IncDiffers
<1>2. /\ peer.state = "EXCHANGE" /\ peer.seq = 0 /\ peer.req = {} /\ Replied
      /\ peer.db \subseteq peer.unsent \cup p.hdrs /\ p \in DDs
      /\ p.seq = 0 /\ p.hdrs \subseteq peer.db /\ (p.M <=> peer.unsent # {})
  BY DEF Quiet, QuietPeer, Replied
<1>3. /\ lsdb \subseteq LSAs /\ n.summary \in Seq(LSAs)
      /\ Range(n.summary) = lsdb /\ (n.summary = << >> => lsdb = {})
  <2>1. lsdb \subseteq LSAs
    BY DEF Typed, TypeOK
  <2> QED
    BY <2>1, ListingRange
<1>4. AnswerCourse(n, p) /\ (AnswerNext(n, p) \/ AnswerLast(n, p))
  BY <1>2, MasterAnswers DEF Typed
<1>5. Requested(n) = {} /\ Acked(n) = {}
  BY DEF Quiet, QuietHost, Requested, Acked
<1>6. peer' = peer
  BY DEF Transmit
<1>7. /\ nbr'.dd_seq_num = s2 /\ nbr'.last_dd_seq_num = 0 /\ ~nbr'.is_master
      /\ nbr'.described = p.hdrs /\ Requested(nbr') \subseteq p.hdrs
  BY <1>4, <1>5 DEF AnswerCourse
<1>9. /\ Chunk(n.summary) \subseteq lsdb /\ lsdb \subseteq lsdb'
      /\ lsdb = Chunk(n.summary) \cup Range(Remainder(n.summary))
  <2>1. lsdb \subseteq lsdb'
    BY <1>4 DEF AnswerNext, AnswerLast, Originate
  <2> QED
    BY <1>3, <2>1, ChunkSplit
<1> HIDE DEF s2
<1>12. ~load_done'
  BY DEF Quiet, QuietHost
<1>14. ~Pending' /\ Replied'
  BY <1>2, <1>6, <1>7 DEF Pending, Replied
<1>19. /\ Range(toPeer) \subseteq Numbered(0) /\ toPeer \in Seq(Packets)
       /\ Numbered(0) \cap Numbered(s2) = {} /\ Range(toHost') \subseteq Numbered(0)
  BY <1>1, <1>2, OpeningKind DEF Quiet, QuietWire, Numbered, AdjTypeOK
<1>21. NoneAfter(toPeer, Numbered(0), Numbered(s2))
  <2>1. Range(toPeer) \cap Numbered(s2) = {}
    BY <1>19
  <2> QED
    BY <1>19, <2>1, OrderTrivial
<1>22. NoneAfter(toHost', Numbered(0), Numbered(s2))
  <2>1. Range(toHost') \cap Numbered(s2) = {}
    BY <1>19
  <2> QED
    BY <2>1, OrderTrivial
<1>23. CASE AnswerNext(n, p)
  <2>1. PICK e : /\ rxmt' = {e} /\ e.id = nbr'.rxmt_map[nbr'.dd_seq_num]
                 /\ e.pkt = DD(FALSE, nbr'.summary # << >>, TRUE, nbr'.dd_seq_num,
                               Chunk(n.summary), FALSE)
                 /\ out' = <<e.pkt>>
    BY <1>5, <1>23 DEF AnswerNext
  <2>2. nbr'.state = "EXCHANGE" /\ nbr'.summary = Remainder(n.summary)
    BY <1>23 DEF AnswerNext
  <2>3. /\ e.pkt.hdrs = Chunk(n.summary) /\ e.pkt.seq = s2 /\ e.pkt.type = "DD"
        /\ e.pkt \in DDs
    <3>1. Chunk(n.summary) \subseteq LSAs
      BY <1>3, <1>9
    <3> QED
      BY <1>1, <1>7, <2>1, <3>1 DEF DD, DDs
  <2>4. Asks'
    <3>1. e.pkt = DD(FALSE, nbr'.summary # << >>, TRUE, nbr'.dd_seq_num,
                     e.pkt.hdrs, FALSE)
      BY <2>1, <2>3
    <3>2. e.pkt.hdrs \subseteq lsdb'
      BY <1>9, <2>3
    <3> QED
      BY <2>1, <3>1, <3>2 DEF Asks
  <2>5. MasterCourse'
    BY <1>7, <1>12, <2>2, <2>4 DEF MasterCourse, Adjacent, s2
  <2>6. PeerCourse'
    BY <1>2, <1>6, <1>7, <1>14, <2>2 DEF PeerCourse
  <2>7. Awaited' = {e.pkt}
    BY <2>1 DEF Awaited
  <2>8. UNION {d.hdrs : d \in Awaited'} = Chunk(n.summary)
    BY <2>3, <2>7
  <2>9. Stored'
    BY <1>2, <1>6, <1>7, <1>9, <1>14, <2>2, <2>8 DEF Stored
  <2>10. toPeer' = Append(toPeer, e.pkt) /\ e.pkt \in Packets
    BY <2>1, <2>3, TransmitOne, PacketKinds DEF AdjTypeOK, Packets
  <2>11. e.pkt \in Numbered(s2) /\ e.pkt \notin Numbered(0)
    BY <1>1, <2>3 DEF Numbered
  <2>12. /\ Range(toPeer') = Range(toPeer) \cup {e.pkt}
         /\ NoneAfter(toPeer', Numbered(0), Numbered(s2))
    BY <1>19, <1>21, <2>10, <2>11, ChannelAppend, OrderAppend
  <2>13. Wire'
    <3>1. Range(toPeer') \subseteq Numbered(0) \cup Awaited'
      BY <1>19, <2>7, <2>12
    <3> QED
      BY <1>7, <1>14, <1>19, <1>22, <2>12, <3>1 DEF Wire
  <2> QED
    BY <2>5, <2>6, <2>9, <2>13 DEF Active
<1>24. CASE AnswerLast(n, p)
  <2>1. /\ nbr'.state \in {"LOADING", "FULL"} /\ nbr'.summary = << >>
        /\ nbr'.state = "FULL" => Requested(nbr') = {}
        /\ rxmt' = {} /\ out' = << >> /\ lsdb = {} /\ peer.unsent = {}
    BY <1>2, <1>3, <1>5, <1>24 DEF AnswerLast
  <2>2. MasterCourse'
    BY <1>7, <1>12, <2>1 DEF MasterCourse, Adjacent, s2
  <2>3. PeerCourse'
    BY <1>2, <1>6, <1>7, <1>14, <2>1 DEF PeerCourse
  <2>4. Range(nbr'.summary) = {}
    BY <2>1 DEF Range
  <2>5. Stored'
    BY <1>2, <1>6, <1>7, <1>9, <1>14, <2>1, <2>4 DEF Stored
  <2>6. toPeer' = toPeer
    BY <2>1, TransmitOne DEF AdjTypeOK
  <2>7. Wire'
    BY <1>7, <1>14, <1>19, <1>21, <1>22, <2>6 DEF Wire
  <2> QED
    BY <2>2, <2>3, <2>5, <2>7 DEF Active
<1> QED
  BY <1>4, <1>23, <1>24

\* The DD a neighbour was constructed with is not one that was ever sent.
LEMMA NoBodyIsNoDD == NoBody \notin DDs
<1>1. NoBody.type = "no body" /\ \A d \in DDs : d.type = "DD"
  BY DEF NoBody, DDs
<1> QED
  BY <1>1

\* A packet that reaches a master before the exchange: an announcement takes
\* it to EXSTART at most, the first reply starts the exchange.
LEMMA QuietReceives ==
  ASSUME MaxSeq >= 1, Swap[0] = 0, Typed, AdjTypeOK, Basics, Quiet, HostIsMaster,
         HostReceives
  PROVE  Quiet' \/ Active'
<1> DEFINE m == Head(toHost)
<1>1. /\ m \in Packets /\ toHost # << >> /\ toHost' = Tail(toHost) /\ Transmit
      /\ m \in Range(toHost) /\ peer' = peer
      /\ toHost \in Seq(Packets) /\ toHost' \in Seq(Packets)
      /\ Range(toHost') \subseteq Range(toHost)
  BY ToHostHead, ChannelTail DEF HostReceives, AdjTypeOK, Transmit
<1>2. /\ NoneAfter(toHost', Firsts, DDs \ Announcements)
      /\ m \in DDs \ Announcements => Range(toHost') \cap Firsts = {}
  BY <1>1, OrderTail DEF Quiet, QuietWire
<1>3. \/ m.type = "DD" /\ RecvDD(m)
      \/ m.type = "LSR" /\ RecvLSR(m.lsas)
      \/ m.type = "LSU" /\ RecvDirectedLSU(Listing(m.lsas))
      \/ RecvFromUnknown
  BY DEF HostReceives
<1>4. m \in Firsts \cup {peer.last}
  BY <1>1 DEF Quiet, QuietWire
<1>5. nbr \in NeighborType /\ (nbr.state # "DOWN" => nbr.adjacent)
  BY DEF Typed, TypeOK, Basics
\* a step that hands no packet to the socket and keeps to the negotiation
<1>6. ASSUME UNCHANGED <<rxmt, load_done>>, out' = << >>, receiver' # "lsu",
             nbr'.state = "EXCHANGE" \/ nbr'.dd_sending = nbr.dd_sending,
             nbr'.dd_seq_num = 0, Requested(nbr') = {},
             \/ nbr'.state = nbr.state /\ nbr'.summary = nbr.summary
                /\ nbr'.last_dd_seq_num = nbr.last_dd_seq_num
                /\ nbr'.is_master = nbr.is_master
             \/ nbr'.state = "EXSTART" /\ nbr'.summary = << >>
                /\ nbr.state # "EXCHANGE"
             \/ /\ nbr'.state = "EXCHANGE" /\ nbr'.last_dd_seq_num = 0
                /\ ~nbr'.is_master /\ peer.last # NoBody
                /\ Range(toHost') \subseteq {peer.last}
      PROVE  Quiet'
  <2>1. toPeer' = toPeer
    BY <1>1, <1>6, TransmitOne DEF AdjTypeOK
  <2>2. QuietHost'
    BY <1>6 DEF Quiet, QuietHost
  <2>3. QuietPeer'
    BY <1>1, <1>6 DEF Quiet, QuietPeer, Replied
  <2>4. QuietWire'
    BY <1>1, <1>2, <1>6, <2>1 DEF Quiet, QuietWire, QuietHost
  <2> QED
    BY <1>6, <2>2, <2>3, <2>4 DEF Quiet
<1>7. m \in LSPackets => FALSE
  <2>1. m \in LSPackets => m \notin DDs /\ m # NoBody
    BY <1>1, PacketKinds DEF DDs, LSPackets
  <2>2. peer.last = NoBody \/ peer.last \in DDs
    BY DEF Quiet, QuietPeer, Replied
  <2> QED
    BY <1>4, <2>1, <2>2 DEF Firsts, Announcements
<1> HIDE DEF m
<1>8. CASE RecvFromUnknown
  <2>1. /\ UNCHANGED <<nbr, rxmt, load_done>> /\ out' = << >>
        /\ receiver' # "lsu"
    BY <1>8 DEF RecvFromUnknown
  <2>2. nbr.dd_seq_num = 0 /\ Requested(nbr) = {}
    BY DEF Quiet, QuietHost
  <2> QED
    BY <1>6, <2>1, <2>2
<1>9. CASE m \in DDs /\ RecvDD(m)
  <2> DEFINE n == Arrived(m)
  <2>1. /\ n \in NeighborType /\ n.last_dd_seq_num = m.seq
        /\ nbr.state = "EXCHANGE" => SameRound(n, nbr)
    BY <1>5, <1>9, ArrivedCourse DEF Typed, Adjacent
  <2>2. \/ DDIgnored(m, n) \/ DDDuplicate(m, n) \/ DDMismatch(m, n)
        \/ DDLate(m, n) \/ DDAnsweredBySlave(m, n) \/ DDAnsweredByMaster(m, n)
    BY <1>9 DEF RecvDD
  <2>3. load_done' = load_done /\ receiver' # "lsu" /\ nbr.state # "DOWN"
    BY <1>9 DEF RecvDD, LoopTop
  <2>4. /\ nbr.dd_seq_num = 0 /\ Requested(nbr) = {}
        /\ nbr.state \in {"INIT", "EXSTART", "EXCHANGE"}
        /\ nbr.state # "EXCHANGE" => nbr.summary = << >>
        /\ nbr.state = "EXCHANGE" => nbr.last_dd_seq_num = 0 /\ ~nbr.is_master
    BY <2>3 DEF Quiet, QuietHost
  <2>5. CASE m.I
    <3>1. nbr.state # "EXCHANGE"
      BY <1>1, <2>5 DEF Quiet, QuietWire, QuietPeer, Replied
    <3>2. /\ n.state = "EXSTART" /\ n.dd_seq_num \in {nbr.dd_seq_num, 0}
          /\ n.req = nbr.req /\ n.summary = nbr.summary
          /\ n.dd_sending = nbr.dd_sending
      BY <1>5, <1>9, <2>3, <2>4, <2>5, <3>1, OpeningArrives DEF Typed
    <3> HIDE DEF n
    <3>3. /\ nbr' = n /\ out' = << >> /\ rxmt' = rxmt
      BY <2>2, <3>2 DEF DDIgnored, DDDuplicate, DDMismatch, DDLate,
                        DDAnsweredBySlave, DDAnsweredByMaster, Adjacent
    <3>4. Requested(n) = Requested(nbr)
      BY <3>2 DEF Requested
    <3> QED
      BY <1>6, <2>3, <2>4, <3>1, <3>2, <3>3, <3>4
  <2>6. CASE ~m.I
    <3>1. m = peer.last /\ peer.last # NoBody
      BY <1>1, <1>4, <1>9, <2>6, PacketKinds DEF Firsts, Announcements
    <3>2. /\ ~m.MS /\ m.seq = 0 /\ nbr.state \in {"EXSTART", "EXCHANGE"}
          /\ peer.state = "EXCHANGE"
      BY <3>1 DEF Quiet, QuietPeer, Replied
    <3>3. Range(toHost') \subseteq {peer.last}
      BY <1>1, <1>2, <1>9, <2>6 DEF Quiet, QuietWire, Announcements
    <3>4. CASE nbr.state = "EXCHANGE"
      <4>1. /\ n.state = "EXCHANGE" /\ n.dd_seq_num = nbr.dd_seq_num
            /\ n.is_master = nbr.is_master /\ n.summary = nbr.summary
            /\ n.req = nbr.req
        BY <2>1, <3>4 DEF SameRound, SameCourse, Adjacent
      <4>2. IsDup(m)
        BY <2>4, <3>2, <3>4 DEF IsDup
      <4> HIDE DEF n
      <4>3. DDDuplicate(m, n)
        BY <2>2, <4>1, <4>2 DEF DDIgnored, DDMismatch, DDLate,
                                DDAnsweredBySlave, DDAnsweredByMaster
      <4>4. /\ nbr' = n /\ out' = << >> /\ rxmt' = rxmt
        BY <2>4, <3>4, <4>1, <4>3 DEF DDDuplicate
      <4>5. Requested(n) = Requested(nbr)
        BY <4>1 DEF Requested
      <4>6. n.last_dd_seq_num = nbr.last_dd_seq_num
        BY <2>1, <2>4, <3>2, <3>4
      <4> QED
        BY <1>6, <2>3, <2>4, <3>4, <4>1, <4>4, <4>5, <4>6
    <3>5. CASE nbr.state = "EXSTART"
      <4>1. /\ n.state = "EXCHANGE" /\ ~n.is_master
            /\ n.dd_seq_num = 0 /\ n.last_dd_seq_num = 0 /\ n.req = nbr.req
            /\ n.described = {} /\ n.summary = nbr.summary \o Listing(lsdb)
            /\ n.negotiations = nbr.negotiations + 1
        BY <1>5, <1>9, <2>4, <2>6, <3>2, <3>5, ReplyArrives DEF Typed
      <4>2. n.summary = Listing(lsdb)
        <5>1. Listing(lsdb) \in Seq(LSAs)
          BY ListingType DEF Typed, TypeOK
        <5> QED
          BY <2>4, <3>5, <4>1, <5>1
      <4> HIDE DEF n
      <4>3. CASE IsDup(m)
        <5>1. DDDuplicate(m, n)
          BY <2>2, <4>1, <4>3 DEF DDIgnored, DDMismatch, DDLate,
                                  DDAnsweredBySlave, DDAnsweredByMaster
        <5>2. /\ nbr' = n /\ out' = << >> /\ rxmt' = rxmt
          BY <4>1, <5>1 DEF DDDuplicate
        <5>3. Requested(n) = Requested(nbr)
          BY <4>1 DEF Requested
        <5> QED
          BY <1>6, <2>3, <2>4, <3>1, <3>3, <4>1, <5>2, <5>3
      <4>4. CASE ~IsDup(m)
        <5>1. m.MS = n.is_master
          BY <1>9, <2>1, <3>2, <4>1 DEF DDs, NeighborType
        <5>2. DDAnsweredByMaster(m, n)
          BY <2>2, <2>6, <3>2, <4>1, <4>4, <5>1
             DEF DDIgnored, DDDuplicate, DDMismatch, DDLate, DDAnsweredBySlave,
                 FlagsMismatch, Expected
        <5>3. summarized' = lsdb
          <6>1. nbr'.negotiations = nbr.negotiations + 1
            BY <1>9, <2>1, <4>1, <5>2, MasterAnswers DEF Typed, AnswerCourse
          <6> QED
            BY <1>5, <6>1 DEF HostReceives, NeighborType
        <5> QED
          BY <1>1, <2>1, <2>3, <3>1, <3>3, <4>1, <4>2, <5>2, <5>3, QuietAnswers
      <4> QED
        BY <4>3, <4>4
    <3> QED
      BY <3>2, <3>4, <3>5
  <2> QED
    BY <2>5, <2>6
<1> QED
  BY <1>1, <1>3, <1>7, <1>8, <1>9, PacketKinds

\* The threads of a master that has not started the exchange.
LEMMA QuietHostStep ==
  ASSUME MaxSeq >= 1, Swap[0] = 0, Typed, AdjTypeOK, Basics, Quiet, HostIsMaster,
         ~late', HostStep \/ HelloToHost
  PROVE  Quiet' \/ Active'
<1>0. nbr \in NeighborType /\ receiver # "lsu" /\ Requested(nbr) = {}
      /\ rxmt = {} /\ ~load_done
      /\ nbr.state \in {"DOWN", "INIT", "EXSTART", "EXCHANGE"}
  BY DEF Typed, TypeOK, Quiet, QuietHost
<1>1. ~HostInstalls /\ ~HostRequests /\ ~HostRepeats /\ ~LoadDoneCommit
  BY <1>0 DEF HostInstalls, LSURemove, HostRequests, LSRSend, HostRepeats,
              Retransmit, LoadDoneCommit
\* a thread that announces: what it has read is the number 0
<1>5. ASSUME Announce, UNCHANGED <<peer, toHost>>,
             nbr.state # "EXCHANGE" =>
               \A i \in Seqs : nbr'.dd_sending[i] > 0 => i = 0
      PROVE  QuietHost' /\ QuietPeer' /\ nbr'.state = nbr.state
  <2>1. /\ SameButAnnouncers(nbr', nbr)
        /\ UNCHANGED <<load_done, rxmt, receiver>>
    BY <1>0, <1>5, AnnounceCourse
  <2> QED
    BY <1>5, <2>1
       DEF SameButAnnouncers, Quiet, QuietHost, QuietPeer, Replied, Requested
<1>2. CASE HostAnnounces
  <2>1. PICK s \in Seqs : AnnounceSend(s)
    BY <1>2 DEF HostAnnounces
  <2>2. nbr.state = "EXSTART" /\ Transmit /\ UNCHANGED <<peer, toHost>>
    BY <1>2 DEF HostAnnounces, Transmit
  <2>3. out' = <<Opening>>
    <3>1. s = 0
      BY <2>1, <2>2 DEF AnnounceSend, Quiet, QuietHost
    <3> QED
      BY <2>1, <3>1 DEF AnnounceSend, Opening
  <2>4. toPeer' = Append(toPeer, Opening)
    BY <2>2, <2>3, TransmitOne, OpeningKind, PacketKinds DEF AdjTypeOK
  <2>5. Range(toPeer') \subseteq {Opening}
    BY <2>4, OpeningKind, ChannelAppend DEF AdjTypeOK, Quiet, QuietWire
  <2>6. \A i \in Seqs : nbr'.dd_sending[i] > 0 => i = 0
    <3>1. /\ nbr'.dd_sending = [nbr.dd_sending EXCEPT ![s] = @ - 1]
          /\ nbr.dd_sending \in [Seqs -> Nat]
      BY <1>0, <2>1 DEF AnnounceSend, NeighborType
    <3>2. \A i \in Seqs : nbr.dd_sending[i] > 0 => i = 0
      BY <2>2 DEF Quiet, QuietHost
    <3> QED
      BY <3>1, <3>2
  <2>7. QuietHost' /\ QuietPeer' /\ nbr'.state = nbr.state
    BY <1>5, <2>1, <2>2, <2>6 DEF Announce
  <2>8. QuietWire'
    BY <2>2, <2>5, <2>7 DEF Quiet, QuietWire
  <2> QED
    BY <2>7, <2>8 DEF Quiet
<1>6. CASE HostInternal(AnnounceTest) \/ HostInternal(AnnounceRead)
           \/ HostInternal(AnnounceEnds)
  <2>1. Announce /\ UNCHANGED <<peer, toHost, toPeer>>
    BY <1>6 DEF HostInternal, Announce, wire
  <2>2. ASSUME nbr.state # "EXCHANGE"
        PROVE  \A i \in Seqs : nbr'.dd_sending[i] > 0 => i = 0
    <3>1. nbr.dd_sending \in [Seqs -> Nat] /\ nbr.dd_seq_num = 0
          /\ \A i \in Seqs : nbr.dd_sending[i] > 0 => i = 0
      BY <1>0, <2>2 DEF NeighborType, Quiet, QuietHost
    <3>2. CASE AnnounceRead
      <4>1. nbr'.dd_sending = [nbr.dd_sending EXCEPT ![0] = @ + 1]
        BY <1>0, <3>1, <3>2 DEF AnnounceRead, NeighborType
      <4> QED
        BY <3>1, <4>1
    <3>3. CASE AnnounceTest \/ AnnounceEnds
      <4>1. nbr'.dd_sending = nbr.dd_sending
        BY <1>0, <3>3 DEF AnnounceTest, AnnounceEnds, NeighborType
      <4> QED
        BY <3>1, <4>1
    <3> QED
      BY <1>6, <3>2, <3>3 DEF HostInternal
  <2>3. QuietHost' /\ QuietPeer' /\ nbr'.state = nbr.state
    BY <1>5, <2>1, <2>2
  <2> QED
    BY <2>1, <2>3 DEF Quiet, QuietWire
<1>3. CASE HostInternal(LoadDoneTest) \/ HostInternal(LSRExits)
           \/ HostInternal(WaitTimer) \/ HostInternal(Exit)
  <2>1. /\ UNCHANGED <<rxmt, receiver, peer, toHost, toPeer>>
        /\ ~load_done'
    <3>1. CASE HostInternal(LoadDoneTest)
      <4>1. load_done' = (nbr.state = "LOADING") /\ nbr.state # "LOADING"
        BY <1>0, <3>1 DEF HostInternal, LoadDoneTest
      <4>2. UNCHANGED <<rxmt, receiver, peer, toHost, toPeer>>
        BY <3>1 DEF HostInternal, LoadDoneTest, wire
      <4> QED
        BY <4>1, <4>2
    <3>2. CASE ~HostInternal(LoadDoneTest)
      BY <1>0, <1>3, <3>2 DEF HostInternal, LSRExits, WaitTimer, Exit, wire
    <3> QED
      BY <3>1, <3>2
  <2>2. /\ nbr'.state = nbr.state /\ nbr'.dd_seq_num = nbr.dd_seq_num
        /\ nbr'.req = nbr.req /\ nbr'.summary = nbr.summary
        /\ nbr'.last_dd_seq_num = nbr.last_dd_seq_num
        /\ nbr'.is_master = nbr.is_master /\ nbr'.dd_sending = nbr.dd_sending
    <3>2. CASE HostInternal(LoadDoneTest) \/ HostInternal(LSRExits)
      BY <1>0, <3>2 DEF HostInternal, LoadDoneTest, LSRExits, NeighborType
    <3>3. CASE HostInternal(WaitTimer) \/ HostInternal(Exit)
      BY <3>3 DEF HostInternal, WaitTimer, Exit
    <3> QED
      BY <1>3, <3>2, <3>3
  <2> QED
    BY <2>1, <2>2 DEF Quiet, QuietHost, QuietPeer, QuietWire, Replied, Requested
<1>4. CASE HelloToHost
  <2>1. /\ UNCHANGED <<rxmt, load_done, peer, toHost, toPeer>>
        /\ receiver' # "lsu" /\ nbr'.dd_sending = nbr.dd_sending
        /\ nbr'.req = nbr.req /\ nbr'.summary = nbr.summary
        /\ nbr'.last_dd_seq_num = nbr.last_dd_seq_num
    BY <1>4, HelloCourse DEF wire
  <2>2. CASE nbr.state \in {"EXSTART", "EXCHANGE"}
    <3>1. peer.heard /\ nbr.state \in TwoWay
      BY <2>2 DEF Basics, TwoWay, Adjacent
    <3>2. /\ nbr'.state = nbr.state /\ nbr'.is_master = nbr.is_master
          /\ nbr'.dd_seq_num = nbr.dd_seq_num
      BY <1>4, <3>1, HelloCourse
    <3> QED
      BY <2>1, <3>2 DEF Quiet, QuietHost, QuietPeer, QuietWire, Replied, Requested
  <2>3. CASE nbr.state \in {"DOWN", "INIT"}
    <3>1. nbr.state \notin TwoWay
      BY <2>3 DEF TwoWay, Adjacent
    <3>2. /\ nbr'.state \in {"INIT", "EXSTART"}
          /\ nbr'.dd_seq_num \in {nbr.dd_seq_num, 0}
      BY <1>4, <3>1, HelloCourse
    <3>3. peer.last = NoBody /\ toPeer = << >>
      BY <2>3 DEF Quiet, QuietPeer, QuietWire
    <3> QED
      BY <2>1, <2>3, <3>2, <3>3
         DEF Quiet, QuietHost, QuietPeer, QuietWire, Requested
  <2> QED
    BY <1>0, <2>2, <2>3
<1> QED
  BY <1>1, <1>2, <1>3, <1>4, <1>6, QuietReceives DEF HostStep, HostInternal

\* The peer of a master that has not started the exchange: it hears an
\* announcement, takes it for the DD it answered last, or starts over.
LEMMA QuietPeerReceives ==
  ASSUME Typed, AdjTypeOK, Quiet, HostIsMaster, PeerReceives
  PROVE  Quiet'
<1> DEFINE m == Head(toPeer)
<1>1. /\ toPeer # << >> /\ m = Opening /\ toPeer' = Tail(toPeer)
      /\ Range(toPeer') \subseteq {Opening} /\ UNCHANGED vars
      /\ nbr.state \in {"EXSTART", "EXCHANGE"}
  BY ToPeerHead, ChannelTail DEF PeerReceives, AdjTypeOK, Quiet, QuietWire
<1>2. /\ m \in DDs /\ m.type = "DD" /\ m.seq = 0 /\ m.hdrs = {}
      /\ m.I /\ m.M /\ m.MS
  BY <1>1, OpeningKind
<1>3. PeerNegotiates(m) \/ PeerExchanges(m) \/ PeerDiscards(m)
  BY <1>2 DEF PeerReceives
<1>4. QuietHost' /\ UNCHANGED nbr
  BY <1>1 DEF Quiet, QuietHost, vars, Requested
<1>5. peer \in PeerType /\ toHost \in Seq(Packets)
  BY DEF AdjTypeOK
<1> HIDE DEF m
\* the peer sends x: its last DD, or a DD without a body
<1>6. ASSUME NEW x \in Packets, toHost' = Append(toHost, x), x = peer'.last,
             \/ x = peer.last
             \/ peer.last = NoBody /\ x \in DDs \ Announcements
      PROVE  QuietWire'
  <2>1. Range(toHost') = Range(toHost) \cup {x}
    BY <1>5, <1>6, ChannelAppend
  <2>2. peer.last = NoBody \/ peer.last \in DDs \ Announcements
    BY DEF Quiet, QuietPeer, Replied, Announcements
  <2>3. NoBody \notin DDs
    BY NoBodyIsNoDD
  <2>4. x \notin Firsts \/ Range(toHost) \cap (DDs \ Announcements) = {}
    BY <1>6, <2>2, <2>3 DEF Firsts, Quiet, QuietWire, Announcements
  <2>5. NoneAfter(toHost', Firsts, DDs \ Announcements)
    BY <1>5, <1>6, <2>4, OrderAppend DEF Quiet, QuietWire
  <2>6. Range(toHost') \subseteq Firsts \cup {x}
    BY <1>6, <2>1, <2>2 DEF Quiet, QuietWire, Firsts
  <2>7. nbr.state = "EXCHANGE" => Range(toHost') \subseteq {x}
    BY <1>6, <2>1 DEF Quiet, QuietWire, QuietPeer
  <2> QED
    BY <1>1, <1>4, <1>6, <2>5, <2>6, <2>7 DEF QuietWire
<1>7. CASE PeerNegotiates(m)
  <2>1. peer.last = NoBody /\ peer.state = "EXSTART" /\ nbr.state = "EXSTART"
    BY <1>1, <1>7 DEF PeerNegotiates, Quiet, QuietPeer
  <2>2. PICK c \in Portions(peer.db) :
          LET reply == PeerReply(m, c, peer.db) IN
          /\ peer' = [peer EXCEPT !.seq = reply.seq, !.unsent = peer.db \ c,
                                  !.req = m.hdrs \ peer.db,
                                  !.last = reply, !.state = "EXCHANGE"]
          /\ PeerSends(reply)
    BY <1>7 DEF PeerNegotiates
  <2> DEFINE reply == PeerReply(m, c, peer.db)
  <2>3. c \subseteq peer.db /\ c \subseteq LSAs
    BY <1>5 DEF Portions, PeerType
  <2>4. reply \in DDs /\ reply.seq = 0 /\ reply.hdrs = c
    BY <1>2, <2>3, ReplyType DEF PeerReply, DD
  <2>5. ~reply.I /\ ~reply.MS /\ (reply.M <=> c # peer.db)
    <3>1. reply = DD(FALSE, c # peer.db, FALSE, m.seq, c, FALSE)
      BY DEF PeerReply
    <3> HIDE DEF reply
    <3> QED
      BY <3>1 DEF DD
  <2> HIDE DEF reply
  <2>6. /\ peer'.seq = 0 /\ peer'.unsent = peer.db \ c /\ peer'.req = {}
        /\ peer'.last = reply /\ peer'.state = "EXCHANGE" /\ peer'.db = peer.db
        /\ toHost' = Append(toHost, reply)
    BY <1>2, <1>5, <2>2, <2>4 DEF PeerSends, PeerType, reply
  <2>7. Replied'
    BY <2>3, <2>4, <2>5, <2>6 DEF Replied
  <2>8. peer'.last # NoBody
    BY <2>4, <2>6, PacketKinds DEF Packets
  <2>9. QuietPeer'
    BY <1>4, <2>1, <2>3, <2>4, <2>6, <2>7, <2>8 DEF QuietPeer
  <2>10. QuietWire'
    <3>1. reply \in Packets /\ reply \in DDs \ Announcements
      BY <2>4, <2>5 DEF Packets, Announcements
    <3> QED
      BY <1>6, <2>1, <2>6, <3>1
  <2> QED
    BY <1>4, <2>9, <2>10 DEF Quiet
<1>8. CASE PeerExchanges(m)
  <2>1. CASE m.seq = peer.seq
    <3>1. peer' = peer /\ PeerSends(peer.last)
      BY <1>8, <2>1 DEF PeerExchanges, Repeats
    <3>2. toHost' = Append(toHost, peer.last) /\ peer.last \in Packets
      BY <1>5, <3>1 DEF PeerSends, PeerType, Packets
    <3>3. QuietWire'
      BY <1>6, <3>1, <3>2
    <3> QED
      BY <1>4, <3>1, <3>3 DEF Quiet, QuietPeer, Replied
  <2>2. CASE m.seq # peer.seq
    <3>1. PeerRestarts
      BY <1>2, <1>8, <2>2 DEF PeerExchanges, Repeats
    <3>2. peer.last = NoBody
      BY <1>2, <2>2 DEF Quiet, QuietPeer
    <3>3. /\ peer'.last = peer.last /\ peer'.state = "EXSTART" /\ toHost' = toHost
      BY <1>5, <3>1 DEF PeerRestarts, PeerType
    <3> QED
      BY <1>1, <1>4, <3>2, <3>3 DEF Quiet, QuietPeer, QuietWire
  <2> QED
    BY <2>1, <2>2
<1>9. CASE PeerDiscards(m)
  BY <1>1, <1>4, <1>9 DEF PeerDiscards, Quiet, QuietPeer, QuietWire, Replied
<1> QED
  BY <1>3, <1>7, <1>8, <1>9

\* Before the first answer, a step of the peer or of the channels.
LEMMA QuietPeerStep ==
  ASSUME Typed, AdjTypeOK, Quiet, HostIsMaster,
         PeerStep \/ HelloToPeer \/ Lose
  PROVE  Quiet'
<1>1. UNCHANGED vars
  BY DEF PeerStep, PeerReceives, PeerAnnounces, PeerRequests, HelloToPeer, Lose,
         vars
<1>2. QuietHost' /\ UNCHANGED nbr
  BY <1>1 DEF Quiet, QuietHost, vars, Requested
<1>3. peer \in PeerType /\ toHost \in Seq(Packets) /\ toPeer \in Seq(Packets)
  BY DEF AdjTypeOK
<1>4. CASE PeerAnnounces
  <2> DEFINE d == DD(TRUE, TRUE, TRUE, peer.seq, {}, FALSE)
  <2>1. peer.state = "EXSTART"
    BY <1>4 DEF PeerAnnounces
  <2>2. /\ toHost = << >> /\ toHost' = Append(toHost, d)
        /\ peer' = peer /\ toPeer' = toPeer
    BY <1>4, <2>1 DEF PeerAnnounces, PeerSends
  <2>3. d \in Announcements /\ d \in Packets
    BY <1>3 DEF DD, DDs, Announcements, PeerType, Packets
  <2>4. peer.last = NoBody /\ nbr.state # "EXCHANGE"
    BY <2>1 DEF Quiet, QuietPeer
  <2> HIDE DEF d
  <2>5. Range(toHost') \subseteq Firsts /\ toHost' \in Seq(Packets)
    <3>1. Range(toHost) \subseteq Firsts
      BY <2>4 DEF Quiet, QuietWire, Firsts
    <3>2. /\ Range(Append(toHost, d)) = Range(toHost) \cup {d}
          /\ Append(toHost, d) \in Seq(Packets)
      BY <1>3, <2>3, ChannelAppend
    <3> QED
      BY <2>2, <2>3, <3>1, <3>2 DEF Firsts
  <2>6. NoneAfter(toHost', Firsts, DDs \ Announcements)
    <3>1. Range(toHost') \cap (DDs \ Announcements) = {}
      BY <2>5, NoBodyIsNoDD DEF Firsts
    <3> QED
      BY <2>5, <3>1, OrderTrivial
  <2> QED
    BY <1>1, <1>2, <2>2, <2>4, <2>5, <2>6 DEF Quiet, QuietPeer, QuietWire
<1>5. ~PeerRequests
  BY DEF PeerRequests, Quiet, QuietPeer
<1>6. CASE HelloToPeer
  <2>1. /\ peer'.last = peer.last /\ peer'.db = peer.db /\ peer'.req = peer.req
        /\ peer'.unsent = peer.unsent /\ toHost' = toHost /\ toPeer' = toPeer
        /\ peer.state = "EXCHANGE" /\ nbr.state # "DOWN"
             => peer'.state = "EXCHANGE" /\ peer'.seq = peer.seq
        /\ peer.state \in {"INIT", "EXSTART", "FULL"}
             => peer'.state \in {"INIT", "EXSTART", "FULL"}
    BY <1>3, <1>6 DEF HelloToPeer, HelloLists, PeerType, wire
  <2> QED
    BY <1>1, <1>2, <2>1 DEF Quiet, QuietPeer, QuietWire, Replied
<1>7. CASE Lose
  <2>1. peer' = peer
    BY <1>7 DEF Lose
  <2>2. /\ Range(toHost') \subseteq Range(toHost)
        /\ NoneAfter(toHost', Firsts, DDs \ Announcements)
    <3>1. CASE toHost' = toHost
      BY <3>1 DEF Quiet, QuietWire
    <3>2. CASE toHost # << >> /\ toHost' = Tail(toHost)
      <4>1. Range(Tail(toHost)) \subseteq Range(toHost)
        BY <1>3, <3>2, ChannelTail
      <4>2. NoneAfter(Tail(toHost), Firsts, DDs \ Announcements)
        BY <1>3, <3>2, OrderTail DEF Quiet, QuietWire
      <4> QED
        BY <3>2, <4>1, <4>2
    <3> QED
      BY <1>7, <3>1, <3>2 DEF Lose
  <2>3. /\ Range(toPeer') \subseteq Range(toPeer)
        /\ toPeer' # << >> => toPeer # << >>
    BY <1>3, <1>7, ChannelTail DEF Lose
  <2> QED
    BY <1>1, <1>2, <2>1, <2>2, <2>3 DEF Quiet, QuietPeer, QuietWire, Replied
<1> QED
  BY <1>1, <1>4, <1>5, <1>6, <1>7, QuietPeerReceives DEF PeerStep

-----------------------------------------------------------------------------
(* The two routers. The role is settled by the ids, which never change; a  *)
(* master is in its exchange once it has answered the slave. For the run's *)
(* DD numbers it is enough that there are two of them and that 0 reads the *)
(* same in both byte orders.                                               *)

AgreeInv ==
  /\ HostIsMaster /\ ~late => Basics /\ (Quiet \/ Active)
  /\ ~HostIsMaster => SlaveInv

\* The agreement invariant, at the start and over every step.
LEMMA InitAgree == AdjInit => AgreeInv
<1> SUFFICES ASSUME AdjInit PROVE AgreeInv
  OBVIOUS
<1>1. PICK id \in NbrIds : nbr = Absent(id)
  BY DEF AdjInit, Init
<1>2. /\ nbr.state = "DOWN" /\ nbr.dd_seq_num = 0 /\ nbr.summary = << >>
      /\ nbr.lsr_threads = 0 /\ nbr.last_dd_data = NoBody
      /\ nbr.req = [l \in LSAs |-> 0] /\ nbr.dd_sending = [i \in Seqs |-> 0]
  BY <1>1 DEF Absent
<1>3. Requested(nbr) = {}
  BY <1>2 DEF Requested
<1>4. /\ rxmt = {} /\ ~load_done /\ receiver = "recv"
      /\ toHost = << >> /\ toPeer = << >>
  BY DEF AdjInit, Init
<1>5. /\ peer.last = NoBody /\ peer.state \in {"INIT", "EXSTART", "FULL"}
      /\ peer.state # "INIT" => peer.heard
  <2>1. PICK st \in PeerStates :
          peer = [heard |-> start = "remembers", state |-> st,
                  seq |-> PeerSeq[start], last |-> NoBody, unsent |-> {},
                  req |-> {}, db |-> PeerLSAs]
    BY DEF AdjInit, PeerInit
  <2>2. /\ st \in {"INIT", "EXSTART", "FULL"} /\ start \in PeerStarts
        /\ start = "fresh" => st = "INIT"
    BY DEF PeerStates, AdjInit
  <2>3. start # "fresh" => start = "remembers"
    BY <2>2, PeerAssumption
  <2>4. peer.last = NoBody /\ peer.state = st /\ peer.heard = (start = "remembers")
    BY <2>1
  <2> QED
    BY <2>2, <2>3, <2>4
<1>6. Range(<< >>) = {} /\ << >> \in Seq(Packets)
  BY DEF Range
<1>7. NoneAfter(toHost, Firsts, DDs \ Announcements)
  BY <1>4, <1>6, OrderTrivial
<1>8. SlaveInv
  BY <1>2, <1>4, <1>5, <1>6 DEF SlaveInv, SlaveHost
<1>9. Basics
  BY <1>2, <1>4, <1>5 DEF Basics, TwoWay, Adjacent
<1>10. Quiet
  BY <1>2, <1>3, <1>4, <1>5, <1>6, <1>7 DEF Quiet, QuietHost, QuietPeer, QuietWire
<1> QED
  BY <1>8, <1>9, <1>10 DEF AgreeInv

\* An empty DD that was sent after EXSTART stays sent.
LEMMA LateStays ==
  ASSUME [AdjNext]_avars, late PROVE late'
<1>1. CASE HostStep
  BY <1>1 DEF HostStep, HostReceives, HostInstalls, HostAnnounces, HostRequests,
              HostRepeats, HostInternal, wire, history
<1>2. CASE PeerStep \/ HelloToHost \/ HelloToPeer \/ Lose
  BY <1>2 DEF PeerStep, PeerReceives, PeerAnnounces, PeerRequests, HelloToHost,
              HelloToPeer, Lose, wire, history
<1>3. CASE UNCHANGED avars
  BY <1>3 DEF avars, wire, history
<1> QED
  BY <1>1, <1>2, <1>3 DEF AdjNext

\* Each step is one of a slave, or of a master before or in its exchange.
LEMMA NextAgree ==
  ASSUME MaxSeq >= 1, Swap[0] = 0
  PROVE  Typed /\ AdjTypeOK /\ AgreeInv /\ [AdjNext]_avars => AgreeInv'
<1> SUFFICES ASSUME Typed, AdjTypeOK, AgreeInv, [AdjNext]_avars PROVE AgreeInv'
  OBVIOUS
<1>1. nbr'.id = nbr.id
  BY AdjNextAny, NeighborStays
<1>2. HostIsMaster' <=> HostIsMaster
  BY <1>1 DEF HostIsMaster
<1>3. CASE ~HostIsMaster
  <2>1. SlaveInv'
    BY <1>3, NextSlave DEF AgreeInv
  <2> QED
    BY <1>2, <1>3, <2>1 DEF AgreeInv
<1>4. CASE HostIsMaster /\ ~late'
  <2>1. Basics /\ (Quiet \/ Active)
    BY <1>4, LateStays DEF AgreeInv
  <2>2. Idle
    <3>1. nbr.state \in Adjacent => nbr.state \in TwoWay
      BY DEF TwoWay
    <3> QED
      BY <2>1, <3>1 DEF Idle, Quiet, QuietHost, Active, MasterCourse
  <2>3. Basics'
    BY <2>1, <2>2, NextBasics
  <2>4. Quiet' \/ Active'
    <3>1. CASE UNCHANGED avars
      <4>1. CASE Quiet
        BY <3>1, <4>1
           DEF avars, vars, wire, Quiet, QuietHost, QuietPeer, QuietWire,
               Replied, Requested
      <4>2. CASE Active
        <5>1. /\ UNCHANGED <<vars, summarized>>
              /\ peer' = peer /\ toHost' = toHost /\ toPeer' = toPeer
          BY <3>1 DEF avars, wire, history
        <5>2. peer.state = "FULL" => peer.req = {}
          BY <4>2 DEF Active, PeerCourse
        <5> QED
          BY <4>2, <5>1, <5>2, PeerFrame
      <4> QED
        BY <2>1, <4>1, <4>2
    <3>2. CASE AdjNext
      <4>1. HostStep \/ HelloToHost \/ PeerStep \/ HelloToPeer \/ Lose
        BY <3>2 DEF AdjNext
      <4>2. CASE Quiet
        BY <1>4, <2>1, <4>1, <4>2, QuietHostStep, QuietPeerStep
      <4>3. CASE Active
        BY <1>4, <2>1, <4>1, <4>3, ActiveHostStep, ActivePeerStep
      <4> QED
        BY <2>1, <4>2, <4>3
    <3> QED
      BY <3>1, <3>2
  <2> QED
    BY <1>2, <1>4, <2>3, <2>4 DEF AgreeInv
<1> QED
  BY <1>2, <1>3, <1>4 DEF AgreeInv

\* The agreement invariant holds of every behaviour.
LEMMA AgreeAlways ==
  ASSUME MaxSeq >= 1, Swap[0] = 0
  PROVE  AdjSpec => [](Typed /\ AdjTypeOK /\ AgreeInv)
<1>1. AdjInit => AgreeInv
  BY InitAgree
<1>2. Typed /\ AdjTypeOK /\ AgreeInv /\ [AdjNext]_avars => AgreeInv'
  BY NextAgree
<1> QED
  BY <1>1, <1>2, AdjTypedAlways, PTL DEF AdjSpec

\* A master that had an LSA to describe and is done with the exchange has a
\* slave that is done with it, whatever was lost or repeated, as long as the
\* host sent no empty DD after EXSTART. With nothing to describe the handler of
\* the DDs is done on the slave's first reply already, which is why "Master
\* would always evoke this event after Slave" does not hold as it stands.
THEOREM SlaveDoneFirst ==
  ASSUME MaxSeq >= 1, Swap[0] = 0
  PROVE  AdjSpec => []DescribedMasterIsLast
<1>1. AgreeInv => DescribedMasterIsLast
  <2> SUFFICES ASSUME AgreeInv, HostDone, summarized # {}, ~late
               PROVE  peer.state \in {"LOADING", "FULL"}
    BY DEF DescribedMasterIsLast
  <2>1. HostIsMaster /\ Active
    BY DEF AgreeInv, SlaveInv, SlaveHost, Quiet, QuietHost, HostDone
  <2> QED
    BY <2>1 DEF Active, PeerCourse, HostDone
<1> QED
  BY <1>1, AgreeAlways, PTL

\* Two full routers hold the same LSAs, whatever was lost or repeated, as long
\* as the host sent no empty DD after EXSTART: the host all that the peer has,
\* the peer all that the host had when it wrote its summary list. A host that
\* is slave is never full, so for it the theorem says nothing.
THEOREM FullRoutersAgree ==
  ASSUME NoKeyClash, MaxSeq >= 1, Swap[0] = 0
  PROVE  AdjSpec => []FullMeansEqual
<1>1. AgreeInv /\ Kept(nbr, lsdb) => FullMeansEqual
  <2> SUFFICES ASSUME AgreeInv, Kept(nbr, lsdb), nbr.state = "FULL",
                      peer.state = "FULL", ~late
               PROVE  peer.db \subseteq lsdb /\ summarized \subseteq peer.db
    BY DEF FullMeansEqual
  <2>1. HostIsMaster /\ Active
    BY DEF AgreeInv, SlaveInv, SlaveHost, Quiet, QuietHost
  <2>2. /\ nbr.summary = << >> /\ rxmt = {} /\ Requested(nbr) = {}
        /\ peer.unsent = {} /\ peer.req = {} /\ ~Pending
    BY <2>1 DEF Active, MasterCourse, PeerCourse
  <2>3. Range(nbr.summary) = {} /\ UNION {d.hdrs : d \in Awaited} = {}
    <3>1. Range(<< >>) = {}
      BY DEF Range
    <3>2. Awaited = {}
      BY <2>2 DEF Awaited
    <3> QED
      BY <2>2, <3>1, <3>2
  <2>4. /\ peer.db \subseteq nbr.described \cup lsdb
        /\ summarized \subseteq peer.db
    BY <2>1, <2>2, <2>3 DEF Active, Stored
  <2>5. nbr.described \subseteq lsdb
    BY <2>2 DEF Kept
  <2> QED
    BY <2>4, <2>5
<1>2. AdjSpec => []Kept(nbr, lsdb)
  BY HostIsNeighbor, KeptAlways, PTL
<1> QED
  BY <1>1, <1>2, AgreeAlways, PTL
=============================================================================
