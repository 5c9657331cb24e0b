-------------------------- MODULE AdjacencyProofs --------------------------
(***************************************************************************)
(* Proofs about Adjacency: the host of the composition is a Neighbor, so   *)
(* that what is proved of one holds of it, and it does not crash on a      *)
(* packet of a peer that starts fresh.                                     *)
(***************************************************************************)
EXTENDS Adjacency, ExchangeProofs

-----------------------------------------------------------------------------
(* Channels. A channel is looked at through the set of its packets and     *)
(* through the order of two kinds of them.                                 *)

\* No packet of Old is behind one of New.
NoneAfter(s, Old, New) ==
  \A i, j \in 1..Len(s) : i < j /\ s[i] \in New => s[j] \notin Old

\* What leaves a channel was in it, and what stays was in it.
LEMMA ChannelTail ==
  ASSUME NEW S, NEW s \in Seq(S), s # << >>
  PROVE  /\ Head(s) \in S /\ Tail(s) \in Seq(S) /\ Len(Tail(s)) < Len(s)
         /\ Head(s) \in Range(s) /\ Range(Tail(s)) \subseteq Range(s)
<1>1. /\ Head(s) \in S /\ Tail(s) \in Seq(S)
      /\ Len(Tail(s)) = Len(s) - 1
      /\ \A i \in 1..Len(Tail(s)) : Tail(s)[i] = s[i + 1]
  BY HeadTailProperties
<1>2. Len(s) \in Nat \ {0} /\ Head(s) = s[1]
  BY EmptySeq
<1>3. Range(s) = {s[i] : i \in 1..Len(s)}
  BY RangeEquality
<1>4. Range(Tail(s)) = {Tail(s)[i] : i \in 1..Len(Tail(s))}
  BY <1>1, RangeEquality
<1> HIDE DEF Range
<1> QED
  BY <1>1, <1>2, <1>3, <1>4

\* What is sent joins what is in the channel.
LEMMA ChannelAppend ==
  ASSUME NEW S, NEW s \in Seq(S), NEW x \in S
  PROVE  /\ Append(s, x) \in Seq(S) /\ Append(s, x) # << >>
         /\ Len(Append(s, x)) = Len(s) + 1
         /\ Range(Append(s, x)) = Range(s) \cup {x}
<1>1. /\ Append(s, x) \in Seq(S) /\ Append(s, x) # << >>
      /\ Len(Append(s, x)) = Len(s) + 1
      /\ \A i \in 1..Len(s) : Append(s, x)[i] = s[i]
      /\ Append(s, x)[Len(s) + 1] = x
  BY AppendProperties
<1>2. Range(s) = {s[i] : i \in 1..Len(s)}
  BY RangeEquality
<1>3. Range(Append(s, x)) = {Append(s, x)[i] : i \in 1..Len(s) + 1}
  BY <1>1, RangeEquality
<1>4. Len(s) \in Nat
  BY LenProperties
<1>5. \A i \in 1..Len(s) + 1 : i \in 1..Len(s) \/ i = Len(s) + 1
  BY <1>4
<1>6. Len(s) + 1 \in 1..Len(s) + 1 /\ 1..Len(s) \subseteq 1..Len(s) + 1
  BY <1>4
<1>7. ASSUME NEW y \in Range(Append(s, x)) PROVE y \in Range(s) \cup {x}
  BY <1>1, <1>2, <1>3, <1>5
<1>8. ASSUME NEW y \in Range(s) \cup {x} PROVE y \in Range(Append(s, x))
  BY <1>1, <1>2, <1>3, <1>6
<1> QED
  BY <1>1, <1>7, <1>8

\* A packet that leaves does not disturb the order of the others, and behind
\* one of New nothing of Old is left.
LEMMA OrderTail ==
  ASSUME NEW S, NEW s \in Seq(S), s # << >>, NEW Old, NEW New,
         NoneAfter(s, Old, New)
  PROVE  /\ NoneAfter(Tail(s), Old, New)
         /\ Head(s) \in New => Range(Tail(s)) \cap Old = {}
<1>1. /\ Tail(s) \in Seq(S) /\ Len(Tail(s)) = Len(s) - 1
      /\ \A i \in 1..Len(Tail(s)) : Tail(s)[i] = s[i + 1]
  BY HeadTailProperties
<1>2. Len(s) \in Nat \ {0} /\ Head(s) = s[1]
  BY EmptySeq
<1>3. \A i \in 1..Len(Tail(s)) : i + 1 \in 1..Len(s) /\ 1 < i + 1
  BY <1>1, <1>2
<1>4. NoneAfter(Tail(s), Old, New)
  <2> SUFFICES ASSUME NEW i \in 1..Len(Tail(s)), NEW j \in 1..Len(Tail(s)),
                      i < j, Tail(s)[i] \in New
               PROVE  Tail(s)[j] \notin Old
    BY DEF NoneAfter
  <2>1. i + 1 < j + 1
    BY <1>1, <1>2
  <2> QED
    BY <1>1, <1>3, <2>1 DEF NoneAfter
<1>5. ASSUME Head(s) \in New PROVE Range(Tail(s)) \cap Old = {}
  <2>1. Range(Tail(s)) = {Tail(s)[i] : i \in 1..Len(Tail(s))}
    BY <1>1, RangeEquality
  <2>2. 1 \in 1..Len(s)
    BY <1>2
  <2>3. \A i \in 1..Len(Tail(s)) : Tail(s)[i] \notin Old
    BY <1>1, <1>2, <1>3, <1>5, <2>2 DEF NoneAfter
  <2> QED
    BY <2>1, <2>3
<1> QED
  BY <1>4, <1>5

\* Order is only lost by something of Old sent behind something of New.
LEMMA OrderAppend ==
  ASSUME NEW S, NEW s \in Seq(S), NEW x \in S, NEW Old, NEW New,
         NoneAfter(s, Old, New), x \notin Old \/ Range(s) \cap New = {}
  PROVE  NoneAfter(Append(s, x), Old, New)
<1>1. /\ Len(Append(s, x)) = Len(s) + 1
      /\ \A i \in 1..Len(s) : Append(s, x)[i] = s[i]
      /\ Append(s, x)[Len(s) + 1] = x
  BY AppendProperties
<1>2. Range(s) = {s[i] : i \in 1..Len(s)} /\ Len(s) \in Nat
  BY RangeEquality, LenProperties
<1> SUFFICES ASSUME NEW i \in 1..Len(s) + 1, NEW j \in 1..Len(s) + 1,
                    i < j, Append(s, x)[i] \in New
             PROVE  Append(s, x)[j] \notin Old
  BY <1>1 DEF NoneAfter
<1>3. i \in 1..Len(s) /\ (j \in 1..Len(s) \/ j = Len(s) + 1)
  BY <1>2
<1> QED
  BY <1>1, <1>2, <1>3 DEF NoneAfter

\* Without one of New, or without one of Old, there is no order to lose.
LEMMA OrderTrivial ==
  ASSUME NEW S, NEW s \in Seq(S), NEW Old, NEW New,
         Range(s) \cap New = {} \/ Range(s) \cap Old = {}
  PROVE  NoneAfter(s, Old, New)
<1>1. Range(s) = {s[i] : i \in 1..Len(s)}
  BY RangeEquality
<1> HIDE DEF Range
<1> QED
  BY <1>1 DEF NoneAfter

\* A host that hands over at most one packet appends it to what is in flight.
LEMMA TransmitOne ==
  ASSUME Transmit, toPeer \in Seq(Packets)
  PROVE  /\ out' = << >> => toPeer' = toPeer
         /\ \A x \in Packets : out' = <<x>> =>
              toPeer' = IF x = NoBody \/ x.type = "LSAck" THEN toPeer
                        ELSE Append(toPeer, x)
<1>1. toPeer \o << >> = toPeer
  BY ConcatEmptySeq
<1>2. out' = << >> => toPeer' = toPeer
  BY <1>1 DEF Transmit, Carried
<1>3. ASSUME NEW x \in Packets, out' = <<x>>
      PROVE  toPeer' = IF x = NoBody \/ x.type = "LSAck" THEN toPeer
                       ELSE Append(toPeer, x)
  <2>1. <<x>> # << >> /\ Head(<<x>>) = x
    OBVIOUS
  <2>2. Append(toPeer, x) = toPeer \o <<x>>
    BY AppendIsConcat
  <2> QED
    BY <1>1, <1>3, <2>1, <2>2 DEF Transmit, Carried
<1> QED
  BY <1>2, <1>3

-----------------------------------------------------------------------------
(* The host of the composition is a Neighbor: every step is one of its     *)
(* steps or leaves it alone, and the packets that reach it have the types  *)
(* of packets.                                                             *)

\* The kinds of packets are told apart by their types.
LEMMA PacketKinds ==
  ASSUME NEW m \in Packets
  PROVE  /\ m.type = "DD" <=> m \in DDs
         /\ m \in DDs => m # NoBody /\ m.seq \in Seqs /\ m.hdrs \subseteq LSAs
         /\ m.type \in {"LSR", "LSU", "LSAck"} <=> m \in LSPackets
         /\ m \in LSPackets => m # NoBody /\ m.lsas \subseteq LSAs
         /\ NoBody.type = "no body"
<1>1. ASSUME m \in DDs
      PROVE  m.type = "DD" /\ m.seq \in Seqs /\ m.hdrs \subseteq LSAs
  BY <1>1 DEF DDs
<1>2. ASSUME m \in LSPackets
      PROVE  m.type \in {"LSR", "LSU", "LSAck"} /\ m.lsas \subseteq LSAs
  BY <1>2 DEF LSPackets
<1>3. NoBody.type = "no body"
  BY DEF NoBody
<1>4. m \in DDs \/ m = NoBody \/ m \in LSPackets
  BY DEF Packets
<1> QED
  BY <1>1, <1>2, <1>3, <1>4

\* What a type says of a channel that is not empty.
LEMMA ToHostHead ==
  ASSUME AdjTypeOK, toHost # << >>
  PROVE  Head(toHost) \in Packets
BY HeadTailProperties DEF AdjTypeOK

\* What the peer receives is a packet.
LEMMA ToPeerHead ==
  ASSUME AdjTypeOK, toPeer # << >>
  PROVE  Head(toPeer) \in Packets
BY HeadTailProperties DEF AdjTypeOK

\* A step of the host on the wire is a step of the host.
LEMMA HostReceivesAny ==
  ASSUME AdjTypeOK, HostReceives
  PROVE  AnyStep
<1> DEFINE m == Head(toHost)
<1>1. m \in Packets
  BY ToHostHead DEF HostReceives
<1>2. \/ m.type = "DD" /\ RecvDD(m)
      \/ m.type = "LSR" /\ RecvLSR(m.lsas)
      \/ m.type = "LSU" /\ RecvDirectedLSU(Listing(m.lsas))
      \/ RecvFromUnknown
  BY DEF HostReceives
<1> HIDE DEF m
<1>3. CASE m.type = "DD" /\ RecvDD(m)
  BY <1>1, <1>3, PacketKinds DEF AnyStep, Reception
<1>4. CASE m.type = "LSR" /\ RecvLSR(m.lsas)
  <2>1. m.lsas \in SUBSET LSAs
    BY <1>1, <1>4, PacketKinds
  <2> QED
    BY <1>4, <2>1 DEF AnyStep, Reception
<1>5. CASE m.type = "LSU" /\ RecvDirectedLSU(Listing(m.lsas))
  <2>1. Listing(m.lsas) \in Seq(LSAs)
    BY <1>1, <1>5, PacketKinds, ListingType
  <2> QED
    BY <1>5, <2>1 DEF AnyStep, Reception
<1>6. CASE RecvFromUnknown
  BY <1>6 DEF AnyStep, Reception
<1> QED
  BY <1>2, <1>3, <1>4, <1>5, <1>6

\* The steps of the composed host are steps of Neighbor.
LEMMA HostStepAny ==
  ASSUME AdjTypeOK, HostStep
  PROVE  AnyStep
BY HostReceivesAny
   DEF HostStep, HostInstalls, HostAnnounces, HostRequests, HostRepeats,
       HostInternal, AnyStep, Reception, ThreadStep

\* A Hello of the peer is one the host may hear.
LEMMA HelloToHostAny ==
  ASSUME AdjTypeOK, HelloToHost
  PROVE  AnyStep
<1>1. peer.heard \in BOOLEAN /\ TRUE \in BOOLEAN /\ FALSE \in BOOLEAN
  BY DEF AdjTypeOK, PeerType
<1> QED
  BY <1>1 DEF HelloToHost, AnyStep, Reception

\* The rest of the composition leaves the host alone.
LEMMA AdjNextAny == AdjTypeOK /\ [AdjNext]_avars => [AnyStep]_vars
<1> SUFFICES ASSUME AdjTypeOK, [AdjNext]_avars PROVE [AnyStep]_vars
  OBVIOUS
<1>1. CASE PeerStep \/ HelloToPeer \/ Lose \/ UNCHANGED avars
  BY <1>1 DEF PeerStep, PeerReceives, PeerAnnounces, PeerRequests, HelloToPeer,
              Lose, avars
<1> QED
  BY <1>1, HostStepAny, HelloToHostAny DEF AdjNext

\* The composition starts well typed.
LEMMA InitAdjTyped == AdjInit => AdjTypeOK
<1> SUFFICES ASSUME AdjInit PROVE AdjTypeOK
  OBVIOUS
<1>1. PICK st \in PeerStates :
        peer = [heard |-> start = "remembers", state |-> st,
                seq |-> PeerSeq[start], last |-> NoBody, unsent |-> {},
                req |-> {}, db |-> PeerLSAs]
  BY DEF AdjInit, PeerInit
<1>2. /\ st \in {"INIT", "EXSTART", "FULL"} /\ start \in PeerStarts
      /\ PeerSeq[start] \in Seqs /\ PeerLSAs \subseteq LSAs
  BY PeerAssumption DEF PeerStates, AdjInit
<1>3. peer \in PeerType
  BY <1>1, <1>2 DEF PeerType
<1>4. Len(<< >>) = 0 /\ << >> \in Seq(Packets)
  OBVIOUS
<1>5. /\ toHost = << >> /\ toPeer = << >> /\ losses = 0
      /\ late = FALSE /\ summarized = {}
  BY DEF AdjInit
<1>6. summarized \subseteq LSAs /\ losses \in 0..MaxLosses
  BY <1>5, PeerAssumption
<1>7. late \in BOOLEAN
  BY <1>5, Zenon
<1> QED
  BY <1>2, <1>3, <1>4, <1>5, <1>6, <1>7, PeerAssumption DEF AdjTypeOK

\* Channels stay typed, whatever the host or the peer sends.
LEMMA TransmitTyped ==
  ASSUME AdjTypeOK, Transmit, out' \in Seq(Packets)
  PROVE  toPeer' \in Seq(Packets) /\ Len(toPeer') <= ChanCap
<1>1. Carried(out') \in Seq(Packets)
  BY DEF Carried
<1> QED
  BY <1>1, ConcatProperties DEF Transmit, AdjTypeOK

\* Sending appends one packet to the channel, within its bound.
LEMMA PeerSendsTyped ==
  ASSUME AdjTypeOK, NEW x \in Packets, PeerSends(x)
  PROVE  toHost' \in Seq(Packets) /\ Len(toHost') <= ChanCap
<1>1. toHost' \in Seq(Packets) /\ Len(toHost') = Len(toHost) + 1
  BY AppendProperties DEF PeerSends, AdjTypeOK
<1>2. Len(toHost) \in Nat /\ Len(toHost) < ChanCap /\ ChanCap \in Nat
  BY LenProperties, PeerAssumption DEF PeerSends, AdjTypeOK
<1> QED
  BY <1>1, <1>2

\* A channel that lost its head stays typed.
LEMMA TailTyped ==
  ASSUME AdjTypeOK
  PROVE  /\ toHost # << >> => Tail(toHost) \in Seq(Packets)
                              /\ Len(Tail(toHost)) <= ChanCap
         /\ toPeer # << >> => Tail(toPeer) \in Seq(Packets)
                              /\ Len(Tail(toPeer)) <= ChanCap
<1>1. \A s \in Seq(Packets) : s # << >> /\ Len(s) <= ChanCap =>
        Tail(s) \in Seq(Packets) /\ Len(Tail(s)) <= ChanCap
  <2> TAKE s \in Seq(Packets)
  <2> HAVE s # << >> /\ Len(s) <= ChanCap
  <2>1. /\ Tail(s) \in Seq(Packets) /\ Len(Tail(s)) < Len(s)
        /\ Len(s) \in Nat /\ Len(Tail(s)) \in Nat
    BY ChannelTail, LenProperties
  <2> QED
    BY <2>1, PeerAssumption
<1> QED
  BY <1>1 DEF AdjTypeOK

\* A reply of the peer is a DD.
LEMMA ReplyType ==
  ASSUME NEW d \in DDs, NEW c \in SUBSET LSAs, NEW left
  PROVE  /\ PeerReply(d, c, left) \in DDs
         /\ PeerReply(d, c, left).seq \in Seqs
BY IncType DEF PeerReply, DD, DDs

\* The peer keeps its type, and it sends packets.
LEMMA PeerAnswersTyped ==
  ASSUME AdjTypeOK, NEW d \in DDs, NEW req \in SUBSET LSAs, PeerAnswers(d, req)
  PROVE  /\ peer' \in PeerType
         /\ toHost' \in Seq(Packets) /\ Len(toHost') <= ChanCap
<1>1. PICK c \in Portions(peer.unsent) :
        LET reply == PeerReply(d, c, peer.unsent)
            done  == PeerIsDone(d, reply)
        IN
        /\ peer' = [peer EXCEPT !.seq = reply.seq, !.unsent = @ \ c, !.req = req,
                                !.last = reply,
                                !.state = IF ~done THEN "EXCHANGE"
                                          ELSE IF req = {} THEN "FULL" ELSE "LOADING"]
        /\ IF done /\ ~HostIsMaster THEN toHost' = toHost ELSE PeerSends(reply)
  BY DEF PeerAnswers
<1> DEFINE reply == PeerReply(d, c, peer.unsent)
<1>2. c \in SUBSET LSAs
  BY DEF Portions, AdjTypeOK, PeerType
<1>3. reply \in DDs /\ reply.seq \in Seqs /\ reply \in Packets
  BY <1>2, ReplyType DEF Packets
<1> HIDE DEF reply
<1>4. peer' \in PeerType
  BY <1>1, <1>3 DEF reply, AdjTypeOK, PeerType
<1>5. toHost' = toHost \/ PeerSends(reply)
  BY <1>1 DEF reply
<1> QED
  BY <1>3, <1>4, <1>5, PeerSendsTyped DEF AdjTypeOK

\* What the peer makes of a DD in EXSTART is well typed.
LEMMA PeerNegotiatesTyped ==
  ASSUME AdjTypeOK, NEW d \in DDs, PeerNegotiates(d)
  PROVE  /\ peer' \in PeerType
         /\ toHost' \in Seq(Packets) /\ Len(toHost') <= ChanCap
<1>1. PICK c \in Portions(peer.db) :
        LET reply == PeerReply(d, c, peer.db) IN
        /\ peer' = [peer EXCEPT !.seq = reply.seq, !.unsent = peer.db \ c,
                                !.req = d.hdrs \ peer.db,
                                !.last = reply, !.state = "EXCHANGE"]
        /\ PeerSends(reply)
  BY DEF PeerNegotiates
<1> DEFINE reply == PeerReply(d, c, peer.db)
<1>2. c \in SUBSET LSAs /\ d.hdrs \subseteq LSAs
  BY DEF Portions, AdjTypeOK, PeerType, DDs
<1>3. reply \in DDs /\ reply.seq \in Seqs /\ reply \in Packets
  BY <1>2, ReplyType DEF Packets
<1> HIDE DEF reply
<1>4. peer' \in PeerType
  BY <1>1, <1>2, <1>3 DEF reply, AdjTypeOK, PeerType
<1> QED
  BY <1>1, <1>3, <1>4, PeerSendsTyped DEF reply

\* What the peer makes of a DD from EXCHANGE on is well typed.
LEMMA PeerExchangesTyped ==
  ASSUME AdjTypeOK, NEW d \in DDs, PeerExchanges(d)
  PROVE  /\ peer' \in PeerType
         /\ toHost' \in Seq(Packets) /\ Len(toHost') <= ChanCap
<1>0. peer \in PeerType /\ d.hdrs \subseteq LSAs
  BY DEF AdjTypeOK, DDs
<1>1. CASE peer' = peer /\ PeerSends(peer.last)
  <2>1. peer.last \in Packets
    BY <1>0 DEF PeerType, Packets
  <2> QED
    BY <1>0, <1>1, <2>1, PeerSendsTyped
<1>2. CASE peer' = peer /\ toHost' = toHost
  BY <1>2 DEF AdjTypeOK
<1>3. CASE PeerAnswers(d, peer.req \cup (d.hdrs \ peer.db))
  <2>1. peer.req \cup (d.hdrs \ peer.db) \in SUBSET LSAs
    BY <1>0 DEF PeerType
  <2> QED
    BY <1>3, <2>1, PeerAnswersTyped
<1>4. CASE PeerRestarts
  <2>1. Inc(peer.seq) \in Seqs
    BY <1>0, IncType DEF PeerType
  <2>2. peer' \in PeerType
    BY <1>0, <1>4, <2>1 DEF PeerRestarts, PeerType
  <2> QED
    BY <1>4, <2>2 DEF PeerRestarts, AdjTypeOK
<1> QED
  BY <1>1, <1>2, <1>3, <1>4 DEF PeerExchanges

\* So is what it makes of any packet.
LEMMA PeerReceivesTyped ==
  ASSUME AdjTypeOK, PeerReceives
  PROVE  AdjTypeOK'
<1> DEFINE m == Head(toPeer)
<1>1. m \in Packets /\ toPeer # << >>
  BY ToPeerHead DEF PeerReceives
<1>2. \/ m.type = "DD" /\ (PeerNegotiates(m) \/ PeerExchanges(m))
      \/ m.type = "LSR" /\ PeerAnswersLSR(m)
      \/ m.type = "LSU" /\ PeerInstalls(m)
      \/ PeerDiscards(m)
  BY DEF PeerReceives
<1>3. UNCHANGED <<start, losses, late, summarized>> /\ toPeer' = Tail(toPeer)
  BY DEF PeerReceives, history
<1> HIDE DEF m
<1>4. /\ peer' \in PeerType
      /\ toHost' \in Seq(Packets) /\ Len(toHost') <= ChanCap
  <2>1. CASE m.type = "DD" /\ (PeerNegotiates(m) \/ PeerExchanges(m))
    BY <1>1, <2>1, PacketKinds, PeerNegotiatesTyped, PeerExchangesTyped
  <2>2. CASE m.type = "LSR" /\ PeerAnswersLSR(m)
    <3>1. [type |-> "LSU", lsas |-> m.lsas] \in Packets
      BY <1>1, <2>2, PacketKinds DEF Packets, LSPackets
    <3> QED
      BY <2>2, <3>1, PeerSendsTyped DEF PeerAnswersLSR, AdjTypeOK
  <2>3. CASE m.type = "LSU" /\ PeerInstalls(m)
    <3>1. m.lsas \subseteq LSAs
      BY <1>1, <2>3, PacketKinds
    <3> QED
      BY <2>3, <3>1 DEF PeerInstalls, AdjTypeOK, PeerType
  <2>4. CASE PeerDiscards(m)
    BY <2>4 DEF PeerDiscards, AdjTypeOK
  <2> QED
    BY <1>2, <2>1, <2>2, <2>3, <2>4
<1> QED
  BY <1>1, <1>3, <1>4, TailTyped DEF AdjTypeOK

\* Every step of the composition keeps the type.
LEMMA NextAdjTyped == Typed /\ AdjTypeOK /\ [AdjNext]_avars => (Typed /\ AdjTypeOK)'
<1> SUFFICES ASSUME Typed, AdjTypeOK, [AdjNext]_avars PROVE (Typed /\ AdjTypeOK)'
  OBVIOUS
<1>1. Typed'
  BY AdjNextAny, NextTyped
<1>2. out' \in Seq(Packets)
  BY <1>1 DEF Typed, TypeOK
<1>3. CASE HostStep
  <2>1. \/ toHost' = toHost
        \/ toHost # << >> /\ toHost' = Tail(toHost)
    BY <1>3 DEF HostStep, HostReceives, HostInstalls, HostAnnounces,
                HostRequests, HostRepeats, HostInternal, wire, history
  <2>2. toPeer' = toPeer \/ Transmit
    BY <1>3 DEF HostStep, HostReceives, HostInstalls, HostAnnounces,
                HostRequests, HostRepeats, HostInternal, wire, history
  <2>3. UNCHANGED <<start, peer, losses>>
    BY <1>3 DEF HostStep, HostReceives, HostInstalls, HostAnnounces,
                HostRequests, HostRepeats, HostInternal, wire, history, Transmit
  <2>4. toHost' \in Seq(Packets) /\ Len(toHost') <= ChanCap
    BY <2>1, TailTyped DEF AdjTypeOK
  <2>5. toPeer' \in Seq(Packets) /\ Len(toPeer') <= ChanCap
    BY <1>2, <2>2, TransmitTyped DEF AdjTypeOK
  <2>6. late' \in BOOLEAN /\ summarized' \subseteq LSAs
    <3>1. late' \in {late, late \/ nbr.state # "EXSTART"}
      BY <1>3 DEF HostStep, HostReceives, HostInstalls, HostAnnounces,
                  HostRequests, HostRepeats, HostInternal, wire, history
    <3>2. summarized' \in {summarized, lsdb}
      BY <1>3 DEF HostStep, HostReceives, HostInstalls, HostAnnounces,
                  HostRequests, HostRepeats, HostInternal, wire, history
    <3> QED
      BY <3>1, <3>2 DEF AdjTypeOK, Typed, TypeOK
  <2> QED
    BY <1>1, <2>3, <2>4, <2>5, <2>6 DEF AdjTypeOK
<1>4. CASE PeerReceives
  BY <1>1, <1>4, PeerReceivesTyped
<1>5. CASE PeerAnnounces
  <2>1. PICK x \in {DD(TRUE, TRUE, TRUE, peer.seq, {}, FALSE), peer.last} :
          PeerSends(x)
    BY <1>5 DEF PeerAnnounces
  <2>2. x \in Packets
    <3>1. peer.seq \in Seqs /\ peer.last \in DDs \cup {NoBody}
      BY DEF AdjTypeOK, PeerType
    <3>2. DD(TRUE, TRUE, TRUE, peer.seq, {}, FALSE) \in DDs
      BY <3>1 DEF DD, DDs
    <3> QED
      BY <3>1, <3>2 DEF Packets
  <2> QED
    BY <1>1, <1>5, <2>1, <2>2, PeerSendsTyped DEF PeerAnnounces, AdjTypeOK, history
<1>6. CASE PeerRequests
  <2>1. [type |-> "LSR", lsas |-> peer.req] \in Packets
    BY DEF AdjTypeOK, PeerType, Packets, LSPackets
  <2> QED
    BY <1>1, <1>6, <2>1, PeerSendsTyped DEF PeerRequests, AdjTypeOK, history
<1>7. CASE HelloToHost
  BY <1>1, <1>7 DEF HelloToHost, AdjTypeOK, wire, history
<1>8. CASE HelloToPeer
  <2>1. Inc(peer.seq) \in Seqs /\ peer \in PeerType
    BY IncType DEF AdjTypeOK, PeerType
  <2>2. peer' \in PeerType
    BY <1>8, <2>1 DEF HelloToPeer, PeerType
  <2> QED
    BY <1>1, <1>8, <2>2 DEF HelloToPeer, AdjTypeOK, wire, history
<1>9. CASE Lose
  <2>1. losses' \in 0..MaxLosses
    BY <1>9, PeerAssumption DEF Lose, AdjTypeOK
  <2>2. UNCHANGED <<start, peer, late, summarized>>
    BY <1>9 DEF Lose, history
  <2>3. /\ toHost' \in Seq(Packets) /\ Len(toHost') <= ChanCap
        /\ toPeer' \in Seq(Packets) /\ Len(toPeer') <= ChanCap
    BY <1>9, TailTyped DEF Lose, AdjTypeOK
  <2> QED
    BY <1>1, <2>1, <2>2, <2>3 DEF AdjTypeOK
<1>10. CASE UNCHANGED avars
  BY <1>1, <1>10 DEF avars, wire, history, AdjTypeOK
<1> QED
  BY <1>3, <1>4, <1>5, <1>6, <1>7, <1>8, <1>9, <1>10 DEF AdjNext, PeerStep

\* The composition is well typed, and its host is a Neighbor.
LEMMA AdjTypedAlways == AdjSpec => [](Typed /\ AdjTypeOK)
<1>1. AdjInit => Typed /\ AdjTypeOK
  BY InitTyped, InitAdjTyped DEF AdjInit
<1> QED
  BY <1>1, NextAdjTyped, PTL DEF AdjSpec

\* Every reachable state of the two routers and of the channels between them
\* is well typed, whatever the bounds.
THEOREM AdjTypeCorrect == AdjSpec => []AdjTypeOK
BY AdjTypedAlways, PTL

\* Every behaviour of the composition is one of Neighbor, so what is proved of
\* a host whose peer may send anything at any time holds of it.
THEOREM HostIsNeighbor == AdjSpec => AnySpec
<1>1. AdjInit => Init
  BY DEF AdjInit
<1> QED
  BY <1>1, AdjTypedAlways, AdjNextAny, PTL DEF AdjSpec, AnySpec

\* The composed host implements the abstract exchange.
THEOREM AdjRefinement ==
  ASSUME NoKeyClash
  PROVE  AdjSpec => ImplementsExchange
BY HostIsNeighbor, RefinementAny, PTL

-----------------------------------------------------------------------------
(* No crash. A packet for a neighbour the host does not know ends the      *)
(* program. Nothing reaches a host in DOWN from a peer that starts fresh:  *)
(* the peer is in INIT, where it sends nothing, until the host lists it.   *)

\* The switch does not return to DOWN.
LEMMA ArrivedKnown ==
  ASSUME Typed, NEW p \in DDs, nbr.state # "DOWN"
  PROVE  Arrived(p).state # "DOWN"
<1> DEFINE k == [nbr EXCEPT !.last_dd_seq_num = p.seq]
           m == Event2WayReceived(k)
           r1 == [m EXCEPT !.is_master = TRUE, !.dd_seq_num = p.seq]
           r2 == [m EXCEPT !.is_master = FALSE]
<1>1. k \in NeighborType /\ k.state = nbr.state
  BY DEF Typed, TypeOK, NeighborType, DDs
<1>2. Arrived(p) = Negotiate(k, p)
  BY DEF Arrived
<1> HIDE DEF k
<1>3. m \in NeighborType /\ m.state # "DOWN"
  BY <1>1, TwoWayType, TwoWayCourse
<1>4. Negotiate(k, p) \in {m, EventNegotiationDone(r1), EventNegotiationDone(r2)}
  BY DEF Negotiate
<1> HIDE DEF m
<1>5. /\ r1 \in NeighborType /\ r1.state = m.state
      /\ r2 \in NeighborType /\ r2.state = m.state
  BY <1>3 DEF NeighborType, DDs
<1> HIDE DEF r1, r2
<1>6. \A n \in {r1, r2} : EventNegotiationDone(n).state # "DOWN"
  BY <1>3, <1>5 DEF EventNegotiationDone, NeighborType
<1> QED
  BY <1>2, <1>3, <1>4, <1>6

\* A neighbour keeps its id, and stays in neighbor_list once it is there.
LEMMA NeighborStays ==
  ASSUME Typed, [AnyStep]_vars
  PROVE  /\ nbr'.id = nbr.id
         /\ nbr.state # "DOWN" => nbr'.state # "DOWN"
<1>0. nbr \in NeighborType
  BY DEF Typed, TypeOK
<1>1. CASE RecvOther \/ RecvFromUnknown \/ LSRSend \/ Retransmit
           \/ WaitTimer \/ Exit \/ UNCHANGED vars
  BY <1>1 DEF RecvOther, RecvFromUnknown, LSRSend, Retransmit, WaitTimer, Exit,
              vars
<1>2. ASSUME NEW s, RecvMulticastLSU(s) \/ RecvDirectedLSU(s)
      PROVE  nbr' = nbr
  BY <1>2 DEF RecvMulticastLSU, RecvDirectedLSU
<1>3. CASE LSRExits \/ LoadDoneTest \/ LoadDoneCommit \/ LSURemove
  BY <1>0, <1>3 DEF LSRExits, LoadDoneTest, LoadDoneCommit, LSURemove,
                    NeighborType
<1>7. CASE Announce
  BY <1>0, <1>7, AnnounceCourse DEF SameButAnnouncers
<1>4. ASSUME NEW twoWay \in BOOLEAN, NEW adjacent \in BOOLEAN,
             NEW elects \in BOOLEAN, RecvHello(twoWay, adjacent, elects)
      PROVE  nbr'.id = nbr.id /\ nbr'.state # "DOWN"
  <2> DEFINE m == [nbr EXCEPT !.adjacent = adjacent]
             h == EventHelloReceived(m)
  <2>1. m \in NeighborType /\ m.id = nbr.id
    BY <1>0 DEF NeighborType
  <2>2. nbr' \in {Event2WayReceived(h), Event1WayReceived(h)}
    BY <1>4 DEF RecvHello
  <2> HIDE DEF m
  <2>3. h \in NeighborType /\ h.id = m.id /\ h.state # "DOWN"
    BY <2>1, HelloType DEF EventHelloReceived, NeighborType
  <2> HIDE DEF h
  <2>4. Event2WayReceived(h).id = h.id /\ Event2WayReceived(h).state # "DOWN"
    BY <2>3, TwoWayCourse DEF SameCourse
  <2>5. Event1WayReceived(h).id = h.id /\ Event1WayReceived(h).state # "DOWN"
    BY <2>3 DEF Event1WayReceived, NeighborType
  <2> QED
    BY <2>1, <2>2, <2>3, <2>4, <2>5
<1>5. ASSUME NEW asked \in SUBSET LSAs, RecvLSR(asked)
      PROVE  nbr'.id = nbr.id /\ nbr'.state # "DOWN"
  <2>1. nbr' \in {nbr, EventSeqNumberMismatch(nbr)} /\ nbr.state # "DOWN"
    BY <1>5 DEF RecvLSR
  <2> QED
    BY <1>0, <2>1 DEF EventSeqNumberMismatch, NeighborType
<1>6. ASSUME NEW p \in DDs, RecvDD(p)
      PROVE  nbr'.id = nbr.id /\ nbr'.state # "DOWN"
  <2> DEFINE n == Arrived(p)
  <2>1. n \in NeighborType /\ n.id = nbr.id /\ n.state # "DOWN"
    <3>1. nbr.state # "DOWN"
      BY <1>6 DEF RecvDD
    <3> QED
      BY <3>1, ArrivedKnown, ArrivedCourse
         DEF Typed, SameRound, SameCourse, Agreed
  <2>2. \/ DDIgnored(p, n) \/ DDDuplicate(p, n) \/ DDMismatch(p, n)
        \/ DDLate(p, n) \/ DDAnsweredBySlave(p, n) \/ DDAnsweredByMaster(p, n)
    BY <1>6 DEF RecvDD
  <2> HIDE DEF n
  <2>3. \/ nbr' = n
        \/ SameCourse(nbr', n) /\ nbr'.state = "EXSTART"
        \/ Answered(n, p)
    BY <2>1, <2>2, DDOutcome DEF Typed
  <2> QED
    BY <2>1, <2>3 DEF SameCourse, Answered
<1> QED
  BY <1>1, <1>2, <1>3, <1>4, <1>5, <1>6, <1>7
     DEF AnyStep, Reception, ThreadStep, Announce

\* Only the packet of an unknown neighbour crashes the receiver.
LEMMA OnlyUnknownCrashes ==
  ASSUME [AnyStep]_vars, receiver # "crashed", receiver' = "crashed"
  PROVE  nbr.state = "DOWN"
<1>1. LoopTop # "crashed"
  BY DEF LoopTop
<1>2. receiver' # receiver
  OBVIOUS
<1>3. ~ThreadStep /\ ~UNCHANGED vars
  BY <1>2 DEF ThreadStep, AnnounceTest, AnnounceRead, AnnounceSend, AnnounceEnds,
              LSRSend, LoadDoneTest, LoadDoneCommit, LSRExits, Retransmit,
              WaitTimer, Exit, vars
<1>4. Reception
  BY <1>3 DEF AnyStep
<1>5. ~(RecvOther \/ LSURemove)
  BY <1>1 DEF RecvOther, LSURemove
<1>6. /\ \A a, b, c : ~RecvHello(a, b, c)
      /\ \A p : ~RecvDD(p)
      /\ \A s : ~RecvLSR(s) /\ ~RecvMulticastLSU(s) /\ ~RecvDirectedLSU(s)
  BY <1>1 DEF RecvHello, RecvDD, RecvLSR, RecvMulticastLSU, RecvDirectedLSU
<1> QED
  BY <1>4, <1>5, <1>6 DEF Reception, RecvFromUnknown

Unheard ==
  /\ toHost = << >> /\ toPeer = << >> /\ peer.state = "INIT"
  /\ rxmt = {} /\ nbr.lsr_threads = 0 /\ ~load_done /\ receiver # "lsu"
  /\ nbr.dd_waiting = 0 /\ nbr.dd_tested = 0 /\ \A s \in Seqs : nbr.dd_sending[s] = 0

FreshIsSafe ==
  start = "fresh" => receiver # "crashed" /\ (nbr.state = "DOWN" => Unheard)

\* While the host does not know its peer, nothing is sent to it.
LEMMA NextUnheard ==
  ASSUME Typed, AdjTypeOK, [AdjNext]_avars, nbr.state = "DOWN",
         nbr'.state = "DOWN", Unheard
  PROVE  Unheard'
<1>0. nbr \in NeighborType /\ nbr.lsr_threads = 0 /\ ~(nbr.lsr_threads > 0)
  BY DEF Typed, TypeOK, Unheard
<1>1. ~HostReceives /\ ~HostInstalls /\ ~PeerReceives /\ ~Lose
  BY DEF HostReceives, HostInstalls, LSURemove, PeerReceives, Lose, Unheard
<1>2. ~HostAnnounces /\ ~HostRequests /\ ~HostRepeats
  BY <1>0 DEF HostAnnounces, AnnounceSend, HostRequests, LSRSend, HostRepeats,
              Retransmit, Unheard
<1>3. ~PeerAnnounces /\ ~PeerRequests
  BY DEF PeerAnnounces, PeerRequests, Unheard
<1>4. /\ ~LoadDoneTest /\ ~LoadDoneCommit /\ ~LSRExits
      /\ ~AnnounceTest /\ ~AnnounceRead /\ ~AnnounceEnds
  BY <1>0 DEF LoadDoneTest, LoadDoneCommit, LSRExits, AnnounceTest, AnnounceRead,
              AnnounceEnds, Unheard
<1>5. CASE HostInternal(WaitTimer) \/ HostInternal(Exit) \/ UNCHANGED avars
  BY <1>5 DEF HostInternal, WaitTimer, Exit, avars, wire, vars, Unheard
<1>6. CASE HelloToHost
  <2>1. PICK twoWay \in BOOLEAN : RecvHello(twoWay, TRUE, FALSE)
    BY <1>6 DEF HelloToHost, AdjTypeOK, PeerType
  <2> DEFINE m == [nbr EXCEPT !.adjacent = TRUE]
             h == EventHelloReceived(m)
  <2>2. m \in NeighborType
    BY <1>0 DEF NeighborType
  <2>3. h \in NeighborType /\ h.state # "DOWN"
    BY <2>2, HelloType DEF EventHelloReceived, NeighborType
  <2>4. nbr' \in {Event2WayReceived(h), Event1WayReceived(h)}
    BY <2>1 DEF RecvHello
  <2> HIDE DEF h
  <2>5. Event2WayReceived(h).state # "DOWN"
    BY <2>3, TwoWayCourse
  <2>6. Event1WayReceived(h).state # "DOWN"
    BY <2>3 DEF Event1WayReceived, NeighborType
  <2>7. nbr'.state # "DOWN"
    BY <2>4, <2>5, <2>6
  <2> QED
    BY <2>7
<1>7. CASE HelloToPeer
  <2>1. UNCHANGED <<nbr, toHost, toPeer, rxmt, load_done, receiver>>
    BY <1>7 DEF HelloToPeer, wire, vars
  <2>2. peer'.state = "INIT"
    BY <1>7 DEF HelloToPeer, HelloLists, AdjTypeOK, PeerType
  <2> QED
    BY <2>1, <2>2 DEF Unheard
<1> QED
  BY <1>1, <1>2, <1>3, <1>4, <1>5, <1>6, <1>7
     DEF AdjNext, HostStep, PeerStep, HostInternal

\* A peer that starts fresh stays in INIT, and silent, until the host knows it.
LEMMA NextFreshIsSafe ==
  Typed /\ AdjTypeOK /\ FreshIsSafe /\ [AdjNext]_avars => FreshIsSafe'
<1> SUFFICES ASSUME Typed, AdjTypeOK, FreshIsSafe, [AdjNext]_avars,
                    start' = "fresh"
             PROVE  /\ receiver' # "crashed"
                    /\ nbr'.state = "DOWN" => Unheard'
  BY DEF FreshIsSafe
<1>1. start = "fresh"
  BY DEF AdjNext, HostStep, HostReceives, HostInstalls, HostAnnounces,
         HostRequests, HostRepeats, HostInternal, PeerStep, PeerReceives,
         PeerAnnounces, PeerRequests, HelloToHost, HelloToPeer, Lose,
         Transmit, avars, wire
<1>2. [AnyStep]_vars
  BY AdjNextAny
<1>3. receiver' # "crashed"
  <2> SUFFICES ASSUME receiver' = "crashed" PROVE FALSE
    OBVIOUS
  <2>1. receiver # "crashed" /\ receiver' # receiver
    BY <1>1 DEF FreshIsSafe
  <2>2. nbr.state = "DOWN" /\ Unheard
    BY <1>1, <1>2, <2>1, OnlyUnknownCrashes DEF FreshIsSafe
  <2>3. toHost = << >> /\ receiver # "lsu" /\ LoopTop # "crashed"
    BY <2>2 DEF Unheard, LoopTop
  <2>4. CASE HostStep
    BY <2>1, <2>3, <2>4
       DEF HostStep, HostReceives, HostInstalls, LSURemove, HostAnnounces,
           AnnounceSend, HostRequests, LSRSend, HostRepeats, Retransmit,
           HostInternal, AnnounceTest, AnnounceRead, AnnounceEnds, LoadDoneTest,
           LoadDoneCommit, LSRExits, WaitTimer, Exit
  <2>5. CASE HelloToHost
    BY <2>3, <2>5 DEF HelloToHost, RecvHello
  <2>6. CASE PeerStep \/ HelloToPeer \/ Lose \/ UNCHANGED avars
    BY <2>1, <2>6 DEF PeerStep, PeerReceives, PeerAnnounces, PeerRequests,
                      HelloToPeer, Lose, avars, vars
  <2> QED
    BY <2>4, <2>5, <2>6 DEF AdjNext
<1>4. ASSUME nbr'.state = "DOWN" PROVE Unheard'
  <2>1. nbr.state = "DOWN"
    BY <1>2, <1>4, NeighborStays
  <2> QED
    BY <1>1, <1>4, <2>1, NextUnheard DEF FreshIsSafe
<1> QED
  BY <1>3, <1>4

\* A peer that starts fresh never reaches the unchecked getNeighbor of the DD,
\* LSR and LSU handlers before the host knows it, whatever is lost.
THEOREM FreshPeerIsKnown == AdjSpec => []NeverCrashes
<1>1. AdjInit => FreshIsSafe
  <2> SUFFICES ASSUME AdjInit, start = "fresh" PROVE FreshIsSafe
    BY DEF FreshIsSafe
  <2>1. /\ nbr.lsr_threads = 0 /\ nbr.dd_waiting = 0 /\ nbr.dd_tested = 0
        /\ \A s \in Seqs : nbr.dd_sending[s] = 0
    BY DEF AdjInit, Init, Absent
  <2>2. peer.state = "INIT"
    BY DEF AdjInit, PeerInit, PeerStates
  <2> QED
    BY <2>1, <2>2 DEF AdjInit, Init, FreshIsSafe, Unheard
<1>2. FreshIsSafe => NeverCrashes
  BY DEF FreshIsSafe, NeverCrashes
<1> QED
  BY <1>1, <1>2, AdjTypedAlways, NextFreshIsSafe, PTL DEF AdjSpec
=============================================================================
