----------------------------- MODULE Adjacency ------------------------------
(***************************************************************************)
(* The host of Neighbor and a peer that follows RFC 2328, connected by two *)
(* FIFO channels that may lose packets. The one with the smaller router id *)
(* is the slave of the exchange, the other one its master.                 *)
(*                                                                         *)
(* The peer is no code of this repository; it is modelled from the packets *)
(* the host expects of it. Hellos are periodic and are never in flight:    *)
(* one is heard in the state its sender is in.                             *)
(***************************************************************************)
EXTENDS Neighbor

CONSTANTS
  PeerLSAs,             \* the LSAs the peer starts with
  PeerStarts,           \* how the peer may start: "fresh", or "remembers" a
                        \* host that restarts while the peer keeps its state
  PeerSeq,              \* the DD number of the peer before it first sends one
  ChanCap, MaxLosses    \* bounds

ASSUME PeerAssumption ==
  /\ PeerStarts \subseteq {"fresh", "remembers"}
  /\ PeerLSAs \subseteq LSAs /\ PeerSeq \in [PeerStarts -> Seqs]
  /\ ChanCap \in Nat /\ MaxLosses \in Nat

VARIABLES
  start,     \* how the peer started, one of PeerStarts
  peer,      \* the peer's view of the host
  toHost,    \* packets on their way to the host
  toPeer,    \* packets on their way to the peer
  losses,    \* packets lost so far
  late,      \* history: an empty DD left the host outside EXSTART
  summarized \* history: the database when the summary list was last written

history == <<late, summarized>>
wire == <<start, toHost, toPeer, losses, history>>
avars == <<vars, peer, wire>>

-----------------------------------------------------------------------------
(* The peer                                                                *)

\* heard: it heard a Hello of the host. last: the DD it sent last. unsent:
\* what it has not described yet. req: what it has to request.
PeerType ==
  [heard : BOOLEAN, state : {"INIT", "EXSTART", "EXCHANGE", "LOADING", "FULL"},
   seq : Seqs, last : DDs \cup {NoBody}, unsent : SUBSET LSAs,
   req : SUBSET LSAs, db : SUBSET LSAs]

\* A peer that remembers the host was full with it, or was forming it.
PeerStates == IF start = "fresh" THEN {"INIT"} ELSE {"EXSTART", "FULL"}

PeerInit ==
  \E st \in PeerStates :
    peer = [heard |-> start = "remembers", state |-> st, seq |-> PeerSeq[start],
            last |-> NoBody, unsent |-> {}, req |-> {}, db |-> PeerLSAs]

\* A packet the peer acts upon: acknowledgements stop the flooding of LSUs,
\* which the peer does not do here, and a DD without a body is discarded.
Carried(pkts) ==
  IF pkts = << >> \/ Head(pkts) = NoBody \/ Head(pkts).type = "LSAck"
  THEN << >> ELSE pkts

PeerSends(p) == toHost' = Append(toHost, p) /\ Len(toHost) < ChanCap

PeerRestarts ==
  /\ peer' = [peer EXCEPT !.state = "EXSTART", !.seq = Inc(@), !.req = {}]
  /\ toHost' = toHost

\* The LSAs one DD may describe: some of what is left, if anything is.
Portions(left) == {c \in SUBSET left : c = {} => left = {}}

HostIsMaster == nbr.id < RouterId

\* The peer's next DD, as a reply to d, with c out of what is left.
PeerReply(d, c, left) ==
  DD(FALSE, c # left, ~HostIsMaster,
     IF HostIsMaster THEN d.seq ELSE Inc(d.seq), c, FALSE)

\* A slave replies to the master's last DD and is done; a master is done when
\* both have nothing more.
PeerIsDone(d, reply) ==
  ~d.M /\ IF HostIsMaster THEN ~reply.M ELSE ~peer.last.M

PeerAnswers(d, req) ==
  \E c \in Portions(peer.unsent) :
    LET reply == PeerReply(d, c, peer.unsent)
        done  == PeerIsDone(d, reply)
    IN
    /\ peer' = [peer EXCEPT !.seq = reply.seq, !.unsent = @ \ c, !.req = req,
                            !.last = reply,
                            !.state = IF ~done THEN "EXCHANGE"
                                      ELSE IF req = {} THEN "FULL" ELSE "LOADING"]
    /\ IF done /\ ~HostIsMaster THEN toHost' = toHost ELSE PeerSends(reply)

\* EXSTART: the host's empty DD makes the peer slave; its DD with the number
\* of the peer's empty DD makes the peer master.
Agrees(d) ==
  IF HostIsMaster THEN d.I /\ d.M /\ d.MS
  ELSE ~d.I /\ ~d.MS /\ d.seq = peer.seq

PeerNegotiates(d) ==
  /\ peer.state = "EXSTART" /\ Agrees(d)
  /\ \E c \in Portions(peer.db) :
       LET reply == PeerReply(d, c, peer.db) IN
       /\ peer' = [peer EXCEPT !.seq = reply.seq, !.unsent = peer.db \ c,
                               !.req = d.hdrs \ peer.db,
                               !.last = reply, !.state = "EXCHANGE"]
       /\ PeerSends(reply)

\* EXCHANGE and later: a slave answers a repeated DD with its last one, a
\* master discards it; the next one is absorbed in EXCHANGE, anything else is
\* a mismatch.
Repeats(d) == IF HostIsMaster THEN d.seq = peer.seq ELSE Inc(d.seq) = peer.seq
IsNext(d)  == IF HostIsMaster THEN d.seq = Inc(peer.seq) ELSE d.seq = peer.seq

PeerExchanges(d) ==
  /\ peer.state \in {"EXCHANGE", "LOADING", "FULL"}
  /\ IF Repeats(d)
     THEN peer' = peer /\ IF HostIsMaster THEN PeerSends(peer.last) ELSE toHost' = toHost
     ELSE IF peer.state = "EXCHANGE" /\ ~d.I /\ d.MS = HostIsMaster /\ IsNext(d)
     THEN PeerAnswers(d, peer.req \cup (d.hdrs \ peer.db))
     ELSE PeerRestarts

\* The host requests only what the peer described.
PeerAnswersLSR(m) ==
  /\ peer.state \in {"EXCHANGE", "LOADING", "FULL"}
  /\ peer' = peer /\ PeerSends([type |-> "LSU", lsas |-> m.lsas])

PeerInstalls(m) ==
  LET req == peer.req \ m.lsas IN
  /\ peer' = [peer EXCEPT !.db = @ \cup m.lsas, !.req = req,
                          !.state = IF @ = "LOADING" /\ req = {} THEN "FULL" ELSE @]
  /\ UNCHANGED toHost

PeerDiscards(m) ==
  /\ m.type \in {"DD", "LSR"}
  /\ \/ peer.state = "INIT"
     \/ peer.state = "EXSTART" /\ ~(m.type = "DD" /\ Agrees(m))
  /\ UNCHANGED <<peer, toHost>>

PeerReceives ==
  /\ toPeer # << >>
  /\ LET m == Head(toPeer) IN
       \/ m.type = "DD" /\ (PeerNegotiates(m) \/ PeerExchanges(m))
       \/ m.type = "LSR" /\ PeerAnswersLSR(m)
       \/ m.type = "LSU" /\ PeerInstalls(m)
       \/ PeerDiscards(m)
  /\ toPeer' = Tail(toPeer)
  /\ UNCHANGED <<vars, start, losses, history>>

\* The peer's timers: its own empty DD in EXSTART, a master's last DD, its
\* outstanding requests.
PeerAnnounces ==
  /\ peer.state = "EXSTART" \/ (peer.state = "EXCHANGE" /\ ~HostIsMaster)
  /\ toHost = << >>
  /\ PeerSends(IF peer.state = "EXSTART"
               THEN DD(TRUE, TRUE, TRUE, peer.seq, {}, FALSE) ELSE peer.last)
  /\ UNCHANGED <<vars, start, peer, toPeer, losses, history>>

PeerRequests ==
  /\ peer.state \in {"EXCHANGE", "LOADING"} /\ peer.req # {} /\ toHost = << >>
  /\ PeerSends([type |-> "LSR", lsas |-> peer.req])
  /\ UNCHANGED <<vars, start, peer, toPeer, losses, history>>

-----------------------------------------------------------------------------
(* Hellos. threadSendHelloPackets lists every neighbour the host knows;    *)
(* one that does not list the peer takes the peer back to INIT.            *)

\* Mutant of HelloLists: a host is listed before its first Hello is stored.
HelloListsAny == TRUE

HelloLists == nbr.state # "DOWN"

HelloToPeer ==
  /\ ~to_exit
  /\ peer' = [peer EXCEPT !.heard = TRUE,
                          !.state = IF ~HelloLists THEN "INIT"
                                    ELSE IF @ = "INIT" THEN "EXSTART" ELSE @,
                          !.seq = IF HelloLists /\ peer.state = "INIT"
                                  THEN Inc(@) ELSE @]
  /\ UNCHANGED <<vars, wire>>

HelloToHost ==
  /\ RecvHello(peer.heard, TRUE, FALSE)
  /\ UNCHANGED <<peer, wire>>

-----------------------------------------------------------------------------
(* The host on the wire                                                    *)

Transmit ==
  /\ toPeer' = toPeer \o Carried(out') /\ Len(toPeer') <= ChanCap
  /\ UNCHANGED <<start, peer, losses>>

HostReceives ==
  /\ toHost # << >>
  /\ LET m == Head(toHost) IN
       \/ m.type = "DD" /\ RecvDD(m)
       \/ m.type = "LSR" /\ RecvLSR(m.lsas)
       \/ m.type = "LSU" /\ RecvDirectedLSU(Listing(m.lsas))
       \/ RecvFromUnknown
  /\ toHost' = Tail(toHost)
  /\ summarized' = IF nbr'.negotiations > nbr.negotiations THEN lsdb ELSE summarized
  /\ Transmit /\ UNCHANGED late

HostInstalls == LSURemove /\ Transmit /\ UNCHANGED <<toHost, history>>

\* Timers of the host: nothing it sent before is still in flight, unless the
\* state changed since the thread that announces tested it.
HostAnnounces ==
  /\ \E s \in Seqs : AnnounceSend(s)
  /\ nbr.state = "EXSTART" => toPeer = << >>
  /\ late' = (late \/ nbr.state # "EXSTART")
  /\ Transmit /\ UNCHANGED <<toHost, summarized>>

HostRequests == LSRSend    /\ toPeer = << >> /\ Transmit /\ UNCHANGED <<toHost, history>>
HostRepeats  == Retransmit /\ toPeer = << >> /\ Transmit /\ UNCHANGED <<toHost, history>>

HostInternal(A) == A /\ UNCHANGED <<peer, wire>>

Lose ==
  /\ losses < MaxLosses /\ losses' = losses + 1
  /\ \/ toHost # << >> /\ toHost' = Tail(toHost) /\ UNCHANGED toPeer
     \/ toPeer # << >> /\ toPeer' = Tail(toPeer) /\ UNCHANGED toHost
  /\ UNCHANGED <<vars, start, peer, history>>

-----------------------------------------------------------------------------
AdjInit ==
  Init /\ start \in PeerStarts /\ PeerInit
  /\ toHost = << >> /\ toPeer = << >> /\ losses = 0
  /\ late = FALSE /\ summarized = {}

HostStep ==
  \/ HostReceives \/ HostInstalls
  \/ HostAnnounces \/ HostRequests \/ HostRepeats
  \/ HostInternal(AnnounceTest) \/ HostInternal(AnnounceRead)
  \/ HostInternal(AnnounceEnds) \/ HostInternal(LoadDoneTest)
  \/ HostInternal(LoadDoneCommit) \/ HostInternal(LSRExits)
  \/ HostInternal(WaitTimer) \/ HostInternal(Exit)

PeerStep == PeerReceives \/ PeerAnnounces \/ PeerRequests

AdjNext ==
  /\ receiver # "crashed"
  /\ HostStep \/ PeerStep \/ HelloToHost \/ HelloToPeer \/ Lose
  /\ Bounded'

\* Every thread runs again after its sleep, a free mutex is obtained, both
\* routers keep sending Hellos, and what is not lost arrives.
Fairness ==
  /\ WF_avars(HostReceives) /\ WF_avars(HostInstalls)
  /\ WF_avars(HostAnnounces) /\ WF_avars(HostRequests) /\ WF_avars(HostRepeats)
  /\ WF_avars(HostInternal(AnnounceTest)) /\ WF_avars(HostInternal(AnnounceRead))
  /\ WF_avars(HostInternal(AnnounceEnds)) /\ WF_avars(HostInternal(LoadDoneTest))
  /\ WF_avars(HostInternal(LoadDoneCommit)) /\ WF_avars(HostInternal(WaitTimer))
  /\ WF_avars(HelloToHost) /\ WF_avars(HelloToPeer)
  /\ WF_avars(PeerReceives) /\ WF_avars(PeerAnnounces) /\ WF_avars(PeerRequests)

AdjSpec == AdjInit /\ [][AdjNext]_avars /\ Fairness

-----------------------------------------------------------------------------
(* Properties                                                              *)

\* Type invariant of the peer and the wire.
AdjTypeOK ==
  /\ start \in PeerStarts /\ peer \in PeerType /\ losses \in 0..MaxLosses
  /\ toHost \in Seq(Packets) /\ toPeer \in Seq(Packets)
  /\ Len(toHost) <= ChanCap /\ Len(toPeer) <= ChanCap
  /\ late \in BOOLEAN /\ summarized \subseteq LSAs

\* getNeighbor(src_ip) is never null: a peer sends its first DD, request or
\* directed LSU only after the host listed it in a Hello. A peer that remembers
\* a host which restarted may send one earlier.
NeverCrashes == start = "fresh" => receiver # "crashed"

\* Two full routers hold the same LSAs, whatever was lost, repeated or
\* answered late on the way: all the peer has, and all the host had when it
\* wrote its summary list. What it originates after that is not described, and
\* an empty DD sent after EXSTART makes the peer start over.
FullMeansEqual ==
  nbr.state = "FULL" /\ peer.state = "FULL" /\ ~late =>
    peer.db \subseteq lsdb /\ summarized \subseteq peer.db

HostDone == nbr.state \in {"LOADING", "FULL"} /\ ~nbr.is_master

\* "Master would always evoke this event after Slave": when the host, as
\* master, is done with the exchange, so is the slave.
MasterDoneAfterSlave == HostDone => peer.state \in {"LOADING", "FULL"}

\* It is, when the host had an LSA to describe at all, and sent no empty DD
\* after EXSTART.
DescribedMasterIsLast ==
  HostDone /\ summarized # {} /\ ~late => peer.state \in {"LOADING", "FULL"}


\* "interface is slave" ... "Reply to the DD packet received": a host that is
\* slave reaches FULL as well.
SlaveBecomesFull ==
  start = "fresh" /\ ~HostIsMaster => <>(nbr.state = "FULL" \/ to_exit)

\* Typing "exit" ends the program: main joins the receiver.
ExitEnds == to_exit ~> receiver = "exited"
=============================================================================
