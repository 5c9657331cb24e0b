------------------------------ MODULE Neighbor ------------------------------
(***************************************************************************)
(* One adjacency of a RuOSPF host: the Neighbor object (src/neighbor.cpp), *)
(* the threads that work on it and the packet handlers that drive it       *)
(* (src/packet_manage.cpp).                                                *)
(*                                                                         *)
(* Threads.  The receiver runs one handler per packet; it can only be      *)
(* stopped half way by the mutex of the request list, so a handler is one  *)
(* action except in the LSU handler, which takes that mutex once per LSA.  *)
(* Each thread that announces an empty DD, each thread that requests LSAs, *)
(* the retransmitter and the wait timer have actions of their own.         *)
(*                                                                         *)
(* The peer is unconstrained here: any packet may arrive at any time, so   *)
(* what holds in this module holds for lost, repeated, late and malformed  *)
(* exchanges alike.  Adjacency composes these actions with a real peer.    *)
(***************************************************************************)
EXTENDS Integers, Sequences, FiniteSets

CONSTANTS
  RouterId,       \* myconfigs::router_id
  NbrIds,         \* the router ids the neighbour may have
  MaxSeq,         \* DD sequence numbers are 0..MaxSeq and wrap like uint32_t
  Swap,           \* the byte order conversion htonl/ntohl on sequence numbers
  LSAs,           \* the LSAs of the area, one per (type, link state id, router)
  ReqKey,         \* ReqKey[l]: the (link state id, advertising router) of l
  SelfRouter,     \* the router LSA this host originates
  SelfNetwork,    \* the network LSA it originates as designated router
  HostIsDR,       \* interface->dr = interface->ip
  DDLimit,        \* LSA headers in one DD packet (10 in the code)
  CanExit,        \* TRUE: the operator may type "exit"
  MaxThreads, MaxReq, MaxRxmt, MaxNegotiations, MaxLSU     \* bounds

Seqs == 0..MaxSeq

ASSUME ConfigAssumption ==
  /\ RouterId \in Nat /\ NbrIds \subseteq Nat \ {RouterId}
  /\ MaxSeq \in Nat /\ Swap \in [Seqs -> Seqs]
  /\ IsFiniteSet(LSAs) /\ SelfRouter \in LSAs /\ SelfNetwork \in LSAs
  /\ HostIsDR \in BOOLEAN /\ CanExit \in BOOLEAN
  /\ DDLimit \in Nat \ {0}
  /\ MaxThreads \in Nat /\ MaxReq \in Nat /\ MaxRxmt \in Nat
  /\ MaxNegotiations \in Nat /\ MaxLSU \in Nat

\* No two LSAs of the area share link state id and advertising router.
NoKeyClash == \A l, m \in LSAs : ReqKey[l] = ReqKey[m] => l = m

VARIABLES
  nbr,        \* the Neighbor object
  req_lock,   \* link_state_req_list_lock: "free" or "held"
  load_done,  \* the holder of req_lock is in eventLoadDone, past its test
  rxmt,       \* Retransmitter::packet_list, the packets awaiting an ack
  alloc_id,   \* Retransmitter::alloc_id
  lsdb,       \* the LSAs of which the database holds an instance
  receiver,   \* the receiver thread: "recv", "lsu", "exited" or "crashed"
  lsu,        \* the directed LSU being installed
  lsu_i,      \* the loop variable i, from 1: lsu[lsu_i] is in the database
  to_exit,    \* the exit flag of setting.cpp
  out         \* the packets the last step handed to the socket

vars == <<nbr, req_lock, load_done, rxmt, alloc_id, lsdb, receiver, lsu,
          lsu_i, to_exit, out>>

-----------------------------------------------------------------------------
(* Packets.  The seq field of a DD is the number the receiver reads off it.*)

\* Mutant of DD: a master never clears the more flag.
DDAlwaysMore(I, M, MS, seq, hdrs, garbled) ==
  [type |-> "DD", I |-> I, M |-> M \/ MS, MS |-> MS, seq |-> seq,
   hdrs |-> hdrs, garbled |-> garbled]

DD(I, M, MS, seq, hdrs, garbled) ==
  [type |-> "DD", I |-> I, M |-> M, MS |-> MS, seq |-> seq,
   hdrs |-> hdrs, garbled |-> garbled]

DDs == [type : {"DD"}, I : BOOLEAN, M : BOOLEAN, MS : BOOLEAN, seq : Seqs,
        hdrs : SUBSET LSAs, garbled : BOOLEAN]

\* last_dd_data before anything was copied to it: a DD without a body
NoBody == [type |-> "no body"]

LSPackets == [type : {"LSR", "LSU", "LSAck"}, lsas : SUBSET LSAs]

Packets == DDs \cup {NoBody} \cup LSPackets

-----------------------------------------------------------------------------
(* The neighbour: its states in the order of the enumeration, its fields.  *)

Adjacent == {"EXCHANGE", "LOADING", "FULL"}            \* >= S_EXCHANGE
TwoWay   == {"2WAY", "EXSTART"} \cup Adjacent          \* >= S_2WAY
States   == {"DOWN", "INIT"} \cup TwoWay

\* adjacent: the neighbour or this host is DR or BDR in the last Hello.
\* Of the threads that announce, dd_waiting are at the top of their loop,
\* dd_tested found the state to be EXSTART, and dd_sending[s] have read the
\* number s since; lsr_threads request LSAs.
\* History: described are the LSAs the neighbour described since the last
\* negotiation, checked counts the negotiations when eventLoadDone tested the
\* state, claimed says that it found the neighbour in another one afterwards.
NeighborType ==
  [id : NbrIds, adjacent : BOOLEAN, state : States, is_master : BOOLEAN,
   dd_seq_num : Seqs, last_dd_seq_num : Seqs, last_dd_data : DDs \cup {NoBody},
   rxmt_map : [Seqs -> Nat \cup {-1}], summary : Seq(LSAs),
   req : [LSAs -> Nat], described : SUBSET LSAs, negotiations : Nat,
   dd_waiting : Nat, dd_tested : Nat, dd_sending : [Seqs -> Nat],
   lsr_threads : Nat, checked : Nat, claimed : BOOLEAN]

\* The object of a neighbour not heard of yet: DOWN stands for its absence
\* from neighbor_list, since addNeighbor is followed by eventHelloReceived.
Absent(id) ==
  [id |-> id, adjacent |-> FALSE, state |-> "DOWN", is_master |-> FALSE,
   dd_seq_num |-> 0, last_dd_seq_num |-> 0, last_dd_data |-> NoBody,
   rxmt_map |-> [s \in Seqs |-> -1], summary |-> << >>,
   req |-> [l \in LSAs |-> 0], described |-> {}, negotiations |-> 0,
   dd_waiting |-> 0, dd_tested |-> 0,
   dd_sending |-> [s \in Seqs |-> 0], lsr_threads |-> 0,
   checked |-> 0, claimed |-> FALSE]

\* Mutant of Inc: the number does not wrap.
IncUnbounded(s) == s + 1

Inc(s) == (s + 1) % (MaxSeq + 1)

Requested(n) == {l \in LSAs : n.req[l] > 0}

\* Some enumeration of a set: the order of the lists of the database.
Listing(S) == CHOOSE f \in [1..Cardinality(S) -> S] :
                \A i, j \in 1..Cardinality(S) : f[i] = f[j] => i = j

-----------------------------------------------------------------------------
(* Events of the neighbour (neighbor.cpp): what each makes of the object.  *)

EventHelloReceived(n) ==
  IF n.state = "DOWN" THEN [n EXCEPT !.state = "INIT"] ELSE n

\* An adjacency is formed with the DR and the BDR only; forming it starts a
\* thread that announces empty DD packets.
Event2WayReceived(n) ==
  IF n.state # "INIT" THEN n
  ELSE IF ~n.adjacent THEN [n EXCEPT !.state = "2WAY"]
  ELSE [n EXCEPT !.state = "EXSTART", !.dd_seq_num = 0, !.is_master = TRUE,
                 !.dd_waiting = @ + 1]

\* None of the lists, and no packet of the retransmitter, is dropped.
Event1WayReceived(n) ==
  IF n.state \in TwoWay THEN [n EXCEPT !.state = "INIT"] ELSE n

\* initDBSummaryList appends to what an earlier exchange left in the list.
EventNegotiationDone(n) ==
  IF n.state = "EXSTART"
  THEN [n EXCEPT !.state = "EXCHANGE", !.summary = @ \o Listing(lsdb),
                 !.described = {}, !.negotiations = @ + 1]
  ELSE n

\* Also eventBadLSReq, which has the same body. Again nothing is dropped, and
\* no thread is started to announce empty DD packets.
EventSeqNumberMismatch(n) ==
  IF n.state \in Adjacent THEN [n EXCEPT !.state = "EXSTART"] ELSE n

\* Mutant of EventExchangeDone: FULL although requests are outstanding.
EventExchangeDoneFull(n) ==
  IF n.state # "EXCHANGE" THEN n
  ELSE [n EXCEPT !.state = "FULL", !.claimed = FALSE]

EventExchangeDone(n) ==
  IF n.state # "EXCHANGE" THEN n
  ELSE IF Requested(n) = {} THEN [n EXCEPT !.state = "FULL", !.claimed = FALSE]
  ELSE [n EXCEPT !.state = "LOADING", !.lsr_threads = @ + 1]

\* onGeneratingRouterLSA and onGeneratingNetworkLSA: whether or not the new
\* instance replaces one, the database then holds an instance.
Originate(db) ==
  db \cup {SelfRouter} \cup (IF HostIsDR THEN {SelfNetwork} ELSE {})

\* Mutant of ReqListRemove: the key is not compared.
ReqListRemoveAny(n, l) ==
  IF Requested(n) = {} THEN {n.req}
  ELSE {[n.req EXCEPT ![m] = @ - 1] : m \in Requested(n)}

\* The possible request lists once the entry of l is removed: the code erases
\* the first entry with l's link state id and router, whatever its type, and
\* the order of the list is left open.
ReqListRemove(n, l) ==
  LET matching == {m \in Requested(n) : ReqKey[m] = ReqKey[l]} IN
  IF matching = {} THEN {n.req}
  ELSE {[n.req EXCEPT ![m] = @ - 1] : m \in matching}

-----------------------------------------------------------------------------
(* The receiver thread.  A handler runs when the thread waits in recv; at  *)
(* its end the thread tests the exit flag before it waits again.           *)

Receiving == receiver = "recv"

LoopTop == IF to_exit THEN "exited" ELSE "recv"

\* A packet that is not OSPF, or not for this interface; also an LSAck, for
\* which there is no handler.
RecvOther ==
  /\ Receiving
  /\ receiver' = LoopTop /\ out' = << >>
  /\ UNCHANGED <<nbr, req_lock, load_done, rxmt, alloc_id, lsdb, lsu, lsu_i,
                 to_exit>>

\* A Hello that lists this router (twoWay) or not, and names the neighbour or
\* this router DR or BDR (adjacent) or not. elects: the Hello makes the
\* interface elect (eventBackUpSeen, eventNeighborChange) and so originate.
RecvHello(twoWay, adjacent, elects) ==
  LET n == EventHelloReceived([nbr EXCEPT !.adjacent = adjacent]) IN
  /\ Receiving
  /\ nbr' = IF twoWay THEN Event2WayReceived(n) ELSE Event1WayReceived(n)
  /\ lsdb' = IF twoWay /\ elects THEN Originate(lsdb) ELSE lsdb
  /\ receiver' = LoopTop /\ out' = << >>
  /\ UNCHANGED <<req_lock, load_done, rxmt, alloc_id, lsu, lsu_i, to_exit>>

\* DD, LSR and directed LSU handlers use getNeighbor(src_ip) unchecked.
RecvFromUnknown ==
  /\ Receiving /\ nbr.state = "DOWN"
  /\ receiver' = "crashed" /\ out' = << >>
  /\ UNCHANGED <<nbr, req_lock, load_done, rxmt, alloc_id, lsdb, lsu, lsu_i,
                 to_exit>>

-----------------------------------------------------------------------------
(* The DD handler: a duplicate is told by the last number received, the    *)
(* handler then falls from state to state (goto dd_switch), and a DD that  *)
(* reaches EXCHANGE with the expected number is absorbed and answered.     *)

IsDup(p) == nbr.last_dd_seq_num = p.seq

PeerIsMaster(n, p) == p.M /\ p.I /\ p.MS /\ n.id > RouterId

\* Mutant of PeerIsSlave: the router ids are not compared.
PeerIsSlaveAny(n, p) == ~p.I /\ ~p.MS /\ Swap[p.seq] = p.seq

\* The raw field is compared with its own conversion, not with dd_seq_num.
PeerIsSlave(n, p) == ~p.I /\ ~p.MS /\ Swap[p.seq] = p.seq /\ n.id < RouterId

\* S_INIT and S_EXSTART of the switch
Negotiate(n, p) ==
  LET m == Event2WayReceived(n) IN
  IF m.state # "EXSTART" THEN m
  ELSE IF PeerIsMaster(m, p)
  THEN EventNegotiationDone([m EXCEPT !.is_master = TRUE, !.dd_seq_num = p.seq])
  ELSE IF PeerIsSlave(m, p)
  THEN EventNegotiationDone([m EXCEPT !.is_master = FALSE])
  ELSE m

\* The neighbour when the switch has come to rest
Arrived(p) == Negotiate([nbr EXCEPT !.last_dd_seq_num = p.seq], p)

DDIgnored(p, n) ==
  /\ n.state \in {"2WAY", "EXSTART"}
  /\ nbr' = n /\ out' = << >>
  /\ UNCHANGED <<rxmt, alloc_id, lsdb>>

\* Only a slave answers a duplicate, with the bytes it sent last.
DDDuplicate(p, n) ==
  /\ n.state \in Adjacent /\ IsDup(p)
  /\ nbr' = n
  /\ out' = IF n.is_master THEN <<n.last_dd_data>> ELSE << >>
  /\ UNCHANGED <<rxmt, alloc_id, lsdb>>

\* Mutant of Expected: the number is not checked.
ExpectedAny(n, p) == TRUE

Expected(n, p) ==
  IF n.is_master THEN p.seq = Inc(n.dd_seq_num) ELSE p.seq = n.dd_seq_num

FlagsMismatch(n, p) == p.I \/ p.MS # n.is_master

DDMismatch(p, n) ==
  /\ n.state \in Adjacent /\ ~IsDup(p)
  /\ FlagsMismatch(n, p) \/ (n.state = "EXCHANGE" /\ ~Expected(n, p))
  /\ nbr' = EventSeqNumberMismatch(n) /\ out' = << >>
  /\ UNCHANGED <<rxmt, alloc_id, lsdb>>

\* The exchange is over: the number is not looked at any more.
DDLate(p, n) ==
  /\ n.state \in {"LOADING", "FULL"} /\ ~IsDup(p) /\ ~FlagsMismatch(n, p)
  /\ nbr' = n /\ out' = << >>
  /\ UNCHANGED <<rxmt, alloc_id, lsdb>>

\* Each described LSA the database lacks is requested once more.
Absorb(n, p) ==
  [n EXCEPT !.req = [l \in LSAs |-> IF l \in p.hdrs \ lsdb
                                    THEN n.req[l] + 1 ELSE n.req[l]],
            !.described = @ \cup p.hdrs]

ChunkLen(s) == IF Len(s) > DDLimit THEN DDLimit ELSE Len(s)
Chunk(s)    == {s[i] : i \in 1..ChunkLen(s)}
Remainder(s) == SubSeq(s, ChunkLen(s) + 1, Len(s))

\* eventExchangeDone originates only when it goes straight to FULL.
FinishExchange(n) ==
  /\ nbr' = EventExchangeDone(n)
  /\ lsdb' = IF Requested(n) = {} THEN Originate(lsdb) ELSE lsdb

\* host2net is applied to headers that are in network order already.
DDAnsweredBySlave(p, n) ==
  LET a == Absorb(n, p)
      rest == Remainder(n.summary)
      reply == DD(FALSE, rest # << >>, FALSE, p.seq, Chunk(n.summary), TRUE)
      m == [a EXCEPT !.dd_seq_num = p.seq, !.summary = rest,
                     !.last_dd_data = reply]
  IN
  /\ n.state = "EXCHANGE" /\ ~IsDup(p) /\ ~FlagsMismatch(n, p) /\ Expected(n, p)
  /\ n.is_master
  /\ out' = <<reply>>
  /\ IF ~reply.M /\ ~p.M THEN FinishExchange(m)
     ELSE nbr' = m /\ lsdb' = lsdb
  /\ UNCHANGED <<rxmt, alloc_id>>

\* Mutant of Acked: the acknowledged DD stays with the retransmitter.
AckedNone(n) == rxmt

\* The DD in flight is acknowledged; the next one goes to the retransmitter.
Acked(n) == {e \in rxmt : e.id # n.rxmt_map[n.dd_seq_num]}

DDAnsweredByMaster(p, n) ==
  LET seq == Inc(n.dd_seq_num)
      a == [Absorb(n, p) EXCEPT !.dd_seq_num = seq]
      rest == Remainder(n.summary)
      next == DD(FALSE, rest # << >>, TRUE, seq, Chunk(n.summary), FALSE)
  IN
  /\ n.state = "EXCHANGE" /\ ~IsDup(p) /\ ~FlagsMismatch(n, p) /\ Expected(n, p)
  /\ ~n.is_master
  /\ IF n.summary = << >> /\ ~p.M
     THEN /\ FinishExchange(a)
          /\ rxmt' = Acked(n) /\ out' = << >> /\ UNCHANGED alloc_id
     ELSE /\ nbr' = [a EXCEPT !.summary = rest, !.rxmt_map[seq] = alloc_id]
          /\ rxmt' = Acked(n) \cup {[id |-> alloc_id, pkt |-> next]}
          /\ alloc_id' = alloc_id + 1
          /\ out' = <<next>> /\ lsdb' = lsdb

RecvDD(p) ==
  LET n == Arrived(p) IN
  /\ Receiving /\ nbr.state # "DOWN"
  /\ \/ DDIgnored(p, n)
     \/ DDDuplicate(p, n)
     \/ DDMismatch(p, n)
     \/ DDLate(p, n)
     \/ DDAnsweredBySlave(p, n)
     \/ DDAnsweredByMaster(p, n)
  /\ receiver' = LoopTop
  /\ UNCHANGED <<req_lock, load_done, lsu, lsu_i, to_exit>>

-----------------------------------------------------------------------------
(* The LSR and LSU handlers                                                *)

RecvLSR(asked) ==
  /\ Receiving /\ nbr.state # "DOWN"
  /\ IF nbr.state \notin Adjacent THEN nbr' = nbr /\ out' = << >>
     ELSE IF asked \subseteq lsdb
     THEN nbr' = nbr /\ out' = <<[type |-> "LSU", lsas |-> asked]>>
     ELSE nbr' = EventSeqNumberMismatch(nbr) /\ out' = << >>
  /\ receiver' = LoopTop
  /\ UNCHANGED <<req_lock, load_done, rxmt, alloc_id, lsdb, lsu, lsu_i,
                 to_exit>>

Ack(s) == <<[type |-> "LSAck", lsas |-> {s[i] : i \in 1..Len(s)}]>>

\* An LSU to the multicast address is installed without touching the list.
RecvMulticastLSU(s) ==
  /\ Receiving
  /\ lsdb' = lsdb \cup {s[i] : i \in 1..Len(s)}
  /\ out' = Ack(s) /\ receiver' = LoopTop
  /\ UNCHANGED <<nbr, req_lock, load_done, rxmt, alloc_id, lsu, lsu_i,
                 to_exit>>

\* A directed LSU: addLSA, then reqListRemove under the mutex, for each LSA.
RecvDirectedLSU(s) ==
  /\ Receiving /\ nbr.state # "DOWN" /\ s # << >>
  /\ lsdb' = lsdb \cup {s[1]}
  /\ lsu' = s /\ lsu_i' = 1 /\ receiver' = "lsu" /\ out' = << >>
  /\ UNCHANGED <<nbr, req_lock, load_done, rxmt, alloc_id, to_exit>>

LSURemove ==
  /\ receiver = "lsu" /\ req_lock = "free"
  /\ \E r \in ReqListRemove(nbr, lsu[lsu_i]) : nbr' = [nbr EXCEPT !.req = r]
  /\ IF lsu_i = Len(lsu)
     THEN /\ receiver' = LoopTop /\ out' = Ack(lsu)
          /\ lsu' = << >> /\ lsu_i' = 0 /\ lsdb' = lsdb
     ELSE /\ lsu_i' = lsu_i + 1 /\ lsdb' = lsdb \cup {lsu[lsu_i + 1]}
          /\ out' = << >> /\ UNCHANGED <<receiver, lsu>>
  /\ UNCHANGED <<req_lock, load_done, rxmt, alloc_id, to_exit>>

-----------------------------------------------------------------------------
(* The other threads                                                       *)

\* A round of threadSendEmptyDDPackets: the state is tested, the number is read,
\* without conversion, and the packet is sent. In between the receiver may run.
AnnounceTest ==
  /\ nbr.dd_waiting > 0 /\ nbr.state = "EXSTART"
  /\ nbr' = [nbr EXCEPT !.dd_waiting = @ - 1, !.dd_tested = @ + 1]
  /\ out' = << >>
  /\ UNCHANGED <<req_lock, load_done, rxmt, alloc_id, lsdb, receiver, lsu,
                 lsu_i, to_exit>>

AnnounceRead ==
  /\ nbr.dd_tested > 0
  /\ nbr' = [nbr EXCEPT !.dd_tested = @ - 1, !.dd_sending[Swap[nbr.dd_seq_num]] = @ + 1]
  /\ out' = << >>
  /\ UNCHANGED <<req_lock, load_done, rxmt, alloc_id, lsdb, receiver, lsu,
                 lsu_i, to_exit>>

AnnounceSend(s) ==
  /\ nbr.dd_sending[s] > 0
  /\ nbr' = [nbr EXCEPT !.dd_sending[s] = @ - 1, !.dd_waiting = @ + 1]
  /\ out' = <<DD(TRUE, TRUE, TRUE, s, {}, FALSE)>>
  /\ UNCHANGED <<req_lock, load_done, rxmt, alloc_id, lsdb, receiver, lsu,
                 lsu_i, to_exit>>

AnnounceEnds ==
  /\ nbr.dd_waiting > 0 /\ nbr.state # "EXSTART"
  /\ nbr' = [nbr EXCEPT !.dd_waiting = @ - 1]
  /\ out' = << >>
  /\ UNCHANGED <<req_lock, load_done, rxmt, alloc_id, lsdb, receiver, lsu,
                 lsu_i, to_exit>>

\* Mutant of LSRSend: the mutex is not released after the request.
LSRSendHolding ==
  /\ nbr.lsr_threads > 0 /\ ~to_exit
  /\ req_lock = "free" /\ Requested(nbr) # {}
  /\ out' = <<[type |-> "LSR", lsas |-> Requested(nbr)]>>
  /\ req_lock' = "held"
  /\ UNCHANGED <<nbr, load_done, rxmt, alloc_id, lsdb, receiver, lsu, lsu_i,
                 to_exit>>

\* One round of threadSendLSRPackets with something to request
LSRSend ==
  /\ nbr.lsr_threads > 0 /\ ~to_exit
  /\ req_lock = "free" /\ Requested(nbr) # {}
  /\ out' = <<[type |-> "LSR", lsas |-> Requested(nbr)]>>
  /\ UNCHANGED <<nbr, req_lock, load_done, rxmt, alloc_id, lsdb, receiver, lsu,
                 lsu_i, to_exit>>

\* Nothing left to request: the thread takes the mutex, calls eventLoadDone
\* and leaves the loop without releasing the mutex. Here its test of the
\* state; if the test fails the thread is gone.
LoadDoneTest ==
  /\ nbr.lsr_threads > 0 /\ ~to_exit
  /\ req_lock = "free" /\ Requested(nbr) = {}
  /\ req_lock' = "held"
  /\ load_done' = (nbr.state = "LOADING")
  /\ nbr' = [nbr EXCEPT !.lsr_threads = @ - 1,
                         !.checked = nbr.negotiations]
  /\ out' = << >>
  /\ UNCHANGED <<rxmt, alloc_id, lsdb, receiver, lsu, lsu_i, to_exit>>

\* What eventLoadDone found is not so any more: a handler made the neighbour
\* leave LOADING after the test.
Overtaken == load_done /\ ~(nbr.state = "LOADING" /\ nbr.negotiations = nbr.checked)

\* The rest of eventLoadDone, whatever the state is by now: only the router LSA
\* is originated again. updateRoutings is left out here: what its snapshot does
\* to the objects of the database is the subject of Lsdb.
LoadDoneCommit ==
  /\ load_done
  /\ load_done' = FALSE
  /\ nbr' = [nbr EXCEPT !.state = "FULL", !.claimed = Overtaken]
  /\ lsdb' = lsdb \cup {SelfRouter}
  /\ out' = << >>
  /\ UNCHANGED <<req_lock, rxmt, alloc_id, receiver, lsu, lsu_i, to_exit>>

LSRExits ==
  /\ nbr.lsr_threads > 0 /\ to_exit
  /\ nbr' = [nbr EXCEPT !.lsr_threads = @ - 1]
  /\ out' = << >>
  /\ UNCHANGED <<req_lock, load_done, rxmt, alloc_id, lsdb, receiver, lsu,
                 lsu_i, to_exit>>

\* The retransmitter sends a packet each time its age reaches the duration.
Retransmit ==
  \E e \in rxmt :
    /\ out' = <<e.pkt>>
    /\ UNCHANGED <<nbr, req_lock, load_done, rxmt, alloc_id, lsdb, receiver,
                   lsu, lsu_i, to_exit>>

\* eventWaitTimer, from the timer thread, elects and originates.
WaitTimer ==
  /\ lsdb' = Originate(lsdb)
  /\ out' = << >>
  /\ UNCHANGED <<nbr, req_lock, load_done, rxmt, alloc_id, receiver, lsu,
                 lsu_i, to_exit>>

\* The main thread reads "exit".
Exit ==
  /\ CanExit /\ to_exit' = TRUE
  /\ out' = << >>
  /\ UNCHANGED <<nbr, req_lock, load_done, rxmt, alloc_id, lsdb, receiver, lsu,
                 lsu_i>>

-----------------------------------------------------------------------------
Init ==
  /\ nbr \in {Absent(id) : id \in NbrIds}
  /\ req_lock = "free" /\ load_done = FALSE
  /\ rxmt = {} /\ alloc_id = 0
  /\ lsdb = {}
  /\ receiver = "recv" /\ lsu = << >> /\ lsu_i = 0
  /\ to_exit = FALSE /\ out = << >>

ReceiverStep ==
  \/ RecvOther
  \/ \E twoWay, adjacent, elects \in BOOLEAN : RecvHello(twoWay, adjacent, elects)
  \/ RecvFromUnknown
  \/ \E p \in {q \in DDs : ~q.garbled} : RecvDD(p)
  \/ \E asked \in SUBSET LSAs : RecvLSR(asked)
  \/ \E k \in 1..MaxLSU : \E s \in [1..k -> LSAs] :
       RecvMulticastLSU(s) \/ RecvDirectedLSU(s)
  \/ LSURemove

ThreadStep ==
  \/ AnnounceTest \/ AnnounceRead \/ AnnounceEnds \/ \E s \in Seqs : AnnounceSend(s)
  \/ LSRSend \/ LoadDoneTest \/ LoadDoneCommit \/ LSRExits
  \/ Retransmit \/ WaitTimer \/ Exit

\* The state explored: bounds on counters that the code leaves unbounded.
Bounded ==
  /\ nbr.dd_waiting <= MaxThreads /\ nbr.dd_tested <= MaxThreads
  /\ \A s \in Seqs : nbr.dd_sending[s] <= MaxThreads
  /\ nbr.lsr_threads <= MaxThreads
  /\ \A l \in LSAs : nbr.req[l] <= MaxReq
  /\ nbr.negotiations <= 1 => alloc_id <= MaxRxmt
  /\ nbr.negotiations <= MaxNegotiations

\* A process that crashed takes no step.
Next ==
  /\ receiver # "crashed"
  /\ ReceiverStep \/ ThreadStep
  /\ Bounded'

Spec == Init /\ [][Next]_vars

-----------------------------------------------------------------------------
(* Properties                                                              *)

\* Type invariant.
TypeOK ==
  /\ nbr \in NeighborType
  /\ req_lock \in {"free", "held"} /\ load_done \in BOOLEAN
  /\ rxmt \subseteq [id : Nat, pkt : DDs] /\ alloc_id \in Nat
  /\ lsdb \subseteq LSAs
  /\ receiver \in {"recv", "lsu", "exited", "crashed"}
  /\ lsu \in Seq(LSAs) /\ lsu_i \in 0..Len(lsu)
  /\ to_exit \in BOOLEAN /\ out \in Seq(Packets)

\* FULL was assigned by a thread that found the neighbour in LOADING before a
\* handler took it out of it.
Claimed == nbr.state = "FULL" /\ nbr.claimed

\* The two routers agree on their roles: from EXCHANGE on, the neighbour is
\* master exactly when its router id is the larger one (dd_switch, S_EXSTART),
\* unless FULL is claimed by a thread that was overtaken.
RoleFollowsIds ==
  nbr.state \in Adjacent /\ ~Claimed => (nbr.is_master <=> nbr.id > RouterId)

\* No described LSA is lost on the way from a DD to the database, although
\* requests are added by the DD handler, removed by the LSU handler and read
\* by the LSR thread: it is stored, or it is still requested.
RequestedOrStored ==
  nbr.state \in Adjacent => nbr.described \subseteq lsdb \cup Requested(nbr)

\* FULL means synchronised: every LSA the neighbour described in this
\* exchange is in the database (eventExchangeDone, eventLoadDone), unless FULL
\* is claimed by a thread that was overtaken.
FullMeansSynced == nbr.state = "FULL" /\ ~Claimed => nbr.described \subseteq lsdb

\* "has all lsas: no need to request": whoever made it FULL.
FullHasAll == nbr.state = "FULL" => nbr.described \subseteq lsdb

\* While nothing was renegotiated a single DD of the host awaits its answer,
\* the one numbered dd_seq_num, and none does once the exchange is over
\* (addPacketData and delPacketData around link_state_rxmt_map).
OneOutstandingDD ==
  nbr.state \in Adjacent /\ nbr.negotiations = 1 =>
    /\ Cardinality(rxmt) <= 1
    /\ \A e \in rxmt : e.pkt.seq = nbr.dd_seq_num /\ nbr.state = "EXCHANGE"

\* While nothing was renegotiated a neighbour in LOADING has a thread that
\* can still request: one that found the mutex free, or one on its way to
\* FULL. Nobody else ends LOADING.
SomeoneLoads ==
  nbr.state = "LOADING" /\ nbr.negotiations = 1 /\ ~to_exit =>
    load_done \/ (nbr.lsr_threads > 0 /\ req_lock = "free")

\* No DD is absorbed twice, nor one out of order: a step that adds requests
\* advances dd_seq_num to the next number, or it also negotiated anew.
AbsorbedInOrder ==
  [][(\E l \in LSAs : nbr'.req[l] > nbr.req[l]) =>
       \/ nbr'.negotiations > nbr.negotiations
       \/ nbr.state = "EXCHANGE" /\ nbr'.dd_seq_num = Inc(nbr.dd_seq_num)]_vars

\* A master in EXCHANGE with no DD in flight: it waits for an answer to nothing.
Silent == nbr.state = "EXCHANGE" /\ ~nbr.is_master /\ rxmt = {}

\* "interface is master": it has a DD in flight that an answer will follow.
MasterAlwaysAsks == ~Silent

-----------------------------------------------------------------------------
(* The exchange as its user sees it                                        *)

Phase ==
  CASE nbr.state = "EXCHANGE" -> "exchange"
    [] nbr.state = "LOADING"  -> "loading"
    [] nbr.state = "FULL"     -> IF Claimed THEN "claimed" ELSE "full"
    [] OTHER                  -> "down"

Missing == IF nbr.state \in Adjacent THEN nbr.described \ lsdb ELSE {}

Check == IF ~load_done THEN "none" ELSE IF Overtaken THEN "stale" ELSE "valid"

Exchange == INSTANCE DatabaseExchange WITH
  phase <- Phase, missing <- Missing, check <- Check

\* The handlers and threads of the neighbour implement a database exchange:
\* nothing described is dropped, FULL is reached with nothing missing, and an
\* exchange starts over only by leaving EXCHANGE, LOADING and FULL; only the
\* one thread that was overtaken after its check claims FULL out of turn.
ImplementsExchange == Exchange!Spec
=============================================================================
