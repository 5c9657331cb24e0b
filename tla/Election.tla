------------------------------ MODULE Election ------------------------------
(***************************************************************************)
(* The election of the designated router (src/interface.cpp) on a LAN of   *)
(* hosts that all run this program.                                        *)
(*                                                                         *)
(* A host is known by one number: setting.cpp makes its router id its      *)
(* address.  Of a neighbour the election uses whether its state is at      *)
(* least 2WAY and what it declared; Neighbor models the rest of it.  The   *)
(* receiver's handler of a Hello is one action, and eventWaitTimer, on the *)
(* timer thread, is three: its test of the state, the election, and the    *)
(* assignment of the state.                                                *)
(***************************************************************************)
EXTENDS Integers, FiniteSets

CONSTANTS
  Routers,   \* the addresses on the LAN, and the router ids
  Lans       \* the circumstances a LAN may come up in, see LanType

\* hosts: the hosts that ever come up. staggered: one host comes up first, the
\* others once it is elected, and they wait long enough to hear all others.
\* atomic: no Hello is handled inside eventWaitTimer. stale: the outcomes of
\* comparing an uninitialised ndr or nbdr with the neighbour's address.
LanType ==
  [hosts : SUBSET Routers, staggered : BOOLEAN, atomic : BOOLEAN,
   stale : SUBSET BOOLEAN \ {{}}]

ASSUME LanAssumption ==
  /\ Routers \subseteq Nat \ {0} /\ IsFiniteSet(Routers)
  /\ Lans \subseteq LanType

VARIABLES
  host,   \* the interface of each host, with its neighbours
  sent,   \* the last Hello of each host that is still to be heard of
  lan     \* the circumstances, one of Lans, for good

vars == <<host, sent, lan>>

Nobody == 0    \* 0.0.0.0

Neighbors ==
  [known : BOOLEAN, twoWay : BOOLEAN,
   ndr : Routers \cup {Nobody}, nbdr : Routers \cup {Nobody}]

Elected == {"DR", "BACKUP", "DROTHER"}

Hosts ==
  [state : {"DOWN", "WAITING", "CRASHED"} \cup Elected,
   dr : Routers \cup {Nobody}, bdr : Routers \cup {Nobody},
   nbrs : [Routers -> Neighbors],
   timer : {"off", "armed", "electing", "elected"}]

NoHello == [dr |-> Nobody, bdr |-> Nobody, lists |-> {}, on |-> FALSE]

Hellos == [dr : Routers \cup {Nobody}, bdr : Routers \cup {Nobody},
           lists : SUBSET Routers, on : BOOLEAN]

-----------------------------------------------------------------------------
(* electDesignedRouter.  A host competes with priority 1; of its neighbours*)
(* it keeps ntohl of the one byte their Hello carries, which is 1 as well. *)

HelloPriority == 1
Ntohl(byte)   == byte * 16777216    \* 2^24

Priority(r, x) == IF x = r THEN HelloPriority ELSE Ntohl(HelloPriority)

\* compareNeighbor, then the first of the sorted candidates
Beats(r, a, b) ==
  \/ Priority(r, a) > Priority(r, b)
  \/ Priority(r, a) = Priority(r, b) /\ a >= b

\* Mutant of Best: a priority where an address belongs.
BestAddress(r, S) == HelloPriority + Ntohl(HelloPriority)

Best(r, S) == CHOOSE a \in S : \A b \in S : Beats(r, a, b)

\* Mutant of Candidates: no neighbour qualifies.
CandidatesNone(r, h) == {r}

Candidates(r, h) == {r} \cup {s \in Routers : h.nbrs[s].twoWay}

DeclaredDR(r, h, x)  == IF x = r THEN h.dr ELSE h.nbrs[x].ndr
DeclaredBDR(r, h, x) == IF x = r THEN h.bdr ELSE h.nbrs[x].nbdr

DRCandidates(r, h) == {x \in Candidates(r, h) : DeclaredDR(r, h, x) = x}

BDRCandidates(r, h) ==
  LET lv2 == Candidates(r, h) \ DRCandidates(r, h)
      lv1 == {x \in lv2 : DeclaredBDR(r, h, x) = x}
  IN IF lv1 # {} THEN lv1 ELSE lv2

\* Mutant of Elect: who declared itself designated router does not matter.
ElectAnew(r, h) ==
  IF BDRCandidates(r, h) = {} THEN [h EXCEPT !.state = "CRASHED"]
  ELSE [h EXCEPT !.dr = Best(r, Candidates(r, h)),
                 !.bdr = Best(r, BDRCandidates(r, h))]

\* Without a candidate for backup, bdr is null when its ip is taken.
Elect(r, h) ==
  IF BDRCandidates(r, h) = {} THEN [h EXCEPT !.state = "CRASHED"]
  ELSE LET bdr == Best(r, BDRCandidates(r, h))
           dr  == IF DRCandidates(r, h) = {} THEN bdr
                  ELSE Best(r, DRCandidates(r, h))
       IN [h EXCEPT !.dr = dr, !.bdr = bdr]

-----------------------------------------------------------------------------
(* The events of the interface                                             *)

Position(r, h) ==
  IF h.dr = r THEN "DR" ELSE IF h.bdr = r THEN "BACKUP" ELSE "DROTHER"

\* What eventBackUpSeen, eventNeighborChange and eventWaitTimer do once they
\* accepted the event; a crash ends them.
ElectAndMove(r, h) ==
  LET e == Elect(r, h) IN
  IF e.state = "CRASHED" THEN e ELSE [e EXCEPT !.state = Position(r, e)]

EventBackUpSeen(r, h) ==
  IF h.state = "WAITING" THEN ElectAndMove(r, h) ELSE h

\* Mutant of EventNeighborChange: the state of the interface is left alone.
EventNeighborChangeNoState(r, h) ==
  IF h.state \in Elected THEN Elect(r, h) ELSE h

\* Mutant of EventNeighborChange: the event is never acted upon.
EventNeighborChangeIgnored(r, h) == h

EventNeighborChange(r, h) ==
  IF h.state \in Elected THEN ElectAndMove(r, h) ELSE h

\* The end of the Hello handler for a neighbour s that lists this host:
\* declares and was tell whether it names itself DR (BDR), now and before.
Noticed(r, h, backupSeen, was, declares) ==
  IF backupSeen /\ h.state = "WAITING" THEN EventBackUpSeen(r, h)
  ELSE IF was # declares THEN EventNeighborChange(r, h)
  ELSE h

NoticeDR(r, h, s, was) ==
  LET n == h.nbrs[s] IN
  Noticed(r, h, n.ndr = s /\ n.nbdr = Nobody, was, n.ndr = s)

NoticeBDR(r, h, s, was) ==
  LET n == h.nbrs[s] IN Noticed(r, h, n.nbdr = s, was, n.nbdr = s)

-----------------------------------------------------------------------------
(* Actions                                                                 *)

Up(r) == host[r].state \notin {"DOWN", "CRASHED"}

InterfaceUp(r) ==
  /\ host[r].state = "DOWN" /\ r \in lan.hosts
  /\ lan.staggered => \/ \A s \in Routers : host[s].state = "DOWN"
                      \/ \E s \in Routers : host[s].state = "DR"
  /\ host' = [host EXCEPT ![r].state = "WAITING", ![r].timer = "armed"]
  /\ UNCHANGED <<sent, lan>>

\* Every ten seconds a Hello is multicast.
SendHello(r) ==
  /\ Up(r)
  /\ sent' = [sent EXCEPT ![r] =
       [dr |-> host[r].dr, bdr |-> host[r].bdr, on |-> TRUE,
        lists |-> {s \in Routers : host[r].nbrs[s].known}]]
  /\ UNCHANGED <<host, lan>>

\* r handles the Hello of s. A Hello that does not list r ends the handler
\* after its declarations have been stored.
RecvHello(r, s) ==
  LET old == host[r].nbrs[s]
      m   == sent[s]
      h   == [host[r] EXCEPT !.nbrs[s] =
               [known |-> TRUE, twoWay |-> r \in m.lists,
                ndr |-> m.dr, nbdr |-> m.bdr]]
  IN
  /\ r # s /\ Up(r) /\ m.on
  /\ lan.atomic => host[r].timer \notin {"electing", "elected"}
  /\ \E wasDR, wasBDR \in BOOLEAN :
       /\ IF old.known THEN wasDR = (old.ndr = s) /\ wasBDR = (old.nbdr = s)
          ELSE wasDR \in lan.stale /\ wasBDR \in lan.stale
       /\ host' = [host EXCEPT ![r] =
            IF r \notin m.lists THEN h
            ELSE NoticeBDR(r, NoticeDR(r, h, s, wasDR), s, wasBDR)]
  /\ UNCHANGED <<sent, lan>>

HeardAll(r) == \A s \in Routers \ {r} : Up(s) => host[r].nbrs[s].twoWay

\* The timer thread: eventWaitTimer is accepted in WAITING only.
WaitTimer(r) ==
  /\ Up(r) /\ host[r].timer = "armed"
  /\ lan.staggered => HeardAll(r)
  /\ host' = [host EXCEPT ![r].timer =
                IF host[r].state = "WAITING" THEN "electing" ELSE "off"]
  /\ UNCHANGED <<sent, lan>>

\* Mutant of WaitTimerElects: the state is assigned before the election.
WaitTimerElectsLate(r) ==
  /\ Up(r) /\ host[r].timer = "electing"
  /\ host' = [host EXCEPT ![r].state = "DROTHER", ![r].timer = "elected"]
  /\ UNCHANGED <<sent, lan>>

WaitTimerElects(r) ==
  /\ Up(r) /\ host[r].timer = "electing"
  /\ host' = [host EXCEPT ![r] = [Elect(r, host[r]) EXCEPT !.timer = "elected"]]
  /\ UNCHANGED <<sent, lan>>

WaitTimerMoves(r) ==
  /\ Up(r) /\ host[r].timer = "elected"
  /\ host' = [host EXCEPT ![r].state = Position(r, host[r]), ![r].timer = "off"]
  /\ UNCHANGED <<sent, lan>>

-----------------------------------------------------------------------------
Init ==
  /\ host = [r \in Routers |->
       [state |-> "DOWN", dr |-> Nobody, bdr |-> Nobody, timer |-> "off",
        nbrs |-> [s \in Routers |-> [known |-> FALSE, twoWay |-> FALSE,
                                     ndr |-> Nobody, nbdr |-> Nobody]]]]
  /\ sent = [r \in Routers |-> NoHello]
  /\ lan \in Lans

TimerStep(r) == WaitTimer(r) \/ WaitTimerElects(r) \/ WaitTimerMoves(r)

Next ==
  \E r \in Routers :
    \/ InterfaceUp(r) \/ SendHello(r) \/ TimerStep(r)
    \/ \E s \in Routers : RecvHello(r, s)

Spec == Init /\ [][Next]_vars

\* On a LAN of two hosts something happens as long as something can: hosts
\* come up, timers expire, and a Hello that says something new is sent and
\* heard.
Pair == Cardinality(lan.hosts) = 2
FairSpec == Spec /\ WF_vars(Pair /\ Next)

-----------------------------------------------------------------------------
(* Properties                                                              *)

\* Type invariant.
TypeOK ==
  host \in [Routers -> Hosts] /\ sent \in [Routers -> Hellos] /\ lan \in LanType

\* getNeighbor(interface->dr) in genRouterLSA finds the neighbour: an elected
\* designated router is the host itself or a neighbour it keeps.
ElectedIsKnown ==
  \A r \in Routers : host[r].state \in Elected =>
    host[r].dr = r \/ (host[r].dr # Nobody /\ host[r].nbrs[host[r].dr].known)

\* The state of the interface tells the role it was elected to, whichever of
\* the three events, Hellos and timers led there.
StateTellsRole ==
  lan.atomic => \A r \in Routers :
    host[r].state \in Elected /\ host[r].timer # "elected" =>
      host[r].state = Position(r, host[r])

\* A designated router is not preempted: it stays so until it hears another
\* one that calls itself designated router.
NotPreempted ==
  [][\A r \in Routers : host[r].state = "DR" =>
       \/ host'[r].state \in {"DR", "CRASHED"}
       \/ \E s \in Routers \ {r} : host'[r].nbrs[s].ndr = s]_vars

\* Routers that come up on a LAN that has a designated router do not make
\* a second one.
OneDesignatedRouter ==
  lan.staggered => \A r, s \in Routers : host[r].state = "DR" /\ host[s].state = "DR" => r = s

\* A host that joins another one comes to agree with it on designated router
\* and backup.
Agreed == \A r, s \in lan.hosts : /\ host[r].state \in Elected
                                  /\ host[r].dr = host[s].dr
                                  /\ host[r].bdr = host[s].bdr
AgreementReached ==
  lan.staggered /\ Pair => <>[]Agreed

\* "assume bdr_candidates_lv2 isn't empty"
BackupCandidateExists == \A r \in Routers : host[r].state # "CRASHED"
=============================================================================
