--------------------------- MODULE ElectionProofs ----------------------------
(***************************************************************************)
(* Proofs about Election, for every number of hosts, any addresses and any *)
(* circumstances in which the LAN comes up.                                *)
(***************************************************************************)
EXTENDS Election, FiniteSetTheorems, WellFoundedInduction, TLAPS

-----------------------------------------------------------------------------
(* The best candidate                                                      *)

\* Numbers up to n that include 0 and each one's successor are all of them.
LEMMA CountsUp ==
  ASSUME NEW n \in Nat, NEW T, 0 \in T, \A k \in 0..(n - 1) : k \in T => k + 1 \in T
  PROVE  0..n \subseteq T
<1> DEFINE U == {k \in 0..n : k \notin T}
<1>1. SUFFICES ASSUME U # {} PROVE FALSE
  OBVIOUS
<1>2. PICK k \in U : \A j \in U : ~ (<<j, k>> \in OpToRel(<, Nat))
  <2>1. U \subseteq Nat
    OBVIOUS
  <2> QED
    BY <1>1, <2>1, NatLessThanWellFounded, WFMin, Zenon
<1>3. k \in 1..n /\ k - 1 \in 0..(n - 1) /\ (k - 1) + 1 = k
  OBVIOUS
<1>4. k - 1 \in U
  BY <1>3
<1>5. <<k - 1, k>> \in OpToRel(<, Nat)
  <2>1. <<k - 1, k>> \in Nat \X Nat /\ k - 1 < k
    BY <1>3
  <2> QED
    BY <2>1, Zenon DEF OpToRel
<1> QED
  BY <1>2, <1>4, <1>5, Zenon

\* Any two candidates can be compared.
LEMMA BeatsTotal ==
  ASSUME NEW r \in Routers, NEW a \in Routers, NEW b \in Routers
  PROVE  Beats(r, a, b) \/ Beats(r, b, a)
BY LanAssumption DEF Beats, Priority, HelloPriority, Ntohl

LEMMA BeatsTransitive ==
  ASSUME NEW r \in Routers, NEW a \in Routers, NEW b \in Routers, NEW c \in Routers,
         Beats(r, a, b), Beats(r, b, c)
  PROVE  Beats(r, a, c)
BY LanAssumption DEF Beats, Priority, HelloPriority, Ntohl

\* The sorted candidates have a first one.
LEMMA BestOf ==
  ASSUME NEW r \in Routers, NEW S \in SUBSET Routers, S # {}
  PROVE  Best(r, S) \in S /\ \A b \in S : Beats(r, Best(r, S), b)
<1>1. IsFiniteSet(S)
  BY LanAssumption, FS_Subset
<1>2. PICK n \in Nat : ExistsBijection(1..n, S)
  BY <1>1, FS_NatBijection
<1>3. PICK f \in [1..n -> S] : \A x \in S : \E i \in 1..n : f[i] = x
  BY <1>2 DEF ExistsBijection, Bijection, Surjection
<1> DEFINE Is(k, a) == \A i \in 1..k : Beats(r, a, f[i])
           T == {k \in 0..n : k = 0 \/ \E a \in S : Is(k, a)}
<1>4. 0 \in T
  OBVIOUS
<1>5. ASSUME NEW k \in 0..(n - 1), k \in T PROVE k + 1 \in T
  <2>1. k + 1 \in 1..n /\ k + 1 \in 0..n /\ f[k + 1] \in S /\ f[k + 1] \in Routers
    OBVIOUS
  <2>2. \A i \in 1..(k + 1) : i \in 1..k \/ i = k + 1
    OBVIOUS
  <2>3. CASE k = 0
    <3>1. \A i \in 1..(k + 1) : i = k + 1
      BY <2>3
    <3>2. Is(k + 1, f[k + 1])
      BY <3>1, <2>1, BeatsTotal
    <3> QED
      BY <2>1, <3>2
  <2>4. CASE k # 0
    <3>1. PICK a \in S : Is(k, a)
      BY <1>5, <2>4, Zenon
    <3>2. \A i \in 1..k : f[i] \in Routers
      BY <2>1
    <3>3. CASE Beats(r, a, f[k + 1])
      <4>1. Is(k + 1, a)
        BY <2>2, <3>1, <3>3
      <4> QED
        BY <2>1, <4>1
    <3>4. CASE Beats(r, f[k + 1], a)
      <4>1. \A i \in 1..k : Beats(r, f[k + 1], f[i])
        BY <2>1, <3>1, <3>2, <3>4, BeatsTransitive
      <4>2. Beats(r, f[k + 1], f[k + 1])
        BY <2>1, BeatsTotal
      <4>3. Is(k + 1, f[k + 1])
        BY <2>2, <4>1, <4>2
      <4> QED
        BY <2>1, <4>3
    <3> QED
      BY <2>1, <3>3, <3>4, BeatsTotal
  <2> QED
    BY <2>3, <2>4
<1>6. n \in T
  <2>1. 0..n \subseteq T
    <3> HIDE DEF T
    <3> QED
      BY <1>4, <1>5, CountsUp
  <2> HIDE DEF T
  <2>2. n \in 0..n
    OBVIOUS
  <2> QED
    BY <2>1, <2>2
<1>7. n # 0
  BY <1>3
<1>8. PICK a \in S : Is(n, a)
  BY <1>6, <1>7
<1>9. \A b \in S : Beats(r, a, b)
  BY <1>3, <1>8
<1> QED
  BY <1>9 DEF Best

\* A host ranks each neighbour above itself: it converts the priority of the
\* neighbour's Hello, one byte, as if it had four.
LEMMA OutranksItself ==
  ASSUME NEW r \in Routers, NEW S \in SUBSET Routers, NEW x \in S, x # r
  PROVE  Best(r, S) \in S \ {r}
<1>1. Best(r, S) \in S /\ Beats(r, Best(r, S), x)
  BY BestOf
<1>2. ~Beats(r, r, x)
  BY DEF Beats, Priority, HelloPriority, Ntohl
<1> QED
  BY <1>1, <1>2

-----------------------------------------------------------------------------
(* What an election does                                                   *)

\* The declarations and the timer are left alone; the host crashes, or its
\* designated router is a candidate, and itself if it was and nobody objects.
Objects(r, h) == \E s \in Routers \ {r} : h.nbrs[s].ndr = s

Elects(r, h, e) ==
  /\ e \in Hosts /\ e.nbrs = h.nbrs /\ e.timer = h.timer
  /\ e.state = "CRASHED" => e.dr = h.dr
  /\ e.state # "CRASHED" =>
       /\ e.dr \in Candidates(r, h)
       /\ h.dr = r /\ ~Objects(r, h) => e.dr = r

LEMMA ElectElects ==
  ASSUME NEW r \in Routers, NEW h \in Hosts, h.state # "CRASHED"
  PROVE  Elects(r, h, Elect(r, h)) /\ Elect(r, h).state \in {h.state, "CRASHED"}
<1> DEFINE C == Candidates(r, h)   D == DRCandidates(r, h)   B == BDRCandidates(r, h)
<1>1. C \subseteq Routers /\ D \subseteq C /\ B \subseteq C
  BY DEF Candidates, DRCandidates, BDRCandidates
<1>2. CASE B = {}
  BY <1>2 DEF Elect, Elects, Hosts
<1>3. CASE B # {}
  <2> DEFINE bdr == Best(r, B)
             dr  == IF D = {} THEN bdr ELSE Best(r, D)
  <2>1. bdr \in B
    BY <1>1, <1>3, BestOf
  <2>2. D # {} => dr \in D
    BY <1>1, BestOf
  <2>3. dr \in C /\ dr \in Routers /\ bdr \in Routers
    BY <1>1, <2>1, <2>2
  <2>4. h.dr = r /\ ~Objects(r, h) => dr = r
    <3>1. SUFFICES ASSUME h.dr = r, ~Objects(r, h) PROVE D = {r}
      BY <2>2
    <3>2. r \in D
      BY <3>1 DEF DRCandidates, DeclaredDR, Candidates
    <3>3. \A x \in D : x = r
      BY <1>1, <3>1 DEF DRCandidates, DeclaredDR, Objects
    <3> QED
      BY <3>2, <3>3
  <2>5. Elect(r, h) = [h EXCEPT !.dr = dr, !.bdr = bdr]
    BY <1>3 DEF Elect
  <2> HIDE DEF dr, bdr, B, C, D
  <2>6. /\ Elect(r, h) \in Hosts /\ Elect(r, h).nbrs = h.nbrs
        /\ Elect(r, h).timer = h.timer /\ Elect(r, h).state = h.state
        /\ Elect(r, h).dr = dr
    BY <2>3, <2>5 DEF Hosts
  <2> QED
    BY <2>3, <2>4, <2>6 DEF Elects, C
<1> QED
  BY <1>2, <1>3

-----------------------------------------------------------------------------
(* What a handler does                                                     *)

\* Either nothing, or it crashes, or it elects and moves to the position.
Moves(r, h, e) ==
  \/ e = h
  \/ /\ h.state # "CRASHED" /\ Elects(r, h, e)
     /\ e.state \in {"CRASHED", Position(r, e)}

LEMMA PositionType ==
  ASSUME NEW r, NEW h
  PROVE  Position(r, h) \in Elected
BY DEF Position, Elected

LEMMA MovesType ==
  ASSUME NEW r \in Routers, NEW h \in Hosts, NEW e, Moves(r, h, e)
  PROVE  e \in Hosts
BY DEF Moves, Elects

LEMMA ElectAndMoveMoves ==
  ASSUME NEW r \in Routers, NEW h \in Hosts, h.state # "CRASHED"
  PROVE  Moves(r, h, ElectAndMove(r, h))
<1> DEFINE e == Elect(r, h)
<1>1. Elects(r, h, e) /\ e.state \in {h.state, "CRASHED"}
  BY ElectElects
<1> HIDE DEF e
<1>2. CASE e.state = "CRASHED"
  BY <1>1, <1>2 DEF ElectAndMove, Moves, e
<1>3. CASE e.state # "CRASHED"
  <2> DEFINE m == [e EXCEPT !.state = Position(r, e)]
  <2>1. e \in Hosts
    BY <1>1 DEF Elects
  <2>2. /\ m.dr = e.dr /\ m.bdr = e.bdr /\ m.nbrs = e.nbrs /\ m.timer = e.timer
        /\ m.state = Position(r, e) /\ m \in Hosts
    BY <2>1, PositionType DEF Hosts
  <2>3. Position(r, m) = Position(r, e) /\ m.state # "CRASHED"
    BY <2>2, PositionType DEF Position, Elected
  <2>4. ElectAndMove(r, h) = m
    BY <1>3 DEF ElectAndMove, e
  <2> HIDE DEF m
  <2> QED
    BY <1>1, <1>3, <2>2, <2>3, <2>4 DEF Moves, Elects
<1> QED
  BY <1>2, <1>3

LEMMA NoticedMoves ==
  ASSUME NEW r \in Routers, NEW h \in Hosts, NEW backupSeen, NEW was, NEW declares
  PROVE  Moves(r, h, Noticed(r, h, backupSeen, was, declares))
<1>1. h.state = "WAITING" \/ h.state \in Elected => h.state # "CRASHED"
  BY DEF Elected
<1>2. h.state # "CRASHED" => Moves(r, h, ElectAndMove(r, h))
  BY ElectAndMoveMoves
<1>3. Moves(r, h, h)
  BY DEF Moves
<1> QED
  BY <1>1, <1>2, <1>3 DEF Noticed, EventBackUpSeen, EventNeighborChange

-----------------------------------------------------------------------------
(* The invariant                                                           *)

\* An elected designated router is this host or a neighbour it keeps; between
\* the election of the timer and its end, one is elected already.
WellKnown(r, h) ==
  /\ \A s \in Routers : h.nbrs[s].twoWay => h.nbrs[s].known
  /\ h.dr = Nobody \/ h.dr = r \/ h.nbrs[h.dr].known
  /\ h.state \in Elected \/ (h.timer = "elected" /\ h.state # "CRASHED") => h.dr # Nobody

\* The state is that of the position, except while the timer elects, and then
\* nothing else does.
Told(r, h) ==
  /\ h.state \in Elected => h.state = Position(r, h)
  /\ h.timer \in {"electing", "elected"} => h.state \in {"WAITING", "CRASHED"}

Inv(r, h) == WellKnown(r, h) /\ (lan.atomic => Told(r, h))

IInv == TypeOK /\ \A r \in Routers : Inv(r, host[r])

LEMMA MovesKnown ==
  ASSUME NEW r \in Routers, NEW h \in Hosts, WellKnown(r, h), NEW e, Moves(r, h, e)
  PROVE  WellKnown(r, e)
<1>1. CASE e = h
  BY <1>1
<1>2. CASE Elects(r, h, e) /\ e.state = "CRASHED"
  BY <1>2 DEF WellKnown, Elects, Elected
<1>3. CASE Elects(r, h, e) /\ e.state # "CRASHED"
  <2>1. e.nbrs = h.nbrs /\ e.dr \in Candidates(r, h)
    BY <1>3 DEF Elects
  <2>2. e.dr \in Routers /\ (e.dr = r \/ h.nbrs[e.dr].known)
    BY <2>1 DEF Candidates, WellKnown
  <2> QED
    BY <2>1, <2>2, LanAssumption DEF WellKnown, Nobody
<1> QED
  BY <1>1, <1>2, <1>3 DEF Moves

LEMMA MovesTold ==
  ASSUME NEW r \in Routers, NEW h \in Hosts, Told(r, h), NEW e, Moves(r, h, e),
         h.timer \notin {"electing", "elected"}
  PROVE  Told(r, e)
BY DEF Told, Moves, Elects, Elected

\* A designated router stays so, unless a neighbour objects.
LEMMA MovesStays ==
  ASSUME NEW r \in Routers, NEW h \in Hosts, NEW e, Moves(r, h, e),
         h.state = "DR", h.dr = r, ~Objects(r, h)
  PROVE  e.state = "CRASHED" \/ (e.state = "DR" /\ e.dr = r)
BY DEF Moves, Elects, Position

-----------------------------------------------------------------------------
(* A Hello                                                                 *)

\* The interface once the declarations of a Hello are stored, and when the
\* handler ends.
Stored(r, s) ==
  [host[r] EXCEPT !.nbrs[s] =
    [known |-> TRUE, twoWay |-> r \in sent[s].lists,
     ndr |-> sent[s].dr, nbdr |-> sent[s].bdr]]

LEMMA StoredType ==
  ASSUME IInv, NEW r \in Routers, NEW s \in Routers
  PROVE  LET h == Stored(r, s) IN
         /\ h \in Hosts /\ h.state = host[r].state /\ h.timer = host[r].timer
         /\ h.dr = host[r].dr /\ Inv(r, h)
<1> DEFINE h == Stored(r, s)
           n == [known |-> TRUE, twoWay |-> r \in sent[s].lists,
                 ndr |-> sent[s].dr, nbdr |-> sent[s].bdr]
<1>1. host[r] \in Hosts /\ sent[s] \in Hellos /\ Inv(r, host[r])
  BY DEF IInv, TypeOK
<1>2. n \in Neighbors /\ n.known
  BY <1>1 DEF Neighbors, Hellos
<1>3. h = [host[r] EXCEPT !.nbrs[s] = n]
  BY DEF Stored
<1> HIDE DEF h, n
<1>4. /\ h \in Hosts /\ h.state = host[r].state /\ h.timer = host[r].timer
      /\ h.dr = host[r].dr /\ h.bdr = host[r].bdr
      /\ h.nbrs = [host[r].nbrs EXCEPT ![s] = n]
  BY <1>1, <1>2, <1>3 DEF Hosts
<1>5. /\ \A x \in Routers : h.nbrs[x] = IF x = s THEN n ELSE host[r].nbrs[x]
      /\ host[r].dr \in Routers \cup {Nobody}
  BY <1>1, <1>4 DEF Hosts
<1>6. WellKnown(r, h)
  BY <1>1, <1>2, <1>4, <1>5 DEF WellKnown, Inv
<1>7. lan.atomic => Told(r, h)
  BY <1>1, <1>4 DEF Told, Inv, Position
<1> QED
  BY <1>4, <1>6, <1>7 DEF Inv, h

LEMMA HelloHandled ==
  ASSUME NEW r \in Routers, NEW s \in Routers, RecvHello(r, s), IInv
  PROVE  \E g, e \in Hosts :
           /\ host' = [host EXCEPT ![r] = e]
           /\ Moves(r, Stored(r, s), g) /\ Moves(r, g, e)
<1> DEFINE h == Stored(r, s)
<1>1. h \in Hosts
  BY StoredType
<1>2. PICK wasDR, wasBDR \in BOOLEAN :
        host' = [host EXCEPT ![r] =
          IF r \notin sent[s].lists THEN h
          ELSE NoticeBDR(r, NoticeDR(r, h, s, wasDR), s, wasBDR)]
  BY DEF RecvHello, Stored
<1> DEFINE g == NoticeDR(r, h, s, wasDR)
           e == NoticeBDR(r, g, s, wasBDR)
<1>3. Moves(r, h, g)
  BY <1>1, NoticedMoves DEF NoticeDR
<1>4. g \in Hosts
  BY <1>1, <1>3, MovesType
<1>5. Moves(r, g, e)
  <2> HIDE DEF g
  <2> QED
    BY <1>4, NoticedMoves DEF NoticeBDR
<1>6. e \in Hosts
  BY <1>4, <1>5, MovesType
<1>7. CASE r \notin sent[s].lists
  <2>1. host' = [host EXCEPT ![r] = h] /\ Moves(r, h, h)
    BY <1>2, <1>7 DEF Moves
  <2> HIDE DEF h
  <2> QED
    BY <1>1, <2>1 DEF h
<1>8. CASE r \in sent[s].lists
  <2>1. host' = [host EXCEPT ![r] = e]
    BY <1>2, <1>8
  <2> HIDE DEF e, g
  <2> QED
    BY <1>3, <1>4, <1>5, <1>6, <2>1
<1> QED
  BY <1>7, <1>8

-----------------------------------------------------------------------------
(* The steps                                                               *)

\* A step that changes one interface and leaves the rest alone.
LEMMA OneInterface ==
  ASSUME IInv, NEW r \in Routers, NEW e \in Hosts, host' = [host EXCEPT ![r] = e],
         sent' = sent, lan' = lan, Inv(r, e)
  PROVE  IInv'
<1>1. TypeOK'
  BY DEF IInv, TypeOK
<1>2. \A q \in Routers : host'[q] = IF q = r THEN e ELSE host[q]
  BY DEF IInv, TypeOK
<1>3. \A q \in Routers : Inv(q, host'[q])
  BY <1>2 DEF IInv
<1>4. (\A q \in Routers : Inv(q, host[q]))'
  BY <1>3 DEF Inv, WellKnown, Told, Position
<1> QED
  BY <1>1, <1>4 DEF IInv

LEMMA IInvInit ==
  Init => IInv
<1> SUFFICES ASSUME Init PROVE IInv
  OBVIOUS
<1>1. lan \in LanType
  BY LanAssumption DEF Init
<1>2. host \in [Routers -> Hosts]
  BY DEF Init, Hosts, Neighbors
<1>3. sent \in [Routers -> Hellos]
  BY DEF Init, NoHello, Hellos
<1>4. ASSUME NEW r \in Routers PROVE Inv(r, host[r])
  BY DEF Init, Inv, WellKnown, Told, Elected
<1> QED
  BY <1>1, <1>2, <1>3, <1>4 DEF IInv, TypeOK

LEMMA IInvStep ==
  IInv /\ [Next]_vars => IInv'
<1> SUFFICES ASSUME IInv, [Next]_vars PROVE IInv'
  OBVIOUS
<1>1. ASSUME NEW r \in Routers PROVE host[r] \in Hosts /\ Inv(r, host[r])
  BY DEF IInv, TypeOK
<1>2. ASSUME NEW r \in Routers, InterfaceUp(r) PROVE IInv'
  <2> DEFINE e == [host[r] EXCEPT !.state = "WAITING", !.timer = "armed"]
  <2>1. host' = [host EXCEPT ![r] = e] /\ sent' = sent /\ lan' = lan
    BY <1>1, <1>2 DEF InterfaceUp, IInv, TypeOK
  <2>2. /\ e \in Hosts /\ e.nbrs = host[r].nbrs /\ e.dr = host[r].dr
        /\ e.state = "WAITING" /\ e.timer = "armed"
    BY <1>1 DEF Hosts
  <2> HIDE DEF e
  <2>3. Inv(r, e)
    BY <1>1, <2>2 DEF Inv, WellKnown, Told, Elected
  <2> QED
    BY <2>1, <2>2, <2>3, OneInterface
<1>3. ASSUME NEW r \in Routers, SendHello(r) PROVE IInv'
  <2>1. host' = host /\ lan' = lan
    BY <1>3 DEF SendHello
  <2>2. sent' \in [Routers -> Hellos]
    BY <1>1, <1>3 DEF SendHello, IInv, TypeOK, Hellos, Hosts
  <2> QED
    BY <2>1, <2>2 DEF IInv, TypeOK, Inv, WellKnown, Told, Position
<1>4. ASSUME NEW r \in Routers, NEW s \in Routers, RecvHello(r, s) PROVE IInv'
  <2> DEFINE h == Stored(r, s)
  <2>1. PICK g, e \in Hosts : /\ host' = [host EXCEPT ![r] = e]
                              /\ Moves(r, h, g) /\ Moves(r, g, e)
    BY <1>4, HelloHandled
  <2>2. h \in Hosts /\ h.timer = host[r].timer /\ Inv(r, h)
    BY StoredType
  <2>3. WellKnown(r, e)
    <3> HIDE DEF h
    <3>1. WellKnown(r, g)
      BY <2>1, <2>2, MovesKnown DEF Inv
    <3> QED
      BY <2>1, <3>1, MovesKnown
  <2>4. ASSUME lan.atomic PROVE Told(r, e)
    <3>1. h.timer \notin {"electing", "elected"}
      BY <1>4, <2>2, <2>4 DEF RecvHello
    <3> HIDE DEF h
    <3>2. Told(r, g) /\ g.timer = h.timer
      BY <2>1, <2>2, <2>4, <3>1, MovesTold DEF Inv, Moves, Elects
    <3> QED
      BY <2>1, <3>1, <3>2, MovesTold
  <2>5. sent' = sent /\ lan' = lan
    BY <1>4 DEF RecvHello
  <2> QED
    BY <2>1, <2>3, <2>4, <2>5, OneInterface DEF Inv
<1>5. ASSUME NEW r \in Routers, WaitTimer(r) PROVE IInv'
  <2> DEFINE t == IF host[r].state = "WAITING" THEN "electing" ELSE "off"
             e == [host[r] EXCEPT !.timer = t]
  <2>1. host' = [host EXCEPT ![r] = e] /\ sent' = sent /\ lan' = lan
    BY <1>1, <1>5 DEF WaitTimer, IInv, TypeOK
  <2>2. /\ e \in Hosts /\ e.nbrs = host[r].nbrs /\ e.dr = host[r].dr /\ e.bdr = host[r].bdr
        /\ e.state = host[r].state /\ e.timer = t
    BY <1>1 DEF Hosts
  <2>3. t \in {"electing", "off"} /\ (t = "electing" => e.state = "WAITING")
    BY <2>2
  <2> HIDE DEF e, t
  <2>4. Inv(r, e)
    BY <1>1, <2>2, <2>3 DEF Inv, WellKnown, Told, Elected, Position
  <2> QED
    BY <2>1, <2>2, <2>4, OneInterface
<1>6. ASSUME NEW r \in Routers, WaitTimerElects(r) PROVE IInv'
  <2> DEFINE h == host[r]
             g == Elect(r, h)
             e == [g EXCEPT !.timer = "elected"]
  <2>1. host' = [host EXCEPT ![r] = e] /\ sent' = sent /\ lan' = lan
    BY <1>6 DEF WaitTimerElects
  <2>2. h \in Hosts /\ h.state # "CRASHED" /\ h.timer = "electing" /\ Inv(r, h)
    BY <1>1, <1>6 DEF WaitTimerElects, Up
  <2>3. Elects(r, h, g) /\ g.state \in {h.state, "CRASHED"}
    BY <2>2, ElectElects
  <2> HIDE DEF g, h
  <2>4. /\ e \in Hosts /\ e.nbrs = g.nbrs /\ e.dr = g.dr /\ e.state = g.state
        /\ e.timer = "elected"
    BY <2>3 DEF Elects, Hosts
  <2> HIDE DEF e
  <2>5. WellKnown(r, e)
    <3>1. CASE g.state = "CRASHED"
      BY <2>2, <2>3, <2>4, <3>1 DEF Inv, WellKnown, Elects, Elected
    <3>2. CASE g.state # "CRASHED"
      <4>1. g.dr \in Routers /\ (g.dr = r \/ h.nbrs[g.dr].known) /\ g.nbrs = h.nbrs
        BY <2>2, <2>3, <3>2 DEF Elects, Candidates, Inv, WellKnown
      <4> QED
        BY <2>2, <2>4, <4>1, LanAssumption DEF Inv, WellKnown, Nobody
    <3> QED
      BY <3>1, <3>2
  <2>6. lan.atomic => Told(r, e)
    BY <2>2, <2>3, <2>4 DEF Inv, Told, Elected
  <2> QED
    BY <2>1, <2>4, <2>5, <2>6, OneInterface DEF Inv
<1>7. ASSUME NEW r \in Routers, WaitTimerMoves(r) PROVE IInv'
  <2> DEFINE h == host[r]
             e == [h EXCEPT !.state = Position(r, h), !.timer = "off"]
  <2>1. h \in Hosts /\ h.state # "CRASHED" /\ h.timer = "elected" /\ Inv(r, h)
    BY <1>1, <1>7 DEF WaitTimerMoves, Up
  <2>2. host' = [host EXCEPT ![r] = e] /\ sent' = sent /\ lan' = lan
    BY <2>1, <1>7 DEF WaitTimerMoves, IInv, TypeOK
  <2> HIDE DEF h
  <2>3. /\ e \in Hosts /\ e.nbrs = h.nbrs /\ e.dr = h.dr /\ e.bdr = h.bdr
        /\ e.state = Position(r, h) /\ e.timer = "off"
    BY <2>1, PositionType DEF Hosts, Elected
  <2> HIDE DEF e
  <2>4. Inv(r, e)
    BY <2>1, <2>3 DEF Inv, WellKnown, Told, Position
  <2> QED
    BY <2>2, <2>3, <2>4, OneInterface
<1>8. CASE UNCHANGED vars
  BY <1>8 DEF vars, IInv, TypeOK, Inv, WellKnown, Told, Position
<1> QED
  BY <1>2, <1>3, <1>4, <1>5, <1>6, <1>7, <1>8 DEF Next, TimerStep

-----------------------------------------------------------------------------
(* Theorems                                                                *)

\* Every reachable state is well typed.
THEOREM TypeCorrect == Spec => []TypeOK
<1>1. IInv => TypeOK
  BY DEF IInv
<1> QED
  BY IInvInit, IInvStep, <1>1, PTL DEF Spec

\* getNeighbor(interface->dr) in genRouterLSA finds the neighbour.
THEOREM DesignatedIsKnown == Spec => []ElectedIsKnown
<1>1. IInv => ElectedIsKnown
  BY DEF IInv, Inv, WellKnown, ElectedIsKnown
<1> QED
  BY IInvInit, IInvStep, <1>1, PTL DEF Spec

\* The state of an interface is its role, if no Hello is handled while the
\* timer elects.
THEOREM RoleIsTold == Spec => []StateTellsRole
<1>1. IInv => StateTellsRole
  BY DEF IInv, Inv, Told, StateTellsRole
<1> QED
  BY IInvInit, IInvStep, <1>1, PTL DEF Spec

\* A step of any host leaves a designated router one, crashes it, or has heard
\* of another one.
LEMMA NotPreemptedStep ==
  ASSUME IInv, [Next]_vars, NEW r \in Routers, host[r].state = "DR",
         host[r].dr = r, host[r].timer \notin {"electing", "elected"}
  PROVE  \/ host'[r].state \in {"DR", "CRASHED"}
         \/ \E s \in Routers \ {r} : host'[r].nbrs[s].ndr = s
<1>1. host[r] \in Hosts /\ host \in [Routers -> Hosts]
  BY DEF IInv, TypeOK
<1>2. host[r].dr = r /\ host[r].timer \notin {"electing", "elected"}
  OBVIOUS
<1>3. SUFFICES ASSUME host'[r] # host[r], host'[r].state \notin {"DR", "CRASHED"}
               PROVE  \E s \in Routers \ {r} : host'[r].nbrs[s].ndr = s
  OBVIOUS
<1>4. ASSUME NEW q \in Routers, NEW e, host' = [host EXCEPT ![q] = e]
      PROVE  q = r /\ host'[r] = e
  BY <1>1, <1>3, <1>4
<1>5. ASSUME NEW q \in Routers, InterfaceUp(q) PROVE FALSE
  <2>1. q = r
    BY <1>1, <1>3, <1>5 DEF InterfaceUp
  <2> QED
    BY <1>5, <2>1 DEF InterfaceUp
<1>6. ASSUME NEW q \in Routers, SendHello(q) PROVE FALSE
  BY <1>3, <1>6 DEF SendHello
<1>7. ASSUME NEW q \in Routers, TimerStep(q) PROVE FALSE
  <2>1. q = r
    BY <1>1, <1>3, <1>7 DEF TimerStep, WaitTimer, WaitTimerElects, WaitTimerMoves
  <2>2. WaitTimer(r)
    BY <1>2, <1>7, <2>1 DEF TimerStep, WaitTimerElects, WaitTimerMoves
  <2>3. host'[r].state = host[r].state
    BY <1>1, <2>2 DEF WaitTimer, Hosts
  <2> QED
    BY <1>3, <2>3
<1>8. ASSUME NEW q \in Routers, NEW s \in Routers, RecvHello(q, s)
      PROVE  \E x \in Routers \ {r} : host'[r].nbrs[x].ndr = x
  <2>1. PICK g, e \in Hosts : /\ host' = [host EXCEPT ![q] = e]
                              /\ Moves(q, Stored(q, s), g) /\ Moves(q, g, e)
    BY <1>8, HelloHandled
  <2>2. q = r /\ host'[r] = e
    BY <2>1, <1>4
  <2> DEFINE h == Stored(r, s)
  <2>3. h \in Hosts /\ h.state = "DR" /\ h.dr = r
    BY <1>2, StoredType
  <2>4. Moves(r, h, g) /\ Moves(r, g, e) /\ e.state \notin {"DR", "CRASHED"}
    BY <1>3, <2>1, <2>2
  <2> HIDE DEF h
  <2>5. h.nbrs = g.nbrs /\ g.nbrs = e.nbrs
    BY <2>4 DEF Moves, Elects
  <2>6. SUFFICES ASSUME ~Objects(r, h) PROVE FALSE
    BY <2>2, <2>5 DEF Objects
  <2>7. ~Objects(r, g)
    BY <2>5, <2>6 DEF Objects
  <2>8. g.state = "CRASHED" \/ (g.state = "DR" /\ g.dr = r)
    BY <2>1, <2>3, <2>4, <2>6, MovesStays
  <2>9. g.state = "CRASHED" => e.state = "CRASHED"
    BY <2>4 DEF Moves
  <2> QED
    BY <2>1, <2>4, <2>7, <2>8, <2>9, MovesStays
<1>9. CASE UNCHANGED vars
  BY <1>3, <1>9 DEF vars
<1> QED
  BY <1>5, <1>6, <1>7, <1>8, <1>9 DEF Next

-----------------------------------------------------------------------------
(* Staggered LANs. The first host elects itself before any other comes up. *)
(* Of the others each hears the first one before its timer elects, and an  *)
(* election that a Hello causes earlier has the sender of that Hello as    *)
(* a candidate, which outranks the host itself.                            *)

\* The first host h, until it has elected itself.
Rises(f, h) ==
  /\ h.state = "WAITING"
  /\ \/ h.timer \in {"armed", "electing"} /\ h.dr = Nobody
     \/ h.timer = "elected" /\ h.dr = f
  /\ \A s \in Routers : ~h.nbrs[s].known /\ ~h.nbrs[s].twoWay

\* The first host h, once it is designated router.
Leads(f, h) == h.state = "DR" /\ h.dr = f /\ h.timer = "off"

\* Another host h that came up later: it does not elect itself, and not even
\* as backup before it heard the first one.
Follows(f, s, h) ==
  /\ h.state \notin {"DR", "CRASHED"} /\ h.dr # s
  /\ h.bdr = s \/ h.timer \in {"electing", "elected"} => h.nbrs[f].twoWay
  /\ h.nbrs[f].twoWay => h.nbrs[f].ndr = f

\* None but the first host is heard to declare itself designated router.
NoRival(f, h) == \A x \in Routers \ {f} : h.nbrs[x].ndr # x

\* No other host is up yet.
Alone(f) == \A s \in Routers \ {f} : host[s].state = "DOWN" /\ ~sent[s].on

\* What is on its way. The first host lists those it has heard, and by then it
\* is designated router; whom it lists once it lists for good.
OnTheWay(f) ==
  /\ \A s \in Routers \ {f} : sent[s].dr # s
  /\ \A s \in Routers : s \in sent[f].lists => sent[f].dr = f /\ host[f].nbrs[s].known
  /\ \A s \in Routers \ {f} : host[s].nbrs[f].twoWay => s \in sent[f].lists

First(f) ==
  /\ (Alone(f) /\ Rises(f, host[f])) \/ Leads(f, host[f])
  /\ \A s \in Routers \ {f} : Follows(f, s, host[s])
  /\ \A r \in Routers : NoRival(f, host[r])
  /\ OnTheWay(f)

\* Either nothing happened yet, or there is a first host.
Staggered == lan.staggered => Init \/ \E f \in Routers : First(f)

\* A follower that elects has another candidate for backup, since it does not
\* declare itself, and takes that one unless it knows the first host.
LEMMA FollowerElects ==
  ASSUME NEW f \in Routers, NEW s \in Routers \ {f}, NEW h \in Hosts,
         Follows(f, s, h), NoRival(f, h),
         NEW x \in Routers \ {s}, h.nbrs[x].twoWay
  PROVE  LET e == Elect(s, h) IN
         /\ e \in Hosts /\ e.state = h.state /\ e.nbrs = h.nbrs
         /\ e.timer = h.timer /\ e.dr # s
         /\ e.bdr = s => h.nbrs[f].twoWay
<1> DEFINE C == Candidates(s, h)
           D == DRCandidates(s, h)
           B == BDRCandidates(s, h)
           bdr == Best(s, B)
           dr == IF D = {} THEN bdr ELSE Best(s, D)
<1>1. C \subseteq Routers /\ s \in C /\ x \in C /\ D \subseteq C
  BY DEF Candidates, DRCandidates
<1>2. D \subseteq {f} /\ (h.nbrs[f].twoWay => f \in D)
  <2>1. \A y \in D : y = f
    BY <1>1 DEF DRCandidates, DeclaredDR, Follows, NoRival
  <2>2. h.nbrs[f].twoWay => f \in D
    BY DEF DRCandidates, DeclaredDR, Candidates, Follows
  <2> QED
    BY <2>1, <2>2
<1>3. B \subseteq C /\ B # {}
  BY <1>1, <1>2 DEF BDRCandidates
<1>4. bdr \in B
  BY <1>1, <1>3, BestOf
<1>5. CASE h.nbrs[f].twoWay
  <2>1. D = {f}
    BY <1>2, <1>5
  <2>2. dr = f
    <3>1. Best(s, D) \in D
      BY <2>1, BestOf
    <3> HIDE DEF D, bdr
    <3> QED
      BY <2>1, <3>1
  <2> HIDE DEF bdr, dr, B, C, D
  <2>3. Elect(s, h) = [h EXCEPT !.dr = dr, !.bdr = bdr]
    BY <1>3 DEF Elect, B, D, bdr, dr
  <2>4. dr \in Routers /\ bdr \in Routers
    BY <1>1, <1>3, <1>4, <2>2
  <2> QED
    BY <1>5, <2>2, <2>3, <2>4 DEF Hosts
<1>6. CASE ~h.nbrs[f].twoWay
  <2>1. D = {}
    BY <1>1, <1>2, <1>6 DEF DRCandidates, Candidates
  <2>2. bdr # s
    <3> DEFINE lv1 == {y \in C : DeclaredBDR(s, h, y) = y}
    <3>1. B = IF lv1 # {} THEN lv1 ELSE C
      BY <2>1 DEF BDRCandidates
    <3>2. s \notin lv1
      BY <1>6 DEF DeclaredBDR, Follows
    <3>3. CASE lv1 # {}
      BY <1>4, <3>1, <3>2, <3>3
    <3>4. CASE lv1 = {}
      BY <1>1, <3>1, <3>4, OutranksItself
    <3> QED
      BY <3>3, <3>4
  <2> HIDE DEF bdr, dr, B, C, D
  <2>3. Elect(s, h) = [h EXCEPT !.dr = bdr, !.bdr = bdr]
    BY <1>3, <2>1 DEF Elect, B, D, bdr
  <2>4. bdr \in Routers
    BY <1>1, <1>3, <1>4
  <2> QED
    BY <2>2, <2>3, <2>4 DEF Hosts
<1> QED
  BY <1>5, <1>6

\* The first host that elects again, for a neighbour it now knows.
LEMMA LeaderElects ==
  ASSUME NEW f \in Routers, NEW h \in Hosts, Leads(f, h), NoRival(f, h),
         NEW x \in Routers \ {f}, h.nbrs[x].twoWay
  PROVE  LET e == Elect(f, h) IN
         e \in Hosts /\ e.nbrs = h.nbrs /\ Leads(f, e)
<1> DEFINE C == Candidates(f, h)
           D == DRCandidates(f, h)
           B == BDRCandidates(f, h)
           bdr == Best(f, B)
<1>1. C \subseteq Routers /\ x \in C /\ D \subseteq C
  BY DEF Candidates, DRCandidates
<1>2. D = {f}
  <2>1. f \in D
    BY DEF DRCandidates, DeclaredDR, Candidates, Leads
  <2>2. \A y \in D : y = f
    BY <1>1 DEF DRCandidates, DeclaredDR, NoRival
  <2> QED
    BY <2>1, <2>2
<1>3. B \subseteq C /\ B # {}
  BY <1>1, <1>2 DEF BDRCandidates
<1>4. bdr \in Routers
  BY <1>1, <1>3, BestOf
<1>5. Best(f, D) = f
  <2>1. Best(f, D) \in D
    BY <1>2, BestOf
  <2> HIDE DEF D
  <2> QED
    BY <1>2, <2>1
<1> HIDE DEF bdr, B, C, D
<1>6. Elect(f, h) = [h EXCEPT !.dr = f, !.bdr = bdr]
  <2>1. D # {}
    BY <1>2
  <2> QED
    BY <1>3, <1>5, <2>1 DEF Elect, B, D, bdr
<1> QED
  BY <1>4, <1>6 DEF Hosts, Leads

\* What the end of the Hello handler does to a follower that knows the sender.
LEMMA FollowerNoticed ==
  ASSUME NEW f \in Routers, NEW s \in Routers \ {f}, NEW h \in Hosts,
         Follows(f, s, h), NoRival(f, h),
         NEW x \in Routers \ {s}, h.nbrs[x].twoWay,
         NEW backupSeen, NEW was, NEW declares
  PROVE  LET e == Noticed(s, h, backupSeen, was, declares) IN
         e \in Hosts /\ e.nbrs = h.nbrs /\ Follows(f, s, e)
<1> DEFINE e == Elect(s, h)
<1>1. /\ e \in Hosts /\ e.state = h.state /\ e.nbrs = h.nbrs
      /\ e.timer = h.timer /\ e.dr # s
      /\ e.bdr = s => h.nbrs[f].twoWay
  BY FollowerElects
<1> HIDE DEF e
<1>2. e.state # "CRASHED" /\ Position(s, e) \in Elected \ {"DR"}
  BY <1>1 DEF Follows, Position, Elected
<1>3. ElectAndMove(s, h) = [e EXCEPT !.state = Position(s, e)]
  BY <1>2 DEF ElectAndMove, e
<1>4. /\ ElectAndMove(s, h) \in Hosts /\ ElectAndMove(s, h).nbrs = h.nbrs
      /\ Follows(f, s, ElectAndMove(s, h))
  BY <1>1, <1>2, <1>3 DEF Hosts, Follows, Elected
<1> QED
  BY <1>4 DEF Noticed, EventBackUpSeen, EventNeighborChange

\* An event a Hello causes leaves the first host designated router.
LEMMA LeaderNoticed ==
  ASSUME NEW f \in Routers, NEW h \in Hosts, Leads(f, h), NoRival(f, h),
         NEW x \in Routers \ {f}, h.nbrs[x].twoWay,
         NEW backupSeen, NEW was, NEW declares
  PROVE  LET e == Noticed(f, h, backupSeen, was, declares) IN
         e \in Hosts /\ e.nbrs = h.nbrs /\ Leads(f, e)
<1> DEFINE e == Elect(f, h)
<1>1. e \in Hosts /\ e.nbrs = h.nbrs /\ Leads(f, e)
  BY LeaderElects
<1> HIDE DEF e
<1>2. e.state # "CRASHED" /\ Position(f, e) = "DR"
  BY <1>1 DEF Leads, Position
<1>3. ElectAndMove(f, h) = [e EXCEPT !.state = "DR"]
  BY <1>2 DEF ElectAndMove, e
<1>4. /\ ElectAndMove(f, h) \in Hosts /\ ElectAndMove(f, h).nbrs = h.nbrs
      /\ Leads(f, ElectAndMove(f, h))
  BY <1>1, <1>3 DEF Hosts, Leads
<1> QED
  BY <1>4 DEF Noticed, EventBackUpSeen, EventNeighborChange, Leads

\* A Hello is stored, and if it lists the host two events may follow.
LEMMA HelloStored ==
  ASSUME IInv, NEW r \in Routers, NEW s \in Routers, RecvHello(r, s)
  PROVE  \E a, b \in BOOLEAN :
           host' = [host EXCEPT ![r] =
             IF r \notin sent[s].lists THEN Stored(r, s)
             ELSE NoticeBDR(r, NoticeDR(r, Stored(r, s), s, a), s, b)]
BY DEF RecvHello, Stored

\* What a Hello does to the neighbours of the host that handles it.
LEMMA StoredNeighbors ==
  ASSUME IInv, NEW r \in Routers, NEW s \in Routers
  PROVE  /\ Stored(r, s).bdr = host[r].bdr
         /\ Stored(r, s).nbrs[s].known
         /\ Stored(r, s).nbrs[s].twoWay = (r \in sent[s].lists)
         /\ Stored(r, s).nbrs[s].ndr = sent[s].dr
         /\ \A x \in Routers \ {s} : Stored(r, s).nbrs[x] = host[r].nbrs[x]
BY DEF IInv, TypeOK, Hosts, Stored

\* A step that changes one interface, once there is a first host.
LEMMA OneHostFirst ==
  ASSUME IInv, NEW f \in Routers, First(f), NEW r \in Routers, NEW e \in Hosts,
         host' = [host EXCEPT ![r] = e], sent' = sent,
         r = f => (Alone(f) /\ Rises(f, e)) \/ Leads(f, e),
         r # f => /\ Leads(f, host[f]) /\ Follows(f, r, e)
                  /\ e.nbrs[f].twoWay => r \in sent[f].lists,
         NoRival(f, e),
         \A s \in Routers : host[r].nbrs[s].known => e.nbrs[s].known
  PROVE  First(f)'
<1>1. \A q \in Routers : host'[q] = IF q = r THEN e ELSE host[q]
  BY DEF IInv, TypeOK
<1>2. ((Alone(f) /\ Rises(f, host[f])) \/ Leads(f, host[f]))'
  <2>1. CASE r = f
    <3>1. Alone(f) => Alone(f)'
      BY <1>1, <2>1 DEF Alone
    <3> QED
      BY <1>1, <2>1, <3>1 DEF Rises, Leads
  <2>2. CASE r # f
    BY <1>1, <2>2 DEF Leads
  <2> QED
    BY <2>1, <2>2
<1>3. (\A s \in Routers \ {f} : Follows(f, s, host[s]))'
  BY <1>1 DEF First, Follows
<1>4. (\A q \in Routers : NoRival(f, host[q]))'
  BY <1>1 DEF First, NoRival
<1>5. OnTheWay(f)'
  BY <1>1 DEF First, OnTheWay
<1> QED
  BY <1>2, <1>3, <1>4, <1>5 DEF First

\* A follower handles a Hello.
LEMMA FollowerHears ==
  ASSUME IInv, NEW f \in Routers, First(f), NEW r \in Routers \ {f},
         NEW s \in Routers, RecvHello(r, s)
  PROVE  First(f)'
<1> DEFINE h == Stored(r, s)
           listed == r \in sent[s].lists
<1>1. r # s /\ sent' = sent /\ Leads(f, host[f])
  BY DEF RecvHello, Up, First, Alone
<1>2. /\ h \in Hosts /\ h.state = host[r].state /\ h.timer = host[r].timer
      /\ h.dr = host[r].dr
  BY StoredType
<1>3. /\ h.bdr = host[r].bdr /\ h.nbrs[s].known
      /\ h.nbrs[s].twoWay = listed /\ h.nbrs[s].ndr = sent[s].dr
      /\ \A x \in Routers \ {s} : h.nbrs[x] = host[r].nbrs[x]
  BY StoredNeighbors
<1>4. PICK a, b \in BOOLEAN :
        host' = [host EXCEPT ![r] =
          IF ~listed THEN h ELSE NoticeBDR(r, NoticeDR(r, h, s, a), s, b)]
  BY HelloStored
<1> HIDE DEF h, listed
<1>5. NoRival(f, h)
  BY <1>3 DEF First, OnTheWay, NoRival
<1>6. Follows(f, r, host[r]) /\ (host[r].nbrs[f].twoWay => r \in sent[f].lists)
  BY DEF First, OnTheWay
<1>7. /\ h.nbrs[f].twoWay => r \in sent[f].lists /\ h.nbrs[f].ndr = f
      /\ host[r].nbrs[f].twoWay => h.nbrs[f].twoWay
  <2>1. CASE s = f
    BY <1>3, <1>6, <2>1 DEF First, OnTheWay, listed
  <2>2. CASE s # f
    <3>1. h.nbrs[f] = host[r].nbrs[f]
      BY <1>3, <2>2
    <3> QED
      BY <1>6, <3>1 DEF Follows
  <2> QED
    BY <2>1, <2>2
<1>8. Follows(f, r, h)
  BY <1>2, <1>3, <1>6, <1>7 DEF Follows
<1> DEFINE g == NoticeDR(r, h, s, a)
           e == IF ~listed THEN h ELSE NoticeBDR(r, g, s, b)
<1>9. e \in Hosts /\ e.nbrs = h.nbrs /\ Follows(f, r, e)
  <2>1. CASE ~listed
    BY <1>2, <1>8, <2>1
  <2>2. CASE listed
    <3>1. h.nbrs[s].twoWay /\ s \in Routers \ {r}
      BY <1>1, <1>3, <2>2
    <3>2. g \in Hosts /\ g.nbrs = h.nbrs /\ Follows(f, r, g)
      BY <1>2, <1>5, <1>8, <3>1, FollowerNoticed DEF NoticeDR
    <3> HIDE DEF g
    <3>3. NoRival(f, g) /\ g.nbrs[s].twoWay
      BY <1>5, <3>1, <3>2 DEF NoRival
    <3>4. LET k == NoticeBDR(r, g, s, b) IN
          k \in Hosts /\ k.nbrs = g.nbrs /\ Follows(f, r, k)
      BY <3>1, <3>2, <3>3, FollowerNoticed DEF NoticeBDR
    <3> QED
      BY <2>2, <3>2, <3>4
  <2> QED
    BY <2>1, <2>2
<1>10. host' = [host EXCEPT ![r] = e]
  BY <1>4
<1> HIDE DEF e
<1>11. NoRival(f, e) /\ (e.nbrs[f].twoWay => r \in sent[f].lists)
  BY <1>5, <1>7, <1>9 DEF NoRival
<1>12. \A x \in Routers : host[r].nbrs[x].known => e.nbrs[x].known
  BY <1>3, <1>9
<1> QED
  BY <1>1, <1>9, <1>10, <1>11, <1>12, OneHostFirst

\* The first host handles a Hello, so it is no longer alone.
LEMMA LeaderHears ==
  ASSUME IInv, NEW f \in Routers, First(f), NEW s \in Routers, RecvHello(f, s)
  PROVE  First(f)'
<1> DEFINE h == Stored(f, s)
           listed == f \in sent[s].lists
<1>1. f # s /\ sent' = sent /\ Leads(f, host[f])
  BY DEF RecvHello, First, Alone
<1>2. /\ h \in Hosts /\ h.state = host[f].state /\ h.timer = host[f].timer
      /\ h.dr = host[f].dr
  BY StoredType
<1>3. /\ h.nbrs[s].known
      /\ h.nbrs[s].twoWay = listed /\ h.nbrs[s].ndr = sent[s].dr
      /\ \A x \in Routers \ {s} : h.nbrs[x] = host[f].nbrs[x]
  BY StoredNeighbors
<1>4. PICK a, b \in BOOLEAN :
        host' = [host EXCEPT ![f] =
          IF ~listed THEN h ELSE NoticeBDR(f, NoticeDR(f, h, s, a), s, b)]
  BY HelloStored
<1> HIDE DEF h, listed
<1>5. NoRival(f, h) /\ Leads(f, h)
  BY <1>1, <1>2, <1>3 DEF First, OnTheWay, NoRival, Leads
<1> DEFINE g == NoticeDR(f, h, s, a)
           e == IF ~listed THEN h ELSE NoticeBDR(f, g, s, b)
<1>6. e \in Hosts /\ e.nbrs = h.nbrs /\ Leads(f, e)
  <2>1. CASE ~listed
    BY <1>2, <1>5, <2>1
  <2>2. CASE listed
    <3>1. h.nbrs[s].twoWay /\ s \in Routers \ {f}
      BY <1>1, <1>3, <2>2
    <3>2. g \in Hosts /\ g.nbrs = h.nbrs /\ Leads(f, g)
      BY <1>2, <1>5, <3>1, LeaderNoticed DEF NoticeDR
    <3> HIDE DEF g
    <3>3. NoRival(f, g) /\ g.nbrs[s].twoWay
      BY <1>5, <3>1, <3>2 DEF NoRival
    <3>4. LET k == NoticeBDR(f, g, s, b) IN
          k \in Hosts /\ k.nbrs = g.nbrs /\ Leads(f, k)
      BY <3>1, <3>2, <3>3, LeaderNoticed DEF NoticeBDR
    <3> QED
      BY <2>2, <3>2, <3>4
  <2> QED
    BY <2>1, <2>2
<1>7. host' = [host EXCEPT ![f] = e]
  BY <1>4
<1> HIDE DEF e
<1>8. NoRival(f, e)
  BY <1>5, <1>6 DEF NoRival
<1>9. \A x \in Routers : host[f].nbrs[x].known => e.nbrs[x].known
  BY <1>3, <1>6
<1> QED
  BY <1>1, <1>6, <1>7, <1>8, <1>9, OneHostFirst

\* The first host, which knows nobody yet, elects itself.
LEMMA RisingElects ==
  ASSUME NEW f \in Routers, NEW h \in Hosts, Rises(f, h), h.dr = Nobody
  PROVE  LET e == Elect(f, h) IN
         /\ e \in Hosts /\ e.state = h.state /\ e.nbrs = h.nbrs
         /\ e.timer = h.timer /\ e.dr = f
<1>1. Candidates(f, h) = {f}
  BY DEF Candidates, Rises
<1>2. DRCandidates(f, h) = {}
  BY <1>1, LanAssumption DEF DRCandidates, DeclaredDR, Nobody
<1>3. BDRCandidates(f, h) = {f}
  BY <1>1, <1>2 DEF BDRCandidates
<1>4. Best(f, {f}) = f
  <2>1. Best(f, {f}) \in {f}
    BY BestOf
  <2> QED
    BY <2>1
<1>5. Elect(f, h) = [h EXCEPT !.dr = f, !.bdr = f]
  BY <1>2, <1>3, <1>4 DEF Elect
<1> QED
  BY <1>5 DEF Hosts

\* The timer thread of the first host runs while it is alone.
LEMMA LeaderTimer ==
  ASSUME IInv, NEW f \in Routers, First(f), TimerStep(f)
  PROVE  First(f)'
<1> DEFINE h == host[f]
<1>1. /\ h \in Hosts /\ h.timer # "off"
      /\ Alone(f) /\ Rises(f, h) /\ NoRival(f, h)
  BY DEF IInv, TypeOK, First, Leads, TimerStep, WaitTimer, WaitTimerElects,
         WaitTimerMoves
<1>2. SUFFICES \E e \in Hosts :
        /\ host' = [host EXCEPT ![f] = e] /\ sent' = sent /\ e.nbrs = h.nbrs
        /\ Rises(f, e) \/ Leads(f, e)
  <2>1. PICK e \in Hosts :
          /\ host' = [host EXCEPT ![f] = e] /\ sent' = sent /\ e.nbrs = h.nbrs
          /\ Rises(f, e) \/ Leads(f, e)
    BY <1>2
  <2>2. NoRival(f, e) /\ \A s \in Routers : h.nbrs[s].known => e.nbrs[s].known
    BY <1>1, <2>1 DEF NoRival
  <2> QED
    BY <1>1, <2>1, <2>2, OneHostFirst
<1>3. CASE WaitTimer(f)
  <2> DEFINE e == [h EXCEPT !.timer = "electing"]
  <2>1. host' = [host EXCEPT ![f] = e] /\ sent' = sent /\ h.timer = "armed"
    BY <1>1, <1>3 DEF WaitTimer, Rises, IInv, TypeOK
  <2>2. e \in Hosts /\ e.nbrs = h.nbrs /\ Rises(f, e)
    BY <1>1, <2>1 DEF Hosts, Rises
  <2> QED
    BY <2>1, <2>2
<1>4. CASE WaitTimerElects(f)
  <2> DEFINE g == Elect(f, h)
             e == [g EXCEPT !.timer = "elected"]
  <2>1. host' = [host EXCEPT ![f] = e] /\ sent' = sent /\ h.timer = "electing"
    BY <1>4 DEF WaitTimerElects
  <2>2. h.dr = Nobody
    BY <1>1, <2>1 DEF Rises
  <2>3. /\ g \in Hosts /\ g.state = h.state /\ g.nbrs = h.nbrs
        /\ g.timer = h.timer /\ g.dr = f
    BY <1>1, <2>2, RisingElects
  <2> HIDE DEF g
  <2>4. e \in Hosts /\ e.nbrs = h.nbrs /\ Rises(f, e)
    BY <1>1, <2>3 DEF Hosts, Rises
  <2> QED
    BY <2>1, <2>4
<1>5. CASE WaitTimerMoves(f)
  <2> DEFINE e == [h EXCEPT !.state = "DR", !.timer = "off"]
  <2>1. h.timer = "elected" /\ sent' = sent
    BY <1>5 DEF WaitTimerMoves
  <2>2. h.dr = f
    BY <1>1, <2>1 DEF Rises
  <2>3. host' = [host EXCEPT ![f] = e]
    BY <1>1, <1>5, <2>2 DEF WaitTimerMoves, Position, IInv, TypeOK
  <2>4. e \in Hosts /\ e.nbrs = h.nbrs /\ Leads(f, e)
    BY <1>1, <2>2 DEF Hosts, Leads, Elected
  <2> QED
    BY <2>1, <2>3, <2>4
<1> QED
  BY <1>3, <1>4, <1>5 DEF TimerStep

\* The timer of a follower elects after it has heard the first host, which is up.
LEMMA FollowerTimer ==
  ASSUME IInv, lan.staggered, NEW f \in Routers, First(f),
         NEW r \in Routers \ {f}, TimerStep(r)
  PROVE  First(f)'
<1> DEFINE h == host[r]
<1>1. /\ h \in Hosts /\ Up(r) /\ Leads(f, host[f]) /\ Follows(f, r, h)
      /\ NoRival(f, h) /\ (h.nbrs[f].twoWay => r \in sent[f].lists)
  BY DEF IInv, TypeOK, First, OnTheWay, Alone, Up, TimerStep, WaitTimer,
         WaitTimerElects, WaitTimerMoves
<1>2. SUFFICES \E e \in Hosts :
        /\ host' = [host EXCEPT ![r] = e] /\ sent' = sent /\ e.nbrs = h.nbrs
        /\ Follows(f, r, e)
  <2>1. PICK e \in Hosts :
          /\ host' = [host EXCEPT ![r] = e] /\ sent' = sent /\ e.nbrs = h.nbrs
          /\ Follows(f, r, e)
    BY <1>2
  <2>2. /\ NoRival(f, e) /\ (e.nbrs[f].twoWay => r \in sent[f].lists)
        /\ \A s \in Routers : h.nbrs[s].known => e.nbrs[s].known
    BY <1>1, <2>1 DEF NoRival
  <2> QED
    BY <1>1, <2>1, <2>2, OneHostFirst
<1>3. CASE WaitTimer(r)
  <2> DEFINE t == IF h.state = "WAITING" THEN "electing" ELSE "off"
             e == [h EXCEPT !.timer = t]
  <2>1. host' = [host EXCEPT ![r] = e] /\ sent' = sent /\ HeardAll(r)
    BY <1>1, <1>3 DEF WaitTimer, IInv, TypeOK
  <2>2. h.nbrs[f].twoWay
    BY <1>1, <2>1 DEF HeardAll, Up, Leads
  <2>3. t \in {"electing", "off"}
    OBVIOUS
  <2> HIDE DEF t
  <2>4. e \in Hosts /\ e.nbrs = h.nbrs /\ Follows(f, r, e)
    BY <1>1, <2>2, <2>3 DEF Hosts, Follows
  <2> QED
    BY <2>1, <2>4
<1>4. CASE WaitTimerElects(r)
  <2> DEFINE g == Elect(r, h)
             e == [g EXCEPT !.timer = "elected"]
  <2>1. host' = [host EXCEPT ![r] = e] /\ sent' = sent /\ h.timer = "electing"
    BY <1>4 DEF WaitTimerElects
  <2>2. h.nbrs[f].twoWay /\ f \in Routers \ {r}
    BY <1>1, <2>1 DEF Follows
  <2>3. /\ g \in Hosts /\ g.state = h.state /\ g.nbrs = h.nbrs
        /\ g.timer = h.timer /\ g.dr # r
    BY <1>1, <2>2, FollowerElects
  <2> HIDE DEF g
  <2>4. e \in Hosts /\ e.nbrs = h.nbrs /\ Follows(f, r, e)
    BY <1>1, <2>2, <2>3 DEF Hosts, Follows
  <2> QED
    BY <2>1, <2>4
<1>5. CASE WaitTimerMoves(r)
  <2> DEFINE p == Position(r, h)
             e == [h EXCEPT !.state = p, !.timer = "off"]
  <2>1. /\ host' = [host EXCEPT ![r] = e] /\ sent' = sent
        /\ p \in Elected \ {"DR"}
    BY <1>1, <1>5 DEF WaitTimerMoves, Position, Follows, Elected, IInv, TypeOK
  <2> HIDE DEF p
  <2>2. e \in Hosts /\ e.nbrs = h.nbrs /\ Follows(f, r, e)
    BY <1>1, <2>1 DEF Hosts, Follows, Elected
  <2> QED
    BY <2>1, <2>2
<1> QED
  BY <1>3, <1>4, <1>5 DEF TimerStep

\* A Hello tells what its host declares and whom it knows.
LEMMA SendFirst ==
  ASSUME IInv, NEW f \in Routers, First(f), NEW r \in Routers, SendHello(r)
  PROVE  First(f)'
<1> DEFINE m == [dr |-> host[r].dr, bdr |-> host[r].bdr, on |-> TRUE,
                 lists |-> {s \in Routers : host[r].nbrs[s].known}]
<1>1. host' = host /\ Up(r) /\ \A q \in Routers : sent'[q] = IF q = r THEN m ELSE sent[q]
  BY DEF SendHello, IInv, TypeOK
<1> DEFINE known == {s \in Routers : host[r].nbrs[s].known}
<1> HIDE DEF known
<1>2. m.dr = host[r].dr /\ m.lists = known
  BY DEF known
<1> HIDE DEF m
<1>3. \A s \in Routers \ {f} : sent'[s].dr # s
  BY <1>1, <1>2 DEF First, OnTheWay, Follows
<1>4. \A s \in Routers : s \in sent'[f].lists => sent'[f].dr = f /\ host'[f].nbrs[s].known
  BY <1>1, <1>2 DEF First, OnTheWay, Rises, Leads, known
<1>5. \A s \in Routers \ {f} : host'[s].nbrs[f].twoWay => s \in sent'[f].lists
  BY <1>1, <1>2 DEF First, OnTheWay, known
<1>6. Alone(f) /\ Rises(f, host[f]) => Alone(f)'
  <2>1. Alone(f) => r = f
    BY <1>1 DEF Alone, Up
  <2> QED
    BY <1>1, <2>1 DEF Alone
<1> QED
  BY <1>1, <1>3, <1>4, <1>5, <1>6
     DEF First, OnTheWay, Rises, Leads, Follows, NoRival

\* A follower comes up.
LEMMA FollowerUp ==
  ASSUME IInv, lan.staggered, NEW f \in Routers, First(f), NEW r \in Routers,
         InterfaceUp(r)
  PROVE  First(f)'
<1> DEFINE e == [host[r] EXCEPT !.state = "WAITING", !.timer = "armed"]
<1>1. host' = [host EXCEPT ![r] = e] /\ sent' = sent
  BY DEF InterfaceUp, IInv, TypeOK
<1>2. r # f /\ Leads(f, host[f]) /\ Follows(f, r, host[r])
  BY DEF InterfaceUp, First, Rises, Leads, Alone, Follows
<1>3. e \in Hosts /\ e.nbrs = host[r].nbrs /\ Follows(f, r, e)
  BY <1>2 DEF IInv, TypeOK, Hosts, Follows
<1> HIDE DEF e
<1>4. NoRival(f, e) /\ (e.nbrs[f].twoWay => r \in sent[f].lists)
  BY <1>2, <1>3 DEF First, OnTheWay, NoRival
<1> QED
  BY <1>1, <1>2, <1>3, <1>4, OneHostFirst

\* The first host comes up.
LEMMA FirstUp ==
  ASSUME IInv, Init, NEW f \in Routers, InterfaceUp(f)
  PROVE  First(f)'
<1> DEFINE e == [host[f] EXCEPT !.state = "WAITING", !.timer = "armed"]
<1>1. host' = [host EXCEPT ![f] = e] /\ sent' = sent
  BY DEF InterfaceUp, IInv, TypeOK
<1>2. \A r \in Routers : /\ host[r].state = "DOWN" /\ host[r].timer = "off"
                         /\ host[r].dr = Nobody /\ host[r].bdr = Nobody
                         /\ sent[r] = NoHello
                         /\ \A s \in Routers : /\ ~host[r].nbrs[s].known
                                               /\ ~host[r].nbrs[s].twoWay
                                               /\ host[r].nbrs[s].ndr = Nobody
  BY DEF Init
<1>3. /\ e.state = "WAITING" /\ e.timer = "armed" /\ e.dr = host[f].dr
      /\ e.nbrs = host[f].nbrs
  BY DEF IInv, TypeOK, Hosts
<1> HIDE DEF e
<1>4. \A r \in Routers : host'[r] = IF r = f THEN e ELSE host[r]
  BY <1>1 DEF IInv, TypeOK
<1>5. \A r \in Routers : r # Nobody
  BY LanAssumption DEF Nobody
<1>6. Alone(f)' /\ Rises(f, host'[f])
  <2>1. \A s \in Routers : ~sent[s].on
    BY <1>2 DEF NoHello
  <2>2. Alone(f)'
    BY <1>1, <1>2, <1>4, <2>1 DEF Alone
  <2>3. host'[f] = e /\ Rises(f, e)
    <3>1. host'[f] = e
      BY <1>4
    <3>2. e.dr = Nobody /\ \A s \in Routers : ~e.nbrs[s].known /\ ~e.nbrs[s].twoWay
      BY <1>2, <1>3
    <3> QED
      BY <1>3, <3>1, <3>2 DEF Rises
  <2> QED
    BY <2>2, <2>3
<1>7. \A s \in Routers \ {f} : Follows(f, s, host'[s])
  BY <1>2, <1>4, <1>5 DEF Follows
<1>8. \A r \in Routers : NoRival(f, host'[r])
  BY <1>2, <1>3, <1>4, <1>5 DEF NoRival
<1>9. OnTheWay(f)'
  BY <1>1, <1>2, <1>4, <1>5 DEF OnTheWay, NoHello
<1> QED
  BY <1>6, <1>7, <1>8, <1>9 DEF First, Rises, Follows, NoRival

\* The first host stays the only one that declares itself.
LEMMA StaggeredStep ==
  IInv /\ Staggered /\ [Next]_vars => Staggered'
<1> SUFFICES ASSUME IInv, Staggered, [Next]_vars, lan'.staggered
             PROVE  Init' \/ \E f \in Routers : First(f)'
  BY DEF Staggered
<1>1. lan' = lan
  BY DEF Next, vars, InterfaceUp, SendHello, TimerStep, WaitTimer,
         WaitTimerElects, WaitTimerMoves, RecvHello
<1>2. CASE UNCHANGED vars
  BY <1>1, <1>2 DEF vars, Staggered, Init, First, Alone, Rises, Leads, Follows,
                    NoRival, OnTheWay
<1>3. CASE Next /\ Init
  <2>1. \A r \in Routers : ~Up(r)
    BY <1>3 DEF Init, Up
  <2>2. PICK f \in Routers : InterfaceUp(f)
    BY <1>3, <2>1 DEF Next, SendHello, TimerStep, WaitTimer, WaitTimerElects,
                      WaitTimerMoves, RecvHello
  <2> QED
    BY <1>3, <2>2, FirstUp
<1>4. CASE Next /\ ~Init
  <2>1. PICK f \in Routers : First(f)
    BY <1>1, <1>4 DEF Staggered
  <2>2. PICK r \in Routers : \/ InterfaceUp(r) \/ SendHello(r) \/ TimerStep(r)
                             \/ \E s \in Routers : RecvHello(r, s)
    BY <1>4 DEF Next
  <2>3. CASE r = f
    BY <1>1, <2>1, <2>2, <2>3, FollowerUp, SendFirst, LeaderTimer, LeaderHears
  <2>4. CASE r # f
    BY <1>1, <2>1, <2>2, <2>4, FollowerUp, SendFirst, FollowerTimer, FollowerHears
  <2> QED
    BY <2>3, <2>4
<1> QED
  BY <1>2, <1>3, <1>4

\* Hosts that come up on a LAN with a designated router do not make a second
\* one, whatever the timer thread and the receiver interleave and the
\* uninitialised declarations of a neighbour hold.
THEOREM OneLeader == Spec => []OneDesignatedRouter
<1>1. Init => Staggered
  BY DEF Staggered
<1>2. Staggered => OneDesignatedRouter
  BY DEF Staggered, OneDesignatedRouter, Init, First, Follows
<1> QED
  BY IInvInit, IInvStep, StaggeredStep, <1>1, <1>2, PTL DEF Spec

\* On such a LAN no election is without a candidate for backup: what is
\* assumed of bdr_candidates_lv2 fails only where elected hosts meet.
THEOREM JoiningIsSafe ==
  ASSUME \A l \in Lans : l.staggered
  PROVE  Spec => []BackupCandidateExists
<1> DEFINE Joining == Staggered /\ lan.staggered
<1>1. Init => Joining
  BY DEF Staggered, Init
<1>2. IInv /\ Joining /\ [Next]_vars => Joining'
  <2>1. [Next]_vars => lan' = lan
    BY DEF Next, vars, InterfaceUp, SendHello, TimerStep, WaitTimer,
           WaitTimerElects, WaitTimerMoves, RecvHello
  <2> QED
    BY <2>1, StaggeredStep
<1>3. Joining => BackupCandidateExists
  BY DEF Staggered, BackupCandidateExists, Init, First, Rises, Leads, Follows
<1> HIDE DEF Joining
<1> QED
  BY IInvInit, IInvStep, <1>1, <1>2, <1>3, PTL DEF Spec

\* A designated router is not preempted, on LANs where no Hello is handled
\* while a timer elects, and on those that come up one host after the other.
THEOREM DesignatedStays ==
  ASSUME \A l \in Lans : l.atomic \/ l.staggered
  PROVE  Spec => NotPreempted
<1> DEFINE Circumstances == Staggered /\ (lan.atomic \/ lan.staggered)
           Stays == \A r \in Routers : host[r].state = "DR" =>
                      \/ host'[r].state \in {"DR", "CRASHED"}
                      \/ \E s \in Routers \ {r} : host'[r].nbrs[s].ndr = s
<1>1. Init => Circumstances
  BY DEF Staggered, Init
<1>2. IInv /\ Circumstances /\ [Next]_vars => Circumstances'
  <2>1. [Next]_vars => lan' = lan
    BY DEF Next, vars, InterfaceUp, SendHello, TimerStep, WaitTimer,
           WaitTimerElects, WaitTimerMoves, RecvHello
  <2> QED
    BY <2>1, StaggeredStep
<1>3. IInv /\ Circumstances /\ [Next]_vars => Stays
  <2> SUFFICES ASSUME IInv, Circumstances, [Next]_vars, NEW r \in Routers,
                      host[r].state = "DR"
               PROVE  \/ host'[r].state \in {"DR", "CRASHED"}
                      \/ \E s \in Routers \ {r} : host'[r].nbrs[s].ndr = s
    OBVIOUS
  <2>1. host[r].dr = r /\ host[r].timer \notin {"electing", "elected"}
    <3>1. CASE lan.atomic
      BY <3>1 DEF IInv, Inv, Told, Elected, Position
    <3>2. CASE lan.staggered
      BY <3>2 DEF Staggered, Init, First, Follows, Rises, Leads
    <3> QED
      BY <3>1, <3>2
  <2> QED
    BY <2>1, NotPreemptedStep
<1>4. IInv /\ Circumstances /\ [Next]_vars => [Stays]_vars
  BY <1>3
<1> HIDE DEF Circumstances
<1> QED
  BY IInvInit, IInvStep, <1>1, <1>2, <1>4, PTL DEF Spec, NotPreempted
=============================================================================
