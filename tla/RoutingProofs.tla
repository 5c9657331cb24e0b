--------------------------- MODULE RoutingProofs ---------------------------
(***************************************************************************)
(* Proofs about Routing, for every value of its constants.                 *)
(***************************************************************************)
EXTENDS Routing, FiniteSetTheorems, WellFoundedInduction, TLAPS

-----------------------------------------------------------------------------
(* What the choices of the code choose from                                *)

\* A set of numbers has a smallest one.
LEMMA Smallest ==
  ASSUME NEW T, T \subseteq Nat, T # {}
  PROVE  \E x \in T : \A y \in T : x <= y
<1>1. \E x \in T : \A y \in T : ~ (<<y, x>> \in OpToRel(<, Nat))
  BY NatLessThanWellFounded, WFMin, Zenon
<1>2. PICK x \in T : \A y \in T : ~ (<<y, x>> \in OpToRel(<, Nat))
  BY <1>1, Zenon
<1>3. \A y \in T : ~ (y < x)
  <2> SUFFICES ASSUME NEW y \in T, y < x PROVE FALSE
    OBVIOUS
  <2>1. <<y, x>> \in Nat \X Nat
    OBVIOUS
  <2>2. <<y, x>> \in OpToRel(<, Nat)
    BY <2>1, Zenon DEF OpToRel
  <2> QED
    BY <1>2, <2>2, Zenon
<1> QED
  BY <1>3

\* Of several records there is one with the smallest metric, and of these one
\* with the smallest number.
LEMMA BestExists ==
  ASSUME NEW T, T \subseteq Nat, T # {}, NEW f, \A v \in T : f[v].metric \in Nat
  PROVE  \E v \in T : \A w \in T : \/ f[v].metric < f[w].metric
                                   \/ f[v].metric = f[w].metric /\ v <= w
<1> DEFINE M == {f[v].metric : v \in T}
<1>1. M \subseteq Nat /\ M # {}
  OBVIOUS
<1>2. PICK m \in M : \A k \in M : m <= k
  BY <1>1, Smallest
<1> DEFINE B == {v \in T : f[v].metric = m}
<1>3. B \subseteq Nat /\ B # {}
  BY <1>2
<1>4. PICK v \in B : \A w \in B : v <= w
  BY <1>3, Smallest
<1>5. ASSUME NEW w \in T
      PROVE  \/ f[v].metric < f[w].metric
             \/ f[v].metric = f[w].metric /\ v <= w
  <2>1. f[v].metric = m /\ m <= f[w].metric /\ m \in Nat /\ f[w].metric \in Nat
    BY <1>2, <1>4
  <2>2. f[w].metric = m => v <= w
    BY <1>4
  <2> QED
    BY <2>1, <2>2
<1> QED
  BY <1>4, <1>5

\* A set of numbers with a bound has a largest one.
LEMMA Largest ==
  ASSUME NEW n \in Nat, NEW T, T \subseteq 1..n, T # {}
  PROVE  \E x \in T : \A y \in T : y <= x
<1> DEFINE U == {n - x : x \in T}
<1>1. U \subseteq Nat
  <2>1. \A x \in T : n - x \in Nat
    OBVIOUS
  <2> QED
    BY <2>1
<1>2. U # {}
  OBVIOUS
<1>3. PICK u \in U : \A v \in U : u <= v
  BY <1>1, <1>2, Smallest
<1>4. PICK x \in T : u = n - x
  OBVIOUS
<1>5. \A y \in T : n - x <= n - y
  BY <1>3, <1>4
<1> QED
  BY <1>5

-----------------------------------------------------------------------------
(* The topology                                                            *)

\* The routers of a database that leads nowhere unknown have edges to routers.
LEMMA AdjacenciesType ==
  ASSUME NEW d \in Databases, ~Dangling(d), NEW r \in DOMAIN d.links
  PROVE  IsMap(Adjacencies(d, r), Ids, Edges)
<1> DEFINE L == d.links[r]
<1>1. /\ r \in Ids /\ L \in Seq(Links)
      /\ \A n \in DOMAIN d.attached : d.attached[n] \subseteq Ids
  BY RoutingAssumption DEF IsDatabase, IsMap
<1>2. Len(L) \in Nat /\ DOMAIN L = 1..Len(L) /\ \A i \in DOMAIN L : L[i] \in Links
  BY <1>1
<1>3. ASSUME NEW i \in DOMAIN L PROVE Ends(d, r, i) \subseteq Ids
  <2>1. L[i].id \in Ids
    BY <1>2 DEF Links
  <2>2. L[i].type = "transit" => L[i].net \in DOMAIN d.attached
    BY DEF Dangling
  <2> QED
    BY <1>1, <2>1, <2>2 DEF Ends
<1> DEFINE E == UNION {Ends(d, r, i) : i \in DOMAIN L}
<1>4. E \subseteq Ids
  BY <1>3
<1>5. ASSUME NEW e \in E PROVE LinkTo(d, r, e) \in DOMAIN L
  <2>1. Leading(d, r, e) \subseteq 1..Len(L) /\ Leading(d, r, e) # {}
    BY <1>2 DEF Leading
  <2>2. \E i \in Leading(d, r, e) : \A j \in Leading(d, r, e) : j <= i
    BY <1>2, <2>1, Largest
  <2> QED
    BY <1>2, <2>1, <2>2 DEF LinkTo
<1>6. ASSUME NEW e \in E
      PROVE  [src |-> [net |-> L[LinkTo(d, r, e)].net, rtr |-> r],
              cost |-> L[LinkTo(d, r, e)].cost] \in Edges
  BY <1>1, <1>2, <1>5 DEF Links, Edges, Addresses
<1> QED
  BY <1>4, <1>6 DEF Adjacencies, IsMap

-----------------------------------------------------------------------------
(* Types                                                                   *)

\* Inside an update there is a database, the search stands on a vertex that is
\* settled, and routes are left to be written while they are written only.
Typed ==
  /\ TypeOK
  /\ pc # "idle" => todo # << >>
  /\ pc = "search" => new_id \in DOMAIN result
  /\ pc \notin {"add", "remember"} => left = {}

\* One iteration of the search: what it computes is well typed.
LEMMA RelaxedType ==
  ASSUME Typed, pc = "search", DOMAIN Adj(new_id) # {}
  PROVE  /\ new_id \in DOMAIN topo /\ new_id \in Ids /\ result[new_id] \in Paths
         /\ \A v \in DOMAIN topo[new_id] : v \in Ids /\ Through(v) \in Nat
         /\ \A v \in Ids : IsMap(Adj(v), Ids, Edges) /\ IsMap(Returned(v), Ids, Edges)
         /\ IsMap(Relaxed, Ids \ {Self}, Paths) /\ DOMAIN Relaxed = DOMAIN pending
<1>1. new_id \in DOMAIN topo
  BY DEF Adj, Empty
<1>2. new_id \in Ids /\ result[new_id] \in Paths /\ IsMap(topo[new_id], Ids, Edges)
  BY <1>1 DEF Typed, TypeOK, IsMap
<1>3. ASSUME NEW v \in DOMAIN topo[new_id] PROVE v \in Ids /\ Through(v) \in Nat
  BY <1>2 DEF Through, IsMap, Paths, Edges
<1>4. ASSUME NEW v \in Ids PROVE IsMap(Adj(v), Ids, Edges)
  BY DEF Adj, Empty, IsMap, Typed, TypeOK
<1>5. Self \in Ids /\ [src |-> Zero, cost |-> 0] \in Edges /\ Zero \in Addresses
  BY RoutingAssumption DEF Edges, Addresses, Zero
<1>6. ASSUME NEW v \in Ids PROVE IsMap(Returned(v), Ids, Edges)
  BY <1>4, <1>5 DEF Returned, Put, IsMap
<1>7. ASSUME NEW v \in Closer PROVE v \in Ids /\ v \in DOMAIN topo[new_id] /\ NextHop(v) \in Addresses
  <2>1. v \in Ids /\ v \in DOMAIN topo[new_id]
    BY <1>1, <1>3 DEF Closer, Adj
  <2>2. result[new_id].next_hop \in Addresses
    BY <1>2 DEF Paths
  <2>3. CASE new_id = Self
    <3>1. Self \in DOMAIN Returned(v)
      BY <2>3 DEF Returned, Put
    <3>2. Returned(v)[Self] \in Edges
      BY <1>6, <2>1, <3>1 DEF IsMap
    <3> QED
      BY <2>1, <2>3, <3>2 DEF NextHop, Edges
  <2> QED
    BY <2>1, <2>2, <2>3 DEF NextHop
<1>8. ASSUME NEW v \in DOMAIN pending
      PROVE  v \in Ids \ {Self} /\ Relaxed[v] \in Paths
  BY <1>3, <1>7 DEF Relaxed, Typed, TypeOK, IsMap, Paths
<1> QED
  BY <1>1, <1>2, <1>3, <1>4, <1>6, <1>8 DEF Relaxed, IsMap

\* The parts of a path stay well typed when a vertex is settled.
LEMMA PutType ==
  ASSUME NEW f, NEW S, NEW T, IsMap(f, S, T), NEW k \in S, NEW x \in T
  PROVE  /\ IsMap(Put(f, k, x), S, T) /\ k \in DOMAIN Put(f, k, x)
         /\ IsMap(Without(f, k), S, T)
BY DEF IsMap, Put, Without

\* The route to a network is that of the nearest settled vertex.
LEMMA ExitIs ==
  ASSUME Typed, NEW n, Exits(n) # {}
  PROVE  /\ ExitOf(n) \in Exits(n) /\ result[ExitOf(n)] \in Paths
         /\ \A v \in Exits(n) : result[ExitOf(n)].metric <= result[v].metric
<1>1. Exits(n) \subseteq Nat /\ \A v \in Exits(n) : result[v] \in Paths
  BY RoutingAssumption DEF Exits, Typed, TypeOK, IsMap
<1>2. \A v \in Exits(n) : result[v].metric \in Nat
  BY <1>1 DEF Paths
<1>3. \E v \in Exits(n) : \A w \in Exits(n) :
        \/ result[v].metric < result[w].metric
        \/ result[v].metric = result[w].metric /\ v <= w
  BY <1>1, <1>2, BestExists
<1>4. /\ ExitOf(n) \in Exits(n)
      /\ \A w \in Exits(n) : \/ result[ExitOf(n)].metric < result[w].metric
                             \/ result[ExitOf(n)].metric = result[w].metric /\ ExitOf(n) <= w
  BY <1>3 DEF ExitOf
<1> QED
  BY <1>1, <1>2, <1>4

\* Every step keeps the types.
LEMMA TypedStep ==
  ASSUME Typed, [Next]_vars
  PROVE  Typed'
<1> USE DEF Typed
<1>1. CASE BuildTopology
  <2> DEFINE d == Head(todo)
  <2>1. d \in Databases /\ ~Dangling(d)
    BY <1>1 DEF BuildTopology, TypeOK
  <2>2. IsMap(d.links, Ids, Seq(Links))
    BY <2>1, RoutingAssumption DEF IsDatabase
  <2>3. [metric |-> INF, next_hop |-> Zero] \in Paths /\ [metric |-> 0, next_hop |-> Zero] \in Paths
    BY RoutingAssumption DEF Paths, Addresses, Zero
  <2>4. IsMap(pending', Ids \ {Self}, Paths)
    BY <1>1, <2>2, <2>3 DEF BuildTopology, IsMap, Unsettled
  <2>5. IsMap(result', Ids \cup {0}, Paths) /\ (pc' = "search" => new_id' \in DOMAIN result')
    BY <1>1, <2>3, RoutingAssumption DEF BuildTopology, TypeOK, IsMap
  <2>6. DOMAIN topo' \subseteq Ids /\ \A r \in DOMAIN topo' : IsMap(topo'[r], Ids, Edges)
    <3>1. topo' = [r \in DOMAIN d.links |-> Adjacencies(d, r)]
      BY <1>1 DEF BuildTopology
    <3>2. \A r \in DOMAIN d.links : IsMap(Adjacencies(d, r), Ids, Edges)
      BY <2>1, AdjacenciesType
    <3>3. DOMAIN d.links \subseteq Ids
      BY <2>2 DEF IsMap
    <3> HIDE DEF d
    <3> QED
      BY <3>1, <3>2, <3>3
  <2>7. new_id' \in Ids /\ pc' \in {"search", "generate"} /\ todo' # << >>
    BY <1>1, RoutingAssumption DEF BuildTopology
  <2>8. UNCHANGED <<todo, alone, routings, undo, left, adding, written, kernel, main, main_undo>>
    BY <1>1 DEF BuildTopology, routes, destructor
  <2>9. left = {}
    BY <1>1 DEF BuildTopology
  <2> QED
    BY <2>4, <2>5, <2>6, <2>7, <2>8, <2>9 DEF TypeOK
<1>2. CASE Crash
  BY <1>2 DEF Crash, TypeOK, search, routes, destructor
<1>3. ASSUME Searching,
             /\ \E v \in Ids \cup {0} : \E x \in Paths : new_id' = v /\ result' = Put(result, v, x)
             /\ IsMap(pending', Ids \ {Self}, Paths)
      PROVE  Typed'
  <2>1. PICK v \in Ids \cup {0} : \E x \in Paths : new_id' = v /\ result' = Put(result, v, x)
    BY <1>3
  <2>2. IsMap(result', Ids \cup {0}, Paths) /\ new_id' \in DOMAIN result'
    BY <2>1, PutType DEF TypeOK
  <2>3. DOMAIN topo' \subseteq Ids /\ \A u \in DOMAIN topo' : IsMap(topo'[u], Ids, Edges)
    <3>1. DOMAIN topo \cup DOMAIN Adj(new_id) \subseteq Ids
      BY <1>3, RelaxedType DEF Searching, TypeOK, IsMap
    <3> QED
      BY <1>3, <3>1, RelaxedType DEF Searching
  <2>4. UNCHANGED <<todo, alone, pc, routings, undo, left, adding, written, kernel, main, main_undo>>
    BY <1>3 DEF Searching, routes, destructor
  <2>5. new_id' \in Ids \cup {0} /\ pc' = "search"
    BY <1>3, <2>1 DEF Searching
  <2> QED
    BY <1>3, <2>2, <2>3, <2>4, <2>5 DEF TypeOK
<1>4. ASSUME NEW v \in Ids, Settle(v)
      PROVE  Typed'
  <2>1. Searching /\ IsMap(Relaxed, Ids \ {Self}, Paths) /\ v \in DOMAIN Relaxed
    BY <1>4, RelaxedType DEF Settle, Searching, Nearest
  <2>2. v \in Ids \ {Self} /\ Relaxed[v] \in Paths
    BY <2>1 DEF IsMap
  <2>3. IsMap(pending', Ids \ {Self}, Paths)
    BY <1>4, <2>1, <2>2, PutType DEF Settle
  <2> QED
    BY <1>3, <1>4, <2>1, <2>2, <2>3 DEF Settle
<1>5. CASE SettleNone
  <2>1. Searching /\ IsMap(Relaxed, Ids \ {Self}, Paths)
    BY <1>5, RelaxedType DEF SettleNone, Searching
  <2>2. [metric |-> INF, next_hop |-> Zero] \in Paths
    BY RoutingAssumption DEF Paths, Addresses, Zero
  <2> QED
    BY <1>3, <1>5, <2>1, <2>2 DEF SettleNone
<1>6. CASE SearchEnds
  BY <1>6 DEF SearchEnds, TypeOK, search, routes, destructor
<1>7. CASE GenRouting
  <2>1. IsMap(routings', Nets \cup {NoNet}, Paths)
    BY <1>7, ExitIs DEF GenRouting, IsMap
  <2> QED
    BY <1>7, <2>1 DEF GenRouting, TypeOK, search, routes, destructor
<1>8. CASE ResetRoute
  BY <1>8 DEF ResetRoute, StartReset, Undo, Forget, Deleted, TypeOK, search, destructor
<1>9. ASSUME NEW n \in Nets \cup {NoNet}, AddRoute(n)
      PROVE  Typed'
  <2>1. Entry(n) \in Entries
    BY <1>9 DEF AddRoute, TypeOK, IsMap, Entry, Entries, Paths
  <2> QED
    BY <1>9, <2>1 DEF AddRoute, TypeOK, search, destructor
<1>10. ASSUME NEW n \in Nets \cup {NoNet}, RouteRefused(n)
       PROVE  Typed'
  BY <1>10 DEF RouteRefused, TypeOK, search, destructor
<1>11. CASE Remember
  <2>1. main_undo' \subseteq Entries
    BY <1>11 DEF Remember, TypeOK
  <2> QED
    BY <1>11, <2>1 DEF Remember, TypeOK, search
<1>12. CASE UpdateEnds
  <2>1. todo # << >> /\ Tail(todo) \in Seq(Databases)
    BY <1>12 DEF UpdateEnds, TypeOK
  <2> QED
    BY <1>12, <2>1 DEF UpdateEnds, TypeOK, search, routes, destructor
<1>13. CASE Destroy
  BY <1>13 DEF Destroy, StartDestroy, DestroyUndo, DestroyForget, Deleted, TypeOK, search, routes
<1>14. CASE Close
  BY <1>14 DEF Close, TypeOK, search, routes, destructor
<1>15. CASE Administrator
  BY <1>15 DEF Administrator, TypeOK, search, destructor
<1>16. CASE UNCHANGED vars
  BY <1>16 DEF vars, TypeOK, search, routes, destructor
<1> QED
  BY <1>1, <1>2, <1>4, <1>5, <1>6, <1>7, <1>8, <1>9, <1>10, <1>11, <1>12,
     <1>13, <1>14, <1>15, <1>16 DEF Next, ThreadStep

\* So do the initial states.
LEMMA TypedInit ==
  Init => Typed
<1> SUFFICES ASSUME Init PROVE Typed
  OBVIOUS
<1>1. todo \in Seq(Databases) /\ alone \in BOOLEAN
  BY RoutingAssumption DEF Init
<1> QED
  BY <1>1, RoutingAssumption DEF Init, Typed, TypeOK, IsMap, Empty

\* Every reachable state is well typed: a search never leaves the maps it
\* works on.
THEOREM TypeCorrect == Spec => []TypeOK
<1>1. Typed => TypeOK
  BY DEF Typed
<1> QED
  BY TypedInit, TypedStep, <1>1, PTL DEF Spec

-----------------------------------------------------------------------------
(* Shortest paths                                                          *)

\* Vertices are settled in the order of their metrics, so that the newest one
\* has the largest metric of the settled and none above a pending one.
Ordered ==
  pc = "search" =>
    /\ Self \in DOMAIN result /\ result[Self].metric = 0
    /\ DOMAIN result \cap DOMAIN pending = {}
    /\ \A u \in DOMAIN result : result[u].metric <= result[new_id].metric /\ result[u].metric <= INF
    /\ new_id # 0 => \A v \in DOMAIN pending : result[new_id].metric <= pending[v].metric

\* What an iteration does to the pending paths: none gets longer, none gets
\* below the newest vertex, and its edges are accounted for.
LEMMA RelaxedMetric ==
  ASSUME Typed, Ordered, Searching, NEW v \in DOMAIN pending
  PROVE  /\ new_id # 0 /\ pending[v].metric \in Nat /\ Relaxed[v].metric \in Nat
         /\ Relaxed[v].metric <= pending[v].metric
         /\ result[new_id].metric <= Relaxed[v].metric
         /\ v \in DOMAIN topo[new_id] => Relaxed[v].metric <= Reached(new_id, v)
<1>1. /\ new_id \in DOMAIN topo /\ new_id \in Ids /\ result[new_id] \in Paths
      /\ \A w \in DOMAIN topo[new_id] : Through(w) \in Nat
      /\ IsMap(topo[new_id], Ids, Edges)
      /\ Relaxed[v] \in Paths
  BY RelaxedType DEF Searching, Typed, TypeOK, IsMap
<1>2. pending[v] \in Paths /\ new_id # 0
  BY <1>1, RoutingAssumption DEF Typed, TypeOK, IsMap
<1>3. result[new_id].metric <= pending[v].metric
  BY <1>2 DEF Ordered, Searching
<1>4. ASSUME v \in DOMAIN topo[new_id]
      PROVE  Through(v) = Reached(new_id, v) /\ result[new_id].metric <= Through(v)
  BY <1>1, <1>4 DEF Through, Reached, IsMap, Paths, Edges
<1>5. CASE v \in Closer
  <2>1. Relaxed[v].metric = Through(v) /\ pending[v].metric > Through(v) /\ v \in DOMAIN topo[new_id]
    BY <1>1, <1>5 DEF Relaxed, Closer, Adj
  <2> QED
    BY <1>1, <1>2, <1>4, <2>1 DEF Paths
<1>6. CASE v \notin Closer
  <2>1. Relaxed[v] = pending[v]
    BY <1>6 DEF Relaxed
  <2>2. v \in DOMAIN topo[new_id] => ~ (pending[v].metric > Through(v))
    BY <1>1, <1>6 DEF Closer, Adj
  <2> QED
    BY <1>1, <1>2, <1>3, <1>4, <2>1, <2>2 DEF Paths
<1> QED
  BY <1>5, <1>6

\* An iteration keeps every edge, and adds only edges to the host without cost.
LEMMA TopologyGrows ==
  ASSUME Typed, Searching
  PROVE  /\ \A u \in DOMAIN topo : \A w \in DOMAIN topo[u] :
              u \in DOMAIN topo' /\ w \in DOMAIN topo'[u] /\ topo'[u][w] = topo[u][w]
         /\ \A u \in DOMAIN topo' : \A w \in DOMAIN topo'[u] :
              \/ u \in DOMAIN topo /\ w \in DOMAIN topo[u] /\ topo'[u][w] = topo[u][w]
              \/ w = Self /\ topo'[u][w].cost = 0
<1>1. topo' = [u \in DOMAIN topo \cup DOMAIN Adj(new_id) |-> Returned(u)]
  BY DEF Searching
<1>2. ASSUME NEW u, NEW w \in DOMAIN Adj(u)
      PROVE  u \in DOMAIN topo /\ Adj(u) = topo[u]
  BY <1>2 DEF Adj, Empty
<1>3. ASSUME NEW u
      PROVE  /\ \A w \in DOMAIN Adj(u) : w \in DOMAIN Returned(u) /\ Returned(u)[w] = Adj(u)[w]
             /\ \A w \in DOMAIN Returned(u) :
                  \/ w \in DOMAIN Adj(u) /\ Returned(u)[w] = Adj(u)[w]
                  \/ w = Self /\ Returned(u)[w].cost = 0
  BY DEF Returned, Put
<1>4. ASSUME NEW u \in DOMAIN topo PROVE Adj(u) = topo[u]
  BY <1>4 DEF Adj
<1> QED
  BY <1>1, <1>2, <1>3, <1>4

\* The edges of the settled vertices, before and after an iteration.
LEMMA RelaxStep ==
  ASSUME Typed, Ordered, PathsFeasible, Searching,
         NEW u \in DOMAIN result \cap DOMAIN topo', NEW w \in DOMAIN topo'[u]
  PROVE  /\ w \in DOMAIN result => result[w].metric <= result[u].metric + topo'[u][w].cost
         /\ w \in DOMAIN pending => Relaxed[w].metric <= result[u].metric + topo'[u][w].cost
<1>1. result[u].metric \in Nat /\ Self \notin DOMAIN pending
  BY DEF Typed, TypeOK, IsMap, Paths
<1>2. CASE w = Self /\ topo'[u][w].cost = 0
  BY <1>1, <1>2 DEF Ordered, Searching
<1>3. CASE u \in DOMAIN topo /\ w \in DOMAIN topo[u] /\ topo'[u][w] = topo[u][w]
  <2>1. /\ w \in DOMAIN result => result[w].metric <= Reached(u, w)
        /\ u # new_id /\ w \in DOMAIN pending => pending[w].metric <= Reached(u, w)
    BY <1>3 DEF PathsFeasible, Searching
  <2>2. Reached(u, w) \in Nat /\ Reached(u, w) = result[u].metric + topo'[u][w].cost
    BY <1>1, <1>3 DEF Reached, Typed, TypeOK, IsMap, Edges
  <2>3. ASSUME w \in DOMAIN pending PROVE Relaxed[w].metric <= Reached(u, w)
    BY <1>3, <2>1, <2>2, <2>3, RelaxedMetric
  <2> QED
    BY <2>1, <2>2, <2>3
<1> QED
  BY <1>2, <1>3, TopologyGrows

\* The order of the metrics is kept,
LEMMA OrderedStep ==
  ASSUME Typed, Ordered, [Next]_vars
  PROVE  Ordered'
<1>1. CASE BuildTopology
  BY <1>1, RoutingAssumption DEF BuildTopology, Ordered, Unsettled
<1>2. ASSUME NEW v \in Ids, Settle(v)
      PROVE  Ordered'
  <2>1. /\ Searching /\ v \in DOMAIN pending /\ DOMAIN Relaxed = DOMAIN pending
        /\ Relaxed[v].metric < INF
        /\ \A w \in DOMAIN pending : Relaxed[v].metric < Relaxed[w].metric \/ Relaxed[v].metric = Relaxed[w].metric
    BY <1>2 DEF Settle, Nearest, Relaxed
  <2>2. /\ result' = Put(result, v, Relaxed[v]) /\ new_id' = v /\ pending' = Without(Relaxed, v)
        /\ pc = "search" /\ pc' = "search"
    BY <1>2 DEF Settle, Searching
  <2>3. v # Self /\ v \notin DOMAIN result
    BY <2>1, <2>2 DEF Ordered, Typed, TypeOK, IsMap
  <2>4. \A u \in DOMAIN result : result[u].metric \in Nat
    BY DEF Typed, TypeOK, IsMap, Paths
  <2>5. \A u \in DOMAIN result : result[u].metric <= Relaxed[v].metric
    <3>1. result[new_id].metric <= Relaxed[v].metric /\ Relaxed[v].metric \in Nat
      BY <2>1, RelaxedMetric
    <3>2. new_id \in DOMAIN result
      BY <2>2 DEF Typed
    <3> QED
      BY <2>2, <2>4, <3>1, <3>2 DEF Ordered
  <2>6. Relaxed[v].metric \in Nat /\ \A w \in DOMAIN pending : Relaxed[w].metric \in Nat
    BY <2>1, RelaxedMetric
  <2>7. Self \in DOMAIN result' /\ result'[Self].metric = 0
    BY <2>2, <2>3 DEF Ordered, Put
  <2>8. DOMAIN result' \cap DOMAIN pending' = {}
    BY <2>1, <2>2 DEF Ordered, Put, Without
  <2>9. result'[new_id'].metric = Relaxed[v].metric
    BY <2>2 DEF Put
  <2>10. ASSUME NEW u \in DOMAIN result'
         PROVE  result'[u].metric <= Relaxed[v].metric /\ result'[u].metric <= INF
    <3>1. CASE u = v
      BY <2>1, <2>2, <2>6, <3>1, RoutingAssumption DEF Put
    <3>2. CASE u # v
      <4>1. u \in DOMAIN result /\ result'[u] = result[u]
        BY <2>2, <3>2 DEF Put
      <4> QED
        BY <2>2, <2>5, <4>1 DEF Ordered
    <3> QED
      BY <3>1, <3>2
  <2>11. ASSUME NEW w \in DOMAIN pending'
         PROVE  Relaxed[v].metric <= pending'[w].metric
    <3>1. w \in DOMAIN pending /\ pending'[w] = Relaxed[w]
      BY <2>1, <2>2 DEF Without
    <3> QED
      BY <2>1, <2>6, <3>1
  <2> QED
    BY <2>7, <2>8, <2>9, <2>10, <2>11 DEF Ordered
<1>3. CASE SettleNone
  <2>1. /\ result' = Put(result, 0, [metric |-> INF, next_hop |-> Zero]) /\ new_id' = 0
        /\ pc = "search" /\ pc' = "search" /\ DOMAIN pending' = DOMAIN pending
    BY <1>3 DEF SettleNone, Searching, Relaxed
  <2>2. Self # 0 /\ 0 \notin DOMAIN pending /\ INF \in Nat
    BY RoutingAssumption DEF Typed, TypeOK, IsMap
  <2>3. Self \in DOMAIN result' /\ result'[Self].metric = 0
    BY <2>1, <2>2 DEF Ordered, Put
  <2>4. \A u \in DOMAIN result' : result'[u].metric <= INF
    BY <2>1, <2>2 DEF Ordered, Put
  <2>5. result'[new_id'].metric = INF /\ DOMAIN result' \cap DOMAIN pending' = {}
    BY <2>1, <2>2 DEF Ordered, Put
  <2> QED
    BY <2>1, <2>3, <2>4, <2>5 DEF Ordered
<1>4. CASE SearchEnds \/ Crash \/ GenRouting \/ ResetRoute \/ Remember \/ UpdateEnds
  BY <1>4 DEF SearchEnds, Crash, GenRouting, ResetRoute, StartReset, Undo, Forget, Remember,
              UpdateEnds, Ordered
<1>5. CASE \/ Destroy \/ Close \/ Administrator \/ UNCHANGED vars
           \/ \E n \in Nets \cup {NoNet} : AddRoute(n) \/ RouteRefused(n)
  BY <1>5 DEF Destroy, StartDestroy, DestroyUndo, DestroyForget, Close, Administrator, vars,
              AddRoute, RouteRefused, Ordered, search
<1> QED
  BY <1>1, <1>2, <1>3, <1>4, <1>5 DEF Next, ThreadStep

\* and with it no settled path has to be revised.
LEMMA FeasibleStep ==
  ASSUME Typed, Ordered, PathsFeasible, [Next]_vars
  PROVE  PathsFeasible'
<1>1. CASE BuildTopology
  <2>1. CASE pc' = "generate"
    <3>1. DOMAIN topo' = {}
      BY <1>1, <2>1 DEF BuildTopology
    <3> QED
      BY <3>1 DEF PathsFeasible
  <2>2. CASE pc' = "search"
    <3> DEFINE d == Head(todo)
    <3>1. /\ result' = [v \in {Self} |-> [metric |-> 0, next_hop |-> Zero]] /\ new_id' = Self
          /\ topo' = [r \in DOMAIN d.links |-> Adjacencies(d, r)]
          /\ d \in Databases /\ ~Dangling(d)
      BY <1>1, <2>2 DEF BuildTopology, Typed, TypeOK
    <3>2. SUFFICES ASSUME NEW u \in DOMAIN result' \cap DOMAIN topo', NEW v \in DOMAIN topo'[u],
                          v \in DOMAIN result'
                   PROVE  result'[v].metric <= Reached(u, v)'
      BY <3>1 DEF PathsFeasible
    <3>3. topo'[u][v] \in Edges
      BY <3>1, AdjacenciesType DEF IsMap
    <3> QED
      BY <3>1, <3>2, <3>3 DEF Reached, Edges
  <2> QED
    BY <1>1, <2>1, <2>2 DEF BuildTopology
<1>2. ASSUME NEW v \in Ids, Settle(v)
      PROVE  PathsFeasible'
  <2>1. /\ Searching /\ v \in DOMAIN pending /\ DOMAIN Relaxed = DOMAIN pending
    BY <1>2 DEF Settle, Nearest, Relaxed
  <2>2. /\ result' = Put(result, v, Relaxed[v]) /\ new_id' = v /\ pending' = Without(Relaxed, v)
        /\ pc = "search"
    BY <1>2 DEF Settle, Searching
  <2>3. v # Self /\ v \notin DOMAIN result /\ new_id \in DOMAIN result
    BY <2>1, <2>2 DEF Ordered, Typed, TypeOK, IsMap
  <2>4. /\ result'[v].metric = Relaxed[v].metric /\ Relaxed[v].metric \in Nat
        /\ result[new_id].metric <= Relaxed[v].metric
    BY <2>1, <2>2, RelaxedMetric DEF Put
  <2>5. SUFFICES ASSUME NEW u \in DOMAIN result' \cap DOMAIN topo', NEW w \in DOMAIN topo'[u]
                 PROVE  /\ w \in DOMAIN result' => result'[w].metric <= Reached(u, w)'
                        /\ u # v /\ w \in DOMAIN pending' => pending'[w].metric <= Reached(u, w)'
    BY <2>2 DEF PathsFeasible
  <2>6. Reached(u, w)' = result'[u].metric + topo'[u][w].cost
    BY DEF Reached
  <2>7. CASE u = v
    <3>1. topo'[u][w].cost \in Nat
      <4>1. u \in Ids /\ topo'[u] = Returned(u) /\ IsMap(Returned(u), Ids, Edges)
        BY <2>1, <2>7, RelaxedType DEF Searching
      <4> QED
        BY <4>1 DEF IsMap, Edges
    <3>2. ASSUME w \in DOMAIN result, w # v
          PROVE  result'[w].metric \in Nat /\ result'[w].metric <= Relaxed[v].metric
      <4>1. result'[w] = result[w] /\ result[w].metric \in Nat /\ result[new_id].metric \in Nat
        BY <2>2, <2>3, <3>2 DEF Put, Typed, TypeOK, IsMap, Paths
      <4>2. result[w].metric <= result[new_id].metric
        BY <2>2, <3>2 DEF Ordered
      <4> QED
        BY <2>4, <4>1, <4>2
    <3>3. w \in DOMAIN result' => w = v \/ w \in DOMAIN result
      BY <2>2 DEF Put
    <3> QED
      BY <2>4, <2>6, <2>7, <3>1, <3>2, <3>3
  <2>8. CASE u # v
    <3>1. u \in DOMAIN result /\ result'[u] = result[u]
      BY <2>2, <2>8 DEF Put
    <3>2. /\ w \in DOMAIN result => result[w].metric <= Reached(u, w)'
          /\ w \in DOMAIN pending => Relaxed[w].metric <= Reached(u, w)'
      BY <2>1, <2>6, <3>1, RelaxStep
    <3>3. w \in DOMAIN result' => \/ w = v
                                  \/ w \in DOMAIN result /\ result'[w] = result[w]
      BY <2>2 DEF Put
    <3>4. w \in DOMAIN pending' => w \in DOMAIN pending /\ pending'[w] = Relaxed[w]
      BY <2>1, <2>2 DEF Without
    <3> QED
      BY <2>1, <2>4, <3>2, <3>3, <3>4
  <2> QED
    BY <2>7, <2>8
<1>3. CASE SettleNone
  <2>1. /\ Searching /\ result' = Put(result, 0, [metric |-> INF, next_hop |-> Zero])
        /\ pending' = Relaxed /\ DOMAIN Relaxed = DOMAIN pending
    BY <1>3 DEF SettleNone, Relaxed
  <2>2. SUFFICES ASSUME NEW u \in DOMAIN result' \cap DOMAIN topo', NEW w \in DOMAIN topo'[u]
                 PROVE  /\ w \in DOMAIN result' => result'[w].metric <= Reached(u, w)'
                        /\ w \in DOMAIN pending' => pending'[w].metric <= Reached(u, w)'
    BY DEF PathsFeasible
  <2>3. u # 0 /\ w # 0
    <3>1. DOMAIN topo \cup DOMAIN Adj(new_id) \subseteq Ids
      BY <2>1, RelaxedType DEF Searching, Typed, TypeOK, IsMap
    <3>2. u \in Ids /\ topo'[u] = Returned(u)
      BY <2>1, <3>1 DEF Searching
    <3>3. IsMap(Returned(u), Ids, Edges)
      BY <2>1, <3>2, RelaxedType DEF Searching
    <3> QED
      BY <3>2, <3>3, RoutingAssumption DEF IsMap
  <2>4. u \in DOMAIN result /\ result'[u] = result[u] /\ Reached(u, w)' = result[u].metric + topo'[u][w].cost
    BY <2>1, <2>3 DEF Put, Reached
  <2>5. w \in DOMAIN result' => w \in DOMAIN result /\ result'[w] = result[w]
    BY <2>1, <2>3 DEF Put
  <2> QED
    BY <2>1, <2>4, <2>5, RelaxStep
<1>4. CASE SearchEnds
  BY <1>4 DEF SearchEnds, search, PathsFeasible, Reached
<1>5. CASE Crash \/ GenRouting \/ ResetRoute \/ Remember \/ UpdateEnds
  BY <1>5 DEF Crash, GenRouting, ResetRoute, StartReset, Undo, Forget, Remember, UpdateEnds,
              PathsFeasible
<1>6. CASE \/ Destroy \/ Close \/ Administrator \/ UNCHANGED vars
           \/ \E n \in Nets \cup {NoNet} : AddRoute(n) \/ RouteRefused(n)
  BY <1>6 DEF Destroy, StartDestroy, DestroyUndo, DestroyForget, Close, Administrator, vars,
              AddRoute, RouteRefused, PathsFeasible,
              Reached, search
<1> QED
  BY <1>1, <1>2, <1>3, <1>4, <1>5, <1>6 DEF Next, ThreadStep

\* No edge of the topology leads to a shorter path than the search settles, in
\* whatever topology and while routers come and go between the updates.
THEOREM SettledFinal == Spec => []PathsFeasible
<1> DEFINE Inv == Typed /\ Ordered /\ PathsFeasible
<1>1. Init => Inv
  BY TypedInit DEF Init, Ordered, PathsFeasible
<1>2. Inv /\ [Next]_vars => Inv'
  BY TypedStep, OrderedStep, FeasibleStep
<1>3. Inv => PathsFeasible
  OBVIOUS
<1> QED
  BY <1>1, <1>2, <1>3, PTL DEF Spec

\* A potential gives every vertex a number that no edge exceeds by more than
\* its cost. The distance from the host is the largest one.
Potential(D) ==
  /\ D[Self] = 0
  /\ \A u \in DOMAIN topo : \A v \in DOMAIN topo[u] : D[v] <= D[u] + topo[u][v].cost

\* No potential exceeds a metric that was found: every metric is attained by a
\* path.
Attained ==
  pc \in {"search", "generate"} /\ DOMAIN topo # {} =>
    \A D \in [Ids -> Nat] : Potential(D) =>
      /\ \A v \in DOMAIN result \ {0} : D[v] <= result[v].metric
      /\ \A v \in DOMAIN pending : pending[v].metric < INF => D[v] <= pending[v].metric

\* An iteration of the search keeps that.
LEMMA AttainedRelaxed ==
  ASSUME Typed, Searching, Attained, NEW D \in [Ids -> Nat], Potential(D)',
         NEW v \in DOMAIN pending, Relaxed[v].metric < INF
  PROVE  D[v] <= Relaxed[v].metric
<1>1. /\ new_id \in DOMAIN topo /\ new_id \in Ids /\ result[new_id] \in Paths /\ new_id # 0
      /\ \A w \in DOMAIN topo[new_id] : w \in Ids /\ Through(w) \in Nat
      /\ IsMap(topo[new_id], Ids, Edges) /\ new_id \in DOMAIN result
  BY RelaxedType, RoutingAssumption DEF Searching, Typed, TypeOK, IsMap
<1>2. Potential(D)
  BY TopologyGrows DEF Potential
<1>3. /\ D[new_id] <= result[new_id].metric
      /\ pending[v].metric < INF => D[v] <= pending[v].metric
  BY <1>1, <1>2 DEF Attained, Searching
<1>4. CASE v \in Closer
  <2>1. Relaxed[v].metric = Through(v) /\ v \in DOMAIN topo[new_id]
    BY <1>1, <1>4 DEF Relaxed, Closer, Adj
  <2>2. D[v] <= D[new_id] + topo[new_id][v].cost
    BY <1>1, <1>2, <2>1 DEF Potential
  <2>3. topo[new_id][v].cost \in Nat /\ D[v] \in Nat /\ D[new_id] \in Nat /\ result[new_id].metric \in Nat
    BY <1>1, <2>1 DEF IsMap, Edges, Paths
  <2> QED
    BY <1>3, <2>1, <2>2, <2>3 DEF Through
<1>5. CASE v \notin Closer
  BY <1>3, <1>5 DEF Relaxed
<1> QED
  BY <1>4, <1>5

\* Nor does any other step break it.
LEMMA AttainedStep ==
  ASSUME Typed, Attained, [Next]_vars
  PROVE  Attained'
<1>1. CASE BuildTopology
  <2>1. CASE DOMAIN Head(todo).links = {}
    BY <1>1, <2>1 DEF BuildTopology, Attained
  <2>2. CASE DOMAIN Head(todo).links # {}
    BY <1>1, <2>2, RoutingAssumption DEF BuildTopology, Attained, Potential
  <2> QED
    BY <2>1, <2>2
<1>2. ASSUME Searching,
             \/ \E v \in DOMAIN pending : /\ result' = Put(result, v, Relaxed[v])
                                         /\ pending' = Without(Relaxed, v)
                                         /\ Relaxed[v].metric < INF
             \/ /\ result' = Put(result, 0, [metric |-> INF, next_hop |-> Zero])
                /\ pending' = Relaxed
      PROVE  Attained'
  <2>1. SUFFICES ASSUME NEW D \in [Ids -> Nat], Potential(D)'
                 PROVE  /\ \A v \in DOMAIN result' \ {0} : D[v] <= result'[v].metric
                        /\ \A v \in DOMAIN pending' : pending'[v].metric < INF => D[v] <= pending'[v].metric
    BY DEF Attained
  <2>2. Potential(D) /\ DOMAIN topo # {}
    BY <1>2, <2>1, TopologyGrows, RelaxedType DEF Potential, Searching
  <2>3. \A v \in DOMAIN result \ {0} : D[v] <= result[v].metric
    BY <1>2, <2>2 DEF Attained, Searching
  <2>4. \A v \in DOMAIN pending : Relaxed[v].metric < INF => D[v] <= Relaxed[v].metric
    BY <1>2, <2>1, AttainedRelaxed
  <2>5. DOMAIN Relaxed = DOMAIN pending
    BY DEF Relaxed
  <2> QED
    BY <1>2, <2>3, <2>4, <2>5 DEF Put, Without
<1>3. ASSUME NEW v \in Ids, Settle(v)
      PROVE  Attained'
  BY <1>2, <1>3 DEF Settle, Nearest, Relaxed
<1>4. CASE SettleNone
  BY <1>2, <1>4 DEF SettleNone
<1>5. CASE SearchEnds
  BY <1>5 DEF SearchEnds, search, Attained, Potential
<1>6. CASE Crash \/ GenRouting \/ ResetRoute \/ Remember \/ UpdateEnds
  BY <1>6 DEF Crash, GenRouting, ResetRoute, StartReset, Undo, Forget, Remember, UpdateEnds,
              Attained
<1>7. CASE \/ Destroy \/ Close \/ Administrator \/ UNCHANGED vars
           \/ \E n \in Nets \cup {NoNet} : AddRoute(n) \/ RouteRefused(n)
  BY <1>7 DEF Destroy, StartDestroy, DestroyUndo, DestroyForget, Close, Administrator, vars,
              AddRoute, RouteRefused, Attained, Potential,
              search
<1> QED
  BY <1>1, <1>3, <1>4, <1>5, <1>6, <1>7 DEF Next, ThreadStep

\* The metrics of a search are distances: they are a potential on what is
\* settled, and no potential exceeds them.
THEOREM SettledOptimal == Spec => [](PathsFeasible /\ Attained)
<1>1. Init => Typed /\ Attained
  BY TypedInit DEF Init, Attained
<1>2. Typed /\ Attained /\ [Next]_vars => (Typed /\ Attained)'
  BY TypedStep, AttainedStep
<1> QED
  BY <1>1, <1>2, SettledFinal, PTL DEF Spec

-----------------------------------------------------------------------------
(* The reference distances                                                 *)

\* Induction over the natural numbers, for a set instead of a predicate.
LEMMA Induction ==
  ASSUME NEW S, 0 \in S, \A n \in Nat : n \in S => n + 1 \in S
  PROVE  \A n \in Nat : n \in S
<1> DEFINE T == {n \in Nat : n \notin S}
<1> SUFFICES ASSUME T # {} PROVE FALSE
  OBVIOUS
<1>1. PICK x \in T : \A y \in T : x <= y
  BY Smallest
<1>2. x # 0 /\ x - 1 \in Nat
  OBVIOUS
<1>3. x - 1 \in S
  BY <1>1, <1>2
<1>4. (x - 1) + 1 \in S
  BY <1>2, <1>3
<1> QED
  BY <1>4

\* Least is what its name says.
LEMMA LeastOf ==
  ASSUME NEW T, T \subseteq Nat, T # {}
  PROVE  Least(T) \in T /\ \A y \in T : Least(T) <= y
BY Smallest DEF Least

\* The distances on paths without a link.
Start(d, s) == [v \in DOMAIN d.links |-> IF v = s THEN 0 ELSE INF]

\* The first distances, up to paths of n links.
Unfolds(d, s, w, n) ==
  w = [k \in 0..n |-> IF k = 0 THEN Start(d, s) ELSE Longer(Incoming(d), w[k - 1])]

\* They exist,
LEMMA UnfoldsExists ==
  ASSUME NEW d, NEW s
  PROVE  \A n \in Nat : \E w : Unfolds(d, s, w, n)
<1> DEFINE S == {n \in Nat : \E w : Unfolds(d, s, w, n)}
<1>1. 0 \in S
  <2> DEFINE w == [k \in 0..0 |-> Start(d, s)]
  <2>1. w = [k \in 0..0 |-> IF k = 0 THEN Start(d, s) ELSE Longer(Incoming(d), w[k - 1])]
    OBVIOUS
  <2>2. Unfolds(d, s, w, 0)
    BY <2>1 DEF Unfolds
  <2> QED
    BY <2>2
<1>2. ASSUME NEW n \in Nat, n \in S
      PROVE  n + 1 \in S
  <2>1. PICK w : w = [k \in 0..n |-> IF k = 0 THEN Start(d, s) ELSE Longer(Incoming(d), w[k - 1])]
    BY <1>2 DEF Unfolds
  <2> DEFINE u == [k \in 0..(n + 1) |-> IF k = n + 1 THEN Longer(Incoming(d), w[n]) ELSE w[k]]
  <2>2. ASSUME NEW k \in 0..(n + 1)
        PROVE  u[k] = IF k = 0 THEN Start(d, s) ELSE Longer(Incoming(d), u[k - 1])
    <3>1. CASE k = n + 1
      <4>1. k # 0 /\ k - 1 = n /\ u[k] = Longer(Incoming(d), w[n]) /\ u[n] = w[n]
        BY <3>1
      <4> QED
        BY <4>1
    <3>2. CASE k # n + 1
      <4>1. k \in 0..n /\ u[k] = w[k] /\ (k # 0 => u[k - 1] = w[k - 1])
        BY <3>2
      <4>2. w[k] = IF k = 0 THEN Start(d, s) ELSE Longer(Incoming(d), w[k - 1])
        BY <2>1, <4>1
      <4> QED
        BY <4>1, <4>2
    <3> QED
      BY <3>1, <3>2
  <2> HIDE DEF u
  <2>3. u = [k \in 0..(n + 1) |-> u[k]]
    BY DEF u
  <2>4. u = [k \in 0..(n + 1) |-> IF k = 0 THEN Start(d, s) ELSE Longer(Incoming(d), u[k - 1])]
    BY <2>2, <2>3
  <2>5. Unfolds(d, s, u, n + 1)
    BY <2>4 DEF Unfolds
  <2> QED
    BY <2>5
<1>3. \A n \in Nat : n \in S
  <2> HIDE DEF S
  <2> QED
    BY <1>1, <1>2, Induction
<1> QED
  BY <1>3

\* and there is no choice.
LEMMA UnfoldsUnique ==
  ASSUME NEW d, NEW s, NEW n \in Nat, NEW m \in Nat, NEW w, NEW u,
         Unfolds(d, s, w, n), Unfolds(d, s, u, m)
  PROVE  \A k \in Nat : k <= n /\ k <= m => w[k] = u[k]
<1> DEFINE S == {k \in Nat : k <= n /\ k <= m => w[k] = u[k]}
<1>1. /\ \A k \in 0..n : w[k] = IF k = 0 THEN Start(d, s) ELSE Longer(Incoming(d), w[k - 1])
      /\ \A k \in 0..m : u[k] = IF k = 0 THEN Start(d, s) ELSE Longer(Incoming(d), u[k - 1])
  BY DEF Unfolds
<1>2. 0 \in S
  BY <1>1
<1>3. ASSUME NEW k \in Nat, k \in S
      PROVE  k + 1 \in S
  <2> SUFFICES ASSUME k + 1 <= n, k + 1 <= m PROVE w[k + 1] = u[k + 1]
    OBVIOUS
  <2>1. w[k] = u[k]
    BY <1>3
  <2>2. k + 1 \in 0..n /\ k + 1 \in 0..m /\ k + 1 # 0 /\ (k + 1) - 1 = k
    OBVIOUS
  <2>3. w[k + 1] = Longer(Incoming(d), w[k]) /\ u[k + 1] = Longer(Incoming(d), u[k])
    BY <1>1, <2>2
  <2> QED
    BY <2>1, <2>3
<1>4. \A k \in Nat : k \in S
  <2> HIDE DEF S
  <2> QED
    BY <1>2, <1>3, Induction
<1> QED
  BY <1>4

\* So the recursion of Within has a solution.
LEMMA WithinUnfolds ==
  ASSUME NEW d, NEW s
  PROVE  /\ Within(d, s)[0] = Start(d, s)
         /\ \A k \in Nat : Within(d, s)[k + 1] = Longer(Incoming(d), Within(d, s)[k])
<1> DEFINE First(n) == CHOOSE w : Unfolds(d, s, w, n)
           g == [n \in Nat |-> First(n)[n]]
           Solves(w) == w = [k \in Nat |-> IF k = 0 THEN Start(d, s) ELSE Longer(Incoming(d), w[k - 1])]
<1>1. ASSUME NEW n \in Nat PROVE Unfolds(d, s, First(n), n)
  BY UnfoldsExists
<1>2. ASSUME NEW n \in Nat
      PROVE  g[n] = IF n = 0 THEN Start(d, s) ELSE Longer(Incoming(d), g[n - 1])
  <2>1. First(n)[n] = IF n = 0 THEN Start(d, s) ELSE Longer(Incoming(d), First(n)[n - 1])
    <3> HIDE DEF First
    <3>1. n \in 0..n
      OBVIOUS
    <3> QED
      BY <1>1, <3>1 DEF Unfolds
  <2>2. CASE n = 0
    BY <2>1, <2>2
  <2>3. CASE n # 0
    <3>1. n - 1 \in Nat /\ n - 1 <= n /\ n - 1 <= n - 1
      BY <2>3
    <3>2. Unfolds(d, s, First(n - 1), n - 1)
      BY <1>1, <3>1
    <3>3. First(n)[n - 1] = First(n - 1)[n - 1]
      <4> HIDE DEF First
      <4> QED
        BY <1>1, <3>1, <3>2, UnfoldsUnique
    <3> QED
      BY <2>1, <2>3, <3>1, <3>3
  <2> QED
    BY <2>2, <2>3
<1>3. Solves(g)
  <2>1. g = [n \in Nat |-> g[n]]
    OBVIOUS
  <2> HIDE DEF g
  <2> QED
    BY <1>2, <2>1
<1>4. Solves(CHOOSE w : Solves(w))
  <2> HIDE DEF g, Solves
  <2> QED
    BY <1>3, Zenon
<1>5. Within(d, s) = CHOOSE w : Solves(w)
  BY Zenon DEF Within, Start
<1>6. Solves(Within(d, s))
  <2> HIDE DEF Solves
  <2> QED
    BY <1>4, <1>5
<1>7. ASSUME NEW k \in Nat
      PROVE  Within(d, s)[k] = IF k = 0 THEN Start(d, s) ELSE Longer(Incoming(d), Within(d, s)[k - 1])
  BY <1>6
<1> QED
  BY <1>7

\* Costs are numbers.
LEMMA CostsType ==
  ASSUME NEW d \in Databases, NEW u \in DOMAIN d.links, NEW v, NEW c \in LinkCosts(d, u, v)
  PROVE  c \in Nat /\ c \in LinkMetrics(d)
<1>1. PICK i \in DOMAIN d.links[u] : c = d.links[u][i].cost
  BY DEF LinkCosts, Leading
<1>2. d.links[u] \in Seq(Links)
  BY RoutingAssumption DEF IsDatabase, IsMap
<1>3. d.links[u][i] \in Links
  BY <1>1, <1>2
<1>4. c \in {d.links[u][j].cost : j \in DOMAIN d.links[u]}
  BY <1>1
<1>5. c \in LinkMetrics(d)
  BY <1>4 DEF LinkMetrics
<1> QED
  BY <1>1, <1>3, <1>5 DEF Links

\* A step of the reference: the smallest of what was there and what the links
\* make of it.
LEMMA LongerIs ==
  ASSUME NEW d \in Databases, NEW f \in [DOMAIN d.links -> Nat], NEW v \in DOMAIN d.links
  PROVE  /\ Longer(Incoming(d), f)[v] \in Nat
         /\ Longer(Incoming(d), f)[v] <= f[v]
         /\ \A u \in DOMAIN d.links : \A c \in LinkCosts(d, u, v) :
              Longer(Incoming(d), f)[v] <= f[u] + c
         /\ \/ Longer(Incoming(d), f)[v] = f[v]
            \/ \E u \in DOMAIN d.links : \E c \in LinkCosts(d, u, v) :
                 Longer(Incoming(d), f)[v] = f[u] + c
<1> DEFINE T == {f[v]} \cup {f[e[1]] + e[2] : e \in Incoming(d)[v]}
<1>1. Incoming(d)[v] = {e \in (DOMAIN d.links) \X LinkMetrics(d) : e[2] \in LinkCosts(d, e[1], v)}
  BY DEF Incoming
<1>2. ASSUME NEW e \in Incoming(d)[v]
      PROVE  e[1] \in DOMAIN d.links /\ e[2] \in LinkCosts(d, e[1], v) /\ f[e[1]] + e[2] \in Nat
  <2>1. e[1] \in DOMAIN d.links /\ e[2] \in LinkCosts(d, e[1], v)
    BY <1>1
  <2> QED
    BY <2>1, CostsType
<1>3. ASSUME NEW u \in DOMAIN d.links, NEW c \in LinkCosts(d, u, v)
      PROVE  f[u] + c \in T
  <2>1. <<u, c>> \in (DOMAIN d.links) \X LinkMetrics(d)
    BY CostsType
  <2>2. <<u, c>> \in Incoming(d)[v]
    BY <1>1, <2>1
  <2> QED
    BY <2>2
<1>4. T \subseteq Nat /\ f[v] \in T
  BY <1>2
<1>5. Longer(Incoming(d), f)[v] = Least(T)
  BY DEF Longer, Incoming
<1>6. Least(T) \in T /\ \A y \in T : Least(T) <= y
  <2> HIDE DEF T
  <2> QED
    BY <1>4, LeastOf
<1> QED
  BY <1>2, <1>3, <1>4, <1>5, <1>6

\* The distances on short paths are numbers,
LEMMA WithinType ==
  ASSUME NEW d \in Databases, NEW s
  PROVE  \A k \in Nat : Within(d, s)[k] \in [DOMAIN d.links -> Nat]
<1> DEFINE S == {k \in Nat : Within(d, s)[k] \in [DOMAIN d.links -> Nat]}
<1>1. 0 \in S
  <2>1. Start(d, s) \in [DOMAIN d.links -> Nat]
    BY RoutingAssumption DEF Start
  <2>2. Within(d, s)[0] = Start(d, s)
    BY WithinUnfolds
  <2> QED
    BY <2>1, <2>2
<1>2. ASSUME NEW k \in Nat, k \in S
      PROVE  k + 1 \in S
  <2>1. Within(d, s)[k + 1] = Longer(Incoming(d), Within(d, s)[k])
    BY WithinUnfolds
  <2>2. \A v \in DOMAIN d.links : Longer(Incoming(d), Within(d, s)[k])[v] \in Nat
    BY <1>2, LongerIs
  <2>3. /\ DOMAIN Incoming(d) = DOMAIN d.links
        /\ Longer(Incoming(d), Within(d, s)[k]) =
             [v \in DOMAIN Incoming(d) |-> Longer(Incoming(d), Within(d, s)[k])[v]]
    BY DEF Longer, Incoming
  <2>4. Longer(Incoming(d), Within(d, s)[k]) \in [DOMAIN d.links -> Nat]
    BY <2>2, <2>3
  <2> QED
    BY <2>1, <2>4
<1>3. \A k \in Nat : k \in S
  <2> HIDE DEF S
  <2> QED
    BY <1>1, <1>2, Induction
<1> QED
  BY <1>3

\* and one link more makes of them what it should.
LEMMA WithinStep ==
  ASSUME NEW d \in Databases, NEW s, NEW k \in Nat, NEW v \in DOMAIN d.links
  PROVE  /\ Within(d, s)[k][v] \in Nat /\ Within(d, s)[k + 1][v] \in Nat
         /\ Within(d, s)[k + 1][v] <= Within(d, s)[k][v]
         /\ \A u \in DOMAIN d.links : \A c \in LinkCosts(d, u, v) :
              Within(d, s)[k + 1][v] <= Within(d, s)[k][u] + c
         /\ \/ Within(d, s)[k + 1][v] = Within(d, s)[k][v]
            \/ \E u \in DOMAIN d.links : \E c \in LinkCosts(d, u, v) :
                 Within(d, s)[k + 1][v] = Within(d, s)[k][u] + c
<1>1. Within(d, s)[k] \in [DOMAIN d.links -> Nat] /\ Within(d, s)[k + 1] \in [DOMAIN d.links -> Nat]
  BY WithinType
<1>2. Within(d, s)[k + 1] = Longer(Incoming(d), Within(d, s)[k])
  BY WithinUnfolds
<1> QED
  BY <1>1, <1>2, LongerIs

\* More links never make a path longer.
LEMMA WithinShrinks ==
  ASSUME NEW d \in Databases, NEW s, NEW k \in Nat, NEW v \in DOMAIN d.links
  PROVE  \A n \in Nat : k <= n => Within(d, s)[n][v] <= Within(d, s)[k][v]
<1> DEFINE S == {n \in Nat : k <= n => Within(d, s)[n][v] <= Within(d, s)[k][v]}
<1>1. \A n \in Nat : Within(d, s)[n][v] \in Nat /\ Within(d, s)[n + 1][v] <= Within(d, s)[n][v]
  BY WithinStep
<1>2. 0 \in S
  BY <1>1
<1>3. ASSUME NEW n \in Nat, n \in S
      PROVE  n + 1 \in S
  <2>1. CASE k <= n
    BY <1>1, <1>3, <2>1
  <2>2. CASE k = n + 1
    BY <1>1, <2>2
  <2> QED
    BY <2>1, <2>2
<1>4. \A n \in Nat : n \in S
  <2> HIDE DEF S
  <2> QED
    BY <1>2, <1>3, Induction
<1> QED
  BY <1>4

\* The distance of the start is 0.
LEMMA WithinStart ==
  ASSUME NEW d \in Databases, NEW s \in DOMAIN d.links, NEW k \in Nat
  PROVE  Within(d, s)[k][s] = 0
<1>1. Within(d, s)[0][s] = 0
  <2>1. Within(d, s)[0] = Start(d, s)
    BY WithinUnfolds
  <2>2. Start(d, s)[s] = 0
    BY DEF Start
  <2> QED
    BY <2>1, <2>2
<1>2. Within(d, s)[k][s] <= Within(d, s)[0][s] /\ Within(d, s)[k][s] \in Nat
  BY WithinShrinks, WithinStep
<1> QED
  BY <1>1, <1>2

\* Numbers of the routers that no link exceeds by more than its cost.
Feasible(d, D) ==
  /\ D \in [DOMAIN d.links -> Nat] /\ \A v \in DOMAIN d.links : D[v] <= INF
  /\ \A u, v \in DOMAIN d.links : \A c \in LinkCosts(d, u, v) : D[v] <= D[u] + c

\* They are lower bounds for the distances of any length, from any start.
LEMMA WithinAbove ==
  ASSUME NEW d \in Databases, NEW s, NEW D, Feasible(d, D), NEW b \in Nat,
         s \in DOMAIN d.links => D[s] <= b
  PROVE  \A k \in Nat : \A v \in DOMAIN d.links : D[v] <= b + Within(d, s)[k][v]
<1> DEFINE S == {k \in Nat : \A v \in DOMAIN d.links : D[v] <= b + Within(d, s)[k][v]}
<1>1. 0 \in S
  <2>1. Within(d, s)[0] = Start(d, s)
    BY WithinUnfolds
  <2>2. ASSUME NEW v \in DOMAIN d.links
        PROVE  D[v] <= b + Start(d, s)[v]
    <3>1. D[v] \in Nat /\ (v = s => D[s] <= b) /\ D[v] <= INF /\ INF \in Nat
      BY RoutingAssumption DEF Feasible
    <3>2. Start(d, s)[v] = IF v = s THEN 0 ELSE INF
      BY DEF Start
    <3> QED
      BY <3>1, <3>2
  <2> QED
    BY <2>1, <2>2
<1>2. ASSUME NEW k \in Nat, k \in S
      PROVE  k + 1 \in S
  <2>1. SUFFICES ASSUME NEW v \in DOMAIN d.links
                 PROVE  D[v] <= b + Within(d, s)[k + 1][v]
    OBVIOUS
  <2>2. \A w \in DOMAIN d.links : D[w] <= b + Within(d, s)[k][w]
    BY <1>2
  <2>3. CASE Within(d, s)[k + 1][v] = Within(d, s)[k][v]
    BY <2>2, <2>3
  <2>4. CASE \E u \in DOMAIN d.links : \E c \in LinkCosts(d, u, v) :
               Within(d, s)[k + 1][v] = Within(d, s)[k][u] + c
    <3>4. PICK u \in DOMAIN d.links : \E c \in LinkCosts(d, u, v) :
            Within(d, s)[k + 1][v] = Within(d, s)[k][u] + c
      BY <2>4
    <3>1. PICK c \in LinkCosts(d, u, v) : Within(d, s)[k + 1][v] = Within(d, s)[k][u] + c
      BY <3>4
    <3>2. D[u] <= b + Within(d, s)[k][u] /\ D[v] <= D[u] + c
      BY <2>2 DEF Feasible
    <3>3. D[u] \in Nat /\ D[v] \in Nat /\ c \in Nat /\ Within(d, s)[k][u] \in Nat
      BY CostsType, WithinStep DEF Feasible
    <3> QED
      BY <3>1, <3>2, <3>3
  <2> QED
    BY <2>3, <2>4, WithinStep
<1>3. \A k \in Nat : k \in S
  <2> HIDE DEF S
  <2> QED
    BY <1>1, <1>2, Induction
<1> QED
  BY <1>3

-----------------------------------------------------------------------------
(* What the search knows of the database                                   *)

\* There is an edge for each router that a link leads to, and the link is one
\* of those.
LEMMA EdgesAre ==
  ASSUME NEW d \in Databases, ~Dangling(d), NEW u \in DOMAIN d.links, NEW v
  PROVE  /\ v \in DOMAIN Adjacencies(d, u) <=> Leading(d, u, v) # {}
         /\ Leading(d, u, v) # {} =>
              /\ v \in Ids /\ LinkTo(d, u, v) \in Leading(d, u, v)
              /\ Adjacencies(d, u)[v] =
                   [src  |-> [net |-> d.links[u][LinkTo(d, u, v)].net, rtr |-> u],
                    cost |-> d.links[u][LinkTo(d, u, v)].cost]
<1>1. DOMAIN Adjacencies(d, u) = UNION {Ends(d, u, i) : i \in DOMAIN d.links[u]}
  BY DEF Adjacencies
<1>2. v \in DOMAIN Adjacencies(d, u) <=> Leading(d, u, v) # {}
  BY <1>1 DEF Leading
<1>3. ASSUME Leading(d, u, v) # {}
      PROVE  LinkTo(d, u, v) \in Leading(d, u, v)
  <2>1. d.links[u] \in Seq(Links)
    BY RoutingAssumption DEF IsDatabase, IsMap
  <2>2. Leading(d, u, v) \subseteq 1..Len(d.links[u]) /\ Len(d.links[u]) \in Nat
    BY <2>1 DEF Leading
  <2>3. \E i \in Leading(d, u, v) : \A j \in Leading(d, u, v) : j <= i
    BY <1>3, <2>2, Largest
  <2> QED
    BY <2>3 DEF LinkTo
<1>4. ASSUME Leading(d, u, v) # {}
      PROVE  v \in Ids
  BY <1>2, <1>4, AdjacenciesType DEF IsMap
<1>5. ASSUME Leading(d, u, v) # {}
      PROVE  Adjacencies(d, u)[v] =
               [src  |-> [net |-> d.links[u][LinkTo(d, u, v)].net, rtr |-> u],
                cost |-> d.links[u][LinkTo(d, u, v)].cost]
  <2>1. v \in UNION {Ends(d, u, i) : i \in DOMAIN d.links[u]}
    BY <1>1, <1>2, <1>5
  <2> QED
    BY <2>1 DEF Adjacencies
<1> QED
  BY <1>2, <1>3, <1>4, <1>5

\* An edge comes from the link that won: it leads there,
LEMMA EdgeLeads ==
  ASSUME NEW d \in Databases, ~Dangling(d), NEW u \in DOMAIN d.links, NEW v,
         v \in DOMAIN Adjacencies(d, u)
  PROVE  LinkTo(d, u, v) \in Leading(d, u, v) /\ LinkTo(d, u, v) \in DOMAIN d.links[u]
<1>1. Leading(d, u, v) # {}
  BY EdgesAre
<1>2. LinkTo(d, u, v) \in Leading(d, u, v)
  BY <1>1, EdgesAre
<1> QED
  BY <1>2 DEF Leading

\* has its cost,
LEMMA EdgeCost ==
  ASSUME NEW d \in Databases, ~Dangling(d), NEW u \in DOMAIN d.links, NEW v,
         v \in DOMAIN Adjacencies(d, u)
  PROVE  Adjacencies(d, u)[v].cost = d.links[u][LinkTo(d, u, v)].cost
<1>1. v \in UNION {Ends(d, u, i) : i \in DOMAIN d.links[u]}
  BY DEF Adjacencies
<1> QED
  BY <1>1 DEF Adjacencies

\* and its address.
LEMMA EdgeSource ==
  ASSUME NEW d \in Databases, ~Dangling(d), NEW u \in DOMAIN d.links, NEW v,
         v \in DOMAIN Adjacencies(d, u)
  PROVE  Adjacencies(d, u)[v].src = [net |-> d.links[u][LinkTo(d, u, v)].net, rtr |-> u]
<1>1. v \in UNION {Ends(d, u, i) : i \in DOMAIN d.links[u]}
  BY DEF Adjacencies
<1> QED
  BY <1>1 DEF Adjacencies

LEMMA EdgeNet ==
  ASSUME NEW d \in Databases, ~Dangling(d), NEW u \in DOMAIN d.links, NEW v,
         v \in DOMAIN Adjacencies(d, u)
  PROVE  Adjacencies(d, u)[v].src.net = d.links[u][LinkTo(d, u, v)].net
<1>1. v \in UNION {Ends(d, u, i) : i \in DOMAIN d.links[u]}
  BY DEF Adjacencies
<1> QED
  BY <1>1 DEF Adjacencies

\* Without parallel links it is the only one.
LEMMA OneLink ==
  ASSUME NEW d \in Databases, ~Dangling(d), NoParallelLinks(d),
         NEW u \in DOMAIN d.links, NEW v, NEW i \in Leading(d, u, v)
  PROVE  i = LinkTo(d, u, v)
<1> DEFINE S == Leading(d, u, v)
           j == LinkTo(d, u, v)
<1>1. v \in Ids /\ i \in S /\ j \in S
  BY EdgesAre
<1>2. S \subseteq 1..Len(d.links[u]) /\ Len(d.links[u]) \in Nat
  <2>1. d.links[u] \in Seq(Links)
    BY RoutingAssumption DEF IsDatabase, IsMap
  <2> QED
    BY <2>1 DEF Leading
<1>3. IsFiniteSet(S)
  <2>1. IsFiniteSet(1..Len(d.links[u]))
    BY <1>2, FS_Interval
  <2> QED
    BY <1>2, <2>1, FS_Subset
<1>4. Cardinality(S) <= 1
  BY <1>1 DEF NoParallelLinks
<1> HIDE DEF S, j
<1>5. SUFFICES ASSUME i # j PROVE FALSE
  BY DEF j
<1>6. /\ IsFiniteSet(S \ {i}) /\ Cardinality(S \ {i}) = Cardinality(S) - 1
      /\ Cardinality(S) \in Nat
  BY <1>1, <1>3, FS_RemoveElement, FS_CardinalityType
<1>7. Cardinality(S \ {i}) \in Nat /\ Cardinality(S \ {i}) = 0
  BY <1>4, <1>6, FS_CardinalityType
<1>8. S \ {i} = {}
  BY <1>6, <1>7, FS_EmptySet
<1> QED
  BY <1>1, <1>5, <1>8

\* The topology is made of the edges of the database and, once the host is
\* left, of edges back to it where its neighbours have none.
TopologyKept ==
  pc \in {"search", "generate"} =>
    LET d == Head(todo) IN
    /\ ~Dangling(d) /\ DOMAIN d.links \subseteq DOMAIN topo
    /\ \A u \in DOMAIN d.links : \A e \in DOMAIN Adjacencies(d, u) :
         e \in DOMAIN topo[u] /\ topo[u][e] = Adjacencies(d, u)[e]
    /\ \A u \in DOMAIN topo : \A e \in DOMAIN topo[u] :
         /\ u \in DOMAIN d.links
         /\ \/ e \in DOMAIN Adjacencies(d, u)
            \/ /\ e = Self /\ topo[u][e] = [src |-> Zero, cost |-> 0]
               /\ Leading(d, Self, u) # {} /\ Leading(d, u, Self) = {}

\* The routers of the database are settled or pending, and the settled ones were
\* reached. A host without an LSA settles nothing but itself.
Split ==
  pc \in {"search", "generate"} =>
    LET V == DOMAIN Head(todo).links IN
    /\ Self \in V =>
         /\ DOMAIN pending \subseteq V /\ DOMAIN result \subseteq V \cup {0}
         /\ V \subseteq DOMAIN result \cup DOMAIN pending
         /\ \A v \in DOMAIN result \ {0} : result[v].metric < INF
    /\ Self \notin V => V = {} \/ (DOMAIN result = {Self} /\ new_id = Self)

\* So the search goes on from routers of the database only.
LEMMA SearchInside ==
  ASSUME Typed, TopologyKept, Split, Searching
  PROVE  /\ Head(todo) \in Databases /\ Self \in DOMAIN Head(todo).links
         /\ new_id \in DOMAIN Head(todo).links /\ new_id \in DOMAIN topo
<1>1. Head(todo) \in Databases
  BY DEF Searching, Typed, TypeOK
<1>2. new_id \in DOMAIN topo /\ DOMAIN topo[new_id] # {}
  BY DEF Searching, Adj, Empty
<1>3. new_id \in DOMAIN Head(todo).links
  BY <1>2 DEF TopologyKept, Searching
<1>4. Self \in DOMAIN Head(todo).links
  BY <1>3 DEF Split, Searching
<1> QED
  BY <1>1, <1>2, <1>3, <1>4

\* Every step keeps the topology to what it is made of,
LEMMA TopologyKeptStep ==
  ASSUME Typed, TopologyKept, Split, [Next]_vars
  PROVE  TopologyKept'
<1> DEFINE d == Head(todo)
<1>1. CASE BuildTopology
  <2>1. /\ ~Dangling(d) /\ todo' = todo /\ d \in Databases
        /\ topo' = [r \in DOMAIN d.links |-> Adjacencies(d, r)]
    BY <1>1 DEF BuildTopology, Typed, TypeOK
  <2> QED
    BY <2>1 DEF TopologyKept
<1>2. ASSUME Searching
      PROVE  TopologyKept'
  <2>1. /\ d \in Databases /\ Self \in DOMAIN d.links /\ new_id \in DOMAIN d.links
        /\ new_id \in DOMAIN topo
    BY <1>2, SearchInside
  <2>2. /\ todo' = todo /\ pc = "search"
        /\ topo' = [u \in DOMAIN topo \cup DOMAIN Adj(new_id) |-> Returned(u)]
    BY <1>2 DEF Searching
  <2>3. \A u \in DOMAIN topo : Adj(u) = topo[u]
    BY DEF Adj
  <2>4. \A u : u \notin DOMAIN topo => DOMAIN Adj(u) = {}
    BY DEF Adj, Empty
  <2>5. ASSUME NEW u, NEW e \in DOMAIN Returned(u)
        PROVE  \/ e \in DOMAIN Adj(u) /\ Returned(u)[e] = Adj(u)[e]
               \/ /\ e = Self /\ Returned(u)[e] = [src |-> Zero, cost |-> 0]
                  /\ new_id = Self /\ u \in Closer /\ Self \notin DOMAIN Adj(u)
    BY <2>5 DEF Returned, Put
  <2>6. ASSUME NEW u, NEW e \in DOMAIN Adj(u)
        PROVE  e \in DOMAIN Returned(u) /\ Returned(u)[e] = Adj(u)[e]
    BY <2>6 DEF Returned, Put
  <2>7. ASSUME NEW u \in Closer, new_id = Self, Self \notin DOMAIN Adj(u)
        PROVE  u \in DOMAIN d.links /\ Leading(d, Self, u) # {} /\ Leading(d, u, Self) = {}
    <3>1. u \in DOMAIN topo[Self] /\ u # Self /\ u \in DOMAIN d.links
      BY <2>1, <2>2, <2>3, <2>7 DEF Closer, Split, Typed, TypeOK, IsMap
    <3>2. u \in DOMAIN Adjacencies(d, Self)
      BY <2>1, <2>2, <2>7, <3>1 DEF TopologyKept
    <3>3. u \in DOMAIN topo /\ Self \notin DOMAIN Adjacencies(d, u)
      BY <2>2, <2>3, <2>7, <3>1 DEF TopologyKept
    <3>4. ~Dangling(d)
      BY <2>2 DEF TopologyKept
    <3> QED
      BY <2>1, <3>1, <3>2, <3>3, <3>4, EdgesAre
  <2>8. DOMAIN d.links \subseteq DOMAIN topo' /\ ~Dangling(d)
    BY <2>2 DEF TopologyKept
  <2>9. ASSUME NEW u \in DOMAIN d.links, NEW e \in DOMAIN Adjacencies(d, u)
        PROVE  e \in DOMAIN topo'[u] /\ topo'[u][e] = Adjacencies(d, u)[e]
    <3>1. u \in DOMAIN topo /\ e \in DOMAIN topo[u] /\ topo[u][e] = Adjacencies(d, u)[e]
      BY <2>2, <2>9 DEF TopologyKept
    <3> QED
      BY <2>2, <2>3, <2>6, <3>1
  <2>10. ASSUME NEW u \in DOMAIN topo', NEW e \in DOMAIN topo'[u]
         PROVE  /\ u \in DOMAIN d.links
                /\ \/ e \in DOMAIN Adjacencies(d, u)
                   \/ /\ e = Self /\ topo'[u][e] = [src |-> Zero, cost |-> 0]
                      /\ Leading(d, Self, u) # {} /\ Leading(d, u, Self) = {}
    <3>1. topo'[u] = Returned(u)
      BY <2>2
    <3>2. CASE e \in DOMAIN Adj(u) /\ Returned(u)[e] = Adj(u)[e]
      <4>1. u \in DOMAIN topo /\ e \in DOMAIN topo[u] /\ topo'[u][e] = topo[u][e]
        BY <2>3, <2>4, <3>1, <3>2
      <4> QED
        BY <2>2, <4>1 DEF TopologyKept
    <3>3. CASE /\ e = Self /\ Returned(u)[e] = [src |-> Zero, cost |-> 0]
               /\ new_id = Self /\ u \in Closer /\ Self \notin DOMAIN Adj(u)
      BY <2>7, <3>1, <3>3
    <3> QED
      BY <2>5, <3>1, <3>2, <3>3
  <2>11. \A u \in DOMAIN d.links : \A e \in DOMAIN Adjacencies(d, u) :
           e \in DOMAIN topo'[u] /\ topo'[u][e] = Adjacencies(d, u)[e]
    BY <2>9
  <2>12. \A u \in DOMAIN topo' : \A e \in DOMAIN topo'[u] :
           /\ u \in DOMAIN d.links
           /\ \/ e \in DOMAIN Adjacencies(d, u)
              \/ /\ e = Self /\ topo'[u][e] = [src |-> Zero, cost |-> 0]
                 /\ Leading(d, Self, u) # {} /\ Leading(d, u, Self) = {}
    BY <2>10
  <2>13. Head(todo') = d
    BY <2>2
  <2> HIDE DEF d
  <2> QED
    BY <2>8, <2>11, <2>12, <2>13 DEF TopologyKept
<1>3. CASE SettleNone \/ \E v \in Ids : Settle(v)
  BY <1>2, <1>3 DEF SettleNone, Settle
<1>4. CASE SearchEnds
  BY <1>4 DEF SearchEnds, search, TopologyKept
<1>5. CASE Crash \/ GenRouting \/ ResetRoute \/ Remember \/ UpdateEnds
  BY <1>5 DEF Crash, GenRouting, ResetRoute, StartReset, Undo, Forget, Remember, UpdateEnds,
              TopologyKept
<1>6. CASE \/ Destroy \/ Close \/ Administrator \/ UNCHANGED vars
           \/ \E n \in Nets \cup {NoNet} : AddRoute(n) \/ RouteRefused(n)
  BY <1>6 DEF Destroy, StartDestroy, DestroyUndo, DestroyForget, Close, Administrator, vars,
              AddRoute, RouteRefused, TopologyKept, search
<1> QED
  BY <1>1, <1>3, <1>4, <1>5, <1>6 DEF Next, ThreadStep

\* the routers split between settled and pending,
LEMMA SplitStep ==
  ASSUME Typed, TopologyKept, Split, [Next]_vars
  PROVE  Split'
<1>1. CASE BuildTopology
  BY <1>1, RoutingAssumption DEF BuildTopology, Split, Unsettled
<1>2. ASSUME NEW v \in Ids, Settle(v)
      PROVE  Split'
  <2>1. /\ Searching /\ v \in DOMAIN pending /\ DOMAIN Relaxed = DOMAIN pending
        /\ result' = Put(result, v, Relaxed[v]) /\ pending' = Without(Relaxed, v)
        /\ Relaxed[v].metric < INF
    BY <1>2 DEF Settle, Nearest, Relaxed
  <2>2. /\ DOMAIN result' = DOMAIN result \cup {v} /\ DOMAIN pending' = DOMAIN pending \ {v}
        /\ todo' = todo /\ pc = "search"
    BY <2>1 DEF Put, Without, Searching
  <2>3. Self \in DOMAIN Head(todo).links
    BY <2>1, SearchInside
  <2>4. \A u \in DOMAIN result' \ {0} : result'[u].metric < INF
    BY <2>1, <2>2, <2>3 DEF Split, Put
  <2> QED
    BY <2>1, <2>2, <2>3, <2>4 DEF Split
<1>3. CASE SettleNone
  <2>1. Searching /\ DOMAIN pending' = DOMAIN pending /\ DOMAIN result' = DOMAIN result \cup {0}
    BY <1>3 DEF SettleNone, Relaxed, Put
  <2>2. todo' = todo /\ pc = "search"
    BY <2>1 DEF Searching
  <2>3. Self \in DOMAIN Head(todo).links
    BY <2>1, SearchInside
  <2>4. \A u \in DOMAIN result' \ {0} : result'[u].metric < INF
    BY <1>3, <2>2, <2>3 DEF Split, SettleNone, Put
  <2> QED
    BY <2>1, <2>2, <2>3, <2>4 DEF Split
<1>4. CASE SearchEnds
  BY <1>4 DEF SearchEnds, search, Split
<1>5. CASE Crash \/ GenRouting \/ ResetRoute \/ Remember \/ UpdateEnds
  BY <1>5 DEF Crash, GenRouting, ResetRoute, StartReset, Undo, Forget, Remember, UpdateEnds, Split
<1>6. CASE \/ Destroy \/ Close \/ Administrator \/ UNCHANGED vars
           \/ \E n \in Nets \cup {NoNet} : AddRoute(n) \/ RouteRefused(n)
  BY <1>6 DEF Destroy, StartDestroy, DestroyUndo, DestroyForget, Close, Administrator, vars,
              AddRoute, RouteRefused, Split, search
<1> QED
  BY <1>1, <1>2, <1>3, <1>4, <1>5, <1>6 DEF Next, ThreadStep

\* Some edge leads into a router that has a path, or one leads out of it.
Entered(d, v) ==
  \/ DOMAIN topo[v] # {}
  \/ \E u \in DOMAIN d.links \ {Self} : Leading(d, u, v) # {}

\* A pending router has a path if its metric is not INF, and then it is entered.
Entering ==
  pc = "search" =>
    LET d == Head(todo) IN
    /\ new_id \in {0, Self} => \A v \in DOMAIN pending : pending[v].metric = INF
    /\ \A v \in DOMAIN pending : pending[v].metric <= INF
    /\ \A v \in DOMAIN result \ {Self, 0} : Entered(d, v)
    /\ \A v \in DOMAIN pending : pending[v].metric < INF => Entered(d, v)

\* If some vertex was reached, there is a nearest one.
LEMMA NearestExists ==
  ASSUME Typed, Searching, Nearest(Relaxed) = {}
  PROVE  \A v \in DOMAIN pending : INF <= Relaxed[v].metric
<1> DEFINE T == {v \in DOMAIN pending : Relaxed[v].metric < INF}
<1>1. IsMap(Relaxed, Ids \ {Self}, Paths) /\ DOMAIN Relaxed = DOMAIN pending
  BY RelaxedType DEF Searching
<1>2. T \subseteq Nat /\ \A v \in DOMAIN pending : Relaxed[v].metric \in Nat
  BY <1>1, RoutingAssumption DEF IsMap, Paths
<1>3. ASSUME T # {} PROVE FALSE
  <2>1. PICK v \in T : \A w \in T : \/ Relaxed[v].metric < Relaxed[w].metric
                                    \/ Relaxed[v].metric = Relaxed[w].metric /\ v <= w
    <3> HIDE DEF T
    <3>1. \A w \in T : Relaxed[w].metric \in Nat
      BY <1>2 DEF T
    <3> QED
      BY <1>2, <1>3, <3>1, BestExists
  <2>2. ASSUME NEW w \in DOMAIN Relaxed
        PROVE  \/ Relaxed[v].metric < Relaxed[w].metric
               \/ Relaxed[v].metric = Relaxed[w].metric /\ v <= w
    <3>1. CASE w \in T
      BY <2>1, <3>1
    <3>2. CASE w \notin T
      BY <1>1, <1>2, <2>1, <3>2, RoutingAssumption
    <3> QED
      BY <3>1, <3>2
  <2>3. v \in Nearest(Relaxed)
    BY <1>1, <2>1, <2>2 DEF Nearest
  <2> QED
    BY <2>3
<1> QED
  BY <1>2, <1>3, RoutingAssumption

\* What an iteration reaches is entered.
LEMMA EnteredRelaxed ==
  ASSUME Typed, Ordered, TopologyKept, Split, Entering, Searching
  PROVE  /\ \A v \in DOMAIN topo : Entered(Head(todo), v) => Entered(Head(todo), v)'
         /\ \A v \in DOMAIN pending :
              /\ Relaxed[v].metric <= INF
              /\ Relaxed[v].metric < INF => Entered(Head(todo), v)'
<1> DEFINE d == Head(todo)
<1>1. /\ d \in Databases /\ Self \in DOMAIN d.links /\ new_id \in DOMAIN d.links
      /\ new_id \in DOMAIN topo /\ todo' = todo /\ pc = "search"
      /\ topo' = [u \in DOMAIN topo \cup DOMAIN Adj(new_id) |-> Returned(u)]
  BY SearchInside DEF Searching
<1>2. ASSUME NEW v \in DOMAIN topo, Entered(d, v)
      PROVE  Entered(d, v)'
  <2>1. DOMAIN topo[v] \subseteq DOMAIN topo'[v]
    <3>1. v \in DOMAIN topo'
      BY <1>1
    <3> QED
      BY <3>1, TopologyGrows
  <2> QED
    BY <1>1, <1>2, <2>1 DEF Entered
<1>3. ASSUME NEW v \in DOMAIN pending
      PROVE  Relaxed[v].metric <= INF
  <2>1. Relaxed[v].metric <= pending[v].metric /\ Relaxed[v].metric \in Nat /\ pending[v].metric \in Nat
    BY RelaxedMetric
  <2>2. pending[v].metric <= INF /\ INF \in Nat
    BY <1>1, RoutingAssumption DEF Entering
  <2> QED
    BY <2>1, <2>2
<1>4. ASSUME NEW v \in DOMAIN pending, Relaxed[v].metric < INF
      PROVE  Entered(d, v)'
  <2>1. v \in DOMAIN topo /\ v # Self
    BY <1>1 DEF Split, TopologyKept, Typed, TypeOK, IsMap
  <2>2. CASE v \notin Closer
    <3>1. Relaxed[v] = pending[v]
      BY <2>2 DEF Relaxed
    <3>2. Entered(d, v)
      BY <1>1, <1>4, <3>1 DEF Entering
    <3> QED
      BY <1>2, <2>1, <3>2
  <2>3. CASE v \in Closer /\ new_id = Self
    <3>1. Self \in DOMAIN Returned(v)
      BY <2>3 DEF Returned, Put
    <3>2. DOMAIN topo'[v] # {}
      BY <1>1, <2>1, <3>1
    <3> QED
      BY <3>2 DEF Entered
  <2>4. CASE v \in Closer /\ new_id # Self
    <3>1. v \in DOMAIN topo[new_id]
      BY <1>1, <2>4 DEF Closer, Adj
    <3>2. v \in DOMAIN Adjacencies(d, new_id) /\ ~Dangling(d)
      BY <1>1, <2>1, <3>1 DEF TopologyKept
    <3>3. Leading(d, new_id, v) # {}
      BY <1>1, <3>2, EdgesAre
    <3> QED
      BY <1>1, <2>4, <3>3 DEF Entered
  <2> QED
    BY <2>2, <2>3, <2>4
<1> QED
  BY <1>2, <1>3, <1>4

\* and entered what has a path.
LEMMA EnteringStep ==
  ASSUME Typed, Ordered, TopologyKept, Split, Entering, [Next]_vars
  PROVE  Entering'
<1> DEFINE d == Head(todo)
<1>1. CASE BuildTopology
  BY <1>1, RoutingAssumption DEF BuildTopology, Entering, Unsettled
<1>2. ASSUME NEW v \in Ids, Settle(v)
      PROVE  Entering'
  <2>1. /\ Searching /\ v \in DOMAIN pending /\ DOMAIN Relaxed = DOMAIN pending
        /\ Relaxed[v].metric < INF
        /\ result' = Put(result, v, Relaxed[v]) /\ pending' = Without(Relaxed, v) /\ new_id' = v
    BY <1>2 DEF Settle, Nearest, Relaxed
  <2>2. v \notin {0, Self} /\ Head(todo') = d /\ pc = "search"
    BY <2>1, RoutingAssumption DEF Typed, TypeOK, IsMap, Searching
  <2>3. ASSUME NEW w \in DOMAIN pending'
        PROVE  w \in DOMAIN pending /\ pending'[w] = Relaxed[w]
    BY <2>1 DEF Without
  <2>4. ASSUME NEW w \in DOMAIN result'
        PROVE  \/ w = v /\ result'[w] = Relaxed[w]
               \/ w \in DOMAIN result /\ result'[w] = result[w]
    BY <2>1 DEF Put
  <2>5. ASSUME NEW w \in DOMAIN result, w \notin {0, Self}
        PROVE  Entered(d, w)'
    <3>1. Entered(d, w)
      BY <2>2, <2>5 DEF Entering
    <3>2. w \in DOMAIN topo
      BY <2>1, <2>2, <2>5, SearchInside DEF Split, TopologyKept
    <3> QED
      BY <2>1, <3>1, <3>2, EnteredRelaxed
  <2>6. \A w \in DOMAIN pending' :
          pending'[w].metric <= INF /\ (pending'[w].metric < INF => Entered(d, w)')
    BY <2>1, <2>3, EnteredRelaxed
  <2>7. \A w \in DOMAIN result' \ {Self, 0} : Entered(d, w)'
    BY <2>1, <2>4, <2>5, EnteredRelaxed
  <2> QED
    BY <2>1, <2>2, <2>6, <2>7 DEF Entering
<1>3. CASE SettleNone
  <2>1. /\ Searching /\ Nearest(Relaxed) = {} /\ pending' = Relaxed /\ DOMAIN Relaxed = DOMAIN pending
        /\ result' = Put(result, 0, [metric |-> INF, next_hop |-> Zero]) /\ pc = "search"
    BY <1>3 DEF SettleNone, Searching, Relaxed
  <2>2. ASSUME NEW w \in DOMAIN pending'
        PROVE  pending'[w].metric = INF
    <3>1. INF <= Relaxed[w].metric /\ Relaxed[w].metric <= INF /\ Relaxed[w].metric \in Nat
      BY <2>1, NearestExists, EnteredRelaxed, RelaxedMetric
    <3> QED
      BY <2>1, <3>1, RoutingAssumption
  <2>3. ASSUME NEW w \in DOMAIN result' \ {Self, 0}
        PROVE  Entered(d, w)'
    <3>1. w \in DOMAIN result /\ result'[w] = result[w]
      BY <2>1 DEF Put
    <3>2. Entered(d, w)
      BY <2>1, <3>1 DEF Entering
    <3>3. w \in DOMAIN topo
      BY <2>1, <3>1, SearchInside DEF Split, TopologyKept
    <3> QED
      BY <2>1, <3>1, <3>2, <3>3, EnteredRelaxed
  <2>4. Head(todo') = d /\ INF \in Nat
    BY <2>1, RoutingAssumption DEF Searching
  <2> QED
    BY <2>2, <2>3, <2>4 DEF Entering
<1>4. CASE SearchEnds
  BY <1>4 DEF SearchEnds, Entering
<1>5. CASE Crash \/ GenRouting \/ ResetRoute \/ Remember \/ UpdateEnds
  BY <1>5 DEF Crash, GenRouting, ResetRoute, StartReset, Undo, Forget, Remember, UpdateEnds,
              Entering
<1>6. CASE \/ Destroy \/ Close \/ Administrator \/ UNCHANGED vars
           \/ \E n \in Nets \cup {NoNet} : AddRoute(n) \/ RouteRefused(n)
  BY <1>6 DEF Destroy, StartDestroy, DestroyUndo, DestroyForget, Close, Administrator, vars,
              AddRoute, RouteRefused, Entering, Entered, search
<1> QED
  BY <1>1, <1>2, <1>3, <1>4, <1>5, <1>6 DEF Next, ThreadStep

-----------------------------------------------------------------------------
(* What is settled has its distance                                        *)

\* A search whose distances the reference is about.
Counted == NoParallelLinks(Head(todo)) /\ Self \in DOMAIN Head(todo).links

\* Paths of at most k links are as short as the metric of v, and if v is not
\* the host one of them begins with the neighbour whose address it has.
Found(d, v, path, k) ==
  /\ Within(d, Self)[k][v] <= path.metric
  /\ v # Self =>
       \E w \in DOMAIN d.links \ {Self} :
         /\ path.next_hop = BackAddress(d, w)
         /\ \E c \in LinkCosts(d, Self, w) : c + Within(d, w)[k][v] <= path.metric

\* With k routers settled next to the host, all that was reached is found on
\* paths of at most k links.
Count == Cardinality(DOMAIN result \ {0}) - 1
AllFound ==
  pc = "search" /\ Counted =>
    LET d == Head(todo) IN
    /\ \A v \in DOMAIN result \ {0} : Found(d, v, result[v], Count)
    /\ \A v \in DOMAIN pending : pending[v].metric < INF => Found(d, v, pending[v], Count)

\* More links find it as well.
LEMMA FoundMore ==
  ASSUME NEW d \in Databases, Self \in DOMAIN d.links, NEW v \in DOMAIN d.links,
         NEW k \in Nat, NEW path \in Paths, Found(d, v, path, k)
  PROVE  \A n \in Nat : k <= n => Found(d, v, path, n)
<1> SUFFICES ASSUME NEW n \in Nat, k <= n PROVE Found(d, v, path, n)
  OBVIOUS
<1>1. path.metric \in Nat
  BY DEF Paths
<1>2. ASSUME NEW s \in DOMAIN d.links
      PROVE  /\ Within(d, s)[n][v] <= Within(d, s)[k][v]
             /\ Within(d, s)[n][v] \in Nat /\ Within(d, s)[k][v] \in Nat
  BY WithinShrinks, WithinStep
<1>3. Within(d, Self)[n][v] <= path.metric
  BY <1>1, <1>2 DEF Found
<1>4. ASSUME v # Self
      PROVE  \E w \in DOMAIN d.links \ {Self} :
               /\ path.next_hop = BackAddress(d, w)
               /\ \E c \in LinkCosts(d, Self, w) : c + Within(d, w)[n][v] <= path.metric
  <2>1. PICK w \in DOMAIN d.links \ {Self} :
          /\ path.next_hop = BackAddress(d, w)
          /\ \E c \in LinkCosts(d, Self, w) : c + Within(d, w)[k][v] <= path.metric
    BY <1>4 DEF Found
  <2>2. PICK c \in LinkCosts(d, Self, w) : c + Within(d, w)[k][v] <= path.metric
    BY <2>1
  <2>3. c \in Nat
    BY CostsType
  <2>4. c + Within(d, w)[n][v] <= path.metric
    BY <1>1, <1>2, <2>2, <2>3
  <2> QED
    BY <2>1, <2>4
<1> QED
  BY <1>3, <1>4 DEF Found

\* The settled routers are finitely many.
LEMMA CountIs ==
  ASSUME Typed, Split, pc \in {"search", "generate"}, Self \in DOMAIN Head(todo).links,
         Self \in DOMAIN result
  PROVE  /\ IsFiniteSet(DOMAIN result \ {0}) /\ Count \in Nat
         /\ Count <= Cardinality(DOMAIN Head(todo).links) - 1
         /\ Cardinality(DOMAIN Head(todo).links) - 1 \in Nat
<1> DEFINE V == DOMAIN Head(todo).links
           R == DOMAIN result \ {0}
<1>1. Head(todo) \in Databases
  BY DEF Typed, TypeOK
<1>2. IsFiniteSet(V) /\ R \subseteq V
  BY <1>1, RoutingAssumption DEF IsDatabase, Split
<1>3. /\ IsFiniteSet(R) /\ Cardinality(R) \in Nat /\ Cardinality(V) \in Nat
      /\ Cardinality(R) <= Cardinality(V)
  BY <1>2, FS_Subset, FS_CardinalityType
<1>4. Self \in R
  BY RoutingAssumption
<1>5. Cardinality(R) # 0
  BY <1>3, <1>4, FS_EmptySet
<1> QED
  BY <1>3, <1>5 DEF Count

\* The next hop of a neighbour is its address on a link back.
LEMMA NextHopIs ==
  ASSUME Typed, TopologyKept, Split, Searching, Counted, new_id = Self, NEW v \in Closer
  PROVE  NextHop(v) = BackAddress(Head(todo), v)
<1> DEFINE d == Head(todo)
<1>1. d \in Databases /\ Self \in DOMAIN d.links /\ pc = "search" /\ ~Dangling(d) /\ NoParallelLinks(d)
  BY SearchInside DEF Searching, TopologyKept, Counted
<1>2. v \in DOMAIN d.links /\ v \in DOMAIN topo
  BY <1>1 DEF Closer, Split, TopologyKept
<1>3. NextHop(v) = Returned(v)[Self].src /\ Adj(v) = topo[v]
  BY <1>2 DEF NextHop, Adj
<1>4. CASE Leading(d, v, Self) # {}
  <2>1. /\ Self \in DOMAIN Adjacencies(d, v) /\ LinkTo(d, v, Self) \in Leading(d, v, Self)
        /\ Adjacencies(d, v)[Self].src = [net |-> d.links[v][LinkTo(d, v, Self)].net, rtr |-> v]
    <3>1. Self \in DOMAIN Adjacencies(d, v)
      BY <1>1, <1>2, <1>4, EdgesAre
    <3> HIDE DEF d
    <3> QED
      BY <1>1, <1>2, <3>1, EdgeLeads, EdgeSource
  <2>2. Self \in DOMAIN topo[v] /\ topo[v][Self] = Adjacencies(d, v)[Self]
    BY <1>1, <1>2, <2>1 DEF TopologyKept
  <2>3. Returned(v)[Self] = topo[v][Self]
    BY <1>3, <2>2 DEF Returned
  <2>4. (CHOOSE i \in Leading(d, v, Self) : TRUE) \in Leading(d, v, Self)
    BY <1>4
  <2>5. (CHOOSE i \in Leading(d, v, Self) : TRUE) = LinkTo(d, v, Self)
    BY <1>1, <1>2, <2>4, OneLink
  <2> QED
    BY <1>3, <1>4, <2>1, <2>2, <2>3, <2>5 DEF BackAddress
<1>5. CASE Leading(d, v, Self) = {}
  <2>1. Self \in DOMAIN topo[v] => topo[v][Self].src = Zero
    <3>1. Self \notin DOMAIN Adjacencies(d, v)
      BY <1>1, <1>2, <1>5, EdgesAre
    <3> QED
      BY <1>1, <1>2, <3>1 DEF TopologyKept
  <2>2. Returned(v)[Self].src = Zero
    BY <1>3, <2>1 DEF Returned, Put
  <2> QED
    BY <1>3, <1>5, <2>2 DEF BackAddress
<1> QED
  BY <1>4, <1>5

\* An iteration finds its paths with one link more.
LEMMA FoundRelaxed ==
  ASSUME Typed, Ordered, TopologyKept, Split, AllFound, Searching, Counted,
         NEW v \in DOMAIN pending, Relaxed[v].metric < INF
  PROVE  Found(Head(todo), v, Relaxed[v], Count + 1)
<1> DEFINE d == Head(todo)
           k == Count
<1>1. /\ d \in Databases /\ Self \in DOMAIN d.links /\ new_id \in DOMAIN d.links
      /\ new_id \in DOMAIN topo /\ pc = "search" /\ ~Dangling(d) /\ Self \in DOMAIN result
  BY SearchInside DEF Searching, TopologyKept, Ordered
<1>2. k \in Nat /\ k <= k + 1 /\ k + 1 \in Nat
  BY <1>1, CountIs
<1>3. v \in DOMAIN d.links /\ v # Self
  BY <1>1 DEF Split, Typed, TypeOK, IsMap
<1>4. new_id \in DOMAIN result \ {0} /\ result[new_id] \in Paths
  BY <1>1, RelaxedType, RoutingAssumption DEF Typed, Searching
<1>5. CASE v \notin Closer
  <2>1. Relaxed[v] = pending[v] /\ pending[v] \in Paths
    BY <1>5 DEF Relaxed, Typed, TypeOK, IsMap
  <2>2. Found(d, v, pending[v], k)
    BY <1>1, <2>1 DEF AllFound
  <2> HIDE DEF d, k
  <2> QED
    BY <1>1, <1>2, <1>3, <2>1, <2>2, FoundMore DEF d, k
<1>6. CASE v \in Closer
  <2> DEFINE c == topo[new_id][v].cost
  <2>1. /\ v \in DOMAIN topo[new_id] /\ Relaxed[v].metric = result[new_id].metric + c
        /\ Relaxed[v].next_hop = NextHop(v)
    BY <1>1, <1>6 DEF Closer, Adj, Relaxed, Through
  <2>2. v \in DOMAIN Adjacencies(d, new_id) /\ topo[new_id][v] = Adjacencies(d, new_id)[v]
    BY <1>1, <1>3, <2>1 DEF TopologyKept
  <2>3. c \in LinkCosts(d, new_id, v) /\ c \in Nat
    <3>1. /\ LinkTo(d, new_id, v) \in Leading(d, new_id, v)
          /\ c = d.links[new_id][LinkTo(d, new_id, v)].cost
      <4>1. /\ LinkTo(d, new_id, v) \in Leading(d, new_id, v)
            /\ Adjacencies(d, new_id)[v].cost = d.links[new_id][LinkTo(d, new_id, v)].cost
        <5> HIDE DEF d
        <5> QED
          BY <1>1, <2>2, EdgeLeads, EdgeCost
      <4> QED
        BY <2>2, <4>1
    <3>2. c \in LinkCosts(d, new_id, v)
      BY <3>1 DEF LinkCosts
    <3> QED
      BY <1>1, <3>2, CostsType
  <2>4. Found(d, new_id, result[new_id], k) /\ result[new_id].metric \in Nat
    BY <1>1, <1>4 DEF AllFound, Paths
  <2>5. ASSUME NEW s \in DOMAIN d.links
        PROVE  /\ Within(d, s)[k + 1][v] <= Within(d, s)[k][new_id] + c
               /\ Within(d, s)[k + 1][v] \in Nat /\ Within(d, s)[k][new_id] \in Nat
    <3> HIDE DEF d, k, c
    <3> QED
      BY <1>1, <1>2, <1>3, <2>3, WithinStep DEF d, k
  <2>6. Within(d, Self)[k + 1][v] <= Relaxed[v].metric
    BY <1>1, <2>1, <2>3, <2>4, <2>5 DEF Found
  <2>7. CASE new_id = Self
    <3>1. Within(d, v)[k + 1][v] = 0
      BY <1>1, <1>2, <1>3, WithinStart
    <3>2. result[Self].metric = 0
      BY <1>1 DEF Ordered
    <3>3. c + Within(d, v)[k + 1][v] <= Relaxed[v].metric
      BY <2>1, <2>3, <2>7, <3>1, <3>2
    <3>4. Relaxed[v].next_hop = BackAddress(d, v)
      BY <1>6, <2>1, <2>7, NextHopIs
    <3> QED
      BY <1>3, <2>3, <2>6, <2>7, <3>3, <3>4 DEF Found
  <2>8. CASE new_id # Self
    <3>1. PICK w \in DOMAIN d.links \ {Self} :
            /\ result[new_id].next_hop = BackAddress(d, w)
            /\ \E b \in LinkCosts(d, Self, w) : b + Within(d, w)[k][new_id] <= result[new_id].metric
      BY <2>4, <2>8 DEF Found
    <3>2. PICK b \in LinkCosts(d, Self, w) : b + Within(d, w)[k][new_id] <= result[new_id].metric
      BY <3>1
    <3>3. b \in Nat
      BY <1>1, CostsType
    <3>4. b + Within(d, w)[k + 1][v] <= Relaxed[v].metric
      BY <2>1, <2>3, <2>4, <2>5, <3>2, <3>3
    <3>5. Relaxed[v].next_hop = BackAddress(d, w)
      BY <2>1, <2>8, <3>1 DEF NextHop
    <3> QED
      BY <2>6, <3>4, <3>5 DEF Found
  <2> QED
    BY <2>7, <2>8
<1> QED
  BY <1>5, <1>6

\* Every step keeps what was found, and an iteration adds its router to it.
LEMMA AllFoundStep ==
  ASSUME Typed, Ordered, TopologyKept, Split, Entering, AllFound, [Next]_vars
  PROVE  AllFound'
<1> DEFINE d == Head(todo)
<1>1. CASE BuildTopology
  <2> SUFFICES ASSUME (pc = "search" /\ Counted)'
               PROVE  /\ \A v \in DOMAIN result' \ {0} : Found(d, v, result'[v], Count')
                      /\ \A v \in DOMAIN pending' : ~ (pending'[v].metric < INF)
    BY <1>1 DEF BuildTopology, AllFound
  <2>1. /\ result' = [v \in {Self} |-> [metric |-> 0, next_hop |-> Zero]] /\ todo' = todo
        /\ \A v \in DOMAIN pending' : pending'[v].metric = INF
    BY <1>1 DEF BuildTopology
  <2>2. d \in Databases /\ Self \in DOMAIN d.links /\ Self # 0 /\ INF \in Nat
    BY <1>1, <2>1, RoutingAssumption DEF BuildTopology, Typed, TypeOK, Counted
  <2>3. DOMAIN result' \ {0} = {Self}
    BY <2>1, <2>2
  <2>4. Cardinality({Self}) = 1
    BY FS_Singleton
  <2>5. Count' = 0
    BY <2>3, <2>4 DEF Count
  <2>6. Within(d, Self)[0][Self] = 0
    BY <2>2, WithinStart
  <2> QED
    BY <2>1, <2>2, <2>3, <2>5, <2>6 DEF Found
<1>2. ASSUME Searching, Counted
      PROVE  /\ d \in Databases /\ Self \in DOMAIN d.links /\ Self \in DOMAIN result /\ pc = "search"
             /\ IsFiniteSet(DOMAIN result \ {0}) /\ Count \in Nat
             /\ \A v \in DOMAIN result \ {0} : v \in DOMAIN d.links /\ result[v] \in Paths
             /\ \A v \in DOMAIN result \ {0} : Found(d, v, result[v], Count)
  <2>1. /\ d \in Databases /\ Self \in DOMAIN d.links /\ Self \in DOMAIN result /\ pc = "search"
    BY <1>2, SearchInside DEF Searching, Ordered
  <2>2. \A v \in DOMAIN result \ {0} : v \in DOMAIN d.links /\ result[v] \in Paths
    BY <2>1 DEF Split, Typed, TypeOK, IsMap
  <2>3. \A v \in DOMAIN result \ {0} : Found(d, v, result[v], Count)
    BY <1>2, <2>1 DEF AllFound
  <2> QED
    BY <2>1, <2>2, <2>3, CountIs
<1>3. ASSUME NEW v \in Ids, Settle(v)
      PROVE  AllFound'
  <2>1. /\ Searching /\ v \in DOMAIN pending /\ DOMAIN Relaxed = DOMAIN pending
        /\ Relaxed[v].metric < INF /\ pc = "search" /\ todo' = todo
        /\ result' = Put(result, v, Relaxed[v]) /\ pending' = Without(Relaxed, v)
    BY <1>3 DEF Settle, Nearest, Relaxed, Searching
  <2> SUFFICES ASSUME Counted
               PROVE  /\ \A u \in DOMAIN result' \ {0} : Found(d, u, result'[u], Count')
                      /\ \A u \in DOMAIN pending' :
                           pending'[u].metric < INF => Found(d, u, pending'[u], Count')
    BY <2>1 DEF AllFound, Counted
  <2>2. v \notin DOMAIN result /\ v # 0
    BY <2>1, RoutingAssumption DEF Ordered, Typed, TypeOK, IsMap
  <2>3. DOMAIN result' \ {0} = (DOMAIN result \ {0}) \cup {v}
    BY <2>1, <2>2 DEF Put
  <2>4. Count' = Count + 1 /\ Count \in Nat /\ Count <= Count + 1
    <3> DEFINE R == DOMAIN result \ {0}
    <3>1. IsFiniteSet(R) /\ v \notin R /\ Count \in Nat
      BY <1>2, <2>1, <2>2
    <3>2. Cardinality(R \cup {v}) = Cardinality(R) + 1 /\ Cardinality(R) \in Nat
      BY <3>1, FS_AddElement, FS_CardinalityType
    <3> QED
      BY <2>3, <3>1, <3>2 DEF Count
  <2>5. ASSUME NEW u \in DOMAIN result \ {0}
        PROVE  Found(d, u, result[u], Count + 1) /\ result'[u] = result[u]
    <3>1. result'[u] = result[u]
      BY <2>1, <2>2 DEF Put
    <3>2. /\ d \in Databases /\ Self \in DOMAIN d.links /\ u \in DOMAIN d.links
          /\ result[u] \in Paths /\ Found(d, u, result[u], Count)
      BY <1>2, <2>1
    <3>3. Found(d, u, result[u], Count + 1)
      <4> HIDE DEF d
      <4> DEFINE k == Count
      <4>1. k \in Nat /\ k + 1 \in Nat /\ k <= k + 1
        BY <2>4
      <4> HIDE DEF k
      <4> QED
        BY <3>2, <4>1, FoundMore DEF k
    <3> QED
      BY <3>1, <3>3
  <2>6. ASSUME NEW u \in DOMAIN pending, Relaxed[u].metric < INF
        PROVE  Found(d, u, Relaxed[u], Count + 1)
    BY <2>1, <2>6, FoundRelaxed
  <2>7. result'[v] = Relaxed[v]
    BY <2>1 DEF Put
  <2>8. \A u \in DOMAIN pending' : u \in DOMAIN pending /\ pending'[u] = Relaxed[u]
    BY <2>1 DEF Without
  <2> HIDE DEF d
  <2> QED
    BY <2>1, <2>3, <2>4, <2>5, <2>6, <2>7, <2>8
<1>4. CASE SettleNone
  <2>1. /\ Searching /\ Nearest(Relaxed) = {} /\ pending' = Relaxed /\ DOMAIN Relaxed = DOMAIN pending
        /\ result' = Put(result, 0, [metric |-> INF, next_hop |-> Zero]) /\ todo' = todo
    BY <1>4 DEF SettleNone, Searching, Relaxed
  <2> SUFFICES ASSUME Counted
               PROVE  /\ \A u \in DOMAIN result' \ {0} : Found(d, u, result'[u], Count')
                      /\ \A u \in DOMAIN pending' : ~ (pending'[u].metric < INF)
    BY <2>1 DEF AllFound, Counted
  <2>2. DOMAIN result' \ {0} = DOMAIN result \ {0} /\ \A u \in DOMAIN result \ {0} : result'[u] = result[u]
    BY <2>1 DEF Put
  <2>3. Count' = Count
    BY <2>2 DEF Count
  <2>4. ASSUME NEW u \in DOMAIN pending'
        PROVE  ~ (pending'[u].metric < INF)
    <3>1. INF <= Relaxed[u].metric /\ Relaxed[u].metric \in Nat
      BY <2>1, NearestExists, RelaxedMetric
    <3> QED
      BY <2>1, <3>1, RoutingAssumption
  <2>5. \A u \in DOMAIN result \ {0} : Found(d, u, result[u], Count)
    BY <1>2, <2>1
  <2> HIDE DEF d
  <2> QED
    BY <2>2, <2>3, <2>4, <2>5
<1>5. CASE \/ SearchEnds \/ Crash \/ GenRouting \/ ResetRoute \/ Remember \/ UpdateEnds
  BY <1>5 DEF SearchEnds, Crash, GenRouting, ResetRoute, StartReset, Undo, Forget, Remember,
              UpdateEnds, AllFound
<1>6. CASE \/ Destroy \/ Close \/ Administrator \/ UNCHANGED vars
           \/ \E n \in Nets \cup {NoNet} : AddRoute(n) \/ RouteRefused(n)
  BY <1>6 DEF Destroy, StartDestroy, DestroyUndo, DestroyForget, Close, Administrator, vars,
              AddRoute, RouteRefused, AllFound, Counted,
              Count, search
<1> QED
  BY <1>1, <1>3, <1>4, <1>5, <1>6 DEF Next, ThreadStep

\* What the search knows when it ends.
Ended == pc = "search" /\ Counted /\ (DOMAIN pending = {} \/ DOMAIN Adj(new_id) = {})

\* The metrics of the settled routers and, for the others, the one the search
\* had come to.
Bound ==
  [v \in DOMAIN Head(todo).links |->
     IF v \in DOMAIN result THEN result[v].metric
     ELSE IF new_id \in {0, Self} THEN INF ELSE result[new_id].metric]

\* With a link there is an edge, which costs as much: in the database,
LEMMA CostIs ==
  ASSUME NEW d \in Databases, ~Dangling(d), NoParallelLinks(d),
         NEW u \in DOMAIN d.links, NEW v, NEW c \in LinkCosts(d, u, v)
  PROVE  v \in DOMAIN Adjacencies(d, u) /\ Adjacencies(d, u)[v].cost = c
<1>1. PICK i \in Leading(d, u, v) : c = d.links[u][i].cost
  BY DEF LinkCosts
<1>2. i = LinkTo(d, u, v)
  BY OneLink
<1>3. v \in DOMAIN Adjacencies(d, u)
  BY <1>1, EdgesAre
<1>4. Adjacencies(d, u)[v].cost = d.links[u][LinkTo(d, u, v)].cost
  BY <1>3, EdgeCost
<1> QED
  BY <1>1, <1>2, <1>3, <1>4

\* and in the graph.
LEMMA LinkIsEdge ==
  ASSUME Typed, TopologyKept, Counted, pc \in {"search", "generate"},
         NEW u \in DOMAIN Head(todo).links, NEW v, NEW c \in LinkCosts(Head(todo), u, v)
  PROVE  u \in DOMAIN topo /\ v \in DOMAIN topo[u] /\ topo[u][v].cost = c
<1>1. /\ Head(todo) \in Databases /\ ~Dangling(Head(todo)) /\ NoParallelLinks(Head(todo))
      /\ u \in DOMAIN topo
  BY DEF Typed, TypeOK, TopologyKept, Counted
<1>2. v \in DOMAIN Adjacencies(Head(todo), u) /\ Adjacencies(Head(todo), u)[v].cost = c
  BY <1>1, CostIs
<1>3. v \in DOMAIN topo[u] /\ topo[u][v] = Adjacencies(Head(todo), u)[v]
  BY <1>1, <1>2 DEF TopologyKept
<1> QED
  BY <1>1, <1>2, <1>3

\* No link exceeds these numbers by more than its cost.
LEMMA BoundFeasible ==
  ASSUME Typed, Ordered, PathsFeasible, TopologyKept, Split, Entering, Ended
  PROVE  Feasible(Head(todo), Bound)
<1> DEFINE d == Head(todo)
           V == DOMAIN d.links
<1>1. /\ d \in Databases /\ Self \in V /\ pc = "search" /\ new_id \in DOMAIN result
      /\ INF \in Nat
      /\ \A v \in DOMAIN result : result[v].metric \in Nat /\ result[v].metric <= result[new_id].metric
                                  /\ result[v].metric <= INF
  BY RoutingAssumption DEF Ended, Counted, Ordered, Typed, TypeOK, IsMap, Paths
<1>2. \A v \in V : Bound[v] = IF v \in DOMAIN result THEN result[v].metric
                              ELSE IF new_id \in {0, Self} THEN INF ELSE result[new_id].metric
  BY DEF Bound
<1>3. \A v \in V : Bound[v] \in Nat /\ Bound[v] <= INF
  BY <1>1, <1>2
<1>4. Bound \in [V -> Nat]
  BY <1>3 DEF Bound
<1>5. ASSUME NEW u \in V, NEW v \in V, NEW c \in LinkCosts(d, u, v)
      PROVE  Bound[v] <= Bound[u] + c
  <2>1. u \in DOMAIN topo /\ v \in DOMAIN topo[u] /\ topo[u][v].cost = c /\ c \in Nat
    BY <1>1, LinkIsEdge, CostsType DEF Ended
  <2>2. CASE u \in DOMAIN result /\ v \in DOMAIN result
    <3>1. result[v].metric <= Reached(u, v)
      BY <1>1, <2>1, <2>2 DEF PathsFeasible
    <3> QED
      BY <1>2, <2>1, <2>2, <3>1 DEF Reached
  <2>3. CASE u \in DOMAIN result /\ v \notin DOMAIN result
    <3>1. v \in DOMAIN pending /\ pending[v].metric \in Nat
      BY <1>1, <2>3 DEF Split, Typed, TypeOK, IsMap, Paths
    <3>2. DOMAIN Adj(new_id) = {}
      BY <3>1 DEF Ended
    <3>3. u # new_id
      BY <2>1, <3>2 DEF Adj
    <3>4. pending[v].metric <= result[u].metric + c
      BY <1>1, <2>1, <2>3, <3>1, <3>3 DEF PathsFeasible, Reached
    <3>5. Bound[v] <= pending[v].metric
      <4>1. CASE new_id \in {0, Self}
        BY <1>1, <1>2, <2>3, <3>1, <4>1 DEF Entering
      <4>2. CASE new_id \notin {0, Self}
        BY <1>1, <1>2, <2>3, <3>1, <4>2 DEF Ordered
      <4> QED
        BY <4>1, <4>2
    <3> QED
      BY <1>1, <1>2, <1>3, <2>1, <2>3, <3>1, <3>4, <3>5
  <2>4. CASE u \notin DOMAIN result /\ v \in DOMAIN result
    <3>1. Bound[v] <= Bound[u]
      BY <1>1, <1>2, <2>4
    <3> QED
      BY <1>3, <2>1, <3>1
  <2>5. CASE u \notin DOMAIN result /\ v \notin DOMAIN result
    <3>1. Bound[v] = Bound[u]
      BY <1>2, <2>5
    <3> QED
      BY <1>3, <2>1, <3>1
  <2> QED
    BY <2>2, <2>3, <2>4, <2>5
<1> QED
  BY <1>3, <1>4, <1>5 DEF Feasible

\* So when the search ends, metrics are distances, and only a dead end keeps it
\* from a router that can be reached.
LEMMA EndsExact ==
  ASSUME Typed, Ordered, PathsFeasible, TopologyKept, Split, Entering, AllFound, Ended
  PROVE  /\ \A v \in DOMAIN result \ {0} :
              result[v].metric = Distances(Head(todo), Self)[v]
         /\ DeadEnd(Head(todo)) \/ \A v \in DOMAIN Head(todo).links :
              Distances(Head(todo), Self)[v] < INF => v \in DOMAIN result
<1> DEFINE d == Head(todo)
           V == DOMAIN d.links
           K == Cardinality(V) - 1
<1>1. /\ d \in Databases /\ Self \in V /\ pc = "search" /\ Self \in DOMAIN result
      /\ new_id \in DOMAIN result /\ ~Dangling(d)
  BY DEF Ended, Counted, Ordered, Typed, TypeOK, TopologyKept
<1>2. Count \in Nat /\ K \in Nat /\ Count <= K
  BY <1>1, CountIs
<1>3. Distances(d, Self) = Within(d, Self)[K]
  BY DEF Distances
<1>4. \A v \in V : Bound[v] \in Nat /\ Bound[v] <= Within(d, Self)[K][v]
  <2>1. Feasible(d, Bound)
    BY BoundFeasible
  <2>2. Bound[Self] = 0
    BY <1>1 DEF Bound, Ordered
  <2>3. \A v \in V : Bound[v] \in Nat
    BY <2>1 DEF Feasible
  <2>4. ASSUME NEW v \in V
        PROVE  Bound[v] <= Bound[Self] + Within(d, Self)[K][v] /\ Within(d, Self)[K][v] \in Nat
    <3>1. Bound[Self] \in Nat /\ Bound[Self] <= Bound[Self] /\ v \in DOMAIN d.links
      BY <1>1, <2>3
    <3> HIDE DEF d, K
    <3>2. Bound[v] <= Bound[Self] + Within(d, Self)[K][v]
      BY <1>1, <1>2, <2>1, <3>1, WithinAbove
    <3> QED
      BY <1>1, <1>2, <3>1, <3>2, WithinStep
  <2> QED
    BY <2>2, <2>3, <2>4
<1>5. ASSUME NEW v \in DOMAIN result \ {0}
      PROVE  result[v].metric = Distances(d, Self)[v]
  <2>1. v \in V /\ result[v] \in Paths /\ Bound[v] = result[v].metric
    BY <1>1 DEF Split, Typed, TypeOK, IsMap, Bound
  <2>2. Found(d, v, result[v], Count)
    BY <1>1 DEF AllFound, Ended
  <2>3. Found(d, v, result[v], K)
    <3> HIDE DEF d, K
    <3> QED
      BY <1>1, <1>2, <2>1, <2>2, FoundMore DEF d
  <2>4. Within(d, Self)[K][v] <= result[v].metric
    BY <2>3 DEF Found
  <2>5. result[v].metric <= Within(d, Self)[K][v]
    BY <1>4, <2>1
  <2>6. Within(d, Self)[K][v] \in Nat /\ result[v].metric \in Nat
    <3>1. Within(d, Self)[K][v] \in Nat
      <4> HIDE DEF d, K
      <4> QED
        BY <1>1, <1>2, <2>1, WithinStep DEF d
    <3> QED
      BY <2>1, <3>1 DEF Paths
  <2> QED
    BY <1>3, <2>4, <2>5, <2>6
<1>6. ASSUME NEW v \in V, Distances(d, Self)[v] < INF, v \notin DOMAIN result
      PROVE  DeadEnd(d)
  <2>1. DOMAIN Adj(new_id) = {}
    BY <1>1, <1>6 DEF Ended, Split
  <2>2. new_id \notin {0, Self}
    <3>1. new_id \in {0, Self} => Bound[v] = INF
      BY <1>6 DEF Bound
    <3>2. Within(d, Self)[K][v] \in Nat
      <4> HIDE DEF d, K
      <4> QED
        BY <1>1, <1>2, <1>6, WithinStep DEF d
    <3> QED
      BY <1>3, <1>4, <1>6, <3>1, <3>2, RoutingAssumption
  <2>3. new_id \in V /\ new_id \in DOMAIN topo /\ DOMAIN topo[new_id] = {}
    BY <1>1, <2>1, <2>2 DEF Split, TopologyKept, Adj
  <2>4. PICK u \in V \ {Self} : Leading(d, u, new_id) # {}
    BY <1>1, <2>2, <2>3 DEF Entering, Entered
  <2>5. ASSUME NEW w \in Ids PROVE Leading(d, new_id, w) = {}
    <3>1. w \notin DOMAIN Adjacencies(d, new_id)
      BY <1>1, <2>3 DEF TopologyKept
    <3> QED
      BY <1>1, <2>3, <3>1, EdgesAre
  <2> QED
    BY <2>2, <2>3, <2>4, <2>5 DEF DeadEnd
<1> QED
  BY <1>5, <1>6

\* And next hops belong to neighbours on shortest paths.
LEMMA EndsLeading ==
  ASSUME Typed, Ordered, PathsFeasible, TopologyKept, Split, Entering, AllFound, Ended,
         NEW v \in DOMAIN result \ {Self, 0}
  PROVE  \E w \in DOMAIN Head(todo).links \ {Self} :
           /\ result[v].next_hop = BackAddress(Head(todo), w)
           /\ \E c \in LinkCosts(Head(todo), Self, w) :
                c + Distances(Head(todo), w)[v] = Distances(Head(todo), Self)[v]
<1> DEFINE d == Head(todo)
           V == DOMAIN d.links
           K == Cardinality(V) - 1
<1>1. /\ d \in Databases /\ Self \in V /\ pc = "search" /\ Self \in DOMAIN result
  BY DEF Ended, Counted, Ordered, Typed, TypeOK
<1>2. Count \in Nat /\ K \in Nat /\ Count <= K
  BY <1>1, CountIs
<1>3. v \in V /\ result[v] \in Paths /\ Bound[v] = result[v].metric
  BY <1>1 DEF Split, Typed, TypeOK, IsMap, Bound
<1>4. Found(d, v, result[v], K)
  <2>1. Found(d, v, result[v], Count)
    BY <1>1 DEF AllFound, Ended
  <2> HIDE DEF d, K
  <2> QED
    BY <1>1, <1>2, <1>3, <2>1, FoundMore DEF d
<1>5. PICK w \in V \ {Self} :
        /\ result[v].next_hop = BackAddress(d, w)
        /\ \E c \in LinkCosts(d, Self, w) : c + Within(d, w)[K][v] <= result[v].metric
  BY <1>4 DEF Found
<1>6. PICK c \in LinkCosts(d, Self, w) : c + Within(d, w)[K][v] <= result[v].metric
  BY <1>5
<1>7. c \in Nat /\ result[v].metric \in Nat
  BY <1>1, <1>3, CostsType DEF Paths
<1>8. /\ Bound[v] <= Bound[w] + Within(d, w)[K][v] /\ Within(d, w)[K][v] \in Nat
      /\ Bound[w] <= c /\ Bound[w] \in Nat
  <2>1. Feasible(d, Bound)
    BY BoundFeasible
  <2>2. Bound[Self] = 0
    BY <1>1 DEF Bound, Ordered
  <2>3. Bound[w] <= Bound[Self] + c /\ Bound[w] \in Nat
    BY <1>1, <1>5, <2>1 DEF Feasible
  <2>4. Bound[v] <= Bound[w] + Within(d, w)[K][v] /\ Within(d, w)[K][v] \in Nat
    <3> HIDE DEF d, K
    <3> QED
      BY <1>1, <1>2, <1>3, <1>5, <2>1, <2>3, WithinAbove, WithinStep DEF d
  <2> QED
    BY <1>7, <2>2, <2>3, <2>4
<1>9. c + Within(d, w)[K][v] = result[v].metric
  BY <1>3, <1>6, <1>7, <1>8
<1>10. Distances(d, w) = Within(d, w)[K]
  BY DEF Distances
<1>11. result[v].metric = Distances(d, Self)[v]
  BY EndsExact
<1> QED
  BY <1>5, <1>9, <1>10, <1>11

\* Both hold until the routes are made.
LEMMA ExactStep ==
  ASSUME Typed, Ordered, PathsFeasible, TopologyKept, Split, Entering, AllFound,
         SettledExact, NextHopLeads, [Next]_vars
  PROVE  SettledExact' /\ NextHopLeads'
<1>1. CASE BuildTopology
  BY <1>1 DEF BuildTopology, SettledExact, NextHopLeads, SearchedOwn
<1>2. CASE SettleNone \/ \E v \in Ids : Settle(v)
  BY <1>2 DEF SettleNone, Settle, Searching, SettledExact, NextHopLeads, SearchedOwn
<1>3. CASE SearchEnds
  <2>1. UNCHANGED <<todo, result, pending, new_id>> /\ pc = "search"
        /\ (DOMAIN pending = {} \/ DOMAIN Adj(new_id) = {})
    BY <1>3 DEF SearchEnds, search
  <2>2. SearchedOwn' => Ended
    BY <2>1 DEF SearchedOwn, Ended, Counted
  <2>3. SettledExact'
    BY <2>1, <2>2, EndsExact DEF SettledExact
  <2>4. NextHopLeads'
    <3> DEFINE d == Head(todo)
               dist == [w \in DOMAIN d.links |-> Distances(d, w)]
    <3>1. Head(todo') = d /\ result' = result
      BY <2>1
    <3>2. ASSUME SearchedOwn', NEW v \in DOMAIN result \ {Self, 0}
          PROVE  \E w \in DOMAIN d.links \ {Self} :
                   /\ result[v].next_hop = BackAddress(d, w)
                   /\ \E c \in LinkCosts(d, Self, w) : c + dist[w][v] = dist[Self][v]
      <4>1. Ended /\ Self \in DOMAIN d.links
        BY <2>2, <3>2 DEF Ended, Counted
      <4>2. PICK w \in DOMAIN d.links \ {Self} :
              /\ result[v].next_hop = BackAddress(d, w)
              /\ \E c \in LinkCosts(d, Self, w) : c + Distances(d, w)[v] = Distances(d, Self)[v]
        BY <4>1, EndsLeading
      <4>3. dist[w] = Distances(d, w) /\ dist[Self] = Distances(d, Self)
        BY <4>1
      <4> QED
        BY <4>2, <4>3
    <3> HIDE DEF d
    <3> QED
      BY <3>1, <3>2 DEF NextHopLeads
  <2> QED
    BY <2>3, <2>4
<1>4. CASE Crash \/ GenRouting \/ ResetRoute \/ Remember \/ UpdateEnds
  BY <1>4 DEF Crash, GenRouting, ResetRoute, StartReset, Undo, Forget, Remember, UpdateEnds,
              SettledExact, NextHopLeads,
              SearchedOwn
<1>5. CASE \/ Destroy \/ Close \/ Administrator \/ UNCHANGED vars
           \/ \E n \in Nets \cup {NoNet} : AddRoute(n) \/ RouteRefused(n)
  BY <1>5 DEF Destroy, StartDestroy, DestroyUndo, DestroyForget, Close, Administrator, vars,
              AddRoute, RouteRefused, SettledExact,
              NextHopLeads, SearchedOwn, search
<1> QED
  BY <1>1, <1>2, <1>3, <1>4, <1>5 DEF Next, ThreadStep

\* The search, with all it relies on.
SearchInv ==
  /\ Typed /\ Ordered /\ PathsFeasible /\ TopologyKept /\ Split /\ Entering /\ AllFound
  /\ SettledExact /\ NextHopLeads

\* It is an invariant: each part holds with those that its lemma cites.
LEMMA SearchAlways == Spec => []SearchInv
<1>1. Init => SearchInv
  <2> SUFFICES ASSUME Init PROVE SearchInv
    OBVIOUS
  <2>1. pc = "idle"
    BY DEF Init
  <2> QED
    BY <2>1, TypedInit DEF SearchInv, Ordered, PathsFeasible, TopologyKept, Split, Entering,
                           AllFound,
                           SettledExact, NextHopLeads, SearchedOwn
<1>2. SearchInv /\ [Next]_vars => SearchInv'
  BY TypedStep, OrderedStep, FeasibleStep, TopologyKeptStep, SplitStep, EnteringStep, AllFoundStep,
     ExactStep DEF SearchInv
<1> QED
  BY <1>1, <1>2, PTL DEF Spec

\* The metrics of a search are the distances in the database, on every
\* topology without parallel links, and it misses a router that can be reached
\* only if it ended early at a dead end.
THEOREM MetricsAreDistances == Spec => []SettledExact
<1>1. SearchInv => SettledExact
  BY DEF SearchInv
<1> QED
  BY SearchAlways, <1>1, PTL

\* Every next hop is the address of a neighbour that a shortest path goes
\* through, or 0.0.0.0 if this neighbour has no link back.
THEOREM NextHopsLead == Spec => []NextHopLeads
<1>1. SearchInv => NextHopLeads
  BY DEF SearchInv
<1> QED
  BY SearchAlways, <1>1, PTL

-----------------------------------------------------------------------------
(* Routes are shortest                                                     *)

\* From a vertex without an LSA nothing is reached.
LEMMA Unreached ==
  ASSUME NEW d \in Databases, NEW s, s \notin DOMAIN d.links, NEW v \in DOMAIN d.links
  PROVE  ~ (Distances(d, s)[v] < INF)
<1> DEFINE D == [u \in DOMAIN d.links |-> INF]
           K == Cardinality(DOMAIN d.links) - 1
<1>1. INF \in Nat
  BY RoutingAssumption
<1>2. Feasible(d, D)
  <2>1. \A u, w \in DOMAIN d.links : \A c \in LinkCosts(d, u, w) : D[w] <= D[u] + c
    BY <1>1, CostsType
  <2> QED
    BY <1>1, <2>1 DEF Feasible
<1>3. K \in Nat
  <2>1. IsFiniteSet(DOMAIN d.links)
    BY RoutingAssumption DEF IsDatabase
  <2>2. Cardinality(DOMAIN d.links) \in Nat /\ Cardinality(DOMAIN d.links) # 0
    BY <2>1, FS_CardinalityType, FS_EmptySet
  <2> QED
    BY <2>2
<1>4. D[v] = INF
  OBVIOUS
<1>5. D[v] <= 0 + Within(d, s)[K][v] /\ Within(d, s)[K][v] \in Nat
  <2> HIDE DEF D, K
  <2> QED
    BY <1>2, <1>3, WithinAbove, WithinStep
<1> QED
  BY <1>1, <1>4, <1>5 DEF Distances

\* The routes to a network lead over the settled routers that have a link to it.
LEMMA ExitsAre ==
  ASSUME Typed, TopologyKept, Split, pc = "generate", NoParallelLinks(Head(todo)), NEW n \in Nets
  PROVE  /\ Self \in DOMAIN Head(todo).links =>
              Exits(n) = {v \in DOMAIN result \ {Self, 0} : OnNet(Head(todo), v, n)}
         /\ Self \notin DOMAIN Head(todo).links => Exits(n) = {}
<1> DEFINE d == Head(todo)
           V == DOMAIN d.links
<1>1. /\ d \in Databases /\ ~Dangling(d) /\ V \subseteq DOMAIN topo /\ V \subseteq Ids
      /\ Zero.net \notin Nets
  BY RoutingAssumption DEF Typed, TypeOK, TopologyKept, IsDatabase, IsMap, Zero
<1>2. ASSUME NEW v, NEW e \in DOMAIN Adj(v), Adj(v)[e].src.net = n
      PROVE  v \in V /\ OnNet(d, v, n)
  <2>1. v \in DOMAIN topo /\ Adj(v) = topo[v]
    BY <1>2 DEF Adj, Empty
  <2>2. v \in V /\ e \in DOMAIN Adjacencies(d, v) /\ topo[v][e] = Adjacencies(d, v)[e]
    BY <1>1, <1>2, <2>1 DEF TopologyKept
  <2> DEFINE i == LinkTo(d, v, e)
  <2>3. i \in Leading(d, v, e) /\ Adjacencies(d, v)[e].src.net = d.links[v][i].net
    <3>1. /\ v \in DOMAIN d.links /\ d \in Databases /\ ~Dangling(d)
          /\ e \in DOMAIN Adjacencies(d, v)
      BY <1>1, <2>2
    <3> HIDE DEF d
    <3> QED
      BY <3>1, EdgeLeads, EdgeNet
  <2>4. i \in DOMAIN d.links[v] /\ e \in Ends(d, v, i) /\ d.links[v][i].net = n
    BY <1>2, <2>1, <2>2, <2>3 DEF Leading
  <2> QED
    BY <2>2, <2>4 DEF OnNet
<1>3. ASSUME NEW v \in V, OnNet(d, v, n)
      PROVE  \E e \in DOMAIN Adj(v) : Adj(v)[e].src.net = n
  <2>1. PICK i \in DOMAIN d.links[v] : d.links[v][i].net = n /\ Ends(d, v, i) # {}
    BY <1>3 DEF OnNet
  <2>2. PICK e : e \in Ends(d, v, i)
    BY <2>1
  <2>3. i \in Leading(d, v, e)
    BY <2>2 DEF Leading
  <2>4. i = LinkTo(d, v, e)
    BY <1>1, <2>3, OneLink
  <2>5. /\ e \in DOMAIN Adjacencies(d, v)
        /\ Adjacencies(d, v)[e].src.net = d.links[v][LinkTo(d, v, e)].net
    <3>1. Leading(d, v, e) # {}
      BY <2>3
    <3>2. e \in DOMAIN Adjacencies(d, v)
      BY <1>1, <3>1, EdgesAre
    <3>3. v \in DOMAIN d.links /\ d \in Databases /\ ~Dangling(d)
      BY <1>1
    <3> HIDE DEF d
    <3> QED
      BY <3>2, <3>3, EdgeNet
  <2>6. Adj(v) = topo[v] /\ e \in DOMAIN topo[v] /\ topo[v][e] = Adjacencies(d, v)[e]
    BY <1>1, <2>5 DEF TopologyKept, Adj
  <2> QED
    BY <2>1, <2>4, <2>5, <2>6
<1>4. ASSUME Self \in V
      PROVE  Exits(n) = {v \in DOMAIN result \ {Self, 0} : OnNet(d, v, n)}
  <2>1. DOMAIN result \ {0} \subseteq V /\ 0 \notin V
    BY <1>1, <1>4, RoutingAssumption DEF Split
  <2> QED
    BY <1>2, <1>3, <2>1 DEF Exits
<1>5. ASSUME Self \notin V
      PROVE  Exits(n) = {}
  <2>1. ASSUME NEW v \in Exits(n) PROVE FALSE
    <3>1. v \in DOMAIN result \ {Self} /\ v \in V
      BY <1>2 DEF Exits
    <3> QED
      BY <1>5, <3>1 DEF Split
  <2> QED
    BY <2>1
<1> QED
  BY <1>4, <1>5

\* The address 0.0.0.0 is only on the edges that the search adds.
LEMMA ExitsToHost ==
  ASSUME Typed, TopologyKept, pc = "generate", Exits(NoNet) # {}
  PROVE  \E w \in DOMAIN Head(todo).links :
           Leading(Head(todo), Self, w) # {} /\ Leading(Head(todo), w, Self) = {}
<1> DEFINE d == Head(todo)
<1>1. d \in Databases /\ ~Dangling(d)
  BY DEF Typed, TypeOK, TopologyKept
<1>2. PICK v \in Exits(NoNet) : TRUE
  OBVIOUS
<1>3. PICK e \in DOMAIN Adj(v) : Adj(v)[e].src.net = NoNet
  BY <1>2 DEF Exits
<1>4. v \in DOMAIN topo /\ Adj(v) = topo[v]
  BY <1>3 DEF Adj, Empty
<1>5. v \in DOMAIN d.links
  BY <1>3, <1>4 DEF TopologyKept
<1>6. ASSUME e \in DOMAIN Adjacencies(d, v) PROVE FALSE
  <2>1. topo[v][e] = Adjacencies(d, v)[e]
    BY <1>5, <1>6 DEF TopologyKept
  <2>2. /\ LinkTo(d, v, e) \in DOMAIN d.links[v]
        /\ Adjacencies(d, v)[e].src.net = d.links[v][LinkTo(d, v, e)].net
    <3> HIDE DEF d
    <3> QED
      BY <1>1, <1>5, <1>6, EdgeLeads, EdgeNet
  <2>3. d.links[v] \in Seq(Links)
    BY <1>1, <1>5, RoutingAssumption DEF IsDatabase, IsMap
  <2>4. d.links[v][LinkTo(d, v, e)] \in Links
    BY <2>2, <2>3
  <2>5. d.links[v][LinkTo(d, v, e)].net \in Nets
    BY <2>4 DEF Links
  <2> QED
    BY <1>3, <1>4, <2>1, <2>2, <2>5, RoutingAssumption
<1> QED
  BY <1>3, <1>4, <1>5, <1>6 DEF TopologyKept

\* The routes that the exits give are those that the distances ask for.
LEMMA RoutesAre ==
  ASSUME Typed, TopologyKept, Split, SettledExact, pc = "generate",
         NoParallelLinks(Head(todo)), ~DeadEnd(Head(todo)), NEW n \in Nets,
         NEW near, near = {Distances(Head(todo), Self)[v] :
                             v \in {v \in DOMAIN Head(todo).links \ {Self} :
                                      /\ Distances(Head(todo), Self)[v] < INF
                                      /\ OnNet(Head(todo), v, n)}}
  PROVE  /\ near # {} <=> Exits(n) # {}
         /\ Exits(n) # {} => result[ExitOf(n)].metric = Least(near)
<1> DEFINE d == Head(todo)
           V == DOMAIN d.links
           dist == Distances(d, Self)
<1>1. d \in Databases
  BY DEF Typed, TypeOK
<1>2. CASE Self \notin V
  <2>1. near = {}
    <3>1. \A v \in V : ~ (dist[v] < INF)
      BY <1>1, <1>2, Unreached
    <3> QED
      BY <3>1
  <2> QED
    BY <1>2, <2>1, ExitsAre
<1>3. CASE Self \in V
  <2>1. /\ \A v \in DOMAIN result \ {0} : result[v].metric = dist[v] /\ v \in V /\ dist[v] < INF
        /\ \A v \in V : dist[v] < INF => v \in DOMAIN result
        /\ 0 \notin V
    <3>1. SearchedOwn
      BY <1>3 DEF SearchedOwn
    <3>2. /\ \A v \in DOMAIN result \ {0} : result[v].metric = dist[v]
          /\ \A v \in V : dist[v] < INF => v \in DOMAIN result
      BY <3>1 DEF SettledExact
    <3>3. \A v \in DOMAIN result \ {0} : v \in V /\ result[v].metric < INF
      BY <1>3 DEF Split
    <3>4. 0 \notin V
      BY <1>1, RoutingAssumption DEF IsDatabase, IsMap
    <3> QED
      BY <3>2, <3>3, <3>4
  <2>2. Exits(n) = {v \in DOMAIN result \ {Self, 0} : OnNet(d, v, n)}
    BY <1>3, ExitsAre
  <2> HIDE DEF d, dist
  <2>3. Exits(n) = {v \in V \ {Self} : dist[v] < INF /\ OnNet(d, v, n)}
    BY <2>1, <2>2
  <2>4. near = {result[v].metric : v \in Exits(n)}
    BY <2>1, <2>2, <2>3 DEF d, dist
  <2>5. ASSUME Exits(n) # {}
        PROVE  result[ExitOf(n)].metric = Least(near)
    <3>1. /\ ExitOf(n) \in Exits(n)
          /\ \A v \in Exits(n) : result[ExitOf(n)].metric <= result[v].metric
      BY <2>5, ExitIs
    <3>2. \A v \in Exits(n) : result[v].metric \in Nat
      BY <2>2 DEF Typed, TypeOK, IsMap, Paths
    <3>3. near \subseteq Nat /\ near # {}
      BY <2>4, <2>5, <3>2
    <3>4. Least(near) \in near /\ \A m \in near : Least(near) <= m
      BY <3>3, LeastOf
    <3>5. result[ExitOf(n)].metric \in near /\ \A m \in near : result[ExitOf(n)].metric <= m
      BY <2>4, <3>1
    <3>6. result[ExitOf(n)].metric <= Least(near) /\ Least(near) <= result[ExitOf(n)].metric
      BY <3>4, <3>5
    <3>7. Least(near) \in Nat /\ result[ExitOf(n)].metric \in Nat
      BY <3>1, <3>2, <3>3, <3>4
    <3> QED
      BY <3>6, <3>7
  <2>6. near # {} <=> Exits(n) # {}
    BY <2>4
  <2> QED
    BY <2>5, <2>6
<1> QED
  BY <1>2, <1>3

\* The routes are made at once and stay until they are written.
LEMMA ShortestStep ==
  ASSUME SearchInv, RoutesShortest, [Next]_vars
  PROVE  RoutesShortest'
<1> DEFINE d == Head(todo)
           dist == Distances(d, Self)
           near(n) == {dist[v] : v \in {v \in DOMAIN d.links \ {Self} : dist[v] < INF /\ OnNet(d, v, n)}}
<1>1. CASE GenRouting
  <2>1. /\ pc = "generate" /\ todo' = todo /\ Typed /\ TopologyKept /\ Split /\ SettledExact
        /\ routings' = [n \in {m \in Nets \cup {NoNet} : Exits(m) # {}} |-> result[ExitOf(n)]]
    BY <1>1 DEF GenRouting, SearchInv
  <2>2. ASSUME NoParallelLinks(d), ~DeadEnd(d), NEW n \in Nets
        PROVE  /\ near(n) # {} <=> Exits(n) # {}
               /\ Exits(n) # {} => result[ExitOf(n)].metric = Least(near(n))
    BY <2>1, <2>2, RoutesAre
  <2>3. Exits(NoNet) # {} =>
          \E w \in DOMAIN d.links : Leading(d, Self, w) # {} /\ Leading(d, w, Self) = {}
    BY <2>1, ExitsToHost
  <2>4. /\ \A n \in Nets \cup {NoNet} : n \in DOMAIN routings' <=> Exits(n) # {}
        /\ \A n \in DOMAIN routings' : routings'[n] = result[ExitOf(n)]
    BY <2>1
  <2>5. ASSUME NoParallelLinks(d), ~DeadEnd(d)
        PROVE  /\ \A n \in Nets : near(n) # {} <=> n \in DOMAIN routings'
               /\ \A n \in Nets \cap DOMAIN routings' : routings'[n].metric = Least(near(n))
               /\ NoNet \in DOMAIN routings' =>
                    \E w \in DOMAIN d.links : Leading(d, Self, w) # {} /\ Leading(d, w, Self) = {}
    <3> HIDE DEF near, d
    <3> QED
      BY <2>2, <2>3, <2>4, <2>5
  <2>6. Head(todo') = d
    BY <2>1
  <2> HIDE DEF d
  <2> QED
    BY <2>5, <2>6 DEF RoutesShortest
<1>2. CASE BuildTopology \/ Crash \/ SearchEnds \/ ResetRoute \/ Remember \/ UpdateEnds
  BY <1>2 DEF BuildTopology, Crash, SearchEnds, ResetRoute, StartReset, Undo, Forget, Remember,
              UpdateEnds, RoutesShortest
<1>3. CASE \/ SettleNone \/ \E v \in Ids : Settle(v)
           \/ \E n \in Nets \cup {NoNet} : AddRoute(n) \/ RouteRefused(n)
  BY <1>3 DEF SettleNone, Settle, Searching, AddRoute, RouteRefused, RoutesShortest
<1>4. CASE Destroy \/ Close \/ Administrator \/ UNCHANGED vars
  BY <1>4 DEF Destroy, StartDestroy, DestroyUndo, DestroyForget, Close, Administrator, vars,
              RoutesShortest
<1> QED
  BY <1>1, <1>2, <1>3, <1>4 DEF Next, ThreadStep

\* There is a route to every network of a router that can be reached, and it has
\* the distance of the nearest one, on every topology without parallel links
\* and dead ends.
THEOREM RoutesAreShortest == Spec => []RoutesShortest
<1>1. Init => RoutesShortest
  BY DEF Init, RoutesShortest
<1>2. SearchInv /\ RoutesShortest /\ [Next]_vars => RoutesShortest'
  BY ShortestStep
<1> QED
  BY SearchAlways, <1>1, <1>2, PTL DEF Spec

-----------------------------------------------------------------------------
(* The kernel                                                              *)

\* Only one route at a time is in the kernel and not yet in written. Until the
\* destructor's clear(), what the thread has still to delete is all there is in
\* the kernel, and while it writes the kernel has no other routes than those of
\* this update, and if nothing interferes all of them but the ones that are left.
Writing ==
  /\ alone => main = "running"
  /\ pc # "remember" => adding = {}
  /\ KernelRemembered
  /\ pc = "undo" /\ Remembering => kernel \subseteq undo
  /\ pc \in {"idle", "search", "generate", "add", "remember"} /\ Remembering =>
       /\ kernel \subseteq {Entry(n) : n \in DOMAIN routings}
       /\ alone => kernel = {Entry(n) : n \in DOMAIN routings \ left}

\* Every step keeps that, also the destructor while the thread writes.
LEMMA WritingStep ==
  ASSUME Typed, Writing, [Next]_vars
  PROVE  Writing'
<1> DEFINE AllEntries == {Entry(n) : n \in DOMAIN routings}
           Done == {Entry(n) : n \in DOMAIN routings \ left}
<1>1. CASE BuildTopology \/ Crash \/ SearchEnds
  <2>1. /\ UNCHANGED <<routings, left, adding, written, kernel, alone, main>>
        /\ pc \in {"idle", "search"} /\ pc' \notin {"remember", "undo"}
    BY <1>1 DEF BuildTopology, Crash, SearchEnds, routes, destructor
  <2> QED
    BY <2>1 DEF Writing, KernelRemembered, Remembering, Entry
<1>2. CASE SettleNone \/ \E v \in Ids : Settle(v)
  <2>1. UNCHANGED <<routings, left, adding, written, kernel, alone, pc, undo, main>>
    BY <1>2 DEF SettleNone, Settle, Searching, routes, destructor
  <2> QED
    BY <2>1 DEF Writing, KernelRemembered, Remembering, Entry
<1>3. CASE GenRouting
  BY <1>3 DEF GenRouting, routes, destructor, Writing, KernelRemembered, Remembering
<1>4. CASE ResetRoute
  <2>1. CASE StartReset
    BY <2>1 DEF StartReset, destructor, Writing, KernelRemembered, Remembering
  <2>2. ASSUME NEW r \in undo, Undo(r) PROVE Writing'
    <3>1. /\ pc = "undo" /\ kernel' = kernel \ {r} /\ undo' = undo \ {r}
          /\ UNCHANGED <<pc, adding, written, alone, main>>
      BY <2>2 DEF Undo, Deleted, destructor
    <3> QED
      BY <3>1 DEF Writing, KernelRemembered, Remembering
  <2>3. CASE Forget
    <3>1. /\ pc = "undo" /\ pc' = "add" /\ undo = {} /\ left' = DOMAIN routings'
          /\ UNCHANGED <<adding, kernel, alone, main>>
      BY <2>3 DEF Forget, destructor
    <3>2. Remembering' => kernel' = {}
      BY <3>1 DEF Writing, Remembering
    <3> QED
      BY <3>1, <3>2 DEF Writing, KernelRemembered
  <2> QED
    BY <1>4, <2>1, <2>2, <2>3 DEF ResetRoute
<1>5. ASSUME NEW n \in Nets \cup {NoNet}, AddRoute(n)
      PROVE  Writing'
  <2>1. n \in left /\ n \in DOMAIN routings /\ pc = "add" /\ adding = {}
    BY <1>5 DEF AddRoute, Typed, TypeOK, Writing
  <2>2. /\ kernel' = kernel \cup {Entry(n)} /\ adding' = {Entry(n)} /\ left' = left \ {n}
        /\ pc' = "remember" /\ UNCHANGED <<routings, written, alone, main>>
    BY <1>5 DEF AddRoute, search, destructor
  <2>3. AllEntries' = AllEntries /\ Done' = Done \cup {Entry(n)}
    BY <2>1, <2>2 DEF Entry
  <2>4. Remembering' => Remembering /\ kernel' \subseteq written' \cup adding'
    BY <2>1, <2>2 DEF Writing, KernelRemembered, Remembering
  <2>5. Remembering => kernel' \subseteq AllEntries' /\ (alone' => kernel' = Done')
    BY <2>1, <2>2, <2>3 DEF Writing
  <2> QED
    BY <2>2, <2>4, <2>5 DEF Writing, KernelRemembered
<1>6. ASSUME NEW n \in Nets \cup {NoNet}, RouteRefused(n)
      PROVE  Writing'
  <2>1. n \in left /\ n \in DOMAIN routings /\ pc = "add" /\ (alone => Entry(n) \in kernel)
    BY <1>6 DEF RouteRefused, Typed, TypeOK
  <2>2. left' = left \ {n} /\ UNCHANGED <<routings, written, alone, kernel, adding, pc, main>>
    BY <1>6 DEF RouteRefused, search, destructor
  <2>3. AllEntries' = AllEntries /\ Done' = Done \cup {Entry(n)}
    BY <2>1, <2>2 DEF Entry
  <2> QED
    BY <2>1, <2>2, <2>3 DEF Writing, KernelRemembered, Remembering
<1>7. CASE Remember
  <2>1. pc = "remember" /\ pc' = "add" /\ written' = written \cup adding /\ adding' = {}
        /\ UNCHANGED <<routings, left, kernel, alone, main>>
    BY <1>7 DEF Remember, search
  <2>2. AllEntries' = AllEntries /\ Done' = Done
    BY <2>1 DEF Entry
  <2> QED
    BY <2>1, <2>2 DEF Writing, KernelRemembered, Remembering
<1>8. CASE UpdateEnds
  <2>1. /\ pc = "add" /\ pc' = "idle"
        /\ UNCHANGED <<routings, left, adding, written, kernel, alone, main>>
    BY <1>8 DEF UpdateEnds, search, routes, destructor
  <2>2. AllEntries' = AllEntries /\ Done' = Done
    BY <2>1 DEF Entry
  <2> QED
    BY <2>1, <2>2 DEF Writing, KernelRemembered, Remembering
<1>9. CASE Destroy \/ Administrator
  <2>1. /\ kernel' \subseteq kernel /\ ~alone
        /\ Remembering' => Remembering /\ written' = written
        /\ UNCHANGED <<pc, routings, left, undo, adding, alone>>
    <3>1. CASE StartDestroy
      BY <3>1 DEF StartDestroy, routes, Remembering
    <3>2. ASSUME NEW r \in main_undo, DestroyUndo(r) PROVE <2>1!:
      BY <3>2 DEF DestroyUndo, Deleted, Remembering, Writing, search
    <3>3. CASE DestroyForget
      BY <3>3 DEF DestroyForget, Remembering, Writing, search
    <3>4. CASE Administrator
      BY <3>4 DEF Administrator, destructor, Remembering
    <3> QED
      BY <1>9, <3>1, <3>2, <3>3, <3>4 DEF Destroy
  <2>2. AllEntries' = AllEntries
    BY <2>1 DEF Entry
  <2> QED
    BY <2>1, <2>2 DEF Writing, KernelRemembered
<1>10. CASE Close \/ UNCHANGED vars
  <2>1. /\ UNCHANGED <<routings, left, undo, adding, written, kernel, alone, pc>>
        /\ Remembering' => Remembering
        /\ main' = main \/ main # "running"
    BY <1>10 DEF Close, vars, routes, destructor, Remembering
  <2> QED
    BY <2>1 DEF Writing, KernelRemembered, Entry
<1> QED
  BY <1>1, <1>2, <1>3, <1>4, <1>5, <1>6, <1>7, <1>8, <1>9, <1>10 DEF Next, ThreadStep

\* Writing is an invariant, with the types it needs.
LEMMA WritingAlways == Spec => [](Typed /\ Writing)
<1>1. Init => Typed /\ Writing
  BY TypedInit DEF Init, Writing, KernelRemembered, Remembering, Empty
<1>2. (Typed /\ Writing) /\ [Next]_vars => (Typed /\ Writing)'
  BY TypedStep, WritingStep
<1> QED
  BY <1>1, <1>2, PTL DEF Spec

\* Until the destructor clears rtentries_written, a route in the kernel is one
\* that the program remembers, or is about to note down: in the middle of
\* either resetRoute, and of both at once.
THEOREM RoutesRemembered == Spec => []KernelRemembered
<1>1. Typed /\ Writing => KernelRemembered
  BY DEF Writing
<1> QED
  BY WritingAlways, <1>1, PTL

\* Until then the kernel has between updates no route of an earlier one, and every
\* route of the last one when neither the kernel nor an administrator interferes.
THEOREM RoutesCurrent == Spec => []KernelCurrent
<1>1. Typed /\ Writing => KernelCurrent
  <2> SUFFICES ASSUME Typed, Writing PROVE KernelCurrent
    OBVIOUS
  <2>1. pc = "idle" => left = {}
    BY DEF Typed
  <2> QED
    BY <2>1 DEF Writing, KernelCurrent
<1> QED
  BY WritingAlways, <1>1, PTL
=============================================================================
