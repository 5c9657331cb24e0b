------------------------------ MODULE Routing ------------------------------
(***************************************************************************)
(* The routing table (src/routing.cpp): from a database to a topology,     *)
(* from there to shortest paths and to routes, and into the kernel.        *)
(*                                                                         *)
(* updateRoutings runs on the thread of an adjacency that ends LOADING,    *)
(* takes no lock, and may be overtaken by the destructor of the table,     *)
(* which runs when main returns. The search is one action per iteration of *)
(* its loop; resetting and writing the routes are one per system call, and *)
(* one for each change of rtentries_written. Lsdb is about the lifetime of *)
(* the objects that the snapshot points to; here they are there. A network *)
(* has at most one network LSA, which the code looks up by the address of  *)
(* the designated router.                                                  *)
(***************************************************************************)
EXTENDS Integers, Sequences, FiniteSets

CONSTANTS
  Ids,           \* router ids; 0 is not one of them
  Self,          \* router_id of the host
  Nets, NoNet,   \* networks, and the one of the address 0.0.0.0
  INF,           \* the metric of a vertex that was not reached
  Databases,     \* the LSAs that a snapshot may hold
  Histories      \* the databases of the updates to come, and whether the
                 \* host is left alone meanwhile

Links == [type : {"transit", "p2p", "stub"}, net : Nets, cost : Nat, id : Ids]

\* A partial function from S to T: a std::map.
IsMap(f, S, T) ==
  f = [x \in DOMAIN f |-> f[x]] /\ DOMAIN f \subseteq S /\ \A x \in DOMAIN f : f[x] \in T

\* links of the router LSAs, of which there are finitely many, and
\* attached_routers of the network LSAs.
IsDatabase(d) ==
  /\ d = [links |-> d.links, attached |-> d.attached]
  /\ IsMap(d.links, Ids, Seq(Links)) /\ IsMap(d.attached, Nets, SUBSET Ids)
  /\ IsFiniteSet(DOMAIN d.links)

ASSUME RoutingAssumption ==
  /\ Ids \subseteq Nat \ {0} /\ Self \in Ids /\ NoNet \notin Nets
  /\ INF \in Nat \ {0}
  /\ \A d \in Databases : IsDatabase(d)
  /\ Histories \subseteq [dbs : Seq(Databases), alone : BOOLEAN]

VARIABLES
  todo,          \* the databases of the updates that are not over
  alone,         \* FALSE: exit may be typed, the kernel may refuse routes and
                 \* an administrator may delete them
  pc,            \* what updateRoutings does next
  topo, result, pending, new_id, routings,
  undo,          \* the routes that the thread's resetRoute has still to delete
  left,          \* networks of the routes still to be written
  adding,        \* the route that the kernel took and written lacks
  written,       \* rtentries_written
  kernel,        \* the routes of this host in the kernel
  main,          \* how far the destructor is
  main_undo      \* the routes that its resetRoute has still to delete

search == <<topo, result, pending, new_id>>
routes == <<undo, left, adding, written, kernel>>
destructor == <<main, main_undo>>
vars == <<todo, alone, pc, search, routings, routes, destructor>>

Addresses == [net : Nets \cup {NoNet}, rtr : Ids \cup {0}]
Zero == [net |-> NoNet, rtr |-> 0]
Edges == [src : Addresses, cost : Nat]
Paths == [metric : Nat, next_hop : Addresses]
Entries == [dest : Nets \cup {NoNet}, next_hop : Addresses]

Empty == [x \in {} |-> x]
Put(f, k, x) == [y \in DOMAIN f \cup {k} |-> IF y = k THEN x ELSE f[y]]
Without(f, k) == [y \in DOMAIN f \ {k} |-> f[y]]

-----------------------------------------------------------------------------
(* The topology                                                            *)

\* The routers that link i of router r leads to.
Ends(d, r, i) ==
  LET l == d.links[r][i] IN
  CASE l.type = "transit" -> d.attached[l.net] \ {r}
    [] l.type = "p2p"     -> {l.id}
    [] OTHER              -> {}

Leading(d, r, e) == {i \in DOMAIN d.links[r] : e \in Ends(d, r, i)}

\* A later link to the same router overwrites an earlier one.
LinkTo(d, r, e) == CHOOSE i \in Leading(d, r, e) : \A j \in Leading(d, r, e) : j <= i

Adjacencies(d, r) ==
  [e \in UNION {Ends(d, r, i) : i \in DOMAIN d.links[r]} |->
     LET l == d.links[r][LinkTo(d, r, e)]
     IN [src |-> [net |-> l.net, rtr |-> r], cost |-> l.cost]]

\* A transit network without a network LSA: a null pointer is used.
Dangling(d) ==
  \E r \in DOMAIN d.links : \E i \in DOMAIN d.links[r] :
    d.links[r][i].type = "transit" /\ d.links[r][i].net \notin DOMAIN d.attached

-----------------------------------------------------------------------------
(* Shortest paths                                                          *)

\* Mutant of Unsettled: the host as well.
UnsettledAll(d) == DOMAIN d.links

Unsettled(d) == DOMAIN d.links \ {Self}

\* buildTopology, then caclulateRouting up to its loop. Without a vertex the
\* old result is kept.
BuildTopology ==
  /\ pc = "idle" /\ todo # << >>
  /\ LET d == Head(todo) IN
     /\ ~Dangling(d)
     /\ topo' = [r \in DOMAIN d.links |-> Adjacencies(d, r)]
     /\ pending' = [v \in Unsettled(d) |-> [metric |-> INF, next_hop |-> Zero]]
     /\ new_id' = Self
     /\ IF DOMAIN d.links = {} THEN pc' = "generate" /\ result' = result
        ELSE pc' = "search" /\ result' = [v \in {Self} |-> [metric |-> 0, next_hop |-> Zero]]
  /\ UNCHANGED <<todo, alone, routings, routes, destructor>>

Crash ==
  /\ pc = "idle" /\ todo # << >> /\ Dangling(Head(todo))
  /\ pc' = "crashed"
  /\ UNCHANGED <<todo, alone, search, routings, routes, destructor>>

\* topo[v] and adjacencies of a vertex that is not in the map are empty.
Adj(v) == IF v \in DOMAIN topo THEN topo[v] ELSE Empty

Through(v) == result[new_id].metric + topo[new_id][v].cost

\* Mutant of Closer: only vertices that have no path yet get one.
CloserOnce ==
  {v \in DOMAIN pending \cap DOMAIN Adj(new_id) :
     pending[v].metric = INF /\ INF > Through(v)}

\* The vertices to which the newest one gives a shorter path.
Closer ==
  {v \in DOMAIN pending \cap DOMAIN Adj(new_id) : pending[v].metric > Through(v)}

\* A vertex gets the edge 0.0.0.0 to the host when its next hop is looked up
\* and it has none; one without an LSA is inserted when an edge leads to it.
\* The key of an inserted edge is the host, which is never pending.
Returned(v) ==
  IF new_id = Self /\ v \in Closer /\ Self \notin DOMAIN Adj(v)
  THEN Put(Adj(v), Self, [src |-> Zero, cost |-> 0]) ELSE Adj(v)

\* Mutant of NextHop: the address of the host on the way to v.
NextHopOwn(v) ==
  IF new_id = Self THEN topo[Self][v].src ELSE result[new_id].next_hop

\* The address of a neighbour of the host, which its other paths inherit.
NextHop(v) ==
  IF new_id = Self THEN Returned(v)[Self].src ELSE result[new_id].next_hop

Relaxed ==
  [v \in DOMAIN pending |->
     IF v \in Closer THEN [metric |-> Through(v), next_hop |-> NextHop(v)]
     ELSE pending[v]]

\* Mutant of Nearest: a path found is not compared with the others.
NearestAny(p) ==
  {v \in DOMAIN p : p[v].metric < INF /\ \A w \in DOMAIN p : p[w].metric < INF => v <= w}

\* Of several, the one with the smallest id.
Nearest(p) ==
  {v \in DOMAIN p :
     /\ p[v].metric < INF
     /\ \A w \in DOMAIN p :
          p[v].metric < p[w].metric \/ (p[v].metric = p[w].metric /\ v <= w)}

Searching ==
  /\ pc = "search" /\ DOMAIN pending # {} /\ DOMAIN Adj(new_id) # {}
  /\ topo' = [v \in DOMAIN topo \cup DOMAIN Adj(new_id) |-> Returned(v)]
  /\ UNCHANGED <<todo, alone, pc, routings, routes, destructor>>

\* Mutant of Settle: the vertex stays pending.
SettleKeep(v) ==
  /\ Searching
  /\ v \in Nearest(Relaxed)
  /\ new_id' = v /\ result' = Put(result, v, Relaxed[v]) /\ pending' = Relaxed

\* An iteration of the loop.
Settle(v) ==
  /\ Searching
  /\ v \in Nearest(Relaxed)
  /\ new_id' = v
  /\ result' = Put(result, v, Relaxed[v])
  /\ pending' = Without(Relaxed, v)

\* When no pending vertex was reached, the vertex 0 is settled.
SettleNone ==
  /\ Searching
  /\ Nearest(Relaxed) = {}
  /\ new_id' = 0
  /\ result' = Put(result, 0, [metric |-> INF, next_hop |-> Zero])
  /\ pending' = Relaxed

\* The loop ends, also at the first vertex without edges.
SearchEnds ==
  /\ pc = "search" /\ (DOMAIN pending = {} \/ DOMAIN Adj(new_id) = {})
  /\ pc' = "generate"
  /\ UNCHANGED <<todo, alone, search, routings, routes, destructor>>

-----------------------------------------------------------------------------
(* Routes                                                                  *)

\* The settled vertices with an edge out of network n.
Exits(n) ==
  {v \in DOMAIN result \ {Self} : \E e \in DOMAIN Adj(v) : Adj(v)[e].src.net = n}

\* Mutant of ExitOf: the last vertex wins.
ExitOfLast(n) == CHOOSE v \in Exits(n) : \A w \in Exits(n) : w <= v

\* A smaller metric replaces what an earlier vertex entered.
ExitOf(n) ==
  CHOOSE v \in Exits(n) : \A w \in Exits(n) :
    \/ result[v].metric < result[w].metric
    \/ result[v].metric = result[w].metric /\ v <= w

GenRouting ==
  /\ pc = "generate"
  /\ routings' = [n \in {m \in Nets \cup {NoNet} : Exits(m) # {}} |-> result[ExitOf(n)]]
  /\ pc' = "reset"
  /\ UNCHANGED <<todo, alone, search, routes, destructor>>

\* Metrics, which follow from the destination, are left out of the entries.
Entry(n) == [dest |-> n, next_hop |-> routings[n].next_hop]

\* Mutant of Deleted: the route stays.
DeletedNot(r) == kernel' = kernel

\* SIOCDELRT. What is not in the kernel any more cannot be deleted.
Deleted(r) == kernel' = kernel \ {r}

\* resetRoute: a loop over rtentries_written as it was when it began, then
\* clear(). That the destructor clears it meanwhile leaves the entries in place.
StartReset ==
  /\ pc = "reset"
  /\ undo' = written /\ pc' = "undo"
  /\ UNCHANGED <<todo, alone, search, routings, left, adding, written, kernel, destructor>>

Undo(r) ==
  /\ pc = "undo" /\ r \in undo
  /\ Deleted(r) /\ undo' = undo \ {r}
  /\ UNCHANGED <<todo, alone, pc, search, routings, left, adding, written, destructor>>

Forget ==
  /\ pc = "undo" /\ undo = {}
  /\ written' = {} /\ left' = DOMAIN routings /\ pc' = "add"
  /\ UNCHANGED <<todo, alone, search, routings, undo, adding, kernel, destructor>>

ResetRoute == StartReset \/ (\E r \in undo : Undo(r)) \/ Forget

AddRoute(n) ==
  /\ pc = "add" /\ n \in left
  /\ left' = left \ {n}
  /\ Entry(n) \notin kernel
  /\ kernel' = kernel \cup {Entry(n)} /\ adding' = {Entry(n)} /\ pc' = "remember"
  /\ UNCHANGED <<todo, alone, search, routings, undo, written, destructor>>

RouteRefused(n) ==
  /\ pc = "add" /\ n \in left
  /\ left' = left \ {n}
  /\ ~alone \/ Entry(n) \in kernel
  /\ UNCHANGED <<todo, alone, pc, search, routings, undo, adding, written, kernel, destructor>>

\* Mutant of Remember: the route is not kept.
RememberNothing ==
  /\ pc = "remember"
  /\ adding' = {} /\ pc' = "add"
  /\ UNCHANGED <<todo, alone, search, routings, undo, left, written, kernel, destructor>>

\* push_back overwrites or moves what the loop of the destructor is reading:
\* which routes that then deletes is open.
Remember ==
  /\ pc = "remember"
  /\ written' = written \cup adding /\ adding' = {} /\ pc' = "add"
  /\ main_undo' \in
       IF main = "resetting" THEN SUBSET (main_undo \cup written') ELSE {main_undo}
  /\ UNCHANGED <<todo, alone, search, routings, undo, left, kernel, main>>

UpdateEnds ==
  /\ pc = "add" /\ left = {}
  /\ pc' = "idle" /\ todo' = Tail(todo)
  /\ UNCHANGED <<alone, search, routings, routes, destructor>>

\* The destructor: resetRoute on the thread of main.
StartDestroy ==
  /\ main = "running" /\ ~alone
  /\ main_undo' = written /\ main' = "resetting"
  /\ UNCHANGED <<todo, alone, pc, search, routings, routes>>

DestroyUndo(r) ==
  /\ main = "resetting" /\ r \in main_undo
  /\ Deleted(r) /\ main_undo' = main_undo \ {r}
  /\ UNCHANGED <<todo, alone, pc, search, routings, undo, left, adding, written, main>>

DestroyForget ==
  /\ main = "resetting" /\ main_undo = {}
  /\ written' = {} /\ main' = "reset"
  /\ UNCHANGED <<todo, alone, pc, search, routings, undo, left, adding, kernel, main_undo>>

Destroy == StartDestroy \/ (\E r \in main_undo : DestroyUndo(r)) \/ DestroyForget

\* The descriptor is closed, the members are destroyed and the process ends: what
\* the thread does from here on does not reach the kernel.
Close ==
  /\ main = "reset"
  /\ main' = "gone"
  /\ UNCHANGED <<todo, alone, pc, search, routings, routes, main_undo>>

Administrator ==
  /\ ~alone
  /\ \E r \in kernel : kernel' = kernel \ {r}
  /\ UNCHANGED <<todo, alone, pc, search, routings, undo, left, adding, written, destructor>>

-----------------------------------------------------------------------------
Init ==
  /\ \E h \in Histories : todo = h.dbs /\ alone = h.alone
  /\ pc = "idle" /\ main = "running"
  /\ topo = Empty /\ result = Empty /\ pending = Empty /\ new_id = Self
  /\ routings = Empty
  /\ undo = {} /\ left = {} /\ adding = {} /\ written = {} /\ kernel = {}
  /\ main_undo = {}

ThreadStep ==
  \/ BuildTopology \/ Crash
  \/ (\E v \in Ids : Settle(v)) \/ SettleNone \/ SearchEnds
  \/ GenRouting \/ ResetRoute \/ Remember \/ UpdateEnds
  \/ \E n \in Nets \cup {NoNet} : AddRoute(n) \/ RouteRefused(n)

Next ==
  /\ main # "gone" /\ pc # "crashed"
  /\ ThreadStep \/ Destroy \/ Close \/ Administrator

Spec == Init /\ [][Next]_vars

\* The thread is scheduled.
FairSpec == Spec /\ WF_vars(main # "gone" /\ pc # "crashed" /\ ThreadStep)

-----------------------------------------------------------------------------
(* Reference: distances by the number of links of a path                   *)

Least(S) == CHOOSE m \in S : \A k \in S : m <= k

LinkMetrics(d) == UNION {{d.links[u][i].cost : i \in DOMAIN d.links[u]} : u \in DOMAIN d.links}
LinkCosts(d, u, v) == {d.links[u][i].cost : i \in Leading(d, u, v)}

\* The links that lead to a router, as vertices and costs, and the distances on
\* paths with a link more than those of dist.
Incoming(d) ==
  [v \in DOMAIN d.links |->
     {e \in (DOMAIN d.links) \X LinkMetrics(d) : e[2] \in LinkCosts(d, e[1], v)}]
Longer(from, dist) ==
  [v \in DOMAIN from |-> Least({dist[v]} \cup {dist[e[1]] + e[2] : e \in from[v]})]

\* From vertex s over the routers that have an LSA, on paths of at most k links.
Within(d, s) ==
  LET from == Incoming(d)
      within[k \in Nat] ==
        IF k = 0 THEN [v \in DOMAIN d.links |-> IF v = s THEN 0 ELSE INF]
        ELSE Longer(from, within[k - 1])
  IN within

Distances(d, s) == Within(d, s)[Cardinality(DOMAIN d.links) - 1]

\* A router that no two links of one router lead to.
NoParallelLinks(d) ==
  \A u \in DOMAIN d.links, v \in Ids : Cardinality(Leading(d, u, v)) <= 1

\* A router without an edge, to which one leads from another than the host.
DeadEnd(d) ==
  \E v, u \in DOMAIN d.links \ {Self} :
    Leading(d, u, v) # {} /\ \A w \in Ids : Leading(d, v, w) = {}

-----------------------------------------------------------------------------
(* Properties                                                              *)

\* Type invariant.
TypeOK ==
  /\ todo \in Seq(Databases) /\ alone \in BOOLEAN
  /\ pc \in {"idle", "search", "generate", "reset", "undo", "add", "remember", "crashed"}
  /\ \A v \in DOMAIN topo : IsMap(topo[v], Ids, Edges)
  /\ DOMAIN topo \subseteq Ids
  /\ IsMap(result, Ids \cup {0}, Paths) /\ IsMap(pending, Ids \ {Self}, Paths)
  /\ new_id \in Ids \cup {0}
  /\ IsMap(routings, Nets \cup {NoNet}, Paths)
  /\ left \subseteq DOMAIN routings
  /\ undo \subseteq Entries /\ main_undo \subseteq Entries
  /\ adding \subseteq Entries /\ written \subseteq Entries /\ kernel \subseteq Entries
  /\ main \in {"running", "resetting", "reset", "gone"}

\* No edge shortens the path of a settled vertex, and none that was passed
\* on shortens a pending one: no settled path has to be revised.
Reached(u, v) == result[u].metric + topo[u][v].cost
PathsFeasible ==
  pc \in {"search", "generate"} =>
    \A u \in DOMAIN result \cap DOMAIN topo : \A v \in DOMAIN topo[u] :
      /\ v \in DOMAIN result => result[v].metric <= Reached(u, v)
      /\ u # new_id /\ v \in DOMAIN pending => pending[v].metric <= Reached(u, v)

\* What is settled has its distance in the database, also if the search stops
\* early; and it misses a reachable router only because of a dead end.
SearchedOwn == pc = "generate" /\ NoParallelLinks(Head(todo)) /\ Self \in DOMAIN Head(todo).links
SettledExact ==
  SearchedOwn =>
    LET d == Head(todo)
        dist == Distances(d, Self)
    IN /\ \A v \in DOMAIN result \ {0} : result[v].metric = dist[v]
       /\ DeadEnd(d) \/ \A v \in DOMAIN d.links : dist[v] < INF => v \in DOMAIN result

\* A next hop is the address of a neighbour of the host on the link back to
\* it, and this neighbour is on a shortest path. It is 0.0.0.0 if there is no
\* link back.
BackAddress(d, w) ==
  LET back == Leading(d, w, Self) IN
  IF back = {} THEN Zero
  ELSE [net |-> d.links[w][CHOOSE i \in back : TRUE].net, rtr |-> w]
NextHopLeads ==
  SearchedOwn =>
    LET d == Head(todo)
        dist == [w \in DOMAIN d.links |-> Distances(d, w)]
    IN \A v \in DOMAIN result \ {Self, 0} : \E w \in DOMAIN d.links \ {Self} :
         /\ result[v].next_hop = BackAddress(d, w)
         /\ \E c \in LinkCosts(d, Self, w) : c + dist[w][v] = dist[Self][v]

\* A route has the distance of the nearest router on its network, and there is
\* one to each network of a router that can be reached. The route to 0.0.0.0
\* comes from a neighbour without a link back.
OnNet(d, v, n) ==
  \E i \in DOMAIN d.links[v] : d.links[v][i].net = n /\ Ends(d, v, i) # {}
RoutesShortest ==
  pc = "reset" /\ NoParallelLinks(Head(todo)) /\ ~DeadEnd(Head(todo)) =>
    LET d == Head(todo)
        dist == Distances(d, Self)
        near(n) == {dist[v] : v \in {v \in DOMAIN d.links \ {Self} : dist[v] < INF /\ OnNet(d, v, n)}}
    IN /\ \A n \in Nets : near(n) # {} <=> n \in DOMAIN routings
       /\ \A n \in Nets \cap DOMAIN routings : routings[n].metric = Least(near(n))
       /\ NoNet \in DOMAIN routings =>
            \E w \in DOMAIN d.links : Leading(d, Self, w) # {} /\ Leading(d, w, Self) = {}

\* No route gets lost in the kernel: the program remembers each one, or is about
\* to, also while the destructor deletes routes under the thread. Its clear()
\* ends this: what was pushed after its loop began is forgotten.
Remembering == main \in {"running", "resetting"}
KernelRemembered == Remembering => kernel \subseteq written \cup adding

\* Between updates the kernel has routes of the last update only, and all of
\* them if nothing interferes.
KernelCurrent ==
  pc = "idle" /\ Remembering =>
    /\ kernel \subseteq {Entry(n) : n \in DOMAIN routings}
    /\ alone => kernel = {Entry(n) : n \in DOMAIN routings}

\* "reset kernel route successfully": once the destructor is over, no route of
\* this host is left in the kernel.
NoRouteLeft == main = "gone" => kernel = {}

\* An update ends, whatever the topology.
UpdateTerminates ==
  \A k \in 1..2 : Len(todo) = k ~> (Len(todo) < k \/ pc = "crashed" \/ main = "gone")
=============================================================================
