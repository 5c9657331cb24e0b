----------------------------- MODULE MCRouting -----------------------------
(* Small instances of Routing for TLC: the host and three other routers on *)
(* three networks. The host has one interface, as in main.                 *)
EXTENDS Routing, Origination, TLC

MCSelf == 2
MCIds == 1..4
MCNets == {"a", "b", "c"}

\* cost[r][n] is the cost of router r's link to network n, 0 if it has none.
Linked(cost, r, n) ==
  IF cost[r][n] = 0 THEN << >> ELSE <<Link("transit", n, cost[r][n], r)>>
LinksOf(cost, r) ==
  Linked(cost, r, "a") \o Linked(cost, r, "b") \o Linked(cost, r, "c")
    \o <<Link("stub", "a", 1, r)>>
AttachedTo(cost, n) == {r \in DOMAIN cost : cost[r][n] # 0}

\* The database of the host with interface i, on network a, and of the other
\* routers with their costs. omitted are the routers that other designated
\* routers leave out, absent the networks whose LSA did not arrive yet.
Database(cost, i, omitted, absent) ==
  [links |-> MCSelf :> GenRouterLSA(<<i>>) @@ [r \in DOMAIN cost |-> LinksOf(cost, r)],
   attached |-> [n \in MCNets \ absent |->
     IF n = "a" /\ i.dr = MCSelf THEN GenNetworkLSA(i)
     ELSE (AttachedTo(cost, n) \ {r \in DOMAIN cost : <<n, r>> \in omitted})
            \cup {r \in {MCSelf} : n = "a" /\ Adjacent(i)}]]

On(a, b, c) == "a" :> a @@ "b" :> b @@ "c" :> c
Costs == {On(a, b, c) : a, b \in {0, 1, 3}, c \in {0, 1}}
\* Router 1 is not on the network of the host.
Behind == {f \in Costs : f["a"] = 0 /\ f["b"] # 3}
With(x, y, z) == 1 :> z @@ 3 :> x @@ 4 :> y

\* The interface of the host, with the routers in full adjacent.
Interface(state, dr, full) ==
  [state |-> state, net |-> "a", ip |-> MCSelf, cost |-> 1, dr |-> dr, full |-> full]
Waiting == Interface("WAITING", 0, {})
Designated(full) == Interface("DR", MCSelf, full)
Under(r) == Interface("DROTHER", r, {r})

\* Every topology: with the host not yet adjacent to a designated router,
\* adjacent to one, with and without a router on network b that is not full
\* yet, and as designated router, of all routers or without one.
Topologies ==
  UNION {LET others == AttachedTo(cost, "a") IN
         {Database(cost, i, {}, {}) : i \in
            {Waiting, Designated(others), Designated(others \ {3})}}
         \cup {Database(cost, Under(r), omitted, {}) :
                 r \in others, omitted \in {{}, {<<"b", 3>>}}} :
         cost \in {With(x, y, z) : x, y \in Costs, z \in Behind}}

\* A line of routers, one that lacks its end or a network LSA, a host on its
\* own, links from point to point.
Line == Database(With(On(1, 3, 0), On(0, 1, 1), On(0, 0, 1)), Under(3), {}, {})
Shorter == Database(With(On(1, 1, 0), On(0, 1, 0), On(0, 0, 0)), Under(3), {}, {})
Late == Database(With(On(1, 3, 0), On(0, 1, 1), On(0, 0, 1)), Under(3), {}, {"c"})
Lonely == [links |-> MCSelf :> GenRouterLSA(<<Waiting>>), attached |-> << >>]
Direct ==
  [links |-> 1 :> <<Link("p2p", "a", 1, 2), Link("p2p", "b", 3, 3)>>
          @@ 2 :> <<Link("p2p", "a", 3, 1)>> @@ 3 :> <<Link("p2p", "b", 1, 1)>>,
   attached |-> << >>]
Nothing == [links |-> << >>, attached |-> << >>]
Few == {Line, Shorter, Late, Lonely, Direct, Nothing}

MCDatabases == Topologies \cup Few

MCHistories ==
  {[dbs |-> <<d>>, alone |-> TRUE] : d \in Topologies}
    \cup [dbs : {<<d, e>> : d, e \in Few}, alone : BOOLEAN]
=============================================================================
