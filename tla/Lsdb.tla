-------------------------------- MODULE Lsdb --------------------------------
(***************************************************************************)
(* The link state database (src/lsdb.cpp), the originators that write to   *)
(* it (src/lsa_manage.cpp) and the snapshot routing takes of it, as the    *)
(* receiver, the timer thread and the thread of an adjacency that ends     *)
(* LOADING use them at the same time.                                      *)
(*                                                                         *)
(* LSAs are objects on the heap. What a mutex protects is one step, what   *)
(* happens outside of it is a step of its own: looking an LSA up, reading  *)
(* an object through a pointer, and flooding. A pointer whose object was   *)
(* deleted is stale; to read through it is a fault and ends the behaviour, *)
(* to compare addresses is not, and the allocator may hand the address out *)
(* again. A look-up is one step, although no mutex keeps the vector from   *)
(* changing under it: that it may then skip an entry is left out.          *)
(***************************************************************************)
EXTENDS Integers, Sequences, FiniteSets

CONSTANTS
  LSAs,          \* what identifies an LSA: link state id, router and type
  RouterLSAs,    \* the ones of type router; the others are of type network
  OwnRouter, OwnNetwork,   \* the ones this host originates
  IdIsAddress,   \* TRUE: the router id is the address of the interface
  Prior,         \* numbers of own router LSAs which neighbours kept from
                 \* before a restart
  Arrivals,      \* numbers of the instances that other routers send
  Addrs,         \* addresses the allocator hands out; bounds the LSAs alive
  MaxSeq,        \* bounds the sequence numbers (0 stands for 0x80000000)
  Null, Free

Own == {OwnRouter, OwnNetwork}
Seqs == 0..MaxSeq

ASSUME LsdbAssumption ==
  /\ RouterLSAs \subseteq LSAs
  /\ OwnRouter \in RouterLSAs /\ OwnNetwork \in LSAs \ RouterLSAs
  /\ IdIsAddress \in BOOLEAN
  /\ MaxSeq \in Nat /\ Prior \subseteq Seqs /\ Arrivals \subseteq Seqs
  /\ Null \notin Addrs

Threads == {"receiver", "timer", "lsr"}
Types == {"router", "network"}
TypeOf(l) == IF l \in RouterLSAs THEN "router" ELSE "network"

VARIABLES
  heap,          \* the object at each address, or Free
  list,          \* router_lsas and network_lsas
  lsa_seq_cnt,   \* the number of the next instance the host originates
  thr,           \* what each thread is doing
  snap,          \* the addresses in the snapshot that routing works on
  freed,         \* the lists whose objects the snapshot destroyed
  known,         \* own instances that neighbours hold and may send back
  fault          \* TRUE once a stale pointer was used

vars == <<heap, list, lsa_seq_cnt, thr, snap, freed, known, fault>>

Objects == [lsa : LSAs, seq : Seqs]
ASSUME HeapAssumption == Free \notin Objects

\* pc names the next step of the thread, new the object it allocated, found
\* the one its look-up returned, stale whether the object it uses next is gone.
\* A thread about to delete has read all it needs of the found object: stale
\* then only records that another thread removed it.
ThreadType ==
  [pc : {"idle", "add", "serve", "find", "compare", "push", "replace", "delete",
         "swap", "flood", "route", "routing"},
   new : Addrs \cup {Null}, found : Addrs \cup {Null}, stale : BOOLEAN]

At(pc, new, found) == [pc |-> pc, new |-> new, found |-> found, stale |-> FALSE]
Idle == At("idle", Null, Null)

-----------------------------------------------------------------------------
(* Objects and lists                                                       *)

Allocated(a, l, s) ==
  heap[a] = Free /\ heap' = [heap EXCEPT ![a] = [lsa |-> l, seq |-> s]]

\* The objects whose deletion thread t is to notice.
Uses(t) ==
  CASE thr[t].pc = "flood"   -> {thr[t].new}
    [] thr[t].pc \in {"serve", "compare", "replace", "delete"} -> {thr[t].found}
    [] thr[t].pc = "routing" -> snap
    [] OTHER                 -> {}

\* Thread t goes on as r, and the objects in A are deleted.
Deleted(A) == heap' = [a \in Addrs |-> IF a \in A THEN Free ELSE heap[a]]
Goes(t, r, A) ==
  thr' = [u \in Threads |->
            IF u = t THEN r
            ELSE [thr[u] EXCEPT !.stale = @ \/ Uses(u) \cap A # {}]]

Listed(y) == {list[y][i] : i \in DOMAIN list[y]}

\* Positions of the objects of l in its list.
Matches(l) ==
  {i \in DOMAIN list[TypeOf(l)] :
     LET a == list[TypeOf(l)][i] IN heap[a] # Free /\ heap[a].lsa = l}

FirstMatch(l) ==
  IF Matches(l) = {} THEN Null
  ELSE list[TypeOf(l)][CHOOSE i \in Matches(l) : \A j \in Matches(l) : i <= j]

\* Mutant of Erase: the entry stays although its object is deleted.
EraseNothing(s, a) == s

\* Mutant of Erase: the list loses its last entry instead.
EraseLast(s, a) == SubSeq(s, 1, Len(s) - 1)

Erase(s, a) ==
  LET i == CHOOSE i \in DOMAIN s : s[i] = a /\ \A j \in DOMAIN s : s[j] = a => i <= j
  IN SubSeq(s, 1, i - 1) \o SubSeq(s, i + 1, Len(s))

\* A look-up reads the listed objects from the first one on.
LookUpFaults(y) == y \in freed

-----------------------------------------------------------------------------
(* The receiver: addLSA, requests, summaries                               *)

\* addLSA for an LSA in an LSU, up to the mutex. Of the host's own LSAs only
\* instances come back that it once sent.
Receive(l, s) ==
  /\ thr["receiver"].pc = "idle"
  /\ IF l \in Own THEN <<l, s>> \in known ELSE s \in Arrivals
  /\ \E a \in Addrs :
       /\ Allocated(a, l, s)
       /\ Goes("receiver", At("add", a, FirstMatch(l)), {})
  /\ fault' = LookUpFaults(TypeOf(l))
  /\ UNCHANGED <<list, lsa_seq_cnt, snap, freed, known>>

\* Mutant of Displaced: the instance that was looked up is left in the list.
DisplacedNone(y, found) == {}

\* The found object is deleted if its address is still in the list.
Displaced(y, found) == {found} \cap Listed(y)

\* addLSA under the mutex.
AddLSA ==
  LET r == thr["receiver"]
      y == TypeOf(heap[r.new].lsa)
      old == Displaced(y, r.found)
  IN
  /\ r.pc = "add"
  /\ list' = [list EXCEPT ![y] =
       Append(IF old = {} THEN @ ELSE Erase(@, r.found), r.new)]
  /\ Deleted(old) /\ Goes("receiver", Idle, old)
  /\ fault' = (old # {} /\ y \in freed)
  /\ UNCHANGED <<lsa_seq_cnt, snap, freed, known>>

\* An LSA that is requested is looked up, then packed.
Serve(l) ==
  /\ thr["receiver"].pc = "idle"
  /\ IF LookUpFaults(TypeOf(l)) THEN fault' = TRUE /\ thr' = thr
     ELSE /\ FirstMatch(l) # Null
          /\ Goes("receiver", At("serve", Null, FirstMatch(l)), {})
          /\ fault' = fault
  /\ UNCHANGED <<heap, list, lsa_seq_cnt, snap, freed, known>>

\* The instance at a as a packet, which neighbours keep.
Sent(a) == known' = known \cup {<<heap[a].lsa, heap[a].seq>>}

Served ==
  LET r == thr["receiver"] IN
  /\ r.pc = "serve"
  /\ Goes("receiver", Idle, {})
  /\ fault' = r.stale
  /\ IF r.stale \/ heap[r.found].lsa \notin Own THEN known' = known
     ELSE Sent(r.found)
  /\ UNCHANGED <<heap, list, lsa_seq_cnt, snap, freed>>

\* initDBSummaryList reads every listed object, each list under its mutex.
Summarize ==
  /\ thr["receiver"].pc = "idle"
  /\ fault' = (freed # {})
  /\ UNCHANGED <<heap, list, lsa_seq_cnt, thr, snap, freed, known>>

-----------------------------------------------------------------------------
(* The originators: onGeneratingRouterLSA, onGeneratingNetworkLSA. The     *)
(* receiver and the timer thread run both, the thread that ends LOADING    *)
(* the first one, and then updates the routes.                             *)

Done(t) == IF t = "lsr" THEN At("route", Null, Null) ELSE Idle

\* Mutant of Originate: the counter is read after it was incremented.
OriginateCountsFirst(t, l) ==
  /\ thr[t].pc = "idle" /\ (t = "lsr" => l = OwnRouter)
  /\ lsa_seq_cnt' = lsa_seq_cnt + 1
  /\ \E a \in Addrs :
       Allocated(a, l, lsa_seq_cnt') /\ Goes(t, At("find", a, Null), {})
  /\ UNCHANGED <<list, snap, freed, known, fault>>

Originate(t, l) ==
  /\ thr[t].pc = "idle" /\ (t = "lsr" => l = OwnRouter)
  /\ \E a \in Addrs :
       Allocated(a, l, lsa_seq_cnt) /\ Goes(t, At("find", a, Null), {})
  /\ lsa_seq_cnt' = lsa_seq_cnt + 1
  /\ UNCHANGED <<list, snap, freed, known, fault>>

Newer(a, b) == heap[a].seq > heap[b].seq

\* The look-up. That of a network LSA swaps link state id and router.
FindOwn(t) ==
  LET new == thr[t].new
      l == heap[new].lsa
      found == IF l = OwnNetwork /\ ~IdIsAddress THEN Null ELSE FirstMatch(l)
  IN
  /\ thr[t].pc = "find"
  /\ Goes(t, At(IF found = Null THEN "push" ELSE "compare", new, found), {})
  /\ fault' = LookUpFaults(TypeOf(l))
  /\ UNCHANGED <<heap, list, lsa_seq_cnt, snap, freed, known>>

\* Mutant of Compare: what is in the database is replaced even if it is newer.
CompareNothing(t) ==
  /\ thr[t].pc = "compare"
  /\ fault' = thr[t].stale
  /\ Goes(t, [thr[t] EXCEPT !.pc = "replace"], {})
  /\ UNCHANGED <<heap, list, lsa_seq_cnt, snap, freed, known>>

\* The comparison, through the pointer. Of network LSAs it compares contents
\* first, of which a length is not initialised: whether the two are equal is
\* open. What is not newer is never deleted.
Compare(t) ==
  LET r == thr[t] IN
  /\ r.pc = "compare"
  /\ fault' = r.stale
  /\ IF r.stale THEN thr' = thr
     ELSE \E equal \in IF heap[r.new].lsa = OwnNetwork THEN BOOLEAN ELSE {TRUE} :
            Goes(t, IF ~equal THEN At("push", r.new, Null)
                    ELSE IF Newer(r.new, r.found) THEN At("replace", r.new, r.found)
                    ELSE Done(t), {})
  /\ UNCHANGED <<heap, list, lsa_seq_cnt, snap, freed, known>>

\* The arguments of delLSA, read through the pointer before it is called.
Identify(t) ==
  /\ thr[t].pc = "replace"
  /\ fault' = thr[t].stale
  /\ Goes(t, At("delete", thr[t].new, thr[t].found), {})
  /\ UNCHANGED <<heap, list, lsa_seq_cnt, snap, freed, known>>

\* delLSA: under the mutex it searches for that identity anew. It may meet
\* another instance than the one compared, or none.
DelLSA(t) ==
  LET r == thr[t]
      l == heap[r.new].lsa
      old == {FirstMatch(l)} \ {Null}
  IN
  /\ r.pc = "delete"
  /\ fault' = LookUpFaults(TypeOf(l))
  /\ IF fault' THEN UNCHANGED <<heap, list, thr>>
     ELSE /\ list' = [list EXCEPT ![TypeOf(l)] =
                       IF old = {} THEN @ ELSE Erase(@, FirstMatch(l))]
          /\ Deleted(old)
          /\ Goes(t, At("swap", r.new, Null), old)
  /\ UNCHANGED <<lsa_seq_cnt, snap, freed, known>>

Push(t) ==
  LET r == thr[t] IN
  /\ r.pc \in {"push", "swap"}
  /\ list' = [list EXCEPT ![TypeOf(heap[r.new].lsa)] = Append(@, r.new)]
  /\ Goes(t, IF r.pc = "swap" THEN At("flood", r.new, Null) ELSE Done(t), {})
  /\ UNCHANGED <<heap, lsa_seq_cnt, snap, freed, known, fault>>

\* floodLSA packs the object, and sends it in some states of the interface.
Flood(t) ==
  LET r == thr[t] IN
  /\ r.pc = "flood"
  /\ fault' = r.stale
  /\ known' = known \/ (~r.stale /\ Sent(r.new))
  /\ Goes(t, Done(t), {})
  /\ UNCHANGED <<heap, list, lsa_seq_cnt, snap, freed>>

-----------------------------------------------------------------------------
(* buildTopology: a copy of the lists of pointers, and its destructor      *)

Snapshot ==
  /\ thr["lsr"].pc = "route"
  /\ snap' = Listed("router") \cup Listed("network")
  /\ thr' = [thr EXCEPT !["lsr"] = [At("routing", Null, Null) EXCEPT !.stale = freed # {}]]
  /\ UNCHANGED <<heap, list, lsa_seq_cnt, freed, known, fault>>

Destroy ==
  /\ thr["lsr"].pc = "routing"
  /\ fault' = thr["lsr"].stale
  /\ freed' = {y \in Types : Listed(y) \cap snap # {}}
  /\ Deleted(snap) /\ Goes("lsr", Idle, snap)
  /\ snap' = {}
  /\ UNCHANGED <<list, lsa_seq_cnt, known>>

-----------------------------------------------------------------------------
Init ==
  /\ heap = [a \in Addrs |-> Free]
  /\ list = [y \in Types |-> << >>]
  /\ lsa_seq_cnt = 0
  /\ thr = [t \in Threads |-> Idle]
  /\ snap = {} /\ freed = {} /\ fault = FALSE
  /\ known = {OwnRouter} \X Prior

ReceiverStep ==
  \/ AddLSA \/ Served \/ Summarize
  \/ \E l \in LSAs : Serve(l) \/ \E s \in Seqs : Receive(l, s)

OriginatorStep(t) ==
  \/ \E l \in Own : Originate(t, l)
  \/ FindOwn(t) \/ Compare(t) \/ Identify(t) \/ DelLSA(t)
  \/ Push(t) \/ Flood(t)

Next ==
  /\ ~fault
  /\ ReceiverStep \/ (\E t \in Threads : OriginatorStep(t)) \/ Snapshot \/ Destroy
  /\ lsa_seq_cnt' <= MaxSeq + 1

Spec == Init /\ [][Next]_vars

-----------------------------------------------------------------------------
(* Properties                                                              *)

\* Type invariant.
TypeOK ==
  /\ heap \in [Addrs -> Objects \cup {Free}]
  /\ list \in [Types -> Seq(Addrs)]
  /\ lsa_seq_cnt \in 0..MaxSeq + 1
  /\ thr \in [Threads -> ThreadType]
  /\ snap \subseteq Addrs /\ freed \subseteq Types
  /\ known \subseteq Own \X Seqs /\ fault \in BOOLEAN

\* However the threads interleave, a list holds no object twice, no object of
\* the other type, and none that was deleted: only the destructor of the
\* snapshot deletes what is listed.
ListsSound ==
  ~fault => \A y \in Types \ freed : \A i, j \in DOMAIN list[y] :
    /\ heap[list[y][i]] # Free /\ TypeOf(heap[list[y][i]].lsa) = y
    /\ list[y][i] = list[y][j] => i = j

\* The host's own LSA, once it is in the database, stays there: whoever takes
\* it out is about to put another instance in.
Kept(l) ==
  \/ Matches(l) # {}
  \/ \E t \in Threads : thr[t].pc = "swap" /\ heap[thr[t].new].lsa = l
OwnKept ==
  [][~fault' /\ freed' = {} => \A l \in Own : Kept(l) => Kept(l)']_vars

\* No origination puts an older own instance in the place of a newer one, also
\* not when two threads took their numbers in one order and get to the database
\* in the other: unless another thread removed the compared instance between the
\* comparison and the mutex, or an own instance is received back.
Instances(l) ==
  {heap[list[TypeOf(l)][i]].seq : i \in Matches(l)} \cup
  {heap[thr[t].new].seq : t \in {u \in Threads :
     thr[u].pc = "swap" /\ heap[thr[u].new].lsa = l}}
ReceivesBack(l) ==
  thr["receiver"].pc = "add" /\ thr'["receiver"].pc = "idle"
    /\ heap[thr["receiver"].new].lsa = l
Overtaken(l) ==
  \E t \in Threads : /\ thr[t].pc = "delete" /\ thr'[t].pc = "swap"
                     /\ heap[thr[t].new].lsa = l /\ thr[t].stale
NoneLost(l) == \A s \in Instances(l) : \E n \in Instances(l)' : n >= s
OwnNewestGrows ==
  [][~fault' /\ freed' = {} => \A l \in Own :
       ReceivesBack(l) \/ Overtaken(l) \/ NoneLost(l)]_vars

\* "it is a newer router lsa, insert to lsdb, remove old one": what an
\* origination removes is always older than what it inserts.
RemovesOlder ==
  [][\A t \in Threads :
       ~fault' /\ freed' = {} /\ thr[t].pc = "delete" /\ thr'[t].pc = "swap" =>
         LET l == heap[thr[t].new].lsa IN
         FirstMatch(l) # Null => Newer(thr[t].new, FirstMatch(l))]_vars

\* The LSAs of others are kept as LsaStore promises: one instance each, the
\* last that arrived, whatever the originators do in between.
Others == LSAs \ Own
Intact == ~fault /\ freed = {}
StoredInstance(l) ==
  IF Matches(l) = {} THEN Null
  ELSE IF \E i \in Matches(l) : Matches(l) = {i}
  THEN heap[FirstMatch(l)].seq
  ELSE Free
Store == INSTANCE LsaStore WITH
  LSAs <- Others, Missing <- Null,
  store <- [l \in Others |-> IF Intact THEN StoredInstance(l) ELSE Null],
  broken <- ~Intact
ImplementsStore == Store!Spec

\* "get the snapshot of current lsdb": working on a snapshot leaves the
\* database as it is.
DatabaseIntact == \A y \in Types : \A a \in Listed(y) : heap[a] # Free
=============================================================================
