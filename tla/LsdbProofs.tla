------------------------------ MODULE LsdbProofs ------------------------------
(***************************************************************************)
(* Proofs about Lsdb, for any LSAs, addresses and numbers.                 *)
(***************************************************************************)
EXTENDS Lsdb, SequenceTheorems, WellFoundedInduction, TLAPS

-----------------------------------------------------------------------------
(* The invariant                                                           *)

Elements(s) == {s[k] : k \in DOMAIN s}

Injective(s) == \A i, j \in DOMAIN s : s[i] = s[j] => i = j

Alive(a) == a \in Addrs /\ heap[a] # Free

\* What is listed was not deleted and is of the type of the list.
ListInv(y) ==
  y \notin freed =>
    /\ Injective(list[y])
    /\ \A a \in Listed(y) : Alive(a) /\ TypeOf(heap[a].lsa) = y

\* A thread that holds a new object has not listed it yet.
Holding     == {"add", "find", "compare", "push", "replace", "delete", "swap"}
Originating == {"find", "compare", "push", "replace", "delete", "swap"}

\* An originator that holds what its look-up returned.
Pointing == {"compare", "replace", "delete"}

\* What a thread's pointers refer to, as long as they are not stale.
ThreadInv(t) ==
  LET r == thr[t] IN
  /\ r.pc \in {"add", "serve"} => t = "receiver"
  /\ r.pc \in {"route", "routing"} => t = "lsr"
  /\ r.pc \in Holding =>
       Alive(r.new) /\ \A y \in Types \ freed : r.new \notin Listed(y)
  /\ r.pc \in Originating \/ (r.pc = "flood" /\ ~r.stale) =>
       Alive(r.new) /\ heap[r.new].lsa \in Own
  /\ r.pc \in {"serve"} \cup Pointing /\ ~r.stale => Alive(r.found)
  /\ r.pc \in Pointing /\ ~r.stale =>
       LET l == heap[r.found].lsa IN
       /\ l = heap[r.new].lsa
       /\ TypeOf(l) \notin freed => r.found \in Listed(TypeOf(l))
  /\ r.pc = "routing" /\ ~r.stale =>
       freed = {} /\ snap \subseteq Listed("router") \cup Listed("network")

\* No two threads hold one object.
Distinct ==
  \A t, u \in Threads :
    thr[t].pc \in Holding /\ thr[u].pc \in Holding /\ thr[t].new = thr[u].new => t = u

IInv ==
  /\ TypeOK
  /\ ~fault => /\ \A y \in Types : ListInv(y)
               /\ \A t \in Threads : ThreadInv(t)
               /\ Distinct

\* Of each LSA of another router one instance is listed; the look-up of the
\* receiver still holds when it gets the mutex, or is about own LSAs only.
One ==
  \A y \in Types : \A a, b \in Listed(y) :
    heap[a].lsa \in Others /\ heap[a].lsa = heap[b].lsa => a = b

LookUpHolds ==
  LET r == thr["receiver"]
      l == heap[r.new].lsa
  IN r.pc = "add" =>
       /\ l \in Others =>
            \/ r.found \in Listed(TypeOf(l)) /\ heap[r.found].lsa = l
            \/ r.found = Null /\ \A a \in Listed(TypeOf(l)) : heap[a].lsa # l
       /\ l \in Own /\ r.found # Null /\ heap[r.found] # Free =>
            heap[r.found].lsa \in Own

StoreInv == IInv /\ (Intact => One /\ LookUpHolds)

-----------------------------------------------------------------------------
(* Lists                                                                   *)

\* A set of positions that is not empty has a first one.
LEMMA FirstPosition ==
  ASSUME NEW S \in SUBSET Nat, S # {}
  PROVE  \E i \in S : \A j \in S : i <= j
<1>1. PICK i \in S : \A j \in S : ~ (<<j, i>> \in OpToRel(<, Nat))
  BY NatLessThanWellFounded, WFMin, Zenon
<1>2. ASSUME NEW j \in S, j < i PROVE FALSE
  <2>1. <<j, i>> \in OpToRel(<, Nat)
    BY <1>2, Zenon DEF OpToRel
  <2> QED
    BY <1>1, <2>1
<1> QED
  BY <1>2

\* Erase takes out one position, at which the address is.
LEMMA ErasePosition ==
  ASSUME NEW S, NEW s \in Seq(S), NEW a, \E i \in DOMAIN s : s[i] = a
  PROVE  \E p \in DOMAIN s :
           /\ s[p] = a
           /\ Erase(s, a) = SubSeq(s, 1, p - 1) \o SubSeq(s, p + 1, Len(s))
<1> DEFINE At_a == {i \in DOMAIN s : s[i] = a}
           First(i) == s[i] = a /\ \A j \in DOMAIN s : s[j] = a => i <= j
<1>1. At_a \in SUBSET Nat /\ At_a # {}
  OBVIOUS
<1>2. \E i \in At_a : \A j \in At_a : i <= j
  BY <1>1, FirstPosition
<1>3. \E i \in DOMAIN s : First(i)
  BY <1>2
<1> DEFINE p == CHOOSE i \in DOMAIN s : First(i)
<1>4. p \in DOMAIN s /\ First(p)
  BY <1>3
<1>5. Erase(s, a) = SubSeq(s, 1, p - 1) \o SubSeq(s, p + 1, Len(s))
  BY Zenon DEF Erase
<1> QED
  BY <1>4, <1>5

LEMMA EraseElements ==
  ASSUME NEW S, NEW s \in Seq(S), NEW p \in DOMAIN s
  PROVE  LET e == SubSeq(s, 1, p - 1) \o SubSeq(s, p + 1, Len(s)) IN
         /\ e \in Seq(S) /\ Len(e) = Len(s) - 1
         /\ \A k \in DOMAIN e : e[k] = IF k < p THEN s[k] ELSE s[k + 1]
<1> DEFINE u == SubSeq(s, 1, p - 1)   v == SubSeq(s, p + 1, Len(s))
<1>1. p \in 1..Len(s) /\ Len(s) \in Nat
  OBVIOUS
<1>2. /\ u \in Seq(S) /\ Len(u) = p - 1
      /\ \A k \in 1..(p - 1) : u[k] = s[k]
  BY <1>1
<1>3. /\ v \in Seq(S) /\ Len(v) = Len(s) - p
      /\ \A k \in 1..(Len(s) - p) : v[k] = s[k + p]
  BY <1>1
<1> HIDE DEF u, v
<1> DEFINE e == u \o v
<1>4. /\ e \in Seq(S) /\ Len(e) = Len(s) - 1 /\ DOMAIN e = 1..(Len(s) - 1)
      /\ \A k \in 1..(p - 1) : e[k] = u[k]
      /\ \A k \in p..(Len(s) - 1) : e[k] = v[k - (p - 1)]
  BY <1>1, <1>2, <1>3
<1>5. ASSUME NEW k \in 1..(Len(s) - 1)
      PROVE  e[k] = IF k < p THEN s[k] ELSE s[k + 1]
  <2>1. CASE k < p
    BY <1>1, <1>2, <1>4, <2>1
  <2>2. CASE k >= p
    <3> DEFINE n == k - (p - 1)
    <3>1. k \in p..(Len(s) - 1) /\ n \in 1..(Len(s) - p) /\ n + p = k + 1 /\ ~ (k < p)
      BY <1>1, <2>2
    <3>2. e[k] = v[n]
      BY <1>4, <3>1
    <3> HIDE DEF n
    <3>3. v[n] = s[n + p]
      BY <1>3, <3>1
    <3> QED
      BY <3>1, <3>2, <3>3
  <2>3. k < p \/ k >= p
    BY <1>1
  <2> HIDE DEF e
  <2> QED
    BY <2>1, <2>2, <2>3
<1> QED
  BY <1>4, <1>5 DEF u, v

\* A list loses the address it is asked to erase, and nothing else.
LEMMA EraseErases ==
  ASSUME NEW S, NEW s \in Seq(S), NEW a, \E i \in DOMAIN s : s[i] = a
  PROVE  /\ Erase(s, a) \in Seq(S)
         /\ Injective(s) =>
              /\ Injective(Erase(s, a))
              /\ Elements(Erase(s, a)) = Elements(s) \ {a}
<1>1. PICK p \in DOMAIN s :
        /\ s[p] = a
        /\ Erase(s, a) = SubSeq(s, 1, p - 1) \o SubSeq(s, p + 1, Len(s))
  BY ErasePosition
<1> DEFINE e == Erase(s, a)
           c == SubSeq(s, 1, p - 1) \o SubSeq(s, p + 1, Len(s))
<1> HIDE DEF e
<1>2. /\ e \in Seq(S) /\ Len(e) = Len(s) - 1
      /\ \A k \in DOMAIN e : e[k] = IF k < p THEN s[k] ELSE s[k + 1]
  <2>1. /\ c \in Seq(S) /\ Len(c) = Len(s) - 1
        /\ \A k \in DOMAIN c : c[k] = IF k < p THEN s[k] ELSE s[k + 1]
    BY EraseElements
  <2>2. e = c
    BY <1>1 DEF e
  <2> HIDE DEF c
  <2> QED
    BY <2>1, <2>2
<1> HIDE DEF c
<1>3. /\ Len(s) \in Nat /\ DOMAIN s = 1..Len(s) /\ DOMAIN e = 1..(Len(s) - 1)
      /\ p \in 1..Len(s)
  BY <1>2
<1>4. ASSUME Injective(s) PROVE Injective(e)
  <2> SUFFICES ASSUME NEW i \in DOMAIN e, NEW j \in DOMAIN e, e[i] = e[j] PROVE i = j
    BY DEF Injective
  <2> QED
    BY <1>2, <1>3, <1>4 DEF Injective
<1>5. ASSUME Injective(s), NEW k \in DOMAIN e PROVE e[k] \in Elements(s) \ {a}
  <2>1. PICK i \in DOMAIN s : i # p /\ e[k] = s[i]
    <3>1. CASE k < p
      BY <1>2, <1>3, <3>1
    <3>2. CASE ~ (k < p)
      <4>1. k + 1 \in DOMAIN s /\ k + 1 # p /\ e[k] = s[k + 1]
        BY <1>2, <1>3, <3>2
      <4> QED
        BY <4>1
    <3> QED
      BY <3>1, <3>2
  <2>2. s[i] # a
    BY <1>1, <1>5, <2>1 DEF Injective
  <2> QED
    BY <2>1, <2>2 DEF Elements
<1>6. ASSUME NEW k \in DOMAIN s, s[k] # a PROVE \E i \in DOMAIN e : e[i] = s[k]
  <2>1. CASE k < p
    <3>1. k \in DOMAIN e
      BY <1>3, <2>1
    <3> QED
      BY <1>2, <2>1, <3>1
  <2>2. CASE k > p
    <3>1. k - 1 \in DOMAIN e /\ ~ (k - 1 < p) /\ (k - 1) + 1 = k
      BY <1>3, <2>2
    <3> QED
      BY <1>2, <3>1
  <2> QED
    BY <1>1, <1>3, <1>6, <2>1, <2>2
<1>7. Injective(s) => Elements(e) = Elements(s) \ {a}
  BY <1>5, <1>6 DEF Elements
<1> QED
  BY <1>2, <1>4, <1>7 DEF e

LEMMA AppendElements ==
  ASSUME NEW S, NEW s \in Seq(S), NEW a \in S
  PROVE  LET e == Append(s, a) IN
         /\ e \in Seq(S)
         /\ Elements(e) = Elements(s) \cup {a}
         /\ Injective(s) /\ a \notin Elements(s) => Injective(e)
<1> DEFINE e == Append(s, a)
<1>1. /\ e \in Seq(S) /\ Len(e) = Len(s) + 1 /\ e[Len(s) + 1] = a /\ Len(s) \in Nat
      /\ \A k \in 1..Len(s) : e[k] = s[k]
      /\ DOMAIN s = 1..Len(s) /\ DOMAIN e = 1..(Len(s) + 1)
  OBVIOUS
<1> HIDE DEF e
<1>2. \A k \in DOMAIN e : k \in DOMAIN s \/ k = Len(s) + 1
  BY <1>1
<1>3. Elements(e) = Elements(s) \cup {a}
  <2>1. \A k \in DOMAIN e : e[k] \in Elements(s) \cup {a}
    BY <1>1, <1>2 DEF Elements
  <2>2. \A k \in DOMAIN s : k \in DOMAIN e /\ e[k] = s[k]
    BY <1>1
  <2>3. Len(s) + 1 \in DOMAIN e
    BY <1>1
  <2> QED
    BY <1>1, <2>1, <2>2, <2>3 DEF Elements
<1>4. ASSUME Injective(s), a \notin Elements(s) PROVE Injective(e)
  BY <1>1, <1>2, <1>4 DEF Injective, Elements
<1> QED
  BY <1>1, <1>3, <1>4 DEF e

\* FirstMatch finds an object of the LSA in its list, if there is one.
LEMMA FirstMatchFinds ==
  ASSUME TypeOK, NEW l \in LSAs
  PROVE  LET f == FirstMatch(l)   y == TypeOf(l) IN
         /\ f = Null => \A a \in Listed(y) : heap[a] # Free => heap[a].lsa # l
         /\ f # Null => /\ f \in Listed(y) /\ f \in Addrs
                        /\ heap[f] # Free /\ heap[f].lsa = l
<1> DEFINE f == FirstMatch(l)   y == TypeOf(l)
<1>1. y \in Types /\ list[y] \in Seq(Addrs)
  BY DEF TypeOf, Types, TypeOK
<1> HIDE DEF y
<1>2. Matches(l) = {i \in DOMAIN list[y] : heap[list[y][i]] # Free /\ heap[list[y][i]].lsa = l}
  BY DEF Matches, y
<1>3. CASE Matches(l) = {}
  <2>1. f = Null
    BY <1>3 DEF FirstMatch
  <2>2. ASSUME NEW a \in Listed(y), heap[a] # Free PROVE heap[a].lsa # l
    BY <1>2, <1>3, <2>2 DEF Listed
  <2> HIDE DEF f
  <2> QED
    BY <2>1, <2>2 DEF y, f
<1>4. CASE Matches(l) # {}
  <2>1. Matches(l) \in SUBSET Nat
    BY <1>1, <1>2
  <2>2. \E i \in Matches(l) : \A j \in Matches(l) : i <= j
    BY <1>4, <2>1, FirstPosition
  <2> DEFINE i == CHOOSE i \in Matches(l) : \A j \in Matches(l) : i <= j
  <2>3. i \in Matches(l)
    BY <2>2
  <2>4. f = list[y][i]
    BY <1>4 DEF FirstMatch, y
  <2> HIDE DEF i, f
  <2>5. f \in Listed(y) /\ f \in Addrs /\ heap[f] # Free /\ heap[f].lsa = l
    BY <1>1, <1>2, <2>3, <2>4 DEF Listed
  <2> QED
    BY <2>5, LsdbAssumption DEF f, y
<1> QED
  BY <1>3, <1>4 DEF y

-----------------------------------------------------------------------------
(* A step of one thread                                                    *)

LEMMA GoesOn ==
  ASSUME TypeOK, NEW t \in Threads, NEW r \in ThreadType, NEW A, Goes(t, r, A)
  PROVE  /\ thr' \in [Threads -> ThreadType] /\ thr'[t] = r
         /\ \A u \in Threads \ {t} :
              /\ thr'[u].pc = thr[u].pc /\ thr'[u].new = thr[u].new
              /\ thr'[u].found = thr[u].found
              /\ thr'[u].stale = (thr[u].stale \/ Uses(u) \cap A # {})
<1>1. \A u \in Threads : thr[u] \in ThreadType
  BY DEF TypeOK
<1>2. \A u \in Threads :
        thr'[u] = IF u = t THEN r ELSE [thr[u] EXCEPT !.stale = @ \/ Uses(u) \cap A # {}]
  BY DEF Goes
<1>3. ASSUME NEW u \in Threads, u # t
      PROVE  /\ thr'[u] \in ThreadType
             /\ thr'[u].pc = thr[u].pc /\ thr'[u].new = thr[u].new
             /\ thr'[u].found = thr[u].found
             /\ thr'[u].stale = (thr[u].stale \/ Uses(u) \cap A # {})
  <2> DEFINE b == thr[u].stale \/ Uses(u) \cap A # {}
  <2>1. b \in BOOLEAN /\ thr'[u] = [thr[u] EXCEPT !.stale = b]
    BY <1>1, <1>2, <1>3 DEF ThreadType
  <2> HIDE DEF b
  <2>2. /\ thr'[u] \in ThreadType /\ thr'[u].stale = b
        /\ thr'[u].pc = thr[u].pc /\ thr'[u].new = thr[u].new /\ thr'[u].found = thr[u].found
    BY <1>1, <2>1 DEF ThreadType
  <2> QED
    BY <2>2 DEF b
<1>4. thr'[t] = r
  BY <1>2
<1>5. DOMAIN thr' = Threads /\ thr' = [u \in Threads |-> thr'[u]]
  BY DEF Goes
<1>6. \A u \in Threads : thr'[u] \in ThreadType
  BY <1>3, <1>4
<1> QED
  BY <1>3, <1>4, <1>5, <1>6

\* Thread t goes on as r and deletes the objects in A, none of which another
\* thread holds, and the lists lose no more than A and gain no more than what t
\* held.
LEMMA OneThread ==
  ASSUME IInv, ~fault, NEW t \in Threads, NEW r \in ThreadType, NEW A, Goes(t, r, A),
         TypeOK', ThreadInv(t)',
         \A a \in Addrs : heap[a] # Free /\ a \notin A => heap'[a] = heap[a],
         \A u \in Threads \ {t} : thr[u].pc \in Holding => thr[u].new \notin A,
         \A y \in Types \ freed' :
           /\ y \notin freed /\ ListInv(y)'
           /\ Listed(y) \ A \subseteq Listed(y)'
           /\ Listed(y)' \subseteq
                Listed(y) \cup {a \in {thr[t].new} : thr[t].pc \in Holding},
         t # "lsr" => snap' = snap /\ freed' = freed,
         r.pc \in Holding =>
           \/ heap[r.new] = Free
           \/ thr[t].pc \in Holding /\ r.new = thr[t].new
  PROVE  IInv'
<1>1. /\ thr'[t] = r
      /\ \A u \in Threads \ {t} :
           /\ thr'[u].pc = thr[u].pc /\ thr'[u].new = thr[u].new
           /\ thr'[u].found = thr[u].found
           /\ thr'[u].stale = (thr[u].stale \/ Uses(u) \cap A # {})
  BY GoesOn DEF IInv
<1>2. /\ \A u \in Threads : ThreadInv(u) /\ thr[u] \in ThreadType
      /\ Distinct
  BY DEF IInv, TypeOK
<1>3. ASSUME NEW u \in Threads, u # t PROVE ThreadInv(u)'
  <2> DEFINE q == thr[u]
  <2>1. /\ q.pc \in {"add", "serve"} => u = "receiver"
        /\ q.pc \in {"route", "routing"} => u = "lsr"
        /\ q.pc \in Holding =>
             Alive(q.new) /\ \A y \in Types \ freed : q.new \notin Listed(y)
        /\ q.pc \in Originating \/ (q.pc = "flood" /\ ~q.stale) =>
             Alive(q.new) /\ heap[q.new].lsa \in Own
        /\ q.pc \in {"serve"} \cup Pointing /\ ~q.stale => Alive(q.found)
        /\ q.pc \in Pointing /\ ~q.stale =>
             LET l == heap[q.found].lsa IN
             /\ l = heap[q.new].lsa
             /\ TypeOf(l) \notin freed => q.found \in Listed(TypeOf(l))
        /\ q.pc = "routing" /\ ~q.stale =>
             freed = {} /\ snap \subseteq Listed("router") \cup Listed("network")
    BY <1>2 DEF ThreadInv
  <2> DEFINE p == thr'[u]
  <2>2. /\ p.pc = q.pc /\ p.new = q.new /\ p.found = q.found
        /\ ~p.stale => ~q.stale /\ Uses(u) \cap A = {}
    BY <1>1, <1>3
  <2> HIDE DEF p
  <2>3. q.pc \in Holding => q.new \notin A /\ Alive(q.new) /\ heap'[q.new] = heap[q.new]
    BY <1>3, <2>1 DEF Alive
  <2>4. q.pc \in Holding => \A y \in Types \ freed' : q.new \notin Listed(y)'
    <3> SUFFICES ASSUME q.pc \in Holding, NEW y \in Types \ freed', q.new \in Listed(y)'
                 PROVE  FALSE
      OBVIOUS
    <3>1. q.new \notin Listed(y)
      BY <2>1
    <3>2. q.new = thr[t].new /\ thr[t].pc \in Holding
      BY <3>1
    <3> QED
      BY <1>2, <1>3, <3>2 DEF Distinct
  <2>5. q.pc = "flood" /\ ~p.stale => q.new \notin A /\ Alive(q.new) /\ heap'[q.new] = heap[q.new]
    BY <2>1, <2>2 DEF Uses, Alive
  <2>6. q.pc \in {"serve"} \cup Pointing /\ ~p.stale =>
          q.found \notin A /\ Alive(q.found) /\ heap'[q.found] = heap[q.found]
    BY <2>1, <2>2 DEF Uses, Alive, Pointing
  <2>7. ASSUME q.pc \in Pointing, ~p.stale,
               NEW y \in Types \ freed', y = TypeOf(heap[q.found].lsa)
        PROVE  q.found \in Listed(y)'
    <3>1. q.found \in Listed(y)
      BY <2>1, <2>2, <2>7
    <3> QED
      BY <2>6, <2>7, <3>1
  <2>8. q.pc = "routing" /\ ~p.stale =>
          freed' = {} /\ snap' \subseteq Listed("router")' \cup Listed("network")'
    <3> SUFFICES ASSUME q.pc = "routing", ~p.stale
                 PROVE  freed' = {} /\ snap' \subseteq Listed("router")' \cup Listed("network")'
      OBVIOUS
    <3>1. u = "lsr" /\ snap' = snap /\ freed' = freed
      BY <1>3, <2>1
    <3>2. snap \cap A = {} /\ freed = {} /\ snap \subseteq Listed("router") \cup Listed("network")
      BY <2>1, <2>2 DEF Uses
    <3> QED
      BY <3>1, <3>2 DEF Types
  <2>9. Originating \subseteq Holding /\ Pointing \subseteq Holding
    BY DEF Originating, Holding, Pointing
  <2>10. p.pc \in Holding =>
           /\ p.new \in Addrs /\ heap'[p.new] # Free
           /\ \A y \in Types \ freed' : p.new \notin Listed(y)'
    BY <2>2, <2>3, <2>4 DEF Alive
  <2>11. p.pc \in Originating \/ (p.pc = "flood" /\ ~p.stale) =>
           p.new \in Addrs /\ heap'[p.new] # Free /\ heap'[p.new].lsa \in Own
    BY <2>1, <2>2, <2>3, <2>5, <2>9 DEF Alive
  <2>12. p.pc \in {"serve"} \cup Pointing /\ ~p.stale => p.found \in Addrs /\ heap'[p.found] # Free
    BY <2>2, <2>6 DEF Alive
  <2>13. p.pc \in Pointing /\ ~p.stale =>
           /\ heap'[p.found].lsa = heap'[p.new].lsa
           /\ \A y \in Types \ freed' :
                y = TypeOf(heap'[p.found].lsa) => p.found \in Listed(y)'
    BY <2>1, <2>2, <2>3, <2>6, <2>7, <2>9
  <2>14. \A l : TypeOf(l) \in Types
    BY DEF TypeOf, Types
  <2>15. p.pc \in Pointing /\ ~p.stale =>
           LET l == heap'[p.found].lsa IN
           /\ l = heap'[p.new].lsa
           /\ TypeOf(l) \notin freed' =>
                p.found \in {list'[TypeOf(l)][i] : i \in DOMAIN list'[TypeOf(l)]}
    <3> SUFFICES ASSUME p.pc \in Pointing, ~p.stale,
                        NEW y \in Types \ freed', y = TypeOf(heap'[p.found].lsa)
                 PROVE  p.found \in {list'[y][i] : i \in DOMAIN list'[y]}
      BY <2>13, <2>14
    <3> QED
      BY <2>13 DEF Listed
  <2>16. /\ p.pc \in {"add", "serve"} => u = "receiver"
         /\ p.pc \in {"route", "routing"} => u = "lsr"
         /\ p.pc = "routing" /\ ~p.stale =>
              freed' = {} /\ snap' \subseteq Listed("router")' \cup Listed("network")'
    BY <2>1, <2>2, <2>8
  <2> QED
    BY <2>10, <2>11, <2>12, <2>15, <2>16 DEF ThreadInv, Alive, Listed, TypeOf, p
<1>4. Distinct'
  <2> SUFFICES ASSUME NEW u \in Threads, NEW w \in Threads, u # w,
                      thr'[u].pc \in Holding, thr'[w].pc \in Holding,
                      thr'[u].new = thr'[w].new
               PROVE  FALSE
    BY DEF Distinct
  <2>1. ASSUME NEW x \in Threads, x # t, thr'[x].pc \in Holding, r.pc \in Holding,
               thr'[x].new = r.new
        PROVE  FALSE
    <3>1. thr[x].pc \in Holding /\ thr[x].new = r.new /\ heap[r.new] # Free
      BY <1>1, <1>2, <2>1 DEF ThreadInv, Alive
    <3> QED
      BY <1>2, <2>1, <3>1 DEF Distinct
  <2>2. CASE u = t
    BY <1>1, <2>1, <2>2
  <2>3. CASE w = t
    BY <1>1, <2>1, <2>3
  <2>4. CASE u # t /\ w # t
    BY <1>1, <1>2, <2>4 DEF Distinct
  <2> QED
    BY <2>2, <2>3, <2>4
<1>5. \A y \in Types : ListInv(y)'
  BY DEF ListInv
<1>6. \A u \in Threads : ThreadInv(u)'
  BY <1>3
<1> QED
  BY <1>4, <1>5, <1>6 DEF IInv

\* A step that leaves the lists and the objects that are there alone.
LEMMA QuietThread ==
  ASSUME IInv, ~fault, NEW t \in Threads, NEW r \in ThreadType, Goes(t, r, {}),
         TypeOK', ThreadInv(t)', list' = list, freed' = freed,
         \A a \in Addrs : heap[a] # Free => heap'[a] = heap[a],
         t # "lsr" => snap' = snap,
         r.pc \in Holding =>
           \/ heap[r.new] = Free
           \/ thr[t].pc \in Holding /\ r.new = thr[t].new
  PROVE  IInv'
<1>1. ASSUME NEW y \in Types \ freed' PROVE ListInv(y)' /\ Listed(y)' = Listed(y)
  <2>1. ListInv(y) /\ y \notin freed
    BY DEF IInv
  <2>2. Listed(y)' = Listed(y) /\ Injective(list'[y])
    BY <2>1 DEF Listed, ListInv
  <2>3. \A a \in Listed(y) : a \in Addrs /\ heap'[a] # Free /\ TypeOf(heap'[a].lsa) = y
    BY <2>1 DEF ListInv, Alive
  <2> QED
    BY <2>2, <2>3 DEF ListInv, Alive, TypeOf
<1>2. \A y \in Types \ freed' :
        /\ y \notin freed /\ ListInv(y)'
        /\ Listed(y) \ {} \subseteq Listed(y)'
        /\ Listed(y)' \subseteq Listed(y) \cup {a \in {thr[t].new} : thr[t].pc \in Holding}
  BY <1>1
<1> QED
  BY <1>2, OneThread

LEMMA AtType ==
  ASSUME NEW pc \in {"idle", "add", "serve", "find", "compare", "push", "replace",
                     "delete", "swap", "flood", "route", "routing"},
         NEW new \in Addrs \cup {Null}, NEW found \in Addrs \cup {Null}
  PROVE  /\ At(pc, new, found) \in ThreadType
         /\ At(pc, new, found).pc = pc /\ At(pc, new, found).new = new
         /\ At(pc, new, found).found = found /\ ~At(pc, new, found).stale
BY DEF At, ThreadType

LEMMA DoneType ==
  ASSUME NEW t \in Threads
  PROVE  /\ Done(t) \in ThreadType /\ Done(t).pc \notin Holding
         /\ Done(t).pc = IF t = "lsr" THEN "route" ELSE "idle"
BY DEF Done, Idle, At, ThreadType, Holding

\* A look-up returns an address of the list, or none.
LEMMA FoundType ==
  ASSUME TypeOK, NEW l \in LSAs
  PROVE  FirstMatch(l) \in Addrs \cup {Null}
BY FirstMatchFinds

LEMMA OwnType == Own \subseteq LSAs
BY LsdbAssumption DEF Own

-----------------------------------------------------------------------------
(* The steps                                                               *)

\* What a thread held is an object, and what was allocated is a new one.
LEMMA NewObject ==
  ASSUME IInv, ~fault, NEW a \in Addrs, NEW l \in LSAs, NEW s \in Seqs, Allocated(a, l, s)
  PROVE  /\ heap' \in [Addrs -> Objects \cup {Free}]
         /\ heap[a] = Free /\ heap'[a] # Free /\ heap'[a].lsa = l
         /\ \A b \in Addrs : heap[b] # Free => heap'[b] = heap[b]
         /\ \A y \in Types \ freed : a \notin Listed(y)
<1> DEFINE o == [lsa |-> l, seq |-> s]
<1>1. o \in Objects /\ o.lsa = l
  BY DEF Objects
<1>2. o # Free
  BY <1>1, HeapAssumption
<1>3. heap \in [Addrs -> Objects \cup {Free}] /\ heap[a] = Free /\ heap' = [heap EXCEPT ![a] = o]
  BY DEF Allocated, IInv, TypeOK
<1> HIDE DEF o
<1>4. \A y \in Types \ freed : a \notin Listed(y)
  BY <1>3 DEF IInv, ListInv, Alive
<1> QED
  BY <1>1, <1>2, <1>3, <1>4

LEMMA ReceiveStep ==
  ASSUME IInv, ~fault, NEW l \in LSAs, NEW s \in Seqs, Receive(l, s)
  PROVE  IInv'
<1> DEFINE t == "receiver"
<1>1. PICK a \in Addrs : Allocated(a, l, s) /\ Goes(t, At("add", a, FirstMatch(l)), {})
  BY DEF Receive
<1> DEFINE r == At("add", a, FirstMatch(l))
<1>2. r \in ThreadType /\ r.pc = "add" /\ r.new = a /\ t \in Threads /\ TypeOK
  BY AtType, FoundType DEF IInv, Threads
<1>3. /\ heap' \in [Addrs -> Objects \cup {Free}]
      /\ heap[a] = Free /\ heap'[a] # Free /\ heap'[a].lsa = l
      /\ \A b \in Addrs : heap[b] # Free => heap'[b] = heap[b]
      /\ \A y \in Types \ freed : a \notin Listed(y)
  BY <1>1, NewObject
<1> HIDE DEF r
<1>4. thr' \in [Threads -> ThreadType] /\ thr'[t] = r
  BY <1>1, <1>2, GoesOn DEF r
<1>5. UNCHANGED <<list, lsa_seq_cnt, snap, freed, known>> /\ fault' \in BOOLEAN
  BY DEF Receive, LookUpFaults
<1>6. TypeOK'
  BY <1>2, <1>3, <1>4, <1>5 DEF TypeOK
<1>7. ThreadInv(t)'
  BY <1>2, <1>3, <1>4, <1>5 DEF ThreadInv, Alive, Listed, Holding, Originating, Pointing
<1> QED
  BY <1>1, <1>2, <1>3, <1>5, <1>6, <1>7, QuietThread DEF r

LEMMA OriginateStep ==
  ASSUME IInv, ~fault, NEW t \in Threads, NEW l \in Own, Originate(t, l),
         lsa_seq_cnt' <= MaxSeq + 1
  PROVE  IInv'
<1>1. PICK a \in Addrs : Allocated(a, l, lsa_seq_cnt) /\ Goes(t, At("find", a, Null), {})
  BY DEF Originate
<1> DEFINE r == At("find", a, Null)
<1>2. r \in ThreadType /\ r.pc = "find" /\ r.new = a /\ l \in LSAs /\ TypeOK
  BY AtType, OwnType DEF IInv
<1>3. lsa_seq_cnt \in Seqs /\ lsa_seq_cnt' \in 0..MaxSeq + 1
  BY <1>2, LsdbAssumption DEF Originate, TypeOK, Seqs
<1>4. /\ heap' \in [Addrs -> Objects \cup {Free}]
      /\ heap[a] = Free /\ heap'[a] # Free /\ heap'[a].lsa = l
      /\ \A b \in Addrs : heap[b] # Free => heap'[b] = heap[b]
      /\ \A y \in Types \ freed : a \notin Listed(y)
  BY <1>1, <1>2, <1>3, NewObject
<1> HIDE DEF r
<1>5. thr' \in [Threads -> ThreadType] /\ thr'[t] = r
  BY <1>1, <1>2, GoesOn DEF r
<1>6. UNCHANGED <<list, snap, freed, known, fault>>
  BY DEF Originate
<1>7. TypeOK'
  BY <1>2, <1>3, <1>4, <1>5, <1>6 DEF TypeOK
<1>8. ThreadInv(t)'
  BY <1>2, <1>4, <1>5, <1>6 DEF ThreadInv, Alive, Listed, Holding, Originating, Pointing
<1> QED
  BY <1>1, <1>2, <1>4, <1>6, <1>7, <1>8, QuietThread DEF r

LEMMA ServeStep ==
  ASSUME IInv, ~fault, NEW l \in LSAs, Serve(l)
  PROVE  IInv'
<1> DEFINE t == "receiver"
           r == At("serve", Null, FirstMatch(l))
<1>1. UNCHANGED <<heap, list, lsa_seq_cnt, snap, freed, known>> /\ TypeOK
  BY DEF Serve, IInv
<1>2. CASE LookUpFaults(TypeOf(l))
  <2>1. fault' = TRUE /\ thr' = thr
    BY <1>2 DEF Serve
  <2> QED
    BY <1>1, <2>1 DEF IInv, TypeOK
<1>3. CASE ~LookUpFaults(TypeOf(l))
  <2>1. FirstMatch(l) # Null /\ Goes(t, r, {}) /\ fault' = fault
    BY <1>3 DEF Serve
  <2>2. /\ r \in ThreadType /\ r.pc = "serve" /\ r.found = FirstMatch(l) /\ t \in Threads
        /\ FirstMatch(l) \in Addrs /\ heap[FirstMatch(l)] # Free
    BY <1>1, <2>1, AtType, FoundType, FirstMatchFinds DEF Threads
  <2> HIDE DEF r
  <2>3. thr' \in [Threads -> ThreadType] /\ thr'[t] = r
    BY <1>1, <2>1, <2>2, GoesOn
  <2>4. TypeOK'
    BY <1>1, <2>1, <2>3 DEF TypeOK
  <2>5. ThreadInv(t)'
    BY <1>1, <2>2, <2>3 DEF ThreadInv, Alive, Holding, Originating, Pointing
  <2> QED
    BY <1>1, <2>1, <2>2, <2>4, <2>5, QuietThread DEF Holding
<1> QED
  BY <1>2, <1>3

LEMMA ServedStep ==
  ASSUME IInv, ~fault, Served
  PROVE  IInv'
<1> DEFINE t == "receiver"
           q == thr[t]
<1>1. /\ UNCHANGED <<heap, list, lsa_seq_cnt, snap, freed>> /\ TypeOK /\ t \in Threads
      /\ q.pc = "serve" /\ Goes(t, Idle, {}) /\ fault' = q.stale
  BY DEF Served, IInv, Threads
<1>2. ThreadInv(t) /\ q \in ThreadType
  BY <1>1 DEF IInv, TypeOK
<1>3. known' \subseteq Own \X Seqs
  <2>1. CASE q.stale \/ heap[q.found].lsa \notin Own
    BY <1>1, <2>1 DEF Served, TypeOK
  <2>2. CASE ~q.stale /\ heap[q.found].lsa \in Own
    <3>1. q.found \in Addrs /\ heap[q.found] # Free
      BY <1>1, <1>2, <2>2 DEF ThreadInv, Alive
    <3>2. heap[q.found] \in Objects
      BY <1>1, <3>1 DEF TypeOK
    <3>3. known' = known \cup {<<heap[q.found].lsa, heap[q.found].seq>>}
      BY <2>2 DEF Served, Sent
    <3> QED
      BY <1>1, <2>2, <3>2, <3>3 DEF TypeOK, Objects
  <2> QED
    BY <2>1, <2>2
<1>4. Idle \in ThreadType /\ Idle.pc = "idle"
  BY AtType DEF Idle
<1>5. thr' \in [Threads -> ThreadType] /\ thr'[t] = Idle
  BY <1>1, <1>4, GoesOn
<1>6. TypeOK'
  BY <1>1, <1>2, <1>3, <1>5 DEF TypeOK, ThreadType
<1>7. ThreadInv(t)'
  BY <1>4, <1>5 DEF ThreadInv, Holding, Originating, Pointing
<1> QED
  BY <1>1, <1>4, <1>6, <1>7, QuietThread DEF Holding

LEMMA FindOwnStep ==
  ASSUME IInv, ~fault, NEW t \in Threads, FindOwn(t)
  PROVE  IInv'
<1> DEFINE q == thr[t]
           l == heap[q.new].lsa
<1>1. /\ UNCHANGED <<heap, list, lsa_seq_cnt, snap, freed, known>> /\ TypeOK
      /\ q.pc = "find" /\ fault' = LookUpFaults(TypeOf(l))
  BY DEF FindOwn, IInv
<1>2. q.new \in Addrs /\ Alive(q.new) /\ l \in Own /\ l \in LSAs
      /\ \A y \in Types \ freed : q.new \notin Listed(y)
  BY <1>1, OwnType DEF IInv, ThreadInv, Alive, Originating, Holding
<1> DEFINE found == IF l = OwnNetwork /\ ~IdIsAddress THEN Null ELSE FirstMatch(l)
           r == At(IF found = Null THEN "push" ELSE "compare", q.new, found)
<1>3. Goes(t, r, {})
  BY DEF FindOwn
<1>4. found # Null => /\ found \in Addrs /\ heap[found] # Free
                      /\ heap[found].lsa = l /\ found \in Listed(TypeOf(l))
  BY <1>1, <1>2, FirstMatchFinds
<1> HIDE DEF found
<1>5. /\ r \in ThreadType /\ r.new = q.new
      /\ \/ r.pc = "push"
         \/ r.pc = "compare" /\ r.found = found /\ found # Null
  BY <1>2, <1>4, AtType
<1> HIDE DEF r, q
<1>6. thr' \in [Threads -> ThreadType] /\ thr'[t] = r
  BY <1>1, <1>3, <1>5, GoesOn
<1>7. TypeOK'
  BY <1>1, <1>6 DEF TypeOK, LookUpFaults
<1>8. ThreadInv(t)'
  BY <1>1, <1>2, <1>4, <1>5, <1>6
     DEF ThreadInv, Alive, Listed, Holding, Originating, Pointing, TypeOf
<1>9. r.pc \in Holding => q.pc \in Holding /\ r.new = q.new
  BY <1>1, <1>5 DEF Holding, Originating
<1> QED
  BY <1>1, <1>3, <1>5, <1>7, <1>8, <1>9, QuietThread DEF q

\* A step from a look-up on that leaves lists and objects alone.
LEMMA PointingStep ==
  ASSUME IInv, ~fault, NEW t \in Threads, thr[t].pc \in Pointing, ~thr[t].stale,
         NEW r \in ThreadType, Goes(t, r, {}), fault' = FALSE,
         UNCHANGED <<heap, list, lsa_seq_cnt, snap, freed, known>>,
         \/ r.pc = "push" /\ r.new = thr[t].new
         \/ r.pc \in Pointing /\ r.new = thr[t].new /\ r.found = thr[t].found
         \/ r.pc = (IF t = "lsr" THEN "route" ELSE "idle")
  PROVE  IInv'
<1> DEFINE q == thr[t]
<1>1. TypeOK /\ q.pc \in Holding /\ q.pc \in Originating
  BY DEF IInv, Holding, Originating, Pointing
<1>2. /\ q.new \in Addrs /\ Alive(q.new) /\ heap[q.new].lsa \in Own
      /\ \A y \in Types \ freed : q.new \notin Listed(y)
      /\ Alive(q.found) /\ heap[q.found].lsa = heap[q.new].lsa
      /\ TypeOf(heap[q.found].lsa) \notin freed => q.found \in Listed(TypeOf(heap[q.found].lsa))
  BY <1>1 DEF IInv, ThreadInv, Alive
<1> HIDE DEF q
<1>3. thr' \in [Threads -> ThreadType] /\ thr'[t] = r
  BY <1>1, GoesOn
<1>4. TypeOK'
  BY <1>1, <1>3 DEF TypeOK
<1>5. ThreadInv(t)'
  BY <1>2, <1>3 DEF ThreadInv, Alive, Listed, Holding, Originating, Pointing, TypeOf, q
<1>6. r.pc \in Holding => q.pc \in Holding /\ r.new = q.new
  BY <1>1 DEF Holding, Originating, q
<1> QED
  BY <1>1, <1>4, <1>5, <1>6, QuietThread DEF q

LEMMA FaultStep ==
  ASSUME IInv, thr' \in [Threads -> ThreadType], fault' = TRUE,
         UNCHANGED <<heap, list, lsa_seq_cnt, snap, freed, known>>
  PROVE  IInv'
BY DEF IInv, TypeOK

\* How a comparison ends.
LEMMA CompareGoes ==
  ASSUME IInv, ~fault, NEW t \in Threads, Compare(t), ~fault'
  PROVE  \E r \in ThreadType :
           /\ Goes(t, r, {}) /\ ~thr[t].stale
           /\ \/ r.pc = "push" /\ r.new = thr[t].new
              \/ r = At("replace", thr[t].new, thr[t].found)
                 /\ Newer(thr[t].new, thr[t].found)
              \/ r.pc = (IF t = "lsr" THEN "route" ELSE "idle")
<1> DEFINE q == thr[t]
<1>1. /\ q.pc = "compare" /\ q \in ThreadType /\ ~q.stale
  BY DEF Compare, IInv, TypeOK, ThreadType
<1>2. PICK equal \in BOOLEAN :
        Goes(t, IF ~equal THEN At("push", q.new, Null)
                ELSE IF Newer(q.new, q.found) THEN At("replace", q.new, q.found)
                ELSE Done(t), {})
  BY <1>1 DEF Compare
<1> DEFINE r == IF ~equal THEN At("push", q.new, Null)
                ELSE IF Newer(q.new, q.found) THEN At("replace", q.new, q.found)
                ELSE Done(t)
<1>3. q.new \in Addrs /\ q.found \in Addrs \cup {Null}
  <2>1. q.pc \in Holding
    BY <1>1 DEF Holding, Originating
  <2> QED
    BY <1>1, <2>1 DEF IInv, ThreadInv, Alive, ThreadType
<1> HIDE DEF q
<1>4. /\ r \in ThreadType
      /\ \/ r.pc = "push" /\ r.new = q.new
         \/ r = At("replace", q.new, q.found) /\ Newer(q.new, q.found)
         \/ r.pc = (IF t = "lsr" THEN "route" ELSE "idle")
  BY <1>3, AtType, DoneType
<1> QED
  BY <1>1, <1>2, <1>4 DEF q

LEMMA CompareStep ==
  ASSUME IInv, ~fault, NEW t \in Threads, Compare(t)
  PROVE  IInv'
<1>1. /\ UNCHANGED <<heap, list, lsa_seq_cnt, snap, freed, known>> /\ TypeOK
      /\ thr[t].pc = "compare" /\ thr[t] \in ThreadType /\ fault' = thr[t].stale
  BY DEF Compare, IInv, TypeOK
<1>2. CASE fault'
  BY <1>1, <1>2, FaultStep DEF Compare, TypeOK, ThreadType
<1>3. CASE ~fault'
  <2>1. PICK r \in ThreadType :
          /\ Goes(t, r, {}) /\ ~thr[t].stale
          /\ \/ r.pc = "push" /\ r.new = thr[t].new
             \/ r = At("replace", thr[t].new, thr[t].found)
             \/ r.pc = (IF t = "lsr" THEN "route" ELSE "idle")
    BY <1>3, CompareGoes
  <2>2. /\ thr[t].pc \in Pointing /\ fault' = FALSE
        /\ \/ r.pc = "push" /\ r.new = thr[t].new
           \/ r.pc \in Pointing /\ r.new = thr[t].new /\ r.found = thr[t].found
           \/ r.pc = (IF t = "lsr" THEN "route" ELSE "idle")
    BY <1>1, <2>1 DEF Pointing, At
  <2> QED
    BY <1>1, <2>1, <2>2, PointingStep
<1> QED
  BY <1>2, <1>3

LEMMA IdentifyStep ==
  ASSUME IInv, ~fault, NEW t \in Threads, Identify(t)
  PROVE  IInv'
<1> DEFINE r == At("delete", thr[t].new, thr[t].found)
<1>1. /\ UNCHANGED <<heap, list, lsa_seq_cnt, snap, freed, known>> /\ TypeOK
      /\ thr[t].pc = "replace" /\ thr[t] \in ThreadType /\ fault' = thr[t].stale
      /\ Goes(t, r, {})
  BY DEF Identify, IInv, TypeOK
<1>2. thr[t].new \in Addrs /\ thr[t].found \in Addrs \cup {Null}
  <2>1. thr[t].pc \in Holding
    BY <1>1 DEF Holding, Originating
  <2> QED
    BY <1>1, <2>1 DEF IInv, ThreadInv, Alive, ThreadType
<1>3. /\ r \in ThreadType /\ r.pc = "delete" /\ r.new = thr[t].new
      /\ r.found = thr[t].found
  BY <1>2, AtType
<1> HIDE DEF r
<1>4. thr' \in [Threads -> ThreadType]
  BY <1>1, <1>3, GoesOn
<1>5. fault' \in BOOLEAN
  BY <1>1 DEF ThreadType
<1> QED
  BY <1>1, <1>3, <1>4, <1>5, PointingStep, FaultStep DEF Pointing

LEMMA FloodStep ==
  ASSUME IInv, ~fault, NEW t \in Threads, Flood(t)
  PROVE  IInv'
<1> DEFINE q == thr[t]
<1>1. /\ UNCHANGED <<heap, list, lsa_seq_cnt, snap, freed>> /\ TypeOK
      /\ q.pc = "flood" /\ Goes(t, Done(t), {}) /\ fault' = q.stale
  BY DEF Flood, IInv
<1>2. ThreadInv(t) /\ q \in ThreadType
  BY <1>1 DEF IInv, TypeOK
<1>3. known' \subseteq Own \X Seqs
  <2>1. CASE known' = known
    BY <1>1, <2>1 DEF TypeOK
  <2>2. CASE ~q.stale /\ Sent(q.new)
    <3>1. q.new \in Addrs /\ heap[q.new] # Free /\ heap[q.new].lsa \in Own
      BY <1>1, <1>2, <2>2 DEF ThreadInv, Alive
    <3>2. heap[q.new] \in Objects
      BY <1>1, <3>1 DEF TypeOK
    <3> QED
      BY <1>1, <2>2, <3>1, <3>2 DEF TypeOK, Objects, Sent
  <2> QED
    BY <2>1, <2>2 DEF Flood
<1>4. /\ Done(t) \in ThreadType /\ Done(t).pc \notin Holding
      /\ Done(t).pc = IF t = "lsr" THEN "route" ELSE "idle"
  BY DoneType
<1>5. thr' \in [Threads -> ThreadType] /\ thr'[t] = Done(t)
  BY <1>1, <1>4, GoesOn
<1>6. TypeOK'
  BY <1>1, <1>2, <1>3, <1>5 DEF TypeOK, ThreadType
<1>7. ThreadInv(t)'
  BY <1>4, <1>5 DEF ThreadInv, Holding, Originating, Pointing
<1> QED
  BY <1>1, <1>4, <1>6, <1>7, QuietThread

\* One of the lists becomes e.
LEMMA ListBecomes ==
  ASSUME TypeOK, NEW y \in Types, NEW e \in Seq(Addrs), list' = [list EXCEPT ![y] = e]
  PROVE  /\ list' \in [Types -> Seq(Addrs)]
         /\ list'[y] = e /\ Listed(y)' = Elements(e)
         /\ \A z \in Types : z # y => list'[z] = list[z] /\ Listed(z)' = Listed(z)
<1>1. /\ list' \in [Types -> Seq(Addrs)] /\ list'[y] = e
      /\ \A z \in Types : z # y => list'[z] = list[z]
  BY DEF TypeOK
<1> QED
  BY <1>1 DEF Listed, Elements

\* A list and the addresses in it.
LEMMA ListOf ==
  ASSUME TypeOK, NEW y \in Types
  PROVE  /\ list[y] \in Seq(Addrs) /\ Listed(y) = Elements(list[y])
         /\ \A a \in Listed(y) : a \in Addrs /\ \E i \in DOMAIN list[y] : list[y][i] = a
BY DEF TypeOK, Listed, Elements

LEMMA Deletes ==
  ASSUME TypeOK, NEW A, Deleted(A)
  PROVE  /\ heap' \in [Addrs -> Objects \cup {Free}]
         /\ \A a \in Addrs : a \notin A => heap'[a] = heap[a]
BY DEF TypeOK, Deleted

\* What is listed is held by no thread and listed nowhere else.
LEMMA ListedOnly ==
  ASSUME IInv, ~fault, NEW y \in Types \ freed, NEW f \in Listed(y)
  PROVE  /\ \A u \in Threads : thr[u].pc \in Holding => thr[u].new # f
         /\ \A z \in Types \ freed : z # y => f \notin Listed(z)
BY DEF IInv, ThreadInv, ListInv

\* delLSA finds something to delete.
Removes(t) == DelLSA(t) /\ FirstMatch(heap[thr[t].new].lsa) # Null

\* What Push and DelLSA put in and take out, and what they do to the lists.
LEMMA PushObject ==
  ASSUME IInv, ~fault, NEW t \in Threads, Push(t), NEW a, NEW y,
         a = thr[t].new, y = TypeOf(heap[a].lsa)
  PROVE  /\ a \in Addrs /\ heap[a] # Free /\ heap[a].lsa \in Own /\ y \in Types
         /\ thr[t].pc \in Holding /\ \A z \in Types \ freed : a \notin Listed(z)
<1>1. thr[t].pc \in {"push", "swap"}
  BY DEF Push
<1> QED
  BY <1>1 DEF IInv, ThreadInv, Alive, Originating, Holding, TypeOf, Types

LEMMA PushLists ==
  ASSUME TypeOK, NEW a \in Addrs, NEW y \in Types,
         list' = [list EXCEPT ![y] = Append(@, a)]
  PROVE  /\ list' \in [Types -> Seq(Addrs)]
         /\ \A z \in Types : z # y => list'[z] = list[z] /\ Listed(z)' = Listed(z)
         /\ Injective(list[y]) /\ a \notin Listed(y) => Injective(list'[y])
         /\ Listed(y)' = Listed(y) \cup {a}
<1> DEFINE e == Append(list[y], a)
<1>1. list[y] \in Seq(Addrs) /\ Listed(y) = Elements(list[y])
  BY ListOf
<1>2. /\ e \in Seq(Addrs) /\ Elements(e) = Elements(list[y]) \cup {a}
      /\ Injective(list[y]) /\ a \notin Elements(list[y]) => Injective(e)
  BY <1>1, AppendElements
<1> HIDE DEF e
<1>3. /\ list' \in [Types -> Seq(Addrs)] /\ list'[y] = e /\ Listed(y)' = Elements(e)
      /\ \A z \in Types : z # y => list'[z] = list[z] /\ Listed(z)' = Listed(z)
  <2>1. list' = [list EXCEPT ![y] = e]
    BY DEF e
  <2> QED
    BY <1>2, <2>1, ListBecomes
<1> QED
  BY <1>1, <1>2, <1>3

LEMMA RemoveObjects ==
  ASSUME IInv, ~fault, NEW t \in Threads, Removes(t), ~fault', NEW l, NEW y, NEW f,
         l = heap[thr[t].new].lsa, y = TypeOf(l), f = FirstMatch(l)
  PROVE  /\ thr[t].new \in Addrs /\ heap[thr[t].new] # Free /\ heap[thr[t].new].lsa = l
         /\ l \in Own /\ thr[t].pc \in Holding
         /\ \A z \in Types \ freed : thr[t].new \notin Listed(z)
         /\ y \in Types \ freed /\ f \in Listed(y) /\ f \in Addrs /\ heap[f].lsa = l
         /\ Deleted({f}) /\ Goes(t, At("swap", thr[t].new, Null), {f})
         /\ list' = [list EXCEPT ![y] = Erase(@, f)]
<1> DEFINE q == thr[t]
           old == {FirstMatch(l)} \ {Null}
<1>1. f # Null /\ old = {f}
  BY DEF Removes
<1>2. /\ TypeOK /\ q.pc = "delete" /\ q \in ThreadType /\ y \notin freed
      /\ Deleted(old) /\ Goes(t, At("swap", q.new, Null), old)
      /\ list' = [list EXCEPT ![y] = IF old = {} THEN @ ELSE Erase(@, f)]
  BY DEF Removes, DelLSA, IInv, LookUpFaults, TypeOK
<1> HIDE DEF old
<1>3. /\ q.new \in Addrs /\ heap[q.new] # Free /\ heap[q.new].lsa \in Own
      /\ q.pc \in Holding /\ \A z \in Types \ freed : q.new \notin Listed(z)
      /\ y \in Types \ freed
  BY <1>2 DEF IInv, ThreadInv, Alive, Originating, Holding, TypeOf, Types
<1>4. f \in Listed(y) /\ f \in Addrs /\ heap[f].lsa = l
  BY <1>1, <1>2, <1>3, OwnType, FirstMatchFinds
<1> QED
  BY <1>1, <1>2, <1>3, <1>4

\* delLSA may also find nothing.
LEMMA DeletesNothing ==
  ASSUME IInv, ~fault, NEW t \in Threads, DelLSA(t), ~Removes(t), ~fault'
  PROVE  /\ heap' = heap /\ list' = list
         /\ Goes(t, At("swap", thr[t].new, Null), {})
<1> DEFINE l == heap[thr[t].new].lsa
           old == {FirstMatch(l)} \ {Null}
<1>1. old = {}
  BY DEF Removes
<1>2. /\ TypeOK /\ Deleted(old) /\ Goes(t, At("swap", thr[t].new, Null), old)
      /\ list' = [list EXCEPT ![TypeOf(l)] = IF old = {} THEN @ ELSE Erase(@, FirstMatch(l))]
  BY DEF DelLSA, IInv
<1> HIDE DEF old
<1>3. list' = list
  BY <1>1, <1>2 DEF TypeOK, TypeOf, Types
<1>4. heap' = heap
  BY <1>1, <1>2 DEF TypeOK, Deleted
<1> QED
  BY <1>1, <1>2, <1>3, <1>4

LEMMA RemoveLists ==
  ASSUME IInv, ~fault, NEW y \in Types \ freed, NEW f \in Listed(y),
         list' = [list EXCEPT ![y] = Erase(@, f)]
  PROVE  /\ list' \in [Types -> Seq(Addrs)]
         /\ \A z \in Types : z # y => list'[z] = list[z] /\ Listed(z)' = Listed(z)
         /\ Injective(list'[y])
         /\ Listed(y)' = Listed(y) \ {f}
<1> DEFINE e == Erase(list[y], f)
<1>1. TypeOK
  BY DEF IInv
<1>2. /\ list[y] \in Seq(Addrs) /\ Listed(y) = Elements(list[y])
      /\ \E i \in DOMAIN list[y] : list[y][i] = f
  BY <1>1, ListOf
<1>3. /\ e \in Seq(Addrs)
      /\ Injective(list[y]) => Injective(e) /\ Elements(e) = Elements(list[y]) \ {f}
  BY <1>2, EraseErases
<1> HIDE DEF e
<1>4. /\ list' \in [Types -> Seq(Addrs)] /\ list'[y] = e /\ Listed(y)' = Elements(e)
      /\ \A z \in Types : z # y => list'[z] = list[z] /\ Listed(z)' = Listed(z)
  <2>1. list' = [list EXCEPT ![y] = e]
    BY DEF e
  <2> QED
    BY <1>1, <1>3, <2>1, ListBecomes
<1>5. Injective(list[y])
  BY DEF IInv, ListInv
<1> QED
  BY <1>2, <1>3, <1>4, <1>5

LEMMA PushStep ==
  ASSUME IInv, ~fault, NEW t \in Threads, Push(t)
  PROVE  IInv'
<1> DEFINE q == thr[t]
<1>a. \E a, y : a = q.new /\ y = TypeOf(heap[a].lsa)
  OBVIOUS
<1>b. PICK a, y : a = q.new /\ y = TypeOf(heap[a].lsa)
  BY <1>a
<1> DEFINE r == IF q.pc = "swap" THEN At("flood", a, Null) ELSE Done(t)
<1>1. /\ UNCHANGED <<heap, lsa_seq_cnt, snap, freed, known, fault>> /\ TypeOK
      /\ q.pc \in {"push", "swap"} /\ Goes(t, r, {})
      /\ list' = [list EXCEPT ![y] = Append(@, a)]
  BY <1>b DEF Push, IInv
<1>2. /\ a \in Addrs /\ heap[a] # Free /\ heap[a].lsa \in Own /\ y \in Types
      /\ q.pc \in Holding /\ \A z \in Types \ freed : a \notin Listed(z)
      /\ list' \in [Types -> Seq(Addrs)]
      /\ \A z \in Types : z # y => list'[z] = list[z] /\ Listed(z)' = Listed(z)
      /\ Injective(list[y]) /\ a \notin Listed(y) => Injective(list'[y])
      /\ Listed(y)' = Listed(y) \cup {a}
  <2>1. /\ a \in Addrs /\ heap[a] # Free /\ heap[a].lsa \in Own /\ y \in Types
        /\ q.pc \in Holding /\ \A z \in Types \ freed : a \notin Listed(z)
    BY <1>b, PushObject
  <2>2. /\ list' \in [Types -> Seq(Addrs)]
        /\ \A z \in Types : z # y => list'[z] = list[z] /\ Listed(z)' = Listed(z)
        /\ Injective(list[y]) /\ a \notin Listed(y) => Injective(list'[y])
        /\ Listed(y)' = Listed(y) \cup {a}
    BY <1>1, <2>1, PushLists
  <2> QED
    BY <2>1, <2>2
<1>3. /\ r \in ThreadType /\ r.pc \notin Holding
      /\ \/ r.pc = "flood" /\ r.new = a
         \/ r.pc = (IF t = "lsr" THEN "route" ELSE "idle")
  BY <1>2, AtType, DoneType DEF Holding
<1> HIDE DEF r
<1>4. thr' \in [Threads -> ThreadType] /\ thr'[t] = r
  BY <1>1, <1>3, GoesOn
<1>6. TypeOK'
  BY <1>1, <1>2, <1>4 DEF TypeOK
<1>7. ThreadInv(t)'
  BY <1>1, <1>2, <1>3, <1>4 DEF ThreadInv, Alive, Holding, Originating, Pointing
<1>8. ASSUME NEW z \in Types \ freed'
      PROVE  /\ z \notin freed /\ ListInv(z)'
             /\ Listed(z) \subseteq Listed(z)'
             /\ Listed(z)' \subseteq Listed(z) \cup {a}
  <2>1. ListInv(z) /\ z \notin freed
    BY <1>1 DEF IInv
  <2>2. CASE z = y
    BY <1>1, <1>2, <1>b, <2>1, <2>2 DEF ListInv, Alive, TypeOf
  <2>3. CASE z # y
    <3>1. list'[z] = list[z] /\ Listed(z)' = Listed(z)
      BY <1>2, <2>3
    <3> QED
      BY <1>1, <2>1, <3>1 DEF ListInv, Alive, TypeOf
  <2> QED
    BY <2>2, <2>3
<1>9. \A z \in Types \ freed' :
        /\ z \notin freed /\ ListInv(z)'
        /\ Listed(z) \ {} \subseteq Listed(z)'
        /\ Listed(z)' \subseteq Listed(z) \cup {b \in {q.new} : q.pc \in Holding}
  BY <1>2, <1>8, <1>b
<1> QED
  BY <1>1, <1>3, <1>6, <1>7, <1>9, OneThread

LEMMA DelLSAStep ==
  ASSUME IInv, ~fault, NEW t \in Threads, DelLSA(t)
  PROVE  IInv'
<1> DEFINE q == thr[t]
           r == At("swap", q.new, Null)
<1>a. \E l, y, f : l = heap[q.new].lsa /\ y = TypeOf(l) /\ f = FirstMatch(l)
  OBVIOUS
<1>b. PICK l, y, f : l = heap[q.new].lsa /\ y = TypeOf(l) /\ f = FirstMatch(l)
  BY <1>a
<1>1. /\ UNCHANGED <<lsa_seq_cnt, snap, freed, known>> /\ TypeOK
      /\ q.pc = "delete" /\ q \in ThreadType /\ fault' = (y \in freed)
  BY <1>b DEF DelLSA, IInv, LookUpFaults, TypeOK
<1>2. CASE fault'
  <2>1. UNCHANGED <<heap, list, thr>>
    BY <1>2 DEF DelLSA
  <2> QED
    BY <1>1, <1>2, <2>1 DEF IInv, TypeOK, ThreadType
<1>4. CASE ~fault' /\ ~Removes(t)
  <2>1. heap' = heap /\ list' = list /\ Goes(t, r, {})
    BY <1>4, DeletesNothing
  <2>2. /\ q.new \in Addrs /\ Alive(q.new) /\ heap[q.new].lsa \in Own
        /\ \A z \in Types \ freed : q.new \notin Listed(z)
        /\ q.pc \in Holding
    BY <1>1 DEF IInv, ThreadInv, Alive, Originating, Holding
  <2>3. r \in ThreadType /\ r.pc = "swap" /\ r.new = q.new
    BY <2>2, AtType
  <2> HIDE DEF r, q
  <2>4. thr' \in [Threads -> ThreadType] /\ thr'[t] = r
    BY <1>1, <2>1, <2>3, GoesOn
  <2>5. TypeOK'
    BY <1>1, <1>4, <2>1, <2>4 DEF TypeOK
  <2>6. ThreadInv(t)'
    BY <1>1, <2>1, <2>2, <2>3, <2>4 DEF ThreadInv, Alive, Listed, Holding, Originating, Pointing
  <2> QED
    BY <1>1, <2>1, <2>2, <2>3, <2>5, <2>6, QuietThread DEF q
<1>3. CASE ~fault' /\ Removes(t)
  <2>1. /\ q.new \in Addrs /\ heap[q.new] # Free /\ heap[q.new].lsa = l
        /\ l \in Own /\ q.pc \in Holding
        /\ \A z \in Types \ freed : q.new \notin Listed(z)
        /\ y \in Types \ freed /\ f \in Listed(y) /\ f \in Addrs
        /\ list' \in [Types -> Seq(Addrs)]
        /\ \A z \in Types : z # y => list'[z] = list[z] /\ Listed(z)' = Listed(z)
        /\ Injective(list'[y])
          /\ Listed(y)' = Listed(y) \ {f}
        /\ Deleted({f}) /\ Goes(t, r, {f})
    <3>1. /\ q.new \in Addrs /\ heap[q.new] # Free /\ heap[q.new].lsa = l
          /\ l \in Own /\ q.pc \in Holding
          /\ \A z \in Types \ freed : q.new \notin Listed(z)
          /\ y \in Types \ freed /\ f \in Listed(y) /\ f \in Addrs
          /\ Deleted({f}) /\ Goes(t, r, {f})
      BY <1>3, <1>b, RemoveObjects
    <3>2. /\ list' \in [Types -> Seq(Addrs)]
          /\ \A z \in Types : z # y => list'[z] = list[z] /\ Listed(z)' = Listed(z)
          /\ Injective(list'[y])
          /\ Listed(y)' = Listed(y) \ {f}
      <4>1. list' = [list EXCEPT ![y] = Erase(@, f)]
        BY <1>3, <1>b, RemoveObjects
      <4> QED
        BY <3>1, <4>1, RemoveLists
    <3> QED
      BY <3>1, <3>2
  <2>5. /\ \A u \in Threads : thr[u].pc \in Holding => thr[u].new # f
        /\ \A z \in Types \ freed : z # y => f \notin Listed(z)
    BY <2>1, ListedOnly
  <2>6. r \in ThreadType /\ r.pc = "swap" /\ r.new = q.new
    BY <2>1, AtType
  <2> HIDE DEF r
  <2>7. thr' \in [Threads -> ThreadType] /\ thr'[t] = r
    BY <1>1, <2>1, <2>6, GoesOn
  <2>9. /\ heap' \in [Addrs -> Objects \cup {Free}]
        /\ \A a \in Addrs : a \notin {f} => heap'[a] = heap[a]
    BY <1>1, <2>1, Deletes
  <2>10. TypeOK'
    BY <1>1, <1>3, <2>1, <2>7, <2>9 DEF TypeOK
  <2>11. ASSUME NEW z \in Types \ freed'
         PROVE  /\ z \notin freed /\ ListInv(z)'
                /\ Listed(z) \ {f} \subseteq Listed(z)' /\ Listed(z)' \subseteq Listed(z)
    <3>1. ListInv(z) /\ z \notin freed
      BY <1>1 DEF IInv
    <3>2. Injective(list'[z]) /\ Listed(z)' = Listed(z) \ {f}
      <4>1. CASE z = y
        BY <2>1, <4>1
      <4>2. CASE z # y
        BY <2>1, <2>5, <3>1, <4>2 DEF ListInv
      <4> QED
        BY <4>1, <4>2
    <3>3. \A a \in Listed(z)' : a \in Addrs /\ heap'[a] # Free /\ TypeOf(heap'[a].lsa) = z
      BY <2>9, <3>1, <3>2 DEF ListInv, Alive
    <3> QED
      BY <3>1, <3>2, <3>3 DEF ListInv, Alive, TypeOf
  <2>12. ThreadInv(t)'
    <3>1. q.new # f /\ heap'[q.new] = heap[q.new]
      BY <2>1, <2>5, <2>9
    <3>2. \A z \in Types \ freed' : q.new \notin Listed(z)'
      BY <1>1, <2>1, <2>11
    <3> QED
      BY <2>1, <2>6, <2>7, <3>1, <3>2 DEF ThreadInv, Alive, Holding, Originating, Pointing
  <2>13. \A z \in Types \ freed' :
          /\ z \notin freed /\ ListInv(z)'
          /\ Listed(z) \ {f} \subseteq Listed(z)'
          /\ Listed(z)' \subseteq Listed(z) \cup {b \in {q.new} : q.pc \in Holding}
    BY <2>11
  <2>14. \A u \in Threads \ {t} : thr[u].pc \in Holding => thr[u].new \notin {f}
    BY <2>5
  <2>15. \A a \in Addrs : heap[a] # Free /\ a \notin {f} => heap'[a] = heap[a]
    BY <2>9
  <2>16. r.pc \in Holding => heap[r.new] = Free \/ (q.pc \in Holding /\ r.new = q.new)
    BY <2>1, <2>6
  <2> HIDE DEF q
  <2> QED
    BY <1>1, <2>1, <2>6, <2>10, <2>12, <2>13, <2>14, <2>15, <2>16, OneThread DEF q
<1> QED
  BY <1>2, <1>3, <1>4

\* What AddLSA does to the lists: nothing is taken out, or the one that was
\* found, and the new one is put in.
LEMMA AddLSALists ==
  ASSUME IInv, ~fault, AddLSA, NEW y, NEW a, NEW f, NEW old,
         a = thr["receiver"].new, f = thr["receiver"].found,
         y = TypeOf(heap[a].lsa), old = Displaced(y, f)
  PROVE  /\ list' \in [Types -> Seq(Addrs)] /\ y \in Types /\ a \in Addrs
         /\ old = {} \/ (old = {f} /\ f \in Listed(y) /\ f \in Addrs)
         /\ \A z \in Types : z # y => list'[z] = list[z] /\ Listed(z)' = Listed(z)
         /\ y \notin freed => Injective(list'[y]) /\ Listed(y)' = (Listed(y) \ old) \cup {a}
<1> DEFINE s == list[y]
           s1 == IF old = {} THEN s ELSE Erase(s, f)
           s2 == Append(s1, a)
<1>1. thr["receiver"].pc = "add" /\ TypeOK /\ "receiver" \in Threads
  BY DEF AddLSA, IInv, Threads
<1>2. /\ a \in Addrs /\ y \in Types
      /\ \A z \in Types \ freed : a \notin Listed(z)
  BY <1>1 DEF IInv, ThreadInv, Alive, Holding, TypeOf, Types
<1>3. s \in Seq(Addrs) /\ Listed(y) = Elements(s) /\ \A b \in Listed(y) : b \in Addrs
  BY <1>1, <1>2, ListOf
<1>4. old = {} \/ (old = {f} /\ f \in Listed(y) /\ f \in Addrs)
  BY <1>3 DEF Displaced
<1>5. list' = [list EXCEPT ![y] = s2]
  BY DEF AddLSA
<1>6. /\ s1 \in Seq(Addrs)
      /\ Injective(s) => Injective(s1) /\ Elements(s1) = Elements(s) \ old
  <2>1. CASE old = {}
    BY <1>3, <2>1
  <2>2. CASE old # {}
    <3>1. f \in Listed(y) /\ old = {f}
      BY <1>4, <2>2
    <3>2. \E i \in DOMAIN s : s[i] = f
      BY <3>1 DEF Listed
    <3> HIDE DEF s
    <3>3. /\ Erase(s, f) \in Seq(Addrs)
          /\ Injective(s) => /\ Injective(Erase(s, f))
                             /\ Elements(Erase(s, f)) = Elements(s) \ {f}
      BY <1>3, <3>2, EraseErases
    <3> QED
      BY <2>2, <3>1, <3>3
  <2> QED
    BY <2>1, <2>2
<1> HIDE DEF s1
<1>7. /\ s2 \in Seq(Addrs) /\ Elements(s2) = Elements(s1) \cup {a}
      /\ Injective(s1) /\ a \notin Elements(s1) => Injective(s2)
  BY <1>2, <1>6, AppendElements
<1> HIDE DEF s2
<1>8. /\ list' \in [Types -> Seq(Addrs)] /\ list'[y] = s2 /\ Listed(y)' = Elements(s2)
      /\ \A z \in Types : z # y => list'[z] = list[z] /\ Listed(z)' = Listed(z)
  BY <1>1, <1>2, <1>5, <1>7, ListBecomes
<1>9. y \notin freed => Injective(s)
  BY <1>2 DEF IInv, ListInv
<1> HIDE DEF s
<1> QED
  BY <1>2, <1>3, <1>4, <1>6, <1>7, <1>8, <1>9

LEMMA AddLSAStep ==
  ASSUME IInv, ~fault, AddLSA
  PROVE  IInv'
<1> DEFINE t == "receiver"
           q == thr[t]
<1>a. \E a, f, y, old : /\ a = q.new /\ f = q.found
                        /\ y = TypeOf(heap[a].lsa) /\ old = Displaced(y, f)
  OBVIOUS
<1>b. PICK a, f, y, old : /\ a = q.new /\ f = q.found
                          /\ y = TypeOf(heap[a].lsa) /\ old = Displaced(y, f)
  BY <1>a
<1>1. /\ UNCHANGED <<lsa_seq_cnt, snap, freed, known>> /\ TypeOK /\ t \in Threads
      /\ q.pc = "add" /\ Deleted(old) /\ Goes(t, Idle, old)
      /\ fault' = (old # {} /\ y \in freed)
  BY <1>b DEF AddLSA, IInv, Threads
<1>2. /\ list' \in [Types -> Seq(Addrs)] /\ y \in Types /\ a \in Addrs
      /\ old = {} \/ (old = {f} /\ f \in Listed(y) /\ f \in Addrs)
      /\ \A z \in Types : z # y => list'[z] = list[z] /\ Listed(z)' = Listed(z)
      /\ y \notin freed => Injective(list'[y]) /\ Listed(y)' = (Listed(y) \ old) \cup {a}
  BY <1>b, AddLSALists
<1>3. /\ heap' \in [Addrs -> Objects \cup {Free}]
      /\ \A b \in Addrs : b \notin old => heap'[b] = heap[b]
  BY <1>1, Deletes
<1>4. Idle \in ThreadType /\ Idle.pc = "idle"
  BY AtType DEF Idle
<1>5. thr' \in [Threads -> ThreadType] /\ thr'[t] = Idle
  BY <1>1, <1>4, GoesOn
<1>6. TypeOK'
  BY <1>1, <1>2, <1>3, <1>5 DEF TypeOK
<1>7. CASE fault'
  BY <1>6, <1>7 DEF IInv
<1>8. CASE ~fault'
  <2>1. old = {} \/ y \notin freed
    BY <1>1, <1>8
  <2>2. ThreadInv(t)'
    BY <1>4, <1>5 DEF ThreadInv, Holding, Originating, Pointing
  <2>3. /\ \A u \in Threads : thr[u].pc \in Holding => thr[u].new \notin old
        /\ \A z \in Types \ freed : z # y => Listed(z) \cap old = {}
    <3>1. CASE old = {}
      BY <3>1
    <3>2. CASE old = {f} /\ f \in Listed(y) /\ y \notin freed
      BY <1>2, <3>2, ListedOnly
    <3> QED
      BY <1>2, <2>1, <3>1, <3>2
  <2>4. heap[a] # Free /\ q.pc \in Holding /\ a \notin old /\ heap'[a] = heap[a]
    BY <1>1, <1>2, <1>3, <1>b, <2>3 DEF IInv, ThreadInv, Alive, Holding
  <2>5. ASSUME NEW z \in Types \ freed'
        PROVE  /\ z \notin freed /\ ListInv(z)'
               /\ Listed(z) \ old \subseteq Listed(z)' /\ Listed(z)' \subseteq Listed(z) \cup {a}
    <3>1. ListInv(z) /\ z \notin freed
      BY <1>1 DEF IInv
    <3>2. /\ Injective(list'[z])
          /\ Listed(z)' = (Listed(z) \ old) \cup {b \in {a} : z = y}
      <4>1. CASE z = y
        BY <1>2, <3>1, <4>1
      <4>2. CASE z # y
        BY <1>2, <2>3, <3>1, <4>2 DEF ListInv
      <4> QED
        BY <4>1, <4>2
    <3>3. \A b \in Listed(z) \ old : b \in Addrs /\ heap'[b] # Free /\ TypeOf(heap'[b].lsa) = z
      BY <1>3, <3>1 DEF ListInv, Alive
    <3>4. z = y => TypeOf(heap'[a].lsa) = z
      BY <1>b, <2>4
    <3>5. \A b \in Listed(z)' : b \in Addrs /\ heap'[b] # Free /\ TypeOf(heap'[b].lsa) = z
      BY <1>2, <2>4, <3>2, <3>3, <3>4
    <3> QED
      BY <3>1, <3>2, <3>5 DEF ListInv, Alive, TypeOf
  <2>6. \A z \in Types \ freed' :
          /\ z \notin freed /\ ListInv(z)'
          /\ Listed(z) \ old \subseteq Listed(z)'
          /\ Listed(z)' \subseteq Listed(z) \cup {b \in {q.new} : q.pc \in Holding}
    BY <1>b, <2>4, <2>5
  <2>7. \A u \in Threads \ {t} : thr[u].pc \in Holding => thr[u].new \notin old
    BY <2>3
  <2>8. \A b \in Addrs : heap[b] # Free /\ b \notin old => heap'[b] = heap[b]
    BY <1>3
  <2> QED
    BY <1>1, <1>4, <1>6, <2>2, <2>6, <2>7, <2>8, OneThread DEF Holding
<1> QED
  BY <1>7, <1>8

LEMMA SnapshotStep ==
  ASSUME IInv, ~fault, Snapshot
  PROVE  IInv'
<1> DEFINE t == "lsr"
           r == [At("routing", Null, Null) EXCEPT !.stale = freed # {}]
<1>1. /\ UNCHANGED <<heap, list, lsa_seq_cnt, freed, known, fault>> /\ TypeOK /\ t \in Threads
      /\ snap' = Listed("router") \cup Listed("network")
      /\ thr' = [thr EXCEPT ![t] = r]
  BY DEF Snapshot, IInv, Threads
<1>2. r \in ThreadType /\ r.pc = "routing" /\ (r.stale <=> freed # {})
  BY DEF At, ThreadType
<1> HIDE DEF r
<1>3. Goes(t, r, {})
  <2>1. \A u \in Threads :
          [thr[u] EXCEPT !.stale = @ \/ Uses(u) \cap {} # {}] = thr[u]
    <3> SUFFICES ASSUME NEW u \in Threads
                 PROVE  [thr[u] EXCEPT !.stale = @ \/ Uses(u) \cap {} # {}] = thr[u]
      OBVIOUS
    <3>1. thr[u] \in ThreadType
      BY <1>1 DEF TypeOK
    <3>2. (thr[u].stale \/ Uses(u) \cap {} # {}) = thr[u].stale
      BY <3>1 DEF ThreadType
    <3> QED
      BY <3>1, <3>2 DEF ThreadType
  <2>2. \A u \in Threads : thr'[u] = IF u = t THEN r ELSE thr[u]
    BY <1>1 DEF TypeOK
  <2>3. thr' = [u \in Threads |-> thr'[u]]
    BY <1>1 DEF TypeOK
  <2> QED
    BY <2>1, <2>2, <2>3 DEF Goes
<1>4. snap' \subseteq Addrs
  BY <1>1, ListOf DEF Types
<1>5. thr' \in [Threads -> ThreadType] /\ thr'[t] = r
  BY <1>1, <1>2 DEF TypeOK
<1>6. TypeOK'
  BY <1>1, <1>4, <1>5 DEF TypeOK
<1>7. ThreadInv(t)'
  BY <1>1, <1>2, <1>5 DEF ThreadInv, Listed, Holding, Originating, Pointing
<1> QED
  BY <1>1, <1>2, <1>3, <1>6, <1>7, QuietThread DEF Holding

LEMMA DestroyStep ==
  ASSUME IInv, ~fault, Destroy
  PROVE  IInv'
<1> DEFINE t == "lsr"
           q == thr[t]
<1>1. /\ UNCHANGED <<list, lsa_seq_cnt, known>> /\ TypeOK /\ t \in Threads
      /\ q.pc = "routing" /\ fault' = q.stale /\ q \in ThreadType
      /\ freed' = {y \in Types : Listed(y) \cap snap # {}}
      /\ Deleted(snap) /\ Goes(t, Idle, snap) /\ snap' = {}
  BY DEF Destroy, IInv, Threads, TypeOK
<1>2. /\ heap' \in [Addrs -> Objects \cup {Free}]
      /\ \A b \in Addrs : b \notin snap => heap'[b] = heap[b]
  BY <1>1, Deletes
<1>3. Idle \in ThreadType /\ Idle.pc = "idle"
  BY AtType DEF Idle
<1>4. thr' \in [Threads -> ThreadType] /\ thr'[t] = Idle
  BY <1>1, <1>3, GoesOn
<1>5. TypeOK'
  BY <1>1, <1>2, <1>4 DEF TypeOK, ThreadType
<1>6. CASE fault'
  BY <1>5, <1>6 DEF IInv
<1>7. CASE ~fault'
  <2>1. freed = {} /\ snap \subseteq Listed("router") \cup Listed("network")
    BY <1>1, <1>7 DEF IInv, ThreadInv
  <2>2. ThreadInv(t)'
    BY <1>3, <1>4 DEF ThreadInv, Holding, Originating, Pointing
  <2>3. \A u \in Threads \ {t} : thr[u].pc \in Holding => thr[u].new \notin snap
    <3>1. \A a \in snap : \E y \in Types \ freed : a \in Listed(y)
      BY <2>1 DEF Types
    <3> QED
      BY <3>1, ListedOnly
  <2>4. ASSUME NEW z \in Types \ freed'
        PROVE  /\ z \notin freed /\ ListInv(z)'
               /\ Listed(z) \ snap \subseteq Listed(z)'
               /\ Listed(z)' \subseteq Listed(z)
    <3>1. ListInv(z) /\ z \notin freed /\ Listed(z) \cap snap = {}
      BY <1>1, <2>1 DEF IInv
    <3>2. Listed(z)' = Listed(z) /\ list'[z] = list[z]
      BY <1>1 DEF Listed
    <3>3. \A b \in Listed(z) : b \in Addrs /\ heap'[b] # Free /\ TypeOf(heap'[b].lsa) = z
      BY <1>2, <3>1 DEF ListInv, Alive
    <3> QED
      BY <3>1, <3>2, <3>3 DEF ListInv, Alive, TypeOf
  <2>5. \A z \in Types \ freed' :
          /\ z \notin freed /\ ListInv(z)'
          /\ Listed(z) \ snap \subseteq Listed(z)'
          /\ Listed(z)' \subseteq Listed(z) \cup {b \in {q.new} : q.pc \in Holding}
    BY <2>4
  <2>6. \A b \in Addrs : heap[b] # Free /\ b \notin snap => heap'[b] = heap[b]
    BY <1>2
  <2> QED
    BY <1>1, <1>3, <1>5, <2>2, <2>3, <2>5, <2>6, OneThread DEF Holding
<1> QED
  BY <1>6, <1>7

LEMMA IInvInit ==
  Init => IInv
<1> SUFFICES ASSUME Init PROVE IInv
  OBVIOUS
<1>1. Idle \in ThreadType /\ Idle.pc = "idle"
  BY AtType DEF Idle
<1>2. \A t \in Threads : thr[t] = Idle
  BY DEF Init
<1>3. \A y \in Types : list[y] = << >> /\ Listed(y) = {}
  BY DEF Init, Listed
<1>4. << >> \in Seq(Addrs) /\ {OwnRouter} \X Prior \subseteq Own \X Seqs
  BY LsdbAssumption DEF Own
<1>5. TypeOK
  <2>1. heap \in [Addrs -> Objects \cup {Free}] /\ thr \in [Threads -> ThreadType]
    BY <1>1 DEF Init
  <2>2. list \in [Types -> Seq(Addrs)] /\ snap \subseteq Addrs /\ freed \subseteq Types
    BY <1>4 DEF Init
  <2>3. lsa_seq_cnt \in 0..MaxSeq + 1
    <3>1. lsa_seq_cnt = 0 /\ MaxSeq \in Nat
      BY LsdbAssumption DEF Init
    <3> QED
      BY <3>1
  <2>4. known \subseteq Own \X Seqs
    BY <1>4 DEF Init
  <2>5. fault \in BOOLEAN
    BY DEF Init
  <2> QED
    BY <2>1, <2>2, <2>3, <2>4, <2>5 DEF TypeOK
<1>6. \A y \in Types : ListInv(y)
  BY <1>3 DEF ListInv, Injective
<1>7. (\A t \in Threads : ThreadInv(t)) /\ Distinct
  BY <1>1, <1>2 DEF ThreadInv, Distinct, Holding, Originating, Pointing
<1> QED
  BY <1>5, <1>6, <1>7 DEF IInv

LEMMA IInvStep ==
  IInv /\ [Next]_vars => IInv'
<1> SUFFICES ASSUME IInv, [Next]_vars PROVE IInv'
  OBVIOUS
<1>1. CASE UNCHANGED vars
  <2>1. TypeOK' /\ fault' = fault
    BY <1>1 DEF vars, IInv, TypeOK
  <2>2. ASSUME ~fault, NEW y \in Types PROVE ListInv(y)'
    BY <1>1, <2>2 DEF vars, IInv, ListInv, Alive, Listed
  <2>3. ASSUME ~fault, NEW t \in Threads PROVE ThreadInv(t)'
    <3>1. ThreadInv(t)
      BY <2>3 DEF IInv
    <3> QED
      BY <1>1, <3>1 DEF vars, ThreadInv, Alive, Listed
  <2>4. ~fault => Distinct'
    BY <1>1 DEF vars, IInv, Distinct
  <2> QED
    BY <2>1, <2>2, <2>3, <2>4 DEF IInv
<1>2. CASE Next
  <2>1. ~fault /\ lsa_seq_cnt' <= MaxSeq + 1
    BY <1>2 DEF Next
  <2>2. CASE ReceiverStep
    <3>1. CASE Summarize
      <4>1. /\ UNCHANGED <<heap, list, lsa_seq_cnt, thr, snap, freed, known>>
            /\ fault' \in BOOLEAN
        BY <3>1 DEF Summarize
      <4> QED
        BY <2>1, <4>1 DEF IInv, TypeOK, ListInv, ThreadInv, Distinct, Alive, Listed
    <3> QED
      BY <2>1, <2>2, <3>1, AddLSAStep, ServedStep, ServeStep, ReceiveStep DEF ReceiverStep
  <2>3. ASSUME NEW t \in Threads, OriginatorStep(t) PROVE IInv'
    BY <2>1, <2>3, OriginateStep, FindOwnStep, CompareStep, IdentifyStep,
       DelLSAStep, PushStep, FloodStep DEF OriginatorStep
  <2>4. CASE Snapshot
    BY <2>1, <2>4, SnapshotStep
  <2>5. CASE Destroy
    BY <2>1, <2>5, DestroyStep
  <2> QED
    BY <1>2, <2>2, <2>3, <2>4, <2>5 DEF Next
<1> QED
  BY <1>1, <1>2

-----------------------------------------------------------------------------
(* Theorems                                                                *)

\* Every reachable state is well typed.
THEOREM TypeCorrect == Spec => []TypeOK
<1>1. IInv => TypeOK
  BY DEF IInv
<1> QED
  BY IInvInit, IInvStep, <1>1, PTL DEF Spec

\* However the threads interleave, the lists hold no object twice, none of the
\* other type and none that was deleted.
THEOREM ListsStaySound == Spec => []ListsSound
<1>1. IInv => ListsSound
  <2> SUFFICES ASSUME IInv, ~fault, NEW y \in Types \ freed,
                      NEW i \in DOMAIN list[y], NEW j \in DOMAIN list[y]
               PROVE  /\ heap[list[y][i]] # Free /\ TypeOf(heap[list[y][i]].lsa) = y
                      /\ list[y][i] = list[y][j] => i = j
    BY DEF ListsSound
  <2>1. ListInv(y) /\ list[y][i] \in Listed(y)
    BY DEF IInv, Listed
  <2> QED
    BY <2>1 DEF ListInv, Alive, Injective
<1> QED
  BY IInvInit, IInvStep, <1>1, PTL DEF Spec

-----------------------------------------------------------------------------
(* The LSAs of others                                                      *)

\* The object at a is the listed instance of l.
Has(l, a) == a \in Listed(TypeOf(l)) /\ heap[a].lsa = l

\* The instance LsaStore has of l is that of the listed object.
LEMMA StoredIs ==
  ASSUME IInv, Intact, One, NEW l \in Others
  PROVE  /\ \A a : Has(l, a) => StoredInstance(l) = heap[a].seq /\ a \in Addrs
                                /\ heap[a] \in Objects
         /\ (\A a : ~Has(l, a)) => StoredInstance(l) = Null
<1>1. l \in LSAs /\ TypeOK /\ TypeOf(l) \in Types
  BY DEF Others, IInv, TypeOf, Types
<1>a. \E y : y = TypeOf(l)
  OBVIOUS
<1>b. PICK y \in Types : y = TypeOf(l)
  BY <1>1
<1>2. ListInv(y) /\ y \notin freed
  BY DEF IInv, Intact
<1>3. Matches(l) = {i \in DOMAIN list[y] : heap[list[y][i]] # Free /\ heap[list[y][i]].lsa = l}
  BY <1>b DEF Matches
<1>4. ASSUME NEW a, Has(l, a)
      PROVE  StoredInstance(l) = heap[a].seq /\ a \in Addrs /\ heap[a] \in Objects
  <2>1. a \in Listed(y) /\ heap[a].lsa = l /\ a \in Addrs /\ heap[a] # Free /\ heap[a] \in Objects
    BY <1>1, <1>2, <1>4, <1>b DEF Has, ListInv, Alive, TypeOK
  <2>2. PICK i \in DOMAIN list[y] : list[y][i] = a
    BY <2>1 DEF Listed
  <2>3. i \in Matches(l)
    BY <1>3, <2>1, <2>2
  <2>4. ASSUME NEW j \in Matches(l) PROVE j = i
    <3>1. j \in DOMAIN list[y] /\ list[y][j] \in Listed(y) /\ heap[list[y][j]].lsa = l
      BY <1>3 DEF Listed
    <3>2. list[y][j] = a
      BY <2>1, <3>1 DEF One
    <3> QED
      BY <1>2, <2>2, <3>1, <3>2 DEF ListInv, Injective
  <2>5. Matches(l) = {i}
    BY <2>3, <2>4
  <2>6. FirstMatch(l) # Null
    <3>1. \A k \in Matches(l) : list[y][k] \in Addrs
      BY <1>2, <1>3 DEF ListInv, Alive, Listed
    <3> DEFINE k == CHOOSE k \in Matches(l) : \A j \in Matches(l) : k <= j
    <3>2. i <= i
      BY <1>1, <2>2 DEF TypeOK
    <3>3. k \in Matches(l)
      BY <2>5, <3>2
    <3>4. FirstMatch(l) = list[y][k]
      BY <1>b, <2>3 DEF FirstMatch
    <3> HIDE DEF k
    <3> QED
      BY <3>1, <3>3, <3>4, LsdbAssumption
  <2>7. FirstMatch(l) \in Listed(y) /\ heap[FirstMatch(l)].lsa = l
    BY <1>1, <1>b, <2>6, FirstMatchFinds
  <2>8. FirstMatch(l) = a
    BY <2>1, <2>7 DEF One
  <2> QED
    BY <2>1, <2>3, <2>5, <2>8 DEF StoredInstance
<1>5. ASSUME \A a : ~Has(l, a) PROVE StoredInstance(l) = Null
  <2>1. Matches(l) = {}
    BY <1>3, <1>5, <1>b DEF Has, Listed
  <2> QED
    BY <2>1 DEF StoredInstance
<1> QED
  BY <1>4, <1>5

\* A step leaves the listed objects of others alone, changes no object but to
\* delete it or to make an own LSA of it, and does not let the receiver begin
\* to add an LSA.
Unaffected(l) == \A a : (Has(l, a)' <=> Has(l, a)) /\ (Has(l, a) => heap'[a] = heap[a])

Steady ==
  /\ \A l \in Others : Unaffected(l)
  /\ \A a \in Addrs :
       heap'[a] \in {heap[a], Free} \/ (heap[a] = Free /\ heap'[a].lsa \in Own)
  /\ thr'["receiver"].pc = "add" =>
       /\ thr["receiver"].pc = "add"
       /\ thr'["receiver"].new = thr["receiver"].new
       /\ thr'["receiver"].found = thr["receiver"].found

\* With the lists and the listed objects of others, One stays true.
LEMMA OneStays ==
  ASSUME IInv, IInv', Intact, Intact', One, \A l \in Others : Unaffected(l)
  PROVE  One'
<1> SUFFICES ASSUME NEW y \in Types, NEW a \in Listed(y)', NEW b \in Listed(y)',
                    heap'[a].lsa \in Others, heap'[a].lsa = heap'[b].lsa
             PROVE  a = b
  BY DEF One
<1>1. PICK l \in Others : l = heap'[a].lsa
  OBVIOUS
<1>2. ListInv(y)' /\ y \notin freed'
  BY DEF IInv, Intact
<1>3. TypeOf(l) = y
  BY <1>1, <1>2 DEF ListInv, TypeOf
<1>4. Has(l, a)' /\ Has(l, b)'
  BY <1>1, <1>3 DEF Has, Listed, TypeOf
<1>5. Has(l, a) /\ Has(l, b)
  BY <1>4 DEF Unaffected
<1>6. a \in Listed(y) /\ b \in Listed(y) /\ heap[a].lsa = l /\ heap[b].lsa = l
  BY <1>3, <1>5 DEF Has
<1> QED
  BY <1>6 DEF One

\* So does what the receiver looked up.
LEMMA LookUpStays ==
  ASSUME IInv, IInv', Intact, Intact', LookUpHolds, Steady
  PROVE  LookUpHolds'
<1> DEFINE q == thr["receiver"]
<1>1. SUFFICES ASSUME thr'["receiver"].pc = "add" PROVE LookUpHolds'
  BY DEF LookUpHolds
<1>2. /\ q.pc = "add" /\ thr'["receiver"].new = q.new /\ thr'["receiver"].found = q.found
      /\ "receiver" \in Threads /\ q \in ThreadType
  BY <1>1 DEF Steady, Threads, IInv, TypeOK
<1>a. \E a, f, l : a = q.new /\ f = q.found /\ l = heap[q.new].lsa
  OBVIOUS
<1>b. PICK a, f, l : a = q.new /\ f = q.found /\ l = heap[q.new].lsa
  BY <1>a
<1>3. Alive(a) /\ heap'[a] # Free
  <2>1. ThreadInv("receiver") /\ ThreadInv("receiver")'
    BY <1>2 DEF IInv, Intact
  <2> QED
    BY <1>1, <1>2, <1>b, <2>1 DEF ThreadInv, Alive, Holding
<1>4. heap'[a] = heap[a]
  BY <1>3 DEF Steady, Alive
<1>5. ASSUME l \in Others
      PROVE  \/ Has(l, f)'
             \/ f = Null /\ \A b : ~Has(l, b)'
  <2>1. \/ Has(l, f)
        \/ f = Null /\ \A b : ~Has(l, b)
    BY <1>2, <1>5, <1>b DEF LookUpHolds, Has
  <2> QED
    BY <1>5, <2>1 DEF Steady, Unaffected
<1>6. ASSUME l \in Own, f # Null, heap'[f] # Free PROVE heap'[f].lsa \in Own
  <2>1. f \in Addrs
    BY <1>2, <1>6, <1>b DEF ThreadType
  <2>2. heap[f] # Free => heap[f].lsa \in Own
    BY <1>2, <1>6, <1>b DEF LookUpHolds
  <2> QED
    BY <1>6, <2>1, <2>2 DEF Steady
<1>7. heap'[thr'["receiver"].new].lsa = l /\ thr'["receiver"].found = f
  BY <1>2, <1>4, <1>b
<1> QED
  BY <1>5, <1>6, <1>7 DEF LookUpHolds, Has, Listed, TypeOf

\* The steps that are steady: all but the ones of addLSA.
LEMMA AloneIsSteady ==
  ASSUME NEW t \in Threads, NEW r \in ThreadType, NEW A, TypeOK, Goes(t, r, A), r.pc # "add",
         \A l \in Others : Unaffected(l),
         \A a \in Addrs :
           heap'[a] \in {heap[a], Free} \/ (heap[a] = Free /\ heap'[a].lsa \in Own)
  PROVE  Steady
<1>1. /\ thr'[t] = r
      /\ \A u \in Threads \ {t} :
           /\ thr'[u].pc = thr[u].pc /\ thr'[u].new = thr[u].new
           /\ thr'[u].found = thr[u].found
  BY GoesOn
<1>2. "receiver" \in Threads
  BY DEF Threads
<1> QED
  BY <1>1, <1>2 DEF Steady

LEMMA SameObjects ==
  ASSUME list' = list, NEW l,
         \A a \in Listed(TypeOf(l)) : heap'[a] = heap[a]
  PROVE  Unaffected(l)
<1>1. \A a : a \in Listed(TypeOf(l))' <=> a \in Listed(TypeOf(l))
  BY DEF Listed, TypeOf
<1> QED
  BY <1>1 DEF Unaffected, Has, TypeOf

LEMMA OriginateSteady ==
  ASSUME IInv, ~fault, freed = {}, NEW t \in Threads, NEW l \in Own, Originate(t, l),
         lsa_seq_cnt' <= MaxSeq + 1
  PROVE  Steady
<1>1. PICK a \in Addrs : Allocated(a, l, lsa_seq_cnt) /\ Goes(t, At("find", a, Null), {})
  BY DEF Originate
<1>2. lsa_seq_cnt \in Seqs /\ TypeOK
  BY LsdbAssumption DEF Originate, IInv, TypeOK, Seqs
<1>3. /\ heap[a] = Free /\ heap'[a].lsa = l
      /\ \A b \in Addrs : heap[b] # Free => heap'[b] = heap[b]
  BY <1>1, <1>2, NewObject, OwnType
<1>4. \A b \in Addrs : b # a => heap'[b] = heap[b]
  BY <1>1, <1>2 DEF Allocated, TypeOK
<1>5. ASSUME NEW k PROVE Unaffected(k)
  <2>1. \A b \in Listed(TypeOf(k)) : heap'[b] = heap[b]
    BY <1>3 DEF IInv, ListInv, Alive, TypeOf, Types
  <2>2. list' = list
    BY DEF Originate
  <2> QED
    BY <2>1, <2>2, SameObjects
<1>6. At("find", a, Null) \in ThreadType /\ At("find", a, Null).pc # "add"
  BY AtType
<1> QED
  BY <1>1, <1>2, <1>3, <1>4, <1>5, <1>6, AloneIsSteady

LEMMA PushSteady ==
  ASSUME IInv, ~fault, freed = {}, NEW t \in Threads, Push(t)
  PROVE  Steady
<1> DEFINE q == thr[t]
<1>a. \E a, y : a = q.new /\ y = TypeOf(heap[a].lsa)
  OBVIOUS
<1>b. PICK a, y : a = q.new /\ y = TypeOf(heap[a].lsa)
  BY <1>a
<1> DEFINE r == IF q.pc = "swap" THEN At("flood", a, Null) ELSE Done(t)
<1>1. /\ heap' = heap /\ TypeOK /\ Goes(t, r, {})
      /\ list' = [list EXCEPT ![y] = Append(@, a)]
  BY <1>b DEF Push, IInv
<1>2. a \in Addrs /\ heap[a].lsa \in Own /\ y \in Types
  BY <1>b, PushObject
<1>3. /\ \A z \in Types : z # y => Listed(z)' = Listed(z)
      /\ Listed(y)' = Listed(y) \cup {a}
  BY <1>1, <1>2, PushLists
<1>4. ASSUME NEW l \in Others PROVE Unaffected(l)
  <2>1. PICK z \in Types : z = TypeOf(l)
    BY DEF TypeOf, Types
  <2>2. \A b : b \in Listed(z)' <=> b \in Listed(z) \/ (z = y /\ b = a)
    BY <1>3
  <2>3. \A b : heap[b].lsa = l => b # a
    BY <1>2 DEF Others
  <2> QED
    BY <1>1, <2>1, <2>2, <2>3 DEF Unaffected, Has, TypeOf, Listed
<1>5. r \in ThreadType /\ r.pc # "add"
  BY <1>2, AtType, DoneType
<1> HIDE DEF r
<1> QED
  BY <1>1, <1>4, <1>5, AloneIsSteady

LEMMA RemoveSteady ==
  ASSUME IInv, ~fault, ~fault', freed = {}, NEW t \in Threads, Removes(t)
  PROVE  Steady
<1> DEFINE q == thr[t]
           r == At("swap", q.new, Null)
<1>a. \E l, y, f : l = heap[q.new].lsa /\ y = TypeOf(l) /\ f = FirstMatch(l)
  OBVIOUS
<1>b. PICK l, y, f : l = heap[q.new].lsa /\ y = TypeOf(l) /\ f = FirstMatch(l)
  BY <1>a
<1>1. /\ q.new \in Addrs /\ l \in Own
      /\ y \in Types \ freed /\ f \in Listed(y) /\ f \in Addrs /\ heap[f].lsa = l
      /\ Deleted({f}) /\ Goes(t, r, {f})
      /\ list' = [list EXCEPT ![y] = Erase(@, f)]
  BY <1>b, RemoveObjects
<1>2. list' = [list EXCEPT ![y] = Erase(@, f)] /\ TypeOK
  BY <1>1 DEF IInv
<1>3. /\ \A z \in Types : z # y => Listed(z)' = Listed(z)
      /\ Listed(y)' = Listed(y) \ {f}
  BY <1>1, <1>2, RemoveLists
<1>4. \A a \in Addrs : IF a = f THEN heap'[a] = Free ELSE heap'[a] = heap[a]
  BY <1>1 DEF Deleted
<1>5. ASSUME NEW k \in Others PROVE Unaffected(k)
  <2>1. PICK z \in Types : z = TypeOf(k)
    BY DEF TypeOf, Types
  <2>2. \A b : b \in Listed(z)' <=> b \in Listed(z) /\ ~ (z = y /\ b = f)
    BY <1>3
  <2>3. \A b \in Listed(z) : b \in Addrs /\ (heap[b].lsa = k => b # f)
    BY <1>1 DEF Others, IInv, ListInv, Alive
  <2>4. \A b \in Listed(z) : b # f => heap'[b] = heap[b]
    BY <1>4, <2>3
  <2>5. \A b : b \in Listed(z) /\ z # y => b # f
    BY <1>1, ListedOnly
  <2>6. \A b : Has(k, b)' <=> b \in Listed(z)' /\ heap'[b].lsa = k
    BY <2>1 DEF Has, TypeOf, Listed
  <2>7. \A b : Has(k, b) <=> b \in Listed(z) /\ heap[b].lsa = k
    BY <2>1 DEF Has
  <2>8. \A b : Has(k, b) => b \in Listed(z) /\ b # f /\ heap'[b] = heap[b]
    BY <2>3, <2>4, <2>7
  <2>9. \A b : Has(k, b)' => b \in Listed(z) /\ b # f /\ heap'[b] = heap[b]
    BY <2>2, <2>4, <2>5, <2>6
  <2> QED
    BY <2>2, <2>6, <2>7, <2>8, <2>9 DEF Unaffected
<1>6. r \in ThreadType /\ r.pc # "add"
  BY <1>1, AtType
<1> HIDE DEF r
<1> QED
  BY <1>1, <1>2, <1>4, <1>5, <1>6, AloneIsSteady

LEMMA DestroySteady ==
  ASSUME IInv, ~fault, ~fault', freed' = {}, Destroy
  PROVE  Steady
<1> DEFINE t == "lsr"
<1>1. /\ list' = list /\ TypeOK /\ t \in Threads /\ thr[t].pc = "routing" /\ ~thr[t].stale
      /\ Deleted(snap) /\ Goes(t, Idle, snap)
      /\ \A y \in Types : Listed(y) \cap snap = {}
  BY DEF Destroy, IInv, Threads
<1>2. /\ snap \subseteq Listed("router") \cup Listed("network") /\ freed = {}
  BY <1>1 DEF IInv, ThreadInv
<1>3. snap = {}
  BY <1>1, <1>2 DEF Types
<1>4. \A a \in Addrs : heap'[a] = heap[a]
  BY <1>1, <1>3, Deletes
<1>5. ASSUME NEW l PROVE Unaffected(l)
  <2>1. \A a \in Listed(TypeOf(l)) : heap'[a] = heap[a]
    BY <1>2, <1>4 DEF IInv, ListInv, Alive, TypeOf, Types
  <2> QED
    BY <1>1, <2>1, SameObjects
<1>6. Idle \in ThreadType /\ Idle.pc # "add"
  BY AtType DEF Idle
<1> QED
  BY <1>1, <1>4, <1>5, <1>6, AloneIsSteady

\* A step that changes no object and no list.
LEMMA SameIsSteady ==
  ASSUME TypeOK, heap' = heap, list' = list,
         \/ thr'["receiver"].pc # "add"
         \/ thr'["receiver"] = thr["receiver"]
         \/ \E t \in Threads, r \in ThreadType : \E A : Goes(t, r, A) /\ r.pc # "add"
  PROVE  Steady
<1>1. \A l \in Others : Unaffected(l)
  BY SameObjects
<1>2. \A a \in Addrs :
        heap'[a] \in {heap[a], Free} \/ (heap[a] = Free /\ heap'[a].lsa \in Own)
  OBVIOUS
<1> QED
  BY <1>1, <1>2, AloneIsSteady DEF Steady

LEMMA OriginatorSteady ==
  ASSUME IInv, ~fault, ~fault', freed = {}, lsa_seq_cnt' <= MaxSeq + 1,
         NEW t \in Threads, OriginatorStep(t)
  PROVE  Steady
<1>1. TypeOK /\ thr[t] \in ThreadType
  BY DEF IInv, TypeOK
<1>2. CASE FindOwn(t)
  <2> DEFINE new == thr[t].new   l == heap[new].lsa
             found == IF l = OwnNetwork /\ ~IdIsAddress THEN Null ELSE FirstMatch(l)
             r == At(IF found = Null THEN "push" ELSE "compare", new, found)
  <2>1. new \in Addrs /\ l \in Own
    BY <1>2 DEF FindOwn, IInv, ThreadInv, Holding, Originating, Alive
  <2>2. found \in Addrs \cup {Null}
    BY <1>1, <2>1, OwnType, FoundType
  <2>3. heap' = heap /\ list' = list /\ Goes(t, r, {})
    BY <1>2 DEF FindOwn
  <2> HIDE DEF new, l, found
  <2>4. r \in ThreadType /\ r.pc # "add"
    BY <2>1, <2>2, AtType
  <2> HIDE DEF r
  <2> QED
    BY <1>1, <2>3, <2>4, SameIsSteady
<1>4. CASE Compare(t)
  <2>1. PICK r \in ThreadType :
          /\ Goes(t, r, {})
          /\ \/ r.pc = "push"
             \/ r = At("replace", thr[t].new, thr[t].found)
             \/ r.pc = (IF t = "lsr" THEN "route" ELSE "idle")
    BY <1>4, CompareGoes
  <2>2. heap' = heap /\ list' = list /\ r.pc # "add"
    BY <1>4, <2>1 DEF Compare, At
  <2> QED
    BY <1>1, <2>1, <2>2, SameIsSteady
<1>5. CASE Identify(t)
  <2> DEFINE r == At("delete", thr[t].new, thr[t].found)
  <2>1. heap' = heap /\ list' = list /\ Goes(t, r, {})
    BY <1>5 DEF Identify
  <2>2. thr[t].new \in Addrs
    BY <1>5 DEF Identify, IInv, ThreadInv, Holding, Originating, Alive
  <2>3. r \in ThreadType /\ r.pc # "add"
    BY <1>1, <2>2, AtType DEF ThreadType
  <2> HIDE DEF r
  <2> QED
    BY <1>1, <2>1, <2>3, SameIsSteady
<1>6. CASE DelLSA(t) /\ ~Removes(t)
  <2> DEFINE r == At("swap", thr[t].new, Null)
  <2>1. heap' = heap /\ list' = list /\ Goes(t, r, {})
    BY <1>6, DeletesNothing
  <2>2. thr[t].new \in Addrs
    BY <1>6 DEF DelLSA, IInv, ThreadInv, Holding, Originating, Alive
  <2>3. r \in ThreadType /\ r.pc # "add"
    BY <2>2, AtType
  <2> HIDE DEF r
  <2> QED
    BY <1>1, <2>1, <2>3, SameIsSteady
<1>3. CASE Flood(t)
  <2>1. heap' = heap /\ list' = list /\ Goes(t, Done(t), {})
    BY <1>3 DEF Flood
  <2>2. Done(t) \in ThreadType /\ Done(t).pc # "add"
    BY DoneType
  <2> QED
    BY <1>1, <2>1, <2>2, SameIsSteady
<1> QED
  BY <1>2, <1>3, <1>4, <1>5, <1>6, OriginateSteady, RemoveSteady, PushSteady
     DEF OriginatorStep

\* The receiver looks the LSA up in the list as it is.
LEMMA ReceiveLooksUp ==
  ASSUME IInv, ~fault, freed = {}, NEW l \in LSAs, NEW s \in Seqs, Receive(l, s)
  PROVE  (\A k : Unaffected(k)) /\ LookUpHolds'
<1> DEFINE t == "receiver"
<1>1. TypeOK /\ list' = list /\ t \in Threads
  BY DEF Receive, IInv, Threads
<1>a. \E f, y : f = FirstMatch(l) /\ y = TypeOf(l)
  OBVIOUS
<1>b. PICK f, y : f = FirstMatch(l) /\ y = TypeOf(l)
  BY <1>a
<1>2. PICK a \in Addrs : Allocated(a, l, s) /\ Goes(t, At("add", a, f), {})
  BY <1>b DEF Receive
<1>3. /\ heap' \in [Addrs -> Objects \cup {Free}] /\ heap[a] = Free /\ heap'[a].lsa = l
      /\ \A b \in Addrs : heap[b] # Free => heap'[b] = heap[b]
  BY <1>2, NewObject
<1>4. y \in Types /\ y \notin freed /\ ListInv(y)
  BY <1>b DEF IInv, TypeOf, Types
<1>5. \A b \in Listed(y) : b \in Addrs /\ heap[b] # Free /\ heap'[b] = heap[b]
  BY <1>3, <1>4 DEF ListInv, Alive
<1>6. ASSUME NEW k PROVE Unaffected(k)
  <2>1. \A b \in Listed(TypeOf(k)) : heap'[b] = heap[b]
    BY <1>3 DEF IInv, ListInv, Alive, TypeOf, Types
  <2> QED
    BY <1>1, <2>1, SameObjects
<1>7. /\ f \in Addrs \cup {Null}
      /\ f = Null => \A b \in Listed(y) : heap[b] # Free => heap[b].lsa # l
      /\ f # Null => f \in Listed(y) /\ heap[f].lsa = l
  BY <1>1, <1>b, FirstMatchFinds
<1>8. thr'[t].new = a /\ thr'[t].found = f
  BY <1>1, <1>2, <1>7, AtType, GoesOn
<1>9. Listed(y)' = Listed(y) /\ y = TypeOf(l)
  BY <1>1, <1>b DEF Listed
<1>10. /\ f = Null => \A b \in Listed(y)' : heap'[b].lsa # l
       /\ f # Null => f \in Listed(y)' /\ heap'[f].lsa = l
  BY <1>5, <1>7, <1>9
<1>11. TypeOf(l)' = y
  BY <1>b DEF TypeOf
<1>12. ASSUME l \in Others
       PROVE  \/ f \in Listed(y)' /\ heap'[f].lsa = l
              \/ f = Null /\ \A b \in Listed(y)' : heap'[b].lsa # l
  BY <1>10
<1>13. l \in Own /\ f # Null => heap'[f].lsa \in Own
  BY <1>10
<1>14. LookUpHolds'
  BY <1>3, <1>8, <1>9, <1>12, <1>13 DEF LookUpHolds, Listed
<1> QED
  BY <1>6, <1>14

\* addLSA puts the new object in the place of the one instance there was.
LEMMA AddLSAStores ==
  ASSUME IInv, IInv', ~fault, ~fault', freed = {}, One, LookUpHolds, AddLSA, NEW l, NEW a,
         a = thr["receiver"].new, l = heap[a].lsa
  PROVE  /\ heap'[a] = heap[a] /\ heap[a] \in Objects
         /\ \A k : k # l => Unaffected(k)
         /\ Has(l, a)' /\ (l \in Others => \A b : Has(l, b)' <=> b = a)
<1> DEFINE t == "receiver"
<1>a. \E f, y, old : f = thr[t].found /\ y = TypeOf(heap[a].lsa) /\ old = Displaced(y, f)
  OBVIOUS
<1>b. PICK f, y, old : f = thr[t].found /\ y = TypeOf(heap[a].lsa) /\ old = Displaced(y, f)
  BY <1>a
<1>1. /\ thr[t].pc = "add" /\ Deleted(old) /\ TypeOK /\ t \in Threads /\ thr[t] \in ThreadType
      /\ freed' = {}
  BY <1>b DEF AddLSA, IInv, Threads, TypeOK
<1>2. /\ y \in Types /\ a \in Addrs
      /\ old = {} \/ (old = {f} /\ f \in Listed(y) /\ f \in Addrs)
      /\ \A z \in Types : z # y => Listed(z)' = Listed(z)
      /\ Listed(y)' = (Listed(y) \ old) \cup {a}
  BY <1>b, AddLSALists
<1>3. \A b \in Addrs : b \notin old => heap'[b] = heap[b]
  BY <1>1, Deletes
<1>4. Alive(a) /\ \A z \in Types : a \notin Listed(z)
  BY <1>1 DEF IInv, ThreadInv, Holding
<1>5. heap'[a] = heap[a] /\ heap[a] \in Objects
  <2>1. a \notin old
    BY <1>2, <1>4
  <2>2. heap[a] \in Objects
    BY <1>1, <1>4 DEF Alive, TypeOK
  <2> QED
    BY <1>2, <1>3, <2>1, <2>2
<1>6. \A z \in Types : \A b \in Listed(z) : b \in Addrs /\ (z # y => b \notin old)
  <2>1. \A z \in Types : \A b \in Listed(z) : b \in Addrs
    BY DEF IInv, ListInv, Alive
  <2>2. \A z \in Types : z # y => \A b \in Listed(z) : b \notin old
    BY <1>2, ListedOnly
  <2> QED
    BY <2>1, <2>2
<1>7. old \subseteq {f} /\ (old # {} => heap[f].lsa = l)
  <2>1. CASE old = {}
    BY <2>1
  <2>2. CASE old = {f} /\ f \in Listed(y) /\ f \in Addrs
    <3>1. f # Null /\ heap[f] # Free
      BY <1>2, <2>2, LsdbAssumption DEF IInv, ListInv, Alive
    <3>2. l \in LSAs
      BY <1>5 DEF Objects
    <3>3. l \in Own \/ l \in Others
      BY <3>2 DEF Others
    <3>4. TypeOf(heap[f].lsa) = TypeOf(l)
      BY <1>1, <1>2, <1>b, <2>2 DEF IInv, ListInv
    <3>5. CASE l \in Own
      <4>1. heap[f].lsa \in Own
        BY <1>1, <1>b, <3>1, <3>5 DEF LookUpHolds
      <4>2. \A m, n \in Own : TypeOf(m) = TypeOf(n) => m = n
        BY LsdbAssumption DEF Own, TypeOf
      <4> QED
        BY <2>2, <3>4, <3>5, <4>1, <4>2
    <3>6. CASE l \in Others
      BY <1>1, <1>b, <2>2, <3>1, <3>6 DEF LookUpHolds
    <3> QED
      BY <2>2, <3>3, <3>5, <3>6
  <2> QED
    BY <1>2, <2>1, <2>2
<1>8. ASSUME NEW k, k # l PROVE Unaffected(k)
  <2>1. PICK z \in Types : z = TypeOf(k)
    BY DEF TypeOf, Types
  <2>2. \A b : b \in Listed(z)' <=> (b \in Listed(z) /\ (z = y => b \notin old)) \/ (z = y /\ b = a)
    BY <1>2
  <2>3. \A b : Has(k, b)' <=> b \in Listed(z)' /\ heap'[b].lsa = k
    BY <2>1 DEF Has, TypeOf, Listed
  <2>4. \A b : Has(k, b) <=> b \in Listed(z) /\ heap[b].lsa = k
    BY <2>1 DEF Has
  <2>5. \A b \in old : heap[b].lsa # k
    BY <1>7, <1>8
  <2>6. \A b : Has(k, b) => b \in Listed(z) /\ b \notin old /\ heap'[b] = heap[b]
    BY <1>3, <1>6, <2>1, <2>4, <2>5
  <2>7. \A b : Has(k, b)' => b \in Listed(z) /\ b \notin old /\ heap'[b] = heap[b]
    BY <1>3, <1>5, <1>6, <1>8, <2>1, <2>2, <2>3
  <2> QED
    BY <2>2, <2>3, <2>4, <2>6, <2>7 DEF Unaffected
<1>9. ASSUME l \in Others PROVE \A b : Has(l, b)' <=> b = a
  <2>1. \A b : Has(l, b)' <=> b \in Listed(y)' /\ heap'[b].lsa = l
    BY <1>b DEF Has, TypeOf, Listed
  <2>2. \A b \in Listed(y) : heap[b].lsa = l => b \in old
    <3>1. CASE f \in Listed(y) /\ heap[f].lsa = l
      BY <1>2, <1>9, <1>b, <3>1 DEF One, Displaced
    <3>2. CASE \A b \in Listed(y) : heap[b].lsa # l
      BY <3>2
    <3> QED
      BY <1>1, <1>9, <1>b, <3>1, <3>2 DEF LookUpHolds
  <2>3. \A b \in Listed(y) \ old : heap'[b] = heap[b]
    BY <1>2, <1>3, <1>6
  <2> QED
    BY <1>2, <1>5, <2>1, <2>2, <2>3
<1>10. Has(l, a)'
  <2>1. Has(l, a)' <=> a \in Listed(y)' /\ heap'[a].lsa = l
    BY <1>b DEF Has, TypeOf, Listed
  <2>2. a \in Listed(y)' /\ heap'[a].lsa = l
    BY <1>2, <1>5
  <2> QED
    BY <2>1, <2>2
<1> QED
  BY <1>5, <1>8, <1>9, <1>10

LEMMA AddLSAOne ==
  ASSUME IInv, IInv', ~fault, ~fault', freed = {}, One, LookUpHolds, AddLSA
  PROVE  One' /\ LookUpHolds'
<1>a. \E a, l : a = thr["receiver"].new /\ l = heap[a].lsa
  OBVIOUS
<1>b. PICK a, l : a = thr["receiver"].new /\ l = heap[a].lsa
  BY <1>a
<1>1. /\ \A k \in Others : k # l => Unaffected(k)
      /\ l \in Others => \A b : Has(l, b)' <=> b = a
  BY <1>b, AddLSAStores
<1>2. One'
  <2> SUFFICES ASSUME NEW y \in Types, NEW b \in Listed(y)', NEW c \in Listed(y)',
                      heap'[b].lsa \in Others, heap'[b].lsa = heap'[c].lsa
               PROVE  b = c
    BY DEF One
  <2>1. PICK k \in Others : k = heap'[b].lsa
    OBVIOUS
  <2>2. ListInv(y)' /\ y \notin freed'
    BY DEF IInv, AddLSA
  <2>3. TypeOf(k) = y
    BY <2>1, <2>2 DEF ListInv, TypeOf
  <2>4. Has(k, b)' /\ Has(k, c)'
    BY <2>1, <2>3 DEF Has, Listed, TypeOf
  <2>5. CASE k = l
    BY <1>1, <2>4, <2>5
  <2>6. CASE k # l
    <3>1. Has(k, b) /\ Has(k, c)
      BY <1>1, <2>4, <2>6 DEF Unaffected
    <3>2. b \in Listed(y) /\ c \in Listed(y) /\ heap[b].lsa = k /\ heap[c].lsa = k
      BY <2>3, <3>1 DEF Has
    <3> QED
      BY <3>2 DEF One
  <2> QED
    BY <2>5, <2>6
<1>3. thr'["receiver"] = Idle /\ Idle.pc # "add"
  <2>1. Goes("receiver", Idle, Displaced(TypeOf(heap[a].lsa), thr["receiver"].found))
    BY <1>b DEF AddLSA
  <2>2. TypeOK /\ Idle \in ThreadType /\ Idle.pc # "add" /\ "receiver" \in Threads
    BY AtType DEF IInv, Idle, Threads
  <2> QED
    BY <2>1, <2>2, GoesOn
<1> QED
  BY <1>2, <1>3 DEF LookUpHolds

-----------------------------------------------------------------------------
(* The steps, seen from LsaStore                                           *)

\* A database that is broken stays so.
LEMMA StaysBroken ==
  ASSUME IInv, Next, Intact'
  PROVE  Intact /\ lsa_seq_cnt' <= MaxSeq + 1
<1>1. ~fault /\ ~fault' /\ freed' = {} /\ lsa_seq_cnt' <= MaxSeq + 1
  BY DEF Next, Intact
<1>2. CASE Destroy
  <2>1. thr["lsr"].pc = "routing" /\ ~thr["lsr"].stale /\ "lsr" \in Threads
    BY <1>1, <1>2 DEF Destroy, Threads
  <2> QED
    BY <1>1, <2>1 DEF IInv, ThreadInv, Intact
<1>3. CASE ~Destroy
  <2>1. freed' = freed
    BY <1>3 DEF Next, ReceiverStep, OriginatorStep, AddLSA, Served, Summarize, Serve,
           Receive, Originate, FindOwn, Compare, Identify, DelLSA, Push, Flood,
           Snapshot
  <2> QED
    BY <1>1, <2>1 DEF Intact
<1> QED
  BY <1>1, <1>2, <1>3

\* All steps but the ones of addLSA are steady.
LEMMA OtherSteps ==
  ASSUME IInv, Intact, Intact', [Next]_vars
  PROVE  \/ Steady
         \/ AddLSA
         \/ \E l \in LSAs, s \in Seqs : Receive(l, s)
<1>1. TypeOK /\ ~fault /\ ~fault' /\ freed = {} /\ freed' = {}
  BY DEF IInv, Intact
<1>2. CASE UNCHANGED vars
  BY <1>1, <1>2, SameIsSteady DEF vars
<1>3. CASE Served
  <2>1. /\ heap' = heap /\ list' = list /\ Goes("receiver", Idle, {})
        /\ Idle \in ThreadType /\ Idle.pc # "add" /\ "receiver" \in Threads
    BY <1>3, AtType DEF Served, Idle, Threads
  <2> QED
    BY <1>1, <2>1, SameIsSteady
<1>4. CASE Summarize
  BY <1>1, <1>4, SameIsSteady DEF Summarize
<1>5. ASSUME NEW l \in LSAs, Serve(l) PROVE Steady
  <2>1. /\ heap' = heap /\ list' = list
        /\ Goes("receiver", At("serve", Null, FirstMatch(l)), {})
    BY <1>1, <1>5 DEF Serve
  <2>2. /\ At("serve", Null, FirstMatch(l)) \in ThreadType
        /\ At("serve", Null, FirstMatch(l)).pc # "add" /\ "receiver" \in Threads
    BY <1>1, FoundType, AtType DEF Threads
  <2> QED
    BY <1>1, <2>1, <2>2, SameIsSteady
<1>6. CASE Snapshot
  <2>1. /\ heap' = heap /\ list' = list
        /\ thr'["receiver"] = thr["receiver"]
    BY <1>1, <1>6 DEF Snapshot, TypeOK, Threads
  <2> QED
    BY <1>1, <2>1, SameIsSteady
<1>7. CASE Destroy
  BY <1>1, <1>7, DestroySteady
<1>8. ASSUME NEW t \in Threads, OriginatorStep(t), lsa_seq_cnt' <= MaxSeq + 1 PROVE Steady
  BY <1>1, <1>8, OriginatorSteady
<1> QED
  BY <1>2, <1>3, <1>4, <1>5, <1>6, <1>7, <1>8 DEF Next, ReceiverStep

LEMMA StoreInvStep ==
  StoreInv /\ [Next]_vars => StoreInv'
<1> SUFFICES ASSUME StoreInv, [Next]_vars PROVE StoreInv'
  OBVIOUS
<1>1. IInv /\ IInv'
  BY IInvStep DEF StoreInv
<1>2. SUFFICES ASSUME Intact' PROVE One' /\ LookUpHolds'
  BY <1>1 DEF StoreInv
<1>3. Intact /\ One /\ LookUpHolds
  <2>1. Intact
    BY <1>1, <1>2, StaysBroken DEF vars, Intact
  <2> QED
    BY <2>1 DEF StoreInv
<1>4. ~fault /\ ~fault' /\ freed = {}
  BY <1>2, <1>3 DEF Intact
<1>5. CASE Steady
  <2>1. \A l \in Others : Unaffected(l)
    BY <1>5 DEF Steady
  <2> QED
    BY <1>1, <1>2, <1>3, <1>5, <2>1, OneStays, LookUpStays
<1>6. CASE AddLSA
  BY <1>1, <1>3, <1>4, <1>6, AddLSAOne
<1>7. ASSUME NEW l \in LSAs, NEW s \in Seqs, Receive(l, s) PROVE One' /\ LookUpHolds'
  <2>1. (\A k \in Others : Unaffected(k)) /\ LookUpHolds'
    BY <1>1, <1>4, <1>7, ReceiveLooksUp
  <2> QED
    BY <1>1, <1>2, <1>3, <2>1, OneStays
<1> QED
  BY <1>1, <1>2, <1>3, <1>5, <1>6, <1>7, OtherSteps

LEMMA StoreInvInit ==
  Init => StoreInv
<1> SUFFICES ASSUME Init PROVE StoreInv
  OBVIOUS
<1>1. \A y \in Types : Listed(y) = {}
  BY DEF Init, Listed
<1>2. thr["receiver"].pc = "idle"
  BY DEF Init, Threads, Idle, At
<1> QED
  BY <1>1, <1>2, IInvInit DEF StoreInv, One, LookUpHolds

\* The instances LsaStore has are those of the listed objects.
StoreHolds ==
  Intact => \A l \in Others :
    /\ \A a : Has(l, a) => StoredInstance(l) = heap[a].seq
    /\ (\A a : ~Has(l, a)) => StoredInstance(l) = Null

LEMMA StoreIsHeld ==
  StoreInv => StoreHolds
BY StoredIs DEF StoreInv, StoreHolds

LEMMA StoredSame ==
  ASSUME StoreHolds, StoreHolds', Intact, Intact', NEW l \in Others, Unaffected(l)
  PROVE  StoredInstance(l)' = StoredInstance(l)
<1>1. /\ \A a : Has(l, a) => StoredInstance(l) = heap[a].seq
      /\ (\A a : ~Has(l, a)) => StoredInstance(l) = Null
  BY DEF StoreHolds
<1>2. /\ \A a : Has(l, a)' => StoredInstance(l)' = heap'[a].seq
      /\ (\A a : ~Has(l, a)') => StoredInstance(l)' = Null
  BY DEF StoreHolds
<1>3. CASE \E a : Has(l, a)
  <2>1. PICK a : Has(l, a)
    BY <1>3
  <2> QED
    BY <1>1, <1>2, <2>1 DEF Unaffected
<1>4. CASE \A a : ~Has(l, a)
  BY <1>1, <1>2, <1>4 DEF Unaffected
<1> QED
  BY <1>3, <1>4

\* A step that leaves the LSAs of others alone is none of LsaStore.
LEMMA StoreStutters ==
  ASSUME StoreHolds, StoreHolds', Intact, Intact', \A l \in Others : Unaffected(l)
  PROVE  UNCHANGED Store!vars
<1>1. \A l \in Others : StoredInstance(l)' = StoredInstance(l)
  BY StoredSame
<1> QED
  BY <1>1 DEF Store!vars

LEMMA StoreReceives ==
  ASSUME StoreInv, StoreInv', StoreHolds, StoreHolds', Intact, Intact', AddLSA
  PROVE  [Store!Next]_(Store!vars)
<1>a. \E a, l : a = thr["receiver"].new /\ l = heap[a].lsa
  OBVIOUS
<1>b. PICK a, l : a = thr["receiver"].new /\ l = heap[a].lsa
  BY <1>a
<1>1. IInv /\ IInv' /\ One /\ One' /\ LookUpHolds
  BY DEF StoreInv
<1>2. /\ heap'[a] = heap[a] /\ heap[a] \in Objects
      /\ \A k \in Others : k # l => Unaffected(k)
      /\ l \in Others => \A b : Has(l, b)' <=> b = a
  BY <1>1, <1>b, AddLSAStores DEF Intact
<1>3. CASE l \notin Others
  BY <1>2, <1>3, StoreStutters
<1>4. CASE l \in Others
  <2>1. heap[a].seq \in Seqs
    BY <1>2 DEF Objects
  <2>2. StoredInstance(l)' = heap[a].seq
    <3>1. \A b : Has(l, b)' => StoredInstance(l)' = heap'[b].seq
      BY <1>4 DEF StoreHolds
    <3> QED
      BY <1>2, <1>4, <3>1
  <2>3. \A k \in Others : k # l => StoredInstance(k)' = StoredInstance(k)
    BY <1>2, StoredSame
  <2>4. Store!Receive(l, heap[a].seq)
    BY <1>4, <2>2, <2>3 DEF Store!Receive
  <2> QED
    BY <1>4, <2>1, <2>4 DEF Store!Next
<1> QED
  BY <1>3, <1>4

LEMMA StoreStep ==
  StoreInv /\ StoreInv' /\ StoreHolds /\ StoreHolds' /\ [Next]_vars
    => [Store!Next]_(Store!vars)
<1> SUFFICES ASSUME StoreInv, StoreInv', StoreHolds, StoreHolds', [Next]_vars
             PROVE [Store!Next]_(Store!vars)
  OBVIOUS
<1>1. IInv
  BY DEF StoreInv
<1>2. CASE ~Intact'
  BY <1>2 DEF Store!Next, Store!Break
<1>3. CASE Intact'
  <2>1. Intact
    BY <1>1, <1>3, StaysBroken DEF vars, Intact
  <2>2. ~fault /\ freed = {}
    BY <2>1 DEF Intact
  <2>3. CASE Steady
    BY <1>3, <2>1, <2>3, StoreStutters DEF Steady
  <2>4. CASE AddLSA
    BY <1>3, <2>1, <2>4, StoreReceives
  <2>5. ASSUME NEW l \in LSAs, NEW s \in Seqs, Receive(l, s)
        PROVE  UNCHANGED Store!vars
    <3>1. \A k \in Others : Unaffected(k)
      BY <1>1, <2>2, <2>5, ReceiveLooksUp
    <3> QED
      BY <1>3, <2>1, <3>1, StoreStutters
  <2> QED
    BY <1>1, <1>3, <2>1, <2>3, <2>4, <2>5, OtherSteps
<1> QED
  BY <1>2, <1>3

LEMMA StoreInit ==
  Init => Store!Init
<1> SUFFICES ASSUME Init PROVE Store!Init
  OBVIOUS
<1>1. Intact
  BY DEF Init, Intact
<1>2. \A l : Matches(l) = {}
  BY DEF Init, Matches, TypeOf, Types
<1>3. \A l \in Others : StoredInstance(l) = Null
  BY <1>2 DEF StoredInstance
<1> QED
  BY <1>1, <1>3 DEF Store!Init

\* The database keeps the LSAs of other routers as LsaStore promises, until a
\* snapshot destroys it: one instance of each, the last that arrived, whatever
\* the originators do between the look-up of addLSA and its mutex.
THEOREM StoreImplemented == Spec => ImplementsStore
<1>1. Init => StoreInv /\ Store!Init
  BY StoreInvInit, StoreInit
<1>2. StoreInv /\ [Next]_vars => StoreInv'
  BY StoreInvStep
<1>3. StoreInv => StoreHolds
  BY StoreIsHeld
<1>4. StoreInv /\ StoreInv' /\ StoreHolds /\ StoreHolds' /\ [Next]_vars
        => [Store!Next]_(Store!vars)
  BY StoreStep
<1> QED
  BY <1>1, <1>2, <1>3, <1>4, PTL DEF Spec, ImplementsStore, Store!Spec

-----------------------------------------------------------------------------
(* The host's own LSAs                                                     *)

\* The object at a is a listed instance of l, or one that a thread is about to
\* list in the place of the one it took out.
Swapping(t, a) == thr[t].pc = "swap" /\ thr[t].new = a
There(l, a) == Has(l, a) \/ (heap[a].lsa = l /\ \E t \in Threads : Swapping(t, a))

\* A step keeps the instances of l.
Carries(l) == \A a : There(l, a) => There(l, a)' /\ heap'[a] = heap[a]

\* What OwnKept and OwnNewestGrows are about are these instances.
LEMMA KeptIsThere ==
  ASSUME IInv, Intact, NEW l \in Own
  PROVE  /\ Kept(l) <=> \E a : There(l, a)
         /\ Instances(l) = {heap[a].seq : a \in {b \in Addrs : There(l, b)}}
<1>a. \E y : y = TypeOf(l)
  OBVIOUS
<1>b. PICK y \in Types : y = TypeOf(l)
  BY <1>a DEF TypeOf, Types
<1>1. ListInv(y) /\ y \notin freed /\ TypeOK
  BY DEF IInv, Intact
<1>2. Matches(l) = {i \in DOMAIN list[y] : heap[list[y][i]] # Free /\ heap[list[y][i]].lsa = l}
  BY <1>b DEF Matches
<1>3. \A a : Has(l, a) <=> \E i \in Matches(l) : list[y][i] = a
  <2>1. \A i \in DOMAIN list[y] : heap[list[y][i]] # Free
    BY <1>1 DEF ListInv, Alive, Listed
  <2> QED
    BY <1>2, <1>b, <2>1 DEF Has, Listed
<1>4. \A a : There(l, a) => a \in Addrs
  <2>1. \A t \in Threads : thr[t].pc = "swap" => thr[t].new \in Addrs
    BY DEF IInv, Intact, ThreadInv, Holding, Alive
  <2> QED
    BY <1>1, <1>b, <2>1 DEF There, Has, Swapping, ListInv, Alive
<1>5. Kept(l) <=> \E a : There(l, a)
  BY <1>3 DEF Kept, There, Swapping
<1>6. ASSUME NEW n PROVE n \in Instances(l) <=> \E a \in Addrs : There(l, a) /\ n = heap[a].seq
  <2>1. n \in Instances(l) <=> \/ \E i \in Matches(l) : n = heap[list[y][i]].seq
                               \/ \E t \in Threads : /\ thr[t].pc = "swap"
                                                     /\ heap[thr[t].new].lsa = l
                                                     /\ n = heap[thr[t].new].seq
    BY <1>b DEF Instances
  <2>2. (\E i \in Matches(l) : n = heap[list[y][i]].seq) <=> \E a : Has(l, a) /\ n = heap[a].seq
    BY <1>3
  <2> QED
    BY <1>4, <2>1, <2>2 DEF There, Swapping
<1> QED
  BY <1>5, <1>6

\* Thread t leaves the lists and the objects that are there alone. What it
\* points to it has just looked up, or pointed to before; and it goes on to
\* replace it only with something newer.
Quietly(t) ==
  /\ list' = list /\ thr[t].pc # "swap"
  /\ \A a \in Addrs : heap[a] # Free => heap'[a] = heap[a]
  /\ \A u \in Threads \ {t} :
       /\ thr'[u].pc = thr[u].pc /\ thr'[u].new = thr[u].new
       /\ thr'[u].found = thr[u].found
       /\ thr[u].stale => thr'[u].stale
  /\ LET q == thr[t]   r == thr'[t] IN
     r.pc \in Pointing /\ ~r.stale =>
       /\ r.new = q.new
       /\ \/ /\ q.pc = "find" /\ r.pc = "compare"
             /\ r.found = FirstMatch(heap[r.new].lsa) /\ r.found # Null
          \/ /\ q.pc \in Pointing /\ r.found = q.found /\ ~q.stale
             /\ q.pc = "compare" => Newer(r.new, r.found)

\* What a step of thread t leaves of what the others do.
LEMMA OthersGo ==
  ASSUME TypeOK, NEW t \in Threads, NEW r \in ThreadType, NEW A, Goes(t, r, A),
         NEW u \in Threads \ {t}
  PROVE  /\ thr'[u].pc = thr[u].pc /\ thr'[u].new = thr[u].new
         /\ thr'[u].found = thr[u].found
         /\ thr[u].stale => thr'[u].stale
         /\ ~thr'[u].stale => Uses(u) \cap A = {}
<1>1. /\ thr'[u].pc = thr[u].pc /\ thr'[u].new = thr[u].new
      /\ thr'[u].found = thr[u].found
      /\ thr'[u].stale = (thr[u].stale \/ Uses(u) \cap A # {})
  BY GoesOn
<1> HIDE DEF Threads
<1> QED
  BY <1>1, Zenon

\* A thread that changes no list and points to nothing is quiet.
LEMMA QuietIf ==
  ASSUME TypeOK, NEW t \in Threads, NEW r \in ThreadType, NEW A, Goes(t, r, A),
         thr[t].pc # "swap", r.pc \notin Pointing, list' = list,
         \A a \in Addrs : heap[a] # Free => heap'[a] = heap[a]
  PROVE  Quietly(t)
<1>1. thr'[t] = r
  BY GoesOn
<1> QED
  BY <1>1, OthersGo DEF Quietly

\* An originator that looks its LSA up, compares it or reads what it is.
LEMMA FindQuiet ==
  ASSUME IInv, Intact, NEW t \in Threads, FindOwn(t)
  PROVE  Quietly(t)
<1> DEFINE new == thr[t].new
           l == heap[new].lsa
           found == IF l = OwnNetwork /\ ~IdIsAddress THEN Null ELSE FirstMatch(l)
           r == At(IF found = Null THEN "push" ELSE "compare", new, found)
<1>1. TypeOK /\ new \in Addrs /\ l \in LSAs /\ thr[t].pc = "find" /\ list' = list /\ heap' = heap
  BY OwnType DEF IInv, Intact, ThreadInv, Alive, Originating, FindOwn
<1>2. Goes(t, r, {})
  BY DEF FindOwn
<1>3. found \in Addrs \cup {Null} /\ (found # Null => found = FirstMatch(l))
  BY <1>1, FoundType
<1> HIDE DEF found
<1>4. /\ r \in ThreadType /\ r.new = new /\ r.found = found
      /\ r.pc \in Pointing => r.pc = "compare" /\ found # Null
  BY <1>1, <1>3, AtType DEF Pointing
<1> HIDE DEF r, l, new
<1>6. /\ thr'[t] = r
      /\ \A u \in Threads \ {t} :
           /\ thr'[u].pc = thr[u].pc /\ thr'[u].new = thr[u].new
           /\ thr'[u].found = thr[u].found
           /\ thr[u].stale => thr'[u].stale
  BY <1>1, <1>2, <1>4, GoesOn, OthersGo
<1> QED
  BY <1>1, <1>3, <1>4, <1>6 DEF Quietly, l, new

LEMMA PointingQuiet ==
  ASSUME IInv, Intact, ~fault', NEW t \in Threads, Compare(t) \/ Identify(t)
  PROVE  Quietly(t)
<1>1. /\ TypeOK /\ ~fault /\ list' = list /\ heap' = heap
      /\ thr[t].pc \in Pointing /\ thr[t].pc # "swap"
  BY DEF IInv, Intact, Compare, Identify, Pointing
<1>2. thr[t] \in ThreadType /\ thr[t].new \in Addrs
  BY <1>1 DEF IInv, ThreadInv, Holding, Originating, Pointing, Alive, TypeOK
<1>3. PICK r \in ThreadType :
        /\ Goes(t, r, {}) /\ ~thr[t].stale
        /\ r.pc \in Pointing =>
             /\ r.new = thr[t].new /\ r.found = thr[t].found
             /\ thr[t].pc = "compare" => Newer(r.new, r.found)
  <2>1. CASE Compare(t)
    <3>1. PICK r \in ThreadType :
            /\ Goes(t, r, {}) /\ ~thr[t].stale
            /\ \/ r.pc = "push" /\ r.new = thr[t].new
               \/ r = At("replace", thr[t].new, thr[t].found)
                  /\ Newer(thr[t].new, thr[t].found)
               \/ r.pc = (IF t = "lsr" THEN "route" ELSE "idle")
      BY <1>1, <2>1, CompareGoes
    <3>2. r.pc \in Pointing => /\ r.new = thr[t].new /\ r.found = thr[t].found
                               /\ Newer(r.new, r.found)
      BY <3>1 DEF Pointing, At
    <3> QED
      BY <3>1, <3>2
  <2>2. CASE Identify(t)
    <3> DEFINE r == At("delete", thr[t].new, thr[t].found)
    <3>1. Goes(t, r, {}) /\ ~thr[t].stale /\ thr[t].pc = "replace"
      BY <1>2, <2>2 DEF Identify
    <3>2. /\ r \in ThreadType /\ r.new = thr[t].new /\ r.found = thr[t].found
      BY <1>2, AtType DEF ThreadType
    <3> HIDE DEF r
    <3> QED
      BY <3>1, <3>2
  <2> QED
    BY <2>1, <2>2
<1>4. thr'[t] = r
  BY <1>1, <1>3, GoesOn
<1>5. \A u \in Threads \ {t} :
        /\ thr'[u].pc = thr[u].pc /\ thr'[u].new = thr[u].new
        /\ thr'[u].found = thr[u].found
        /\ thr[u].stale => thr'[u].stale
  BY <1>1, <1>3, OthersGo
<1> QED
  BY <1>1, <1>3, <1>4, <1>5 DEF Quietly

\* All but those that change a list are quiet.
LEMMA QuietSteps ==
  ASSUME IInv, Intact, Intact', Next
  PROVE  \/ AddLSA
         \/ \E t \in Threads : Quietly(t) \/ Push(t) \/ Removes(t)
<1>1. /\ TypeOK /\ ~fault /\ ~fault' /\ freed = {} /\ freed' = {}
      /\ lsa_seq_cnt' <= MaxSeq + 1 /\ "receiver" \in Threads /\ "lsr" \in Threads
  BY DEF IInv, Intact, Next, Threads
<1>2. CASE Served
  <2>1. Goes("receiver", Idle, {}) /\ Idle \in ThreadType /\ Idle.pc \notin Pointing
    BY <1>2, AtType DEF Served, Idle, Pointing
  <2>2. heap' = heap /\ list' = list /\ thr["receiver"].pc # "swap"
    BY <1>2 DEF Served
  <2> QED
    BY <1>1, <2>1, <2>2, QuietIf
<1>3. CASE Summarize
  BY <1>1, <1>3 DEF Summarize, Quietly
<1>4. ASSUME NEW l \in LSAs, Serve(l) PROVE Quietly("receiver")
  <2> DEFINE r == At("serve", Null, FirstMatch(l))
  <2>1. Goes("receiver", r, {}) /\ heap' = heap /\ list' = list /\ thr["receiver"].pc # "swap"
    BY <1>1, <1>4 DEF Serve
  <2>2. r \in ThreadType /\ r.pc \notin Pointing
    BY <1>1, FoundType, AtType DEF Pointing
  <2> HIDE DEF r
  <2> QED
    BY <1>1, <2>1, <2>2, QuietIf
<1>5. ASSUME NEW l \in LSAs, NEW s \in Seqs, Receive(l, s) PROVE Quietly("receiver")
  <2>1. PICK a \in Addrs : /\ Allocated(a, l, s)
                           /\ Goes("receiver", At("add", a, FirstMatch(l)), {})
    BY <1>5 DEF Receive
  <2>2. \A b \in Addrs : heap[b] # Free => heap'[b] = heap[b]
    BY <1>1, <2>1, NewObject
  <2>3. list' = list /\ thr["receiver"].pc # "swap"
    BY <1>5 DEF Receive
  <2> DEFINE r == At("add", a, FirstMatch(l))
  <2>4. r \in ThreadType /\ r.pc \notin Pointing /\ Goes("receiver", r, {})
    BY <1>1, <2>1, FoundType, AtType DEF Pointing
  <2> HIDE DEF r
  <2> QED
    BY <1>1, <2>2, <2>3, <2>4, QuietIf
<1>6. ASSUME NEW t \in Threads, NEW l \in Own, Originate(t, l) PROVE Quietly(t)
  <2>1. PICK a \in Addrs : Allocated(a, l, lsa_seq_cnt) /\ Goes(t, At("find", a, Null), {})
    BY <1>6 DEF Originate
  <2>2. lsa_seq_cnt \in Seqs /\ l \in LSAs
    BY <1>1, <1>6, LsdbAssumption, OwnType DEF Originate, TypeOK, Seqs
  <2>3. \A b \in Addrs : heap[b] # Free => heap'[b] = heap[b]
    BY <1>1, <2>1, <2>2, NewObject
  <2>4. list' = list /\ thr[t].pc # "swap"
    BY <1>6 DEF Originate
  <2>5. At("find", a, Null) \in ThreadType /\ At("find", a, Null).pc \notin Pointing
    BY AtType DEF Pointing
  <2> QED
    BY <1>1, <2>1, <2>3, <2>4, <2>5, QuietIf
<1>7. ASSUME NEW t \in Threads, Flood(t) PROVE Quietly(t)
  <2>1. Goes(t, Done(t), {}) /\ Done(t) \in ThreadType /\ Done(t).pc \notin Pointing
    BY <1>7, DoneType DEF Flood, Holding, Pointing
  <2>2. heap' = heap /\ list' = list /\ thr[t].pc # "swap"
    BY <1>7 DEF Flood
  <2> QED
    BY <1>1, <2>1, <2>2, QuietIf
<1>8. CASE Snapshot
  <2>1. /\ heap' = heap /\ list' = list /\ thr["lsr"].pc # "swap"
        /\ \A u \in Threads \ {"lsr"} : thr'[u] = thr[u]
        /\ thr'["lsr"].pc \notin Pointing
    BY <1>1, <1>8, AtType DEF Snapshot, TypeOK, At, Pointing
  <2> QED
    BY <1>1, <2>1 DEF Quietly
<1>9. CASE Destroy
  <2>1. /\ list' = list /\ thr["lsr"].pc = "routing" /\ ~thr["lsr"].stale
        /\ Deleted(snap) /\ Goes("lsr", Idle, snap)
        /\ \A y \in Types : Listed(y) \cap snap = {}
    BY <1>1, <1>9 DEF Destroy
  <2>2. snap = {}
    BY <1>1, <2>1 DEF IInv, ThreadInv, Types
  <2>3. \A a \in Addrs : heap'[a] = heap[a]
    BY <1>1, <2>1, <2>2, Deletes
  <2>4. Idle \in ThreadType /\ Idle.pc \notin Pointing
    BY AtType DEF Idle, Pointing
  <2> QED
    BY <1>1, <2>1, <2>3, <2>4, QuietIf
<1>10. ASSUME NEW t \in Threads, OriginatorStep(t)
       PROVE  Quietly(t) \/ Push(t) \/ Removes(t)
  <2>1. CASE DelLSA(t) /\ ~Removes(t)
    <3> DEFINE r == At("swap", thr[t].new, Null)
    <3>1. heap' = heap /\ list' = list /\ Goes(t, r, {}) /\ thr[t].pc = "delete"
      BY <1>1, <2>1, DeletesNothing DEF DelLSA
    <3>2. thr[t].new \in Addrs
      BY <1>1, <3>1 DEF IInv, ThreadInv, Holding, Originating, Alive
    <3>3. r \in ThreadType /\ r.pc \notin Pointing
      BY <3>2, AtType DEF Pointing
    <3> HIDE DEF r
    <3> QED
      BY <1>1, <3>1, <3>3, QuietIf
  <2> QED
    BY <1>1, <1>6, <1>7, <1>10, <2>1, FindQuiet, PointingQuiet DEF OriginatorStep
<1>11. CASE ReceiverStep
  BY <1>1, <1>2, <1>3, <1>4, <1>5, <1>11 DEF ReceiverStep
<1> QED
  BY <1>1, <1>8, <1>9, <1>10, <1>11 DEF Next

\* What is listed or about to be is alive.
LEMMA ThereIsAlive ==
  ASSUME IInv, Intact, NEW l \in LSAs, NEW a, There(l, a)
  PROVE  a \in Addrs /\ heap[a] # Free /\ heap[a].lsa = l
<1>1. TypeOf(l) \in Types \ freed
  BY DEF Intact, TypeOf, Types
<1>2. CASE Has(l, a)
  BY <1>1, <1>2 DEF IInv, Intact, ListInv, Alive, Has
<1>3. CASE \E t \in Threads : Swapping(t, a)
  <2>1. PICK t \in Threads : thr[t].pc = "swap" /\ thr[t].new = a
    BY <1>3 DEF Swapping
  <2>2. ThreadInv(t) /\ thr[t].pc \in Holding
    BY <2>1 DEF IInv, Intact, Holding
  <2> QED
    BY <2>1, <2>2 DEF ThreadInv, Alive, There, Has
<1> QED
  BY <1>2, <1>3 DEF There

\* A quiet step keeps every instance.
LEMMA QuietCarries ==
  ASSUME IInv, Intact, NEW t \in Threads, Quietly(t), NEW l \in LSAs
  PROVE  Carries(l)
<1> SUFFICES ASSUME NEW a, There(l, a) PROVE There(l, a)' /\ heap'[a] = heap[a]
  BY DEF Carries
<1>1. heap'[a] = heap[a] /\ heap[a].lsa = l
  BY ThereIsAlive DEF Quietly
<1>2. CASE Has(l, a)
  BY <1>1, <1>2 DEF There, Has, Listed, TypeOf, Quietly
<1>3. ASSUME NEW u \in Threads, Swapping(u, a) PROVE Swapping(u, a)'
  BY <1>3 DEF Swapping, Quietly
<1> QED
  BY <1>1, <1>2, <1>3 DEF There

\* Listing an object keeps every instance.
LEMMA PushCarries ==
  ASSUME IInv, Intact, NEW t \in Threads, Push(t), NEW l \in LSAs
  PROVE  Carries(l)
<1> SUFFICES ASSUME NEW a, There(l, a) PROVE There(l, a)' /\ heap'[a] = heap[a]
  BY DEF Carries
<1>a. \E b, y : b = thr[t].new /\ y = TypeOf(heap[b].lsa)
  OBVIOUS
<1>b. PICK b, y : b = thr[t].new /\ y = TypeOf(heap[b].lsa)
  BY <1>a
<1>1. ~fault /\ TypeOK /\ heap' = heap /\ heap[a].lsa = l
  BY ThereIsAlive DEF Push, Intact, IInv
<1>2. b \in Addrs /\ y \in Types
  BY <1>1, <1>b, PushObject
<1>3. \A z \in Types : Listed(z) \subseteq Listed(z)'
      /\ Listed(y)' = Listed(y) \cup {b}
  <2>1. list' = [list EXCEPT ![y] = Append(@, b)]
    BY <1>b DEF Push
  <2>2. /\ \A z \in Types : z # y => Listed(z)' = Listed(z)
        /\ Listed(y)' = Listed(y) \cup {b}
    BY <1>1, <1>2, <2>1, PushLists
  <2> QED
    BY <2>2
<1>4. TypeOf(l) \in Types /\ (Has(l, a)' <=> a \in Listed(TypeOf(l))')
  BY <1>1 DEF TypeOf, Types, Has, Listed
<1>5. CASE Has(l, a)
  BY <1>1, <1>3, <1>4, <1>5 DEF Has, There
<1>6. ASSUME NEW u \in Threads, Swapping(u, a) PROVE There(l, a)'
  <2>1. CASE u = t
    BY <1>1, <1>3, <1>4, <1>6, <1>b, <2>1 DEF Swapping, There, Listed
  <2>2. CASE u # t
    <3> DEFINE r == IF thr[t].pc = "swap" THEN At("flood", thr[t].new, Null) ELSE Done(t)
    <3>1. Goes(t, r, {}) /\ r \in ThreadType
      BY <1>2, <1>b, AtType, DoneType DEF Push
    <3> HIDE DEF r
    <3>2. thr'[u].pc = thr[u].pc /\ thr'[u].new = thr[u].new
      BY <1>1, <2>2, <3>1, OthersGo
    <3> QED
      BY <1>1, <1>6, <3>2 DEF Swapping, There
  <2> QED
    BY <2>1, <2>2
<1> QED
  BY <1>1, <1>5, <1>6 DEF There

\* A thread that takes an instance out is about to put its own in.
LEMMA RemoveCarries ==
  ASSUME IInv, Intact, NEW t \in Threads, Removes(t), ~fault', NEW l, NEW f, NEW n,
         l = heap[thr[t].new].lsa, f = FirstMatch(l), n = thr[t].new
  PROVE  /\ \A k \in LSAs : \A a : There(k, a) /\ a # f => There(k, a)' /\ heap'[a] = heap[a]
         /\ \A k \in LSAs : There(k, f) => k = l
         /\ There(l, n)' /\ heap'[n] = heap[n] /\ l \in Own
<1>1. ~fault /\ TypeOK
  BY DEF Intact, IInv
<1>a. \E y : y = TypeOf(l)
  OBVIOUS
<1>b. PICK y : y = TypeOf(l)
  BY <1>a
<1> DEFINE r == At("swap", n, Null)
<1>2. /\ n \in Addrs /\ heap[n] # Free /\ heap[n].lsa = l
      /\ l \in Own /\ thr[t].pc \in Holding
      /\ \A z \in Types \ freed : n \notin Listed(z)
      /\ y \in Types \ freed /\ f \in Listed(y) /\ f \in Addrs /\ heap[f].lsa = l
      /\ Deleted({f}) /\ Goes(t, r, {f})
  BY <1>1, <1>b, RemoveObjects
<1>3. r \in ThreadType /\ r.pc = "swap" /\ r.new = n
  BY <1>2, AtType
<1> HIDE DEF r
<1>4. /\ thr'[t] = r
      /\ \A u \in Threads \ {t} : thr'[u].pc = thr[u].pc /\ thr'[u].new = thr[u].new
  BY <1>1, <1>2, <1>3, GoesOn, OthersGo
<1>5. \A a \in Addrs : a # f => heap'[a] = heap[a]
  BY <1>1, <1>2, Deletes
<1>6. \A z \in Types : Listed(z) \ {f} \subseteq Listed(z)'
  <2>1. list' = [list EXCEPT ![y] = Erase(@, f)]
    BY <1>1, <1>b, RemoveObjects
  <2>2. /\ \A z \in Types : z # y => Listed(z)' = Listed(z)
        /\ Listed(y)' = Listed(y) \ {f}
    BY <1>1, <1>2, <2>1, RemoveLists
  <2> QED
    BY <2>2
<1>7. ASSUME NEW k \in LSAs, NEW a, There(k, a), a # f
      PROVE  There(k, a)' /\ heap'[a] = heap[a]
  <2>1. a \in Addrs /\ heap[a].lsa = k /\ heap'[a] = heap[a]
    BY <1>5, <1>7, ThereIsAlive
  <2>2. CASE Has(k, a)
    <3>1. TypeOf(k) \in Types /\ TypeOf(k)' = TypeOf(k)
      BY DEF TypeOf, Types
    <3>2. a \in Listed(TypeOf(k))'
      BY <1>6, <1>7, <2>2, <3>1 DEF Has, Listed
    <3> QED
      BY <2>1, <3>2 DEF There, Has
  <2>3. ASSUME NEW u \in Threads, Swapping(u, a) PROVE Swapping(u, a)'
    <3>1. u # t
      BY <2>3 DEF Swapping, Removes, DelLSA
    <3> QED
      BY <1>4, <2>3, <3>1 DEF Swapping
  <2> QED
    BY <1>7, <2>1, <2>2, <2>3 DEF There
<1>8. n # f
  BY <1>2
<1>9. There(l, n)' /\ heap'[n] = heap[n]
  BY <1>2, <1>3, <1>4, <1>5, <1>8 DEF There, Swapping
<1>10. \A k \in LSAs : There(k, f) => k = l
  BY <1>2, ThereIsAlive
<1> QED
  BY <1>2, <1>7, <1>9, <1>10

\* addLSA takes out an instance of the LSA it puts in, and of no other.
LEMMA AddLSACarries ==
  ASSUME StoreInv, StoreInv', Intact, Intact', AddLSA, NEW l, NEW a,
         a = thr["receiver"].new, l = heap[a].lsa
  PROVE  /\ \A k \in LSAs : k # l => Carries(k)
         /\ There(l, a)'
<1>1. IInv /\ IInv' /\ One /\ LookUpHolds /\ ~fault /\ ~fault' /\ freed = {} /\ TypeOK
  BY DEF StoreInv, IInv, Intact
<1>2. /\ \A k : k # l => Unaffected(k)
      /\ Has(l, a)'
  BY <1>1, AddLSAStores
<1>a. \E y, f, old : y = TypeOf(l) /\ f = thr["receiver"].found /\ old = Displaced(y, f)
  OBVIOUS
<1>b. PICK y, f, old : y = TypeOf(l) /\ f = thr["receiver"].found /\ old = Displaced(y, f)
  BY <1>a
<1>3. /\ y \in Types \ freed
      /\ old = {} \/ (old = {f} /\ f \in Listed(y))
  BY <1>1, <1>b, AddLSALists
<1>4. /\ thr["receiver"].pc = "add" /\ Deleted(old) /\ Goes("receiver", Idle, old)
      /\ "receiver" \in Threads /\ Idle \in ThreadType
  BY <1>b, AtType DEF AddLSA, Threads, Idle
<1>5. ASSUME NEW u \in Threads, NEW b, Swapping(u, b)
      PROVE  Swapping(u, b)' /\ heap'[b] = heap[b]
  <2>1. u # "receiver" /\ thr[u].pc \in Holding /\ b = thr[u].new
    BY <1>4, <1>5 DEF Swapping, Holding
  <2>2. b \in Addrs /\ b \notin old
    <3>1. b \in Addrs
      BY <1>1, <2>1 DEF IInv, ThreadInv, Alive
    <3>2. \A c \in Listed(y) : b # c
      BY <1>1, <1>3, <2>1, ListedOnly
    <3> QED
      BY <1>3, <3>1, <3>2
  <2>3. thr'[u].pc = thr[u].pc /\ thr'[u].new = thr[u].new
    BY <1>1, <1>4, <2>1, OthersGo
  <2> QED
    BY <1>1, <1>4, <1>5, <2>2, <2>3, Deletes DEF Swapping
<1>6. ASSUME NEW k \in LSAs, k # l PROVE Carries(k)
  BY <1>2, <1>5, <1>6 DEF Carries, There, Unaffected
<1> QED
  BY <1>2, <1>6 DEF There

\* Once the host's own LSA is in the database it stays there, whoever looks it
\* up, replaces it or receives it back, as long as no snapshot destroyed the
\* lists: what is taken out is replaced by the thread that took it.
THEOREM OwnStays == Spec => OwnKept
<1>1. StoreInv /\ StoreInv' /\ [Next]_vars =>
        [~fault' /\ freed' = {} => \A l \in Own : Kept(l) => Kept(l)']_vars
  <2> SUFFICES ASSUME StoreInv, StoreInv', Next, Intact', NEW l \in Own, Kept(l)
               PROVE  Kept(l)'
    BY DEF Intact
  <2>1. IInv /\ IInv' /\ Intact /\ ~fault' /\ l \in LSAs
    BY StaysBroken, OwnType DEF StoreInv, Intact
  <2>2. /\ Kept(l) <=> \E a : There(l, a)
        /\ Kept(l)' <=> (\E a : There(l, a)')
    <3>1. Kept(l) <=> \E a : There(l, a)
      BY <2>1, KeptIsThere
    <3>2. (IInv /\ Intact => (Kept(l) <=> \E a : There(l, a)))'
      BY KeptIsThere, PTL
    <3> QED
      BY <2>1, <3>1, <3>2
  <2>3. PICK a : There(l, a)
    BY <2>2
  <2>4. SUFFICES \E b : There(l, b)'
    BY <2>2
  <2>5. ASSUME Carries(l) PROVE There(l, a)'
    BY <2>3, <2>5 DEF Carries
  <2>6. CASE AddLSA
    BY <2>1, <2>5, <2>6, AddLSACarries
  <2>7. ASSUME NEW t \in Threads, Quietly(t) \/ Push(t) PROVE There(l, a)'
    BY <2>1, <2>5, <2>7, QuietCarries, PushCarries
  <2>8. ASSUME NEW t \in Threads, Removes(t) PROVE \E b : There(l, b)'
    BY <2>1, <2>3, <2>8, RemoveCarries
  <2> QED
    BY <2>1, <2>6, <2>7, <2>8, QuietSteps
<1> QED
  BY StoreInvInit, StoreInvStep, <1>1, PTL DEF Spec, OwnKept

-----------------------------------------------------------------------------
(* Which own instance is replaced                                          *)

\* The address a is in s, and nothing before it is one of P.
FirstOf(s, P, a) == \E i \in DOMAIN s : s[i] = a /\ \A j \in DOMAIN s : j < i => s[j] \notin P

ObjectsOf(l) == {a \in Addrs : heap[a] # Free /\ heap[a].lsa = l}

\* What is appended leaves the first one the first.
LEMMA AppendFirst ==
  ASSUME NEW S, NEW s \in Seq(S), NEW b \in S, NEW P, NEW a, FirstOf(s, P, a)
  PROVE  FirstOf(Append(s, b), P, a)
<1> DEFINE e == Append(s, b)
<1>1. /\ Len(s) \in Nat /\ DOMAIN s = 1..Len(s) /\ DOMAIN e = 1..(Len(s) + 1)
      /\ \A k \in 1..Len(s) : e[k] = s[k]
  OBVIOUS
<1> HIDE DEF e
<1>2. PICK i \in DOMAIN s : s[i] = a /\ \A j \in DOMAIN s : j < i => s[j] \notin P
  BY DEF FirstOf
<1>3. i \in DOMAIN e /\ e[i] = a /\ \A j \in DOMAIN e : j < i => e[j] \notin P
  BY <1>1, <1>2
<1> QED
  BY <1>3 DEF FirstOf, e

\* What is erased elsewhere leaves the first one the first.
LEMMA EraseFirst ==
  ASSUME NEW S, NEW s \in Seq(S), NEW f, \E i \in DOMAIN s : s[i] = f,
         NEW P, NEW a, a # f, FirstOf(s, P, a)
  PROVE  FirstOf(Erase(s, f), P, a)
<1>1. PICK p \in DOMAIN s :
        /\ s[p] = f
        /\ Erase(s, f) = SubSeq(s, 1, p - 1) \o SubSeq(s, p + 1, Len(s))
  BY ErasePosition
<1> DEFINE e == Erase(s, f)
           c == SubSeq(s, 1, p - 1) \o SubSeq(s, p + 1, Len(s))
<1> HIDE DEF e
<1>2. /\ c \in Seq(S) /\ Len(c) = Len(s) - 1
      /\ \A k \in DOMAIN c : c[k] = IF k < p THEN s[k] ELSE s[k + 1]
  BY EraseElements
<1>3. e = c
  BY <1>1 DEF e
<1> HIDE DEF c
<1>4. /\ Len(s) \in Nat /\ DOMAIN s = 1..Len(s) /\ DOMAIN e = 1..(Len(s) - 1)
      /\ p \in 1..Len(s)
      /\ \A k \in DOMAIN e : e[k] = IF k < p THEN s[k] ELSE s[k + 1]
  BY <1>2, <1>3
<1>5. PICK i \in DOMAIN s : s[i] = a /\ \A j \in DOMAIN s : j < i => s[j] \notin P
  BY DEF FirstOf
<1>6. i # p
  BY <1>1, <1>5
<1>7. CASE i < p
  <2>1. i \in DOMAIN e /\ e[i] = a
    BY <1>4, <1>5, <1>7
  <2>2. ASSUME NEW j \in DOMAIN e, j < i PROVE e[j] \notin P
    <3>1. j < p /\ j \in DOMAIN s
      BY <1>4, <1>7, <2>2
    <3> QED
      BY <1>4, <1>5, <2>2, <3>1
  <2> QED
    BY <2>1, <2>2 DEF FirstOf, e
<1>8. CASE i > p
  <2> DEFINE k == i - 1
  <2>1. k \in DOMAIN e /\ ~ (k < p) /\ k + 1 = i
    BY <1>4, <1>8
  <2> HIDE DEF k
  <2>2. e[k] = a
    BY <1>4, <1>5, <2>1
  <2>3. ASSUME NEW j \in DOMAIN e, j < k PROVE e[j] \notin P
    <3>1. j \in DOMAIN s /\ j + 1 \in DOMAIN s /\ j < i /\ j + 1 < i
      BY <1>4, <1>8, <2>1, <2>3
    <3> QED
      BY <1>4, <1>5, <3>1
  <2> QED
    BY <2>1, <2>2, <2>3 DEF FirstOf, e
<1> QED
  BY <1>4, <1>6, <1>7, <1>8

\* FirstMatch is the first object of the LSA in its list.
LEMMA FirstMatchFirst ==
  ASSUME TypeOK, NEW l \in LSAs, FirstMatch(l) # Null
  PROVE  FirstOf(list[TypeOf(l)], ObjectsOf(l), FirstMatch(l))
<1> DEFINE s == list[TypeOf(l)]
<1>1. s \in Seq(Addrs)
  BY DEF TypeOK, TypeOf, Types
<1>2. Matches(l) = {i \in DOMAIN s : heap[s[i]] # Free /\ heap[s[i]].lsa = l}
  BY DEF Matches
<1>3. Matches(l) # {} /\ Matches(l) \in SUBSET Nat
  BY <1>1, <1>2 DEF FirstMatch
<1>4. \E i \in Matches(l) : \A j \in Matches(l) : i <= j
  BY <1>3, FirstPosition
<1> DEFINE i == CHOOSE i \in Matches(l) : \A j \in Matches(l) : i <= j
<1>5. i \in Matches(l) /\ \A j \in Matches(l) : i <= j
  BY <1>4
<1>6. FirstMatch(l) = s[i]
  BY <1>3 DEF FirstMatch
<1> HIDE DEF i, s
<1>7. \A j \in DOMAIN s : j < i => s[j] \notin ObjectsOf(l)
  BY <1>1, <1>2, <1>5 DEF ObjectsOf
<1> QED
  BY <1>2, <1>5, <1>6, <1>7 DEF FirstOf, s

\* The first object of the LSA is the one that FirstMatch returns.
LEMMA FirstIsMatch ==
  ASSUME TypeOK, NEW l \in LSAs, NEW a \in ObjectsOf(l),
         FirstOf(list[TypeOf(l)], ObjectsOf(l), a)
  PROVE  FirstMatch(l) = a
<1> DEFINE s == list[TypeOf(l)]
<1>1. s \in Seq(Addrs)
  BY DEF TypeOK, TypeOf, Types
<1>2. Matches(l) = {i \in DOMAIN s : heap[s[i]] # Free /\ heap[s[i]].lsa = l}
  BY DEF Matches
<1>3. PICK i \in DOMAIN s : s[i] = a /\ \A j \in DOMAIN s : j < i => s[j] \notin ObjectsOf(l)
  BY DEF FirstOf
<1> DEFINE k == CHOOSE k \in Matches(l) : \A j \in Matches(l) : k <= j
<1>4. FirstMatch(l) = IF Matches(l) = {} THEN Null ELSE s[k]
  BY DEF FirstMatch
<1> HIDE DEF s
<1>5. \A j \in Matches(l) : j \in DOMAIN s /\ s[j] \in ObjectsOf(l)
  BY <1>1, <1>2 DEF ObjectsOf
<1>6. i \in Matches(l) /\ \A j \in Matches(l) : i <= j
  BY <1>1, <1>2, <1>3, <1>5 DEF ObjectsOf
<1>7. k \in Matches(l) /\ \A j \in Matches(l) : k <= j
  BY <1>6
<1> HIDE DEF k
<1>8. k = i
  BY <1>1, <1>2, <1>6, <1>7
<1> QED
  BY <1>3, <1>4, <1>6, <1>8

\* What an originator points to, once compared, is older than what it holds,
\* and as long as nobody deleted it, it is the one that delLSA is going to find.
ReplacesOlder(t) ==
  LET l == heap[thr[t].new].lsa IN
  /\ thr[t].pc # "compare" => Newer(thr[t].new, thr[t].found)
  /\ FirstOf(list[TypeOf(l)], ObjectsOf(l), thr[t].found)

ReplaceInv ==
  \A t \in Threads : thr[t].pc \in Pointing /\ ~thr[t].stale => ReplacesOlder(t)

\* So it stays for all threads but the one that takes the step.
LEMMA ReplaceInvStays ==
  ASSUME IInv, Intact, ReplaceInv, NEW t \in Threads, NEW A,
         \A u \in Threads \ {t} :
           /\ thr'[u].pc = thr[u].pc /\ thr'[u].new = thr[u].new
           /\ thr'[u].found = thr[u].found
           /\ thr[u].stale => thr'[u].stale
           /\ ~thr'[u].stale => Uses(u) \cap A = {}
           /\ thr[u].pc \in Holding => thr[u].new \notin A,
         \A a \in Addrs : heap[a] # Free /\ a \notin A => heap'[a] = heap[a],
         \A y \in Types : \A a \in Listed(y)' : a \in Addrs /\ heap[a] # Free /\ a \notin A,
         \A y \in Types : \A P : \A a :
           a \notin A /\ FirstOf(list[y], P, a) => FirstOf(list'[y], P, a),
         thr'[t].pc \in Pointing /\ ~thr'[t].stale => ReplacesOlder(t)'
  PROVE  ReplaceInv'
<1> SUFFICES ASSUME NEW u \in Threads, u # t, thr'[u].pc \in Pointing, ~thr'[u].stale
             PROVE  ReplacesOlder(u)'
  BY DEF ReplaceInv
<1>a. \E a, f, l : a = thr[u].new /\ f = thr[u].found /\ l = heap[a].lsa
  OBVIOUS
<1>b. PICK a, f, l : a = thr[u].new /\ f = thr[u].found /\ l = heap[a].lsa
  BY <1>a
<1>1. /\ thr[u].pc \in Pointing /\ ~thr[u].stale /\ thr'[u].new = a /\ thr'[u].found = f
      /\ thr'[u].pc = thr[u].pc /\ f \notin A /\ a \notin A
  BY <1>b DEF Uses, Holding, Originating, Pointing
<1>2. Alive(a) /\ Alive(f)
  BY <1>1, <1>b DEF IInv, Intact, ThreadInv, Holding, Originating, Pointing
<1>3. heap'[a] = heap[a] /\ heap'[f] = heap[f]
  BY <1>1, <1>2 DEF Alive
<1>4. (thr[u].pc # "compare" => Newer(a, f)) /\ FirstOf(list[TypeOf(l)], ObjectsOf(l), f)
  BY <1>1, <1>b DEF ReplaceInv, ReplacesOlder
<1>5. thr[u].pc # "compare" => heap'[a].seq > heap'[f].seq
  BY <1>3, <1>4 DEF Newer
<1>6. FirstOf(list'[TypeOf(l)], ObjectsOf(l), f) /\ TypeOf(l) \in Types
  BY <1>1, <1>4 DEF TypeOf, Types
<1>7. FirstOf(list'[TypeOf(l)], ObjectsOf(l)', f)
  <2>1. PICK i \in DOMAIN list'[TypeOf(l)] :
          /\ list'[TypeOf(l)][i] = f
          /\ \A j \in DOMAIN list'[TypeOf(l)] : j < i => list'[TypeOf(l)][j] \notin ObjectsOf(l)
    BY <1>6 DEF FirstOf
  <2>2. ASSUME NEW j \in DOMAIN list'[TypeOf(l)], j < i
        PROVE  list'[TypeOf(l)][j] \notin ObjectsOf(l)'
    <3>1. list'[TypeOf(l)][j] \in Listed(TypeOf(l))'
      BY DEF Listed, TypeOf
    <3>2. /\ list'[TypeOf(l)][j] \in Addrs /\ heap[list'[TypeOf(l)][j]] # Free
          /\ heap'[list'[TypeOf(l)][j]] = heap[list'[TypeOf(l)][j]]
      BY <1>6, <3>1 DEF TypeOf
    <3> QED
      BY <2>1, <2>2, <3>2 DEF ObjectsOf
  <2> QED
    BY <2>1, <2>2 DEF FirstOf
<1>8. heap'[a].lsa = l
  BY <1>3, <1>b
<1> QED
  BY <1>1, <1>5, <1>7, <1>8 DEF ReplacesOlder, Newer, TypeOf, ObjectsOf

\* Whoever has just looked up points to the first one; a comparison finds out
\* that it is older.
LEMMA QuietReplaces ==
  ASSUME IInv, Intact, ReplaceInv, NEW t \in Threads, Quietly(t)
  PROVE  ReplaceInv'
<1>1. TypeOK /\ list' = list /\ \A a \in Addrs : heap[a] # Free => heap'[a] = heap[a]
  BY DEF IInv, Quietly
<1>2. \A y \in Types : \A a \in Listed(y)' : a \in Addrs /\ heap[a] # Free
  <2>1. \A y \in Types : ListInv(y) /\ y \notin freed /\ Listed(y)' = Listed(y)
    BY <1>1 DEF IInv, Intact, Listed
  <2> QED
    BY <2>1 DEF ListInv, Alive
<1>3. ASSUME thr'[t].pc \in Pointing, ~thr'[t].stale PROVE ReplacesOlder(t)'
  <2>a. \E a, f, l, s : a = thr[t].new /\ f = thr'[t].found /\ l = heap[a].lsa /\ s = list[TypeOf(l)]
    OBVIOUS
  <2>b. PICK a, f, l, s : a = thr[t].new /\ f = thr'[t].found /\ l = heap[a].lsa /\ s = list[TypeOf(l)]
    BY <2>a
  <2>1. /\ thr'[t].new = a
        /\ \/ /\ thr[t].pc = "find" /\ thr'[t].pc = "compare"
              /\ f = FirstMatch(l) /\ f # Null
           \/ /\ thr[t].pc \in Pointing /\ f = thr[t].found /\ ~thr[t].stale
              /\ thr[t].pc = "compare" => heap[a].seq > heap[f].seq
    BY <1>3, <2>b DEF Quietly, Newer
  <2>2. Alive(a) /\ l \in LSAs
    BY <2>1, <2>b, OwnType DEF IInv, Intact, ThreadInv, Originating, Pointing
  <2>3. /\ f \in Addrs /\ heap[f] # Free /\ FirstOf(s, ObjectsOf(l), f)
        /\ thr'[t].pc # "compare" => heap[a].seq > heap[f].seq
    <3>1. CASE thr[t].pc = "find" /\ thr'[t].pc = "compare" /\ f = FirstMatch(l) /\ f # Null
      BY <1>1, <2>2, <2>b, <3>1, FirstMatchFinds, FirstMatchFirst
    <3>2. CASE /\ thr[t].pc \in Pointing /\ f = thr[t].found /\ ~thr[t].stale
               /\ thr[t].pc = "compare" => heap[a].seq > heap[f].seq
      <4>1. Alive(f)
        BY <3>2 DEF IInv, Intact, ThreadInv
      <4>2. ReplacesOlder(t)
        BY <3>2 DEF ReplaceInv
      <4> QED
        BY <2>b, <3>2, <4>1, <4>2 DEF ReplacesOlder, Newer, Alive
    <3> QED
      BY <2>1, <3>1, <3>2
  <2>4. heap'[a] = heap[a] /\ heap'[f] = heap[f] /\ list'[TypeOf(l)] = s
    BY <1>1, <2>2, <2>3, <2>b DEF Alive
  <2>6. \A j \in DOMAIN s : s[j] \in Addrs /\ heap[s[j]] # Free /\ heap'[s[j]] = heap[s[j]]
    <3>1. TypeOf(l) \in Types /\ \A j \in DOMAIN s : s[j] \in Listed(TypeOf(l))
      BY <2>b DEF Listed, TypeOf, Types
    <3>2. \A c \in Listed(TypeOf(l)) : c \in Addrs /\ heap[c] # Free
      BY <3>1 DEF IInv, Intact, ListInv, Alive
    <3> QED
      BY <1>1, <3>1, <3>2
  <2>7. \A j \in DOMAIN s : s[j] \notin ObjectsOf(l) => s[j] \notin {c \in Addrs : heap'[c] # Free /\ heap'[c].lsa = l}
    BY <2>6 DEF ObjectsOf
  <2>8. FirstOf(s, {c \in Addrs : heap'[c] # Free /\ heap'[c].lsa = l}, f)
    BY <2>3, <2>7 DEF FirstOf
  <2> QED
    BY <2>1, <2>3, <2>4, <2>8, <2>b DEF ReplacesOlder, Newer, TypeOf, ObjectsOf
<1> DEFINE A == {}
<1>4. \A u \in Threads \ {t} :
        /\ thr'[u].pc = thr[u].pc /\ thr'[u].new = thr[u].new
        /\ thr'[u].found = thr[u].found
        /\ thr[u].stale => thr'[u].stale
        /\ ~thr'[u].stale => Uses(u) \cap A = {}
        /\ thr[u].pc \in Holding => thr[u].new \notin A
  BY DEF Quietly
<1>5. \A y \in Types : \A P : \A a : FirstOf(list[y], P, a) => FirstOf(list'[y], P, a)
  BY <1>1
<1>6. /\ \A a \in Addrs : heap[a] # Free /\ a \notin A => heap'[a] = heap[a]
      /\ \A y \in Types : \A a \in Listed(y)' : a \in Addrs /\ heap[a] # Free /\ a \notin A
      /\ \A y \in Types : \A P : \A a :
           a \notin A /\ FirstOf(list[y], P, a) => FirstOf(list'[y], P, a)
  BY <1>1, <1>2, <1>5
<1> HIDE DEF A
<1> QED
  BY <1>3, <1>4, <1>6, ReplaceInvStays

\* Listing an object behind the others does not change that.
LEMMA PushReplaces ==
  ASSUME IInv, Intact, ReplaceInv, NEW t \in Threads, Push(t)
  PROVE  ReplaceInv'
<1> DEFINE A == {}
           r == IF thr[t].pc = "swap" THEN At("flood", thr[t].new, Null) ELSE Done(t)
<1>a. \E b, y : b = thr[t].new /\ y = TypeOf(heap[b].lsa)
  OBVIOUS
<1>b. PICK b, y : b = thr[t].new /\ y = TypeOf(heap[b].lsa)
  BY <1>a
<1>1. ~fault /\ TypeOK /\ heap' = heap /\ list' = [list EXCEPT ![y] = Append(@, b)]
  BY <1>b DEF Push, Intact, IInv
<1>2. b \in Addrs /\ y \in Types /\ heap[b] # Free
  BY <1>1, <1>b, PushObject
<1>3. Goes(t, r, A) /\ r \in ThreadType /\ r.pc \notin Pointing
  BY <1>2, <1>b, AtType, DoneType DEF Push, Holding, Pointing
<1> HIDE DEF r, A
<1>4. thr'[t].pc \notin Pointing
  BY <1>1, <1>3, GoesOn
<1>5. A = {}
  BY DEF A
<1>6. \A u \in Threads \ {t} :
        /\ thr'[u].pc = thr[u].pc /\ thr'[u].new = thr[u].new
        /\ thr'[u].found = thr[u].found
        /\ thr[u].stale => thr'[u].stale
        /\ ~thr'[u].stale => Uses(u) \cap A = {}
        /\ thr[u].pc \in Holding => thr[u].new \notin A
  BY <1>1, <1>3, <1>5, OthersGo
<1>7. \A z \in Types : \A a \in Listed(z)' : a \in Addrs /\ heap[a] # Free
  <2>1. \A z \in Types : \A a \in Listed(z) : a \in Addrs /\ heap[a] # Free
    BY DEF IInv, Intact, ListInv, Alive
  <2>2. /\ \A z \in Types : z # y => Listed(z)' = Listed(z)
        /\ Listed(y)' = Listed(y) \cup {b}
    BY <1>1, <1>2, PushLists
  <2> QED
    BY <1>2, <2>1, <2>2
<1>8. ASSUME NEW z \in Types, NEW P, NEW a, FirstOf(list[z], P, a)
      PROVE  FirstOf(list'[z], P, a)
  <2>1. list[z] \in Seq(Addrs) /\ list'[z] \in {list[z], Append(list[z], b)}
    BY <1>1, <1>2 DEF TypeOK
  <2> QED
    BY <1>2, <1>8, <2>1, AppendFirst
<1>9. /\ \A a \in Addrs : heap[a] # Free /\ a \notin A => heap'[a] = heap[a]
      /\ \A z \in Types : \A a \in Listed(z)' : a \in Addrs /\ heap[a] # Free /\ a \notin A
      /\ \A z \in Types : \A P : \A a :
           a \notin A /\ FirstOf(list[z], P, a) => FirstOf(list'[z], P, a)
  BY <1>1, <1>5, <1>7, <1>8
<1> QED
  BY <1>4, <1>6, <1>9, ReplaceInvStays

\* Nor does taking out another one; taking out this one makes it stale.
LEMMA RemoveReplaces ==
  ASSUME IInv, Intact, ReplaceInv, NEW t \in Threads, Removes(t), ~fault'
  PROVE  ReplaceInv'
<1>a. \E l, f, y, n : /\ l = heap[thr[t].new].lsa /\ f = FirstMatch(l) /\ y = TypeOf(l)
                      /\ n = thr[t].new
  OBVIOUS
<1>b. PICK l, f, y, n : /\ l = heap[thr[t].new].lsa /\ f = FirstMatch(l) /\ y = TypeOf(l)
                       /\ n = thr[t].new
  BY <1>a
<1> DEFINE A == {f}
           r == At("swap", n, Null)
<1>0. ~fault /\ TypeOK
  BY DEF Intact, IInv
<1>1. ~fault /\ TypeOK /\ list' = [list EXCEPT ![y] = Erase(@, f)]
  BY <1>0, <1>b, RemoveObjects
<1>2. /\ y \in Types \ freed /\ f \in Listed(y) /\ f \in Addrs /\ n \in Addrs
      /\ Deleted(A) /\ Goes(t, r, A)
  BY <1>1, <1>b, RemoveObjects
<1>3. r \in ThreadType /\ r.pc \notin Pointing
  BY <1>2, AtType DEF Pointing
<1>4. \A u \in Threads : thr[u].pc \in Holding => thr[u].new \notin A
  BY <1>1, <1>2, ListedOnly
<1> HIDE DEF r
<1>5. thr'[t].pc \notin Pointing
  BY <1>1, <1>2, <1>3, GoesOn
<1>6. \A u \in Threads \ {t} :
        /\ thr'[u].pc = thr[u].pc /\ thr'[u].new = thr[u].new
        /\ thr'[u].found = thr[u].found
        /\ thr[u].stale => thr'[u].stale
        /\ ~thr'[u].stale => Uses(u) \cap A = {}
  BY <1>1, <1>2, <1>3, OthersGo
<1>7. \A a \in Addrs : a \notin A => heap'[a] = heap[a]
  BY <1>1, <1>2, Deletes
<1>8. \A z \in Types : \A a \in Listed(z)' : a \in Addrs /\ heap[a] # Free /\ a \notin A
  <2>1. \A z \in Types : \A a \in Listed(z) : a \in Addrs /\ heap[a] # Free
    BY DEF IInv, Intact, ListInv, Alive
  <2>2. /\ \A z \in Types : z # y => Listed(z)' = Listed(z)
        /\ Listed(y)' = Listed(y) \ {f}
    BY <1>1, <1>2, RemoveLists
  <2>3. \A z \in Types : z # y => f \notin Listed(z)
    BY <1>1, <1>2, ListedOnly DEF Intact
  <2> QED
    BY <2>1, <2>2, <2>3
<1>9. ASSUME NEW z \in Types, NEW P, NEW a, a \notin A, FirstOf(list[z], P, a)
      PROVE  FirstOf(list'[z], P, a)
  <2>1. CASE z # y
    BY <1>1, <1>9, <2>1 DEF TypeOK
  <2>2. CASE z = y
    <3>1. /\ list[y] \in Seq(Addrs) /\ \E i \in DOMAIN list[y] : list[y][i] = f
      BY <1>1, <1>2, ListOf
    <3>2. FirstOf(Erase(list[y], f), P, a)
      BY <1>9, <2>2, <3>1, EraseFirst
    <3> QED
      BY <1>1, <2>2, <3>2 DEF TypeOK
  <2> QED
    BY <2>1, <2>2
<1> HIDE DEF A
<1> QED
  BY <1>4, <1>5, <1>6, <1>7, <1>8, <1>9, ReplaceInvStays

\* Nor does addLSA, for the same reason.
LEMMA AddLSAReplaces ==
  ASSUME IInv, Intact, ReplaceInv, AddLSA
  PROVE  ReplaceInv'
<1>a. \E a, f, y, old : /\ a = thr["receiver"].new /\ f = thr["receiver"].found
                        /\ y = TypeOf(heap[a].lsa) /\ old = Displaced(y, f)
  OBVIOUS
<1>b. PICK a, f, y, old : /\ a = thr["receiver"].new /\ f = thr["receiver"].found
                         /\ y = TypeOf(heap[a].lsa) /\ old = Displaced(y, f)
  BY <1>a
<1>0. Idle \in ThreadType /\ Idle.pc \notin Pointing
  BY AtType DEF Idle, Pointing
<1>1. /\ ~fault /\ TypeOK /\ "receiver" \in Threads /\ thr["receiver"].pc = "add"
      /\ Deleted(old) /\ Goes("receiver", Idle, old)
      /\ Idle \in ThreadType /\ Idle.pc \notin Pointing
      /\ list' = [list EXCEPT ![y] = Append(IF old = {} THEN @ ELSE Erase(@, f), a)]
  BY <1>0, <1>b DEF AddLSA, Intact, IInv, Threads
<1>2. /\ y \in Types /\ a \in Addrs
      /\ old = {} \/ (old = {f} /\ f \in Listed(y) /\ f \in Addrs)
      /\ \A z \in Types : z # y => Listed(z)' = Listed(z)
      /\ Listed(y)' = (Listed(y) \ old) \cup {a}
  <2>1. /\ y \in Types /\ a \in Addrs
        /\ old = {} \/ (old = {f} /\ f \in Listed(y) /\ f \in Addrs)
        /\ \A z \in Types : z # y => Listed(z)' = Listed(z)
        /\ y \notin freed => Listed(y)' = (Listed(y) \ old) \cup {a}
    <3>1. ~fault
      BY DEF Intact
    <3> QED
      BY <1>b, <3>1, AddLSALists
  <2> QED
    BY <2>1 DEF Intact
<1>3. /\ thr["receiver"].pc \in Holding /\ Alive(a)
      /\ \A z \in Types : a \notin Listed(z)
  BY <1>1, <1>b DEF IInv, Intact, ThreadInv, Holding
<1>4. \A u \in Threads : thr[u].pc \in Holding => thr[u].new \notin old
  BY <1>1, <1>2, ListedOnly DEF Intact
<1>5. thr'["receiver"].pc \notin Pointing
  BY <1>1, GoesOn
<1>6. \A u \in Threads \ {"receiver"} :
        /\ thr'[u].pc = thr[u].pc /\ thr'[u].new = thr[u].new
        /\ thr'[u].found = thr[u].found
        /\ thr[u].stale => thr'[u].stale
        /\ ~thr'[u].stale => Uses(u) \cap old = {}
  BY <1>1, OthersGo
<1>7. \A c \in Addrs : c \notin old => heap'[c] = heap[c]
  BY <1>1, Deletes
<1>8. \A z \in Types : \A c \in Listed(z)' : c \in Addrs /\ heap[c] # Free /\ c \notin old
  <2>1. \A z \in Types : \A c \in Listed(z) : c \in Addrs /\ heap[c] # Free
    BY DEF IInv, Intact, ListInv, Alive
  <2>2. \A z \in Types : z # y => \A c \in Listed(z) : c \notin old
    BY <1>1, <1>2, ListedOnly DEF Intact
  <2>3. a \notin old
    BY <1>2, <1>3
  <2> QED
    BY <1>2, <1>3, <2>1, <2>2, <2>3 DEF Alive
<1>9. ASSUME NEW z \in Types, NEW P, NEW c, c \notin old, FirstOf(list[z], P, c)
      PROVE  FirstOf(list'[z], P, c)
  <2>1. CASE z # y
    BY <1>1, <1>9, <2>1 DEF TypeOK
  <2>2. CASE z = y
    <3> DEFINE s == IF old = {} THEN list[y] ELSE Erase(list[y], f)
    <3>1. s \in Seq(Addrs) /\ FirstOf(s, P, c)
      <4>1. CASE old = {}
        BY <1>1, <1>2, <1>9, <2>2, <4>1 DEF TypeOK
      <4>2. CASE old = {f} /\ f \in Listed(y)
        <5>1. /\ list[y] \in Seq(Addrs) /\ \E i \in DOMAIN list[y] : list[y][i] = f
          BY <1>1, <1>2, <4>2, ListOf
        <5>2. FirstOf(Erase(list[y], f), P, c) /\ Erase(list[y], f) \in Seq(Addrs)
          BY <1>9, <2>2, <4>2, <5>1, EraseFirst, EraseErases
        <5> QED
          BY <4>2, <5>2
      <4> QED
        BY <1>2, <4>1, <4>2
    <3>2. list'[y] = Append(s, a)
      BY <1>1, <1>2 DEF TypeOK
    <3> HIDE DEF s
    <3> QED
      BY <1>2, <2>2, <3>1, <3>2, AppendFirst
  <2> QED
    BY <2>1, <2>2
<1>10. \A u \in Threads \ {"receiver"} :
         /\ thr'[u].pc = thr[u].pc /\ thr'[u].new = thr[u].new
         /\ thr'[u].found = thr[u].found
         /\ thr[u].stale => thr'[u].stale
         /\ ~thr'[u].stale => Uses(u) \cap old = {}
         /\ thr[u].pc \in Holding => thr[u].new \notin old
  BY <1>4, <1>6
<1>11. /\ \A c \in Addrs : heap[c] # Free /\ c \notin old => heap'[c] = heap[c]
       /\ \A z \in Types : \A P : \A c :
            c \notin old /\ FirstOf(list[z], P, c) => FirstOf(list'[z], P, c)
  BY <1>7, <1>9
<1>12. PICK t \in Threads : t = "receiver"
  BY <1>1
<1>13. \A u \in Threads \ {t} :
         /\ thr'[u].pc = thr[u].pc /\ thr'[u].new = thr[u].new
         /\ thr'[u].found = thr[u].found
         /\ thr[u].stale => thr'[u].stale
         /\ ~thr'[u].stale => Uses(u) \cap old = {}
         /\ thr[u].pc \in Holding => thr[u].new \notin old
  BY <1>10, <1>12
<1>14. thr'[t].pc \notin Pointing
  BY <1>5, <1>12
<1> QED
  BY <1>8, <1>11, <1>13, <1>14, ReplaceInvStays

OwnInv == StoreInv /\ (Intact => ReplaceInv)

\* What the proof of OwnGrows needs, at the start and over every step.
LEMMA OwnInvInit ==
  Init => OwnInv
BY StoreInvInit DEF Init, OwnInv, ReplaceInv, Idle, At, Pointing

\* Quiet steps, Push, Removes and AddLSA are all there are.
LEMMA OwnInvStep ==
  OwnInv /\ [Next]_vars => OwnInv'
<1> SUFFICES ASSUME OwnInv, [Next]_vars PROVE OwnInv'
  OBVIOUS
<1>1. StoreInv' /\ IInv
  BY StoreInvStep DEF OwnInv, StoreInv
<1>2. SUFFICES ASSUME Intact' PROVE ReplaceInv'
  BY <1>1 DEF OwnInv
<1>3. CASE UNCHANGED vars
  BY <1>2, <1>3 DEF OwnInv, Intact, vars, ReplaceInv, ReplacesOlder, Newer, ObjectsOf, TypeOf
<1>4. CASE Next
  <2>1. Intact /\ ReplaceInv /\ ~fault'
    BY <1>1, <1>2, <1>4, StaysBroken DEF OwnInv, Intact
  <2> QED
    BY <1>1, <1>2, <1>4, <2>1, QuietSteps, QuietReplaces, PushReplaces,
       RemoveReplaces, AddLSAReplaces
<1> QED
  BY <1>3, <1>4

\* No origination puts an older instance of the host's own LSA in the place of
\* a newer one, in whatever order the threads took their numbers and get to
\* the database: unless another thread deleted the instance that was compared,
\* the one that delLSA takes out is that one.
THEOREM OwnGrows == Spec => OwnNewestGrows
<1>1. OwnInv /\ OwnInv' /\ [Next]_vars =>
        [~fault' /\ freed' = {} => \A l \in Own :
           ReceivesBack(l) \/ Overtaken(l) \/ NoneLost(l)]_vars
  <2> SUFFICES ASSUME OwnInv, OwnInv', Next, Intact', NEW l \in Own, ~ReceivesBack(l),
                      ~Overtaken(l), NEW s \in Instances(l)
               PROVE  \E n \in Instances(l)' : n >= s
    BY DEF Intact, NoneLost
  <2>1. /\ IInv /\ IInv' /\ StoreInv /\ StoreInv' /\ Intact /\ ReplaceInv
        /\ ~fault /\ ~fault' /\ l \in LSAs /\ TypeOK
    BY StaysBroken, OwnType DEF OwnInv, StoreInv, IInv, Intact
  <2>2. /\ Instances(l) = {heap[a].seq : a \in {b \in Addrs : There(l, b)}}
        /\ Instances(l)' = {heap'[a].seq : a \in {b \in Addrs : There(l, b)'}}
    <3>1. Instances(l) = {heap[a].seq : a \in {b \in Addrs : There(l, b)}}
      BY <2>1, KeptIsThere
    <3>2. (IInv /\ Intact =>
             Instances(l) = {heap[a].seq : a \in {b \in Addrs : There(l, b)}})'
      BY KeptIsThere, PTL
    <3> QED
      BY <2>1, <3>1, <3>2
  <2>3. PICK a \in Addrs : There(l, a) /\ s = heap[a].seq
    BY <2>2
  <2>4. s \in Int
    BY <2>1, <2>3, ThereIsAlive, LsdbAssumption DEF TypeOK, Objects, Seqs
  <2>5. SUFFICES \E b \in Addrs : There(l, b)' /\ heap'[b].seq >= s
    BY <2>2
  <2>6. ASSUME Carries(l) PROVE There(l, a)' /\ heap'[a].seq >= s
    BY <2>3, <2>4, <2>6 DEF Carries
  <2>7. CASE AddLSA
    <3>1. heap[thr["receiver"].new].lsa # l
      <4>1. thr'["receiver"].pc = "idle"
        <5>1. PICK A : Goes("receiver", Idle, A)
          BY <2>7 DEF AddLSA
        <5>2. Idle \in ThreadType /\ Idle.pc = "idle" /\ "receiver" \in Threads
          BY AtType DEF Idle, Threads
        <5> QED
          BY <2>1, <5>1, <5>2, GoesOn
      <4> QED
        BY <2>7, <4>1 DEF ReceivesBack, AddLSA
    <3> QED
      BY <2>1, <2>6, <2>7, <3>1, AddLSACarries
  <2>8. ASSUME NEW t \in Threads, Quietly(t) \/ Push(t)
        PROVE  There(l, a)' /\ heap'[a].seq >= s
    BY <2>1, <2>6, <2>8, QuietCarries, PushCarries
  <2>9. ASSUME NEW t \in Threads, Removes(t)
        PROVE  \E b \in Addrs : There(l, b)' /\ heap'[b].seq >= s
    <3>a. \E k, f, n, y : /\ k = heap[thr[t].new].lsa /\ f = FirstMatch(k) /\ n = thr[t].new
                          /\ y = TypeOf(k)
      OBVIOUS
    <3>b. PICK k, f, n, y : /\ k = heap[thr[t].new].lsa /\ f = FirstMatch(k) /\ n = thr[t].new
                            /\ y = TypeOf(k)
      BY <3>a
    <3>1. /\ \A m \in LSAs : \A b : There(m, b) /\ b # f => There(m, b)' /\ heap'[b] = heap[b]
          /\ There(l, f) => l = k
          /\ There(k, n)' /\ heap'[n] = heap[n] /\ k \in Own
      BY <2>1, <2>9, <3>b, RemoveCarries
    <3>2. CASE a # f
      BY <2>1, <2>3, <2>4, <3>1, <3>2
    <3>3. CASE a = f
      <4>1. thr[t].pc = "delete" /\ ~thr[t].stale
        <5>a. /\ thr[t].new \in Addrs /\ Goes(t, At("swap", thr[t].new, Null), {f})
          BY <2>1, <2>9, <3>b, RemoveObjects DEF Intact
        <5>1. PICK A : Goes(t, At("swap", n, Null), A)
          BY <3>b, <5>a
        <5>b. thr[t].pc = "delete"
          BY <2>9 DEF Removes, DelLSA
        <5>2. n \in Addrs /\ thr[t].pc = "delete"
          BY <3>b, <5>a, <5>b
        <5>3. thr'[t].pc = "swap"
          BY <2>1, <5>1, <5>2, AtType, GoesOn
        <5> QED
          BY <2>3, <3>1, <3>3, <3>b, <5>2, <5>3 DEF Overtaken
      <4>2. /\ Alive(n) /\ Alive(thr[t].found) /\ k = heap[n].lsa
            /\ heap[thr[t].found].lsa = k
        BY <2>1, <3>b, <4>1 DEF IInv, ThreadInv, Holding, Originating, Pointing
      <4>3. Newer(n, thr[t].found) /\ FirstOf(list[TypeOf(k)], ObjectsOf(k), thr[t].found)
        BY <2>1, <3>b, <4>1, <4>2 DEF ReplaceInv, ReplacesOlder, Pointing
      <4>4. f = thr[t].found
        BY <2>1, <3>1, <3>b, <4>2, <4>3, FirstIsMatch, OwnType DEF ObjectsOf, Alive
      <4>5. heap[n].seq > s /\ heap[n].seq \in Int
        BY <2>1, <2>3, <3>3, <4>2, <4>3, <4>4, LsdbAssumption
           DEF Newer, Alive, TypeOK, Objects, Seqs
      <4> QED
        BY <2>3, <2>4, <3>1, <3>3, <4>2, <4>5 DEF Alive
    <3> QED
      BY <3>2, <3>3
  <2> QED
    BY <2>1, <2>7, <2>8, <2>9, QuietSteps
<1> QED
  BY OwnInvInit, OwnInvStep, <1>1, PTL DEF Spec, OwnNewestGrows
=============================================================================
