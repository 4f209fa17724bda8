-------------------------- MODULE DictionaryProofs --------------------------
(***************************************************************************)
(* Proofs about the linked lists, for any number of keys and nodes.        *)
(***************************************************************************)
EXTENDS Dictionary, KeySequencesProofs, FiniteSetTheorems

-----------------------------------------------------------------------------
(* Two chains of nodes *)

Heaps == [node : [Addresses -> Node], live : SUBSET Addresses,
          dict : [Dictionaries -> [first : Pointers, last : Pointers, length : Nat]],
          ok : {TRUE}]

(* What comes after and before position i of s. *)
After(s, i) == IF i = Len(s) THEN NULL ELSE s[i+1]
Prior(s, i) == IF i = 1 THEN NULL ELSE s[i-1]

(***************************************************************************)
(* Dictionary d is the chain s: s has the length counted, first and last   *)
(* are its ends, and it is linked both ways.                               *)
(***************************************************************************)
IsChain(h, d, s) ==
    /\ s \in Seq(h.live)
    /\ h.dict[d].length = Len(s)
    /\ h.dict[d].first = After(s, 0)
    /\ h.dict[d].last = Prior(s, Len(s) + 1)
    /\ \A i \in 1..Len(s) : h.node[s[i]].next = After(s, i) /\ h.node[s[i]].previous = Prior(s, i)

(* No key twice, and no node without one. *)
HasKeys(h, s) ==
    /\ \A i \in 1..Len(s) : h.node[s[i]].key \in Keys
    /\ \A i, j \in 1..Len(s) : h.node[s[i]].key = h.node[s[j]].key => i = j

(* The two dictionaries are the chains c; every live node is in one of them, once. *)
Holds(h, c) ==
    /\ h \in Heaps
    /\ c \in [Dictionaries -> Seq(Addresses)]
    /\ \A d \in Dictionaries : IsChain(h, d, c[d]) /\ HasKeys(h, c[d])
    /\ \A d, e \in Dictionaries : \A i \in 1..Len(c[d]), j \in 1..Len(c[e]) :
          c[d][i] = c[e][j] => d = e /\ i = j
    /\ \A p \in h.live : \E d \in Dictionaries : \E i \in 1..Len(c[d]) : p = c[d][i]

(* What the chain s holds. *)
Entries(h, s) == [i \in 1..Len(s) |-> [key |-> h.node[s[i]].key, data |-> h.node[s[i]].data]]

-----------------------------------------------------------------------------
(* Reading *)

(* Following next from the first node gives the chain. *)
LEMMA ChainIs ==
    ASSUME NEW h, NEW d, NEW s, IsChain(h, d, s)
    PROVE  Chain(h, d) = s
<1> DEFINE n == Len(s)
           body(f) == [i \in 1..n |-> IF i = 1 THEN h.dict[d].first ELSE At(h, f[i-1]).next]
<1>1. /\ n \in Nat /\ DOMAIN s = 1..n /\ h.dict[d].length = n
      /\ n # 0 => h.dict[d].first = s[1]
      /\ \A i \in 1..n : s[i] \in h.live
      /\ \A i \in 2..n : At(h, s[i-1]).next = s[i]
  <2>1. n \in Nat /\ DOMAIN s = 1..n /\ \A i \in 1..n : s[i] \in h.live
    <3>1. s \in Seq(h.live)
      BY DEF IsChain
    <3> QED BY <3>1
  <2>2. h.dict[d].length = n /\ (n # 0 => h.dict[d].first = s[1])
    <3>1. h.dict[d].length = Len(s) /\ h.dict[d].first = After(s, 0)
      BY DEF IsChain
    <3> QED BY <2>1, <3>1 DEF After
  <2>3. ASSUME NEW i \in 2..n PROVE At(h, s[i-1]).next = s[i]
    <3>1. i-1 \in 1..n /\ i-1 # n /\ (i-1)+1 = i
      BY <2>1
    <3>2. h.node[s[i-1]].next = After(s, i-1)
      BY <3>1 DEF IsChain
    <3> QED BY <2>1, <3>1, <3>2 DEF At, After
  <2> QED BY <2>1, <2>2, <2>3
<1>2. s = body(s)
  <2>1. s = [i \in 1..n |-> s[i]]
    BY <1>1 DEF IsChain
  <2>2. \A i \in 1..n : s[i] = IF i = 1 THEN h.dict[d].first ELSE At(h, s[i-1]).next
    BY <1>1
  <2> QED BY <2>1, <2>2
<1>3. PICK g : g = Chain(h, d) /\ g = body(g)
  BY <1>1, <1>2 DEF Chain
<1>4. \A i \in 1..n : g[i] = IF i = 1 THEN h.dict[d].first ELSE At(h, g[i-1]).next
  BY <1>3
<1> DEFINE H == {i \in 0..n : i # 0 => g[i] = s[i]}
<1>5. 0 \in H
  BY <1>1
<1>6. ASSUME NEW i \in 0..n-1, i \in H PROVE i+1 \in H
  BY <1>1, <1>4, <1>6
<1>7. \A i \in 0..n : i \in H
  <2> HIDE DEF H, n
  <2> QED BY <1>1, <1>5, <1>6, InductionUpto
<1>8. \A i \in 1..n : g[i] = s[i]
  BY <1>1, <1>7
<1>9. DOMAIN g = 1..n
  BY <1>3
<1>10. g = [i \in 1..n |-> g[i]]
  BY <1>3, <1>9
<1>11. s = [i \in 1..n |-> s[i]]
  BY <1>1 DEF IsChain
<1> QED BY <1>3, <1>8, <1>10, <1>11

(* What is known of a dictionary's chain. *)
LEMMA Facts ==
    ASSUME NEW h, NEW c, Holds(h, c), NEW d \in Dictionaries, NEW s, s = c[d]
    PROVE  /\ h \in Heaps /\ IsChain(h, d, s) /\ HasKeys(h, s)
           /\ s \in Seq(h.live) /\ s \in Seq(Addresses) /\ h.live \subseteq Addresses
           /\ Len(s) \in Nat /\ DOMAIN s = 1..Len(s)
           /\ \A i \in 1..Len(s) : s[i] \in h.live /\ s[i] \in Addresses /\ s[i] # NULL
           /\ \A i, j \in 1..Len(s) : s[i] = s[j] => i = j
           /\ \A i \in 1..Len(s) : h.node[s[i]].key \in Keys /\ h.node[s[i]].key # NULL
           /\ \A i, j \in 1..Len(s) : h.node[s[i]].key = h.node[s[j]].key => i = j
           /\ \A i \in 1..Len(s) : /\ h.node[s[i]].next = After(s, i)
                                   /\ h.node[s[i]].previous = Prior(s, i)
           /\ h.dict[d].length = Len(s)
           /\ h.dict[d].first = After(s, 0) /\ h.dict[d].last = Prior(s, Len(s) + 1)
<1>1. h \in Heaps /\ IsChain(h, d, s) /\ HasKeys(h, s) /\ s \in Seq(Addresses)
  BY DEF Holds
<1>2. s \in Seq(h.live)
  BY <1>1 DEF IsChain
<1>3. h.live \subseteq Addresses
  BY <1>1 DEF Heaps
<1>4. Len(s) \in Nat /\ DOMAIN s = 1..Len(s) /\ \A i \in 1..Len(s) : s[i] \in h.live
  BY <1>2
<1>5. \A i \in 1..Len(s) : s[i] \in Addresses /\ s[i] # NULL
  BY <1>3, <1>4, ConstantsAssumption
<1>6. \A i, j \in 1..Len(s) : s[i] = s[j] => i = j
  BY DEF Holds
<1>7. \A i \in 1..Len(s) : h.node[s[i]].key \in Keys /\ h.node[s[i]].key # NULL
  BY <1>1, ConstantsAssumption DEF HasKeys
<1>8. \A i, j \in 1..Len(s) : h.node[s[i]].key = h.node[s[j]].key => i = j
  BY <1>1 DEF HasKeys
<1>9. /\ \A i \in 1..Len(s) : /\ h.node[s[i]].next = After(s, i)
                              /\ h.node[s[i]].previous = Prior(s, i)
      /\ h.dict[d].length = Len(s)
      /\ h.dict[d].first = After(s, 0) /\ h.dict[d].last = Prior(s, Len(s) + 1)
  BY <1>1 DEF IsChain
<1> QED BY <1>1, <1>2, <1>3, <1>4, <1>5, <1>6, <1>7, <1>8, <1>9

(* Reading live nodes is not an error. *)
LEMMA ReadingLive ==
    ASSUME NEW h \in Heaps, NEW S, S \subseteq h.live
    PROVE  Reading(h, S) = h
BY DEF Heaps, Reading

LEMMA SmallestIs ==
    ASSUME NEW T \in SUBSET Nat, T # {}
    PROVE  Smallest(T) \in T /\ \A y \in T : Smallest(T) <= y
BY SmallestNumber DEF Smallest

(* dictionary_get finds the node of a key ... *)
LEMMA SearchHit ==
    ASSUME NEW h, NEW c, Holds(h, c), NEW d \in Dictionaries,
           NEW i \in 1..Len(c[d]), NEW k, k = h.node[c[d][i]].key
    PROVE  Search(h, d, k) = c[d][i] /\ AfterSearch(h, d, k) = h
<1> DEFINE s == c[d]
<1>1. /\ h \in Heaps /\ IsChain(h, d, s) /\ Len(s) \in Nat
      /\ \A j \in 1..Len(s) : s[j] \in h.live
      /\ \A j \in 1..Len(s) : h.node[s[j]].key = k => j = i
      /\ h.dict[d].length = Len(s) /\ k # NULL
  BY Facts
<1> HIDE DEF s
<1>2. Chain(h, d) = s
  BY <1>1, ChainIs
<1>3. Hits(h, d, k) = {i}
  <2>1. \A j \in 1..Len(s) : At(h, s[j]).key = h.node[s[j]].key
    BY <1>1 DEF At
  <2> QED BY <1>1, <1>2, <2>1 DEF Hits, s
<1>4. Smallest({i}) = i
  <2>1. {i} \in SUBSET Nat /\ {i} # {}
    BY <1>1 DEF s
  <2>2. Smallest({i}) \in {i}
    BY <2>1, SmallestIs
  <2> QED BY <2>2
<1>5. Search(h, d, k) = s[i]
  BY <1>1, <1>2, <1>3, <1>4 DEF Search
<1>6. Searched(h, d, k) \subseteq h.live
  <2>1. Searched(h, d, k) = {s[j] : j \in 1..i}
    BY <1>1, <1>2, <1>3, <1>4 DEF Searched
  <2> QED BY <1>1, <2>1 DEF s
<1>7. AfterSearch(h, d, k) = h
  BY <1>1, <1>6, ReadingLive DEF AfterSearch
<1> QED BY <1>5, <1>7 DEF s

(* ... and NULL, at the end of the list, without one. *)
LEMMA SearchMiss ==
    ASSUME NEW h, NEW c, Holds(h, c), NEW d \in Dictionaries,
           NEW k, \A i \in 1..Len(c[d]) : h.node[c[d][i]].key # k
    PROVE  Search(h, d, k) = NULL /\ AfterSearch(h, d, k) = h
<1> DEFINE s == c[d]
<1>1. /\ h \in Heaps /\ IsChain(h, d, s) /\ Len(s) \in Nat
      /\ \A j \in 1..Len(s) : s[j] \in h.live
      /\ h.dict[d].length = Len(s) /\ h.dict[d].first = After(s, 0)
      /\ \A j \in 1..Len(s) : h.node[s[j]].next = After(s, j)
  BY Facts
<1>2. \A j \in 1..Len(s) : h.node[s[j]].key # k
  OBVIOUS
<1> HIDE DEF s
<1>3. Chain(h, d) = s
  BY <1>1, ChainIs
<1>4. Hits(h, d, k) = {}
  <2>1. \A j \in 1..Len(s) : At(h, s[j]).key = h.node[s[j]].key
    BY <1>1 DEF At
  <2> QED BY <1>1, <1>2, <1>3, <2>1 DEF Hits
<1>5. Search(h, d, k) = NULL
  <2>1. CASE k = NULL
    BY <2>1 DEF Search
  <2>2. CASE k # NULL /\ Len(s) = 0
    BY <1>1, <1>3, <1>4, <2>2 DEF Search, After
  <2>3. CASE k # NULL /\ Len(s) # 0
    <3>1. At(h, s[Len(s)]).next = NULL
      BY <1>1, <2>3 DEF At, After
    <3> QED BY <1>1, <1>3, <1>4, <2>3, <3>1 DEF Search
  <2> QED BY <2>1, <2>2, <2>3
<1>6. Searched(h, d, k) \subseteq h.live
  <2>1. CASE k = NULL
    BY <2>1 DEF Searched
  <2>2. CASE k # NULL
    <3>1. Searched(h, d, k) = {s[j] : j \in 1..Len(s)}
      BY <1>1, <1>3, <1>4, <2>2 DEF Searched
    <3> QED BY <1>1, <3>1
  <2> QED BY <2>1, <2>2
<1>7. AfterSearch(h, d, k) = h
  BY <1>1, <1>6, ReadingLive DEF AfterSearch
<1> QED BY <1>5, <1>7

-----------------------------------------------------------------------------
(* Adding *)

(* One chain is changed, the other left alone. *)
LEMMA OneChain ==
    ASSUME NEW h, NEW c, Holds(h, c), NEW d \in Dictionaries,
           NEW g \in Heaps, NEW s \in Seq(Addresses),
           IsChain(g, d, s), HasKeys(g, s),
           \A i, j \in 1..Len(s) : s[i] = s[j] => i = j,
           \A e \in Dictionaries \ {d} :
              /\ g.dict[e] = h.dict[e]
              /\ \A j \in 1..Len(c[e]) :
                    /\ c[e][j] \in g.live /\ g.node[c[e][j]] = h.node[c[e][j]]
                    /\ \A i \in 1..Len(s) : s[i] # c[e][j],
           \A p \in g.live : \/ \E i \in 1..Len(s) : p = s[i]
                             \/ p \in h.live /\ \A i \in 1..Len(c[d]) : p # c[d][i]
    PROVE  /\ Holds(g, [c EXCEPT ![d] = s])
           /\ \A e \in Dictionaries \ {d} : Entries(g, c[e]) = Entries(h, c[e])
<1> DEFINE b == [c EXCEPT ![d] = s]
<1>1. /\ c \in [Dictionaries -> Seq(Addresses)]
      /\ \A e, f \in Dictionaries : \A i \in 1..Len(c[e]), j \in 1..Len(c[f]) :
            c[e][i] = c[f][j] => e = f /\ i = j
      /\ \A p \in h.live : \E e \in Dictionaries : \E i \in 1..Len(c[e]) : p = c[e][i]
  BY DEF Holds
<1>2. b \in [Dictionaries -> Seq(Addresses)] /\ b[d] = s /\ \A e \in Dictionaries \ {d} : b[e] = c[e]
  BY <1>1
<1> HIDE DEF b
<1>3. ASSUME NEW e \in Dictionaries \ {d}
      PROVE  IsChain(g, e, c[e]) /\ HasKeys(g, c[e]) /\ Entries(g, c[e]) = Entries(h, c[e])
  <2> DEFINE t == c[e]
  <2>1. /\ IsChain(h, e, t) /\ HasKeys(h, t) /\ t \in Seq(h.live) /\ t \in Seq(Addresses)
        /\ Len(t) \in Nat /\ DOMAIN t = 1..Len(t)
    BY <1>3, Facts
  <2>2. /\ g.dict[e] = h.dict[e]
        /\ \A j \in 1..Len(t) : t[j] \in g.live /\ g.node[t[j]] = h.node[t[j]]
    OBVIOUS
  <2> HIDE DEF t
  <2>3. t \in Seq(g.live)
    BY <2>1, <2>2
  <2>4. IsChain(g, e, t)
    BY <2>1, <2>2, <2>3 DEF IsChain
  <2>5. HasKeys(g, t)
    BY <2>1, <2>2 DEF HasKeys
  <2>6. Entries(g, t) = Entries(h, t)
    BY <2>2 DEF Entries
  <2> QED BY <2>4, <2>5, <2>6 DEF t
<1>4. \A e \in Dictionaries : IsChain(g, e, b[e]) /\ HasKeys(g, b[e])
  BY <1>2, <1>3
<1>5. ASSUME NEW e \in Dictionaries, NEW f \in Dictionaries,
             NEW i \in 1..Len(b[e]), NEW j \in 1..Len(b[f]), b[e][i] = b[f][j]
      PROVE  e = f /\ i = j
  <2>1. CASE e = d /\ f = d
    BY <1>2, <1>5, <2>1
  <2>2. CASE e = d /\ f # d
    BY <1>2, <1>5, <2>2
  <2>3. CASE e # d /\ f = d
    BY <1>2, <1>5, <2>3
  <2>4. CASE e # d /\ f # d
    <3>1. b[e] = c[e] /\ b[f] = c[f]
      BY <1>2, <2>4
    <3> QED BY <1>1, <1>5, <3>1
  <2> QED BY <2>1, <2>2, <2>3, <2>4
<1>6. ASSUME NEW p \in g.live
      PROVE  \E e \in Dictionaries : \E i \in 1..Len(b[e]) : p = b[e][i]
  <2>1. CASE \E i \in 1..Len(s) : p = s[i]
    BY <1>2, <2>1
  <2>2. CASE p \in h.live /\ \A i \in 1..Len(c[d]) : p # c[d][i]
    <3>1. PICK e \in Dictionaries : \E i \in 1..Len(c[e]) : p = c[e][i]
      BY <1>1, <2>2
    <3>2. e # d
      BY <2>2, <3>1
    <3> QED BY <1>2, <3>1, <3>2
  <2> QED BY <2>1, <2>2
<1>7. Holds(g, b)
  BY <1>2, <1>4, <1>5, <1>6 DEF Holds
<1> QED BY <1>3, <1>7 DEF b

(* There is memory for another node: it is at p. *)
NewNode(h) == Smallest(Addresses \ h.live)

LEMMA NewNodeIsFree ==
    ASSUME NEW h, Addresses \ h.live # {}
    PROVE  NewNode(h) \in Addresses /\ NewNode(h) \notin h.live
<1>1. Addresses \ h.live \in SUBSET Nat
  BY ConstantsAssumption
<1> QED BY <1>1, SmallestIs DEF NewNode

(* What dictionary_add writes. *)
LEMMA AddWrites ==
    ASSUME NEW h, NEW c, Holds(h, c), NEW d \in Dictionaries, Addresses \ h.live # {},
           NEW k \in Keys, NEW x \in Data \cup {NULL}
    PROVE  LET g == Add(h, d, k, x)
               p == NewNode(h)
               end == h.dict[d].last
           IN  /\ g \in Heaps
               /\ g.live = h.live \cup {p}
               /\ g.dict = [h.dict EXCEPT ![d] =
                              [first |-> IF h.dict[d].first = NULL THEN p ELSE h.dict[d].first,
                               last |-> p, length |-> h.dict[d].length + 1]]
               /\ g.node[p] = [key |-> k, previous |-> end, next |-> NULL, data |-> x]
               /\ \A q \in Addresses \ {p} :
                     g.node[q] = IF q = end THEN [h.node[q] EXCEPT !.next = p] ELSE h.node[q]
<1> DEFINE g == Add(h, d, k, x)
           p == NewNode(h)
           end == h.dict[d].last
           s == c[d]
           linked == IF end = NULL THEN h.node ELSE [h.node EXCEPT ![end].next = p]
           added == [key |-> k, previous |-> end, next |-> NULL, data |-> x]
           this == [first |-> IF h.dict[d].first = NULL THEN p ELSE h.dict[d].first,
                    last |-> p, length |-> h.dict[d].length + 1]
<1>1. p \in Addresses /\ p \notin h.live /\ p \in Pointers
  BY NewNodeIsFree DEF Pointers
<1>2. h \in Heaps
  BY DEF Holds
<1>3. /\ h.node \in [Addresses -> Node] /\ h.live \subseteq Addresses
      /\ h.dict \in [Dictionaries -> [first : Pointers, last : Pointers, length : Nat]]
      /\ h.ok = TRUE
  BY <1>2 DEF Heaps
<1>4. end \in Pointers /\ h.dict[d].first \in Pointers /\ h.dict[d].length \in Nat
  BY <1>3
<1>5. end = NULL \/ end \in h.live
  <2>1. /\ end = Prior(s, Len(s) + 1) /\ Len(s) \in Nat
        /\ \A i \in 1..Len(s) : s[i] \in h.live
    BY Facts
  <2>2. Len(s) # 0 => Len(s) \in 1..Len(s) /\ (Len(s) + 1) - 1 = Len(s)
    BY <2>1
  <2> QED BY <2>1, <2>2 DEF Prior
<1>6. Reading(h, {end} \ {NULL}) = h
  BY <1>2, <1>5, ReadingLive
<1>7. g = [h EXCEPT !.live = @ \cup {p}, !.node = [linked EXCEPT ![p] = added], !.dict[d] = this]
  BY <1>6 DEF Add, NewNode
<1> HIDE DEF p, end, s, g
<1>8. added \in Node
  BY <1>4, ConstantsAssumption DEF Node, Pointers
<1>9. linked \in [Addresses -> Node]
  <2>1. end # NULL => end \in Addresses /\ h.node[end] \in Node
    BY <1>3, <1>5
  <2>2. end # NULL => [h.node[end] EXCEPT !.next = p] \in Node
    BY <1>1, <2>1 DEF Node
  <2> QED BY <1>3, <2>1, <2>2
<1>10. \A q \in Addresses : linked[q] = IF q = end THEN [h.node[q] EXCEPT !.next = p] ELSE h.node[q]
  <2>1. end = NULL => end \notin Addresses
    BY ConstantsAssumption
  <2> QED BY <1>3, <2>1
<1>11. this \in [first : Pointers, last : Pointers, length : Nat]
  BY <1>1, <1>4
<1> HIDE DEF linked, added, this
<1>12. /\ g.live = h.live \cup {p} /\ g.node = [linked EXCEPT ![p] = added]
       /\ g.dict = [h.dict EXCEPT ![d] = this] /\ g.ok = TRUE
       /\ g = [node |-> g.node, live |-> g.live, dict |-> g.dict, ok |-> g.ok]
  BY <1>2, <1>3, <1>7 DEF Heaps
<1>13. g.live \subseteq Addresses /\ g.node \in [Addresses -> Node]
  BY <1>1, <1>3, <1>8, <1>9, <1>12
<1>14. g.dict \in [Dictionaries -> [first : Pointers, last : Pointers, length : Nat]]
  BY <1>3, <1>11, <1>12
<1>15. g \in Heaps
  BY <1>12, <1>13, <1>14 DEF Heaps
<1>16. g.node[p] = added /\ \A q \in Addresses \ {p} : g.node[q] = linked[q]
  BY <1>1, <1>9, <1>12
<1> QED BY <1>10, <1>12, <1>15, <1>16 DEF g, p, end, added, this

(* The chain of d has a node more, the other entries are what they were. *)
Added(h, c, d, k, x) ==
    LET g == Add(h, d, k, x)
        s == Append(c[d], NewNode(h))
    IN  /\ Holds(g, [c EXCEPT ![d] = s])
        /\ Entries(g, s) = Append(Entries(h, c[d]), [key |-> k, data |-> x])
        /\ \A e \in Dictionaries \ {d} : Entries(g, c[e]) = Entries(h, c[e])

(* dictionary_add: the new node is the last of its chain. *)
LEMMA AddHolds ==
    ASSUME NEW h, NEW c, Holds(h, c), NEW d \in Dictionaries, Addresses \ h.live # {},
           NEW k \in Keys, NEW x \in Data \cup {NULL},
           \A i \in 1..Len(c[d]) : h.node[c[d][i]].key # k
    PROVE  Added(h, c, d, k, x)
<1> DEFINE g == Add(h, d, k, x)
           p == NewNode(h)
           end == h.dict[d].last
           t == c[d]
           n == Len(t)
           s == Append(t, p)
           new == [key |-> k, previous |-> end, next |-> NULL, data |-> x]
<1>1. /\ h \in Heaps /\ IsChain(h, d, t) /\ HasKeys(h, t)
      /\ t \in Seq(Addresses) /\ n \in Nat /\ h.live \subseteq Addresses
      /\ \A i \in 1..n : t[i] \in h.live /\ t[i] \in Addresses /\ t[i] # NULL
      /\ \A i, j \in 1..n : t[i] = t[j] => i = j
      /\ \A i \in 1..n : h.node[t[i]].key \in Keys /\ h.node[t[i]].key # k
      /\ \A i, j \in 1..n : h.node[t[i]].key = h.node[t[j]].key => i = j
      /\ \A i \in 1..n : h.node[t[i]].next = After(t, i) /\ h.node[t[i]].previous = Prior(t, i)
      /\ h.dict[d].length = n /\ h.dict[d].first = After(t, 0) /\ end = Prior(t, n + 1)
  BY Facts
<1>2. p \in Addresses /\ p \notin h.live
  BY NewNodeIsFree
<1>3. /\ g \in Heaps
      /\ g.live = h.live \cup {p}
      /\ g.dict = [h.dict EXCEPT ![d] =
                     [first |-> IF h.dict[d].first = NULL THEN p ELSE h.dict[d].first,
                      last |-> p, length |-> h.dict[d].length + 1]]
      /\ g.node[p] = new
      /\ \A q \in Addresses \ {p} :
            g.node[q] = IF q = end THEN [h.node[q] EXCEPT !.next = p] ELSE h.node[q]
  BY AddWrites
<1>4. /\ h.node \in [Addresses -> Node]
      /\ h.dict \in [Dictionaries -> [first : Pointers, last : Pointers, length : Nat]]
  BY <1>1 DEF Heaps
<1> HIDE DEF g, p, end, t, n
<1>5. /\ s \in Seq(Addresses) /\ Len(s) = n + 1 /\ s[n+1] = p
      /\ \A i \in 1..n : s[i] = t[i]
  BY <1>1, <1>2 DEF n
<1>6. \A q \in h.live : /\ q # p
                        /\ g.node[q] = IF q = end THEN [h.node[q] EXCEPT !.next = p] ELSE h.node[q]
  BY <1>1, <1>2, <1>3
<1>7. \A q \in h.live : /\ g.node[q].key = h.node[q].key /\ g.node[q].data = h.node[q].data
                        /\ g.node[q].previous = h.node[q].previous
                        /\ g.node[q].next = IF q = end THEN p ELSE h.node[q].next
  <2> SUFFICES ASSUME NEW q \in h.live
               PROVE  /\ g.node[q].key = h.node[q].key /\ g.node[q].data = h.node[q].data
                      /\ g.node[q].previous = h.node[q].previous
                      /\ g.node[q].next = IF q = end THEN p ELSE h.node[q].next
    OBVIOUS
  <2>1. h.node[q] \in Node
    BY <1>1, <1>4
  <2> QED BY <1>6, <2>1 DEF Node
<1>8. /\ n # 0 => end = t[n]
      /\ n = 0 => end = NULL
  <2>1. n # 0 => n + 1 # 1 /\ (n + 1) - 1 = n
    BY <1>1
  <2> QED BY <1>1, <2>1 DEF Prior
<1>9. \A i \in 1..n : t[i] = end <=> i = n
  BY <1>1, <1>8
<1>10. /\ g.dict[d].length = n + 1 /\ g.dict[d].last = p
       /\ g.dict[d].first = IF n = 0 THEN p ELSE t[1]
  <2>1. /\ g.dict[d].length = n + 1 /\ g.dict[d].last = p
        /\ g.dict[d].first = IF h.dict[d].first = NULL THEN p ELSE h.dict[d].first
    BY <1>1, <1>3, <1>4
  <2>2. h.dict[d].first = IF n = 0 THEN NULL ELSE t[1]
    BY <1>1 DEF After, n
  <2> QED BY <1>1, <2>1, <2>2
<1>11. \A e \in Dictionaries \ {d} : g.dict[e] = h.dict[e]
  BY <1>3, <1>4
<1> HIDE DEF s
<1>12. s \in Seq(g.live)
  <2>1. \A i \in 1..Len(s) : s[i] \in g.live
    BY <1>1, <1>3, <1>5
  <2> QED BY <1>5, <2>1
<1>13. \A i \in 1..Len(s) : g.node[s[i]].next = After(s, i) /\ g.node[s[i]].previous = Prior(s, i)
  <2> SUFFICES ASSUME NEW i \in 1..n+1
               PROVE  g.node[s[i]].next = After(s, i) /\ g.node[s[i]].previous = Prior(s, i)
    BY <1>5
  <2>1. CASE i = n + 1
    <3>1. After(s, i) = NULL
      BY <1>5, <2>1 DEF After
    <3>2. Prior(s, i) = end
      <4>1. n # 0 => s[i-1] = t[n]
        BY <1>1, <1>5, <2>1
      <4>2. i = 1 <=> n = 0
        BY <1>1, <2>1
      <4> QED BY <1>8, <4>1, <4>2 DEF Prior
    <3> QED BY <1>3, <1>5, <2>1, <3>1, <3>2
  <2>2. CASE i \in 1..n
    <3>1. s[i] = t[i] /\ t[i] \in h.live
      BY <1>1, <1>5, <2>2
    <3>2. Prior(s, i) = Prior(t, i)
      <4>1. i # 1 => s[i-1] = t[i-1]
        BY <1>1, <1>5, <2>2
      <4> QED BY <4>1 DEF Prior
    <3>3. After(s, i) = IF i = n THEN p ELSE After(t, i)
      <4>1. i # n => s[i+1] = t[i+1]
        BY <1>1, <1>5, <2>2
      <4>2. i = n => s[i+1] = p
        BY <1>5
      <4>3. i # Len(s)
        BY <1>1, <1>5, <2>2
      <4> QED BY <4>1, <4>2, <4>3 DEF After, n
    <3> QED BY <1>1, <1>7, <1>9, <2>2, <3>1, <3>2, <3>3
  <2> QED BY <1>1, <2>1, <2>2
<1>14. IsChain(g, d, s)
  <2>1. g.dict[d].first = After(s, 0)
    BY <1>1, <1>5, <1>10 DEF After
  <2>2. g.dict[d].last = Prior(s, Len(s) + 1)
    <3>1. Len(s) + 1 # 1 /\ (Len(s) + 1) - 1 = n + 1
      BY <1>1, <1>5
    <3> QED BY <1>5, <1>10, <3>1 DEF Prior
  <2> QED BY <1>5, <1>10, <1>12, <1>13, <2>1, <2>2 DEF IsChain
<1>15. HasKeys(g, s)
  <2>1. \A i \in 1..n : g.node[s[i]].key = h.node[t[i]].key
    BY <1>1, <1>5, <1>7
  <2>2. g.node[s[n+1]].key = k
    BY <1>3, <1>5
  <2>3. \A i \in 1..n+1 : i \in 1..n \/ i = n+1
    BY <1>1
  <2>4. \A i \in 1..n+1 : g.node[s[i]].key \in Keys
    BY <1>1, <2>1, <2>2, <2>3
  <2>5. ASSUME NEW i \in 1..n+1, NEW j \in 1..n+1, g.node[s[i]].key = g.node[s[j]].key
        PROVE  i = j
    <3>1. CASE i \in 1..n /\ j \in 1..n
      BY <1>1, <2>1, <2>5, <3>1
    <3>2. CASE i = n+1 \/ j = n+1
      BY <1>1, <2>1, <2>2, <2>3, <2>5, <3>2
    <3> QED BY <2>3, <3>1, <3>2
  <2> QED BY <1>5, <2>4, <2>5 DEF HasKeys
<1>16. \A i, j \in 1..Len(s) : s[i] = s[j] => i = j
  <2>1. \A i \in 1..n+1 : i \in 1..n \/ i = n+1
    BY <1>1
  <2> QED BY <1>1, <1>2, <1>5, <2>1
<1>17. ASSUME NEW e \in Dictionaries \ {d}, NEW j \in 1..Len(c[e])
       PROVE  /\ c[e][j] \in g.live /\ g.node[c[e][j]] = h.node[c[e][j]]
              /\ \A i \in 1..Len(s) : s[i] # c[e][j]
  <2>1. c[e][j] \in h.live /\ c[e][j] # NULL
    BY <1>17, Facts
  <2>2. \A i \in 1..n : t[i] # c[e][j]
    BY <1>17 DEF Holds, t, n
  <2>3. c[e][j] # end
    BY <1>1, <1>8, <2>1, <2>2
  <2>4. \A i \in 1..n+1 : i \in 1..n \/ i = n+1
    BY <1>1
  <2> QED BY <1>2, <1>3, <1>5, <1>6, <2>1, <2>2, <2>3, <2>4
<1>18. \A q \in g.live : \/ \E i \in 1..Len(s) : q = s[i]
                         \/ q \in h.live /\ \A i \in 1..n : q # t[i]
  <2>1. \A i \in 1..n : i \in 1..n+1
    BY <1>1
  <2>2. n+1 \in 1..n+1
    BY <1>1
  <2> QED BY <1>3, <1>5, <2>1, <2>2
<1>19. /\ Holds(g, [c EXCEPT ![d] = s])
       /\ \A e \in Dictionaries \ {d} : Entries(g, c[e]) = Entries(h, c[e])
  <2>1. \A e \in Dictionaries \ {d} :
           /\ g.dict[e] = h.dict[e]
           /\ \A j \in 1..Len(c[e]) :
                 /\ c[e][j] \in g.live /\ g.node[c[e][j]] = h.node[c[e][j]]
                 /\ \A i \in 1..Len(s) : s[i] # c[e][j]
    BY <1>11, <1>17
  <2>2. \A q \in g.live : \/ \E i \in 1..Len(s) : q = s[i]
                          \/ q \in h.live /\ \A i \in 1..Len(c[d]) : q # c[d][i]
    BY <1>18 DEF t, n
  <2>3. g \in Heaps /\ s \in Seq(Addresses)
    BY <1>3, <1>5
  <2> QED BY <1>14, <1>15, <1>16, <2>1, <2>2, <2>3, OneChain
<1>20. Entries(g, s) = Append(Entries(h, t), [key |-> k, data |-> x])
  <2> DEFINE old == Entries(h, t)
             entry(i) == [key |-> g.node[s[i]].key, data |-> g.node[s[i]].data]
             whole == Append(old, [key |-> k, data |-> x])
  <2>1. old \in Seq({old[i] : i \in 1..n}) /\ Len(old) = n
    <3>1. old = [i \in 1..n |-> old[i]]
      BY DEF Entries, n
    <3> HIDE DEF old
    <3> QED BY <1>1, <3>1
  <2>2. /\ \A i \in 1..n : whole[i] = old[i]
        /\ whole[n+1] = [key |-> k, data |-> x] /\ Len(whole) = n+1
        /\ whole = [i \in 1..n+1 |-> whole[i]]
    <3> HIDE DEF old
    <3> QED BY <1>1, <2>1
  <2>3. \A i \in 1..n : old[i] = entry(i)
    BY <1>1, <1>5, <1>7 DEF Entries, n
  <2>4. entry(n+1) = [key |-> k, data |-> x]
    BY <1>3, <1>5
  <2>5. Entries(g, s) = [i \in 1..n+1 |-> entry(i)]
    BY <1>5 DEF Entries
  <2>6. \A i \in 1..n+1 : i \in 1..n \/ i = n+1
    BY <1>1
  <2> HIDE DEF old, entry, whole
  <2>7. \A i \in 1..n+1 : whole[i] = entry(i)
    BY <2>2, <2>3, <2>4, <2>6
  <2>8. Entries(g, s) = whole
    BY <2>2, <2>5, <2>7
  <2> QED BY <2>8 DEF whole, old
<1> QED BY <1>19, <1>20 DEF g, s, t, p, Added

-----------------------------------------------------------------------------
(* Deleting *)

(* s without its element at position i. *)
Without(s, i) == [j \in 1..Len(s)-1 |-> IF j < i THEN s[j] ELSE s[j+1]]

(* g is h without the node p of d, between prior and after. *)
Unlinked(h, d, p, prior, after, g) ==
    /\ g \in Heaps
    /\ g.live = h.live \ {p}
    /\ g.dict = [h.dict EXCEPT ![d] =
                   [first |-> IF prior = NULL THEN after ELSE h.dict[d].first,
                    last |-> IF after = NULL THEN prior ELSE h.dict[d].last,
                    length |-> h.dict[d].length - 1]]
    /\ \A q \in Addresses \ {p} :
          /\ g.node[q].key = h.node[q].key
          /\ g.node[q].data = h.node[q].data
          /\ g.node[q].next = IF q = prior THEN after ELSE h.node[q].next
          /\ g.node[q].previous = IF q = after THEN prior ELSE h.node[q].previous

(* What dictionary_delete_node writes. *)
LEMMA DeleteWrites ==
    ASSUME NEW h, NEW c, Holds(h, c), NEW d \in Dictionaries,
           NEW i \in 1..Len(c[d]), NEW k, k = h.node[c[d][i]].key
    PROVE  Unlinked(h, d, c[d][i], Prior(c[d], i), After(c[d], i), DeleteNode(h, d, k))
<1> DEFINE g == DeleteNode(h, d, k)
           s == c[d]
           p == s[i]
           prior == Prior(s, i)
           after == After(s, i)
           relinked(q) == [h.node[q] EXCEPT !.next = IF q = prior THEN after ELSE @,
                                            !.previous = IF q = after THEN prior ELSE @]
           nodes == [q \in Addresses |-> IF q = p THEN Blank ELSE relinked(q)]
           this == [first |-> IF prior = NULL THEN after ELSE h.dict[d].first,
                    last |-> IF after = NULL THEN prior ELSE h.dict[d].last,
                    length |-> h.dict[d].length - 1]
<1>1. /\ h \in Heaps /\ Len(s) \in Nat /\ h.live \subseteq Addresses
      /\ \A j \in 1..Len(s) : s[j] \in h.live
      /\ h.node[s[i]].next = after /\ h.node[s[i]].previous = prior
      /\ h.dict[d].length = Len(s)
      /\ p # NULL
  BY Facts
<1>2. /\ h.node \in [Addresses -> Node] /\ h.live \subseteq Addresses
      /\ h.dict \in [Dictionaries -> [first : Pointers, last : Pointers, length : Nat]]
      /\ h.ok = TRUE
  BY <1>1 DEF Heaps
<1>3. prior \in h.live \cup {NULL} /\ after \in h.live \cup {NULL}
  <2>1. i # 1 => i-1 \in 1..Len(s)
    BY <1>1
  <2>2. i # Len(s) => i+1 \in 1..Len(s)
    BY <1>1
  <2> QED BY <1>1, <2>1, <2>2 DEF Prior, After
<1>4. Search(h, d, k) = p /\ AfterSearch(h, d, k) = h
  BY SearchHit
<1>5. At(h, p) = h.node[p] /\ p \in h.live
  BY <1>1 DEF At
<1> HIDE DEF s, p, prior, after
<1>6. Reading(h, {p} \cup ({prior, after} \ {NULL})) = h
  BY <1>1, <1>3, <1>5, ReadingLive
<1>7. g = [h EXCEPT !.live = @ \ {p}, !.node = nodes, !.dict[d] = this]
  BY <1>1, <1>4, <1>5, <1>6, ZenonT(60) DEF DeleteNode, p
<1> HIDE DEF g
<1>8. prior \in Pointers /\ after \in Pointers
  BY <1>1, <1>3 DEF Pointers
<1>9. \A q \in Addresses :
         /\ relinked(q) \in Node
         /\ relinked(q).key = h.node[q].key /\ relinked(q).data = h.node[q].data
         /\ relinked(q).next = IF q = prior THEN after ELSE h.node[q].next
         /\ relinked(q).previous = IF q = after THEN prior ELSE h.node[q].previous
  <2> SUFFICES ASSUME NEW q \in Addresses
               PROVE  /\ relinked(q) \in Node
                      /\ relinked(q).key = h.node[q].key /\ relinked(q).data = h.node[q].data
                      /\ relinked(q).next = IF q = prior THEN after ELSE h.node[q].next
                      /\ relinked(q).previous = IF q = after THEN prior ELSE h.node[q].previous
    OBVIOUS
  <2>1. h.node[q] \in Node
    BY <1>2
  <2> QED BY <1>8, <2>1 DEF Node
<1> HIDE DEF relinked
<1>10. nodes \in [Addresses -> Node]
  <2>1. Blank \in Node
    BY DEF Blank, Node, Pointers
  <2> QED BY <1>9, <2>1
<1>11. this \in [first : Pointers, last : Pointers, length : Nat]
  <2>1. h.dict[d] \in [first : Pointers, last : Pointers, length : Nat]
    BY <1>2
  <2>2. h.dict[d].length - 1 \in Nat
    BY <1>1 DEF s
  <2> QED BY <1>8, <2>1, <2>2
<1>12. \A q \in Addresses \ {p} : nodes[q] = relinked(q)
  OBVIOUS
<1> HIDE DEF nodes, this
<1>13. /\ g.live = h.live \ {p} /\ g.node = nodes
       /\ g.dict = [h.dict EXCEPT ![d] = this] /\ g.ok = TRUE
       /\ g = [node |-> g.node, live |-> g.live, dict |-> g.dict, ok |-> g.ok]
  BY <1>1, <1>2, <1>7 DEF Heaps
<1>14. g.dict \in [Dictionaries -> [first : Pointers, last : Pointers, length : Nat]]
  BY <1>2, <1>11, <1>13
<1>15. g \in Heaps
  BY <1>2, <1>10, <1>13, <1>14 DEF Heaps
<1>16. \A q \in Addresses \ {p} :
          /\ g.node[q].key = h.node[q].key
          /\ g.node[q].data = h.node[q].data
          /\ g.node[q].next = IF q = prior THEN after ELSE h.node[q].next
          /\ g.node[q].previous = IF q = after THEN prior ELSE h.node[q].previous
  BY <1>9, <1>12, <1>13
<1> QED BY <1>13, <1>15, <1>16 DEF g, s, p, prior, after, this, Unlinked

LEMMA SameNode ==
    ASSUME NEW x \in Node, NEW y \in Node, x.key = y.key, x.data = y.data,
           x.next = y.next, x.previous = y.previous
    PROVE  x = y
BY DEF Node

(* The chain of d has lost its node at position i, the other entries are what they were. *)
Deleted(h, c, d, i, k) ==
    LET g == DeleteNode(h, d, k)
        u == Without(c[d], i)
    IN  /\ Holds(g, [c EXCEPT ![d] = u])
        /\ Entries(g, u) = Without(Entries(h, c[d]), i)
        /\ \A e \in Dictionaries \ {d} : Entries(g, c[e]) = Entries(h, c[e])

(* dictionary_delete_node: the chain closes around the node. *)
LEMMA DeleteHolds ==
    ASSUME NEW h, NEW c, Holds(h, c), NEW d \in Dictionaries,
           NEW i \in 1..Len(c[d]), NEW k, k = h.node[c[d][i]].key
    PROVE  Deleted(h, c, d, i, k)
<1> DEFINE g == DeleteNode(h, d, k)
           s == c[d]
           n == Len(s)
           p == s[i]
           prior == Prior(s, i)
           after == After(s, i)
           u == Without(s, i)
<1>1. /\ h \in Heaps /\ IsChain(h, d, s) /\ HasKeys(h, s)
      /\ s \in Seq(Addresses) /\ n \in Nat /\ h.live \subseteq Addresses
      /\ \A j \in 1..n : s[j] \in h.live /\ s[j] \in Addresses /\ s[j] # NULL
      /\ \A j, m \in 1..n : s[j] = s[m] => j = m
      /\ \A j \in 1..n : h.node[s[j]].key \in Keys
      /\ \A j, m \in 1..n : h.node[s[j]].key = h.node[s[m]].key => j = m
      /\ \A j \in 1..n : h.node[s[j]].next = After(s, j) /\ h.node[s[j]].previous = Prior(s, j)
      /\ h.dict[d].length = n /\ h.dict[d].first = After(s, 0) /\ h.dict[d].last = Prior(s, n + 1)
  BY Facts, SMTT(60)
<1>2. /\ g \in Heaps
      /\ g.live = h.live \ {p}
      /\ g.dict = [h.dict EXCEPT ![d] =
                     [first |-> IF prior = NULL THEN after ELSE h.dict[d].first,
                      last |-> IF after = NULL THEN prior ELSE h.dict[d].last,
                      length |-> h.dict[d].length - 1]]
      /\ \A q \in Addresses \ {p} :
            /\ g.node[q].key = h.node[q].key
            /\ g.node[q].data = h.node[q].data
            /\ g.node[q].next = IF q = prior THEN after ELSE h.node[q].next
            /\ g.node[q].previous = IF q = after THEN prior ELSE h.node[q].previous
  <2>1. Unlinked(h, d, p, prior, after, g)
    BY DeleteWrites
  <2> HIDE DEF p, prior, after, g, s
  <2> QED BY <2>1 DEF Unlinked
<1>3. /\ h.node \in [Addresses -> Node] /\ g.node \in [Addresses -> Node]
      /\ h.dict \in [Dictionaries -> [first : Pointers, last : Pointers, length : Nat]]
  BY <1>1, <1>2 DEF Heaps
<1>4. i \in 1..n /\ n \in Nat /\ n # 0 /\ n-1 \in Nat /\ DOMAIN s = 1..n
  BY <1>1
<1>5. /\ u = [j \in 1..n-1 |-> IF j < i THEN s[j] ELSE s[j+1]]
      /\ \A j \in 1..n-1 : u[j] = IF j < i THEN s[j] ELSE s[j+1]
  BY DEF Without
<1>6. u \in Seq(Addresses) /\ Len(u) = n-1 /\ DOMAIN u = 1..n-1
  <2>1. \A j \in 1..n-1 : u[j] \in Addresses
    BY <1>1, <1>4, <1>5
  <2>2. u \in [1..n-1 -> Addresses]
    BY <1>5, <2>1
  <2> HIDE DEF u, n, s
  <2> QED BY <1>4, <2>2
<1> HIDE DEF g, u, s, n
<1>7. /\ prior = NULL <=> i = 1
      /\ i # 1 => prior = s[i-1]
      /\ after = NULL <=> i = n
      /\ i # n => after = s[i+1]
  <2>1. i # 1 => i-1 \in 1..n
    BY <1>4
  <2>2. i # n => i+1 \in 1..n
    BY <1>4
  <2>3. (prior = NULL <=> i = 1) /\ (i # 1 => prior = s[i-1])
    BY <1>1, <2>1 DEF Prior
  <2>4. (after = NULL <=> i = n) /\ (i # n => after = s[i+1])
    BY <1>1, <2>2 DEF After, n
  <2> QED BY <2>3, <2>4
<1> HIDE DEF p, prior, after
<1>8. ASSUME NEW j \in 1..n, j # i
      PROVE  /\ s[j] \in g.live /\ s[j] # p
             /\ g.node[s[j]].key = h.node[s[j]].key /\ g.node[s[j]].data = h.node[s[j]].data
             /\ g.node[s[j]].next = IF j = i-1 THEN after ELSE After(s, j)
             /\ g.node[s[j]].previous = IF j = i+1 THEN prior ELSE Prior(s, j)
  <2>1. s[j] # p /\ s[j] \in g.live /\ s[j] \in Addresses \ {p}
    BY <1>1, <1>2, <1>4, <1>8 DEF p
  <2>2. s[j] = prior <=> j = i-1
    <3>1. i # 1 => i-1 \in 1..n
      BY <1>4
    <3> QED BY <1>1, <1>4, <1>7, <3>1
  <2>3. s[j] = after <=> j = i+1
    <3>1. i # n => i+1 \in 1..n
      BY <1>4
    <3> QED BY <1>1, <1>4, <1>7, <3>1
  <2>4. h.node[s[j]].next = After(s, j) /\ h.node[s[j]].previous = Prior(s, j)
    BY <1>1
  <2>5. /\ g.node[s[j]].key = h.node[s[j]].key /\ g.node[s[j]].data = h.node[s[j]].data
        /\ g.node[s[j]].next = IF s[j] = prior THEN after ELSE h.node[s[j]].next
        /\ g.node[s[j]].previous = IF s[j] = after THEN prior ELSE h.node[s[j]].previous
    BY <1>2, <2>1
  <2> QED BY <2>1, <2>2, <2>3, <2>4, <2>5
<1>9. ASSUME NEW j \in 1..n-1
      PROVE  g.node[u[j]].next = After(u, j) /\ g.node[u[j]].previous = Prior(u, j)
  <2> USE <1>4
  <2>1. CASE j < i
    <3>1. u[j] = s[j] /\ j \in 1..n /\ j # i /\ j # n /\ j # i+1
      BY <1>5, <2>1
    <3>2. After(u, j) = IF j = i-1 THEN after ELSE After(s, j)
      <4>1. CASE j = i-1 /\ i = n
        BY <1>6, <1>7, <4>1 DEF After
      <4>2. CASE j = i-1 /\ i # n
        <5>1. j # n-1 /\ j+1 \in 1..n-1 /\ j+1 = i
          BY <4>2
        <5> QED BY <1>5, <1>6, <1>7, <4>2, <5>1 DEF After
      <4>3. CASE j # i-1
        <5>1. j # n-1 /\ j+1 \in 1..n-1 /\ j+1 < i
          BY <2>1, <4>3
        <5> QED BY <1>5, <1>6, <3>1, <4>3, <5>1 DEF After
      <4> QED BY <4>1, <4>2, <4>3
    <3>3. Prior(u, j) = Prior(s, j)
      <4>1. j # 1 => j-1 \in 1..n-1 /\ j-1 < i
        BY <2>1
      <4> QED BY <1>5, <4>1 DEF Prior
    <3> QED BY <1>8, <3>1, <3>2, <3>3
  <2>2. CASE ~(j < i)
    <3>1. u[j] = s[j+1] /\ j+1 \in 1..n /\ j+1 # i /\ j+1 # i-1
      BY <1>5, <2>2
    <3>2. After(u, j) = After(s, j+1)
      <4>1. j # n-1 => j+1 \in 1..n-1 /\ ~(j+1 < i) /\ (j+1)+1 = j+2
        BY <2>2
      <4> QED BY <1>5, <1>6, <4>1 DEF After
    <3>3. Prior(u, j) = IF j+1 = i+1 THEN prior ELSE Prior(s, j+1)
      <4>1. CASE j = i /\ i = 1
        BY <1>7, <4>1 DEF Prior
      <4>2. CASE j = i /\ i # 1
        <5>1. j # 1 /\ j-1 \in 1..n-1 /\ j-1 < i
          BY <4>2
        <5> QED BY <1>5, <1>7, <4>2, <5>1 DEF Prior
      <4>3. CASE j # i
        <5>1. j # 1 /\ j-1 \in 1..n-1 /\ ~(j-1 < i) /\ (j-1)+1 = j /\ (j+1)-1 = j /\ j+1 # 1
          BY <2>2, <4>3
        <5> QED BY <1>5, <4>3, <5>1 DEF Prior
      <4> QED BY <4>1, <4>2, <4>3
    <3> QED BY <1>8, <3>1, <3>2, <3>3
  <2> QED BY <2>1, <2>2
<1>10. \A j \in 1..n-1 : \E m \in 1..n : /\ m # i /\ u[j] = s[m]
                                         /\ m = IF j < i THEN j ELSE j+1
  BY <1>4, <1>5
<1>11. u \in Seq(g.live)
  <2>1. \A j \in 1..n-1 : u[j] \in g.live
    BY <1>8, <1>10
  <2> QED BY <1>6, <2>1
<1>12. /\ g.dict[d].length = n-1
       /\ g.dict[d].first = IF prior = NULL THEN after ELSE h.dict[d].first
       /\ g.dict[d].last = IF after = NULL THEN prior ELSE h.dict[d].last
  BY <1>1, <1>2, <1>3
<1>13. g.dict[d].first = After(u, 0)
  <2>1. CASE i = 1 /\ n = 1
    BY <1>6, <1>7, <1>12, <2>1 DEF After
  <2>2. CASE i = 1 /\ n # 1
    <3>1. 1 \in 1..n-1 /\ n-1 # 0
      BY <1>4, <2>2
    <3>2. u[1] = s[2] /\ after = s[2] /\ prior = NULL
      BY <1>5, <1>7, <2>2, <3>1
    <3> QED BY <1>6, <1>12, <3>1, <3>2 DEF After
  <2>3. CASE i # 1
    <3>1. 1 \in 1..n-1 /\ n-1 # 0 /\ 1 < i
      BY <1>4, <2>3
    <3> QED BY <1>1, <1>4, <1>5, <1>6, <1>7, <1>12, <2>3, <3>1 DEF After
  <2> QED BY <2>1, <2>2, <2>3
<1>14. g.dict[d].last = Prior(u, Len(u) + 1)
  <2>1. (n-1)+1 = n /\ (n+1)-1 = n /\ n+1 # 1
    BY <1>4
  <2>2. CASE i = n /\ n = 1
    BY <1>6, <1>7, <1>12, <2>1, <2>2 DEF Prior
  <2>3. CASE i = n /\ n # 1
    <3>1. n-1 \in 1..n-1 /\ n-1 < i
      BY <1>4, <2>3
    <3> QED BY <1>5, <1>6, <1>7, <1>12, <2>1, <2>3, <3>1 DEF Prior
  <2>4. CASE i # n
    <3>1. n-1 \in 1..n-1 /\ ~(n-1 < i) /\ n # 1
      BY <1>4, <2>4
    <3> QED BY <1>1, <1>5, <1>6, <1>7, <1>12, <2>1, <2>4, <3>1 DEF Prior
  <2> QED BY <2>2, <2>3, <2>4
<1>15. IsChain(g, d, u)
  BY <1>6, <1>9, <1>11, <1>12, <1>13, <1>14 DEF IsChain
<1>16. \A j, m \in 1..n-1 : u[j] = u[m] => j = m
  BY <1>1, <1>4, <1>5
<1>17. HasKeys(g, u)
  <2>1. ASSUME NEW j \in 1..n-1 PROVE g.node[u[j]].key \in Keys
    <3>1. PICK a \in 1..n : a # i /\ u[j] = s[a]
      BY <1>10
    <3>2. g.node[s[a]].key = h.node[s[a]].key
      BY <1>8, <3>1
    <3>3. h.node[s[a]].key \in Keys
      BY <1>1
    <3> QED BY <3>1, <3>2, <3>3
  <2>2. ASSUME NEW j \in 1..n-1, NEW m \in 1..n-1, g.node[u[j]].key = g.node[u[m]].key
        PROVE  j = m
    <3>1. PICK a \in 1..n : a # i /\ u[j] = s[a] /\ a = IF j < i THEN j ELSE j+1
      BY <1>10
    <3>2. PICK b \in 1..n : b # i /\ u[m] = s[b] /\ b = IF m < i THEN m ELSE m+1
      BY <1>10
    <3>3. a = b
      <4>1. g.node[s[a]].key = h.node[s[a]].key /\ g.node[s[b]].key = h.node[s[b]].key
        BY <1>8, <3>1, <3>2
      <4>2. h.node[s[a]].key = h.node[s[b]].key
        BY <2>2, <3>1, <3>2, <4>1
      <4> QED BY <1>1, <4>2
    <3> QED BY <1>4, <3>1, <3>2, <3>3
  <2> QED BY <1>6, <2>1, <2>2 DEF HasKeys
<1>18. ASSUME NEW e \in Dictionaries \ {d}, NEW j \in 1..Len(c[e])
       PROVE  /\ c[e][j] \in g.live /\ g.node[c[e][j]] = h.node[c[e][j]]
              /\ \A m \in 1..Len(u) : u[m] # c[e][j]
  <2> DEFINE q == c[e][j]
  <2>1. q \in h.live /\ q \in Addresses /\ q # NULL
    <3>1. e \in Dictionaries
      BY <1>18
    <3> QED BY <1>18, <3>1, Facts, SMTT(60)
  <2>2. \A m \in 1..n : s[m] # q
    BY <1>18 DEF Holds, s, n
  <2> HIDE DEF q
  <2>3. q # p /\ q # prior /\ q # after
    <3>1. i # 1 => i-1 \in 1..n
      BY <1>4
    <3>2. i # n => i+1 \in 1..n
      BY <1>4
    <3> QED BY <1>4, <1>7, <2>1, <2>2, <3>1, <3>2 DEF p
  <2>4. q \in g.live
    BY <1>2, <2>1, <2>3
  <2>5. g.node[q] = h.node[q]
    <3>1. g.node[q] \in Node /\ h.node[q] \in Node /\ q \in Addresses \ {p}
      BY <1>3, <2>1, <2>3
    <3>2. /\ g.node[q].key = h.node[q].key /\ g.node[q].data = h.node[q].data
          /\ g.node[q].next = h.node[q].next /\ g.node[q].previous = h.node[q].previous
      BY <1>2, <2>3, <3>1
    <3> QED BY <3>1, <3>2, SameNode
  <2>6. \A m \in 1..Len(u) : u[m] # q
    BY <1>6, <1>10, <2>2
  <2> QED BY <2>4, <2>5, <2>6 DEF q
<1>19. ASSUME NEW q \in g.live
       PROVE  \/ \E j \in 1..Len(u) : q = u[j]
              \/ q \in h.live /\ \A j \in 1..n : q # s[j]
  <2>1. q \in h.live /\ q # p
    BY <1>2
  <2>2. ASSUME NEW j \in 1..n, q = s[j] PROVE \E m \in 1..Len(u) : q = u[m]
    <3>1. j # i
      BY <2>1, <2>2 DEF p
    <3>2. CASE j < i
      BY <1>4, <1>5, <1>6, <2>2, <3>2
    <3>3. CASE ~(j < i)
      <4>1. j-1 \in 1..n-1 /\ ~(j-1 < i) /\ (j-1)+1 = j
        BY <1>4, <3>1, <3>3
      <4> QED BY <1>5, <1>6, <2>2, <4>1
    <3> QED BY <3>2, <3>3
  <2> QED BY <2>1, <2>2
<1>20. /\ Holds(g, [c EXCEPT ![d] = u])
       /\ \A e \in Dictionaries \ {d} : Entries(g, c[e]) = Entries(h, c[e])
  <2>1. \A e \in Dictionaries \ {d} :
           /\ g.dict[e] = h.dict[e]
           /\ \A j \in 1..Len(c[e]) :
                 /\ c[e][j] \in g.live /\ g.node[c[e][j]] = h.node[c[e][j]]
                 /\ \A m \in 1..Len(u) : u[m] # c[e][j]
    BY <1>2, <1>3, <1>18
  <2>2. \A q \in g.live : \/ \E j \in 1..Len(u) : q = u[j]
                          \/ q \in h.live /\ \A j \in 1..Len(c[d]) : q # c[d][j]
    BY <1>19 DEF s, n
  <2>3. g \in Heaps /\ u \in Seq(Addresses)
    BY <1>2, <1>6
  <2>4. \A j, m \in 1..Len(u) : u[j] = u[m] => j = m
    BY <1>6, <1>16
  <2> HIDE DEF s, n
  <2> QED BY <1>15, <1>17, <2>1, <2>2, <2>3, <2>4, OneChain
<1>21. Entries(g, u) = Without(Entries(h, s), i)
  <2> DEFINE E == Entries(h, s)
             F == Entries(g, u)
  <2>1. /\ E = [j \in 1..n |-> [key |-> h.node[s[j]].key, data |-> h.node[s[j]].data]]
        /\ F = [j \in 1..n-1 |-> [key |-> g.node[u[j]].key, data |-> g.node[u[j]].data]]
    BY <1>6 DEF Entries, n
  <2> HIDE DEF E, F
  <2>2. Len(E) = n
    BY <1>1, <2>1
  <2>3. ASSUME NEW j \in 1..n-1 PROVE F[j] = IF j < i THEN E[j] ELSE E[j+1]
    <3>1. PICK m \in 1..n : m # i /\ u[j] = s[m] /\ m = IF j < i THEN j ELSE j+1
      BY <1>10
    <3>2. F[j] = E[m]
      BY <1>8, <2>1, <3>1
    <3> QED BY <3>1, <3>2
  <2>4. F = [j \in 1..n-1 |-> F[j]]
    BY <2>1
  <2>5. F = Without(E, i)
    BY <2>2, <2>3, <2>4 DEF Without
  <2> QED BY <2>5 DEF E, F
<1> QED BY <1>20, <1>21 DEF g, u, s, Deleted

-----------------------------------------------------------------------------
(* Loops *)

(***************************************************************************)
(* A loop of n turns from a, each turn a use of G, goes through P: there   *)
(* is a function of its states.                                            *)
(***************************************************************************)
IsLoop(n, a, G, f) == f = [i \in 0..n |-> IF i = 0 THEN a ELSE G[f[i-1]]]

LEMMA LoopExists ==
    ASSUME NEW n \in Nat, NEW a, NEW G, NEW P, a \in P[0],
           \A i \in 1..n : \A x \in P[i-1] : G[x] \in P[i]
    PROVE  \E f : IsLoop(n, a, G, f) /\ \A i \in 0..n : f[i] \in P[i]
<1> DEFINE Good(m, f) == /\ f = [i \in 0..m |-> IF i = 0 THEN a ELSE G[f[i-1]]]
                         /\ \A i \in 0..m : f[i] \in P[i]
           H == {m \in 0..n : \E f : Good(m, f)}
<1>1. 0 \in H
  <2>1. Good(0, [i \in 0..0 |-> a])
    OBVIOUS
  <2> HIDE DEF Good
  <2> QED BY <2>1
<1>2. ASSUME NEW m \in 0..n-1, m \in H PROVE m+1 \in H
  <2>1. PICK f : Good(m, f)
    BY <1>2
  <2> DEFINE g == [i \in 0..m+1 |-> IF i = m+1 THEN G[f[m]] ELSE f[i]]
  <2>2. \A i \in 0..m : g[i] = f[i]
    OBVIOUS
  <2>3. g[m+1] = G[f[m]] /\ f[m] \in P[m] /\ m+1 \in 1..n /\ (m+1)-1 = m
    BY <2>1
  <2>4. \A i \in 0..m+1 : g[i] = IF i = 0 THEN a ELSE G[g[i-1]]
    <3> SUFFICES ASSUME NEW i \in 0..m+1 PROVE g[i] = IF i = 0 THEN a ELSE G[g[i-1]]
      OBVIOUS
    <3>1. CASE i = m+1
      BY <2>2, <2>3, <3>1
    <3>2. CASE i \in 0..m
      <4>1. f[i] = IF i = 0 THEN a ELSE G[f[i-1]]
        BY <2>1, <3>2
      <4>2. i # 0 => i-1 \in 0..m
        BY <3>2
      <4> QED BY <2>2, <3>2, <4>1, <4>2
    <3> QED BY <3>1, <3>2
  <2>5. \A i \in 0..m+1 : g[i] \in P[i]
    <3>1. g[m+1] \in P[m+1]
      BY <2>3
    <3>2. \A i \in 0..m : g[i] \in P[i]
      BY <2>1, <2>2
    <3>3. \A i \in 0..m+1 : i = m+1 \/ i \in 0..m
      OBVIOUS
    <3> HIDE DEF g
    <3> QED BY <3>1, <3>2, <3>3
  <2>6. g = [i \in 0..m+1 |-> g[i]]
    OBVIOUS
  <2> HIDE DEF g
  <2>7. g = [i \in 0..m+1 |-> IF i = 0 THEN a ELSE G[g[i-1]]]
    BY <2>4, <2>6
  <2>8. Good(m+1, g)
    BY <2>5, <2>7
  <2> HIDE DEF Good
  <2> QED BY <2>8
<1>3. n \in H
  <2> HIDE DEF H
  <2>1. \A m \in 0..n : m \in H
    BY <1>1, <1>2, InductionUpto
  <2> QED BY <2>1
<1> QED BY <1>3 DEF IsLoop

(* One turn of dictionary_delete's loop. *)
DeleteTurn(d, x) ==
    IF x.node = NULL THEN x
      ELSE [heap |-> DeleteNode(Reading(x.heap, {x.node}), d, At(x.heap, x.node).key),
            node |-> At(x.heap, x.node).next]

LEMMA WithoutFirst ==
    ASSUME NEW A, NEW t \in Seq(A), Len(t) > 0
    PROVE  Without(t, 1) \in Seq(A) /\ Len(Without(t, 1)) = Len(t) - 1 /\ After(Without(t, 1), 0) = After(t, 1)
<1> DEFINE u == Without(t, 1)
<1>1. Len(t) \in Nat /\ \A j \in 1..Len(t) : t[j] \in A
  OBVIOUS
<1>2. u \in [1..Len(t)-1 -> A] /\ \A j \in 1..Len(t)-1 : u[j] = t[j+1]
  BY <1>1 DEF Without
<1> HIDE DEF u
<1>3. u \in Seq(A) /\ Len(u) = Len(t) - 1
  BY <1>1, <1>2
<1>4. After(u, 0) = After(t, 1)
  BY <1>1, <1>2, <1>3 DEF After
<1> QED BY <1>3, <1>4 DEF u

(* dictionary_delete of all of the iterator deletes its first node until there is none. *)
LEMMA DeleteAllHolds ==
    ASSUME NEW h, NEW c, Holds(h, c)
    PROVE  /\ Holds(DeleteAll(h, "iterator"), [c EXCEPT !["iterator"] = <<>>])
           /\ Entries(DeleteAll(h, "iterator"), c["self"]) = Entries(h, c["self"])
<1> DEFINE it == "iterator"
           n == Len(c[it])
           Left(i, x, t) == /\ t \in Seq(Addresses) /\ Len(t) = n - i
                            /\ Holds(x.heap, [c EXCEPT ![it] = t])
                            /\ x.node = After(t, 0)
                            /\ Entries(x.heap, c["self"]) = Entries(h, c["self"])
           D == [heap : Heaps, node : Pointers]
           P == [i \in 0..n |-> {x \in D : \E t : Left(i, x, t)}]
           G == [x \in D |-> DeleteTurn(it, x)]
           a == [heap |-> h, node |-> Bound(h, it, NULL)]
           body(f) == [i \in 0..n |-> IF i = 0 THEN a ELSE DeleteTurn(it, f[i-1])]
<1>1. /\ c \in [Dictionaries -> Seq(Addresses)] /\ it \in Dictionaries /\ "self" \in Dictionaries
      /\ "self" # it
  BY DEF Holds, Dictionaries
<1>2. h \in Heaps /\ n \in Nat /\ h.dict[it].length = n /\ h.dict[it].first = After(c[it], 0)
  BY <1>1, Facts
<1>3. a.heap = h /\ a.node = After(c[it], 0)
  <2>1. Search(h, it, NULL) = NULL
    BY DEF Search
  <2> QED BY <1>2, <2>1 DEF Bound
<1>4. a \in P[0]
  <2>1. [c EXCEPT ![it] = c[it]] = c
    BY <1>1
  <2>2. Left(0, a, c[it])
    <3>1. c[it] \in Seq(Addresses) /\ Len(c[it]) = n - 0
      BY <1>1, <1>2
    <3>2. Holds(a.heap, [c EXCEPT ![it] = c[it]])
      BY <1>3, <2>1
    <3> HIDE DEF a, n, it
    <3> QED BY <1>3, <3>1, <3>2
  <2>3. After(c[it], 0) \in Pointers
    BY <1>1, <1>2 DEF After, Pointers
  <2>4. a \in D
    BY <1>2, <1>3, <2>3
  <2> HIDE DEF Left, D, a
  <2> QED BY <1>2, <2>2, <2>4
<1> HIDE DEF n, it, a
<1>5. ASSUME NEW i \in 1..n, NEW x \in P[i-1]
      PROVE  DeleteTurn(it, x) \in P[i]
  <2>1. i-1 \in 0..n /\ i \in 0..n /\ n - (i-1) > 0 /\ (n - (i-1)) - 1 = n - i
    BY <1>2
  <2>2. x \in D /\ \E t : Left(i-1, x, t)
    <3> HIDE DEF D, Left
    <3> QED BY <1>5, <2>1
  <2>3. PICK t : Left(i-1, x, t)
    BY <2>2
  <2> DEFINE b == [c EXCEPT ![it] = t]
             u == Without(t, 1)
             k == x.heap.node[t[1]].key
             g == DeleteNode(x.heap, it, k)
  <2>4. /\ t \in Seq(Addresses) /\ Len(t) > 0 /\ Len(t) \in Nat /\ Holds(x.heap, b)
        /\ x.node = t[1] /\ Entries(x.heap, c["self"]) = Entries(h, c["self"])
        /\ Len(t) = n - (i-1)
    BY <2>1, <2>3 DEF After
  <2>5. b[it] = t /\ b["self"] = c["self"]
    BY <1>1, <2>4
  <2>6. /\ x.heap \in Heaps /\ t[1] \in x.heap.live /\ t[1] # NULL
        /\ x.heap.node[t[1]].next = After(t, 1)
    <3>1. 1 \in 1..Len(t)
      BY <2>4
    <3> HIDE DEF b, u, k, g
    <3>2. /\ x.heap \in Heaps
          /\ \A j \in 1..Len(t) : t[j] \in x.heap.live /\ t[j] # NULL
          /\ \A j \in 1..Len(t) : x.heap.node[t[j]].next = After(t, j)
      <4>1. Holds(x.heap, b) /\ it \in Dictionaries /\ t = b[it]
        BY <1>1, <2>4, <2>5
      <4> QED BY <4>1, Facts
    <3> QED BY <3>1, <3>2
  <2>7. DeleteTurn(it, x) = [heap |-> g, node |-> After(t, 1)]
    <3>1. Reading(x.heap, {t[1]}) = x.heap
      BY <2>6, ReadingLive
    <3>2. At(x.heap, t[1]) = x.heap.node[t[1]]
      BY <2>6 DEF At
    <3> QED BY <2>4, <2>6, <3>1, <3>2 DEF DeleteTurn
  <2>8. /\ Holds(g, [b EXCEPT ![it] = u])
        /\ Entries(g, c["self"]) = Entries(x.heap, c["self"])
    <3>1. 1 \in 1..Len(b[it])
      BY <2>4, <2>5
    <3>2. k = x.heap.node[b[it][1]].key
      BY <2>5
    <3> HIDE DEF b, k
    <3>3. /\ Holds(g, [b EXCEPT ![it] = Without(b[it], 1)])
          /\ \A e \in Dictionaries \ {it} : Entries(g, b[e]) = Entries(x.heap, b[e])
      <4>1. Deleted(x.heap, b, it, 1, k)
        BY <1>1, <2>4, <3>1, <3>2, DeleteHolds
      <4> QED BY <4>1 DEF Deleted
    <3> QED BY <1>1, <2>5, <3>3
  <2>9. [b EXCEPT ![it] = u] = [c EXCEPT ![it] = u]
    BY <1>1
  <2>10. u \in Seq(Addresses) /\ Len(u) = n - i /\ After(u, 0) = After(t, 1)
    BY <2>1, <2>4, WithoutFirst
  <2>11. g \in Heaps
    BY <2>8 DEF Holds
  <2>12. After(u, 0) \in Pointers
    BY <2>10 DEF After, Pointers
  <2> DEFINE y == [heap |-> g, node |-> After(t, 1)]
  <2> HIDE DEF b, u, k, g
  <2>13. Left(i, y, u)
    BY <2>4, <2>8, <2>9, <2>10
  <2>14. y \in D
    BY <2>10, <2>11, <2>12
  <2> HIDE DEF y, D, Left
  <2> QED BY <2>1, <2>7, <2>13, <2>14 DEF y
<1>6. PICK f : f = body(f)
  <2>1. \A i \in 1..n : \A x \in P[i-1] : G[x] \in P[i] /\ G[x] = DeleteTurn(it, x)
    <3> SUFFICES ASSUME NEW i \in 1..n, NEW x \in P[i-1] PROVE G[x] \in P[i] /\ G[x] = DeleteTurn(it, x)
      OBVIOUS
    <3>1. i-1 \in 0..n
      BY <1>2
    <3>2. x \in D
      BY <3>1
    <3> QED BY <1>5, <3>2
  <2> HIDE DEF P, G
  <2>2. PICK f : IsLoop(n, a, G, f) /\ \A i \in 0..n : f[i] \in P[i]
    <3>1. \A i \in 1..n : \A x \in P[i-1] : G[x] \in P[i]
      BY <2>1
    <3>2. n \in Nat
      BY <1>2
    <3> QED BY <1>4, <3>1, <3>2, LoopExists
  <2>3. \A i \in 0..n : (IF i = 0 THEN a ELSE G[f[i-1]]) = (IF i = 0 THEN a ELSE DeleteTurn(it, f[i-1]))
    <3> SUFFICES ASSUME NEW i \in 0..n, i # 0 PROVE G[f[i-1]] = DeleteTurn(it, f[i-1])
      OBVIOUS
    <3>1. i \in 1..n /\ i-1 \in 0..n
      BY <1>2
    <3> QED BY <2>1, <2>2, <3>1
  <2> QED BY <2>2, <2>3 DEF IsLoop
<1>7. PICK g : g = body(g) /\ DeleteAll(h, it) = g[n].heap
  BY <1>2, <1>6 DEF DeleteAll, DeleteTurn, a
<1>8. g[n] \in P[n]
  <2> DEFINE S == {i \in 0..n : g[i] \in P[i]}
  <2>1. g[0] = a /\ \A i \in 1..n : g[i] = DeleteTurn(it, g[i-1])
    BY <1>2, <1>7
  <2> HIDE DEF P
  <2>2. 0 \in S
    BY <1>2, <1>4, <2>1
  <2>3. ASSUME NEW i \in 0..n-1, i \in S PROVE i+1 \in S
    <3>1. i+1 \in 1..n /\ (i+1)-1 = i /\ i+1 \in 0..n
      BY <1>2
    <3>2. g[i] \in P[(i+1)-1]
      BY <2>3, <3>1
    <3> QED BY <1>5, <2>1, <3>1, <3>2
  <2> HIDE DEF S
  <2>4. \A i \in 0..n : i \in S
    BY <1>2, <2>2, <2>3, InductionUpto
  <2>5. n \in S
    BY <1>2, <2>4
  <2> QED BY <2>5 DEF S
<1>9. PICK t : Left(n, g[n], t)
  <2> HIDE DEF Left, D
  <2> QED BY <1>2, <1>8
<1>10. t = <<>>
  <2>1. t \in Seq(Addresses) /\ Len(t) = 0
    BY <1>2, <1>9
  <2> QED BY <2>1
<1> QED BY <1>7, <1>9, <1>10 DEF it

-----------------------------------------------------------------------------
(* Counting *)

(* A numbering of a set counts it. *)
LEMMA Numbered ==
    ASSUME NEW n \in Nat, NEW S, NEW f \in [1..n -> S],
           \A i, j \in 1..n : f[i] = f[j] => i = j,
           \A x \in S : \E i \in 1..n : f[i] = x
    PROVE  IsFiniteSet(S) /\ Cardinality(S) = n
<1>1. f \in Bijection(1..n, S)
  BY DEF Bijection, Injection, IsInjective, Surjection
<1>2. ExistsBijection(1..n, S)
  BY <1>1 DEF ExistsBijection
<1> QED BY <1>2, FS_NatBijection, FS_CountingElements

(* The nodes of the dictionaries are as many as their lengths say. *)
LEMMA LiveCount ==
    ASSUME NEW h, NEW c, Holds(h, c)
    PROVE  /\ IsFiniteSet(h.live)
           /\ Cardinality(h.live) = Len(c["self"]) + Len(c["iterator"])
           /\ h.live = Elements(c["self"]) \cup Elements(c["iterator"])
<1> DEFINE s == c["self"]
           t == c["iterator"]
           S == {s[i] : i \in 1..Len(s)}
           T == {t[i] : i \in 1..Len(t)}
<1>1. "self" \in Dictionaries /\ "iterator" \in Dictionaries /\ "self" # "iterator"
  BY DEF Dictionaries
<1>2. /\ Len(s) \in Nat /\ DOMAIN s = 1..Len(s)
      /\ \A i \in 1..Len(s) : s[i] \in h.live
      /\ \A i, j \in 1..Len(s) : s[i] = s[j] => i = j
  BY <1>1, Facts
<1>3. /\ Len(t) \in Nat /\ DOMAIN t = 1..Len(t)
      /\ \A i \in 1..Len(t) : t[i] \in h.live
      /\ \A i, j \in 1..Len(t) : t[i] = t[j] => i = j
  BY <1>1, Facts
<1>4. \A i \in 1..Len(s), j \in 1..Len(t) : s[i] # t[j]
  BY <1>1 DEF Holds
<1>5. \A p \in h.live : p \in S \cup T
  BY DEF Holds, Dictionaries
<1> HIDE DEF s, t
<1>6. h.live = S \cup T
  BY <1>2, <1>3, <1>5
<1>7. IsFiniteSet(S) /\ Cardinality(S) = Len(s)
  <2>1. [i \in 1..Len(s) |-> s[i]] \in [1..Len(s) -> S]
    OBVIOUS
  <2>2. /\ \A i, j \in 1..Len(s) :
              [m \in 1..Len(s) |-> s[m]][i] = [m \in 1..Len(s) |-> s[m]][j] => i = j
        /\ \A x \in S : \E i \in 1..Len(s) : [m \in 1..Len(s) |-> s[m]][i] = x
    BY <1>2
  <2> HIDE DEF S
  <2> QED BY <1>2, <2>1, <2>2, Numbered
<1>8. IsFiniteSet(T) /\ Cardinality(T) = Len(t)
  <2>1. [i \in 1..Len(t) |-> t[i]] \in [1..Len(t) -> T]
    OBVIOUS
  <2>2. /\ \A i, j \in 1..Len(t) :
              [m \in 1..Len(t) |-> t[m]][i] = [m \in 1..Len(t) |-> t[m]][j] => i = j
        /\ \A x \in T : \E i \in 1..Len(t) : [m \in 1..Len(t) |-> t[m]][i] = x
    BY <1>3
  <2> HIDE DEF T
  <2> QED BY <1>3, <2>1, <2>2, Numbered
<1>9. S \cap T = {}
  BY <1>4
<1>10. S = Elements(s) /\ T = Elements(t)
  BY <1>2, <1>3 DEF Elements
<1> HIDE DEF S, T
<1>11. IsFiniteSet(S \cup T) /\ Cardinality(S \cup T) = Len(s) + Len(t)
  <2>1. Cardinality(S \cup T) = Cardinality(S) + Cardinality(T) - Cardinality(S \cap T)
    BY <1>7, <1>8, FS_Union
  <2>2. Cardinality(S \cap T) = 0
    BY <1>9, FS_EmptySet
  <2>3. IsFiniteSet(S \cup T)
    BY <1>7, <1>8, FS_Union
  <2>4. Len(s) + Len(t) - 0 = Len(s) + Len(t)
    BY <1>2, <1>3
  <2> QED BY <1>7, <1>8, <2>1, <2>2, <2>3, <2>4
<1> QED BY <1>6, <1>10, <1>11 DEF s, t

(* A chain is not longer than there are keys, and shorter when a key is not in it. *)
LEMMA KeyCount ==
    ASSUME NEW h, NEW s, HasKeys(h, s), Len(s) \in Nat
    PROVE  /\ Cardinality(Keys) \in Nat
           /\ Len(s) <= Cardinality(Keys)
           /\ \A k \in Keys : (\A i \in 1..Len(s) : h.node[s[i]].key # k) => Len(s) < Cardinality(Keys)
<1> DEFINE n == Len(s)
           K == {h.node[s[i]].key : i \in 1..n}
           f == [i \in 1..n |-> h.node[s[i]].key]
<1>1. Cardinality(Keys) \in Nat /\ IsFiniteSet(Keys)
  BY ConstantsAssumption, FS_CardinalityType
<1>2. IsFiniteSet(K) /\ Cardinality(K) = n
  <2>1. f \in [1..n -> K]
    OBVIOUS
  <2>2. \A i, j \in 1..n : f[i] = f[j] => i = j
    BY DEF HasKeys
  <2>3. \A x \in K : \E i \in 1..n : f[i] = x
    OBVIOUS
  <2> HIDE DEF K, f
  <2> QED BY <2>1, <2>2, <2>3, Numbered
<1>3. K \in SUBSET Keys
  BY DEF HasKeys
<1>4. n <= Cardinality(Keys)
  <2> HIDE DEF K, f, n
  <2> QED BY <1>1, <1>2, <1>3, FS_Subset
<1>5. ASSUME NEW k \in Keys, \A i \in 1..n : h.node[s[i]].key # k
      PROVE  n < Cardinality(Keys)
  <2>1. K # Keys
    BY <1>5
  <2> HIDE DEF K, f, n
  <2>2. Cardinality(K) # Cardinality(Keys)
    BY <1>1, <1>3, <2>1, FS_Subset
  <2>3. n \in Nat
    BY DEF n
  <2> QED BY <1>1, <1>2, <1>4, <2>2, <2>3
<1> QED BY <1>1, <1>4, <1>5

(* There is room for a key that is not in a dictionary. *)
LEMMA RoomForKey ==
    ASSUME NEW h, NEW c, Holds(h, c), NEW d \in Dictionaries, NEW k \in Keys,
           \A i \in 1..Len(c[d]) : h.node[c[d][i]].key # k
    PROVE  Addresses \ h.live # {}
<1>1. \A e \in Dictionaries :
         /\ Len(c[e]) \in Nat /\ Cardinality(Keys) \in Nat
         /\ Len(c[e]) <= Cardinality(Keys)
         /\ e = d => Len(c[e]) < Cardinality(Keys)
  <2> SUFFICES ASSUME NEW e \in Dictionaries
               PROVE  /\ Len(c[e]) \in Nat /\ Cardinality(Keys) \in Nat
                      /\ Len(c[e]) <= Cardinality(Keys)
                      /\ e = d => Len(c[e]) < Cardinality(Keys)
    OBVIOUS
  <2>1. HasKeys(h, c[e]) /\ Len(c[e]) \in Nat
    BY Facts
  <2> QED BY <2>1, KeyCount
<1>2. Len(c["self"]) + Len(c["iterator"]) < 2 * Cardinality(Keys)
  <2> DEFINE x == Len(c["self"])
             y == Len(c["iterator"])
             z == Cardinality(Keys)
  <2>1. x \in Nat /\ y \in Nat /\ z \in Nat /\ x <= z /\ y <= z
    BY <1>1 DEF Dictionaries
  <2>2. x < z \/ y < z
    BY <1>1 DEF Dictionaries
  <2> HIDE DEF x, y, z
  <2>3. x + y < 2 * z
    BY <2>1, <2>2
  <2> QED BY <2>3 DEF x, y, z
<1>3. Cardinality(h.live) = Len(c["self"]) + Len(c["iterator"])
  BY LiveCount
<1>4. ASSUME Addresses \subseteq h.live PROVE FALSE
  <2>1. h.live \subseteq Addresses
    BY DEF Holds, Heaps
  <2>2. Cardinality(h.live) = Cardinality(Addresses)
    <3>1. h.live = Addresses
      BY <1>4, <2>1
    <3> QED BY <3>1
  <2>3. Cardinality(Addresses) >= 2 * Cardinality(Keys) /\ Cardinality(Addresses) \in Nat
    BY ConstantsAssumption, FS_CardinalityType
  <2>4. Cardinality(Keys) \in Nat
    BY <1>1
  <2> DEFINE x == Cardinality(Addresses)
             z == Cardinality(Keys)
  <2>5. x \in Nat /\ z \in Nat /\ x < 2 * z /\ x >= 2 * z
    BY <1>2, <1>3, <2>2, <2>3, <2>4
  <2> HIDE DEF x, z
  <2> QED BY <2>5
<1> QED BY <1>4

-----------------------------------------------------------------------------
(* Copying *)

(* The keys of the chain s, the m elements of e from position b on, and their number. *)
KeysIn(h, s) == [i \in 1..Len(s) |-> h.node[s[i]].key]
Part(e, b, m) == [j \in 1..m |-> e[b+j-1]]
AtMost(i, m) == IF i <= m THEN i ELSE m

(* b is the position of the node that dictionary_iter begins at. *)
BeginsAt(h, s, marker, b) ==
    /\ b = WindowStart(KeysIn(h, s), marker)
    /\ b \in 1..Len(s) \/ (b = 1 /\ Len(s) = 0)
    /\ Bound(h, "self", marker) = After(s, b-1)
    /\ AfterSearch(h, "self", marker) = h

LEMMA BoundIs ==
    ASSUME NEW h, NEW c, Holds(h, c), NEW s, s = c["self"], NEW marker
    PROVE  BeginsAt(h, s, marker, WindowStart(KeysIn(h, s), marker))
<1> DEFINE keys == KeysIn(h, s)
           b == WindowStart(keys, marker)
<1>0. "self" \in Dictionaries
  BY DEF Dictionaries
<1>1. Len(s) \in Nat /\ h.dict["self"].first = After(s, 0) /\ \A i \in 1..Len(s) : s[i] # NULL
  BY <1>0, Facts
<1>2. DOMAIN keys = 1..Len(s) /\ \A i \in 1..Len(s) : keys[i] = h.node[s[i]].key
  BY DEF KeysIn
<1> HIDE DEF keys
<1>3. CASE marker \in Elements(keys)
  <2>1. \E i \in 1..Len(s) : keys[i] = marker
    BY <1>2, <1>3 DEF Elements
  <2>2. b \in 1..Len(s) /\ keys[b] = marker
    BY <1>2, <1>3, <2>1 DEF WindowStart
  <2> HIDE DEF b
  <2>3. Search(h, "self", marker) = s[b] /\ AfterSearch(h, "self", marker) = h
    BY <1>0, <1>2, <2>2, SearchHit
  <2>4. Bound(h, "self", marker) = s[b]
    BY <1>1, <2>2, <2>3 DEF Bound
  <2>5. After(s, b-1) = s[b]
    <3>1. b-1 # Len(s) /\ (b-1)+1 = b
      BY <1>1, <2>2
    <3> QED BY <3>1 DEF After
  <2> QED BY <2>2, <2>3, <2>4, <2>5 DEF BeginsAt, b, keys
<1>4. CASE marker \notin Elements(keys)
  <2>1. b = 1
    BY <1>4 DEF WindowStart
  <2>2. \A i \in 1..Len(s) : h.node[s[i]].key # marker
    BY <1>2, <1>4 DEF Elements
  <2>3. Search(h, "self", marker) = NULL /\ AfterSearch(h, "self", marker) = h
    BY <1>0, <2>2, SearchMiss
  <2>4. Bound(h, "self", marker) = After(s, 0)
    BY <1>1, <2>3 DEF Bound
  <2>5. b \in 1..Len(s) \/ (b = 1 /\ Len(s) = 0)
    BY <1>1, <2>1
  <2>6. b-1 = 0
    BY <2>1
  <2> HIDE DEF b
  <2> QED BY <2>3, <2>4, <2>5, <2>6 DEF BeginsAt, b, keys
<1> QED BY <1>3, <1>4

(* One turn of dictionary_iter's loop. *)
CopyTurn(x) ==
    IF x.node = NULL THEN x
      ELSE [heap |-> Add(Reading(x.heap, {x.node}), "iterator",
                         At(x.heap, x.node).key, At(x.heap, x.node).data),
            node |-> At(x.heap, x.node).next]

(***************************************************************************)
(* i turns have copied to the chain t the first entries from position b    *)
(* on: i, or as many as there are.                                         *)
(***************************************************************************)
Copying(h, c, b, i, x, t) ==
    LET s == c["self"]
    IN  /\ x \in [heap : Heaps, node : Pointers]
        /\ t \in Seq(Addresses) /\ Len(t) = AtMost(i, Len(s) - b + 1)
        /\ Holds(x.heap, [c EXCEPT !["iterator"] = t])
        /\ Entries(x.heap, s) = Entries(h, s)
        /\ Entries(x.heap, t) = Part(Entries(h, s), b, Len(t))
        /\ x.node = After(s, b + Len(t) - 1)

LEMMA PartGrows ==
    ASSUME NEW e, NEW b \in Nat, NEW m \in Nat
    PROVE  Append(Part(e, b, m), e[b+m]) = Part(e, b, m+1)
<1> DEFINE p == Part(e, b, m)
           w == Append(p, e[b+m])
           W == {e[j] : j \in Nat}
<1>1. p \in [1..m -> W] /\ \A j \in 1..m : p[j] = e[b+j-1]
  BY DEF Part
<1> HIDE DEF p
<1>2. p \in Seq(W) /\ Len(p) = m
  BY <1>1
<1>3. e[b+m] \in W
  OBVIOUS
<1> HIDE DEF W
<1>4. w \in Seq(W) /\ Len(w) = m+1 /\ w[m+1] = e[b+m] /\ \A j \in 1..m : w[j] = p[j]
  BY <1>2, <1>3
<1>5. w = [j \in 1..m+1 |-> w[j]]
  BY <1>4
<1> HIDE DEF w
<1>6. \A j \in 1..m+1 : w[j] = e[b+j-1]
  <2> SUFFICES ASSUME NEW j \in 1..m+1 PROVE w[j] = e[b+j-1]
    OBVIOUS
  <2>1. CASE j = m+1
    <3>1. b+j-1 = b+m
      BY <2>1
    <3> QED BY <1>4, <2>1, <3>1
  <2>2. CASE j # m+1
    <3>1. j \in 1..m
      BY <2>2
    <3> QED BY <1>1, <1>4, <3>1
  <2> QED BY <2>1, <2>2
<1> QED BY <1>5, <1>6 DEF w, p, Part

(* A turn copies the next entry, if there is one. *)
LEMMA CopyTurnHolds ==
    ASSUME NEW h, NEW c, Holds(h, c), NEW b,
           b \in 1..Len(c["self"]) \/ (b = 1 /\ Len(c["self"]) = 0),
           NEW i \in Nat, NEW x, NEW t, Copying(h, c, b, i, x, t)
    PROVE  \E u : Copying(h, c, b, i+1, CopyTurn(x), u)
<1> DEFINE it == "iterator"
           s == c["self"]
           n == Len(s)
           m == Len(t)
           E == Entries(h, s)
           a == [c EXCEPT ![it] = t]
<1>1. /\ c \in [Dictionaries -> Seq(Addresses)] /\ it \in Dictionaries /\ "self" \in Dictionaries
      /\ "self" # it
  BY DEF Holds, Dictionaries
<1>2. /\ x \in [heap : Heaps, node : Pointers]
      /\ t \in Seq(Addresses) /\ m = AtMost(i, n - b + 1)
      /\ Holds(x.heap, a)
      /\ Entries(x.heap, s) = E /\ Entries(x.heap, t) = Part(E, b, m)
      /\ x.node = After(s, b + m - 1)
  BY DEF Copying
<1>3. a[it] = t /\ a["self"] = s
  BY <1>1, <1>2
<1>4. n \in Nat /\ m \in Nat /\ b \in Nat /\ b >= 1 /\ b + m - 1 <= n
  <2>1. n \in Nat
    BY <1>1
  <2>2. m \in Nat
    BY <1>2
  <2> HIDE DEF n, m
  <2> QED BY <1>2, <2>1, <2>2 DEF AtMost, n
<1> HIDE DEF it, s, n, m, a
<1>5. /\ \A j \in 1..n : s[j] \in x.heap.live /\ s[j] # NULL
      /\ \A j \in 1..n : x.heap.node[s[j]].next = After(s, j)
      /\ \A j \in 1..n : x.heap.node[s[j]].key \in Keys
      /\ \A j, q \in 1..n : x.heap.node[s[j]].key = x.heap.node[s[q]].key => j = q
  <2>1. Holds(x.heap, a) /\ "self" \in Dictionaries /\ s = a["self"]
    BY <1>1, <1>2, <1>3
  <2> QED BY <2>1, Facts, SMTT(60) DEF n
<1>6. CASE b + m - 1 = n
  <2>1. x.node = NULL
    BY <1>2, <1>6 DEF After, n
  <2>2. CopyTurn(x) = x
    BY <2>1 DEF CopyTurn
  <2>3. m = AtMost(i+1, n - b + 1)
    BY <1>2, <1>4, <1>6 DEF AtMost
  <2>4. Copying(h, c, b, i+1, x, t)
    BY <1>2, <2>3 DEF Copying, m, n, s, a, it
  <2> QED BY <2>2, <2>4
<1>7. CASE b + m - 1 # n
  <2> DEFINE j == b + m
             k == x.heap.node[s[j]].key
             d == x.heap.node[s[j]].data
             g == Add(x.heap, it, k, d)
             u == Append(t, NewNode(x.heap))
  <2>1. j \in 1..n /\ (b + m - 1) + 1 = j /\ m = i /\ m + 1 = AtMost(i+1, n - b + 1)
    BY <1>2, <1>4, <1>7 DEF AtMost
  <2>2. x.node = s[j]
    BY <1>2, <1>7, <2>1 DEF After, n
  <2> HIDE DEF j
  <2>3. x.heap \in Heaps /\ s[j] \in x.heap.live /\ s[j] # NULL /\ k \in Keys
    BY <1>2, <1>5, <2>1
  <2>4. d \in Data \cup {NULL}
    <3>1. x.heap.node \in [Addresses -> Node] /\ x.heap.live \subseteq Addresses
      BY <2>3 DEF Heaps
    <3>2. x.heap.node[s[j]] \in Node
      BY <2>3, <3>1
    <3> QED BY <3>2 DEF Node
  <2>5. CopyTurn(x) = [heap |-> g, node |-> After(s, j)]
    <3>1. Reading(x.heap, {s[j]}) = x.heap
      BY <2>3, ReadingLive
    <3>2. At(x.heap, s[j]) = x.heap.node[s[j]]
      BY <2>3 DEF At
    <3>3. x.heap.node[s[j]].next = After(s, j)
      BY <1>5, <2>1
    <3> QED BY <2>2, <2>3, <3>1, <3>2, <3>3 DEF CopyTurn, it
  <2>6. \A q \in 1..n : E[q] = [key |-> x.heap.node[s[q]].key, data |-> x.heap.node[s[q]].data]
    <3>1. E = [q \in 1..n |-> [key |-> x.heap.node[s[q]].key, data |-> x.heap.node[s[q]].data]]
      BY <1>2 DEF Entries, n
    <3> QED BY <3>1
  <2>7. ASSUME NEW q \in 1..m PROVE x.heap.node[t[q]].key # k
    <3>1. Entries(x.heap, t)[q].key = x.heap.node[t[q]].key
      BY DEF Entries, m
    <3>2. Entries(x.heap, t)[q] = E[b+q-1]
      BY <1>2 DEF Part
    <3>3. b+q-1 \in 1..n /\ b+q-1 # j
      BY <1>4, <2>1 DEF j
    <3>4. E[b+q-1].key = x.heap.node[s[b+q-1]].key
      <4> DEFINE r == b+q-1
      <4> HIDE DEF E, r
      <4>1. r \in 1..n
        BY <3>3 DEF r
      <4>2. E[r] = [key |-> x.heap.node[s[r]].key, data |-> x.heap.node[s[r]].data]
        BY <2>6, <4>1, Zenon
      <4>3. E[r].key = x.heap.node[s[r]].key
        BY <4>2
      <4> QED BY <4>3 DEF r
    <3> QED BY <1>5, <2>1, <3>1, <3>2, <3>3, <3>4
  <2>8. Addresses \ x.heap.live # {}
    <3>1. \A q \in 1..Len(a[it]) : x.heap.node[a[it][q]].key # k
      BY <1>3, <2>7 DEF m
    <3>2. Holds(x.heap, a) /\ it \in Dictionaries /\ k \in Keys
      BY <1>1, <1>2, <2>3
    <3> HIDE DEF k
    <3> QED BY <3>1, <3>2, RoomForKey
  <2> HIDE DEF k, d
  <2>9. /\ Holds(g, [a EXCEPT ![it] = u])
        /\ Entries(g, u) = Append(Entries(x.heap, t), [key |-> k, data |-> d])
        /\ Entries(g, s) = Entries(x.heap, s)
    <3>1. \A q \in 1..Len(a[it]) : x.heap.node[a[it][q]].key # k
      BY <1>3, <2>7 DEF m
    <3>2. Holds(x.heap, a) /\ it \in Dictionaries /\ k \in Keys /\ d \in Data \cup {NULL}
      BY <1>1, <1>2, <2>3, <2>4
    <3>3. /\ Holds(g, [a EXCEPT ![it] = Append(a[it], NewNode(x.heap))])
          /\ Entries(g, Append(a[it], NewNode(x.heap)))
               = Append(Entries(x.heap, a[it]), [key |-> k, data |-> d])
          /\ \A e \in Dictionaries \ {it} : Entries(g, a[e]) = Entries(x.heap, a[e])
      <4>1. Added(x.heap, a, it, k, d)
        BY <2>8, <3>1, <3>2, AddHolds
      <4> QED BY <4>1 DEF Added
    <3> HIDE DEF g
    <3> QED BY <1>1, <1>3, <3>3
  <2>10. [a EXCEPT ![it] = u] = [c EXCEPT ![it] = u]
    BY <1>1 DEF a
  <2>11. u \in Seq(Addresses) /\ Len(u) = m + 1
    <3>1. NewNode(x.heap) \in Addresses
      BY <2>8, NewNodeIsFree
    <3> QED BY <1>2, <3>1 DEF m
  <2>12. Entries(g, u) = Part(E, b, m + 1)
    <3>1. E[b+m] = [key |-> k, data |-> d]
      BY <2>1, <2>6 DEF j, k, d
    <3>2. Append(Part(E, b, m), E[b+m]) = Part(E, b, m+1)
      BY <1>4, PartGrows
    <3> HIDE DEF g, u, E
    <3> QED BY <1>2, <2>9, <3>1, <3>2
  <2>13. After(s, j) \in Pointers /\ j = b + (m + 1) - 1
    <3>1. g \in Heaps /\ \A q \in 1..n : s[q] \in Addresses
      BY <1>1, <2>9 DEF Holds, s, n
    <3>2. j # n => j + 1 \in 1..n
      BY <1>4, <2>1
    <3>3. j = b + (m + 1) - 1
      BY <1>4 DEF j
    <3> QED BY <3>1, <3>2, <3>3 DEF After, n, Pointers
  <2>14. g \in Heaps
    BY <2>9 DEF Holds
  <2> DEFINE y == [heap |-> g, node |-> After(s, j)]
  <2> HIDE DEF g, u, E
  <2>15. /\ y \in [heap : Heaps, node : Pointers] /\ y.heap = g /\ y.node = After(s, b + (m+1) - 1)
    BY <2>13, <2>14
  <2> HIDE DEF y
  <2>16. Copying(h, c, b, i+1, y, u)
    <3>1. u \in Seq(Addresses) /\ Len(u) = AtMost(i+1, n - b + 1)
      BY <2>1, <2>11
    <3>2. Holds(y.heap, [c EXCEPT ![it] = u])
      BY <2>9, <2>10, <2>15
    <3>3. Entries(y.heap, s) = E /\ Entries(y.heap, u) = Part(E, b, Len(u))
      BY <1>2, <2>9, <2>11, <2>12, <2>15
    <3>4. y.node = After(s, b + Len(u) - 1)
      BY <2>11, <2>15
    <3> QED BY <2>15, <3>1, <3>2, <3>3, <3>4 DEF Copying, n, s, it, E
  <2> QED BY <2>5, <2>16 DEF y
<1> QED BY <1>6, <1>7

(* What n turns have copied. *)
CopyMade(h, c, b, n, g, t) ==
    /\ t \in Seq(Addresses)
    /\ Holds(g, [c EXCEPT !["iterator"] = t])
    /\ Entries(g, c["self"]) = Entries(h, c["self"])
    /\ Entries(g, t) = Part(Entries(h, c["self"]), b, AtMost(n, Len(c["self"]) - b + 1))
    /\ Len(t) = AtMost(n, Len(c["self"]) - b + 1)

(* dictionary_iter's loop copies the entries from its beginning on, at most n. *)
LEMMA CopiedHolds ==
    ASSUME NEW h, NEW c, Holds(h, c), c["iterator"] = <<>>, NEW marker, NEW n \in Nat
    PROVE  \E t : CopyMade(h, c, WindowStart(KeysIn(h, c["self"]), marker), n, Copied(h, marker, n), t)
<1> DEFINE it == "iterator"
           s == c["self"]
           b == WindowStart(KeysIn(h, s), marker)
           D == [heap : Heaps, node : Pointers]
           P == [i \in 0..n |-> {x \in D : \E t : Copying(h, c, b, i, x, t)}]
           G == [x \in D |-> CopyTurn(x)]
           a == [heap |-> AfterSearch(h, "self", marker), node |-> Bound(h, "self", marker)]
           body(f) == [i \in 0..n |-> IF i = 0 THEN a ELSE CopyTurn(f[i-1])]
<1>1. /\ c \in [Dictionaries -> Seq(Addresses)] /\ it \in Dictionaries /\ "self" \in Dictionaries
      /\ h \in Heaps
  BY DEF Holds, Dictionaries
<1>2. BeginsAt(h, s, marker, b)
  BY BoundIs
<1> HIDE DEF b
<1>3. /\ b \in 1..Len(s) \/ (b = 1 /\ Len(s) = 0)
      /\ a = [heap |-> h, node |-> After(s, b-1)]
      /\ Len(s) \in Nat /\ b \in Nat /\ b >= 1 /\ Len(s) - b + 1 >= 0
  BY <1>1, <1>2 DEF BeginsAt
<1> HIDE DEF a
<1>4. a \in P[0]
  <2>1. [c EXCEPT ![it] = <<>>] = c
    BY <1>1
  <2>2. Len(<<>>) = AtMost(0, Len(s) - b + 1) /\ b + Len(<<>>) - 1 = b - 1
    BY <1>3 DEF AtMost
  <2>3. Entries(h, <<>>) = Part(Entries(h, s), b, Len(<<>>))
    BY DEF Entries, Part
  <2>4. a \in D
    <3>1. b-1 # Len(s) => (b-1)+1 = b /\ b \in 1..Len(s)
      BY <1>3
    <3>2. After(s, b-1) \in Pointers
      BY <1>1, <3>1 DEF After, Pointers
    <3> QED BY <1>1, <1>3, <3>2
  <2>5. a.heap = h /\ a.node = After(s, b + Len(<<>>) - 1)
    BY <1>3, <2>2
  <2>6. Copying(h, c, b, 0, a, <<>>)
    BY <2>1, <2>2, <2>3, <2>4, <2>5 DEF Copying
  <2> HIDE DEF D
  <2>7. 0 \in 0..n
    OBVIOUS
  <2> QED BY <2>4, <2>6, <2>7
<1>5. ASSUME NEW i \in 1..n, NEW x \in P[i-1]
      PROVE  CopyTurn(x) \in P[i]
  <2>1. i-1 \in 0..n /\ i \in 0..n /\ i-1 \in Nat /\ (i-1)+1 = i
    OBVIOUS
  <2>2. PICK t : Copying(h, c, b, i-1, x, t)
    BY <2>1
  <2>3. PICK u : Copying(h, c, b, i, CopyTurn(x), u)
    <3>1. \E u : Copying(h, c, b, (i-1)+1, CopyTurn(x), u)
      BY <1>3, <2>1, <2>2, CopyTurnHolds
    <3> QED BY <2>1, <3>1
  <2>4. CopyTurn(x) \in D
    BY <2>3 DEF Copying
  <2> HIDE DEF D
  <2> QED BY <2>1, <2>3, <2>4
<1>6. PICK f : f = body(f)
  <2>1. \A i \in 1..n : \A x \in P[i-1] : G[x] \in P[i] /\ G[x] = CopyTurn(x)
    <3> SUFFICES ASSUME NEW i \in 1..n, NEW x \in P[i-1] PROVE G[x] \in P[i] /\ G[x] = CopyTurn(x)
      OBVIOUS
    <3>1. i-1 \in 0..n
      OBVIOUS
    <3>2. x \in D
      BY <3>1
    <3> QED BY <1>5, <3>2
  <2> HIDE DEF P, G
  <2>2. PICK f : IsLoop(n, a, G, f) /\ \A i \in 0..n : f[i] \in P[i]
    <3>1. \A i \in 1..n : \A x \in P[i-1] : G[x] \in P[i]
      BY <2>1
    <3> QED BY <1>4, <3>1, LoopExists
  <2>3. \A i \in 0..n : (IF i = 0 THEN a ELSE G[f[i-1]]) = (IF i = 0 THEN a ELSE CopyTurn(f[i-1]))
    <3> SUFFICES ASSUME NEW i \in 0..n, i # 0 PROVE G[f[i-1]] = CopyTurn(f[i-1])
      OBVIOUS
    <3>1. i \in 1..n /\ i-1 \in 0..n
      OBVIOUS
    <3> QED BY <2>1, <2>2, <3>1
  <2> QED BY <2>2, <2>3 DEF IsLoop
<1>7. PICK g : g = body(g) /\ Copied(h, marker, n) = g[n].heap
  BY <1>6 DEF Copied, CopyTurn, a
<1>8. g[n] \in P[n]
  <2> DEFINE S == {i \in 0..n : g[i] \in P[i]}
  <2>1. g[0] = a /\ \A i \in 1..n : g[i] = CopyTurn(g[i-1])
    BY <1>7
  <2> HIDE DEF P
  <2>2. 0 \in S
    BY <1>4, <2>1
  <2>3. ASSUME NEW i \in 0..n-1, i \in S PROVE i+1 \in S
    <3>1. i+1 \in 1..n /\ (i+1)-1 = i /\ i+1 \in 0..n
      OBVIOUS
    <3>2. g[i] \in P[(i+1)-1]
      BY <2>3, <3>1
    <3> QED BY <1>5, <2>1, <3>1, <3>2
  <2> HIDE DEF S
  <2>4. \A i \in 0..n : i \in S
    BY <2>2, <2>3, InductionUpto
  <2>5. n \in S
    BY <2>4
  <2> QED BY <2>5 DEF S
<1>9. PICK t : Copying(h, c, b, n, g[n], t)
  <2> HIDE DEF D
  <2> QED BY <1>8
<1>10. CopyMade(h, c, b, n, g[n].heap, t)
  BY <1>9 DEF Copying, CopyMade
<1> QED BY <1>7, <1>10 DEF b

-----------------------------------------------------------------------------
(* The uses in memory.c *)

(* A key is found at its position, or there is none. *)
LEMMA Lookup ==
    ASSUME NEW h, NEW c, Holds(h, c), NEW d \in Dictionaries, NEW k
    PROVE  /\ AfterSearch(h, d, k) = h
           /\ \/ \E i \in 1..Len(c[d]) : /\ h.node[c[d][i]].key = k
                                         /\ Search(h, d, k) = c[d][i] /\ c[d][i] # NULL
              \/ (\A i \in 1..Len(c[d]) : h.node[c[d][i]].key # k) /\ Search(h, d, k) = NULL
<1>1. CASE \E i \in 1..Len(c[d]) : h.node[c[d][i]].key = k
  <2>1. PICK i \in 1..Len(c[d]) : h.node[c[d][i]].key = k
    BY <1>1
  <2>2. Search(h, d, k) = c[d][i] /\ AfterSearch(h, d, k) = h
    BY <2>1, SearchHit
  <2>3. c[d][i] # NULL
    BY Facts
  <2> QED BY <2>1, <2>2, <2>3
<1>2. CASE \A i \in 1..Len(c[d]) : h.node[c[d][i]].key # k
  BY <1>2, SearchMiss
<1> QED BY <1>1, <1>2

(* A dictionary without entries has no ends. *)
LEMMA EmptyIs ==
    ASSUME NEW h, NEW c, Holds(h, c), NEW d \in Dictionaries, Len(c[d]) = 0
    PROVE  [h EXCEPT !.dict[d] = EmptyDictionary] = h
<1>1. /\ h \in Heaps /\ h.dict[d].length = Len(c[d])
      /\ h.dict[d].first = After(c[d], 0) /\ h.dict[d].last = Prior(c[d], Len(c[d]) + 1)
  BY Facts
<1>2. h.dict[d] \in [first : Pointers, last : Pointers, length : Nat]
  BY <1>1 DEF Heaps
<1>3. h.dict[d].length = 0 /\ h.dict[d].first = NULL /\ h.dict[d].last = NULL
  BY <1>1 DEF After, Prior
<1>4. h.dict[d] = EmptyDictionary
  BY <1>2, <1>3 DEF EmptyDictionary
<1>5. [h.dict EXCEPT ![d] = EmptyDictionary] = h.dict
  BY <1>1, <1>4 DEF Heaps
<1>6. [h EXCEPT !.dict = h.dict] = h
  BY <1>1 DEF Heaps
<1> QED BY <1>5, <1>6

(* Freeing a dictionary whose length is 0 frees all of it. *)
LEMMA FreeIfEmptyIs ==
    ASSUME NEW h, NEW c, Holds(h, c)
    PROVE  FreeIfEmpty(h) = h
<1>1. "self" \in Dictionaries
  BY DEF Dictionaries
<1>2. h.dict["self"].length = Len(c["self"])
  BY <1>1, Facts
<1> QED BY <1>1, <1>2, EmptyIs DEF FreeIfEmpty

(* An entry gets other data. *)
Replaced(h, c, i, x, g) ==
    LET s == c["self"]
    IN  /\ Holds(g, c)
        /\ Entries(g, s) = [j \in 1..Len(s) |->
                              IF j = i THEN [key |-> h.node[s[i]].key, data |-> x] ELSE Entries(h, s)[j]]

LEMMA ReplaceHolds ==
    ASSUME NEW h, NEW c, Holds(h, c), NEW i \in 1..Len(c["self"]), NEW x \in Data,
           NEW g, g = [h EXCEPT !.node[c["self"][i]].data = x]
    PROVE  Replaced(h, c, i, x, g)
<1> DEFINE s == c["self"]
           p == s[i]
           new == [h.node EXCEPT ![p] = [h.node[p] EXCEPT !.data = x]]
<1>1. h \in Heaps /\ c \in [Dictionaries -> Seq(Addresses)] /\ "self" \in Dictionaries
  BY DEF Holds, Dictionaries
<1>2. /\ h.node \in [Addresses -> Node] /\ h.live \subseteq Addresses
      /\ h.dict \in [Dictionaries -> [first : Pointers, last : Pointers, length : Nat]]
      /\ h.ok = TRUE
  BY <1>1 DEF Heaps
<1>3. p \in Addresses /\ h.node[p] \in Node
  BY <1>1, <1>2
<1>4. [h.node[p] EXCEPT !.data = x] \in Node
  BY <1>3 DEF Node
<1>5. g.node = new /\ g.live = h.live /\ g.dict = h.dict /\ g.ok = TRUE
  BY <1>1, <1>2 DEF Heaps
<1>6. g = [node |-> g.node, live |-> g.live, dict |-> g.dict, ok |-> g.ok]
  BY <1>1 DEF Heaps
<1> HIDE DEF p
<1>7. new \in [Addresses -> Node]
  BY <1>2, <1>3, <1>4
<1>8. \A q \in Addresses : /\ new[q].key = h.node[q].key
                           /\ new[q].next = h.node[q].next
                           /\ new[q].previous = h.node[q].previous
                           /\ new[q].data = IF q = p THEN x ELSE h.node[q].data
  <2> SUFFICES ASSUME NEW q \in Addresses
               PROVE  /\ new[q].key = h.node[q].key /\ new[q].next = h.node[q].next
                      /\ new[q].previous = h.node[q].previous
                      /\ new[q].data = IF q = p THEN x ELSE h.node[q].data
    OBVIOUS
  <2>1. h.node[q] \in Node
    BY <1>2
  <2> QED BY <1>2, <2>1 DEF Node
<1> HIDE DEF new
<1>9. g \in Heaps
  BY <1>2, <1>5, <1>6, <1>7 DEF Heaps
<1>10. \A e \in Dictionaries : IsChain(g, e, c[e]) /\ HasKeys(g, c[e])
  <2> SUFFICES ASSUME NEW e \in Dictionaries PROVE IsChain(g, e, c[e]) /\ HasKeys(g, c[e])
    OBVIOUS
  <2>1. /\ IsChain(h, e, c[e]) /\ HasKeys(h, c[e])
        /\ \A j \in 1..Len(c[e]) : c[e][j] \in Addresses
    BY Facts
  <2>2. IsChain(g, e, c[e])
    BY <1>5, <1>8, <2>1 DEF IsChain
  <2>3. HasKeys(g, c[e])
    <3>1. \A j \in 1..Len(c[e]) : g.node[c[e][j]].key = h.node[c[e][j]].key
      BY <1>5, <1>8, <2>1
    <3> QED BY <2>1, <3>1 DEF HasKeys
  <2> QED BY <2>2, <2>3
<1>11. Holds(g, c)
  <2>1. /\ \A d, e \in Dictionaries : \A m \in 1..Len(c[d]), j \in 1..Len(c[e]) :
              c[d][m] = c[e][j] => d = e /\ m = j
        /\ \A q \in h.live : \E d \in Dictionaries : \E m \in 1..Len(c[d]) : q = c[d][m]
    BY DEF Holds
  <2> QED BY <1>1, <1>5, <1>9, <1>10, <2>1 DEF Holds
<1>12. \A j \in 1..Len(s) : s[j] \in Addresses /\ (s[j] = p <=> j = i)
  <2>1. \A j, m \in 1..Len(s) : s[j] = s[m] => j = m
    BY <1>1, Facts
  <2> QED BY <1>1, <2>1 DEF p
<1>13. \A j \in 1..Len(s) : [key |-> g.node[s[j]].key, data |-> g.node[s[j]].data]
                              = IF j = i THEN [key |-> h.node[p].key, data |-> x] ELSE Entries(h, s)[j]
  <2> SUFFICES ASSUME NEW j \in 1..Len(s)
               PROVE  [key |-> g.node[s[j]].key, data |-> g.node[s[j]].data]
                        = IF j = i THEN [key |-> h.node[p].key, data |-> x] ELSE Entries(h, s)[j]
    OBVIOUS
  <2>1. s[j] \in Addresses /\ (s[j] = p <=> j = i)
    BY <1>12
  <2>2. /\ new[s[j]].key = h.node[s[j]].key
        /\ new[s[j]].data = IF s[j] = p THEN x ELSE h.node[s[j]].data
    BY <1>8, <2>1
  <2>3. /\ g.node[s[j]].key = h.node[s[j]].key
        /\ g.node[s[j]].data = IF j = i THEN x ELSE h.node[s[j]].data
        /\ j = i => s[j] = p
    <3> HIDE DEF s
    <3>1. g.node = new
      BY <1>5
    <3> QED BY <2>1, <2>2, <3>1
  <2>4. Entries(h, s)[j] = [key |-> h.node[s[j]].key, data |-> h.node[s[j]].data]
    BY DEF Entries
  <2> HIDE DEF s
  <2> QED BY <2>3, <2>4
<1> QED BY <1>11, <1>13 DEF Entries, p, Replaced

-----------------------------------------------------------------------------
(* The invariant *)

(***************************************************************************)
(* The heap is the two chains c; a walk has l entries of the iterator      *)
(* before it, the first of them at p; these are entries of the dictionary; *)
(* and without a walk there is no iterator.                                *)
(***************************************************************************)
Walk(h, w, p, l, c) ==
    LET copy == c["iterator"]
    IN  /\ Holds(h, c)
        /\ w \in BOOLEAN
        /\ ~w => copy = <<>>
        /\ l \in 0..Len(copy) /\ p = After(copy, Len(copy) - l)
        /\ \A i \in 1..Len(copy) :
              i > Len(copy) - l => Entries(h, copy)[i] \in Elements(Entries(h, c["self"]))

Walks(c) == Walk(heap, walking, item, left, c)
WalksNext(c) == Walk(heap', walking', item', left', c)

(* e has an entry for k. *)
HasKey(e, k) == \E i \in 1..Len(e) : e[i].key = k

(* e tells what is in the nodes of s. *)
Mirrors(h, s, e) ==
    /\ Len(e) = Len(s) /\ DOMAIN e = 1..Len(s)
    /\ \A i \in 1..Len(s) : e[i].key = h.node[s[i]].key /\ e[i].data = h.node[s[i]].data
    /\ e \in Seq({e[i] : i \in 1..Len(s)})

LEMMA EntriesIs ==
    ASSUME NEW h, NEW s, Len(s) \in Nat
    PROVE  Mirrors(h, s, Entries(h, s))
<1> DEFINE e == Entries(h, s)
           n == Len(s)
<1>1. e = [i \in 1..n |-> e[i]] /\ DOMAIN e = 1..n
  BY DEF Entries
<1>2. \A i \in 1..n : e[i].key = h.node[s[i]].key /\ e[i].data = h.node[s[i]].data
  BY DEF Entries
<1> HIDE DEF e, n
<1>3. e \in Seq({e[i] : i \in 1..n}) /\ Len(e) = n
  <2>1. n \in Nat
    BY DEF n
  <2> QED BY <1>1, <2>1
<1> QED BY <1>1, <1>2, <1>3 DEF e, n, Mirrors

(* A key that is not in the chain is not in the entries. *)
LEMMA NoKey ==
    ASSUME NEW h, NEW s, Len(s) \in Nat, NEW k,
           \A i \in 1..Len(s) : h.node[s[i]].key # k
    PROVE  ~HasKey(Entries(h, s), k)
<1>1. Mirrors(h, s, Entries(h, s))
  BY EntriesIs
<1> QED BY <1>1 DEF Mirrors, HasKey

(* Between walks. *)
LEMMA IdleIs ==
    ASSUME NEW h, NEW w, ~w, NEW p, NEW l, NEW c, Walk(h, w, p, l, c)
    PROVE  Holds(h, c) /\ c["iterator"] = <<>> /\ p = NULL /\ l = 0
<1>1. /\ Holds(h, c) /\ c["iterator"] = <<>> /\ l \in 0..Len(c["iterator"])
      /\ p = After(c["iterator"], Len(c["iterator"]) - l)
  BY DEF Walk
<1>2. l = 0
  BY <1>1
<1> QED BY <1>1, <1>2 DEF After

LEMMA IdleWalk ==
    ASSUME NEW h, NEW w \in BOOLEAN, NEW c, Holds(h, c), c["iterator"] = <<>>
    PROVE  Walk(h, w, NULL, 0, c)
<1>1. Len(c["iterator"]) = 0
  OBVIOUS
<1>2. 0 \in 0..Len(c["iterator"]) /\ NULL = After(c["iterator"], Len(c["iterator"]) - 0)
  BY <1>1 DEF After
<1> QED BY <1>1, <1>2 DEF Walk

(* k is put at the end of e. *)
Inserted(e, f, k, x) == ~HasKey(e, k) /\ f = Append(e, [key |-> k, data |-> x])

(* Adding an entry between walks. *)
LEMMA InsertStep ==
    ASSUME NEW h, NEW c, Holds(h, c), c["iterator"] = <<>>,
           NEW k \in Keys, NEW x \in Data \cup {NULL}, Search(h, "self", k) = NULL
    PROVE  \E b : /\ Holds(Add(h, "self", k, x), b) /\ b["iterator"] = <<>>
                  /\ Inserted(Entries(h, c["self"]), Entries(Add(h, "self", k, x), b["self"]), k, x)
<1> DEFINE g == Add(h, "self", k, x)
           s == Append(c["self"], NewNode(h))
           b == [c EXCEPT !["self"] = s]
<1>1. /\ c \in [Dictionaries -> Seq(Addresses)] /\ "iterator" \in Dictionaries /\ "self" \in Dictionaries
      /\ "self" # "iterator"
  BY DEF Holds, Dictionaries
<1>2. \A i \in 1..Len(c["self"]) : h.node[c["self"][i]].key # k
  BY <1>1, Lookup
<1>3. Addresses \ h.live # {}
  BY <1>1, <1>2, RoomForKey
<1>4. Added(h, c, "self", k, x)
  BY <1>1, <1>2, <1>3, AddHolds
<1>5. /\ Holds(g, b)
      /\ Entries(g, s) = Append(Entries(h, c["self"]), [key |-> k, data |-> x])
  BY <1>4 DEF Added
<1>6. b["iterator"] = <<>> /\ b["self"] = s
  BY <1>1
<1>7. ~HasKey(Entries(h, c["self"]), k)
  <2>1. Len(c["self"]) \in Nat
    BY <1>1
  <2> QED BY <1>2, <2>1, NoKey
<1> HIDE DEF b, g, s
<1>8. Inserted(Entries(h, c["self"]), Entries(g, b["self"]), k, x)
  BY <1>5, <1>6, <1>7 DEF Inserted
<1> QED BY <1>5, <1>6, <1>8 DEF g

(* create_message replaces the data of an entry, or adds one. *)
PutEntries(e, f, k, d) ==
    \/ /\ call' = Call("put", k, d, TRUE)
       /\ \/ Inserted(e, f, k, d)
          \/ /\ HasKey(e, k)
             /\ f = [i \in DOMAIN e |-> IF e[i].key = k THEN [key |-> k, data |-> d] ELSE e[i]]
    \/ call' = Call("put", k, d, FALSE) /\ ~HasKey(e, k) /\ f = e

LEMMA PutStep ==
    ASSUME NEW c, Walks(c), NEW k \in Keys, NEW d \in Data, PutMessage(k, d)
    PROVE  /\ ~walking /\ ~walking'
           /\ \E b : /\ WalksNext(b)
                     /\ PutEntries(Entries(heap, c["self"]), Entries(heap', b["self"]), k, d)
<1> DEFINE s == c["self"]
           p == Search(heap, "self", k)
           E == Entries(heap, s)
<1>1. walking = FALSE /\ walking' = walking /\ item' = item /\ left' = left
  BY DEF PutMessage, Walks, Walk
<1>2. Holds(heap, c) /\ c["iterator"] = <<>> /\ item = NULL /\ left = 0
  BY <1>1, IdleIs DEF Walks
<1>3. "self" \in Dictionaries
  BY DEF Dictionaries
<1>4. /\ AfterSearch(heap, "self", k) = heap
      /\ \/ \E i \in 1..Len(s) : heap.node[s[i]].key = k /\ p = s[i] /\ s[i] # NULL
         \/ (\A i \in 1..Len(s) : heap.node[s[i]].key # k) /\ p = NULL
  BY <1>2, <1>3, Lookup
<1>5. \A b : Holds(heap', b) /\ b["iterator"] = <<>> => WalksNext(b)
  BY <1>1, <1>2, IdleWalk DEF WalksNext
<1>6. heap \in Heaps
  BY <1>2 DEF Holds
<1> HIDE DEF p
<1>7. CASE call' = Call("put", k, d, TRUE) /\ p # NULL /\ heap' = [Reading(heap, {p}) EXCEPT !.node[p].data = d]
  <2>1. PICK i \in 1..Len(s) : heap.node[s[i]].key = k /\ p = s[i]
    BY <1>4, <1>7
  <2>2. Len(s) \in Nat /\ s[i] \in heap.live /\ \A j \in 1..Len(s) : heap.node[s[j]].key = k => j = i
    <3>1. /\ Len(s) \in Nat /\ \A j \in 1..Len(s) : s[j] \in heap.live
          /\ \A j, m \in 1..Len(s) : heap.node[s[j]].key = heap.node[s[m]].key => j = m
      BY <1>2, <1>3, Facts
    <3> QED BY <2>1, <3>1
  <2>3. heap' = [heap EXCEPT !.node[s[i]].data = d]
    <3>1. Reading(heap, {p}) = heap
      BY <1>6, <2>1, <2>2, ReadingLive
    <3> QED BY <1>7, <2>1, <3>1
  <2>4. /\ Holds(heap', c)
        /\ Entries(heap', s) = [j \in 1..Len(s) |-> IF j = i THEN [key |-> k, data |-> d] ELSE E[j]]
    <3>1. Replaced(heap, c, i, d, heap')
      BY <1>2, <2>3, ReplaceHolds
    <3> QED BY <2>1, <3>1 DEF Replaced
  <2>5. Len(E) = Len(s) /\ DOMAIN E = 1..Len(s) /\ \A j \in 1..Len(s) : E[j].key = heap.node[s[j]].key
    <3>1. Mirrors(heap, s, E)
      BY <2>2, EntriesIs
    <3> QED BY <3>1 DEF Mirrors
  <2> HIDE DEF E, s
  <2>6. \A j \in 1..Len(s) : E[j].key = k <=> j = i
    BY <2>1, <2>2, <2>5
  <2>7. HasKey(E, k)
    BY <2>5, <2>6 DEF HasKey
  <2>8. Entries(heap', s) = [j \in DOMAIN E |-> IF E[j].key = k THEN [key |-> k, data |-> d] ELSE E[j]]
    BY <2>4, <2>5, <2>6
  <2>9. PutEntries(E, Entries(heap', s), k, d)
    BY <1>7, <2>7, <2>8 DEF PutEntries
  <2> QED BY <1>1, <1>2, <1>5, <2>4, <2>9 DEF E, s
<1>8. CASE call' = Call("put", k, d, TRUE) /\ p = NULL /\ heap' = Add(heap, "self", k, d)
  <2>1. PICK b : Holds(heap', b) /\ b["iterator"] = <<>> /\ Inserted(E, Entries(heap', b["self"]), k, d)
    BY <1>2, <1>8, InsertStep DEF p
  <2>2. PutEntries(E, Entries(heap', b["self"]), k, d)
    BY <1>8, <2>1 DEF PutEntries
  <2> QED BY <1>1, <1>5, <2>1, <2>2
<1>9. CASE p = NULL /\ call' = Call("put", k, d, FALSE) /\ heap' = FreeIfEmpty(heap)
  <2>1. heap' = heap
    BY <1>2, <1>9, FreeIfEmptyIs
  <2>2. ~HasKey(E, k)
    <3>1. Len(s) \in Nat /\ \A i \in 1..Len(s) : heap.node[s[i]].key # k
      BY <1>2, <1>3, <1>4, <1>9 DEF Holds
    <3> QED BY <3>1, NoKey
  <2> HIDE DEF E
  <2>3. E = Entries(heap', s)
    BY <2>1 DEF E
  <2>4. PutEntries(E, Entries(heap', s), k, d)
    BY <1>9, <2>2, <2>3 DEF PutEntries
  <2>5. WalksNext(c)
    BY <1>2, <1>5, <2>1
  <2> QED BY <1>1, <2>4, <2>5 DEF E
<1> QED BY <1>4, <1>7, <1>8, <1>9 DEF PutMessage, p

(* dictionary_get(CREATE) finds an entry, or adds one, perhaps without data. *)
GetEntries(e, f, k, d) ==
    \/ call' = Call("get", k, d, TRUE) /\ (Inserted(e, f, k, d) \/ (HasKey(e, k) /\ f = e))
    \/ call' = Call("get", k, d, FALSE) /\ ~HasKey(e, k) /\ (Inserted(e, f, k, NULL) \/ f = e)

LEMMA GetStep ==
    ASSUME NEW c, Walks(c), NEW k \in Keys, NEW d \in Data, GetOrCreate(k, d)
    PROVE  /\ ~walking /\ ~walking'
           /\ \E b : /\ WalksNext(b)
                     /\ GetEntries(Entries(heap, c["self"]), Entries(heap', b["self"]), k, d)
<1> DEFINE s == c["self"]
           p == Search(heap, "self", k)
           E == Entries(heap, s)
           good == call' = Call("get", k, d, TRUE)
           bad == call' = Call("get", k, d, FALSE)
<1>1. walking = FALSE /\ walking' = walking /\ item' = item /\ left' = left
  BY DEF GetOrCreate, Walks, Walk
<1>2. Holds(heap, c) /\ c["iterator"] = <<>> /\ item = NULL /\ left = 0
  BY <1>1, IdleIs DEF Walks
<1>3. "self" \in Dictionaries /\ Len(s) \in Nat
  BY <1>2 DEF Dictionaries, Holds
<1>4. /\ AfterSearch(heap, "self", k) = heap
      /\ \/ \E i \in 1..Len(s) : heap.node[s[i]].key = k /\ p = s[i] /\ s[i] # NULL
         \/ (\A i \in 1..Len(s) : heap.node[s[i]].key # k) /\ p = NULL
  BY <1>2, <1>3, Lookup
<1>5. \A b : Holds(heap', b) /\ b["iterator"] = <<>> => WalksNext(b)
  BY <1>1, <1>2, IdleWalk DEF WalksNext
<1> HIDE DEF p
<1>6. p # NULL => HasKey(E, k)
  <2>1. Mirrors(heap, s, E)
    BY <1>3, EntriesIs
  <2> HIDE DEF E, s
  <2> QED BY <1>4, <2>1 DEF Mirrors, HasKey
<1>7. p = NULL => ~HasKey(E, k)
  <2>1. p = NULL => \A i \in 1..Len(s) : heap.node[s[i]].key # k
    BY <1>4
  <2> QED BY <1>3, <2>1, NoKey
<1>8. ASSUME heap' = heap,
             (good /\ p # NULL) \/ (bad /\ p = NULL)
      PROVE  WalksNext(c) /\ GetEntries(E, Entries(heap', s), k, d)
  <2>1. WalksNext(c)
    BY <1>2, <1>5, <1>8
  <2> HIDE DEF E
  <2>2. E = Entries(heap', s)
    BY <1>8 DEF E
  <2> QED BY <1>6, <1>7, <1>8, <2>1, <2>2 DEF GetEntries
<1>9. ASSUME NEW x \in Data \cup {NULL}, p = NULL, heap' = Add(heap, "self", k, x),
             (good /\ x = d) \/ (bad /\ x = NULL)
      PROVE  \E b : WalksNext(b) /\ GetEntries(E, Entries(heap', b["self"]), k, d)
  <2>1. PICK b : Holds(heap', b) /\ b["iterator"] = <<>> /\ Inserted(E, Entries(heap', b["self"]), k, x)
    BY <1>2, <1>9, InsertStep DEF p
  <2>2. GetEntries(E, Entries(heap', b["self"]), k, d)
    BY <1>7, <1>9, <2>1 DEF GetEntries
  <2> QED BY <1>5, <2>1, <2>2
<1>10. \/ good /\ heap' = IF p # NULL THEN heap ELSE Add(heap, "self", k, d)
       \/ p = NULL /\ bad /\ heap' \in {heap, Add(heap, "self", k, NULL)}
  BY <1>4 DEF GetOrCreate, p
<1> HIDE DEF E, s, good, bad
<1>11. \E b : WalksNext(b) /\ GetEntries(E, Entries(heap', b["self"]), k, d)
  <2>1. CASE good /\ p # NULL /\ heap' = heap
    <3>1. WalksNext(c) /\ GetEntries(E, Entries(heap', c["self"]), k, d)
      BY <1>8, <2>1 DEF s
    <3> QED BY <3>1
  <2>2. CASE good /\ p = NULL /\ heap' = Add(heap, "self", k, d)
    BY <1>9, <2>2
  <2>3. CASE p = NULL /\ bad /\ heap' = heap
    <3>1. WalksNext(c) /\ GetEntries(E, Entries(heap', c["self"]), k, d)
      BY <1>8, <2>3 DEF s
    <3> QED BY <3>1
  <2>4. CASE p = NULL /\ bad /\ heap' = Add(heap, "self", k, NULL)
    BY <1>9, <2>4
  <2> QED BY <1>10, <2>1, <2>2, <2>3, <2>4
<1> QED BY <1>1, <1>11 DEF E, s

(* The first j elements of s, without the one at position i. *)
Cut(s, i, j) == [m \in 1..(IF j < i THEN j ELSE j-1) |-> IF m < i THEN s[m] ELSE s[m+1]]

(* Keeping all but one element is taking that one out. *)
LEMMA KeptAllBut ==
    ASSUME NEW A, NEW s \in Seq(A), NEW S, NEW i \in 1..Len(s)+1,
           \A j \in 1..Len(s) : s[j] \in S <=> j # i
    PROVE  Kept(s, S) = Cut(s, i, Len(s))
<1> DEFINE n == Len(s)
           f == KeptUpto(s, S)
           H == {j \in 0..n : f[j] = Cut(s, i, j)}
<1>1. /\ f[0] = <<>>
      /\ \A j \in 1..n : f[j] = IF s[j] \in S THEN Append(f[j-1], s[j]) ELSE f[j-1]
  BY KeptUptoDefined DEF KeptStep
<1>2. n \in Nat /\ \A j \in 1..n : s[j] \in A
  OBVIOUS
<1> HIDE DEF f, n
<1>3. i \in 1..n+1 /\ \A j \in 1..n : s[j] \in S <=> j # i
  BY DEF n
<1>4. 0 \in H
  <2>1. Cut(s, i, 0) = <<>>
    BY <1>2, <1>3 DEF Cut
  <2> QED BY <1>1, <1>2, <2>1
<1>5. ASSUME NEW j \in 0..n-1, j \in H PROVE j+1 \in H
  <2>1. j+1 \in 1..n /\ (j+1)-1 = j /\ j \in Nat /\ i \in Nat /\ j+1 \in 0..n
    BY <1>2, <1>3
  <2>2. f[j] = Cut(s, i, j)
    BY <1>5
  <2>3. CASE j+1 = i
    <3>1. f[j+1] = f[j]
      BY <1>1, <1>3, <2>1, <2>3
    <3>2. (IF j < i THEN j ELSE j-1) = j /\ (IF j+1 < i THEN j+1 ELSE (j+1)-1) = j
      BY <2>1, <2>3
    <3>3. Cut(s, i, j+1) = Cut(s, i, j)
      BY <3>2 DEF Cut
    <3> QED BY <2>1, <2>2, <3>1, <3>3
  <2>4. CASE j+1 # i
    <3> DEFINE m == IF j < i THEN j ELSE j-1
               p == Cut(s, i, j)
               w == Append(p, s[j+1])
    <3>1. f[j+1] = w
      BY <1>1, <1>3, <2>1, <2>2, <2>4
    <3>2. m \in Nat /\ (IF j+1 < i THEN j+1 ELSE (j+1)-1) = m+1
      BY <1>3, <2>1, <2>4
    <3>3. p = [q \in 1..m |-> IF q < i THEN s[q] ELSE s[q+1]]
      BY DEF Cut
    <3>4. \A q \in 1..m : (IF q < i THEN s[q] ELSE s[q+1]) \in A
      <4> SUFFICES ASSUME NEW q \in 1..m PROVE (IF q < i THEN s[q] ELSE s[q+1]) \in A
        OBVIOUS
      <4>1. q \in 1..n /\ q+1 \in 1..n
        BY <1>2, <2>1
      <4> QED BY <1>2, <4>1
    <3>5. (IF m+1 < i THEN s[m+1] ELSE s[(m+1)+1]) = s[j+1]
      <4>1. CASE j < i
        <5>1. m = j /\ m+1 < i
          BY <2>1, <2>4, <4>1
        <5> QED BY <5>1
      <4>2. CASE ~(j < i)
        <5>1. (m+1)+1 = j+1 /\ ~(m+1 < i)
          BY <2>1, <4>2
        <5> QED BY <5>1
      <4> QED BY <4>1, <4>2
    <3> HIDE DEF m, p
    <3>6. p \in Seq(A) /\ Len(p) = m
      <4>1. p \in [1..m -> A]
        BY <3>3, <3>4
      <4> QED BY <3>2, <4>1
    <3>7. s[j+1] \in A
      BY <1>2, <2>1
    <3>8. /\ w = [q \in 1..m+1 |-> w[q]]
          /\ w[m+1] = s[j+1] /\ \A q \in 1..m : w[q] = p[q]
      BY <3>2, <3>6, <3>7
    <3> HIDE DEF w
    <3>9. \A q \in 1..m+1 : w[q] = IF q < i THEN s[q] ELSE s[q+1]
      <4> SUFFICES ASSUME NEW q \in 1..m+1 PROVE w[q] = IF q < i THEN s[q] ELSE s[q+1]
        OBVIOUS
      <4>1. CASE q = m+1
        BY <3>5, <3>8, <4>1
      <4>2. CASE q \in 1..m
        BY <3>3, <3>8, <4>2
      <4> QED BY <3>2, <4>1, <4>2
    <3>10. w = Cut(s, i, j+1)
      BY <3>2, <3>8, <3>9 DEF Cut
    <3> QED BY <2>1, <3>1, <3>10
  <2> QED BY <2>3, <2>4
<1>6. n \in H
  <2> HIDE DEF H
  <2>1. \A j \in 0..n : j \in H
    BY <1>2, <1>4, <1>5, InductionUpto
  <2> QED BY <1>2, <2>1
<1> QED BY <1>6 DEF f, n, Kept

(* The entries of e but that for k. *)
RemovedEntries(e, k) == Kept(e, {x \in Elements(e) : x.key # k})

(* g is h without the entry for k; the iterator is what it was. *)
Removed(h, c, k, g, b) ==
    /\ Holds(g, b) /\ b["iterator"] = c["iterator"]
    /\ Entries(g, c["iterator"]) = Entries(h, c["iterator"])
    /\ Entries(g, b["self"]) = RemovedEntries(Entries(h, c["self"]), k)

LEMMA RemoveHolds ==
    ASSUME NEW h, NEW c, Holds(h, c), NEW k
    PROVE  \E b : Removed(h, c, k, DeleteNode(h, "self", k), b)
<1> DEFINE s == c["self"]
           n == Len(s)
           E == Entries(h, s)
           A == {E[j] : j \in 1..n}
           S == {x \in Elements(E) : x.key # k}
           g == DeleteNode(h, "self", k)
           p == Search(h, "self", k)
<1>1. /\ c \in [Dictionaries -> Seq(Addresses)] /\ "iterator" \in Dictionaries /\ "self" \in Dictionaries
      /\ "self" # "iterator"
  BY DEF Holds, Dictionaries
<1>2. n \in Nat
  BY <1>1
<1>3. /\ Len(E) = n /\ DOMAIN E = 1..n /\ E \in Seq(A)
      /\ \A j \in 1..n : E[j].key = h.node[s[j]].key
  <2>1. Mirrors(h, s, E)
    BY <1>2, EntriesIs
  <2> QED BY <2>1 DEF Mirrors
<1>4. (\A i \in 1..n : h.node[s[i]].key # k) => AfterSearch(h, "self", k) = h /\ p = NULL
  BY <1>1, SearchMiss
<1>5. \A j, m \in 1..n : h.node[s[j]].key = h.node[s[m]].key => j = m
  BY <1>1, Facts
<1> HIDE DEF E, A, n
<1>6. \A j \in 1..n : E[j] \in S <=> h.node[s[j]].key # k
  BY <1>3 DEF Elements
<1> HIDE DEF S, s
<1>7. CASE \E i \in 1..n : h.node[s[i]].key = k
  <2>1. PICK i \in 1..n : h.node[s[i]].key = k
    BY <1>7
  <2> DEFINE u == Without(s, i)
             b == [c EXCEPT !["self"] = u]
  <2>2. /\ Holds(g, b)
        /\ Entries(g, u) = Without(E, i)
        /\ Entries(g, c["iterator"]) = Entries(h, c["iterator"])
    <3>1. i \in 1..Len(c["self"]) /\ k = h.node[c["self"][i]].key
      BY <2>1 DEF s, n
    <3>2. /\ Holds(g, [c EXCEPT !["self"] = Without(c["self"], i)])
          /\ Entries(g, Without(c["self"], i)) = Without(Entries(h, c["self"]), i)
          /\ \A e \in Dictionaries \ {"self"} : Entries(g, c[e]) = Entries(h, c[e])
      <4>1. Deleted(h, c, "self", i, k)
        BY <1>1, <3>1, DeleteHolds
      <4> QED BY <4>1 DEF Deleted
    <3> HIDE DEF g
    <3> QED BY <1>1, <3>2 DEF s, E
  <2>3. b["self"] = u /\ b["iterator"] = c["iterator"]
    BY <1>1
  <2>4. Kept(E, S) = Without(E, i)
    <3>1. \A j \in 1..Len(E) : E[j] \in S <=> j # i
      BY <1>3, <1>5, <1>6, <2>1
    <3>2. i \in 1..Len(E)+1
      BY <1>2, <1>3
    <3>3. Kept(E, S) = Cut(E, i, Len(E))
      BY <1>3, <3>1, <3>2, KeptAllBut
    <3>4. (IF n < i THEN n ELSE n-1) = n-1
      BY <1>2
    <3> QED BY <1>3, <3>3, <3>4 DEF Cut, Without
  <2> HIDE DEF b, g, u
  <2>5. Removed(h, c, k, g, b)
    BY <2>2, <2>3, <2>4 DEF Removed, RemovedEntries, S, E, s
  <2> QED BY <2>5 DEF g
<1>8. CASE \A i \in 1..n : h.node[s[i]].key # k
  <2>1. AfterSearch(h, "self", k) = h /\ p = NULL
    BY <1>4, <1>8
  <2>2. g = h
    BY <2>1 DEF DeleteNode
  <2>3. Kept(E, S) = E
    <3>1. \A j \in 1..Len(E) : E[j] \in S <=> j # n+1
      BY <1>2, <1>3, <1>6, <1>8
    <3>2. n+1 \in 1..Len(E)+1
      BY <1>2, <1>3
    <3>3. Kept(E, S) = Cut(E, n+1, Len(E))
      BY <1>3, <3>1, <3>2, KeptAllBut
    <3>4. (IF n < n+1 THEN n ELSE n-1) = n /\ \A m \in 1..n : m < n+1
      BY <1>2
    <3>5. E = [m \in 1..n |-> E[m]]
      BY <1>3
    <3> QED BY <1>3, <3>3, <3>4, <3>5 DEF Cut
  <2> HIDE DEF g
  <2>4. Removed(h, c, k, g, c)
    BY <2>2, <2>3 DEF Removed, RemovedEntries, S, E, s
  <2> QED BY <2>4 DEF g
<1> QED BY <1>7, <1>8

(* Deleting by name. *)
LEMMA DeleteStep ==
    ASSUME NEW c, Walks(c), NEW k \in Keys, Delete(k)
    PROVE  /\ ~walking /\ ~walking' /\ call' = Call("remove", k, NULL, TRUE)
           /\ \E b : /\ WalksNext(b)
                     /\ Entries(heap', b["self"]) = RemovedEntries(Entries(heap, c["self"]), k)
<1>1. /\ walking = FALSE /\ walking' = walking /\ item' = item /\ left' = left
      /\ heap' = FreeIfEmpty(DeleteNode(heap, "self", k)) /\ call' = Call("remove", k, NULL, TRUE)
  BY DEF Delete, Walks, Walk
<1>2. Holds(heap, c) /\ c["iterator"] = <<>> /\ item = NULL /\ left = 0
  BY <1>1, IdleIs DEF Walks
<1>3. PICK b : Removed(heap, c, k, DeleteNode(heap, "self", k), b)
  BY <1>2, RemoveHolds
<1>4. heap' = DeleteNode(heap, "self", k)
  <2>1. Holds(DeleteNode(heap, "self", k), b)
    BY <1>3 DEF Removed
  <2> QED BY <1>1, <2>1, FreeIfEmptyIs
<1>5. /\ Holds(heap', b) /\ b["iterator"] = <<>>
      /\ Entries(heap', b["self"]) = RemovedEntries(Entries(heap, c["self"]), k)
  BY <1>2, <1>3, <1>4 DEF Removed
<1>6. WalksNext(b)
  BY <1>1, <1>2, <1>5, IdleWalk DEF WalksNext
<1> QED BY <1>1, <1>5, <1>6

(* One turn of a walk. *)
VisitEntries(e, f, k) ==
    \/ call' = Call("remove", k, NULL, TRUE) /\ f = RemovedEntries(e, k)
    \/ call' = Call("keep", k, NULL, TRUE) /\ f = e

LEMMA VisitStep ==
    ASSUME NEW c, Walks(c), NEW delete \in BOOLEAN, Visit(delete)
    PROVE  /\ walking /\ walking'
           /\ \E k \in Keys : \E b :
                /\ WalksNext(b)
                /\ b["iterator"] = c["iterator"]
                /\ Entries(heap', c["iterator"]) = Entries(heap, c["iterator"])
                /\ VisitEntries(Entries(heap, c["self"]), Entries(heap', b["self"]), k)
<1> DEFINE s == c["self"]
           t == c["iterator"]
           n == Len(t)
           E == Entries(heap, s)
           F == Entries(heap, t)
           i == n - left + 1
           k == heap.node[t[i]].key
<1>1. walking /\ walking' = walking /\ left > 0 /\ left' = left - 1
  BY DEF Visit
<1>2. /\ Holds(heap, c) /\ walking \in BOOLEAN /\ left \in 0..n /\ item = After(t, n - left)
      /\ \A j \in 1..n : j > n - left => F[j] \in Elements(E)
  BY DEF Walks, Walk
<1>3. /\ "iterator" \in Dictionaries /\ "self" \in Dictionaries
  BY DEF Dictionaries
<1>4. /\ heap \in Heaps /\ n \in Nat
      /\ \A j \in 1..n : t[j] \in heap.live
      /\ \A j \in 1..n : heap.node[t[j]].key \in Keys
      /\ \A j, m \in 1..n : heap.node[t[j]].key = heap.node[t[m]].key => j = m
      /\ \A j \in 1..n : heap.node[t[j]].next = After(t, j)
  BY <1>2, <1>3, Facts
<1>5. Len(s) \in Nat
  BY <1>2, <1>3, Facts
<1>6. /\ Len(F) = n /\ DOMAIN F = 1..n
      /\ \A j \in 1..n : F[j].key = heap.node[t[j]].key
  <2>1. Mirrors(heap, t, F)
    BY <1>4, EntriesIs
  <2> QED BY <2>1 DEF Mirrors
<1>7. E \in Seq({E[j] : j \in 1..Len(s)})
  <2>1. Mirrors(heap, s, E)
    BY <1>5, EntriesIs
  <2> QED BY <2>1 DEF Mirrors
<1> HIDE DEF n, E, F
<1>8. i \in 1..n /\ n - left # n /\ (n - left) + 1 = i /\ left \in Nat /\ n - (left - 1) = i
  BY <1>1, <1>2, <1>4
<1>9. item = t[i]
  BY <1>2, <1>8 DEF After, n
<1> HIDE DEF i
<1>10. k \in Keys /\ item \in heap.live /\ heap.node[item].next = After(t, i)
  BY <1>4, <1>8, <1>9
<1>11. /\ item' = After(t, i)
       /\ heap' = IF delete THEN DeleteNode(heap, "self", k) ELSE heap
       /\ call' = Call(IF delete THEN "remove" ELSE "keep", k, NULL, TRUE)
  <2>1. Reading(heap, {item}) = heap
    BY <1>4, <1>10, ReadingLive
  <2>2. At(heap, item) = heap.node[item]
    BY <1>10 DEF At
  <2> QED BY <1>9, <1>10, <2>1, <2>2 DEF Visit
<1> HIDE DEF k
<1>12. left' \in 0..n /\ item' = After(t, n - left') /\ \A j \in 1..n : j > n - left' => j > n - left /\ j # i
  <2>1. left' \in 0..n /\ n - left' = i
    BY <1>1, <1>2, <1>4, <1>8
  <2>2. \A j \in 1..n : j > i => j > n - left /\ j # i
    BY <1>4, <1>8
  <2> QED BY <1>11, <2>1, <2>2
<1>13. CASE delete
  <2>1. PICK b : Removed(heap, c, k, heap', b)
    BY <1>2, <1>11, <1>13, RemoveHolds
  <2>2. /\ Holds(heap', b) /\ b["iterator"] = t
        /\ Entries(heap', t) = F
        /\ Entries(heap', b["self"]) = RemovedEntries(E, k)
    BY <2>1 DEF Removed, t, E, F, s
  <2>3. ASSUME NEW j \in 1..n, j > n - left' PROVE F[j] \in Elements(RemovedEntries(E, k))
    <3>1. F[j] \in Elements(E)
      BY <1>2, <1>12, <2>3
    <3>2. F[j].key # k
      <4>1. heap.node[t[j]].key # heap.node[t[i]].key
        BY <1>4, <1>8, <1>12, <2>3
      <4> QED BY <1>6, <4>1 DEF k
    <3>3. Elements(RemovedEntries(E, k)) = Elements(E) \cap {x \in Elements(E) : x.key # k}
      BY <1>7, KeptElements DEF RemovedEntries
    <3> QED BY <3>1, <3>2, <3>3
  <2> HIDE DEF t
  <2>4. WalksNext(b)
    BY <1>1, <1>2, <1>12, <2>2, <2>3 DEF WalksNext, Walk, n
  <2>5. VisitEntries(E, Entries(heap', b["self"]), k)
    BY <1>11, <1>13, <2>2 DEF VisitEntries
  <2> QED BY <1>1, <1>10, <2>2, <2>4, <2>5 DEF E, F, s, t
<1>14. CASE ~delete
  <2>1. heap' = heap /\ call' = Call("keep", k, NULL, TRUE)
    BY <1>11, <1>14
  <2>2. Entries(heap', s) = E /\ Entries(heap', t) = F
    BY <2>1 DEF E, F
  <2>3. \A j \in 1..n : j > n - left' => F[j] \in Elements(E)
    BY <1>2, <1>12
  <2>4. WalksNext(c)
    BY <1>1, <1>2, <1>12, <2>1, <2>2, <2>3 DEF WalksNext, Walk, n
  <2>5. VisitEntries(E, Entries(heap', s), k)
    BY <2>1, <2>2 DEF VisitEntries
  <2> QED BY <1>1, <1>10, <2>2, <2>4, <2>5 DEF E, F
<1> QED BY <1>13, <1>14

(* The window that dictionary_iter copies. *)
KeysOf(e) == [i \in DOMAIN e |-> e[i].key]
WindowOf(e, marker, limit) ==
    SubSeq(e, WindowStart(KeysOf(e), marker), WindowEnd(KeysOf(e), marker, limit))

LEMMA WindowIs ==
    ASSUME NEW A, NEW e \in Seq(A), NEW marker, NEW limit \in Nat, NEW b,
           b = WindowStart(KeysOf(e), marker), b \in 1..Len(e) \/ (b = 1 /\ Len(e) = 0)
    PROVE  /\ WindowOf(e, marker, limit)
                = Part(e, b, AtMost(IF limit = 0 THEN Len(e) ELSE limit, Len(e) - b + 1))
           /\ Elements(WindowOf(e, marker, limit)) \subseteq Elements(e)
<1> DEFINE n == Len(e)
           last == WindowEnd(KeysOf(e), marker, limit)
           m == AtMost(IF limit = 0 THEN n ELSE limit, n - b + 1)
           w == SubSeq(e, b, last)
<1>1. n \in Nat /\ DOMAIN e = 1..n /\ b \in Nat \ {0} /\ b - 1 <= n
  OBVIOUS
<1>2. Len(KeysOf(e)) = n
  <2>1. KeysOf(e) = [i \in 1..n |-> KeysOf(e)[i]]
    BY <1>1 DEF KeysOf
  <2> HIDE DEF n
  <2> QED BY <1>1, <2>1
<1> HIDE DEF n
<1>3. last = IF limit = 0 \/ b + limit - 1 > n THEN n ELSE b + limit - 1
  BY <1>2 DEF WindowEnd
<1> HIDE DEF last
<1>4. last \in Int /\ last <= n /\ last - b + 1 = m /\ m \in Nat
  BY <1>1, <1>3 DEF AtMost
<1>5. \A i \in b..last : e[i] \in A
  BY <1>1, <1>4 DEF n
<1>6. /\ w \in Seq(A)
      /\ Len(w) = IF b <= last THEN last-b+1 ELSE 0
      /\ \A i \in 1..last-b+1 : w[i] = e[b+i-1]
  <2>1. b \in Nat \ {0} /\ last \in Int
    BY <1>1, <1>4
  <2> HIDE DEF m
  <2> QED BY <1>5, <2>1, SubSeqProperties
<1> HIDE DEF w, m
<1>7. w = [i \in 1..m |-> w[i]]
  <2>1. Len(w) = m
    BY <1>1, <1>4, <1>6
  <2> QED BY <1>6, <2>1
<1>8. w = Part(e, b, m)
  <2>1. \A i \in 1..m : w[i] = e[b+i-1]
    BY <1>4, <1>6
  <2> QED BY <1>7, <2>1 DEF Part
<1>9. Elements(w) \subseteq Elements(e)
  <2> SUFFICES ASSUME NEW i \in 1..m PROVE w[i] \in Elements(e)
    BY <1>7 DEF Elements
  <2>1. b+i-1 \in 1..n
    BY <1>1, <1>4
  <2>2. i \in 1..last-b+1
    BY <1>4
  <2>3. w[i] = e[b+i-1]
    BY <1>6, <2>2
  <2> QED BY <1>1, <2>1, <2>3 DEF Elements
<1> QED BY <1>8, <1>9 DEF WindowOf, w, last, m, n

(* A walk at its beginning. *)
LEMMA WalkBegins ==
    ASSUME NEW h, NEW w \in BOOLEAN, NEW b, Holds(h, b), ~w => b["iterator"] = <<>>,
           Elements(Entries(h, b["iterator"])) \subseteq Elements(Entries(h, b["self"]))
    PROVE  Walk(h, w, h.dict["iterator"].first, h.dict["iterator"].length, b)
<1> DEFINE t == b["iterator"]
           n == Len(t)
<1>1. "iterator" \in Dictionaries
  BY DEF Dictionaries
<1>2. n \in Nat /\ h.dict["iterator"].first = After(t, 0) /\ h.dict["iterator"].length = n
  BY <1>1, Facts
<1>3. \A i \in 1..n : Entries(h, t)[i] \in Elements(Entries(h, t))
  <2>1. Mirrors(h, t, Entries(h, t))
    BY <1>2, EntriesIs
  <2> QED BY <2>1 DEF Mirrors, Elements
<1> HIDE DEF n
<1>4. n \in 0..n /\ n - n = 0
  BY <1>2
<1> HIDE DEF t
<1> QED BY <1>2, <1>3, <1>4 DEF Walk, n, t

(* A walk begins with a window of the entries, or with nothing. *)
CopyEntries(e, f, marker, limit) ==
    \/ /\ call' = Call("copy", marker, limit, TRUE)
       /\ walking' /\ f = WindowOf(e, marker, limit)
    \/ /\ call' = Call("copy", marker, limit, FALSE)
       /\ ~walking' \/ f = <<>>

LEMMA BeginStep ==
    ASSUME NEW c, Walks(c), NEW marker, NEW limit \in Limits, BeginWalk(marker, limit)
    PROVE  /\ ~walking
           /\ \E b : /\ WalksNext(b)
                     /\ Entries(heap', b["self"]) = Entries(heap, c["self"])
                     /\ CopyEntries(Entries(heap, c["self"]), Entries(heap', b["iterator"]), marker, limit)
<1> DEFINE it == "iterator"
           s == c["self"]
           E == Entries(heap, s)
           b0 == WindowStart(KeysIn(heap, s), marker)
           n == CopyLimit(limit)
<1>1. walking = FALSE /\ item' = heap'.dict[it].first /\ left' = heap'.dict[it].length
  BY DEF BeginWalk, Walks, Walk
<1>2. Holds(heap, c) /\ c[it] = <<>>
  BY <1>1, IdleIs DEF Walks
<1>3. /\ "iterator" \in Dictionaries /\ "self" \in Dictionaries /\ limit \in Nat
      /\ c \in [Dictionaries -> Seq(Addresses)]
  BY <1>2, ConstantsAssumption DEF Dictionaries, Holds
<1>4. Len(s) \in Nat /\ heap.dict["self"].length = Len(s)
  BY <1>2, <1>3, Facts
<1>5. n \in Nat /\ n = IF limit = 0 THEN Len(s) ELSE limit
  BY <1>3, <1>4 DEF CopyLimit
<1>6. /\ Len(E) = Len(s) /\ E \in Seq({E[j] : j \in 1..Len(s)}) /\ KeysIn(heap, s) = KeysOf(E)
  <2>1. Mirrors(heap, s, E)
    BY <1>4, EntriesIs
  <2> HIDE DEF E
  <2> QED BY <2>1 DEF Mirrors, KeysIn, KeysOf
<1>7. BeginsAt(heap, s, marker, b0)
  BY <1>2, BoundIs
<1> HIDE DEF E, n, s
<1>8. b0 = WindowStart(KeysOf(E), marker) /\ (b0 \in 1..Len(E) \/ (b0 = 1 /\ Len(E) = 0))
  BY <1>6, <1>7 DEF BeginsAt
<1> HIDE DEF b0
<1>9. ASSUME NEW m \in Nat
      PROVE  \E t : /\ t \in Seq(Addresses) /\ Holds(Copied(heap, marker, m), [c EXCEPT ![it] = t])
                    /\ Entries(Copied(heap, marker, m), s) = E
                    /\ Entries(Copied(heap, marker, m), t) = Part(E, b0, AtMost(m, Len(s) - b0 + 1))
  <2>1. PICK t : CopyMade(heap, c, b0, m, Copied(heap, marker, m), t)
    BY <1>2, CopiedHolds DEF b0, s
  <2> QED BY <2>1 DEF CopyMade, s, E
<1>10. \A b : /\ Holds(heap', b) /\ walking' \in BOOLEAN /\ (~walking' => b[it] = <<>>)
              /\ Elements(Entries(heap', b[it])) \subseteq Elements(Entries(heap', b["self"]))
              => WalksNext(b)
  BY <1>1, WalkBegins DEF WalksNext
<1>11. \A h : Entries(h, <<>>) = <<>> /\ Elements(Entries(h, <<>>)) = {}
  BY DEF Entries, Elements
<1>12. CASE /\ heap' = Copied(heap, marker, n) /\ walking' = TRUE
            /\ call' = Call("copy", marker, limit, TRUE)
  <2>1. PICK t : /\ t \in Seq(Addresses) /\ Holds(heap', [c EXCEPT ![it] = t])
                 /\ Entries(heap', s) = E
                 /\ Entries(heap', t) = Part(E, b0, AtMost(n, Len(s) - b0 + 1))
    BY <1>5, <1>9, <1>12
  <2> DEFINE b == [c EXCEPT ![it] = t]
  <2>2. b[it] = t /\ b["self"] = s
    BY <1>3 DEF s
  <2>3. /\ Entries(heap', t) = WindowOf(E, marker, limit)
        /\ Elements(Entries(heap', t)) \subseteq Elements(E)
    <3>1. /\ WindowOf(E, marker, limit) = Part(E, b0, AtMost(n, Len(s) - b0 + 1))
          /\ Elements(WindowOf(E, marker, limit)) \subseteq Elements(E)
      BY <1>3, <1>5, <1>6, <1>8, WindowIs
    <3> QED BY <2>1, <3>1
  <2> HIDE DEF b
  <2>4. WalksNext(b)
    <3>1. Holds(heap', b)
      BY <2>1 DEF b
    <3> QED BY <1>10, <1>12, <2>1, <2>2, <2>3, <3>1
  <2>5. CopyEntries(E, Entries(heap', b[it]), marker, limit)
    BY <1>12, <2>2, <2>3 DEF CopyEntries
  <2> QED BY <1>1, <2>1, <2>2, <2>4, <2>5 DEF E, s
<1>13. CASE UNCHANGED <<heap, walking>> /\ call' = Call("copy", marker, limit, FALSE)
  <2>1. heap' = heap /\ walking' = FALSE
    BY <1>1, <1>13
  <2>2. Entries(heap', s) = E
    BY <2>1 DEF E
  <2>3. WalksNext(c)
    BY <1>2, <1>10, <1>11, <2>1
  <2>4. CopyEntries(E, Entries(heap', c[it]), marker, limit)
    BY <1>13, <2>1 DEF CopyEntries
  <2> QED BY <1>1, <2>2, <2>3, <2>4 DEF E, s
<1>14. ASSUME NEW m \in 0..n-1, heap' = EmptyCopy(Copied(heap, marker, m)), walking' = TRUE,
              call' = Call("copy", marker, limit, FALSE)
       PROVE  /\ ~walking
              /\ \E b : /\ WalksNext(b)
                        /\ Entries(heap', b["self"]) = Entries(heap, c["self"])
                        /\ CopyEntries(Entries(heap, c["self"]), Entries(heap', b["iterator"]), marker, limit)
  <2> DEFINE g == Copied(heap, marker, m)
  <2>0. m \in Nat
    BY <1>5
  <2>1. PICK t : t \in Seq(Addresses) /\ Holds(g, [c EXCEPT ![it] = t]) /\ Entries(g, s) = E
    BY <1>9, <2>0
  <2> DEFINE a == [c EXCEPT ![it] = t]
  <2>2. a["self"] = s /\ [a EXCEPT ![it] = <<>>] = c
    BY <1>2, <1>3 DEF s
  <2>3. Holds(heap', c) /\ Entries(heap', s) = E
    <3> HIDE DEF g, a
    <3>1. Holds(g, a)
      BY <2>1 DEF a
    <3>2. /\ Holds(DeleteAll(g, it), [a EXCEPT ![it] = <<>>])
          /\ Entries(DeleteAll(g, it), a["self"]) = Entries(g, a["self"])
      BY <3>1, DeleteAllHolds
    <3>3. heap' = DeleteAll(g, it)
      BY <1>14 DEF EmptyCopy, g
    <3> QED BY <2>1, <2>2, <3>2, <3>3
  <2>4. WalksNext(c)
    BY <1>2, <1>10, <1>11, <1>14, <2>3
  <2>5. CopyEntries(E, Entries(heap', c[it]), marker, limit)
    <3>1. Entries(heap', c[it]) = <<>>
      BY <1>2, <1>11
    <3> QED BY <1>14, <3>1 DEF CopyEntries
  <2> QED BY <1>1, <2>3, <2>4, <2>5 DEF E, s
<1> QED BY <1>12, <1>13, <1>14 DEF BeginWalk, n

(* A walk ends: the iterator is gone, the entries are what they were. *)
LEMMA EndStep ==
    ASSUME NEW c, Walks(c), EndWalk
    PROVE  /\ walking /\ ~walking' /\ call' = Call("drop", NULL, NULL, TRUE)
           /\ \E b : /\ WalksNext(b)
                     /\ Entries(heap', b["self"]) = Entries(heap, c["self"])
<1> DEFINE it == "iterator"
           b == [c EXCEPT ![it] = <<>>]
           g == DeleteAll(heap, it)
<1>1. /\ walking /\ left = 0 /\ walking' = FALSE /\ item' = NULL /\ left' = 0
      /\ heap' = FreeIfEmpty([g EXCEPT !.dict[it] = EmptyDictionary])
      /\ call' = Call("drop", NULL, NULL, TRUE)
  BY DEF EndWalk
<1>2. Holds(heap, c) /\ it \in Dictionaries /\ c \in [Dictionaries -> Seq(Addresses)]
  BY DEF Walks, Walk, Holds, Dictionaries
<1>3. Holds(g, b) /\ Entries(g, c["self"]) = Entries(heap, c["self"])
  BY <1>2, DeleteAllHolds
<1>4. b["self"] = c["self"] /\ b[it] = <<>> /\ Len(b[it]) = 0
  BY <1>2 DEF Dictionaries
<1> HIDE DEF b, g
<1>5. heap' = g
  <2>1. [g EXCEPT !.dict[it] = EmptyDictionary] = g
    BY <1>2, <1>3, <1>4, EmptyIs
  <2> QED BY <1>1, <1>3, <2>1, FreeIfEmptyIs
<1>6. WalksNext(b)
  BY <1>1, <1>3, <1>4, <1>5, IdleWalk DEF WalksNext
<1> QED BY <1>1, <1>3, <1>4, <1>5, <1>6

-----------------------------------------------------------------------------
(* The steps *)

Chains(h) == [d \in Dictionaries |-> Chain(h, d)]

(* The inductive invariant: the lists are chains, and a walk is in step with them. *)
Invariant ==
    /\ Walks(Chains(heap))
    /\ call.fn \in {"init", "put", "get", "remove", "keep", "copy", "drop"}

LEMMA ChainsAre ==
    ASSUME NEW h, NEW c, Holds(h, c)
    PROVE  Chains(h) = c
<1>1. \A d \in Dictionaries : Chain(h, d) = c[d]
  BY ChainIs DEF Holds
<1>2. c = [d \in Dictionaries |-> c[d]]
  BY DEF Holds
<1> QED BY <1>1, <1>2 DEF Chains

(* Reading a chain along its links gives its entries. *)
LEMMA ContentsAre ==
    ASSUME NEW h, NEW c, Holds(h, c), NEW d \in Dictionaries
    PROVE  /\ [i \in 1..h.dict[d].length |->
                 [key |-> At(h, Chain(h, d)[i]).key, data |-> At(h, Chain(h, d)[i]).data]]
                 = Entries(h, c[d])
           /\ Entries(h, c[d]) \in Seq([key : Keys, data : Data \cup {NULL}])
<1> DEFINE s == c[d]
           n == Len(s)
           e(i) == [key |-> h.node[s[i]].key, data |-> h.node[s[i]].data]
<1>1. /\ h \in Heaps /\ IsChain(h, d, s) /\ n \in Nat /\ h.dict[d].length = n
      /\ \A i \in 1..n : s[i] \in h.live /\ s[i] \in Addresses
      /\ \A i \in 1..n : h.node[s[i]].key \in Keys
  BY Facts
<1>2. Chain(h, d) = s
  BY <1>1, ChainIs
<1> HIDE DEF s
<1>3. \A i \in 1..n : At(h, s[i]) = h.node[s[i]]
  BY <1>1 DEF At
<1>4. \A i \in 1..n : h.node[s[i]].data \in Data \cup {NULL}
  <2>1. h.node \in [Addresses -> Node]
    BY <1>1 DEF Heaps
  <2>2. \A i \in 1..n : h.node[s[i]] \in Node
    BY <1>1, <2>1
  <2> QED BY <2>2 DEF Node
<1>5. [i \in 1..h.dict[d].length |->
         [key |-> At(h, Chain(h, d)[i]).key, data |-> At(h, Chain(h, d)[i]).data]]
         = [i \in 1..n |-> e(i)]
  BY <1>1, <1>2, <1>3
<1>6. [i \in 1..n |-> e(i)] \in [1..n -> [key : Keys, data : Data \cup {NULL}]]
  BY <1>1, <1>4
<1>7. [i \in 1..n |-> e(i)] \in Seq([key : Keys, data : Data \cup {NULL}])
  <2> HIDE DEF e, n
  <2> QED BY <1>1, <1>6
<1> QED BY <1>5, <1>7 DEF Entries, s

(* The operators of the abstract specification are those of KeySequences. *)
LEMMA SameRemoved ==
    ASSUME NEW e, NEW k
    PROVE  Abstract!Kept(e, {x \in Abstract!Elements(e) : x.key # k}) = RemovedEntries(e, k)
BY DEF Abstract!Kept, Abstract!KeptUpto, Abstract!Elements, Kept, KeptUpto, Elements, RemovedEntries

LEMMA SameWindow ==
    ASSUME NEW e, NEW marker, NEW limit
    PROVE  SubSeq(e, Abstract!WindowStart(Abstract!KeysOf(e), marker),
                     Abstract!WindowEnd(Abstract!KeysOf(e), marker, limit))
             = WindowOf(e, marker, limit)
BY DEF Abstract!KeysOf, Abstract!WindowStart, Abstract!WindowEnd, Abstract!Elements,
       KeysOf, WindowStart, WindowEnd, Elements, WindowOf

LEMMA SameHas ==
    ASSUME NEW A, NEW e \in Seq(A), NEW k
    PROVE  k \in Abstract!Elements(Abstract!KeysOf(e)) <=> HasKey(e, k)
<1> DEFINE f == Abstract!KeysOf(e)
<1>1. DOMAIN e = 1..Len(e)
  OBVIOUS
<1>2. DOMAIN f = 1..Len(e) /\ \A i \in 1..Len(e) : f[i] = e[i].key
  BY <1>1 DEF Abstract!KeysOf
<1> HIDE DEF f
<1>3. Abstract!Elements(f) = {f[i] : i \in 1..Len(e)}
  BY <1>2 DEF Abstract!Elements
<1>4. k \in Abstract!Elements(f) <=> HasKey(e, k)
  BY <1>2, <1>3 DEF HasKey
<1> QED BY <1>4 DEF f

(* Both sides of a step, as the abstract specification sees them. *)
Seen(c, b) ==
    /\ Contents("self") = Entries(heap, c["self"])
    /\ Contents("iterator") = Entries(heap, c["iterator"])
    /\ Contents("self")' = Entries(heap', b["self"])
    /\ Contents("iterator")' = Entries(heap', b["iterator"])
    /\ Contents("self") \in Seq([key : Keys, data : Data \cup {NULL}])
    /\ Contents("iterator") # NULL

LEMMA SeesBoth ==
    ASSUME NEW c, Walks(c), NEW b, WalksNext(b)
    PROVE  Seen(c, b)
<1>1. Holds(heap, c) /\ Holds(heap', b) /\ "self" \in Dictionaries /\ "iterator" \in Dictionaries
  BY DEF Walks, WalksNext, Walk, Dictionaries
<1>2. /\ Contents("self") = Entries(heap, c["self"])
      /\ Contents("iterator") = Entries(heap, c["iterator"])
  BY <1>1, ContentsAre, SMTT(60) DEF Contents
<1>3. /\ Entries(heap, c["self"]) \in Seq([key : Keys, data : Data \cup {NULL}])
      /\ Entries(heap, c["iterator"]) \in Seq([key : Keys, data : Data \cup {NULL}])
  BY <1>1, ContentsAre
<1>4. /\ Contents("self")' = Entries(heap', b["self"])
      /\ Contents("iterator")' = Entries(heap', b["iterator"])
  BY <1>1, ContentsAre, SMTT(60) DEF Contents
<1> QED BY <1>2, <1>3, <1>4, ConstantsAssumption DEF Seen

(* Each use of the lists keeps the invariant, and is an operation of OrderedDictionary. *)
Steps == (\E b : WalksNext(b)) /\ Abstract!Next

LEMMA PutRefines ==
    ASSUME NEW c, Walks(c), NEW k \in Keys, NEW d \in Data, PutMessage(k, d)
    PROVE  Steps
<1>1. ~walking /\ ~walking'
  BY PutStep
<1>2. PICK b : WalksNext(b) /\ PutEntries(Entries(heap, c["self"]), Entries(heap', b["self"]), k, d)
  BY PutStep
<1>3. Seen(c, b)
  BY <1>2, SeesBoth
<1>4. PutEntries(Contents("self"), Contents("self")', k, d)
  BY <1>2, <1>3 DEF Seen
<1>5. Abstract!Has(k) <=> HasKey(Contents("self"), k)
  BY <1>3, SameHas DEF Seen, Abstract!Has
<1>6. Abstract!Put(k, d)
  BY <1>1, <1>4, <1>5 DEF PutEntries, Inserted, Abstract!Put, Abstract!Insert, Abstract!Call, Call
<1> QED BY <1>2, <1>6 DEF Steps, Abstract!Next

LEMMA GetRefines ==
    ASSUME NEW c, Walks(c), NEW k \in Keys, NEW d \in Data, GetOrCreate(k, d)
    PROVE  Steps
<1>1. ~walking /\ ~walking'
  BY GetStep
<1>2. PICK b : WalksNext(b) /\ GetEntries(Entries(heap, c["self"]), Entries(heap', b["self"]), k, d)
  BY GetStep
<1>3. Seen(c, b)
  BY <1>2, SeesBoth
<1>4. GetEntries(Contents("self"), Contents("self")', k, d)
  BY <1>2, <1>3 DEF Seen
<1>5. Abstract!Has(k) <=> HasKey(Contents("self"), k)
  BY <1>3, SameHas DEF Seen, Abstract!Has
<1>6. Abstract!Get(k, d)
  BY <1>1, <1>4, <1>5 DEF GetEntries, Inserted, Abstract!Get, Abstract!Insert, Abstract!Call, Call
<1> QED BY <1>2, <1>6 DEF Steps, Abstract!Next

LEMMA DeleteRefines ==
    ASSUME NEW c, Walks(c), NEW k \in Keys, Delete(k)
    PROVE  Steps
<1>1. ~walking /\ ~walking' /\ call' = Call("remove", k, NULL, TRUE)
  BY DeleteStep
<1>2. PICK b : /\ WalksNext(b)
               /\ Entries(heap', b["self"]) = RemovedEntries(Entries(heap, c["self"]), k)
  BY DeleteStep
<1>3. Seen(c, b)
  BY <1>2, SeesBoth
<1>4. Contents("self")' = RemovedEntries(Contents("self"), k)
  BY <1>2, <1>3 DEF Seen
<1>5. Abstract!Remove(k)
  BY <1>1, <1>4, SameRemoved DEF Abstract!Remove, Abstract!Call, Call
<1> QED BY <1>2, <1>5 DEF Steps, Abstract!Next

LEMMA VisitRefines ==
    ASSUME NEW c, Walks(c), NEW delete \in BOOLEAN, Visit(delete)
    PROVE  Steps
<1>1. walking /\ walking'
  BY VisitStep
<1>2. PICK k \in Keys : \E b :
         /\ WalksNext(b)
         /\ b["iterator"] = c["iterator"]
         /\ Entries(heap', c["iterator"]) = Entries(heap, c["iterator"])
         /\ VisitEntries(Entries(heap, c["self"]), Entries(heap', b["self"]), k)
  BY VisitStep
<1>3. PICK b :
         /\ WalksNext(b)
         /\ b["iterator"] = c["iterator"]
         /\ Entries(heap', c["iterator"]) = Entries(heap, c["iterator"])
         /\ VisitEntries(Entries(heap, c["self"]), Entries(heap', b["self"]), k)
  BY <1>2
<1>4. Seen(c, b)
  BY <1>3, SeesBoth
<1>5. /\ VisitEntries(Contents("self"), Contents("self")', k)
      /\ Contents("iterator")' = Contents("iterator")
  BY <1>3, <1>4 DEF Seen
<1>6. CASE call' = Call("remove", k, NULL, TRUE) /\ Contents("self")' = RemovedEntries(Contents("self"), k)
  <2>1. Abstract!Remove(k)
    BY <1>1, <1>5, <1>6, SameRemoved DEF Abstract!Remove, Abstract!Call, Call
  <2> QED BY <1>3, <2>1 DEF Steps, Abstract!Next
<1>7. CASE call' = Call("keep", k, NULL, TRUE) /\ Contents("self")' = Contents("self")
  <2>1. Abstract!Keep(k)
    BY <1>1, <1>5, <1>7 DEF Abstract!Keep, Abstract!Call, Call
  <2> QED BY <1>3, <2>1 DEF Steps, Abstract!Next
<1> QED BY <1>5, <1>6, <1>7 DEF VisitEntries

LEMMA BeginRefines ==
    ASSUME NEW c, Walks(c), NEW marker \in Keys \cup {NULL}, NEW limit \in Limits, BeginWalk(marker, limit)
    PROVE  Steps
<1>1. ~walking
  BY BeginStep
<1>2. PICK b : /\ WalksNext(b)
               /\ Entries(heap', b["self"]) = Entries(heap, c["self"])
               /\ CopyEntries(Entries(heap, c["self"]), Entries(heap', b["iterator"]), marker, limit)
  BY BeginStep
<1>3. Seen(c, b)
  BY <1>2, SeesBoth
<1>4. /\ Contents("self")' = Contents("self")
      /\ CopyEntries(Contents("self"), Contents("iterator")', marker, limit)
  BY <1>2, <1>3 DEF Seen
<1>5. Abstract!Copy(marker, limit)
  BY <1>1, <1>4, SameWindow DEF CopyEntries, Abstract!Copy, Abstract!Call, Call
<1> QED BY <1>2, <1>5 DEF Steps, Abstract!Next

LEMMA EndRefines ==
    ASSUME NEW c, Walks(c), EndWalk
    PROVE  Steps
<1>1. walking /\ ~walking' /\ call' = Call("drop", NULL, NULL, TRUE)
  BY EndStep
<1>2. PICK b : WalksNext(b) /\ Entries(heap', b["self"]) = Entries(heap, c["self"])
  BY EndStep
<1>3. Seen(c, b)
  BY <1>2, SeesBoth
<1>4. Contents("self")' = Contents("self") /\ Contents("iterator") # NULL
  BY <1>2, <1>3 DEF Seen
<1>5. Abstract!DropCopy
  BY <1>1, <1>4 DEF Abstract!DropCopy, Abstract!Call, Call
<1> QED BY <1>2, <1>5 DEF Steps, Abstract!Next

LEMMA NextRefines ==
    ASSUME Invariant, Next
    PROVE  Invariant' /\ Abstract!Next
<1> DEFINE c == Chains(heap)
<1>1. Walks(c)
  BY DEF Invariant
<1> HIDE DEF c
<1>2. Steps
  <2>1. CASE \E k \in Keys : Delete(k)
    BY <1>1, <2>1, DeleteRefines
  <2>2. CASE \E k \in Keys, d \in Data : PutMessage(k, d)
    BY <1>1, <2>2, PutRefines
  <2>3. CASE \E k \in Keys, d \in Data : GetOrCreate(k, d)
    BY <1>1, <2>3, GetRefines
  <2>4. CASE \E marker \in Keys \cup {NULL}, limit \in Limits : BeginWalk(marker, limit)
    BY <1>1, <2>4, BeginRefines
  <2>5. CASE \E delete \in BOOLEAN : Visit(delete)
    BY <1>1, <2>5, VisitRefines
  <2>6. CASE EndWalk
    BY <1>1, <2>6, EndRefines
  <2> QED BY <2>1, <2>2, <2>3, <2>4, <2>5, <2>6 DEF Next
<1>3. PICK b : WalksNext(b)
  BY <1>2 DEF Steps
<1>4. Holds(heap', b)
  BY <1>3 DEF WalksNext, Walk
<1>5. Chains(heap') = b
  BY <1>4, ChainsAre
<1>6. Walks(Chains(heap))'
  BY <1>3, <1>5 DEF Walks, WalksNext
<1>7. call'.fn \in {"init", "put", "get", "remove", "keep", "copy", "drop"}
  <2> DEFINE Fns == {"init", "put", "get", "remove", "keep", "copy", "drop"}
  <2>1. ASSUME NEW k \in Keys, NEW d \in Data, Abstract!Put(k, d) PROVE call'.fn \in Fns
    BY <2>1 DEF Abstract!Put, Abstract!Call
  <2>2. ASSUME NEW k \in Keys, NEW d \in Data, Abstract!Get(k, d) PROVE call'.fn \in Fns
    BY <2>2 DEF Abstract!Get, Abstract!Call
  <2>3. ASSUME NEW k \in Keys, Abstract!Remove(k) PROVE call'.fn \in Fns
    BY <2>3 DEF Abstract!Remove, Abstract!Call
  <2>4. ASSUME NEW k \in Keys, Abstract!Keep(k) PROVE call'.fn \in Fns
    BY <2>4 DEF Abstract!Keep, Abstract!Call
  <2>5. ASSUME NEW marker, NEW limit, Abstract!Copy(marker, limit) PROVE call'.fn \in Fns
    BY <2>5 DEF Abstract!Copy, Abstract!Call
  <2>6. ASSUME Abstract!DropCopy PROVE call'.fn \in Fns
    BY <2>6 DEF Abstract!DropCopy, Abstract!Call
  <2> HIDE DEF Fns
  <2>7. call'.fn \in Fns
    BY <1>2, <2>1, <2>2, <2>3, <2>4, <2>5, <2>6 DEF Steps, Abstract!Next
  <2> QED BY <2>7 DEF Fns
<1> QED BY <1>2, <1>6, <1>7 DEF Invariant, Steps

LEMMA InitHolds ==
    ASSUME Init
    PROVE  Invariant /\ Abstract!Init
<1> DEFINE b == [d \in Dictionaries |-> <<>>]
<1>1. /\ heap = [node |-> [p \in Addresses |-> Blank], live |-> {},
                 dict |-> [d \in Dictionaries |-> EmptyDictionary], ok |-> TRUE]
      /\ walking = FALSE /\ item = NULL /\ left = 0 /\ call = Call("init", NULL, NULL, TRUE)
  BY DEF Init
<1>2. /\ heap.node = [p \in Addresses |-> Blank] /\ heap.live = {} /\ heap.ok = TRUE
      /\ heap.dict = [d \in Dictionaries |-> EmptyDictionary]
  BY <1>1
<1>3. heap \in Heaps
  <2>1. Blank \in Node
    BY DEF Blank, Node, Pointers
  <2>2. EmptyDictionary \in [first : Pointers, last : Pointers, length : Nat]
    BY DEF EmptyDictionary, Pointers
  <2> QED BY <1>1, <2>1, <2>2 DEF Heaps
<1>4. b \in [Dictionaries -> Seq(Addresses)] /\ \A d \in Dictionaries : b[d] = <<>> /\ Len(b[d]) = 0
  OBVIOUS
<1> HIDE DEF b
<1>5. \A d \in Dictionaries : IsChain(heap, d, b[d]) /\ HasKeys(heap, b[d])
  <2> SUFFICES ASSUME NEW d \in Dictionaries PROVE IsChain(heap, d, b[d]) /\ HasKeys(heap, b[d])
    OBVIOUS
  <2>1. heap.dict[d] = EmptyDictionary
    BY <1>2
  <2>2. IsChain(heap, d, b[d])
    BY <1>4, <2>1 DEF IsChain, EmptyDictionary, After, Prior
  <2>3. HasKeys(heap, b[d])
    BY <1>4 DEF HasKeys
  <2> QED BY <2>2, <2>3
<1>6. Holds(heap, b)
  BY <1>2, <1>3, <1>4, <1>5 DEF Holds
<1>7. Chains(heap) = b
  BY <1>6, ChainsAre
<1>8. Invariant
  <2>1. Walk(heap, walking, item, left, b)
    BY <1>1, <1>4, <1>6, IdleWalk DEF Dictionaries
  <2> QED BY <1>1, <1>7, <2>1 DEF Invariant, Walks, Call
<1>9. Abstract!Init
  <2>1. Contents("self") = Entries(heap, b["self"])
    BY <1>6, ContentsAre DEF Contents, Dictionaries
  <2>2. Entries(heap, b["self"]) = <<>>
    BY <1>4 DEF Entries, Dictionaries
  <2> QED BY <1>1, <2>1, <2>2 DEF Abstract!Init, Abstract!Call, Call
<1> QED BY <1>8, <1>9

LEMMA StutterRefines ==
    ASSUME Invariant, UNCHANGED vars
    PROVE  Invariant' /\ UNCHANGED Abstract!vars
BY DEF Invariant, vars, Walks, Abstract!vars, Contents

-----------------------------------------------------------------------------
(* The theorems *)

(* The two lists stay well-formed chains, whatever is put, deleted, walked over or out of memory. *)
THEOREM ListsStayChains == Spec => []Invariant
<1>1. Init => Invariant
  BY InitHolds
<1>2. Invariant /\ [Next]_vars => Invariant'
  BY NextRefines, StutterRefines
<1> QED BY <1>1, <1>2, PTL DEF Spec

(* What the invariant says of the chains it is about. *)
LEMMA InvariantHolds ==
    ASSUME Invariant
    PROVE  /\ Holds(heap, Chains(heap)) /\ heap \in Heaps
           /\ Chains(heap)["self"] = Chain(heap, "self")
           /\ Chains(heap)["iterator"] = Chain(heap, "iterator")
BY DEF Invariant, Walks, Walk, Holds, Chains, Dictionaries

(* Nodes, links, ends and lengths have the types dictionary.c gives them. *)
THEOREM TypeCorrect == Spec => []TypeOK
<1>1. Invariant => TypeOK
  <2> SUFFICES ASSUME Invariant PROVE TypeOK
    OBVIOUS
  <2> DEFINE t == Chains(heap)["iterator"]
  <2>1. Holds(heap, Chains(heap)) /\ heap \in Heaps
    BY InvariantHolds
  <2>2. walking \in BOOLEAN /\ left \in 0..Len(t) /\ item = After(t, Len(t) - left)
    BY DEF Invariant, Walks, Walk
  <2>3. t \in Seq(Addresses)
    BY <2>1 DEF Holds, Dictionaries
  <2> HIDE DEF t
  <2>4. left \in Nat /\ item \in Pointers
    <3>1. Len(t) \in Nat /\ \A j \in 1..Len(t) : t[j] \in Addresses
      BY <2>3
    <3>2. Len(t) - left # Len(t) => (Len(t) - left) + 1 \in 1..Len(t)
      BY <2>2, <3>1
    <3> QED BY <2>2, <3>1, <3>2 DEF After, Pointers
  <2>5. /\ heap.node \in [Addresses -> Node] /\ heap.live \subseteq Addresses
        /\ heap.dict \in [Dictionaries -> [first : Pointers, last : Pointers, length : Nat]]
        /\ heap.ok \in BOOLEAN
    BY <2>1 DEF Heaps
  <2> QED BY <2>2, <2>4, <2>5 DEF TypeOK, Invariant
<1> QED BY <1>1, ListsStayChains, PTL

(***************************************************************************)
(* No function of dictionary.c, and no loop of memory.c, reads a node that *)
(* is not allocated, for any number of keys and in any order of calls.     *)
(***************************************************************************)
THEOREM ReadsOnlyNodes == Spec => []NoBadAccess
<1>1. Invariant => NoBadAccess
  BY InvariantHolds DEF Heaps, NoBadAccess
<1> QED BY <1>1, ListsStayChains, PTL

(* Every node that dictionary_add has allocated is in one of the lists, and is counted there. *)
THEOREM NodesAreKept == Spec => []NothingLeaked
<1>1. Invariant => NothingLeaked
  <2> SUFFICES ASSUME Invariant PROVE NothingLeaked
    OBVIOUS
  <2> DEFINE c == Chains(heap)
  <2>1. /\ Holds(heap, c) /\ c["self"] = Chain(heap, "self")
        /\ c["iterator"] = Chain(heap, "iterator")
    BY InvariantHolds
  <2> HIDE DEF c
  <2>2. heap.dict["self"].length = Len(c["self"]) /\ heap.dict["iterator"].length = Len(c["iterator"])
    BY <2>1 DEF Holds, IsChain, Dictionaries
  <2>3. /\ Cardinality(heap.live) = Len(c["self"]) + Len(c["iterator"])
        /\ heap.live = Elements(c["self"]) \cup Elements(c["iterator"])
    BY <2>1, LiveCount
  <2> QED BY <2>1, <2>2, <2>3 DEF NothingLeaked
<1> QED BY <1>1, ListsStayChains, PTL

(* What a walk has still before it is still in the dictionary, with the same data. *)
THEOREM WalksSeeCurrent == Spec => []CopyIsCurrent
<1>1. Invariant => CopyIsCurrent
  <2> SUFFICES ASSUME Invariant, walking PROVE CopyIsCurrent
    BY DEF CopyIsCurrent
  <2> DEFINE c == Chains(heap)
             t == c["iterator"]
             n == Len(t)
             F == Contents("iterator")
  <2>1. Holds(heap, c) /\ t = Chain(heap, "iterator")
    BY InvariantHolds
  <2>2. /\ left \in 0..n /\ item = After(t, n - left)
        /\ \A i \in 1..n : i > n - left =>
              Entries(heap, t)[i] \in Elements(Entries(heap, c["self"]))
    BY DEF Invariant, Walks, Walk
  <2> HIDE DEF c
  <2>3. Contents("self") = Entries(heap, c["self"]) /\ F = Entries(heap, t)
    BY <2>1, ContentsAre DEF Contents, Dictionaries
  <2>4. n \in Nat
    BY <2>1, Facts DEF Dictionaries
  <2>5. Len(F) = n
    <3>1. Mirrors(heap, t, Entries(heap, t))
      BY <2>4, EntriesIs
    <3> QED BY <2>3, <3>1 DEF Mirrors
  <2> HIDE DEF F, t
  <2>6. left > 0 => item = t[n - left + 1]
    <3>1. left > 0 => n - left # n
      BY <2>2, <2>4
    <3> QED BY <2>2, <3>1 DEF After
  <2> HIDE DEF n
  <2>7. \A i \in n - left + 1 .. n : i \in 1..n /\ i > n - left
    BY <2>2, <2>4
  <2>8. \A i \in n - left + 1 .. n : F[i] \in Elements(Contents("self"))
    BY <2>2, <2>3, <2>7
  <2> QED BY <2>1, <2>5, <2>6, <2>8 DEF CopyIsCurrent, F
<1> QED BY <1>1, ListsStayChains, PTL

(***************************************************************************)
(* The linked lists implement OrderedDictionary: every use of them in      *)
(* memory.c, with or without memory, is one of its operations on sequences *)
(* of entries.                                                             *)
(***************************************************************************)
THEOREM ListsAreDictionaries == Spec => ImplementsOrderedDictionary
<1>1. Init => Abstract!Init
  BY InitHolds
<1>2. Invariant /\ [Next]_vars => [Abstract!Next]_(Abstract!vars)
  BY NextRefines, StutterRefines
<1> QED BY <1>1, <1>2, ListsStayChains, PTL DEF Spec, ImplementsOrderedDictionary, Abstract!Spec

=============================================================================
