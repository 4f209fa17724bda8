----------------------------- MODULE Dictionary -----------------------------
(***************************************************************************)
(* The linked lists of libburrow/backends/memory/dictionary.c, and the way *)
(* memory.c uses one: it adds a key after it has looked for it, it walks   *)
(* over a copy made by dictionary_iter while it deletes what it comes      *)
(* across, and it frees a dictionary whose length is 0 without looking     *)
(* for nodes.  Every allocation may fail.                                  *)
(*                                                                         *)
(* The functions of dictionary.c are operators from a heap to a heap; the  *)
(* actions are their uses in memory.c.                                     *)
(***************************************************************************)
EXTENDS KeySequences, FiniteSets

CONSTANTS
    Keys,       \* keys of entries
    Data,       \* what node->data points to: messages, or dictionaries
    NULL,
    Addresses,  \* bound: where nodes can be allocated, a set of numbers
    Limits,     \* values of u_bound; 0 is DICTIONARY_LENGTH
    Faults      \* "enomem": allocations may fail

ASSUME ConstantsAssumption ==
    /\ NULL \notin Keys \cup Data \cup Addresses
    /\ NULL \notin Seq([key : Keys, data : Data \cup {NULL}])
    /\ IsFiniteSet(Keys) /\ IsFiniteSet(Addresses) /\ Addresses \subseteq Nat
    /\ Cardinality(Addresses) >= 2 * Cardinality(Keys)
    /\ Limits \subseteq Nat

VARIABLES
    heap,    \* [node, live, dict, ok]: nodes, the allocated ones, the two
             \* dictionaries, and whether only allocated nodes were read
    walking, \* the iterator exists
    item,    \* the walk's position in it
    left,    \* how many entries the walk still has before it
    call     \* history: the last call, as in OrderedDictionary

vars == <<heap, walking, item, left, call>>

Dictionaries == {"self", "iterator"}
Pointers == Addresses \cup {NULL}
Blank == [key |-> NULL, previous |-> NULL, next |-> NULL, data |-> NULL]
Node == [key : Keys \cup {NULL}, previous : Pointers, next : Pointers, data : Data \cup {NULL}]

Call(fn, key, arg, ok) == [fn |-> fn, key |-> key, arg |-> arg, ok |-> ok]

(* dictionary_init *)
EmptyDictionary == [first |-> NULL, last |-> NULL, length |-> 0]

TypeOK ==
    /\ heap.node \in [Addresses -> Node]
    /\ heap.live \subseteq Addresses
    /\ heap.dict \in [Dictionaries -> [first : Pointers, last : Pointers, length : Nat]]
    /\ heap.ok \in BOOLEAN
    /\ walking \in BOOLEAN
    /\ item \in Pointers
    /\ left \in Nat
    /\ call.fn \in {"init", "put", "get", "remove", "keep", "copy", "drop"}

Init ==
    /\ heap = [node |-> [p \in Addresses |-> Blank], live |-> {},
               dict |-> [d \in Dictionaries |-> EmptyDictionary], ok |-> TRUE]
    /\ walking = FALSE
    /\ item = NULL
    /\ left = 0
    /\ call = Call("init", NULL, NULL, TRUE)

-----------------------------------------------------------------------------
(* Reading. *)

At(h, p) == IF p \in h.live THEN h.node[p] ELSE Blank
Reading(h, S) == [h EXCEPT !.ok = @ /\ S \subseteq h.live]

Smallest(S) == CHOOSE i \in S : \A j \in S : i <= j

(* The nodes reached from the first one by length - 1 steps along next. *)
Chain(h, d) ==
    LET c[i \in 1..h.dict[d].length] ==
            IF i = 1 THEN h.dict[d].first ELSE At(h, c[i-1]).next
    IN  c

(***************************************************************************)
(* dictionary_get(SEARCH): at most length nodes are looked at.  Without a  *)
(* match the result is what comes after them: NULL, if the length is right.*)
(***************************************************************************)
Hits(h, d, key) == {i \in 1..h.dict[d].length : At(h, Chain(h, d)[i]).key = key}

Search(h, d, key) ==
    LET c == Chain(h, d)
        n == h.dict[d].length
    IN  CASE key = NULL -> NULL
          [] key # NULL /\ Hits(h, d, key) # {} -> c[Smallest(Hits(h, d, key))]
          [] key # NULL /\ Hits(h, d, key) = {} ->
                IF n = 0 THEN h.dict[d].first ELSE At(h, c[n]).next

(* The nodes it reads. *)
Searched(h, d, key) ==
    LET upto == IF Hits(h, d, key) = {} THEN h.dict[d].length ELSE Smallest(Hits(h, d, key))
    IN  IF key = NULL THEN {} ELSE {Chain(h, d)[i] : i \in 1..upto}

(* The heap after a search: nothing has changed, but nodes were read. *)
AfterSearch(h, d, key) == Reading(h, Searched(h, d, key))

-----------------------------------------------------------------------------
(* Writing. *)

(***************************************************************************)
(* dictionary_add when both allocations succeed; otherwise it changes      *)
(* nothing.  Which free address is taken makes no difference.              *)
(***************************************************************************)
Add(h, d, key, data) ==
    LET p == Smallest(Addresses \ h.live)
        this == h.dict[d]
        linked == IF this.last = NULL THEN h.node ELSE [h.node EXCEPT ![this.last].next = p]
    IN  [Reading(h, {this.last} \ {NULL}) EXCEPT
            !.live = @ \cup {p},
            !.node = [linked EXCEPT ![p] = [key |-> key, previous |-> this.last,
                                            next |-> NULL, data |-> data]],
            !.dict[d] = [first |-> IF this.first = NULL THEN p ELSE this.first,
                         last |-> p, length |-> this.length + 1]]

(* Mutant: the next node still points back to the deleted one. *)
DeleteKeepsBackLink(h, d, key) ==
    LET p == Search(h, d, key)
        n == At(h, p)
        this == h.dict[d]
        first == IF n.previous = NULL THEN n.next ELSE this.first
        last == IF n.next = NULL THEN n.previous ELSE this.last
        forward == [h.node EXCEPT ![n.previous].next = n.next]
    IN  IF p = NULL THEN AfterSearch(h, d, key)
          ELSE [Reading(AfterSearch(h, d, key), {n.previous, n.next} \ {NULL}) EXCEPT
                  !.live = @ \ {p},
                  !.node = [(IF n.previous = NULL THEN h.node ELSE forward) EXCEPT ![p] = Blank],
                  !.dict[d] = [first |-> first, last |-> last, length |-> this.length - 1]]

(* Mutant: the length is counted down for a key that is not there, too. *)
DeleteCountsMisses(h, d, key) ==
    LET p == Search(h, d, key)
        n == At(h, p)
        this == h.dict[d]
    IN  IF p = NULL THEN [AfterSearch(h, d, key) EXCEPT !.dict[d].length = @ - 1]
          ELSE [Reading(AfterSearch(h, d, key), {p} \cup ({n.previous, n.next} \ {NULL})) EXCEPT
                  !.live = @ \ {p},
                  !.node = [q \in Addresses |->
                              IF q = p THEN Blank
                                ELSE [h.node[q] EXCEPT
                                        !.next = IF q = n.previous THEN n.next ELSE @,
                                        !.previous = IF q = n.next THEN n.previous ELSE @]],
                  !.dict[d] = [first |-> IF n.previous = NULL THEN n.next ELSE this.first,
                               last |-> IF n.next = NULL THEN n.previous ELSE this.last,
                               length |-> this.length - 1]]

(* dictionary_delete_node: the neighbours, or the ends, are linked around it. *)
DeleteNode(h, d, key) ==
    LET p == Search(h, d, key)
        n == At(h, p)
        this == h.dict[d]
    IN  IF p = NULL THEN AfterSearch(h, d, key)
          ELSE [Reading(AfterSearch(h, d, key), {p} \cup ({n.previous, n.next} \ {NULL})) EXCEPT
                  !.live = @ \ {p},
                  !.node = [q \in Addresses |->
                              IF q = p THEN Blank
                                ELSE [h.node[q] EXCEPT
                                        !.next = IF q = n.previous THEN n.next ELSE @,
                                        !.previous = IF q = n.next THEN n.previous ELSE @]],
                  !.dict[d] = [first |-> IF n.previous = NULL THEN n.next ELSE this.first,
                               last |-> IF n.next = NULL THEN n.previous ELSE this.last,
                               length |-> this.length - 1]]

(* Mutant: the marker itself is left out, as in other interfaces with markers. *)
BoundAfterMarker(h, d, l_bound) ==
    IF Search(h, d, l_bound) = NULL THEN h.dict[d].first ELSE At(h, Search(h, d, l_bound)).next

(* Where dictionary_delete and dictionary_iter begin. *)
Bound(h, d, l_bound) ==
    IF Search(h, d, l_bound) = NULL THEN h.dict[d].first ELSE Search(h, d, l_bound)

(***************************************************************************)
(* dictionary_delete(d, NULL, d->length), its only use: the next node is   *)
(* remembered, then the current one is looked up by its key and deleted.   *)
(***************************************************************************)
DeleteAll(h, d) ==
    LET step[i \in 0..h.dict[d].length] ==
            IF i = 0 THEN [heap |-> h, node |-> Bound(h, d, NULL)]
              ELSE LET s == step[i-1]
                       n == At(s.heap, s.node)
                   IN  IF s.node = NULL THEN s
                         ELSE [heap |-> DeleteNode(Reading(s.heap, {s.node}), d, n.key),
                               node |-> n.next]
    IN  step[h.dict[d].length].heap

(* dictionary_iter's loop, up to the first n entries of its window. *)
Copied(h, l_bound, n) ==
    LET step[i \in 0..n] ==
            IF i = 0 THEN [heap |-> AfterSearch(h, "self", l_bound),
                           node |-> Bound(h, "self", l_bound)]
              ELSE LET s == step[i-1]
                       e == At(s.heap, s.node)
                   IN  IF s.node = NULL THEN s
                         ELSE [heap |-> Add(Reading(s.heap, {s.node}), "iterator", e.key, e.data),
                               node |-> e.next]
    IN  step[n].heap

(* Mutant: the part that was copied before the memory ran out is forgotten, not deleted. *)
ForgetCopy(h) == [h EXCEPT !.dict["iterator"] = EmptyDictionary]

(* The loop has failed to add an entry: the copy is emptied, and returned. *)
EmptyCopy(h) == DeleteAll(h, "iterator")

-----------------------------------------------------------------------------
(* The uses in memory.c. *)

OutOfMemory == "enomem" \in Faults

(* A dictionary without entries is freed with its node; the next use makes a new one. *)
FreeIfEmpty(h) ==
    IF h.dict["self"].length = 0 THEN [h EXCEPT !.dict["self"] = EmptyDictionary] ELSE h

(***************************************************************************)
(* create_message: a message that is there is replaced, a new one added.   *)
(* If it cannot be added and is the only one, the dictionary is freed.     *)
(***************************************************************************)
PutMessage(k, d) ==
    LET h == AfterSearch(heap, "self", k)
        p == Search(heap, "self", k)
    IN  /\ ~walking
        /\ \/ /\ call' = Call("put", k, d, TRUE)
              /\ heap' = IF p # NULL THEN [Reading(h, {p}) EXCEPT !.node[p].data = d]
                                     ELSE Add(h, "self", k, d)
           \/ /\ OutOfMemory /\ p = NULL
              /\ call' = Call("put", k, d, FALSE)
              /\ heap' = FreeIfEmpty(h)
        /\ UNCHANGED <<walking, item, left>>

(***************************************************************************)
(* dictionary_get(CREATE), for accounts and queues: if the node can be     *)
(* added but its dictionary not allocated, the node stays, with no data.   *)
(***************************************************************************)
GetOrCreate(k, d) ==
    LET h == AfterSearch(heap, "self", k)
        p == Search(heap, "self", k)
    IN  /\ ~walking
        /\ \/ /\ call' = Call("get", k, d, TRUE)
              /\ heap' = IF p # NULL THEN h ELSE Add(h, "self", k, d)
           \/ /\ OutOfMemory /\ p = NULL
              /\ call' = Call("get", k, d, FALSE)
              /\ heap' \in {h, Add(h, "self", k, NULL)}
        /\ UNCHANGED <<walking, item, left>>

(* A message, queue or account is deleted by name. *)
Delete(k) ==
    /\ ~walking
    /\ heap' = FreeIfEmpty(DeleteNode(heap, "self", k))
    /\ call' = Call("remove", k, NULL, TRUE)
    /\ UNCHANGED <<walking, item, left>>

(* u_bound once DICTIONARY_LENGTH has been replaced. *)
CopyLimit(limit) == IF limit = 0 THEN heap.dict["self"].length ELSE limit

(***************************************************************************)
(* A walk begins: dictionary_iter copies a window, or an allocation fails. *)
(* Without an iterator there is no walk.                                   *)
(***************************************************************************)
BeginWalk(marker, limit) ==
    /\ ~walking
    /\ \/ /\ heap' = Copied(heap, marker, CopyLimit(limit))
          /\ walking' = TRUE
          /\ call' = Call("copy", marker, limit, TRUE)
       \/ /\ OutOfMemory
          /\ \/ UNCHANGED <<heap, walking>>
             \/ /\ \E n \in 0..CopyLimit(limit) - 1 : heap' = EmptyCopy(Copied(heap, marker, n))
                /\ walking' = TRUE
          /\ call' = Call("copy", marker, limit, FALSE)
    /\ item' = heap'.dict["iterator"].first
    /\ left' = heap'.dict["iterator"].length

(* Mutant: after a deletion the walk goes on in the dictionary itself. *)
VisitInPlace(delete) ==
    LET h == Reading(heap, {item})
        n == At(heap, item)
    IN  /\ walking /\ left > 0
        /\ heap' = IF delete THEN DeleteNode(h, "self", n.key) ELSE h
        /\ item' = IF delete THEN At(heap, Search(heap, "self", n.key)).next ELSE n.next
        /\ left' = left - 1
        /\ call' = Call(IF delete THEN "remove" ELSE "keep", n.key, NULL, TRUE)
        /\ UNCHANGED walking

(* One turn of the loop of _scan_queue: the entry is deleted, or kept. *)
Visit(delete) ==
    LET h == Reading(heap, {item})
        n == At(heap, item)
    IN  /\ walking /\ left > 0
        /\ heap' = IF delete THEN DeleteNode(h, "self", n.key) ELSE h
        /\ item' = n.next
        /\ left' = left - 1
        /\ call' = Call(IF delete THEN "remove" ELSE "keep", n.key, NULL, TRUE)
        /\ UNCHANGED walking

(* The iterator is emptied and freed; so is the dictionary, if nothing is left in it. *)
EndWalk ==
    /\ walking /\ left = 0
    /\ heap' = FreeIfEmpty([DeleteAll(heap, "iterator") EXCEPT
                              !.dict["iterator"] = EmptyDictionary])
    /\ walking' = FALSE
    /\ item' = NULL
    /\ call' = Call("drop", NULL, NULL, TRUE)
    /\ UNCHANGED left

Next ==
    \/ \E k \in Keys : Delete(k) \/ \E d \in Data : PutMessage(k, d) \/ GetOrCreate(k, d)
    \/ \E marker \in Keys \cup {NULL}, limit \in Limits : BeginWalk(marker, limit)
    \/ \E delete \in BOOLEAN : Visit(delete)
    \/ EndWalk

Spec == Init /\ [][Next]_vars

-----------------------------------------------------------------------------
(* What makes it correct. *)

(* What a dictionary holds, read along its links. *)
Contents(d) ==
    [i \in 1..heap.dict[d].length |->
        [key |-> At(heap, Chain(heap, d)[i]).key, data |-> At(heap, Chain(heap, d)[i]).data]]

(***************************************************************************)
(* The linked lists behave like sequences of entries: searching finds what *)
(* is there, the iterator is the asked window, deleting one entry leaves   *)
(* all others in their order, whatever allocation has failed before.       *)
(***************************************************************************)
Abstract == INSTANCE OrderedDictionary WITH
    entries <- Contents("self"),
    copy <- IF walking THEN Contents("iterator") ELSE NULL

ImplementsOrderedDictionary == Abstract!Spec

(***************************************************************************)
(* No node is read before it is allocated or after it is freed, and NULL   *)
(* is not followed: loops that count to length (dictionary.c:95,           *)
(* memory.c:166) and loops that stop at NULL (dictionary.c:158) agree.     *)
(***************************************************************************)
NoBadAccess == heap.ok

(***************************************************************************)
(* Every allocated node is in one of the two dictionaries, also after an   *)
(* iterator that could not be completed, and after a dictionary was freed  *)
(* because its length said it was empty.                                   *)
(***************************************************************************)
NothingLeaked ==
    /\ heap.live = Elements(Chain(heap, "self")) \cup Elements(Chain(heap, "iterator"))
    /\ Cardinality(heap.live) = heap.dict["self"].length + heap.dict["iterator"].length

(***************************************************************************)
(* While a walk deletes entries, those of the copy it has not come to yet  *)
(* are still in the dictionary, with the same data: the messages the copy  *)
(* points to have not been freed.                                          *)
(***************************************************************************)
CopyIsCurrent ==
    LET copy == Contents("iterator")
    IN  walking =>
          /\ left > 0 => item = Chain(heap, "iterator")[Len(copy) - left + 1]
          /\ \A i \in Len(copy) - left + 1 .. Len(copy) : copy[i] \in Elements(Contents("self"))
=============================================================================
