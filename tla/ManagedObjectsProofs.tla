------------------------ MODULE ManagedObjectsProofs ------------------------
(***************************************************************************)
(* Proofs about the lists of managed objects, for any number of objects    *)
(* and a client that clones only onto fresh memory (CloneOver = FALSE).    *)
(* The links are an inductive invariant together with the types; that the  *)
(* lists hold all managed objects needs that these form no ring.           *)
(***************************************************************************)
EXTENDS ManagedObjects, TLAPS

ListInv == TypeOK /\ LinksConsistent /\ NoUseAfterFree

(* Creating an object on fresh memory keeps the types. *)
LEMMA CreateType ==
    ASSUME TypeOK, NEW k \in Kinds, NEW o \in ObjectsOf(k), NEW given \in BOOLEAN,
           NEW b \in BOOLEAN, Create(k, o, given, b), UNCHANGED handle
    PROVE  TypeOK'
<1>1. o \in Objects
  BY DEF ObjectsOf, Objects
<1>2. mem' \in [Objects -> {"none", "heap", "caller"}] /\ burrow' \in [Objects -> BOOLEAN]
  BY <1>1 DEF TypeOK, Create, Live
<1>3. CASE given \/ ~b
  BY <1>1, <1>2, <1>3 DEF TypeOK, Create
<1>4. CASE ~(given \/ ~b)
  <2>1. /\ next' = [next EXCEPT ![o] = list[k]]
        /\ prev' = [p \in Objects |-> IF p = o THEN NULL
                                      ELSE IF p = list[k] THEN o ELSE prev[p]]
        /\ list' = [list EXCEPT ![k] = o]
    BY <1>4 DEF Create
  <2>2. next' \in [Objects -> Objects \cup {NULL}] /\ prev' \in [Objects -> Objects \cup {NULL}]
    BY <1>1, <2>1 DEF TypeOK
  <2>3. /\ list' \in [Kinds -> Objects \cup {NULL}]
        /\ \A j \in Kinds : list'[j] \in ObjectsOf(j) \cup {NULL}
    BY <1>1, <2>1 DEF TypeOK
  <2> QED BY <1>2, <2>2, <2>3 DEF TypeOK
<1> QED BY <1>3, <1>4

(* A fresh object is linked in front of the list, or to itself. *)
LEMMA CreateLinks ==
    ASSUME TypeOK, LinksConsistent, NEW k \in Kinds, NEW o \in ObjectsOf(k), ~Live(o),
           NEW given \in BOOLEAN, NEW b \in BOOLEAN, Create(k, o, given, b)
    PROVE  LinksConsistent'
<1> USE DEF ObjectsOf, Objects, Kinds
<1>1. \A j \in Kinds : o \notin Managed(j)
  BY DEF Managed
<1>2. CASE given \/ ~b
  <2>1. \A j \in Kinds : Managed(j)' = Managed(j)
    BY <1>1, <1>2 DEF Create, Managed, Live, TypeOK
  <2> QED BY <1>1, <1>2, <2>1 DEF LinksConsistent, Create, TypeOK, Managed
<1>3. CASE ~given /\ b
  <2>1. list[k] # o
    BY <1>1, ConstantsAssumption DEF LinksConsistent
  <2>2. \A j \in Kinds : Managed(j)' = IF j = k THEN Managed(j) \cup {o} ELSE Managed(j)
    BY <1>1, <1>3, <2>1, ConstantsAssumption DEF Create, Managed, Live, TypeOK
  <2> QED BY <1>1, <1>3, <2>1, <2>2, ConstantsAssumption
          DEF LinksConsistent, Create, TypeOK, Managed
<1> QED BY <1>2, <1>3

(* Unlinking an object never writes to one that was freed. *)
LEMMA DestroySafe ==
    ASSUME TypeOK, LinksConsistent, NEW k \in Kinds, NEW o \in ObjectsOf(k), Live(o),
           Destroy(k, o)
    PROVE  /\ mem' = [mem EXCEPT ![o] = "none"]
           /\ burrow' = [burrow EXCEPT ![o] = FALSE]
           /\ next' = [p \in Objects |-> IF p = o THEN NULL
                         ELSE IF o \in Managed(k) /\ p = prev[o] THEN next[o] ELSE next[p]]
           /\ prev' = [p \in Objects |-> IF p = o THEN NULL
                         ELSE IF o \in Managed(k) /\ p = next[o] THEN prev[o] ELSE prev[p]]
           /\ list' = IF o \in Managed(k) /\ prev[o] = NULL
                        THEN [list EXCEPT ![k] = next[o]] ELSE list
           /\ UNCHANGED handle
<1>1. o \in Managed(k) <=> burrow[o] /\ next[o] # o
  BY DEF Managed
<1>2. \A p \in {o} \cup (IF burrow[o] /\ next[o] # o THEN {next[o], prev[o]} \ {NULL} ELSE {}) :
         Live(p)
  BY <1>1 DEF LinksConsistent, Managed
<1> QED BY <1>1, <1>2 DEF Destroy

(* Destroying an object keeps the types. *)
LEMMA DestroyType ==
    ASSUME TypeOK, LinksConsistent, NEW k \in Kinds, NEW o \in ObjectsOf(k), Live(o),
           Destroy(k, o)
    PROVE  TypeOK'
<1>1. o \in Objects
  BY DEF ObjectsOf, Objects
<1>2. next[o] \in Objects \cup {NULL} /\ prev[o] \in Objects \cup {NULL}
  BY <1>1 DEF TypeOK
<1>3. o \in Managed(k) => next[o] \in ObjectsOf(k) \cup {NULL}
  BY DEF LinksConsistent, Managed
<1>4. mem' \in [Objects -> {"none", "heap", "caller"}] /\ burrow' \in [Objects -> BOOLEAN]
  BY <1>1, DestroySafe DEF TypeOK
<1>5. next' \in [Objects -> Objects \cup {NULL}] /\ prev' \in [Objects -> Objects \cup {NULL}]
  BY <1>2, DestroySafe DEF TypeOK
<1>6. /\ list' \in [Kinds -> Objects \cup {NULL}]
      /\ \A j \in Kinds : list'[j] \in ObjectsOf(j) \cup {NULL}
  BY <1>2, <1>3, DestroySafe DEF TypeOK
<1> QED BY <1>4, <1>5, <1>6, DestroySafe DEF TypeOK

(* The neighbours of a destroyed object are linked to each other. *)
LEMMA DestroyLinks ==
    ASSUME TypeOK, LinksConsistent, NEW k \in Kinds, NEW o \in ObjectsOf(k), Live(o),
           Destroy(k, o)
    PROVE  LinksConsistent'
<1>1. o \in Objects /\ \A j \in Kinds : Managed(j) \subseteq Objects
  BY DEF ObjectsOf, Objects, Managed
<1>2. \A j \in Kinds : j # k => Managed(j) \cap Managed(k) = {} /\ o \notin Managed(j)
  BY ConstantsAssumption DEF Kinds, ObjectsOf, Managed
<1>a. mem'[o] = "none" /\ \A q \in Objects \ {o} : mem'[q] = mem[q]
  BY <1>1, DestroySafe DEF TypeOK
<1>b. \A q \in Objects \ {o} : burrow'[q] = burrow[q]
  BY <1>1, DestroySafe DEF TypeOK
<1>c. \A j \in Kinds : o \notin Managed(j)'
  BY <1>a DEF Managed, Live
<1>d. ASSUME NEW j \in Kinds, NEW q \in ObjectsOf(j), q # o
      PROVE  q \in Managed(j)' <=> Live(q) /\ burrow[q] /\ next'[q] # q
  <2>1. q \in Objects
    BY <1>d DEF ObjectsOf, Objects
  <2>2. mem'[q] = mem[q] /\ burrow'[q] = burrow[q]
    BY <1>a, <1>b, <1>d, <2>1
  <2> QED BY <1>d, <2>2 DEF Managed, Live
<1>e. \A j \in Kinds : Managed(j) \subseteq ObjectsOf(j) /\ Managed(j)' \subseteq ObjectsOf(j)
  BY DEF Managed, ObjectsOf
<1>f. \A j \in Kinds : ObjectsOf(j) \subseteq Objects
  BY DEF ObjectsOf, Objects
<1>3. CASE o \notin Managed(k)
  <2>1. \A q \in Objects \ {o} : next'[q] = next[q] /\ prev'[q] = prev[q]
    BY <1>3, DestroySafe
  <2>2. list' = list /\ \A j \in Kinds : o \notin Managed(j)
    BY <1>2, <1>3, DestroySafe
  <2>3. \A j \in Kinds : Managed(j)' = Managed(j)
    <3>1. ASSUME NEW j \in Kinds, NEW q \in ObjectsOf(j)
          PROVE  q \in Managed(j)' <=> q \in Managed(j)
      BY <1>c, <1>d, <1>f, <2>1, <2>2 DEF Managed
    <3> QED BY <1>e, <3>1
  <2>4. \A j \in Kinds : list[j] # NULL => list[j] \in Managed(j)' /\ prev'[list[j]] = NULL
    BY <1>1, <2>1, <2>2, <2>3 DEF LinksConsistent
  <2> QED BY <1>1, <2>1, <2>2, <2>3, <2>4 DEF LinksConsistent
<1>4. CASE o \in Managed(k)
  <2> DEFINE n == next[o]
             p == prev[o]
  <2>1. /\ n # o /\ p # o
        /\ n # NULL => n \in Managed(k) /\ prev[n] = o
        /\ p # NULL => p \in Managed(k) /\ next[p] = o
        /\ p = NULL => list[k] = o
    BY <1>4 DEF LinksConsistent, Managed
  <2>2. \A q \in Objects \ {o} : /\ next'[q] = IF q = p THEN n ELSE next[q]
                                 /\ prev'[q] = IF q = n THEN p ELSE prev[q]
    BY <1>4, DestroySafe
  <2>3. \A j \in Kinds : Managed(j)' = IF j = k THEN Managed(j) \ ({o} \cup (IF p = n THEN {p} ELSE {})) ELSE Managed(j)
    <3>1. ASSUME NEW j \in Kinds, NEW q \in ObjectsOf(j), q # o
          PROVE  q \in Managed(j)' <=> q \in Managed(j) /\ ~(j = k /\ p = n /\ q = p)
      <4>1. q \in Objects \ {o}
        BY <1>f, <3>1
      <4>2. CASE q # p
        BY <1>d, <2>2, <3>1, <4>1, <4>2 DEF Managed
      <4>3. CASE q = p
        <5>1. q # NULL
          BY <1>f, ConstantsAssumption
        <5>2. q \in Managed(k) /\ next[q] = o
          BY <2>1, <4>3, <5>1
        <5>3. j = k
          BY <1>2, <1>e, <5>2, ConstantsAssumption DEF Kinds, ObjectsOf
        <5>4. Live(q) /\ burrow[q] /\ next'[q] = n
          BY <2>2, <4>1, <4>3, <5>2 DEF Managed
        <5> QED BY <1>d, <3>1, <4>3, <5>2, <5>3, <5>4
      <4> QED BY <4>2, <4>3
    <3>2. \A j \in Kinds : j # k => o \notin Managed(j)
      BY <1>2
    <3> HIDE DEF n, p
    <3> QED BY <1>c, <1>e, <3>1, <3>2
  <2> HIDE DEF n, p
  <2>4. list' = IF p = NULL THEN [list EXCEPT ![k] = n] ELSE list
    BY <1>4, DestroySafe DEF n, p
  <2>5. ASSUME NEW j \in Kinds, j # k
        PROVE  /\ list'[j] # NULL => list'[j] \in Managed(j)' /\ prev'[list'[j]] = NULL
               /\ \A q \in Managed(j)' :
                     /\ next'[q] # NULL => next'[q] \in Managed(j)' /\ prev'[next'[q]] = q
                     /\ prev'[q] # NULL => prev'[q] \in Managed(j)' /\ next'[prev'[q]] = q
                     /\ prev'[q] = NULL => list'[j] = q
    BY <1>1, <1>2, <2>1, <2>2, <2>3, <2>4, <2>5, ConstantsAssumption DEF LinksConsistent, TypeOK
  <2>6. list'[k] # NULL => list'[k] \in Managed(k)' /\ prev'[list'[k]] = NULL
    BY <1>1, <1>4, <2>1, <2>2, <2>3, <2>4, ConstantsAssumption DEF LinksConsistent, TypeOK
  <2>7. ASSUME NEW q \in Managed(k)'
        PROVE  /\ next'[q] # NULL => next'[q] \in Managed(k)' /\ prev'[next'[q]] = q
               /\ prev'[q] # NULL => prev'[q] \in Managed(k)' /\ next'[prev'[q]] = q
               /\ prev'[q] = NULL => list'[k] = q
    <3>1. q \in Managed(k) /\ q \in Objects \ {o} /\ q # NULL /\ ~(p = n /\ q = p)
      BY <1>1, <2>3, <2>7, ConstantsAssumption
    <3>2. /\ next'[q] = IF q = p THEN n ELSE next[q]
          /\ prev'[q] = IF q = n THEN p ELSE prev[q]
      BY <2>2, <3>1
    <3>3. /\ next[q] # NULL => next[q] \in Managed(k) /\ prev[next[q]] = q
          /\ prev[q] # NULL => prev[q] \in Managed(k) /\ next[prev[q]] = q
          /\ prev[q] = NULL => list[k] = q
      BY <3>1 DEF LinksConsistent
    <3>4. next[q] = o => q = p
      BY <1>1, <3>3, ConstantsAssumption DEF p
    <3>5. prev[q] = o => q = n
      BY <1>1, <3>3, ConstantsAssumption DEF n
    <3>6. next'[q] # NULL => next'[q] \in Managed(k)' /\ prev'[next'[q]] = q
      <4>1. CASE q = p
        BY <1>1, <2>1, <2>2, <2>3, <3>1, <3>2, <4>1
      <4>2. CASE q # p /\ next[q] # NULL
        <5>1. next[q] # o /\ next[q] # n
          BY <2>1, <3>1, <3>3, <3>4, <4>2
        <5>2. next[q] \in Managed(k)'
          BY <2>3, <3>3, <4>2, <5>1
        <5> QED BY <1>1, <2>2, <3>2, <3>3, <4>2, <5>1, <5>2
      <4> QED BY <3>2, <4>1, <4>2
    <3>7. prev'[q] # NULL => prev'[q] \in Managed(k)' /\ next'[prev'[q]] = q
      <4>1. CASE q = n
        BY <1>1, <2>1, <2>2, <2>3, <3>1, <3>2, <4>1
      <4>2. CASE q # n /\ prev[q] # NULL
        <5>1. prev[q] # o /\ prev[q] # p
          BY <2>1, <3>1, <3>3, <3>5, <4>2
        <5>2. prev[q] \in Managed(k)'
          BY <2>3, <3>3, <4>2, <5>1
        <5> QED BY <1>1, <2>2, <3>2, <3>3, <4>2, <5>1, <5>2
      <4> QED BY <3>2, <4>1, <4>2
    <3>8. prev'[q] = NULL => list'[k] = q
      BY <2>1, <2>4, <3>1, <3>2, <3>3 DEF TypeOK
    <3> QED BY <3>6, <3>7, <3>8
  <2> QED BY <2>5, <2>6, <2>7 DEF LinksConsistent
<1> QED BY <1>3, <1>4

(***************************************************************************)
(* What a step is: an object is created on fresh memory, one that exists   *)
(* is destroyed, by the client or by burrow_destroy, or the handle moves   *)
(* on, past its loops only when both lists are empty.                      *)
(***************************************************************************)
CreateStep(k, o, given, b) ==
    ~Live(o) /\ Usable(b) /\ Create(k, o, given, b) /\ UNCHANGED handle

FreeStep(k, o) ==
    Live(o) /\ (handle = "destroying" \/ Usable(burrow[o])) /\ Destroy(k, o)

HandleStep ==
    /\ UNCHANGED <<mem, burrow, next, prev, list>>
    /\ \/ handle' = handle
       \/ handle = "live" /\ handle' = "destroying"
       \/ handle = "destroying" /\ handle' = "destroyed" /\ \A k \in Kinds : list[k] = NULL

LEMMA Steps ==
    ASSUME CloneOver = FALSE, ListInv, [Next]_vars
    PROVE  \/ \E k \in Kinds : \E o \in ObjectsOf(k) : \E given, b \in BOOLEAN :
                  CreateStep(k, o, given, b)
           \/ \E k \in Kinds : \E o \in ObjectsOf(k) : FreeStep(k, o)
           \/ HandleStep
<1>1. /\ "attributes" \in Kinds /\ ObjectsOf("attributes") = Attributes
      /\ "filters" \in Kinds /\ ObjectsOf("filters") = Filters
  BY DEF Kinds, ObjectsOf
<1>2. \A k \in Kinds : list[k] # NULL => list[k] \in ObjectsOf(k) /\ Live(list[k])
  BY DEF ListInv, LinksConsistent, Managed
<1>3. \A o \in Objects : burrow[o] \in BOOLEAN
  BY DEF ListInv, TypeOK
<1>4. CASE ClientStep
  <2>1. ASSUME NEW o \in Attributes, NEW given \in BOOLEAN, NEW b \in BOOLEAN,
               burrow_attributes_create(o, given, b)
        PROVE  CreateStep("attributes", o, given, b)
    BY <2>1 DEF burrow_attributes_create, CreateStep
  <2>2. ASSUME NEW o \in Filters, NEW given \in BOOLEAN, NEW b \in BOOLEAN,
               burrow_filters_create(o, given, b)
        PROVE  CreateStep("filters", o, given, b)
    BY <2>2 DEF burrow_filters_create, CreateStep
  <2>3. ASSUME NEW o \in Attributes, NEW src \in Attributes, NEW given \in BOOLEAN,
               burrow_attributes_clone(o, given, src)
        PROVE  CreateStep("attributes", o, given, burrow[src])
    BY <2>3 DEF burrow_attributes_clone, CanClone, CreateStep
  <2>4. ASSUME NEW o \in Filters, NEW src \in Filters, NEW given \in BOOLEAN,
               burrow_filters_clone(o, given, src)
        PROVE  CreateStep("filters", o, given, burrow[src])
    BY <2>4 DEF burrow_filters_clone, CanClone, CreateStep
  <2>5. ASSUME NEW o \in Attributes, burrow_attributes_destroy(o)
        PROVE  FreeStep("attributes", o)
    BY <2>5 DEF burrow_attributes_destroy, FreeStep
  <2>6. ASSUME NEW o \in Filters, burrow_filters_destroy(o)
        PROVE  FreeStep("filters", o)
    BY <2>6 DEF burrow_filters_destroy, FreeStep
  <2>7. burrow_destroy => HandleStep
    BY DEF burrow_destroy, HandleStep
  <2>8. Attributes \subseteq Objects /\ Filters \subseteq Objects
    BY DEF Objects
  <2> QED BY <1>1, <1>3, <1>4, <2>1, <2>2, <2>3, <2>4, <2>5, <2>6, <2>7, <2>8 DEF ClientStep
<1>5. CASE DestroyAttributes
  <2>1. FreeStep("attributes", list["attributes"])
    BY <1>1, <1>2, <1>5 DEF DestroyAttributes, FreeStep
  <2> QED BY <1>1, <1>2, <1>5, <2>1 DEF DestroyAttributes
<1>6. CASE DestroyFilters
  <2>1. FreeStep("filters", list["filters"])
    BY <1>1, <1>2, <1>6 DEF DestroyFilters, FreeStep
  <2> QED BY <1>1, <1>2, <1>6, <2>1 DEF DestroyFilters
<1>7. CASE Destroyed
  BY <1>7 DEF Destroyed, HandleStep
<1>8. CASE UNCHANGED vars
  BY <1>8 DEF vars, HandleStep
<1> QED BY <1>4, <1>5, <1>6, <1>7, <1>8 DEF Next, DestroyStep

(* Nothing exists at first. *)
LEMMA InitListInv == Init => ListInv
<1> SUFFICES ASSUME Init PROVE ListInv
  OBVIOUS
<1>1. TypeOK
  BY DEF Init, TypeOK
<1>2. \A k \in Kinds : Managed(k) = {}
  BY DEF Init, Managed, Live, ObjectsOf, Objects
<1> QED BY <1>1, <1>2 DEF Init, ListInv, LinksConsistent, NoUseAfterFree

(* Each call keeps the lists in order. *)
LEMMA NextListInv ==
    ASSUME CloneOver = FALSE, ListInv, [Next]_vars
    PROVE  ListInv'
<1>1. ASSUME NEW k \in Kinds, NEW o \in ObjectsOf(k), NEW given \in BOOLEAN,
             NEW b \in BOOLEAN, CreateStep(k, o, given, b)
      PROVE  ListInv'
  BY <1>1, CreateType, CreateLinks DEF ListInv, CreateStep, NoUseAfterFree
<1>2. ASSUME NEW k \in Kinds, NEW o \in ObjectsOf(k), FreeStep(k, o)
      PROVE  ListInv'
  BY <1>2, DestroyType, DestroyLinks, DestroySafe DEF ListInv, FreeStep, NoUseAfterFree
<1>3. CASE HandleStep
  <2>1. \A k \in Kinds : Managed(k)' = Managed(k)
    BY <1>3 DEF HandleStep, Managed, Live, ObjectsOf
  <2>2. handle' \in {"live", "destroying", "destroyed"}
    BY <1>3 DEF HandleStep, ListInv, TypeOK, NoUseAfterFree
  <2>3. TypeOK'
    BY <1>3, <2>2 DEF HandleStep, ListInv, TypeOK
  <2> QED BY <1>3, <2>1, <2>2, <2>3 DEF HandleStep, ListInv, LinksConsistent, NoUseAfterFree
<1> QED BY <1>1, <1>2, <1>3, Steps

-----------------------------------------------------------------------------
(***************************************************************************)
(* LinksConsistent would allow a ring of managed objects apart from the    *)
(* list, which burrow_destroy never comes to.  There is none: going back   *)
(* along prev one does not stay among managed objects for ever.            *)
(***************************************************************************)
Grounded ==
    \A k \in Kinds : \A S \in SUBSET Managed(k) : (\A o \in S : prev[o] \in S) => S = {}

(* Objects managed and links the same, there is still no ring. *)
LEMMA SameIsGrounded ==
    ASSUME Grounded, \A k \in Kinds : Managed(k)' \subseteq Managed(k),
           \A k \in Kinds : \A o \in Managed(k)' : prev'[o] = prev[o]
    PROVE  Grounded'
BY DEF Grounded

(* A new object is put before the first, so it closes no ring. *)
LEMMA CreateGrounded ==
    ASSUME TypeOK, LinksConsistent, Grounded, NEW k \in Kinds, NEW o \in ObjectsOf(k), ~Live(o),
           NEW given \in BOOLEAN, NEW b \in BOOLEAN, Create(k, o, given, b)
    PROVE  Grounded'
<1> USE DEF ObjectsOf, Objects, Kinds
<1>1. \A j \in Kinds : o \notin Managed(j)
  BY DEF Managed
<1>2. CASE given \/ ~b
  <2>1. \A j \in Kinds : Managed(j)' = Managed(j)
    BY <1>1, <1>2 DEF Create, Managed, Live, TypeOK
  <2>2. \A j \in Kinds : \A q \in Managed(j)' : prev'[q] = prev[q]
    BY <1>1, <1>2, <2>1 DEF Create, TypeOK, Managed
  <2> QED BY <2>1, <2>2, SameIsGrounded
<1>3. CASE ~given /\ b
  <2>1. \A j \in Kinds : Managed(j)' \subseteq Managed(j) \cup {o}
    BY <1>1, <1>3, ConstantsAssumption DEF Create, Managed, Live, TypeOK
  <2>2. prev' = [p \in Objects |-> IF p = o THEN NULL ELSE IF p = list[k] THEN o ELSE prev[p]]
    BY <1>3 DEF Create
  <2>3. ASSUME NEW j \in Kinds, NEW S \in SUBSET Managed(j)', \A q \in S : prev'[q] \in S
        PROVE  S = {}
    <3>1. S \subseteq Objects /\ NULL \notin S
      BY ConstantsAssumption DEF Managed
    <3>2. o \notin S
      BY <2>2, <2>3, <3>1
    <3>3. \A q \in S : prev'[q] = prev[q]
      BY <2>2, <2>3, <3>1, <3>2
    <3>4. S \in SUBSET Managed(j)
      BY <2>1, <3>2
    <3> QED BY <2>3, <3>3, <3>4 DEF Grounded
  <2> QED BY <2>3 DEF Grounded
<1> QED BY <1>2, <1>3

(* A ring around a destroyed object would have been one with it. *)
LEMMA DestroyGrounded ==
    ASSUME TypeOK, LinksConsistent, Grounded, NEW k \in Kinds, NEW o \in ObjectsOf(k), Live(o),
           Destroy(k, o)
    PROVE  Grounded' /\ \A j \in Kinds : Managed(j)' \subseteq Managed(j)
<1>1. o \in Objects /\ \A j \in Kinds : Managed(j) \subseteq Objects
  BY DEF ObjectsOf, Objects, Managed
<1>2. /\ mem' = [mem EXCEPT ![o] = "none"] /\ burrow' = [burrow EXCEPT ![o] = FALSE]
      /\ next' = [p \in Objects |-> IF p = o THEN NULL
                     ELSE IF o \in Managed(k) /\ p = prev[o] THEN next[o] ELSE next[p]]
      /\ prev' = [p \in Objects |-> IF p = o THEN NULL
                     ELSE IF o \in Managed(k) /\ p = next[o] THEN prev[o] ELSE prev[p]]
  BY DestroySafe
<1>3. \A j \in Kinds : Managed(j)' \subseteq Managed(j) \ {o}
  <2> SUFFICES ASSUME NEW j \in Kinds, NEW q \in Managed(j)'
               PROVE  q \in Managed(j) /\ q # o
    OBVIOUS
  <2>1. q \in ObjectsOf(j) /\ q \in Objects /\ mem'[q] # "none" /\ burrow'[q] /\ next'[q] # q
    BY DEF Managed, Live, ObjectsOf, Objects
  <2>2. q # o /\ Live(q) /\ burrow[q]
    BY <1>1, <1>2, <2>1 DEF TypeOK, Live
  <2>3. next[q] # q
    <3>1. CASE o \in Managed(k) /\ q = prev[o]
      BY <2>1, <2>2, <3>1, ConstantsAssumption DEF LinksConsistent
    <3>2. CASE ~(o \in Managed(k) /\ q = prev[o])
      BY <1>2, <2>1, <2>2, <3>2
    <3> QED BY <3>1, <3>2
  <2> QED BY <2>1, <2>2, <2>3 DEF Managed
<1>4. ASSUME NEW j \in Kinds, NEW S \in SUBSET Managed(j)', \A q \in S : prev'[q] \in S
      PROVE  S = {}
  <2>1. S \in SUBSET Managed(j) /\ o \notin S /\ S \subseteq Objects
    BY <1>1, <1>3
  <2>2. CASE o \in Managed(k) /\ next[o] \in S
    <3>1. next[o] \in Managed(k) /\ next[o] # NULL /\ prev[next[o]] = o
      BY <2>1, <2>2, ConstantsAssumption DEF LinksConsistent
    <3>2. j = k
      BY <2>1, <2>2, <3>1, ConstantsAssumption DEF Managed, ObjectsOf, Kinds
    <3>3. prev[o] \in S
      BY <1>2, <1>4, <2>1, <2>2
    <3>4. \A q \in S \cup {o} : prev[q] \in S \cup {o}
      BY <1>2, <1>4, <2>1, <2>2, <3>1, <3>3
    <3>5. S \cup {o} \in SUBSET Managed(k)
      BY <2>1, <2>2, <3>2
    <3> QED BY <3>4, <3>5 DEF Grounded
  <2>3. CASE ~(o \in Managed(k) /\ next[o] \in S)
    <3>1. \A q \in S : prev[q] \in S
      BY <1>2, <1>4, <2>1, <2>3
    <3> QED BY <2>1, <3>1 DEF Grounded
  <2> QED BY <2>2, <2>3
<1> QED BY <1>3, <1>4 DEF Grounded

(* With no ring, lists that are empty mean that nothing is managed. *)
LEMMA EmptyListsManageNothing ==
    ASSUME LinksConsistent, Grounded, \A k \in Kinds : list[k] = NULL, NEW k \in Kinds
    PROVE  Managed(k) = {}
<1>1. \A o \in Managed(k) : prev[o] \in Managed(k)
  <2>1. NULL \notin Managed(k)
    BY ConstantsAssumption DEF Managed, ObjectsOf, Objects, Kinds
  <2> QED BY <2>1 DEF LinksConsistent
<1> QED BY <1>1 DEF Grounded

LeakInv == ListInv /\ Grounded /\ NothingLeaked

(* After its loops the handle manages nothing, and nothing new is given to it. *)
LEMMA NextLeakInv ==
    ASSUME CloneOver = FALSE, LeakInv, [Next]_vars
    PROVE  LeakInv'
<1>1. ListInv'
  BY NextListInv DEF LeakInv
<1>2. ASSUME NEW k \in Kinds, NEW o \in ObjectsOf(k), NEW given \in BOOLEAN,
             NEW b \in BOOLEAN, CreateStep(k, o, given, b)
      PROVE  Grounded' /\ NothingLeaked'
  <2>1. Grounded'
    BY <1>2, CreateGrounded DEF LeakInv, ListInv, CreateStep
  <2>2. ASSUME handle = "destroyed", NEW j \in Kinds
        PROVE  Managed(j)' = {}
    <3>1. ~b
      BY <1>2, <2>2 DEF CreateStep, Usable
    <3>2. \A q \in Managed(j)' : q \in Managed(j)
      BY <1>2, <3>1 DEF CreateStep, Create, Managed, Live, LeakInv, ListInv, TypeOK,
                        Objects, ObjectsOf, Kinds
    <3> QED BY <2>2, <3>2 DEF LeakInv, NothingLeaked
  <2> QED BY <1>2, <2>1, <2>2 DEF NothingLeaked, CreateStep
<1>3. ASSUME NEW k \in Kinds, NEW o \in ObjectsOf(k), FreeStep(k, o)
      PROVE  Grounded' /\ NothingLeaked'
  <2>1. Grounded' /\ \A j \in Kinds : Managed(j)' \subseteq Managed(j)
    BY <1>3, DestroyGrounded DEF LeakInv, ListInv, FreeStep
  <2>2. UNCHANGED handle
    BY <1>3, DestroySafe DEF LeakInv, ListInv, FreeStep
  <2> QED BY <2>1, <2>2 DEF LeakInv, NothingLeaked
<1>4. ASSUME HandleStep PROVE Grounded' /\ NothingLeaked'
  <2>1. \A k \in Kinds : Managed(k)' = Managed(k)
    BY <1>4 DEF HandleStep, Managed, Live, ObjectsOf
  <2>2. Grounded'
    BY <1>4, <2>1, SameIsGrounded DEF HandleStep, LeakInv
  <2>3. NothingLeaked'
    BY <1>4, <2>1, EmptyListsManageNothing DEF HandleStep, LeakInv, ListInv, NothingLeaked
  <2> QED BY <2>2, <2>3
<1> QED BY <1>1, <1>2, <1>3, <1>4, Steps DEF LeakInv

-----------------------------------------------------------------------------
(* Every link leads to an object or to NULL, a list's to one of its kind. *)
THEOREM TypeCorrect ==
    ASSUME CloneOver = FALSE PROVE Spec => []TypeOK
<1>1. ListInv => TypeOK
  BY DEF ListInv
<1> QED BY <1>1, InitListInv, NextListInv, PTL DEF Spec

(* The lists stay well linked, whatever a client that clones onto fresh    *)
(* memory does (attributes.c:42-50, 81-89; filters.c alike).               *)
THEOREM ListsStayLinked ==
    ASSUME CloneOver = FALSE PROVE Spec => []LinksConsistent
<1>1. ListInv => LinksConsistent
  BY DEF ListInv
<1> QED BY <1>1, InitListInv, NextListInv, PTL DEF Spec

(* Such a client never makes the library free an object twice or write to  *)
(* a freed one, in burrow_destroy included (burrow.c:344-350).             *)
THEOREM NeverUsesFreed ==
    ASSUME CloneOver = FALSE PROVE Spec => []NoUseAfterFree
<1>1. ListInv => NoUseAfterFree
  BY DEF ListInv
<1> QED BY <1>1, InitListInv, NextListInv, PTL DEF Spec

(***************************************************************************)
(* When burrow_destroy has returned, the handle manages no object any      *)
(* more: its loops follow the list, and no object is outside of it         *)
(* (burrow.c:344-350).                                                     *)
(***************************************************************************)
THEOREM DestroyFreesAll ==
    ASSUME CloneOver = FALSE PROVE Spec => []NothingLeaked
<1>1. Init => LeakInv
  <2> SUFFICES ASSUME Init PROVE LeakInv
    OBVIOUS
  <2>1. \A k \in Kinds : Managed(k) = {}
    BY DEF Init, Managed, Live, ObjectsOf, Objects
  <2> QED BY <2>1, InitListInv DEF LeakInv, Grounded, NothingLeaked
<1>2. LeakInv => NothingLeaked
  BY DEF LeakInv
<1> QED BY <1>1, <1>2, NextLeakInv, PTL DEF Spec
=============================================================================
