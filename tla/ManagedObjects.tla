--------------------------- MODULE ManagedObjects ---------------------------
(***************************************************************************)
(* Attributes and filters objects, libburrow/attributes.c and filters.c,   *)
(* and the two lists a handle keeps of those it manages.  The two files    *)
(* are one algorithm: doubly linked lists, with an object that is in no    *)
(* list pointing to itself.  What the objects hold (ttl, limit, ...) is    *)
(* left out.                                                               *)
(***************************************************************************)
EXTENDS Naturals

CONSTANTS
    Attributes, Filters, \* addresses of the objects of each kind
    NULL,
    CloneOver            \* the client also clones onto an object that exists

Objects == Attributes \cup Filters
Kinds == {"attributes", "filters"}
ObjectsOf(k) == IF k = "attributes" THEN Attributes ELSE Filters

ASSUME ConstantsAssumption ==
    /\ Attributes \cap Filters = {}
    /\ NULL \notin Objects
    /\ CloneOver \in BOOLEAN

VARIABLES
    mem,    \* mem[o]: what is at o: nothing, the library's memory, the caller's
    burrow, \* burrow[o]: o->burrow is not NULL
    next,   \* o->next
    prev,   \* o->prev
    list,   \* burrow->attributes_list and burrow->filters_list
    handle  \* the handle: "live", "destroying", "destroyed"; or "crashed"

vars == <<mem, burrow, next, prev, list, handle>>

TypeOK ==
    /\ mem \in [Objects -> {"none", "heap", "caller"}]
    /\ burrow \in [Objects -> BOOLEAN]
    /\ next \in [Objects -> Objects \cup {NULL}]
    /\ prev \in [Objects -> Objects \cup {NULL}]
    /\ list \in [Kinds -> Objects \cup {NULL}]
    /\ \A k \in Kinds : list[k] \in ObjectsOf(k) \cup {NULL}
    /\ handle \in {"live", "destroying", "destroyed", "crashed"}

Init ==
    /\ mem = [o \in Objects |-> "none"]
    /\ burrow = [o \in Objects |-> FALSE]
    /\ next = [o \in Objects |-> NULL]
    /\ prev = [o \in Objects |-> NULL]
    /\ list = [k \in Kinds |-> NULL]
    /\ handle = "live"

Live(o) == mem[o] # "none"

-----------------------------------------------------------------------------
(* Mutant: the old first object does not learn that it has a predecessor. *)
CreateNoBackLink(k, o, given, b) ==
    /\ mem' = [mem EXCEPT ![o] = IF ~given THEN "heap" ELSE "caller"]
    /\ burrow' = [burrow EXCEPT ![o] = b]
    /\ next' = [next EXCEPT ![o] = IF given \/ ~b THEN o ELSE list[k]]
    /\ prev' = [prev EXCEPT ![o] = IF given \/ ~b THEN o ELSE NULL]
    /\ list' = [list EXCEPT ![k] = IF given \/ ~b THEN @ ELSE o]

(* Mutant: a filters object is put into the list of attributes. *)
CreateInWrongList(k, o, given, b) ==
    /\ mem' = [mem EXCEPT ![o] = IF ~given THEN "heap" ELSE "caller"]
    /\ burrow' = [burrow EXCEPT ![o] = b]
    /\ next' = [next EXCEPT ![o] = IF given \/ ~b THEN o ELSE NULL]
    /\ prev' = [prev EXCEPT ![o] = IF given \/ ~b THEN o ELSE NULL]
    /\ list' = [list EXCEPT !["attributes"] = IF given \/ ~b THEN @ ELSE o]

(***************************************************************************)
(* The create functions, for the object at o.  given: o is the caller's    *)
(* dest argument; b: a handle is passed.  Only without a dest and with a   *)
(* handle is the object managed: put in front of the handle's list.        *)
(***************************************************************************)
Create(k, o, given, b) ==
    /\ mem' = [mem EXCEPT ![o] = IF ~given THEN "heap" ELSE IF Live(o) THEN @ ELSE "caller"]
    /\ burrow' = [burrow EXCEPT ![o] = b]
    /\ IF given \/ ~b
         THEN /\ next' = [next EXCEPT ![o] = o]
              /\ prev' = [prev EXCEPT ![o] = o]
              /\ UNCHANGED list
         ELSE /\ next' = [next EXCEPT ![o] = list[k]]
              /\ prev' = [p \in Objects |-> IF p = o THEN NULL
                                            ELSE IF p = list[k] THEN o ELSE prev[p]]
              /\ list' = [list EXCEPT ![k] = o]

(* Mutant: the handle's list is not moved on when its first object goes. *)
DestroyKeepsHead(k, o) ==
    /\ handle' = IF Live(o) THEN handle ELSE "crashed"
    /\ mem' = [mem EXCEPT ![o] = "none"]
    /\ burrow' = [burrow EXCEPT ![o] = FALSE]
    /\ next' = [p \in Objects |-> IF p = o THEN NULL ELSE IF p = prev[o] THEN next[o] ELSE next[p]]
    /\ prev' = [p \in Objects |-> IF p = o THEN NULL ELSE IF p = next[o] THEN prev[o] ELSE prev[p]]
    /\ UNCHANGED list

(***************************************************************************)
(* The destroy functions: a managed object is unlinked, then o is freed.   *)
(* If o, or a neighbour that unlinking writes to, has been freed before,   *)
(* the program is taken to crash; what freed memory holds is then never    *)
(* looked at, and is reset here.                                           *)
(***************************************************************************)
Destroy(k, o) ==
    LET managed == burrow[o] /\ next[o] # o
        touched == {o} \cup (IF managed THEN {next[o], prev[o]} \ {NULL} ELSE {})
    IN  IF \A p \in touched : Live(p)
          THEN /\ mem' = [mem EXCEPT ![o] = "none"]
               /\ burrow' = [burrow EXCEPT ![o] = FALSE]
               /\ next' = [p \in Objects |-> IF p = o THEN NULL
                             ELSE IF managed /\ p = prev[o] THEN next[o] ELSE next[p]]
               /\ prev' = [p \in Objects |-> IF p = o THEN NULL
                             ELSE IF managed /\ p = next[o] THEN prev[o] ELSE prev[p]]
               /\ list' = IF managed /\ prev[o] = NULL
                            THEN [list EXCEPT ![k] = next[o]] ELSE list
               /\ UNCHANGED handle
          ELSE handle' = "crashed" /\ UNCHANGED <<mem, burrow, next, prev, list>>

-----------------------------------------------------------------------------
(***************************************************************************)
(* The client's calls.  It passes a handle, and objects that refer to one, *)
(* only while the handle is live; it creates onto memory that holds no     *)
(* object (the headers forbid re-initialising one).                        *)
(***************************************************************************)
Usable(b) == handle = "live" \/ (handle = "destroyed" /\ ~b)

burrow_attributes_create(o, given, b) ==
    /\ ~Live(o) /\ Usable(b)
    /\ Create("attributes", o, given, b)
    /\ UNCHANGED handle

burrow_filters_create(o, given, b) ==
    /\ ~Live(o) /\ Usable(b)
    /\ Create("filters", o, given, b)
    /\ UNCHANGED handle

(* A clone is created with the source's handle, then the values are copied. *)
CanClone(o, given, src) ==
    /\ Live(src) /\ src # o /\ Usable(burrow[src])
    /\ Live(o) => given /\ CloneOver

burrow_attributes_clone(o, given, src) ==
    /\ CanClone(o, given, src)
    /\ Create("attributes", o, given, burrow[src])
    /\ UNCHANGED handle

burrow_filters_clone(o, given, src) ==
    /\ CanClone(o, given, src)
    /\ Create("filters", o, given, burrow[src])
    /\ UNCHANGED handle

burrow_attributes_destroy(o) ==
    /\ Live(o) /\ Usable(burrow[o])
    /\ Destroy("attributes", o)

burrow_filters_destroy(o) ==
    /\ Live(o) /\ Usable(burrow[o])
    /\ Destroy("filters", o)

(* burrow_destroy: the backend, then the managed objects one by one. *)
burrow_destroy ==
    /\ handle = "live"
    /\ handle' = "destroying"
    /\ UNCHANGED <<mem, burrow, next, prev, list>>

DestroyAttributes ==
    /\ handle = "destroying"
    /\ list["attributes"] # NULL
    /\ Destroy("attributes", list["attributes"])

DestroyFilters ==
    /\ handle = "destroying"
    /\ list["attributes"] = NULL
    /\ list["filters"] # NULL
    /\ Destroy("filters", list["filters"])

(* Mutant: the loop over the filters is missing. *)
DestroyedTooEarly ==
    /\ handle = "destroying"
    /\ list["attributes"] = NULL
    /\ handle' = "destroyed"
    /\ UNCHANGED <<mem, burrow, next, prev, list>>

Destroyed ==
    /\ handle = "destroying"
    /\ \A k \in Kinds : list[k] = NULL
    /\ handle' = "destroyed"
    /\ UNCHANGED <<mem, burrow, next, prev, list>>

ClientStep ==
    \/ \E o \in Attributes, given, b \in BOOLEAN : burrow_attributes_create(o, given, b)
    \/ \E o \in Filters, given, b \in BOOLEAN : burrow_filters_create(o, given, b)
    \/ \E o, src \in Attributes, given \in BOOLEAN : burrow_attributes_clone(o, given, src)
    \/ \E o, src \in Filters, given \in BOOLEAN : burrow_filters_clone(o, given, src)
    \/ \E o \in Attributes : burrow_attributes_destroy(o)
    \/ \E o \in Filters : burrow_filters_destroy(o)
    \/ burrow_destroy

DestroyStep == DestroyAttributes \/ DestroyFilters \/ Destroyed

Next == ClientStep \/ DestroyStep

(* A call of burrow_destroy does not stop half-way. *)
Spec == Init /\ [][Next]_vars /\ WF_vars(DestroyStep)

-----------------------------------------------------------------------------
(* What makes the lists correct. *)

Managed(k) == {o \in ObjectsOf(k) : Live(o) /\ burrow[o] /\ next[o] # o}

(***************************************************************************)
(* Whatever is created and destroyed in whichever order, next and prev of  *)
(* the managed objects stay each other's inverse, only the first object    *)
(* has no predecessor, and no link leads out of the managed objects.       *)
(***************************************************************************)
LinksConsistent ==
    \A k \in Kinds :
       /\ list[k] # NULL => list[k] \in Managed(k) /\ prev[list[k]] = NULL
       /\ \A o \in Managed(k) :
             /\ next[o] # NULL => next[o] \in Managed(k) /\ prev[next[o]] = o
             /\ prev[o] # NULL => prev[o] \in Managed(k) /\ next[prev[o]] = o
             /\ prev[o] = NULL => list[k] = o

(* No object is freed twice, or written to after it was freed (attributes.c:83-91). *)
NoUseAfterFree == handle # "crashed"

(* When burrow_destroy is done, no managed object is left behind (burrow.c:344-350). *)
NothingLeaked == handle = "destroyed" => \A k \in Kinds : Managed(k) = {}

(* The loops of burrow_destroy end: each round shortens a list. *)
DestroyEnds == handle = "destroying" ~> handle = "destroyed"
=============================================================================
