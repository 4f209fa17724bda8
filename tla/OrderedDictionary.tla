------------------------- MODULE OrderedDictionary -------------------------
(***************************************************************************)
(* What dictionary.c promises, without nodes and links: entries in         *)
(* insertion order, found by key, no key twice, and a copy of a window of  *)
(* them that a walk goes through while entries are removed.                *)
(***************************************************************************)
EXTENDS KeySequences

CONSTANTS Keys, Data, NULL, Limits

VARIABLES
    entries, \* sequence of [key, data]
    copy,    \* the window a walk goes through, NULL if there is none
    call     \* the last call: [fn, key, arg, ok]; ok: there was enough memory

vars == <<entries, copy, call>>

Call(fn, key, arg, ok) == [fn |-> fn, key |-> key, arg |-> arg, ok |-> ok]

Init == entries = <<>> /\ copy = NULL /\ call = Call("init", NULL, NULL, TRUE)

KeysOf(s) == [i \in DOMAIN s |-> s[i].key]
Has(k) == k \in Elements(KeysOf(entries))

Insert(k, d) == ~Has(k) /\ entries' = Append(entries, [key |-> k, data |-> d])

(* Put k, replacing what is there; an insertion without memory for d has data NULL. *)
Put(k, d) ==
    /\ copy = NULL
    /\ \/ /\ call' = Call("put", k, d, TRUE)
          /\ \/ Insert(k, d)
             \/ /\ Has(k)
                /\ entries' = [i \in DOMAIN entries |->
                                 IF entries[i].key = k THEN [key |-> k, data |-> d]
                                                       ELSE entries[i]]
       \/ /\ call' = Call("put", k, d, FALSE)
          /\ ~Has(k)
          /\ UNCHANGED entries
    /\ UNCHANGED copy

(* Find k, or create it. *)
Get(k, d) ==
    /\ copy = NULL
    /\ \/ call' = Call("get", k, d, TRUE) /\ (Insert(k, d) \/ (Has(k) /\ UNCHANGED entries))
       \/ call' = Call("get", k, d, FALSE) /\ ~Has(k) /\ (Insert(k, NULL) \/ UNCHANGED entries)
    /\ UNCHANGED copy

Remove(k) ==
    /\ call' = Call("remove", k, NULL, TRUE)
    /\ entries' = Kept(entries, {e \in Elements(entries) : e.key # k})
    /\ UNCHANGED copy

(* Without enough memory the copy is empty, or there is none. *)
Copy(marker, limit) ==
    /\ copy = NULL
    /\ \/ /\ call' = Call("copy", marker, limit, TRUE)
          /\ copy' = SubSeq(entries, WindowStart(KeysOf(entries), marker),
                                     WindowEnd(KeysOf(entries), marker, limit))
       \/ /\ call' = Call("copy", marker, limit, FALSE)
          /\ copy' \in {<<>>, NULL}
    /\ UNCHANGED entries

(* The walk passes over an entry, which it keeps. *)
Keep(k) == call' = Call("keep", k, NULL, TRUE) /\ UNCHANGED <<entries, copy>>

DropCopy ==
    /\ copy # NULL
    /\ copy' = NULL
    /\ call' = Call("drop", NULL, NULL, TRUE)
    /\ UNCHANGED entries

Next ==
    \/ \E k \in Keys : Remove(k) \/ Keep(k) \/ \E d \in Data : Put(k, d) \/ Get(k, d)
    \/ \E marker \in Keys \cup {NULL}, limit \in Limits : Copy(marker, limit)
    \/ DropCopy

Spec == Init /\ [][Next]_vars
=============================================================================
