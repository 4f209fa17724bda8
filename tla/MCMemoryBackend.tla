-------------------------- MODULE MCMemoryBackend --------------------------
(* A small instance of the memory backend for TLC. *)
EXTENDS MemoryBackend, TLC

CONSTANTS a1, q1, m1, x

(* A queue with two messages, an account with two queues. *)
SomeKeys == {<<a1, q1, m1>>, <<a1, q1, x>>, <<a1, x, m1>>}

At(s, t, h) == [set |-> s, ttl |-> t, hide |-> h]

(***************************************************************************)
(* Nothing set; hidden for one tick of the two the message lives; and ttl  *)
(* 0 (which update_message ignores and the others do not) with a hide that *)
(* wraps, at time 1 to 0, which counts as not set.                         *)
(***************************************************************************)
SomeAttributes == {At({}, 0, 0), At({"hide"}, 0, 1), At({"ttl", "hide"}, 0, Modulus - 1)}

(***************************************************************************)
(* No filter, a limit, a marker, and both; x names a queue and a message,  *)
(* so that as a marker it is found on either level.                        *)
(***************************************************************************)
Filter(marker, limit, hidden) == [marker |-> marker, limit |-> limit, match_hidden |-> hidden]
SomeFilters == {Filter(NULL, 0, FALSE), Filter(NULL, 1, TRUE), Filter(x, 0, TRUE),
                Filter(x, 1, FALSE)}

(***************************************************************************)
(* States are explored once if they differ only in what no command tells   *)
(* apart: what the last command reported, and deadlines that have passed.  *)
(* The action properties look at every step.                               *)
(***************************************************************************)
Ahead(n) == IF n > now THEN n ELSE 0
StoreView ==
    <<now, handle, accounts, queues, ids, bare, {k \in Keys : msg[k] = NoMessage},
      [k \in Keys |-> <<Ahead(msg[k].ttl), Ahead(msg[k].hide), Ahead(msg[k].expiresAt),
                        Ahead(msg[k].hiddenUntil)>>]>>
=============================================================================
