---------------------------- MODULE MessageStore ----------------------------
(***************************************************************************)
(* What a store of messages promises its clients, without dictionaries:    *)
(* which messages are live, until when each lives and is hidden, and what  *)
(* each command may do to them and report.  A command that runs out of     *)
(* memory may do less.  Deadlines past the end of the clock's range        *)
(* (Modulus) are not specified.                                            *)
(***************************************************************************)
EXTENDS Naturals, FiniteSets

CONSTANTS Accounts, Queues, Keys, Filters, Attributes, NULL, DefaultTtl, Modulus

VARIABLES
    now,
    live,     \* the messages that are there: key -> [ttl, hide], hide 0 if visible
    call,     \* the last command: [op, key, filter, attributes, failed]
    reported  \* the set of messages, queues or accounts it told the client of

vars == <<now, live, call, reported>>

Init == now = 1 /\ live = [k \in {} |-> 0] /\ call.op = "none" /\ reported = {}

-----------------------------------------------------------------------------
Deadline(seconds) == IF now + seconds < Modulus THEN {now + seconds} ELSE 0..Modulus-1

(* After the step k has one of the given pairs of deadlines, or is gone if it has expired. *)
Becomes(k, ttls, hides) ==
    \E ttl \in ttls, hide \in hides :
       IF ttl > now'
         THEN /\ k \in DOMAIN live'
              /\ live'[k] = [ttl |-> ttl, hide |-> IF hide > now' THEN hide ELSE 0]
         ELSE k \notin DOMAIN live'

Stays(k) ==
    IF k \in DOMAIN live THEN Becomes(k, {live[k].ttl}, {live[k].hide}) ELSE k \notin DOMAIN live'

Changed(k, at) ==
    Becomes(k, IF "ttl" \in at.set THEN Deadline(at.ttl) ELSE {live[k].ttl},
               IF "hide" \in at.set THEN Deadline(at.hide) ELSE {live[k].hide})

(* The messages of S are treated as told, and no others. *)
Only(S, Treat(_)) == \A k \in Keys : IF k \in S THEN Treat(k) ELSE Stays(k)
Gone(k) == k \notin DOMAIN live'

Unfiltered(f) == f.marker = NULL /\ f.limit = 0

-----------------------------------------------------------------------------
(* Commands on one message find it whether it is hidden or not. *)

create_message ==
    LET at == call'.attributes
    IN  /\ call'.op = "create_message"
        /\ \/ Only({call'.key},
                   LAMBDA k : Becomes(k, Deadline(IF "ttl" \in at.set THEN at.ttl ELSE DefaultTtl),
                                         Deadline(IF "hide" \in at.set THEN at.hide ELSE 0)))
           \/ call'.failed /\ Only({}, Stays)
        /\ reported' = {}

get_message ==
    /\ call'.op = "get_message"
    /\ Only({}, Stays)
    /\ reported' = {call'.key} \cap DOMAIN live

(* A ttl of 0 is not taken for a deadline. *)
update_message ==
    LET at == [call'.attributes EXCEPT !.set =
                  IF call'.attributes.ttl = 0 THEN @ \ {"ttl"} ELSE @]
    IN  /\ call'.op = "update_message"
        /\ Only({call'.key} \cap DOMAIN live, LAMBDA k : Changed(k, at))
        /\ reported' = {call'.key} \cap DOMAIN live

delete_message ==
    /\ call'.op = "delete_message"
    /\ Only({call'.key}, Gone)
    /\ reported' = {call'.key} \cap DOMAIN live

-----------------------------------------------------------------------------
(***************************************************************************)
(* Commands on the messages of a queue act on some that are not hidden or  *)
(* that the filter lets match, at most limit, and on all of these if there *)
(* is neither limit nor marker; what they act on is what they report.      *)
(***************************************************************************)
Seen(f) == {k \in DOMAIN live : /\ k[1] = call'.key[1] /\ k[2] = call'.key[2]
                                /\ f.match_hidden \/ live[k].hide = 0}

List(op, Treat(_)) ==
    LET f == call'.filter
    IN  /\ call'.op = op
        /\ reported' \subseteq Seen(f)
        /\ f.limit # 0 => Cardinality(reported') <= f.limit
        /\ Unfiltered(f) /\ ~call'.failed => reported' = Seen(f)
        /\ Only(reported', Treat)

get_messages == List("get_messages", Stays)

update_messages == List("update_messages", LAMBDA k : Changed(k, call'.attributes))

delete_messages == List("delete_messages", Gone)

(***************************************************************************)
(* Queues and accounts are deleted as far as their messages are visible,   *)
(* all of them if there is no filter.                                      *)
(***************************************************************************)
DeleteLists(op, Parts) ==
    /\ call'.op = op
    /\ \E P \in SUBSET Parts :
          /\ Unfiltered(call'.filter) /\ ~call'.failed => P = Parts
          /\ Only({k \in DOMAIN live : <<k[1], k[2]>> \in P /\ live[k].hide = 0}, Gone)
    /\ reported' = {}

delete_queues == DeleteLists("delete_queues", {call'.key[1]} \X Queues)

delete_accounts == DeleteLists("delete_accounts", Accounts \X Queues)

(* What holds a live message is listed; more may be. *)
Listing(op, Names, Occupied) ==
    /\ call'.op = op
    /\ reported' \subseteq Names
    /\ Unfiltered(call'.filter) /\ ~call'.failed => Occupied \subseteq reported'
    /\ call'.filter.limit # 0 => Cardinality(reported') <= call'.filter.limit
    /\ Only({}, Stays)

get_queues ==
    Listing("get_queues", Queues, {k[2] : k \in {k \in DOMAIN live : k[1] = call'.key[1]}})

get_accounts == Listing("get_accounts", Accounts, {k[1] : k \in DOMAIN live})

(* Time passes: messages expire and become visible. *)
Tick ==
    /\ call'.op = "none"
    /\ now' = now + 1
    /\ Only({}, Stays)
    /\ reported' = {}

(* A destroyed store promises nothing any more. *)
destroy == call'.op = "destroy" /\ reported' = {}

Next ==
    \/ Tick
    \/ /\ now' = now
       /\ \/ create_message \/ get_message \/ update_message \/ delete_message
          \/ get_messages \/ update_messages \/ delete_messages
          \/ delete_queues \/ delete_accounts \/ get_queues \/ get_accounts
          \/ destroy

Spec == Init /\ [][Next]_vars
=============================================================================
