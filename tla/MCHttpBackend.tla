--------------------------- MODULE MCHttpBackend ---------------------------
(* A small instance of the http backend for TLC. *)
EXTENDS HttpBackend, TLC

CONSTANTS v1, v2, n1, n2, b1, b2, s1, p1, p2

Call(c, filters, passed, attributes) ==
    [command |-> c, filters |-> filters, body_only |-> "detail" \in filters,
     passed |-> passed, attributes |-> attributes]

(***************************************************************************)
(* Each command, with filters and attributes that are all set, some, or    *)
(* none.                                                                   *)
(***************************************************************************)
SomeCalls == {Call("GET_MESSAGES", {}, FALSE, {}),
              Call("GET_MESSAGES", {"detail", "limit"}, FALSE, {}),
              Call("UPDATE_MESSAGE", {"match_hidden", "wait"}, TRUE, {"ttl", "hide"}),
              Call("UPDATE_MESSAGES", {}, TRUE, {"hide"}),
              Call("GET_MESSAGE", {"match_hidden", "limit", "wait", "detail", "marker"}, FALSE, {}),
              Call("DELETE_MESSAGES", {"limit"}, FALSE, {}),
              Call("DELETE_MESSAGE", {}, FALSE, {}),
              Call("GET_ACCOUNTS", {}, FALSE, {}),
              Call("GET_QUEUES", {"limit", "detail"}, FALSE, {}),
              Call("DELETE_QUEUES", {}, FALSE, {}),
              Call("DELETE_ACCOUNTS", {"marker"}, FALSE, {}),
              Call("CREATE_MESSAGE", {}, TRUE, {"ttl"}),
              Call("CREATE_MESSAGE", {}, TRUE, {})}

Token(type) == [type |-> type, value |-> NULL]
Key(k) == [type |-> "key", value |-> k]
Str(v) == [type |-> "string", value |-> v]
Num(n) == [type |-> "int", value |-> n]
Object(s) == <<Token("object_begin")>> \o s \o <<Token("object_end")>>
Array(s) == <<Token("array_begin")>> \o s \o <<Token("array_end")>>

(***************************************************************************)
(* Two messages, the second with fewer fields; one with a repeated key; a  *)
(* list of names; nothing; and answers that are cut short, no JSON, or not *)
(* what the protocol knows.                                                *)
(***************************************************************************)
SomeResponses ==
    {Array(Object(<<Key("id"), Str(v1), Key("ttl"), Num(n1), Key("body"), Str(v2)>>) \o
           Object(<<Key("hide"), Num(n2), Key("id"), Str(v2)>>)),
     Object(<<Key("id"), Str(v1), Key("id"), Str(v2)>>),
     Array(<<Str(v1), Str(v2)>>),
     <<>>,
     <<Token("array_begin")>> \o Object(<<Key("id"), Str(v1)>>),
     <<Token("array_begin")>> \o Object(<<Key("id"), Str(v1)>>) \o <<Token("bad")>>,
     Object(<<Key("colour"), Str(v1)>>),
     Object(<<Key("id"), Num(n1)>>),
     Array(<<Num(n1), Token("other")>>)}

TwoPieces == <<b1, b2>>

(***************************************************************************)
(* A backend that has returned for good does not look at what is left of   *)
(* the last request, buffer and parse again, so states that differ only    *)
(* there are explored once.                                                *)
(***************************************************************************)
InUse ==
    IF pc \in {"idle", "destroyed"}
      THEN <<>>
      ELSE <<get_body_only, request, transfer, incoming, buffer, jproc, at>>
LiveView == <<options, command, pc, ret, call, response, reported, sent, InUse>>
=============================================================================
