---------------------------- MODULE MCBurrowHttp ----------------------------
(* A small instance of the frontend on the http backend for TLC. *)
EXTENDS BurrowHttp

CONSTANTS v1, v2, b1, s1, p1

Call(c, passed) == [command |-> c, filters |-> {}, body_only |-> FALSE,
                    passed |-> passed, attributes |-> {}]
SomeCalls ==
    {Call("GET_MESSAGES", FALSE), Call("GET_QUEUES", FALSE), Call("CREATE_MESSAGE", TRUE)}

Token(type) == [type |-> type, value |-> NULL]
Str(v) == [type |-> "string", value |-> v]
Object(s) == <<Token("object_begin")>> \o s \o <<Token("object_end")>>

(* Two messages without fields; two names; and a name after what is none. *)
SomeResponses ==
    {Object(<<>>) \o Object(<<>>), <<Str(v1), Str(v2)>>, <<Token("other"), Str(v1)>>}

OnePiece == <<b1>>
=============================================================================
