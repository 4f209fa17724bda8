---------------------------- MODULE HttpBackend ----------------------------
(***************************************************************************)
(* The http backend: libburrow/backends/http/curl_backend.c, with the      *)
(* buffer libcurl fills (user_buffer.c) and the callback the JSON parser   *)
(* makes for each token (json_processing.c).                               *)
(*                                                                         *)
(* libcurl, the server and the JSON parser are external: a response is a   *)
(* sequence of JSON tokens, which arrives in chunks of any size, with      *)
(* calls of curl_multi_perform in between.  Text that is no JSON is a      *)
(* token of type "bad".                                                    *)
(***************************************************************************)
EXTENDS Integers, Sequences, FiniteSets, KeySequences

CONSTANTS
    Calls,          \* what the client asks for, see below
    Responses,      \* sequences of tokens [type, value] the server may answer
    Body,           \* the body of created messages, a sequence of pieces
    Servers, Ports, \* values of the options "server" and "port"
    NULL,
    Faults          \* which of "transfer", "multi", "no_fds", "enomem", "cancel" happen

MessageCommands == {"GET_MESSAGES", "GET_MESSAGE", "DELETE_MESSAGES", "DELETE_MESSAGE",
                    "UPDATE_MESSAGES", "UPDATE_MESSAGE"}
ListCommands == {"GET_ACCOUNTS", "GET_QUEUES"}
DeleteCommands == {"DELETE_ACCOUNTS", "DELETE_QUEUES"}
OneMessage == {"GET_MESSAGE", "DELETE_MESSAGE", "UPDATE_MESSAGE"}
Updates == {"UPDATE_MESSAGES", "UPDATE_MESSAGE"}
AllCommands == MessageCommands \cup ListCommands \cup DeleteCommands \cup {"CREATE_MESSAGE"}
TokenTypes == {"array_begin", "array_end", "object_begin", "object_end",
               "key", "string", "int", "other", "bad"}

(***************************************************************************)
(* A call: the filters that are set; body_only if they ask for             *)
(* detail=body; passed: attributes are passed, and those of them set.      *)
(***************************************************************************)
FilterNames == <<"match_hidden", "limit", "wait", "detail", "marker">>
AttributeNames == <<"ttl", "hide">>

ASSUME ConstantsAssumption ==
    /\ Calls \subseteq [command : AllCommands,
                        filters : SUBSET Elements(FilterNames), body_only : BOOLEAN,
                        passed : BOOLEAN, attributes : SUBSET Elements(AttributeNames)]
    /\ \A c \in Calls : /\ c.body_only => "detail" \in c.filters
                       /\ c.attributes # {} => c.passed
    /\ \A r \in Responses : r \in Seq(Elements(r)) /\ \A t \in Elements(r) : t.type \in TokenTypes
    /\ Body \in Seq(Elements(Body))
    /\ NULL \notin Servers \cup Ports

(***************************************************************************)
(* The order the JSON parser hands out the tokens of a text in: keys and   *)
(* the end of an object in an object only, and there keys, each with its   *)
(* value, and nothing else: the protocol's objects are flat.               *)
(***************************************************************************)
InObject(r, i) ==
    \E b \in 1..i-1 : /\ r[b].type = "object_begin"
                     /\ \A j \in b+1..i-1 : r[j].type # "object_end"

ASSUME FlatAssumption ==
    \A r \in Responses : \A i \in 1..Len(r) :
       /\ r[i].type \in {"key", "object_end"} => InObject(r, i)
       /\ InObject(r, i) => r[i].type \in IF r[i-1].type = "key"
                                            THEN {"string", "int", "other", "bad"}
                                            ELSE {"key", "object_end", "bad"}

VARIABLES
    server, port,  \* the options; NULL: not set, or an empty port
    baseurl,       \* backend->baseurl: <<server, port>> or NULL
    command,       \* backend->burrow->cmd.command
    get_body_only, \* backend->get_body_only
    request,       \* method, path and query of backend->chandle's request
    transfer,      \* backend->chandle in curl's hands: "none", "running", "ok", "failed"
    incoming,      \* what the server has not delivered yet
    buffer,        \* backend->buffer
    jproc,         \* the json_processing_st of the running parse
    at,            \* the token JSON_parser_char looks at next
    pc,            \* "idle", "perform", "parse", "waiting" (EAGAIN), "destroyed"
    ret,           \* what the last call of the backend returned
    call,          \* history: what the client asked for
    response,      \* history: the whole response
    reported,      \* history: what the client was told of, through callbacks
    sent           \* history: the body as the server receives it

options == <<server, port, baseurl>>
parsing == <<jproc, at>>
told == <<reported, command>>
vars == <<options, command, get_body_only, request, transfer, incoming, buffer, parsing, pc,
          ret, call, response, reported, sent>>

NoRequest == [method |-> "NONE", path |-> <<>>, query |-> <<>>]
NewBuffer == [size |-> 0, where |-> 0, text |-> <<>>]
NewJproc == [id |-> NULL, body |-> NULL, ttl |-> NULL, hide |-> NULL,
             is_key |-> FALSE, key |-> NULL]

TypeOK ==
    /\ server \in Servers \cup {NULL}
    /\ port \in Ports \cup {NULL}
    /\ baseurl \in (Servers \X Ports) \cup {NULL}
    /\ command \in AllCommands \cup {"NONE"}
    /\ get_body_only \in BOOLEAN
    /\ request.method \in {"NONE", "GET", "POST", "PUT", "DELETE"}
    /\ transfer \in {"none", "running", "ok", "failed"}
    /\ buffer.size \in Nat /\ buffer.where \in 0..buffer.size
    /\ jproc.is_key \in BOOLEAN
    /\ at \in 1..Len(buffer.text)+1
    /\ pc \in {"idle", "perform", "parse", "waiting", "destroyed"}
    /\ ret \in {"0", "EAGAIN", "EINVAL", "ENOMEM", "garbage"}

(* burrow_backend_http_create *)
Init ==
    /\ server = NULL /\ port = NULL /\ baseurl = NULL
    /\ command = "NONE"
    /\ get_body_only = FALSE
    /\ request = NoRequest
    /\ transfer = "none"
    /\ incoming = <<>>
    /\ buffer = NewBuffer
    /\ jproc = NewJproc /\ at = 1
    /\ pc = "idle" /\ ret = "0"
    /\ call = [command |-> "NONE", filters |-> {}, body_only |-> FALSE,
               passed |-> FALSE, attributes |-> {}]
    /\ response = <<>> /\ reported = <<>> /\ sent = <<>>

-----------------------------------------------------------------------------
(* Options. *)

(* The URL is rebuilt once both parts are there: freed, then allocated anew. *)
BuildUrl ==
    IF server' = NULL \/ port' = NULL
      THEN UNCHANGED baseurl
      ELSE baseurl' \in {<<server', port'>>} \cup (IF "enomem" \in Faults THEN {NULL} ELSE {})

(***************************************************************************)
(* set_option("server", ...): if the name cannot be stored the server is   *)
(* forgotten and the URL is left as it was.                                *)
(***************************************************************************)
SetServer(s) ==
    /\ pc \in {"idle", "waiting"}
    /\ UNCHANGED port
    /\ \/ server' = s /\ BuildUrl
       \/ "enomem" \in Faults /\ server' = NULL /\ UNCHANGED baseurl
    /\ UNCHANGED <<command, get_body_only, request, transfer, incoming, buffer, parsing, pc,
                   ret, call, response, reported, sent>>

(* Mutant: a new port does not make it into the URL. *)
SetPortKeepsUrl(p) ==
    /\ pc \in {"idle", "waiting"}
    /\ port' = p
    /\ IF baseurl = NULL THEN UNCHANGED server /\ BuildUrl ELSE UNCHANGED <<server, baseurl>>
    /\ UNCHANGED <<command, get_body_only, request, transfer, incoming, buffer, parsing, pc,
                   ret, call, response, reported, sent>>

(***************************************************************************)
(* set_option("port", ...).  An empty port (NULL) is stored, but the URL   *)
(* made with the last one stays; one that is too long changes nothing.     *)
(***************************************************************************)
SetPort(p) ==
    /\ pc \in {"idle", "waiting"}
    /\ port' = p
    /\ UNCHANGED server
    /\ BuildUrl
    /\ UNCHANGED <<command, get_body_only, request, transfer, incoming, buffer, parsing, pc,
                   ret, call, response, reported, sent>>

-----------------------------------------------------------------------------
(* The command functions. *)

Return(r) ==
    /\ ret' = r
    /\ pc' = IF r = "EAGAIN" THEN "waiting" ELSE "idle"

(* What the frontend does before it calls a command function. *)
Called(c) ==
    /\ pc = "idle"
    /\ c \in Calls
    /\ call' = c
    /\ command' = c.command
    /\ reported' = <<>>
    /\ sent' = <<>>

(* Those of the names that are chosen, in order, with "&" between them. *)
Joined(names, chosen) ==
    LET set == Kept(names, chosen)
    IN  [i \in 1 .. 2 * Len(set) - 1 |-> IF i % 2 = 1 THEN set[(i + 1) \div 2] ELSE "&"]

(* What follows the path of the URL.  The values are left out. *)
filters_to_string(c) == Joined(FilterNames, c.filters)
attributes_to_string(c) == Joined(AttributeNames, c.attributes)

After(separator, text) == IF text = <<>> THEN <<>> ELSE <<separator>> \o text

(* Mutant: the attributes of an update begin the query, filters or not. *)
UpdateQueryTwice(c) ==
    After("?", filters_to_string(c)) \o After("?", attributes_to_string(c))

(* The query of an update has the filters, then the attributes. *)
UpdateQuery(c) ==
    LET filter_str == filters_to_string(c)
    IN  After("?", filter_str) \o
        After(IF filter_str = <<>> THEN "?" ELSE "&", attributes_to_string(c))

(***************************************************************************)
(* The new easy handle, with request req, takes the place of the old one,  *)
(* whose transfer is taken out of the multi handle, the new buffer b that  *)
(* of the old buffer, and process is called.  Without a URL there is no    *)
(* server to connect to.                                                   *)
(***************************************************************************)
StartTransfer(req, b, answers) ==
    /\ request' = req
    /\ transfer' = IF baseurl = NULL THEN "failed" ELSE "running"
    /\ response' \in answers
    /\ incoming' = response'
    /\ buffer' = b
    /\ at' = 1
    /\ pc' = "perform"
    /\ UNCHANGED <<ret, jproc>>

(* Building the URL fails: the old handle and buffer stay in place. *)
SetupFails(r) ==
    /\ Return(r)
    /\ UNCHANGED <<request, transfer, incoming, response, buffer, parsing>>

Request(method, path, query, b, answers) ==
    \/ StartTransfer([method |-> method, path |-> path, query |-> query], b, answers)
    \/ "enomem" \in Faults /\ SetupFails("ENOMEM")

(* The six commands on messages. *)
common_getting(c) ==
    LET queue == <<"account", "queue">>
        path == IF c.command \in OneMessage THEN Append(queue, "message_id") ELSE queue
        method == CASE c.command \in {"GET_MESSAGES", "GET_MESSAGE"} -> "GET"
                    [] c.command \in Updates -> "POST"
                    [] c.command \in {"DELETE_MESSAGES", "DELETE_MESSAGE"} -> "DELETE"
        query == IF c.command \in Updates THEN UpdateQuery(c)
                                          ELSE After("?", filters_to_string(c))
    IN  /\ c.command \in MessageCommands
        /\ Called(c)
        /\ get_body_only' = c.body_only
        /\ Request(method, path, query, NewBuffer, Responses)
        /\ UNCHANGED options

(* get_accounts and get_queues; the filters do not get into the URL. *)
common_getlists(c) ==
    /\ c.command \in ListCommands
    /\ Called(c)
    /\ get_body_only' = FALSE
    /\ Request("GET", IF c.command = "GET_QUEUES" THEN <<"account">> ELSE <<>>, <<>>,
               NewBuffer, Responses)
    /\ UNCHANGED options

(* delete_accounts and delete_queues *)
common_delete(c) ==
    /\ c.command \in DeleteCommands
    /\ Called(c)
    /\ get_body_only' = FALSE
    /\ Request("DELETE", IF c.command = "DELETE_QUEUES" THEN <<"account">> ELSE <<>>,
               After("?", filters_to_string(c)), NewBuffer, Responses)
    /\ UNCHANGED options

(***************************************************************************)
(* The buffer holds what is to be sent; the response goes to stdout.  For  *)
(* attributes with nothing set the length of the attribute string is never *)
(* assigned: unless it happens to be 0 it is returned as an error (that it *)
(* happens to be EAGAIN is left out).                                      *)
(***************************************************************************)
create_message(c) ==
    /\ c.command = "CREATE_MESSAGE"
    /\ Called(c)
    /\ \/ Request("PUT", <<"account", "queue", "message_id">>,
                  After("?", attributes_to_string(c)),
                  [size |-> Len(Body), where |-> 0, text |-> Body], {<<>>})
       \/ c.passed /\ c.attributes = {} /\ SetupFails("garbage")
    /\ UNCHANGED <<options, get_body_only>>

-----------------------------------------------------------------------------
(* Inside curl_multi_perform. *)

(* Mutant: every chunk is written to the start of the buffer. *)
WriteAtStart(chunk) ==
    buffer' = [size |-> buffer.size + Len(chunk), where |-> Len(chunk),
               text |-> chunk \o SubSeq(buffer.text, Len(chunk) + 1, Len(buffer.text))]

(* Mutant: the buffer is not known to have grown. *)
WriteForgetsSize(chunk) ==
    LET where == IF buffer.size = 0 THEN 0 ELSE buffer.where
    IN  buffer' = [size |-> IF buffer.size = 0 THEN Len(chunk) ELSE buffer.size,
                   where |-> where + Len(chunk),
                   text |-> SubSeq(buffer.text, 1, where) \o chunk]

(***************************************************************************)
(* user_buffer_curl_write_function: the buffer grows by the chunk, which   *)
(* is copied to where the last one ended.                                  *)
(***************************************************************************)
Write(chunk) ==
    LET where == IF buffer.size = 0 THEN 0 ELSE buffer.where
    IN  buffer' = [size |-> buffer.size + Len(chunk), where |-> where + Len(chunk),
                   text |-> SubSeq(buffer.text, 1, where) \o chunk]

(* A chunk arrives; if the buffer cannot grow, libcurl gives the transfer up. *)
Receive(n) ==
    /\ pc = "perform" /\ transfer = "running"
    /\ n <= Len(incoming)
    /\ \/ /\ Write(SubSeq(incoming, 1, n))
          /\ incoming' = SubSeq(incoming, n + 1, Len(incoming))
          /\ UNCHANGED transfer
       \/ /\ "enomem" \in Faults
          /\ buffer' = [buffer EXCEPT !.size = IF @ = 0 THEN n ELSE @]
          /\ transfer' = "failed"
          /\ UNCHANGED incoming
    /\ UNCHANGED <<options, command, get_body_only, request, parsing, pc, ret, call, response,
                   reported, sent>>

(* Mutant: each chunk is read from the start of the body. *)
ReadFromStart(n) == SubSeq(buffer.text, 1, n)

(* What user_buffer_curl_read_function copies out. *)
Chunk(n) == SubSeq(buffer.text, buffer.where + 1, buffer.where + n)

(* libcurl has room for the next n pieces of the body it is to send. *)
Send(n) ==
    /\ pc = "perform" /\ transfer = "running"
    /\ call.command = "CREATE_MESSAGE"
    /\ n <= buffer.size - buffer.where
    /\ sent' = sent \o Chunk(n)
    /\ buffer' = [buffer EXCEPT !.where = @ + n]
    /\ UNCHANGED <<options, command, get_body_only, request, transfer, incoming, parsing, pc, ret,
                   call, response, reported>>

(* The response is complete; all of a body has been read before. *)
TransferEnds ==
    /\ pc = "perform" /\ transfer = "running"
    /\ incoming = <<>>
    /\ buffer.where = buffer.size
    /\ transfer' = "ok"
    /\ UNCHANGED <<options, command, get_body_only, request, incoming, buffer, parsing, pc, ret,
                   call, response, reported, sent>>

(* The connection breaks. *)
TransferFails ==
    /\ pc = "perform" /\ transfer = "running"
    /\ "transfer" \in Faults
    /\ transfer' = "failed"
    /\ UNCHANGED <<options, command, get_body_only, request, incoming, buffer, parsing, pc, ret,
                   call, response, reported, sent>>

-----------------------------------------------------------------------------
(* burrow_backend_http_process once curl_multi_perform has returned. *)

ProcessError ==
    /\ pc = "perform"
    /\ "multi" \in Faults \/ transfer = "failed"
    /\ Return("EINVAL")
    /\ UNCHANGED <<options, command, get_body_only, request, transfer, incoming, buffer, parsing,
                   call, response, reported, sent>>

(* The descriptors are watched; without any, 0 is returned. *)
ProcessBlocks ==
    /\ pc = "perform" /\ transfer = "running"
    /\ \/ Return("EAGAIN")
       \/ "no_fds" \in Faults /\ Return("0")
    /\ UNCHANGED <<options, command, get_body_only, request, transfer, incoming, buffer, parsing,
                   call, response, reported, sent>>

(***************************************************************************)
(* A callback tells the client of r.  From within it the client may cancel *)
(* the command.                                                            *)
(***************************************************************************)
Tell(r) ==
    /\ reported' = Append(reported, r)
    /\ command' \in {command} \cup (IF "cancel" \in Faults THEN {"NONE"} ELSE {})

(* The response is there: it is told of as one body, parsed, or ignored. *)
ProcessComplete ==
    /\ pc = "perform" /\ transfer = "ok"
    /\ \/ /\ command \in MessageCommands \cup ListCommands
          /\ get_body_only
          /\ Tell([id |-> NULL, body |-> buffer.text, ttl |-> NULL, hide |-> NULL])
          /\ Return("0")
          /\ UNCHANGED jproc
       \/ /\ command \in MessageCommands \cup ListCommands
          /\ ~get_body_only /\ buffer.size > 0
          /\ pc' = "parse"
          /\ jproc' = NewJproc
          /\ UNCHANGED <<told, ret>>
       \/ /\ command \notin MessageCommands \cup ListCommands
             \/ (~get_body_only /\ buffer.size = 0)
          /\ Return("0")
          /\ UNCHANGED <<told, jproc>>
    /\ UNCHANGED <<options, get_body_only, request, transfer, incoming, buffer, at,
                   call, response, sent>>

(* event_raised does nothing; the frontend then calls process again. *)
event_raised ==
    /\ pc = "waiting"
    /\ pc' = "perform"
    /\ UNCHANGED <<options, command, get_body_only, request, transfer, incoming, buffer, parsing,
                   ret, call, response, reported, sent>>

(***************************************************************************)
(* The client cancels a command that waits: it is forgotten, the backend   *)
(* is not told, and the transfer goes on.                                  *)
(***************************************************************************)
burrow_cancel ==
    /\ pc = "waiting"
    /\ "cancel" \in Faults
    /\ command' = "NONE"
    /\ UNCHANGED <<options, get_body_only, request, transfer, incoming, buffer, parsing, pc,
                   ret, call, response, reported, sent>>

-----------------------------------------------------------------------------
(* burrow_backend_http_parse_json: the callback for one token t. *)

Accept == at' = at + 1 /\ UNCHANGED <<pc, ret>>

(* Mutant: a token that is turned down ends the parse, but is not an error. *)
RejectUnnoticed == Return("0") /\ UNCHANGED <<at, jproc, told>>

Reject == Return("EINVAL") /\ UNCHANGED <<at, jproc, told>>

Unset(j) == [j EXCEPT !.ttl = NULL, !.hide = NULL]

(* Mutant: the body is not cleared for the next message. *)
CleanKeepsBody(j) == [j EXCEPT !.id = NULL, !.ttl = NULL, !.hide = NULL]

(* Clean up for the next message. *)
Clean(j) == Unset([j EXCEPT !.id = NULL, !.body = NULL])

Told(j) == [id |-> j.id, body |-> j.body, ttl |-> j.ttl, hide |-> j.hide]

(* Keys and strings are copied; without memory for it the token is turned down. *)
NoMemoryFor(t) == "enomem" \in Faults /\ t.type \in {"key", "string"}

(* Mutant: the key "hide" is not known. *)
ValueUnknownHide(t) ==
    LET known == IF t.type = "string" THEN {"id", "body"} ELSE {"ttl"}
    IN  IF jproc.is_key /\ jproc.key \in known
          THEN /\ jproc' = [jproc EXCEPT !.is_key = FALSE, ![jproc.key] = t.value]
               /\ Accept /\ UNCHANGED told
          ELSE Reject

(***************************************************************************)
(* A string or an integer goes to the field the key before it names; an    *)
(* integer without a key is passed over.                                   *)
(***************************************************************************)
Value(t) ==
    LET known == IF t.type = "string" THEN {"id", "body"} ELSE {"ttl", "hide"}
    IN  \/ /\ jproc.is_key /\ jproc.key \in known
           /\ jproc' = [jproc EXCEPT !.is_key = FALSE, ![jproc.key] = t.value]
           /\ Accept /\ UNCHANGED told
        \/ /\ \/ IF jproc.is_key THEN jproc.key \notin known ELSE t.type = "string"
              \/ NoMemoryFor(t)
           /\ Reject
        \/ /\ ~jproc.is_key /\ t.type = "int"
           /\ Accept /\ UNCHANGED <<jproc, told>>

MessageToken(t) ==
    \/ /\ t.type \in {"array_begin", "array_end"}
       /\ Accept /\ UNCHANGED <<jproc, told>>
    \/ /\ t.type = "object_begin"
       /\ jproc' = Unset(jproc)
       /\ Accept /\ UNCHANGED told
    \/ /\ t.type = "object_end"
       /\ Tell(Told(jproc))
       /\ jproc' = Clean(jproc)
       /\ Accept
    \/ /\ t.type = "key"
       /\ jproc' = [jproc EXCEPT !.is_key = TRUE, !.key = t.value]
       /\ Accept /\ UNCHANGED told
    \/ t.type = "key" /\ NoMemoryFor(t) /\ Reject
    \/ t.type \in {"string", "int"} /\ Value(t)
    \/ t.type = "other" /\ Reject

ListToken(t) ==
    \/ /\ t.type \in {"array_begin", "array_end"}
       /\ Accept /\ UNCHANGED <<jproc, told>>
    \/ /\ t.type = "string"
       /\ Tell(t.value)
       /\ Accept /\ UNCHANGED jproc
    \/ t.type \notin {"array_begin", "array_end", "string"} /\ Reject

(* Which part of the callback runs depends on cmd.command at that time. *)
ParseToken ==
    /\ pc = "parse"
    /\ at <= Len(buffer.text)
    /\ LET t == buffer.text[at]
       IN  \/ t.type = "bad" /\ Reject
           \/ t.type # "bad" /\ command \in MessageCommands /\ MessageToken(t)
           \/ t.type # "bad" /\ command \in ListCommands /\ ListToken(t)
           \/ t.type # "bad" /\ command = "NONE" /\ Accept /\ UNCHANGED <<jproc, told>>
    /\ UNCHANGED <<options, get_body_only, request, transfer, incoming, buffer,
                   call, response, sent>>

Count(s, type) == Cardinality({i \in DOMAIN s : s[i].type = type})
Balanced(s) == /\ Count(s, "array_begin") = Count(s, "array_end")
               /\ Count(s, "object_begin") = Count(s, "object_end")

(* JSON_parser_done tells whether the text ended where JSON may end. *)
ParseDone ==
    /\ pc = "parse"
    /\ at = Len(buffer.text) + 1
    /\ Return(IF Balanced(buffer.text) THEN "0" ELSE "EINVAL")
    /\ UNCHANGED <<options, command, get_body_only, request, transfer, incoming, buffer, parsing,
                   call, response, reported, sent>>

(* Everything the backend holds is freed. *)
destroy ==
    /\ pc \in {"idle", "waiting"}
    /\ pc' = "destroyed"
    /\ server' = NULL /\ baseurl' = NULL
    /\ request' = NoRequest
    /\ transfer' = "none"
    /\ incoming' = <<>>
    /\ buffer' = NewBuffer
    /\ at' = 1
    /\ UNCHANGED <<port, command, get_body_only, jproc, ret, call, response, reported, sent>>

(* A backend that has been destroyed is not called again. *)
Closed == pc = "destroyed" /\ UNCHANGED vars

-----------------------------------------------------------------------------
CommandStep ==
    \E c \in Calls :
       common_getting(c) \/ common_getlists(c) \/ common_delete(c) \/ create_message(c)

CurlStep ==
    \/ \E r \in Responses : \E n \in 1..Len(r) : Receive(n)
    \/ \E n \in 1..Len(Body) : Send(n)
    \/ TransferEnds
    \/ TransferFails

ProcessStep == ProcessError \/ ProcessBlocks \/ ProcessComplete \/ ParseToken \/ ParseDone

Next ==
    \/ \E s \in Servers : SetServer(s)
    \/ \E p \in Ports \cup {NULL} : SetPort(p)
    \/ CommandStep \/ CurlStep \/ ProcessStep
    \/ event_raised
    \/ burrow_cancel
    \/ destroy
    \/ Closed

Spec == Init /\ [][Next]_vars

-----------------------------------------------------------------------------
(* What makes the backend correct. *)

(***************************************************************************)
(* A reference for what the client should be told, read off the response   *)
(* as a whole: for each object the last value of each key in it.           *)
(***************************************************************************)
Last(S) == CHOOSE i \in S : \A j \in S : j <= i
Positions(s, type) ==
    Kept([i \in 1..Len(s) |-> i], {i \in DOMAIN s : s[i].type = type})

Field(s, end, name) ==
    LET begin == Last({i \in 1..end : s[i].type = "object_begin"})
        values == {i \in begin+2 .. end-1 : s[i-1].type = "key" /\ s[i-1].value = name}
    IN  IF values = {} THEN NULL ELSE s[Last(values)].value

MessageAt(s, end) == [id |-> Field(s, end, "id"), body |-> Field(s, end, "body"),
                      ttl |-> Field(s, end, "ttl"), hide |-> Field(s, end, "hide")]

Expected ==
    LET strings == Positions(response, "string")
        ends == Positions(response, "object_end")
    IN  CASE call.command \in ListCommands ->
                  [i \in 1..Len(strings) |-> response[strings[i]].value]
          [] call.command \in MessageCommands /\ call.body_only ->
                  <<[id |-> NULL, body |-> response, ttl |-> NULL, hide |-> NULL]>>
          [] call.command \in MessageCommands /\ ~call.body_only ->
                  [i \in 1..Len(ends) |-> MessageAt(response, ends[i])]
          [] OTHER -> <<>>

(***************************************************************************)
(* However the response is cut into chunks, whatever fails and whenever    *)
(* the client cancels: it is told of messages, queues and accounts in the  *)
(* order of the response, each one once and none made up of two.           *)
(***************************************************************************)
ReportsInOrder ==
    pc # "destroyed" =>
       /\ Len(reported) <= Len(Expected)
       /\ reported = SubSeq(Expected, 1, Len(reported))

(***************************************************************************)
(* structs-local.h:115: process returns 0 on command completion, that is   *)
(* when the client has been told of all of the response, and the server    *)
(* has received all of a body, unless the client cancelled the command.    *)
(***************************************************************************)
CompleteMeansAll ==
    pc = "idle" /\ ret = "0" /\ command = call.command /\ command # "NONE" =>
       /\ reported = Expected
       /\ command = "CREATE_MESSAGE" => sent = Body

(***************************************************************************)
(* A response made of what the protocol knows: objects of known keys with  *)
(* values of their type, or a list of strings.                             *)
(***************************************************************************)
WellFormed ==
    /\ Balanced(response)
    /\ \A i \in 1..Len(response) :
          LET t == response[i]
          IN  \/ t.type \in {"array_begin", "array_end"}
              \/ call.command \in ListCommands /\ t.type = "string"
              \/ /\ call.command \in MessageCommands
                 /\ \/ t.type \in {"object_begin", "object_end", "key"}
                    \/ /\ t.type \in {"string", "int"} /\ i > 1
                       /\ response[i-1].type = "key"
                       /\ response[i-1].value \in
                             IF t.type = "string" THEN {"id", "body"} ELSE {"ttl", "hide"}

(***************************************************************************)
(* Such a response is not turned down, unless memory runs out at one of    *)
(* the tokens of a message that are copied: then it is, with the same      *)
(* EINVAL as one that is malformed (json_processing.c:166-207, 319).       *)
(***************************************************************************)
GoodResponseAccepted ==
    [][pc = "parse" /\ pc' = "idle" /\ WellFormed =>
          \/ ret' = "0"
          \/ /\ call.command \in MessageCommands
             /\ at <= Len(buffer.text) /\ NoMemoryFor(buffer.text[at])]_vars

(***************************************************************************)
(* While a transfer goes well, the buffer and what is still to come are    *)
(* the response, and the buffer's sizes are those of its text.             *)
(***************************************************************************)
BufferIsResponse ==
    pc \in {"perform", "parse", "waiting"} /\ transfer # "failed" /\ call.command # "CREATE_MESSAGE"
       => /\ buffer.text \o incoming = response
          /\ buffer.size = Len(buffer.text) /\ buffer.where = buffer.size

(***************************************************************************)
(* What a server makes of a request: the command, by the method and the    *)
(* number of names in the path, and the parameters, by the separators.     *)
(***************************************************************************)
Understood ==
    [GET    |-> <<"GET_ACCOUNTS", "GET_QUEUES", "GET_MESSAGES", "GET_MESSAGE">>,
     DELETE |-> <<"DELETE_ACCOUNTS", "DELETE_QUEUES", "DELETE_MESSAGES", "DELETE_MESSAGE">>,
     POST   |-> <<NULL, NULL, "UPDATE_MESSAGES", "UPDATE_MESSAGE">>,
     PUT    |-> <<NULL, NULL, NULL, "CREATE_MESSAGE">>]

Parameters(query) == {query[i] : i \in {j \in DOMAIN query : j % 2 = 0}}

WellSeparated(query) ==
    \A i \in DOMAIN query : i % 2 = 1 => query[i] = IF i = 1 THEN "?" ELSE "&"

(* What the command takes, and was given: only create_message takes no filters. *)
Given(c) ==
    (IF c.command = "CREATE_MESSAGE" THEN {} ELSE c.filters) \cup
    (IF c.command \in Updates \cup {"CREATE_MESSAGE"} THEN c.attributes ELSE {})

(***************************************************************************)
(* As long as the backend works on a command, the request in libcurl's     *)
(* hands is that of this command and of none before it, and the server     *)
(* reads out of it what the client asked for: the command and, but for the *)
(* two listings, each filter and attribute once.                           *)
(***************************************************************************)
RequestSaysCommand ==
    pc \in {"perform", "parse", "waiting"} =>
       /\ Understood[request.method][Len(request.path) + 1] = call.command
       /\ WellSeparated(request.query)
       /\ call.command \notin ListCommands =>
             /\ Parameters(request.query) = Given(call)
             /\ Len(request.query) = 2 * Cardinality(Given(call))

(***************************************************************************)
(* burrow.h:401, 434: the filters given to get_queues and get_accounts     *)
(* apply.  The server lists the names, so it has to be told of them        *)
(* (curl_backend.c:702-734).                                               *)
(***************************************************************************)
ListFiltersAreSent ==
    transfer = "running" /\ pc # "idle" /\ call.command \in ListCommands =>
       Parameters(request.query) = Given(call)

(***************************************************************************)
(* If a server and a port are there, the URL is made of the ones set last, *)
(* whatever failed or was empty before.                                    *)
(***************************************************************************)
UrlIsCurrent ==
    baseurl # NULL /\ server # NULL /\ port # NULL => baseurl = <<server, port>>
=============================================================================
