----------------------------- MODULE BurrowHttp -----------------------------
(***************************************************************************)
(* A handle on the http backend: the frontend (Burrow) and the backend     *)
(* (HttpBackend) as one program on one thread.  The frontend no longer     *)
(* meets a backend that may return anything: every call it makes runs the  *)
(* backend's code, and every callback the backend makes reaches the client *)
(* of the frontend.  The two share cmd: the backend looks at cmd.command   *)
(* for each token it parses, and burrow_cancel takes it away.              *)
(*                                                                         *)
(* The frontend polls for itself (no watch_fd_fn), and the client cancels  *)
(* from a message, queue or account callback only.                         *)
(***************************************************************************)
EXTENDS Integers, Sequences, FiniteSets

CONSTANTS
    Fds,            \* descriptors, as numbers, libcurl may have open for a transfer
    Calls,          \* what the client asks for, as in HttpBackend
    Responses,      \* what the server may answer, as in HttpBackend
    Body,           \* the body of created messages
    Servers, Ports, \* values of the options "server" and "port"
    NULL,
    AutoProcess,    \* values of the AUTOPROCESS option the client may choose
    FrontFaults,    \* what may go wrong in the frontend, as Faults in Burrow
    HttpFaults,     \* what may go wrong in the backend, as in HttpBackend
    MaxWatch        \* bound: entries of pfds (the code has none)

VARIABLES
    state, processing, options, watch_fd_fn, backend, cmd,  \* the frontend's
    pfds, watch_size, pc, outer, result, poll, watched,
    clientFds, blocked, pending, ran,
    server, port, baseurl, get_body_only, request, transfer, \* the backend's
    incoming, buffer, jproc, at, hpc, ret,
    call, response, reported, sent,
    asked,     \* history: the call the client issued last
    cancelled, \* history: the client, or poll's timeout, has cancelled it
    trouble    \* history: poll failed or timed out on it, or a descriptor was not stored

frontVars == <<state, processing, options, watch_fd_fn, backend, cmd, pfds, watch_size,
               pc, outer, result, poll, watched, clientFds, blocked, pending, ran>>
httpVars == <<server, port, baseurl, get_body_only, request, transfer, incoming, buffer,
              jproc, at, hpc, ret, call, response, reported, sent>>
history == <<asked, cancelled, trouble>>
vars == <<frontVars, httpVars, history>>

(* burrow_backend_http_functions: no cancel function. *)
HttpTable == [process |-> TRUE, event_raised |-> TRUE, cancel |-> FALSE]

Issued == {c.command : c \in Calls}

(* The backend has no command of its own: it reads the frontend's. *)
H == INSTANCE HttpBackend WITH pc <- hpc, command <- cmd.command, Faults <- HttpFaults

F == INSTANCE Burrow WITH
       Commands <- Issued, Backends <- {HttpTable}, EventResults <- {"0"},
       ClientWatches <- {FALSE}, Faults <- FrontFaults, Reads <- [c \in H!AllCommands |-> {}]

(***************************************************************************)
(* What each part assumes of the constants, for this handle.  libcurl has  *)
(* a descriptor to wait for as long as a transfer runs.                    *)
(***************************************************************************)
ASSUME ConstantsAssumption ==
    /\ H!ConstantsAssumption /\ H!FlatAssumption
    /\ F!ConstantsAssumption
    /\ "no_fds" \notin HttpFaults

TypeOK == F!TypeOK /\ H!TypeOK

Init ==
    /\ F!Init
    /\ H!Init
    /\ asked = call
    /\ cancelled = FALSE
    /\ trouble = FALSE

-----------------------------------------------------------------------------
(* The client, outside burrow_process or in its complete callback. *)

Issue(c) ==
    /\ F!IssueCommand
    /\ cmd'.command = c.command
    /\ asked' = c
    /\ cancelled' = FALSE
    /\ trouble' = FALSE
    /\ UNCHANGED httpVars

burrow_process == F!burrow_process /\ UNCHANGED <<httpVars, history>>

burrow_set_options == F!burrow_set_options /\ UNCHANGED <<httpVars, history>>

burrow_set_backend_option ==
    /\ pc \in {"out", "complete"}
    /\ UNCHANGED <<frontVars, history>>
    /\ (\E s \in Servers : H!SetServer(s)) \/ (\E p \in Ports \cup {NULL} : H!SetPort(p))

-----------------------------------------------------------------------------
(* The frontend calls the backend. *)

(* cmd.command_fn is called, and with it burrow_backend_http_process. *)
StartCommand ==
    /\ F!StartCommand
    /\ \/ H!common_getting(asked) \/ H!common_getlists(asked)
       \/ H!common_delete(asked) \/ H!create_message(asked)
    /\ UNCHANGED history

(* backend->process is called again. *)
ContinueCommand ==
    /\ F!ContinueCommand
    /\ H!event_raised
    /\ UNCHANGED history

Code(r) == IF r \in {"0", "EAGAIN"} THEN r ELSE "error"

BackendReturns ==
    /\ hpc \in {"idle", "waiting"}
    /\ F!CommandReturns(Code(ret)) \/ F!ProcessReturns(Code(ret))
    /\ UNCHANGED <<httpVars, history>>

-----------------------------------------------------------------------------
(* The backend runs. *)

(* Inside curl_multi_perform, before any descriptor is asked for. *)
Perform ==
    /\ watched = {}
    /\ UNCHANGED <<frontVars, history>>
    /\ H!CurlStep

(* realloc failed in burrow_internal_watch_fd; no caller looks at what it returned. *)
WatchIsLost == Len(pfds) < watch_size + 1 /\ UNCHANGED pfds

(* The transfer is not over: its descriptors, the lowest first, are watched ... *)
WatchFd(fd) ==
    /\ hpc = "perform" /\ transfer = "running"
    /\ \A lower \in watched : lower < fd
    /\ F!burrow_watch_fd(fd)
    /\ trouble' = (trouble \/ WatchIsLost)
    /\ UNCHANGED <<httpVars, asked, cancelled>>

(* ... and EAGAIN is returned. *)
ProcessBlocks ==
    /\ watched # {}
    /\ UNCHANGED <<frontVars, history>>
    /\ H!ProcessBlocks

ProcessFails ==
    /\ watched = {}
    /\ UNCHANGED <<frontVars, history>>
    /\ H!ProcessError

(* The response is looked at; from a callback it leads to the client may cancel. *)
ProcessResponse ==
    \/ /\ UNCHANGED <<frontVars, history>>
       /\ H!ProcessComplete \/ H!ParseToken \/ H!ParseDone
    \/ /\ F!burrow_cancel
       /\ H!ProcessComplete \/ H!ParseToken
       /\ reported' # reported
       /\ cancelled' = TRUE
       /\ UNCHANGED <<asked, trouble>>

-----------------------------------------------------------------------------
(* The rest of the frontend's loop. *)

(***************************************************************************)
(* Bound: poll finds enough entries live for the next call of the backend  *)
(* to find room for its descriptors.                                       *)
(***************************************************************************)
RoomIsLeft == watch_size' - Cardinality(poll'.live) <= MaxWatch - Cardinality(Fds)

PollFds == F!PollFds /\ RoomIsLeft /\ UNCHANGED <<httpVars, history>>

(* Nothing within the timeout: burrow_process cancels and returns, the flag still set. *)
PollTimeout ==
    /\ F!PollTimeout
    /\ cancelled' = TRUE
    /\ trouble' = TRUE
    /\ UNCHANGED <<httpVars, asked>>

(* poll fails, with EINTR for instance: burrow_process returns, the flag still set. *)
PollError ==
    /\ F!PollError
    /\ trouble' = TRUE
    /\ UNCHANGED <<httpVars, asked, cancelled>>

LoopGoesOn ==
    /\ \/ F!WouldBlock \/ F!RaisePolled \/ F!PollDone
       \/ F!FinishCommand \/ F!CompleteReturns \/ F!LeaveLoop
    /\ UNCHANGED <<httpVars, history>>

-----------------------------------------------------------------------------
ClientStep ==
    \/ \E c \in Calls : Issue(c)
    \/ burrow_process
    \/ burrow_set_options
    \/ burrow_set_backend_option

BackendStep ==
    \/ \E fd \in Fds : WatchFd(fd)
    \/ ProcessBlocks \/ ProcessFails \/ ProcessResponse \/ BackendReturns

LoopStep ==
    \/ StartCommand \/ ContinueCommand
    \/ PollFds \/ PollTimeout \/ PollError
    \/ LoopGoesOn

Next == ClientStep \/ BackendStep \/ LoopStep \/ Perform

(***************************************************************************)
(* The library and the callbacks it makes do not stop half-way, the client *)
(* comes back to burrow_process, and, asked again and again, libcurl gets  *)
(* on with the transfer: the server answers or the connection breaks.      *)
(***************************************************************************)
Fairness ==
    /\ WF_vars(LoopStep)
    /\ WF_vars(BackendStep)
    /\ SF_vars(Perform)
    /\ WF_vars(pc = "out" /\ burrow_process)

Spec == Init /\ [][Next]_vars /\ Fairness

-----------------------------------------------------------------------------
(* What makes the two together correct. *)

(***************************************************************************)
(* The frontend and the backend agree about who is to move: a handle that  *)
(* takes a new command has a backend that is done with the last one, one   *)
(* that waits or was woken has a backend that asked to be called again,    *)
(* and the backend works only while the frontend is in a call of it        *)
(* (burrow.c:176-208, curl_backend.c:526-647).  A handle that waits has a  *)
(* descriptor to wait for, unless poll gave up on it (burrow.c:121) or     *)
(* there was no memory to store the descriptor (burrow.c:75).              *)
(***************************************************************************)
InStep ==
    /\ state \in {"IDLE", "FINISH"} => hpc = "idle"
    /\ state = "WAITING" => hpc = "waiting" /\ (watch_size > 0 \/ trouble)
    /\ state = "READY" /\ pc \notin F!BackendPoints => hpc = "waiting"
    /\ hpc \in {"perform", "parse"} => pc \in F!BackendPoints

(***************************************************************************)
(* With the internal poll, burrow_process comes back to the client before  *)
(* the command it was given is done, and so with the flag set that blocks  *)
(* every later call, only if poll failed or timed out or a descriptor      *)
(* could not be stored: the backend never blocks without having asked for  *)
(* a descriptor (burrow.c:204-208).                                        *)
(***************************************************************************)
BlocksUntilDone == pc = "out" /\ processing => trouble

(***************************************************************************)
(* When the complete callback comes with the result 0, it is for the call  *)
(* the client issued: the transfer went well, the client has been told of  *)
(* all of the response, in order, and the server has all of a body.        *)
(***************************************************************************)
CompletionIsTruthful ==
    pc = "complete" /\ state = "IDLE" /\ result = "0" /\ ~cancelled =>
       /\ call = asked
       /\ transfer = "ok"
       /\ reported = H!Expected
       /\ asked.command = "CREATE_MESSAGE" => sent = Body

(***************************************************************************)
(* Once the client has cancelled, from a callback in the middle of a       *)
(* response, it is told of nothing more: the backend, which is not told of *)
(* the cancel, notices it by cmd.command (json_processing.c).              *)
(***************************************************************************)
CancelledIsSilent == [][cancelled /\ cancelled' => reported' = reported]_vars

(***************************************************************************)
(* Whatever the server answers, however often the transfer blocks, with    *)
(* descriptors of earlier commands still in the watch list, and cancelled  *)
(* from a callback or not: a command the frontend accepted completes, or   *)
(* poll failed or timed out on it, or a descriptor could not be stored.    *)
(***************************************************************************)
EveryCommandCompletes == pending ~> (~pending \/ trouble)
=============================================================================
