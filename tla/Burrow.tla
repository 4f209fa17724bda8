------------------------------- MODULE Burrow -------------------------------
(***************************************************************************)
(* The frontend of libburrow: the burrow_st handle of libburrow/burrow.c.  *)
(*                                                                         *)
(* One thread runs everything, but three parties take turns on it: the     *)
(* application (the "client"), the frontend's processing loop, and the     *)
(* backend the loop calls.  The backend calls the client back while it     *)
(* works, and the client may call any API function from a callback.  pc    *)
(* says who has the thread; a client call made from a callback is a step   *)
(* taken while pc is a callback point.                                     *)
(***************************************************************************)
EXTENDS Naturals, Sequences

CONSTANTS
    Fds,          \* file descriptors a backend may ask to have watched
    Commands,     \* the commands the client issues, a subset of AllCommands
    Backends,     \* function tables burrow_create may load: [process, event_raised, cancel]
    EventResults, \* what backend->event_raised may return
    ClientWatches,\* values of watch_fd_fn # NULL the client may choose
    AutoProcess,  \* values of the AUTOPROCESS option the client may choose
    Faults,       \* which of "cancel", "timeout", "poll_error", "enomem" happen
    Reads,        \* Reads[c]: the fields of cmd that c's command function reads
    MaxWatch      \* bound: entries of pfds (the code has none)

AllCommands == {"GET_ACCOUNTS", "DELETE_ACCOUNTS", "GET_QUEUES", "DELETE_QUEUES",
                "GET_MESSAGES", "UPDATE_MESSAGES", "DELETE_MESSAGES",
                "CREATE_MESSAGE", "GET_MESSAGE", "UPDATE_MESSAGE", "DELETE_MESSAGE"}
Fields == {"account", "queue", "message_id", "body", "attributes", "filters"}
States == {"IDLE", "START", "WAITING", "READY", "FINISH"}

(***************************************************************************)
(* Points of one activation of burrow_process; "out": no activation.       *)
(***************************************************************************)
BackendPoints == {"command", "process"}
Points == {"loop", "dispatch", "complete"} \cup BackendPoints

(* What functions return; "error" stands for every other errno, whoever it is from. *)
Results == {"0", "EAGAIN", "error"}

ASSUME ConstantsAssumption ==
    /\ Commands \subseteq AllCommands
    /\ Backends \subseteq [process : BOOLEAN, event_raised : BOOLEAN, cancel : BOOLEAN]
    /\ \A b \in Backends : b.event_raised => b.process
    /\ EventResults \subseteq {"0", "EAGAIN", "error"}
    /\ ClientWatches \subseteq BOOLEAN
    /\ AutoProcess \subseteq BOOLEAN
    /\ Reads \in [AllCommands -> SUBSET Fields]
    /\ MaxWatch \in Nat

VARIABLES
    state,       \* burrow->state
    processing,  \* BURROW_FLAG_PROCESSING in burrow->flags
    options,     \* BURROW_OPT_AUTOPROCESS in burrow->options
    watch_fd_fn, \* the client supplied a watch callback
    backend,     \* burrow->backend: which optional functions are not NULL
    cmd,         \* burrow->cmd; args: the fields the last command assigned
    pfds,        \* burrow->pfds (Len(pfds) is pfds_size)
    watch_size,  \* burrow->watch_size
    pc,          \* where the running activation of burrow_process is
    outer,       \* where the activation it interrupted is, if any
    result,      \* burrow_process's local result, then what it returned
    poll,        \* burrow_internal_poll_fds's locals: watch_size, live entries
    watched,     \* fds the running backend call has asked to have watched
    clientFds,   \* fds the client was asked to watch and has not reported
    blocked,     \* backend: its last call returned EAGAIN, not cancelled since
    pending,     \* history: a command was accepted and has not completed
    ran          \* history: calls of its command function (2: two or more)

frontend == <<state, processing, options, watch_fd_fn, backend, cmd>>
watching == <<pfds, watch_size, clientFds>>
control  == <<pc, outer, result, poll>>
history  == <<pending, ran>>
vars == <<frontend, watching, control, watched, blocked, history>>

Cmd == [command : AllCommands \cup {"NONE"},
        command_fn : AllCommands \cup {"NULL"},
        args : SUBSET Fields]

NoPoll == [n |-> 0, live |-> {}]

TypeOK ==
    /\ state \in States
    /\ processing \in BOOLEAN
    /\ options \in BOOLEAN
    /\ watch_fd_fn \in BOOLEAN
    /\ backend \in Backends
    /\ cmd \in Cmd
    /\ pfds \in Seq(Fds)
    /\ watch_size \in Nat
    /\ pc \in Points \cup {"out", "crashed"}
    /\ outer \in Points \cup {"out"}
    /\ result \in Results
    /\ poll \in [n : Nat, live : SUBSET Nat]
    /\ watched \subseteq Fds
    /\ clientFds \subseteq Fds
    /\ blocked \in BOOLEAN
    /\ pending \in BOOLEAN
    /\ ran \in 0..2

-----------------------------------------------------------------------------
(***************************************************************************)
(* burrow_create.  The client picks AUTOPROCESS, and sets its callbacks,   *)
(* before the first command; see burrow_set_watch_fd_fn below.             *)
(***************************************************************************)
Init ==
    /\ state = "IDLE"
    /\ processing = FALSE
    /\ options = FALSE
    /\ watch_fd_fn = FALSE
    /\ backend \in Backends
    /\ cmd = [command |-> "NONE", command_fn |-> "NULL", args |-> {}]
    /\ pfds = <<>>
    /\ watch_size = 0
    /\ pc = "out"
    /\ outer = "out"
    /\ result = "0"
    /\ poll = NoPoll
    /\ watched = {}
    /\ clientFds = {}
    /\ blocked = FALSE
    /\ pending = FALSE
    /\ ran = 0

(***************************************************************************)
(* The client runs outside burrow_process and inside its callbacks: the    *)
(* complete callback, and the message, queue, account and watch callbacks  *)
(* a backend makes.                                                        *)
(***************************************************************************)
ClientTurn == pc \in {"out", "complete"} \cup BackendPoints

-----------------------------------------------------------------------------
(* Operators the API functions and the loop share. *)

(* Mutant: the recursion check of burrow_process is missing. *)
EnterProcessUnguarded ==
    /\ processing' = TRUE
    /\ outer' = pc
    /\ pc' = "loop"
    /\ result' = "0"

(***************************************************************************)
(* A call of burrow_process: EAGAIN and nothing else when an activation    *)
(* set the flag, otherwise a new activation.                               *)
(***************************************************************************)
EnterProcess ==
    IF processing
      THEN UNCHANGED <<pc, outer, result, processing>>
      ELSE /\ processing' = TRUE
           /\ outer' = pc
           /\ pc' = "loop"
           /\ result' = "0"

(* A return from the middle of burrow_process: the flag is left as it is. *)
ReturnEarly(r) ==
    /\ result' = r
    /\ pc' = outer
    /\ outer' = "out"
    /\ UNCHANGED processing

(* Mutant: the command is left in cmd. *)
CancelKeepsCommand ==
    IF state = "IDLE"
      THEN UNCHANGED <<watch_size, blocked, cmd>>
      ELSE /\ watch_size' = 0
           /\ blocked' = (blocked /\ ~backend.cancel)
           /\ UNCHANGED cmd

(***************************************************************************)
(* burrow_cancel: the watch list is emptied, the backend told if it has a  *)
(* cancel function, the command forgotten.  The state is not assigned.     *)
(***************************************************************************)
DoCancel ==
    IF state = "IDLE"
      THEN UNCHANGED <<watch_size, blocked, cmd>>
      ELSE /\ watch_size' = 0
           /\ blocked' = (blocked /\ ~backend.cancel)
           /\ cmd' = [cmd EXCEPT !.command = "NONE", !.command_fn = "NULL"]

(* Mutant: an event does not make the handle READY unless AUTOPROCESS is set. *)
DoEventRaisedNotReady(r) ==
    /\ state' = IF r = "0" /\ options THEN "READY" ELSE state
    /\ UNCHANGED <<pc, outer, result, processing, watch_size, blocked, cmd>>

(***************************************************************************)
(* burrow_event_raised once the backend's handler has returned r.  A state *)
(* other than WAITING only earns a warning.                                *)
(***************************************************************************)
DoEventRaised(r) ==
    \/ /\ r = "0"
       /\ state' = "READY"
       /\ IF options THEN EnterProcess
                     ELSE UNCHANGED <<pc, outer, result, processing>>
       /\ UNCHANGED <<watch_size, blocked, cmd>>
    \/ /\ r = "EAGAIN"
       /\ UNCHANGED <<state, pc, outer, result, processing, watch_size, blocked, cmd>>
    \/ /\ r = "error"
       /\ DoCancel
       /\ UNCHANGED <<state, pc, outer, result, processing>>

-----------------------------------------------------------------------------
(* What the client calls. *)

(* Mutant: a command is accepted whatever the state. *)
IssueAnyState(c, args) ==
    /\ ClientTurn
    /\ c \in Commands
    /\ cmd' = [command |-> c, command_fn |-> c, args |-> args]
    /\ state' = IF state = "IDLE" THEN "START" ELSE state
    /\ pending' = TRUE
    /\ ran' = 0
    /\ IF options THEN EnterProcess
                  ELSE UNCHANGED <<pc, outer, result, processing>>
    /\ UNCHANGED <<options, watch_fd_fn, backend, watching, poll, watched, blocked>>

(***************************************************************************)
(* The common shape of the eleven command functions.  Unless the handle is *)
(* idle they return EINPROGRESS, and with a NULL argument EINVAL, in both  *)
(* cases changing nothing.  args are the fields of cmd the command         *)
(* assigns; the others keep what an earlier command put there.             *)
(***************************************************************************)
Issue(c, args) ==
    /\ ClientTurn
    /\ c \in Commands
    /\ state = "IDLE"
    /\ cmd' = [command |-> c, command_fn |-> c, args |-> args]
    /\ state' = "START"
    /\ pending' = TRUE
    /\ ran' = 0
    /\ IF options THEN EnterProcess
                  ELSE UNCHANGED <<pc, outer, result, processing>>
    /\ UNCHANGED <<options, watch_fd_fn, backend, watching, poll, watched, blocked>>

burrow_get_message == Issue("GET_MESSAGE", {"account", "queue", "message_id", "filters"})

burrow_create_message ==
    Issue("CREATE_MESSAGE", {"account", "queue", "message_id", "body", "attributes"})

burrow_update_message ==
    Issue("UPDATE_MESSAGE", {"account", "queue", "message_id", "attributes", "filters"})

burrow_delete_message == Issue("DELETE_MESSAGE", {"account", "queue", "message_id", "filters"})

burrow_get_messages == Issue("GET_MESSAGES", {"account", "queue", "filters"})

burrow_delete_messages == Issue("DELETE_MESSAGES", {"account", "queue", "filters"})

(* Mutant: the attributes are not stored in cmd. *)
UpdateWithoutAttributes == Issue("UPDATE_MESSAGES", {"account", "queue", "filters"})

burrow_update_messages ==
    Issue("UPDATE_MESSAGES", {"account", "queue", "filters", "attributes"})

burrow_get_queues == Issue("GET_QUEUES", {"account", "filters"})

burrow_delete_queues == Issue("DELETE_QUEUES", {"account", "filters"})

burrow_get_accounts == Issue("GET_ACCOUNTS", {"filters"})

burrow_delete_accounts == Issue("DELETE_ACCOUNTS", {"filters"})

burrow_process ==
    /\ ClientTurn
    /\ EnterProcess
    /\ UNCHANGED <<state, options, watch_fd_fn, backend, cmd, watching, poll,
                   watched, blocked, history>>

(* Mutant: cancel makes the handle idle without completing the command. *)
CancelToIdle ==
    /\ ClientTurn
    /\ "cancel" \in Faults
    /\ state' = "IDLE"
    /\ DoCancel
    /\ UNCHANGED <<processing, options, watch_fd_fn, backend, pfds,
                   clientFds, control, watched, history>>

burrow_cancel ==
    /\ ClientTurn
    /\ "cancel" \in Faults
    /\ DoCancel
    /\ UNCHANGED <<state, processing, options, watch_fd_fn, backend, pfds,
                   clientFds, control, watched, history>>

(***************************************************************************)
(* The client reports an event, as burrow.h requires only on a descriptor  *)
(* it was asked to watch.  Without a handler in the backend the call       *)
(* returns ENOTCONN and changes nothing.                                   *)
(***************************************************************************)
burrow_event_raised(fd) ==
    /\ ClientTurn
    /\ fd \in clientFds
    /\ backend.event_raised
    /\ clientFds' = clientFds \ {fd}
    /\ \E r \in EventResults : DoEventRaised(r)
    /\ UNCHANGED <<options, watch_fd_fn, backend, pfds, poll, watched, history>>

(* burrow_set_options, burrow_add_options and burrow_remove_options. *)
burrow_set_options ==
    /\ ClientTurn
    /\ options' \in AutoProcess
    /\ UNCHANGED <<state, processing, watch_fd_fn, backend, cmd, watching,
                   control, watched, blocked, history>>

(* The client installs its callbacks before it issues the first command. *)
burrow_set_watch_fd_fn ==
    /\ pc = "out"
    /\ cmd.args = {}
    /\ watch_fd_fn' \in ClientWatches
    /\ UNCHANGED <<state, processing, options, backend, cmd, watching, control,
                   watched, blocked, history>>

-----------------------------------------------------------------------------
(* The backend, as the frontend's contract for it (structs-local.h) has it. *)

(* Mutant: the entry is counted before realloc is known to have succeeded. *)
WatchCountedFirst(fd) ==
    /\ watch_size < MaxWatch
    /\ watch_size' = watch_size + 1
    /\ \/ pfds' = IF Len(pfds) < watch_size + 1
                    THEN Append(pfds, fd)
                    ELSE [pfds EXCEPT ![watch_size + 1] = fd]
       \/ "enomem" \in Faults /\ Len(pfds) < watch_size + 1 /\ UNCHANGED pfds

(* Mutant: the descriptor is stored but not counted. *)
WatchNotCounted(fd) ==
    /\ pfds' = IF Len(pfds) < watch_size + 1
                 THEN Append(pfds, fd)
                 ELSE [pfds EXCEPT ![watch_size + 1] = fd]
    /\ UNCHANGED watch_size

(* burrow_internal_watch_fd; realloc, when it is needed, may fail. *)
InternalWatch(fd) ==
    \/ /\ watch_size < MaxWatch
       /\ pfds' = IF Len(pfds) < watch_size + 1
                    THEN Append(pfds, fd)
                    ELSE [pfds EXCEPT ![watch_size + 1] = fd]
       /\ watch_size' = watch_size + 1
    \/ /\ "enomem" \in Faults
       /\ Len(pfds) < watch_size + 1
       /\ UNCHANGED <<pfds, watch_size>>

(* burrow_watch_fd: the wrapper drops what the internal function returns. *)
burrow_watch_fd(fd) ==
    /\ pc \in BackendPoints
    /\ fd \notin watched
    /\ watched' = watched \cup {fd}
    /\ IF watch_fd_fn
         THEN clientFds' = clientFds \cup {fd} /\ UNCHANGED <<pfds, watch_size>>
         ELSE InternalWatch(fd) /\ UNCHANGED clientFds
    /\ UNCHANGED <<frontend, control, blocked, history>>

(* A backend returns EAGAIN exactly when it has asked for descriptors. *)
BackendResults == IF watched = {} THEN {"0", "error"} ELSE {"EAGAIN"}

(* cmd.command_fn returns to case BURROW_STATE_START. *)
CommandReturns(r) ==
    /\ pc = "command"
    /\ r \in BackendResults
    /\ watched' = {}
    /\ IF r = "EAGAIN" /\ ~backend.process
         THEN DoCancel /\ ReturnEarly("error") /\ UNCHANGED state
         ELSE /\ result' = r
              /\ state' = IF r = "EAGAIN" THEN "WAITING" ELSE "FINISH"
              /\ blocked' = (r = "EAGAIN")
              /\ pc' = "loop"
              /\ UNCHANGED <<watch_size, cmd, outer, processing>>
    /\ UNCHANGED <<options, watch_fd_fn, backend, pfds, clientFds, poll, history>>

(* Mutant: after an error the backend is called again instead of finishing. *)
ProcessRetries(r) ==
    /\ pc = "process"
    /\ r \in BackendResults
    /\ watched' = {}
    /\ result' = r
    /\ state' = CASE r = "EAGAIN" -> "WAITING" [] r = "error" -> "READY" [] OTHER -> "FINISH"
    /\ blocked' = (r = "EAGAIN")
    /\ pc' = "loop"
    /\ UNCHANGED <<processing, options, watch_fd_fn, backend, cmd, watching,
                   outer, poll, history>>

(* Mutant: the backend is not expected to block a second time. *)
ProcessCalledOnce(r) ==
    /\ pc = "process"
    /\ r \in BackendResults
    /\ watched' = {}
    /\ result' = r
    /\ state' = "FINISH"
    /\ blocked' = (r = "EAGAIN")
    /\ pc' = "loop"
    /\ UNCHANGED <<processing, options, watch_fd_fn, backend, cmd, watching,
                   outer, poll, history>>

(* backend->process returns to case BURROW_STATE_READY. *)
ProcessReturns(r) ==
    /\ pc = "process"
    /\ r \in BackendResults
    /\ watched' = {}
    /\ result' = r
    /\ state' = IF r = "EAGAIN" THEN "WAITING" ELSE "FINISH"
    /\ blocked' = (r = "EAGAIN")
    /\ pc' = "loop"
    /\ UNCHANGED <<processing, options, watch_fd_fn, backend, cmd, watching,
                   outer, poll, history>>

-----------------------------------------------------------------------------
(* The loop of burrow_process. *)

(* case BURROW_STATE_START; after a cancel command_fn is NULL. *)
StartCommand ==
    /\ pc = "loop"
    /\ state = "START"
    /\ IF cmd.command_fn = "NULL"
         THEN pc' = "crashed" /\ UNCHANGED ran
         ELSE pc' = "command" /\ ran' = IF ran < 2 THEN ran + 1 ELSE ran
    /\ UNCHANGED <<frontend, watching, outer, result, poll, watched, blocked, pending>>

(* case BURROW_STATE_READY *)
ContinueCommand ==
    /\ pc = "loop"
    /\ state = "READY"
    /\ pc' = "process"
    /\ UNCHANGED <<frontend, watching, outer, result, poll, watched, blocked, history>>

(* Mutant: an empty watch list is reported as success. *)
WouldBlockReturnsZero ==
    /\ pc = "loop"
    /\ state = "WAITING"
    /\ watch_size = 0
    /\ ReturnEarly("0")
    /\ UNCHANGED <<state, options, watch_fd_fn, backend, cmd, watching, poll,
                   watched, blocked, history>>

(* case BURROW_STATE_WAITING with nothing in the internal watch list. *)
WouldBlock ==
    /\ pc = "loop"
    /\ state = "WAITING"
    /\ watch_size = 0
    /\ ReturnEarly("EAGAIN")
    /\ UNCHANGED <<state, options, watch_fd_fn, backend, cmd, watching, poll,
                   watched, blocked, history>>

(* burrow_internal_poll_fds: poll reports some live entries ... *)
PollFds ==
    /\ pc = "loop"
    /\ state = "WAITING"
    /\ watch_size > 0
    /\ \E live \in (SUBSET (1..watch_size)) \ {{}} :
          poll' = [n |-> watch_size, live |-> live]
    /\ pc' = "dispatch"
    /\ UNCHANGED <<frontend, watching, outer, result, watched, blocked, history>>

(* ... or none within the timeout: cancel and give up ... *)
PollTimeout ==
    /\ pc = "loop"
    /\ state = "WAITING"
    /\ watch_size > 0
    /\ "timeout" \in Faults
    /\ DoCancel
    /\ ReturnEarly("error")
    /\ UNCHANGED <<state, options, watch_fd_fn, backend, pfds, clientFds, poll,
                   watched, history>>

(* ... or fails, with EINTR for instance. *)
PollError ==
    /\ pc = "loop"
    /\ state = "WAITING"
    /\ watch_size > 0
    /\ "poll_error" \in Faults
    /\ ReturnEarly("error")
    /\ UNCHANGED <<state, options, watch_fd_fn, backend, cmd, watching, poll,
                   watched, blocked, history>>

(***************************************************************************)
(* One turn of the loop over pfds, from the next live entry i on: the      *)
(* event is raised, then the last entry is moved into its slot, where it   *)
(* is looked at again.  watch_size is not assigned before the loop ends.   *)
(***************************************************************************)
RaisePolled ==
    /\ pc = "dispatch"
    /\ \E i \in poll.live :
          /\ \A j \in poll.live : i <= j
          /\ pfds' = [pfds EXCEPT ![i] = pfds[poll.n]]
          /\ poll' = [n |-> poll.n - 1,
                      live |-> IF poll.n \in poll.live
                                 THEN poll.live \ {poll.n}
                                 ELSE poll.live \ {i}]
    /\ IF backend.event_raised
         THEN \E r \in EventResults : DoEventRaised(r)
         ELSE UNCHANGED <<state, pc, outer, result, processing, watch_size, blocked, cmd>>
    /\ UNCHANGED <<options, watch_fd_fn, backend, clientFds, watched, history>>

(* Mutant: watch_size is written back one short. *)
PollDoneOneShort ==
    /\ pc = "dispatch"
    /\ poll.live = {}
    /\ watch_size' = poll.n - 1
    /\ poll' = NoPoll
    /\ pc' = "loop"
    /\ UNCHANGED <<frontend, pfds, clientFds, outer, result, watched, blocked, history>>

PollDone ==
    /\ pc = "dispatch"
    /\ poll.live = {}
    /\ watch_size' = poll.n
    /\ poll' = NoPoll
    /\ pc' = "loop"
    /\ UNCHANGED <<frontend, pfds, clientFds, outer, result, watched, blocked, history>>

(***************************************************************************)
(* case BURROW_STATE_FINISH: the handle accepts commands again, then the   *)
(* complete callback is entered.  Descriptors still watched are logged as  *)
(* an error and kept.                                                      *)
(***************************************************************************)
FinishCommand ==
    /\ pc = "loop"
    /\ state = "FINISH"
    /\ state' = "IDLE"
    /\ cmd' = [cmd EXCEPT !.command = "NONE"]
    /\ pc' = "complete"
    /\ pending' = FALSE
    /\ UNCHANGED <<processing, options, watch_fd_fn, backend, watching, outer,
                   result, poll, watched, blocked, ran>>

CompleteReturns ==
    /\ pc = "complete"
    /\ pc' = "loop"
    /\ UNCHANGED <<frontend, watching, outer, result, poll, watched, blocked, history>>

(* Mutant: the flag stays set when the loop ends. *)
LeaveLoopFlagged ==
    /\ pc = "loop"
    /\ state = "IDLE"
    /\ pc' = outer
    /\ outer' = "out"
    /\ UNCHANGED <<frontend, watching, result, poll, watched, blocked, history>>

(* The loop ends when the handle is idle; the flag is toggled. *)
LeaveLoop ==
    /\ pc = "loop"
    /\ state = "IDLE"
    /\ processing' = ~processing
    /\ pc' = outer
    /\ outer' = "out"
    /\ UNCHANGED <<state, options, watch_fd_fn, backend, cmd, watching, result,
                   poll, watched, blocked, history>>

(* A crashed program takes no more steps. *)
Crashed == pc = "crashed" /\ UNCHANGED vars

-----------------------------------------------------------------------------
IssueCommand ==
    \/ burrow_get_message \/ burrow_create_message
    \/ burrow_update_message \/ burrow_delete_message
    \/ burrow_get_messages \/ burrow_delete_messages \/ burrow_update_messages
    \/ burrow_get_queues \/ burrow_delete_queues
    \/ burrow_get_accounts \/ burrow_delete_accounts

ClientStep ==
    \/ IssueCommand
    \/ burrow_process
    \/ burrow_cancel
    \/ \E fd \in Fds : burrow_event_raised(fd)
    \/ burrow_set_options
    \/ burrow_set_watch_fd_fn

BackendStep ==
    \/ \E fd \in Fds : burrow_watch_fd(fd)
    \/ \E r \in Results : CommandReturns(r) \/ ProcessReturns(r)

LoopStep ==
    \/ StartCommand \/ ContinueCommand
    \/ WouldBlock \/ PollFds \/ PollTimeout \/ PollError \/ RaisePolled \/ PollDone
    \/ FinishCommand \/ CompleteReturns \/ LeaveLoop

Next == ClientStep \/ BackendStep \/ LoopStep \/ Crashed

Spec == Init /\ [][Next]_vars

(***************************************************************************)
(* Fairness.  The library and the callbacks it makes do not stop half-way; *)
(* the client comes back to burrow_process for as long as it has not been  *)
(* told the command is done, and reports the events it was asked to watch; *)
(* the peer answers, so a backend that is asked again and again in the end *)
(* completes.                                                              *)
(***************************************************************************)
Fairness ==
    /\ WF_vars(LoopStep)
    /\ WF_vars(\E r \in Results : CommandReturns(r) \/ ProcessReturns(r))
    /\ SF_vars(CommandReturns("0") \/ ProcessReturns("0"))
    /\ WF_vars(pc = "out" /\ burrow_process)
    /\ \A fd \in Fds : WF_vars(burrow_event_raised(fd))

FairSpec == Spec /\ Fairness

-----------------------------------------------------------------------------
(* What makes the frontend correct. *)

(***************************************************************************)
(* burrow_process is never re-entered: whatever the client calls from a    *)
(* callback, at most one activation of the loop exists, so no backend      *)
(* function is called while another one runs (burrow.c:168).               *)
(***************************************************************************)
NotReentered == outer = "out"

(***************************************************************************)
(* The handle is idle, and so takes a new command, exactly when the last   *)
(* accepted command has completed: no event, cancel, timeout or nested     *)
(* call makes it idle early or leaves it busy after the complete callback. *)
(***************************************************************************)
StateTracksCommand == pending <=> state # "IDLE"

(***************************************************************************)
(* Every complete callback answers one accepted command whose command      *)
(* function was called exactly once: none is skipped, repeated or made up. *)
(***************************************************************************)
CompleteAnswersCommand ==
    [][pc = "loop" /\ pc' = "complete" => pending /\ ran = 1]_vars

(***************************************************************************)
(* backend->process is called only to continue a command whose last call   *)
(* returned EAGAIN, as structs-local.h:107 has it.                         *)
(***************************************************************************)
ProcessOnlyWhenBlocked == [][pc = "loop" /\ pc' = "process" => blocked]_vars

(***************************************************************************)
(* Whoever fails or cancels in between, poll and the loop over its result  *)
(* stay within the allocated pfds (burrow.c:106, 128, 145).                *)
(***************************************************************************)
PollInBounds ==
    /\ watch_size <= Len(pfds)
    /\ poll.n <= Len(pfds)
    /\ poll.live \subseteq 1..poll.n

(***************************************************************************)
(* burrow.h:471: burrow_process returns 0 on command completion and EAGAIN *)
(* if it would block.  So with 0 no command is outstanding, not even one   *)
(* issued from the complete callback, and with EAGAIN one is.  An error    *)
(* says neither: a backend's EINVAL comes with the command completed, the  *)
(* EINVAL of burrow.c:186 and poll's errno with the command still pending. *)
(***************************************************************************)
ReturnTellsOutcome ==
    [][pc # "out" /\ pc' = "out" =>
          (result' = "0" => ~pending') /\ (result' = "EAGAIN" => pending')]_vars

(***************************************************************************)
(* When the client has the thread and the handle is idle, the processing   *)
(* flag is clear, so the next command will be processed.                   *)
(***************************************************************************)
IdleIsUsable == pc = "out" /\ state = "IDLE" => ~processing

(***************************************************************************)
(* A command function reads only those fields of cmd that the command it   *)
(* runs for assigned, never a pointer an earlier command left there.       *)
(***************************************************************************)
ArgumentsAreCurrent ==
    [][pc = "loop" /\ pc' = "command" => Reads[cmd.command_fn] \subseteq cmd.args]_vars

-----------------------------------------------------------------------------
(***************************************************************************)
(* The inductive invariant behind the safety properties.                   *)
(***************************************************************************)

(* Which states go with which point of the loop, and when the flag is set. *)
ControlInv ==
    /\ outer = "out"
    /\ pc # "out" => processing
    /\ pc = "out" /\ state = "IDLE" => ~processing
    /\ pc = "out" /\ state \in {"WAITING", "READY"} => processing
    /\ pc = "command" => state \in {"START", "READY"}
    /\ pc = "process" => state = "READY"
    /\ pc = "dispatch" => state \in {"WAITING", "READY"}
    /\ pc = "complete" => state \in {"IDLE", "START"}
    /\ pc = "crashed" => state = "START"
    /\ state = "FINISH" => pc = "loop"
    /\ state \in {"WAITING", "READY"} => backend.process
    /\ pc = "out" /\ state = "START" /\ processing => ~backend.process

(***************************************************************************)
(* The client watches or the frontend polls, never both.  A descriptor the *)
(* client still watches belongs to the running command: the backend call   *)
(* that asked for it is running, or has returned EAGAIN, and then the      *)
(* handle never becomes idle again.                                        *)
(***************************************************************************)
WatchInv ==
    /\ watch_fd_fn => watch_size = 0 /\ pc # "dispatch"
    /\ cmd.args = {} => /\ state = "IDLE" /\ pc \in {"out", "loop"}
                        /\ watch_size = 0 /\ clientFds = {}
    /\ clientFds # {} =>
          /\ watch_fd_fn
          /\ state # "IDLE"
          /\ ran = 1
          /\ \/ pc \in BackendPoints /\ watched # {}
             \/ pc = "loop" /\ state = "WAITING"
             \/ pc = "out" /\ processing

(* How far the accepted command has come, and what its result is. *)
CommandInv ==
    /\ state \in {"WAITING", "READY", "FINISH"} \/ pc = "command" => ran = 1
    /\ state = "START" /\ (pc \in {"loop", "complete"} \/ ~processing) => ran = 0
    /\ state = "FINISH" \/ (state = "IDLE" /\ pc # "out") => result \in {"0", "error"}

(* A backend that is not told of a cancel still waits for the events it asked for. *)
BlockedInv ==
    ~backend.cancel /\ (state = "WAITING" \/ (state = "READY" /\ pc # "command")) => blocked

IndInv ==
    /\ TypeOK
    /\ ControlInv
    /\ StateTracksCommand
    /\ PollInBounds
    /\ WatchInv
    /\ CommandInv
    /\ BlockedInv

(* An accepted command is completed in the end. *)
CommandCompletes == pending ~> ~pending

(***************************************************************************)
(* burrow.h:456: cancelling an ongoing command leads to its complete       *)
(* callback.                                                               *)
(***************************************************************************)
CancelCompletes == (state # "IDLE" /\ cmd.command = "NONE") ~> pc = "complete"
=============================================================================
