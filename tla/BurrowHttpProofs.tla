-------------------------- MODULE BurrowHttpProofs --------------------------
(***************************************************************************)
(* Proofs about the frontend on the http backend.  The invariants of the   *)
(* two parts are taken from their own proofs: every step of the whole is a *)
(* step of the frontend or leaves it alone, and a step of the backend or   *)
(* leaves it alone.  What is new is how the two fit together.              *)
(***************************************************************************)
EXTENDS BurrowHttp, TLAPS

FP == INSTANCE BurrowProofs WITH
        Commands <- Issued, Backends <- {HttpTable}, EventResults <- {"0"},
        ClientWatches <- {FALSE}, Faults <- FrontFaults, Reads <- [c \in H!AllCommands |-> {}]

HP == INSTANCE HttpBackendProofs WITH pc <- hpc, command <- cmd.command, Faults <- HttpFaults

-----------------------------------------------------------------------------
(* The invariant *)

(* The current command has been handed to the backend. *)
HandedOver == pc \in F!BackendPoints \/ state \in {"WAITING", "READY", "FINISH"}

(* A command that has been accepted, and which the backend does not know of yet. *)
AcceptedInv ==
    state = "START" /\ pc \notin F!BackendPoints =>
       /\ hpc = "idle"
       /\ cmd.command_fn # "NULL"
       /\ asked \in Calls
       /\ ~cancelled

(* What the backend works on, and what became of it, is what was asked for. *)
CallInv ==
    /\ HandedOver \/ (state = "IDLE" /\ pc = "complete") => call = asked /\ asked \in Calls
    /\ state # "IDLE" /\ ~cancelled => cmd.command = asked.command
    /\ state = "IDLE" \/ cancelled => cmd.command = "NONE"

(* What the backend has returned, or is about to. *)
ReturnInv ==
    /\ hpc # "destroyed"
    /\ hpc = "waiting" => ret = "EAGAIN"
    /\ hpc = "idle" => ret # "EAGAIN"
    /\ state = "FINISH" \/ (state = "IDLE" /\ pc = "complete") => result = Code(ret)

(* A watched descriptor is in the list or was lost, and only a transfer that runs has one. *)
WatchInv ==
    /\ ~watch_fd_fn /\ trouble \in BOOLEAN
    /\ watched # {} =>
          /\ pc \in F!BackendPoints /\ (watch_size > 0 \/ trouble)
          /\ (hpc = "perform" /\ transfer = "running") \/ hpc = "waiting"
    /\ hpc = "waiting" /\ pc \in F!BackendPoints => watched # {}
    /\ pc = "dispatch" /\ state = "WAITING" => poll.live # {}

LinkInv ==
    /\ InStep /\ BlocksUntilDone /\ CompletionIsTruthful
    /\ pc # "crashed"
    /\ AcceptedInv /\ CallInv /\ ReturnInv /\ WatchInv

JointInv ==
    /\ FP!IndInv
    /\ HP!ExchangeInv
    /\ HandedOver => HP!DoneInv
    /\ LinkInv
-----------------------------------------------------------------------------
(* The parts' own steps *)

(***************************************************************************)
(* The frontend's actions are those its proofs are about.                  *)
(***************************************************************************)
LEMMA FrontendActions ==
    /\ F!Init => FP!Init
    /\ F!IssueCommand => FP!IssueCommand
    /\ F!burrow_process => FP!burrow_process
    /\ F!burrow_cancel => FP!burrow_cancel
    /\ F!burrow_set_options => FP!burrow_set_options
    /\ \A fd \in Fds : F!burrow_watch_fd(fd) => FP!burrow_watch_fd(fd)
    /\ \A r \in F!Results : F!CommandReturns(r) => FP!CommandReturns(r)
    /\ \A r \in F!Results : F!ProcessReturns(r) => FP!ProcessReturns(r)
    /\ F!StartCommand => FP!StartCommand
    /\ F!ContinueCommand => FP!ContinueCommand
    /\ F!WouldBlock => FP!WouldBlock
    /\ F!PollFds => FP!PollFds
    /\ F!PollTimeout => FP!PollTimeout
    /\ F!PollError => FP!PollError
    /\ F!RaisePolled => FP!RaisePolled
    /\ F!PollDone => FP!PollDone
    /\ F!FinishCommand => FP!FinishCommand
    /\ F!CompleteReturns => FP!CompleteReturns
    /\ F!LeaveLoop => FP!LeaveLoop
<1>1. F!Init => FP!Init
  BY DEF F!Init, FP!Init, F!NoPoll, FP!NoPoll
<1>2. F!IssueCommand => FP!IssueCommand
  BY DEF F!IssueCommand, FP!IssueCommand, F!burrow_get_message, FP!burrow_get_message,
         F!burrow_create_message, FP!burrow_create_message, F!burrow_update_message,
         FP!burrow_update_message, F!burrow_delete_message, FP!burrow_delete_message,
         F!burrow_get_messages, FP!burrow_get_messages, F!burrow_delete_messages,
         FP!burrow_delete_messages, F!burrow_update_messages, FP!burrow_update_messages,
         F!burrow_get_queues, FP!burrow_get_queues, F!burrow_delete_queues,
         FP!burrow_delete_queues, F!burrow_get_accounts, FP!burrow_get_accounts,
         F!burrow_delete_accounts, FP!burrow_delete_accounts, F!Issue, FP!Issue, F!ClientTurn,
         FP!ClientTurn, F!BackendPoints, FP!BackendPoints, F!EnterProcess, FP!EnterProcess,
         F!watching, FP!watching
<1>3. F!burrow_process => FP!burrow_process
  BY DEF F!burrow_process, FP!burrow_process, F!ClientTurn, FP!ClientTurn, F!BackendPoints,
         FP!BackendPoints, F!EnterProcess, FP!EnterProcess, F!watching, FP!watching, F!history,
         FP!history
<1>4. F!burrow_cancel => FP!burrow_cancel
  BY DEF F!burrow_cancel, FP!burrow_cancel, F!ClientTurn, FP!ClientTurn, F!BackendPoints,
         FP!BackendPoints, F!DoCancel, FP!DoCancel, F!control, FP!control, F!history, FP!history
<1>5. F!burrow_set_options => FP!burrow_set_options
  BY DEF F!burrow_set_options, FP!burrow_set_options, F!ClientTurn, FP!ClientTurn,
         F!BackendPoints, FP!BackendPoints, F!watching, FP!watching, F!control, FP!control,
         F!history, FP!history
<1>6. \A fd \in Fds : F!burrow_watch_fd(fd) => FP!burrow_watch_fd(fd)
  BY DEF F!burrow_watch_fd, FP!burrow_watch_fd, F!BackendPoints, FP!BackendPoints,
         F!InternalWatch, FP!InternalWatch, F!frontend, FP!frontend, F!control, FP!control,
         F!history, FP!history
<1>7. \A r \in F!Results : F!CommandReturns(r) => FP!CommandReturns(r)
  BY DEF F!CommandReturns, FP!CommandReturns, F!BackendResults, FP!BackendResults, F!DoCancel,
         FP!DoCancel, F!ReturnEarly, FP!ReturnEarly, F!history, FP!history
<1>8. \A r \in F!Results : F!ProcessReturns(r) => FP!ProcessReturns(r)
  BY DEF F!ProcessReturns, FP!ProcessReturns, F!BackendResults, FP!BackendResults, F!watching,
         FP!watching, F!history, FP!history
<1>9. F!StartCommand => FP!StartCommand
  BY DEF F!StartCommand, FP!StartCommand, F!frontend, FP!frontend, F!watching, FP!watching
<1>10. F!ContinueCommand => FP!ContinueCommand
  BY DEF F!ContinueCommand, FP!ContinueCommand, F!frontend, FP!frontend, F!watching, FP!watching,
         F!history, FP!history
<1>11. F!WouldBlock => FP!WouldBlock
  BY DEF F!WouldBlock, FP!WouldBlock, F!ReturnEarly, FP!ReturnEarly, F!watching, FP!watching,
         F!history, FP!history
<1>12. F!PollFds => FP!PollFds
  BY DEF F!PollFds, FP!PollFds, F!frontend, FP!frontend, F!watching, FP!watching, F!history,
         FP!history
<1>13. F!RaisePolled => FP!RaisePolled
  BY DEF F!RaisePolled, FP!RaisePolled, F!DoEventRaised, FP!DoEventRaised, F!EnterProcess,
         FP!EnterProcess, F!DoCancel, FP!DoCancel, F!history, FP!history
<1>14. F!PollDone => FP!PollDone
  BY DEF F!PollDone, FP!PollDone, F!NoPoll, FP!NoPoll, F!frontend, FP!frontend, F!history,
         FP!history
<1>15. F!FinishCommand => FP!FinishCommand
  BY DEF F!FinishCommand, FP!FinishCommand, F!watching, FP!watching
<1>16. F!CompleteReturns => FP!CompleteReturns
  BY DEF F!CompleteReturns, FP!CompleteReturns, F!frontend, FP!frontend, F!watching, FP!watching,
         F!history, FP!history
<1>17. F!LeaveLoop => FP!LeaveLoop
  BY DEF F!LeaveLoop, FP!LeaveLoop, F!watching, FP!watching, F!history, FP!history
<1>18. F!PollTimeout => FP!PollTimeout
  BY DEF F!PollTimeout, FP!PollTimeout, F!DoCancel, FP!DoCancel, F!ReturnEarly, FP!ReturnEarly,
         F!history, FP!history
<1>19. F!PollError => FP!PollError
  BY DEF F!PollError, FP!PollError, F!ReturnEarly, FP!ReturnEarly, F!watching, FP!watching,
         F!history, FP!history
<1> QED BY <1>1, <1>2, <1>3, <1>4, <1>5, <1>6, <1>7, <1>8, <1>9, <1>10, <1>11, <1>12, <1>13,
<1>14, <1>15, <1>16, <1>17, <1>18, <1>19

(***************************************************************************)
(* The backend's actions are those its proofs are about.                   *)
(***************************************************************************)
LEMMA BackendActions ==
    /\ H!Init => HP!Init
    /\ \A s \in Servers : H!SetServer(s) => HP!SetServer(s)
    /\ \A p \in Ports \cup {NULL} : H!SetPort(p) => HP!SetPort(p)
    /\ \A c \in Calls : H!common_getting(c) => HP!common_getting(c)
    /\ \A c \in Calls : H!common_getlists(c) => HP!common_getlists(c)
    /\ \A c \in Calls : H!common_delete(c) => HP!common_delete(c)
    /\ \A c \in Calls : H!create_message(c) => HP!create_message(c)
    /\ H!CurlStep => HP!CurlStep
    /\ H!ProcessError => HP!ProcessError
    /\ H!ProcessBlocks => HP!ProcessBlocks
    /\ H!ProcessComplete => HP!ProcessComplete
    /\ H!event_raised => HP!event_raised
    /\ H!ParseToken => HP!ParseToken
    /\ H!ParseDone => HP!ParseDone
<1>1. H!Init => HP!Init
  BY DEF H!Init, HP!Init, H!NoRequest, HP!NoRequest, H!NewBuffer, HP!NewBuffer, H!NewJproc,
         HP!NewJproc
<1>2. \A s \in Servers : H!SetServer(s) => HP!SetServer(s)
  BY DEF H!SetServer, HP!SetServer, H!BuildUrl, HP!BuildUrl, H!parsing, HP!parsing
<1>3. \A p \in Ports \cup {NULL} : H!SetPort(p) => HP!SetPort(p)
  BY DEF H!SetPort, HP!SetPort, H!BuildUrl, HP!BuildUrl, H!parsing, HP!parsing
<1>4. \A c \in Calls : H!common_getting(c) => HP!common_getting(c)
  BY DEF H!common_getting, HP!common_getting, H!Called, HP!Called, H!Request, HP!Request,
         H!StartTransfer, HP!StartTransfer, H!SetupFails, HP!SetupFails, H!Return, HP!Return,
         H!UpdateQuery, HP!UpdateQuery, H!After, HP!After, H!filters_to_string,
         HP!filters_to_string, H!attributes_to_string, HP!attributes_to_string, H!Joined,
         HP!Joined, H!Kept, HP!Kept, H!KeptUpto, HP!KeptUpto, H!FilterNames, HP!FilterNames,
         H!AttributeNames, HP!AttributeNames, H!OneMessage, HP!OneMessage, H!Updates, HP!Updates,
         H!MessageCommands, HP!MessageCommands, H!NewBuffer, HP!NewBuffer, H!options, HP!options,
         H!parsing, HP!parsing
<1>5. \A c \in Calls : H!common_getlists(c) => HP!common_getlists(c)
  BY DEF H!common_getlists, HP!common_getlists, H!Called, HP!Called, H!Request, HP!Request,
         H!StartTransfer, HP!StartTransfer, H!SetupFails, HP!SetupFails, H!Return, HP!Return,
         H!ListCommands, HP!ListCommands, H!NewBuffer, HP!NewBuffer, H!options, HP!options,
         H!parsing, HP!parsing
<1>6. \A c \in Calls : H!common_delete(c) => HP!common_delete(c)
  BY DEF H!common_delete, HP!common_delete, H!Called, HP!Called, H!Request, HP!Request,
         H!StartTransfer, HP!StartTransfer, H!SetupFails, HP!SetupFails, H!Return, HP!Return,
         H!After, HP!After, H!filters_to_string, HP!filters_to_string, H!Joined, HP!Joined,
         H!Kept, HP!Kept, H!KeptUpto, HP!KeptUpto, H!FilterNames, HP!FilterNames,
         H!DeleteCommands, HP!DeleteCommands, H!NewBuffer, HP!NewBuffer, H!options, HP!options,
         H!parsing, HP!parsing
<1>7. \A c \in Calls : H!create_message(c) => HP!create_message(c)
  BY DEF H!create_message, HP!create_message, H!Called, HP!Called, H!Request, HP!Request,
         H!StartTransfer, HP!StartTransfer, H!SetupFails, HP!SetupFails, H!Return, HP!Return,
         H!After, HP!After, H!attributes_to_string, HP!attributes_to_string, H!Joined, HP!Joined,
         H!Kept, HP!Kept, H!KeptUpto, HP!KeptUpto, H!AttributeNames, HP!AttributeNames, H!options,
         HP!options, H!parsing, HP!parsing
<1>8. H!CurlStep => HP!CurlStep
  BY DEF H!CurlStep, HP!CurlStep, H!Receive, HP!Receive, H!Write, HP!Write, H!Send, HP!Send,
         H!Chunk, HP!Chunk, H!TransferEnds, HP!TransferEnds, H!TransferFails, HP!TransferFails,
         H!options, HP!options, H!parsing, HP!parsing
<1>9. H!ProcessError => HP!ProcessError
  BY DEF H!ProcessError, HP!ProcessError, H!Return, HP!Return, H!options, HP!options, H!parsing,
         HP!parsing
<1>10. H!ProcessBlocks => HP!ProcessBlocks
  BY DEF H!ProcessBlocks, HP!ProcessBlocks, H!Return, HP!Return, H!options, HP!options, H!parsing,
         HP!parsing
<1>11. H!ProcessComplete => HP!ProcessComplete
  BY DEF H!ProcessComplete, HP!ProcessComplete, H!Tell, HP!Tell, H!Return, HP!Return, H!NewJproc,
         HP!NewJproc, H!MessageCommands, HP!MessageCommands, H!ListCommands, HP!ListCommands,
         H!options, HP!options, H!told, HP!told
<1>12. H!event_raised => HP!event_raised
  BY DEF H!event_raised, HP!event_raised, H!options, HP!options, H!parsing, HP!parsing
<1>13. H!ParseToken => HP!ParseToken
  BY DEF H!ParseToken, HP!ParseToken, H!Accept, HP!Accept, H!Reject, HP!Reject, H!Return,
         HP!Return, H!Tell, HP!Tell, H!Told, HP!Told, H!Unset, HP!Unset, H!Clean, HP!Clean,
         H!Value, HP!Value, H!NoMemoryFor, HP!NoMemoryFor, H!MessageToken, HP!MessageToken,
         H!ListToken, HP!ListToken,
         H!MessageCommands, HP!MessageCommands, H!ListCommands, HP!ListCommands, H!options,
         HP!options, H!told, HP!told
<1>14. H!ParseDone => HP!ParseDone
  BY DEF H!ParseDone, HP!ParseDone, H!Return, HP!Return, H!Balanced, HP!Balanced, H!Count,
         HP!Count, H!Cardinality, HP!Cardinality, H!options, HP!options, H!parsing, HP!parsing
<1> QED BY <1>1, <1>2, <1>3, <1>4, <1>5, <1>6, <1>7, <1>8, <1>9, <1>10, <1>11, <1>12, <1>13, <1>14

(* The constants are as the proofs of the parts need them. *)
LEMMA PartsAssumptions == FP!ConstantsAssumption /\ HP!ConstantsAssumption /\ HP!FlatAssumption
<1>1. FP!ConstantsAssumption
  BY ConstantsAssumption DEF F!ConstantsAssumption, FP!ConstantsAssumption, F!AllCommands,
                             FP!AllCommands, F!Fields, FP!Fields
<1>2. HP!ConstantsAssumption /\ HP!FlatAssumption
  BY ConstantsAssumption
     DEF H!ConstantsAssumption, HP!ConstantsAssumption, H!FlatAssumption, HP!FlatAssumption,
         H!AllCommands, HP!AllCommands, H!MessageCommands, HP!MessageCommands,
         H!ListCommands, HP!ListCommands, H!DeleteCommands, HP!DeleteCommands,
         H!Elements, HP!Elements, H!FilterNames, HP!FilterNames,
         H!AttributeNames, HP!AttributeNames, H!TokenTypes, HP!TokenTypes,
         H!InObject, HP!InObject
<1> QED BY <1>1, <1>2

(* What the client is to be told of is defined by the call and the response. *)
LEMMA SameExpected ==
    /\ H!Expected = HP!Expected
    /\ UNCHANGED <<call, response>> => H!Expected' = H!Expected
<1>1. H!Expected = HP!Expected
  BY DEF H!Expected, HP!Expected, H!Positions, HP!Positions, H!MessageAt, HP!MessageAt,
         H!Field, HP!Field, H!Last, HP!Last, H!Kept, HP!Kept, H!KeptUpto, HP!KeptUpto,
         H!MessageCommands, HP!MessageCommands, H!ListCommands, HP!ListCommands
<1>2. UNCHANGED <<call, response>> => HP!Expected' = HP!Expected
  BY HP!ExpectedSame, PartsAssumptions
<1>3. (H!Expected = HP!Expected)'
  BY <1>1, PTL
<1> QED BY <1>1, <1>2, <1>3

-----------------------------------------------------------------------------
(* The frontend *)

(* Every step of the whole is one of the frontend, or leaves it alone. *)
LEMMA FrontendStep == ASSUME [Next]_vars PROVE [FP!Next]_(FP!vars)
<1> USE DEF FP!Next, FP!ClientStep, FP!BackendStep, FP!LoopStep
<1>1. UNCHANGED frontVars => UNCHANGED FP!vars
  BY DEF frontVars, FP!vars, FP!frontend, FP!watching, FP!control, FP!history
<1>2. CASE ClientStep
  BY <1>1, <1>2, FrontendActions
     DEF ClientStep, Issue, burrow_process, burrow_set_options, burrow_set_backend_option
<1>3. CASE BackendReturns
  <2>1. Code(ret) \in F!Results /\ F!Results = FP!Results
    BY DEF Code, F!Results, FP!Results
  <2>2. FP!CommandReturns(Code(ret)) \/ FP!ProcessReturns(Code(ret))
    BY <1>3, <2>1, FrontendActions DEF BackendReturns
  <2> QED BY <2>1, <2>2
<1>4. CASE \E fd \in Fds : WatchFd(fd)
  BY <1>4, FrontendActions DEF WatchFd
<1>5. CASE ProcessBlocks \/ ProcessFails \/ ProcessResponse \/ Perform
  BY <1>1, <1>5, FrontendActions DEF ProcessBlocks, ProcessFails, ProcessResponse, Perform
<1>6. CASE LoopStep
  BY <1>6, FrontendActions DEF LoopStep, StartCommand, ContinueCommand, PollFds, PollTimeout,
                               PollError, LoopGoesOn
<1>7. CASE UNCHANGED vars
  BY <1>1, <1>7 DEF vars
<1> QED BY <1>2, <1>3, <1>4, <1>5, <1>6, <1>7 DEF Next, BackendStep

LEMMA FrontendKeeps == ASSUME JointInv, [Next]_vars PROVE FP!IndInv'
<1>1. FP!IndInv /\ [FP!Next]_(FP!vars)
  BY FrontendStep DEF JointInv
<1> QED BY <1>1, FP!NextPreserves, PartsAssumptions

(* What the frontend's invariant says of the handle on this backend. *)
LEMMA Control ==
    ASSUME FP!IndInv
    PROVE  /\ backend = HttpTable
           /\ state \in {"IDLE", "START", "WAITING", "READY", "FINISH"}
           /\ pc \in {"out", "loop", "command", "process", "dispatch", "complete", "crashed"}
           /\ outer = "out" /\ processing \in BOOLEAN /\ watch_size \in Nat
           /\ pc # "out" => processing
           /\ pc = "out" /\ state \in {"WAITING", "READY"} => processing
           /\ pc = "out" /\ state \in {"IDLE", "START"} => ~processing
           /\ pc \in F!BackendPoints => state \in {"START", "READY"}
           /\ pc = "dispatch" => state \in {"WAITING", "READY"}
           /\ pc = "complete" => state \in {"IDLE", "START"}
           /\ state = "FINISH" => pc = "loop"
           /\ cmd.command \in HP!AllCommands \cup {"NONE"}
<1>1. FP!TypeOK /\ FP!ControlInv
  BY DEF FP!IndInv
<1>2. cmd.command \in HP!AllCommands \cup {"NONE"}
  BY <1>1 DEF FP!TypeOK, FP!Cmd, FP!AllCommands, HP!AllCommands, HP!MessageCommands,
              HP!ListCommands, HP!DeleteCommands
<1>3. backend = HttpTable
  BY <1>1 DEF FP!TypeOK
<1> QED BY <1>1, <1>2, <1>3 DEF FP!TypeOK, FP!ControlInv, FP!States, FP!Points,
                                FP!BackendPoints, F!BackendPoints, HttpTable

-----------------------------------------------------------------------------
(* The backend *)

(* The invariant of the exchange, and that of a finished one once a command is handed over. *)
LEMMA BackendKeeps ==
    ASSUME JointInv, [Next]_vars
    PROVE  HP!ExchangeInv' /\ (HandedOver' => HP!DoneInv')
<1> USE PartsAssumptions
<1>1. /\ HP!ExchangeInv /\ (HandedOver => HP!DoneInv)
      /\ InStep /\ AcceptedInv /\ hpc # "destroyed"
  BY DEF JointInv, LinkInv, ReturnInv
<1>2. /\ backend = HttpTable /\ processing \in BOOLEAN
      /\ state \in {"IDLE", "START", "WAITING", "READY", "FINISH"}
      /\ pc \in F!BackendPoints => state \in {"START", "READY"}
      /\ pc # "out" => processing
  BY Control DEF JointInv
<1>3. hpc \in {"perform", "parse", "waiting"} => HP!IndInv
  BY <1>1, <1>2 DEF HP!IndInv, HandedOver, InStep, AcceptedInv
<1>4. cmd'.command \in HP!AllCommands \cup {"NONE"}
  <2>1. FP!IndInv' => (cmd.command \in HP!AllCommands \cup {"NONE"})'
    BY Control, PTL
  <2> QED BY <2>1, FrontendKeeps DEF HP!AllCommands
<1>5. ASSUME UNCHANGED httpVars, UNCHANGED cmd, HandedOver' => HandedOver
      PROVE  HP!ExchangeInv' /\ (HandedOver' => HP!DoneInv')
  <2>1. UNCHANGED HP!vars
    BY <1>5 DEF httpVars, HP!vars, HP!options, HP!parsing
  <2> QED BY <1>1, <1>5, <2>1, HP!StutterInv
<1>6. ASSUME UNCHANGED httpVars, hpc = "idle", ~HandedOver'
      PROVE  HP!ExchangeInv' /\ (HandedOver' => HP!DoneInv')
  <2>1. UNCHANGED <<HP!options, get_body_only, request, transfer, incoming, buffer, HP!parsing,
                    hpc, ret, call, response, reported, sent>>
    BY <1>6 DEF httpVars, HP!options, HP!parsing
  <2> QED BY <1>1, <1>4, <1>6, <2>1, HP!IdleCommandInv
<1>7. HP!IndInv' => HP!ExchangeInv' /\ (HandedOver' => HP!DoneInv')
  BY DEF HP!IndInv
<1>8. ASSUME NEW c \in Calls, Issue(c)
      PROVE  HP!ExchangeInv' /\ (HandedOver' => HP!DoneInv')
  <2>1. /\ state = "IDLE" /\ state' = "START" /\ pc' \in {pc, "loop"}
        /\ pc \in {"out", "complete"} \cup F!BackendPoints
    BY <1>8 DEF Issue, F!IssueCommand, F!burrow_get_message, F!burrow_create_message,
                F!burrow_update_message, F!burrow_delete_message, F!burrow_get_messages,
                F!burrow_delete_messages, F!burrow_update_messages, F!burrow_get_queues,
                F!burrow_delete_queues, F!burrow_get_accounts, F!burrow_delete_accounts,
                F!Issue, F!ClientTurn, F!EnterProcess
  <2>2. hpc = "idle" /\ ~HandedOver'
    BY <1>1, <1>2, <2>1 DEF InStep, HandedOver, F!BackendPoints
  <2> QED BY <1>6, <1>8, <2>2 DEF Issue
<1>9. CASE burrow_process \/ burrow_set_options
  <2>1. UNCHANGED httpVars /\ UNCHANGED cmd /\ UNCHANGED state /\ pc' \in {pc, "loop"}
    BY <1>9 DEF burrow_process, burrow_set_options, F!burrow_process, F!burrow_set_options,
                F!EnterProcess, F!control
  <2> QED BY <1>5, <2>1 DEF HandedOver, F!BackendPoints
<1>10. CASE burrow_set_backend_option
  <2>1. HandedOver' <=> HandedOver
    BY <1>10 DEF burrow_set_backend_option, frontVars, HandedOver, F!BackendPoints
  <2>2. (\E s \in Servers : HP!SetServer(s)) \/ (\E p \in Ports \cup {NULL} : HP!SetPort(p))
    BY <1>10, BackendActions DEF burrow_set_backend_option
  <2> QED BY <1>1, <2>1, <2>2, HP!SetServerInv, HP!SetPortInv
<1>11. CASE StartCommand
  <2>1. asked \in Calls
    BY <1>11 DEF StartCommand, H!common_getting, H!common_getlists, H!common_delete,
                 H!create_message, H!Called
  <2>2. \/ HP!common_getting(asked) \/ HP!common_getlists(asked)
        \/ HP!common_delete(asked) \/ HP!create_message(asked)
    BY <1>11, <2>1, BackendActions DEF StartCommand
  <2>3. HP!IndInv'
    BY <1>1, <2>1, <2>2, HP!GettingInv, HP!GetlistsInv, HP!DeleteInv, HP!CreateInv
  <2> QED BY <1>7, <2>3
<1>12. CASE ContinueCommand
  <2>1. hpc = "waiting" /\ HP!event_raised
    BY <1>12, BackendActions DEF ContinueCommand, H!event_raised
  <2> QED BY <1>3, <1>7, <2>1, HP!EventRaisedInv
<1>13. CASE BackendReturns
  <2>1. UNCHANGED httpVars /\ UNCHANGED cmd /\ pc \in F!BackendPoints
    BY <1>2, <1>13 DEF BackendReturns, F!CommandReturns, F!ProcessReturns, F!BackendPoints,
                       HttpTable
  <2> QED BY <1>5, <2>1 DEF HandedOver
<1>14. ASSUME NEW fd \in Fds, WatchFd(fd)
       PROVE  HP!ExchangeInv' /\ (HandedOver' => HP!DoneInv')
  <2>1. UNCHANGED httpVars /\ UNCHANGED cmd /\ pc \in F!BackendPoints
    BY <1>14 DEF WatchFd, F!burrow_watch_fd, F!frontend
  <2> QED BY <1>5, <2>1 DEF HandedOver
<1>15. CASE Perform \/ ProcessBlocks \/ ProcessFails \/ ProcessResponse
  <2>1. \/ HP!CurlStep \/ HP!ProcessBlocks \/ HP!ProcessError
        \/ HP!ProcessComplete \/ HP!ParseToken \/ HP!ParseDone
    BY <1>15, BackendActions DEF Perform, ProcessBlocks, ProcessFails, ProcessResponse
  <2>2. hpc \in {"perform", "parse", "waiting"}
    BY <2>1 DEF HP!CurlStep, HP!Receive, HP!Send, HP!TransferEnds, HP!TransferFails,
                HP!ProcessBlocks, HP!ProcessError, HP!ProcessComplete, HP!ParseToken, HP!ParseDone
  <2>3. HP!IndInv'
    BY <1>3, <2>1, <2>2, HP!CurlInv, HP!ProcessBlocksInv, HP!ProcessErrorInv,
       HP!ProcessCompleteInv, HP!ParseTokenInv, HP!ParseDoneInv
  <2> QED BY <1>7, <2>3
<1>16. CASE PollFds
  <2>1. UNCHANGED httpVars /\ UNCHANGED cmd /\ state = "WAITING"
    BY <1>16 DEF PollFds, F!PollFds, F!frontend
  <2> QED BY <1>5, <2>1 DEF HandedOver
<1>17. CASE LoopGoesOn /\ ~F!FinishCommand
  <2>1. UNCHANGED httpVars /\ UNCHANGED cmd
    BY <1>2, <1>17 DEF LoopGoesOn, F!WouldBlock, F!RaisePolled, F!PollDone, F!CompleteReturns,
                       F!LeaveLoop, F!frontend, F!DoEventRaised, HttpTable
  <2>2. HandedOver' => HandedOver
    BY <1>2, <1>17, Control
       DEF LoopGoesOn, F!WouldBlock, F!RaisePolled, F!PollDone, F!CompleteReturns,
           F!LeaveLoop, F!ReturnEarly, F!frontend, F!DoEventRaised, HttpTable, HandedOver,
           F!BackendPoints, JointInv
  <2> QED BY <1>5, <2>1, <2>2
<1>18. CASE LoopGoesOn /\ F!FinishCommand
  <2>1. hpc = "idle" /\ ~HandedOver' /\ UNCHANGED httpVars
    BY <1>1, <1>18 DEF LoopGoesOn, F!FinishCommand, InStep, HandedOver, F!BackendPoints
  <2> QED BY <1>6, <2>1
<1>19. CASE UNCHANGED vars
  <2>1. UNCHANGED httpVars /\ UNCHANGED cmd /\ UNCHANGED <<pc, state>>
    BY <1>19 DEF vars, frontVars
  <2> QED BY <1>5, <2>1 DEF HandedOver, F!BackendPoints
<1>20. CASE PollError
  <2>1. UNCHANGED httpVars /\ UNCHANGED cmd /\ state = "WAITING"
    BY <1>20 DEF PollError, F!PollError
  <2> QED BY <1>5, <2>1 DEF HandedOver
<1>21. CASE PollTimeout
  <2>1. UNCHANGED httpVars /\ state = "WAITING"
        /\ cmd' = [cmd EXCEPT !.command = "NONE", !.command_fn = "NULL"]
    BY <1>21 DEF PollTimeout, F!PollTimeout, F!DoCancel
  <2>2. cmd'.command = "NONE"
    <3>1. cmd \in FP!Cmd
      BY DEF JointInv, FP!IndInv, FP!TypeOK
    <3> QED BY <2>1, <3>1 DEF FP!Cmd
  <2>3. hpc = "waiting"
    BY <1>1, <2>1 DEF InStep
  <2>4. UNCHANGED <<HP!options, get_body_only, request, transfer, incoming, buffer, HP!parsing,
                    hpc, ret, call, response, reported, sent>>
    BY <2>1 DEF httpVars, HP!options, HP!parsing
  <2>5. HP!IndInv'
    BY <1>3, <2>2, <2>3, <2>4, HP!ForgottenInv
  <2> QED BY <1>7, <2>5
<1> QED BY <1>8, <1>9, <1>10, <1>11, <1>12, <1>13, <1>14, <1>15, <1>16, <1>17, <1>18, <1>19,
           <1>20, <1>21
        DEF Next, ClientStep, BackendStep, LoopStep

-----------------------------------------------------------------------------
(* The two together: one lemma per step *)

(* What is known before each step. *)
LEMMA Before ==
    ASSUME JointInv
    PROVE  /\ InStep /\ BlocksUntilDone /\ CompletionIsTruthful /\ pc # "crashed"
           /\ AcceptedInv /\ CallInv /\ ReturnInv /\ WatchInv
           /\ backend = HttpTable
           /\ state \in {"IDLE", "START", "WAITING", "READY", "FINISH"}
           /\ pc \in {"out", "loop", "command", "process", "dispatch", "complete"}
           /\ outer = "out" /\ processing \in BOOLEAN /\ watch_size \in Nat
           /\ pc # "out" => processing
           /\ pc = "out" /\ state \in {"WAITING", "READY"} => processing
           /\ pc = "out" /\ state \in {"IDLE", "START"} => ~processing
           /\ pc \in F!BackendPoints => state \in {"START", "READY"}
           /\ pc = "dispatch" => state \in {"WAITING", "READY"}
           /\ pc = "complete" => state \in {"IDLE", "START"}
           /\ state = "FINISH" => pc = "loop"
BY Control DEF JointInv, LinkInv

(* A completed command stays as it is until the next one is issued. *)
LEMMA TruthfulFrame ==
    ASSUME CompletionIsTruthful,
           UNCHANGED <<result, cancelled, call, asked, transfer, response, reported, sent>>,
           pc' = "complete" /\ state' = "IDLE" => pc = "complete" /\ state = "IDLE"
    PROVE  CompletionIsTruthful'
BY SameExpected DEF CompletionIsTruthful

LEMMA NotComplete ==
    ASSUME pc' # "complete" \/ state' # "IDLE"
    PROVE  CompletionIsTruthful'
BY DEF CompletionIsTruthful

LEMMA IssueLink == ASSUME JointInv, NEW c \in Calls, Issue(c) PROVE LinkInv'
<1> USE DEF F!BackendPoints
<1>1. /\ state = "IDLE" /\ state' = "START" /\ asked' = c /\ ~cancelled' /\ trouble' = FALSE
      /\ cmd'.command = c.command /\ cmd'.command_fn # "NULL"
      /\ pc \in {"out", "complete"} \cup F!BackendPoints
      /\ \/ pc' = pc /\ processing' = processing
         \/ pc' = "loop" /\ processing'
      /\ UNCHANGED <<watch_fd_fn, watch_size, poll, watched>> /\ UNCHANGED httpVars
  BY DEF Issue, F!IssueCommand, F!burrow_get_message, F!burrow_create_message,
         F!burrow_update_message, F!burrow_delete_message, F!burrow_get_messages,
         F!burrow_delete_messages, F!burrow_update_messages, F!burrow_get_queues,
         F!burrow_delete_queues, F!burrow_get_accounts, F!burrow_delete_accounts,
         F!Issue, F!ClientTurn, F!EnterProcess, F!watching
<1>2. pc \in {"out", "complete"} /\ hpc = "idle"
  BY <1>1, Before DEF InStep
<1>3. UNCHANGED <<hpc, ret, transfer>>
  BY <1>1 DEF httpVars
<1>4. InStep' /\ BlocksUntilDone' /\ pc' # "crashed"
  BY <1>1, <1>2, <1>3, Before DEF InStep, BlocksUntilDone
<1>5. CompletionIsTruthful'
  BY <1>1, NotComplete
<1>6. AcceptedInv' /\ CallInv'
  BY <1>1, <1>2, <1>3 DEF AcceptedInv, CallInv, HandedOver
<1>7. ReturnInv' /\ WatchInv'
  BY <1>1, <1>2, <1>3, Before DEF ReturnInv, WatchInv
<1> QED BY <1>4, <1>5, <1>6, <1>7 DEF LinkInv

(* Calls that leave the command and the backend alone, or change an option of it. *)
LEMMA ClientLink ==
    ASSUME JointInv, burrow_process \/ burrow_set_options \/ burrow_set_backend_option
    PROVE  LinkInv'
<1> USE DEF F!BackendPoints
<1>1. /\ UNCHANGED <<state, cmd, watch_fd_fn, watch_size, poll, watched>>
      /\ UNCHANGED history
      /\ UNCHANGED <<hpc, ret, transfer, call, response, reported, sent>>
      /\ pc \in {"out", "complete"} \cup F!BackendPoints
      /\ \/ UNCHANGED <<pc, processing, result>>
         \/ ~processing /\ pc' = "loop" /\ processing'
  BY DEF burrow_process, burrow_set_options, burrow_set_backend_option, F!burrow_process,
         F!burrow_set_options, F!EnterProcess, F!ClientTurn, F!watching, F!control,
         H!SetServer, H!SetPort, frontVars, httpVars
<1>2. UNCHANGED <<asked, trouble, cancelled>>
  BY <1>1 DEF history
<1>3. CASE UNCHANGED <<pc, processing, result>>
  <2>1. InStep' /\ BlocksUntilDone' /\ pc' # "crashed"
    BY <1>1, <1>2, <1>3, Before DEF InStep, BlocksUntilDone
  <2>2. CompletionIsTruthful'
    BY <1>1, <1>2, <1>3, Before, TruthfulFrame
  <2>3. AcceptedInv' /\ CallInv'
    BY <1>1, <1>2, <1>3, Before DEF AcceptedInv, CallInv, HandedOver
  <2>4. ReturnInv' /\ WatchInv'
    BY <1>1, <1>2, <1>3, Before DEF ReturnInv, WatchInv, Code
  <2> QED BY <2>1, <2>2, <2>3, <2>4 DEF LinkInv
<1>4. CASE ~processing /\ pc' = "loop" /\ processing'
  <2>1. pc = "out" /\ state \in {"IDLE", "START"}
    BY <1>4, Before
  <2>2. InStep' /\ BlocksUntilDone' /\ pc' # "crashed"
    BY <1>1, <1>4, <2>1, Before DEF InStep, BlocksUntilDone
  <2>3. CompletionIsTruthful'
    BY <1>4, NotComplete
  <2>4. AcceptedInv' /\ CallInv'
    BY <1>1, <1>2, <1>4, <2>1, Before DEF AcceptedInv, CallInv, HandedOver
  <2>5. ReturnInv' /\ WatchInv'
    BY <1>1, <1>2, <1>4, <2>1, Before DEF ReturnInv, WatchInv
  <2> QED BY <2>2, <2>3, <2>4, <2>5 DEF LinkInv
<1> QED BY <1>1, <1>3, <1>4

LEMMA StartLink == ASSUME JointInv, StartCommand PROVE LinkInv'
<1> USE DEF F!BackendPoints
<1>1. /\ pc = "loop" /\ state = "START"
      /\ UNCHANGED <<state, processing, cmd, watch_fd_fn, watch_size, poll, watched>>
      /\ UNCHANGED <<asked, trouble, cancelled>>
      /\ cmd.command_fn # "NULL" => pc' = "command"
  BY DEF StartCommand, F!StartCommand, F!frontend, F!watching, history
<1>2. /\ hpc = "idle" /\ call' = asked
      /\ \/ hpc' = "perform"
         \/ hpc' = "idle" /\ ret' \in {"ENOMEM", "garbage"}
  BY DEF StartCommand, H!common_getting, H!common_getlists, H!common_delete, H!create_message,
         H!Called, H!Request, H!StartTransfer, H!SetupFails, H!Return
<1>3. pc' = "command" /\ asked \in Calls /\ ~cancelled
  BY <1>1, Before DEF AcceptedInv
<1>4. watched = {}
  BY <1>1, Before DEF WatchInv
<1>5. InStep' /\ BlocksUntilDone' /\ pc' # "crashed"
  BY <1>1, <1>2, <1>3 DEF InStep, BlocksUntilDone
<1>6. CompletionIsTruthful'
  BY <1>3, NotComplete
<1>7. AcceptedInv' /\ CallInv'
  BY <1>1, <1>2, <1>3, Before DEF AcceptedInv, CallInv, HandedOver
<1>8. ReturnInv' /\ WatchInv'
  BY <1>1, <1>2, <1>3, <1>4, Before DEF ReturnInv, WatchInv
<1> QED BY <1>5, <1>6, <1>7, <1>8 DEF LinkInv

LEMMA ContinueLink == ASSUME JointInv, ContinueCommand PROVE LinkInv'
<1> USE DEF F!BackendPoints
<1>1. /\ pc = "loop" /\ state = "READY" /\ pc' = "process"
      /\ UNCHANGED <<state, processing, cmd, watch_fd_fn, watch_size, poll, watched>>
      /\ UNCHANGED <<asked, trouble, cancelled>>
      /\ hpc' = "perform" /\ call' = call
  BY DEF ContinueCommand, F!ContinueCommand, F!frontend, F!watching, history, H!event_raised
<1>2. watched = {}
  BY <1>1, Before DEF WatchInv
<1>3. InStep' /\ BlocksUntilDone' /\ pc' # "crashed"
  BY <1>1 DEF InStep, BlocksUntilDone
<1>4. CompletionIsTruthful'
  BY <1>1, NotComplete
<1>5. AcceptedInv' /\ CallInv'
  BY <1>1, Before DEF AcceptedInv, CallInv, HandedOver
<1>6. ReturnInv' /\ WatchInv'
  BY <1>1, <1>2, Before DEF ReturnInv, WatchInv
<1> QED BY <1>3, <1>4, <1>5, <1>6 DEF LinkInv

(* EAGAIN comes with descriptors to poll; with anything else the backend is done. *)
LEMMA ReturnLink == ASSUME JointInv, BackendReturns PROVE LinkInv'
<1> USE DEF F!BackendPoints
<1>1. /\ hpc \in {"idle", "waiting"} /\ pc \in F!BackendPoints
      /\ watched' = {} /\ pc' = "loop" /\ result' = Code(ret)
      /\ state' = IF Code(ret) = "EAGAIN" THEN "WAITING" ELSE "FINISH"
      /\ UNCHANGED <<processing, cmd, watch_fd_fn, watch_size, poll>>
      /\ UNCHANGED <<asked, trouble, cancelled, hpc, ret, transfer, call>>
  BY Before DEF BackendReturns, F!CommandReturns, F!ProcessReturns, F!watching, HttpTable,
                httpVars, history
<1>2. hpc = "waiting" <=> Code(ret) = "EAGAIN"
  BY <1>1, Before DEF ReturnInv, Code
<1>3. hpc = "waiting" => watch_size > 0 \/ trouble
  BY <1>1, Before DEF WatchInv
<1>4. InStep' /\ BlocksUntilDone' /\ pc' # "crashed"
  BY <1>1, <1>2, <1>3 DEF InStep, BlocksUntilDone
<1>5. CompletionIsTruthful'
  BY <1>1, NotComplete
<1>6. AcceptedInv' /\ CallInv'
  BY <1>1, Before DEF AcceptedInv, CallInv, HandedOver
<1>7. ReturnInv' /\ WatchInv'
  BY <1>1, Before DEF ReturnInv, WatchInv, Code
<1> QED BY <1>4, <1>5, <1>6, <1>7 DEF LinkInv

LEMMA WatchLink == ASSUME JointInv, NEW fd \in Fds, WatchFd(fd) PROVE LinkInv'
<1> USE DEF F!BackendPoints
<1>1. /\ hpc = "perform" /\ transfer = "running" /\ pc \in F!BackendPoints
      /\ watched' # {} /\ UNCHANGED <<state, processing, cmd, watch_fd_fn, pc, result, poll>>
      /\ UNCHANGED <<asked, cancelled, hpc, ret, transfer, call>>
  BY DEF WatchFd, F!burrow_watch_fd, F!frontend, F!control, httpVars, history
<1>2. trouble' \in BOOLEAN /\ (watch_size' > 0 \/ trouble')
  BY Before DEF WatchFd, WatchIsLost, F!burrow_watch_fd, F!InternalWatch, WatchInv
<1>3. state \in {"START", "READY"}
  BY <1>1, Before
<1>4. InStep' /\ BlocksUntilDone' /\ pc' # "crashed"
  BY <1>1, <1>3 DEF InStep, BlocksUntilDone
<1>5. CompletionIsTruthful'
  BY <1>1, NotComplete
<1>6. AcceptedInv' /\ CallInv'
  BY <1>1, <1>3, Before DEF AcceptedInv, CallInv, HandedOver
<1>7. ReturnInv' /\ WatchInv'
  BY <1>1, <1>2, <1>3, Before DEF ReturnInv, WatchInv
<1> QED BY <1>4, <1>5, <1>6, <1>7 DEF LinkInv

(* Inside a call of the backend: it goes on, blocks or is done. *)
LEMMA WorkLink ==
    ASSUME JointInv, hpc \in {"perform", "parse"},
           UNCHANGED <<state, processing, cmd, watch_fd_fn, watch_size, pc, poll, watched>>,
           UNCHANGED <<asked, trouble, cancelled, call>>,
           \/ hpc' \in {"perform", "parse"} /\ watched = {}
           \/ hpc' = "idle" /\ ret' # "EAGAIN" /\ watched = {}
           \/ hpc' = "waiting" /\ ret' = "EAGAIN" /\ watched # {}
    PROVE  LinkInv'
<1> USE DEF F!BackendPoints
<1>1. pc \in F!BackendPoints /\ state \in {"START", "READY"}
  BY Before DEF InStep
<1>2. InStep' /\ BlocksUntilDone' /\ pc' # "crashed"
  BY <1>1 DEF InStep, BlocksUntilDone
<1>3. CompletionIsTruthful'
  BY <1>1, NotComplete
<1>4. AcceptedInv' /\ CallInv'
  BY <1>1, Before DEF AcceptedInv, CallInv, HandedOver
<1>5. ReturnInv' /\ WatchInv'
  BY <1>1, Before DEF ReturnInv, WatchInv
<1> QED BY <1>2, <1>3, <1>4, <1>5 DEF LinkInv

(* A chunk of the response, or its end, is looked at. *)
LEMMA ResponseMoves ==
    ASSUME H!ProcessComplete \/ H!ParseToken \/ H!ParseDone
    PROVE  /\ hpc \in {"perform", "parse"} /\ (hpc = "perform" => transfer = "ok")
           /\ hpc' \in {"perform", "parse"} \/ (hpc' = "idle" /\ ret' # "EAGAIN")
           /\ UNCHANGED call
           /\ cmd.command = "NONE" => reported' = reported
BY DEF H!ProcessComplete, H!ParseToken, H!ParseDone, H!Return, H!Accept, H!Reject,
       H!MessageToken, H!ListToken, H!Value, H!Tell, H!told, H!MessageCommands, H!ListCommands

LEMMA BackendLink ==
    ASSUME JointInv, Perform \/ ProcessBlocks \/ ProcessFails PROVE LinkInv'
<1>1. /\ UNCHANGED <<state, processing, cmd, watch_fd_fn, watch_size, pc, poll, watched>>
      /\ UNCHANGED <<asked, trouble, cancelled>>
  BY DEF Perform, ProcessBlocks, ProcessFails, frontVars, history
<1>2. hpc = "perform" /\ UNCHANGED call
  BY DEF Perform, ProcessBlocks, ProcessFails, H!CurlStep, H!Receive, H!Send, H!TransferEnds,
         H!TransferFails, H!ProcessBlocks, H!ProcessError
<1>3. CASE Perform
  <2>1. hpc' = "perform" /\ watched = {}
    BY <1>2, <1>3 DEF Perform, H!CurlStep, H!Receive, H!Send, H!TransferEnds, H!TransferFails
  <2> QED BY <1>1, <1>2, <2>1, WorkLink
<1>4. CASE ProcessBlocks
  <2>1. hpc' = "waiting" /\ ret' = "EAGAIN" /\ watched # {}
    BY <1>4, ConstantsAssumption DEF ProcessBlocks, H!ProcessBlocks, H!Return
  <2> QED BY <1>1, <1>2, <2>1, WorkLink
<1>5. CASE ProcessFails
  <2>1. hpc' = "idle" /\ ret' = "EINVAL" /\ watched = {}
    BY <1>5 DEF ProcessFails, H!ProcessError, H!Return
  <2> QED BY <1>1, <1>2, <2>1, WorkLink
<1> QED BY <1>3, <1>4, <1>5

LEMMA ResponseLink == ASSUME JointInv, ProcessResponse PROVE LinkInv'
<1> USE DEF F!BackendPoints
<1>1. /\ hpc \in {"perform", "parse"} /\ UNCHANGED call
      /\ hpc' \in {"perform", "parse"} \/ (hpc' = "idle" /\ ret' # "EAGAIN")
  BY ResponseMoves DEF ProcessResponse
<1>2. watched = {}
  BY ResponseMoves, Before DEF ProcessResponse, WatchInv
<1>3. CASE UNCHANGED <<frontVars, history>>
  <2>1. /\ UNCHANGED <<state, processing, cmd, watch_fd_fn, watch_size, pc, poll, watched>>
        /\ UNCHANGED <<asked, trouble, cancelled>>
    BY <1>3 DEF frontVars, history
  <2> QED BY <1>1, <1>2, <2>1, WorkLink
<1>4. CASE F!burrow_cancel /\ cancelled' /\ UNCHANGED <<asked, trouble>>
  <2>1. pc \in F!BackendPoints /\ state \in {"START", "READY"}
    BY <1>1, Before DEF InStep
  <2>2. /\ UNCHANGED <<state, processing, watch_fd_fn, pc, poll, watched>>
        /\ cmd' = [cmd EXCEPT !.command = "NONE", !.command_fn = "NULL"]
    BY <1>4, <2>1 DEF F!burrow_cancel, F!DoCancel, F!control
  <2>3. cmd'.command = "NONE"
    <3>1. cmd \in FP!Cmd
      BY DEF JointInv, FP!IndInv, FP!TypeOK
    <3> QED BY <2>2, <3>1 DEF FP!Cmd
  <2>4. InStep' /\ BlocksUntilDone' /\ pc' # "crashed"
    BY <1>1, <2>1, <2>2 DEF InStep, BlocksUntilDone
  <2>5. CompletionIsTruthful'
    BY <2>1, <2>2, NotComplete
  <2>6. AcceptedInv' /\ CallInv'
    BY <1>1, <1>4, <2>1, <2>2, <2>3, Before DEF AcceptedInv, CallInv, HandedOver
  <2>7. ReturnInv' /\ WatchInv'
    BY <1>1, <1>2, <1>4, <2>1, <2>2, Before DEF ReturnInv, WatchInv
  <2> QED BY <2>4, <2>5, <2>6, <2>7 DEF LinkInv
<1> QED BY <1>3, <1>4 DEF ProcessResponse

LEMMA PollLink == ASSUME JointInv, PollFds PROVE LinkInv'
<1> USE DEF F!BackendPoints
<1>1. /\ pc = "loop" /\ state = "WAITING" /\ pc' = "dispatch" /\ poll'.live # {}
      /\ UNCHANGED <<state, processing, cmd, watch_fd_fn, watch_size, watched>>
      /\ UNCHANGED <<asked, trouble, cancelled, hpc, ret, transfer, call>>
  BY DEF PollFds, F!PollFds, F!frontend, F!watching, httpVars, history
<1>2. InStep' /\ BlocksUntilDone' /\ pc' # "crashed"
  BY <1>1, Before DEF InStep, BlocksUntilDone
<1>3. CompletionIsTruthful'
  BY <1>1, NotComplete
<1>4. AcceptedInv' /\ CallInv'
  BY <1>1, Before DEF AcceptedInv, CallInv, HandedOver
<1>5. ReturnInv' /\ WatchInv'
  BY <1>1, Before DEF ReturnInv, WatchInv
<1> QED BY <1>2, <1>3, <1>4, <1>5 DEF LinkInv

(***************************************************************************)
(* The descriptors poll found live are told of; the first makes the handle *)
(* ready, so that it is when the list has been gone through.               *)
(***************************************************************************)
LEMMA DispatchLink ==
    ASSUME JointInv, F!RaisePolled \/ F!PollDone, UNCHANGED <<httpVars, history>>
    PROVE  LinkInv'
<1> USE DEF F!BackendPoints
<1>1. /\ pc = "dispatch" /\ pc' \in {"dispatch", "loop"} /\ state' = "READY"
      /\ UNCHANGED <<processing, cmd, watch_fd_fn, watched>>
  <2>1. CASE F!RaisePolled
    BY <2>1, Before DEF F!RaisePolled, F!DoEventRaised, F!EnterProcess, HttpTable
  <2>2. CASE F!PollDone
    BY <2>2, Before DEF F!PollDone, F!frontend, WatchInv
  <2> QED BY <2>1, <2>2
<1>2. UNCHANGED <<asked, trouble, cancelled, hpc, ret, transfer, call>>
  BY DEF httpVars, history
<1>3. state \in {"WAITING", "READY"} /\ hpc = "waiting" /\ watched = {}
  BY <1>1, Before DEF InStep, WatchInv
<1>4. InStep' /\ BlocksUntilDone' /\ pc' # "crashed"
  BY <1>1, <1>2, <1>3 DEF InStep, BlocksUntilDone
<1>5. CompletionIsTruthful'
  BY <1>1, NotComplete
<1>6. AcceptedInv' /\ CallInv'
  BY <1>1, <1>2, <1>3, Before DEF AcceptedInv, CallInv, HandedOver
<1>7. ReturnInv' /\ WatchInv'
  BY <1>1, <1>2, <1>3, Before DEF ReturnInv, WatchInv
<1> QED BY <1>4, <1>5, <1>6, <1>7 DEF LinkInv

(* The frontend takes the backend's 0 for a completed command: this is where it is one. *)
LEMMA FinishLink ==
    ASSUME JointInv, F!FinishCommand, UNCHANGED <<httpVars, history>>
    PROVE  LinkInv'
<1> USE DEF F!BackendPoints
<1>1. /\ state = "FINISH" /\ state' = "IDLE" /\ pc' = "complete"
      /\ cmd' = [cmd EXCEPT !.command = "NONE"]
      /\ UNCHANGED <<processing, watch_fd_fn, watch_size, result, poll, watched>>
  BY DEF F!FinishCommand, F!watching
<1>2. /\ UNCHANGED <<asked, trouble, cancelled, hpc, ret, transfer, call>>
      /\ UNCHANGED <<response, reported, sent>>
  BY DEF httpVars, history
<1>3. cmd'.command = "NONE"
  <2>1. cmd \in FP!Cmd
    BY DEF JointInv, FP!IndInv, FP!TypeOK
  <2> QED BY <1>1, <2>1 DEF FP!Cmd
<1>4. pc = "loop" /\ hpc = "idle" /\ call = asked /\ asked \in Calls /\ result = Code(ret)
  BY <1>1, Before DEF InStep, CallInv, HandedOver, ReturnInv
<1>5. InStep' /\ BlocksUntilDone' /\ pc' # "crashed"
  BY <1>1, <1>2, <1>4 DEF InStep, BlocksUntilDone
<1>6. AcceptedInv' /\ CallInv'
  BY <1>1, <1>2, <1>3, <1>4 DEF AcceptedInv, CallInv, HandedOver
<1>7. ReturnInv' /\ WatchInv'
  BY <1>1, <1>2, <1>4, Before DEF ReturnInv, WatchInv, Code
<1>8. CompletionIsTruthful'
  <2> SUFFICES ASSUME result' = "0", ~cancelled'
               PROVE  /\ call' = asked' /\ transfer' = "ok" /\ reported' = H!Expected'
                      /\ asked'.command = "CREATE_MESSAGE" => sent' = Body
    BY DEF CompletionIsTruthful
  <2>1. ret = "0" /\ cmd.command = asked.command
    BY <1>1, <1>2, <1>4, Before DEF Code, CallInv
  <2>2. asked.command # "NONE"
    BY <1>4, ConstantsAssumption DEF H!ConstantsAssumption, H!AllCommands, H!MessageCommands,
                                     H!ListCommands, H!DeleteCommands
  <2>3. HP!DoneInv
    BY <1>1 DEF JointInv, HandedOver
  <2>4. /\ transfer = "ok" /\ reported = HP!Expected
        /\ asked.command = "CREATE_MESSAGE" => sent = Body
    BY <1>4, <2>1, <2>2, <2>3, ConstantsAssumption DEF HP!DoneInv, HP!CompleteMeansAll
  <2> QED BY <1>2, <1>4, <2>4, SameExpected
<1> QED BY <1>5, <1>6, <1>7, <1>8 DEF LinkInv

(***************************************************************************)
(* burrow_process returns while the backend waits: only in trouble, and    *)
(* with the flag set.                                                      *)
(***************************************************************************)
LEMMA GiveUpLink ==
    ASSUME JointInv, state = "WAITING", pc' = "out", trouble', trouble' \in BOOLEAN,
           UNCHANGED <<state, watch_fd_fn, poll, watched, asked, hpc, ret, transfer, call>>,
           \/ UNCHANGED <<cmd, cancelled>>
           \/ cmd'.command = "NONE" /\ cancelled'
    PROVE  LinkInv'
<1> USE DEF F!BackendPoints
<1>1. InStep' /\ BlocksUntilDone' /\ pc' # "crashed"
  BY Before DEF InStep, BlocksUntilDone
<1>2. CompletionIsTruthful'
  BY NotComplete
<1>3. AcceptedInv' /\ CallInv'
  BY Before DEF AcceptedInv, CallInv, HandedOver
<1>4. ReturnInv' /\ WatchInv'
  BY Before DEF ReturnInv, WatchInv
<1> QED BY <1>1, <1>2, <1>3, <1>4 DEF LinkInv

LEMMA PollFailsLink == ASSUME JointInv, PollTimeout \/ PollError PROVE LinkInv'
<1>1. /\ state = "WAITING" /\ pc' = "out" /\ trouble' = TRUE
      /\ UNCHANGED <<state, watch_fd_fn, poll, watched, asked, hpc, ret, transfer, call>>
  BY Before DEF PollTimeout, PollError, F!PollTimeout, F!PollError, F!ReturnEarly, httpVars
<1>2. CASE PollTimeout
  <2>1. cmd' = [cmd EXCEPT !.command = "NONE", !.command_fn = "NULL"] /\ cancelled' = TRUE
    BY <1>1, <1>2 DEF PollTimeout, F!PollTimeout, F!DoCancel
  <2>2. cmd \in FP!Cmd
    BY DEF JointInv, FP!IndInv, FP!TypeOK
  <2>3. cmd'.command = "NONE"
    BY <2>1, <2>2 DEF FP!Cmd
  <2> QED BY <1>1, <2>1, <2>3, GiveUpLink
<1>3. CASE PollError
  BY <1>1, <1>3, GiveUpLink DEF PollError, F!PollError
<1> QED BY <1>2, <1>3

LEMMA LoopLink == ASSUME JointInv, LoopGoesOn PROVE LinkInv'
<1> USE DEF F!BackendPoints
<1>1. UNCHANGED <<asked, trouble, cancelled, hpc, ret, transfer, call>>
  BY DEF LoopGoesOn, httpVars, history
<1>2. CASE F!WouldBlock
  <2>1. /\ state = "WAITING" /\ watch_size = 0 /\ pc' = "out"
        /\ UNCHANGED <<state, processing, cmd, watch_fd_fn, watch_size, poll, watched>>
    BY <1>2, Before DEF F!WouldBlock, F!ReturnEarly, F!watching
  <2> QED BY <1>1, <2>1, GiveUpLink, Before DEF InStep
<1>3. CASE F!RaisePolled \/ F!PollDone \/ F!FinishCommand
  BY <1>3, DispatchLink, FinishLink DEF LoopGoesOn
<1>4. CASE F!CompleteReturns \/ F!LeaveLoop
  <2>1. /\ pc \in {"complete", "loop"} /\ state \in {"IDLE", "START"}
        /\ UNCHANGED <<state, cmd, watch_fd_fn, watch_size, poll, watched>>
        /\ (pc' = "loop" /\ processing' = processing) \/ (pc' = "out" /\ ~processing')
        /\ pc' = "out" => state = "IDLE"
    BY <1>4, Before DEF F!CompleteReturns, F!LeaveLoop, F!frontend, F!watching
  <2>2. hpc = "idle" /\ watched = {}
    BY <2>1, Before DEF InStep, AcceptedInv, WatchInv
  <2>3. InStep' /\ BlocksUntilDone' /\ pc' # "crashed"
    BY <1>1, <2>1, <2>2 DEF InStep, BlocksUntilDone
  <2>4. CompletionIsTruthful'
    BY <2>1, NotComplete
  <2>5. AcceptedInv' /\ CallInv'
    BY <1>1, <2>1, <2>2, Before DEF AcceptedInv, CallInv, HandedOver
  <2>6. ReturnInv' /\ WatchInv'
    BY <1>1, <2>1, <2>2, Before DEF ReturnInv, WatchInv
  <2> QED BY <2>3, <2>4, <2>5, <2>6 DEF LinkInv
<1> QED BY <1>2, <1>3, <1>4 DEF LoopGoesOn

LEMMA StutterLink == ASSUME JointInv, UNCHANGED vars PROVE LinkInv'
<1>1. /\ UNCHANGED <<state, processing, cmd, watch_fd_fn, watch_size, pc, result, poll, watched>>
      /\ UNCHANGED <<asked, trouble, cancelled, hpc, ret, transfer, call, response, reported, sent>>
  BY DEF vars, frontVars, httpVars, history
<1>2. CompletionIsTruthful'
  BY <1>1, Before, TruthfulFrame
<1> QED BY <1>1, <1>2, Before DEF LinkInv, InStep, BlocksUntilDone, AcceptedInv, CallInv,
                                  ReturnInv, WatchInv, HandedOver, Code, F!BackendPoints

LEMMA NextLink == ASSUME JointInv, [Next]_vars PROVE LinkInv'
BY IssueLink, ClientLink, StartLink, ContinueLink, ReturnLink, WatchLink, BackendLink,
   ResponseLink, PollLink, PollFailsLink, LoopLink, StutterLink
   DEF Next, ClientStep, BackendStep, LoopStep

-----------------------------------------------------------------------------
(* Theorems *)

LEMMA InitJoint == Init => JointInv
<1> SUFFICES ASSUME Init PROVE JointInv
  OBVIOUS
<1>1. FP!IndInv
  BY FP!InitIndInv, PartsAssumptions, FrontendActions DEF Init
<1>2. HP!ExchangeInv /\ HP!DoneInv
  BY HP!InitInv, PartsAssumptions, BackendActions DEF Init, HP!IndInv
<1>3. /\ state = "IDLE" /\ pc = "out" /\ ~processing /\ cmd.command = "NONE"
      /\ ~watch_fd_fn /\ watched = {} /\ hpc = "idle" /\ ret = "0" /\ trouble = FALSE
  BY DEF Init, F!Init, H!Init
<1>4. InStep /\ BlocksUntilDone /\ CompletionIsTruthful
  BY <1>3 DEF InStep, BlocksUntilDone, CompletionIsTruthful, F!BackendPoints
<1>5. AcceptedInv /\ CallInv /\ ReturnInv /\ WatchInv
  BY <1>3 DEF AcceptedInv, CallInv, ReturnInv, WatchInv, HandedOver, F!BackendPoints
<1> QED BY <1>1, <1>2, <1>3, <1>4, <1>5 DEF JointInv, LinkInv

(***************************************************************************)
(* The invariant of the handle on the http backend: the frontend's own,    *)
(* the backend's own, and how the two fit together, also after a poll that *)
(* failed or timed out and with descriptors that could not be stored.      *)
(***************************************************************************)
THEOREM Invariant == Spec => []JointInv
<1>1. JointInv /\ [Next]_vars => JointInv'
  BY FrontendKeeps, BackendKeeps, NextLink DEF JointInv
<1> QED BY InitJoint, <1>1, PTL DEF Spec

(***************************************************************************)
(* The frontend and the backend always agree about who is to move: the     *)
(* backend works only inside a call of it, and a handle that waits has a   *)
(* backend that asked to be called again and a descriptor to wait for,     *)
(* unless poll timed out on it or a descriptor could not be stored         *)
(* (burrow_process, burrow_backend_http_process).                          *)
(***************************************************************************)
THEOREM PartsStayInStep == Spec => []InStep
<1>1. JointInv => InStep
  BY DEF JointInv, LinkInv
<1> QED BY Invariant, <1>1, PTL

(***************************************************************************)
(* burrow_process on the http backend returns to a client that lets it     *)
(* poll before the command is done only after a poll that failed or timed  *)
(* out, or when a descriptor could not be stored.                          *)
(***************************************************************************)
THEOREM ProcessBlocksUntilDone == Spec => []BlocksUntilDone
<1>1. JointInv => BlocksUntilDone
  BY DEF JointInv, LinkInv
<1> QED BY Invariant, <1>1, PTL

(***************************************************************************)
(* A complete callback with the result 0 that no cancel came before is for *)
(* the call the client issued, after a transfer that went well, and the    *)
(* client has been told of all of the response: what user_buffer collected *)
(* chunk by chunk and json_processing took apart token by token.           *)
(***************************************************************************)
THEOREM CompletionsAreTruthful == Spec => []CompletionIsTruthful
<1>1. JointInv => CompletionIsTruthful
  BY DEF JointInv, LinkInv
<1> QED BY Invariant, <1>1, PTL

(***************************************************************************)
(* A client that has cancelled in a callback is told of nothing more, for  *)
(* every response and wherever in it the cancel comes: json_processing     *)
(* looks at cmd.command, which burrow_cancel has set to NONE.              *)
(***************************************************************************)
THEOREM SilentOnceCancelled == Spec => CancelledIsSilent
<1>1. ASSUME JointInv, [Next]_vars, cancelled, cancelled' PROVE reported' = reported
  <2>1. cmd.command = "NONE"
    BY <1>1, Before DEF CallInv
  <2>3. CASE \E c \in Calls : Issue(c)
    BY <2>3 DEF Issue, httpVars
  <2>4. CASE burrow_process \/ burrow_set_options \/ BackendReturns \/ PollFds \/ LoopGoesOn
    BY <2>4 DEF burrow_process, burrow_set_options, BackendReturns, PollFds, LoopGoesOn, httpVars
  <2>2. CASE PollTimeout \/ PollError
    BY <2>2 DEF PollTimeout, PollError, httpVars
  <2>5. CASE burrow_set_backend_option
    BY <2>5 DEF burrow_set_backend_option, H!SetServer, H!SetPort
  <2>6. CASE StartCommand
    BY <1>1, <2>6, Before DEF StartCommand, F!StartCommand, AcceptedInv, F!BackendPoints
  <2>7. CASE ContinueCommand
    BY <2>7 DEF ContinueCommand, H!event_raised
  <2>8. CASE \E fd \in Fds : WatchFd(fd)
    BY <2>8 DEF WatchFd, httpVars
  <2>9. CASE Perform \/ ProcessBlocks \/ ProcessFails
    BY <2>9 DEF Perform, ProcessBlocks, ProcessFails, H!CurlStep, H!Receive, H!Send,
                H!TransferEnds, H!TransferFails, H!ProcessBlocks, H!ProcessError
  <2>10. CASE ProcessResponse
    BY <2>1, <2>10, ResponseMoves DEF ProcessResponse
  <2>11. CASE UNCHANGED vars
    BY <2>11 DEF vars, httpVars
  <2> QED BY <1>1, <2>2, <2>3, <2>4, <2>5, <2>6, <2>7, <2>8, <2>9, <2>10, <2>11
          DEF Next, ClientStep, BackendStep, LoopStep
<1>2. JointInv /\ [Next]_vars => [cancelled /\ cancelled' => reported' = reported]_vars
  BY <1>1
<1> QED BY Invariant, <1>2, PTL DEF Spec, CancelledIsSilent
=============================================================================
