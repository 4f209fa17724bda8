---------------------------- MODULE BurrowProofs ----------------------------
(***************************************************************************)
(* Proofs about the frontend, for any descriptors, backends, commands,     *)
(* faults and bound on the watch list.  IndInv is inductive: one lemma per *)
(* action, in the order of the module Burrow, with one step per conjunct   *)
(* the action can disturb.  The safety properties then follow from it.     *)
(***************************************************************************)
EXTENDS Burrow, TLAPS

-----------------------------------------------------------------------------
(* What the shared operators assign. *)

(* Replacing an element of a sequence keeps its type and its length. *)
LEMMA ReplaceInSeq ==
    ASSUME NEW S, NEW s \in Seq(S), NEW i \in 1..Len(s), NEW x \in S
    PROVE  /\ [s EXCEPT ![i] = x] \in Seq(S)
           /\ Len([s EXCEPT ![i] = x]) = Len(s)
  OBVIOUS

(* A call of burrow_process from a client's turn keeps the control types. *)
LEMMA EnterProcessType ==
    ASSUME TypeOK, ClientTurn, EnterProcess
    PROVE  /\ pc' \in Points \cup {"out", "crashed"}
           /\ outer' \in Points \cup {"out"}
           /\ result' \in Results
           /\ processing' \in BOOLEAN
<1>1. CASE processing
  BY <1>1 DEF TypeOK, EnterProcess
<1>2. CASE ~processing
  BY <1>2 DEF TypeOK, EnterProcess, ClientTurn, Points, BackendPoints, Results
<1> QED BY <1>1, <1>2

(* burrow_cancel empties the watch list or leaves it alone, and keeps args. *)
LEMMA DoCancelType ==
    ASSUME TypeOK, DoCancel
    PROVE  /\ watch_size' \in {0, watch_size}
           /\ blocked' \in BOOLEAN
           /\ cmd' \in Cmd
           /\ cmd'.args = cmd.args
<1>1. CASE state = "IDLE"
  BY <1>1 DEF TypeOK, DoCancel
<1>2. CASE state # "IDLE"
  BY <1>2 DEF TypeOK, DoCancel, Cmd
<1> QED BY <1>1, <1>2

(* burrow_event_raised, whatever the backend's handler returns. *)
LEMMA DoEventRaisedType ==
    ASSUME TypeOK, ClientTurn \/ processing, NEW r, DoEventRaised(r)
    PROVE  /\ state' \in States
           /\ pc' \in Points \cup {"out", "crashed"}
           /\ outer' \in Points \cup {"out"}
           /\ result' \in Results
           /\ processing' \in BOOLEAN
           /\ watch_size' \in {0, watch_size}
           /\ blocked' \in BOOLEAN
           /\ cmd' \in Cmd
           /\ cmd'.args = cmd.args
<1>1. CASE r = "0" /\ options /\ ~processing
  BY <1>1, EnterProcessType DEF TypeOK, DoEventRaised, States
<1>2. CASE r = "0" /\ (options => processing)
  BY <1>2 DEF TypeOK, DoEventRaised, States, EnterProcess
<1>3. CASE r = "EAGAIN"
  BY <1>3 DEF TypeOK, DoEventRaised
<1>4. CASE r = "error"
  BY <1>4, DoCancelType DEF TypeOK, DoEventRaised
<1> QED BY <1>1, <1>2, <1>3, <1>4 DEF DoEventRaised

(* burrow_internal_watch_fd never counts an entry it has not allocated. *)
LEMMA InternalWatchType ==
    ASSUME NEW fd \in Fds, pfds \in Seq(Fds), watch_size \in Nat,
           watch_size <= Len(pfds), InternalWatch(fd)
    PROVE  /\ pfds' \in Seq(Fds)
           /\ watch_size' \in Nat
           /\ watch_size' <= Len(pfds')
           /\ Len(pfds) <= Len(pfds')
<1>1. CASE UNCHANGED <<pfds, watch_size>>
  BY <1>1
<1>2. CASE /\ watch_size' = watch_size + 1
           /\ Len(pfds) < watch_size + 1
           /\ pfds' = Append(pfds, fd)
  BY <1>2
<1>3. CASE /\ watch_size' = watch_size + 1
           /\ ~(Len(pfds) < watch_size + 1)
           /\ pfds' = [pfds EXCEPT ![watch_size + 1] = fd]
  BY <1>3, ReplaceInSeq
<1> QED BY <1>1, <1>2, <1>3 DEF InternalWatch

-----------------------------------------------------------------------------
(* The initial states satisfy the invariant. *)
LEMMA InitIndInv == Init => IndInv
<1> SUFFICES ASSUME Init PROVE IndInv
  OBVIOUS
<1>1. TypeOK
  <2>1. cmd \in Cmd
    BY DEF Init, Cmd
  <2>2. pfds \in Seq(Fds)
    BY DEF Init
  <2>3. poll \in [n : Nat, live : SUBSET Nat]
    BY DEF Init, NoPoll
  <2>4. state \in States /\ result \in Results /\ backend \in Backends
    BY DEF Init, States, Results
  <2>5. pc \in Points \cup {"out", "crashed"} /\ outer \in Points \cup {"out"}
    BY DEF Init
  <2>6. /\ processing \in BOOLEAN /\ options \in BOOLEAN /\ watch_fd_fn \in BOOLEAN
        /\ blocked \in BOOLEAN /\ pending \in BOOLEAN
    BY DEF Init
  <2>7. /\ watch_size \in Nat /\ ran \in 0..2
        /\ watched \subseteq Fds /\ clientFds \subseteq Fds
    BY DEF Init
  <2> QED BY <2>1, <2>2, <2>3, <2>4, <2>5, <2>6, <2>7 DEF TypeOK
<1>2. PollInBounds
  BY DEF Init, PollInBounds, NoPoll
<1>3. ControlInv /\ StateTracksCommand
  BY DEF Init, ControlInv, StateTracksCommand
<1>4. WatchInv /\ CommandInv /\ BlockedInv
  BY DEF Init, WatchInv, CommandInv, BlockedInv
<1> QED BY <1>1, <1>2, <1>3, <1>4 DEF IndInv

(* The eleven command functions: only an idle handle takes a command. *)
LEMMA IssuePreserves ==
    ASSUME IndInv, NEW c \in AllCommands, NEW args \in SUBSET Fields, args # {}, Issue(c, args)
    PROVE  IndInv'
<1>1. TypeOK'
  <2>1. TypeOK /\ ClientTurn
    BY DEF IndInv, Issue
  <2>2. cmd' \in Cmd
    BY DEF Issue, Cmd
  <2>3. CASE options
    BY <2>1, <2>2, <2>3, EnterProcessType DEF Issue, TypeOK, States, watching
  <2>4. CASE ~options
    BY <2>1, <2>2, <2>4 DEF Issue, TypeOK, States, watching
  <2> QED BY <2>3, <2>4
<1>2. ControlInv'
  BY DEF Issue, EnterProcess, IndInv, ControlInv
<1>3. StateTracksCommand'
  BY DEF Issue, StateTracksCommand
<1>4. PollInBounds'
  BY DEF Issue, IndInv, PollInBounds, watching
<1>5. WatchInv'
  BY DEF Issue, EnterProcess, IndInv, WatchInv, watching
<1>6. CommandInv'
  BY DEF Issue, EnterProcess, IndInv, ControlInv, CommandInv
<1>7. BlockedInv'
  BY DEF Issue, BlockedInv
<1> QED BY <1>1, <1>2, <1>3, <1>4, <1>5, <1>6, <1>7 DEF IndInv

(* burrow_process: with the flag set it changes nothing. *)
LEMMA ProcessPreserves ==
    ASSUME IndInv, burrow_process
    PROVE  IndInv'
<1>1. TypeOK'
  BY EnterProcessType DEF IndInv, burrow_process, TypeOK, watching, history
<1>2. ControlInv'
  BY DEF burrow_process, EnterProcess, IndInv, ControlInv
<1>3. StateTracksCommand'
  BY DEF burrow_process, IndInv, StateTracksCommand, history
<1>4. PollInBounds'
  BY DEF burrow_process, IndInv, PollInBounds, watching
<1>5. WatchInv'
  BY DEF burrow_process, EnterProcess, IndInv, TypeOK, ControlInv, WatchInv, CommandInv,
         States, watching, history
<1>6. CommandInv'
  BY DEF burrow_process, EnterProcess, IndInv, CommandInv, history
<1>7. BlockedInv'
  BY DEF burrow_process, EnterProcess, IndInv, ControlInv, BlockedInv
<1> QED BY <1>1, <1>2, <1>3, <1>4, <1>5, <1>6, <1>7 DEF IndInv

(* burrow_cancel: the state, and so the accepted command, is kept. *)
LEMMA CancelPreserves ==
    ASSUME IndInv, burrow_cancel
    PROVE  IndInv'
<1>1. TypeOK'
  BY DoCancelType DEF IndInv, burrow_cancel, TypeOK, control, history
<1>2. ControlInv'
  BY DEF burrow_cancel, IndInv, ControlInv, control
<1>3. StateTracksCommand'
  BY DEF burrow_cancel, IndInv, StateTracksCommand, history
<1>4. PollInBounds'
  BY DEF burrow_cancel, DoCancel, IndInv, PollInBounds, control
<1>5. WatchInv'
  BY DEF burrow_cancel, DoCancel, IndInv, TypeOK, WatchInv, Cmd, control, history
<1>6. CommandInv'
  BY DEF burrow_cancel, IndInv, CommandInv, control, history
<1>7. BlockedInv'
  BY DEF burrow_cancel, DoCancel, IndInv, BlockedInv, control
<1> QED BY <1>1, <1>2, <1>3, <1>4, <1>5, <1>6, <1>7 DEF IndInv

(* burrow_event_raised: an event for a watched descriptor never meets an idle handle. *)
LEMMA EventRaisedPreserves ==
    ASSUME IndInv, NEW fd \in Fds, burrow_event_raised(fd)
    PROVE  IndInv'
<1>1. TypeOK'
  <2>1. PICK r \in EventResults : DoEventRaised(r)
    BY DEF burrow_event_raised
  <2> QED BY <2>1, DoEventRaisedType DEF IndInv, burrow_event_raised, TypeOK, history
<1>2. ControlInv'
  BY ConstantsAssumption DEF burrow_event_raised, DoEventRaised, EnterProcess, IndInv,
         TypeOK, ControlInv, WatchInv, BackendPoints
<1>3. StateTracksCommand'
  BY DEF burrow_event_raised, DoEventRaised, IndInv, StateTracksCommand, WatchInv,
         history
<1>4. PollInBounds'
  BY DEF burrow_event_raised, DoEventRaised, DoCancel, IndInv, PollInBounds
<1>5. WatchInv'
  <2>1. PICK r \in EventResults : DoEventRaised(r)
    BY DEF burrow_event_raised
  <2>2. watch_fd_fn /\ clientFds # {} /\ state # "IDLE"
    BY DEF IndInv, WatchInv, burrow_event_raised
  <2>3. cmd'.args = cmd.args /\ watch_size' \in {0, watch_size}
    BY <2>1, DoEventRaisedType DEF IndInv, burrow_event_raised
  <2>4. state' # "IDLE"
    BY <2>1, <2>2 DEF DoEventRaised
  <2>5. processing /\ pc' = pc
    BY <2>1, <2>2 DEF DoEventRaised, IndInv, WatchInv, ControlInv, BackendPoints, EnterProcess
  <2>6. processing' = processing
    BY <2>1, <2>5 DEF DoEventRaised, EnterProcess
  <2> QED
    BY <2>1, <2>2, <2>3, <2>4, <2>5, <2>6
    DEF IndInv, WatchInv, burrow_event_raised, history, BackendPoints, ClientTurn
<1>6. CommandInv'
  BY DEF burrow_event_raised, DoEventRaised, IndInv, WatchInv, CommandInv, history
<1>7. BlockedInv'
  BY ConstantsAssumption DEF burrow_event_raised, DoEventRaised, DoCancel, EnterProcess,
         IndInv, TypeOK, ControlInv, WatchInv, BlockedInv, BackendPoints, States
<1> QED BY <1>1, <1>2, <1>3, <1>4, <1>5, <1>6, <1>7 DEF IndInv

(* burrow_set_options *)
LEMMA SetOptionsPreserves ==
    ASSUME IndInv, burrow_set_options
    PROVE  IndInv'
<1>1. TypeOK'
  BY ConstantsAssumption DEF burrow_set_options, IndInv, TypeOK, watching, control,
         history
<1>2. ControlInv'
  BY DEF burrow_set_options, IndInv, ControlInv, control
<1>3. StateTracksCommand'
  BY DEF burrow_set_options, IndInv, StateTracksCommand, history
<1>4. PollInBounds'
  BY DEF burrow_set_options, IndInv, PollInBounds, watching, control
<1>5. WatchInv'
  BY DEF burrow_set_options, IndInv, WatchInv, watching, control, history
<1>6. CommandInv'
  BY DEF burrow_set_options, IndInv, CommandInv, control, history
<1>7. BlockedInv'
  BY DEF burrow_set_options, IndInv, BlockedInv, control
<1> QED BY <1>1, <1>2, <1>3, <1>4, <1>5, <1>6, <1>7 DEF IndInv

(* burrow_set_watch_fd_fn, before the first command. *)
LEMMA SetWatchPreserves ==
    ASSUME IndInv, burrow_set_watch_fd_fn
    PROVE  IndInv'
<1>1. TypeOK'
  BY ConstantsAssumption DEF burrow_set_watch_fd_fn, IndInv, TypeOK, watching, control,
         history
<1>2. ControlInv'
  BY DEF burrow_set_watch_fd_fn, IndInv, ControlInv, control
<1>3. StateTracksCommand'
  BY DEF burrow_set_watch_fd_fn, IndInv, StateTracksCommand, history
<1>4. PollInBounds'
  BY DEF burrow_set_watch_fd_fn, IndInv, PollInBounds, watching, control
<1>5. WatchInv'
  BY DEF burrow_set_watch_fd_fn, IndInv, WatchInv, watching, control
<1>6. CommandInv'
  BY DEF burrow_set_watch_fd_fn, IndInv, CommandInv, control, history
<1>7. BlockedInv'
  BY DEF burrow_set_watch_fd_fn, IndInv, BlockedInv
<1> QED BY <1>1, <1>2, <1>3, <1>4, <1>5, <1>6, <1>7 DEF IndInv

(* burrow_watch_fd, called by the backend. *)
LEMMA WatchPreserves ==
    ASSUME IndInv, NEW fd \in Fds, burrow_watch_fd(fd)
    PROVE  IndInv'
<1>1. TypeOK'
  <2>1. CASE watch_fd_fn
    BY <2>1 DEF IndInv, TypeOK, burrow_watch_fd, frontend, control, history
  <2>2. CASE ~watch_fd_fn
    BY <2>2, InternalWatchType
    DEF IndInv, TypeOK, PollInBounds, burrow_watch_fd, frontend, control, history
  <2> QED BY <2>1, <2>2
<1>2. ControlInv'
  BY DEF burrow_watch_fd, IndInv, ControlInv, frontend, control
<1>3. StateTracksCommand'
  BY DEF burrow_watch_fd, IndInv, StateTracksCommand, frontend, history
<1>4. PollInBounds'
  <2>1. CASE watch_fd_fn
    BY <2>1 DEF IndInv, PollInBounds, burrow_watch_fd, control
  <2>2. CASE ~watch_fd_fn
    BY <2>2, InternalWatchType DEF IndInv, TypeOK, PollInBounds, burrow_watch_fd, control
  <2> QED BY <2>1, <2>2
<1>5. WatchInv'
  BY DEF burrow_watch_fd, IndInv, ControlInv, WatchInv, CommandInv, BackendPoints,
         frontend, control, history
<1>6. CommandInv'
  BY DEF burrow_watch_fd, IndInv, CommandInv, frontend, control, history
<1>7. BlockedInv'
  BY DEF burrow_watch_fd, IndInv, BlockedInv, frontend, control
<1> QED BY <1>1, <1>2, <1>3, <1>4, <1>5, <1>6, <1>7 DEF IndInv

(* The command function returns. *)
LEMMA CommandReturnsPreserves ==
    ASSUME IndInv, NEW r \in Results, CommandReturns(r)
    PROVE  IndInv'
<1>1. TypeOK'
  <2>1. CASE r = "EAGAIN" /\ ~backend.process
    BY <2>1, DoCancelType DEF IndInv, TypeOK, CommandReturns, ReturnEarly, history, Results
  <2>2. CASE ~(r = "EAGAIN" /\ ~backend.process)
    BY <2>2 DEF IndInv, TypeOK, CommandReturns, States, Points, history
  <2> QED BY <2>1, <2>2
<1>2. ControlInv'
  BY DEF CommandReturns, ReturnEarly, IndInv, ControlInv
<1>3. StateTracksCommand'
  BY DEF CommandReturns, IndInv, ControlInv, StateTracksCommand, history
<1>4. PollInBounds'
  <2>1. CASE r = "EAGAIN" /\ ~backend.process
    BY <2>1, DoCancelType DEF IndInv, TypeOK, PollInBounds, CommandReturns
  <2>2. CASE ~(r = "EAGAIN" /\ ~backend.process)
    BY <2>2 DEF IndInv, PollInBounds, CommandReturns
  <2> QED BY <2>1, <2>2
<1>5. WatchInv'
  BY DEF CommandReturns, BackendResults, DoCancel, ReturnEarly, IndInv, TypeOK,
         ControlInv, WatchInv, Cmd, history
<1>6. CommandInv'
  BY DEF CommandReturns, BackendResults, ReturnEarly, IndInv, ControlInv, CommandInv,
         history
<1>7. BlockedInv'
  BY DEF CommandReturns, IndInv, ControlInv, BlockedInv
<1> QED BY <1>1, <1>2, <1>3, <1>4, <1>5, <1>6, <1>7 DEF IndInv

(* backend->process returns. *)
LEMMA ProcessReturnsPreserves ==
    ASSUME IndInv, NEW r \in Results, ProcessReturns(r)
    PROVE  IndInv'
<1>1. TypeOK'
  BY DEF ProcessReturns, IndInv, TypeOK, Points, States, watching, history
<1>2. ControlInv'
  BY DEF ProcessReturns, IndInv, ControlInv
<1>3. StateTracksCommand'
  BY DEF ProcessReturns, IndInv, ControlInv, StateTracksCommand, history
<1>4. PollInBounds'
  BY DEF ProcessReturns, IndInv, PollInBounds, watching
<1>5. WatchInv'
  BY DEF ProcessReturns, BackendResults, IndInv, WatchInv, watching, history
<1>6. CommandInv'
  BY DEF ProcessReturns, BackendResults, IndInv, ControlInv, CommandInv, history
<1>7. BlockedInv'
  BY DEF ProcessReturns, BlockedInv
<1> QED BY <1>1, <1>2, <1>3, <1>4, <1>5, <1>6, <1>7 DEF IndInv

(* The loop in state START. *)
LEMMA StartPreserves ==
    ASSUME IndInv, StartCommand
    PROVE  IndInv'
<1>1. TypeOK'
  BY DEF StartCommand, IndInv, TypeOK, Points, BackendPoints, frontend, watching
<1>2. ControlInv'
  BY DEF StartCommand, IndInv, ControlInv, frontend
<1>3. StateTracksCommand'
  BY DEF StartCommand, IndInv, StateTracksCommand, frontend
<1>4. PollInBounds'
  BY DEF StartCommand, IndInv, PollInBounds, watching
<1>5. WatchInv'
  BY DEF StartCommand, IndInv, WatchInv, CommandInv, frontend, watching
<1>6. CommandInv'
  BY DEF StartCommand, IndInv, ControlInv, CommandInv, frontend
<1>7. BlockedInv'
  BY DEF StartCommand, BlockedInv, frontend
<1> QED BY <1>1, <1>2, <1>3, <1>4, <1>5, <1>6, <1>7 DEF IndInv

(* The loop in state READY. *)
LEMMA ContinuePreserves ==
    ASSUME IndInv, ContinueCommand
    PROVE  IndInv'
<1>1. TypeOK'
  BY DEF ContinueCommand, IndInv, TypeOK, Points, BackendPoints, frontend, watching,
         history
<1>2. ControlInv'
  BY DEF ContinueCommand, IndInv, ControlInv, frontend
<1>3. StateTracksCommand'
  BY DEF ContinueCommand, IndInv, StateTracksCommand, frontend, history
<1>4. PollInBounds'
  BY DEF ContinueCommand, IndInv, PollInBounds, watching
<1>5. WatchInv'
  BY DEF ContinueCommand, IndInv, WatchInv, BackendPoints, frontend, watching
<1>6. CommandInv'
  BY DEF ContinueCommand, IndInv, CommandInv, frontend, history
<1>7. BlockedInv'
  BY DEF ContinueCommand, IndInv, BlockedInv, frontend
<1> QED BY <1>1, <1>2, <1>3, <1>4, <1>5, <1>6, <1>7 DEF IndInv

(* The loop in state WAITING with nothing to poll. *)
LEMMA WouldBlockPreserves ==
    ASSUME IndInv, WouldBlock
    PROVE  IndInv'
<1>1. TypeOK'
  BY DEF WouldBlock, ReturnEarly, IndInv, TypeOK, Results, watching, history
<1>2. ControlInv'
  BY DEF WouldBlock, ReturnEarly, IndInv, ControlInv
<1>3. StateTracksCommand'
  BY DEF WouldBlock, IndInv, StateTracksCommand, history
<1>4. PollInBounds'
  BY DEF WouldBlock, IndInv, PollInBounds, watching
<1>5. WatchInv'
  BY DEF WouldBlock, ReturnEarly, IndInv, ControlInv, WatchInv, watching, history
<1>6. CommandInv'
  BY DEF WouldBlock, IndInv, CommandInv, history
<1>7. BlockedInv'
  BY DEF WouldBlock, IndInv, BlockedInv
<1> QED BY <1>1, <1>2, <1>3, <1>4, <1>5, <1>6, <1>7 DEF IndInv

(* poll reports events. *)
LEMMA PollFdsPreserves ==
    ASSUME IndInv, PollFds
    PROVE  IndInv'
<1>1. TypeOK'
  BY DEF PollFds, IndInv, TypeOK, Points, frontend, watching, history
<1>2. ControlInv'
  BY DEF PollFds, IndInv, ControlInv, frontend
<1>3. StateTracksCommand'
  BY DEF PollFds, IndInv, StateTracksCommand, frontend, history
<1>4. PollInBounds'
  BY DEF PollFds, IndInv, PollInBounds, watching
<1>5. WatchInv'
  BY DEF PollFds, IndInv, WatchInv, frontend, watching
<1>6. CommandInv'
  BY DEF PollFds, IndInv, CommandInv, frontend, history
<1>7. BlockedInv'
  BY DEF PollFds, IndInv, BlockedInv, frontend
<1> QED BY <1>1, <1>2, <1>3, <1>4, <1>5, <1>6, <1>7 DEF IndInv

(* poll times out. *)
LEMMA PollTimeoutPreserves ==
    ASSUME IndInv, PollTimeout
    PROVE  IndInv'
<1>1. TypeOK'
  BY DoCancelType DEF IndInv, PollTimeout, ReturnEarly, TypeOK, history, Results
<1>2. ControlInv'
  BY DEF PollTimeout, ReturnEarly, IndInv, ControlInv
<1>3. StateTracksCommand'
  BY DEF PollTimeout, IndInv, StateTracksCommand, history
<1>4. PollInBounds'
  BY DEF PollTimeout, DoCancel, IndInv, PollInBounds
<1>5. WatchInv'
  BY DEF PollTimeout, DoCancel, ReturnEarly, IndInv, TypeOK, ControlInv, WatchInv, Cmd,
         history
<1>6. CommandInv'
  BY DEF PollTimeout, IndInv, CommandInv, history
<1>7. BlockedInv'
  BY DEF PollTimeout, DoCancel, IndInv, BlockedInv
<1> QED BY <1>1, <1>2, <1>3, <1>4, <1>5, <1>6, <1>7 DEF IndInv

(* poll fails. *)
LEMMA PollErrorPreserves ==
    ASSUME IndInv, PollError
    PROVE  IndInv'
<1>1. TypeOK'
  BY DEF PollError, ReturnEarly, IndInv, TypeOK, Results, watching, history
<1>2. ControlInv'
  BY DEF PollError, ReturnEarly, IndInv, ControlInv
<1>3. StateTracksCommand'
  BY DEF PollError, IndInv, StateTracksCommand, history
<1>4. PollInBounds'
  BY DEF PollError, IndInv, PollInBounds, watching
<1>5. WatchInv'
  BY DEF PollError, IndInv, WatchInv, watching
<1>6. CommandInv'
  BY DEF PollError, IndInv, CommandInv, history
<1>7. BlockedInv'
  BY DEF PollError, IndInv, BlockedInv
<1> QED BY <1>1, <1>2, <1>3, <1>4, <1>5, <1>6, <1>7 DEF IndInv

(* One event of the dispatch loop: the copied entry stays in bounds. *)
LEMMA RaisePolledPreserves ==
    ASSUME IndInv, RaisePolled
    PROVE  IndInv'
<1>1. TypeOK'
  <2>1. /\ pfds' \in Seq(Fds)
        /\ poll' \in [n : Nat, live : SUBSET Nat]
    BY DEF IndInv, TypeOK, PollInBounds, RaisePolled
  <2>2. processing
    BY DEF IndInv, ControlInv, RaisePolled
  <2>3. CASE ~backend.event_raised
    BY <2>1, <2>3 DEF IndInv, TypeOK, RaisePolled, history
  <2>4. CASE backend.event_raised
    <3>1. PICK r \in EventResults : DoEventRaised(r)
      BY <2>4 DEF RaisePolled
    <3> QED BY <2>1, <2>2, <3>1, DoEventRaisedType DEF IndInv, TypeOK, RaisePolled, history
  <2> QED BY <2>3, <2>4
<1>2. ControlInv'
  BY DEF RaisePolled, DoEventRaised, EnterProcess, IndInv, ControlInv
<1>3. StateTracksCommand'
  BY DEF RaisePolled, DoEventRaised, IndInv, ControlInv, StateTracksCommand, history
<1>4. PollInBounds'
  <2>1. /\ Len(pfds') = Len(pfds)
        /\ poll'.n <= Len(pfds')
        /\ poll'.live \subseteq 1..poll'.n
    BY DEF IndInv, TypeOK, PollInBounds, RaisePolled
  <2>2. watch_size' \in {0, watch_size}
    BY DEF RaisePolled, DoEventRaised, DoCancel
  <2> QED BY <2>1, <2>2 DEF IndInv, TypeOK, PollInBounds
<1>5. WatchInv'
  BY DEF RaisePolled, DoEventRaised, DoCancel, IndInv, TypeOK, WatchInv, Cmd
<1>6. CommandInv'
  BY DEF RaisePolled, DoEventRaised, IndInv, ControlInv, CommandInv, history
<1>7. BlockedInv'
  BY DEF RaisePolled, DoEventRaised, DoCancel, IndInv, ControlInv, BlockedInv
<1> QED BY <1>1, <1>2, <1>3, <1>4, <1>5, <1>6, <1>7 DEF IndInv

(* The dispatch loop ends and writes the watch list's size back. *)
LEMMA PollDonePreserves ==
    ASSUME IndInv, PollDone
    PROVE  IndInv'
<1>1. TypeOK'
  BY DEF PollDone, NoPoll, IndInv, TypeOK, Points, frontend, history
<1>2. ControlInv'
  BY DEF PollDone, IndInv, ControlInv, frontend
<1>3. StateTracksCommand'
  BY DEF PollDone, IndInv, StateTracksCommand, frontend, history
<1>4. PollInBounds'
  BY DEF PollDone, NoPoll, IndInv, PollInBounds
<1>5. WatchInv'
  BY DEF PollDone, IndInv, WatchInv, frontend
<1>6. CommandInv'
  BY DEF PollDone, IndInv, ControlInv, CommandInv, frontend, history
<1>7. BlockedInv'
  BY DEF PollDone, IndInv, BlockedInv, frontend
<1> QED BY <1>1, <1>2, <1>3, <1>4, <1>5, <1>6, <1>7 DEF IndInv

(* The loop in state FINISH. *)
LEMMA FinishPreserves ==
    ASSUME IndInv, FinishCommand
    PROVE  IndInv'
<1>1. TypeOK'
  BY DEF FinishCommand, IndInv, TypeOK, Cmd, Points, States, watching
<1>2. ControlInv'
  BY DEF FinishCommand, IndInv, ControlInv
<1>3. StateTracksCommand'
  BY DEF FinishCommand, StateTracksCommand
<1>4. PollInBounds'
  BY DEF FinishCommand, IndInv, PollInBounds, watching
<1>5. WatchInv'
  BY DEF FinishCommand, IndInv, WatchInv, BackendPoints, watching
<1>6. CommandInv'
  BY DEF FinishCommand, IndInv, CommandInv
<1>7. BlockedInv'
  BY DEF FinishCommand, BlockedInv
<1> QED BY <1>1, <1>2, <1>3, <1>4, <1>5, <1>6, <1>7 DEF IndInv

(* The complete callback returns. *)
LEMMA CompletePreserves ==
    ASSUME IndInv, CompleteReturns
    PROVE  IndInv'
<1>1. TypeOK'
  BY DEF CompleteReturns, IndInv, TypeOK, Points, frontend, watching, history
<1>2. ControlInv'
  BY DEF CompleteReturns, IndInv, ControlInv, frontend
<1>3. StateTracksCommand'
  BY DEF CompleteReturns, IndInv, StateTracksCommand, frontend, history
<1>4. PollInBounds'
  BY DEF CompleteReturns, IndInv, PollInBounds, watching
<1>5. WatchInv'
  BY DEF CompleteReturns, IndInv, ControlInv, WatchInv, CommandInv, frontend, watching
<1>6. CommandInv'
  BY DEF CompleteReturns, IndInv, CommandInv, frontend, history
<1>7. BlockedInv'
  BY DEF CompleteReturns, IndInv, BlockedInv, frontend
<1> QED BY <1>1, <1>2, <1>3, <1>4, <1>5, <1>6, <1>7 DEF IndInv

(* The loop ends. *)
LEMMA LeavePreserves ==
    ASSUME IndInv, LeaveLoop
    PROVE  IndInv'
<1>1. TypeOK'
  BY DEF LeaveLoop, IndInv, TypeOK, watching, history
<1>2. ControlInv'
  BY DEF LeaveLoop, IndInv, ControlInv
<1>3. StateTracksCommand'
  BY DEF LeaveLoop, IndInv, StateTracksCommand, history
<1>4. PollInBounds'
  BY DEF LeaveLoop, IndInv, PollInBounds, watching
<1>5. WatchInv'
  BY DEF LeaveLoop, IndInv, ControlInv, WatchInv, watching
<1>6. CommandInv'
  BY DEF LeaveLoop, IndInv, ControlInv, CommandInv
<1>7. BlockedInv'
  BY DEF LeaveLoop, BlockedInv
<1> QED BY <1>1, <1>2, <1>3, <1>4, <1>5, <1>6, <1>7 DEF IndInv

-----------------------------------------------------------------------------
(* Every step preserves the invariant. *)
LEMMA NextPreserves == IndInv /\ [Next]_vars => IndInv'
<1> SUFFICES ASSUME IndInv, [Next]_vars PROVE IndInv'
  OBVIOUS
<1>1. CASE IssueCommand
  <2>1. PICK c \in AllCommands, args \in SUBSET Fields : args # {} /\ Issue(c, args)
    BY <1>1 DEF IssueCommand, burrow_get_message, burrow_create_message,
       burrow_update_message, burrow_delete_message, burrow_get_messages,
       burrow_delete_messages, burrow_update_messages, burrow_get_queues,
       burrow_delete_queues, burrow_get_accounts, burrow_delete_accounts,
       AllCommands, Fields
  <2> QED BY <2>1, IssuePreserves
<1>2. CASE ClientStep /\ ~IssueCommand
  BY <1>2, ProcessPreserves, CancelPreserves, EventRaisedPreserves,
     SetOptionsPreserves, SetWatchPreserves DEF ClientStep
<1>3. CASE BackendStep
  BY <1>3, WatchPreserves, CommandReturnsPreserves, ProcessReturnsPreserves DEF BackendStep
<1>4. CASE LoopStep
  BY <1>4, StartPreserves, ContinuePreserves, WouldBlockPreserves, PollFdsPreserves,
     PollTimeoutPreserves, PollErrorPreserves, RaisePolledPreserves, PollDonePreserves,
     FinishPreserves, CompletePreserves, LeavePreserves DEF LoopStep
<1>5. CASE UNCHANGED vars
  BY <1>5 DEF vars, frontend, watching, control, history, IndInv, TypeOK, ControlInv,
     StateTracksCommand, PollInBounds, WatchInv, CommandInv, BlockedInv
<1>6. CASE Crashed
  BY <1>5, <1>6 DEF Crashed
<1> QED BY <1>1, <1>2, <1>3, <1>4, <1>5, <1>6 DEF Next

(* IndInv holds in every reachable state. *)
THEOREM IndInvHolds == Spec => []IndInv
<1>1. Init => IndInv
  BY InitIndInv
<1>2. IndInv /\ [Next]_vars => IndInv'
  BY NextPreserves
<1> QED BY <1>1, <1>2, PTL DEF Spec

-----------------------------------------------------------------------------
(* The safety invariants of the frontend. *)

(***************************************************************************)
(* Type correctness: in particular the size of the watch list never        *)
(* underflows when the dispatch loop shortens it.                          *)
(***************************************************************************)
THEOREM TypeCorrect == Spec => []TypeOK
<1>1. IndInv => TypeOK
  BY DEF IndInv
<1> QED BY <1>1, IndInvHolds, PTL

(* No activation of burrow_process ever runs inside another. *)
THEOREM NeverReentered == Spec => []NotReentered
<1>1. IndInv => NotReentered
  BY DEF IndInv, ControlInv, NotReentered
<1> QED BY <1>1, IndInvHolds, PTL

(* The handle is idle exactly when the last accepted command has completed. *)
THEOREM StateAlwaysTracksCommand == Spec => []StateTracksCommand
<1>1. IndInv => StateTracksCommand
  BY DEF IndInv
<1> QED BY <1>1, IndInvHolds, PTL

(* poll and the dispatch loop stay within the allocated pfds. *)
THEOREM PollAlwaysInBounds == Spec => []PollInBounds
<1>1. IndInv => PollInBounds
  BY DEF IndInv
<1> QED BY <1>1, IndInvHolds, PTL

(* A handle that is idle between calls processes the next command. *)
THEOREM IdleAlwaysUsable == Spec => []IdleIsUsable
<1>1. IndInv => IdleIsUsable
  BY DEF IndInv, ControlInv, IdleIsUsable
<1> QED BY <1>1, IndInvHolds, PTL

-----------------------------------------------------------------------------
(* What a step may never do. *)

(***************************************************************************)
(* Outside the loop's own steps and the returns of a backend function, the *)
(* loop does not have the thread, and can only be entered.                 *)
(***************************************************************************)
LEMMA OutsideLoop ==
    ASSUME ClientStep \/ (\E fd \in Fds : burrow_watch_fd(fd))
    PROVE  pc # "loop" /\ pc' \in {pc, "loop"}
<1>1. CASE IssueCommand
  BY <1>1 DEF IssueCommand, burrow_get_message, burrow_create_message,
     burrow_update_message, burrow_delete_message, burrow_get_messages,
     burrow_delete_messages, burrow_update_messages, burrow_get_queues,
     burrow_delete_queues, burrow_get_accounts, burrow_delete_accounts,
     Issue, ClientTurn, BackendPoints, EnterProcess
<1>2. CASE burrow_process
  BY <1>2 DEF burrow_process, ClientTurn, BackendPoints, EnterProcess
<1>3. CASE burrow_cancel \/ burrow_set_options \/ burrow_set_watch_fd_fn
  BY <1>3 DEF burrow_cancel, burrow_set_options, burrow_set_watch_fd_fn, ClientTurn,
     BackendPoints, control
<1>4. CASE \E fd \in Fds : burrow_event_raised(fd)
  BY <1>4 DEF burrow_event_raised, ClientTurn, BackendPoints, DoEventRaised, EnterProcess
<1>5. CASE \E fd \in Fds : burrow_watch_fd(fd)
  BY <1>5 DEF burrow_watch_fd, BackendPoints, control
<1> QED BY <1>1, <1>2, <1>3, <1>4, <1>5 DEF ClientStep

(* Every complete callback answers one command whose function ran once. *)
THEOREM CompletionsAnswerCommands == Spec => CompleteAnswersCommand
<1>1. ASSUME IndInv, [Next]_vars, pc = "loop", pc' = "complete"
      PROVE  pending /\ ran = 1
  <2>1. CASE FinishCommand
    BY <1>1, <2>1 DEF FinishCommand, IndInv, StateTracksCommand, CommandInv
  <2>2. CASE ClientStep \/ BackendStep
    BY <1>1, <2>2, OutsideLoop DEF BackendStep, CommandReturns, ProcessReturns
  <2>3. CASE StartCommand \/ ContinueCommand \/ PollFds \/ RaisePolled \/ PollDone
             \/ CompleteReturns
    BY <1>1, <2>3 DEF StartCommand, ContinueCommand, PollFds, RaisePolled, PollDone,
       CompleteReturns
  <2>4. CASE WouldBlock \/ PollTimeout \/ PollError \/ LeaveLoop
    BY <1>1, <2>4 DEF WouldBlock, PollTimeout, PollError, LeaveLoop, ReturnEarly,
       IndInv, ControlInv
  <2>5. CASE Crashed \/ UNCHANGED vars
    BY <1>1, <2>5 DEF Crashed, vars, control
  <2> QED BY <1>1, <2>1, <2>2, <2>3, <2>4, <2>5 DEF Next, LoopStep
<1>2. IndInv /\ [Next]_vars => [pc = "loop" /\ pc' = "complete" => pending /\ ran = 1]_vars
  BY <1>1
<1> QED BY <1>2, IndInvHolds, PTL DEF Spec, CompleteAnswersCommand

(***************************************************************************)
(* When burrow_process returns 0 no command is outstanding, when it        *)
(* returns EAGAIN one is.  An error says neither.                          *)
(***************************************************************************)
THEOREM ReturnsTellOutcome == Spec => ReturnTellsOutcome
<1>1. ASSUME IndInv, [Next]_vars, pc # "out", pc' = "out"
      PROVE  (result' = "0" => ~pending') /\ (result' = "EAGAIN" => pending')
  <2>1. CASE ClientStep \/ (\E fd \in Fds : burrow_watch_fd(fd))
    BY <1>1, <2>1, OutsideLoop
  <2>2. CASE \E r \in Results : CommandReturns(r)
    <3>1. result' = "error"
      BY <1>1, <2>2 DEF CommandReturns, ReturnEarly
    <3> QED BY <3>1
  <2>3. CASE WouldBlock \/ PollTimeout \/ PollError
    BY <1>1, <2>3 DEF WouldBlock, PollTimeout, PollError, ReturnEarly, history, IndInv,
       StateTracksCommand
  <2>4. CASE LeaveLoop
    BY <1>1, <2>4 DEF LeaveLoop, history, IndInv, StateTracksCommand, CommandInv
  <2>5. CASE (\E r \in Results : ProcessReturns(r)) \/ StartCommand \/ ContinueCommand
             \/ PollFds \/ PollDone \/ FinishCommand \/ CompleteReturns
    BY <1>1, <2>5 DEF ProcessReturns, StartCommand, ContinueCommand, PollFds, PollDone,
       FinishCommand, CompleteReturns
  <2>6. CASE RaisePolled
    BY <1>1, <2>6 DEF RaisePolled, DoEventRaised, EnterProcess
  <2>7. CASE Crashed \/ UNCHANGED vars
    BY <1>1, <2>7 DEF Crashed, vars, control
  <2> QED
    BY <1>1, <2>1, <2>2, <2>3, <2>4, <2>5, <2>6, <2>7 DEF Next, BackendStep, LoopStep
<1>2. IndInv /\ [Next]_vars
        => [pc # "out" /\ pc' = "out" =>
               (result' = "0" => ~pending') /\ (result' = "EAGAIN" => pending')]_vars
  BY <1>1
<1> QED BY <1>2, IndInvHolds, PTL DEF Spec, ReturnTellsOutcome

(***************************************************************************)
(* With backends that have no cancel function, as the memory and the http  *)
(* backend, backend->process is called only to continue a command whose    *)
(* last call returned EAGAIN, although burrow_cancel, a timeout or a       *)
(* failing event handler may have cancelled it on the way.                 *)
(***************************************************************************)
THEOREM ProcessesOnlyWhenBlocked ==
    ASSUME \A b \in Backends : ~b.cancel
    PROVE  Spec => ProcessOnlyWhenBlocked
<1>1. ASSUME IndInv, [Next]_vars, pc = "loop", pc' = "process"
      PROVE  blocked
  <2>1. CASE ContinueCommand
    BY <1>1, <2>1 DEF ContinueCommand, IndInv, TypeOK, BlockedInv
  <2>2. CASE ClientStep \/ BackendStep
    BY <1>1, <2>2, OutsideLoop DEF BackendStep, CommandReturns, ProcessReturns
  <2>3. CASE StartCommand \/ PollFds \/ RaisePolled \/ PollDone \/ FinishCommand
             \/ CompleteReturns
    BY <1>1, <2>3 DEF StartCommand, PollFds, RaisePolled, PollDone, FinishCommand,
       CompleteReturns
  <2>4. CASE WouldBlock \/ PollTimeout \/ PollError \/ LeaveLoop
    BY <1>1, <2>4 DEF WouldBlock, PollTimeout, PollError, LeaveLoop, ReturnEarly,
       IndInv, ControlInv
  <2>5. CASE Crashed \/ UNCHANGED vars
    BY <1>1, <2>5 DEF Crashed, vars, control
  <2> QED BY <1>1, <2>1, <2>2, <2>3, <2>4, <2>5 DEF Next, LoopStep
<1>2. IndInv /\ [Next]_vars => [pc = "loop" /\ pc' = "process" => blocked]_vars
  BY <1>1
<1> QED BY <1>2, IndInvHolds, PTL DEF Spec, ProcessOnlyWhenBlocked

(***************************************************************************)
(* An early return is final: once burrow_process has come back to the      *)
(* client with the flag set (burrow.c:186, 205, 208), no later call of the *)
(* client gets into the loop again, so the command never completes.        *)
(***************************************************************************)
THEOREM EarlyReturnIsFinal ==
    Spec => [][pc = "out" /\ processing => pc' = "out" /\ processing']_vars
<1>1. ASSUME [Next]_vars, pc = "out", processing
      PROVE  pc' = "out" /\ processing'
  <2>1. CASE IssueCommand
    BY <1>1, <2>1 DEF IssueCommand, burrow_get_message, burrow_create_message,
       burrow_update_message, burrow_delete_message, burrow_get_messages,
       burrow_delete_messages, burrow_update_messages, burrow_get_queues,
       burrow_delete_queues, burrow_get_accounts, burrow_delete_accounts,
       Issue, EnterProcess
  <2>2. CASE burrow_process
    BY <1>1, <2>2 DEF burrow_process, EnterProcess
  <2>3. CASE burrow_cancel \/ burrow_set_options \/ burrow_set_watch_fd_fn
    BY <1>1, <2>3 DEF burrow_cancel, burrow_set_options, burrow_set_watch_fd_fn, control
  <2>4. CASE \E fd \in Fds : burrow_event_raised(fd)
    BY <1>1, <2>4 DEF burrow_event_raised, DoEventRaised, EnterProcess
  <2>5. CASE BackendStep \/ LoopStep
    BY <1>1, <2>5 DEF BackendStep, burrow_watch_fd, BackendPoints, CommandReturns,
       ProcessReturns, LoopStep, StartCommand, ContinueCommand, WouldBlock, PollFds,
       PollTimeout, PollError, RaisePolled, PollDone, FinishCommand, CompleteReturns,
       LeaveLoop
  <2>6. CASE Crashed \/ UNCHANGED vars
    BY <1>1, <2>6 DEF Crashed, vars, frontend, control
  <2> QED BY <1>1, <2>1, <2>2, <2>3, <2>4, <2>5, <2>6 DEF Next, ClientStep
<1>2. [Next]_vars => [pc = "out" /\ processing => pc' = "out" /\ processing']_vars
  BY <1>1
<1> QED BY <1>2, PTL DEF Spec

(***************************************************************************)
(* The fields of cmd that the function for command c assigns.              *)
(***************************************************************************)
Assigned(c) ==
    CASE c = "CREATE_MESSAGE" -> {"account", "queue", "message_id", "body", "attributes"}
      [] c = "UPDATE_MESSAGE" -> {"account", "queue", "message_id", "attributes", "filters"}
      [] c \in {"GET_MESSAGE", "DELETE_MESSAGE"} -> {"account", "queue", "message_id", "filters"}
      [] c = "UPDATE_MESSAGES" -> {"account", "queue", "attributes", "filters"}
      [] c \in {"GET_MESSAGES", "DELETE_MESSAGES"} -> {"account", "queue", "filters"}
      [] c \in {"GET_QUEUES", "DELETE_QUEUES"} -> {"account", "filters"}
      [] OTHER -> {"filters"}

(* As long as there is a command function to call, cmd has what its command assigned. *)
ArgsInv == cmd.command_fn # "NULL" => cmd.args = Assigned(cmd.command_fn)

LEMMA IssueAssigns == IssueCommand => ArgsInv'
<1>1. ASSUME NEW c, NEW args, Issue(c, args), args = Assigned(c) PROVE ArgsInv'
  BY <1>1 DEF Issue, ArgsInv
<1>2. CASE burrow_get_message
  BY <1>1, <1>2 DEF burrow_get_message, Assigned
<1>3. CASE burrow_create_message
  BY <1>1, <1>3 DEF burrow_create_message, Assigned
<1>4. CASE burrow_update_message
  BY <1>1, <1>4 DEF burrow_update_message, Assigned
<1>5. CASE burrow_delete_message
  BY <1>1, <1>5 DEF burrow_delete_message, Assigned
<1>6. CASE burrow_get_messages
  BY <1>1, <1>6 DEF burrow_get_messages, Assigned
<1>7. CASE burrow_delete_messages
  BY <1>1, <1>7 DEF burrow_delete_messages, Assigned
<1>8. CASE burrow_update_messages
  <2>1. {"account", "queue", "filters", "attributes"} = Assigned("UPDATE_MESSAGES")
    BY DEF Assigned
  <2> QED BY <1>1, <1>8, <2>1 DEF burrow_update_messages
<1>9. CASE burrow_get_queues
  BY <1>1, <1>9 DEF burrow_get_queues, Assigned
<1>10. CASE burrow_delete_queues
  BY <1>1, <1>10 DEF burrow_delete_queues, Assigned
<1>11. CASE burrow_get_accounts
  BY <1>1, <1>11 DEF burrow_get_accounts, Assigned
<1>12. CASE burrow_delete_accounts
  BY <1>1, <1>12 DEF burrow_delete_accounts, Assigned
<1> QED BY <1>2, <1>3, <1>4, <1>5, <1>6, <1>7, <1>8, <1>9, <1>10, <1>11, <1>12 DEF IssueCommand

(* Cancelling clears the function; no other step touches function or arguments. *)
LEMMA ArgsPreserved == TypeOK /\ ArgsInv /\ [Next]_vars => ArgsInv'
<1> SUFFICES ASSUME TypeOK, ArgsInv, [Next]_vars PROVE ArgsInv'
  OBVIOUS
<1>1. CASE DoCancel
  BY <1>1 DEF DoCancel, ArgsInv, TypeOK, Cmd
<1>2. CASE UNCHANGED cmd
  BY <1>2 DEF ArgsInv
<1>3. CASE IssueCommand
  BY <1>3, IssueAssigns
<1>4. ASSUME NEW r, DoEventRaised(r) PROVE ArgsInv'
  BY <1>1, <1>2, <1>4 DEF DoEventRaised
<1>5. CASE ClientStep
  <2>1. CASE burrow_cancel
    BY <1>1, <2>1 DEF burrow_cancel
  <2>2. CASE \E fd \in Fds : burrow_event_raised(fd)
    BY <1>4, <2>2 DEF burrow_event_raised
  <2>3. CASE burrow_process \/ burrow_set_options \/ burrow_set_watch_fd_fn
    BY <1>2, <2>3 DEF burrow_process, burrow_set_options, burrow_set_watch_fd_fn
  <2> QED BY <1>3, <1>5, <2>1, <2>2, <2>3 DEF ClientStep
<1>6. CASE BackendStep
  <2>1. CASE \E fd \in Fds : burrow_watch_fd(fd)
    BY <1>2, <2>1 DEF burrow_watch_fd, frontend
  <2>2. CASE \E r \in Results : CommandReturns(r) \/ ProcessReturns(r)
    BY <1>1, <1>2, <2>2 DEF CommandReturns, ProcessReturns
  <2> QED BY <1>6, <2>1, <2>2 DEF BackendStep
<1>7. CASE LoopStep
  <2>1. CASE StartCommand \/ ContinueCommand \/ PollFds \/ PollDone \/ CompleteReturns
    BY <1>2, <2>1 DEF StartCommand, ContinueCommand, PollFds, PollDone, CompleteReturns, frontend
  <2>2. CASE WouldBlock \/ PollError \/ LeaveLoop
    BY <1>2, <2>2 DEF WouldBlock, PollError, LeaveLoop
  <2>3. CASE PollTimeout
    BY <1>1, <2>3 DEF PollTimeout
  <2>4. CASE RaisePolled
    BY <1>2, <1>4, <2>4 DEF RaisePolled
  <2>5. CASE FinishCommand
    BY <2>5 DEF FinishCommand, ArgsInv, TypeOK, Cmd
  <2> QED BY <1>7, <2>1, <2>2, <2>3, <2>4, <2>5 DEF LoopStep
<1>8. CASE Crashed \/ UNCHANGED vars
  BY <1>2, <1>8 DEF Crashed, vars, frontend
<1> QED BY <1>3, <1>5, <1>6, <1>7, <1>8 DEF Next

(***************************************************************************)
(* A backend that reads no more than its command assigns never reads a     *)
(* pointer an earlier command left in cmd, through every cancel, event and *)
(* nested call (burrow.c:179).  The comments on the command functions in   *)
(* structs-local.h promise backends no other field.                        *)
(***************************************************************************)
THEOREM ArgumentsStayCurrent ==
    ASSUME \A c \in AllCommands : Reads[c] \subseteq Assigned(c)
    PROVE  Spec => ArgumentsAreCurrent
<1>1. Init => ArgsInv
  BY DEF Init, ArgsInv
<1>2. Spec => []ArgsInv
  BY <1>1, ArgsPreserved, TypeCorrect, PTL DEF Spec
<1>3. ASSUME IndInv, ArgsInv, [Next]_vars, pc = "loop", pc' = "command"
      PROVE  Reads[cmd.command_fn] \subseteq cmd.args
  <2>1. CASE StartCommand
    <3>1. cmd.command_fn # "NULL" /\ cmd.command_fn \in AllCommands
      BY <1>3, <2>1 DEF StartCommand, IndInv, TypeOK, Cmd
    <3> QED BY <1>3, <3>1 DEF ArgsInv
  <2>2. CASE ClientStep \/ BackendStep
    BY <1>3, <2>2, OutsideLoop DEF BackendStep, CommandReturns, ProcessReturns
  <2>3. CASE ContinueCommand \/ PollFds \/ RaisePolled \/ PollDone \/ FinishCommand
             \/ CompleteReturns
    BY <1>3, <2>3 DEF ContinueCommand, PollFds, RaisePolled, PollDone, FinishCommand,
       CompleteReturns
  <2>4. CASE WouldBlock \/ PollTimeout \/ PollError \/ LeaveLoop
    BY <1>3, <2>4 DEF WouldBlock, PollTimeout, PollError, LeaveLoop, ReturnEarly,
       IndInv, ControlInv
  <2>5. CASE Crashed \/ UNCHANGED vars
    BY <1>3, <2>5 DEF Crashed, vars, control
  <2> QED BY <1>3, <2>1, <2>2, <2>3, <2>4, <2>5 DEF Next, LoopStep
<1>4. IndInv /\ ArgsInv /\ [Next]_vars
        => [pc = "loop" /\ pc' = "command" => Reads[cmd.command_fn] \subseteq cmd.args]_vars
  BY <1>3
<1> QED BY <1>2, <1>4, IndInvHolds, PTL DEF Spec, ArgumentsAreCurrent
=============================================================================
