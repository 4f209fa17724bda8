------------------------------ MODULE MCBurrow ------------------------------
(* Small instances of the frontend for TLC. *)
EXTENDS Burrow, TLC

CONSTANTS fd1, fd2

(* The optional functions of each backend's table. *)
HttpTable == [process |-> TRUE, event_raised |-> TRUE, cancel |-> FALSE]
MemoryTable == [process |-> FALSE, event_raised |-> FALSE, cancel |-> FALSE]

Http == {HttpTable}
HttpOrMemory == {HttpTable, MemoryTable}

TwoFds == {fd1, fd2}
FdSymmetry == Permutations(TwoFds)

AllResults == {"0", "EAGAIN", "error"}
AllFaults == {"cancel", "timeout", "poll_error", "enomem"}
TwoCommands == {"CREATE_MESSAGE", "GET_MESSAGES"}

(* The fields each command function is promised, by its comment. *)
DocumentedReads ==
    [c \in AllCommands |->
        (IF c \in {"GET_ACCOUNTS", "DELETE_ACCOUNTS"} THEN {} ELSE {"account"})
        \cup (IF c \in {"GET_ACCOUNTS", "DELETE_ACCOUNTS", "GET_QUEUES", "DELETE_QUEUES"}
                THEN {} ELSE {"queue"})
        \cup (IF c \in {"CREATE_MESSAGE", "GET_MESSAGE", "UPDATE_MESSAGE", "DELETE_MESSAGE"}
                THEN {"message_id"} ELSE {})
        \cup (IF c = "CREATE_MESSAGE" THEN {"body"} ELSE {"filters"})
        \cup (IF c \in {"CREATE_MESSAGE", "UPDATE_MESSAGES"} THEN {"attributes"} ELSE {})]
=============================================================================
