--------------------------- MODULE MemoryBackend ---------------------------
(***************************************************************************)
(* The memory backend, libburrow/backends/memory/memory.c: accounts of     *)
(* queues of messages, each level a dictionary in insertion order.  Every  *)
(* command runs to its end inside its command function: while it runs the  *)
(* frontend's state is START, so no callback can start another one.  Each  *)
(* action is one command function; the arguments are chosen with \E.       *)
(*                                                                         *)
(* The sequences stand for the dictionaries of dictionary.c, as module     *)
(* Dictionary shows.  Any allocation may fail: then a command does less,   *)
(* still returns what it would have returned, and may leave a node whose   *)
(* own dictionary was never allocated (bare).                              *)
(*                                                                         *)
(* Time is time(NULL) cast to uint32_t; deadlines are kept as absolute     *)
(* times and the additions wrap at Modulus.                                *)
(***************************************************************************)
EXTENDS KeySequences

CONSTANTS
    Accounts, Queues, Ids, \* names
    Keys,        \* the messages clients name: <<account, queue, message_id>>
    Filters,     \* filters clients pass: [marker, limit, match_hidden]
    NULL,        \* no marker
    Attributes,  \* attributes clients pass: [set, ttl, hide]
    DefaultTtl,  \* 300 in the code
    Modulus,     \* 2^32 in the code
    Faults,      \* "enomem": allocations may fail
    MaxTime      \* bound: the clock stops here

ASSUME ConstantsAssumption ==
    /\ Keys \subseteq Accounts \X Queues \X Ids
    /\ \A f \in Filters : f.limit \in Nat /\ f.match_hidden \in BOOLEAN
    /\ Attributes \subseteq [set : SUBSET {"ttl", "hide"}, ttl : Nat, hide : Nat]
    /\ DefaultTtl \in Nat
    /\ Modulus \in Nat \ {0}
    /\ MaxTime \in Nat \ {0} /\ MaxTime < Modulus

VARIABLES
    now,        \* time(NULL)
    accounts,   \* keys of self->accounts, in order
    queues,     \* queues[a]: keys of account a's dictionary, <<>> if there is none
    ids,        \* ids[a, q]: keys of queue q's dictionary
    msg,        \* msg[a, q, m]: the stored message, NoMessage if there is none
    bare,       \* accounts a and queues <<a, q>> whose node has no dictionary
    last,       \* the last command, what it returned and reported through the callbacks
    handle      \* "open", "storeless" (self->accounts is NULL), "destroyed", or
                \* "crashed": the program died in the allocator or at a null pointer

store == <<accounts, queues, ids, msg, bare>>
vars == <<now, store, last, handle>>

(***************************************************************************)
(* A stored message.  ttl and hide are the fields of burrow_message_st;    *)
(* expiresAt and hiddenUntil are history: the deadlines the client asked   *)
(* for, which do not wrap.                                                 *)
(***************************************************************************)
Message == [ttl : 0..Modulus-1, hide : 0..Modulus-1, expiresAt : Nat, hiddenUntil : Nat]
NoMessage == [ttl |-> 0, hide |-> 0, expiresAt |-> 0, hiddenUntil |-> 0]
NoAttributes == [set |-> {}, ttl |-> 0, hide |-> 0]
NoKey == <<NULL, NULL, NULL>>

(* A command with its arguments; failed: an allocation failed, or had failed before. *)
Command(op, k, f, at) ==
    [op |-> op, key |-> k, filter |-> f, attributes |-> at, reported |-> <<>>, ret |-> "0",
     failed |-> FALSE]
Ops == {"none", "create_message", "get_message", "update_message", "delete_message",
        "get_messages", "update_messages", "delete_messages",
        "get_queues", "delete_queues", "get_accounts", "delete_accounts", "destroy"}
MessageReport == [key : Keys, marked : BOOLEAN, ttl : Nat, hide : Nat]
Reports == MessageReport \cup Queues \cup Accounts

(* Names are strings: none is the absent marker, a pair of names or a report. *)
ASSUME NamesAssumption ==
    /\ NULL \notin Accounts \cup Queues \cup Ids
    /\ Accounts \cap (Accounts \X Queues) = {}
    /\ (Accounts \cup Queues) \cap MessageReport = {}

TypeOK ==
    /\ now \in 0..MaxTime
    /\ accounts \in Seq(Accounts)
    /\ queues \in [Accounts -> Seq(Queues)]
    /\ ids \in [Accounts \X Queues -> Seq(Ids)]
    /\ msg \in [Keys -> Message]
    /\ last.op \in Ops
    /\ last.failed \in BOOLEAN
    /\ last.reported \in Seq(Reports)
    /\ last.ret \in {"0", "EINVAL"}
    /\ bare \subseteq Accounts \cup (Accounts \X Queues)
    /\ handle \in {"open", "storeless", "destroyed", "crashed"}

(* _process_filter for no filters: everything that is not hidden. *)
DefaultFilter == [marker |-> NULL, limit |-> 0, match_hidden |-> FALSE]
NoCommand == Command("none", NoKey, DefaultFilter, NoAttributes)
OutOfMemory == "enomem" \in Faults

(* burrow_backend_memory_create does not look at what dictionary_init returns. *)
Init ==
    /\ now = 1
    /\ accounts = <<>>
    /\ queues = [a \in Accounts |-> <<>>]
    /\ ids = [p \in Accounts \X Queues |-> <<>>]
    /\ msg = [k \in Keys |-> NoMessage]
    /\ bare = {}
    /\ last = NoCommand
    /\ handle \in {"open"} \cup (IF OutOfMemory THEN {"storeless"} ELSE {})

-----------------------------------------------------------------------------
Stored(k) == k[3] \in Elements(ids[<<k[1], k[2]>>])

(* Mutant: deadlines are kept in a wider type. *)
NoWrap(n) == n

Wrap(n) == n % Modulus

(* The part of a dictionary that dictionary_iter copies for a filter. *)
Window(s, f) == SubSeq(s, WindowStart(s, f.marker), WindowEnd(s, f.marker, f.limit))

Expired(k) == msg[k].ttl <= now
Hidden(k) == msg[k].hide > now

(* Mutant: a hide that has passed is not reported as 0. *)
ReportHideAsIs(k, m, marked) ==
    [key |-> k, marked |-> marked, ttl |-> Wrap(m.ttl + Modulus - now),
     hide |-> Wrap(m.hide + Modulus - now)]

(***************************************************************************)
(* What a callback is told of a message: seconds left, not deadlines.      *)
(* marked: attributes.set says that ttl and hide are there.                *)
(***************************************************************************)
Report(k, m, marked) ==
    [key |-> k, marked |-> marked, ttl |-> Wrap(m.ttl + Modulus - now),
     hide |-> IF m.hide > now THEN m.hide - now ELSE 0]

(* A queue _scan_queue goes through: it and its account are there, with their dictionaries. *)
Scannable(p) == p[2] \in Elements(queues[p[1]]) /\ p \notin bare

(* Mutant: a queue is not deleted with its last message. *)
EraseKeepsQueues(S, T) ==
    /\ ids' = [p \in Accounts \X Queues |->
                  Kept(ids[p], {m \in Ids : <<p[1], p[2], m>> \notin S})]
    /\ UNCHANGED <<accounts, queues, bare>>

(* Mutant: an account is not deleted with its last queue. *)
EraseKeepsAccounts(S, T) ==
    /\ ids' = [p \in Accounts \X Queues |->
                  Kept(ids[p], {m \in Ids : <<p[1], p[2], m>> \notin S})]
    /\ queues' = [a \in Accounts |->
                  Kept(queues[a], {q \in Queues : <<a, q>> \notin T \/ ids'[<<a, q>>] # <<>>})]
    /\ UNCHANGED <<accounts, bare>>

(***************************************************************************)
(* The messages of S are freed and their nodes deleted; then the queues of *)
(* T that have become empty are deleted, and the accounts of T that have.  *)
(***************************************************************************)
Erase(S, T) ==
    LET gone == {p \in T : Scannable(p)}
    IN  /\ ids' = [p \in Accounts \X Queues |->
                     Kept(ids[p], {m \in Ids : <<p[1], p[2], m>> \notin S})]
        /\ queues' = [a \in Accounts |->
                     Kept(queues[a], {q \in Queues : <<a, q>> \notin gone \/ ids'[<<a, q>>] # <<>>})]
        /\ accounts' = Kept(accounts, {a \in Accounts :
                     (\A q \in Queues : <<a, q>> \notin gone) \/ queues'[a] # <<>>})
        /\ UNCHANGED bare

Forget(S) == [k \in Keys |-> IF k \in S THEN NoMessage ELSE msg[k]]

EraseMessage(k) == Erase({k}, {<<k[1], k[2]>>}) /\ msg' = Forget({k})

(***************************************************************************)
(* A command on one message reports it, hidden or not, unless it has       *)
(* expired.  attributes.set is never assigned there: any value.            *)
(***************************************************************************)
Direct(op, k, at, m, ret) ==
    \E marked \in BOOLEAN :
       last' = [Command(op, k, DefaultFilter, at) EXCEPT
                  !.ret = ret,
                  !.reported = IF Stored(k) /\ ~Expired(k) THEN <<Report(k, m, marked)>> ELSE <<>>]

(* The keys _scan_queue passes over in queue <<a, q>>, in order ... *)
Scanned(a, q, f) ==
    LET w == Window(ids[<<a, q>>], f) IN [i \in DOMAIN w |-> <<a, q, w[i]>>]

(* ... the ones it deletes because they have expired, and the ones it acts on. *)
ExpiredIn(a, q, f) == {k \in Elements(Scanned(a, q, f)) : Expired(k)}

(* Mutant: hidden messages are not skipped. *)
MatchedHiddenToo(a, q, f) == {k \in Elements(Scanned(a, q, f)) : ~Expired(k)}

Matched(a, q, f) ==
    {k \in Elements(Scanned(a, q, f)) : ~Expired(k) /\ (f.match_hidden \/ ~Hidden(k))}

(* The deadlines _scan_queue sets; a sum of 0 counts as not set. *)
ScanUpdate(m, at) ==
    LET ttl == IF "ttl" \in at.set THEN Wrap(at.ttl + now) ELSE 0
        hide == IF "hide" \in at.set THEN Wrap(at.hide + now) ELSE 0
    IN  [ttl |-> IF ttl # 0 THEN ttl ELSE m.ttl,
         hide |-> IF hide # 0 THEN hide ELSE m.hide,
         expiresAt |-> IF "ttl" \in at.set THEN at.ttl + now ELSE m.expiresAt,
         hiddenUntil |-> IF "hide" \in at.set THEN at.hide + now ELSE m.hiddenUntil]

-----------------------------------------------------------------------------
(* Commands on one message. *)

AccountsWith(a) == IF a \in Elements(accounts) THEN accounts ELSE Append(accounts, a)
QueuesWith(a, q) ==
    IF q \in Elements(queues[a]) THEN queues ELSE [queues EXCEPT ![a] = Append(@, q)]

(* Mutant: creating a message anew moves it to the end of its queue. *)
PutAtEnd(k, at) ==
    LET others == Kept(ids[<<k[1], k[2]>>], Ids \ {k[3]})
    IN  /\ {k[1], <<k[1], k[2]>>} \cap bare = {}
        /\ accounts' = AccountsWith(k[1])
        /\ queues' = QueuesWith(k[1], k[2])
        /\ ids' = [ids EXCEPT ![<<k[1], k[2]>>] = Append(others, k[3])]
        /\ msg' = [msg EXCEPT ![k] = ScanUpdate([@ EXCEPT !.ttl = Wrap(now + DefaultTtl)], at)]
        /\ UNCHANGED <<bare, handle>>

(* Every allocation of create_message succeeds. *)
Put(k, at) ==
    LET a == k[1]
        q == k[2]
        ttl == IF "ttl" \in at.set THEN at.ttl ELSE DefaultTtl
        hide == IF "hide" \in at.set THEN at.hide ELSE 0
    IN  /\ {a, <<a, q>>} \cap bare = {}
        /\ accounts' = AccountsWith(a)
        /\ queues' = QueuesWith(a, q)
        /\ ids' = IF Stored(k) THEN ids ELSE [ids EXCEPT ![<<a, q>>] = Append(@, k[3])]
        /\ msg' = [msg EXCEPT ![k] =
                     [ttl |-> Wrap(now + ttl), hide |-> IF hide = 0 THEN 0 ELSE Wrap(now + hide),
                      expiresAt |-> now + ttl, hiddenUntil |-> now + hide]]
        /\ UNCHANGED <<bare, handle>>

(***************************************************************************)
(* One of them fails: that of the message, its id or its body, or of the   *)
(* account's node; of the account's dictionary, whose node stays; of the   *)
(* queue's node, where an account without queues is deleted; of the        *)
(* queue's dictionary, whose node stays; of the message's node, where a    *)
(* queue without messages is deleted, but not its account.                 *)
(***************************************************************************)
PutFails(k) ==
    LET a == k[1]
        q == k[2]
        newAccount == a \notin Elements(accounts)
        newQueue == a \notin bare /\ q \notin Elements(queues[a])
    IN  /\ OutOfMemory
        /\ \/ UNCHANGED <<accounts, queues, bare>>
           \/ /\ newAccount
              /\ accounts' = AccountsWith(a)
              /\ bare' = bare \cup {a}
              /\ UNCHANGED queues
           \/ /\ newQueue /\ queues[a] = <<>>
              /\ accounts' = Kept(accounts, Accounts \ {a})
              /\ UNCHANGED <<queues, bare>>
           \/ /\ newQueue
              /\ accounts' = AccountsWith(a)
              /\ queues' = QueuesWith(a, q)
              /\ bare' = bare \cup {<<a, q>>}
           \/ /\ newQueue
              /\ accounts' = AccountsWith(a)
              /\ UNCHANGED <<queues, bare>>
        /\ UNCHANGED <<ids, msg, handle>>

(* The length of a dictionary that was never allocated is looked at. *)
PutCrashes(k) ==
    /\ {k[1], <<k[1], k[2]>>} \cap bare # {}
    /\ handle' = "crashed"
    /\ UNCHANGED store

create_message(k, at) ==
    LET done == Command("create_message", k, DefaultFilter, at)
    IN  /\ handle = "open"
        /\ \/ Put(k, at) /\ last' = done
           \/ PutFails(k) /\ last' = [done EXCEPT !.failed = TRUE]
           \/ PutCrashes(k) /\ last' = [done EXCEPT !.failed = TRUE]
        /\ UNCHANGED now

(***************************************************************************)
(* get_message on an expired message frees the message, then reads its     *)
(* message_id and body to free them (memory.c:673-675): the program dies   *)
(* in the allocator, or it happens to go well.                             *)
(***************************************************************************)
get_message(k) ==
    /\ handle = "open"
    /\ IF Stored(k) /\ Expired(k)
         THEN handle' \in {"open", "crashed"} /\ EraseMessage(k)
         ELSE UNCHANGED <<store, handle>>
    /\ Direct("get_message", k, NoAttributes, msg[k], IF Stored(k) THEN "0" ELSE "EINVAL")
    /\ UNCHANGED now

(* A ttl of 0 is ignored here, unlike in update_messages. *)
update_message(k, at) ==
    LET used == [at EXCEPT !.set = IF at.ttl = 0 THEN @ \ {"ttl"} ELSE @]
        new == ScanUpdate(msg[k], used)
    IN  /\ handle = "open"
        /\ \/ /\ ~Stored(k)
              /\ UNCHANGED store
           \/ /\ Stored(k) /\ Expired(k)
              /\ EraseMessage(k)
           \/ /\ Stored(k) /\ ~Expired(k)
              /\ msg' = [msg EXCEPT ![k] = new]
              /\ UNCHANGED <<accounts, queues, ids, bare>>
        /\ Direct("update_message", k, at, new, IF Stored(k) THEN "0" ELSE "EINVAL")
        /\ UNCHANGED <<now, handle>>

delete_message(k) ==
    /\ handle = "open"
    /\ IF Stored(k) THEN EraseMessage(k) ELSE UNCHANGED store
    /\ Direct("delete_message", k, NoAttributes, msg[k], "0")
    /\ UNCHANGED <<now, handle>>

-----------------------------------------------------------------------------
(* Commands on lists. *)

(***************************************************************************)
(* _scan_queue on one queue: the expired messages of the window go; the    *)
(* matched ones are reported and, for op = "update_messages", changed      *)
(* first, for op = "delete_messages" deleted.  Without memory for the      *)
(* filter or the iterator nothing happens.                                 *)
(***************************************************************************)
ScanQueue(op, a, q, f, at) ==
    LET matched == Matched(a, q, f)
        gone == ExpiredIn(a, q, f) \cup (IF op = "delete_messages" THEN matched ELSE {})
        new(k) == IF op = "update_messages" THEN ScanUpdate(msg[k], at) ELSE msg[k]
        hits == Kept(Scanned(a, q, f), matched)
        done == Command(op, <<a, q, NULL>>, f, at)
    IN  /\ handle = "open"
        /\ \/ /\ Erase(gone, {<<a, q>>})
              /\ msg' = [k \in Keys |-> CASE k \in gone -> NoMessage
                                          [] k \in matched \ gone -> new(k)
                                          [] OTHER -> msg[k]]
              /\ last' = [done EXCEPT !.reported =
                            [i \in DOMAIN hits |-> Report(hits[i], new(hits[i]), TRUE)]]
           \/ /\ OutOfMemory
              /\ last' = [done EXCEPT !.failed = TRUE]
              /\ UNCHANGED store
        /\ UNCHANGED <<now, handle>>

get_messages(a, q, f) == ScanQueue("get_messages", a, q, f, NoAttributes)

update_messages(a, q, f, at) == ScanQueue("update_messages", a, q, f, at)

delete_messages(a, q, f) == ScanQueue("delete_messages", a, q, f, NoAttributes)

(***************************************************************************)
(* Each listed queue is scanned with the default filter, so whatever the   *)
(* client's filter says its hidden messages stay.  Memory may run out in   *)
(* any of the scans.                                                       *)
(***************************************************************************)
ScannedAway(T) ==
    UNION {ExpiredIn(p[1], p[2], DefaultFilter) \cup Matched(p[1], p[2], DefaultFilter) : p \in T}

EraseQueues(done, T) ==
    \E scanned \in (IF OutOfMemory THEN SUBSET T ELSE {T}) :
       /\ Erase(ScannedAway(scanned), scanned)
       /\ msg' = Forget(ScannedAway(scanned))
       /\ last' = [done EXCEPT !.failed = (scanned # T)]

delete_queues(a, f) ==
    /\ handle = "open"
    /\ EraseQueues(Command("delete_queues", <<a, NULL, NULL>>, f, NoAttributes),
                   {a} \X Elements(Window(queues[a], f)))
    /\ UNCHANGED <<now, handle>>

QueuesOf(S) == {p \in S \X Queues : p[2] \in Elements(queues[p[1]])}

delete_accounts(f) ==
    /\ handle = "open"
    /\ EraseQueues(Command("delete_accounts", NoKey, f, NoAttributes),
                   QueuesOf(Elements(Window(accounts, f))))
    /\ UNCHANGED <<now, handle>>

(* Names are reported whether or not anything under them is live. *)
ListNames(done, names) ==
    /\ handle = "open"
    /\ \/ last' = [done EXCEPT !.reported = names]
       \/ OutOfMemory /\ last' = [done EXCEPT !.failed = TRUE]
    /\ UNCHANGED <<now, store, handle>>

get_queues(a, f) ==
    ListNames(Command("get_queues", <<a, NULL, NULL>>, f, NoAttributes), Window(queues[a], f))

get_accounts(f) == ListNames(Command("get_accounts", NoKey, f, NoAttributes), Window(accounts, f))

(* burrow_backend_memory_free: delete_accounts, then the account dictionary is freed. *)
destroy ==
    /\ handle = "open"
    /\ handle' = "destroyed"
    /\ EraseQueues(Command("destroy", NoKey, DefaultFilter, NoAttributes),
                   QueuesOf(Elements(accounts)))
    /\ UNCHANGED now

(***************************************************************************)
(* Without an account dictionary nothing is found and nothing stored, and  *)
(* only the commands that read one message say so.                         *)
(***************************************************************************)
WithoutStore(op, k) ==
    /\ handle = "storeless"
    /\ last' = [Command(op, k, DefaultFilter, NoAttributes) EXCEPT
                  !.ret = IF op \in {"get_message", "update_message"} THEN "EINVAL" ELSE "0",
                  !.failed = TRUE]
    /\ handle' = IF op = "destroy" THEN "destroyed" ELSE handle
    /\ UNCHANGED <<now, store>>

Tick ==
    /\ handle = "open"
    /\ now < MaxTime
    /\ now' = now + 1
    /\ last' = NoCommand
    /\ UNCHANGED <<store, handle>>

(* A program that has crashed or has destroyed its handle calls nothing more. *)
Closed == handle \in {"destroyed", "crashed"} /\ UNCHANGED vars

Next ==
    \/ \E k \in Keys :
          \/ \E at \in Attributes : create_message(k, at) \/ update_message(k, at)
          \/ get_message(k)
          \/ delete_message(k)
    \/ \E a \in Accounts, q \in Queues, f \in Filters :
          \/ get_messages(a, q, f)
          \/ delete_messages(a, q, f)
          \/ \E at \in Attributes : update_messages(a, q, f, at)
    \/ \E a \in Accounts, f \in Filters : get_queues(a, f) \/ delete_queues(a, f)
    \/ \E f \in Filters : get_accounts(f) \/ delete_accounts(f)
    \/ \E op \in Ops \ {"none"}, k \in Keys : WithoutStore(op, k)
    \/ Tick
    \/ destroy
    \/ Closed

Spec == Init /\ [][Next]_vars

-----------------------------------------------------------------------------
(* What makes the backend correct. *)

(***************************************************************************)
(* The levels of dictionaries fit together, whatever expires, is deleted,  *)
(* listed or runs out of memory: no name twice; what is not reachable by   *)
(* name has been freed; a node without a dictionary has nothing under it;  *)
(* and a queue without messages is one of those, never a leftover.         *)
(***************************************************************************)
StoreConsistent ==
    /\ NoDuplicates(accounts)
    /\ \A a \in Accounts :
          /\ NoDuplicates(queues[a])
          /\ queues[a] # <<>> => a \in Elements(accounts) \ bare
          /\ \A q \in Queues :
                /\ NoDuplicates(ids[<<a, q>>])
                /\ ids[<<a, q>>] # <<>> <=> q \in Elements(queues[a]) /\ <<a, q>> \notin bare
                /\ <<a, q>> \in bare => q \in Elements(queues[a])
    /\ \A k \in Keys : ~Stored(k) => msg[k] = NoMessage

MessagesReported == Elements(last'.reported) \cap MessageReport

Vacant == {a \in Elements(accounts) : queues[a] = <<>>}

(***************************************************************************)
(* An account without queues is left behind only by a create_message that  *)
(* ran out of memory: deleting and expiring, in whatever order, take every *)
(* account with its last queue.                                            *)
(***************************************************************************)
VacantOnlyWithoutMemory ==
    [][Vacant' \subseteq Vacant \/ (last'.op = "create_message" /\ last'.failed)]_vars

(***************************************************************************)
(* A message whose client asked to hide it is not reported by a command on *)
(* a list before that time is over, unless the filter matches hidden       *)
(* messages: what lets a consumer claim a message with update_messages.    *)
(* Only deadlines that fit uint32_t are kept.                              *)
(***************************************************************************)
HiddenStaysHidden ==
    [][last'.op \in {"get_messages", "update_messages", "delete_messages"}
          /\ ~last'.filter.match_hidden
       => \A r \in MessagesReported :
             msg[r.key].hiddenUntil < Modulus => msg[r.key].hiddenUntil <= now]_vars

(***************************************************************************)
(* Destroying the backend frees every message, expired ones included, but  *)
(* those that are hidden, if it does not run out of memory.                *)
(***************************************************************************)
DestroyLeavesHidden ==
    [][handle = "open" /\ handle' = "destroyed" /\ ~last'.failed
          => \A k \in Keys : Stored(k)' => Hidden(k)]_vars

(***************************************************************************)
(* The seconds a report gives are the ones left of what the client asked   *)
(* for: ttl to the deadline, hide to its end or 0 once it has passed.  A   *)
(* command on a list marks both as set.                                    *)
(***************************************************************************)
ReportTellsTruth ==
    [][\A r \in MessagesReported :
          LET asked == IF Stored(r.key)' THEN msg'[r.key] ELSE msg[r.key]
          IN  /\ last'.op \in {"get_messages", "update_messages", "delete_messages"}
                    => r.marked
              /\ asked.expiresAt < Modulus => r.ttl = asked.expiresAt - now
              /\ asked.hiddenUntil < Modulus =>
                    r.hide = IF asked.hiddenUntil > now THEN asked.hiddenUntil - now ELSE 0]_vars

(***************************************************************************)
(* The messages of a queue keep their order: a step removes some, or       *)
(* appends one, but never moves one past another.                          *)
(***************************************************************************)
OrderKept ==
    [][\A p \in Accounts \X Queues : \A i, j \in DOMAIN ids[p] :
          i < j => ~ \E x, y \in DOMAIN ids'[p] :
                        x < y /\ ids'[p][x] = ids[p][j] /\ ids'[p][y] = ids[p][i]]_vars

(***************************************************************************)
(* The dictionaries, with expired messages in them that no command has     *)
(* walked over yet, implement a store that has only live messages: what a  *)
(* client can find out about them is what MessageStore promises, filters,  *)
(* expiry, and allocations that fail half-way included.                    *)
(***************************************************************************)
Promise == INSTANCE MessageStore WITH
    live <- [k \in {k \in Keys : Stored(k) /\ ~Expired(k)} |->
               [ttl |-> msg[k].ttl, hide |-> IF Hidden(k) THEN msg[k].hide ELSE 0]],
    call <- [f \in {"op", "key", "filter", "attributes", "failed"} |-> last[f]],
    reported <- {IF r \in MessageReport THEN r.key ELSE r : r \in Elements(last.reported)}

ImplementsMessageStore == Promise!Spec

(***************************************************************************)
(* burrow.h:303: get_message returns 0 or an errno value; it does not take *)
(* the program down.                                                       *)
(***************************************************************************)
GetMessageReturns == handle # "crashed"
=============================================================================
