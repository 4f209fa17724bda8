# A TLA+ verification of libburrow

libburrow is a client library for a Burrow message queue server. An application
creates a handle (`burrow_st`), issues one command at a time on it, and is told of
messages, queues, accounts and the end of the command through callbacks. The handle
works through a *backend*: over HTTP with libcurl, or a store in its own memory.
Everything runs on the application's thread; what makes the library hard is that
three parties take turns on that thread and call each other back.

Paths below are relative to `libburrow/`.

## 1. The system

| Part | State | Operations | Talks to |
|---|---|---|---|
| frontend, `burrow.c` | `state`, `flags`, `options`, `cmd`, `pfds`, `watch_size` | eleven commands, `burrow_process`, `burrow_cancel`, `burrow_event_raised`, `burrow_watch_fd`, options, create, destroy | calls the backend's function table; called back by the backend (`burrow_watch_fd`, `burrow_callback_*`); calls the client's callbacks, which may call any API function again |
| memory backend, `backends/memory/memory.c`, `dictionary.c` | accounts of queues of messages, each level a dictionary in insertion order; deadlines as absolute `uint32_t` times | the eleven command functions, create, destroy | called by the frontend, reports through callbacks |
| http backend, `backends/http/curl_backend.c`, `user_buffer.c`, `json_processing.c` | options and base URL, easy and multi handle, response buffer, parse in progress | command functions, `process`, `event_raised`, `set_option`, destroy; the functions libcurl and the JSON parser call | libcurl, the JSON parser, the frontend |
| attributes and filters, `attributes.c`, `filters.c` | a doubly linked list of each kind in the handle | create, clone, destroy, `burrow_destroy`'s loops; accessors | the client, the JSON callback |
| dummy backend, loader, logging, vendored JSON parser, examples, tests | – | – | not modelled (section 7) |

What is hard to test here, and what must hold:

* **Re-entrancy.** A callback may issue a command, process, cancel, or report an event
  while the loop of `burrow_process` or a backend function is active. The loop must not
  be entered twice, and every accepted command must be answered once.
* **Leaving the loop early.** `burrow_process` has returns inside its loop; what they leave
  behind decides whether the handle can be used again.
* **The array of polled descriptors.** It is compacted while events are dispatched and may be
  reallocated, emptied by a cancel, or refilled in the middle of that.
* **Time.** Messages expire and become visible as time passes; deadlines wrap, and 0 means
  "no deadline".
* **Deleting while iterating**, on three levels of dictionaries, with markers and limits.
* **Responses in pieces.** A response arrives in chunks of any size over several calls of
  `process`, any of which may fail; the fields of one message must not leak into the next.
* **Links.** Objects are linked and unlinked in any order, by client and library.

`PROJECT.json` lists these hazards one by one, at the line where each bites.

## 2. Modules

| Module | Models | Proofs |
|---|---|---|
| `Burrow` | the frontend, with any backend and any client | `BurrowProofs` |
| `MemoryBackend` | the memory backend, its dictionaries as sequences of keys | `MemoryBackendProofs` |
| `MessageStore` | what a store of messages promises; implemented by `MemoryBackend` | – |
| `Dictionary` | the linked lists of `dictionary.c` and how `memory.c` uses them | `DictionaryProofs` |
| `OrderedDictionary` | what a dictionary promises; implemented by `Dictionary` | `DictionaryProofs` |
| `KeySequences` | helpers of the four above: windows, removal, duplicates | `KeySequencesProofs` |
| `HttpBackend` | the http backend, its requests, its buffer and its JSON callback | `HttpBackendProofs` |
| `BurrowHttp` | `Burrow` and `HttpBackend` composed: a handle on the http backend | `BurrowHttpProofs` |
| `ManagedObjects` | attributes and filters and the handle's lists | `ManagedObjectsProofs` |
| `MC*` | small instances for TLC | |

`Burrow` sees a backend as a function table whose functions may ask for descriptors to be
watched and return 0, `EAGAIN` or an error, any number of times; `HttpBackend` and
`MemoryBackend` see the frontend as someone who calls command functions one at a time,
continues with `process` after `EAGAIN`, and clears `cmd.command` when the client cancels.
That the frontend keeps its side for any backend is what `Burrow` shows (`NotReentered`,
`ProcessOnlyWhenBlocked`, `CompleteAnswersCommand`); that the two fit together, step by step,
is what `BurrowHttp` shows.

**Burrow.** Each variable is a field of `burrow_st` or a local of the running call. `pc` tells
who has the thread: `out` (the client, no call of `burrow_process` active), `loop` (the top of
its `while`), `command` and `process` (inside the backend, from where the client may be called
back), `dispatch` (the loop over polled descriptors), `complete` (the complete callback).
A client step may be taken at any point where the client has the thread, and so the client
may call anything from any callback. Each case of the loop's `switch` is an action. History
variables: `pending` (a command was accepted and has not completed), `ran` (how often its
command function was called), `blocked` (the backend's last call returned `EAGAIN`), `watched`.
`cmd.args` is the set of fields of `cmd` the last command assigned. Of errno values only 0 and
`EAGAIN` are told apart; `error` is every other one, whoever returned it.

**MemoryBackend.** One action per command function: a command runs to its end in one call,
and while it runs the frontend's state is `START`, in which no callback can start another.
The loop of `_scan_queue` over a queue, and those of the commands on queues and accounts around
it, are definitions on the sequence of keys, deletion of emptied parents included. `now` is the
clock; sums of times wrap at `Modulus` (2^32 in the code). `expiresAt` and `hiddenUntil` record
what the client asked for, without wrapping. Every allocation may fail: then an iterator is
missing or empty and a command does less, a node may stay without a dictionary of its own
(`bare`), and a backend that could not allocate its accounts is `storeless`.

**MessageStore** is the specification the memory backend implements. It has live messages with
their deadlines and nothing else: no order, no dictionaries, no expired message waiting to be
found. Each command may touch and report only certain messages, and must touch all of them if
it has neither a filter nor a failed allocation. The refinement mapping takes the stored
messages that have not expired, and what the last command reported.

**Dictionary.** A heap of nodes with `previous`, `next`, `key` and `data`, and two dictionaries,
the one that is used and the iterator. The functions of `dictionary.c` are operators from heap
to heap; the actions are their uses in `memory.c`: look up and add, delete, and a walk over a
copy during which entries are deleted. `OrderedDictionary` has a sequence of entries and the
window that was copied; the mapping reads the sequences along the links. `MemoryBackend`'s
sequences are these.

**HttpBackend.** A command function builds a request (method, path, and the query with its
separators; the values in it are left out) and hands it to libcurl in a new easy handle.
`perform` is inside `curl_multi_perform`: libcurl takes any number of steps there (`Receive`,
`Send`, `TransferEnds`, `TransferFails`) before `process` looks at the outcome. A response is a
sequence of JSON tokens; the callback for each token is one step, since the client may cancel
from the callbacks it makes. `call`, `response`, `reported` and `sent` are history.

**BurrowHttp** runs both on one thread. It instantiates `Burrow` with the http backend's function
table and `HttpBackend` with the frontend's `cmd.command` as its command, so that cancelling in
one is what the other sees. Steps are joined where one calls the other: starting a command
(`StartCommand` is a step of both), continuing it with `process`, returning (the code the
frontend gets is the one the backend returned), watching a descriptor, and the callbacks of a
response, from which the client may cancel. All other steps are taken by one and leave the
other alone. `poll` may fail or time out, and a descriptor may be lost for want of memory; then
`burrow_process` returns from inside its loop. `asked`, `cancelled` (by the client or by the
timeout) and `trouble` (one of these failures has hit the command) are history.

**ManagedObjects.** Addresses with `next`, `prev` and the handle's list heads. `attributes.c` and
`filters.c` are the same algorithm, written once with a parameter for the kind. A use of
freed memory makes the handle `crashed`.

In every module an operator whose comment starts with "Mutant:" is a wrong version of the
definition that follows it, as a plausible slip in the code would make it; it is not used by
the specification. Substituting it must break a property.

## 3. Runs

| Run | Question | Result |
|---|---|---|
| `frontend_safety` | Does the loop survive any client, any callback, cancel, timeout, failed `poll` and `realloc`? | holds |
| `frontend_client_poll` | Is every command completed when the client watches the descriptors itself? | **violated** |
| `frontend_cancel` | Is a cancelled command completed, as documented? | **violated** |
| `memory` | Is the store consistent, does it implement `MessageStore`, and are hiding, order, and reports as asked, also when allocations fail? | holds |
| `dictionary` | Do the linked lists implement `OrderedDictionary`, without bad accesses or leaks, when allocations fail and entries are deleted during a walk? | holds |
| `memory_get_expired` | Does `get_message` return to its caller? | **violated** |
| `managed_objects` | Are the lists well linked, nothing used after it was freed, all freed in the end? | holds |
| `clone_over` | The same when the client clones onto an object that exists | **violated** |
| `http` | Is the request the one the client asked for, and is the client told of a response in order, and of all of it when 0 is returned? | holds |
| `http_list_filters` | Do the filters of `get_accounts` and `get_queues` reach the server? | **violated** |
| `http_no_fds` | The same as `http` when libcurl has no descriptor to wait for | **violated** |
| `burrow_http` | Do frontend and http backend stay in step; does `burrow_process` block until the command is done unless `poll` or the watch list failed; is a result of 0 true; is a cancelled command silent; does every command complete unless one of these failed? | holds |

### The properties

* `NotReentered`: at most one activation of the loop exists. `StateTracksCommand`: the handle is
  idle exactly when nothing is outstanding. `IdleIsUsable`: an idle handle never has the
  processing flag set when the client has the thread. `CompleteAnswersCommand`: a complete
  callback answers one command whose function ran once. `ProcessOnlyWhenBlocked`: `process` only
  continues a call that returned `EAGAIN`. `ReturnTellsOutcome`: after a return of 0 no command is
  outstanding, after `EAGAIN` one is; after an error the client cannot know, since the same errno
  is returned with the command completed (by a backend) and with the command pending (`burrow.c:186`,
  `208`). `PollInBounds`: the polled array is never overrun.
  `ArgumentsAreCurrent`: a command function reads no field an earlier command left,
  as far as it reads what `structs-local.h` promises it.
* `StoreConsistent`: a queue is listed exactly if it has messages, unless its own dictionary
  could not be allocated; keys are unique and nothing is stored that is not listed.
  `VacantOnlyWithoutMemory`: an account without queues is left behind by a failed
  `create_message` and by nothing else. `ImplementsMessageStore`: a message vanishes only
  by expiry or by a delete it is visible to, expired ones are never found, an update changes
  what it reports, a limit is kept. `HiddenStaysHidden`: no listing shows what is hidden.
  `ReportTellsTruth`: what is reported of a message is the time it has left. `OrderKept`: no
  command reorders what stays. `DestroyLeavesHidden`: see section 4.
* `ImplementsOrderedDictionary`: searching, adding, deleting and copying a window do what they
  do on a sequence. `NoBadAccess`: no freed node is read and NULL is not followed.
  `NothingLeaked`: every node is in a dictionary, after half a copy too. `CopyIsCurrent`: what a
  walk has not come to yet has not been freed.
* `LinksConsistent`, `NoUseAfterFree`, `NothingLeaked`, `DestroyEnds`: the lists.
* `ReportsInOrder`: what the client was told of is always a prefix of what the response holds,
  computed by a reference definition from the whole response. `CompleteMeansAll`: 0 means all
  of it. `RequestSaysCommand`: the request in flight is that of the current command, and a server
  that takes it apart finds the command and, for every command but the two listings, each
  filter and attribute once. `ListFiltersAreSent` asks this of the listings, and fails.
  `BufferIsResponse`: buffer plus what is to come is the response. `UrlIsCurrent`: while
  there is a server and a port, the URL is made of the ones set last. `GoodResponseAccepted`:
  nothing well-formed is turned down, except where a key or string of it could not be copied.
* `InStep`: frontend and backend agree about whose turn it is in every state.
  `BlocksUntilDone`: with the internal poll `burrow_process` comes back before the command is
  done only if `poll` failed or timed out, or a descriptor was lost. `CompletionIsTruthful`: a completion with result 0 is for the call the client issued,
  whose transfer went well and whose response it has been told of. `CancelledIsSilent`: nothing is
  reported after a cancel, though the backend is not told. `EveryCommandCompletes`: every command completes or
  meets one of those failures.

### Bounds, and why they are enough

* Frontend: two descriptors (interchangeable: symmetry), `MaxWatch` = 3 entries, so the array
  grows more than once, holds a descriptor twice, and is compacted with the last entry and with
  an earlier one live. All eleven commands and both tables (with and without
  `process`/`event_raised`) in the safety run; two commands in the runs of liveness, where
  symmetry would be unsound and is not used.
* Memory: one account with two queues, one of which has two messages, so that a level is
  emptied and not emptied by a delete, a marker falls before, on and after a key, and a limit
  cuts a scan. Clock 0..3, default ttl 2, `Modulus` 8: messages expire, hide for part of their
  life, and get deadlines that wrap to 0. Four filters: none, a limit, a marker, both; three sets
  of attributes. The view leaves out `last`, the report of the last command, and takes deadlines
  that have passed for equal: no action tells such states apart, and the properties about
  reports are action properties, checked on every step.
* Dictionary: three keys (first, middle, last), two data, six addresses (both dictionaries full),
  copies of all, one and two entries. The view leaves out `call`, which no action reads.
* Managed objects: three attributes (first, middle, last) and two filters.
* Http: nine responses (two messages the second of which lacks fields, a repeated key, a list,
  none, cut short, no JSON, unknown keys, wrong types), in every division into chunks; a body
  of two pieces; each of the eleven commands, with no, some and all filters and attributes, and
  with `detail=body` before and after one without. The view leaves out what is left over of the
  last transfer in a backend that has returned for good.
* Frontend on http: two descriptors, `MaxWatch` = 3, so that a command finds descriptors of an
  earlier one in the watch list; a listing of messages, one of queues, and a creation whose
  attributes have nothing set; three responses, two messages, two names and one that is turned down; broken
  transfers and failing multi handles, failing and timed-out polls, a failing `realloc` of the
  watch list. Restrictions: `RoomIsLeft` (`poll` finds enough entries live for the array not to
  outgrow `MaxWatch`); the client lets the frontend poll, cancels from the message, queue and
  account callbacks only, and sets options of the backend outside callbacks or in the complete
  callback; allocations of the backend succeed (they fail in the run `http`, and in the
  proofs).

Deadlock is checked everywhere except in `managed_objects`, where a program that has
destroyed its handle is done.

### Fairness

`Burrow!FairSpec`: the loop and the backend functions do not stop half-way (they are plain
sequential code); a client that has not been told the command is done comes back to
`burrow_process` and reports the events it was asked to watch, as `burrow.h` asks it to; and a
backend that is asked again and again completes in the end (strong fairness: the
server answers, though perhaps after many `EAGAIN`s). Nothing is assumed of cancels, commands
or option changes. `BurrowHttp!Spec` assumes less of the backend, since it is there: its code and
the loop's run on (weak fairness), the client comes back to `burrow_process`, and libcurl, called
again and again, gets on with the transfer (strong fairness: it does so inside
`curl_multi_perform` only). `ManagedObjects!Spec`: a call of `burrow_destroy` goes on.

## 4. Where code and documentation disagree

Unless said otherwise each is a run that TLC refutes; `PROJECT.json` has the quoted lines.

1. `burrow.c:205, 208`: the returns inside the loop of `burrow_process` leave the processing
   flag set. A client that watches descriptors itself can never continue a command that
   blocked once. (`EarlyReturnIsFinal` proves this for every instance.) The handle never
   becomes idle again, either, which is why the safety properties above are not hurt by it.
2. `burrow.c:269`: `burrow_cancel` clears the command but does not complete it.
3. `memory.c:673`: `get_message` of an expired message reads the message it has freed.
4. `memory.c:812`: destroying the backend skips hidden messages. `DestroyLeavesHidden`, which
   holds, says exactly that: everything else is freed.
5. `attributes.c:69`: cloning onto a managed object resets its links without unlinking it.
6. `curl_backend.c:577`: a running transfer without a descriptor is taken for a complete one.
7. `curl_backend.c:702`: `get_accounts` and `get_queues` do not send the filters they are given,
   nor free the string they made of them.

The rest are not runs of their own:

* `burrow.c:121`: a poll that times out cancels the command as in 2, and `burrow_process` returns as
  in 1: no complete callback comes, the handle stays in `WAITING` with the flag set and takes no
  further command. A poll interrupted by a signal (`burrow.c:108`) and a descriptor for which there
  was no memory (`burrow.c:75`, dropped in `macros.h:101`) leave it in the same way. `BlocksUntilDone`
  and `EveryCommandCompletes` say that nothing else does.
* `memory.c:128`: `_scan_queue` reads `cmd->attributes` for `get_messages` and `delete_messages` as
  well, once it has found the queue, though `structs-local.h:192-195` does not promise them: it is
  the pointer an earlier create or update left, possibly freed since.
* `curl_backend.c:396`: an empty port is accepted but does not change the URL (`UrlIsCurrent` makes
  no claim for it).
* `json_processing.c:198, 205`: a body is copied with one byte more than was allocated for it.
* `memory.c:570`: creating a message over an existing one does not free its old body and id.
* `curl_backend.c:743`: the result of `user_buffer_create` is not checked.

## 5. Proofs

`BurrowProofs` proves, for all sets of descriptors, commands, backends, results and faults and
every `MaxWatch`, from `ConstantsAssumption` alone: `TypeOK`, `NotReentered`, `StateTracksCommand`,
`PollInBounds`, `IdleIsUsable`, `CompleteAnswersCommand`, `ReturnTellsOutcome`; for backends without
a cancel function `ProcessOnlyWhenBlocked`; and `EarlyReturnIsFinal`. The invariant `IndInv` is
also checked by TLC in `frontend_safety`. None of the properties is inductive alone; the parts:

* `ControlInv` says which states go with which point of the loop and when the flag is set. It
  is what makes `NotReentered` inductive (`pc # "out"` implies the flag) and says that after
  an early return the state is `WAITING` or `READY` with the flag set, never `IDLE`.
* `WatchInv` says that the client watches or the frontend polls, never both, and that a
  descriptor the client still watches belongs to the running command. Without it an event
  from an earlier command could make an idle handle `READY`.
* `CommandInv` says how often the command function has run in each state, and that at the
  end of the loop `result` is what the backend returned.
* `BlockedInv` says that a backend in `WAITING` or `READY` still waits. It needs backends without
  cancel: when a client cancels from within a dispatched event, `burrow_internal_poll_fds`
  assigns its own count to `watch_size` at the end and so brings back descriptors the backend
  has been told to forget. The http and memory backends have no cancel function.

The step theorem has one lemma per action, and under it one step per conjunct.

`ArgumentsAreCurrent` is proved for backends that read only fields their command assigns
(`Assigned`), which the comments in `structs-local.h` promise them; the memory backend reads more
(section 4). Its invariant, `ArgsInv`, says that the arguments are those of the
command function for as long as there is one to call: a cancel clears it.

`ManagedObjectsProofs` proves for any number of objects `TypeOK`, `LinksConsistent`,
`NoUseAfterFree` and `NothingLeaked`, for clients that do not clone onto existing objects
(`CloneOver = FALSE`; with it, `clone_over` shows the counterexample). `LinksConsistent` is inductive
together with the types, and gives that a managed object's neighbours are live (`DestroySafe`).
For `NothingLeaked` it is not enough: it allows a ring of managed objects that the list's head
does not lead to. `Grounded` excludes it without speaking of reachability: no non-empty set of
managed objects is closed under `prev`. Putting an object in front, or taking one out, keeps
that, and an emptied list then has no managed object left.

`KeySequencesProofs` has what the other proofs need of sequences of keys. `Kept` (what is left of a
sequence when entries are deleted) is a recursive function. That it is well defined, embeds in the
sequence in order, and has exactly the kept elements is proved by induction along the sequence,
written as a statement about the set of positions where a claim fails and its smallest element.

`DictionaryProofs` proves `TypeOK`, `NoBadAccess`, `NothingLeaked` and `CopyIsCurrent` for any number of
keys, and that `Dictionary` implements `OrderedDictionary`. The invariant relates the heap to two
sequences of addresses (`Holds`): each dictionary's `first`, `last`, `length`, `next` and `previous`
are those of its sequence, no key occurs twice, the two have no node in common, and every live node is in one.
`Walk` adds that the entries a walk has still before it are entries of the dictionary. Adding to the
end and deleting at any position are shown to be `Append` and the removal of that position. What the
loops (emptying the iterator, copying a window) do is proved by induction on the number of
turns (`LoopExists`), with the same sequences as the loop's invariant. That there is a free
address whenever a key is added is counted from `Cardinality(Addresses) >= 2 * Cardinality(Keys)`.
Each action lemma gives the next pair of sequences and the abstract operation on their entries, so
the refinement needs no invariant of its own.

`MemoryBackendProofs` proves `TypeOK`, `StoreConsistent`, `HiddenStaysHidden`,
`VacantOnlyWithoutMemory`, `DestroyLeavesHidden`, `ReportTellsTruth` and `OrderKept`, for any accounts,
queues, ids, filters, attributes, clock and `Modulus`. The invariant adds to the types and
`StoreConsistent` that the keys of stored messages are named (`KeysNamed`) and that a deadline
is the one the client asked for as long as that one does not wrap (`DeadlinesKept`); without the
latter a report could not be known to be true. Every command is made of scans of queues, so
there is one chain of lemmas for what a scan does to a queue, to an account and to the store,
and one short lemma per command on top.

`HttpBackendProofs` proves `TypeOK`, `UrlIsCurrent`, `BufferIsResponse`, `RequestSaysCommand`,
`ReportsInOrder` and `GoodResponseAccepted` for all calls, bodies and responses (`FlatAssumption`
says which order of tokens the JSON parser hands out), and `CompleteMeansAll` for a libcurl that has
a descriptor to wait for as long as a transfer runs (`"no_fds" \notin Faults`; `http_no_fds` shows
what happens otherwise). Faults are any set: where a key or string cannot be copied
`GoodResponseAccepted` allows the error, and without `"enomem"` it does not. The heart of the invariant is `ParseInv`: at token `at` the client has been
told of exactly the messages that end before it, and `jproc` holds the fields of the object the
token is in, the last value of each key, and nothing between objects. For `RequestSaysCommand`
it is shown that taking a query apart gives back each filter and attribute, once.
The invariant is divided into `ExchangeInv`, which holds whatever becomes of the frontend's command
between two calls, and `DoneInv`, which speaks of the command that was just worked on.

`BurrowHttpProofs` proves `InStep`, `BlocksUntilDone`, `CompletionIsTruthful` and `CancelledIsSilent` for the
composition, for any calls, responses, descriptors, `MaxWatch`, and any faults of either part but
`"no_fds"`. Every step is shown to be a step of
the frontend or to leave it alone (`FrontendStep`), and likewise for the backend, so the invariants of
the two parts hold by their own proofs, used here through `INSTANCE`. `JointInv` adds what neither
part can say: whose turn it is, that the call the backend works on is the one the client
issued, that the code the backend returned is the one the frontend keeps, and that a backend that
waits has put a descriptor into the watch list, unless `trouble` records that `poll` gave up or the
descriptor was lost (a timeout empties the list and forgets the command while the backend
waits, which `ForgottenInv` shows to be harmless to it). `DoneInv` is claimed only from the moment the
command is handed over until the frontend has taken its result, since a new command changes
`cmd.command` before the backend hears of it.

Only model-checked: liveness (`CommandCompletes`, `EveryCommandCompletes`, `DestroyEnds`), which is
beyond the prover; the refinement `ImplementsMessageStore`; and what the violation runs refute.

## 6. Assumptions

* The client sets its watch callback before its first command, and reports events only on
  descriptors it was asked to watch, as `burrow.h` requires.
* A backend returns `EAGAIN` exactly when it has asked for a descriptor in the same call
  (`BackendResults`). `structs-local.h:110` tells backends to watch and return `EAGAIN` when they
  would block; the http backend does so (`curl_backend.c:569-593`), the memory backend never blocks.
* Callbacks from the logging functions do not call back into the library.
* In the memory backend and the dictionaries any allocation may fail; what a message's own
  fields point to is not modelled. In the http backend allocations of URLs, options and
  response data, and of the keys, ids and bodies the JSON callback copies, may fail; those of
  the buffer's and the parser's small structs and inside `curl_easy_escape` and
  `curl_easy_unescape`, whose results are not checked, do not.
* Integers in a response fit `uint32_t`: the casts at `json_processing.c:223, 226` change nothing.
* libcurl reports a transfer as done well only when it has read all of a request's body and handed
  over all of the response (`TransferEnds`). The backend never looks at the HTTP status, so an
  error page is a response like any other.
* A response to `detail=body` is a body, so an empty one is an empty body (`Expected`); the code has
  no way to tell it from no message.
* The client does not use attributes or filters of a handle it has destroyed (`Usable`):
  `burrow_destroy` frees the managed ones, and `attributes.c:91` would follow the handle's pointer.
* An address that was freed and handed out again is a fresh object. Freed memory is not read
  for its old contents.
* In the http backend the names, filter values and attribute values in a URL, and their
  escaping, are left out; objects in responses are flat; an uninitialised length in
  `create_message` is an arbitrary error or 0.
* Names of accounts, queues and messages differ from NULL, and what is reported of a message from
  a name (`NamesAssumption`, about the model's values). The clock starts at 1 and stays below
  `Modulus`: a clock past the range of `uint32_t`, as from 2106 on, is not modelled.
* There are finitely many keys and node addresses, with room for both dictionaries, and NULL is
  not a sequence of entries (about the model's values). Any allocation may still fail.
* `BurrowHttp` assumes what its parts do, and that libcurl has a descriptor for a running transfer.
* `Burrow` bounds the watch list by `MaxWatch` and counts calls of a command function up to two.

## 7. Not modelled

The dummy backend (a template without state); the loader of backends (a constant table); the
vendored JSON parser and libcurl (external, modelled by how they are used); logging; the
accessors of attributes and filters; the bytes of bodies; examples and tests.

## 8. Plan

Done: models and runs of all components above; proofs of the safety properties of the frontend,
the managed lists, the memory backend, the dictionaries, the http backend and the frontend on it;
the refinement of `OrderedDictionary`. Next:

1. `MemoryBackend` implements `MessageStore`, command by command, from the lemmas about scans.
