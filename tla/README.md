# Formal models of aioads

aioads is an asynchronous client for Beckhoff PLCs: ADS commands over one TCP
connection (or an MQTT broker), symbol lookup with a cache, values read by name,
tables of symbols and types, and notifications. This directory holds TLA+ modules
of its concurrent core and of the data path of its client, TLC configurations that check them on small
instances, and theorems with proofs that TLAPS checks for all instances.

Everything runs on one asyncio event loop. A task is only interrupted where it
really suspends, so **an action of a model is what one task does from one
suspension to the next**: an `await` that cannot suspend (a future that is done,
a free lock) is inside an action, not between two. What can interleave at
suspensions are the clients' calls, the supervisor with its read loop, the
monitor of the cache, the handlers of notifications, and the outside: the
network and the PLC.

Contents: [inventory](#1-inventory), [modules](#2-modules-and-the-code),
[runs](#3-runs), [proofs](#4-proofs), [what TLC found](#5-what-the-runs-found-in-the-code),
[not modelled](#6-what-is-not-modelled), [plan](#7-plan).

## 1. Inventory

| Component (`src/aioads/`) | State it keeps | Operations | What is hard | What makes it correct |
|---|---|---|---|---|
| `BaseTransport` (`transport.py:87`) | invoke id, `_pending_requests` (id -> future), notification callback | `get_next_invoke_id`, `subscribe_request`, `_handle_response`, `cancel_pending_requests`, `cancel_task` | ids wrap; calls end by answer, loss, timeout or cancellation, in any order | a call gets its own answer or none; the table is exactly the calls in progress |
| `AdsTcpTransport` (`:195`) | `_state`, `_stream`, `_supervisor_task`, `_stream_lock` | `connect`, `disconnect`, `request`, `_supervise`, `_read_loop`, `_open`, `_teardown_stream` | a lock held across `drain()`, teardown racing senders, reconnects racing `disconnect()`, backoff | at most one connection and one connector; no write on a later connection; nothing left after `disconnect()`; losses are reported; no busy loop |
| MQTT transports (`:548`) | `remotes`, `remotes_initialized`, `_reader_task` (aiomqtt), a client library | the same interface | discovery by retained messages, subscriptions made at different times, a reader that ends silently, handlers in tasks of their own (gmqtt), clients that share one transport | a `connect()` that returned leaves a transport that can answer or a failure that shows, `remotes` follows the broker, a call that waits keeps what its answer needs until it is told or abandoned |
| `NotificationManager` (`ads_notifications.py`) | `_callback_handles` (handle -> callback) | `create_notification` (a context manager), `on_notification_received` | samples before registration, handles reused by the PLC, requests inside the read loop, contexts that outlive connections | no entered context gets the samples of another, and none is called for its own after its removal was confirmed; unowned notifications are removed |
| `AdsSymbolCache` (`ads_symbol_cache.py`) | `_cache`, `_cache_monitor_task` | two reads, `start_cache_monitor`, `stop_cache_monitor`, `_monitor` | reads in flight while the cache is cleared, batches and threads in between, restarts of the monitor | no entry older than the version the monitor knows; stopping and reading end |
| `AdsClient` (`ads_client.py`) | the parts above | `connect`, `disconnect`, reads by name, uploads, plain commands, subscriptions | lists of names, commands, answers and values that must stay aligned; partial errors; a symbol table that changes between two requests of a call | each name gets its own error or its own value; no call returns when the PLC has refused its request |
| Uploads (`functions/ads_symbol_upload*.py`, `ads_symbol_datatype_*.py`) | none | `execute`, `deserialize` | two requests; nested entries longer than what the code knows of them | what is returned is the table of the PLC |
| Sum commands (`functions/ads_sum_read*.py`) | none | `execute`, `deserialize` | batches; one answer cut into many results | result *i* belongs to command *i* |
| `AdsSymbolParser` (`ads_symbol_parser.py`), `AdsStream` (`stream.py`) | `_type_lookup`; a cursor | `parse`, `update_datatypes`; `read`, `seek`, `sub_stream` | gaps, nesting, arrays, types that are not uploaded, bytes that cannot be decoded | a part of a value is read at its place, and nothing beyond its bytes; only what cannot be read is refused |
| `DeserializeDispatcher` | none | `single`, `multiple` | a suspension that depends on the size of an answer | covered where it matters: in the cache |
| Commands | none | `request` | two places for an error | either one raises |
| Headers, addresses, error codes | none | pack, unpack | byte layouts | unit tests of the repository |

How they interact: `AdsClient` calls the cache, the sum commands and the parser;
all of these call `transport.request()`, which registers a future, writes, and
waits. The read loop of the transport resolves futures (`_handle_response`) and
awaits the notification callback (`_handle_request`), which may itself call
`request()`. A transport may be shared by several clients. `disconnect()` of a
client stops its monitor and closes the transport. The hazards of all this, each
at its line and with the properties that cover it, are listed in `PROJECT.json`.

## 2. Modules and the code

| Module | Role |
|---|---|
| `BaseTransport` | operators and variables of the invoke ids and pending futures; used by the transports |
| `AdsTcpTransport` | the TCP transport with network and PLC; the core of the project |
| `MqttTransport` | both MQTT transports with broker, network and PLCs |
| `RemoteCall` | the abstract specification of `ITransport.request()`; `AdsTcpTransport` and `MqttTransport` implement it |
| `QueueFacts` | lemmas about FIFO queues: append, take the head, leave from the middle |
| `AdsTcpTransportProofs` | theorems about the calls of `AdsTcpTransport`, and its refinement |
| `AdsTcpSupervisionProofs` | theorems about its connections, tasks and lock queue |
| `MqttTransportProofs` | theorems about `MqttTransport`, and its refinement |
| `ReconnectBackoff` | the timing of `_supervise()`, with a clock |
| `ReconnectBackoffProofs` | theorems about it |
| `NotificationManager` | subscriptions, table, frames and removals on an abstract transport |
| `NotificationManagerProofs` | theorems about it |
| `AdsSymbolCache` | cached lookups, batches, threads, the monitor |
| `AdsSymbolCacheProofs` | theorems about it |
| `AdsStream` | the bounds-checked cursor |
| `AdsSymbolParser` | the parser on a cursor, and its reference definition |
| `AdsSymbolUpload` | the tables of symbols and types, and how their entries are read |
| `AdsClient` | the requests of a client: lookup, sum read, cutting, parsing; uploads; plain commands |
| `AdsClientProofs` | theorems about it |
| `MC*` | instances for TLC: symmetry sets, type definitions, a constraint |

**AdsTcpTransport.** `state`, `stream`, `task` and `lockq` are `_state`,
`_stream`, `_supervisor_task` and the waiters of `_stream_lock`. `pc` says where a
client (in `connect()` or `disconnect()`) or a supervisor is suspended, `rpc` where
a call of `request()` is: queued for the lock, draining with the lock held, or
waiting for its future. `link`, `sent`, `inbox` and `executed` are the network and
the PLC. `TakeStream`/`TeardownStream`/`WaitClosed` are `_teardown_stream()` of
whoever runs it; `OpenSucceeds`/`PublishGranted`/`OpenFails` are `_open()`;
`ReadResponse`, `ReadNotification`, `ReadFails`, `FrameRejected` and the callback
steps are `_read_loop()` inside `_supervise()`. Cancellation is modelled where the
code cancels: `cancel_task()` of the supervisor in any of its suspensions, a
caller's cancellation of `connect()` and of `request()`. A `disconnect()` that waits for a
supervisor another client cancels ends with that cancellation, before it has reset
`_supervisor_task` (`ForgetSupervisor`). `accepted` is a history variable: the stream
when a call was registered.

**ReconnectBackoff** has the same supervisor seen with a clock in whole seconds:
`backoff`, `connected_at`, jitter as any value of its range, and a teardown that
takes up to `MaxTeardown`.

**MqttTransport.** One module for both classes, because they differ in the order of
a few steps: `library` says which it is. In `connect()` a client of aiomqtt waits for the
library's client to be entered (`Entered`), for its announcement to be published
(`Announced`) and for its subscription (`Opened`), and may fail at each; gmqtt does the last
two without waiting. `listening` is what the broker has subscribed for us;
`AdsAioMqttTransport` subscribes the answers in its reader task (`ReaderStarts`),
`AdsGMqttTransport` at the end of `connect()` (`Discovered`).
`found` is the future `remotes_initialized`, `remotes` the nodes that are thought to
be online, `retained` what the broker retains. A message is handled by the reader
(aiomqtt) or in a task of its own (gmqtt): `CanRead`. The reader ends with an error,
which its pending calls are told, or silently (`ReaderReturns`, `ReaderCancelled`), of
which nobody is told. `careful` says how callers behave: careful ones do not cancel
`connect()` and call it one at a time; the run has both kinds.
Two history variables serve the properties. `ready`: a `connect()` has returned since the
connection was opened, whatever had become of link and reader by then; a failure does not
reset it, `ConnectIsUsable` names the failures instead. `heard`: the calls that were accepted
with all in place for their answer and still wait; only the end of the call or the opening of
another connection takes one out. `AnswerAwaited` then says what each still has, and names the
calls nobody will tell (`Abandoned`): on gmqtt after a loss or a `disconnect()`, on aiomqtt
when the reader has returned or was cancelled. Those wait for `REQUEST_TIMEOUT`, and the
property permits it (section 5).

**NotificationManager.** `table` is `_callback_handles`, `plc` the PLC's own table.
A frame goes through `ReadSamples` (which handles are known), `Cleanup` (one delete
at a time, awaited), `Dispatch` and callbacks. `transport` is the class of the transport,
which differ in three ways. TCP and aiomqtt (`Serial`) read a frame only when the handler of
the one before has ended; gmqtt handles each in a task of its own. An exception of the
handler costs TCP the connection and with it the notifications in the PLC; on aiomqtt it ends
the reader only (`reading`), while the connection to the broker and the notifications stay; on
gmqtt it is logged. And a request without a connection is refused by TCP; the libraries of MQTT
refuse it or drop it. `link` is `cut` from a loss until the reader notices, which a handler
that is awaited delays; of what was on its way some may still be read. `Misread` is what an
old table entry does to the rest of a frame when its type has another size (`Shifts`): the
cursor is not set, so what follows may be read as any handle. A value that cannot be parsed
raises before the removals. The reader's silent return on aiomqtt is in `MqttTransport` only.

**AdsSymbolCache.** An entry is the version of the symbol table it was read from.
Reads send one batch after the other; an answer may be deserialized in a thread
(`Offload`), which is a suspension between answer and insertion. `Monitor` steps
are those of `_monitor()`, including the sleep in its `finally` clause. One owner
starts and stops it. Errors that the bulk read caches are entries like others.
`VersionMod` is 256 in the code, 4 in the runs, which change the table once.

**AdsClient / AdsSymbolUpload / AdsSymbolParser.** `call` is the operation a task has
called, `pc` the request it waits for. A byte is a record of the symbol it belongs to and
its position, so a result can be compared with the bytes it should be made of.
To `AdsClient` a type is its size, what it means, how it is parsed and which bytes the
uploaded definitions say how to read, which are CONSTANTS (`TypeSize`, `LayoutOf`,
`ParseType`, `Readable`); `MCAdsClient` gives them the parser and its
reference. To the parser a type is what is done with it: consume a number of bytes and decode
them, repeat an element, follow a definition. A scalar has a codec: `any` decodes all bytes,
`text` (strings) not those in `Illegible`, `none` is a type the code has no way to read (one
missing from `_struct_def`, a string without its length). An uploaded type that is missing
raises, and so do arrays of more than two dimensions. The entries of a symbol or type in
`Cryptic` cannot be decoded: a data type the enumeration does not know, a name or comment that
is no cp1252. The PLC answers a refused read inside a sum
read with as many bytes as were asked for, as `tests/unit/functions/test_ads_sum_read.py:129-146`
has it. Order of the names is any order, because a set is iterated. The symbol
table may change while a call waits for an answer; what is at an address whose
symbol has changed is anything. Types are uploaded at any moment or never. The
reference `Layout` computes a value from sizes and offsets alone, and `Decodable` says of
bytes whether each scalar in them, found the same way, can be read. A table of an
upload is a sequence of tokens, of which an entry has at least one: its header,
which tells its length, what the header announces (dimensions and fields, which are
entries themselves), and tokens the code does not know. Reading a header where there
is none raises. `verdict` is the answer of the PLC to a request as a whole: an error
in the AMS header, in the response, or neither.

These restrictions are on what the outside does; each is there because TLC
finds something when it is relaxed:

| Restriction | Meaning | Relaxed |
|---|---|---|
| `QuietClose` | `disconnect()` is not called during a connection attempt | `tcp_close_race` |
| `AloneSpec` (a specification) | while a client is inside `connect()` no other is inside `connect()` or `disconnect()` | `SingleConnection`, `OneConnector`, `WrittenWhereAccepted` and `QueuedFindsStream` fail, already when a client connects during another's `disconnect()` |
| `MaxTeardown` | how long a teardown takes | `backoff_slow_teardown` |
| `EarlySamples` | the PLC samples a handle before the subscriber has its answer | `notif_early_sample` |
| `ReuseHeld` | after a reconnect the PLC hands out a handle an old context still holds | `ActiveIsSubscribed` fails: leaving the old context deletes the new notification |
| `Shifts` | the symbols of a reused handle differ in size | with three subscriptions `ActiveIsSubscribed` and `DeliveredToOwner` fail: a sample is taken for another handle's, or the notification of an entered context is removed as unknown |

## 3. Runs

Passing runs (all states explored; sizes are distinct states):

| Run | Instance | Shows |
|---|---|---|
| `tcp_supervision` (150 thousand) | 2 clients that connect alone, 3 calls, 2 ids, 2 connections, 2 supervisors, symmetry | safety of the transport and the refinement of `RemoteCall`, under `QuietClose` and `AloneSpec` |
| `tcp_shared` (891 thousand) | 2 clients that open and close at any time, 2 calls, quiet network | the table of pending requests is exactly the calls in progress |
| `tcp_liveness` | 1 client, 2 calls | losses are reported, `disconnect()` returns, reconnects go on |
| `backoff` | 20 seconds, backoff 2 to 6, threshold 4 | spacing and exponential growth of attempts |
| `mqtt` (724 thousand) | both libraries, careful and careless callers, 2 clients, 2 calls, 1 PLC whose info may be retained already and changes once, symmetry | a `connect()` of careful callers that returned leaves a transport that works or a failure that shows, discovery does not wait in vain, `remotes` follows the broker, an accepted call keeps what its answer needs until it is told or abandoned; the refinement of `RemoteCall` |
| `notif` (495 thousand) | 2 subscriptions over 2 handles, 2 frames, limit 1, TCP, aiomqtt and gmqtt | on TCP and aiomqtt entered contexts keep their notification, none gets the sample of another, and none is called for its own after its removal was confirmed; an unknown handle alone in a frame is removed; leaving a context ends; on gmqtt a delete made in a handler is answered |
| `cache` (231 thousand) | 2 readers, 2 names, batches of 1, threads, one change | no stale watched entry, stale entries are dropped, reads and stopping end |
| `client_read` (935 thousand) | 3 names (one of them of 2 types or none), 10 types or none, batches of 2, texts, symbols and types that cannot be read, one change of a symbol a call was told of | each name gets its own result, whatever becomes of the others; uploads are faithful; data is refused only for an entry that cannot be decoded, a table that changed, or a value there is no way to read |

Violation runs are in section 5.

**Bounds and why they are enough.** Two invoke ids for three calls make ids wrap
and be reused while old answers are on the wire, which is what the 32-bit counter
does after a long time; `IdFree` bounds this to fewer calls in progress than ids
(the code has 2^32 - 1 ids, and calls end after `REQUEST_TIMEOUT`). Two
connections and two supervisors are the present and the one before; closed ones
are reused, so runs are not limited to two reconnects. Three calls fill the lock
queue behind a blocked `drain()`. Two clients make one `disconnect()` overlap
another, in the queue of the lock, in the teardown and while both wait for the
supervisor. Two subscriptions, two handles and two frames
force the reuse of a handle whose table entry was never removed, a frame that is
handled while contexts come and go, and two removals of one handle; with a limit of
one, two contexts are still entered at a time, because both pass the check first.
In `mqtt` two clients make every pair of `connect()` and `disconnect()` overlap, two
ids for two calls are reused after a call has failed, and one further info
message makes a PLC go offline, come back or send nonsense. One change of the symbol
table with two readers of two batches puts the change before, between and after
all the requests. Three names in batches of two make a full and a partial batch.
The horizon of the backoff run lets the delay reach its cap and be reset.
`tcp_shared` uses `QuietEnvironment` (no execution, no cut) because its question
is the lock queue when clients close and reopen behind it; `tcp_supervision` has
the network. In `client_read` a change makes a symbol vanish or become a `blob`, whose
size differs from that of the others; the types have one to three levels, gaps,
arrays of one, two and three dimensions, texts that are legible for some symbols only, an
alias, a type without a decoder and one whose symbols cannot be decoded, and unknown parts
behind every entry. `Tables` bounds the tables there may be at first: one of the three symbols
has only the plainest types. No type definition is `Cryptic` in the run, because its upload
would then never succeed; the theorem has them.

**Fairness.** `tcp_liveness`: the event loop runs what is ready; `open_connection()`
is under `asyncio.timeout(CONNECT_TIMEOUT)`; drains and closes end because the
kernel bounds unacknowledged data (`TCP_USER_TIMEOUT`, set in `_enable_keepalive`),
and a dead peer is noticed by keepalive; the user's callback ends. Nothing is
assumed of the PLC, of attempts that succeed, or, directly, of `REQUEST_TIMEOUT`. The user's
callback is the manager's handler, though, and one that removes an unknown handle inside the
read loop of TCP ends only by `REQUEST_TIMEOUT`: how soon a loss is reported then depends on
that. `notif` adds that the PLC answers what reaches it and that a reader notices a loss, and
uses the request timeout where nobody else ends the wait: for a handler on TCP or aiomqtt,
which waits for an answer that its own read loop would have to read, and on MQTT for a
subscriber whose request or answer was lost (`Lost`), since nobody may tell it.
`cache`: the PLC answers, and a monitor that polls for ever has an answer again and
again. `notif` turns the deadlock check off: a system whose frames and
subscriptions are used up has stopped. So does `mqtt`: calls are used up, and a client
may wait in `connect()` for ever when another one disconnects. `mqtt` claims no
liveness: nothing but a timeout of the caller ends that wait, so `DiscoveryComes` is
stated as what must be on its way while connection and reader last. All weak fairness is of steps that stay
enabled until taken, except `PollsSucceed`, an assumption about the connection.

**Which properties are the hard ones.** `WrittenWhereAccepted` depends on the FIFO
order of the lock and on the test of the state before a call queues (the mutant
`Request_AnyState` lets a call queue behind the publication of the next connection). `NoOrphanedRequest` relates a waiting
call to the stream and the task that reads it. `DisconnectLeavesNothing` and
`OneConnector` depend on awaiting the supervisor in every state it can be
cancelled in. `NoStaleWatchedEntry` says precisely which entries the version
monitor protects: those requested while it knew a version, in one batch, stored in
the step that read the answer; the other entries can be stale (section 5).
`OwnResult` quantifies over every mixture of missing, refused, cached, changed and
good names. `RemotesFollowBroker` relates `remotes` to the broker over reconnects, lost
connections and messages in flight; `AnswerAwaited` relates a waiting call to the
subscription, the reader and the answer over the whole of its wait, and fails if pending
calls are not told when the reader ends with an error. `ActiveIsSubscribed`, `DeliveredToOwner` and
`CallbackInScope` are stated of TCP and aiomqtt: on gmqtt they do not hold (section 5). The
last two are about entries that stay in the table for ever. A notification whose subscriber
failed may be sampled under an old entry, and that sample goes to the old callback;
`DeliveredToOwner` says that the old context has been left then, so no context that is still
entered gets what is not its own. `CallbackInScope` is about samples of one's own
subscription, and ends with the confirmed removal: a context that is left by a timeout may be
called back after it.
`DataFits` lists every reason for which data may be refused, and the model has the error paths
of the decoders, of the enumeration and of the type lookup, so it fails for any further one.
`QueuedFindsStream` says that a call that queues for the lock finds the stream it was
accepted for when its turn comes, so that while clients connect alone the branch at
`transport.py:395` for a stream that has gone is never taken. `ReopensAtOnce` is about the
other end of that queue: were a supervisor to wait for the lock between opening a
connection and publishing it, `disconnect()` could cancel it there and leave the
connection open.

Every property of a passing run has a mutant: an operator next to the definition
it changes, as a plausible bug would (a dropped `finally`, a lost guard, an
off-by-one), for which TLC finds the property violated.

## 4. Proofs

A theorem holds for any sets of calls, clients, supervisors, connections,
subscriptions, handles, readers, names and types, any definitions of types, any batch
size and any number of ids; the assumptions
are the named ones of the modules (disjoint sets, `None` outside of them, and for the
backoff `Initial <= MaxBackoff` and `Initial <= Threshold`) and the hypotheses below.

| Module | Theorems | Hypothesis |
|---|---|---|
| `AdsTcpTransportProofs` | `TypeCorrect`, `OwnResponseAlways`, `RegistrationExact`, `ImplementsRemoteCall` from `CallInvariant` | none |
| `AdsTcpSupervisionProofs` | `OneConnectorAlways`, `WrittenOnAccepting`, `QueuedCallsFindStream`, `ReconnectsAtOnce` from `ControlInvariant` | `AloneSpec` |
| | `OneConnectionOpen`, `CallsAreRead`, `NothingLeft`, `ClosedUntilConnect` from `CalmInvariant` | `AloneSpec`, `QuietClose` |
| | `OneClientConnectsAlone`: `Spec => AloneSpec` | one client |
| `MqttTransportProofs` | `TypeCorrect`, `RemotesFollow`, `DiscoveryAlwaysComes`, `UsableOnceConnected`, `OwnResponseAlways`, `AnswerAlwaysAwaited`, `ImplementsRemoteCall` | none; both libraries, careful callers and careless ones |
| `NotificationManagerProofs` | `TypeCorrect` | none |
| | `ActiveStaysSubscribed`, `SamplesReachOwner`, `CallbacksInScope` | `OrderlyPlc`: no early samples, no reuse of held handles, no shifts |
| `AdsSymbolCacheProofs` | `TypeCorrect` | none |
| | `WatchedEntriesFresh`, and `FewChangesFresh` from it | `ChangesSlowly`: fewer than `VersionMod` changes between two reports to one monitor |
| `AdsClientProofs` | `TypeCorrect`, `OwnResultAlways` from `ClientInvariant`; `UploadFaithfulAlways`, `DataFitsAlways` from `ListInvariant` too | the contract of the parser: `ParserAssumption`, and for `DataFits` also `CompleteAssumption` |
| `ReconnectBackoffProofs` | `BackoffBounded`, `NoBusyLoop` | none, however long teardowns take |
| | `ExponentialBackoff` | teardowns take no time; the law of powers of two |

No hypothesis is for convenience: without `AloneSpec`, `QuietClose`, `OrderlyPlc` or
instant teardowns TLC finds a property of theirs violated (sections 2 and 5), and 256
changes between two polls look like none. The last hypothesis of
`ExponentialBackoff`, `PowersDouble`, is a law of arithmetic for which the provers
have no axiom.

**Calls (`CallInv`).** `OwnResponse` is not inductive: that `_handle_response` resolves
the right future says nothing unless ids on the wire are known. `CallInv` adds
that (a) ids of calls that are in progress **or still on the wire** are distinct
(`DistinctIds`), (b) where a call is tells how often it has been executed: not at all
while unsent or on its way, once when its answer is on its way (`WireInv`), (c) a
task that reads or publishes holds a connection (`HoldsConnection`), so that what
it reads is some connection's inbox, and (d) the table is exact
(`RegisteredWhileOutstanding`). Most actions touch none of the variables of (a),
(b) and (d); lemma `QuietInv` disposes of them at once, and the rest have one lemma
each. The refinement needs exactly `CallInv`: `Return` of `RemoteCall` requires one
execution, which (b) gives. The calls over MQTT have an invariant of the same shape.

**Connections (`ControlInv`, `CalmInv`).** `ControlInv` holds for any number of clients
that connect alone; they may disconnect at any time, several at once. A single client
always connects alone (`OneClientConnectsAlone`), so for it there is no condition. It says
that the one supervisor that runs is `_supervisor_task`, and none does while a client opens
(`TaskInv`); that the queue of the lock has exactly those who wait for it, each once
(`QueueInv`); that calls queue only while `CONNECTED` and tasks only while not, so no
call is behind a task (`OrderInv`); that who reconnects finds the lock free and never waits
to publish, and whoever tears down for `disconnect()` does so while `CLOSED`
(`ReopenInv`); and when there is a stream (`StreamInv`). So nobody can publish another
stream before a call that is granted the lock: it is written where it was accepted.
That a reconnect need not wait is what lets `disconnect()` calls overlap: the lock is
busy only behind a sender or a teardown, and by the time the supervisor opens again its
own teardown has emptied the queue and no call may join it. A second `connect()` breaks
this, as it publishes a stream behind the first one's back; so does a `connect()` during a
`disconnect()`, whose teardown then runs in another state than `CLOSED`.
`CalmInv` adds what holds if `disconnect()` does not come during an attempt to connect:
while `CLOSED` nobody opens (`ClosedInv`); a stream has a reader or somebody who tears it
down, and an open link is the stream (`ReaderInv`); a call that is still to be told is
of the present stream (`FutureInv`); and `disconnect()` leaves nothing (`LeftInv`).

**MQTT.** Three invariants apart from that of the calls: who opens and closes the
connection and what is subscribed on it (`SessionInv`); the last info on its way about a
PLC is the one the broker retains, and without one `remotes` says the same (`InfoInv`,
for `RemotesFollowBroker`; `OwnInfoInv` for `DiscoveryComes`); and, for careful callers,
that the answers are subscribed unless a `connect()` or the reader has yet to do it
(`ReadyInv`). That a `connect()` has returned is all its proof has of the history: that link
and reader last is in the statement of `ConnectIsUsable`, where a caller can see it.
`HeardInv` then keeps what an accepted call needs (`AnswerAwaited`), through the end of the
connection and of the reader.

**Notifications.** On any transport, a subscription has at most one request or answer on
the wire, of the kind it waits for (`WireInv`). On TCP and aiomqtt the invariant joins: one
handler at a time, whose removal is never answered while it runs (`HandlerInv`); a handle has
one owner, entered or with the handle in an answer on its way, and the PLC
knows no other (`ClaimInv`, `PlcInv`); a sample on the wire is of a subscription that has
not left its context, or has failed, and not behind the confirmation of its removal
(`SampleInv`); and whom a callback was called for (`CalleeInv`). That answers and samples share
one ordered connection is the heart of it. When only the reader ends, on aiomqtt, requests are
still on their way and the PLC goes on, so these conjuncts cannot rest on everything being
reset, as they could after the loss of a TCP connection.

**Cache.** `NoStaleWatchedEntry` needs the order of answers: along the way from the
monitor to the PLC versions only rise (`OrderedInv`: the version told to the monitor,
those in answers to be read, the PLC's), and that only reads in their first batch are
watched, while a version is known (`WatchInv`). A new report that looks like the one
known is the same version, by lemma `SameReport` about remainders; any other
clears the cache. `TypeCorrect` carries `FlightInv`: each task has one request or
answer on its way, so that what is withdrawn is all there is.

**Client.** Four arguments. (a) *Cutting*: the recursions that add up lengths and
concatenate parts are characterised by induction over numbers (`SetInduction`, from the
well-foundedness of `<`), so that what is cut out of an answer is the part that was
put in for that command, whatever the others are (`FlattenFacts`, `LookupFacts`, `DataFacts`).
(b) *Batches*: results so far, the batch under way and the commands to come are the
readable names in their order (`AlignedInv`); each result is the refusal or the bytes of
its name, or, after a change of its symbol, other bytes of the same type (`AnswersInv`); and
what the lookup found of a name is what the PLC has, unless that has changed
(`FoundInv`). `OwnResult` alone is not inductive: it says nothing until a call returns.
(c) *Tables*: an entry is read as what it describes wherever it is, because the cursor is moved
by the entry's own length, not to where the last field ended (`SymbolAt`, `FieldAt`, `TypeAt`);
entries are never empty, so a table is read as its entries, and the beginning of one as its
first entries or not at all (`UploadFacts`, `SymbolsUploaded`, `TypesUploaded`). The
latter also says that `update_datatypes()` then has the PLC's definitions.
(d) *Sizes*: as much is asked for as the table has, unless it changes (`UploadInv`), so of
all requests only those that meet a change, an entry that cannot be decoded or a value that
cannot be read can fail for their
data (`FitsStep`, one lemma for each action). A type is known to these proofs by its size and
its meaning only: `ParserAssumption` says that parsing does not succeed with another
value than the type means, `CompleteAssumption` that it succeeds on bytes which the
definitions uploaded so far say how to read (`Readable`): nothing is assumed of strings that
are no text, of types without a decoder, of aliases or of arrays of three dimensions. TLC
evaluates both for the parser itself, on the types of `client_read`, with `Decodable` as
`Readable`.

**Backoff.** `NoBusyLoop` is proved from an invariant that relates the phase, the time
of the last attempt, and the time of waking; the case of a stable connection uses
`Initial <= Threshold`. `GrowthInv` adds that the backoff covers the delay of the
next failure, which doubling preserves (`DoubledCovers`).

Each inductive invariant was checked by TLC on an instance before it was proved.

*Only model-checked:* liveness (`LossIsReported`, `DisconnectCompletes`,
`KeepsReconnecting`, `UnknownRemoved`, `ExitCompletes`, `CleanupAnswered`,
`StaleIsDropped`, `ReadCompletes`, `StopCompletes`), because fairness and `ENABLED`
are outside the prover; and that the parser meets its contract, that is, agrees with
`Layout`: both recurse over the structure of a type, which needs `RECURSIVE` operators and
induction over data. Every safety property of a passing run is a theorem.

## 5. What the runs found in the code

| Run | Line | What happens |
|---|---|---|
| `tcp_close_race` | `transport.py:311` | `_open()` sets `CONNECTED` without looking: after a `disconnect()` that came during the attempt the transport is connected again |
| `backoff_slow_teardown` | `transport.py:444` | uptime is taken after the teardown, whose duration counts as uptime: a short-lived connection resets the backoff |
| `notif_early_sample` | `ads_notifications.py:156` | the first sample overtakes the registration, the handler deletes the new notification as unknown, and the context gets no samples |
| `cache_restart` | `ads_symbol_cache.py:109` | a monitor that starts takes the first version as its baseline and keeps entries of an older one |

Other observations, made while modelling, without a run of their own:

- Two clients that call `connect()` of a shared transport before the first has
  created the supervisor open two connections (`transport.py:275`). A call queued for
  the lock while the second is published is then written on it, and the first is
  never closed. A `connect()` during another client's `disconnect()` does the same:
  the supervisor of before is still there, and `disconnect()` then tears down the new
  stream or forgets the new supervisor. The safety of connections is that of clients
  that connect alone (`AloneSpec`).
- Two clients that call `disconnect()` at once both wait for the supervisor; when one
  of them cancels it after five seconds, `CancelledError` leaves the `disconnect()` of
  the other (`transport.py:185`, suppressed only at `:188`), which nobody has cancelled.
- `create_notification()` checks the limit, then awaits two requests, then inserts
  (`ads_notifications.py:191-199`): concurrent subscribers can exceed it. Entries are
  never removed (`:199`), so the limit counts handles ever used.
- A context that is left after a reconnect deletes by a number which may belong to
  another notification by then (`:203`); see `ReuseHeld`.
- On TCP and aiomqtt the removal of unknown handles (`:156`) waits for an answer
  that only the blocked read loop could read, until `REQUEST_TIMEOUT`. On TCP the connection
  then ends, and with it all notifications; on aiomqtt the reader ends (`transport.py:768`)
  and is not started again until the transport is connected anew, and of several unknown
  handles in a frame only the first has been removed.
- An old entry of the table whose type has another size than the present symbol's moves the
  cursor to a wrong place (`ads_notifications.py:146`, the cursor is not set by
  `sample_size`): the samples behind it in the frame are misread, as those of other handles
  or of none (`Shifts`).
- The sample of a notification whose subscriber failed is given to an old callback if the
  handle was used before (`:139`, `:175`).
- A subscriber that is cancelled while the PLC creates its notification leaves it
  to that cleanup (`:195`).
- On gmqtt handlers run in tasks of their own, so a callback can run after its
  context was left. Two frames of one unknown handle are both removed, and the
  second deletion can hit a notification that got the handle meanwhile. And with three
  subscriptions a sample can reach another subscriber: a handler that suspends for a
  removal (`ads_notifications.py:151-176`) looks its callbacks up afterwards, when the
  handle may have been deleted and given out again.
- A second client on a shared transport replaces the notification callback of the
  first (`ads_notifications.py:67`): the contexts of the first get no samples, and their
  handles are deleted as unknown.
- MQTT: `connect()` that is cancelled while it waits for the first info cancels
  `remotes_initialized` for every client and for ever (`transport.py:682`). On aiomqtt
  one that fails after the library's client was entered leaves it entered, so that the
  next `connect()` raises (`:667`); and `connect()` returns at once when the reader task has
  ended (`:664`). On gmqtt a second client's `connect()` returns while the first is still
  in discovery, before the answers are subscribed (`:888`).
- MQTT: calls that wait are told of a lost connection only where the reader of
  aiomqtt ends with an error. On gmqtt nothing calls `cancel_pending_requests()`, neither on a
  loss nor on `disconnect()`; on aiomqtt a reader that gets something else than a publication
  returns (`transport.py:744`) while the connection stays up, and one that `disconnect()`
  cancels (`:696`) tells nobody either. These calls, and those made afterwards, end after
  `REQUEST_TIMEOUT` only (`Abandoned`).
- MQTT: an info message that cannot be parsed resolves `remotes_initialized` and then raises
  (`transport.py:760-761`). On aiomqtt `connect()` then returns with a reader that has ended,
  and every later `connect()` returns at once as well (`:664`).
- An upload is two requests (`ads_client.py:188-196`). When the symbol table changes in
  between, the call raises or, if the cut falls between two entries, returns a part
  of the table.
- A symbol that changes between lookup and read gives whatever is at its old address,
  parsed as the old type (`ads_client.py:244`); types are uploaded on `connect()` only
  (`:140`), so values are parsed with the types of that time.
- A read whose answer is deserialized in a thread can insert its entry after the
  monitor has cleared the cache (`ads_symbol_cache.py:152`).
- `connect()` that is cancelled leaves `CONNECTING` behind (`transport.py:281`).
- The parser consumes the bytes of an alias of another type and then parses what
  follows them (`ads_symbol_parser.py:264-271`), and reads a named array of several
  dimensions dimension after dimension instead of as their product (`:248-262`). The
  module has both branches; the types of `client_read` leave them out.
- One value that cannot be parsed makes a whole bulk read raise, with `raise_errors`
  off too (`ads_client.py:352`): a string that is no cp1252 or utf-16
  (`ads_symbol_parser.py:97-98`, `:116`), a data type missing from the table (`:77`), a plain
  `STRING` without a length (`:90-93`), an array of three dimensions (`:217`). In the same way
  one entry whose data type the enumeration does not know, or whose name is no cp1252, makes
  a whole lookup or upload raise (`ads_symbol_info_by_name_ex.py:121-133`,
  `ads_symbol_datatype_by_name.py:189`).

## 6. What is not modelled

- Byte layouts, encodings, headers, error code tables, logging: stateless, and
  covered by the repository's unit tests. `write_state` and `read_device_info` are called
  by nothing in the client.
- What numbers and strings are decoded to: a value is the bytes it is decoded from. Whether
  they can be decoded is modelled.
- The silent return of the reader of aiomqtt in the model of notifications; a subscriber
  then waits for `REQUEST_TIMEOUT`, as it does there for a request that was lost.
- Reconnecting by the MQTT libraries themselves, and two clients inside the library's
  own `connect()` at once: what happens then is the library's.
- Two notification managers on one transport (the observation above needs no
  interleaving); type definitions that change in the PLC.
- The number of bytes from which an answer is deserialized in a thread; the cache has
  both cases.
- The six hours after which cache entries expire are a nondeterministic expiry.

## 7. Plan

Done, in this order: transport and abstract call; proofs of the call invariant and
the refinement; backoff with proofs; notifications; cache; client reads and parser;
the MQTT transports; uploads, plain commands and changes of the symbol table; proofs of
the safety of connections, MQTT, notifications and the cache, and of the backoff; the
safety of connections for any number of clients that connect alone; proofs of the
client's reads and uploads. What is left:

1. Abstract specifications of a subscription and of a cached lookup, with
   refinements and their proofs.
2. Two managers on one transport, and the order of steps in `AdsClient.connect()` and
   `disconnect()`.
3. A run for the parser's alias and array cases.
