# Mio_Billy: a TLA+ verification project

Mio (Sensor Andrew) connects sensors and actuators to an XMPP publish-subscribe
server. Its core is libMIO (`src/libs/c/libMIO`), a C library that turns the
vendored, single-threaded libstrophe into a blocking, multi-threaded client
interface. Every other part of the repository (adapters, services, tools)
talks to the server through it. This project models the concurrent core of
libMIO, its operations on shared items (schedules, references, meta data) and
the one adapter that has concurrency of its own (BACnet), model-checks them on
small instances and proves their main safety properties for every instance.

## 1. The system

### Threads and shared state

One `mio_conn_t` is shared by

- the **event thread** `_mio_run`, spawned detached by `mio_connect`. In every
  round it locks `event_loop_mutex`, calls `xmpp_run_once` (flush the send
  queue, `select`, dispatch handlers), unlocks, and sleeps until a send request
  or a short timeout;
- any number of **application threads**: they connect, send requests and wait
  for the answer, publish, receive, listen, disconnect.

| state | protected by | read or written without it |
|---|---|---|
| libstrophe's send queue, handler lists | `event_loop_mutex` | `mio_listen_start/stop`, `mio_disconnect`, `xmpp_id_handler_delete` on every timeout path |
| `conn_predicate` | `conn_mutex` | the reset at the end of `mio_connect` |
| `mio_request_table` | `mio_hash_lock` | the requests it points to |
| `request->predicate` | `request->mutex` | the loop conditions of `_mio_send_blocking` and `mio_pubsub_data_receive` |
| `mio_open_requests` | a semaphore | - |
| `pubsub_rx_queue`, its length | `pubsub_rx_queue_mutex` | the length, in `_mio_pubsub_rx_queue_enqueue` and the receive loop |
| `loop_status`, `authenticated` | nothing | everywhere |

Two further kinds of sharing have no lock in the program at all:

- **items at the server.** `mio_schedule_event_*_publish`, `mio_reference_*` and
  `mio_meta_*_publish` read an item with a blocking query, edit the copy and
  publish it whole; two clients, or one client whose timed-out publication
  arrives late, work on the same item;
- **the BACnet stack.** `bacnet_data` and `bacnet_actuate` take turns with
  `mio_lock`, and share `request_invoke_id`, `error_detected`, `value`,
  `target_address` and `elapsed_seconds` with the handlers the stack calls.

### Components

| component | state | operations | what makes it correct | module |
|---|---|---|---|---|
| connection (`mio.c`, `mio_handlers.c`) | link state, mutexes, predicate, handler data, send queue | `mio_connect`, `_mio_run`, `mio_handler_conn_generic`, `mio_listen_start`, `mio_disconnect` | the verdict of `mio_connect` is right and always comes; handler data outlives its users; disconnect ends both thread and link | `MioConnection` |
| blocking requests | request table, semaphore, id handlers, one request per call | `_mio_send_blocking`, `_mio_send_nonblocking`, `_mio_request_*`, `mio_handler_id_add`, the id handlers | no slot, entry or handler leaks; OK means answered; calls return | `MioRequest` |
| pubsub receive queue | bounded list, length, listening flag, the request `pubsub_data_rx` | `mio_pubsub_data_receive`, `_listen_start`, `_listen_stop`, `_rx_queue_clear`, `mio_handler_pubsub_data_receive` | order, bound, no duplicate; a receiver is not left waiting | `MioPubsubRx` |
| schedules (`mio.c` 458-793) | event list of a node; an event's id is its position | merge, remove, renumber, conversion, query and publish | ids stay positions; what is stored is one edit of one schedule the node has had | `MioItems`, `MioSchedule`, `ScheduleItem` |
| references (`mio.c` 5833-6205) | reference lists on two nodes, each entry with the other node's meta type | `mio_reference_child_add`, `_child_remove`, `_mio_reference_meta_type_overwrite_publish` | one entry per node; both ends and the repeated types agree when nothing interferes; operations end | `MioItems`, `MioReferences` |
| meta data (`mio.c` 2999-3570, 6534-6927) | meta item of a node: type, texts, location, transducers, properties | `mio_meta_merge_publish`, `mio_meta_remove_publish`, `mio_meta_geoloc_remove_publish` and the functions under them | a name means one thing; an update does what it says and nothing else; it can be repeated; the type reaches the nodes that repeat it | `MioItems`, `MioMeta`; the type in `MioReferences` |
| BACnet adapter (`adapters/src/bacnet_adapter.c`) | lock, request id, error flag, value, binding, clock | `publish_data`, `write_bacnet_obj`, the handlers | transactions are freed; a value belongs to its object; errors stay with their operation; operations end | `BacnetAdapter` |
| result handlers and XML parser (`mio_handlers.c` 177-1384) | the response under construction | expat callbacks | the response says what the stanza says | partly: control in `MioRequest`, results in `MioSchedule`, `MioReferences` and `MioMeta` |
| stanza builders and queries | none | about forty | they follow the path of `MioRequest` | not modelled |
| libstrophe, bacnet-stack (vendored) | loop, queue, handler lists; transaction table, address cache | as libMIO and the adapter call them | - | inside the modules above |

Not modelled, and why:

- **ipc multiplexer** (`services/ipc`): an unfinished prototype.
  `_distribute_message` writes to, and `_mio_handler_read` reads from, a
  listening socket that is never connected, and messages of the server are
  printed and dropped, so nothing is routed. What is left is one thread that
  registers processes; it returns with `register_mutex` held when its second
  `accept` fails (`multiplexer.c` 217-222) and then waits for itself;
- **the other adapters** (`adapters/src`): `modbus_actuate`, `pup_actuate` and
  `pup_data` are started with an `adapter_t` and take it for a structure of
  their own (`modbus_adapter.c` 182, `pup_adapter.c` 129), so that nothing
  follows from their code; `token_passer` is never started; the threads of the
  hue and enfuse adapters read tables that are fixed after parsing and use
  libMIO; `s2sim.c` holds unresolved merge conflicts;
- **meta_tool, the registration and command line tools, quickset, datastore**:
  sequential clients, process start-up and I/O;
- **the web portal**: framework code and views;
- **`adapters/drivers`, libexpat, XMPPFramework, bacpypes, Laravel and other
  vendored code**: third party. It is most of the repository (the BACnet stack
  alone is several times the size of libMIO), so the modelled part is a small
  share of all lines although it is the program's own core logic.

### What is hard here

Condition variables whose predicates are tested outside their mutex; cleanup
that races the event thread; a timeout racing a late answer; a lost link that
leaves `authenticated` set; a semaphore at its limit; teardown while calls are
under way; a queue whose length is read before its mutex is taken; items that
are read, edited and written back while others do the same; publications that
arrive after their call has timed out; operations over several items that fail
in the middle; UDP packets that are lost, late or repeated, matched to requests
by an id that is used again; a flag that one operation sets and another one
reads. The list,
with the line where each bites and the properties aimed at it, is `hazards` in
`PROJECT.json`.

## 2. The modules

| module | role |
|---|---|
| `MioConnection` | the event thread, `mio_connect`, `mio_listen_start`, `mio_disconnect` and the link |
| `MioRequest` | extends it with any number of calls of `_mio_send_blocking` and the server; composes with the event thread at `event_loop_mutex`, `conn_mutex`, the send queue, the tables and the condition variables |
| `BlockingCall` | what a blocking call promises: bounded admission, and success only when answered |
| `MioPubsubRx` | receivers, event thread and a control thread around the receive queue |
| `RxChannel` | what the queue promises: a bounded, ordered channel that may give up its oldest item |
| `MioItems` | items at the server, publications under way, and what a client hears of them; used by the next four |
| `MioSchedule` | the schedule operations of several clients, and the list functions under them |
| `ScheduleItem` | what they promise: each stored schedule is one edit of one schedule the node has had, described by its effect on each event |
| `MioReferences` | reference and meta type operations of several clients, query by query and publication by publication |
| `MioMeta` | the contents of meta items: merges and removals of several clients, element by element, with the conversion to the stanza and the reading of it |
| `BacnetAdapter` | both threads of the adapter, the stack's transaction table and address cache, the devices and a network that loses, delays and repeats packets |
| `MCConnection`, `MCRequest`, `MCPubsubRx`, `MCSchedule`, `MCReferences`, `MCMeta`, `MCBacnet` | instances for TLC, symmetry sets |
| `MioConnectionProofs`, `MioRequestProofs`, `MioPubsubRxProofs`, `MioScheduleProofs`, `MioReferencesProofs`, `MioMetaProofs`, `MioMetaUpdateProofs`, `BacnetAdapterProofs` | theorems and proofs |

Conventions. Variables carry the names of the C fields. A thread's program
counter names the statement it is at; one action runs from one visible
operation (lock, unlock, wait, unlocked read or write of shared state) to the
next. A critical section that nothing else can observe is one action: the
table operations under `mio_hash_lock`, `_mio_cond_signal`, the queue
operations under `pubsub_rx_queue_mutex`. A mutex is its owner; for
`request->mutex` only the one state in which somebody else has to wait for it
(`timedout`) is kept. An operator whose comment starts with "Mutant:" is not
part of the model: it is a wrong variant of the operator that follows it, used
to show that a property can fail.

How the state corresponds:

- `run` is where `_mio_run` is: `start`, `timed` (before the loop), `loop`,
  then inside the mutex `once`, `setrunning`, `flush`, `select`, the connection
  handler (`report_*`, `broadcast`), a stanza handler (`get`, `parse`,
  `signal`, `unhook`), `unlock`, and `sleep`.
- `app` is where the thread of `mio_connect` and `mio_disconnect` is;
  `connectRet` what `mio_connect` returned (`predicate` is
  `MIO_ERROR_PREDICATE`).
- `shd` and `connResponse` say whether the heap objects are allocated; the
  model goes on after a use of freed memory, in the way the code does when the
  memory still holds its old contents.
- `pc[c]` is where call `c` is in `_mio_send_blocking`; `c` is also the id of
  its stanza. `table`, `id_handlers`, `open_slots`, `request`, `predicate` are
  the C objects. `sent` and `replies` are the server and the wire (external).
- in `MioPubsubRx`, `request` numbers every `mio_request_t` that listening
  allocates and `rx_entry` is the one in the table. Reading the predicate of a
  freed request gives any value.
- in `MioItems`, `item` is the server's contents, `sent[c]` the publications of
  client `c` under way and `answer[c]` what it heard of the last one. A blocking
  call is reduced to its outcomes in `MioRequest`: answered, refused, timed
  out (and stored later all the same), disconnected.
- in `MioSchedule`, `work` is the list a call edits, `base` what its query
  returned; `versions` and `stored` are history. A repeated call starts from
  the caller's own event structures, which an earlier attempt has renumbered.
  Six of the seven recurrence elements are treated alike and are one element,
  `bymonth`; `byday` is the seventh, because the conversion treats it
  differently.
- in `MioReferences`, `pc` names the query or publication that comes next,
  `refs` is `parent_refs`, `todo` the references whose nodes still have to be
  told, `out` the publication and what follows it; `start` is history, NULL as
  soon as something failed or interfered.
- in `MioMeta`, `work` is `query_meta`, `next` and `prop` are the positions of
  the loops over what the caller gave, `at` is `query_transducer`; `old` and
  `stored` are history. Texts and numbers are model values. Members that are
  merged, written and read alike are one member: `text` for name and info of
  the device, `unit` for nine attributes of a transducer and its enumeration
  map, `region` for all of a location but accuracy and altitude. `Garbage` is
  a region whose pointer leads to another structure.
- in `BacnetAdapter`, `dpc` and `apc` are where the two threads are; one action
  is one round of a polling loop up to the packet, or the packet. `tsm`,
  `current` and `cache` are the stack's tables, `second` says whether
  `time(NULL)` has moved on, `elapsed` is `elapsed_seconds`. A packet carries
  the id and the object it is about; `decoded` and `lost` are history: whether
  the answer to the request under way was decoded, and whether one of its packets
  was lost.

Abstractions. Stanza contents, ids, logging, and the user's connection
callback are left out. `xmpp_run_once` handles at most one of its events at a
time and returns when it likes. An unlocked append to the send queue while the
event thread unlinks items either succeeds or is lost. Allocation and
`pthread_mutex_lock` do not fail. The build is the repository's:
`MIO_CONNECTION_RETRIES` is 0, so the reconnect branch of
`mio_handler_conn_generic` is dead. The keepalive handler is called with a
`mio_conn_t` in place of an `xmpp_conn_t`, reads a word of the mutex as the
connection's state and returns without sending: the model has no keepalive,
and neither has the program. A process that touches the semaphore after
`mio_disconnect` has closed it is not followed any further. `MioPubsubRx`
works on a connection that stays authenticated. The texts of schedule fields
are model values. `MioMeta` leaves out the loops that tell other nodes the type
(they are in `MioReferences` and touch other items), names that are NULL, and
the timestamp, which all callers give. In `BacnetAdapter` packets
about an invoke id are gone when the id comes round again (255 requests later),
a request always fits the device's APDU, and every device of the configuration
has an object. The stack frees a transaction by its id alone, whoever sent the
packet, and so does the model; answers come from the device that was asked.

## 3. The runs

Passing runs:

| run | instance | what it shows |
|---|---|---|
| `connect` | no calls, spurious wakeups, listening and disconnect | `ConnectVerdict`: OK only when authenticated, CONNECTION only with the link down, whatever happens between event and wakeup. `WokenFindsResponse`: no NULL response is read, unless the wakeup was spurious. `ConnectReturns`: `mio_connect` returns. |
| `request_safety` | 3 calls, 2 slots, an established session | `SlotAccounting`, `TableEntriesLive`, `NoStaleHandler`, `OkMeansAnswered`, with timeouts, lost links and late replies |
| `request_live` | 2 calls, 2 slots | `SlotHolderReturns`: whoever has a slot returns. `ImplementsBlockingCall`: refinement with fairness. |
| `request_teardown` | 1 call from before `mio_connect`, spurious wakeups, disconnect | `SlotAccounting`, and `LoopExclusion` up to the stray unlock; reaches the retry path of a send on a connection that never came up. `EventsAreReported`: the event thread gets through its broadcast unless `mio_connect` or a retried send went on with `conn_mutex` (`ConnMutexKept`). `StopEndsThread`: `mio_disconnect` ends the event thread, unless its stop finds the loop not started or is overwritten (`StopLost`), or the thread hangs in a broadcast (`ConnMutexKept`). |
| `rx_queue` | 2 receivers, queue of 2, 3 responses, 2 listening requests, all control calls | `QueueLenExact`, `DeliveredInOrder`, `EntryIsLive`, `ListenSlotAccounting`, `ImplementsRxChannel` |
| `schedule` | 2 clients with 2 calls each: two new events at once, an update with a recurrence whose `byday` is not kept, one with a recurrence that cannot be written, a removal | `IdsArePositions`: every stored event can be addressed. `ImplementsScheduleItem`: refinement; nothing stored is a mixture of schedules. `FreshUpdateIsExact`: without interference a merge or removal is exactly what was asked for, under two hypotheses that the code needs (`RecurrencesFaithful`, `NoCollapse`). `RepeatedMergeIsHarmless`: repeating a merge whose answer was lost changes nothing if it addresses existing events. |
| `references` | 2 clients with a call each on a room, a sensor and a lamp: additions that can form a loop, removals of a reference that is there and of one that is not, changes of type, also of a node that others have as their only reference | `OneEntryPerNode` although checks and publications interleave. `UndisturbedCallIsExact`: a call that nothing disturbs does what it says at all items it writes, under hypotheses that the code needs (`BothEndsThere`, `GivesType`, `NoLoneReference`). `CallsGetOn`: every step brings a call nearer to its end. |
| `meta` | 2 clients with 2 calls each on one item: registration of a device with two transducers and two properties, merges of properties, a location, a manufacturer, removals by name, of the item and of locations | `NamesAreUnique`: a name means one transducer, and one property of it. `OthersAreKept`: what a call does not mention is published as it was queried, in its place. `MentionedAreUpdated`: every member that a merge gives is published, of the device, its transducers, their locations and properties, but for four losses with names of their own (`InfoLost`, `AltLost`, `RegionLost`, `PropertyLost`); what a removal names is gone. `MergeAgainIsHarmless`: repeating a merge whose answer was lost changes nothing, unless the item is misread (`NothingMisread`). |
| `bacnet` | 2 devices with 1 and 2 objects, a command with a write and one without, 2 ids, repeated packets | `NoTransactionLeaks`, `ReadingsMatch`, `ErrorsAreHandled` (section 4 says what they mean), with losses, delays, repetitions and devices that never answer |
| `bacnet_live` | 1 device, 1 object, 1 write | `WriteReturns`: a write ends, with or without an answer. `RoundEndsUnlessLost` and `CommandHandledUnlessLost`: so do a round of readings and a command, unless a packet of a reading is lost (`Stalled`), and provided that no wait for the XMPP connection lasts for ever (`XmppComesBack`). |

Runs that exhibit a disagreement between the code and what it says of itself
(quoted in `findings`):

| run | property | what happens |
|---|---|---|
| `request_starved` | `EveryCallReturns` | the call that takes the last slot reads 0 from the semaphore and is refused by `_mio_request_add`; it is sent without a handler and times out, `_mio_request_delete` finds no entry and does not post, and the next call waits in `sem_wait` for ever |
| `rx_blocked` | `BlockedOnlyWhileEmpty` | the signal falls between test and wait, and the receiver waits with a response in the queue |

Where a passing property needs an exception or a hypothesis because the code
falls short of its comments, the exception is a predicate with a name and a
comment that gives the line. Each hypothesis was taken out once on the instance
of its run, and TLC then refuted the property: the runs reach the cases they
exclude.

Other behaviour that the modules contain and a reader should know of, without
a run of its own. Connection and requests:

- the event comes before `mio_connect` tests the predicate, or after it timed
  out: the handler data is freed and the connection lives on (`mio.c` 1893,
  1923);
- `xmpp_stop` falls between the test and the write of `loop_status` in
  `xmpp_run_once` and is lost (`event.c` 91), or it comes before the loop has
  started, does nothing (`event.c` 345-351) and the thread runs for ever:
  `StopEndsThread` excludes both (`StopLost`);
- with `conn_predicate` still set, a send is retried with `conn_mutex` held,
  and the retry locks it again (`mio.c` 1625); the event thread hangs in its next
  broadcast (`ConnMutexKept`);
- a reply before the first test of `request->predicate` makes the call fail with
  MIO_ERROR_PREDICATE, its table entry and slot left behind (`PredicateTest`,
  `mio.c` 1682);
- a timed-out call deletes its id handler while the event thread runs it
  (`mio.c` 1659);
- the call that takes the last slot reads 0 from the semaphore, is refused by
  `_mio_request_add`, and its stanza is sent without a handler
  (`RequestAddTest`, `mio.c` 1078);
- a signal between the test of `request->predicate` and the timed wait costs a
  full timeout, and the answered call returns MIO_ERROR_TIMEOUT (`LockAndWait`);
- a spurious wakeup makes `mio_connect` read a NULL response and
  `_mio_send_blocking` return MIO_OK for an unanswered request
  (`ConnectSpurious`, `SpuriousWake`);
- `authenticated` is never reset, so a stanza for a dead link is dropped and
  `_mio_send_nonblocking` returns MIO_OK (`Enqueue`);
- `mio_disconnect` unlocks `event_loop_mutex` without owning it
  (`DisconnectUnlock`), and stops the loop before the end of the stream can be
  sent, so that the link may stay open (`DisconnectStop`,
  `DisconnectEndStream`, `mio.c` 1941).

Receive queue:

- a stale length makes the event thread drop a response although there is room
  (`mio.c` 951);
- two receivers that start together use two slots for one request
  (`ListenRequestAdd`); a second `mio_handler_add` has no effect because
  libstrophe keeps one handler per function pointer (`ListenHandlerAdd`);
  `mio_pubsub_data_rx_queue_clear` ends by freeing NULL (`ClearNext`).

Items:

- a merge whose query is not answered goes on with the caller's events alone,
  and publishing them wipes the schedule (`MergeUnanswered`, `mio.c` 717);
- the conversion writes the text of `bymonth` into `byday`, and reads a NULL
  pointer when only `byday` is set (`RecurrenceToStanza`, `PublishCrash`,
  `mio.c` 525): `FreshUpdateIsExact` is about recurrences without a `byday` of
  their own (`RecurrencesFaithful`);
- two new events of one merge both have the id -1, and the second is merged into
  the first (`EventMerge`, `mio.c` 639): `NoCollapse`;
- `mio_reference_remove` returns NULL both for a list that became empty and for
  a reference that is not there: removing an unlisted reference wipes the list
  (`ReferenceRemove`, `mio.c` 5978), and a node with a single reference is
  never told a new type (`Overwrite`, `mio.c` 3202). These are `BothEndsThere`
  and `NoLoneReference`;
- the loop check of an addition is made before the publications and only with
  a reference at the child; the parent's list is published as it was queried at
  the beginning (`AddParentRefs`, `mio.c` 6189);
- `mio_reference_child_remove` can return an uninitialised code (`undefined`);
- publishing meta data of unknown type over an empty item crashes (`crashed`,
  `mio.c` 6766);
- `mio_meta_merge` merges the first property it is given into the first property
  of the device, whatever their names (`MetaMerge`, `mio.c` 3020), and
  `meta_tool` passes properties in no other way: all but one are lost. This is
  why `NamesAreUnique` leaves out the properties of the device, and
  `OthersAreKept` says nothing of them when `meta` has properties;
- properties of a transducer that has a location are linked into the location
  when the item is read (`Misread`, `mio_handlers.c` 695): they are lost with
  the next merge or removal, whoever makes it and whatever it is about, and
  with a region in the location the reader crashes. Repeating a merge of such a
  transducer is therefore not harmless (`NothingMisread`);
- a location is written with its accuracy in the place of the altitude, and
  crashes without one (`GeolocToStanza`, `AltOnly`, `mio.c` 6675); a
  manufacturer without an interface crashes (`Unwritable`, `mio.c` 6800); the
  info of a transducer is never written (`mio.c` 6783-6858). These are `AltLost`
  and `InfoLost` of `MentionedAreUpdated`;
- removing a location that is not there frees NULL (`GeolocQueried`,
  `mio.c` 1215).

BACnet adapter:

- the loop that waits for a reading never calls the stack's timer
  (`bacnet_adapter.c` 308-334; `write_bacnet_obj` does, 720-722): after one
  lost packet `publish_data` polls for ever with `mio_lock` held, and
  `bacnet_actuate` never runs again. This is `Stalled`, the exception of
  `RoundEndsUnlessLost` and `CommandHandledUnlessLost`;
- the first device that does not answer ends the round, so the devices after it
  are never read (`Bind`), and `elapsed_seconds` is added up over the devices;
- `publish_data` waits without limit for the XMPP connection with `mio_lock`
  held, and `mio_item_publish_data` may wait for a slot (`XmppWait`, `XmppReady`,
  `bacnet_adapter.c` 351). The two liveness properties of rounds and commands
  have the end of these waits as their premise (`XmppComesBack`);
- an error that arrives while `publish_data` gives up on a device stays in
  `error_detected`: the next write or reading fails without a request. This is
  the exception `ErrorsAreHandled` names;
- an acknowledgement that cannot be decoded ends the wait, and the value of the
  reading before it is published again: `ReadingsMatch` speaks of decoded
  readings only.

### Bounds

Three calls on two slots is the smallest instance in which a call waits for a
slot, another is refused at the limit and a third holds one. `SendRetries` is
the code's 3, so that a call can pass the reconnect wait twice. A queue of two
with three responses has a full queue, a drop and a stale length; two listening
requests let a stop and a second start meet. Two clients with two calls each on
a schedule let an update overtake another, new events meet an empty schedule
and one with entries, a call be repeated after its answer
was lost and a late publication overwrite a newer one. The calls on
a meta item meet each other in every order, on an item that is there, edited,
retracted or overwritten late. Three nodes are the
fewest with a reference that an operation does not touch, and two clients let
each of its steps be overtaken. Two devices let a failure at the first meet the
reading of the second, two objects let a late answer meet the next request, and
two ids let an id be used again while the other is fresh; with one retry and
timeouts of one second each timer runs out in every place it can. Responses,
listening requests, calls per client and repeated packets are the only
unbounded counters, capped by `MaxItems`, `MaxStarts`, `MaxCalls` and
`MaxPackets`; the theorems hold for every value of them. Deadlock checking is off where the
system may stop: after `mio_disconnect`, after a crash, or when everything that
may be published was published; a session with calls never stops, because its
event thread does not.

Symmetry over calls, receivers or clients is used only in runs of invariants,
action properties and refinements without fairness.

### Fairness

Threads are scheduled (weak fairness of the event thread and of
`mio_connect`), and timed waits end. A call gets strong fairness: the event
thread releases `event_loop_mutex` and sleeps in every round, so a call that
finds the mutex free again and again gets it. Nothing is assumed of the
network, the server or the publishers: `SlotHolderReturns` holds with a server
that never answers. libstrophe's forced cleanup after `xmpp_disconnect` fires
if the loop keeps turning.

In `BacnetAdapter` the threads run and the clock advances. A packet that is
sent again and again and not always lost arrives and is answered (strong
fairness of `Answer` and `ReadAnswer`, per invoke id; `Lose` is not
constrained, and a reading whose packet was lost, with its transaction still in
the table, is what `Stalled` describes). Nothing is assumed of the end of a wait
for the XMPP connection; that `mio_item_publish_data` then returns is
`SlotHolderReturns` of `MioRequest`. `bacnet_data` sleeps for seconds without
the lock after each round,
so `bacnet_actuate`, waiting for it, gets it (strong fairness of `ActLock`).
The item modules state no fairness: `CallsGetOn` is an action property, and
with the timeouts of `MioRequest` it says that calls end.

## 4. The proofs

Assumptions: `ConnectionConstants`, `RequestConstants`, `RxConstants` (finite
set of calls, at least one send attempt, a queue bound of at least one),
`ScheduleConstants` (calls are well formed), `ReferenceConstants` (the items of
a node, well-formed initial lists without repetition), `MetaConstants` (calls
are well formed; initial items are ones the library could have written, without
repeated names), `BacnetConstants` (at least one device, an object per device,
an id and a timeout). The theorems
hold for any number of calls, receivers, slots, retries, responses, clients,
nodes, devices and packets and for any choice of application calls.

- **Connection.** `ConnTypeCorrect`; `ConnectVerdictHolds` from `VerdictInv`,
  which ties the response and the place of both threads to the link's state:
  `ConnectVerdict` alone is not inductive, since the verdict is read off a
  response that an earlier step of the other thread wrote;
  `WokenThreadFindsResponse` from `ResponseInv`: the response exists as soon
  as the predicate is set.
- **Requests.** `ReqTypeCorrect` needs the bound on `attempts` at every place
  from which `SendTest` can be reached. `SlotsAreAccounted` and `TableIsLive`
  rest on `RequestLife`, which says for each place of a call whether its
  request is allocated and in the table; a step of a call then changes the
  number of holders by what it does to the semaphore. `LoopSectionsExclude`
  rests on `LoopMutexInv` (who is in a section owns the mutex) and
  `OneEventThread`, until the stray unlock of `mio_disconnect`, which is where
  the property ends. These four cover spurious wakeups and teardown.
  `OkIsAnswered` and `HandlersAreRemoved` rest on `AnswerInv` and assume no
  spurious wakeups: with them they are false. `CallsImplementBlockingCall`
  proves initial condition and step simulation of `BlockingCall`.
  `SessionSafety` carries all six properties over to the specification the
  runs check.
- **Receive queue.** `QueueLenIsExact` from `QueueInv`: the event thread is the
  only one that adds, so at `insert` the queue is below its bound although the
  length was read earlier. `DeliveryIsOrdered` from `OrderInv`: what is in
  hand is newer than what is queued or delivered. `RxRefinesChannel` from
  both. `EntryStaysLive` and `ListenSlotsAreAccounted` from `EntryInv`: the
  request in the table is allocated, and a stop under way has not lost it.
- **Schedules.** The invariant `SchedInv` says what a list under edit and a
  publication under way are in terms of `ScheduleItem`: after k merge steps the
  list is the queried one with the first k events merged in (`MergedParts`),
  and a publication is the result of its call on its base, which is a version
  the node has had. `ScheduleItem` says nothing about a `byday` that is not kept;
  `FreshUpdateCorrect` has the exact statement, new events included, under
  `RecurrencesFaithful` and `NoCollapse`. Each list function has a lemma (what `Renumber`,
  `EventRemove` and `EventMerge` do to every position). From it follow
  `IdsCorrect`, `ScheduleItemImplemented`, `FreshUpdateCorrect` and
  `RepeatedMergeCorrect`; none of them is inductive, because what is stored now
  was computed from something stored earlier.
- **References.** `RefInv`: a client's next step belongs to its call, an
  outgoing publication is of the right kind and without repetition, and
  `parent_refs` of an addition does not mention the child. `OneEntryPerNode`
  needs the last part: the list is published long after it was checked.
  `CallsGetOnCorrect` is proved from `RefInv` with the measure of
  `PartLeft` and `WithinPart`. `UndisturbedCallCorrect` rests on `ExactInv`,
  which holds of a call as long as nothing has disturbed it: for each step it
  says how the items and the lists in hand follow from the snapshot taken at the
  beginning of the call. A client with a publication under way is described by
  the items as they will be once it is stored, so that storing it and taking its
  answer keep the description. It is stated against what the comments of the
  code say, with `BothEndsThere`, `GivesType` and `NoLoneReference` as
  hypotheses. The loop that tells other nodes the type has a
  part for the nodes that are told already and one for those that are left.
- **Meta data.** `MetaInv` follows a call from its query to its publication:
  while a client edits, `WorkKept` relates its copy to the queried item as the
  parser read it, and in the loop over the properties of a transducer the
  position it works at holds the transducer of that name. Publications under
  way have unique names and say what the library can write, so that reading and
  writing an element again leaves it as it is. Each list function has a lemma
  for lists of any length (`SlotFound`, `PutUnique`, `RemoveNamedEffect`,
  `TransducerMergeEffect`). `MetaTypeCorrect`, `NamesUnique` and
  `OthersKeptCorrect` follow. `NamesAreUnique` alone is not inductive: what is
  stored was computed from another item, several steps earlier.
- **Updates of meta data.** `MentionedUpdated` and `MergeAgainHarmless` (in
  `MioMetaUpdateProofs`) say what whole loops compute. The recursion is in the
  steps of the client and not in an operator, so an invariant over the positions
  of the loops takes the place of an induction over the lists. `UpdateInv` says
  for a client at transducer `next` and its property `prop` that each field and
  each property of each name has the value that the last element of the call
  before that position gives (`FieldMerged`, `PropertyMerged`), or, if none
  does, the value it was read with (`FieldKept`, `PropertyKept`). A call may
  mention a name any number of times. All members of the device, its first
  property, the transducers and the locations are compared; what the code loses
  is excepted by name. Publications have all of it, and `Merged`
  stays attached to an item until something else is stored. For a repetition the
  invariant says what the copy may still differ in: where the item already has the
  merge (`Repeats`), its shape and names are as before, and a value differs only
  if an element that is still to come gives it (`TransducersAgain`,
  `PropertiesAgain`); at the end of the loops nothing is to come. Removals
  follow from `Gone`: the names before the position are not in the list.
- **BACnet adapter.** `BacInv` has a part for the table (who may have a
  transaction, that a waiting one has time left, and that only
  `write_bacnet_obj` sees one fail), one for the time, one that says where the
  error flag is down, and one for the reading: everything under way with the
  current id is about the current object. `TransactionsAreFreed`,
  `ReadingsAreTheirObjects` and `ErrorsDoNotLeak` follow. The invariant also
  shows that the branch of `publish_data` for a failed transaction is never
  taken, which is why a lost packet stalls it.

Only model-checked: everything about eventuality (`ConnectReturns`,
`EventsAreReported`, `StopEndsThread`, `SlotHolderReturns`, `WriteReturns`,
`RoundEndsUnlessLost`, `CommandHandledUnlessLost`, the fairness part of
`ImplementsBlockingCall`), which is beyond the prover. Every other property of
a passing run is a theorem.

## 5. Plan

Done: connection, requests, receive queue, schedules, references, meta data and
the BACnet adapter, the abstract specifications and the theorems above. Left:
the remaining result handlers of `mio_handlers.c` as operators from stanza to
response, as far as a property tells them apart.
