# MQTT streaming module: models, checks and proofs

The repository connects openDAQ to MQTT: a *client device* holds one connection
to a broker, *subscriber* blocks turn messages into signals (with nested *JSON
decoders*), *publisher* blocks turn signals into messages. This directory holds
TLA+ models of the parts in which threads, locks, callbacks, time-outs and
faults meet, TLC configurations that check them on small instances, and proofs
for all instances, checked by TLAPS.

Short names: `M/` is `src/modules/mqtt_streaming_module/`, `P/` is
`src/shared/mqtt_streaming_protocol/`.

## 1. The system

| component | state | operations | meets |
|---|---|---|---|
| `MqttAsyncClient` (`P/src/MqttAsyncClient.cpp`) | Paho handle, `pendingConnect`, the callbacks under `cbMtx` | `connect`, `isConnected`, `disconnect`, `syncDisconnect`, setters of callbacks, `subscribe`, `unsubscribe`, `publish` | called by the device and the blocks; called back by the library's thread, which holds `cbMtx` while a callback runs |
| `MqttClientDeviceImpl` (`M/src/mqtt_client_device_impl.cpp`) | connection promise, `connectedDone`, connection and component status, nested blocks | constructor (connect and wait), `removed`, add and remove a block | its callbacks run on the library's thread while the constructor waits |
| `MqttSubscriberFbImpl` (`M/src/mqtt_subscriber_fb_impl.cpp`) | topic, interval, message queue, flags, nested decoders, five status entries | constructor, `propertyChanged`, `processMessage`, `processingLoop`, add and remove a decoder, `removed`, destructor | three threads: the user's, the library's, its own |
| `StatusContainer`, `updateStatuses` (`M/include/.../status_container.h`) | entries (text, present) with a change flag | `set`, `reset`, `isUpdated`, `ok`, texts | written by the user's and the processing thread of a subscriber |
| `MqttJsonDecoderFbImpl`, `MqttDataWrapper` | configuration and its validity, output signal, parsing status, last external time | `processMessage` (extract, check, build packets), `propertyChanged` | called by a subscriber's processing thread; its properties are changed by the user's |
| `MqttPublisherFbImpl` and its handlers | input ports, preview signals, callbacks of the signals (`signalMap`), handler with reader, buffers and pack builders, error flags, four statuses | `onConnected`, `onDisconnected`, `coreEventCallback`, `propertyChanged`, `readerLoop`, `removed` | the SDK's threads, its reader thread, `publish` |
| `utils`, `JsonConfigWrapper` | none | topic validation, time stamp conversion, configuration file | pure |
| `MqttStreamingModule` | none of its own | discovery, creation of devices | the SDK |

What is hard, and where: the schedules of a subscriber's three threads around
two mutexes, two atomic flags and a condition variable whose notification can be
lost; a property change that fails half-way; the destruction of an object that
other threads call; a display that is composed from entries while they change;
callbacks of a connection that come before, during and after the owner's steps;
an answer that comes after the wait for it; a map of callbacks that several
blocks share; samples that wait in a handler while its ports and descriptors
change; a configuration that is judged outside of the lock it is used under.
`hazards` in `PROJECT.json` lists
them with their lines, the ones no property covers included.

What makes each component correct:

- **client**: `isConnected` tells the truth when the library is quiet;
  `syncDisconnect` returns and leaves no pointer into its frame behind.
- **device**: created means connected; the statuses follow the connection; the
  constructor ends whatever the broker does.
- **subscriber**: every message that is accepted is handled once, in order,
  against one configuration; what the user asked for is in force or an error is
  reported; decoders and the block itself are not used after their end; calls
  return; the display is that of the present subscription.
- **status container**: no change is lost between two threads.
- **publisher**: one free port, at the end, and no two ports of one name; the
  previews offered are those of the ports; the reader is that of the ports and
  has a buffer for each; no change of a descriptor, name or connection is
  missed; the statuses say what the flags say; callbacks end with the block.
- **callbacks of several blocks**: the client calls no block that is gone, and a
  block that shares its topic with nobody and shows no error is served; the
  preview signal is what the properties say, or an error is shown.
- **handlers**: no sample is published twice or behind a later one, none under
  another signal's name or with another sample's time; packs have the size asked
  for and a whole one never waits.
- **decoder**: a message is published completely, each value with its own time,
  or not at all; the signal fits the packets sent over it; the status is that of
  all messages under the present configuration.
- **paths**: a path written with the documented escapes is read back as it was
  meant, and no path makes the code read outside of it.

## 2. The modules

| module | models | extends or instantiates |
|---|---|---|
| `TopicFeed` | what a subscriber promises to the producers of messages: accept, handle in order, change the topic | |
| `SubscriberFb` | `MqttSubscriberFbImpl`, with `onMsgArrived` and the message callbacks of `MqttAsyncClient` for one block | instantiates `TopicFeed` as `Feed` |
| `StatusBoard` | `StatusContainer` and `updateStatuses` at their finest grain | |
| `MqttAsyncClient` | connection and disconnection of `MqttAsyncClient`, the library as its environment | |
| `MqttClientDevice` | `MqttClientDeviceImpl`, composed with the client | extends `MqttAsyncClient` |
| `TopicRegistry` | several subscriber blocks on one client: the callback map, subscriptions and their answers, preview signals | |
| `Publisher` | `MqttPublisherFbImpl`, with what it sees of its handlers and of the SDK's ports, readers and events | |
| `SamplePacks` | the five handlers that `HandlerFactory` makes: what becomes of samples | |
| `MqttDataWrapper` | `MqttDataWrapper` and the conversions of `utils` as operators, no state | |
| `JsonDecoder` | `MqttJsonDecoderFbImpl` | extends `MqttDataWrapper` |
| `JsonPath` | `resolveJsonPath`, with the meaning of a path as its reference | |
| `MC...` | the sets and the symmetry of the instances | extend the module they instantiate |
| `...Proofs` | the theorems, section 6 | extend the module they are about |

### SubscriberFb

Variables carry the names of the members; `userPc` and `procPc` are the program
counters of the user's and the processing thread, and `delivering` is the
receive thread inside the callback (it holds `cbMtx` from the lookup to the end
of the callback). One action is one atomic section: what happens under one lock,
one atomic flag, or one call of the status container.

- *receive thread*: `OnMsgArrived`, then `ProcessMessage` (push under
  `queueMutex`, notify).
- *processing thread*: `ProcLoop`, `ProcCheck`, `ProcSleep`, `ProcTimeout` or
  `ProcSpurious`, `ProcSwap`, `ProcUnforce`, `ProcLock`, `ProcDispatch` (once
  per message), `ProcUnlock`, `ProcReport`, `ProcWait`, `ProcPublish`.
  `queueMutex` is held by this thread exactly at "sleepy" and "swap"
  (`QueueMutexFree`).
- *user's thread*: a call runs as `userOp` through the steps that the comment
  above `UserGoto` lists. `UserLock`, `EraseCallback`, `Unsubscribe`,
  `ReadProperties`, `RegisterCallback`, `Subscribe`, `UpdateStatuses`,
  `ForceProcessing`, `NotifyProcessing` are `propertyChanged`, in the order of
  the code, and each can fail where the code can.

`componentStatus` is published in one step here (`ProcPublish`,
`UpdateStatuses`): that the real display, which is read entry by entry, ends up
the same is what `StatusBoard` shows. Two history variables have no counterpart
in the code: `out` (what was given to whom) and `heard` (the subscription has had
data).

Simplifications: the SDK serialises calls into a block, so there is one user's
thread; a message is its topic and a number; what a decoder does with it is not
looked at here (`JsonDecoder` does); the JSON configuration is a choice in `Init`
of its outcomes; preview signals are in `TopicRegistry`, only their packet, which
can set the domain entry, is here.

### StatusBoard

One action per operation of the container, which its own mutex makes atomic, and
one per step of `updateStatuses`: `IsUpdated` (flags read and cleared, before
`componentStatusMutex`), `Lock`, `Look` (one `ok()` each), `ReadText` (a second
call, in between which the entry can change), `Publish`. Entries are numbered in
the order of the display.

### MqttAsyncClient and MqttClientDevice

The library is external. It is modelled by a connection (`link`), a queue of
callbacks that are due (`events`) and a thread that runs one callback at a time
in three parts: the flag, written without a lock (`ResetPending`), `cbMtx`
(`LockCallbacks`), the end (`EndCallback`). Assumed of the library, and written
in the module's header: it reconnects by itself, runs callbacks one at a time in
the order of the events, and begins none after `MQTTAsync_destroy`. Nothing is
assumed of *when* it answers, or whether it does.

`syncDisconnect` is six actions of the owner (`SyncDisconnect`, `InstallClosure`,
`Disconnect`, `Answer` or `AwaitTimeout`, `ClearClosure`, `Recheck`).
`ClientSpec` lets the owner call in any order. `MqttClientDevice` adds the
device's own steps to the client's actions: each callback of the device is a
list of steps (`todo`) done under `cbMtx`; the constructor is `Connect`,
`WaitConnected` or `WaitTimeout`, `SwapCallback`.

Simplifications: one owner at a time (the device's constructor, `removed` and
destructor are); a handle is not told from its successor; after a time-out the
swap of the callback is left out, since the device is thrown away.

### TopicRegistry

`SubscriberFb` is the inside of one block; this is the outside of several. The
steps of a property change and of a removal are those that touch what blocks
share: `EraseCallback`, `Unsubscribe`, `Unsubscribed` or `UnsubscribeFailed`,
`ReadProperties`, `RegisterCallback`, `Subscribe` or `SubscribeFailed`; each
holds its own block's `processingMutex`, which does not keep other blocks out.
`RegisterCallback` inserts and does not overwrite, as `setMessageArrivedCb` does.
A removal that could not unsubscribe tries once more in the destructor ("removed"
becomes "destroyed"). The library keeps requests in order (`pending`) and
answers at any time: an answer after the time-out finds nobody waiting
(`answered`). The broker may refuse (`AnswerSubscribe(FALSE)`) or forget
(`BrokerForgets`), of which the code tells no block.

`want` holds the values of a block's properties, which the user has written
before the block is told; the members `topic` and `preview` follow in
`ReadProperties`, which also runs `reconfigureSignal` for the preview signal, or
not at all when the unsubscription before it fails (`UnsubscribeFailed`). `shared`
(topics that two blocks have had together) and `unheard` (topics refused or
forgotten) are history.

Simplifications: an empty and an invalid topic are one (`NoTopic`); messages are
left out (`SubscriberFb` has them); subscriptions have no quality of service.

### Publisher

Everything the block does is under `processingMutex`, so a callback, a property
change and a turn of the reader thread are one action each (`OnConnected`,
`OnDisconnected`, `CoreEventCallback`, `PropertyChanged`, `ReaderLoop`,
`RemovedJoin`, `RemovedClear`, `RemovedRelease`). The handlers' steps are
functions from one record of the block's state (`Now`) to the next (`Become`
writes it back), because a turn may validate, read, validate again and publish:
`ValidateInputPorts`, `SignalListChanged`, `ProcessEach` (a topic for each
signal), `ProcessGroup` (one reader for all).

What is *not* under the mutex is the SDK, and that is where the schedules are: a
signal is on a port (`plugged`) before `onConnected` runs, a descriptor has
changed before its core event is delivered (`due`), packets wait in queues
(`queue`), and turns of the reader happen in between. What is assumed of the SDK
is in the module's header; it is read off the way the code uses it.

Validation has three ends. It accepts (`Accepts`), it refuses, or it is left by an
exception (`Throws`): a signal has no descriptor, the handler for all signals has
noted down that a domain is missing and asks it for its rate all the same
(`Unreadable`), or the buffers are made while a port in the middle has lost its
signal (`Gap`). In a callback or a property change the exception ends what is left
to do: the ports, previews and callbacks are the new ones, but the flag and the
reader, or the topics and statuses, are still the old (`Conclude`). It is
assumed that the SDK swallows or hands on the exception and leaves the signal on
its port and the property its value. In a turn of the reader nobody catches it,
and the program ends. `stale` records, as history, which of these have not been
brought up to date since; `failed` is the end of a run, by such an exception or where the code would
read past its buffers (only in the window of the finding `PubBuffers`); `twice`
records that some signal was ever on two ports.

What a signal is like (`KindsType`) is its own descriptor and its domain.
`ChangeDescriptor` changes the first: a packet, and a core event of the signal.
`ChangeDomain` changes the second: a packet, but no core event that the block
heeds, because it subscribes at the signals and not at their domain signals
(`M/src/mqtt_publisher_fb_impl.cpp:318`) and asks for changes of the attribute
"Name" only (line 608).

Simplifications: samples, packs and time stamps are in `SamplePacks` (here a data
packet is one message, of which the client may refuse some); domains have one of
two rates, and one that does not fit for another reason has the first of them;
sample types that are not allowed are refused as arrays are; settings that
the SDK itself refuses (values outside a selection) do not occur; ports are not
rewired while the block is removed.

### SamplePacks

`kind` is the handler: a topic for each signal with single samples ("each") or
packs ("array"), or one message for all signals with single rows ("group") or
packs of rows ("groupArray"). `signalBuffers` are the packets of a signal and how
far they are used, `dataBuilders` and `tsBuilder` the texts that grow to a pack,
here sequences. `Turn` is a turn of `readerLoop`: revalidation if a descriptor
has changed, `processSignalContexts` of the kind (`ProcessEach`, `ProcessGroup`),
and revalidation if that asks for it. `Connect`, `Disconnect`, `PropertyChanged`
and `ChangeDescriptor` happen around it.

A sample is its signal, its tick, the type it was sent with and the type it is
*written as*, which for rows is that of the present descriptor. `skewed` and
`replaced` are history of a handler's builders: whether values were left out
(a descriptor has become unsupported), and whether its ports changed unannounced
while samples were waiting; section 5 says why `FieldsAreRows` needs them. What
the code does in a loop over packets or rows is a fold, written as a function on
the numbers of the packets (`OnePack` and `Collect`, for example, are the body
and the loop of one), so that it can be reasoned about.

Simplifications: core events come at once (`Publisher` has the late ones); of
what validation looks at, only the sample types; all signals have one clock, and
the scaling of its ticks to microseconds is left out, so are the texts.

### MqttDataWrapper and JsonDecoder

A message is a *document*: it parsed to an object or not, and has fields with
one element or an array of them. An element is a type, a number, and the form
that decides how it reads as a time stamp; "ns" stands for every number of 19
digits. The operators follow the calls of the code: `Extract` (`extractValue`,
`extractTimestamp`), `validateExtractionResult`, `buildPackets`. `AsInt64` wraps
at `HalfRange`, which stands for 2^63.

In `JsonDecoder` the configuration lock is the variable `stage`: a property change
is `PropertyChanged`, `ReadProperties`, `ReconfigureSignal`, and a message
`ReceiveMessage` (the test of `configValid`, outside of the lock) and
`ProcessMessage`. `ReadBeyondTicks` is the end of a run in which the code would
read through an empty vector of time stamps (section 7). `heard` and
`lastTsBefore` are history: the messages under the present configuration, and
the external time before it.

Simplifications: what a field's path leads to is given (`JsonPath` has the way);
texts of statuses are names; RapidJSON is external.

### JsonPath

One turn of a loop is one step: `ReadEscape`, `ReadIndex`, `ReadCharacter` are
`readSegment`, `FindMember` ends it, `ApplyIndex` is `applyIndexes`, `NextSegment`
the outer loop. The document is the environment: it has what it is asked for or
not. `Segments` says what a path means without reading it from left to right
(which characters are escaped, where segments end, what can be cut into groups
of brackets), and `Format` is the documented way to write an address down;
`meant` is the address a path was written for.

Simplifications: a character is a letter, a digit or one of the special ones; an
index above `MaxIndex` is one that does not fit its type.

## 3. The runs

| run | instance | shows |
|---|---|---|
| `SubSafety` | 2 topics, intervals 0 and 200 ms, 1 decoder, 1 message, 3 calls and the removal, symmetry of topics | safety of the block |
| `SubFeed` | 1 topic, intervals 0 and 200 ms, no decoders, 2 messages, 2 calls | one topic per batch; refinement of `TopicFeed`; calls return; a false display ends |
| `SubFalselyReceived` | 1 topic, interval 0, 1 message, 2 calls | a violation, section 7 |
| `Statuses` | 3 entries, 2 texts, 2 threads of which one changes two entries, 4 changes | nothing is lost; the last display is right |
| `Device` | 5 faults | the device over its client; waits end |
| `Registry` | 2 blocks, 2 topics, 3 previews, 4 calls, symmetry of blocks and of topics | callbacks, service and previews of several blocks |
| `PubSafety` | 2 signals of 4 kinds, 2 names, 2 ports with signals and a free one, 4 settings, 4 changes, 1 packet, symmetry of signals and of names | safety of the publisher |
| `PubBuffers` | the same | a violation, section 7 |
| `Packs` | 2 signals, a supported type and another, packs of 2, 3 rows at a time, 4 ticks, 5 changes, 6 in packs for all signals, symmetry of signals | samples of the handlers |
| `PacksNames` | the same, packs for all signals only | a violation, section 7 |
| `Decoder` | 3 names and 2 units (the empty ones among them), all modes, 11 documents, 2 times, 2 changes, 2 messages, `HalfRange` 4 | what is published and shown |
| `Path` | all paths of up to 5 characters over `a . [ ] 1 \`, and written addresses; indexes up to 10 | how a path is read |

Why these bounds are enough for the hazards they are for:

- *subscriber*: two topics let a message of the old topic meet the new one; a
  third would be one more "other" topic. One decoder is listed, alive or being
  removed while a batch is under way, and can be added again; that several
  do not disturb each other is the theorem `DecodersAlive`, which is for any number
  of them. `SubFeed` has none: its run is about the topic half of
  `BatchSeesOneConfiguration`, and the theorem `OneConfigurationPerBatch` is about
  both. One message in `SubSafety` is enough for each race of a
  delivery with a call; order and duplication need two, in `SubFeed`, where a
  change may go away from the only topic and come back to it. Three calls
  allow change, failed change, change again; the removal is not counted.
- *statuses*: three entries are the first, a middle and the last of the chain of
  tests; the real five add two more middle ones. Four changes allow set, reset
  and set of one entry while another changes.
- *device*: one fault loses a connection; two lose it again while it is being
  re-established; the others leave room for refusals before and for a loss during
  the removal.
- *registry*: two blocks can share a topic, one can leave while the other stays,
  and each can change to the other's; four calls are two creations and two
  changes or removals, each of which may time out and be answered late. A third
  block would be one more that the map does not name.
- *publisher*: two signals and ports are what uniqueness, order and "twice" need;
  four changes (of ports, descriptors, names, properties) allow connect, connect,
  and two changes that race, among them a removal from the middle and a setting
  that goes and comes back. The four settings are a topic for each signal, Raw
  mode, and one topic for all with and without names as field names, with and
  without previews; the one topic is invalid in one and empty in the other (which
  is a warning and otherwise works like a valid one). The four kinds of signal
  are two that fit alone but not together, one that only the handler for all
  signals trips over, and one that every handler refuses: each can turn into
  others while it is on a port. A signal or a domain without descriptor and a
  domain of another unit or type end validation in one of the same three ways; they
  are in the theorems only.
- *handlers*: packets have one or two samples and packs two, so packs end at the
  end of a packet and in its middle; three rows at a time are a pack and a half;
  five changes allow two connections and three more, for example a descriptor
  that becomes unsupported and comes back. In packs for all signals six changes
  allow a port to go from one signal to another while a pack is begun, with and
  without a validation that notices, which is what `initBuilders` is about.
- *decoder*: the documents have each type, one and several elements, numbers and
  texts as times, a number beyond int64, a negative one, sizes that differ, a
  negative one alone in an array, an empty array, a missing field, text that does
  not parse or is no object. Two changes make a configuration invalid and valid
  again; two messages repeat a time. Every property of the configuration is chosen freely at first.
- *paths*: five characters hold an index, one that is cancelled by a character or
  by an escape after it, and an escaped backslash before each special character;
  the written addresses add two segments and chains of two indexes.

`CHECK_DEADLOCK` is off in two runs. In `Decoder` the process may be gone
(`ReadBeyondTicks`), and without that the bounds end it; in `Registry` blocks may
all be gone, or all calls used up, with nothing left to answer: no thread of
these modules waits for another one. It is on in all other runs. Where those
systems stop (`Gone`, `ClientGone`, `Done`) a stuttering step says so.

## 4. Fairness

- **Threads are scheduled**: weak fairness of `ProcStep`, `UserStep`,
  `LibraryCallback`, `LibraryThread`.
- **A wait ends at its deadline** however often it wakes up spuriously:
  `SF(ProcTimeout)`; `wait_for` has an absolute deadline inside.
- **Mutexes are handed out** to a thread that asks for them while others take
  and free them again and again: `SF(ProcessMessage)` (`queueMutex` against the
  processing thread, which at interval 0 turns without pause), `SF(SyncStep)`,
  `SF(OwnerThread)` (`cbMtx` against callbacks), `SF(Step(t))` in `StatusBoard`.
  No C++ mutex promises it formally; the operating systems' mutexes give it.
- **Calls of the library return**: `waitForCompletion` and `wait_for` have time
  limits, so `Unsubscribe` and `AwaitTimeout` belong to fair actions.
- In `StatusBoard`, a thread that has changed an entry calls `updateStatuses`
  (`WF(due[t] /\ IsUpdated(t))`): each path of the subscriber that changes an
  entry ends with it while the block lives.
- `JsonPath` is a function that runs on to its end: `WF(Next)`.
- `Publisher`, `SamplePacks`, `TopicRegistry` and `JsonDecoder` state no fairness:
  their properties are safety. The publisher's reader thread turns forever, but
  what it must come to is said step by step (`NoChangeLost`: something that makes
  it validate again is always on its way).
- Nothing is assumed of the broker, of messages, of faults, or of the user.

## 5. The properties

Each is stated in words above its definition. The ones that say most:

- `AppliedOrReported` relates four variables over a whole property change: no
  early return leaves the block with old values and no error.
- `StaleIntervalIsForced` and `EveryCallReturns` belong together: the flag and
  the timed wait make up for notifications that are lost because the flags are
  written outside `queueMutex`. The first says of the flag that it is set, the
  second that the wait ends although the notification may be lost.
- `BatchSeesOneConfiguration` is an action property; it is what
  `processingMutex` is for.
- `FeedSpec`: `SubscriberFb` implements `TopicFeed` with
  `pending <- localQueue \o messageQueue` and `open` until the processing thread
  has ended. Exactly once and in order are safety of the abstraction; that each
  message is handled eventually is its fairness.
- `NothingUnshown` is about the *flags*: they can be cleared by one thread just
  before another changes an entry that the first has not read yet, or has.
- `PromiseOutlivesClosure` is the reason for the two lock scopes in
  `syncDisconnect`; `WaitingEnds` says that it, and the constructor, return
  although callbacks hold the mutex they ask for and answers may never come.
- `StatusFollowsConnection` holds from the first callback of the created device
  on; without "told" it is false, see section 7.
- `NoChangeLost` relates the error flag, both change flags, the core events not
  yet delivered and the packets not yet read. It is delicate because the code
  uses two ways: events of descriptors count only under an error, packets only
  without one, and the first packets of a new reader are not a change. A change
  of a domain has the second way only: under an error it is lost (section 7), and
  the property excuses it until the block validates for another reason.
- `StatusesFollowFlags`, `ReaderMatchesPorts` and the topics in `PortsInOrder` are
  excused after an exception out of validation, until the next validation (for the
  topics: the next callback or property change) that has none. What is left is
  that every path but the exception keeps them, and that one good validation
  mends what an exception has spoilt.
- `ReaderMatchesPorts` is about `validateInputPorts`: the reader is rebuilt in
  every success, also when nothing seems to have changed.
- `CallbacksMatchMap` is conditional on `twice`: with a signal on two ports the
  code registers callbacks it never takes back (hazard at
  `M/src/mqtt_publisher_fb_impl.cpp:316`). The block shows an error then.
- `CallbacksHaveOwners` relates the map to the blocks across time-outs: an entry
  is erased before the broker is asked, the topic is given up only after it has
  answered, and the answer may come when nobody waits.
- `Served` excepts topics that two blocks have had together: the second is not in
  the map, and the first that leaves takes the entry and the subscription away
  from all. It also excepts nothing that the broker does: that a subscription was
  refused or forgotten is told to no block (`unheard` is part of `Promised`).
- `PreviewFollowsProperties` compares the preview signal with the values of the
  properties (`want`), not with what the block has made of them. They differ after a
  failed unsubscription, which leaves topic, members and signal as they were
  (`M/src/mqtt_subscriber_fb_impl.cpp:401`): the block must show an error then.
- `NeverTwice` is over the whole run, through all handlers, buffers and packs that
  are begun and dropped; samples may be lost (a change drops what waits), but
  never repeated or reordered. It does not speak of packs of a handler whose
  ports have been `replaced`: a pack that one signal began and another completes
  has samples of both under one name (section 7), in the order of neither.
- `FieldsAreRows` is conditional on `skewed` and `replaced`, which are what the
  code does then: `GroupSignalSharedTsArrHandler` adds a time but no value when
  the type of a signal has become unsupported, and keeps the builders when their
  *number* fits (hazards at `group_signal_shared_ts_arr_handler.cpp` 38 and 94):
  a signal that took the port of another gets the other's samples in its first
  pack, if the change came without a validation that succeeded.
- `LessThanAPackWaits` relates a buffer's counter, offset and packets.
- `PublishedAsPromised` compares what is sent with `Promised`, which looks at the
  message only and knows nothing of flags, extraction or packets; it is stated
  for valid configurations, see section 7 for the others.
- `PacketsFitSignal` and `StatusFollowsMessages` are about a message that was let
  in under one configuration and is processed under the next.
- `AsksForItsMeaning` and `ReadsBackWhatWasMeant` are two references: one for
  every path, one for the paths a user would write.

## 6. The proofs

All theorems hold for every value of the constants under the named assumptions
(`SubscriberAssumption`, `BoardAssumption`, `ClientAssumption`,
`RegistryAssumption`, `PublisherAssumption`, `PacksAssumption`,
`WrapperAssumption`, `DecoderAssumption`, `DocumentsAssumption`,
`PathAssumption`, `WrittenAssumption`: finiteness is not assumed anywhere). They
are safety; liveness stays with TLC (the prover does not handle `ENABLED`), as
does the fairness of the refinement.

**SubscriberFbProofs.** `IInv` is the conjunction of the type invariant and
- *Control*: which step belongs to which call; *Thread*: the processing thread
  is not born before "start" and has ended after "join";
- *Mutex*: the user holds `processingMutex` exactly in the steps of a change
  after "lock", the processing thread exactly in "dispatch";
- *Callbacks*: what is registered is the topic, and nothing when the topic has
  just been erased: `CallbackFollowsTopic` alone does not say that
  `ReadProperties` finds the registry empty when it writes a new topic; and a
  callback runs only while one is registered;
- *Batch*: the local queue is empty outside a batch;
- *Applied*, *Interval*: which values are in force at each step of a change,
  and what a thread that waits knows of the interval.

`TypeCorrect`, `CallbacksErased`, `SafeDestruction`, `ChangesApplied`,
`NoStaleWait`, `DecodersAlive` follow from it, `OneConfigurationPerBatch` is an
action property from mutual exclusion, and `ImplementsFeed` maps initial states
and steps to those of `TopicFeed`.

**StatusBoardProofs.** `NothingUnshown` is not inductive: a thread in the middle
of its chain of tests has passed entries that can still change. `IInv` says that
what the holder of `componentStatusMutex` has read so far is right *unless a
display is pending*, that is, a flag is raised or a thread has cleared the flags
and waits for the mutex: a torn display always has a successor that starts from
the first entry. `NothingLost` is the case in which nothing is pending.

**MqttClientDeviceProofs**, first part: the client alone. `CInv` adds to
`PromiseOutlivesClosure` that a closure runs only with `cbMtx` held; so it cannot
be running when `ClearClosure` takes it away, and the frame ends only after that. These theorems are about
`ClientSpec`, an owner that calls in any order; TLC checks the client inside
`Device`.

Second part: the device. `DeviceUsesClient`: each step of a device is a step
of its client or leaves it alone, which carries the client's invariant over
(`DeviceClosureIsSafe`).
`IInv` adds the order of the steps inside a callback (status, promise,
component) and that nothing is lost without a fault; `CreationIsConnection` and
`ErrorIsTakenBack` follow. `StatusIsFaithful` needs a second invariant, `FInv`:
the newest callback that is due, or in progress, says what the connection is,
and the status shows the one in progress or the last that ended.

**PublisherProofs.** Kinds and settings are any sets of them, so a theorem covers
every way in which validation can end. `StatusesAreCurrent`
(`StatusesFollowFlags`) by `Inv`, which adds only that `hasSkippedMsg` is a
Boolean. The argument is about a turn of the reader that no exception ends: after
a revalidation the statuses are those of the flags
(`StatusDepends`), what a handler processes does not touch what they depend on
(`ProcessedBlock`), and a message that is refused changes one status and, if
that changed, the component's (`PublishingSuffices`). `Block` says that the
records handed from step to step keep their fields.

The other six properties (`TypesAreKept`, `PortsStayInOrder`,
`PreviewsAlwaysMatch`, `CallbacksAreMatched`, `ReaderIsCurrent`, `NothingIsLost`)
rest on `IInv`, which is `BlockInv`, about the block between any two callbacks,
and `NoChangeLost` on top of it. The parts of `BlockInv`:
- *Ports*: indexes ascend, and every signal that is plugged in has a port of the
  list, also while the block has not heard of it.
- *Previews*: they are right, except at ports for which a callback is still to
  come. `PreviewsMatchPorts` is the case in which none is.
- *Callbacks*: `CallbacksMatchMap`, and that no signal is on two ports unless
  `twice` says that one has been.
- *Knows*: with no callback to come, the list of ports ends with its only free
  one, and topics and `signalMap` are those of the ports.
- *Queues*: a reader that has read nothing finds its descriptor packets first.
- *Readers*: `ReaderMatchesPorts`, in the form that a validation leaves it.

An exception leaves *Ports*, *Previews*, *Callbacks* and *Queues* as they are
without it; of *Knows* and *Readers* it takes away the topics and the reader, which
`stale` says, and the next validation without one restores them from the other
parts.

The properties alone are not inductive: most of them are silent while callbacks
are under way, and the step that delivers the last of them needs to know what was
true before.

The list of ports is filtered, counted and compacted. The operators for that
(`ConnectedOf` is one) are recursive functions, and what they return is proved
by induction over the length of the list: a counterexample of least length
exists because the order of the numbers is well-founded, and the step refutes it
(`LeastElement`). So the theorems are for any number of ports.

**SamplePacksProofs.** For any number of signals and types, any sizes of packs
and buffers. `LessThanAPackAlwaysWaits` and `FieldsStayRows` follow from
`PacksInv` (`PacksInvHolds`), of which TLC has checked the parts first. It says
- *Good*, of what a handler holds: less than a pack waits and counters agree
  (*Less*, and the type `Fits` of a buffer), values and times of a pack for all
  signals are collected in step unless `skewed` (*Together*), and a builder has
  samples of the signal that the reader has there unless `replaced` (*Owned*);
  a handler of one kind holds nothing of another (*Own*);
- *Noticed*: the reader is that of the ports, or nothing is begun, or `replaced`
  is true; and *Reads*: without an error the first of these holds;
- *Lined*: along a buffer and the queue behind it the type of the samples changes
  at events only, and what no event follows has the type of the descriptor. So a
  pack of one signal has one type, although it may be made of several packets of
  several turns;
- *AllRight*: the messages of the last step are as the two properties say.

`FieldsAreRows` and `LessThanAPackWaits` speak of `skewed` and `replaced`, but are
not inductive without *Together*, *Noticed* and *Lined*: the values in a message
are as right as what was collected before it.

`NoSampleTwice` (`NeverTwice`) compares what a step sends with `latest`, the last
tick sent of each signal, which says nothing of the samples on their way.
`OrderInv` adds for each signal a *mark* between `latest` and the clock. What has
left the queue, in a buffer (`Ascends`) or a builder (`Within`), lies up to the
mark, and what is in the queue lies behind it; both are in order and later than
`latest`. Nothing in the code holds the mark: it exists (`\E H` in `OrderInv`), and
a turn moves it to the last tick that it takes, or leaves it. A turn is shown to
keep the order once for each kind of handler:
- one message for each sample and one for each pack: what is sent of a buffer and
  the packets just read is in order (`Rising`), and the rest comes after it
  (`SignalInLine`);
- a message for each row: rows are ticks that all queues have (`Mounts`);
- a pack for all signals: rows are appended to the builders, the complete packs
  are those that are collected, and what stays in a builder comes after them
  (`CollectInOrder`, `GroupInOrder`).

Validation may drop builders or buffers but adds nothing to them
(`OrderValidated`), and `latest` becomes a tick of the messages or stays
(`LatestContinues`). A pack of a handler whose ports were `replaced` says nothing of
any signal, so `Ordered` asks its builders only to lie up to the mark: that is
enough to know that their order is right again after they have been dropped.
`OrderInv` has no bound for the marks, so TLC does not check it; it checks
`NeverTwice` itself.

The loops over packets and rows are folds; for each it is shown that the recursive
function exists, then what it preserves, by the same kind of induction.

**TopicRegistryProofs.** For any number of blocks, topics and calls. `TInv` adds
to the types which steps have a topic. `CInv` adds `Erased` to
`CallbacksHaveOwners`: between the erasure and the answer a block is in no
entry, so it may lose its topic then. `SInv` is for `Served`, which is not
inductive: *SharedIsMarked* (two blocks with one topic are remembered),
*Registered* (who relies on a topic, or is about to ask for it, has the entry)
and *Kept*: the topic is promised, where a request for it that is due counts as
long as none after it takes it back. `PreviewAsAsked` (`PreviewFollowsProperties`)
rests on two invariants. *MembersShown*: the signal is the one that would be *created*
for the member, whichever changes it has been *reconfigured* through. *MembersInForce*:
between two calls the member is the property, or an error is shown; that a failed
unsubscription is the only way to the second, and that it sets the error, is what
the steps have to show.

**JsonDecoderProofs.** For any documents, names, units and times. `TInv` is types
(`FlagsTyped`, `DataTyped`, two halves because flags are Booleans and records
are not). `FInv` is for `StatusIsJudgement`: the flags are what the history says
except between the two steps of a change. `PInv` is for `PacketsFit`: what was
last sent has the type of the signal, as long as nothing has been reconfigured.
`PublishesAsPromised` (`PublishedAsPromised`) rests on all three: they say that in
the step that publishes the flag `configValid` is right and the signal has a
domain if the mode asks for one. The rest is about one message (`PromiseKept`):
what is extracted and validated is what `Promised` asks for (`ValuesAre`,
`TicksAre`), and lists of one flatten to a list (`FlattenSingles`, by induction).
It is assumed of documents (`DocumentsAssumption`) that what is no array is one
element, and what reads as a date is a text.

**JsonPathProofs.** For paths of any length and any characters. `StaysWithin`:
`IInv` adds to `WithinPath` that positions are numbers and the path a sequence;
the step that matters is `ReadIndex`, and the fact it needs is that the brackets
of an index close before the end of what is looked at (`GroupWithin`).

`AsksWhatItMeans` (`AsksForItsMeaning`) says that an algorithm which reads once,
from left to right, computes a definition that is not written that way. Its
invariant `AskInv` has two parts, one for each inner loop:
- `ReadInv`, while a segment is read: the segments before it were asked for, and
  `ReadSoFar` holds of what is read. The code remembers one number, `chainStart`,
  where the definition looks for the longest chain of groups that ends here and
  begins unescaped; `ReadSoFar` says that this is where it begins, that no separator
  was passed that is not escaped, and that every group which begins unescaped in
  what was read also closes in it. There is one lemma for each kind of turn
  (`EscapeRead`, `CharacterRead`, `IndexRead`).
- `IndexInv`, while indexes are applied: what is left is a chain, and as many
  indexes were asked for as groups are behind (`OneApplied`).

The recursive functions (`Escaped`, `InOrder`, `unescape`) are shown to exist and
to satisfy their equations, by induction over a set of positions. That escapes do
not overlap makes `unescape`, which skips a pair at once, leave out what the
definition leaves out (`UnescapeIs`), and that a group has no backslash in it
makes a chain escaped at its beginning or nowhere (`ChainUnescaped`).

## 7. Findings

With a run:

- `SubFalselyReceived`: `processingLoop` resets the data acquisition entry after
  it has released `processingMutex` (`M/src/mqtt_subscriber_fb_impl.cpp:559`).
  A topic change in between is overwritten: the block shows "Data has been
  received" for a topic that has delivered nothing. With an interval the next
  time-out corrects it (`FalselyReceivedEnds`), with the default of 0 nothing
  does.
- `PubBuffers`: `createReaderInternal` counts on a free port
  (`M/src/group_signal_shared_ts_handler.cpp:309`), of which there is none
  between the SDK's connection and `onConnected`: the reader then has a port more
  than there are buffers (line 335), and when a port has been taken off and
  `onDisconnected` is still to come, a missing signal is asked for its descriptor
  (line 342), which ends in an exception.
- `PacksNames`: `initBuilders` throws collected samples away only when the *number*
  of signals differs (`M/src/group_signal_shared_ts_arr_handler.cpp:94`). When the
  only signal is disconnected the handler is told nothing (a validation needs a
  connected port), and when another is connected the number is one again: the
  pack that was begun with the first signal's samples is completed with the
  second's and published under the name of the second.

Seen while modelling:

- With one topic for all signals, `validateSignalContexts` notes down "Connected
  signal \"{}\" doesn't contain a domain signal. This is not allowed."
  (`M/src/group_signal_shared_ts_handler.cpp:77`) and then asks the missing signal
  for its descriptor (lines 135 and 139), or, where its rule is not linear,
  the rule for a "delta" (`M/include/mqtt_streaming_module/handler_base.h:64`).
  The exception leaves `validateInputPorts` before `hasSignalError` is set
  (`M/src/mqtt_publisher_fb_impl.cpp:395`): the error is never shown, topics and
  statuses stay the old ones, and in the reader thread the program ends. The test
  of a signal without domain (`M/tests/test_mqtt_publisher_fb.cpp:906`) has a topic
  for each signal, where it is allowed.
- A signal that is refused because of its domain, for example with "Connected
  signals have incompatible sample rates" (line 146), is refused still when the
  domain has changed so that it fits: under an error no packets are read
  (`M/src/mqtt_publisher_fb_impl.cpp:556`), and of the domain signal's core events
  the block hears none (line 318).
- A connection lost and re-established while the constructor swaps its callbacks
  (`M/src/mqtt_client_device_impl.cpp:176`) reaches the first callback, which acts
  once: it leaves a connected device that shows "Reconnecting" until the next
  reconnection. `StatusFollowsConnection` asks for "told" because of it.
- `connect` sets `pendingConnect` after the request
  (`P/src/MqttAsyncClient.cpp:89`); callbacks that come first are overwritten, and
  `isConnected` answers "pending" until the next callback of the library. The
  module has the step (`StorePending`). Only `syncDisconnect` reads that answer.
- The decoder tests `configValid` before it takes the lock
  (`M/src/mqtt_json_decoder_fb_impl.cpp:207`), and `readProperties` makes it true
  for a moment in every change: a message may be processed under a configuration
  that is invalid. With strings as values, times from the message and no name for
  them, it then reads through an empty vector: `ReadBeyondTicks`, which the run
  `Decoder` reaches. With numbers it sends a packet whose time stamps are
  missing; `PublishedAsPromised` therefore speaks of valid configurations.
- A negative number alone is taken for a time stamp
  (`P/src/MqttDataWrapper.cpp:480`), in an array it is an error; the conversion
  asserts in debug builds and reads twenty digits, hence 0, in others, which is
  what the model has. A text that does not parse is 0 too. A number beyond int64
  comes out negative.
- A unit that is cleared stays in the descriptor
  (`M/src/mqtt_json_decoder_fb_impl.cpp:257`).
- `setUsernamePasswrod` (`P/src/MqttAsyncClient.cpp:161`) stores pointers into its
  by-value parameters, which have the names of the members it means.

## 8. Only model-checked, and not modelled

Only model-checked, because the prover handles neither `ENABLED` nor the
library's induction schemes for temporal formulas: liveness and fairness
(`EveryCallReturns`, `FalselyReceivedEnds`, `ShownInTheEnd`, `WaitingEnds`,
`ReadsBackWhatWasMeant`, the fairness of `FeedSpec`).

Every invariant and every action property that a run checks has a theorem.

Not modelled:

- `JsonConfigWrapper`: a parser of a configuration without state. What it can lead
  to is a choice in `SubscriberFb`'s `Init`.
- `MqttStreamingModule`: creation of a device from a connection string.
- publish, sent and delivery callbacks of the client: they are registered and
  called like the others, and nothing in the module acts on them.
- property plumbing (`initProperties`, `CreateType`), values that the SDK refuses,
  logging, the wording of errors and of messages.
- the scaling of ticks to microseconds
  (`M/src/group_signal_shared_ts_handler.cpp:184`): 64-bit products of values whose
  overflow depends on the digits, not on any state.
- the scaling of a time stamp by its number of digits
  (`P/src/utils.cpp:35`, 10, 13, 16 or 19 of them): numbers have a class, and
  `numericToMicroseconds` is the identity on those that it converts. What is
  published and what is promised use the same operator, so no property depends on
  it. The number of digits is computed in floating point there (line 38), and just
  below a power of ten may be one too high.
- `SignalArrayAtomicSampleHandler`, which the factory never makes.
- lifetime of memory as such, for example of a device whose constructor throws;
  the hazards name the places.
- the internals of Paho, of the openDAQ SDK and of RapidJSON, examples and tests.
