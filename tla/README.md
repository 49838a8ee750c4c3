# wbgo in TLA+

wbgo is the Go library under Wiren Board's MQTT drivers: a `Driver` that mirrors
the devices of a model on an MQTT broker, an MQTT client that survives lost
connections, a JSON-RPC server over MQTT, and a watcher that keeps loaded files
up to date, together with the test doubles that the library and its users test
with. This directory holds TLA+ models of these parts, TLC configurations for
small instances, and TLAPS proofs.

    tlc -config MCDriver_values.cfg MCDriver      # one run
    tlapm DriverProofs.tla                        # the proofs of one module

`PROJECT.json` relates every definition to the lines it models and lists the
runs, the hazards each property is aimed at and, for every property, a mutation
of the model that breaks it (the definitions commented "mutant", which nothing
else uses).

## 1. Inventory

| Part | State | Operations | What is hard |
|---|---|---|---|
| Driver: devices and topics (`driver.go`) | `deviceMap`, `controlList`, `nextOrder`, `topics` (cache of value topics), `retainMap`, `cleanupTopics`, subscriptions | callbacks of the model (`OnNewDevice`, `OnNewControl`, `RemoveDevice`, `OnValue`, `OnError`), handlers of messages (title, value, `on`, type, max) | messages wait in a queue while devices are redefined, removed, re-created as external; what the driver publishes comes back to it |
| Driver: life cycle (`driver.go`) | `active`, `ready`, `eventCh`, `handleMessageCh`, `quit`, the poll channel | `Start`, `Stop`, `WhenReady`, `CallSync`, `HandleMessageSync`, `Poll`, the select loop | select takes a random case; `Stop` cleans up in the caller's goroutine while the loop publishes; bounded channels |
| DeferredList (`util.go`) | `fns` under a mutex | `MaybeDefer`, `Ready` | thunks given while `Ready` runs the deferred ones |
| PahoMQTTClient (`mqtt.go`) | `subs`, `retainedMessages`, `connected`, `tokens`, `started`, the mutex `connMtx` | `Start`, `Stop`, `Subscribe`, `Unsubscribe`, `Publish`, `PublishSync`, handlers `onConnect` and `onConnectionLost` | connections lost and made between any two steps; handlers in goroutines of the library; a mutex held while waiting for a channel |
| WaitForReady (`mqtt.go`) | `ready`, the flags of the two probes | the goroutine and the callback | duplicates, no order between QoS 1 and 2, late `onConnect` |
| MQTTRPCServer (`rpc.go`) | `serviceMap`, `active`, `quit`, `messageCh` | `Register`, `RegisterName`, `Start`, `Stop`, `processMessages` | a cycle of waits through reply, token, acknowledgement, callback and queue; reserved error codes; ids through float64 |
| DirWatcher, IsSubpath (`dirwatcher.go`, `util.go`) | `loaded`, `opList`, `opsByPath`, the timer, the watcher, two mutexes | `Load`, `Stop`, the event loop | files change between event, timer, stat and load; events are merged |
| ContentTracker (`content_tracker.go`) | a map of digests under a mutex | `Track` | the file changes or vanishes between calls of several goroutines |
| Timers (`timers.go`, `testutils/faketimer.go`) | the inner timer, `active` and the mutex of a fake one | `GetChannel`, `Stop`, `Reset`, `FireTimer` | ticks left unread by `Stop` and `Reset`; a test that waits in `fire` with the mutex |
| Debug logger (`log.go`) | `debuggingEnabled`, `useSyslog`, `keepDebug`, `Debug` | `SetDebuggingEnabled`, `UseSyslog`, `SetDebugLogger` | the flag is set without the mutex that guards the logger |
| Fake broker and clients (`testutils/fake_mqtt.go`) | `subscriptions` at the broker, `callbackMap` of each client, a mutex each | `Publish`, `Subscribe`, `Unsubscribe`, `Start`, `Stop`, `SetReady` | two orders of locking; handlers run under both mutexes; bounded channels behind them |
| Recorder (`testutils/testutils.go`) | a channel | `Rec`, `Verify`, `VerifyUnordered`, `VerifyEmpty`, `SkipTill` | expectations are rewritten in the caller's slice; timeouts |
| Profiling (`profile.go`), `Visit`, `Truename`, `GetStack` (`util.go`), fake model, suites and fixtures (`testutils/`) | - | - | - |

How they interact. The driver calls the client (`Start`, `Subscribe`,
`WaitForReady`, `Publish`, `Stop`) and gives it callbacks, which queue closures
on `handleMessageCh`. Application goroutines queue thunks on `eventCh`, directly
or through the `DeferredList` once the client is ready. One goroutine runs all
of them, the model's callbacks included, so a handler is atomic with respect to
the driver's maps; only `Stop` touches them from elsewhere (`cleanupTopics`).
The client and the broker are the only shared party of driver and RPC server.
In tests the fake broker takes the place of client and broker: it runs the
callbacks in the goroutine of the publisher and reports every call to the
recorder, whose channel the test empties.

What makes each part correct:

* Driver: the cache never refers to a replaced device; only the registered
  device is called, hardware devices never with a retained value; the record of
  a value topic is what the broker sent last; subscriptions belong to current
  controls; everything published with retain is cleaned up; a redefinition keeps
  the value of a virtual device; orders do not collide.
* Life cycle: thunks run once each, in order, none before the client is ready;
  none starves; `Stop` returns and leaves nothing but what was published after it.
* Client: after any losses the broker has the wanted subscriptions and retained
  messages; no call and no handler waits forever; ready is signalled once, after
  the old retained messages.
* RPC server: one reply per request, in order, with the right id and code; the
  methods it advertises can be called; neither the queues nor `Stop` lock it up.
* DirWatcher: at rest the client has the present versions of the files it asked
  for and no others.
* ContentTracker: changes of the file are reported in their order, each once. Timers: no tick that is not
  due. Logger: at rest it is the one the flag asks for.
* Test doubles: the fake broker delivers each publication as if it were atomic;
  its two tables agree; calls return; a verification that passes has met its
  expectations and one that fails has not.

## 2. Modules

| Module | Models | Theorems |
|---|---|---|
| `Driver` | devices, controls, topic cache, message handlers | `DriverProofs` |
| `DriverLoop` | `Start`/`Stop`, select loop, queues, DeferredList, cleanup | `DriverLoopProofs` |
| `ReadyQueue` | abstract: a gated FIFO queue; `DriverLoop` implements it | `DriverLoopProofs` |
| `PahoClient` | the client's calls, tokens, reconnection | `PahoClientProofs` |
| `ReadyHandshake` | `WaitForReady` | `ReadyHandshakeProofs` |
| `RPCServer` | registration, queue, requests and replies | `RPCServerProofs` |
| `DirWatcher` | loading, watching, `IsSubpath` | `DirWatcherProofs` |
| `FakeMQTT` | the fake broker, its clients, topic matching | `FakeMQTTProofs` |
| `Timers` | real and fake timers | `TestSupportProofs` |
| `Recorder` | reports and their verification | `TestSupportProofs` |
| `ContentTracker` | `Track` | `TestSupportProofs` |
| `Logging` | the debug logger | `TestSupportProofs` |
| `TestSupport` | the last four and `FakeMQTT` side by side, for one run and one set of theorems | `TestSupportProofs` |
| `MC...` | the instances TLC checks | |

### Driver

A handler or thunk is one action, because one goroutine runs them all. A device
object is a record with a fresh number (`objects` is the history), so that a
redefined device differs from its predecessor, as pointers do. A topic is a
record of device, control and kind; payloads are model values (`Text` for any
description, `BadNumber` for what `ParseFloat` refuses). `topics` has a
`driverTopic` per value topic (`received`, `dev`, `skip`, `ready`).
`AddExternalDevice` may fail. `call` records the last call into a device.
The broker is external: `retained`, and `Deliver` into `handleMessageCh` when a
subscription matches, the driver's own publications included; a new subscription
is answered with the retained messages in any order (`Listings`). Other clients
publish as long as `MaxPending` messages wait. The history variables `latest`
(last value sent per topic), `owned` (topics ever published with retain),
`declared` and `stray` (the `on` topics subscribed for the registered object and
for others) exist for the properties only. The model may hand `OnNewControl`,
like `OnValue`, an object that has been removed or replaced since: the driver
looks at nothing but its name.

### DriverLoop and ReadyQueue

`owner` walks through `Start` and `Stop`; `loop` is the goroutine, with the
sub-steps of a thunk that matter to others: a retained publication, its entry on
the cleanup list, and a `WhenReady` of its own. `Stop` reads the slice while the
loop may be appending (a data race): the header it gets is the old or the new
one. A failed `model.Start()` leaves `active` set, so `Stop` can be called and
then waits forever for a loop that does not exist; `StopTerminates` is about
drivers whose loop runs. The driver is started once: a second `WaitForReady`
would close the ready channel twice, and mqtt.go:162 marks restarting as unsupported.

`ReadyQueue` says what `WhenReady` promises. The refinement maps its queue to
the deferred thunks, those `Ready` has taken, and those in `eventCh`, in this
order; the gate to the list being `nil`.

### PahoClient

Each step between two points where another goroutine may act is an action: the
wait for `connMtx`, the part under it, the inner call after the unlock, the wait
for room in `tokens`, the write of `retainedMessages`, the wait of `PublishSync`
for its token. The goroutine of `Start` is at its select or in `token.Wait()`
(`drain`). `handler` is where `onConnect` is
(it holds `connMtx`). The concurrent map access of mqtt.go:74 and :184 is
undefined in Go: the runtime may stop the process (`crashed`) or not. External:
the inner client, the broker, the network. Assumed of them: clean sessions; a
topic has one user and one callback; a token completes over a connection that
stays up. One that is made without a connection, or not complete when its
connection is lost or `Stop` disconnects, completes with an error or never: the
code relies on the library here, and `hung` says that some token never will. The broker may lose its
retained messages with a connection. The library starts each handler in a
goroutine of its own, so handlers run later than their events and in any order;
`inverted` records that one overtook another. After such an inversion the client
may take itself for disconnected for good, and the properties say what holds
nevertheless (what is restored when it does take itself for connected; retained
messages in any case). `cleared` records how a topic was last emptied, since
`PublishSync`, unlike `Publish`, leaves it in `retainedMessages`.

### ReadyHandshake

The two probes and the old messages travel in one FIFO per QoS; QoS 1 messages
may be duplicated. The driver's call order is `Start`, `Subscribe`,
`WaitForReady`; `onConnect` runs whenever the library gets to it, after a further
loss, too. The subscription to the wait topic may fail without a connection or be
refused over one. `Restart` stops
the driver and starts it again: the second `WaitForReady` closes a closed channel,
and `ReadyClosedOnce` says that nothing else does. A client made without
`waitForRetained` is ready at once.

### RPCServer

A request has the features replies depend on (JSON or not, kind and value of the
id, whether the params fit). `FLOAT_EXACT` stands for 2^53, beyond which an
integer comes back as its even neighbour. A receiver is a set of methods with
the conditions that `suitableMethods` tests by reflection. A method returns
nothing, an error, or an error with a code; a reserved code stops the process.
Application errors are taken without an `InternalErrorCode` method. A second
`Stop` closes a closed channel, and a `Start` after a `Stop` does nothing, as
`active` stays set. A behaviour follows one scenario: which receivers are
registered, which requests come, what methods return, how many there are. One goroutine
of the client runs callbacks, and acknowledgements come in the same stream behind
the messages; a callback that finds `messageCh` full therefore holds up the
acknowledgements the server may wait for (`flooded`).

### DirWatcher

A path is the sequence of its names; contents have two versions. `Load` holds
`evMtx` and works off a list of tasks (stat, directory, add a watch, load), and
the files may change before each; `processEvents` does the same in the loop.
External: the file system and fsnotify, which gives events of a watched path in
the order of the changes. The files of `Busy` are written without end, which restarts
the timer again and again. What no watcher could see is recorded in `missed` and
left out of `ClientInSync`; the comment there lists the four ways.

### FakeMQTT, Recorder

A goroutine has a client and is in at most one call; `pc` says which mutex it
waits for or what it does with it. `Publish` holds the broker's mutex over all its
deliveries and takes each client's; `Subscribe` and `Unsubscribe` hold the
client's and take the broker's once per topic. A handler sends to a channel that
the client's goroutine empties when it is in no call, which is how the driver and
the RPC server use it. Topic matching is a recursive function over the parts, as in
`topicPartsMatch`, and is compared with a definition by sets of positions
(`RefMatch`) through what it delivers. History: `owed`, the calls of handlers that
a publication owes each client when it is reported.

`Recorder` has the channel with its contents; `FakeMQTT` only counts them. An
expectation is a text or a matcher with the items it accepts. The slice that
`verify` rewrites (`logs = logs[:]` copies nothing) is the caller's own when the
call passes one with `...`; `stale` says that an earlier call rewrote it.

### Timers, ContentTracker, Logging

A timer of any of the five kinds, its owner, and the test that fires a fake one.
`fire` holds the mutex until the owner receives. The content of a file is a number;
`written` has the contents given to it, in which one may come back, and `reports`
the writes that `Track` reported, per key. `Track` takes two steps, reading and
comparing, in one critical section. The
debug flag is stored outside the mutex under which the logger is derived from it.

## 3. Runs

| Run | Shows | Instance |
|---|---|---|
| `driver_values` | `TypeOK`, `CacheCoherent`, `CallsAreProper`, `CleanupComplete`, `ViewTracksBroker`, `CaughtUpKeepsValue` | one device, one control with two definitions, two values, two device objects, one waiting message |
| `driver_definitions` | `SubscriptionsOwned`, `OrdersBelowNext` | one device, two objects of it, local or external, two controls with and without explicit order, up to two per definition, declared by either object |
| `driver_on_panic` | violation of `OnDeviceIsLocal` | two waiting messages and `RemoveDevice` |
| `driver_redefinition` | violation of `RedefinitionKeepsValue` | as above |
| `driver_loop` | `TypeOK`, `NothingLost`, `CleanupLeavesOnlyLate`, `ImplementsReadyQueue`, `EverythingRuns`, `StopTerminates` | two goroutines, four thunks, one of them given by another; queues of two |
| `ready_handshake` | `ReadyClosedOnce`, `ReadyAfterRetainedIfOrdered`, `EventuallyReady` | two losses, two duplicates, a restart, a refused subscription, with and without waiting |
| `handshake_late` | violation of `ReadyAfterRetained` | no loss, no duplicate |
| `paho_reconnect` | `TypeOK`, `SubscriptionsRestored`, `RetainedRestored`, `ClearedStaysCleared` | one goroutine with two calls, one topic, two payloads, two losses, handlers in any order, a restart |
| `paho_live` | `CallsReturn`, `Reconnects` | one goroutine with two calls, a token queue of one, one loss, `Stop` |
| `rpc_server` | `ReplyFits`, `AdvertisedIsCallable`, `HandledOnceInOrder`, `EveryRequestAnswered`, `StopEnds` | two scenarios: one request of every sort, every outcome, three receivers; three requests of one sort, a queue of two, a token queue of one, two calls of `Stop` |
| `dir_watcher` | `ClientInSync`, `OnlyRequestedFiles`, `ChangesAreProcessed`, `StopReturns` | a directory, a subdirectory there or not, a matching file and another; three loads, changes of the tree and writes of the other file together; writes of the matching file without end, one event waiting; one `Stop` |
| `test_support` | `DeliveredAsPublished`, `TablesAgree`, `CallsReturn` (broker); `TicksAreDue`, `TimerCallsReturn`; `VerifyTells`; `ReportsFollowWrites`; `FlagAndLoggerAgree` | two clients with two calls each, two overlapping patterns, channels of one and two; three ticks and five calls of the owner; four items, two verifications; two goroutines with two calls each; three writes of two contents |

A behaviour of `test_support` is one of a single part (`part` of `TestSupport`);
the five share no state in the code.

Deadlock checking is off everywhere: the bounds end every behaviour, and a
driver that is never stopped or a server nobody calls is legitimately idle.

Why the bounds are enough. Stale caches need an object and its successor (two
objects) and a message in between (one); the panic of `on` messages needs two
messages, one to re-create the device and one to meet it. Handlers touch one
device only and cached topics are per control, so a second device adds nothing
but products; orders and lists need two controls. Queue properties need a queue
that fills, one thunk more than fits, and two senders. Reconnection needs a loss
while the previous `onConnect` is running, hence two losses, and two calls on a
topic, a first and one that takes it back or replaces it, anywhere around them. Three requests are one in
the method and a full queue, or a full queue and a callback that waits; with the
fourth that a lock-up takes, the properties except what follows (`flooded`). Two
changes of a file system make a removal and a creation of one path, of a file and of its directory, or a
new directory with a file in it. Two clients are enough for the fake broker: the
two orders of locking cross between a publisher and a subscriber, and a pattern
with wildcards beside an exact one that matches the same topic gives a client two
reasons to receive a message. Two verifications make a slice that was rewritten
and is used again; three writes of two contents make a file that goes back to its
first one. Events that never end take no more than one that waits while another is
made.

Fairness. Goroutines that can run do run (weak fairness). `select` chooses
uniformly among ready cases, and a channel serves blocked senders in turn, so a
case or a send that is possible again and again happens (strong fairness); the
same for a mutex that is free again and again (the steps of a call of the fake
broker, which wait for one or the other). The owner of a timer receives, and the
reader of a handler's channel reads, when it is in no call. The library reconnects; what
is sent over a connection that stays up arrives. A token completes over such a
connection; `token.Wait()` is fair only as long as no token is left for dead
(`~hung`), and then `CallsReturn` and `Reconnects` promise nothing but, of `Stop`,
that it waits for nothing else. The reload timer fires unless events restart it for
ever (`TimerFires`), since `Reset` begins the delay anew. Nothing
is assumed of application code: nobody has to call `Start` or `Stop`, to publish,
or to lose a connection, and nothing is assumed of `model.Start()`. RPC methods
and the model's handlers are taken to return.

## 4. Findings

* A removed device that comes back as an external one while an `on` message of
  its predecessor waits makes the assertion at driver.go:484 panic (`driver_on_panic`).
* "keep value in the case of new virtual device definition" (driver.go:367) does
  not hold while the value message is still queued (`driver_redefinition`);
  without unhandled messages it does (`CaughtUpKeepsValue`).
* "our message will arrive after the old messages" (mqtt.go:97) needs the driver's
  subscriptions to exist, but a `Subscribe` that finds `connected` false is only
  stored, and `WaitForReady` does not look at the flag (`handshake_late`); when
  the order is right it holds (`ReadyAfterRetainedIfOrdered`).

Met on the way, without a run of their own:

* An object that was removed or replaced can still declare a control
  (`OnNewControl` uses only its name): the driver subscribes to its `on` topic and
  lists it under the name, and a later `RemoveDevice` that finds no local device of
  the name drops the list without unsubscribing. `SubscriptionsOwned` says that no
  other subscription is left behind.
* Events closer together than the delay of the reload timer postpone all processing
  for as long as they come (dirwatcher.go:96); `ChangesAreProcessed` says that
  otherwise, events without end included, what is registered is processed.
* `ContentTracker` compares with the last content only, so a file that goes back to
  an earlier one is reported again.
* `Stop` of the client waits for a goroutine that may be in `token.Wait()`
  (mqtt.go:152) for a token whose connection is gone; it returns only if the library
  completes such tokens. The same holds, once the queue of tokens is full, for
  `Publish`, `Subscribe` and `onConnect`.
* rpc.go:521 says that the id is a string at `buildResponse`; integral ids get
  there as float64, and rpc_test.go relies on it.
* An event is merged in an earlier op of its path, which may stand before the removal
  of the directory above it (dirwatcher.go:86). A file changes, its directory is moved
  away, made again and given to `Load()` again, and the file is created in it, all
  within the delay: `processEvents` loads the new file and then removes it as one of
  the old directory. It exists, its directory is watched, and the client does not
  have it until its next change. That takes two loads and three changes of the tree, more than the three inputs of the run;
  the attempt to prove `ClientInSync` showed that such a file is one of the `missed`.
* `IsSubpath("/d/e", "/d")` is true, as ".." has no prefix "../" (util.go:101);
  `removePath` is not affected, since only files are compared.
* After a loss and reconnection while `onConnect` runs, an `Unsubscribe` can stay
  local and the broker keep the subscription (comment of `SubscriptionsRestored`).
* After an `onConnectionLost` that runs later than the `onConnect` of the next
  connection, `connected` stays false although the connection is up; subscriptions
  are then only stored until the next reconnection.
* `PublishSync` leaves the topic in `retainedMessages`: a topic cleaned up with it
  comes back with the next reconnection, if there is one (`ClearedStaysCleared`).
* The fake broker locks up in three ways (`Crossed`, `Flooded`, `RecorderFull`):
  a publication and a subscription that took the two mutexes in opposite orders; a
  full channel whose reader publishes or subscribes; more than 1000 reports that
  the test does not read. `CallsReturn` of `FakeMQTT` says that nothing else does.
* `Stop` of a fake timer by its owner while the test waits in `fire` locks both up.
* A `Verify` of a slice with matchers that was verified before compares with what
  the matchers met the first time and may fail although its expectations are met.
* In `verify`, a matcher that refuses an item is replaced by its text, which is then
  compared with the item: an item equal to the text of a matcher that refuses it
  passes (`Misled`; `VerifyTells` excepts it). For `RegexpMatcher` that is an item
  that reads like the regexp.
* The `text` of `RegexpCaptureMatcherWithCustomText` is not used, although
  testutils.go:76 says that it is "used in mismatch logs"; the matcher's text is
  the regexp.
* A thunk that calls `WhenReady` or `CallSync` while `eventCh` is full locks up
  the driver (`SelfBlocked`); `EverythingRuns` and `StopTerminates` say that
  nothing else does.

## 5. Proofs

Each theorem holds for every value of the constants that satisfies the named
assumptions of its module: any number of goroutines, devices, topics, paths,
requests or items, queues of any length, and any values of the bounds, which are
arbitrary natural numbers there. `PROJECT.json` lists the theorems with the
property each states; those of the runs of section 3 are meant by their names.

**`DriverProofs`** (finite sets of names; the constants that stand for payloads
differ where the code tells them apart).

* `TypeCorrect`, `CacheIsCoherent`, `CallsProper`: `CallsAreProper` compares a
  called object with the one registered under the object's own name, while handlers
  look it up under the name in the topic, in `deviceMap` or, past it, in the cache of
  `topics`. Neither statement is inductive without the other map: the device a
  handler finds is the right one only if what is registered under a name bears that
  name (`RegisteredByName`, kept by `OnNewDevice` and `ensureDevice`) and if what is
  cached is what is registered. The inductive invariant is
  `CacheInv == TypeOK /\ RegisteredByName /\ CacheCoherent`. `RegistrySteps` reduces
  a step to those that touch registry, cache or `call`; each has a lemma, and
  `CacheStep` puts them together.
* `CleanupIsComplete` needs `RetainedListed`: `publishValue` puts nothing on the
  cleanup list and relies on `OnNewControl` having listed every topic whose retain
  flag it set, however long ago and for whichever definition of the device.
* `SubscriptionsAreOwned` needs that what the registered object declared is on its
  list of controls (`DeclaredListed`), which is what `RemoveDevice` unsubscribes from;
  `OrdersAreBelowNext` is inductive with the types.
* `ViewFollowsBroker`: `ViewInv` speaks of the queue through a relation instead of a
  fold. `Ends(q, t, old, v)` says that handling the messages of `q` on topic `t`,
  starting from `old`, ends with `v`; the lemmas about it cover one message more at
  either end, messages of other topics and the messages of one subscription, and
  every action is one of these.
* `DefinitionKeepsValue` is the action property `CaughtUpKeepsValue`, from `ViewInv`
  before the step.

**`DriverLoopProofs`** (every thunk is given once, by a caller's program or by
another thunk).

* `TypeCorrect` with `Running`, which ties the places of loop and owner together.
* `CleanupIsComplete`: `CleanupInv` follows a retained message from the loop (between
  publication and `addCleanupTopic`) to the list and to the header `Stop` read.
* `NoThunkLost`: `PlaceInv` says that the places a thunk may be in are apart from
  each other and hold exactly what was handed over so far.
* `QueueRefined` is the refinement: `GateInv` says what the gate being open or closed
  means for every place, and each step is shown to be a step of `ReadyQueue` or a
  stutter under the mapping of section 2.

**`ReadyHandshakeProofs`**: `CloseInv` (where the waiter is, what is under way, and
`ready`) gives `ClosedOnce`; `OrderInv` (behind which old messages the probes travel,
in both streams, once the subscriptions were made in order) gives
`ReadyMeansReceived`.

**`PahoClientProofs`** (a topic has one user).

* `TypeCorrect`, with what a call has in its hands at each of its places.
* `SubscriptionsKept`: `SubsInv` says that the last event not yet noticed is the
  state of the connection unless handlers were inverted; that a call under way agrees
  with `subs`; and, per topic, that the broker has it, or a step under way (the call
  after the unlock, the loop of `onConnect`, an event waiting) will give it.
* `RetainedKept`, `ClearedForGood`: `RetainedInv` does the same for
  `retainedMessages`, for the topics no `Publish` overlapped `onConnect` with.

**`RPCServerProofs`** (requests have one of the kinds of ids, outcomes an integral
code). `AdvertInv` gives `AdvertsHold`. `QueueInv` numbers the messages as they are
delivered, `DoneInv` says which of them are answered or have no reply, and together
they give `HandledInOrder`. `FitInv` gives `RepliesFit`.

**`DirWatcherProofs`** (finitely many paths, each a sequence of names; only
directories have something below them). `OnlyRequested`: `RequestInv` carries the
condition through the tasks of `Load` and `processEvents` and the queue of
operations, which is what decides what is loaded later. `ClientKeptInSync`:
`SyncInv` says of each file what is still to come. One that is gone and that the
client has will be removed, by its own op or by that of the directory it went with
(`GoneIsRemoved`). One that is tracked is up to date with no removal waiting, or its
own last op is a change, or a task is going to load it (`TrackedIsLoaded`). One that
is watched itself stays explicit, or the reload would skip it (`ExplicitStays`). A
watch is added before what it is for is loaded (`AddedIsLoaded`), so nothing falls
between them but what `missed` records. Merging an event in an earlier op keeps the
last word on each path and adds no removal (`MergedKeepsLast`), and `IsSubpath` finds
the files of a path although it accepts "..", as nothing is below a file
(`SubpathIsPrefix`).

**`FakeMQTTProofs`** (no empty list of topics, finitely many patterns): `LockInv` says who holds which of the
two mutexes at each place of each call; `TableInv` adds that the broker lists a
client for a pattern exactly once if it has handlers, and in the middle of a call if
it is going to have them. `TablesConsistent` follows. The loop of `Unsubscribe` is a
recursive function; that it exists and what it computes is shown by minimal
counterexample (`AllNaturals`), as the library's induction rule cannot be used.
`MatchIsRef` does the same for `topicPartsMatch`: its recursion has a closed form
(`MatchFrom`), which is `RefMatch`. `DeliveredExactly` keeps the account of a
publication: `OwedInv` says that each client is owed its handlers once for every
place of it still to be visited, and those left of the present visit. The handlers
of a client do not change meanwhile, as those of a call between its two updates are
counted from the first on; by `TableInv` a client has one place per pattern.

**`TestSupportProofs`** (items are texts; a plain expectation accepts itself only).
`TimerInv` counts the ticks a real timer may have fired and those a fake one was
given, `NoTickTooMany`. `RecorderInv` derives the slices a verification is at from
those it was called with; that the comparison of sorted sequences means what
`VerifyTells` says, the existence of an arrangement, is the pair of lemmas `Counted`
and `Arranged`: `VerifyIsTruthful`. `TrackerInv` says that whoever has read the file
has the mutex and has read a write no older than any reported: `ReportsAreInOrder`.
`LoggerInv` gives `LoggerFollowsFlag`.

Only model-checked:

* liveness (`EverythingRuns`, `StopTerminates`, `EventuallyReady`, `CallsReturn` of
  both modules, `Reconnects`, `EveryRequestAnswered`, `StopEnds`,
  `ChangesAreProcessed`, `StopReturns`, `TimerCallsReturn`): TLAPS does not do
  fairness;
* the violations.

## 6. Not modelled

* Profiling, `Visit`, `Truename`, `GetStack`, and the loggers other than the debug
  logger: output, files, reflection, signals, without state of their own.
* The fake model (`testutils/fake_model.go`): it keeps the values it is given and
  reports the calls. `Driver` has any model in its place.
* Suites, temporary directories, `TestLog`, the RPC and data file fixtures
  (`testutils/`): straight-line test support over the testing library, the file
  system and the fake broker. The table of fake timers by id is left out, too.
* Calls on a client that is not started and topics given to a wrong client, which
  panic at once; the errors the file watcher reports, which are only logged;
  `numCalls` of a method, which nothing reads.
* A restart of the driver while the goroutine of its first `WaitForReady` runs.

## 7. Plan

Done, in this order: `Driver` with its proofs, `DriverLoop` with `ReadyQueue`,
`ReadyHandshake`, `PahoClient`, `RPCServer`, `DirWatcher`; then handlers in any
order and cleared topics in `PahoClient`, restarts in `ReadyHandshake`, and
`FakeMQTT`, `Timers`, `Recorder`, `ContentTracker`, `Logging`.

Proved since: all safety properties of the runs, and the refinement.

Next theorem: `Driver`, that the type assertion of driver.go:484 holds when the model
never removes a device nor announces an external one.

Next modules: `Driver` over `PahoClient`, with the cleanup of `Stop` through
`PublishSync` and a lost connection in between.
