# SPSP in TLA+

SPSP (Simple publish-subscribe protocol) connects small clients over ESP-NOW to a
*bridge*, which forwards their data to a *far layer*: an MQTT broker, or a broker
inside the bridge. This directory holds TLA+ models of its nodes and layers,
configurations that check small instances with TLC, and theorems that TLAPS
proves for instances of every size. Paths below are relative to the repository.

## 1. The system

| Part | State | Operations | Talks to |
|---|---|---|---|
| Bridge node `include/common/spsp/bridge.hpp`, `node.hpp` | `m_subDB` (trie: topic to map of address to lifetime and callback), `m_mutex`, `m_subDBTimer` | `processSubReq`, `processUnsub`, `subscribe`, `unsubscribe`, `subDBTick`, `resubscribeAll`; stateless: `receiveFar`, `publish`, `processProbeReq`, `processPub`, `processTimeReq` | local layer (`sendLocal`, `receiveLocal`), far layer (`subscribe`, `unsubscribe`, `publish`, called back by `receiveFar` and `resubscribeAll`) |
| Client node `client.hpp` | `m_subDB` (topic to lifetime and callback), `m_mutex`, timer; `m_timeSyncPromise`, `m_timeSyncOngoing` | `subscribe`, `unsubscribe`, `subDBTick`, `resubscribeAll`, `publish`, `processSubData`, `syncTime`, `processTimeRes` | local layer |
| Subscription trie `wildcard_trie.hpp` | a tree of levels | `operator[]`, `insert`, `remove`, `find`, `forEach` | used by bridge, client, local broker |
| ESP-NOW layer `src/common/espnow.cpp` | `m_mutex`, 15 buckets of a mutex and a promise, `m_bestBridge` | `send`, `connectToBridge`, `receive`, `sendCb` | adapter, WiFi, node |
| Packet serializer `espnow_ser_des.cpp` | none | `serialize`, `deserialize` | ESP-NOW layer |
| ESP-NOW adapters `src/linux`, `src/espidf` | sockets or the IDF driver, peers | `send`, `addPeer`, `removePeer`, receive threads | ESP-NOW layer |
| MQTT layer and adapters `src/common/mqtt.cpp`, `src/linux/mqtt_adapter.cpp`, `src/espidf/mqtt_adapter.cpp` | initialization promise, connection | constructor, `publish`, `subscribe`, `unsubscribe`, callbacks | broker, bridge |
| Local broker `src/common/local_broker.cpp` | a trie of subscribed topics | the same | bridge |
| Timer `src/common/timer.cpp` | run flag, condition variable | constructor, destructor, thread | nodes |
| WiFi station `src/espidf/wifi_station.cpp` | connecting promise, initialized flag | constructor, event handlers | MQTT and ESP-NOW layers |
| Bridge daemon `linux/bridge_espnow.cpp` | configuration | `main` | everything on Linux |

### What is hard about it

- **Threads.** Every received packet and every message of the broker is handled
  by a thread of its own (`src/espidf/espnow_adapter.cpp:42`,
  `src/linux/mqtt_adapter.cpp:232`). With them run one timer thread per node,
  the application, and the thread that reports a new connection. The tick of the
  bridge is three critical sections of `m_mutex`, and some operations block in
  a far layer call with the mutex held.
- **Lost, late and reordered messages.** ESP-NOW reports delivery of a frame,
  and the report itself may be lost. Nothing keeps messages in order.
- **Leases.** A subscription at the bridge ends unless the client renews it, and
  a restarted bridge remembers none. MQTT sessions are clean: with a connection
  all subscriptions are gone.
- **One-shot promises** (`std::promise`) are replaced after use; whoever retrieves
  a future or sets a value twice ends the program.

### What makes each part correct

- *Bridge*: topics with local subscribers are subscribed upstream, others are not
  for long; an entry goes only when its owner says so or does not renew it.
- *Client and lease*: while the application is subscribed, the bridge has the
  entry, whatever is lost, reordered or restarted; else it has not for long.
- *Trie*: it is a map, and `find` returns what matches.
- *ESP-NOW layer*: `send` returns the fate of its own frame, the scan is not
  disturbed, the radio is on the bridge's channel, nothing stays locked.
- *Time synchronization*: a call returns if no response is late, leaves a clean state,
  and a response sets the clock only while one is waited for.
- *Delivery*: what is published reaches every callback that was subscribed and
  nothing else, at most once for each way it matches; reports do not beget reports.
- *Packets*: what a node of the network sent arrives as it was, whatever the
  capture puts around it, and nothing else is taken for a message. Its sender's address and
  the strength of its signal are right under conditions only (section 3, weak points).
- *Process*: a bridge runs only with an address and a broker, its threads end
  before what they use, it stops when told to and does not live on when deaf.

The hazards behind these properties are listed, each with its line, in
`PROJECT.json`.

## 2. Modules

`<X>Proofs` holds the theorems about `<X>` (section 4), `MC<X>` what TLC needs to
check it.

### `Bridge`, `FarInterest` (abstract), `BridgeProofs`

`Bridge` models `m_subDB`, its users and the far layer. `topics` are the keys of
`m_subDB`, `subDB[t][a]` the lifetime of an entry or `NoEntry`; the two are kept
apart because the code creates topics without entries (`m_subDB[topic]`).
`mutex` is the thread that holds `m_mutex` across steps. A critical section
without a far layer call is one step. With a call it is several: the request is
made, the broker acts, the section goes on, so that the connection can drop
between any two. Workers stand for the threads that handle requests and for the
application, `Timer` and `Conn` for the timer and the reconnection thread.

| Code | Actions |
|---|---|
| `processSubReq`, `subscribe` | `Subscribe`, then `FarSubscribeSucceeds`, `InsertFirst` or `FarSubscribeFails` |
| `processUnsub`, `unsubscribe` | `Unsubscribe`, then `RemoveUnusedTopics` |
| `subDBRemoveUnusedTopics` | `RemoveUnusedTopics`, then per topic `FarUnsubscribeSucceeds` or `FarUnsubscribeFails` |
| `subDBTick` | `DecrementLifetimes`, `RemoveExpiredEntries`, `RemoveUnusedTopics` |
| `resubscribeAll` | `SnapshotTopics`, then `Resubscribe` per topic, without the mutex |
| far layer | `Disconnect`, `Reconnect`; a call may fail, or take effect and still fail |

`dropped` and `unrestored` are history variables: what a lost connection took,
and what a resubscription failed to restore. `UnknownUnsubOk` tells MQTT (the
broker acknowledges an unsubscription of anything) from the local broker (its
trie has nothing to remove and says no).

Abstractions: the order in which a loop visits its topics is arbitrary, as the
trie's is; callbacks have no part in the state. Topics do not begin with a
separator (see the weak points below). The far layer is connected from the
start, as the constructor of the MQTT layer waits for the first connection.

`FarInterest` is what all this is for: one upstream subscription per topic shared
by its local subscribers. It has no threads, lifetimes or mutex.

### `WildcardTrie`, `WildcardTrieProofs`, `KeyValueStore` (abstract)

A trie is a set of nodes (paths of levels) with a leaf flag and a value each.
`remove` prunes ancestors that became redundant. `KeyValueStore` is a partial
function with `operator[]`, `insert` and `remove`; the refinement mapping takes
the leaves. `find` and `forEach` are pure operators, the first compared with a
definition of matching that is independent of the trie's walk.

Wildcards differ from MQTT in one point: `abc/#` does not match `abc` here.

### `EspNow`, `EspNowProofs`

The layer with its two kinds of mutexes, the buckets' promises and the frames
and probe responses under way. `send` is `Send`, `Lock`, `AddPeer`, `Transmit`,
`RemovePeer`, `SendReturns`; `connectToBridge` is `Reconnect`, or `StartScan`, the
shared frame steps, `ProbeSent`, `NextChannel`, `ScanEnds`, `Resubscribe`; `sendCb`
and `receive` are `SendCb` and `ReceiveProbeRes`. `failed` stands for an uncaught
exception of a promise or of the adapter, after which nothing happens.

`Send` reads the bridge's address in one step; the code reads `m_bestBridge` twice without a
lock (`espnow.cpp:53`), so that a scan may clear it in between, or while its string is
copied. That race is left out.

`BucketOf` is the hash. `LateAnswers = FALSE` says a probe response is handled
during the 100 ms the scan stays on its channel; otherwise `RadioFollowsBridge`
fails, because `receive` asks for the channel only then.

### `Client`, `Lease`, `LeaseProofs`

`Client` models the subscriptions of a client. `subscribe` sends first and inserts
after the acknowledgement, without the mutex in between; the tick and
`resubscribeAll` hold the mutex while they send. A message is transmitted in one
step (it may get lost, or its acknowledgement may) and its result is read in
another. `Lease` adds what the bridge keeps for this client, the bridge's tick,
the handling of messages in any order, and a restart of the bridge. A request for a
topic that has an entry renews it; for one that has none the bridge may ask the far
layer first, which may refuse (`Stored`): then nothing is stored although the radio has
acknowledged the request. `subscribe` returns true all the same, and the client asks again
only when its own lifetime has run out.

`phase` keeps the two timers, which have the same period, within one tick of each
other. `slow` is a history variable: some call or message was under way across a
tick. The safety property is about the runs in which that did not happen (calls
take milliseconds, a tick is a minute); the liveness properties do not use it.

### `TimeSync`, `TimeSyncProofs`

Consecutive calls of `syncTime` and the responses, each handled by a thread of
its own, perhaps after its call has given up. `clock` remembers whose response
set the clock. `failed` is the end of the program by `std::future_error`. `late` is a
history variable: since the last call began, the response of an earlier one was handled.
Only then may a call fail to return (`CallReturns`), and only then does the program end.

### `Delivery`, `DeliveryProofs`

The way of data: `publish` of a client or of the bridge, `processPub`,
`LocalBroker::publish`, `receiveFar`, `publishSubData`, `processSubData` and the
callbacks, with the reports (`publishRssi`, probe payloads) that the nodes publish
by the same ways. Each hop is a thread in the code, so `threads` is the bag of those that
have not begun, and they begin in any order; a message in the air is the thread that will
handle it, and two equal messages are two threads. The client's loop over callbacks works
with references after the mutex is released: they are elements of the bag too (`entry`),
called in any order, and an `unsubscribe` or a `subscribe` of the same topic makes them
`stale`. Calling a stale one may find the old callback, find none, or end the program
(`CallCallback`). Filters are opaque; `Matching` is the relation the trie computes
(`WildcardTrie`). `calls`, `repeated` and `owed` are history variables: which callback got
which publication by way of which entry of the bridge, which of these calls were made more
than once, and which callbacks were subscribed when a publication was made and have to get
it still. A publication stops being owed when the subscription is given up or replaced,
when the radio loses it (`MaxLosses`), or when the client's program has ended.

`subDB` keeps who subscribes, without lifetimes (`Bridge`, `Lease`), and a SUB_REQ
is one step, which it is with the local broker: its `subscribe` neither blocks nor refuses,
and is called when the topic has no subscriber. A request may be received while its
acknowledgement is lost: then the bridge has the entry and the client has none.

### `Bytes`, `SerDes`, `RawCapture`, `Packets`, `PacketsProofs`

The way of a message as bytes. `Bytes` writes out the operators of C++ on bytes, bit by
bit, so that they can be reasoned about (the instance compares them with those of the
library). `SerDes` is `serialize` and `deserialize`; the cipher
is an exclusive or with a stream, of which `Block` gives each byte as a function
of password, nonce, block and position (what ChaCha20 computes in a block is not
looked at, that it starts a new block with the next counter every 64 bytes is).
`RawCapture` is the Linux adapter: the frame `send()` builds, the socket filter as
the program it is, with one step of the machine of the kernel (`Step`) and a run as
a function of the number of steps, and the parsing of radiotap headers and action frames. `Packets` lets a sender of this or
another network send, changes a byte of the frame or cuts it, adds the header and
the trailer of a driver, and runs filter, parsing and deserialization.

| Code | Actions |
|---|---|
| `ESPNOW::send`, the probe of `connectToBridge` | `Refuse`, `Send` |
| the channel, the driver, the kernel | `OtherTraffic`, `Capture`, `RunFilter` |
| `handlerThread`, `processIEEE80211RawPacket` and what it calls | `Parse`, `ReadNext` |
| the thread it starts: `recvCb` | `Receive` |

`Parse` hands on the position of the sender's address in `buffer`, not the address: the
thread is given the pointer `action->src` into the buffer of `handlerThread`, and takes the
address from there when it starts (`Received`). `ReadNext` is `handlerThread` going on before
that; it writes another capture, or the first bytes of one, into the same buffer. Payload and
signal are copied when the thread is made. One frame at a time is followed to the end. That
`handlerThread` may end and take its buffer along before the thread has started is left out.

Drivers align the fields of a radiotap header (`Padding`, compared in `MCPackets` with aligning
field after field), which the parser does not know. Of a header without padding it reads the
signal, of one with padding another byte; the frame it finds behind either.

Two things are presupposed. A network with the same SSID and another
password is told apart by an eight-bit checksum only, so one in 256 of its packets
passes. And the probe of `connectToBridge` is sent without the check of the length: the payload
that is configured for it has to fit (`MessagesAssumption`).

### `WifiStation`, `MqttLink`, `BridgeProcess`, `BridgeProcessProofs`

A bridge from start to end. `WifiStation` is the constructor of the WiFi station,
call by call, and its event handlers; `MqttLink` the constructor of the MQTT layer
and the thread of the library that reports connections. `BridgeProcess` puts them
together with the main thread, which builds `Objects` in order and destroys them
in reverse (`built` counts them), the capture thread (`handler`), the timer and
detached threads that hold `Bridge::m_mutex` or wait in a far layer call. On the
ESP the same objects are built and nothing takes them down.

| Code | Actions |
|---|---|
| `main` | `ReadConfig`, `ConfigRejected`, `Build...`, `AllBuilt`, `ConstructorThrows`, `Exits` |
| `waitForTermination` | `ChecksFatal`, `Waits` |
| `~Timer`, `Timer::handlerThread` | `StopTimer`, `JoinTimer`, `TimerFires`, `TimerEnds` |
| `~Adapter`, `Adapter::handlerThread` | `StopHandler`, `JoinHandler`, `HandlerFails`, `HandlerStops` |
| critical sections of the bridge | `Lock`, `FarCall`, `Unlock` |
| `MQTT::MQTT`, `connectedCb` | `SetConnectedCb`, `Connected`, `ConnectTimeout`, `ReportFirst`, `ReportAgain`, `ReportMissed`, `ReportFaults` |
| `Station::Station`, its handlers | `StationCallSucceeds`, `GetsAddress`, `AddressTimeout`, `Associated`, `GotAddress`, ... |

`aborted` is the end by an exception that leaves a thread, or by a call of what is
not there (yet or any more), which is undefined and may do anything: the step is
one the program may take. What the messages carry is that of `Delivery`, so a
thread only takes the mutex, perhaps waits, and ends; the threads of RSSI reports
come and go like those of data. The timer's tick has three critical sections, of
which the last may wait for the far layer. An ESP bridge with the local broker is
left out.

## 3. Runs

| Run | Question | Result |
|---|---|---|
| `bridge_safety` | are used topics subscribed upstream, or on the list of what a lost connection took? is nothing removed early? is it a `FarInterest`? | holds |
| `bridge_live` | do unused topics go, and silent clients? | holds |
| `bridge_reconnect` | the first, with a reconnection | fails: finding 1 |
| `trie_map` | is the trie a map that finds what matches, without dead nodes? | holds |
| `espnow_layer` | fate of the own frame, undisturbed scans, right channel, no lock kept | holds |
| `espnow_bucket` | the first, when the hash puts a bridge and broadcast together | fails: finding 2 |
| `lease_default` | are leases renewed in time, and do both sides agree in the end? | holds |
| `timesync_calls` | does every call clean up and return, unless an earlier response comes in between? is the clock set only when asked? | holds |
| `delivery` | does data reach who subscribed, and nobody else, as often as filters match? do reports of reports come to an end? | holds |
| `packets` | does what fits arrive unchanged, and nothing else? does the filter pass exactly ESP-NOW? | holds |
| `process` | does a bridge start connected, stop with its threads, and exit when deaf? | holds |
| `mqtt_deadlock` | can the connected callback wait for a thread that waits for Paho? | it can: finding 3 |

### Findings

1. `resubscribeAll` subscribes from a snapshot what was unsubscribed meanwhile;
   nobody removes that far layer subscription.
2. A scan asks for the future of a promise that a pending `send` of the same
   bucket has retrieved: `std::future_error`.
3. Paho holds its mutex while the connected callback takes `Bridge::m_mutex`, and
   the owner of that may be waiting for Paho. The flag that keeps the callback from
   waiting itself does not help here. (`PahoHoldsMutex = TRUE` is what the comment
   in `mqtt_adapter.cpp` says of Paho; the run `process` is about a library that
   does not do that, as nothing else would be left to look at.)

Each is described with the contradicted comment in `PROJECT.json`. Weak points
that the models show when their constants are changed, or that they exclude by an
assumption:

- An UNSUB for an unknown topic creates it (`bridge.hpp:449`); the local broker then
  refuses to unsubscribe it (`local_broker.cpp:78`), so it is never removed:
  `UnusedIsRemoved` fails with `UnknownUnsubOk = FALSE`.
- `/abc` is reported by the trie as `abc` (`wildcard_trie.hpp:189`, `234`), so ticks
  work on the wrong item: `FindIsMatching` fails with a key whose first level is
  empty.
- `processSubData` calls callbacks through references into the database, without the
  mutex (`client.hpp:388`): an `unsubscribe` or `subscribe` of the topic meanwhile destroys
  or replaces the callback it is about to call. `NoDanglingReference` of `Delivery` fails
  when it is added to the run `delivery`.
- A late `TIME_RES` and the one of the current call, both handled before the call cleans up,
  both set the value of the promise: `std::future_error` in a thread where nothing catches it.
  `CallReturns` without `late` fails. Also when nothing throws, the late one sets the clock
  during the next call (`client.hpp:436`).
- The thread for a received frame takes the address of the sender from the buffer that
  the capture thread reads the next frame into (`linux/espnow_adapter.cpp:457`; the receive
  callback in `espidf/espnow_adapter.cpp:42` hands on a pointer in the same way).
  `SourceIsSender` of `Packets` fails when it is added to the run `packets`.
- `parseRadiotap` knows no padding (`linux/espnow_adapter.cpp:400`): behind an odd number of
  extension words and a TSFT, or behind FLAGS without RATE and a CHANNEL, the signal it reads
  is another byte. `SignalIsRead` of `Packets` fails when it is added to the run `packets`.
- `subscribe` of a client returns true when its request was acknowledged, although the
  bridge's far layer may have refused the topic (`bridge.hpp:399`): the application gets no
  data until the client renews.
- Publications to one topic may reach a callback in another order than they were made:
  every message has a thread of its own. No property speaks of the order.
- A probe response handled after the scan has moved on is noted with the wrong
  channel: `RadioFollowsBridge` fails with `LateAnswers = TRUE`.
- Reconnecting to a retained bridge returns before the node resubscribes
  (`espnow.cpp:127`), unlike `espnow.hpp:174` says.
- `publish` of the Linux MQTT adapter does not pass on the `retain` option.
- The comment of the socket filter promises acknowledgements, which do not pass.

### Bounds, and why they are enough

- *Bridge*: two topics, two clients and the bridge itself, two workers. Two
  workers and the timer are enough for any two critical sections to meet; two
  topics let one loop work on a topic while a request is about the other. Four
  requests, one failing call, two lost connections (`MaxRequests`,
  `MaxFailures`, `MaxDrops`): subscribe, unsubscribe and subscribe again meet a
  tick and a reconnection that itself is interrupted. `SubLifetime = 3`,
  `Interval = 2`: the interval does not divide the lifetime, so entries pass below
  zero. The safety run uses the symmetry of topics, clients and workers; the
  liveness runs use none. The proofs remove these bounds.
- *Trie*: seven keys that nest, share prefixes and use both wildcards, in every
  order of insertions, accesses and removals; topics up to three levels.
- *EspNow*: two senders, a connecting thread, two bridges on two channels. A
  bucket has at most one waiter, so a third sender adds only another one that
  waits.
- *Lease*: one topic (topics share nothing but the mutex, which the loops over
  several topics only hold longer), two ticks of lifetime at the client, seven
  at the bridge. By default (10 and 15 minutes, a tick a minute) the margin is
  five ticks: a renewal is tried when the client's lifetime is used up and in
  every following tick, so three requests in a row may be lost (`MaxLosses = 3`),
  given that the two timers may be a tick apart and the first try comes with the
  tick. With four losses the property fails: the bound is the exact margin.
  `MaxInbox` bounds the copies of one message that wait, `MaxRestarts` the
  restarts. One thread of the application calls. With two, an `unsubscribe` of the same topic
  or a tick comes between the request of a `subscribe`, which is sent without the mutex, and
  its entry; `SubscribedIsServed` holds there as well with lifetimes of one and of three
  ticks, one loss and no restart (270 764 states), but that is not among the runs.
- *TimeSync*: four calls; a call is disturbed only by responses to earlier ones.
- *Delivery*: one client and the bridge as subscribers and as sources, and two filters that
  overlap: one for the client's data, one for everything (`MatchTable`). The second also
  matches the bridge's reports, those about a client's report among them, so that every
  report of the bridge has a subscriber and is sent on to it; a report that the client itself
  makes goes to the broker, is reported by the bridge, and has no other subscriber. Every
  initial database; one publication or probe, one request and one loss, in any place: the
  reports and the threads of one publication are what interleaves, as publications do not
  share anything but the databases. `Reported` gives the types of messages that are
  reported, here an answer and a PUB, so that the report a client publishes is itself
  reported. With a subscriber for the client's reports too there are 347 528 states and the
  properties hold, too many for a run. The proofs cover more clients.
- *Packets*: messages of no length, around the end of a block of the stream, of
  the longest packet and one more, and of lengths that would not fit the byte or the
  buffer; three networks; radiotap headers with and without the signal, with up to
  two extension words, one whose fields are padded, and as long as the buffer allows; a frame changed in one of every field the filter looks at,
  in the encrypted part of the packet, or cut at the ends that matter; another capture read
  into the buffer, whole, up to its length fields, or into the address of the first. The
  assumptions of `MCPackets` compare the operators of `Bytes` and
  the checksum with those of the library, and say that the instance satisfies
  the hypotheses of the theorems.
- *BridgeProcess*: both platforms and both far layers, a failing call anywhere, a
  lost association, two connections and two messages: a reconnection may come
  at every point of the start and of the end.

Deadlock is checked but in the runs of `TimeSync`, `Delivery` and `BridgeProcess`, where what is modelled comes to an end.

### Fairness, and why the code justifies it

- *Bridge*: threads with work go on, the timer keeps firing (`timer.cpp` loops),
  the far layer reconnects by itself. Fairness is strong for what waits for
  `m_mutex`: requests and ticks are far apart, and a thread that asks for a free
  mutex again and again gets it.
- *EspNow*: weak fairness only. A thread that can go on does; the adapter reports
  every frame it took. Nothing is assumed of who gets a contended lock.
- *Lease*: weak fairness of both timers, of the handling of messages and of calls
  under way; nobody has to call. The radio is not fair, it only loses at most
  `MaxLosses` subscribe requests for a topic in a row. The far layer may refuse a topic any
  number of times, but not forever while it is asked again and again: strong fairness of
  `Accepted`. That is not the code's doing but the broker's, and without it no client of a
  topic that is always refused is ever served.
- *TimeSync*: weak fairness of the caller, whose wait has a timeout, as long as the program
  has not ended. Responses need not be handled.
- *Delivery*: weak fairness of all threads together. Each thread is finite and
  they are finitely many, so that is enough for each of them. Applications need
  not do anything.
- *BridgeProcess*: weak fairness of the main thread, of the capture thread, the
  library's and each other thread: a mutex is taken at most three times by a tick
  and once by every message. The network, messages, signals and the interface are
  not fair. (`sigtimedwait` returns within a second, `waitForCompletion` within
  five.)

## 4. Proofs

Every proof is laid out the same way: an inductive invariant `IInv`, one lemma per
action that the action preserves it, with one step per conjunct, and the
theorems that follow from it.
The theorems hold for all values of the constants that satisfy the named
assumptions of the module; the bounds of the runs are constants like any other.

### `BridgeProofs`

From `ThreadAssumption`, `LifetimeAssumption`, `JobAssumption` and `BoundAssumption`:

- `TypeCorrect`, `UsedTopicsSubscribed`, `ReconnectionCovered`: `TypeOK`,
  `UsedIsSubscribed` and `ResubscribeCovers` are invariants;
- `RemovalNotPremature`: the action property `NoPrematureRemoval`;
- `BridgeImplementsInterest`: the bridge implements `FarInterest`.

`UsedIsSubscribed` is not inductive. That `FarUnsubscribeSucceeds` may take a topic
from the far layer rests on its having no entries *now*, although it was found
so in an earlier step: nothing can have changed, because the thread has held
the mutex since. So `IInv` says who holds the mutex (`MutexInv`, `RoleInv`), what
its holder knows of the topics it works on (`JobInv`), that entries belong to
topics (`KeyInv`), and that only a tick under way sees lifetimes used up
(`ExpiryInv`), with which an entry that is renewed between two critical sections
of the tick stays. The action property and the refinement follow from `IInv`
with one case per action.

Three more theorems are what is safe about the liveness properties, whose other half,
that the threads go on, stays with TLC:

- `NothingLeaks`, of `UnusedIsRemoved`: as long as the far layer has not lost its
  connection (`drops = 0`), it is subscribed to no topic that the database does not
  know. After a reconnection this is false: `resubscribeAll` works on a snapshot and
  subscribes a topic that was removed meanwhile (run `bridge_reconnect`).
- `MutexIsWorkedUnder`, of the same and of every request: the owner of `m_mutex` is
  at a call of the far layer, at the insertion after it, or has topics left to
  unsubscribe (`LoopInv`), and it is never the connected callback.
- `LeasesRunOut`, of `SilentClientForgotten`, if lifetimes end at all
  (`SubLifetime # NoExpire`): a tick takes `Interval` off every entry of a client or
  removes it, no entry has more than the lifetime left (`LeaseInv`), and only a
  request of the same client for the same topic renews it.

### `EspNowProofs`

For any addresses, channels, buckets and threads, if the hash of no peer falls
into the bucket of broadcast (`BroadcastAlone`, which the code does not ensure:
finding 2 is what happens without it):

- `BucketsServeOne`, `StatusIsOwn`: `OneWaiterPerBucket` and `FrameHasItsWaiter`
  are invariants;
- `RadioIsRight`: so is `RadioFollowsBridge`, without late answers;
- `ScanIsUndisturbed`: the action property `ScanUndisturbed`.

The layer uses three things that exclude one another: `m_mutex` (`MutexInv`: held
around a transmission and throughout a scan), the mutex of a bucket (`BucketInv`:
held by the `send` that uses the bucket's promise, but not by the scan) and the
promise itself (`PromiseInv`: its future is out exactly while somebody sends
through the bucket). `DstInv` says the scan is the only one to broadcast, which
with `BroadcastAlone` makes up for the lock it does not take. `PeerInv` and
`ChannelInv` carry the registration of peers and the channel.

`LocksHaveWorkers` is what is safe about `LocksReleased`: no owner of `m_mutex` or of a
bucket waits for another lock, or for a status that will not come. It needs two facts
more than `IInv`: the status of a frame is still to come as long as its sender has
none (`ReportInv`), and a bucket is locked only by a `send` through it (`OwnerInv`).
It also needs `BroadcastAlone`: with a peer in the bucket of broadcast the scan can take
the other sender's future, and the program ends by an exception (finding 2).

### `LeaseProofs`

For any topics, threads, lifetimes, interval and number of losses:

- `RenewedInTime`: if `Margin`, then `ExpiresOnlyIfGivenUp`, where `Margin` is
  `SubLifetime + (MaxLosses + 2) * Interval <= BridgeLifetime`. With the defaults
  (10 and 15 minutes, a minute) it allows for exactly three losses in a row.

The invariant does not need the margin; it relates the two databases. `TimeInv`
says that what is left of a lease, what has passed since the client last reached
the bridge (`Elapsed`), and the ticks by which the bridge's timer may have gained
on the client's since, add up to the bridge's lifetime. `Elapsed` counts the
client's lifetime, then a tick per lost request; while the request of the current
tick is still to be sent (`Pending`), that tick counts already. A new or renewed
entry starts the count at zero, which is right only because an acknowledged
request has been handled in this tick or is about to be (`AckInv`), and that only
if no call takes longer than a tick (`~slow`). A request that the far layer refuses does not
disturb this: it finds no entry, and leaves none. So a subscription of a client
expires for two reasons only: more losses in a row than the margin covers, or a
call that takes a minute.

Two theorems do without the margin and without `~slow`, from one more invariant
(`WorkInv`): `SubscribedAreRenewed`, whoever holds the client's `m_mutex` has requests
left to send, all for topics it is subscribed to; and `UnsubscribedStaysSo`, only an
acknowledged `subscribe` brings an entry back, so that a tick or a resubscription under
way never revives what `unsubscribe` removed. They are what is safe about
`SubscribedIsServed` and `GivenUpIsForgotten`.

### `TimeSyncProofs`

For any number of calls: `CallsStartClean` and `ClockOnlyWhenAsked`, the run's
`IdleIsClean` and `ClockSetOnlyWhenAsked`. A synchronization is going on exactly
while a call is, and the type of the promise depends on that. `TypeCorrect` is `TypeOK`.

`CallsDoNotFail` is what is safe about `CallReturns`: nothing throws unless `late`, because
otherwise a response of the current call is there to be handled only as long as none has
been (`AnswerInv`).

### `DeliveryProofs`

From the assumptions of `Delivery`, for any clients, topics, filters and numbers of
messages: `WithinOverlap` (`CallsWithinOverlap`), `TypeCorrect` (`TypeOK`) and
`NothingIsForgotten`.

`WithinOverlap` is about the end of a long way. That a callback is called only with what its
filter matches must be known of every thread on the way (`ThreadOK`). That it is not called
twice by the same way does not follow from anything a single thread carries, as `threads` is
a bag and `repeated` counts: the invariant has to say that of all threads that run no two,
and of a thread and the calls already made none, can come to the same call (`TokenInv`).
`Leads` relates a thread to the calls it may come to, reports on the way included
(`Publishes`): whatever a message may still cause is, in the order of the code, a chain of
threads each of which ends in starting the next, and only `receiveFar` and
`processSubData` fan out, into threads that differ in the subscriber and the entry, or in
the callback. A step keeps this if the threads it starts lead to what the thread that ends
has led to, each to other calls (`Tokens`), or to what begins with a message that nobody
has seen (`Known`, `FreshInv`).

`NothingIsForgotten` is what is safe about the liveness property
`ReachesSubscribers`: whoever is owed a publication has it under way (`UnderWay`), in
a thread that will make the call or will start the thread that does (`Carries`), so when all
threads have ended, nobody is owed anything.
That a step keeps this (`OwedInv`) is proved per action: the publication moves on to the
threads the step starts, or stops being owed. Part of it is that the local broker is
subscribed to what the bridge has subscribers for (`DbInv`). What remains to TLC is that the
threads do end, which is fairness.

### `BridgeProcessProofs`

From the assumptions of the three modules, on both platforms, for any number of
failures, reconnections and messages: `NoOrphan` (`NoOrphanThreads`),
`StartsConnected` (`StartedConnected`), `AbortsAtEdges` (the action property
`AbortsOnlyAtEdges`) and `TypeCorrect` (`TypeOK`). The invariant says for every phase of the main thread which
objects exist and in which state the threads and connections are then: what is
built has its callbacks and threads, what is not has none, and the promises are
set only by what has really happened. `AbortsAtEdges` needs one case per way of
ending, and in each the invariant shows that a running bridge is not in it.

### `WildcardTrieProofs`

For any keys that are sequences of at least one level: `TypeCorrect` (`TypeOK`),
`NothingRedundant` (`NoRedundantNodes`), `TrieIsMap` (`ImplementsStore`), and
`EmptyMeansNoItems`, on which callers of `empty()` rely. The invariant adds that the
nodes are finitely many and closed under prefixes. Its hard step is `remove`: what
is erased below the cut must be the end of the way to the item and nothing else
(`ErasedIsPath`, by the least level at which another node could leave that way), so
that no other item goes with it, and the ancestor at the cut must keep a reason to
stay (`CutNodeStays`). Induction is by a least counterexample (`LeastNumber`).

`FoundIsMatching` is about the walk of `find()`, which goes down two or three branches at
each node: what it collects are the items whose key matches the topic level by level.
`Recursion` shows that a function that is defined level by level exists, and
`VisitedFacts` says which nodes the walk has reached at each level of the topic.
`FindExact` is `FindIsMatching`, that `find()` and `forEach()` report these items under the
keys they were inserted with. It has a hypothesis, that no key of several levels begins with
an empty one: the code joins levels with a separator unless what it has joined so far
is empty (`src/include/common/spsp/wildcard_trie.hpp:189`), so `/a` is reported as `a`.

### `PacketsProofs`

From `NodesAssumption`, `MessagesAssumption` and `CaptureAssumption`, for any messages,
networks, nonces, reserved bytes, keystreams, addresses, radiotap headers, trailers and
alterations:

- `RoundTrip`: what `serialize` makes of a message that fits, `deserialize` reads as this
  message;
- `FilterDecides`: of any data the socket filter's program passes exactly the ESP-NOW frames
  to this bridge or to all;
- `TypeCorrect`, `FilterIsExact`, `FittingIsAccepted`, `DeliveredIsIntact`: the four
  invariants of the run.

Radiotap headers are those that `RadiotapBytes` makes: any set of the fields that the parser
knows, aligned as drivers do, any number of words before and bytes behind them. Of a message
behind any of them `FittingIsAccepted` says that it arrives, and that it has its signal if
`Padding` is none; of a message that is delivered `DeliveredIsIntact` says that it is intact,
and that it has its sender's address if the buffer has not been read into since. The two
exceptions are weak points of section 3.

Three hypotheses are named, because the code presupposes them:

- `MacIsClear`, of what the filter passes: the bridge's address does not end in
  `FF:FF:FF:FF`, unless it is the broadcast address. The filter compares the last four bytes
  first, and after they agreed never tries the other address;
- `DistinctNetworks`, of intactness: another network has another SSID or protocol version.
  A network with the same SSID and another password is told apart by the checksum only;
- `Detectable`, of intactness: a changed byte is neither in the address of the sender nor in
  the header of the packet, and the bytes that are lost are not made up for by what
  follows the frame. Nothing in the packet protects the address, and another nonce
  decrypts to other bytes, which an eight-bit checksum may accept.

The invariant (`Inv`) says that the bytes of each stage are the frame sent, with what the air
and the driver have made of it, that the new thread was given what the parser makes of them,
that the buffer still holds them if it was not read into, and that what was delivered is
`Received` of both. All else is
about bytes. `SumBits`, `SameBits` and their like make bytes from bits; with them the sum of
a packet does not depend on the byte where the checksum is put (`ChecksumFound`), and an
exclusive or applied twice is the identity. `Joined`, `AtCut` and `Behind` say where in a
concatenation a part is found, and with them fields are read where they were written
(`BodyFacts`, `FrameFacts`, `FrameRead`, `HeaderRead`). The filter is proved from its end:
a run exists (`RunExists`), and for each instruction from which a check starts a lemma says
what the run still has to find from there on (`From36` to `From22`, in terms of `Reaches`),
up to the instructions that skip the header of the capture. A changed byte behind the
header of the packet changes the sum or the check of the lengths (`OneByteWrong`,
`DistortedRefused`), one before it only what the parser does not read or refuses
(`AlteredRead`).

### Only model-checked

Everything under fairness, which the prover cannot reason about: `ENABLED` is out of its reach.
Of the invariants and action properties that the passing runs check all are theorems.
Where a liveness property rests on a safety fact that says why nothing is stuck or
forgotten, that fact is proved (`NothingIsForgotten`, `NothingLeaks`, `MutexIsWorkedUnder`,
`LeasesRunOut`, `LocksHaveWorkers`, `SubscribedAreRenewed`, `UnsubscribedStaysSo`, `CallsDoNotFail`); these have no run of
their own.

## 5. Not modelled

- What ChaCha20 computes within a block, random nonces, the arithmetic of hashing an
  address to a bucket: functions of bytes; the models hold for any.
- The MQTT broker beyond acknowledging subscriptions, TLS and authentication, QoS
  and retained messages: the code hands these to the library.
- Parsing of the configuration file (`linux/ini.h` is third-party) and what the
  options are; logging; formatting of addresses and messages; printing of help.
- Setting up sockets, network interfaces and channels: calls of the system that
  succeed or fail.
- The station of an ESP client, which does not wait for an address.
- Exceptions of the ESP-NOW adapter inside `send` with both mutexes locked by hand
  (`espnow.cpp:75`): on the bridge they end the program (`SendThrows`); an application
  that catches one on a client is left with a layer that is locked.
- Clocks are abstracted to ticks, timeouts to steps that may come when their
  answer has not.
