# Goby3: models, checks and proofs

TLA+ models of the parts of Goby3 whose correctness depends on the order of
events: the time-dependent message buffer, the thread that drives an acoustic
modem, the locks and condition variables under the publish/subscribe layer
between threads, the threads of an application, the portals between processes
and between vehicles, medium access, and the Iridium state machine. Paths below are relative to the repository's `src/` directory
(so `acomms/buffer/dynamic_buffer.h` is `src/src/acomms/buffer/dynamic_buffer.h`
in `PROJECT.json`).

## 1. The system

Goby3 is a middleware for marine robots. Applications are threads and processes
that publish and subscribe to (data type, group) pairs. Publication is nested in
three layers: *interthread* (shared memory in one process), *interprocess*
(ZeroMQ to a broker on one vehicle) and *intervehicle* (slow, lossy acoustic or
satellite links, one modem driver thread per link). Every thread runs a loop:
`poll()` waits for data on any layer, runs the callbacks, and `loop()` is called
at a fixed frequency.

### Inventory

| Component | State | Operations | What makes it correct |
|---|---|---|---|
| Dynamic buffer (`acomms/buffer/dynamic_buffer.h`) | per destination and sub-buffer id: merged configuration, deque of (last send, push time, datum), last access time | create, replace, update, remove, push, top, erase, expire | nothing disappears unreported; early exits of the scans are justified; ack timeout and blackout are kept; no sub-buffer starves |
| Modem driver thread (`middleware/transport/intervehicle/driver_thread.*`) | publisher and subscriber configurations, which sub-buffers exist, the buffer, values awaiting an ack by frame number | `_accept_subscription`, `_buffer_message`, `_forward_subscription`, `loop`, `_data_request`, `_receive` | maps and buffer agree in any order of events; an ack reported is a message received; no silent loss; messages leave in the end |
| UDP driver (`acomms/modemdriver/udp_driver.cpp`) | next frame number | `handle_initiate_transmission`, `receive_message` | frame numbers identify a packet until its ack |
| Interthread layer (`middleware/transport/detail/subscription_store.h`, `interthread.h`, `interface.h`, `poller.h`) | per data type: subscriptions and data queues; per thread: poll mutex, condition variable, stores to poll | subscribe, unsubscribe, publish, poll, wait, notify | no lost wake-up, no deadlock, per-publisher order, at most once |
| Intervehicle portal and forwarder (`middleware/transport/intervehicle.h`) | pending ack and expire callbacks, received packets, reports of the links, persisted subscriptions | publish, subscribe, `_handle_ack_or_expire`, poll, replay | file and links agree; persisted subscriptions survive a crash |
| Interprocess portal and forwarder (`zeromq/transport/interprocess.*`, `middleware/transport/interprocess.h`) | main and read thread, control queues, subscriptions of the portal and of forwarders, hold and queued publications | subscribe and unsubscribe handshakes, hold, poll, read loop, shutdown | socket filters match the books; nothing lost or reordered across a handshake; the hold is kept and released; no call hangs |
| Manager of gobyd (`zeromq/transport/interprocess.cpp`) | required and reported clients | `handle_request` | the hold ends when all required clients are ready |
| Multi-thread application (`middleware/application/multi_thread.h`, `thread.h`) | running threads, alive flags and count | launch, join, quit, unwinding | only leaving threads are joined, none is orphaned, quitting ends |
| MAC (`acomms/amac/mac_manager.cpp`) | slot cycle, current slot, next slot time | startup, restart, update, shutdown, begin slot | in phase on all vehicles, no collision, turns are taken |
| Queue manager (`acomms/queue/*`) | queues, waiting-for-ack map | push, data request, ack, expiry | as the dynamic buffer |
| Iridium driver (`acomms/modemdriver/iridium_driver*`) | three regions (command line, SBD, call), AT command queue, data out | dial, answer, data, SBD, hang-up, reset | regions agree; no state without an exit; calls end |
| Benthos driver, routing, I/O threads, health monitor, frontseat interface | small state machines | | |
| DCCL adapter, marshalling, logging, MOOS bindings, applications, utilities | none of interest | conversions and glue | |

Interactions. The portal forwards publications and subscriptions to the modem
driver thread over the interthread layer; the driver thread owns the dynamic
buffer and calls the MAC and the driver from `loop()`; the driver calls back into
the thread for data (`_data_request`) and with received packets (`_receive`);
acks and expiries go back to the portal as publications, and so do received
subscriptions and the reports from which the portal writes its file. The portal
between processes is polled by the same poller as the interthread layer, and the
forwarders of other threads reach it through that layer; so do the shutdown and
joinable messages of the multi-thread application.

Hard behaviours. Locks released between a look and a wait; callbacks that
publish, subscribe or unsubscribe; acks that are late, repeated, reordered or
lost; an expiry racing with an ack; an unsubscription between a send and its
ack; restarts with packets still on their way; reconfiguration of a queue that
holds data; a full control queue between two threads of which one waits for the
other; a file that is removed before it is replayed; clocks that step; a modem
whose answers are matched to commands by order alone. `PROJECT.json` lists them as
hazards with their lines and the properties that watch them.

## 2. Modules

| Module | Models | Lines it is read against |
|---|---|---|
| `DynamicSubBuffer` | a sub-buffer as a value and the operators on it: merge of configurations, priority, `top`, `push`, `expire`, `erase` | `DynamicSubBuffer` in `dynamic_buffer.h` |
| `DynamicBuffer` | the buffer under any sequence of its owner's calls | `DynamicBuffer` in `dynamic_buffer.h` |
| `ModemDriverThread` | the driver thread on top of `DynamicSubBuffer`, with the UDP driver, the medium and the peers | `driver_thread.cpp`, `driver_thread.h`, `udp_driver.cpp` |
| `InterThread` | subscription stores, publication, polling, waiting | `subscription_store.h`, `interface.h` |
| `Mailboxes` | what the interthread layer promises (abstract) | none: a specification, not code |
| `MultiThreadApplication` | launching, stopping, joining and failing threads | `multi_thread.h`, `thread.h` |
| `InterProcessPortal` | main thread and read thread of the ZeroMQ portal, forwarders, the Manager | `zeromq/transport/interprocess.*`, `middleware/transport/interprocess.h` |
| `InterVehiclePortal` | the portal with its links and the persistence of subscriptions | `intervehicle.h`, `driver_thread.cpp` |
| `MACManager` | time division medium access on several vehicles | `mac_manager.*`, the update handler of `pAcommsHandler.cpp` |
| `IridiumDriver` | the state machine with its driver, against a modem | `iridium_driver.cpp`, `iridium_driver_fsm.*` |
| `MC*` | instances for TLC | |
| `InterThread_proofs`, `MultiThreadApplication_proofs`, `ModemDriverThread_proofs`, `DynamicBuffer_proofs`, `InterProcessPortal_proofs`, `InterVehiclePortal_proofs`, `MACManager_proofs` | theorems about the module of that name | |
| `DynamicSubBuffer_proofs` | lemmas about the operators on sub-buffers, used in the proofs about the buffer and the driver thread | |

**`DynamicSubBuffer`, `DynamicBuffer`.** The deque `data_` is a sequence, front
first; times are clock ticks; averages of `ttl` and `value_base` are exact
fractions, so that priorities are compared without rounding (a denominator of 0
is the infinite `value_base` of subscriptions). `top()` is split into the
contest (`Contestants`, `Winners`; several winners stand for a tie, which the code
breaks by hash-map order) and the record of the send (`TopSub`). The early exits
are modelled as they are: `StopLooking` in `erase()`, and in `expire()` the walk
from one end that stops at the first live datum. Calls that throw change nothing
and are stuttering steps. The history variables (`fate`, `sent`, `served`,
`skipped`) record what became of each datum; no guard reads them, except that a
datum is pushed once. `KeepOrder` says whether the owner's updates leave
`newest_first` as it was.

**`ModemDriverThread`.** One action per handler; `loop()` is its parts in order
(`LoopExpire`, then any number of received acks, then `MacIdle` or a slot), with
the variable `thread` as program counter. A data request is filled value by value
(`RequestTop`, `RequestNextFrame`, `RequestDone`), because the clock moves between
two calls of `top()`; so are the values of an ack (`AckValue`), because `erase()`
may throw half-way; `acking` holds the frames of the ack still to be handled, with the
source it reports. `create threw`, `push threw` and `erase threw` are terminal:
nothing catches these exceptions. Packets stay in `air` for ever, so any may
arrive late, twice, out of order or never. Modem ids keep the arithmetic of
`_id_within_subnet` and `_full_id`; the instances have destinations inside the
subnet, outside it, and its broadcast id. The MAC is any sequence of slots.

**`InterThread`.** The steps are the critical sections. `publish()` is
`publish`, `Insert` per subscription, `InsertDone` (shared `subscription_mutex_`
released), then per subscriber `NotifyLock` (its `poll_mutex` taken and released)
and `Signal`. `_poll_all()` is `BeginRound` (lock), `poll` per store, `RunCallback`
and `EndCallback` when something was found (lock released), and otherwise `Wait`,
which releases and waits in one step as a condition variable does. Callbacks may
do all that user code may. A thread leaves through `unsubscribe_all` and `remove`.

**`Mailboxes` and the refinement.** `Mailboxes` is the abstract specification of
the interthread layer: per thread and channel a mailbox that a datum enters at
most once and in its publisher's order, that is read in the order in which it was
filled, and that loses data only to an unsubscription. `InterThread` implements it
under the mapping `Mail == INSTANCE Mailboxes WITH mailbox <- Undelivered, ...`
(the batch a round has collected followed by the queue in the store); the property
`MailboxSpec` is `Mail!Spec`.

**`MultiThreadApplication`.** The main thread's steps are the calls of the
application (`_launch_thread`, `join_thread`, `join_all_threads`) and the handling
of a joinable message, split at the blocking `join()` (`_join_thread`, `Joined`).
A thread goes through the phases starting (before `do_subscribe()`), running,
leaving, exiting (its joinable message is published) and gone. The shutdown and
joinable groups are mailboxes with the semantics of `InterThread`: a publication
reaches who is subscribed when it is made. An incarnation is one `std::thread`, so
that a message of an earlier thread of a key can be told from one of a later.
Destroying a joinable `std::thread` ends the process (`terminated`); a rethrown
exception unwinds it.

**`InterProcessPortal`.** Main thread and read thread exchange control messages
over two queues; the one to the main thread is bounded by `Hwm`, and a full queue
blocks the read thread (`read.blocked`). Calls that wait for an ack are a list of
requests (`main.todo`) sent and acknowledged one by one; what else comes meanwhile
is kept in `control_buffer_`. The books (`portal_subscriptions_`,
`forwarder_subscriptions_`, `forwarder_subscription_identifiers_`,
`regex_subscriptions_`) and the socket's `filters` are separate state, because
their agreement is the question. Mail of the forwarders comes in four queues, one
per type of datum, since order between types is lost in the interthread layer. The
Manager's requests may be lost and its answers come at any time. `limbo` is the gap
between the last look into the control queue and the wait, in which the read
thread's notification is lost.

**`InterVehiclePortal`.** The portal's main thread, its links and the mailboxes
between them. Writing the file is two steps (`PollReport` truncates,
`PrintCollection` completes), reading it removes it, and `Crash` is possible
everywhere; `world` remembers what the other vehicles want. What a link does with a
subscription is reduced to the set it has accepted: the rest is
`ModemDriverThread`.

**`MACManager`.** Each vehicle has its own clock, list and `next_slot_t_`. Time has
no end: clocks are modulo `Period`, and `next_slot_t_` is relative to now, so the
state space is finite and liveness is real. `do_work()` may be late by any of
`MaxStalls` units, and clocks are set forward and back.

**`IridiumDriver`.** A step of the driver is a whole `process_event()`, posted
events included. The three regions are `fsm.at`, `fsm.sbd` and `fsm.call`. The modem
is external: it answers commands in order (`Obey`), or loses or refuses them
(`Disobey`), rings, announces messages and loses its carrier.

### What the models leave out

Contents and encoding of messages; log output, reports and statistics; the
configuration of drivers and MAC at start-up; drivers other than UDP and Iridium;
the deprecated `pop()` of a sub-buffer. In the driver thread: a frame that cannot be
unpacked (it is logged and skipped), so that what arrives is received, and
subscriptions of another API version, which are ignored. In the MAC:
the type `MAC_NONE`, with which `startup()` does nothing; updates for another modem,
which are ignored; updates of single slots (the list is assigned, cleared or kept);
`set_silent()`, which concerns the Micro-Modem driver. In the Iridium driver: the
debug client, the wait after `+++`, which only delays what follows, and the single
commands of `Configure`, which are one command. In the application: the exception of
a launch of a thread that is alive, and launches by callbacks while
`join_all_threads()` waits. A datum is pushed to a sub-buffer once, since
publications carry their time. A thread unsubscribes only from what it subscribed
to (otherwise the code dereferences an end iterator). In `InterThread` a thread
with several subscriptions to one channel is notified once per publication
instead of once per subscription; the further notifications are spurious wake-ups.

Assumptions about the outside. A MAC's transmission ends with its slot, and the
reference period is a multiple of the cycle. The Iridium modem's timeouts pass only
when no answer is on its way, and the other end of a call does not stay on it alone
for ever. Exceptions of two threads at once, which would race on
`thread_exception_`, do not happen (`MaxFailures = 1`).

## 3. Runs

| Run | States | What it shows |
|---|---|---|
| `buf_calls` | 137k | every sequence of calls on one sub-buffer, LIFO or FIFO, with merged, updated and replaced configurations: the early exits hide nothing (`EraseFindsQueued`, `ExpireTakesAllPastTtl`), every datum is accounted for (`Accounted`), ack timeout and blackout are kept (`NoResendWithinAckTimeout`, `BlackoutUnlessUpdated`) |
| `buf_contest` | 158k | between two destinations of equal configuration neither loses twice in a row (`BoundedOvertaking`) |
| `drv_subs` | 589k | subscriptions, unsubscriptions, forwarded subscriptions, publications of two configurations, acks, a restart: `BuffersMatchSubscriptions`, `NoCreateOrPushThrows` |
| `drv_ack` | 998k | a message whose subscribers may ask for acks, and two forwarded subscriptions with room for one, to two peers over the medium, in slots of one and of two frames: `AckMeansReceived`, `NoSilentLoss`, `UnackedSentOnce`, and every message leaves the buffer (`EventuallyLeaves`) |
| `thr_poll` | 388k | a subscriber without and a publisher with a timeout, two stores, spurious wake-ups, publications from callbacks and to oneself: `NoLostWakeup`, `PublishesUnlocked`, the refinement `MailboxSpec`, and everything queued is posted (`Delivered`) |
| `app_threads` | 22k | threads launched, launched again, asked to leave and failing while the application quits: `JoinsOnlyTheLeaving`, `NoneOrphaned`, `QuitCompletes` |
| `zmq_portal` | 928k | subscriptions of the portal and of a forwarder, publications, received data, the hold and the destructor with a control queue of two: `FiltersMatchBooks`, `SentInOrder`, `HoldRespected`, `ReceivedInOrder`, `CallsReturn`, `HoldReleased` |
| `iv_persist` | 376k | subscriptions and unsubscriptions over two links, with two crashes anywhere: `FileMatchesLinks`, `NothingForgotten`, `Restored` |
| `mac_cycle` | 505k | two vehicles that are started, stopped and updated, stall, and have their clocks set: `InPhase`, `NoCollision`, `TakesTurns` |
| `ird_calls` | 379k | calls dialled and received, SBD exchanges, lost commands and errors, with and without DTR: `RegionsAgree`, `CommandReturns`, `CallsEnd` |

Two runs show where the code departs from what its own comments say:

| Run | Violated | What happens |
|---|---|---|
| `drv_unsub` | `NoEraseThrows` | send, unsubscribe, ack: the ack erases from a sub-buffer that is gone; the exception is not caught |
| `zmq_forward` | `PostedToTheLiving` | a forwarder subscribes and is destroyed; `_forwarder_unsubscribe()` looks for other subscribers while the caller's own entry is still there, so the subscription is never erased and the next datum is posted through a forwarder that is gone |

### Known deviations

The passing runs keep clear of the following by a constant or by an exception
written into the property; each can be reproduced by changing that constant or
dropping that exception.

- `newest_first` changed by an `update()` of a sub-buffer that holds data
  (`KeepOrder = FALSE`): the deque is not reordered, `erase()` stops looking too
  early (`EraseFindsQueued`), `expire()` misses expired data.
- Two frames in a slot: frame 0 finds nothing to send, time passes, frame 1 does; the
  value is erased, but `handle_initiate_transmission()` sends only if frame 0 has data
  (`udp_driver.cpp:135`). These values are `seen.unsent` in `NoSilentLoss`; `drv_ack`
  reaches the case, and without the exception the property fails. With one frame in a
  slot there are none (`OneFrameStrandsNothing`).
- A forwarded subscription that overflows its sub-buffer (`max_queue`) is lost without
  a word: `_forward_subscription()` ignores what `push()` returns
  (`driver_thread.cpp:415`), while `_buffer_message()` reports each such value with
  `EXPIRED_BUFFER_OVERFLOW` (693-701). These are `seen.overrun` in `NoSilentLoss`, which
  admits subscriptions of this vehicle only; `drv_ack` reaches the case, and without
  the exception the property fails.
- A restart (`MaxRestarts = 1`): frame numbers begin at 0 again, and an ack of the
  earlier process acknowledges a new message (`AckMeansReceived`).
- A subscriber that asks for acks and unsubscribes while another remains
  (`drv_ack` with `MaxChanges = 3`): the sub-buffer needs no ack any more, and what it
  has sent is sent once again (`UnackedSentOnce`).
- Two subscriptions of one thread to one channel (`MaxPerChannel = 2`): each datum
  is queued twice and each callback gets both (`MailboxSpec`).
- A thread that has not subscribed yet misses the request to all threads to shut
  down, and the application waits for it for ever (`seen.missed` in
  `QuitCompletes`). A key that is launched again before it was joined ends the
  process.
- An application without a loop frequency (`Timed = FALSE`): a notification of the
  read thread between the last look and the wait is lost, since it does not take
  `poll_mutex`; the hold may last until something else arrives (`HoldReleased`).
- `unsubscribe_all()` during the hold removes the portal's own subscription to the
  Manager's answers (`seen.cut` in `HoldReleased`), and the destructor does not
  return while the read thread is blocked on a full queue (`CallsReturn`).
- A crash between the removal of the persistence file and its replay, or while it
  is written, loses subscriptions; an unsubscription that overtakes the replay is
  undone by it (`world.excused` in `NothingForgotten`, `Restored`).
- A reference period that is not a multiple of the cycle (`Period = 18`): at
  midnight some vehicles still count from the day before (`NoCollision`).
- A refused or misread binary write leaves the Iridium SBD region in `SBDWrite`
  until a reset or a call, and an answer to something else may take away the
  command of a state that waits for its outcome (hence the exception in
  `CommandReturns`); with `Straddle = TRUE` a message read in two calls of
  `do_work()` is forgotten and fetched again.

Met while modelling, without a property: `update()` moves `last_access_` back by
one blackout time at every call, so repeated updates defeat the blackout (hence
"unless updated" in `BlackoutUnlessUpdated`); `max_queue = 0` and `ttl = 0` are
documented as infinite (`doc/markdown/doc101_acomms-queue.md:46`, `:48`) and are
zero to the code; a message that expires while its ack is on its way is reported as
expired and as acked; `_buffer_message()` compares a new publisher configuration
with the first known one only, so that two alternating ones are appended without
limit; `pending_ack_` of the driver thread keeps the entries of frames that are
never acked; a message without DCCL metadata is dropped without a callback;
`thread_exception_` is written by failing threads without synchronisation;
`reported_clients_` of the Manager keeps clients that have restarted; `startup()` of
a running MAC would clear the list under `current_slot_`, and a cycle of length zero
divides by zero; the Iridium driver's `data_out` drops its oldest message when full.

### Bounds

The theorems of section 4 remove these bounds for most safety properties; the list at
the end of that section names the properties that rest on the bounds alone.

- `buf_*`: two data of different sizes, five or six ticks. The interesting
  orders need two data, a push at different times and one update. `MaxDrift`
  bounds how far `update()` moves `last_access_`.
- `drv_subs`: destinations 16 (broadcast), 18 (a peer) and 35 (another subnet);
  three subscription changes are enough to subscribe twice and lose one
  subscriber, or subscribe, unsubscribe and subscribe again; one restart.
- `drv_ack`: two frame numbers, so an ack can be for the wrong one, and a packet can
  have a first frame without data; two subscriptions for a sub-buffer of one, so that
  it overflows; three ticks outlast the time-to-live of one. Publications stop at
  `LastPublish` so that expiry is reached before the clock stops. Two subscription
  changes give two destinations, two subscribers of one, or an unsubscription; a third
  could turn `ack_required` off under data, the deviation above.
- `thr_poll`: two threads and two stores are the least in which a datum can arrive
  in a store already polled; the publisher publishes twice, so order matters; one
  spurious wake-up.
- `app_threads`: two keys and three launches, so one key can live twice beside
  another thread; two requests and one failure.
- `zmq_portal`: one group and one forwarder beside the portal share one filter; two
  data or publications (`MaxTraffic`) can be reordered; a control queue of two fills
  up with a datum and an ack; the application and the forwarder make one call each
  beyond what start-up, polling and shutdown do.
- `iv_persist`: two links, one of them with two subscriptions, so reports of one
  link and of two can cross; three messages suffice to subscribe, unsubscribe and
  subscribe elsewhere; two crashes, so the second can fall in the recovery from the
  first.
- `mac_cycle`: a cycle of 4 + 3 + 3 units in a period of 20, a skew of 2 and stalls
  of 4 units, so that slots begin in time, late, and too late; two clock steps of +7
  or -3; three calls.
- `ird_calls`: two messages of the driver, one fault of the modem, one event of the
  network; two dial attempts and one retry make every retry path and the reset
  reachable.

`CHECK_DEADLOCK FALSE` is used where a behaviour may end: calls and clocks are
bounded, threads and processes end, and an exception ends the driver thread.
`drv_ack` and `mac_cycle` check deadlock.

### Fairness

Safety properties need none. For the others:

- `drv_ack`: weak fairness of `Loop` and of `Tick`. The thread calls `loop()` at
  10 Hz whatever arrives, and time passes; nothing is assumed of the medium or the
  peers.
- `thr_poll`: weak fairness of each thread's `Continue`: threads are scheduled,
  callbacks return, and an application in user code polls again. That a thread
  subscribes, publishes or leaves is never assumed, nor is a timeout or a spurious
  wake-up.
- `app_threads`: weak fairness of every step of a thread and of the main thread's
  handling of joinable messages; nobody has to launch, to quit or to fail.
- `zmq_portal`: weak fairness of `MainContinues` (the application polls, its poll
  times out at the loop frequency) and of `ReadContinues` (the read thread loops, and
  repeats its request for the hold state); strong fairness of `handle_request`,
  because requests may be lost but not all of them.
- `iv_persist`: weak fairness of the portal's thread and of each link: threads are
  scheduled and drivers start up.
- `mac_cycle`: weak fairness of `Tick` and of `do_work`, which the driver thread
  calls from its loop.
- `ird_calls`: weak fairness of `Read`, strong fairness of `WriteCommand`,
  `WriteData` and `hangup`: the owner calls `do_work()` for ever, which does each of
  them when it is possible at that moment. Of the modem, weak fairness of `Obey` and
  `RemoteHangsUp`.

## 4. Proofs

Checked by TLAPS for every value of the constants that satisfies the named `ASSUME`s:

| Assumption | Says |
|---|---|
| `InterThreadAssumption` | constants have their types and there is a channel |
| `AppAssumption` | keys are finitely many; the null pointer and "all threads" are not among keys and thread numbers |
| `DynamicBufferAssumption`, `ConfigAssumption` | sizes and times are naturals, ids integers; every list of configurations the owner passes merges to one whose fields have their types |
| `ModemDriverAssumption`, `BufferConfigAssumption` | ids are naturals, the buffer id of forwarded subscriptions is not one of publications, slots have at least one frame; `max_queue` (a `uint32` in `buffer.proto`) and `blackout_time` (a time, here in clock ticks) are naturals where they are set |
| `PortalAssumption` | the Manager's group, the empty filter, the portal and "nobody" are distinct from groups and forwarders; groups are finitely many; the control queue holds at least one message |
| `PersistAssumption` | links and subscriptions are finitely many, there is a link, and each subscription belongs to one |
| `MACAssumption` | the type of MAC is one of the two that keep a cycle, slots are of positive length, times are integers |

Some theorems have a hypothesis, most often one of the known deviations of section 3
turned around: without it the statement is false of the code, and TLC has the
counterexample. The instances of section 3 satisfy all of them, unless noted.

| Theorem | Hypothesis |
|---|---|
| `ImplementsMailboxes` | `MaxPerChannel = 1`: no thread subscribes twice to a channel |
| `EraseAlwaysFinds`, `ExpireAlwaysTakesAll` | `KeepOrder`: `newest_first` does not change under data |
| `OneFrameStrandsNothing` | one frame per slot (not so in `drv_ack`) |
| `AckedUntilRestartIsReceived` | only until the first restart |
| `UnackedAlwaysSentOnce` | `KindsKept`: no update changes `ack_required` or `newest_first` of a sub-buffer with data (`drv_ack` allows `ack_required` to be turned on) |
| `UnackedSentOnceWhenConfigsAgree` | `ConfigsAgree`: the publishers of a buffer id say the same of both fields, and no subscriber sets them otherwise (not so in `drv_ack`, where a subscriber may turn `ack_required` on) |
| `AlwaysInPhase` | `WholeCycles`: the reference period is a multiple of each vehicle's cycle |
| `NeverCollides` | `WholeCycles`, and `SlotsAgreed`: the vehicles have the same slots, with one transmitter each, longer than the allowed skew |
| `OvertakingIsBounded` | finitely many keys, `EqualConfigs` (the property is about equals), and no `update()` that moves a last access back |
| `OvertakingIsBoundedWithoutBlackout` | as before, with a blackout time of zero in place of the condition on updates, which then follows |

Every inductive invariant below was an invariant of a TLC run before it was proved, on
the instances of section 3.

**`InterThread_proofs`**: `TypeCorrect`, `WakeupsNotLost`, `UnlockedInPublish`
(`Spec => []TypeOK`, `[]NoLostWakeup`, `[]PublishesUnlocked`). `NoLostWakeup` is
not inductive: a thread about to wait must already know that what it missed comes
with a notification. The inductive invariant `Safe` adds

- `Locks`: `poll_mutex` is held exactly in a round that has found nothing;
- `Queues`: what is queued, or about to be, is subscribed to, hence its store is
  polled in every round (this is where `subscription_mutex_` enters);
- `Limbo`: a datum in a store that a fruitless round has already polled comes
  with a notifier that has still to take this thread's `poll_mutex`. It cannot do
  so before the thread waits (`WillLockStays`), and after that its notification
  finds the thread waiting (`WillNotifyStays`);
- `Numbered`: the numbers of data are within the bound (for the types).

`ImplementsMailboxes`, in the same module, is `Spec => MailboxSpec`
under the mapping of section 2. Its invariant `Refines` is `Safe` with `Single` (a
thread has at most one subscription to a channel, so a datum is inserted once),
`Newer` (the datum a `publish()` is about to insert is newer than all that its publisher
has inserted there before) and `Batches` (a batch is there only while its round runs
callbacks, so what the next round collects cannot overtake it). The steps that move data map to the
steps of `Mailboxes` one by one: `publish`, `Insert`, `RunCallback` and the
unsubscriptions; `poll` moves the queue behind the batch, which leaves the mailbox as it
was; all others are stuttering (`KindsOfStep`).

**`MultiThreadApplication_proofs`**: `TypeCorrect`, `JoinsAreShort`,
`AllAreManaged` (`[]TypeOK`, `[]JoinsOnlyTheLeaving`, `[]NoneOrphaned`). That the
main thread joins only a thread on its way out does not follow from the last step:
the joinable message may be old. The inductive invariant `Managed` adds

- `Numbered`: thread numbers are given out once;
- `Owned`: an entry points at a thread of its own key, and a thread that is not
  gone is pointed at;
- `Announced`: every joinable message stands for the thread its key holds *now*,
  which is leaving, and no key is announced twice or again while it is joined;
- `Counted`: the count of running threads is the number of entries with a thread.

**`DynamicBuffer_proofs`**, on `DynamicSubBuffer_proofs`: `BufferTypeCorrect`,
`AlwaysAccounted`, `EraseAlwaysFinds`, `ExpireAlwaysTakesAll`, and the two action
properties `NeverResentEarly` and `BlackoutRespected`. The lemmas say what each
operation does to a deque: what is left of it is embedded in what it was
(`EmbedsKeeps`), so it stays sorted by push time and free of duplicates. The invariant
`Kept` is

- `Typed` and `Clean`: no time of a datum is in the future, no datum is held twice;
- `Recorded`: the history calls queued exactly what the sub-buffers hold;
- `Remembered`, `Accessed`: a datum's `last_send` is when `top()` last returned it, and
  a sub-buffer's `last_access` is when it was last served, as long as it has not been
  updated since. The action properties follow from these and the guards of `top()`;
- `InOrder`: under `KeepOrder` each deque is sorted the way its `newest_first` says.
  This is all that the early exits of `erase()` and `expire()` rely on.

`OvertakingIsBounded` and `OvertakingIsBoundedWithoutBlackout` (`[]BoundedOvertaking`) have an invariant of their own, `Contested`:
a sub-buffer that has lost `n` contests in a row is ahead of at least `n` other keys, whose
sub-buffers were accessed later than it was, or do not exist (`Behind`, `LostFew`). With equal configurations
priority is the time since the last access times one positive fraction, so whoever wins
against it was not behind it before, and is afterwards. It is not behind itself, so `n` stays below the
number of keys. A blackout time makes `update()` move the last access back, and a
sub-buffer that is updated again and again then wins against a better one without limit.

**`ModemDriverThread_proofs`**: `BuffersAlwaysMatch`, `NothingThrownByCreateOrPush`,
`DriverTypeCorrect`, `AckedUntilRestartIsReceived`, `NothingLostSilently`,
`OneFrameStrandsNothing`, `UnackedAlwaysSentOnce`, `UnackedSentOnceWhenConfigsAgree`. In
layers:

- `Matched`: the two properties about the records and the types of the four maps. Its
  core is the lemma `Recreated`: when `_try_create_or_update_buffer()` is called for every
  entry that may have gained a publisher or a subscriber, records and buffer stay in
  step and `create()` finds no sub-buffer it did not record.
- `Stocked` and `Framed`: every sub-buffer is well-formed and everything pushed is
  held or accounted for; the frames of a request are numbered from `next_frame_`, go to
  one destination, and pending values are in frames that exist. With `Matched` they
  give the types.
- `Addressed`, for the acks: frame numbers are used once (`Numbered`); an ack in the air
  is for the frames of a packet that its sender received (`Genuine`); what is pending
  under a number was in the frame with that number, to that destination (`Sent`), or is
  in the frame being filled (`Unsent`). A restart breaks `Numbered`, and with it the
  property.
- `Fired` and `Homed`, for the loss: a value erased when it is put in a frame is in the
  request being filled, in a packet, or in a request that was not sent as its first frame
  was empty; the sub-buffers of `subscription_key_` hold subscriptions of this vehicle
  only, so that no publication overflows unreported. `NothingLostSilently` has no
  hypothesis: the two losses are exceptions that `NoSilentLoss` names. `Whole` (a request
  has one frame) makes the second of them void when slots have one frame.
- `SentOnce`, for `UnackedSentOnce`: each sub-buffer is sorted and holds values of its own
  buffer id (`Placed`), so that `_data_request()` finds the value it erases and no second
  sub-buffer of the destination has it; what is sent was published, hence cannot come
  again (`Known`); a value that waits in a sub-buffer without `ack_required` is in no
  packet and no frame (`Waiting`); one that was erased is in one place only (`Single`).
  An update that turns `ack_required` off breaks `Waiting`: the values already sent are
  sent again. One that turns `newest_first` round breaks `Placed`.
- `Uniform`, for the form with constants only: the configurations noted for a buffer id
  are those of its messages, and all sub-buffers merge to what these agree on, so every
  step satisfies `KindsKept`, and the second theorem follows from the first.

**`InterProcessPortal_proofs`**: `PortalTypeCorrect`, `FiltersAlwaysMatch`,
`AlwaysSentInOrder`, `HoldAlwaysRespected`, `AlwaysReceivedInOrder`. The invariant `Sound`
is

- `Typed`: places of the two threads, types of queues and mailboxes, and that the
  control queue keeps its limit, with at most one message blocked behind it;
- `Release`: during the hold nothing is sent, after it nothing is queued (`Held`); every
  message that says the hold is off, in any queue or buffer, is true (`Truthful`), since
  the Manager's condition stays true once it is; and `ready()` precedes the report
  (`Ready`);
- `Requested`: the books are well-formed (`Books`); the requests still to be made, each
  about another filter, bring the filters to the books (`Settled`, `Called`); at most one request and one ack are under way, and only while
  the main thread waits for it (`Asked`, `Answered`). `FiltersMatchBooks` is the case of
  no request left. The lemmas `SubscribeFiled` to `UnsubscribeAllFiled` show for each
  operation that its requests match the change it makes to the books.

`Receipt`, for the order of received data, views `control_buffer_`, the control queue and the
blocked message as one queue: the read thread appends to it, and the main thread takes
data from its front only, though it takes acks from the middle.

**`InterVehiclePortal_proofs`**: `PersistTypeCorrect`, `FileAlwaysMatchesLinks`,
`NothingEverForgotten`. Both properties are about a settled state; the invariant
`Persistent` says what holds while messages are on their way:

- `ReadyCounted`, `Staged`: ready links are counted once each, and the replay comes after
  all of them;
- `Reported`: the last report of a link, in the mailbox or noted in `sub_reports_`, is
  what the link has accepted. `Written`: the file is what is noted, except while it is
  read or written;
- `Addressed`, `Remembered`: for every subscription, the last message about it on its way to its
  link decides; if there is none, it is wanted exactly when it is accepted or still to
  be replayed.

**`MACManager_proofs`**: `AlwaysInPhase`, `NeverCollides` (`[]InPhase`,
`[]NoCollision`). The lemmas about lists say that the slots' start times, a recursive function of the
list, increase strictly by the slots' lengths and end with the cycle's duration, and that every
time in the cycle is in one slot. The library's induction theorems cannot be used (they
take an operator), so each lemma is shown by taking the least index at which it fails,
which exists because `<` is well-founded on the naturals. The invariants are

- `Running`: types, and for every running MAC the phase of `InPhase`. `update()`
  establishes it from the time since the reference and `begin_slot()` moves it on by one
  slot; `WholeCycles` lets it survive a new reference;
- `Orderly`: `Running`, and there is one true time from which each clock differs by what
  the history says; a transmission lies within a slot of its vehicle, by the clock the
  vehicle had when it began (`Within`). Two at once, by clocks that agreed, are at one
  moment of the cycle, hence in one slot, and `SlotsAgreed` gives that to one vehicle.

### Only model-checked

- Liveness (`EventuallyLeaves`, `Delivered`, `QuitCompletes`, `CallsReturn`,
  `HoldReleased`, `Restored`, `TakesTurns`, `CommandReturns`, `CallsEnd`): the prover has
  no `ENABLED`.
- `RegionsAgree` of the Iridium driver: the model processes posted events with a
  recursive operator, which the prover does not support.
- The two violated properties, whose counterexamples are TLC's.

## 5. Not modelled

- **Queue manager, route manager** (`acomms/queue`, `acomms/route`): the predecessor
  of the dynamic buffer, used by the MOOS applications only. Its queues, ack map and
  expiry ask the questions that `DynamicBuffer` and `ModemDriverThread` answer for
  the present code; routing is a table that does not change.
- **Other modem drivers** (Benthos, Micro-Modem, Popoto, Janus, store server, ABC):
  text protocols of particular modems; what is common to them, a command queue with
  retries under a state machine, is in `IridiumDriver`.
- **I/O threads**: a wrapper of boost::asio. Its hand-over between two threads with
  an unlocked notification is the pattern of `InterProcessPortal`.
- **Health monitor, frontseat interface**: small sequential state machines whose
  inputs are other programs and vendors' vehicles.
- **Ack and expire callbacks of the intervehicle portal** (`_handle_ack_or_expire`,
  `pending_ack_`): templates that look up a callback by the serialized message. An
  entry stays until the greatest ttl has passed (`_expire_pending_ack()`), also after
  its ack, so an ack and an expiry of one message both find it.
- **DCCL adapter, marshalling, logging, configuration, MOOS bindings, applications,
  time and utilities, vendored libraries** (JSON, HTTP, JWT): conversions, formats and
  glue, without state whose order of events matters. They are most of the
  repository's lines, so the share of all lines that is modelled stays small.

## 6. Plan

Done: the buffer, the driver thread, the interthread layer with its abstract
specification, the application's threads, both portals, the MAC and the Iridium
driver; and theorems for every safety property that a run checks, except those listed
at the end of section 4.

Next: `RegionsAgree`, with the posted events of `process_event()` written out as a chain
of at most as many steps as the state machine posts, instead of a recursive operator.
