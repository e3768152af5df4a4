# Tortuga: a model of the vehicle software

Tortuga is the software of an autonomous underwater vehicle. It is written in
C++ (packages `core`, `vision`, `vehicle`, `control`, `logging`, ...), with a
Python layer for the mission and C firmware for the sensor board. These modules
describe the parts in which several actors have to agree: the primitives with
which the threads of the program wait for each other, start and stop each other
and send each other events (`packages/core`); a runner built from them
(`vision`); the way from a thread of the vehicle through the sensor board object,
the serial line and the bus of the board down to its microcontrollers
(`vehicle`, `drivers`, `embedded`); and the state machine, the timers and the
tasks of the mission (`python`). Paths below are relative to `src/`.

Each module is translated from the code, not from its documentation. Where the
two disagree, section 6 says so.

## 1. Inventory

How the parts interact: an application builds *subsystems*. Most are
*Updatables*: objects whose `update()` runs in a loop on a thread of their own.
They talk to each other by *events*: a publisher calls the handlers subscribed
to a type on the publishing thread, and a queued publisher or hub moves the
event over a *threaded queue* to the thread of the receiver. Below all of them
are three monitors over boost mutexes: the readers-writers mutex, the latch and
the queue. Outside the computer, the vehicle's devices talk over a serial line
to the sensor board, whose microcontrollers share a handshake bus.

| component | state | operations | what is hard | what makes it correct |
|---|---|---|---|---|
| `core` readers-writers mutex | counts of readers, pending writers, active writers; two condition variables | acquire and release, read and write; scoped locks | two loops in `acquireWriteLock`, notifications sent to one of two conditions only | exclusion, writers before later readers, nobody left asleep |
| `core` countdown latch | a count, one condition | `await` (also timed), `countDown`, `resetCount` | one test before the wait, reset racing the waiters | released at zero only, the last countDown missed by nobody |
| `core` threaded queue | a queue, one condition | `push`, `popNoWait`, `popWait`, `popTimedWait` | one test before the wait, one notification per item, time-outs | order, once only, no item slept over, never `front()` of nothing |
| `core` Updatable | wanted state, thread, latch, settings and their change flags | `background`, `unbackground`, destructor, `setPriority`, `setAffinity`; `loop` | three locks taken one after the other in `background`; a loop works with a copy of the flag; a join under a lock | one loop, none after a join or the destructor, every call returns, updates go on |
| `core` event publisher, connection | map of signals, map of mutexes, slots | `subscribe`, `publish`, `disconnect` | handlers that call back, per-type recursive mutexes, first use of a type | no data race, handlers serialised, no call after `disconnect` |
| `core` queued event publisher | queue, records of parent connections | the same, `publishEvents`, `waitAndPublishEvents` | subscriptions shared and counted, given up while another thread subscribes | connected exactly when needed, nothing missed or reordered |
| `core` event hub, queued hub | three publishers; a queue | as above, for any publisher or type | forwards while publishers come and go | an event reaches the hub's handlers once |
| `core` publisher registry | map of names behind the readers-writers mutex | register, unregister, callbacks | names reused | the entry of a live publisher is found |
| `core` application, subsystems | ordered list of subsystems | construct, main loop, destroy | one of several stops failing | stopped in reverse order, all of them |
| `core` threaded log appender | queue, Updatable | append, drain | shutdown with messages queued | every message written |
| `core` configuration, properties, makers, time | data | read, write | none of its own | - |
| `logging` event logger, player | queue, archive, play position | log, drain; play, seek, stop | destructor and loop both draining; position without its mutex | each event written once; seek takes effect |
| `vision` runner, recorder, camera | detectors, change queue, frames, latch | add, remove detector; record; capture, wait for image | the loop stops and starts itself; latch counted down and reset | a runner with detectors runs; no waiter left behind |
| `vision` images, detectors | data | numerical | none of its own | - |
| `vehicle` vehicle, devices | device list, cached values | safe, unsafe thrusters; apply forces | cached values | safed thrusters get no force |
| `vehicle` sensor board device | copy of the board's state, command list | `update`, setters, commands | copy, talk, write back; recovery inside `update` | no setting lost, no exchange interleaved |
| `drivers` sensor board protocol | place in the cycle of partial reads | command and reply, resynchronisation | checksum failures, silence | a reply belongs to its command |
| `drivers` imu, dvl, carnetix, compass | parser position | read frames | resynchronisation | - |
| `embedded` firmware | bus lines, buffers, kill switch | `busReadByte`, `busWriteByte`, commands | time-outs in a four-phase handshake | both sides agree on the byte |
| `control`, `estimation` | gains, filters, estimates behind a lock | update | real numbers | - |
| `network`, `sonar`, `math` | - | forwarding, signal processing | none reached by these models | - |
| `python` state machine, AI, timers | current state, branches, timers | start, inject event, branch, stop | events for states already left, timers of old states | an event only moves the state it is for |
| tools, wrappers, experiments, vendored code | - | - | not the program's own logic | - |

`PROJECT.json` has the same components with their files and status, and the list
of hazards of the code, each at its line, with the properties that answer it.

## 2. Modules

| module | models | uses | proved about |
|---|---|---|---|
| `ReadersWriters` | the abstract writer-preferring lock: what callers of the mutex rely on | - | - |
| `ReadWriteMutex` | `core/src/ReadWriteMutex.cpp` | implements `ReadersWriters` | `MonitorProofs` |
| `CountDownLatch` | `core/src/CountDownLatch.cpp` | extends `LatchState` | `MonitorProofs` |
| `ThreadedQueue` | `core/include/ThreadedQueue.h` | - | `ThreadedQueueProofs` |
| `Updatable` | `core/src/Updatable.cpp` | `CountDownLatch` | `UpdatableProofs` |
| `EventPublisher` | `EventPublisherBase.h`, `EventConnection.h` | `ReadersWriters` | `EventPublisherProofs` |
| `QueuedEventPublisher` | `QueuedEventPublisherBase.h` | `ThreadedQueue` | `QueuedEventPublisherProofs` |
| `VisionRunner` | `vision/src/VisionRunner.cpp`, `Recorder.cpp` | extends `Updatable` | `UpdatableProofs` |
| `SensorBoard` | `vehicle/src/device/SensorBoard.cpp` | extends `SensorBoardState` | `SensorProtocolProofs` |
| `SensorProtocol` | `drivers/sensor-r5/src/sensorapi.c` and the main loop of `embedded/sbr9/ic1.c` | - | `SensorProtocolProofs` |
| `SensorBus` | the bus of `embedded/sbr9/ic1.c` (master) and `distro.c` (slave) | - | `SensorBusProofs` |
| `StateMachine` | `python/ram/ai/state.py`, `ai/task.py`, `timer.py` | - | `StateMachineProofs` |
| `LatchState`, `SensorBoardState` | the variables of the two, and what is to be true of them | - | - |
| `MC...` | constants of the runs | the module of the same name | - |

`EventPublisher` instances `ReadersWriters`, the abstract lock, because
`ReadWriteMutex` is shown to implement it (by TLC with liveness, by proof without).
`Updatable` and `QueuedEventPublisher` instance the detailed monitors they use.
`VisionRunner` extends `Updatable` as its class derives from it. Two modules have their variables and
invariants in a module of their own (`...State`), so that a proof module can speak of two components by
extending the state of one and instancing its steps. `SensorBoard`,
`SensorProtocol` and `SensorBus` are three floors of one house: an exchange of
the first is a command of the second, and a command of the second a few bytes
of the third. Each floor takes the one below as exchanges that succeed or fail.

**What a step is.** In a monitor, everything between two waits runs with the
mutex held, so it is one action. A condition variable is the set of threads
blocked on it: `wait` adds the caller, `notify_one` takes one member out,
`notify_all` empties the set, and `SpuriousWakeup` takes one out for no reason,
as boost allows. A woken thread still has to get the mutex: that is a second
action, and others may come first. Where a lock is held while its owner waits
for something else (`m_threadStateMutex`, `m_connectionsMutex`, `m_deviceMutex`, the mutex of an
event type), its owner is state and every step that takes it has the guard.

**Time.** There is no clock. A timed wait may give up at any moment. The
sleep between two updates may happen or not and ends when it likes. A timer
fires whenever it likes.

**ReadWriteMutex.** A location `pc` per thread; the counters
`m_readers`, `m_writers`, `m_pendingWriters`; the wait sets `noReaders` and
`writerFinished`. `acquireWriteLock` has two loops with a location each,
"pending" and "nextInLine".

**CountDownLatch.** `call` says which wait a thread is in. The histories
`sawZero`, `spurious` and `returned` record what its last call saw and said.

**ThreadedQueue.** Items are numbered as they are pushed. `Woken` follows the
code: no second look at the queue before `front()`. `front()` of an empty
`std::queue` is undefined behaviour: the model notes it in `undefined` and the
consumer goes no further. A consumer is `excused` once another consumer has popped
during its wait, or when it was woken by nobody.

**Updatable.** Controllers call `background` (two actions around the clean-up:
`Background`, `Create`), `unbackground` (`Unbackground`), the destructor
(`Destroy`, which cleans up twice, once on each side of `unbackground`'s return)
and the setters. `cleanUpBackgroundThread` is `CleanUp`, `AwaitStopped` (the
latch), `Join`, `Cleaned`. A loop goes `ReadState`, `ApplySettings`,
`UpdateDone`, perhaps `Awakes`, and at its end `SignalStopped` (the latch) and
`Finish`. `ReadState` copies the flag, and the loop acts on the copy. `StopSelf`
is `unbackground(false)` from inside `update()`, which `IUpdatable.h` allows.
Left out: `m_interval` and the profile event.

**EventPublisher.** A handler runs on the publishing thread and may itself
subscribe, publish or disconnect, so each thread has a stack of calls. `Accesses`
lists which container or signal a thread is reading or writing at its location,
from the locks it holds there. Two threads in the same one, one of them writing,
are a data race. The model then stops, since C++ says nothing of what follows;
every other property is a statement about executions up to a first race. The
bookkeeping that an iteration does *between* handler calls is
not counted as an access, so `RacesOnlyWithNewcomers` speaks of the start of an
iteration only. The forward to the hub at the end of `publish` is left out; no
lock of the publisher is held then.

**QueuedEventPublisher.** `refs` is `m_connectionTypes`. `owner` is the thread
with `m_connectionsMutex`, which is only ever write-locked. `publishing` gives
the type whose mutex each publisher of the parent holds: `DisconnectParent` has
to wait for it. The dispatching thread's own handlers may subscribe and
disconnect. There is one dispatching thread, as in the program, and no
spurious wake-up here (`ThreadedQueue` has both).

**VisionRunner.** Loops are among the controllers of `Updatable`: the loop that
sees the last detector go calls `unbackground(false)` on itself, and the client that adds
the first one calls `background`. Such a call is the inherited action, and the
runner goes on when it is over. `at` is the place in `processDetectorChanges`
and `update`; the change queue is a sequence. `m_detectors` has no lock:
`Conflict` is two threads in it, and the model stops there.

**SensorBoard.** A thread takes `m_deviceMutex` (`Lock`), makes its exchanges
(`Begin`, then `Succeed` or `Fail`) and returns. `Fail` is `handleReturn`: it closes
the file and goes to `Reopen`, which takes the mutex again although the thread may have it;
such a thread is `Stuck`. The loop copies the state first (`CopyState`), writes it back last
(`WriteBack`) and sends the speeds of the copy in between. `dropMarkerIndex` and
`setDVLPowerEnabled` take no mutex (`Unlocked`).

**SensorProtocol.** Bytes are pairs of what they belong to and their place
there, so that a byte of one message taken for one of another is told apart; a
checksum over two messages is wrong. The line keeps the order and may lose bytes.
The board waits for the rest of a command for ever, the host for a reply until
it gives up, which leaves the reply in its input. `syncBoard` is modelled byte
by byte; so are the failsafe timer and its main loop. The driver looks at no result of
`readData`: a reply that is cut off leaves in the buffer what was there. In the code's place that is the
command's own code, never a reply's, so the call fails (`NoReply`). In the rest of a reply it depends on the buffer: `readTemp` and
`getSonarData` (`Zeroed`) read payload and checksum apart, into zeros whose sum is right (`ReadPayload`,
`ReadSum`); `readStatus` (`Unset`) reads into a buffer nobody has set; the others read
both at once (`ReadRest`) and find a missing checksum right for some values only. `telemetry` and `hollow` are the items that
succeeded in this cycle with a value and without. Left out: `readDepth` and `readSpeedResponses`, which do not move
the cycle.

**SensorBus.** Each phase of a byte is a step of the master or of a slave, in
the order the code drives the lines. A slave works in its interrupt: `cnFlag`, `cnBit`
are the flag and the enable bit of its request pin, `Enable` is the call of
`checkBus` that makes up for a request made while the pin was off. The master
gives up on either edge of Akn (`NoAcknowledge`, `NoRelease`); the slave never
does. The histories `disturbed` and `astray` are the two extents of a time-out:
until the bus has been quiet, and until the slave has been quiet at top level
when a command began.

**StateMachine.** `ai` is everything the thread of the AI works on: current
states, subscriptions, branches, the queue of the hub and the timers. One event
is published to its subscribers one by one (`delivering`, `due`, `done`), since
a state entered for it may subscribe or unsubscribe others in between. `moved`
counts the steps an event makes a machine take, where a branch that is stopped and begun again is another machine. Timers
are threads: `late` marks a time-out that had fired when its state was left. Not every `exit()` stops its timer: `Forgetful` are
the states that do not (`Gate`, `course.py:98-108`; `Recover` overrides the `exit` that does, `light.py:282`). Machines compare
events as objects (`state.py:460`), and one that C++ publishes becomes a new object at each call of a handler
(`wrappers/core/src/EventFunctor.cpp:96-99`, `core/src/EventConverter.cpp:64-104`): for the types in `Foreign` the comparison never
holds. The tables are constants, of which two things are assumed besides their types: a state that sets a timer has a transition for its
time-out (`TimersAwaited`), and no branch, wherever it goes, begins another (`BranchesAreFlat`). Those of the instance are the tasks `Gate` and `PipeGate` of `ai/course.py` with the branches they start
(`ai/gate.py`, `ai/pipe.py`), without centering; `Gate` has its timer and the way from its time-out back to itself.
Left out: the alias `ai._stateMachine`, the work of transition functions,
branches within branches and handlers that start branches.

## 3. Plan

Written, in this order: the monitors (`ReadWriteMutex`, `CountDownLatch`,
`ThreadedQueue`), `Updatable`, `EventPublisher`, `QueuedEventPublisher`,
`VisionRunner`, `SensorProtocol`, `SensorBoard`, `SensorBus`, `StateMachine`; then the proofs
about all of them. What is left:

1. `Camera`: `CountDownLatch` with `resetCount` racing `background()`.
2. `EventHub`, `QueuedEventHub`, `EventPublisherRegistry`: an abstract
   specification "every handler gets every event of its type once, in order",
   implemented by the queued publisher and by the queued hub.
3. `Application` and `ThreadedAppender`, `EventLogger`, `EventPlayer`:
   shutdown with work still queued.
4. The sleep arithmetic of `Updatable::waitForUpdate`, as an operator checked
   against the interval asked for.
5. `SensorBoard` over `SensorProtocol` over `SensorBus`: one composed instance is
   beyond TLC, so each floor should be shown to implement what the one above takes
   for granted (an exchange succeeds, having been executed, or fails).

## 4. Runs that pass

Several invariants are conjunctions of named parts, written `A = B ∧ C`; `TypeOK` is
among them wherever it is not listed.

| run | instance | properties, and what they say |
|---|---|---|
| `rwmutex` | 4 threads | `Exclusion`, `NoLostWakeup`: readers and writers exclude each other, no wake-up is lost. `ImplementsLock`: the monitor implements `ReadersWriters`, liveness included. `WaitersServed`: who waits is served. |
| `latch` | 3 threads, count 1 | `ReleasedAtZero`: nobody is let go before zero unless woken by nobody. `ZeroReleases`: who saw zero returns although the count may be raised again first. |
| `queue` | 3 consumers, 3 items | `FrontOfEmptyOnlyIfOvertaken`, `NoItemSleptOver`, `EachOnceInOrder`, `EveryItemTaken`: reading an empty queue takes a competing consumer or a wake-up by nobody; each item has its own woken consumer, goes to one consumer, in order, and is popped. |
| `updatable` | 1 controller, 2 loops alive at a time | `LoopLifetime` = `OneLoop` ∧ `StoppedWhenJoined` ∧ `NoLoopAfterDestruction`: one loop, none after a join, none after the destructor. `CallsReturnUnlessOverlapped`, `KeepsUpdating`. |
| `events` | 2 threads, 2 types, 3 calls each | `HandlersGuarded` = `HandlersSerialised` ∧ `NoCallAfterDisconnect`, `CallsReturn`, up to a first race; `RacesOnlyWithNewcomers`: every race involves a `subscribe()` or the first use of a type. |
| `queued_events` | 1 user, the dispatcher, 1 publisher, 2 handlers of one type, 2 events of 2 types | `Delivery` = `ParentFollowsHandlers` ∧ `NothingMissed` ∧ `InOrderWithoutGaps`: the parent is connected exactly while there are handlers, and no event is missed, repeated or reordered. `NoCallOnceLeft`, `CallsReturn`, `QueuedIsReceived`. |
| `vision` | 1 client, 2 loops, 1 detector, 3 calls | `RunnerLifetime` = `OneLoop` ∧ `NoLoopAfterDestruction` ∧ `RacesOnlyWhenJoining`: loops that start and stop themselves are still one at a time; only a removal that asks to join touches `m_detectors` beside the loop. `StoppedMeansEmpty`: a stopped runner has no detector and no change left over, unless one was pushed while a loop was deciding to stop. `ClientReturns`, `FramesRecorded`. |
| `sensor_protocol` | 4 commands, 3 calls, 1 lost byte, 5 attempts | `BoardInHand` = `NothingUnasked` ∧ `FailsafeArmed`: the board fires and drives no more often than asked, and motors that turn have a timer behind them. `SuccessIsFresh`: a success was executed in this call, and a read that succeeds has the value, but for the reads that do not notice a missing one. `SyncBringsInStep`. `CycleIsComplete`: a cycle that ends without an error has every value, with the same exception. `MotorsStop`. Each with the exceptions its comment names. |
| `sensor_board` | 2 clients and the loop, 3 calls, 1 error | `DeviceGuarded` = `ExchangesUndisturbed` ∧ `MarkersPickedOnce` ∧ `QuietAfterDestruction`. `CommandsSent`: a value that is set reaches the board, unless it is set during an update. `ClientReturns`, unless a thread waits for itself. |
| `sensor_bus` | 2 slaves, 2 commands, 1 time-out | `HardwareSpared` = `OneDriver` ∧ `NestingBounded`: data lines never driven against each other, the slave's stack bounded. `TakenOnce`: a byte that is acknowledged was taken once, by its slave. `SuccessIsOwn` = `AnswerIsOwn` ∧ `SettingInForce`. `ComesToRest`: no handshake hangs, also after a time-out. |
| `state_machine` | the tasks `Gate` and `PipeGate`, 3 events, 2 starts | `NothingOutlivesState` = `SubscribedToCurrent` ∧ `TimersBelongToStates` ∧ `BranchesFollowTask` ∧ `NothingRaised`. `OneStepPerEvent`: an event of a Python publisher moves a machine once. `TimeoutIsOwn`: a time-out that moves a machine is its own, with the exceptions its comment names. `TimedStatesEnd`. |

**Bounds.** Four threads let two writers meet in each loop of
`acquireWriteLock` beside two readers. Three waiters tell `notify_one` from
`notify_all`; the program gives a latch only the count 1. Three consumers and three items (`MaxPushes`) are enough for a
woken consumer to be overtaken while another stays blocked. Two loops are what
one controller can have alive, an old one on its way out and a new one; thread
values are reused, so the number of restarts is not bounded. `Settings` has one
value because settings do not steer the loop. `MaxCalls` 3 of `events` gives a handler that calls back while the
other thread publishes; it bounds nested calls too. `MaxPushes` 2 in
`queued_events` lets one event be dispatched while the next is queued and the
subscriptions change; with 3 the same properties hold, in ten times the time.
Three calls of `vision` add a detector, remove it and add one again, or destroy the runner, over
a loop that is still stopping. `MaxExchanges` 3 of `sensor_protocol` is a command
that is cut short, one that runs into it and one that is deceived, or the sync; `MaxSyncAttempts`
5 is one more than the longest command has bytes, as 20 is one more than 19. `MaxErrors` 1 of
`sensor_board` is enough, since a thread that has recovered is where one that had no error is.
Two commands of `sensor_bus` with one time-out are one that is cut off and one
that meets what it left. `MaxSent` 3 of `state_machine`
finds the pipe, loses it and finds it again, beside the time-outs, which are not bounded.

**Stopping.** `CHECK_DEADLOCK FALSE` stands where the instance really
ends: all items, events, calls or commands used up, the object destroyed, a data
race or undefined behaviour reached, or a thread that waits for itself. `rwmutex`
and `latch` are checked for deadlock.

**Fairness.** Each thread's steps inside a call are weakly fair: the operating
system schedules it, a scoped lock ends, `update()` and handlers return, sleeps end. For a
consumer the next `popWait` counts too, because it is called in a loop. Nobody
is obliged to make a call, to push, publish, count down, start or stop. The
monitors get no strong fairness. `SensorBoard` takes one: a thread that asks for
`m_deviceMutex` gets it if it is released again and again, since the loop, its
only steady user, sleeps between two updates. In `SensorProtocol` and
`SensorBus` the processors run; that the host calls, that a byte is lost or that a wait
on the bus times out is never required. In `StateMachine` the fairness of the hub
is written out (`[]<>~HubBusy \/ []<><<Publishing>>_vars` is weak fairness with its `ENABLED`
spelt as a predicate, which TLC evaluates much faster); timers fire.

Each property, and each conjunct of a composite one, has at least one mutant in its module: a plausible slip in the code
(a dropped guard, a missing notification, a flag not reset) that makes TLC find
it violated under the same configuration.

## 5. Proofs

All theorems hold for every value of the constants under the named assumptions of
the modules; TLC evaluates those on each run. They say what the code fixes (a command fits
into 19 bytes and `MAX_SYNC_ATTEMPTS` is more than that: `CommandsFit`; codes and replies
differ: `CodesDiffer`; the cycle of reads is one of reads: `CycleAssumption`), that what stands for
nobody, nothing or no thread is none of the others, and that bounds are numbers.
Hypotheses of single theorems are named below. Each proof has the same
shape: an inductive invariant that strengthens the property, a lemma that the initial states satisfy
it, lemmas that each action preserves it, and one that it implies the property. Where an invariant
is a conjunction of layers, a later one is shown with the help of the earlier ones.

**`MonitorProofs`**, first part: the readers-writers mutex (any finite set of threads): `SpecTypeOK`,
`SpecExclusion`, `SpecNoLostWakeup`, `SpecWritersFirst`, `SpecImplementsLock`.
`Exclusion` is not inductive: the second loop of `acquireWriteLock` never looks
at `m_readers` again. `IInv` adds that the counters are the cardinalities of
the sets of threads at the corresponding locations, and that while a writer is
past the first loop there is no reader. The lemmas on cardinalities rest on
`FiniteSetTheorems`. `NoLostWakeup` and `WritersFirst` follow from `IInv`, and
so does the safety part of the refinement: each action maps to an action of
`ReadersWriters` or to a stutter.

Second part: the latch (any set of threads, any set of counts): `LatchTypeOK`;
`LatchBlockedAboveZero`, from `BlockedInv` (types, and blocked threads are inside
a wait with the count above zero); `LatchReleasedAtZero`, from `ReleaseInv`,
under the extra hypothesis that counts are at most one. The hypothesis is
necessary: `countDown` notifies at every call and `await` waits once, so that a latch of two
lets go at one. `ReleaseInv` adds that whoever is inside `await` and no longer
blocked has seen a zero or was woken by nobody.

**`ThreadedQueueProofs`** (any finite set of consumers, any number of items):
`SpecTypeOK`; `SpecFrontOfEmpty`, from `WokenInv`: while the queue is empty
every woken consumer is excused; `SpecNoItemSleptOver`, inductive on its own over
the types: a push adds one item and one woken consumer, and a woken consumer
leaves with an item or leaves nothing behind; `SpecEachOnceInOrder`, from
`OrderInv`: the queue holds the last numbers pushed, consecutively, and every
number taken is below them, so the front a consumer takes is greater than all
that was taken before.

**`UpdatableProofs`**, first part: one controlling thread (`OneController`), any number of loops:
`SpecLoopLifetime`. The argument of `OneLoop` is not the flag but the thread object:
only `m_backgroundThread` can be in the loop, and while it is, the latch is up
(`LoopInv`); it is forgotten only once the latch is down or it was joined. `CallInv` is
what a call in progress knows. With two controllers the theorem is false: both pass the
clean-up before either creates its thread.

Second part: `VisionRunner` with one client (`OneClient`), any number of loops, detectors and calls. Now the loops are
controllers themselves, so `OneController` does not hold, and `CoreInv` takes its place: a loop that stops or joins
itself gets no further than the wait for itself (`WaitInv`). `SpecRunnerLifetime` rests on `RInv`: while the flag is
down and nobody is inside a call, no loop will look at the detectors again before it has read the flag
(`TurnInv`, `Inert`), so they are the client's. `SpecStoppedMeansEmpty` rests on
`ChangeInv`, which follows a change from the queue to the detectors: with the flag down there is nothing left
when no call is under way; with it up there is a loop that will look, and either a detector
or somebody who knows that the last one went (`StartedInv`, `ToggleInv`, `SyncInv`). It promises nothing once
a change came while a loop was deciding to stop (`Void`), which is the property's own exception.

**`EventPublisherProofs`** (any threads, types, handlers and number of calls):
`SpecHandlersGuarded`, `SpecRacesOnlyWithNewcomers`. `FrameInv` says what a stack of nested calls can look like, `MutexInv`
that the recursive mutex of a type has one owner and is held at the right depth
by every frame that runs handlers, `ConnectionInv` that a handler is subscribed once, is then on
the signal exactly while connected and is off for good afterwards. Two threads that are past the
maps and in the same signal would both hold its mutex. Exclusion by `m_signalMapMutex` is used by
neither theorem: it guards the maps against each other's newcomers, which the second one leaves open.

**`QueuedEventPublisherProofs`** (any users, publishers, types, events and finite set of
handlers): `SpecDelivery`, `SpecNoCallOnceLeft`. What the queue does is not proved again: every step is one of
`ThreadedQueue`'s or leaves it alone, so that its invariants carry over from
`ThreadedQueueProofs`, with the dispatcher as its only consumer, who is never overtaken and therefore never
finds the queue empty when woken (`QueueInv`). `CallInv` says which handler a
call is about and that no other call is. `CountInv` says whom a record counts
and that the parent is connected while it counts anybody or until `DisconnectParent`; `ReceiveInv` that a
handler has got everything popped since it subscribed but for the event being
dispatched; `LeftInv` that a handler that has left is not on the signal. That the
parent cannot be left while it publishes is not needed for `Delivery`.

**`SensorProtocolProofs`**, first part: the protocol (any set of commands of any length, any cycle of reads, any number of calls
and of lost bytes): `SpecBoardInHand`, `SpecSuccessIsFresh`, `SpecSyncBringsInStep`, `SpecCycleIsComplete`. That
nothing is done unasked is a count: what was asked for and not executed covers the places in the line where the board may
yet find the code of the command, plus one if it is reading it (`OwedInv`, `Starts`). A lost byte can turn an
argument into such a place, and that is why only the first message in the line may lack its beginning
(`InPieces`) and why a beheaded one counts only if it is longer than what the board waits for.
`SyncInv` follows an undisturbed sync: the attempts made and the bytes the board is
waiting for never exceed `MaxSyncAttempts` (`Filling`), so that a command half read is filled up, refused, and the next 0xFF
answered. `FreshInv` says that while the two are in step the line holds the command of this call
(`Asked`) or its answer (`Replied`) and nothing else; a reply that was cut short ends that until a sync (`cutOff`, `dirty`). `CycleInv` and `FailsafeInv`
are the properties spelt out for the middle of a call and of a command.

Second part: the sensor board device (any set of clients, any number of calls and errors):
`SpecDeviceGuarded`. Two threads that talk with the mutex would both be `holder`
(`HolderInv`, `TalkInv`); the file changes only in `Fail`, `Reopen` and `CloseFile`,
whose threads hold the mutex, are alone after the join, or take none (`FileInv`,
`DestructorInv`); a marker is chosen under the mutex and noted before it is released (`PickInv`).

**`SensorBusProofs`** (any set of slaves, any number of commands and time-outs):
`SpecTakenOnce`, `SpecHardwareSpared`, `SpecSuccessIsOwn`. Three layers. `HandshakeInv`: even after a time-out only the target's request
line can be up, a slave that drives the data lines is between putting a byte there and
letting go, Akn is up exactly between the two steps that drive it (`LineInv`); while undisturbed the phase of the
master goes with that of the slave (`Phase`) and with who has heard what. `PlaceInv`: where each slave is in its interrupt, how deep, and what the flag
and the enable bit say of the request; from it and the first follows `HardwareSpared`. `CommandInv`: a slave that no time-out has left
behind is settled between commands, and during one it is as many bytes into it as the master (`SetInv`, `QueryInv`).

**`StateMachineProofs`** (any table of states with flat branches, any types of events, any number of events,
starts and time-outs): `SpecNothingOutlivesState`, `SpecOneStepPerEvent`, `SpecTimeoutIsOwn`. A step of the AI's thread is a
nest of calls, each a function of what it finds, and each has a lemma that says what it makes of a
world in which `Core` holds: a machine in a state is started (`Placed`), the branches in `_branches` are the
started ones and stay among flat states (`Rooted`), the subscriptions are exactly those of the current states
(`Hears`), and a timer that is to fire, like a time-out in the queue, is for a state in force, had fired when that
was left, or is for one that forgets its timer (`Timely`). Between leaving a task and entering the next one the branch does not follow the task, so
`Follows` is carried beside `Core` and restored by `EnterCore` and `StopCore`. `Kept` says what a call
of one machine does to the others: it ends their visits or leaves them, and takes back no event they have
seen. With it `MoveInv` (who has moved for the event in hand has seen it, or is in no state) gives one step per
event of a Python publisher, and `DueInv` (a time-out in hand is late or forgotten, or some subscription that was due is of its visit)
that a time-out is its own. The order in which `Call` takes the
subscribers is not used.

Only model-checked: all liveness (`WaitersServed`, `ZeroReleases`, `EveryItemTaken`,
`CallsReturnUnlessOverlapped`, `KeepsUpdating`, `CallsReturn`, `QueuedIsReceived`, `ClientReturns`,
`FramesRecorded`, `CommandsSent`, `MotorsStop`, `ComesToRest`, `TimedStatesEnd`, the liveness part
of `ImplementsLock`), which is out of the prover's reach. Every invariant and every action property that a
run checks is a theorem.

## 6. Disagreements

| run | property | what happens |
|---|---|---|
| `sensor_board_relock` | `NeverWaitsForItself` | "some kind of error.  reestablishing connection." (`SensorBoard.cpp:600`): `handleReturn()` is called with `m_deviceMutex` held and calls `establishConnection()`, which locks it. The thread waits for itself and every later caller for it. `fireTorpedo()` needs no error on the line: it asks for torpedo 0, which the driver refuses. |

Other places where the code does less than it says, or than its callers may
expect. The models follow the code; where a property would be false without
naming them, its exception does.

- *Latch.* A latch of two lets go at one (see section 5). The program only uses ones.
- *Queue.* `popWait` waits once: with a second consumer it may read the front of
  an empty queue (`FrontOfEmptyOnlyIfOvertaken`).
- *Updatable.* `unbackground(false)` then `background()`: the latter raises the flag, then waits for
  the loop that had just been told to stop and now goes on (`overlapped`). Two controllers get two
  loops. The settings' change flag may be cleared by the old loop.
- *Event publisher.* `publish` inserts into the mutex map under a read lock and into the signal
  map under none; `subscribe` connects without the mutex of the type.
- *Vision.* `recordFrame` calls `processDetectorChanges()` with its default argument: if that takes the last
  detector away it calls `unbackground(true)` on its own thread, which `IUpdatable.h` forbids (`JoinsItself`). A detector added while a loop
  is deciding to stop waits for the next call (`overtaken`). A frame that comes while one is recorded
  is forgotten (`forgotten`).
- *Sensor board.* A value set during an update is overwritten when the whole state is
  written back. The markers announced are 1 and 2, the driver's are 0 and 1, and only one is
  ever released. A cycle of updates takes twelve, not ten (`SensorBoard.h:86-88`).
  `torpedosFired[2]` is beyond its array.
- *Protocol.* A reply that arrives after `syncBoard` has emptied its input makes all
  twenty attempts fail (`clean`). `readBatteryUsage` masks its own error (`Masked`), where
  `sensorapi.h` promises one. `readTemp` and `getSonarData` return `SB_OK` with zeros for a reply cut off after its code, and
  `readStatus` whatever its buffer held if the checksum in it happens to fit (`WithoutValue`). After a lost byte arguments may be taken for commands
  (`misread`). A failsafe in the middle of a SETSPEED, or with a bus that fails, leaves the motors on
  (`slipped`).
- *Bus.* A slave waits for Req without a time-out. The test of `TXBUF_LEN` at `distro.c:650` has no effect.
  `rxBuf[60]` is overrun by a block whose length is not one. After a time-out an old answer may pass
  for the new one (`astray`), and callers that ignore a failed write leave the slave between
  parameters. `STATE_SETSPEED_U1` and `_U2` have no handler where `HAS_UART` is not
  defined (`distro.c:515`).
- *State machine.* `Machine.__init__` (`state.py:362`) makes the AI point to each new branch.
  A repeated `Branch` raises, and the remaining subscribers do not get the event. Branches started in
  `enter()` do not get the branching event (`state.py:409`, 607-610). A time-out that has
  fired is delivered although its state was left, and `FindAttempt.TIMEOUT` is one type for all
  attempts (`TimeoutIsOwn` names both). `Gate.exit` does not stop its `PIPE_ON` timer, nor `Recover.exit` (`light.py:282`) the one its base starts; both may fire in a later state (`Forgetful`).
  "This check here prevents that event from causing an unwanted transition" (`state.py:456-459`) does not hold for events published by C++, which are never the same object twice (`Foreign`). `start()` on a running machine does not exit the old
  state.

## 7. Not modelled, and why

Numerical code (images, control laws, filters, sonar), wrappers and tools have no
protocol a model checker would add to; they are most of the repository's lines. The components marked so in section 1
and in `PROJECT.json` that do have one wait for their turn in section 3: the
camera (`capturedImage` resets its latch between a count-down and the assertion in `background()`; a timed
`waitForImage` on a stopped camera returns an old image), the hubs and the
registry (an entry is erased by name), the application (shutdown stops at the first exception),
the appender and the loggers (destructors that drop or drain beside the loop; a position without its
mutex), and the sleep of `Updatable::waitForUpdate` (`Updatable.cpp:427` puts everything in `tv_nsec`).

Some properties stop where a hazard begins: the exception in their comment is the hazard's own case, which the code
does not handle, and they say that nothing else goes wrong. So it is with a latch of more than one, `overlapped` (a stop that is taken
back), a first use of a type (a data race in the publisher's maps), handlers of two types or of the parent that wait for each other, a
change that overtakes a runner on its way out, a loop that joins itself, a removal that joins, a frame that comes during another,
a board that slipped through the failsafe, a value set during an update, an exchange without the mutex, a
thread stuck in its own recovery, and a slave astray after a time-out. What the code does in each is
in section 6.

Simplified: a timed wait of the queue gives up and returns in one step, where a real one may in addition
consume a notification meant for another; of the writes only SETSPEED has an effect of its own, and the
`SET_DERPY` motor (`ic1.c:2571-2607`) is a write like the others, of which `MotorsStop` says nothing.

Inside the modelled parts: exceptions out of a boost wait (nothing interrupts a thread), the clock, a
nested read lock (no path takes one), a connection disconnected twice (no caller
does), real-time priorities beyond their being ignored by the code
(`RealTime` of `Updatable`), the loss of the USB connector, texts on the display, what
transition functions of the mission do, and nested branches.
