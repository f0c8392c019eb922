# tt3d: a verification project for the network and threading core

tt3d is the start of a transport game: a server and clients that talk to each
other with remote procedure calls (protocol buffers over TCP), on top of a
threading and networking layer of its own. That layer is where most of the
program's logic is at this commit; with it go the first pieces of the game's
world, nodes and branches on a map. Both are what this project models: TLA+ modules of its
components, TLC configurations that check them on small instances, and theorems
that TLAPS proves for instances of every size.

Paths below are relative to the repository; the map in `PROJECT.json` gives for
each definition the lines it stands for.

## 1. Inventory

| Component | State it keeps | Operations | Talks to |
|---|---|---|---|
| `RawConnection`, `Connection` (`src/core/network`) | status flags and a shared mutex, socket, two output buffers, heartbeat counters, the pointers by which Connection and RawConnection hold each other | attach, read, write and OOB handlers, `PushData`, `ScheduleWrite`, `Heartbeat`, `Disconnect` (synchronous or not), `ImplClosed` | handlers run on threads of the `IOServicePool`; `Expired` on the timer thread; close listeners (the `Server`) |
| `TimerMaster` (`src/core`) | a wheel of 4 x 256 lists of slots, the tick, a mutex, a thread | `Start`, `Stop`, `Register`, `Update`, `DestroyAllTimers` | calls `Expired` and `Period` of connections |
| `ThreadPool`, `PCQueue` (`src/core/thread`) | threads, a queue with a condition | `Start`, `Stop`, `PushTask`, `Loop` | runs `io_service::run` for the `IOServicePool` |
| `Notifier` | a count, a latch, a condition | `Inc`, `Dec`, `Wait` | `Server::Stop`, `RpcController` |
| `IOServicePool` | io_services, work objects, round-robin position | `Start`, `Stop`, `GetIOService` | `ThreadPool`; owned by `Server` and `ClientConnection` |
| `Server` (`src/server/network`) | table of connections, table of acceptors, a `Notifier`, four mutexes | `Listen`, accept handler, `HandleAccept`, `ConnectionClosed`, `Stop` | all of the above |
| Remote calls: `ProtobufConnection`, `RawProtobufConnection` | table of response handlers, table of services | `CallMethod`, `Handle`, `HandleService`, `ReleaseResponseTable` | `RawConnection` below, closures and `RpcController` above |
| Line format: `EncodeMessage`, `ProtobufDecoder`, `Buffer`, `SharedConstBuffers` | state of the decoder, output strings | `push`, `consume`, `Consume`, `Decode` | used by `RawConnection` |
| Clients: `ConcurrentContainer`, `RpcServiceClients` | a vector of clients, a mutex | `Register`, `RegisterViewport` | called by `HandleService` on pool threads |
| `ClientConnection` | a pool and a timer of its own | `Connect`, `Disconnect`, destructor | its own `IOServicePool` and `TimerMaster` |
| `Atomic.hpp` | the count inside a `RawConnectionStatus` | `intrusive_ptr_add_ref`, `intrusive_ptr_release` | every copy of the pointer a handler or method is given |
| World: `Node`, `Branch` (`src/core/model`) | a position; two ends and the length measured last | constructors and copies, `SetPos`, `SetStartNode`, `SetEndNode`, `Len` | `Coordinate` for distances |
| `TwoDVector.hpp`, `Coordinate.hpp` | pairs and sequences of numbers | arithmetic, order, `common_part`, projection, distances | pure |
| `lookup8.c`, Lua configuration, rendering interface, `main` | - | - | not modelled, see section 7 |

What is hard here, and what makes each component correct:

* **Closing a connection.** A handler, the heartbeat, a caller and the owner may
  all close at the same time, and the asynchronous close deletes the object the
  others are in. Correct means: one closes, nobody touches what is gone, nobody
  waits for ever, nothing leaks.
* **Writing.** Pushes come from any thread, writes are partial, two buffers are
  switched. Correct means: what leaves is what was pushed, in order, and nothing
  stays behind.
* **Timers.** Registrations come in between the steps of an update that releases
  its mutex. Correct means: a timer fires at its tick and never before.
* **Stopping.** Pools are stopped from outside and, through a destructor, from
  inside. Correct means: jobs run, threads leave, the services outlive them.
* **Accepting against stopping**, under four mutexes. Correct means: every
  connection is closed by Stop, the count agrees with the table.
* **Calls.** Answers, failures and the close race to end a call. Correct means:
  each call ends once, with its own answer.
* **A reference count** that is compared and counted down in two steps. Correct
  means: nobody deletes what another points to.
* **A length that is kept** while the nodes it was measured between move, and
  copies that copy nothing. Correct means: what is kept is right until something
  changes, and a flush makes it right again.
* **The client's shared container and the ownership cycle of a client's
  connection**, where the thread that drops the last pointer runs the joins.

`PROJECT.json` lists these as hazards, each at its line with the properties
that watch it.

## 2. Modules

| Module | Models | Notes |
|---|---|---|
| `RawConnection` | `RawConnection.cpp`, `Connection.hpp`, the connection's part of `ProtobufConnection.cpp` | one action per step between two lock operations; `boost::shared_mutex` and asio are external and modelled by their contracts |
| `MessageStream` | abstract: accepted messages leave in order until a close | refined by `RawConnection` |
| `TimerMaster` | `TimerMaster.cpp` | wheel of `Levels` x `kTVSize` lists; `Width(i)`, the ticks a list of level `i` spans, stands for the shifts by `kTVBits` |
| `AlarmClock` | abstract: armed timers, each with its tick; a restart forgets them | refined by `TimerMaster` |
| `ThreadPool` | `ThreadPool.hpp`, `PCQueue.hpp` | used through `IOServicePool` |
| `IOServicePool` | `IOServicePool.cpp` | extends `ThreadPool`: the pool of threads is used by a program or by the pool of services, whose tasks are the `run()` of a service; `io_service` is external |
| `Server` | `Server.cpp`, the count of `Notifier.hpp` | connections reduced to open and closing |
| `RpcChannel` | `RawProtobufConnection.cpp`, `ProtobufConnection.cpp`, the waiting half of `Notifier.hpp` | both ends, any number `Identifies` of identifies (2^64 in the code); the decoder a service's answer reads its identify from |
| `RemoteCalls` | abstract: each call is answered or fails, once | refined by `RpcChannel` |
| `SharedConstBuffers`, `ProtobufDecoder`, `LineWire` | the line format | operators, composed over a wire in `LineWire` |
| `Clients` | `ConcurrentContainer.cpp`, `RpcServiceClients.hpp` | |
| `ClientConnection` | `ClientConnection.cpp` and what it owns | a close is four steps here, its locks are in `RawConnection` |
| `IntrusivePtr` | `Atomic.hpp` as `RawConnectionStatus` uses it | proved, not run: the theorem is about any number of pointers |
| `TwoDVector`, `Coordinate` | `TwoDVector.hpp`, `Coordinate.hpp` | operators, with the laws they are to keep; a distance is kept as its square until it is made a whole number |
| `World` | `Node.cpp`, `Branch.cpp` | extends `Coordinate`; what an uninitialised length holds is a choice from `Leftover` |
| `RawConnectionProofs` | theorems about `RawConnection` | lifetime and locks first, then buffers and the refinement of `MessageStream` |
| `RpcChannelProofs`, `ServerProofs`, `IOServicePoolProofs`, `ClientsProofs`, `IntrusivePtrProofs`, `WorldProofs`, `TimerMasterProofs` | theorems about these modules | `IOServicePoolProofs` is about `ThreadPool` too, `WorldProofs` about `TwoDVector` and `Coordinate` |
| `MC...` | instances for TLC: symmetry sets, the hash of the example calls | |

How state corresponds to code: a variable has the name of the member it stands
for where there is one (`duplex_`, `incoming_index_`, `channel_table_`,
`mResponseHandlerTable`, `timer_jiffies_`); `pc` says which statement a thread
comes to next. An action is what a thread does between two points where another
one can get in: taking a lock, giving one back, an atomic on the status. Operators
whose name says how they differ from the one after them (`...Unchecked`,
`...Short`) are mutants: the checks replace the operator by its mutant and expect
the property to fail.

Abstractions: a message is an element of a small set and its strings are two
parts (header and content), except in `LineWire`, which is about characters;
heartbeats are counters; log lines, names and socket options are left out.

## 3. Runs

A run is a configuration `<name>.cfg` for a module `MC...`. Passing runs:

| Run | Bounds | What it shows |
|---|---|---|
| `RawConnection_close` | 2 io threads, a caller, the timer; 1 message, 1 read, 1 heartbeat answered | 1.9 million states. `NoUseAfterFree`, `SocketUsable`, `OneCloser`, `AssertionsHold`, `ReplyNeverRejected` under every interleaving of closes: two handlers, heartbeat, caller, failed network |
| `RawConnection_stream` | 1 io thread, a caller, the timer; 2 messages of two parts, 1 read, which makes services reply up to twice | 182,000 states. One write at a time, nothing stranded, what was accepted leaves, refinement of `MessageStream`, every operation returns |
| `RawConnection_live` | 1 io thread, a caller that attaches and disconnects, the timer; the window of the code, 2, and up to 3 beats of the peer; a network that breaks or falls silent | 151,000 states. Silence is noticed by counting the beats that were not answered, after any number of those that were, whichever end is ahead; errors are noticed, nothing leaks |
| `TimerMaster_wheel` | 2 timers, 4 levels of 2 lists, 17 ticks, timeouts 1, 3, 8, 15; a Stop and a second Start after up to 2 ticks | 2.8 million states. All levels cascade; refinement of `AlarmClock` |
| `IOServicePool_stop` | a pool of 3 threads started and stopped twice, by a program with 2 tasks or by a pool of 2 services with 2 handlers; joins that give up | 158,000 states. One empty task per worker, Stop drains and returns, tasks and handlers run once, and do run, services outlive threads |
| `Server_table` | 2 io threads, timer, owner, 2 connections, 2 runs | the table and the count agree, Stop closes all and returns, closed connections leave, an acceptor is released twice only after an accept that failed |
| `RpcChannel_calls` | 4 calls with colliding hashes, 8 identifies, one caller that waits | 165,000 states. Answers find their call, each call ends once, and does end, a waiting caller is woken; refinement of `RemoteCalls` |
| `LineWire_stream` | 2 messages of 1 to 4 characters, numbers to base 2, a read buffer of 9 | no character is lost whichever way writes and reads cut the stream |
| `Clients_register` | 2 threads, 3 logins | one id per login, ids keep their meaning and are accepted |
| `ClientConnection_destroy` | 3 threads | destroyed only when closed, socket before service, other threads joined, destructor returns |
| `World_branches` | 2 nodes at 32 positions on both sides of the origin, or at none, a branch | 100,000 states. The length that is kept, the answers of `Len`, and the laws of vectors and coordinates for every two points |

The invariants that end in `Inv` (`WheelInv`, `PoolInv`, `ServicesInv`,
`ServerInv`, `ChannelInv`, `WireInv`, `ClientsInv`, `ConnectionInv`, `WorldInv`) are each the
conjunction of a module's type invariant with named parts that belong together,
such as `PillsBalance` and `RunOnce` of `ThreadPool`: what the inductive invariant
of the module starts from.

The bounds are the smallest at which the interesting cases meet: two threads on
their way into the same close plus one that uses the connection; a write in
progress plus a push into each of the two buffers; a wheel whose three coarser
levels all cascade within the ticks counted; three calls that want each other's
place in the table, so that an identify moves on, comes free and is used again;
two runs of a pool or server, so that what the first leaves meets the second;
more threads than services, so that one service has two; positions of both signs
and intervals that touch, overlap, contain each other or are none. Counters that the code lets grow
are bounded by a constant whose comment says "bound".

Deadlock is not checked, as all of these systems come to rest: a connection is
closed, a pool stopped, all calls made. That nobody is stuck before that is the
business of the liveness properties.

One run finds a violation, and `findings` has an entry for it:
`Server_graceful`. The comment in `IOServicePool::Stop` says "graceful exit", but
`Server::Stop` calls it with `stop_mutex_` held exclusively, and a pool thread
that has just accepted a socket waits for that mutex in `HandleAccept`: each
waits for the other until `timed_join` gives up after 60 s and the services are
deleted under the thread.

Other places where the code does something else than a comment, a test or an
assertion says are part of the models, and noted with the hazards:

* `TimerMaster::Start` sets the tick back and leaves the slots: a timer that is left
  in the wheel rings at another tick than it was set for, later as a rule, and
  earlier if it is in the first vector with some ticks to go (which takes a vector of
  4 lists, more than the run has). `NeverEarly` and `ClockSpec` except the timers in
  `left`, and show that they change nothing for the others. After a run of 2^24 ticks
  or more, a slot that is left over may be further away than the wheel reaches, and the
  CHECK of `InternalAddTimer` fails when its list is cascaded: the hypothesis of the
  theorem `ChecksNeverFail`.
* `Notifier::Wait` has the comment "Return true when notified, otherwise return
  false.", but returns true after a spurious wake-up as well; and `Wait()` adds
  `LONG_MAX` milliseconds, which overflows. `WaitNotified` of `Server` and
  `WaitReturns` of `RpcChannel` may therefore return at any time.
* `CallServiceMethodDone` takes the identify of its answer from the decoder of the
  connection. That is right as long as services answer before they return, as those
  of the repository do: `HandleServiceLater`, which drops that, sends answers to the
  wrong calls.
* Two intrusive pointers released at the same moment may both only count down,
  and the status is leaked (`overlapped` of `IntrusivePtr`).
* The copy constructors of `Node` and `Branch` copy nothing. A copied branch has an
  uninitialised `cachedLen`, and `Len` of it returns that or uses null pointers;
  a copied node has no position, and a distance from it may end the process.
* `testCommonPart` in `TwoDVector.hpp` expects (2, 2) and (0, 0) of pairs such as
  (3, 2) and (5, 0), which are no intervals; the code gives (3, 2) and (5, 0). The
  laws here are about intervals. The `switch_values` of a vector that is not const
  returns nothing.
* With fewer threads than io_services some service is run by nobody: a handler
  posted to it does not run, and Stop deletes it (`EveryJobRuns` and
  `StopDrainsServices` need `mNumThreads >= mNumIOServices`, the hypothesis of the
  theorem `StopIsGraceful`; the CHECK is commented out, and the programs and tests
  of the repository keep to it).
* A connection that closes before the server is its listener stays in the table until
  Stop (`missed`, the exception in `ClosedLeaves`).
* `Server::Stop` throws away output that is not written, and deletes an acceptor
  that a handler is using or that an accept error released (`misused`;
  `ReleasedTwiceAfterError` says how often).
* `ConcurrentContainer::Get` reads without the mutex: `Reads` of `Clients` has the
  values a read of freed storage may give. `RegisterViewport` of a client that is
  found writes into an empty vector, which ends the process (`crashed`).
* A `Connect` that goes on after one that had connected fails a CHECK or an assert,
  the one exception in `ChecksHold` of `ClientConnection`. It takes no close before
  it: `HandleRead` and `HandleWrite` clear their flag before they close
  (`RawConnection.cpp:201`, `:208`, `:252`), and until the status says closing the
  connection may be idle with its `RawConnection` still there.
* The pool's own thread may run the destructor of a `ClientConnection` and delete the
  io_service it is in, and so may a join of the pool that gives up (`late`): the
  exceptions in `DtorLeavesNoThread`.

## 4. Fairness

* Threads: weak fairness of the steps of a thread that is running. The
  operating system schedules threads that can run, and a mutex or condition is
  given to someone who waits. Only weak fairness is used.
* `FairSpec` of `RawConnection` adds that asio completes outstanding operations.
  `SilenceIsNoticed` alone assumes in its statement that the timer thread ticks
  (`TimerRuns`). Nobody is obliged to call, to connect, to disconnect or to fail.
* `ThreadPool`, `ClientConnection`: no join is obliged to time out, so that
  `StopReturns` and `DtorReturns` do not lean on the 60 s, but for the join of a thread
  that runs the destructor itself.
* Stop and destructors: the owner is not obliged to call them, but goes on once
  it did.
* The peer is fair in `RpcChannel` only: it serves or refuses what arrives, and a
  service that was called answers. A wait is not obliged to time out.
* `World` and `TimerMaster` are checked for safety only and assume no fairness.

## 5. Proofs

### Connections

`RawConnectionProofs` proves for every set of io threads and callers, every
number of messages and every heartbeat window:

* `TypeCorrect`: `Spec => []TypeOK`
* `Lifetime`: `Spec => []NoUseAfterFree`
* `SocketLifetime`: `Spec => []SocketUsable`
* `SingleClose`: `Spec => []OneCloser`
* `ReplyAccepted`: `Spec => []ReplyNeverRejected`

They rest on `Invariance`, `Spec => []IInv`, and on the assumptions on constants
that `RawConnection` names. None of the five is inductive. That a handler does
not use a deleted object follows from a chain: `CLOSING` is set only by a holder
of the exclusive lock; so a thread that holds the lock shared and saw the flag
clear can rely on it until it unlocks; the object is deleted only after `CLOSING`;
and only by the one thread that set it. `IInv` is that chain, in parts:

* `Locks`: which program points hold the mutex how, and that holders agree with
  the lock's own variables;
* `Fresh`: what holds before the connection is attached;
* `Alive`: what is deleted was closed, and who is between the two;
* `Opened`: an attached, not closing connection has its socket and its pointers;
* `Bodies`: a thread inside a method holds the shared lock and saw no `CLOSING`;
* `Closers`: the thread past `SetClosing` is unique and the status says so.

The proof has one lemma per group of actions, one step per action under it, and
the temporal step last.

The second half of the module goes on from `IInv` to what the connection does with its
socket and its two buffers, for any number of messages, each of two parts, and
writes that take any number of parts:

* `Assertions`: `Spec => []AssertionsHold`
* `SingleWrite`: `Spec => []OneWriteInFlight`
* `NothingStranded`: `Spec => []NoStrandedData`
* `ConnectionIsStream`: `Spec => StreamSpec`, the refinement of `MessageStream`

`FlowInvariance`, `Spec => [](IInv /\ Flow)`, carries them. A part of a message is
numbered by when it was pushed, so that "in order" can be said without induction:
`InOrder` says that the parts in the outcoming and then the incoming buffer are the
consecutive numbers after those that left, less what a write that is being handled
has moved and not yet dropped; `Left` that those that left are the numbers from 1
on, and that the kernel was given the next ones, which it may still send after the
connection began to close. They need `OneWrite` (the flag `WRITING` against the
operations in progress and the threads that handle one), and that needs `Args`, what
a handler holds in its hands between the completion of its operation and its end.
`OneRead` is the same for `READING`. A step of the connection is then one push, one
write, one close or nothing for the stream.

### Timers

`TimerMasterProofs`, for vectors of any size from 2, any timers and timeouts that the
wheel reaches, any number of ticks and restarts:

* `NoTimerIsEarly`: `Spec => []NeverEarly`
* `ChecksNeverFail`: `MaxBefore < Width(3) => (Spec => []WheelInv)`
* `WheelIsClock`: `Spec => ClockSpec`, the refinement of `AlarmClock`

`Invariance`, `Spec => []IInv`, carries them. Where a slot is filed is said with the
turn of its list: for a slot of level `i`, with `q = s.jiffies \div Width(i)`, the list
is `q % kTVSize` and its turn is the tick `Width(i) * q`. `Filed` says that the turn
has not come yet, and that it comes within one round, `Width(i + 1)` ticks; so when
the index of a level comes to a list, what is in it is what has its turn now, neither
a round too early nor too late (`Residue`, `SameTurn`: two numbers of one round with
the same remainder are the same). The second half is not said of the timers in
`left`, whose slots were filed by the larger ticks of an earlier run; of them it is
enough that they are in lists whose turn is still to come.

A cascade is proved level by level: when the tick is a multiple of `Width(i)`, the
slots of the list that has its turn at level `i` are filed anew, each in a finer level,
and the rest of the wheel stays filed; after the cascades the list that `Update` takes
has exactly the slots that are due. The other parts of `IInv`: `Ticks`, how
`timer_jiffies_` follows the argument of `Update`; `Registering`, whose deadline is
read before its slot is added, with a tick that may come in between; `OneSlot`, a timer
of the run has one slot, in the wheel or in the hands of `Update`; `OnTime`, from which
`NeverEarly` follows.

The powers of the size are written as products in `Width`, as the provers know
nothing of powers. The hypothesis `MaxBefore < Width(3)` of `ChecksNeverFail` is about
a restart: a run that lasted that long (2^24 seconds in the code) may leave a slot
that is not within reach of the wheel in the next one. It is the weakest of its kind:
with `kTVSize = 2` and `MaxBefore = 8 = Width(3)` TLC finds the CHECK failing.

### Remote calls

`RpcChannelProofs`, for any set of calls, any hash and any number of identifies:

* `ChannelIsSafe`: `Spec => []ChannelInv`
* `ChannelIsRemoteCalls`: `Spec => PromiseSpec`, the refinement of `RemoteCalls`

`ChannelInv` says that what is under way is known to the table and that a call ends
once. What makes it inductive: `OnePlace`, a call is under way as one request, with
one service or as one response, and not before its CallMethod pushed it; `Table`,
a call that the table has under an identify has that identify, has not ended and is
taken by nobody; `Taken`, a handler taken out of the table is that of a call that has
not ended; `Results`, the result is set with the run of done and is no other call's;
`Messages`, `Closed`. That the answer finds its own call although identifies are
reused follows from `Table` with `OnePlace`: an identify comes free only when its
call is nowhere under way. The identify that the loop of CallMethod settles on is
described by what is true of it (`Turns`: free, and all that the loop came past are
taken), so no induction is needed.

### The server

`ServerProofs`, for any threads, connections and number of runs: `ServerIsSafe`,
`Spec => []ServerInv`. The inductive invariant adds to the parts of `ServerInv`:
`StopMutex`, which program points hold `stop_mutex_` shared and exclusively;
`Handled`, a socket is handled by one thread until it is in the table; `Emptied`,
the table is empty from the moment Stop has gone through it (nobody holds the mutex
shared then, so nobody inserts) until the next Listen; `OneAccept`, in the first run
there is one accept, which is pending, being restarted, or failed, and whoever
handles it is the only one to release the acceptor. The count is handled by the
cardinality theorems of the library.

### Pools

`IOServicePoolProofs`, for any size of the pool, any number of tasks, services and
handlers, any number of restarts, joins that give up and spurious wake-ups:

* `PoolIsSafe`: `PoolSpec => []PoolInv`
* `StopIsGraceful`: `mNumIOServices <= mSize => (PoolSpec => []ServicesInv)`

`ThreadInv`, the invariant of the thread pool, counts: live workers less empty tasks
in the queue are the workers that are to stay (`PillsBalance`), which a push, a pop
and a start change on both sides alike; `OnePlace` has a task once in the queue, with
one worker or in `ran`; `Threads` has every live worker among the threads of the
pool, unless a join gave up; `PillBehind` has an empty task behind every task that
was pushed before Stop. When all threads were joined no worker lives, so there is no
empty task left, so no task from before Stop is left either: that is `StopDrains`,
and why the order in which Stop pushes its empty tasks matters.

On top of it, `ServicesIInv`: `Rounds`, Start pushes a task for each thread and the
work objects stay until Stop begins; `Handlers`, a handler is posted, in a thread, or
done, a service stops only after Stop has begun and with nothing in it, and a task
of the last Start that has run has stopped its service. When Stop returns all of
these tasks have run; with at least as many threads as services they cover all the
services, so nothing is left in any. The hypothesis is the CHECK of the constructor
(see section 3).

### Clients

`ClientsProofs`, for any threads, logins and number of clients: `ClientsAreSafe`,
`LoginsAreUnique`, and the action property `IssuedIdsAreAccepted`. The invariant adds
that the vector has no login twice (`IsInjective(mItems)`), that who is past the lock
of Add holds the mutex (`Mutex`), that what Add looked up under it is still so when
it pushes (`Adding`), and that an index Get has checked stays one (`Getting`, as the
vector only grows). `IdNamesItsClient` is inductive with these, and no answered id
is refused because it was a place of the vector when it was issued.

### Intrusive pointers

`StatusLifetime`, `Spec => []PtrInv`, for any set of pointers: the count is the
number of those that point to the status plus those that have compared and not yet
counted down (`CountIsPointers`, the inductive part, by the cardinality theorems of
the library); so a release that finds 1 is the only one, and what is deleted has no
user left (`DeletedUnused`); a status that nobody points to and nobody deleted was
lost to two releases that overlapped (`LeakNeedsOverlap`). `DeletedForGood`: no step
follows the deletion.

### The world

`WorldProofs` has the laws of the operators on vectors for all integers: `CommonPart`,
`Order` and `Recomposition` (by cases on the signs, from one lemma about division of
natural numbers). It proves for any nodes, branches, positions and
leftovers, from `WorldAssumption` alone:

* `Invariance`: `Spec => []WorldInv`. `WorldInv` is inductive with the history
  variable `changed` in it: a branch that is not in `changed` has two ends and the
  distance between them for its length, which every operation but `Len` can only
  disturb by putting the branch into `changed`.
* `Answers`: `Spec => LenAnswers`, an action property, from that invariant.
* `VectorLaws` and `Distances`: `VectorsInv` and `DistancesAgree`, from the laws
  above and from the root being monotonic.

## 6. Model-checked only

* Liveness (`SilenceIsNoticed`, `EverythingLeaves`, `NoLeak`, `BreakIsNoticed`,
  `EveryOperationReturns`, `EveryTaskRuns`, `EveryJobRuns`, `StopReturns`,
  `ClosedLeaves`, `EveryCallEnds`, `DtorReturns`): out of the prover's reach, like
  everything that needs ENABLED.
* `WireInv` and `NothingLost` of `LineWire`: they say what folds over strings of any
  length compute, which takes induction over data.
* `ConnectionInv` and `DtorLeavesNoThread` of `ClientConnection`: the module has no
  parameter, so its run goes through all the states there are.

Every other invariant and refinement of a run is a theorem.

## 7. Not modelled, and why

* `SetIoServicePool` and `SetTimerMaster`, which only tests use; `RegisterService`,
  which comes before a connection is open (the constant `Methods` of `RpcChannel`).
* A service that answers after `HandleService` returned: none in the repository
  does.
* The branch of the accept handler for a socket that is not open (`Server.cpp:46`):
  an accept without an error opens its socket; one that `Release` deleted under the
  handler is `misused`.
* `seq` of `CallMethod` as what it is, a static that all connections share under
  different mutexes: the model has one connection. A lost increment only makes the
  loop over the table look at a place twice.
* A header whose number does not fit an `int`, which makes `lexical_cast` throw
  through the io_service (`RawProtobufConnection.cpp:77`): peers that follow the
  format send none, and `MaxDigits` bounds the headers of `LineWire`.
* `floor`, `convert` and the writing accessors of `TwoDVector` and `Coordinate`;
  overflow of their numbers.
* Tracks, routes, types of nodes and of cargo (`src/core/model`): declarations no
  operation uses; a branch's list of tracks is never filled. `Sessions.hpp`, the
  economy: stubs.
* `lookup8.c`: third-party hash, used as "some number". Lua configuration,
  logging, the rendering interface, `main`: input and output.

## 8. Plan

Done, in this order: `RawConnection` with its stream and its first proofs, timers,
pools, server, calls, line format, clients, client connection; then the pool of
services composed with the pool of threads, answers and waiting callers in
`RpcChannel`, the releases of the acceptor, the end and the restart of the timer
wheel, intrusive pointers, vectors and coordinates, nodes and branches, with the
proofs of the last three; then the proofs of the remote calls, the server, the
pools, the clients and the buffers of a connection, with two refinements; last the
proofs of the timer wheel with its refinement.

What is left is in section 6. `LineWire` is the one that would repay more work: with
the characters of the stream numbered as the parts of `RawConnection` are, and the
loops of `Decode` and `consume` taken a character a step, its induction over strings
becomes one over steps, and what remains to be assumed is that `lexical_cast` reads
the number it wrote.
