# Verification of Netmux and NPtest

TLA+ models of Netmux (`src/Netmux`), a multi-reactor network library over
epoll in C++, and of the small network programs beside it (`src/NPtest`), with TLC configurations that model-check them and TLAPS proofs
about them. `PROJECT.json` holds the same facts in machine-readable form: the
source lines behind every definition, the runs, the hazards and the theorems.

- [1. The system](#1-the-system)
- [2. Modules and code](#2-modules-and-code)
- [3. Runs](#3-runs)
- [4. Fairness](#4-fairness)
- [5. What is proved](#5-what-is-proved)
- [6. Where code and comments disagree](#6-where-code-and-comments-disagree)
- [7. Not modelled](#7-not-modelled)
- [8. Plan](#8-plan)

## 1. The system

A `TcpServer` owns an `Acceptor` on the base `EventLoop` and an
`EventLoopThreadPool` of further loops, each in an `EventLoopThread`. Every loop
has an `EPollPoller` and runs, in one thread for good: poll, the callbacks of the
`Channel`s that are ready, the functors other threads have queued. A
`TcpConnection` belongs to one loop; all its handlers run there, and `send()` and
`shutdown()` from other threads are turned into queued functors. User code is
called back for connections going up or down and for messages.

| component | state | operations | hard behaviour | what makes it correct |
|---|---|---|---|---|
| EventLoop | queue, `quit_`, eventfd, `callingPendingFunctors_` | `loop`, `queueInLoop`/`postInLoop`, `quit`, `handleRead` | threads queue and quit at any point of the loop | no lost wakeup, no lost quit, each functor once and in order |
| EventLoopThread, Thread | `loop_` under mutex and condition, semaphore, the thread | `startLoop`, `threadFunc`, destructor | a handshake of two threads; a pointer into the other thread's stack | users get a prepared live loop; start and join return |
| Channel, EPollPoller | `events_`, `status_`, `channelHash_`, result array, the kernel's table | `enable…`/`disable…`, `remove`, `poll` | what the code believes against what the kernel knows; reused descriptors | they agree; no pointer to a dead channel |
| Buffer | vector, two indices | `append`, `retrieve…`, `readFd` | moving down, growing, resetting in any order | bytes come out as they went in |
| TcpConnection | `state_`, channel, two buffers | `connectEstablished`, `connectDestroyed`, `send`, `shutdown`, handlers | calls from threads against the peer's end and the server's | callbacks in order, messages in order, the end is reported |
| TcpServer, EventLoopThreadPool, Acceptor | `started_`, `next_`, loops, `connections_` | `start`, `newConnection`, `removeConnection`, destructor | functors that cross threads while loops end | even distribution; every client served; every connection destroyed |
| echo server | – | `onMessage` | partial writes | everything is echoed |
| Logger, Timestamp, InetAddress | – | formatting | – | – |
| NPtest: select, poll, epoll servers | the set of watched descriptors; the array and `maxPos` | one loop: wait, accept, receive, echo | reused descriptors, full tables, failing `accept`, what a round leaves over | every connection is watched, none blocks the others, every request is answered |
| NPtest: `mulServer.c`, `server.c` | 512 slots shared without a lock | `main` accepts, a thread per client talks | slots given away while in use, `close` before the slot is freed | each client gets its own replies |
| NPtest: `client.c` | a number | connect, request, reply | killed and started again | – |
| NPtest: example reactor | a queue under mutex and condition | `emit`, `loop` | two sources and `main` itself push | FIFO, no lost notify, Enter ends it |
| NPtest: `TcpSocket.h` | a descriptor | constructors, moves, destructor | moves in any order | one owner per descriptor |

The components of Netmux meet in three ways. *Calls*: a loop calls its poller and channels, a
channel its connection, a connection its user. *Functors*: everything that crosses a
thread goes through `queueInLoop`. *Shared variables*: `state_` of a connection,
`quit_`, and `loop_` of an EventLoopThread. The programs of NPtest are each on their own; the five
servers all talk to `client.c`, through the kernel.

## 2. Modules and code

| module | models | uses |
|---|---|---|
| `Executor` | what a loop promises: functors run in the order submitted, each once, until it stops | |
| `EventLoop` | `reactor/EventLoop.cc` | implements `Executor` |
| `EventLoopThread` | `reactor/EventLoopThread.cc`, `utils/Thread.cc` | composes `EventLoop` (instance `L`) |
| `Poller` | `reactor/Channel.cc`, `EPollPoller.cc` | |
| `Buffer` | `Buffer.cc`, `Buffer.h` | |
| `TcpConnection` | `TcpConnection.cc` | composes `Buffer` (instance `B`) |
| `EchoServer` | `Test/echoServer.cpp` | extends `TcpConnection` |
| `TcpServer` | `TcpServer.cc`, `EventLoopThreadPool.cc`, `Acceptor.cc` | |
| `Sockets` | the kernel's side of NPtest's servers, and `simple/client.c` | |
| `SelectServer`, `PollServer`, `EpollServer` | `iomux/*.c` | extend `Sockets` |
| `MulServer`, `SimpleServer` | `simple/mulServer.c`, `simple/server.c` | extend `Sockets` |
| `Reactor` | `loop/EventLoopExample.cpp` | implements `Executor` |
| `SocketHandle` | `simple/TcpSocket.h` | |
| `NPtest` | the programs of NPtest, each with its environment | composes the seven modules above |
| `…Proofs` | theorems about the module they are named after | |
| `MC…` | model values and symmetry for TLC | |

The composition is layered: `EventLoop` is shown to be an `Executor`, and
`TcpConnection` and `TcpServer` take their loops as what an Executor is: functors
in order, in batches between two polls. `Poller` shows that the kernel's view of a
channel follows `events_`, and `TcpConnection` keeps just that (`polled`).

Operators introduced by a comment *Mutated form of …* are not part of a
specification. Each is a plausible bug in the operator it names; putting it in
that operator's place makes the property listed under "mutants" in `PROJECT.json`
fail, which shows that the property depends on the code being as it is.

**EventLoop.** `pc` is where `loop()` is. `queueInLoop` is two steps, as the unlock
stands between `emplace_back` and the test for a wakeup, and so is `quit`. Functors are
numbers in the order they are queued. The eventfd is its count. User code is the
loop's thread in `setup`, `callback` or `functor`, where it may call anything, any
number of times. `quiet` remembers the functors which the loop's own thread queued
before `loop()`: no wakeup announces those.

**EventLoopThread.** `startLoop` with its semaphore, its wait (spurious returns
included) and the second read of `loop_` outside the lock; `threadFunc` with init
callback and publication; the destructor with its unlocked read of `loop_`, its
quit and its join. The thread's end is three steps: `Withdraw` takes `mutex_` and sets `loop_` to
nullptr, `Unlock` releases `mutex_`, `ThreadExit` destroys the loop and ends the thread; the
destructor may read `loop_` between any two of them. User code may call `quit()` too; `userQuit`
remembers it. A loop that has been destroyed is called like a live one; its memory is not modelled.

**Poller.** A method of a channel is one step (one thread runs them all). The kernel
is `ptr` and `mask`; `epoll_ctl` fails when the descriptor is in the wrong state for
the operation. Descriptors close with their channel and are reused by new channels.
`remove()` is what the code makes of it: another `updateChannel`.

**Buffer.** `buffer` holds `readerIndex_`, `writerIndex_` and the vector; bytes are the
numbers 1, 2, …, so their order is visible. `readFd` has the code's `iovcnt`, which is
the value of a comparison. `n`, what `readv` returns, is -1 when there is nothing to read or an error to
report. `MaxBytes` bounds what is produced.

**TcpConnection.** Each access to `state_` or to the queue is a step, so that
`shutdown()` is three (test, set, post), `send()` two, and `connectDestroyed` is three (test, set, `remove`). `pc` and `after` say where the
loop's thread is with this connection and where it goes when user code returns.
`outputBuffer_` has no variable: nothing is ever put into it. It follows that writing is
never enabled and `handleWrite` never reached. User code holds the connection, so the
object lives through every call. Callbacks are set, including those for write-complete
and high-water. The signal SIGPIPE is taken as ignored. A reset leaves an `error` that the first of
three takes: the error callback's `getsockopt`, which comes before the read callback when `poll()` saw the reset
(Channel.cc:62-70), the next `write()`, or a `readv`, which is then -1: when the reset comes between `poll()` and the read.
The server's destruction is the step
`destroyServer`; after it, a hang-up of the channel that `remove()` has put back may call
`handleClose` again, which is why `ToldInOrder` speaks of the time before. Behind it comes `quit`, by which the
destructor of the server's thread pool stops the loop: what the loop still has queued is then never run, and user
code makes no calls any more.

**TcpServer.** Loop 0 is the base loop. A connection is its number and its loop. In the
base loop's thread `removeConnection` calls itself through `postInLoop`; this is the state
`removing`, left by no step. `leaveLoop` is main coming out of `loop()` and into the
destructor, which posts `connectDestroyed`, then quits and joins the pool's threads one
after the other. A pool loop that reads `quit_` before it swaps out the queued
`connectDestroyed` (EventLoop.cc:54) ends without running it, so a destroyed server
may leave connections that were never told; `NoneForgotten` says that there is no other way to be
left. `MaxFds` is the number of descriptors: since `connections_` lets go of none, at the limit
`accept()` fails, the listening socket stays readable and the base loop spins.

**Sockets.** A client is `client.c`: it connects, sends its number, waits for the reply, and goes on,
until it is killed (also with replies unread, which resets the connection) or finds that the server
has closed; then it may be started again. A server's side of a connection is a descriptor, `accept` gives
out the lowest free one or fails, and `recv` finds a request, an error (once) or the end. A request or a
reply is the client whose request it is with its number, and comes in one piece. The listening socket is descriptor 0, lower than
all others as in the programs. A server whose `socket`, `bind` or `listen` fails is `stopped` from the start.

**SelectServer, PollServer, EpollServer.** A step is `select`/`poll`/`epoll_wait`, the accept, or one round of the
`for` loop. Both `break`s in the loop of `select_server.c` and the one in `poll_server.c` drop what is left of the round.
`revents` of `poll_server.c` starts with any value, because the array is on the stack and only `fd` and `events`
are set; `polled` remembers how many entries the last `poll` has looked at. A `recv` that would block is a step that is not enabled.
`select_server.c` is modelled where descriptors stay below FD_SETSIZE (`SetSizeAssumption`).

**MulServer.** A thread is named by its client. It reads `cfd` of its slot at every `recv`, `send` and `close`, each a
step; `main` searches, waits in `accept` (which reserves its descriptor before it waits), and writes `cfd`. The search
leaves `pinfo` alone when no slot is free; when `main` writes into a slot in use, `overrun` is set and
the behaviour ends there: what comes of two threads on one slot is anything.

**Reactor.** The critical section of `emit`, its `notify_one`, the test of the queue and the sleep are steps. `emit` in the
callback of Enter is `main`'s own. **SocketHandle.** One step per constructor, move and destructor.

**NPtest.** `program` says which of the programs a behaviour is of; the variables of the others do not
change. A run thus checks all of them, each with its own set of clients, limit and table (`Setups`).

## 3. Runs

All passing runs exhaust their state space.

| run | checks | bounds and why they are enough |
|---|---|---|
| `EventLoop` | `TypeOK`, `NoLostWakeup`, `NoLostQuit`, `ImplementsExecutor`, `EveryTaskRuns`, `EveryTaskRunsByTimeout`, `QuitStops` | two threads besides the loop's, 3 functors, eventfd of 2: one functor running, one in the batch, one queued behind it, and a full eventfd; the proofs remove the bounds for safety |
| `EventLoopThread` | `TypeOK`, `InitCallbackFirst`, `LeftOnlyAtEnd`, `LoopOrUserQuit`, `StartReturns`, `JoinReturns` | owner and one more user, 2 functors, quits by user code and by the destructor |
| `Poller` | `TypeOK`, `Coherent`, `NoDanglingPointer` | 2 channels, 2 descriptors: reuse of a descriptor by the other channel; array of 1 to 2: growth; the proofs remove the bounds |
| `Buffer` | `TypeOK`, `Contents` | 9 bytes through a buffer of 2 + 3: growth, moves, resets; the proofs remove the bounds |
| `TcpConnection` | `TypeOK`, `ToldInOrder`, `MessagesInOrder`, `NoWriteAfterShutdown`, `GivesUpWriting` | loop's thread and another, both calling, 2 messages, any race of send, shutdown, end, reset, destruction |
| `TcpConnectionLive` | `EndReported` | no sends, two bytes in, two callers of `shutdown` |
| `TcpServer` | `TypeOK`, `Balanced`, `DestroyedAfterEstablished`, `NoneForgotten`, `ClientsServed` | pool of 0 to 2 loops, 4 clients and descriptors for 3: one full round, the next, and the limit; two threads call `start` |
| `NPtest` | `TypeOK`, `EveryConnectionWatched`, `StuckOnlyAtNewEntry`, `OwnReplies`, `OwnSlots`, `OverrunOnlyIfFull`, `NoLostNotify`, `OneOwner`, `AnsweredC1`, `ReactorIsExecutor`, `EventsHandled` | two clients with one or two descriptors and a table of one or two: tables that are too small, just right and too large, and for `mulServer.c` one with more slots than `Clients` has members; a second request of one of them on its connection, so that a late reply could meet the next request, and any number of lives; three clients on `select_server.c`, where two that leave may starve the third; 4 events; 3 sockets |
| `PollerRemove`, `BufferRead`, `EchoServer`, `TcpServerClose` | one property each, violated | section 6 |

What the properties say:

- `NoLostWakeup`: in `poll()` with work queued, a wakeup is unread or about to be written,
  but for functors the loop's thread itself queued before `loop()`. `NoLostQuit`: the same
  for `quit()`.
- `ImplementsExecutor`: refinement of `Executor` under `queued`, `ran` and `pc = "stopped"`.
- `EveryTaskRuns`, `QuitStops`: liveness without the 10 s timeout; `EveryTaskRunsByTimeout`,
  if the timeout is reached in the end, for the quiet functors too.
- `InitCallbackFirst`: nobody else reaches the loop before its init callback is over.
  `StartReturns`, `JoinReturns`: what the owner relies on. Excepted are a
  destructor whose `quit()` came before `loop()`, which clears `quit_`: it may hang; and a
  `startLoop` during which user code quits the loop: it may wait for good.
- `LeftOnlyAtEnd`, `LoopOrUserQuit`: the two reads of `loop_` without `mutex_`, by `startLoop` and by the destructor,
  miss the loop only if user code has quit it and its thread has withdrawn `loop_`. Then `startLoop` may return
  nullptr, and the destructor may leave the thread behind, `mutex_` perhaps still locked (section 6).
- `Coherent`, `NoDanglingPointer`: the code's and the
  kernel's view of the channels agree, so that no dead address is used.
- `Contents`: the readable bytes are those produced and not consumed, in order.
- `ToldInOrder`: up, then messages, then down once. `MessagesInOrder`: each thread's messages
  reach `write()` in its order. `NoWriteAfterShutdown`: once a thread's `shutdown()` has
  shut the socket, none of its messages is written any more; another thread's may be.
- `GivesUpWriting`: after the user was told of the end nothing is written, unless a `shutdown()` raced the end (section 6).
- `EndReported`: the end of the connection, close or reset, reaches the user, even through a full buffer, unless
  the server's destructor stops the loop first.
- `Balanced`: loads differ by one at most, over loops that all run.
  `DestroyedAfterEstablished`: the order of the two functors survives the threads.
  `ClientsServed`: as long as nothing closes, all clients get their connection, up to the number of
  descriptors; those accepted are set up even while the base loop spins at the limit. `NoneForgotten`: the destructor
  reaches every connection, but for the functors of a loop that read `quit_` first.
- `EveryConnectionWatched`: when `select_server.c` (below FD_SETSIZE) or `epoll_server.c` waits, it watches just the connections it has;
  so does `poll_server.c` if its table has an entry for each descriptor, and with a shorter one, which forgets clients, it watches no
  closed one. `StuckOnlyAtNewEntry`: none of them calls a `recv` that may block, but `poll_server.c` in an entry filled since the
  last `poll`.
- `OwnReplies`, `OwnSlots`: what a client finds is one reply, to its own last request, and no thread of
  `mulServer.c` loses its slot or descriptor, as long as no slot was overrun. `OverrunOnlyIfFull`: none is
  with fewer clients than slots, counting clients whose threads have still to free theirs. `AnsweredC1`: a request on a connection the server holds
  is answered (of one client, in every setup; the code does not tell clients apart).
- `ReactorIsExecutor`, `NoLostNotify`, `EventsHandled`: what `Executor`, `NoLostWakeup` and `EveryTaskRuns` are for `EventLoop`;
  and Enter ends the program however fast the ticker is. `OneOwner`: no descriptor leaks, none is closed twice.

`CHECK_DEADLOCK` is on in every run: the states in which a program has really ended have
a step of their own (`Gone`, `Finished`, `Stopped`, `Done`), or the peer or a caller can still act.

## 4. Fairness

- A thread that can take a step of its own takes it: weak fairness of `LoopStep`, of
  the last steps of a thread (`Withdraw`, `Unlock`, `ThreadExit`), of `CallStep`'s second halves (`QueueWakeup`, `QuitWakeup`, `FinishCall`), of the steps of owner,
  destructor and `start()`.
- User code returns: strong fairness of `CallbackReturns`, `FunctorReturns`, `UserReturns`, because
  further calls from the same code may disable the return for a while, any number of times.
- `poll()` returns for what is ready: weak for the eventfd, which stays readable; strong for the
  channel of a connection and for the listening socket, because other events come between.
- NPtest: `main` and the threads of `mulServer.c` run, a client that is not killed goes on as `client.c` does, a `notify_one` that
  is due comes. Weak fairness is enough, as no step of theirs is taken away again by another.
- Nobody has to call, connect, send, close, reset or destroy, and a server that is being destroyed need not come to `quit`; poll's timeout is no part of
  `Fairness`, so that the wakeups are checked without it; `EveryTaskRunsByTimeout` assumes it.

The code justifies these by running each loop in a thread of its own, without locks held over
callbacks (`doPendingFunctors` swaps its queue out first), and by epoll being level-triggered.

## 5. What is proved

TLAPS proves the following for all values of the constants that meet the modules' assumptions
(threads distinct from the loop's, natural sizes and bounds, positive capacities, finitely many clients); no bound on threads, loops,
tasks, connections, messages, channels, bytes or sizes is needed.

| module | theorems | argument |
|---|---|---|
| `EventLoopProofs` | `TypeCorrect`, `Invariance`, `WakeupsSuffice`, `QuitNeverMissed`, `Refinement` | `IInv` below |
| `PollerProofs` | `Invariance`, `TypeCorrect`, `StatusCoherent`, `PointersLive` | `Coherent` becomes inductive with two more facts: objects do not share a descriptor, and what the kernel holds is a channel that is kAdded |
| `BufferProofs` | `Invariance`, `IndicesInRange`, `ContentsPreserved` | one lemma per helper (`MoveDown`, `Resize`, `Store`, …) that it keeps the form and the contents of a buffer, composed along the calls |
| `ReactorProofs` | `Invariance`, `WakeupsSuffice`, `Refinement` | the queue holds the events `taken + 1 .. emitted` in order |
| `NPtestProofs` | `Invariance`, `TypeCorrect`, `Watched` (`EveryConnectionWatched`), `StuckAtNewEntry` (`StuckOnlyAtNewEntry`), `Replies` (`OwnReplies`), `Slots` (`OwnSlots`), `Overruns` (`OverrunOnlyIfFull`), `Wakeups` (`NoLostNotify`), `Executes` (`ReactorIsExecutor`), `Ownership` (`OneOwner`) | what is common to all servers is proved once, of the system calls; then each server's table against the open descriptors |
| `EventLoopThreadProofs` | `LoopIsEventLoop`, `Invariance`, `TypeCorrect`, `CallbackIsFirst` (`InitCallbackFirst`), `JoinsUnlessUserQuit` (`LeftOnlyAtEnd`), `LoopIsGiven` (`LoopOrUserQuit`) | the pairs of places that owner and thread can be in together |
| `TcpServerProofs` | `Invariance`, `TypeCorrect`, `DealtEvenly` (`Balanced`), `NeverOvertakes` (`DestroyedAfterEstablished`), `AllAccountedFor` (`NoneForgotten`) | what each queue may hold, and in which order; the loads as `next_` has them |
| `TcpConnectionProofs` | `Invariance`, `TypeCorrect`, `ReportedInOrder` (`ToldInOrder`), `WrittenInOrder` (`MessagesInOrder`), `ShutsLast` (`NoWriteAfterShutdown`), `WritingEnds` (`GivesUpWriting`), `InputIsBuffer` | batch and queue as one sequence, and what each step does to it |

`NoLostWakeup` is not inductive: it says nothing of the loop outside `poll()`. `WakeInv` extends it to
all places but those between `poll()` and the swap of the queue, where the wakeup may have been consumed
already and the swap is still to come. To return from the functors to the loop, it needs that
`callingPendingFunctors_` is true exactly there (`CallingInv`), for then functors that queue more are announced;
and that the loop's thread is in no call outside user code (`LoopIdle`). `Refinement` needs that the two
queues hold the numbers `ran + 1 .. queued` in order (`OrderInv`).

**EventLoopThread.** `Together` says where the thread may be for each place of the owner, `SemInv` that the semaphore is
posted once and consumed once, `PointerInv` that `loop_` is set just while `threadFunc` is in `loop()`. `LoopInv` has the loop
untouched before publication and stopped after the thread; a loop that stopped was asked to by user code or the destructor (`QuitInv`).
`LoopIsEventLoop` shows every step of the composition to be one of `EventLoop` or none of its variables, so that the theorems of
`EventLoopProofs` hold of the loop of an EventLoopThread.

**TcpServer.** `Balanced` compares loads only; `DealtInv` says which loops are ahead: those before `next_` have one connection more
than the others. It needs that the pool does not grow once anything is accepted (`StartInv`). `DestroyedAfterEstablished` becomes
inductive with `OrderInv`: before every `connectDestroyed`, in the queue or the batch of a loop, there is its `connectEstablished`, ahead of it in
the same sequence or in the batch of that loop. That batches are empty in `poll()` (`BatchInv`) lets the swap of the queue keep that
order, and that functors are only where they belong (`Located`) confines it to one loop. `NoneForgotten` follows from
`EstablishInv` and `DtorInv`: what has not run is on its way, and when the destructor is done all loops have stopped.

**TcpConnection.** `Queue` is what is left of the batch, with the queue behind it. One lemma for each kind of step says what it does to
`Queue` (`QueueSteps`: it leaves it, takes off the head, or adds at most one functor at the end); the invariants are then kept by
these lemmas and not action by action. `OrderInv` gives `MessagesInOrder`: numbers grow along `Queue` and along `wire`, and what a thread
has queued comes after what it has written; messages sent at once are all from the loop's thread, which queues none.
`ShutInv` gives `NoWriteAfterShutdown`: from the moment `shutdown()` has set the state the thread cannot send, and behind its queued
`shutdownInLoop` none of its messages stands. `LifeInv` gives `ToldInOrder`: nothing at all happens before `connectEstablished`, the first functor;
then the channel is registered for reading while the connection is up and out of epoll once it is down, so that no handler can report the end a
second time, and `connectDestroyed` finds no `kConnected`. It holds until `remove()`, which puts the channel back (section 6).
`PhaseInv` adds that events are dispatched only while the batch is empty.

**NPtest.** `Conversations` has a client with one request or one reply on its way at most, always its own last request (`Latest`), and `Placed` each client
once in the backlog or behind one descriptor. Lemmas about `accept`, `echo`, `close`, `exit` and the clients' steps keep both (`AcceptsKeeps`, `EchoKeeps`,
`ExitKeeps`, `ClientKeeps`), and say what becomes of `OpenFds` and of `ReadableFds`: a descriptor that a server has found readable stays so until it
is its turn, because a client that is gone or has a request in its inbox does not take that back, and because no two descriptors are the same client's. The
servers' own invariants follow: `SelectInv` and `EpollInv` have the watched set equal to the open descriptors; `Table` has each descriptor in one
entry of `poll_server.c` below `maxPos`; by a count (`TableNotFull`), a table as long as the limit has an entry left for every client accepted.
`Slotted` gives `OwnSlots`: each thread of `mulServer.c` has a slot of its own with its client's descriptor in it, and the slot is in use from the
accept to the end of `free`, the last thing that the thread does; `main` reads `cfd` of a slot as free only then. The request a thread holds is the one its client waits for, which gives `OwnReplies`. `RoomInv` gives
`OverrunOnlyIfFull`: a slot in use is that of a thread, so that with fewer clients than slots one is free (by the pigeon-hole principle,
`SlotFree`), and only `main` takes slots, so that the one it has found is free until its client comes. `IInv` is the
conjunction, with the reactor's invariant (from `ReactorProofs`) and the sockets'; a step of one program leaves the parts of the others alone (`SelectIdle`, …).

Only model-checked: liveness and everything that rests on fairness or ENABLED, which the prover does not
handle (`EndReported`, `ClientsServed`, `StartReturns`, `JoinReturns`, `EveryTaskRuns`, `QuitStops`, `AnsweredC1`, `EventsHandled`, …).
Every safety property of a passing run is proved.

## 6. Where code and comments disagree

Each is a run that TLC ends with a counterexample.

- `PollerRemove`: `EventLoop::removeChannel` (EventLoop.cc:87) calls `updateChannel`. After `disableAll` this adds the
  descriptor to epoll again. The comment at TcpConnection.cc:69 says *remove channel from poll*.
- `BufferRead`: `readFd` gives `readv` one entry or none (Buffer.cc:16), so that it reads 0 bytes into a full buffer, which
  TcpConnection.cc:142 takes for the end of the connection.
- `EchoServer`: what `write()` does not take is dropped (TcpConnection.cc:123-128); the echo server promises to send everything
  back (echoServer.cpp:24).
- `TcpServerClose`: `removeConnection` posts itself (TcpServer.cc:89), in the base loop's thread a recursion without end:
  after the first close no client is accepted (TcpServer.cc:31).

Behaviours met on the way, which properties of passing runs name as exceptions:

- `shutdown()` tests and sets `state_` in two steps (TcpConnection.cc:85-86); over a connection that ends in between it writes
  `kDisconnecting`, and queued messages are then written, which TcpConnection.cc:99-100 means to give up (`GivesUpWriting`).
- `select_server.c:65` leaves the round at the end of a connection: two low descriptors whose clients leave by turns, one in every
  round, keep a higher one from ever being read (`Answered`).
- `poll_server.c:61` reads `revents` of an entry filled a moment before, which no `poll` has set: the server may block in `recv` until that
  client sends (`StuckOnlyAtNewEntry`). With the table full, `poll_server.c:46` forgets the client it has just accepted
  (`EveryConnectionWatched`, `Served`).
- The destructor of `EventLoopThread` reads `loop_` without `mutex_` (EventLoopThread.cc:17). If user code has quit the loop, it may find
  nullptr while `threadFunc` still holds `mutex_`, and destroy `mutex_` with the object (`LeftOnlyAtEnd`); and `startLoop` may return nullptr (`LoopOrUserQuit`).
- `~TcpServer` posts `connectDestroyed` and then, with its thread pool, quits the loops: a connection whose end comes in
  between may never be reported (`EndReported`, `NoneForgotten`).
- `mulServer.c:50-55` with 512 clients gives the next one the slot used last (`OwnReplies`, `OwnSlots`).
- `main` of `EventLoopExample.cpp` destroys the reactor while detached threads still use it (:106-108).

## 7. Not modelled

- Memory: the life time of a loop during a call on it, of the string a queued `send()` points into, of a
  connection its user has let go; calls on a connection whose loop its server has destroyed. The models let the objects live.
- `EPollPoller::removeChannel`, `TcpServer::removeConnectionInLoop`: never called. `Buffer::writeFd`,
  `TcpConnection::handleWrite`: never reached.
- Failure of system calls other than `accept`, `read`, `write` and `epoll_ctl`: the code only logs them.
- Socket options, addresses, logging and time stamps; the limit of descriptors elsewhere than in `TcpServer` and NPtest.
- Which of a channel's callbacks are set (`Channel::handleEvent` and its `tie`), beyond the two that
  `TcpConnection` needs: user code is taken to hold the connection, so that the tie is never found broken.
- The step within `quit()` between the flag and the wakeup, when the destructor of `EventLoopThread` has read `loop_` just before
  the thread withdrew it, touches a loop that is gone: the model goes on with it as with a live one.
- NPtest: descriptors from FD_SETSIZE on in `select_server.c`, whose `FD_SET` writes beyond `readfds`; `Socket(int)` of `TcpSocket.h` with
  a descriptor that another object has (it is given a fresh one, as `accept` gives); messages that `recv` splits or joins, SIGPIPE, the slot table of `mulServer.c` after an overrun, `FD_SET(-1)` (undefined; the bit
  it sets is no descriptor of the instance), the reactor between its destruction and the end of the process.

## 8. Plan

Done, in this order: `EventLoop` with `Executor`, `Poller`, `Buffer`, `EventLoopThread`, `TcpConnection` with `EchoServer`,
`TcpServer`, the proofs about the first three; then NPtest with its servers, the limit of descriptors in `TcpServer`, and the
proofs about `Reactor` and `SocketHandle`; then the proofs about `EventLoopThread`, `TcpServer`, `TcpConnection` and all of NPtest, which leave no
safety property of a run to TLC alone; then the finer steps at the end of a loop's thread and of a server, resets that `readv` reports, requests with
the identity of their client, and the proof that only a full table of `mulServer.c` is overrun. Next:

1. **Prove.** That `TcpConnection` and `TcpServer` use their loops as an Executor does: a step of theirs maps to one of `Executor` per loop.
2. **Extend.** The life time of a connection: the tie, connections_, the queued functors, and the `this` of a queued
   `sendInLoop`.
