# A TLA+ model of the net library

The library is a reactor for Linux: every thread that serves sockets runs an
`EventLoop`, which waits in `epoll_wait()`, dispatches events to `Channel`s and
runs tasks that other threads handed to it. TCP servers and clients, timers and
a UDP server are built on it. This directory holds TLA+ modules translated from
the sources in `src/src/`, TLC runs of them on small instances, and proofs that
TLAPS checks.

## The system

| Part | State | Operations | Hard behaviour |
|---|---|---|---|
| `EventLoop` | `task_list_`, `quit_`, `need_wakup_`, eventfd, signalfd | `Loop`, `QueueInLoop`, `RunInLoop`, `Quit`, `SetHandleSingnal` | tasks and quits from any thread at any point of the cycle |
| `EventLoopThread` | `event_loop_`, `running_`, the thread | `StartLoop`, `StopLoop`, `OnEventLoop` | publication and end of an object on another thread's stack |
| `EventLoopThreadPool` | `loops_`, `next_` | `Start`, `Stop`, `GetNextEventLoop` | loops handed out in turn, destroyed before the server's connections |
| `Channel`, `Epoller` | `status_`, `events_`, `channels_`, active array, epoll's list | `Enable...`, `Disable...`, `Remove`, `Poll`, `HandleEvent` | changes from callbacks during dispatch, descriptor reuse |
| `TimerQueue` | two sets of timers, the batch being run, timerfd | `AddTimer`, `Cancel`, `HandleRead`, `Reset`, destructor | cancelling in callbacks, address reuse, calls of other threads |
| `TCPConnection` | state, output buffer, interest in events | `Send`, `ShutdownWirte`, `ForceClose`, event handlers | order of bytes over direct, queued and partial sends; races of close |
| `TCPServer` | connection list by descriptor | `OnNewConnection`, `OnConnectionRemove`, `Stop` | removal over two threads, descriptor reuse, shutdown order |
| `Acceptor` | idle descriptor | `Listen`, `HandleRead` | running out of descriptors |
| `TCPConnector`, `TCPClient` | state, channel, retry timer; connection | `Start`, `Stop`, `Restart`, `Retry`; `Connect`, `Disconnect` | stop and restart during a connect or a retry |
| `PacketQueue`, `UDPWorker`, `UDPReceiver`, `UDPServer` | queue, worker threads, channel | `Push`, `Pop`, `Start`, `Stop`, error restart | stopping threads that wait; replacing a receiver in its own callback |
| `Buffer` | bytes, two indexes | `Append`, `Retrieve`, `MakeSpace`, `ReadFd`, the integers, the searches | index arithmetic, overlapping moves, growth |

The wrappers of sockets and addresses, logging and the choice of the poller are
left out, as they have no state to check; so is the older `Connector`, which
nothing uses.

How the parts interact: every call from another thread goes through
`QueueInLoop()`/`RunInLoop()` of a loop, so each module that has such calls
carries its part of the loop's queue (`pending`, `tasks`, `queue`). That this
queue is first in, first out, loses nothing and is eventually served is what
`EventLoop` is shown to provide.

## Modules

* `TaskQueue`: the abstract queue that `EventLoop` implements.
* `EventLoop`: one action per step of `Loop()` and `DoPendingTasks()` between
  which another thread can act, `pc` being the loop's thread. `QueueInLoop()` and
  `Quit()` are two actions each: the assignment, then the write of the eventfd
  (`op[t]` in between). Events of sockets and timers are one abstract channel
  whose callback may call back into the loop. `need_wakup_` starts with either
  value because the code does not initialise it.
* `EventLoopThread`: extends `EventLoop` with the thread that owns the loop and
  the thread that starts and stops it.
* `EventLoopThreadPool`: the pool, as operators that `TcpServer` composes.
* `Epoller`: channels, the table, the kernel's interest list and the active
  array, which the code terminates with `nullptr` and never clears. The actions
  of channel owners follow the discipline of the owners in the library.
* `TimerQueue`: timers live at addresses that are reused after deletion. `Tick`
  is the clock; everything a thread other than the loop's asks for waits in
  `pending`; between `Poll` and `HandleRead` callbacks of other channels may set
  the timerfd anew, and `ReadTimer()` then fails; `AddTimerReturn` is the read of
  the sequence number after `RunInLoop()`; `Destroy` is the destructor.
* `TcpConnection`: one connection with the kernel's send buffer and the peer.
  A byte is a pair of message and position, so that loss, repetition and
  reordering are visible. `HandleEvent_()` is split into its hang-up, read and
  write parts.
* `Acceptor`: the accept loop of `HandleRead()` with its error paths and the idle
  descriptor. A new descriptor is the lowest free one, as the kernel has it, and
  other threads open and close descriptors between any two system calls. The
  descriptors of the server's connections are a parameter of its operators.
* `TcpServer`: many connections through their life: accepted, listed, closed,
  removed, destroyed and freed with the last reference, which makes the
  descriptor available again. It extends `EventLoopThreadPool` and `Acceptor`:
  `Start()`, `Stop()` and `GetNextEventLoop()` of the pool are parts of the
  server's actions, and the accept loop's callback is `OnNewConnection()`.
* `TcpConnector`, `TcpClient`: the connector's handlers, and the client that
  composes them with the rounds of the loop (poll, dispatch, tasks), the life of
  its connections and a user's thread. Handlers of the loop are cut where the
  user's thread can come in (`pc`), calls of the user where the loop can (`op`).
* `PacketQueue`, `UdpWorker`, `UdpServer`: the queue with its mutex and condition
  variable, the worker threads, and the receiver and the server that feed and stop
  them. A section under the mutex is one action; the notification, which the code
  sends after the unlock, is another. `main` is the thread of the server's loop.
* `ByteQueue`: the abstract queue of bytes that `Buffer` implements.
* `Buffer`: the vector and its two indexes as a record, every public function an
  operator on it. `std::copy_backward()` of overlapping ranges is the `memmove()`
  it is compiled to; integers are encoded in network order at their width.
* `MC...`: model values and symmetry sets for TLC.
* `EventLoopProofs` (about `EventLoop` and `EventLoopThread`), `EpollerProofs`,
  `TimerProofs`, `TcpConnectionProofs`, `TcpServerProofs` (with `Acceptor` and
  `EventLoopThreadPool`), `TcpClientProofs` (with `TcpConnector`), `UdpProofs` and
  `BufferProofs`: the theorems.

Definitions named `X_Something` with a comment that begins with "Fault" are
variants of `X` with a plausible bug. No specification uses them; putting one in
the place of `X` makes TLC report a violation, which shows that a property
depends on the code it is about. `PROJECT.json` says which belongs to which.

## Runs

| Run | Configuration | Shows |
|---|---|---|
| `event_loop` | 3 threads, 2 tasks, 2 signals | `NoLostWakeup`, `DrainOnReturn`; `QuitEndsLoop`, `SignalHandled`; the loop implements `TaskQueue` |
| `thread` | starter, user, loop thread, 2 tasks | `PointerValid`, `StopDrains`; `QueuedTaskRuns`, `StopLoopReturns` |
| `epoller` | 3 channels, 3 descriptors, arrays of initially 2 entries | `AssertsHold`, `KernelMatches`, `TableConsistent`, `ActiveValid` |
| `timers` | 3 timers at 2 addresses, 1 other thread, clock up to 3 | `SetsAgree`, `Ownership`, `CancelSticks`, `TimerfdArmed` |
| `connection` | messages of 1 and 3 bytes, socket buffer of 2 | `StreamIntact`, `WritingMatches`, `DownOnce`, `OutputDrains`, `CloseCompletes` |
| `server` | 2 connections, 3 descriptors, 0 to 2 loops, another thread's descriptor | `ListConsistent`, `FreedClean`, `DownOnce`, `IdleOwned`; `RemovalCompletes`, `BacklogServed` |
| `client` | 2 descriptors, back-off 1, 2, 3 | `AssertsHold`, `SocketsOwned`, `StoppedQuiet`, `KeepsTrying`, `DisconnectCloses`, `DisconnectEnds` |
| `udp` | 3 datagrams, 1 to 3 workers, socket buffer of 2 | `PacketsOnce`, `NoSleepOverPacket`, `PacketsHandled` |
| `buffer` | strings of 0, 1 and 3 bytes, an integer of 2, vector and extra buffer of 2 | `AssertsHold`, `MemoryBounded`; the buffer implements `ByteQueue` |

The following runs show where the code does something else than a comment or an
assertion says; TLC's counterexample is the explanation.

| Run | Property | What happens |
|---|---|---|
| `connection_write_assert` | `WriteAssertHolds` | the write handler runs after the read handler closed the connection |
| `connection_send_fails` | `SendFailureCloses` | `EAGAIN` drops a message and nothing is closed |
| `server_stop` | `DestroyedInLoop` | tasks are handed to loops that were destroyed |

Other limits of the code that came up while modelling and have no run of their own:

* A task that the loop's own thread queues before `Loop()` may wait for the first
  poll to time out, because `need_wakup_` is not initialised
  (`OwnerQueuesIdle = TRUE` makes `NoLostWakeup` fail).
* `Quit()` of another thread is two steps; the loop may end, and be destroyed by
  its thread, before the second writes its eventfd.
* `quit_ = false` in `Loop()` undoes a `Quit()` that came before it, and an early
  `StopLoop()` then waits for ever (`StopWhenLooping = FALSE` makes
  `StopLoopReturns` fail).
* `HandleSignal()` reads one signal per event, and the kernel hands out the lowest
  first: a signal that is raised over and over keeps higher ones waiting.
  `SignalHandled` speaks of signals over which no lower one keeps coming.
* A timer that an earlier callback of the same batch cancels is still run:
  `HandleRead()` calls what `getExpired()` returned and does not look at
  `canceling_timers_`, which only keeps `Reset()` from restarting the timer.
  `CancelSticks` says that no other cancelled timer is run.
* `AddTimer()` of another thread reads the sequence number of a timer that the
  loop may have run and deleted meanwhile.
* `next_` of the pool would wrap after 2^31 connections, and the remainder become
  negative; the model stops far below (`MaxNext`).
* `ShutdownWirte()` while output waits does nothing, and nobody does it later.
* A callback that calls `Disconnect()` while a write event of the connector is
  ahead in the same round lets `HandleWrite()` fail its assertion
  (`StopInCallback = TRUE` makes `AssertsHold` of `TcpClient` fail).
* `Disconnect()` from another thread, just before the connection becomes
  `CONNECTED`, does not close it. `DisconnectCloses` speaks of the other calls.
* `StopInLoop()` of the connector gives up an attempt without closing its
  descriptor (`"lost"` in the model).
* `Connect()` works once: `state_` stays `CONNECTED` after `Disconnect()`, and
  `StartInLoop()` asserts `DISCONNECTED`. The model calls it once.
* When another thread takes the descriptor that `HandleRead()` of the acceptor
  frees to drop a connection, `idle_fd_` becomes -1. From then on a connection
  that meets `EMFILE` stays in the backlog; `BacklogServed` excludes this.
* `Stop()` of the workers sends one notification, whatever their number, and not
  under the mutex: a worker that has tested `running_` and not yet begun to wait
  misses it as well. `Join()` then waits for ever, so no property says that the
  UDP server's `Stop()` returns.
* A worker that is woken and finds the queue empty, because another one, or itself
  before a late notification, took the packet, ends for good. `PacketsHandled`
  excepts the case that all have ended.
* `Stop()` drops the packets that are still in the queue.
* `OnReceiverError()` replaces the receiver from inside the handler of its channel,
  and the assertion of `~Channel()` ends the program (`"aborted"`).

The passing runs that would meet such cases exclude them by a named constant:
`OwnerQueuesIdle`, `StopWhenLooping`, `StopInUse`, `StopInCallback`, `MaxNext`.
Where the model can go on after the disagreement it does so, and the other
properties are checked on those behaviours too (`TimerQueue`, `TcpConnection`).

### Bounds

The bounds are chosen for the cases at stake. Two tasks and two threads besides
the loop's give one task in the batch or running and one being queued, by
threads that race with each other and with the loop; the proofs extend this to
any number. Two signals compete for the one that is read per event. Three channels on three descriptors allow a descriptor to be handed
over while others are in use, and arrays smaller than the number of channels
make them grow. Three timers at two addresses force an address to be reused;
times 1 and 2 with intervals 0 and 1 and the minimal delay 1 give timers due
together, overdue timers and restarts that collide with additions. Messages of
one and three bytes over a socket buffer of two give complete, partial and
failed sends. Two connections on three descriptors, one of them the idle one and
one wanted by another thread, force a slot of the list to be reused and the
process to run out of descriptors. Three workers give one that sleeps, one that
was notified and one that comes in between; three datagrams over a socket buffer
of two give one that is dropped. A vector of two bytes and an extra buffer of two
bytes make `MakeSpace()` move, grow and do neither, and `ReadFd()` fill one part,
both, or neither, with at most five bytes readable. Two descriptors let a client's new connection meet an old one that a
user still holds. `MaxTasks`, `MaxPending`, `MaxTimers`, `MaxIn`, `MaxNext`,
`MaxPackets`, `MaxReadable`, `MaxOthers` and `MaxTime` only bound the state space. Symmetry is declared only in runs that
check invariants alone.

### Fairness

Weak fairness is assumed of the steps a running thread takes by itself, and of
the completion of calls that were begun: threads are scheduled. Callbacks and
tasks return (strong fairness, because they are interrupted by the calls they
make). Nothing is assumed of the poll timeout or of unrelated traffic: progress
has to come from the wakeups. Nobody has to start, quit or close anything. In
`TcpConnection` the peer keeps reading, and queued tasks are run even when events
keep coming, since `Loop()` runs `DoPendingTasks()` after every dispatch. In
`TcpClient` the loop turns and a call of the user that was begun returns; nothing
is assumed of the network or of the order of events. In `TcpServer` every loop
runs its tasks; for the base loop this is strong fairness, because the accept loop
takes turns with the tasks and `Loop()` gets to `DoPendingTasks()` after it. In
`UdpServer` the loop reads the socket while it is readable, and threads that are
not waiting run; a thread that waits needs its notification.

## Proofs

All proofs hold for every value of the constants that the assumptions of the
module admit; where a run checks the same property, TLC shows it on one instance
and the theorem for all. The strengthenings below were checked as invariants by
TLC, too.

`EventLoopProofs`, from `ThreadAssumption` and `IdleAssumption`, for the thread also
from `StarterAssumption` and `UseAssumption`:

* `TypeCorrect`: the type invariant;
* `WakeupNeverLost`: `NoLostWakeup`, for `OwnerQueuesIdle = FALSE`. The
  invariant is not inductive, because it speaks of the poll only. The
  strengthening says, wherever the loop's thread is past the point where it will
  look at the queue in this round, that a task in the list or a set `quit_` goes
  with a readable eventfd or a thread about to write it; and that the loop's own
  thread calls only where `need_wakup_` is set or the list is still to be read;
* `TasksFifoOnce`: `FifoOnce`, inductive together with the types;
* `ReturnDrains`: `DrainOnReturn`, from the partition of `submitted` and a
  statement on what the last `DoPendingTasks()` still has to run;
* `LoopImplementsTaskQueue`: every step of the loop is a step of `TaskQueue` or
  leaves it unchanged;
* `ThreadImplementsLoop`: `ThreadSpec => Spec`, so what is proved of the loop holds
  of a loop in its thread;
* `PointerStaysValid`: `PointerValid`, from `Started`, which ties the place of the
  thread that starts and stops to the place of the loop's thread;
* `StopLoopDrains`: `StopDrains`, from `Drained`: once the last `DoPendingTasks()` has
  taken the list, each task queued before `StopLoop()` was called has run or is in
  the batch, and when `Loop()` has returned it has run.

`EpollerProofs`, from `ChanAssumption` (finitely many channels) and
`SizeAssumption`:

* `AssertionsHold`, `KernelAgrees`: `AssertsHold` and `KernelMatches`, from the
  invariant `Agree`, which states the agreement also from the side of the table
  and of the kernel: an entry belongs to a channel that owns its descriptor, no
  two owners share one, and every other channel is `kNew`;
* `TableAgrees`: `TableConsistent`, from `Counted`. The descent of
  `DelChannelListItem()` to the next used descriptor is a function by recursion;
  that it finds the maximum is shown by contradiction at the least descriptor
  where it would not;
* `OnlyLivingDispatched`: `ActiveValid`, from `Dispatch`: what is ahead of the
  cursor lives and is there once, so the channel that a callback destroys, its
  own, is not met again. The array has room for the `nullptr` because epoll
  reports no channel twice.

`TimerProofs`, from `TimeAssumption`:

* `TimerfdStaysArmed`: `TimerfdArmed`, from `Punctual`, which says it of all timers
  in place of the earliest: one armed time is not after any timer's, or not after
  `MinDelay` from now;
* `SetsStayEqual`, `TimersOwned`, `CancelledStayAway`: `SetsAgree`, `Ownership` and
  `CancelSticks`, from `Places`. `Placed` says that the allocated addresses fall
  into those held by the sets, those of the queued `AddTimerInLoop()` calls and
  those of the batch, and that no address is there twice. `Ended` says that a
  timer that was cancelled or has fired is at most in the batch and will not be
  restarted, and that sequence numbers in use are below the next one. None of the
  three is inductive alone: an address may only be reused because its last owner
  is gone, and `Reset()` finds the cancelled ones by address and number.

`TcpConnectionProofs`, from the assumptions of `TcpConnection`:

* `StreamStaysIntact`, `WritingAgrees`: `StreamIntact` and `WritingMatches`, from
  `Flow`, their conjunction. Neither is inductive alone: a direct `send()` may
  only skip the output buffer because write events are off and the buffer is
  therefore empty;
* `GoesDownOnce`: `DownOnce`, from `Life`, which counts the queued
  `ConnectionDestroy()` calls by state and says that a connection that is down
  watches no event. That is why a second hang-up or read event cannot close it
  again, whichever calls other threads have under way.

`TcpServerProofs`, from `FdAssumption`, `NullAssumption`, `StopAssumption` and
`PoolAssumption`, for either value of `StopInUse`:

* `GoesDownOnce`, `FreedConnectionsClean`: `DownOnce` and `FreedClean`, from `ConnInv`,
  which says for each connection, by its state, which tasks for it are queued and in
  which loop: one that is `DISCONNECTING` waits for its removal in the server's queue
  or for its destruction in its own loop's and, while the server runs, is listed in
  the first case and not in the second;
* `ListStaysConsistent`: `ListConsistent`, from this, from `ListInv` (what is in a slot
  has the slot's descriptor, so a descriptor cannot be free while listed) and from
  `CountInv`. That the tasks `Stop()` hands out are one for each listed connection
  is a lemma of its own (`DestroyTasksFacts`);
* `IdleStaysOwned`: `IdleOwned`, from `IdleInv`, which says at each step of
  `HandleRead()` what the acceptor has open.

`TcpClientProofs`, from `SockAssumption`, `DelayAssumption` and `ClientAssumption`,
for `StopInCallback = FALSE` as in the run:

* `AssertsAlwaysHold`, `SocketsStayOwned`, `StopStaysQuiet`, `ClientKeepsTrying`:
  `AssertsHold`, `SocketsOwned`, `StoppedQuiet` and `KeepsTrying`, all from one
  invariant. It says what holds at each place of a handler (`PcInv`), that a round
  has one event at most and the event is still true when it is handled, or is a
  retry timer that was cancelled while its batch was run and finds `running_`
  cleared (`RoundInv`), in which order tasks can be queued: `StartInLoop()` is
  first, and the closing of an open connection is never followed by the reset of a
  channel (`QueueInv`), that nothing happens before that first task and nothing is
  tried after a stop (`StartInv`), who owns each descriptor (`SockInv`) and where
  the user's call is (`UserInv`).

`UdpProofs`, from the assumptions of `UdpServer` and `UdpWorker`:

* `NobodySleepsOverPacket`: `NoSleepOverPacket`, inductive with the types: each
  step changes the length of the queue and the number of notified workers
  together;
* `PacketsHandledOnce`: `PacketsOnce`, from `Once`: the queue is the end of what
  was received, and places are disjoint.

`BufferProofs`, from `BufferAssumption`:

* `AssertionsHold`, `MemoryStaysBounded`: `AssertsHold` and `MemoryBounded`, from
  an invariant on the indexes and the size of the vector;
* `BufferImplementsByteQueue`: each operation is one step of `ByteQueue`. The
  lemmas say what moving, growing, writing and retrieving do to the readable
  bytes. The values of the bytes are taken from what is appended (`Cells`), since
  arithmetic with powers is out of the provers' reach; that integers are read
  back as they were appended is evaluated by TLC (`IntsReadBack`).

Every invariant and the two refinements that a passing run checks are thus proved.
Only model-checked are the liveness properties, which need fairness and
`ENABLED`, and `IntsReadBack`, which TLC evaluates for widths 1 and 2. The
properties of the three runs that end in a counterexample do not hold.

## Not modelled

* The content of callbacks beyond the calls they make back into the library.
* Failures of system calls on which the code exits, and failed `epoll_ctl()`
  calls, which the invariants exclude.
* `channels_` and `tcp_conn_list_` are taken to have an entry for every
  descriptor: their initial size, 1024 * 1024, is the system's default limit.
* `~TCPClient()`, which runs after the loop has stopped.
* Spurious wakeups of condition variables, which would end a UDP worker.
* What is sent over UDP: `Send()` is one system call and changes no state.
* A callback that takes longer than a retry delay: a retry timer is due in a
  later round than the one that set it.
* The error event of a TCP connection (`EPOLLERR`): `HandleError()` only logs, and
  the hang-up that comes with the error is handled before it.
* A TCP connection's input buffer, beyond whether there is something to read.

## Plan

Timers that eventually fire, under a fair clock; the destructor of `TCPClient`.
