# Verification of NPP

NPP is a small C++20 library: coroutine tasks, the executors they run on, a
channel between them, a timer, and a message-passing network layer. This
directory holds TLA+ models of its concurrent parts, TLC configurations that
check them on small instances, and proofs about the channel (which implements an
abstract FIFO channel), the looper, the scheduler, the task, the elastic
executor and the network manager.

## The system

### Components, their state and their operations

| Component | Source (under `src/src`) | State | Operations |
|---|---|---|---|
| Channel | `task/Channel.h`, `task/ChannelAwaiter.h`, `task/CommonAwaiter.h` | an active flag, a bounded buffer, a list of suspended writers, a list of suspended readers, one lock | `write`, `read`, `<<`, `>>`, `write_sync`, `close`, the destructor |
| LooperExecutor | `task/Executor.h` | a queue of functions, an active flag, one worker thread, lock and condition | `execute`, `shutdown`, the destructor |
| Noop, NewThread, Async executors | `task/Executor.h` | none | `execute` |
| ElasticExecutor | `task/ElasticExecutor.*` | a concurrent queue, a list of worker threads, a manager thread; per worker a running flag, `pause_lock`, load counters | `execute`; the manager adds and removes workers |
| Scheduler, SleepAwaiter | `task/Scheduler.h`, `task/SleepAwaiter.h` | a priority queue by due time, an active flag, one worker thread | `execute` with a delay, `shutdown`, `join` |
| Task, TaskPromise | `task/Task.h`, `task/TaskPromise.h`, `task/Result.h`, `task/DispatchAwaiter.h` | an optional result, a list of callbacks, lock and condition; the coroutine frame | start, return, fail, `then`/`catching`/`finally`, `get_result`, the destructor |
| TaskKeeper | `task/Task.h`, `task/Task.cpp` | a static list of detached tasks | `keep_me`, `check`, the destructor |
| TaskAwaiter, FutureAwaiter | `task/TaskAwaiter.h`, `task/FutureAwaiter.h` | the task or future waited for | suspend, resume |
| NetworkManager | `network/*` | sockets by rank, the running flag, the channel of received messages | `startServer`, `stopServer`, `registerTarget`, `sendMessage`, `getMessage`, the event loop |
| Thread | `basic/Thread.*` | two flags, a `jthread` | `start`, `join`, `detach` |
| Bytes | `basic/Bytes.*` | a pointer and a size | construction, move, `set`, `deepcopy` |
| Logger, Exception, Utils | `basic/*` | diagnostics | - |

### How they interact

A `Task` is a coroutine whose first `resume()` is handed to an executor, by
default the static `ElasticExecutor`. Every `co_await` inside it suspends into
an awaiter, which is resumed by handing a closure to the same executor: by
another coroutine through a `Channel`, by the `Scheduler`'s thread after a
sleep, by a callback of another `Task`. Ordinary threads, and workers of the
executor that are inside a task, block in `get_result()` and `write_sync()`.
The network's event loop is itself a task that fills a `Channel`.

### What is hard

- Critical sections that end before the operation does: a thread that has
  taken a coroutine off a list of the channel still has to resume it; a
  notification follows the unlock; a copied top of the timer's queue outlives
  the lock.
- Flags tested without the lock (`is_active` of channel, looper and timer,
  `running` of the workers), and a mutex unlocked by a thread that does not
  hold it (`pause_lock`).
- Closing, shutting down and destroying while others are in the middle of an
  operation.
- Spurious wakeups, and notifications that race with a timeout.
- User code called with a lock held.
- Workers blocked by tasks that wait for tasks still in the queue.
- File descriptors kept by number in several places (`socks`, locals of
  `sendMessage()`, `sockfd`, `epoll_fd`, epoll's own set), closed in one of them
  and given out again by the kernel.
- A byte stream read and written in pieces, shared by writers, that may end
  anywhere.

The list with lines is under `hazards` in `PROJECT.json`.

### What makes each component correct

- **Channel**: a FIFO channel. No value is lost while it is open, none is
  delivered twice, order is kept; every coroutine is resumed exactly once,
  either by its counterpart or by `close()`; a closed channel holds nothing.
- **LooperExecutor**: functions run in order, each once; a graceful shutdown
  drains; a sleeping worker is always told of work; the destructor returns.
- **ElasticExecutor**: each task is run once; a task in the queue gets a worker
  however long other tasks block theirs; a worker in a task is not removed.
- **Scheduler**: nothing runs early, nothing twice, earlier things first,
  nothing waits for ever.
- **Task**: each callback is called once with the outcome everybody else sees;
  `get_result` blocks for the outcome; the frame is not destroyed before the
  callbacks have returned.
- **Framing**: what is received is what was sent, whole and in order, however
  the stream is cut.
- **NetworkManager**: a message for a rank is written to a connection with that
  rank; a task that connects keeps its socket to itself; sends end while the
  server runs and the peer reads; `startServer` and `stopServer` return.
- **TaskKeeper, Thread**: not modelled.

## The modules

Every module describes one component. `MC*` modules give its constants values
for TLC. Definitions called `Fault...` are plausible bugs that no specification
uses: each stands before the definition it is a variant of, and putting it in
that definition's place makes TLC report the property named for it in
`PROJECT.json`.

### `Channel` (implements `FifoChannel`)

One `co_await` of the channel is one element of `Readers` or `Writers`; a value
is named by the writer that sends it. `state` follows the awaiter object:
created by `read()`/`write()`, then suspended on a list, or matched with a
counterpart, its closure dispatched to the executor, and at last returned or
threw. A critical section of `channel_lock` is one action (`TakeAndRefill`,
`TakeBuffered`, `TakeFromWriter`, `SuspendReader`, `GiveToReader`,
`GiveToBuffer`, `SuspendWriter`, `CleanUp`); the `resume()` calls that follow
the unlock are queued in `pending` of the thread and made one at a time by
`Resume`; `Run` is the executor running a closure, with the second
`check_closed()`; `Unwind` is the awaiter's destructor after an exception.
`buffer_capacity` is the constructor's argument, chosen once in `Init` among the
`Capacities`, any `int`s; `Limit` is what its conversion to `std::size_t` makes
of it.
`_is_active` is the one thing another thread changes during a critical section;
it goes from true to false once, and a change inside a section has the same
effect as one right after it, so that the section can be one step.

`FifoChannel` is the abstract channel: `open`, one `queue`, the value each
reader has `got`. The mapping is `open <- is_active`,
`queue <- buffer \o writer_list`, `got <- value`: a suspended writer's value is
already accepted, behind the buffer.

### `LooperExecutor`

`worker` is the place of the thread in `run_loop()`, the two tests of the loop's
condition included, which hold no lock; `caller` the place of each `execute()`;
`owner` that of the thread that calls `shutdown(true)` and the destructor. The
critical section of `execute()` is two steps because `is_active` can change in
between.

### `Scheduler`

The same layout, with a clock. `top` is `priority_queue::top()`, which among
executables of equal due time depends on the shape of the heap and is therefore
any of them after a `pop()`. The clock ticks between any two steps. `wait_for`
returns the status of the moment at which the lock is held again, as the
standard library does; so a worker that was notified but gets the lock late sees
a timeout. `pop()` on a queue that `shutdown(false)` has cleared meanwhile is
undefined and modelled as a crash, after which nothing moves. A negative delay
is a delay of 0 (`Clamped`).

### `TaskPromise`

One task. `body` is the place of the coroutine, `reg` that of each
`on_completed`, with the copy of the result it took under the lock and is about
to pass on (`CallDirectly`), `getter` that of each `get_result` and then what it has
returned, `task` tells whether the frame still exists. The completion calls the
callbacks with the lock held, one step each (`CallNext`), and a callback that
throws (`CallNextThrows`) leads from `return_value` into
`unhandled_exception`. A thread woken for no reason reads what the optional
holds: the outcome, or garbage.

### `ElasticExecutor`

`pc` is the place of each worker thread in its loop, `pause_lock` who holds its
mutex. `Else` frees the mutex whoever holds it, as the code does. A task
`Needs` others to end before it returns, which models `get_result()` or
`write_sync()` in a task. `manager` is where the manager is: `Expand`, `Shrink`
and `Keep` are the decisions of one round, `TryPause`, `Stop` and `Join` the
removal of a worker. A load is 0 or 100 percent; it can only rise between two
samples while a worker stays in one task and only fall while it stays idle, and
is 100 once three samples have found it in the same task, so that the manager
cannot ignore a blocked worker for ever. With three workers at most, averages of
two levels lie below 40, between 40 and 95, or above 95 percent, as averages of
all loads do.

### `MessageStream`

One connection, byte by byte: at one end the tasks that call `writev()` for a
message, at the other the event loop that reads it. A head has eight bytes, the
type in the second and the size in the last four, and the verify code four.
`SizeBase` is how far one byte of the size counts: 256 in the code, 2 in the
instance, where a message of six bytes then needs three of them, as one of
65536 bytes does. `stream` is what the connection holds, at most `Window` bytes:
`writev()` copies what fits and waits in the middle for room (`Write`), and any
other task may write meanwhile, since no lock is held. `Connect` is the rank
report before everything else. `ReadHead`, `ReadContent` and `ReadVerify` are
the `read()` calls, which return any number of bytes up to what was asked for:
what a short read leaves of the head is zero, so that a head `cut` inside its
size has a size that is too small; what it leaves of `verify_code` is not
initialised and may be guessed right. When the connection has ended, what has
not been read may be lost at any `read()` (`ReadEnd`). A failed assertion ends
the program (`aborted`): the build does not define `NDEBUG`. `Bytes` is `data`
with `remain`, the part of the buffer not yet set. A message that is accepted
stays in `write_sync()`, and nothing is read, until somebody calls
`getMessage()` (`handing`, `GetMessage`).

### `NetworkManager`

The event loop (`server`), the owner that calls The event loop (`server`), the owner that calls `startServer()` and
`stopServer()` (`owner`), and the tasks in `sendMessage()` (`sender`), which
share `socks`, `running`, `sockfd` and `epoll_fd`. A connection carries items
here, `"report"` or `"message"`, the last of which may have arrived in `part`:
the loop is then in a `read()` for the rest of it, and does nothing else until
the peer completes it (`PeerCompletes`) or closes the connection.
`MessageStream` says how the bytes of an item are read. The kernel is external:
`file` says what each descriptor number refers to, the lowest free number is
used next, `close()` takes whatever has the number, and takes it out of epoll
(`watched`). A signal shows in `epoll_wait()` only, which no `SA_RESTART`
restarts (`PollIsInterrupted`): `run()` ends and `running` stays set.

`socks` and `addr` are the two halves of an entry of the map, its socket and
who listens at its address. `registerTarget()` gives the address of the rank.
The entry that a rank report makes (`ReadReport`) has the *local* address of the
connection, as `getsockname()` returns it, and the port that the peer reports:
whoever listens there, `AtMyHost`, is one of the `Peers`, or nobody, and
`MakeSocket` connects to him when the socket in the entry has been cleared.
That the port is the manager's own is not modelled.

An accessor of the hash map is a lock on one rank, held by a task from the
lookup to the entry of its new socket (`Connecting`), including the wait for
`running`; `insert()` in `ReadReport` does not take it. `connect()` ends in the
step that makes the socket: a socket that is not connected yet is used by
nobody. The report of the own rank, the entry and `epoll_ctl()` follow in
`Report` and `Enter`. `closeSocket()` is two steps, `CloseSocket` and `Unwatch`,
since it closes the descriptor before it removes it from epoll; so are the two
halves of each `close` and `= -1` in `stopServer()`. `processMessage()` waits in
`"handing"` until somebody calls `getMessage()`, as `Channel` of capacity 0 makes
it. `Write` is the `writev()` of a message: it happens when the peer has made
room, which nothing forces it to do. The events of one `epoll_wait()` are taken
in the order of their descriptors. `sent` and `stale` are histories: the peer a
message was written to, and the ranks and tasks that still have a number which
others have closed.

A process that writes to a connection its peer has closed gets `SIGPIPE`, which
the code does not block: the model takes the other outcome, in which the
program ignores the signal and `writev()` returns -1, since nothing follows the
first.

## The runs

| Run | Instance | Checked |
|---|---|---|
| `channel_safety` | capacities -1, 0 and 1; 2 readers, 3 writers, 2 closers | `TypeOK`, `WaitersMatchBuffer`, `NoDoubleResume`, `NoneForgotten`, `NoLossWhileOpen`, `NoDuplicate`, `NoEmptyResult`, `ClosedIsEmpty` |
| `channel_fifo` | capacities 0 and 1; 2 readers, 2 writers, 1 closer | `ImplementsFifo`, `CloseWakesWaiters` |
| `looper` | 3 functions | `TypeOK`, `ExecutedInOrder`, `GracefulDrain`, `QueuedIsRun`, `JoinReturns` |
| `scheduler` | 3 sleeps, of equal lengths or of lengths 2, 1, 0 | `TypeOK`, `ExactlyOnce`, `NoLostNotify`, `NeverEarly`, `SameInOrder`, `QueuedIsRun` |
| `scheduler_order` | the same, a clock to 4 | `EarliestFirst`, which is violated |
| `task` | 3 callbacks, one of which may throw, 2 waiters, the owner | `TypeOK`, `CalledOnce`, `SameOutcome`, `DestroyedLast`, `RegisteredIsCalled`, `GetResultReturns` |
| `task_blocks` | 1 callback, 1 waiter, the owner | `GetResultBlocks`, which is violated |
| `elastic` | 4 tasks, two wait for the last, 3 workers | `TypeOK`, `RunOnce`, `PauseSparesTasks`, `ManagerReturns`, `QueuedStarts` |
| `framing` | a message of 6 bytes, the first four those of the verify code, and one of 1, a connection that holds 17, reads of 4, `SizeBase` 2; 865 thousand states | `TypeOK`, `MessagesIntact`, `SentIsDelivered` |
| `network` | a sender to each of two peers, one registered, the other known by its report; a retry each, 4 descriptors; 1.55 million states | `TypeOK`, `OnlyEntriesMislead`, `OwnSocket` |
| `network_liveness` | 2 senders to one peer, no retries, one registration, one message, 3 descriptors; 403 thousand states | `SendEnds`, `OwnerReturns` |
| `network_rank` | the same without message, the peer registered before | `SentToRank`, which is violated |

What the passing runs show is said in the `about` of each run and in the comment
before each property.

### Disagreements found

- `scheduler_order`: a comment in `run_loop()` says of a wakeup that a new
  executable should be executed before. In the trace the worker sleeps for an
  executable due at 1, a new one due at 0 is pushed and the worker notified,
  the clock reaches 1 before the worker has the lock again; it takes the wakeup
  for the timeout, pops the *new* executable, and runs the old one. The new one
  is never run, the old one is still in the queue and will be run again. With
  equal delays (`SameInOrder`, `ExactlyOnce`) this cannot happen, because what is pushed
  later is due later.
- `task_blocks`: `get_result()` tests the result with `if` before `wait()` and
  not again after it; a spurious wakeup makes it return an empty optional's
  content instead of blocking.

- `network_rank`: the documentation of the network says that after
  `registerTarget` a call of `sendMessage` sends to that rank. `closeSocket()`
  closes the descriptor of a connection that has ended, and leaves it in `socks`.
  In the trace a task has just looked the socket up when the loop finds the
  connection ended and closes it; another peer's connection is accepted and gets
  the number; the message goes there. Later calls do the same, since the entry
  stays. `OnlyEntriesMislead` shows that a message reaches a wrong peer through
  such a number, or through the address of an entry that a rank report has made,
  and in no other way that the model has; a descriptor of that kind need not
  come from `closeSocket()`: `stopServer()` and the end of `run()` close by
  number too.

More situations in which the code does not do what one may want are part
of the models, and the properties say so in their statement:

- *Looper and scheduler destructors can hang.* `shutdown()` stores `is_active`
  without the lock; a worker between its test and its `wait()` misses the only
  notification. `JoinReturns` of the looper says when its destructor does
  return.
- *A paused worker can take a task.* `Else` unlocks the mutex the manager has
  locked, and before `stop()` the worker can pop one. If that task, and all
  others in workers, wait for a task in the queue, the manager waits in the join
  for ever: the system stops. `elastic` reaches this state, which is why it does
  not check deadlock, and `ManagerReturns` and `QueuedStarts` except it.
- *`startServer()` may not return.* `run()` ends without setting `running` when a
  call in `Open` fails; and when `accept()` fails at once (no descriptor is
  left, or the connection was aborted) it resets `running` before
  `startServer()` has looked. `OwnerReturns` excepts a `startServer()` whose
  `run()` has ended.
- *`stopServer()` waits for others.* While the loop hands a message over it does
  not see `running`, until somebody calls `getMessage()`. While it is in a
  `read()` it does not either: for the rest of an item when the peer stalls, or
  for an event of a descriptor that another connection has by then. `Blocked`
  names the handing over and these reads, and `OwnerReturns` excepts a loop that
  is blocked for good. After a signal in `epoll_wait()` there is no loop, and
  `running` is still set.
- *`sendMessage()` waits for its peer.* `writev()` is on a blocking socket:
  while the peer is alive and does not read, for instance because its own loop
  hands a message over, the call does not return. `SendEnds` excepts a task that
  is `Stuck` in this way for good.
- *An entry made by a rank report leads to this host.* It has the address from
  `getsockname()`; once the socket of the entry is cleared, the next one is
  connected to whoever listens here on the port that the peer has reported.
- *A connection may be added to epoll and removed again by `closeSocket()`*, which
  closes the number first. It is then used for sending and never read.
- *A torn stream.* Two messages written at the same time mix, after an
  incomplete one the stream is out of step (the socket stays in `socks`), and a
  verify code of which nothing was read may be right by chance. `MessagesIntact`
  excepts the three.
- *A head cut inside its size.* `read()` may return five to seven bytes of it. The
  size is then too small, and the receiver takes the rest of the head for the
  beginning of the content. When the content has the bytes of the verify code
  at the right place, a message that was never sent is delivered. It takes a
  message of 256 bytes at least, 2 in the instance, which reaches this state;
  for shorter ones the size is right or 0, and an assertion finds it out.
  `MessagesIntact` excepts longer ones after a head was cut (`SizesFit`).
- *A function accepted while shutdown(true) begins can be stranded*;
  `GracefulDrain` speaks of those accepted before.

### Bounds, and why they are enough

- Channel: three awaiters on one side and two on the other are enough to have
  a full buffer, a list with two entries, two hand-overs under way at once, and
  a list that another operation empties meanwhile. Two closers make the
  compare-exchange matter. Capacity 0 is the default, 1 the smallest that
  buffers, and -1, which the constructor accepts, is a huge one after the
  conversion: such a channel never makes a writer wait. `std::size_t` has 16 bits, which tells the converted
  -1 from every capacity that so few awaiters can fill.
- Looper: two functions in the queue, one running and one on its way; every
  function is submitted once, so the run ends.
- Scheduler: `MaxTime`, 3 or 4, bounds the clock and the due times: `execute()`
  calls that would push past it are not explored. Within 3 milliseconds an executable
  can be pushed before, during and after the wait for another.
- Task: a callback may be registered before, during and after the completion;
  two waiters and the owner may each be woken for a reason or for none.
- Elastic: two tasks block two workers, a third task lets the executor grow
  before, the fourth releases them; a third worker is what the manager adds. Tasks
  are handed over in one order (`Before`), in which the releasing one is last. Which of the free names a new worker gets is fixed.
- Framing: the long message does not fit into the connection, so that its
  writer waits in the middle; its content takes more than one read; every
  boundary between and inside the parts can fall into a short read. With
  `SizeBase` 2 the six bytes need three bytes of size, so that a head can be cut
  where the size is wrong and not 0, and the content has the verify code where
  such a receiver looks for it. The short message has a size that one byte holds.
  One connection is enough: nothing in the framing is shared between two.
- Network: two descriptors beside the listening socket and epoll let an own and
  an accepted connection live side by side, and run out; with three in all (the
  liveness run) numbers are reused at once. With a retry each task can fail,
  clear its entry and connect by the address in it. `Connects`, `Messages` and
  `Registers` bound what the environment does. A rank report, the end of a
  connection, a failed `connect()` and a signal can come at any time. `network`
  has no messages and no registrations: a message delays the loop, or blocks it,
  and touches neither the map nor a descriptor; what that does to the others is
  a question of liveness, which `network_liveness` asks, and the theorems about
  `OnlyEntriesMislead` and `OwnSocket` hold for any number of both.
- Symmetry is used in `channel_safety` only, which has no liveness property and no
  refinement.

### Fairness

Weak fairness only, and only of steps the program's threads take by themselves:
a thread inside an operation goes on with it, an executor runs a closure it was
given, a worker loops, a callback or function returns, `wait_for` ends after its
time, the clock ticks. None is assumed of the environment: nobody has to read,
write, close, submit, register, ask or destroy, and no spurious wakeup has to
come. In the network the event loop (`Serve`), the owner inside its calls (`Own`)
and the tasks (`GoOn`) go on; no peer has to connect, read, send, complete what
it has begun to send, or close, no signal has to come and nobody has to call
`getMessage()`: `Write` and `GetMessage` are steps that need not be taken. In the
framing `read()` returns what has arrived and `writev()` uses the room there is;
that somebody calls `getMessage()` is a premise of `SentIsDelivered`, not of the
specification. Mutexes are held for a few instructions and handed on; no property needs
more than that. A coroutine's own code is assumed to end, and so are tasks of
the elastic executor once what they wait for has ended.

Deadlock is checked in all runs but `elastic` and those of `NetworkManager`, where
the loop waits in `epoll_wait()` for events that need not come; elsewhere the
state in which all is done has an explicit stuttering step (`Finished`).

## The proofs

`ChannelProofs` proves, for every number of readers, writers and closers and for
every capacity (any set of `Int`s to choose from) and word size:

- `TypeCorrect`: `Spec => []TypeOK`
- `ResumedAtMostOnce`: `Spec => []NoDoubleResume`
- `WaitersDiscipline`: `Spec => []WaitersMatchBuffer`

from the assumption `ChannelAssumption` only: readers and writers are different
objects, `NoValue` is no writer, the capacities are integers and the word size is
positive. TLC evaluates the assumption in every channel run.

The inductive invariant, `Inductive`, is the conjunction of the three. `WaitersMatchBuffer` alone is disturbed by
`Unwind`: the destructor of an awaiter removes it from its list, and nothing in
`WaitersMatchBuffer` or `TypeOK` says what that does to the list. What settles
it is `NoDoubleResume`: whatever is on a list is suspended, an awaiter
that unwinds is not, so the removal finds nothing (`RemoveFindsNothing`) and the
lists do not change. `NoDoubleResume` in turn is proved action by action. Its
core is that the head of a list without duplicates is not in the tail
(`PopFront`), so that an awaiter that leaves a list is held by exactly one
thread (`HandoffKeepsPending`, `ShortOrders`), and that a thread which has
resumed an awaiter does not hold it any more (`ResumeKeepsPending`).

`LooperProofs` proves, for every set of functions:

- `TypeCorrect`: `Spec => []TypeOK`
- `DrainIsComplete`: `Spec => []GracefulDrain`
- `CalledInOrder`: `Spec => []ExecutedInOrder`
- `PushesAreHeard`: `Spec => []NoneUnheard`
- `LeavesForGood`: `Spec => [][Leaves => Leaves']_vars`

The worker leaves its loop in `TestEmpty` only, with an empty queue. For the
functions that were due to be called or cleared then, the invariant has to know
that every accepted function is called, queued or cleared
(`AcceptedIsSomewhere`); and for the store that comes second, the one of the
destructor, that a worker that has left its loop has seen `is_active` false
already (`LeavesInactive`), so that `due` does not grow behind its back.

`ExecutedInOrder` is about `Calls`, what has been called followed by what is
queued: each function once, no other than those accepted and not cleared, and
in the order of `accepted`. It is inductive together with `AcceptedOnce`: a
function is accepted once, and is cleared only after that. The worker moves the
head of the queue to the end of what was called and leaves `Calls` as it is
(`ConcatSplits`, `PopKeepsOrdered`); a push adds the same function at the end of
`Calls` and of `accepted`; a clear cuts `Calls` off (`ClearKeepsOrdered`).

`NoneUnheard` is no property of a run: a worker that waits beside a function in
the queue has a caller that has pushed and has still to notify. It is the safety
half of `QueuedIsRun`. The tests of `is_active` without the lock do not break
it: what the worker can miss there is the notification of `shutdown()`, not
that of a push.

`Leaves` describes the worker that will get out of its loop once the destructor
has cleared the queue: it is not between the loop's condition and `wait()` with
nothing to take, nor asleep after the last `notify_all()`. It stays so, whatever
an `execute()` that is still under way pushes. So the missed notification above
is the only way in which the destructor can hang; `JoinReturns` starts from
states with `Leaves`.

`SchedulerProofs` proves, for every set of functions, any set of delay
assignments and any bound of the clock (`SchedulerAssumption`):

- `TypeCorrect`: `Spec => []TypeOK`
- `NothingEarly`: `Spec => NeverEarly`
- `EqualDelaysInOrder`: `Spec => SameInOrder`
- `EqualDelaysExactlyOnce`: `Spec => []ExactlyOnce`
- `NothingUnheard`: `Spec => []NoLostNotify`

The heart is `SleepsForTop`: with equal delays the executable the worker sleeps
for stays on top of the queue, so that the `pop()` after the sleep removes the
one that is run. It rests on `DueBeforeNext` (whatever is pushed next is not due
before anything in the queue, so `push_heap` leaves the top alone) and on
`StaysCleared` (after `shutdown(false)` nothing is pushed any more).
`ExactlyOnce` needs in addition that nothing is pushed twice (`PushedByCaller`).

`NothingUnheard` holds for any delays. `execute()` computes `need_notify` before
it pushes, with the lock held: `OnePushes` says that only one caller does so at
a time, and `PushesBehindTop` that who decided not to notify pushes behind the
top, at whatever time it comes to push.

`ChannelProofs` proves further, from the same assumption and that invariant:

- `ImplementsFifoChannel`: `Spec => ImplementsFifo`
- `NobodyForgotten`: `Spec => []NoneForgotten`
- `NothingLost`: `Spec => []NoLossWhileOpen`
- `NothingTwice`: `Spec => []NoDuplicate`
- `NoReaderEmpty`: `Spec => []NoEmptyResult`
- `NothingLeftBehind`: `Spec => []ClosedIsEmpty`
- `NoMatchMissed`: `Spec => []WaitsForReason`
- `CloseLeavesNoWaiter`: `Spec => []NobodyWaitsClosed`

Each critical section is a step of `FifoChannel` or leaves it alone
(`StepImplements`). A reader that takes from the buffer and refills it from the
list moves a value inside `buffer \o writer_list`, which only loses its head
(`ShiftOne`). A writer that gives its value to a suspended reader is an abstract
`Transfer`, which needs an empty queue: `WaitersMatchBuffer` says that there are
no suspended readers beside a value. The reader must not have one yet
(`WaitingIsEmpty`), and the value must be nowhere else (`NotYetSent`). The three
ways in which a reader takes a value differ in where it comes from and in who is
matched; what they have in common is stated once, as `Taken`.
`MatchedHasValue` says what a matched reader holds, `IdleOwesNothing` that a
thread before its critical section owes nobody a `resume()`.
`CleaningIsClosed` is what `ClosedIsEmpty` needs to survive a second
`close()`.

The last two are about coroutines instead of lists, and follow from the others:
a suspended reader finds nothing in flight and no suspended writer, a suspended
writer a full buffer (`WaitersMatchBuffer` and `NoneForgotten`); and on a closed
and cleaned channel nobody is suspended (`ClosedIsEmpty` and `NoneForgotten`),
the safety half of `CloseWakesWaiters`.

`TaskProofs` proves, for any sets of callbacks and waiters:

- `TypeCorrect`: `Spec => []TypeOK`
- `CallbacksCalledOnce`: `Spec => []CalledOnce`
- `OneOutcome`: `Spec => []SameOutcome`
- `FrameDestroyedLast`: `Spec => []DestroyedLast`
- `CompletionMissesNobody`: `Spec => []NobodyMissed`

The invariant tells the time before the completion, when all registered
callbacks are on the list (`BeforeCompletion`), from the time after it, when each
of them has been called or is left to be called (`AfterCompletion`); the lists
have no duplicates (`ListsHold`), and who asked and was woken for a reason has the
result (`GettersAreTold`). All of it holds as long as no callback has thrown;
that none is called without a result (`HasResult`) holds even then, and is what
`TypeOK` needs. `NobodyMissed` is the safety half of the two liveness
properties: nobody waits in `get_result()` once there is a result, not even when
callbacks throw, and no callback is left uncalled once the lock is free again.

`ElasticProofs` proves, for any tasks, whatever they wait for, and any number of
workers:

- `TypeCorrect`: `Spec => []TypeOK`
- `TasksRunOnce`: `Spec => []RunOnce`
- `PauseNeverInterrupts`: `Spec => []PauseSparesTasks`
- `ListedWorkersWork`: `Spec => []OnlyVictimLeaves`

`Else` frees `pause_lock` whoever holds it. It does no harm to a worker in a
task, because a worker frees its own lock only, and not between its `try_lock()`
and the end of its task (`LockHeld`). `VictimListed` keeps the manager's index
into the list of workers valid while it removes one. `OnlyVictimLeaves` is the
safety half of `ManagerReturns`: what the manager joins has been told to stop,
and nobody else on the list stops or has ended.

`StreamProofs` proves, for any messages, any capacity of the connection and any
size of the receive buffer:

- `TypeCorrect`: `Spec => []TypeOK`
- `MessagesArriveIntact`: `Spec => []MessagesIntact`
- `SentOnce`: `Spec => []BegunOnce`
- `NoMessageSkipped`: `Spec => []NothingSkipped`

from `MessageStreamAssumption`: contents are bytes, of any length, the connection
holds at least twelve bytes, a `read()` asks for one at least, and `SizeBase` is
between 2 and 256. The invariant says where things are. The rank report and the
messages begun are items, one behind the other (`Laid`); `start[k]` is where
item `k` begins, counted from the first byte that has not been read, so that it
falls as bytes are read. What the connection holds is what the items say, up to
what the last writer has still to write (`Placed`). Only the last message can
be half written unless the stream is torn (`OnlyLastOpen`), and what is left of
it is its end (`OutIsRest`).

The receiver is before the head of an item (`BeforeItem`), in a message
(`InMessage`), has one to hand over (`HasMessage`) or is in the rank report
(`InReport`). The proof has to follow it where it is wrong, for `Behaved`
streams, which the exceptions of `MessagesIntact` leave. A head of which up to
four bytes arrive in time has the size 0 or is a report without its rank, and an
assertion ends the program. With five to seven bytes the size is right, since
`SizesFit` says that the bytes cut off are zeros (`SizeTyped`), and the receiver is
up to three bytes behind from then on (`lag`): it takes the last bytes of the
head for content, and where it expects the verify code it reads the last `lag`
bytes of the content and then the beginning of the code. The byte `lag + 1` of
what it reads is then the first byte of `FixVerifyCode`, which none of its other
bytes equals; so the assertion ends the program, or the code was guessed, unless
`lag` is 0. So `delivered` is a prefix of the messages begun
(`DeliveredSent`). Without `SizesFit` this fails, as described above.

`BegunOnce` says that no message is begun twice, and none written without being
on the list; from it and the positions follows that a receiver at a head with
nothing to read has delivered everything (`NothingSkipped`), the safety half of
`SentIsDelivered`.

`NetworkProofs` proves, for any peers, tasks, retries and number of descriptors:

- `TypeCorrect`: `Spec => []TypeOK`
- `OnlyEntriesMisleadSends`: `Spec => []OnlyEntriesMislead`
- `ConnectsAlone`: `Spec => []OwnSocket`
- `ConnectsOnce`: `Spec => []EntriesHeld`
- `RetriesRunOut`: `Spec => [][Advances]_vars`
- `LoopRunsOut`: `Spec => [][RunsOut]_vars`

from `NetworkAssumption`: each task sends to a rank, `Nobody` is none, and ranks
and tasks are different things, since `stale` holds both. First come the types
(`Typed`), with what every step does to the descriptors: what is in use stays
what it is, but for the one descriptor a step closes (`UsedStay`,
`CloseKeepsKernel`). For the second theorem, the `Places` of a rank are the rank
itself and, for one that was not registered at the beginning, who listens on
this host at the port it reports: the address in every entry is one of them
(`AddressesLead`), every entry of `socks` and every local `sock` that is not
stale is a connection with one of them (`EntriesLead`, `SocksLead`), and a task
that has written does nothing more, so that it is not taken out of `stale`
again (`SentAtEnd`). For the third, the loop closes what an event named, and
until the server is stopped every event is one of a descriptor in epoll
(`EventsAreWatched`) and the loop's own two descriptors are what they were
(`LoopHasFiles`); a task that connects has not put its descriptor into epoll yet
(`ConnectsUnwatched`), and the address in the entry stays what it connected to,
because the entry is held (`EntriesHeld`).

The other three are no properties of a run. `EntriesHeld` is what the accessor
is for: two tasks never connect to the same rank at a time, and the socket a
task enters replaces no other one. `Advances` and `RunsOut` are the safety
halves of `SendEnds` and `OwnerReturns`. A call of `sendMessage()` has `StepsLeft`
steps to do: seven for each retry and the rest of its attempt; each of its own
steps lowers that number, and no other step raises it. From the call of
`stopServer()` on `running` stays reset, because `Open`, which sets it, is over
(`StopHolds`), and the event loop has `LoopLeft` steps to do: one return of
`epoll_wait()`, three steps for each event, two `close()`. That these steps are
taken, and when they cannot be, is what the runs check.

`ListLemmas` holds what adding to and removing from a list without duplicates
does, for the proofs about the channel, the looper and the elastic executor.

Every invariant that a passing run checks is proved, and so are the two action
properties of the scheduler and the refinement. Model-checked only are the
liveness properties, `CloseWakesWaiters`, `QueuedIsRun` (twice), `JoinReturns`,
`RegisteredIsCalled`, `GetResultReturns`, `ManagerReturns`, `QueuedStarts`,
`SentIsDelivered`, `SendEnds` and `OwnerReturns`: fairness and `ENABLED` are out
of the prover's reach. Where something has to be true in every state for them to
hold, and says more than the invariants, it is proved as a theorem of its own
(`CloseLeavesNoWaiter`, `PushesAreHeard`, `NothingUnheard`,
`CompletionMissesNobody`, `ListedWorkersWork`, `NoMessageSkipped`, `LeavesForGood`,
`RetriesRunOut`, `LoopRunsOut`). The
properties that are violated have no theorem.

## Not modelled

- `write_sync` (a task around `write`), the lifetime of the channel object, and
  channels on the inline `NoopExecutor`.
- Move assignment of `Task`, `TaskKeeper`, `TaskAwaiter`, `FutureAwaiter`.
- The destruction of the static `ElasticExecutor` after `main`.
- Of `NetworkManager`: the resolution of names, a second `startServer()` of the
  same manager, and the death of the process by `SIGPIPE`. The two network modules split the
  work: in `NetworkManager` an item has arrived or not (the loop waits for one
  that has not), and its bytes are in `MessageStream`, which has no descriptors.
  So a connection that ends inside a rank report is in `MessageStream` only.
- Of `Bytes`: moves and copies. `Thread`: its `start()` tests the two flags with
  the message of the other one, and nothing but `ElasticExecutor` uses it.
- Logger, Exception and Utils: diagnostics. `main.cpp`, tests and `third` hold no
  logic of the library.
- Functions given to the looper and the scheduler that throw: the program ends.

## Plan

In the order of importance; the first seven exist.

1. `FifoChannel`, `Channel`, `ChannelProofs`.
2. `LooperExecutor`, `LooperProofs`.
3. `Scheduler`, `SchedulerProofs`.
4. `TaskPromise`, `TaskProofs`.
5. `ElasticExecutor`, `ElasticProofs`.
6. `MessageStream`, `StreamProofs`.
7. `NetworkManager`, `NetworkProofs`.
8. `TaskKeeper`: detached tasks, `check()` with its erased iterator, several
   threads that detach, the static destructor.
9. `TaskAwaiter`: a chain of tasks that await each other, on the interface of
   `TaskPromise`.
10. The channel on an inline executor and with a lifetime.

Theorems worth proving next: on whom a task can wait (that the accessor a task
waits for belongs to one that waits for `running` or for its peer), then the
theorems about `TaskKeeper`, `TaskAwaiter` and the lifetime of a channel once
they are modelled.
