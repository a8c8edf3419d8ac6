# A TLA+ model of c-ext

c-ext is a PHP extension, written in C++, that gives PHP scripts coroutines with
channels, timers, non-blocking sockets and a server on one event loop, and beside
them a thread pool, a process pool and shared memory. This directory holds TLA+
modules translated from its source, TLC configurations that check them on small
instances, and theorems about them checked by TLAPS. `PROJECT.json` lists the
components, the runs, the source lines each definition stands for, the known
hazards of the code and the findings. Paths are relative to the repository; the
modules refer to code by the names the code uses.

To repeat the work: `tlasany M.tla` parses, `tlc -config X.cfg M` checks the runs
below, and `tlapm` on each of the modules named `...Proofs`, and on `Minimum`, checks the
proofs.

## 1. Inventory

| component | source | state | operations |
|---|---|---|---|
| coroutine scheduler | `src/coroutine/coroutine.cc`, `context.cc`, `lib_coroutine.cc`, `coroutine_util.cc` | `coroutines`, `last_cid`, `current`, `origin` of each, `swap_ctx_`/`ctx_`/`end_` of each context, `EG(vm_stack)` and the copy in each `php_coro_task`, `defer_tasks`, `user_yield_coros` | create, yield, resume, sleep, defer, close; getCid and isExist read |
| channel | `src/coroutine/channel.cc`, `channel_util_v2.cc` | `data_queue`, `consumer_queue`, `producer_queue`, `capacity` | push, pop, their timeouts, the draining destructor |
| timer | `src/timer/timer.cc`, `timer_util.cc` | the list `LibG.timeHead`, `timeNextId`, `lastTime` | tick, after, del, nearest, walk |
| event loop | `base.cc` | `LibG.poll`, `event_num`, `running` | event_init, event_wait, event_free |
| thread pool, future | `include/thread_pool.h`, `src/thread/thread_pool.cc`, `thread_pool_util.cc`, `thread_pool_future_util.cc` | `workers`, `tasks`, `queue_mu`, `cond`, `stop` | enqueue, worker loop, destructor, get |
| coroutine socket | `src/socket/*.cc`, `coroutine_socket_util.cc` | the object's descriptor, the epoll set and the array of events | construct, bind, listen, accept, recv, send, close, `wait_event` |
| coroutine server | `src/server/coroutine_server.cc`, `coroutine_server_util_v2.cc` | `running`, the listening socket, the handler | construct, set_handler, start, shutdown |
| process pool, pipes, lib_fork | `src/process/process.cc`, `src/channel/channel.cc`, `process_util.cc`, `src/fork/fork.cc` | `processes[]`, `process_slot`, `ce_pid`, `ce_parent`, socket pairs | construct, start, read, write, lib_fork |
| shared memory | `src/memory/ShareMem.cc`, `sharemem_util.cc` | the mappings, `shm` and `res` | construct, destruct, incr, get, fork |
| hooks, log, class glue, assembly, unbuilt sources | see PROJECT.json | none that lasts | |

How they interact. Everything but the two pools runs on one thread. A script
creates coroutines; each has a C stack of its own (`Context`) and a page of the
engine's PHP stack. Channels and sockets park a coroutine with `Coroutine::yield`
and keep a raw `Coroutine*` or its id; whoever can satisfy it calls
`Coroutine::resume`, which runs it at once and synchronously. Timers are the third
holder of such pointers. `event_wait`, called by the script, sleeps in
`epoll_wait` for as long as the nearest timer allows, resumes the coroutines of
ready descriptors and walks the list of timers. The thread pool is the only code
with real threads, the process pool the only one with processes; shared memory is
what processes share.

What is hard in it, and what has to hold:

* three descriptions of "who runs" (machine stack, `current`, PHP stack) are
  switched by different statements on both sides of each jump: they must agree
  whenever script code runs, and closing must free the right page;
* raw pointers to parked coroutines in four places (resume table, timers, channel
  queues, epoll data): each parked coroutine needs one and a coroutine that does
  not wait must have none;
* a push or pop runs its peer in the middle of itself;
* a timeout races with the answer it is for;
* the list of timers is changed by the callbacks of the walk over it; times are
  pairs of seconds and milliseconds on a clock that can be set back, made of longs and
  doubles that are cut, narrowed to an int and given in another unit than asked for;
* functions, like coroutines, are kept as pointers that do not keep them alive;
* lost wake-ups, tasks lost at shutdown and a destructor that waits for ever in the
  thread pool;
* resources that others may close or free: descriptors, slots of processes, mappings;
* the array `epoll_wait` fills is walked while the coroutines it resumes register
  themselves anew in its first entry, and close or reuse the descriptors it names;
* `fork` copies tables and descriptors, and everybody goes on to change their copy.

## 2. Modules

| module | models | extends |
|---|---|---|
| `Coroutine` | scheduler and script API of coroutines | |
| `CallStack` | abstract: what asymmetric coroutines promise | |
| `CoroutineStack` | the refinement of `CallStack` by `Coroutine` | `Coroutine` |
| `CoChannel` | channels, on the scheduler | `Coroutine` |
| `ThreadPool` | pool, its tasks and its destructor | |
| `Timer` | timers and the loop that runs them | |
| `MCTimer` | the delays below 0 and beyond an int that a configuration cannot spell | `Timer` |
| `CoSocket` | sockets, their epoll registrations and the loop that resumes | `Coroutine` |
| `CoServer` | server: accept loop, handlers, shutdown | `CoSocket` |
| `ProcessPool` | processes, their pipes and lib_fork | |
| `SharMem` | shared memory between processes | `ProcessPool` |
| `CoroutineProofs` | theorems on the scheduler, and that it implements `CallStack` | `CoroutineStack`, `Minimum` |
| `CoChannelProofs` | theorems on channels, without timeouts and with | `CoChannel`, `CoroutineProofs` |
| `CoSocketProofs` | theorems on sockets and the loop | `CoSocket`, `CoroutineProofs`, `Minimum` |
| `CoServerProofs` | theorems on servers | `CoServer`, `CoSocketProofs` |
| `ThreadPoolProofs`, `TimerProofs` | theorems | the module proved |
| `ProcessPoolProofs` | theorems on processes, pipes and shared memory | `SharMem`, `Minimum` |
| `Minimum` | lemmas about the least number of a finite set | |

Definitions marked `MUTANT` are single deliberate bugs, one for each property; the
property is violated when the named definition is replaced by one. Nothing else
uses them.

### Coroutine

One action per call of the script API or per piece of the switch: `Create`,
`UserYield`, `UserResume`, `Sleep`, `SleepCall` (the timer's callback), `Defer`,
`FunctionReturns`, `RunDeferred`, `ContextEnds` and `SwapInReturns`, the part of
`run` and `resume` behind the jump, which closes what ended. What a script does is
any order of these (`ScriptStep`), in the coroutine's function, in a deferred callback or in a
destructor.

* `stage` is how far `create_func` of a coroutine is: in `zend_execute_ex`, in the loop over
  `defer_tasks`, or in `zval_ptr_dtor(retval)`, which comes behind that loop and runs the
  `__destruct` of a returned object (`Destructs`). `Destructible` bounds whose return value has one. What
  such a destructor defers is lost. An internal function given to `create`, which is
  never called and whose `retval` is destroyed unset, is left out; so is `sleep` when there is
  no memory for its timer, whose `ERROR` nobody looks at.

* `Main` (0) is one value for what the code writes as `nullptr` in `current` and
  `origin`, as `main_task` among the PHP tasks, and as the process's own C stack.
* `running` moves with the jump, `current` and `vm_stack` with the statements of
  `yield`, `resume`, `run` and `close`. `callee[x]` is `this` in the frame of
  `run`/`resume` in which stack `x` waits for the jump to come back.
* A PHP page is named after the context it was allocated for; `freed` records what
  `on_close` gave to `efree`.
* A timer is a count of pending one-shot wake-ups of its coroutine (when they fire is
  `Timer`'s subject); `SleepCall` may fire any of them, on the main stack only: the
  script's `event_wait` runs there in every test of the repository.
* A call that follows a null or dangling pointer is undefined in C++. The model lets
  it end the process: `fault` becomes `no_current` or `stale_resume` and no action
  is enabled from then on.

`CoroutineStack` maps the chain of `origin` pointers from `current` to a stack and
checks that the scheduler implements `CallStack`: contexts are entered and left as
a stack, the top alone yields or ends, what ended never runs again.

### CoChannel

`Push` and `Pop` are the calls up to their end or to the yield; `PushWoken` and
`PopWoken` what follows the yield. A wake-up is a `Resume` inside the action, so the
peer's steps come before the rest of the caller's, as in the code. While a stack is
parked in a call, only that call's continuation can run on it; every other step is
the scheduler's `Next`. `capacity` is 1: the constructor drops its argument.
A coroutine whose timer fires in a channel call goes on like one woken from sleep
(`sleep_timeout` and `sleep_call` have the same body), so `SleepCall` models both.
`FreeObject` needs that no frame is inside a call: such a frame keeps the object
alive. Values are numbers in the order of the pushes; `delivered`, `dropped` and
`pushed` are history.

### ThreadPool

A step is what one thread does between two points where another can intervene: a lock, an
unlock, a notification. Script and tasks both enqueue. A worker blocked in
`cond.wait` is in `waiting`; a notification or a spurious wake-up takes it out,
whereupon it competes for the mutex again. `enqueue` notifies after it released
the mutex, as in the code; after `stop` it throws (`called` counts it, `accepted`
does not have it). What a task does, other than to enqueue, is not modelled.

### Timer

`create_time_event` inserts at the head with ids that count up, so the linked list is
always in descending order of ids; `timeHead` is a function from the ids in it, and
`te->next` is the next smaller id in it. `Block` is `epoll_wait` with the timeout of
`search_nearest_time`, `Awake` its return and the head of `process_time_event`;
`Skip`, `Call` and `Return` are the body of its loop, `WalkEnds` its end and the test
for `event_wait`'s. Script code runs before the loop and in callbacks: `Tick`,
`After`, `Sleep` (the timer `Coroutine::sleep` makes) and `del_time`. Time passes in `Elapse`
while code runs and in `Awake` while it does not; `Skew` sets the wall clock back,
which the duration `epoll_wait` sleeps does not depend on. `due` and `owed` are
history. `Second` stands for the 1000 ms of the code and is small in runs: what
matters is which times fall in one second and which do not.

Numbers are converted where the code does it. Delays are any integers; division and remainder
round to 0 as C's (`quotient`, `remainder`), so of a delay below 0 the milliseconds of an event may
stay below 0. `toint` is a long that becomes an int, of `-HalfInt..HalfInt - 1`: the answer of
`search_nearest_time`, after which a timeout below 0 blocks for ever (`Awake` needs one that is not), and the
answer of a `tick` (`Answer`), with which `Rearm` arms it again, or deletes it if it has become
`NOMORE`. `Sleep` is given milliseconds and passes whole seconds on as milliseconds, as
`Coroutine::sleep` does.
A `tick` whose callback deletes its own timer reads and writes freed memory, and the
model stops with `fault = "freed_event"`.

### CoSocket

The kernel is four variables: `fdstate` (what each descriptor is), `ready` (what it is
ready for), `registered` (the epoll set: whose coroutine and which event) and the peers
that change them at any time (`PeerActs`, `PeerAborts`). A script's object is a slot
that holds a descriptor, `BadFd` (-1) or `LIB_BAD_SOCKET`, and can be dropped and
collected at any time (`Socket_free`).

* A call is `Call` up to its end or to the yield in `wait_event` (`BlocksAgain` when
  it goes round), `Woken` what follows the yield: EPOLL_CTL_DEL and the operation once more.
  `waits` records the call a stack is in and whether EPOLL_CTL_ADD succeeded
  (`added`), which the code does not look at.
* The loop is `LoopStarts`, `Poll`, `Dispatch`, `TimerFires` and `TurnEnds`. `Poll` fills
  `events`, a function from positions in the array, with what is ready, perhaps nothing: `epoll_wait`
  always comes back, after the nearest timer's time or, if there is none, after the 1000 ms
  `search_nearest_time` answers then, which is how an idle loop comes to its end in `TurnEnds`. `Dispatch` takes the entry at the
  lowest position left. `WriteEvent` is `wait_event`'s write to `events[0]`.
  An event's data is one 64-bit number made of descriptor and coroutine id, packed by
  `touint64` and unpacked by `fromuint64`, with `HalfWord` in place of 2^32.
* `event_num` only ever goes from zero to not zero as far as the code asks; a loop that has met one
  socket wait does not return.
* Received bytes are not modelled, only that a descriptor was ready for them. A
  descriptor closed by its coroutine disappears from the epoll set; one that was
  handed out again by `accept` has no registration.

### CoServer

`Server_start` is `start` up to the first point where another stack runs: the accept
that blocks, or the handler that is created on top of it. `ServerWoken` is the
accept going on after its yield, `ServerTurn` the test of `running`. `ServerScripts` is what a handler, or the
script, does besides: the scheduler's calls (`Sleepers` bounds who sleeps, yields and resumes), the
methods of the connection (`HandlerCalls` which of accept, recv and send) and `event_wait`. `late` counts the
connections a coroutine in `start` accepted since `running` was cleared. The
server's own `Socket` is never deleted: `Server_free` leaves its descriptor open. Without
a handler the process dies (`no_handler`).

### ProcessPool and SharMem

A process has an image (the globals of `process.cc`, the `slot` of the objects) and a
descriptor table, which `Forks` copies. `spwan_process` is socketpair, the entry,
`fork` and both sides' first steps in one action: no other process can see them apart.
Descriptors are chosen as the kernel does, the lowest free first; descriptor 0 is
the script's standard input, which matters because an unfilled entry reads as 0 and 0. The
kernel keeps up to `Buffer` messages for each end. Of a message only the object it
was sent through is kept.

An entry points to its object's function and does not hold it. `freed` names, in each process, the objects
whose function's memory was freed: at the end of `__construct` for a closure literal (the
only holder is the call's argument). `TakesEntry` lets a new function lie in memory of its own or in
what was freed, and then every entry that points there points to the new one; `func` says whose
function lies where an entry points to. A worker that calls memory which holds no function any more
dies, which is an `Exit` like any other. What the worker is given as its argument (`getThis()` of the constructor,
a pointer into a stack that was popped) is not modelled. `lateObject`, `forkFailed`,
`released` (a function was freed that an entry points to), `crossed` (a message was read through another
object), `strayed` (a worker was given another object's function) and `started` are history.

`SharMem` adds the mappings and, in each process, `shm`, `res` and what is mapped.
`Incr_load` and `Incr_store` are the two halves of the increment. The class and the process pool share no
state but the processes, so a behaviour uses one of the two (`uses`). Following
an address that is not mapped kills the process.

## 3. Runs

| run | instance | shows |
|---|---|---|
| `coroutine` | 3 coroutines, 1 deferred callback each at a time, the second one's return value with a destructor; 195 k states | types, `StackCoherence`, `OneWakeSource`, `NoStaleResume`, `ClosedExactly`, `NoDeferredLost`, the refinement, and `SleepersWake` |
| `channel` | 3 coroutines and main, 3 pushes, no timeouts; 247 k | types, `NoStaleResume`, `WaitersQueued`, `NobodyWaitsInVain`, `WokenSucceeds`, `DeliveredInOrder` |
| `channel_timeout` | 2 coroutines and main, 3 pushes, calls with or without timeout; 926 k | `EachValueOnce` and `NobodyForgotten`: values and waiters are kept as far as the process lives |
| `channel_stale_waiter` | 2 coroutines, 2 pushes | violation: see findings |
| `thread_pool` | 3 workers, 4 calls of enqueue; 14 k | `NoLostWakeup`, `StopWakesAll`, `EachTaskOnce`, `DestroyedDrained`, `AcceptedRuns`, `DestructorReturns` |
| `timer` | 3 timers, a tick of 1, afters of -3 and 5, sleeps of 3, seconds of 2 units, ints of -4..3, a clock of 2..5, one set-back; 464 k | types, `WalkComplete`, `NeverEarly`, `OversleepsLessThanASecond`, `SkewResets`, `TimersRun` |
| `socket` | 2 coroutines and main, 2 sockets, 2 descriptors; 552 k | `DescriptorsOwned`, `EventsIntact`, `WaitersRegistered`, `LoopKeepsWaiting`, `ReadyIsServed` |
| `server` | 3 coroutines, one of which sleeps, yields and resumes, 3 sockets, 2 descriptors; 2.73 M | types, `ShutdownAcceptsOneMore` |
| `process` | 3 processes, 2 objects, a table of 2, 2 pairs, 5 descriptors; or 2 mappings, 3 increments each; 780 k | types, `NoCrossTalk`, `EntriesArePairs`, `AloneNothingLost` |
| `timer_overdue` | 2 timers | violation: see findings |
| `timer_self_delete` | 2 timers | violation: see findings |
| `process_literal` | 2 processes, 2 objects, 1 pair | violation: see findings |

Why the bounds are enough. Three coroutines are the least with a nest of three and with a resume
of one from another while a third is parked; the switching code looks at one
coroutine and its origin only, and the theorems below hold for any number. In
`channel`, three coroutines give two waiters of one kind and a peer of the other,
which is what the order of a queue needs, and three values fill, empty and refill a channel of
capacity 1; `MaxDefer` is 0 there because deferred callbacks are `coroutine`'s
subject. `MaxQueue` bounds the queues of waiters that abandoned entries make grow;
without timeouts it is never reached. In `thread_pool` three workers allow one to sleep, one
to be on its way and one to work; four calls let tasks enqueue tasks. In `timer`
three timers allow the one that runs, an older and a younger one made in its callback, and a near, a far and a
late one in one list. There is one delay for each thing that arithmetic can do to it, but for a tick
whose period is no int, which only the theorems meet: below 0 with milliseconds below 0;
within a second, where it carries or does not as the clock stands; so far off that its timeout wraps until some time has passed; and a sleep of a second
and a half, whose unit leaves it one unit. A clock of 2..5 meets the boundary of a second in the middle of each of them, and a set-back
within a second and over its boundary. In `socket` two coroutines allow one to wait while the
other closes, reuses or waits for the same descriptor, and a batch of two events;
a third descriptor would add a bystander. In `server` one descriptor beside the
listening one is enough to run out of them, with objects over descriptor -1 for the connections after that, and three
coroutines are one in `start` and two handlers, one of which may sleep. In `process` the table of 2 entries is full after the 2
objects, and a third construction passes its end; two objects are the least of which one can take the other's memory; two pairs are the least that can be mixed up; three processes allow a child of a
child, two children, and a pair that is used by processes that are all not its maker.
`HalfWord` only has to exceed twice any descriptor and id. Bounded counters (`MaxCid`,
`MaxPush`, `MaxTasks`, `MaxTimers`, `MaxClock`, `MaxSkew`, `MaxObject`, `MaxPair`, `MaxMapping`,
`MaxIncr`) stand in guards by name.

Deadlock is not checked: scripts end, processes die of a fault, coroutines
legitimately wait for ever when nobody resumes them.

Fairness.

* `coroutine`: strong fairness of `SleepCall(co)`: every turn of the event loop
  walks the whole list (`WalkComplete` and `TimersRun` in `Timer` are that fact). It is used only when main
  comes back again and again, which is the antecedent of `SleepersWake`; nothing forces
  scripts to go on.
* `thread_pool`: workers go on, tasks return, a thread finishes an enqueue and the
  script a destructor it began, and a mutex that is free again and again is
  got (strong fairness of `Lock`). No fairness makes the script call anything: `future.get` is a
  script that does not move, and `AcceptedRuns` holds for it.
* `timer`: weak fairness of the loop as a whole; callbacks return. `TimersRun` is about timers in reach (those
  whose timeout is an int) and
  exempts the end of the bounded clock, and so also a periodic callback that takes
  longer than its own period, which starves older timers in the code too.

* `socket`: weak fairness of `Poll` and `Dispatch`, strong fairness of `TurnEnds`: the loop,
  when it has control, goes on, and a turn's walk over the timers ends although every sleeper it wakes may sleep again: the
  walk skips the timers made since it began (ids above its `maxId`), and `sleep_call` answers `NOMORE`. Peers and scripts are
  free, and that coroutines give control back is the antecedent of `ReadyIsServed`.

`channel_timeout` checks what timeouts leave of the properties of `channel`: the others are
refuted with them by the wake-up that `channel_stale_waiter` shows. Its calls may also have no
timeout, so it covers `EachValueOnce` for both. `process` combines two classes that never meet, to check them in one run.

### Findings

* `channel_stale_waiter`: a push or pop that timed out leaves its coroutine in the
  queue of waiters; a later call resumes it wherever it is then.
* `timer_overdue`: with an overdue timer `search_nearest_time` clears the seconds but
  not the milliseconds, and `epoll_wait` blocks for up to 999 ms.
* `timer_self_delete`: a periodic timer deleted by its own callback is used after
  it was freed.
* `process_literal`: a `Process` does not keep its function alive; given as a literal, as in
  `tests/process`, it is freed before `start`, and a worker may run the next object's.

The quotations are in PROJECT.json. The other properties hold.

Six disagreements can be read off the lines and need no run.

* `channel.cc:9` drops the capacity a channel is constructed with: each has capacity 1, while
  `channel_util_v2.cc:63-64` passes the requested one on and publishes it.
* `coroutine.cc:79-82` passes `Cco::sleep`'s double seconds as a `long long` of milliseconds: `sleep(1.5)` wakes after
  1 ms and `sleep(0.5)` at once, while `coroutine_util.cc:114` asks for 0.001 at least and
  `tests/hook_sleep:6` takes `sleep(1)` for 1000 ms.
* `timer_util.cc:34` answers a tick's `long` period as an `int`, which `timer.cc:173` keeps in one: a period of 2^31 ms
  or more is armed in the past after its first call, and 4294967295 is `NOMORE`.
* `timer.cc:94` returns the timeout, a `long` at `:126`, as an `int`: with no timer nearer than 2^31 ms it may be negative, and
  `epoll_wait` then sleeps for ever.
* `process.cc:53-54` says that the parent reads and writes end 0 of a pair and the child end 1; `Lib\Process::write` uses
  end 0 and `read` end 1 in every process, so parent and child talk over the pair only because both keep
  both ends, and either may read what it wrote itself.
* `sharemem_util.cc` keeps in two globals what its objects are for: two `SharMem` objects are one integer.

The model has all of them; the properties say what holds in spite of them (`Lost`, `PeriodFits` and `InReach` in `Timer`
name what the middle three cost).

## 4. Proofs

`CoroutineProofs` proves, for any number of coroutines and deferred callbacks, that
`Spec` keeps `TypeOK`, `StackCoherence`, `OneWakeSource` with `NoStaleResume`, `ClosedExactly`
and `NoDeferredLost`: a callback is lost only if the destructor of the return value deferred it. None of these is inductive: that `yield` restores the right
stack depends on what some earlier `resume` recorded. The invariant `IInv` adds

* `Links`: of a coroutine that was entered, `origin`, the scheduler's way back, is
  `swap_ctx`, the machine's, and is a stack that was entered and waits in the
  `run` or `resume` whose callee is this coroutine;
* `Frames`: conversely, every entered stack but the executing one waits in such a
  frame, for an entered coroutine whose origin it is; main's page is recorded
  in its task while it waits, ready to be restored;
* `Numbered`: ids above `last_cid` are unused, so `Create` meets a fresh one.

From `Links` and `Frames` the pieces of the switch (`Yield`, `Resume`, `Create`,
`ContextEnds`, `SwapInReturns`) each have a lemma `...Keeps`; `NextInv` has one
step per action. Wake sources and deferred callbacks are then counted action by action.

The last part of the module proves the refinement, `Spec => ImplementsCallStack`. The abstract stack is
`ChainTo[current]`, a recursive function along `origin`, so before anything can be said of
it, it has to exist. `OriginsEnd` says why it does: contexts can be ranked so that every
origin ranks below its coroutine. Where a coroutine is linked below `current`, only
coroutines nobody has entered can have ranks that no longer fit, and they are ranked anew above all
others. From the ranks a chain is built context by context (`ChainExists`), and two
functions that satisfy the equation agree wherever both follow entered contexts
(`ChainsAgree`, `ChainsOfEntered`: a least counterexample in rank cannot be). Then each action is
one lemma: `Create` and `Resume` push, `Yield` and the close in `SwapInReturns` pop the top,
and the others leave the chain and the sets of parked and ended contexts alone.

`CoChannelProofs` proves, for any number of coroutines, values and waiters and for calls without
a timeout (`Timeouts = {FALSE}`), `ChannelTypeOK`, `WaitersQueued`, `NobodyWaitsInVain`,
`WokenSucceeds`, `DeliveredInOrder` and `NoStaleResume`. The scheduler's `IInv` does not
carry over: a coroutine that waits in a channel has no wake source the scheduler counts. `ChannelInv` keeps
of it the stacks (`SwapInv`), and the lemmas `YieldKeeps` and `ResumeKeeps` with it, and adds

* `Wakes`, who may be woken from outside a channel: only who parked outside one, so `sleep_call` and
  `Cco::resume` cannot reach into `push` and `pop`;
* `CallsParked`: a stack inside a call is parked or the one executing;
* `Matched`: a wake-up being synchronous, at most one stack has been woken and has not gone on,
  the executing one; what it was woken for is there, and the other queue is
  empty, so nobody else can take it;
* `Sequenced`: the values received, the one queued, that of the woken producer and those of
  `producer_queue` are, in this order, consecutive numbers up to `pushed`.

`EnqueueKeeps` and `DequeueKeeps` serve the call that does not block and the one that was woken alike;
the scheduler's steps are one lemma, as they leave the channel alone (`ChannelUntouched`).

With timeouts `WaitersQueued` and `NoStaleResume` are false (section 3): a coroutine
woken by its timer stays in the queue, and is resumed from there once more. For whatever `Timeouts`, the
same module proves `EachValueOnce`, `NobodyForgotten`, and with them `StackCoherence` and
`ClosedExactly`. `TimedInv` assumes nothing of who is resumed: by `ResumeOrDie` a resume finds its
coroutine parked or kills the process without touching a stack. It adds `HeldOnce`, that a
stack holds a value exactly while it is in push and no two hold the same one, and argues on sets:
`Held`, what blocked calls have, and `Seen`, the received and the queued values, of which a push
appends to the end (`SeenGrows`) and a pop only moves the border (`SeenMoves`).

`CoSocketProofs` proves, for any number of coroutines, sockets and descriptors, `SocketTypeOK`,
`DescriptorsOwned`, `EventsIntact`, `WaitersRegistered`, `NoStaleResume` and the action property
`LoopKeepsWaiting` (when `event_wait` returns, whoever is parked is in `Cco::yield`). What the loop holds are numbers that can go stale: ids in the epoll set and, in the array
of events, those of an `epoll_wait` that is over. `SocketInv` has three parts, which different steps disturb:

* `Schedule`: stacks as above, and who has which wake source (`Wakes`, `CallsParked`): a call in
  `wait_event` has neither a timer nor an entry in `user_yield_coros`, so the loop alone resumes it;
* `Polled`: no two objects name one descriptor (`DescriptorsKept`), a call keeps its object
  though its descriptor may be closed (`CallsOnSockets`), what epoll watches it watches
  for a call that waits for it (`WatchesWaiters`, the converse of `WaitersRegistered`), and nobody waits
  while `event_num` is 0 (`Counted`), which with `Wakes` is `LoopKeepsWaiting`: an idle loop has no timers either;
* `Pending`: each event left names, in the packed word, a parked call and a coroutine of its own.
  `wait_event` writes its registration into the first entry of the array, the one the walk begins with: it is
  dispatched before any coroutine runs that could write there (`1 \in DOMAIN events => running = Main`).

`PendingStays` and `ScheduleStays` serve all the steps that leave other coroutines' calls alone. That every
open descriptor has an object (`Owned`) is inductive by itself and gives the count in `DescriptorsOwned`.

`CoServerProofs` proves `ServerTypeOK`, `ShutdownAcceptsOneMore` and `NoStaleResume` of servers. The first
part of `ServerInv` is `SocketInv`; the rest is about those in `start`: where they wait or run
(`ServesOnServer`), that a woken accept runs on an otherwise empty stack (`WokenAlone`), and that who accepted one
connection since the shutdown waits for no other (`LateOnce`). This last one is not inductive: a second
`start`, in a handler that runs above the first, sets `running` again, and the first one, when the
handler returns, goes round. A connection it finds at once it takes for the new start; but if it waited, a
second shutdown could find it waiting, with its one connection taken. It waits in vain: the second `start` must have left the
stack before, by waiting in its own accept, so the descriptor is in epoll and the first one's EPOLL_CTL_ADD is refused.
`LateIsRefused` says that: while the flag is up, the descriptor is registered or above every late one is
another in `start`. "Above" is the order of the stacks that wait for each other, which the invariant
carries as the existence of a depth for each context (`Depths`).

`ThreadPoolProofs` proves, for any finite set of workers and any number of calls,
`TypeOK`, `NoLostWakeup`, `StopWakesAll`, `EachTaskOnce` and `DestroyedDrained`. The
invariant adds `Exits` (`stop` is set from the destructor's step on, and a worker leaves
only a stopped and empty pool), `Busy` (a worker has a task exactly where the loop says so) and `Room`.
`NoLostWakeup` is a count: each enqueue adds one task and one thread that
will notify; a notification turns that thread into a woken worker, or finds nobody
asleep; a worker that takes a task is one coming thread less and one task less.

`TimerProofs` proves, for any integers as delays, any clock, and any lengths of a second and widths of an int above it, `TypeOK`, `WalkComplete`,
`NeverEarly`, `OversleepsLessThanASecond` and `SkewResets`. A time is a pair of seconds and
milliseconds that the code adds to, borrows from and compares by hand; the proof gives
each pair its key, `Second * when_sec + when_ms`, and shows once (`QuotientRemainder`, `ArmedFor`, `DueByKey`)
that arithmetic and comparison agree with it. With milliseconds below 0 the comparison is not the order of
the keys, but a timer it calls due has a key that has come, and the nearest timer's second is no later
than any other's, which is enough for a timeout less than a second too long. `TimerInv` says
that every timer's key is the time it was asked for, or less for a sleeper or once the clock was set back
(`KeysRight`), that `lastTime` lies in the past unless it was (`LastTimePast`), and that of the timers a walk owes a call none is behind
the walk's position (`OwedAhead`), which makes `WalkComplete` inductive: a callback that
inserts does so at the head, one that deletes takes from what is owed, and after
each call the walk starts over. `SearchBounds` bounds `nearest_time` and `IntsFit` says when it survives
being an int. The theorems say what the narrowings cost: `NeverEarly` counts for a sleeper what its unit leaves of its time (`Lost`)
and exempts ticks whose period is no int; `OversleepsLessThanASecond` is about timers whose timeout is an int
(`InReach`), whatever else is in the list.

`ProcessPoolProofs` proves, for any number of processes, objects, pairs and descriptors,
`EntriesArePairs`, `NoCrossTalk` and `PidsRight`. Neither of the first two is inductive: that a
message stays with its object depends on what every process, dead or alive, holds of every pair.
`PoolInv` adds that descriptors refer to opened pairs (`FdsOpened`) and queues of unopened ones are empty
(`QueuesOpened`), that nobody holds an object not yet constructed (`Unborn`),
that a process in which nobody called start has no filled entry and `process_slot` is beyond its objects'
slots (`Unstarted`), that descriptor 0 stays standard input (`StdinKept`), that while no object came late no two objects
took one entry (`OwnEntry`) and, while besides no function was freed, an entry points to its object's
(`OwnFunction`), and, while no object came late and no fork failed, that a pair is
reached through one object only (`OnePerPair`) and that a queue holds
messages of that object (`QueuesOwn`). So messages and functions have causes of their own to go astray: a failed fork
misleads no function, and a freed closure no message. `IdsInv` carries the process ids.

The same module proves, of `SharMem`, its types and `AloneNothingLost`: what a process points to or has mapped lists it among the
sharers (`MappedShared`), an increment under way is of a mapped integer
(`LoadingShared`), and what it loaded was at most the number of increments done, and exactly that
number if the mapping has one sharer (`LoadedCounted`).

The assumptions are the named ones of the modules. Most only give bounds their types. Those that say something of the code or its use:

* `HalfWord` is above twice every descriptor and coroutine id: both are ints, and `touint64` goes wrong for ids
  of 2^31 and more, which no process reaches;
* `Second < HalfInt`: a second in milliseconds is an int; `MaxClock >= 2 * Second`: the script
  starts in the second second of the clock, so that time 0 is long past;
* `SleepTimes` are above 0, which `Cco::sleep` checks (0.001), while `TickDelays` and `AfterDelays` are any integers;
* `MAX_PROCESSES`, `MaxProcess` and `Buffer` are at least 1; the set of workers is finite and the script is not in it.

Only model-checked: liveness (`SleepersWake`, `AcceptedRuns`, `DestructorReturns`,
`TimersRun`, `ReadyIsServed`), which the prover does not handle under fairness. Every invariant and
action property of the passing runs, and the refinement, are theorems.

## 5. Not modelled, and what comes next

What can still be proved: that the scheduler's theorems hold of sockets and channels as a
refinement (a channel's or a socket's step is a step of the scheduler or a stutter of `CallStack`); and what a
clock that is set back costs a timer at most.

Left out for good:

* the machine code of the jump and the engine's internals (reference counts, call
  frames), which the code only calls; PHP callbacks on worker threads, whose effect on an
  engine that is not thread safe is arbitrary; hooks, logging and wrappers without state;
  sources the build does not use (signals, mutex, atomics, `channel_util.cc`, `coroutine_server_util.cc`);
* `Lib\Process::signal`, which parses its arguments twice with contrary counts and so
  always answers false;
* the bytes that `recv` returns, among them the terminating zero behind a full buffer;
  calls interrupted by signals (EINTR); what `printf` between a call and its
  `errno` does to it;
* `future.get` inside a task of the same pool;
* calls with malformed arguments: they end in the engine's argument parser and change no state;
* a callback or a coroutine that calls `event_wait` again, and time before the second second of 1970.
