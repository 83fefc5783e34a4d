# A TLA+ development of Boost.GreenThread

Boost.GreenThread schedules stackful coroutines ("green threads") over a pool of
native threads that run one `boost::asio::io_service`. This directory holds the
specifications of its scheduler and of its synchronization objects, the TLC
configurations that check them on small instances, and the proofs of theorems
about them for instances of every size.

Paths below are relative to the repository; `thread_object.cpp`,
`scheduler_object.cpp`, `mutex.cpp` and `condition.cpp` are in `src/`, headers in
`include/boost/green_thread/`.

## 1. The system

| Component | State | Operations | Talks to |
|---|---|---|---|
| Green threads: `thread_object`, `thread`, `this_thread` | `state_`, the strand (own, or the parent's), the coroutine, `join_queue_`, `cleanup_queue_`, `this_ref_`, interruption flag and level, `uncaught_exception_` | create, `activate`/`resume`, `one_step`, `pause`, `yield`, `join`, `sleep`, `detach`, `interrupt`, exit | posts handlers to strands; `on_thread_exit` of the scheduler |
| Scheduler: `scheduler_object`, `greenify` | `io_service_`, `threads_`, `thread_count_`, `started_`, `check_timer_`, `cv_` | `start`, `add_thread`, `make_thread`, `join`, `on_thread_exit`, `on_check_timer` | native worker threads; the main program sleeps in `join` |
| `mutex`, `timed_mutex` and the recursive ones | `owner_`, the FIFO `suspended_`, `level_`, the spinlock | `lock`, `try_lock`, `try_lock_for/until`, `unlock`, `timeout_handler` | `pause`, `resume` and `yield` of green threads; timers |
| `condition_variable`, `condition_variable_any` | FIFO `suspended_` with a timer per waiter | `wait*`, `notify_*`, `timeout_handler`, `notify_all_at_thread_exit` | unlocks and locks a mutex; may be notified from native threads |
| `barrier`, `shared_timed_mutex`, `concurrent_queue`, `thread_group` | counters, ownership flags, a deque, a set of threads; each with a mutex and one or two condition variables | `wait`; lock, share, upgrade and convert; push, pop, close; add, remove, join all | mutex and condition variable |
| futures: `future`, `promise`, `packaged_task`, `async`, `foreign_thread_pool` | shared state: value or exception, ready flag, callback, external waiters | set, get, wait, `wait_for_any/all`, `then`-like callbacks | mutex and condition variable; fulfilled from green or native threads |
| Thread specific data (`tss`) | a map per thread | get, set, cleanup at exit | the exit of a thread |
| asio integration (`yield`, `use_future`) | the result of one asynchronous operation | initiate, complete, resume | io_service; `pause`/`activate` |
| streams: `streambuf_base`, `iostream`, `stream_acceptor`, `listener` | put and get areas, duplex mode, the socket; `stop_signal_`, the acceptor thread and its watchdog | put, get, flush, close; start, stop, join, accept | asio `yield`; green threads; a promise |

How they interact: everything above the thread layer suspends a green thread by
queueing it somewhere under a spinlock, releasing the spinlock and calling
`pause()`; something else takes it from there and calls `resume()` or
`activate()`, which post `activate_thread` on the strand of the thread. Strands
run one handler at a time in FIFO order, so an activation posted while the
thread is still on its way out of a worker waits until it has left.

What is hard about it:

* *Interleaving.* Between the release of a spinlock and the switch out of the
  coroutine everything can happen on the other workers: the thread can be handed
  the mutex, notified, timed out, or joined with.
* *Ordering.* Exit messages, `detach` and activations pass through strands, the
  count of threads therefore lags behind the threads, and the check timer decides
  on the count.
* *Timeouts.* A timer expires while a hand-over or a notification cancels it;
  either way only the handler of the timer resumes the thread.
* *Interruption.* `pause` throws after the thread has been resumed, when whoever
  resumed it has already given it something (a mutex, a notification).
* *Partial failure.* A completion function, a callback, an exit function or a write
  fails after part of the work is done, and others depend on the rest of it.
* *Liveness.* Every suspended thread depends on one activation; the main program
  depends on one notification of a native condition variable.

`PROJECT.json` lists the hazards, each at its line with the properties that
watch it.

Correctness, component by component: a live thread is run by exactly one place
and a join returns at, and only at, the end of the joined thread; the scheduler
stops its workers when, and only when, nothing is left to run, and `join` returns;
a mutex has one holder, loses no waiter and is fair; a wait ends with the mutex
and by exactly one wake-up; a queue of bounded capacity neither loses nor repeats
an item; shared and exclusive ownership exclude each other and conversions do not
strand anybody; a future becomes ready once, keeps its value, and every waiter sees
it; an exception, an exit function or an object kept for a thread is delivered, run
or freed once; a barrier lets complete generations go and nobody else; a stream
delivers what was written in order, and a listener that is stopped comes to an end.

## 2. The modules

```
Suspension            what the thread layer promises
  ^ implemented by    ThreadObject <- ThreadExit         (EXTENDS)
  ^ used by           Mutex <- ConditionVariable <- Barrier       (EXTENDS)
                      TimedMutex <- RecursiveTimedMutex  (INSTANCE, and implements)
Waiters               what a caller sees of its waits on a condition variable
  ^ extended by       Condition                          (implemented by ConditionVariable)
                      ConcurrentQueue, SharedTimedMutex, Future
Stream <- Listener    one connection; the threads that accept it (EXTENDS)
Scheduler             on its own: threads reduced to when they run and end
ThreadProofs, SchedulerProofs, ListenerProofs, FutureProofs, RecursiveTimedMutexProofs,
MonitorProofs (of Mutex, ConditionVariable and Barrier),
WaitersProofs (of SharedTimedMutex and ConcurrentQueue)
                      theorems (each EXTENDS its modules)
QueueFacts            lemmas about queues, for the last three of them
MC*                   instances for TLC
```

Where two modules that a third extends would define the same name, the one built
on top prefixes it: `CVInit`, `BarrierNext`, `QueueSpec`.

A definition whose comment begins with *Variant* is a plausible mistake in the
code, kept to show that a property notices it; no specification uses it.

Atomicity. Code under a spinlock (or under `scheduler_object::mtx_`) is one
action, because all the state it touches is touched only under the same lock;
where that is not so (`state_` in `one_step`, `owner_` read as a hint for `yield`,
the second half of `scheduler_object::join`) the code is cut into more actions or
the value read is arbitrary. Early returns and exceptions that change nothing
(`DEADLOCK`, `NOPERM`, `try_lock` returning false, `notify_one` on an empty queue)
are the absence of an action. Calls of the mutexes from outside every green
thread do nothing in the code and are not modelled.

### Suspension

A thread is absent, running, parking, parked or ended, and `wake` says whether
its next activation is posted. A thread goes on only by consuming an activation.
One is posted only for a thread that is parked, or that is parking: it has put
itself where it can be woken but is still running, and the activation is kept
until it has parked. There is never more than one, and none is left at the end.
`join`, `sleep` and the mutexes use threads in this way. A condition variable
does not quite: it can post a second activation while the first, of a yielding
`unlock`, is still posted (see ConditionVariable).

### ThreadObject (`thread_object.cpp`)

Variables are the fields of `thread_object`, plus `queue` and `exec`, what waits on
and what runs on each strand, `timers`, and `waitFor`, the call a coroutine is
suspended in. `one_step` appears as `RunActivate` (into the coroutine), the calls
the coroutine makes, and one of the tails `RepostReady`, `LeaveBlocked` and
`DrainJoinQueue`, `ActivateJoiner`, `PostExit`. The store of `STOPPED`, which is done
without a lock, is `Finish`; a joiner may look at `state_` and queue up between
`Finish` and `DrainJoinQueue`. `StartSticky` puts the child on its parent's strand.
`activate()` is always called where no green thread is current here (from
`one_step` and from a timer), so it is `resume()`. `Yield` keeps its four
conditions. Dropping the last handle changes nothing but who may join.

`ctx` and `wake` are the refinement mapping to Suspension.

Not in this module but in ThreadExit: interruption, exceptions that leave a
thread, exit functions, and thread specific data.

### ThreadExit (`thread_object.cpp`, `thread_only.hpp`, `tss.hpp`, `condition.cpp`)

Extends ThreadObject: every step of a thread is a step of ThreadObject together
with what it does to the fields left out there, or leaves those alone (`Alone`). The
end of a thread is `LeaveEntry` (the entry function returns or throws: `~cleaner`
takes `cleanup_queue_`), one step of `FunctionEnds` per function of `at_thread_exit`, and `End` (the
thread specific data, then `Finish`). An exit function may call the library, pause,
register more, throw, fulfil the promise of `set_value_at_thread_exit` (`SetsValue`),
or be the handler of `notify_all_at_thread_exit` (`UnlocksAndNotifies`). `uncaught` is
`uncaught_exception_`, taken by `Claim` in a `join(true)`; `PauseEnds` is the end of
`pause`, where an interruption is thrown. `interrupted` is never reset, as in the
code. `Unreferenced` says when the last `shared_ptr` of a thread is gone, and
`Terminated` when `std::terminate` has been called: by `~thread_object`, or because an
exception has left an exit function. `promise`, `owed`, `made`, `freed`, `raised` and
`delivered` are what the properties compare: what has been promised, stored and thrown,
and what has come of it.

`fss` is the entry of one `thread_specific_ptr` with the default cleanup. The objects of a thread
are numbered as it stores them, and `freed` counts the cleanups of each. `StoreData` is
`set_tss_data`, called by `reset` with an object (`ResetData`), by `reset(0)` and the destructor
(`RemoveData`), and by `release` (`ReleaseData`, which notes in `released` that the object is its caller's).
As `release` passes neither a cleanup function nor data, `set_tss_data` takes the branch that
does not look at `cleanup_existing`, so that all of them clean up what is there.

### Scheduler (`scheduler_object.cpp`, `greenify.hpp`)

`started`, `threadCount` and `worker` (the native threads in `threads_`) are the
fields; `stopped` and `checks` are the state of the io_service and of the check
timer in it; `main` is where the main program is in `join`. A worker that is not
polling is the green thread it runs. A green thread is posted (`ready`), on a
worker, waiting, about to be counted out (`exiting`), or `gone`. `join` has a part
under the lock (`TestCount`, left and re-entered by waiting on `cv_`) and a part
without it. The main program is that of the documentation and of
`greenify_with_sched`: start, create the first green thread, join; over and over.

Not modelled: a program that joins without ever creating a thread (the check
timer is armed again for ever, and join returns only once a thread has come and
gone), one that calls `add_worker_thread` before `start` (there is no check timer
then), and two joiners at once (only one is notified). They misuse the interface
in ways its documentation does not describe.

### Mutex, TimedMutex (`mutex.cpp`)

`owner` and `suspended` are the fields. `at` is where each thread is inside a call:
queued but not yet switched out (`pausing`), switched out (`paused`), activated
but still inside `pause` (`resumed`), between handing the mutex over and yielding
(`yielding`), and so on. `holds` is what the caller has been told. `unlock` reads
`owner_` for the hint of `yield` after it has released the spinlock, a data race,
so whether it switches out is arbitrary. `interrupt` may come at any time,
and a thread may disable interruption (`shielded`); `pause` throws when the thread
goes on (`LockThrows`). In TimedMutex the timer of a waiter
is `armed`, `fired` (expired, or cancelled by a hand-over, its handler queued) or
`handled`; the handler is wrapped in the waiter's strand and runs only when the
waiter has switched out.

### RecursiveTimedMutex (`mutex.cpp`)

The code of `recursive_timed_mutex` repeats that of `timed_mutex`, with `level_`. Each
action is the one of TimedMutex with what happens to `level`, or an owner locking
again or undoing it; `depth` counts the locks each caller has been told it has.
`level_` starts with any value, as the constructor does not set it. `MaxLevel`
bounds how often an owner locks again. The run of this module is the run of
TimedMutex as well: it fires all of its actions, checks its properties `OneResume`
and `EveryLockReturns`, and shows that, with the repeated calls taken away, only
behaviours of TimedMutex are left. `recursive_mutex` is the same code
without timers; it behaves as this module does while no caller uses a timed attempt.

### ConditionVariable (`condition.cpp`)

Extends Mutex, all of whose actions it uses: `wait` queues the thread
(`Enqueue`), calls the whole of `mutex::unlock` (`Unlock`, then whatever switching
that takes), pauses, and calls the whole of `mutex::lock` in the destructor of
`relock_guard`. `timer` is `expired` or `cancelled` while its handler is queued and
then holds the status the handler stored. `notified` is the activation that ends
the wait; Mutex's `wake` is the other one that may be posted at the same time. The
code does not tell them apart, but it consumes them one by one, first at the end
of the yield and then at the end of the pause, so naming them loses nothing.
The callers use the condition variable as the C++ standard asks: they wait in a
loop holding the mutex, and a caller who sets the condition notifies all.

### Condition and Waiters

`Condition` is a condition variable as its callers see it: a FIFO of threads, of
which a notification takes the first or all, a timer takes its own, and each
taken thread returns once. ConditionVariable implements it, with
interruption, and its fairness as long as nobody is interrupted. `Waiters` holds the state of each thread in a wait (`status`) and the effect
of a notification on it; the modules of the classes built on the condition
variable extend it, each with its own queues. In these classes a method holds the
mutex of the object throughout, except while it waits, so what a call does between
two waits is one action. A thread that is notified while its timer expires may
be told `timeout`, as in the code.

### ConcurrentQueue (`concurrent_queue.hpp`)

`size`, `opened`, and the waiters `full` and `empty` of the two condition variables.
`PushNow`, `PushSome`, `PushAll` and `PopNow` are calls that find room or an item,
`PushWait` and `PopWait` those that do not; a woken call waits again (`PushAgain`,
`PopAgain`), succeeds (`PushEnds`, `PopEnds`) or returns false (`PushFails`,
`PopFails`). The timed calls have the loop of the code: as long as the queue is
open and full (or empty) they wait again even after a timeout, with the deadline
passed, and look at the status of the last wait only after the loop. `push_all`
ignores the capacity in the code; `MaxItems` bounds what it adds. The items are not
modelled, their order being that of `std::queue`. `pop_some` does not compile when
instantiated (`std::queue` has no `top`).

### SharedTimedMutex (`shared_mutex.hpp`)

The fields of `state_data`, the waiters of the three condition variables, the
ownership each thread has been given (`mode`) and the call it is in. The
methods that wait differ in the condition (`Can`), the ownership before and
after (`Before`, `After`), what they do to the state (`Take`) and where they wait
(`Queue`); with these tables `Granted`, `MustWait`, `GoesOn`, `WaitsAgain` and `GivesUp` are all
of them. `unlock_shared` unlocks `state_change` before its notifications, so it is
four actions (`UnlockShared`, `NotifyUpgrader`, `NotifyExclusive`, `NotifyShared`).
`NobodyWaitsInVain` says that the methods notify whom they should: a waiter whose turn
has come is woken, or somebody is about to tell it. It has three parts, one for each
way to wait for ever: `exclusive_waiting_blocked` left behind without a writer, a
writer, or a reader, that waits for a mutex nobody has.

### Future (`future/promise.hpp`, `future/future.hpp`, `future/detail/shared_state.hpp`)

For each promise `ready_`, the waiters of `waiters_` and the calls whose callback is
in `ext_waiters_`; `setter` is how far its fulfilment is: `ready_` set, waiters
notified, callbacks run one by one with the lock released (`running` is the one it is
in). A green thread makes one call: `get`, `wait_for`, `wait_for_any` or `wait_for_all` of all
promises, or `async_wait_for_any`, `async_wait_for_all` or `then`, of which it then
gets the future. That future has a shared state too, named by the thread that made the
call; the callback that fulfils it tests (`Begins`), calls `set_value` (`Checks`), and
stores and notifies (`Stores`, `Notifies`), run by whoever fulfils the promise or, if
that is ready already, by the caller. A continuation of `then` may throw, and so does
`set_value` when two futures become ready together (`Throws`): the exception leaves the
`set_value` of the promise, and the callbacks after it are not run. One that a call adds while
they are being run, which only a native thread lets happen, may be left out too, and others with
it (`late`): the range of the loop is fixed, and the vector may be moved under it.

The promises in `Foreign` may be fulfilled by a native thread, where `mutex::lock` does nothing
(`mutex.cpp:30`): it may act between the test of a waiter and the moment it is
queued, which are therefore two actions (`MustWait` and `Waits`, `AddTests` and `AddStores`),
the first of which locks the state against green threads (`Locks`). A callback of
`wait_for_all` notifies `cv` without its mutex whatever thread runs it. A promise
destroyed unfulfilled is fulfilled with `broken_promise`. Values and exceptions are not
modelled, except for which of several futures a result came from (`ret`).

### Barrier (`barrier.hpp`)

Extends ConditionVariable and, through it, Mutex, whose actions it uses
unchanged (`BarrierIsClient`): `wait` locks (`Lock`), counts down (`Arrive`), waits in the loop over `gen`
(`WaitAgain`, `LeaveLoop`), or completes the generation (`Complete`), notifies all
(`NotifyWaiters`) and unlocks.
`m_count` has the width of `unsigned int` (`Width` values). The completion
function returns the size of the next generation, or throws (`CompletionThrows`). A
thread interrupted in `wait` has been counted; it leaves when its generation does.

### Stream (`streambuf.hpp`, `iostream.hpp`, `asio/yield.hpp`)

One connection as `example/echo_server.cpp` uses it: a servant that reads and writes,
and, unless the server has none (as the one in `test_tcp_stream.cpp`), a watchdog that may close the stream
at any time, and ends when it finds it closed. Both are on one strand, so a
thread is cut only where it suspends: in `asio::yield`, whose operation is pending
(`writing`, `reading`), completes (`WriteCompletes`, `WriteFails`, `ReadCompletes`), and
then activates the thread (`ResumeWrite`, `ResumeFailed`, `ResumeRead`). `Overflow` is
`overflow` up to its first write; what its callers do after it (`sputc`, `sync`, `underflow`,
`close`, the destructor) is `AfterOverflow`. The n-th character written is the number n,
so that `memory`, `wire` and `garbled` tell whether the peer receives what was
written, in order and once. The kernel takes any non-empty part of a write; the peer
may reset the connection. `std::ostream::flush` on a bad stream may or may not reach
`sync`, depending on the C++ library: `Close` allows both.

### Listener (`iostream.hpp`)

Extends Stream: a listener is started and joined by one thread and stopped by others.
`signal` is `stop_signal_`; the acceptor thread and its watchdog share a strand. `stop` tests
the pointer (`StopTests`) and then calls `set_value` (`StopSets`), which are two steps, as
`join` on another worker may reset the pointer in between. The first connection is
served by Stream, interleaved with the listener; others are counted.

## 3. The runs

| Run | Question | Instance |
|---|---|---|
| thread_object | Is every live thread run by exactly one place, is the count exact and does an ended thread let go of itself, does join wait for the end, is Suspension implemented? | 3 threads, 2 workers, symmetric; 912 674 states |
| thread_exit | Is an exception delivered to one join and no other, is what an entry function promised done by the end of the thread, is every object under a key cleaned up when it is replaced or removed, or its thread ends, and only once, does the joiner return through all exit functions? | 2 threads, 1 worker, one of them ending in every way, 1 exit function, 2 objects; 624 595 states |
| scheduler | Is the io_service stopped only when all is done, does join wait for all and return? | 3 threads, up to 2 workers; 2 327 states |
| mutex | Exclusion, no lost waiter, FIFO order, proper use of Suspension, with interruption; does every lock return without it? | 3 threads; 36 928 states |
| recursive_timed_mutex | Is the mutex kept until the last lock is undone; is level_ exact; is each waiter resumed exactly once; is it a timed_mutex from outside, until somebody is interrupted; do calls return? | 3 threads, 3 levels; 43 844 states |
| condition_variable | One wake-up per wait, return with the mutex, with interruption; do notified waits end; is Condition implemented, its fairness included while nobody is interrupted? | 2 threads and a native notifier; 22 679 states |
| concurrent_queue | Is the capacity kept; do the notifications reach enough poppers and pushers although others barge in; does close end every call? | 4 threads, capacity 2, at most 4 items; 50 822 states |
| shared_timed_mutex | Do owners exclude each other as they should; is whoever waits told when its turn has come; do calls return once no new ones come? | 3 threads; 19 856 states |
| future | Does a call return only when, and (unless overtaken or dropped) always when, what it waits for is ready; is every callback run once; do results stay? | 2 calls, 2 futures, one foreign; 274 418 states |
| barrier | Are exactly the threads that wait counted; do complete generations leave? | 3 threads, sizes 2 and 3, 2 generations; 113 212 states |
| listener | Does a half duplex stream flush before it waits; does the peer receive what was written in order; does a stop end the listener, and join wait for one? | buffer of 2, 3 characters, 1 connection, 2 starts, 2 stops; 1 919 762 states |
| future_foreign | Does `get` return once a native thread has fulfilled the promise? *No.* | 1 call, 1 foreign future |

The liveness of the mutexes is stated with its premises inside the property (nobody
is interrupted, whoever has the mutex gives it up again and again), so that one
run under weak fairness of the workers and timers serves safety and liveness; the
same is done with `Calm` in ConditionVariable and Barrier and `Overtaken` and `Dropped` in
Future. Types are not checked by the runs: they are part of the invariants that are proved, and
TLC evaluates every expression of the other modules on the values that occur.

Why these bounds are enough to see the interesting cases: three threads give a
holder and two waiters that can be overtaken, a parent with a joined child and a
bystander on the parent's strand, an upgrader, a writer and a reader, or a complete
generation and a thread that comes too early for the next; four threads at a
queue of two items give two waiters on one side, one thread that wakes one of
them and one that barges in before it; two futures are the least that
`wait_for_any` and `wait_for_all` can tell apart, and one of them foreign mixes both
kinds; two objects are the least of which one can replace the other; two workers let any step of one thread come between any two of another;
one worker with two threads makes strands compete. In the condition variable two
threads suffice, as a native thread notifies: one waits while the other barges
in, or both wait. In the stream three characters in a buffer of two overflow it and
leave one behind, and two is the least that a write can be cut in.

The bounds that cap what the program does not: `MaxLevel` (`level_`), `MaxItems` (the
items `push_all` may add), `MaxUses` (exit functions registered by a thread), `MaxObjects` (objects it
stores) and `MaxTogether` (both and the calls of `release`: a thread of the run has two objects, or one that it
takes back, or one and an exit function; the `Leavers` do so, the `Roots` are started from outside), `MaxGeneration` (barriers
completed; `Width` stands for the width of `unsigned int` and is larger than that by
the number of threads, which may each complete one more, so that only an underflow reaches it), `MaxBytes` and `Transfer` (characters written, and fetched by one
read), `MaxStarts`, `MaxStops` and `MaxConnections`. Otherwise threads are created once,
timers belong to a suspended thread, and every queue is bounded by the number of
threads. In Future each thread makes one call (of those in `MayCall`) and each promise is
fulfilled once, as a promise can be. `CHECK_DEADLOCK FALSE` is given where the
program may really stop: all threads have ended, the process is terminated,
everybody waits at a queue or for a promise that nobody fulfils, or is overtaken as
described below.

### Fairness

* Workers go on with what they run, timers expire and handlers run (weak
  fairness): native threads are scheduled by the operating system.
* A strand with handlers is served in the end (strong fairness of `Take` in
  ThreadExit and of the handlers in Scheduler): the io_service queues strands and
  handlers FIFO, but other strands may hold the last worker in between.
* Green threads are cooperative: a running coroutine calls something that
  switches out, and ends if `join` of the scheduler is to return. This is what the
  library asks of its users. An exit function ends in the end, however often it
  pauses (strong, as pausing disables it for a while); that an entry function ends is
  not assumed.
* Who has a mutex unlocks it: a premise of the liveness properties of the mutexes,
  a fairness condition in ConditionVariable, where who sets a condition also
  notifies. They are the obligations of callers, and strong because the same
  caller may do other things in between. In Barrier the only callers are `wait` itself.
* Who owns a shared_timed_mutex unlocks it (weak fairness of `Unlocks`). Its calls
  return under the premise that no new calls come from some time on: otherwise
  readers, or writers, that keep coming may starve the others.
* Whoever has begun to fulfil a promise finishes, callbacks included. That it is
  fulfilled at all is not assumed, nor that anybody pushes, pops or closes.
* The caller of `listener::start` joins, as `operator()` does, and the threads of the
  listener go on when they can. Nobody has to connect, to stop, or to answer; a stop
  that has begun is carried through.
* No fairness is put on the main program, on `interrupt`, on spurious wake-ups, on
  the peer of a stream, on calling a barrier or on the use of locks.

### What the runs found

* **future_foreign.** `foreign_threads.qbk:31-33` says that green threads can `get` a
  future to wait for a function in a foreign thread. `wait_` (`shared_state.hpp:121`)
  tests `ready_` and then queues up, under a mutex that does not exist for native
  threads; if `ready_` is set and `waiters_` notified in between, `get` never returns.

While the models were written, the following was seen in the code. Each is
outside the premise of a property, named in brackets where there is one, part of what a
model does, or outside the models.

Threads:

* `on_check_timer` (`scheduler_object.cpp:107`) stops the io_service as soon as the first
  green threads have ended, even if the main program has not called `join`. A green
  thread created from outside after that is counted but never run, and `join`
  waits for ever. (The main program of Scheduler creates its thread right after `start`.)
* An exception of an exit function leaves `~cleaner`, whose handler rethrows
  (`thread_object.cpp:119-121`): the program is terminated. This includes the
  value of a promise that was dropped before the thread ended: `set_value_at_thread_exit`
  then finds `broken_promise` in the state and throws. (`JoinReachesExit` allows for it.)
* `interruption_requested` (`thread_object.cpp:606`) answers the opposite of its name, and
  `interruption_point` (`:611-618`) throws although interruption is disabled.
* The arguments of a thread are destroyed (`thread_object.cpp:141`) after the loop that cleans up
  its thread specific data (`:114-118`) and leaves the entries in the map: a destructor there that
  resets a `thread_specific_ptr`, or is one, cleans the same object up again, and what it stores is never
  cleaned up. (Such destructors are not modelled.)

* `tss.hpp:106-107` says that `release` does not call the cleanup function. It gives `set_tss_data`
  neither a function nor data (`:111`), and that branch (`thread_object.cpp:337-345`) does not look at
  `cleanup_existing`: the pointer that `release` returns is that of a deleted object. (`DataFreedOnce`
  excepts what `release` has returned.)

Mutexes and condition variables:

* `unlock` makes the oldest waiter the owner before it resumes it. If it was
  interrupted, `pause` throws out of `lock`: its caller does not have the mutex and
  will not unlock it, yet `owner_` is the thread, so everybody else blocks for ever.
  (`EveryLockReturns` assumes that nobody is interrupted.)
* `relock_guard` locks in its destructor. If the mutex is taken and the thread has been
  interrupted, `lock` throws there, and `std::terminate` ends the process. An interrupted
  waiter, or one whose timer has expired, can still be taken by `notify_one`, which
  then helps nobody else.
* When the completion function of a barrier throws, the generation is over, `m_count` is
  zero and nobody is notified: the waiters stay, and the next `wait` counts down from
  zero, past which the `unsigned` field wraps. (`CountExact` and `GenerationsLeave` end there.)
* A timed push or pop goes on waiting after its timeout while the queue stays
  full or empty, and may return false with room or an item at hand, which a
  waiting thread then is not told of (`NoWaiterForgotten` names that step).
* A thread in `unlock_upgrade_and_lock` gives up its share and relies on the last reader
  to see `upgrade` and hand the mutex over (`shared_mutex.hpp:195-197`). If that reader
  instead converts with `try_unlock_shared_and_lock_until` (`:429-446`) it clears `upgrade`, and
  nobody notifies the waiting thread any more (`UpgraderUndisturbed`).
* `try_unlock_upgrade_and_lock_until` and `try_unlock_shared_and_lock_until` wait on `shared_cond`
  until `shared_count` is 1 (`shared_mutex.hpp:380-390`, `:430-440`), but `unlock_shared`
  notifies only when the last shared owner leaves, never when the last but one
  does. Such a call sees that it is alone when its time has run out, unless
  something else happens to wake it (`Sole` in `ReadersTold`).

Futures:

* The last callback of `wait_for_all` (`future.hpp:1082`) notifies `cv` without its mutex, so
  the notification may come between the caller's test and its wait (`Overtaken`); and it
  uses `cv`, which lives on the caller's stack, after the caller may have returned.
* `wait_for_any` may return before a native thread has set `ret` (`ReturnsWhatIsReady` says when).
* `async_wait_for_any` tests and sets `is_set_` in two steps (`promise.hpp:540-544`). Of two
  futures that become ready together the second then calls `set_value` on a promise that
  is satisfied; the exception leaves the `set_value` of the second promise, and the callbacks
  after it are never run. A continuation that throws does the same (`Dropped`).
* A callback that is added while a native thread runs those of the promise
  (`shared_state.hpp:64`) is not reached by the loop, and adding it may reallocate the vector that the
  loop is in, which then reads freed memory. (`Dropped` allows for callbacks that are not run; worse
  than that is not modelled.)

Streams:

* A listener that cannot bind ends its thread with an exception. `join` does not
  propagate it, so the `catch` around it (`iostream.hpp:314`) is never reached, and
  `~thread_object` terminates the program.
* An error of `async_accept` ends the loop and is forgotten; `join` then waits for a
  stop (`JoinWaitsForStop`).
* A second `stop` throws `promise_already_satisfied`, or, if `join` has returned and reset the
  pointer after the test, uses a promise that is gone (`JoinWaitsForStop` says that only a
  second one can).
* The watchdog of the echo server closes the stream while the servant may be suspended in
  `overflow`: it sends what is in the put area again (`WireInOrder` ends there, with
  `overlapped`).
* A write that fails leaves the part that was sent in the put area (`streambuf.hpp`,
  `overflow`); whoever clears the error and flushes sends it twice. The stream stays bad in the model.

## 4. What is proved

Every theorem is checked by TLAPS for all values of the constants.

**ThreadProofs**, of ThreadObject: `ThreadsHaveOneActivation`, `JoinReturnsAtEnd`,
`ThreadsKeepContract` (the refinement of Suspension) and `ThreadsAreAccountedFor`, for every set
of threads and every number of workers; assumed are that `NoThread` is not a thread and that there is a
worker. One activation per thread is the invariant the whole library stands on, as
`activate_thread` does not look at `state_`. It is not inductive: a step takes an entry
from a queue, and that the thread it names is not the one that another worker runs, or
one that has stopped, is known only if all places of all threads are known.
`IInv` therefore says: what a strand executes is a thread of that strand, in the state that
goes with the phase (`ExecSound`); a handler waits on the strand of its thread, which
exists (`QueuesSound`), and so does the thread of a handle (`HandlesSound`); the places of a
thread are at most one, and one exactly if it is live (`OneSpot`); and who waits in
`join` for a thread that has not stopped is on its `join_queue_` (`JoinersQueued`). The places are named by
`Spot`, one by one, so that a step need only say which it changes: most leave a thread's
places as they were (`Same`) or move them up behind an entry that was not its own
(`Shifted`), and one thread gets one new place (`Only`). Lemma `SpotsAreActivations` leads from there to the
cardinality in `OneActivation`. For the refinement a thread is woken if a handler
anywhere is its activation; the rest of the argument is that the thread a step resumes had its place
elsewhere, so was not woken and is not running.

`ThreadsAreAccountedFor` compares the count with a cardinality, and so needs that the
exit of a thread is posted at most once and only when the thread has left its worker for good
(`ExitPosted`): then `Exited` of one thread changes in one step, the one that counts.

**ThreadProofs**, of ThreadExit: `ExitKeepsThreads`, `ExitDeliversExceptionOnce`, `ExitDoesDuties`
and `ExitFreesData`, for every set of threads and any number of exit functions and objects.
`ExitKeepsThreads` is the refinement: exceptions, interruption, exit functions and thread
specific data leave each step one of ThreadObject, so that all of the above holds of
ThreadExit as well; that a stopped thread stays so is taken from there (`StoppedStays`). The invariant adds that there is no
exception before the entry function has ended (`NoneBeforeEnd`), so that none is
overwritten; that a function owed is still on `cleanup_queue_`, or on what `~cleaner` has taken from it
(`DutiesKept`); and that a thread has stopped only with an empty list (`StoppedLast`).
For the data it adds that what is under the key, cleaned up or released was stored before, so that a new
object starts uncleaned, and that what was released is not under the key (`DataStored`). Only the end of a thread
sets `STOPPED`, so that the steps of ThreadObject leave all of it alone (`AloneKeepsIInv`).

**MonitorProofs**, of Mutex: `TypeCorrect`, `MutexExcludes`, `MutexHeldWhileWaited`,
`MutexLosesNoWaiter`, `MutexUsesSuspension`, `MutexServesInOrder`, with interruption. The only assumption is that `NoThread` is not
a thread. Mutual exclusion is not inductive: `LockReturns` lets the caller believe
that it has the mutex without looking at `owner_`. The invariant `IInv` says why that is
right: holders are the owner, and in their own code or in the `yield` of a notification
(`HoldersOwn`); the queue has no thread twice and only
threads that wait and have not been woken (`QueueSound`); the mutex is owned while
somebody waits; a waiting thread is queued or is the owner with its activation
posted (`WaitersAccounted`); one that has been resumed is the owner (`ResumedOwn`); and
no activation is posted for a thread that will not consume it (`NoStrayWake`). Each
action preserves each part, by one lemma per action. That lock and unlock use threads as Suspension
allows follows from the same invariant, and the order of service from the queue
having nobody twice: each step appends to it, or takes from its front.

Of ConditionVariable: `WokenByOne`, `WaitReturnsLocked`, `ConditionRefined` (the
refinement of Condition, which is `ImplementsFairCondition` without the fairness) and `MonitorExcludes`, with interruption, for every set of threads.
`OneWakeUp` counts who can wake a waiter, and so admits a waiter in the queue whose timer has been
cancelled: the next notify would activate it again. The invariant excludes it by three cases (`WaiterOK`): queued,
with a timer that is none, armed or expired; taken from the queue and left to the handler of a timer that was
cancelled or had expired; or activated. They are what a step of
Condition distinguishes, so that the refinement maps each step by them. The calls that a wait and a
notification make keep `IInv` of the mutex (`CVKeepsIInv`), which is therefore an invariant of all that is
built from it: the mutex excludes inside a condition variable and a barrier as well.

Of Barrier: `BarrierIsClient` (its behaviours are behaviours of ConditionVariable, so that the above holds in it),
`BarrierCounts` and `BarrierHolds`, for every finite set of threads and every choice of sizes; the assumptions are that a
size is positive and fits `unsigned int`, and that the generations do not wrap around (`GenerationBounded`). `CountExact`
is not inductive: a thread that was woken too early would leave, or be counted again. `CountedAsleep` says
that the threads counted for the current generation are all in the queue of the condition variable, not yet
taken from it, and that there is none while the thread that has completed a generation is about
to notify; `CountOK` that the count has not reached zero, so that the decrement does not wrap,
until a completion function throws. What a notification takes is then never a thread of the generation that has
just begun, and the loop of `wait` never goes round twice (`WokenWhenComplete`).

**SchedulerProofs**: `SchedulerTypeCorrect`, `SchedulerStopsLast`,
`SchedulerChecks`, `SchedulerJoinWaits`, for finite sets of threads and workers. The
invariant relates `threadCount` to the cardinality of the threads that are not new
or gone, one check to the existence of workers, a stopped io_service to a count of
zero, and the state of the main program to that of the scheduler; `join` in its
second part implies that the count is zero and stays so, although the lock is not
held. The type theorem includes that the count never falls below zero, where
the unsigned field would wrap.

**ListenerProofs**: `ListenerJoinWaits`, `StreamWireInOrder` and `StreamReadersFlush`, for every number of starts, stops and
connections and whatever the connections do. What a step may do depends on what was
true long before, so the invariant keeps it: the promise lives as long as the caller
has something to join, and the watchdog as long as the acceptor (`OwnersInv`); the
watchdog ends only after a stop, and the acceptor after it (`StoppedInv`); a stop that
has found the promise has been counted, and if the promise is set or gone another
came before it (`StopsInv`). The steps of Stream leave all of it alone (`ServingKeepsIInv`).
For the stream, of any buffer size and any number of characters: what is in the put area, what of it is pending in
`overflow` and what the peer has are consecutive parts of what was written (`AreaKept`,
`Pending`), as long as the connection is good and the two threads have not both been in `overflow`; so a
part of a write that the kernel takes continues the wire. That
only one of them is there, and that nobody reads in half duplex mode with characters in the
put area (`ReaderAlone`), belong to the same invariant (`StreamInv`). The steps of the
listener leave it alone.

**RecursiveTimedMutexProofs**: `WaitersResumedOnce`, `LevelIsExact` and `TimedMutexRefined`,
for every set of threads, every bound on the level and with interruption. That each waiter will be resumed once is
not inductive, as it does not say who owns the mutex. `WaiterOK` names what can have happened to
a waiter: it is queued, its timer not handled; it was made the owner, and is activated or left to
its timer's handler; or that handler has activated it. A thread that goes on without having timed out is
the owner for that reason, which is also what `level_` depends on: the new owner starts with
one lock, and nobody but the owner has any (`OthersHaveNone`). The lemmas about `TimedInv` are
about the actions of TimedMutex, which it is inductive for, and do not mention the level.

**WaitersProofs**, of SharedTimedMutex: `OwnershipExcludes` and `SharedMutexTellsWaiters`, for every set of
threads. Two things make the exclusion hold that it does not mention. A thread woken in
`unlock_upgrade_and_lock` tests `shared_count` only: the last reader has set `exclusive` for it,
and until it goes on nobody owns anything (`HandOver`). And every condition variable queues only
threads in the calls that wait there, each once and still blocked (`QueuesOK`), so that the
notification of that reader reaches one thread and the right one. The count of the shared owners is that of a set
(`OwnersOK`). Lemma `WaitersMove` says what any notification leaves intact; the actions are
then treated one by one. That nobody waits in vain is inductive once the ownership is known: the mutex
becomes free only in a step that notifies, or in the first of `unlock_shared`, whose remaining steps
are still to notify. A writer that was woken stands for the others until it runs, and then takes
the mutex, finds it taken, or gives up and notifies the next.

Of ConcurrentQueue: `QueueKeepsCapacity` and `QueueServesWaiters`, for every finite set of threads, every capacity and every
batch. `NoWaiterForgotten` compares the number of items with the number of poppers that
have been woken, so each `notify_one` has to add one to that number. `QueueInv` gives that: whoever is
queued at a condition variable is blocked in a call of its kind, each once, and nobody is queued when the
queue is closed. A push then adds as many to those awake as it adds items, or leaves nobody to be
forgotten; who takes an item lowers the number of items by one, and of those awake by at most one,
whether it was woken or barged in; and who goes back to wait has found no item. The same holds of
pushers and room.

**FutureProofs**: `CallsReturnWhatIsReady`, `CallbacksAreKept` and `AsyncResultsAreFinal`, for every set of threads and
promises, any of which may be native; assumed is that threads, promises and `None` are different. What a call returns
was put there by a callback, perhaps long after the promise that ran it became ready, on another thread and in
the middle of other callbacks. The invariant follows each of them: from the moment a call has joined a promise its callback is about to be
stored, stored, or has been run, and is only one of these; it is run only when the promise is ready, and passed by
only if a native thread fulfilled that (`KeptOK`). Whoever is in a callback is where the code leads (`TaskOK`), no two
are in the same one, and no two green threads are both past the test of a satisfied promise (`PairOK`), which is why the result of an
asynchronous call is final. What a callback has left behind names the future it came from (`ResultOK`), and one that threw is
there to be blamed (`ThrewOK`).

**QueueFacts** proves what `push_back`, `pop_front` and the erasing of one element do to the
members of a queue without duplicates; MonitorProofs, RecursiveTimedMutexProofs and WaitersProofs cite it.

`TypeCorrect` and `SchedulerTypeCorrect`, `MutexHeldWhileWaited` (the mutex is never
free while somebody is queued), `SchedulerChecks` (exactly one check of the count is
pending until the io_service is stopped), `BarrierIsClient` and `BarrierHolds` are stated
and proved here only; the runs do not repeat them.

Every safety property of the passing runs, and the safety part of every refinement, is proved. Only
model-checked is what needs fairness, which is out of reach of the prover: `EveryLockReturns`, `NotifiedWaitsEnd`,
the fairness in `ImplementsFairCondition`, `CloseEndsCalls`, `EveryCallReturns` (of SharedTimedMutex and of Future),
`GenerationsLeave`, `JoinTerminates`, `JoinReachesExit` and `StopEndsListening`.

## 5. Not modelled yet, and the plan

1. The pools of `async.hpp` and `foreign_thread_pool`, composing Future with ConcurrentQueue: a
   task that throws out of `async_function` leaves a pool without its worker
   (`async.hpp:139`), and the shutdown of a pool closes the queue its workers pop from.
2. `thread_group`, composing SharedTimedMutex with ThreadObject: `join_all` keeps the shared lock
   while it joins, so that a member that adds or removes a thread waits for ever.
3. `condition_variable_any` and `recursive_mutex`, which repeat the code of modelled classes;
   interruption of waiting calls in SharedTimedMutex and ConcurrentQueue.
4. `use_future`, `connect` and name resolution, `packaged_task::reset`, moving and sharing of
   futures and the errors of uninitialized objects.

Left out for good: `std_stream_guard` (a per-thread pointer to a stream buffer), SSL
streams (the same calls over another layer), `seekoff`, thread names, what the examples do besides
serving a connection, and the
type machinery of `utility.hpp` and `forward.hpp`, which has no state.

## 6. Running it

`tlc -config MCMutex.cfg MCMutex.tla` checks a run; `tlapm MonitorProofs.tla` a module
of proofs. `PROJECT.json` lists the runs, the variants with the property each one
breaks, the source lines behind every definition, findings, hazards and theorems.
