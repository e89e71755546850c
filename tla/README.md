# A TLA+ verification of sap_core

sap_core is a C++20 support library: a coroutine executor on top of an I/O
reactor, a job system on lock-free queues, timers, handles, arenas, a byte
serializer and value types. This directory holds TLA+ models of its stateful
parts, the TLC configurations that check them on small instances, and TLAPS
proofs about all but one of them. Line numbers in the modules' comments are those of the
source file named in the module's header.

## The system

| part | source | state | operations | what is hard about it |
|---|---|---|---|---|
| `spsc_queue` | `stl/spsc_queue.h` | ring, head and tail index | `try_push`, `try_pop` | two threads without a lock; each acts on an old view of the other's index |
| `job_system` | `job_system.{h,cpp}` | one queue per worker, `m_pending_jobs`, `m_next_queue`, stop flags | `submit`, `wait_idle`, destructor, `worker_main` | the counter is updated after the push; stop races the last jobs |
| Linux `Reactor` | `io/epoll_reactor.cpp` | epoll registrations, eventfd | `create`, `add`, `modify`, `remove`, `wait`, `wake`, moves | wake-ups from other threads, batches smaller than what is ready |
| Windows `Reactor` | `io/iocp_reactor.cpp` | contexts, polls in the kernel, the completion port | the same | completions of cancelled polls arrive later; `add` drains the port that `wait` reads |
| `Executor`, `IoAwaiter` | `async/executor.{h,cpp}` | ready queue, pending I/O, running flag | `schedule`, `run_until`, `stop`, `co_await` | event, cancellation and `stop` in any order |
| `Task`, `SpawnHandle`, `sync_wait` | `async/task.h`, `spawn.h`, `sync_wait.h` | coroutine frames, who owns them, continuations | `spawn`, `detach`, `co_await`, drop, moves, `sync_wait` | frames that free themselves, frames that are freed by others |
| `sleep_for` | `async/sleep_linux.cpp`, `async/sleep_windows.cpp` | a timerfd; a socket and a thread-pool timer | the coroutine, its guards, `on_timer` | the timer's callback runs while the frame ends and the socket's number is used again |
| `StopSource`, `StopToken` | `async/stop_token.h` | intrusive list of callbacks | `_arm`, destructor, `request_stop` | callbacks change the list while it is walked |
| `Timer` | `timer.cpp` | thread, delay, mode | `start`, `stop`, `reset`, destructor | stop races the end of a wait |
| generational containers | `stl/generational.h` | entries, free list, slots | `allocate`, `deallocate`, `set`, `remove`, `get` | stale handles, generations that wrap |
| arenas and allocators | `stl/arena.h`, `stl/allocator.h`, `stl/stack_allocator.h` | cursors, pools, free lists | `allocate`, `deallocate`, `reset` | several pools and arrays in one arena that runs out |
| `ByteWriter`, `ByteReader` | `serialization.cpp` | buffer, offset | writes and reads | byte order, cut buffers |
| `fixed_string` | `stl/fixed_string.h` | buffer, size | constructors, assignments, `append`, `resize`, ... | terminator, old characters, views of itself |
| `result` | `stl/result.h` | a union and the flag that names its member | constructors, assignments, `emplace_*`, destructor | constructors that throw while the member changes |

The job system owns one `spsc_queue` per worker. The executor owns a reactor and
resumes coroutines; an `IoAwaiter` registers with the reactor and, if it was given
a token, with a stop source. The other parts stand alone.

## Modules

**`SpscQueue`** models the ring. A push is four steps (`PushCall`, `PushCheck`,
`PushWrite`, `PushPublish`) and a pop three (`PopCheck`, `PopRead`, `PopAdvance`).
An acquire load may return any value of the other index between the last one seen
and the current one. `BoundedFifo` is what the queue promises; `SpscQueue` is
shown to implement it, mapping the slots between tail and head to the queue.
`MCSpscQueue` gives it values and bounds.

**`JobSystem`** models the submitting thread and the workers. Its queues are
bounded FIFOs whose length each side sees with delay (`backlog`, `avail`), which
is what `BoundedFifo` allows. `m_pending_jobs` and `m_next_queue` are u32 values,
modulo `U32`. Its destructor asks every worker to stop and then destroys the
`jthread`s in turn, each of which asks once more and joins. **`JobSystemWatched`** adds a thread that does not submit and calls
`wait_idle`.

**`Epoll`** holds the Linux reactor's state and its operations as operators;
epoll itself is modelled from how the reactor uses it. **`EpollReactor`** puts a
caller, waking threads and changing descriptors around it. **`Executor`** uses
the same operators, so the executor runs on the reactor's model and not on an
assumption about it.

**`Executor`** composes the loop of `run_until` (one action per test, resume or
wait), coroutine frames and handles, awaiters, the stop source's list and a second
thread that calls `stop()`. User code is arbitrary: a running coroutine may spawn,
await, finish, drop a handle, request a stop or read a descriptor, in any order
(`when_all` is one such body). A task may also be a Linux `sleep_for`: then it owns
a timerfd, awaits it and closes it with its frame. Main may call either `sync_wait`;
the one for a plain `Task` hangs if the task suspends, as its comment says.
Its cancellation list is the one `CallbackList` specifies.

**`StopToken`** models the pointers of the intrusive list, with callbacks that
re-enter it, and implements **`CallbackList`**, the list as a sequence.
**`Lists`** has the operators on sequences that these modules share.

**`IocpReactor`** models contexts, polls held by the kernel, the completion port as
a queue, the drain loop in `add`, and teardown. Polls carry the events asked for and
completions the events found, translated by `to_afd` and `from_afd`. The variable
`cancel_io_file_ex` says which of the two cancellation functions `cancel_poll` uses:
`NtCancelIoFileEx` is given the address of a local block, which is not the one the
poll was submitted with, and cancels nothing. Each one-second timeout is an
action; it sets `timed_out`, and the properties are about behaviours without it,
because what follows (an `OVERLAPPED` reused or freed while the kernel holds it) is
not defined by the code.

**`SleepWindows`** models `sleep_for` on Windows: coroutines on the executor's
thread, timers whose callbacks run on threads of the pool, and socket numbers that
are used again once closed. `on_timer` is two steps, reading the socket from the
frame and sending; the destructor of `timer_guard` is two, disarming and waiting
for the callback. Coroutines end by expiry, by cancellation, by a failed `add` and by
being destroyed where they stand. The executor appears only by what it does for one
awaiter, which is what `Executor` checks in detail.

**`Ownership`** models what the movable classes own: both reactors, `Task` and
`SpawnHandle` (an `Executor` is moved with its reactor). Creations that fail
half-way, move construction, both forms of move assignment and destruction run in
several threads at once; each close is a step, after which the number may be handed
to somebody else. A frame may also belong to nobody and free itself.

**`Timer`**, **`Generational`**, **`Arena`**, **`Serialization`**, **`FixedString`**
and **`Result`** model one library part each. `Timer` leaves time out: a wait may run
out at any moment. `Arena` has pool allocators and linear allocators that share an
arena, and stack allocators with one of their own; byte counts and end addresses are
taken modulo `SizeMod`, the values of a `size_t`. `Serialization` works on bytes of
a small base, with the host's byte order a part of the initial state. `FixedString`
works on the buffer, each `memcpy`, `memset` and terminator as the code has it, with
a mark for characters never written. `Result` counts constructions and destructions
of each union member, and lets every constructor throw.

`MCCallbacks`, `MCHandles` and `MCValues` each put parts side by side that share
nothing: the variable `uses` says which of them a behaviour is about, so one run
asks the same question of all of them.

The operators named after a bug (`PushCheckLate`, `StopWakeMissing`, ...) stand
before the definition they vary. They are not used by the specifications; each
shows that a property notices a plausible mistake in the code it is about.

## Runs

| run | specification and bounds | distinct states | what it shows |
|---|---|---|---|
| `spsc_queue` | `QueueFairSpec`, capacity 4, 6 items, 2 values | 13,991 | no slot is accessed by both sides, a refusal means full, FIFO refinement, delivery |
| `job_system` | `WatchFairSpec`, 2 workers, 2 items per queue, 5 jobs, u32 of 7 values | 90,645 | the inductive invariant (each job in one place, exact counter), `wait_idle` for the submitter and for another thread, refusals, every job runs, calls return |
| `epoll_reactor` | `FairSpec`, 2 descriptors, batches up to the span | 81,450 | triggers are current and wanted; a wake lasts until a wait has room for it, and no longer |
| `executor` | `Spec`, 2 symmetric handles, 2 tasks, 2 awaits | 491,966 | nothing dangles, the counter is exact, a parked coroutine is reachable exactly once, results have a cause and a stop in time wins, frames have one owner, an idle `run()` leaves no task |
| `executor_live` | `FairSpec`, 1 handle, 2 tasks, 2 awaits or 1 and a stop | 191,375 | `stop()`, cancellation and I/O each end what waits for them; `sync_wait` returns |
| `iocp_reactor` | `IocpFairSpec`, 2 handles, 3 adds, 2 queued wakes | 2,999,170 | `pending` is exact, also where contexts are freed; triggers and their events are current, nothing swallowed, the drain ends where polls can be cancelled |
| `iocp_reactor_wake` | `IocpFairSpec`, 2 handles, 2 adds | violation | a wake is lost (below) |
| `iocp_reactor_drain` | `IocpFairSpec`, 2 handles, 3 adds, no queued wake | violation | a drain goes on for ever (below) |
| `handles` | `MCSpec`: 5 allocations, 3 generations; or 3 objects, 4 resources, a context each | 290,104 | free list, stale handles, what a live handle reads; each resource has one owner |
| `arena` | `ArenaSpec`, 2 pool allocators and a linear one in 35 bytes, a stack allocator in 4, a `size_t` of 128 values | 459,193 | no overlap, alignment, no block lost, until a request wraps |
| `callbacks` | `MCSpec`: 4 starts, 2 delays, both modes; or 2 sleepers, 2 sockets, 3 sleeps; or 3 list nodes, 5 arms | 66,214 | no stray thread, calls return, firing follows the mode; callbacks wake their own sleeper and sleeps end, stopped ones too; list shape, each callback at most once and none forgotten, refinement of `CallbackList` |
| `values` | `MCSpec`: 3 fields, base 2, both byte orders, every cut; or strings of capacities 0, 3, 3; or 3 results | 220,906 | round trip, failure exactly when cut, network order; strings are whole and act as sequences; the flag names the live member |

Bounds. A capacity of 4 makes both indices wrap with 6 items. Five jobs fill two
queues of two and leave one to be refused, and a worker that overtakes `submit`
wraps the counter. Two tasks with two awaits let an event and a cancellation meet
on different coroutines of one batch; in `executor_live`
the second await may be a call of `stop()` instead (`MaxSteps`). Three adds are a registration, one of another
socket and a re-add that drains. Three generations and five allocations wrap a
slot's generation. Both pools and their first chunks just fit into the arena, so it
runs out at every point of growing; one pool is of an over-aligned type, and one array
length makes products and sums wrap. TLC looks no further once a request has wrapped
(`UntilWrapped`), because nothing is promised then. Four starts cover start, stop, reset and start
again. With two sockets and three sleeps a closed socket's number is used again by
the other sleeper while the first one's callback could still run. Three objects and
four resources let one be assigned over while another takes the number it closes.
Three characters are enough for a string to shrink, keep old characters behind its
terminator and grow over them. Symmetry is used in `executor` only, where no liveness
is checked.

`CHECK_DEADLOCK FALSE` is set where the caller may simply stop: it has destroyed
the object, read the whole message or used up the bounded calls.

### Fairness

Threads are scheduled (weak fairness of each thread's steps), jobs and callbacks
return, and coroutine bodies end. A store becomes visible in finite time, which is
the strong fairness of a worker's pop with a fresh view. `epoll_wait` returns when
something is ready and does not pass over one descriptor for ever (strong fairness
per descriptor). The kernel completes a poll it was made to cancel, and timers of the
thread pool expire and call back. Nothing is assumed of
callers, and I/O comes only where a property says so (`IoComes` in `RunReturns`).

## Proofs

Each theorem holds for every value of the constants that satisfies the assumptions
named in the modules. Eight modules hold the proofs.

`PrimitivesProofs`, the queue, the value types and what waits for the world:

* For every capacity above one and every set of values, `RingOrder`: the ring
  invariant `RingInv`. It adds to the types that what a side last saw of the other's
  index lies between the tail and the head, and where each side is in its call.
  Without the views it is not inductive: a stale view is what the checks act on.
  `SlotsAreNotRaced`, `RefusalMeansFull`, `RingImplementsFifo` follow from it.
* `StringsStayWhole` (`StringIsWhole`), for every capacity and character set. Each
  operation hands `Set` a whole buffer (`WholeBuf`), because what it puts there is a
  text (`ArgumentsAreText`) put where a text ends (`PutIsWhole`). That the first `\0`
  of `c_str()` exists uses that the naturals are well-founded.
* `ResultsAreSound` (`FlagNamesTheMember`), for every number of results and set of
  data.
* `WakesAreExact` (`WakeIsExact`) and `WaitsReportTheWanted` (`TriggersAreWanted`, an
  action property), for every finite set of descriptors, every set of tokens and
  interests, every span and whatever the world does. A wake is owed until a wait comes
  back with room in its span: then the eventfd, had it been ready, would have been in
  the batch (`RoomMeansWoken`). `EInv` says that the kernel's
  table holds what the caller asked for last, in the kernel's terms; the rest is what
  `to_epoll` and `from_epoll` do to conditions.
* `ThreadsAreJoined` (`NoStrayThread`), for every set of delays and number of starts.
  That the running thread has the current delay is preserved by `reset` only because
  it joins first, and `fires` needs to know where the thread is.
* `SleepersAreWokenByTheirTimers` (`WakesItsOwn`), for every number of sleepers,
  sockets and sleeps. What is wanted is that `recv` does not block and a success
  follows the delay; it holds because a running callback has the sleeper's own socket,
  which holds because sockets are distinct and a frame is not gone before its callback.
  All of it is in the invariant.

`JobSystemProofs`, for every number of workers, queue limit, number of jobs and
counter width with `Count * (Limit + 1) < U32` (a u32 can count the jobs that can be
queued or held at once):

* `JobsAreTracked`: `JobInv`, the conjunction of types, views, drain state, how far the
  destructor has joined, the job in hand, `ExactlyOnce` and `PendingCountsJobs`. The counter is right only because
  a job is in one place, and a worker may exit only because a stop request shows it
  its whole queue, so neither is inductive alone.
* `JobsRunExactlyOnce`, `CounterIsRight`, `DestructorRunsAll`, `WaitIdleIsSound`
  follow from it.
* `RefusalsTriedEveryQueue` (`RefusedOnlyWhenAllFull`): a submit that has failed i times
  has looked at i queues in turn, and Count of them in turn are all of them.
* `WatchersWaitForTheirJobs` (`WaitIdleCoversSubmittedBetweenSubmits`), for the thread of
  `JobSystemWatched`: every step of it is one of `JobSystem` or leaves that alone, so
  `JobInv` holds, and a counter of zero outside a submit means that no job is left.

`ListsProofs` has the lemmas about lists that the modules below keep needing:
what appending, taking the head, concatenating and `Without` do to the elements and
to their being there once each. `Without` is a recursive function; what it computes
is proved by looking at the least length at which it would be wrong (`Least`).

`NotificationProofs`, for every finite set of nodes and number of armings, and for every
set of sockets and interests, number of adds and port length:

* `ListStaysSound` (`ListIsSound`). The property follows the pointers from the head;
  no step preserves that directly. The invariant `SInv` says instead that there is a
  sequence without repetitions which the pointers thread in both directions and whose
  elements are the linked nodes. That walking the pointers finds this sequence is
  proved once (a list without repetitions is not longer than the set of nodes, so the
  walk is long enough), and each operation says which sequence comes next.
* `PointersImplementTheList` (`ImplementsList`): every step of `StopToken` is a step
  of `CallbackList` or none, with the threaded sequence as the list.
* `PollsAreExact` (`PendingIsExact`) and the action properties `ReportsAreCurrent`
  (`TriggersAreCurrent`) and `CompletionsAreReported` (`NothingSwallowed`) of the Windows
  reactor. `PendingIsExact` counts polls; `IocpInv` says where they are instead.
  `PollsInv`: a socket has one poll in the kernel, or one completion on the port, or
  neither, and one of them exactly while it is pending. `CurrentInv`: the poll or the
  completion of a registered socket belongs to its current registration, asked for what
  it asks for and was not cancelled. `StepInv`: `add` comes to submit only when nothing of
  its socket is pending, which is what keeps a second poll off the same `OVERLAPPED`.
  Both parts about polls are under `~timed_out`, as the properties are.

`ArenaProofs`, for every arena, any element sizes and alignments, chunk size and set of
array lengths:

* `MemoryHasOneOwner` (`BlocksAreSound`), until a request wraps `size_t`. Single elements
  of a pooled type with an alignment above that of `max_align_t` may be misaligned, since
  chunks are taken at the latter; everything else is aligned. `ArenaInv` adds to it that blocks are aligned
  when they are carved, not only when they are lent: a block from the free list is aligned
  because the chunk it came from was. Every operation either takes bytes at the cursor,
  where nothing lies yet (`GrowKeeps`, and `StackKeeps` for the stack arena), or passes a
  piece from one owner to another (`SwapKeeps`). That `align_up` returns a multiple and
  that each block of a chunk is one is arithmetic with products and remainders, proved
  once in lemmas about multiples.

`TasksProofs` and `ExecutorProofs`, for every number of tasks, awaits and stops and
every set of descriptors. One inductive invariant, `IInv`, carries five properties:

* `NothingDangles`, `ParkedStayReachable`, `ResumptionsHaveReasons`,
  `FramesStayOwned`, and the action property `IdleRunsLeaveNothing`.
* `IInv` says what the parts of the state know of each other. `TasksInv`: a holder is
  older than what it holds and awaits at most one of them, which is what rules out
  coroutines that wait for each other when the loop is idle. `StackInv`: the
  running bodies are the stack of `resume` calls. `ParkedInv`: a suspended coroutine
  and its awaiter name each other, and `m_queued` is the truth about the ready queue.
  `AwaitersInv`: what the members of one awaiter say of each other. `CallbacksInv`
  and `RegisteredInv`: the stop source's list and the kernel's table hold just the
  awaiters that say so. `TimerFdInv`: a timerfd belongs to one `sleep_for`. None of the
  properties is inductive alone: that a coroutine is resumed once needs `m_queued`,
  which needs the list and the table to agree with the awaiters, and a batch of events
  resumes different coroutines because different descriptors carry different awaiters.
* That a stop wins (`StopWins` in `ResumedForAReason`) is a property of steps: a coroutine
  with a token is resumed by the loop alone (`LoopResumesByToken`), and then reads the
  token before the event.
* The step of `run_until` that turns a batch of events into ready coroutines, and
  `request_stop`, which does the same for callbacks, share one lemma (`EnqueueKeeps`).

`HandlesProofs`, for every generation width and number of allocations, and for every
number of objects and resources:

* `FreeListStaysExact` (`FreeListIsExact`): the free list has each dead index once.
* `LiveHandlesReadTheirOwn` (`LiveReadsItsOwn`). Generations are compared modulo their
  width, so the invariant relates them to the turns of each index (`TurnsInv`) and
  bounds what a slot holds by the index's turn while it has not wrapped (`SlotsInv`):
  then equal generations are equal turns.
* `ResourcesHaveOneOwner` (`OneOwner`). The invariant is first restated resource by
  resource (`Accounted`, `Apart`); it needs that a call in progress has its source to
  itself.

The assumptions say only what the code's types do: bounds are numbers, sets of nodes
and descriptors are finite, and the marks for "nothing" (`None`, `Nil`, `Null`, `Moved`,
`WakeFd`, `\0`) are none of the values they stand beside. Those of the arena are C++'s:
a size is a multiple of its alignment, a list node's alignment divides that of
`max_align_t`, a type smaller than a node has an alignment that divides the node's size,
the two arenas lie apart, and the address space has room for one more chunk, pool or
padding behind them.

Only model-checked:

* All liveness, because the prover does not do fairness.
* `Serialization`, because a number is read by recursion over its bytes: what a
  recursive definition computes for every input needs induction with an operator as
  parameter, which the provers cannot instantiate.
* `ActsAsString`: not proved yet.

## Where the code and its documentation part

`iocp_reactor_wake` shows that `add`, when it re-registers a handle whose
cancellation is in flight, drops a wake-up it finds on the port
(`iocp_reactor.cpp:275`), so that a `wait` without a timeout blocks although
`reactor.h:51` says that `wake` "makes wait() return promptly".

`iocp_reactor_drain` shows that the same drain may not end. `cancel_poll` gives
`NtCancelIoFileEx` the address of its own local block (`iocp_reactor.cpp:191`), while
the poll was submitted with `ctx.overlapped.Internal` (`170`), so the poll stays in
flight. While another socket's completion is on the port, the loop takes it and puts it
back, again and again, without reaching its timeout. The comment above it says
"drain it (requeuing other sockets' events) before reusing the OVERLAPPED." (`267`).
`DrainEnds` says what is left: with `CancelIoEx`, which is given the poll's own
`OVERLAPPED`, the loop ends.

The models were written to what the code does in these places too:

* `submit` tries every queue; `job_system.h:24` says it "Returns false if the target
  queue is full." (`RefusedOnlyWhenAllFull`).
* `wait_idle` called by a thread that does not submit may return while a submitted
  job runs, if another `submit` is between its push and its count
  (`WaitIdleCoversSubmittedBetweenSubmits` has that exception).
* A `stop()` before the first store of `run_until` is overwritten
  (`executor.cpp:32`). `executor.h:101` calls `stop()` thread-safe, line 61 calls the
  executor single-threaded. `StopEndsRun` is about a loop that has started.
* On Windows `wait` does not submit a new poll, so a handle fires once per `add`;
  `io/README.md:216` says it re-submits.
* `get` finds the value of a handle that was deallocated and whose slot was not set
  again; `generational.h:69` says "stale indices return nullptr."
* `deallocate` of the stack allocator does nothing; the repository's `README.md:14`
  speaks of "LIFO deallocation support".
* On a big-endian host `htonll` swaps the halves of a u64; `WireIsNetworkOrder` has
  that exception, and `RoundTrip` holds on both kinds of host.
* `result` does not say what becomes of an object whose constructor throws while it
  changes from value to error or back: its flag then names a member that is not there,
  so that not even its destructor may run (`result.h:99`, `191`). `FlagNamesTheMember`
  has that exception, and the model does not use such an object again.

## Not modelled

* `sync_wait` called by a coroutine.
* Copies of a `pool_allocator`, which share a pool or not depending on when they are
  made; the shared ownership of a stop state.
* The ready queue of a moved `Executor`, empty by contract; the defaulted moves of a
  `Timer`; values and exceptions of coroutines.
* Calls outside the contract: two submitters, a timer stopped from its callback, an
  awaiter awaited twice, an arena reset under live pools, a string argument that
  breaks an `assert` or overlaps where it goes.
* What follows once a byte count or an end address has wrapped `size_t`: `pool_allocator`
  and the arenas do not check (`allocator.h:79`), and hand out less than was asked for.
* `clock`, `timestamp`, `guid`, `log` and the wrappers of the standard library: no state
  to interleave, or pure I/O.

## Plan

1. Copies of a `pool_allocator`; the reference count of a stop state, whose last
   reference may be dropped by a callback.
