# CoppWrap in TLA+

CoppWrap is a header-only C++ library of stackful coroutines: a coroutine runs
on a fiber, hops between executors with `runOn`, awaits other coroutines or
`async::task`s, and can be waited for from a thread with `sync_wait`. Two
executors come with it, a manually driven queue and a thread pool. This
directory holds TLA+ models of that code, the TLC configurations that check
them, and proofs that TLAPS checks. Paths below are relative to `src/`, and a bare
file name is one of `include/coro/`.

## The system

| Component | Code | State | Operations |
|---|---|---|---|
| Coroutine context | `coro_wrap.hpp` | `_source` (fiber handle), `_yield_after_call`, `_executor`, `_last_call`, `_finished`, `_prolong_life`; the thread-local `thisCoro()` | `start`, `resume`, `yield`, `runOn`, `await`, `setLastCallback`, `destory` |
| Abstract executor | `executor.hpp` | none | `postCoroTask` (posts a `start`) |
| awaitify | `awaitify.hpp` | the `event_task` of a `sync_wait`; continuations held by asyncplusplus | `sync_wait`, `await(async::task)` |
| ManualExecutor | `manual_executor.hpp` | `m_tasks`, `m_abort` under `m_lock`; `m_atomic_abort` | `post`, `loop*`, `wait_for_task*`, `clear`, `shutdown` |
| ThreadPool | `thread_pool.hpp` | one `Queue` per worker (deque, `_stop`, mutex, condition variable); `_stop`, `_taskNum`, `_mutex`, `_cv` | both `post`, the worker loop, `wait`, `wait_until`, `cancel`, destructor |
| Demo | `CoppWrap/CoppWrap.cpp` | four global executors | the main loop, clicks, a posting thread |
| MoveWrapper, resume_on | `move_wrapper.hpp`, `test/test1.cpp` | a fiber handle | copy (which moves), `move`, destruction; hopping without coroutine contexts |
| Helpers | `function_traits.hpp` | none | compile-time types |
| Vendored | `third-party/noboost` | fiber stacks, a memory pool | Boost.Context, Boost.Pool; asyncplusplus is an empty submodule |

**Interaction.** A coroutine that suspends leaves a function in
`_yield_after_call`. `resume()`, on the stack of the thread that resumed it,
calls that function once control is back: it posts the coroutine to an
executor, starts the awaited coroutine, or registers a continuation with an
async task. When a coroutine returns, `finish_callback` calls `_last_call`,
which resumes the awaiter, through its executor if it has one, or sets the event of
a `sync_wait`. Executors call `start` and `resume` from their threads.

**What is hard.** The code after the fiber switch (the *tail* of `resume()`)
works on fields of a coroutine that the function it called may already have
handed to another thread. Nothing in a context except `_finished` is atomic or locked. `post` of an
executor that was shut down throws, in the middle of a tail or of a task.
Awaiters without executor are resumed recursively. `thisCoro()` is not
restored by nested resumes. Lifetimes hang on `_prolong_life` and on raw pointers in
lambdas. The executors notify after unlocking, set flags in two steps, and move
tasks into attempts that may fail. `PROJECT.json` lists each hazard with
its line and the property that watches it.

**What makes each component correct.**
A suspended coroutine is resumed by exactly one party, runs its body in one
place, on a thread of its executor; an await returns after the awaited end;
everything started finishes, except what the shutdown of an executor or the failure
of a task strands; no raw pointer outlives its target.
An executor runs each posted task at most once, in order where it promises
order; no thread sleeps on a condition that holds; shutdown and destruction release everybody.

## Modules

| Module | What it is |
|---|---|
| `AwaitProtocol` | abstract: coroutines are launched, run, suspend, await, end; no threads, executors or callbacks |
| `Coroutine` | the coroutine context, `executor.hpp` and `awaitify.hpp` on any threads and executors |
| `CoroutineProperties` | the properties of `Coroutine`, and its refinement mapping to `AwaitProtocol` |
| `CoppWrap` | the demo: `Coroutine` with the scripts of its four coroutines and the order of its main thread |
| `TaskBag` | abstract: what every executor promises, a task waits until it is taken or discarded, once |
| `TaskQueue` | abstract: a FIFO queue that can be cleared and closed; mapped to `TaskBag` |
| `ManualExecutor` | `manual_executor.hpp`, with its properties and its mapping to `TaskQueue` |
| `ThreadPool` | `thread_pool.hpp`, with its properties and its mapping to `TaskBag` |
| `ResumeOn` | `resume_on` of `test1.cpp` and the `MoveWrapper` of the handle it posts |
| `MCCoroutine`, `MCManualExecutor`, `MCThreadPool`, `MCResumeOn` | instances for TLC |
| `CoroutineProofs`, `BodyProofs`, `ConfinedProofs`, `HomeProofs`, `ManualExecutorProofs`, `TaskQueueProofs`, `ThreadPoolProofs`, `ResumeOnProofs` | theorems and proofs |

The modules compose through `TaskBag`: `Coroutine` assumes of an executor just
that (`posted`, a bag for each executor), and both executors are proved to
implement it, `ManualExecutor` by way of `TaskQueue`.

### Coroutine

`coro[c]` is the record of the fields of a `CoroutineContextBase`. A fiber
handle is abstracted to what it holds: `"null"`, `"fresh"` (a fiber never entered),
`"fiber"` (the suspended body) or `"caller"` (while the body runs, the context
of the resumer). Functions stored in `_yield_after_call` are the three the
library stores; `_last_call` is the awaiter or the `sync_wait` thread.

`stack[t]` is the C++ stack of thread `t`: one frame per activation of
`resume()`, together with the body it switched to, or per caller of `start()`. The phase of a frame is its program point:

| Phase | Code | Action that leaves it |
|---|---|---|
| `jump` | coro_wrap.hpp:44-45 | `Enter`, `EnterTwice`, `EnterFails` |
| `body` | the client's function | `RunOn`, `Await`, `AwaitTask`, `Yield`, `YieldFails`, `Call`, `CallResume`, `Finish` |
| `check` | :46 | `Check` |
| `call` | :48 | `CallPost`, `CallStart`, `CallThen`, `CallFails`, `CallThrows` |
| `clear` | :49 | `Clear` |
| `fin` | :84-91 | `NotFinished`, `LastCallEmpty`, `LastCallAwaiter`, `LastCallEvent`, `LastCallThrows` |
| `release` | :92 | `Release` |
| `owner` | the lambda of postCoroTask, or a client, inside `start()` | `OwnerReturns` |
| `wait` | awaitify.hpp:20 | `SyncWaitReturns` |

An executor is a bag of pending tasks (`posted`); which thread takes which task
when is nondeterministic, so the result does not depend on the order a particular executor keeps.
`thens` are continuations held by async tasks (external code: a continuation runs once,
at any time after `then()`, on a thread of `Completers`; never if the task ends in
an exception, which the coroutines of `Failing` may meet).

The executors of `Closable` may be shut down: their tasks are dropped and `post` throws.
So does a start of a coroutine that runs or is suspended (`Startable`). An exception unwinds the frames of the thread
(`Unwinds`) up to a body or to the thread itself. Threads of `Catchers` catch it,
as asyncplusplus and a guarded main loop do; on other threads it ends the process,
and a body may do either.
`fault` stops the process: a failed assertion of the fiber handle, an exception that nobody catches, or
undefined behaviour. The last is the race of two `resume()` at line 45, which read and empty `_source` without
synchronization: one of them may find it empty (`EnterFails`), or both may switch into the body (`EnterTwice`).

The client program is a parameter: sets of pairs say which thread serves which
executor, who posts, starts, resumes, hops and awaits. `MaxOps` bounds the suspensions of
a body and `MaxUses` the starts of a coroutine. `Bare` are the coroutines that
may await without executor.

Nothing in `Coroutine` restrains the scheduler. `CoroutineProperties` names a restriction that some results are
about: in a *timely* behaviour (`TimelySpec`) the next `resume()` of a coroutine begins after the tails of the last one
on other threads. The code does not enforce it; the runs `demo` and `demo_twice` show
what happens without it, in the repository's own program. Only the run `hops` and the theorems of `ConfinedProofs`
assume it. In the run `loop` nothing assumes it: there, as `HomeProofs` shows, every behaviour is timely, because only
the loop thread resumes.

`ghost` is history for the properties: whether the stored function was called, what the body waits for, and whether its
due resumption was lost with an executor or a task (`stranded`, until the coroutine is resumed after all).

### ManualExecutor

`m_tasks` and `m_abort` are only touched under `m_lock`, so a critical section
is one action. Separate actions: `notify_all` after the unlock, the exchange of
`m_atomic_abort` before the lock, the run of a task, the reading of the clock. `op[t]` is the call
a thread is in with its locals. The wait wrappers, with and without deadline, differ in
`count` and in whether `late` can become true. A task may post from inside the loop (`TaskPosts`).
A task of `Acting` may also throw, clear or shut down the executor; the exception leaves the loop.
`Drainers`, `Posters` and `Closers` are the threads that may make these calls, `Loopers` alternate
`wait_for_task` and `loop_once` as the demo's main thread does. They go on when a task throws, as a loop with a
`try` inside would; the demo's own loop (CoppWrap.cpp:134-138) has none, and would end the process. Sleepers wake spuriously (`Wakes`). `used`, `taken` and `lost` are history.
A count of 0 returns or throws without touching the executor, except for the
timed waits, which are modelled.

### ThreadPool

Each `Queue` operation under its mutex is one action, notification apart.
`try_lock` may fail at any time (`TryFails`, `StealFails`). A worker goes from
the test of `_stop` over stealing and its own `pop` to running the task, the
decrement of `_taskNum` and the notification. A client is in one call of
`post`, `wait`, `cancel` or the destructor; a running task may be in a `post` too
(`Spawns` says which task posts which), which throws once the pool stops. `Id` gives the worker a task is
pinned to, or -1. `Counted` are the
tasks given to `post(Fun&&)`, which counts them and captures a raw pointer; the
others go to `post(task)`, whose `std::function` is emptied by `std::move`. `InitialTaskNums` is what
the uninitialized `_taskNum` may hold; `Wrapped` is `size_t(-1) % _threadNum`.

### CoppWrap and ResumeOn

`CoppWrap` adds no state: `Follows` restricts each body of `Coroutine` to its
script (the hops and awaits of the handler of a click, of the two coroutines it
awaits and of `test1`), and `MainInOrder` lets the main thread enter its loop
only when it has started both coroutines.

In `ResumeOn`, `handle[f]` is the set of `MoveWrapper`s that hold the handle of fiber
`f`; `Copied` is the copy constructor, which moves. A wrapper lives in the lambda of a
thread, in the argument of `post`, in a queue, or in the task taken from it, and its
destruction with a handle unwinds the fiber. `job[t]` is where thread `t` is between the lambda and the
return of `post`, or in the task that resumes the fiber.

## Runs

| Run | Shows |
|---|---|
| `loop` | a chain of three coroutines, one loop thread serving two executors, one of which may be shut down, an async task that completes or fails on another thread: one pending resumption each, no fault, no leak, stored functions are called, pointers stay valid, whatever does not wait for a stranded coroutine finishes |
| `hops` | a pool of two threads and a main thread, in timely behaviours: hops, awaits, tasks and `sync_wait`; one pending resumption each, thread affinity, refinement of `AwaitProtocol`, everything finishes and returns |
| `any` | two threads, everything allowed, misuse, restarts, shutdown, `destory`, plain `resume` and `yield`, and races included: types, and bodies run twice at a time only after a simultaneous read of the handle |
| `manual` | the main loop of the demo, a thread that drains and closes, one that posts, and a task that acts on the executor: refinement of `TaskQueue`, no lost wakeup, consistent shutdown, waits end, tasks leave |
| `pool_plain` | no stealing, both overloads, a counted task and another that post, `cancel`, destructor: refinement of `TaskBag`, no lost wakeup, destructor ends |
| `pool_steal` | stealing, `post(Fun&&)`, a pinned task, one that posts: exactly once, pinned tasks stay, tasks run, `wait()` is sound |
| `resume_on` | two fibers, a main thread and a pool thread, a shutdown: one handle each, a fiber is unwound only with the queue that has it, every fiber ends |

Runs that find a disagreement between the code and its own statements:

| Run | Statement | What the code does |
|---|---|---|
| `demo` | coro_wrap.hpp:54, the function given to `yield` is called | between the first and the second `runOn` of the demo's handler, the tail of the main thread's `resume()` clears the function uncalled; the click is lost |
| `demo_twice` | fiber_fcontext.hpp:300 (vendored), the handle is not empty | `test1` is posted twice by its second `runOn`, once by the pool thread's tail and once by the main thread's, which comes before the first has cleared the function; the second task resumes the finished `test1` |
| `bare_await` | fiber_fcontext.hpp:300 (vendored), the handle is not empty | on one thread: an awaiter without executor is resumed inside its own stored function |
| `direct_start` | coro_wrap.hpp:246, `currentCoro is null` is for callers outside a coroutine | a body that called another coroutine's `start` directly gets it too |
| `pool_moved` | thread_pool.hpp:156, the tries before the push are for the same task | a failed try has emptied it; a worker calls an empty function |

**Bounds.** Two or three coroutines are enough for every pair of roles
(awaiter, awaited, bystander), and three give a chain of awaits. Two threads show every race of two tails, three add a `sync_wait` caller beside a
pool of two. Two suspensions of one body are needed for the second to meet the tail of the first;
the demo's handler needs its five.
`MaxUses = 1` in the runs that check the refinement,
because the protocol has no restart; `any` uses 2, so that finished coroutines restart
and running ones are refused a second start. In the executors, two
or three tasks make order and loss visible, counts of 1 and 2 make waiters
differ, and two workers have somebody to steal from. Each item is posted once, which loses
nothing as tasks are opaque. One click of the demo stands for 5000, and one thread for each pool:
clicks share no state. Two fibers and `MaxHops = 2` let a fiber be posted while another is, and come back to a thread.
One closable executor is enough for a coroutine inside and one outside. The task of `loop` that may fail is that of the last
coroutine of the chain, so that those before it wait for a stranded one, and not for a failed task of their own. `InitialTaskNums = {0, 1}` stands
for the uninitialized counter; 1 is a value it never leaves by itself.
Deadlock checking is off everywhere because every program may simply be done.

**Fairness.** Weak fairness of each thread's own steps: operating system
threads are scheduled and tasks end. For `ManualExecutor` deadlines pass and the demo's
loop keeps calling (guarded, see above: fairness after an exception is that of such a loop); for executors in `Coroutine` and `ResumeOn`, their threads keep taking work. In `hops` the
same holds of timely steps (`TimelyFairSpec`): a resumption may have to wait for a tail, whose steps are all timely and so do come. Calls of
clients are never forced: nobody has to post, start or shut down. Only in `CoppWrap`, a whole program,
the main thread does make its calls.

## Proofs

Constants are only assumed to be what the named assumptions of the modules say
(`ClientAssumption`, `ExecutorAssumption`, `PoolAssumption`, `ResumeOnAssumption`, `NoneAssumption`), and what a theorem states itself.

* `CoroutineProofs`: `TypeCorrect`, for every client program. `TypeOK` is inductive; it is split
  by variable (`Typed`), with one lemma for each way the stacks change.
* `BodyProofs`: `BodiesAreExclusive`: whatever the client does and however its threads race, two frames execute the
  body of one coroutine only after two `resume()` have read its handle together (`EnterTwice`). The
  invariant `BodyInv` adds that while a frame is in the body of `c`, `coro[c].source`
  is `"caller"`: a body frame is made where it was `"fresh"` or `"fiber"`,
  and nothing turns `"caller"` into these except the yield or return of that very frame.
  `SyncWaitAlwaysSound`, for clients in which each thread uses `sync_wait` with one coroutine (`OneSync`; with two, a late
  callback of the first could set the event of the second), and any scheduling: `SyncInv` says that the
  event of a thread is only set for the coroutine it waits for, and `_finished` is never reset.
  For clients whose bodies start no coroutine directly (`Calls = {}`) also
  `ThisCoroIsKept` and `CoroutineAlwaysFound`. The invariant `ThisInv`: the only body on a stack is on top, and
  `thisCoro()` names it. It needs `Calls = {}`, as a nested start puts frames above a body and
  leaves `thisCoro()` empty behind: the run `direct_start`.
* `ConfinedProofs`, for the timely behaviours of confined clients: `NoFault`, `AwaitOrder`, `OneContinuation`, `NoLeak`,
  `RunsOnExecutor` and `ImplementsProtocol`; see below.
* `HomeProofs`, for all behaviours of clients with home threads: `HomesAreTimely`, and with it the above, `PointersAlive` and
  `FunCalledOnReturn`; see below.
* `ManualExecutorProofs`: `TypeCorrect`, `WakeupsArrive`, `ShutdownIsConsistent`,
  and `ExecutorIsAQueue`, that is `Spec => ImplementsTaskQueue`. The invariant
  `ExecutorInv` adds to the three properties that the task of a pending post
  is new and nobody else's (`PostsInv`, `KnownInv`: so no item enters
  the queue twice) and that one thread at most is between the
  exchange of `m_atomic_abort` and the lock of `shutdown`
  (`ClosingInv`). `StepKinds` sorts the steps by what they do to the queue (quiet, enqueue, take, clear,
  request, close); the invariant and the refinement are then proved once for each kind.
* `TaskQueueProofs`: `QueueIsABag`. What waits, was taken and was lost stays disjoint and without
  repetition (only unknown tasks are put in), so that a `Take` of the queue is a `Take` of the bag.
* `ThreadPoolProofs`: `TypeCorrect`; `PinnedRunAtHome`, from `PinInv`: an item that may
  not be stolen is in the queue of its own worker; `WakeupsArrive`, for any clients; and
  under `NoneEmptied` (no stealing, or only `post(Fun&&)`) `NeverEmpty`, as `FullInv` says that no queue or worker holds
  an empty function, and `PoolIsABag`, that is `Spec => ImplementsTaskBag`. For the last, `PlacesInv`
  says what a call or worker with a task may be doing, and `UniqueInv` that a task waits in one place at a time: with
  one call, or at one position of one queue. The steps are sorted into kinds (quiet, post, push, move of a task to a worker, end, clear), and `BagInv` is
  kept by each kind. `NoneEmptied` is needed: a failed try loses the task, see `pool_moved`.
  `PostedOnce` adds to `BagInv` that the places are disjoint and cover `used` (`OnceInv`), so that `Places(x)` is a
  singleton. `WaitIsSound`, for `Counted = Items` and `InitialTaskNums = {0}`: `taskNum` is the number of tasks
  that were counted and have not run (`Pending`, cancelled ones included) plus that of the workers that are about to
  uncount one (`Uncounting`), so it is zero only when nothing is pending. `CountKinds` separates the steps that
  count from those that do not.
* `ResumeOnProofs`: `HandlesAreUnique`, `TasksHaveHandles`, `FibersSurviveHops`. The invariant `HopInv` says where the
  handle of each fiber is: with the thread that builds, posts or calls its task (`JobsInv`), or in the queue that has
  the fiber, once (`QueueInv`), and that one thread at most runs it (`OneBody`). Every action moves one fiber with one
  thread; `OneMoves` shows once that all others keep their part. `FibersSurviveHops` is about steps: a thread that leaves a hop has
  no handle left (`LeaveUnwindsNone`), and what a shutdown unwinds is in the queue that it empties (`QueuedInv`).

### Confined clients

`Confined` describes a kind of program; the theorems of `ConfinedProofs` hold for the timely behaviours of every
such program, with any number of coroutines, threads, executors and suspensions, with failing tasks and with executors
that are shut down. It says: bodies do not call `start` or `resume` themselves, nobody calls `resume`, `yield` or
`destory()` directly, a coroutine is started once; a coroutine awaits another one only after a `runOn`; and if an executor
can be shut down, all threads catch what `post` throws. The clients of the runs `loop` and `hops` are confined.

Timeliness is a condition on the scheduler that a program cannot rely on, so what the theorems say of a program
depends on `HomesAreTimely`: it follows from the code if every coroutine has a *home* thread (`Homely`), the only one that
starts it or runs the tasks of the executors it is posted to or hops to; async tasks may complete on any thread. The
invariant `HomeInv` says that all frames of a coroutine are on its home thread, and that its executor, its awaiter, and
its posted tasks lead back there. A thread begins a `resume()` for a task only when its stack is empty, and
nested ones are of other coroutines or of its own tails, so no tail is left on another thread. The client of `loop` is
homely, and there `HomeSafety`, `HomePointersAlive` and `HomeFunCalled` hold under every scheduling; the demo is confined
and not homely, and violates `FunCalledOnReturn` and `HandleNotEmpty`.
`PointersAlive` and `FunCalledOnReturn` are stated for homely clients only: for others they are what a late tail breaks.

The properties are far from inductive: that nobody resumes `c` twice depends on where its
last `resume()` is, what its function asked for, and what the coroutine it awaits has done.
The invariant `Ready` has these parts:

1. `StackInv`: a coroutine has at most one activation of `resume()` (`OneAct`), and an activation that is not on top of
   its stack is a tail that has just started what its coroutine awaits, above it (`Shape`).
   So each coroutine has one phase, `Phase(c)`. `Carries` describes every change of a stack once, and
   `StackInv` is shown for it.
2. `Own(c)`: what `c` holds in each phase (`Table`), the function it has stored (`Asks`), what is posted for it
   (`Posted`, `Then`), that somebody will resume it unless it is stranded (`Resumed`), and how long it keeps itself
   alive (`Lives`). `Posted` allows a task for a coroutine in its tail, which a timely
   behaviour then keeps from being taken.
3. `Link(c, d)`: `c` awaits `d` exactly as long as the callback of `d` is to resume `c`, and `d`
   is untouched until `c`'s tail starts it.

A step changes one coroutine, or an awaiter and the one it awaits; the lemma `Touch` gives the invariant for all others.
Then, from `Ready`:
`OneContinuation` shows that each part of `Claims` is empty or a singleton, and by `Table`, `Posted`, `Then` and `Link`
just one of them is not empty. `RunsOnExecutor` (`Placed`) uses the lemmas on `Entry`, the steps that begin
a `resume()`: its coroutine is then not finished, not stranded, and on a thread of its executor (`Due`).
In the refinement, `AbsKept` and
`AbsMoves` reduce a step to what happens to the abstract state of one coroutine.

Only model-checked: liveness, which is out of the prover's reach (with `ENABLED`): `AllFinish`, `AllReturn` and
the liveness of the executors and of `ResumeOn`.

In `Claims`, the brackets around `UNION` are there because `tlapm` and SANY group `UNION A \cup B` differently.

## Not modelled

`function_traits.hpp` and the macro `Coro` (compile-time), printing, sleeping and buttons of
the demo, the print-only parts of the tests, the vendored fiber assembly and memory pool
beyond what a handle holds, exceptions thrown by the client's own bodies,
arguments and results of bodies, `std::future` of `post(Fun&&)`, `wait()` called from a task of the pool,
and the thread-local `thisCoro()` being one per translation unit (it is a `static` function in a header).
The alternative stack allocator over Boost.Pool is vendored and only `test2.cpp` allocates from it, on one thread.

## Plan

1. Done: `AwaitProtocol`, `Coroutine` with its properties, the two executors, the first theorems.
2. Done: `ManualExecutorProofs`, `TaskQueueProofs`, `ThreadPoolProofs`, `ResumeOnProofs`; both executors implement `TaskBag`.
3. Done: coroutines on executors that are shut down, tasks that fail; the demo; `MoveWrapper` and `resume_on`.
4. Done: `ConfinedProofs`, the safety of confined clients, and that `Coroutine` implements `AwaitProtocol` for them; `HomeProofs`,
   the clients for which that needs no assumption on the scheduler.
5. Left: weaker conditions (a coroutine started again after its end; a home thread asked only of some coroutines) and the callers of the timed waits of `ManualExecutor` and of `wait_until`.
