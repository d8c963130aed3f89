----------------------------- MODULE ThreadPool -----------------------------
(***************************************************************************)
(* The executor of include/coro/thread_pool.hpp: a Queue for each worker   *)
(* thread, filled by post(), emptied by its worker and, when work stealing *)
(* is enabled, by the others; a counter that wait() waits on; cancel() and *)
(* the destructor.  post() is called by the clients and by running tasks.  *)
(*                                                                         *)
(* A critical section of a Queue is one action.  A try_lock may fail       *)
(* whenever another thread could hold the mutex: here, at any time.        *)
(* Workers block only on their own Queue, so its condition variable has at *)
(* most one sleeper.                                                       *)
(***************************************************************************)
EXTENDS Integers, Sequences, FiniteSets

CONSTANTS
  Clients,           \* the threads that use the pool
  Items,             \* the tasks; each is posted at most once
  None,              \* the empty std::function
  ThreadNum,         \* _threadNum
  EnableWorkSteal,   \* _enableWorkSteal
  InitialTaskNums,   \* what the uninitialized _taskNum may hold at first
  Counted,           \* tasks given to post(Fun&&); the others to post(task)
  Id,                \* the id that each task is posted with, -1 for no worker
  Spawns,            \* <<x, y>>: while x runs it posts y
  Wrapped,           \* size_t(-1) modulo _threadNum
  MayCancel,         \* the clients that may call cancel()
  MayDestroy         \* the clients that may destroy the pool

Workers == 0..(ThreadNum - 1)
Callers == Clients \cup Workers

ASSUME PoolAssumption ==
  /\ None \notin Items
  /\ Clients \cap Workers = {}
  /\ ThreadNum \in Nat \ {0}
  /\ EnableWorkSteal \in BOOLEAN
  /\ InitialTaskNums \subseteq Int
  /\ Counted \subseteq Items
  /\ Id \in [Items -> Workers \cup {-1}]
  /\ \A x \in Items \ Counted : Id[x] = -1
  /\ Spawns \subseteq Items \X Items
  /\ Wrapped \in Workers
  /\ MayCancel \subseteq Clients
  /\ MayDestroy \subseteq Clients

ASSUME NoneAssumption ==
  /\ None \notin Workers
  /\ None \notin {"empty function", "uncaught exception"}

VARIABLES
  queue,       \* the WorkItems of each Queue
  queueStop,   \* its _stop
  stop,        \* the _stop of the pool
  taskNum,     \* _taskNum
  worker,      \* where each worker thread is, and the task it holds
  call,        \* the call each client, or the task of each worker, is in
  used,        \* the tasks that were posted
  ranOn,       \* history: the worker that has run each task, or None
  cancelled,   \* history: the tasks that cancel() dropped
  fault        \* what terminated the process, or None

history == <<used, ranOn, cancelled>>
vars == <<queue, queueStop, stop, taskNum, worker, call, history, fault>>

WorkItem == [canSteal : BOOLEAN, fn : Items \cup {None}]

WorkerPlaces == {"head", "steal", "pop", "blocked", "run", "count", "notify", "exited"}

(***************************************************************************)
(* A call into the pool: posting ("count", "try", "push", "notify"),       *)
(* waiting ("test", "decided", "blocked"), clearing the queues ("cancel"), *)
(* or in the destructor ("stop", "stop notify", "join", "gone").           *)
(***************************************************************************)
CallPlaces == {"idle", "count", "try", "push", "notify", "test", "decided", "blocked",
               "cancel", "stop", "stop notify", "join", "gone"}

Calls == [at : CallPlaces, fn : Items \cup {None}, n : Nat, id : Workers \cup {-1}]
WorkerStates == [at : WorkerPlaces, fn : Items \cup {None}, n : Nat]

TypeOK ==
  /\ queue \in [Workers -> Seq(WorkItem)]
  /\ queueStop \in [Workers -> BOOLEAN]
  /\ stop \in BOOLEAN
  /\ taskNum \in Int
  /\ worker \in [Workers -> WorkerStates]
  /\ call \in [Callers -> Calls]
  /\ used \subseteq Items
  /\ ranOn \in [Items -> Workers \cup {None}]
  /\ cancelled \subseteq Items
  /\ fault \in {None, "empty function", "uncaught exception"}

Idle == [at |-> "idle", fn |-> None, n |-> 0, id |-> -1]

Init ==
  /\ queue = [w \in Workers |-> <<>>]
  /\ queueStop = [w \in Workers |-> FALSE]
  /\ stop = FALSE
  /\ taskNum \in InitialTaskNums
  /\ worker = [w \in Workers |-> [at |-> "head", fn |-> None, n |-> 0]]
  /\ call = [c \in Callers |-> Idle]
  /\ used = {}
  /\ ranOn = [x \in Items |-> None]
  /\ cancelled = {}
  /\ fault = None

-----------------------------------------------------------------------------
\* No client uses a pool that is being destroyed.
Alive == \A c \in Clients : call[c].at \notin {"stop", "stop notify", "join", "gone"}

\* The mutex of wait() and cancel() is held.
Locked == \E c \in Clients : call[c].at \in {"decided", "cancel"}

CallGoes(c, at) == call' = [call EXCEPT ![c].at = at]
WorkerGoes(w, at) == worker' = [worker EXCEPT ![w].at = at]
Returns(c) == call' = [call EXCEPT ![c] = Idle]

\* The tasks in s, without what a failed try has emptied.
Elements(s) == {s[i].fn : i \in DOMAIN s} \ {None}

-----------------------------------------------------------------------------
(* post.                                                                   *)

\* Where a post without or after counting goes on: pinned tasks are not tried.
Destination(id) == IF id = -1 /\ EnableWorkSteal THEN "try" ELSE "push"

\* post(Fun&&, id) counts the task; post(task), the virtual one, does not.
BeginPost(c, x) ==
  /\ x \notin used
  /\ used' = used \cup {x}
  /\ call' = [call EXCEPT ![c] =
       [at |-> IF x \in Counted THEN "count" ELSE Destination(-1),
        fn |-> x, n |-> 0, id |-> Id[x]]]

Spawned == {y \in Items : \E x \in Items : <<x, y>> \in Spawns}

CallPost(c, x) ==
  /\ Alive
  /\ call[c].at = "idle"
  /\ x \notin Spawned
  /\ BeginPost(c, x)
  /\ UNCHANGED <<queue, queueStop, stop, taskNum, worker, ranOn, cancelled, fault>>

\* The task that worker w runs posts y.
TaskPosts(w, y) ==
  /\ worker[w].at = "run" /\ call[w].at = "idle"
  /\ <<worker[w].fn, y>> \in Spawns
  /\ ~(stop /\ y \in Counted)
  /\ BeginPost(w, y)
  /\ UNCHANGED <<queue, queueStop, stop, taskNum, worker, ranOn, cancelled, fault>>

\* Mutant: post(Fun&&) does not count.
SameTaskNum == taskNum

NextTaskNum == taskNum + 1

\* _taskNum++ of post(Fun&&).
Count(c) ==
  /\ call[c].at = "count"
  /\ taskNum' = NextTaskNum
  /\ CallGoes(c, Destination(call[c].id))
  /\ UNCHANGED <<queue, queueStop, stop, worker, history, fault>>

\* Mutant: id + n without the conversion and the modulus.
SlotUnwrapped(n) == n - 1

\* The Queue that try number n goes to: id is -1, converted to size_t.
Slot(n) == IF n = 0 THEN Wrapped ELSE (n - 1) % ThreadNum

\* Mutant: every WorkItem may be stolen.
StealableAll(c) == EnableWorkSteal

\* A task that was posted to a certain worker must stay with it.
Stealable(c) == EnableWorkSteal /\ call[c].id = -1

\* The task of call c goes into Queue q, whose worker is to be notified.
Pushed(c, q) ==
  /\ queue' = [queue EXCEPT ![q] = Append(@, [canSteal |-> Stealable(c), fn |-> call[c].fn])]
  /\ call' = [call EXCEPT ![c] = [Idle EXCEPT !.at = "notify", !.id = q]]

Trying(c) == call[c].at = "try" /\ call[c].n < 2 * ThreadNum

TryPush(c) ==
  /\ Trying(c)
  /\ Pushed(c, Slot(call[c].n))
  /\ UNCHANGED <<queueStop, stop, taskNum, worker, history, fault>>

\* Mutant: post(Fun&&) moves its only copy of the task too.
AfterMoveEmpty(x) == None

(***************************************************************************)
(* The try_lock fails.  The WorkItem made for the try is gone, and with it *)
(* what std::move took: the std::function of post(task), but not the plain *)
(* pointer in the lambda of post(Fun&&).                                   *)
(***************************************************************************)
AfterMove(x) == IF x \in Counted THEN x ELSE None

TryFails(c) ==
  /\ Trying(c)
  /\ call' = [call EXCEPT ![c].n = @ + 1, ![c].fn = AfterMove(@)]
  /\ UNCHANGED <<queue, queueStop, stop, taskNum, worker, history, fault>>

\* The blocking push, to a random Queue or to the one asked for.
Push(c) ==
  /\ call[c].at = "push" \/ (call[c].at = "try" /\ ~Trying(c))
  /\ \E q \in Workers : call[c].id \in {-1, q} /\ Pushed(c, q)
  /\ UNCHANGED <<queueStop, stop, taskNum, worker, history, fault>>

\* Mutant: nobody is woken.
AwakeNone(q) == worker

\* The worker that sleeps on Queue q, if any, will look again.
Awake(q) == [worker EXCEPT ![q].at = IF @ = "blocked" THEN "pop" ELSE @]

\* _cond.notify_one(), after the mutex was released.
NotifyOne(c) ==
  /\ call[c].at = "notify"
  /\ worker' = Awake(call[c].id)
  /\ Returns(c)
  /\ UNCHANGED <<queue, queueStop, stop, taskNum, history, fault>>

-----------------------------------------------------------------------------
(* The loop of a worker thread.                                            *)

\* while (!_stop)
TestStop(w) ==
  /\ worker[w].at = "head"
  /\ worker' = [worker EXCEPT ![w] = [at |-> IF stop THEN "exited"
                                             ELSE IF EnableWorkSteal THEN "steal" ELSE "pop",
                                      fn |-> None, n |-> 0]]
  /\ UNCHANGED <<queue, queueStop, stop, taskNum, call, history, fault>>

\* Mutant: the item stays in the Queue.
PoppedKeeps(q) == queue' = queue

Popped(q) == queue' = [queue EXCEPT ![q] = Tail(@)]

\* try_pop_if on the queues in turn, from the worker's own.
StealTakes(w) ==
  LET q == (w + worker[w].n) % ThreadNum IN
  /\ worker[w].at = "steal"
  /\ worker[w].n < 2 * ThreadNum
  /\ queue[q] # <<>> /\ Head(queue[q]).canSteal
  /\ Popped(q)
  /\ worker' = [worker EXCEPT ![w].fn = Head(queue[q]).fn,
                              ![w].at = IF Head(queue[q]).fn = None THEN "pop" ELSE "run"]
  /\ UNCHANGED <<queueStop, stop, taskNum, call, history, fault>>

\* Nothing to steal there, or the try_lock failed; then on to its own Queue.
StealFails(w) ==
  /\ worker[w].at = "steal"
  /\ IF worker[w].n < 2 * ThreadNum THEN worker' = [worker EXCEPT ![w].n = @ + 1]
                                     ELSE WorkerGoes(w, "pop")
  /\ UNCHANGED <<queue, queueStop, stop, taskNum, call, history, fault>>

\* pop: waits for an item or for the stop of the Queue.
PopTakes(w) ==
  /\ worker[w].at = "pop"
  /\ queue[w] # <<>>
  /\ Popped(w)
  /\ worker' = [worker EXCEPT ![w].at = "run", ![w].fn = Head(queue[w]).fn]
  /\ UNCHANGED <<queueStop, stop, taskNum, call, history, fault>>

\* Nothing there: sleep, or return false when the Queue was stopped.
FoundNothing(w) == IF queueStop[w] THEN "head" ELSE "blocked"

PopWaits(w) ==
  /\ worker[w].at = "pop"
  /\ queue[w] = <<>>
  /\ WorkerGoes(w, FoundNothing(w))
  /\ UNCHANGED <<queue, queueStop, stop, taskNum, call, history, fault>>

\* A sleeper may wake up by itself.
Spurious(w) ==
  /\ worker[w].at = "blocked"
  /\ WorkerGoes(w, "pop")
  /\ UNCHANGED <<queue, queueStop, stop, taskNum, call, history, fault>>

\* The task of w is over: it returned, or its exception went to its future.
Ends(w) ==
  /\ ranOn' = [ranOn EXCEPT ![worker[w].fn] = w]
  /\ worker' = [worker EXCEPT ![w].at = "count", ![w].fn = None]

\* workerItem.fn() returns when the task has made its posts.
Run(w) ==
  /\ worker[w].at = "run" /\ call[w].at = "idle"
  /\ worker[w].fn # None
  /\ \A y \in Items : <<worker[w].fn, y>> \in Spawns => y \in used
  /\ Ends(w)
  /\ UNCHANGED <<queue, queueStop, stop, taskNum, call, used, cancelled, fault>>

\* An empty function throws, which ends the process.
RunEmpty(w) ==
  /\ worker[w].at = "run"
  /\ worker[w].fn = None
  /\ fault' = "empty function"
  /\ UNCHANGED <<queue, queueStop, stop, taskNum, worker, call, history>>

\* post(Fun&&) throws once the pool stops: only a packaged_task catches that.
PostThrows(w) ==
  /\ worker[w].at = "run" /\ call[w].at = "idle"
  /\ stop
  /\ \E y \in Counted \ used : <<worker[w].fn, y>> \in Spawns
  /\ \/ worker[w].fn \in Counted /\ Ends(w) /\ UNCHANGED fault
     \/ /\ worker[w].fn \notin Counted
        /\ fault' = "uncaught exception"
        /\ UNCHANGED <<ranOn, worker>>
  /\ UNCHANGED <<queue, queueStop, stop, taskNum, call, used, cancelled>>

\* _taskNum-- and _cv.notify_all(), both without the mutex of wait().
Uncount(w) ==
  /\ worker[w].at = "count"
  /\ taskNum' = taskNum - 1
  /\ WorkerGoes(w, "notify")
  /\ UNCHANGED <<queue, queueStop, stop, call, history, fault>>

NotifyWaiters(w) ==
  /\ worker[w].at = "notify"
  /\ call' = [c \in Callers |-> IF call[c].at = "blocked"
                                THEN [call[c] EXCEPT !.at = "test"] ELSE call[c]]
  /\ WorkerGoes(w, "head")
  /\ UNCHANGED <<queue, queueStop, stop, taskNum, history, fault>>

-----------------------------------------------------------------------------
(* wait, wait_until, cancel and the destructor.                            *)

CallWait(c) ==
  /\ Alive
  /\ call[c].at = "idle"
  /\ CallGoes(c, "test")
  /\ UNCHANGED <<queue, queueStop, stop, taskNum, worker, history, fault>>

\* Under the mutex: test the predicate, then sleep.  A notification sent in
\* between is missed.
WaitReturns(c) ==
  /\ call[c].at = "test" /\ ~Locked
  /\ taskNum = 0
  /\ Returns(c)
  /\ UNCHANGED <<queue, queueStop, stop, taskNum, worker, history, fault>>

WaitTests(c) ==
  /\ call[c].at = "test" /\ ~Locked
  /\ taskNum # 0
  /\ CallGoes(c, "decided")
  /\ UNCHANGED <<queue, queueStop, stop, taskNum, worker, history, fault>>

WaitSleeps(c) ==
  /\ call[c].at = "decided"
  /\ CallGoes(c, "blocked")
  /\ UNCHANGED <<queue, queueStop, stop, taskNum, worker, history, fault>>

\* A sleeper wakes up by itself, or its wait_until or wait_for times out.
WaitWakes(c) ==
  /\ call[c].at = "blocked"
  /\ CallGoes(c, "test") \/ Returns(c)
  /\ UNCHANGED <<queue, queueStop, stop, taskNum, worker, history, fault>>

\* cancel locks the mutex that wait uses.
CallCancel(c) ==
  /\ Alive /\ ~Locked
  /\ c \in MayCancel
  /\ call[c].at = "idle"
  /\ CallGoes(c, "cancel")
  /\ UNCHANGED <<queue, queueStop, stop, taskNum, worker, history, fault>>

\* clear() of one Queue after the other, the pool's mutex held throughout.
CancelClears(c) ==
  /\ call[c].at = "cancel"
  /\ call[c].n < ThreadNum
  /\ queue' = [queue EXCEPT ![call[c].n] = <<>>]
  /\ cancelled' = cancelled \cup Elements(queue[call[c].n])
  /\ call' = [call EXCEPT ![c].n = @ + 1]
  /\ UNCHANGED <<queueStop, stop, taskNum, worker, used, ranOn, fault>>

CancelReturns(c) ==
  /\ call[c].at = "cancel"
  /\ call[c].n = ThreadNum
  /\ Returns(c)
  /\ UNCHANGED <<queue, queueStop, stop, taskNum, worker, history, fault>>

\* The destructor, which the owner calls when no client is in a call.
CallDestroy(c) ==
  /\ c \in MayDestroy
  /\ \A b \in Clients : call[b].at = "idle"
  /\ stop' = TRUE
  /\ CallGoes(c, "stop")
  /\ UNCHANGED <<queue, queueStop, taskNum, worker, history, fault>>

\* queue.stop() for one Queue: the flag under the mutex, then notify_all.
StopQueue(c) ==
  /\ call[c].at = "stop"
  /\ call[c].n < ThreadNum
  /\ queueStop' = [queueStop EXCEPT ![call[c].n] = TRUE]
  /\ CallGoes(c, "stop notify")
  /\ UNCHANGED <<queue, stop, taskNum, worker, history, fault>>

StopNotifies(c) ==
  /\ call[c].at = "stop notify"
  /\ worker' = Awake(call[c].n)
  /\ call' = [call EXCEPT ![c].at = "stop", ![c].n = @ + 1]
  /\ UNCHANGED <<queue, queueStop, stop, taskNum, history, fault>>

Join(c) ==
  /\ call[c].at = "stop"
  /\ call[c].n = ThreadNum
  /\ \A w \in Workers : worker[w].at = "exited"
  /\ CallGoes(c, "gone")
  /\ UNCHANGED <<queue, queueStop, stop, taskNum, worker, history, fault>>

-----------------------------------------------------------------------------
WorkerStep(w) ==
  /\ fault = None
  /\ \/ TestStop(w) \/ StealTakes(w) \/ StealFails(w) \/ PopTakes(w) \/ PopWaits(w)
     \/ Run(w) \/ RunEmpty(w) \/ PostThrows(w) \/ Uncount(w) \/ NotifyWaiters(w)
     \/ \E y \in Items : TaskPosts(w, y)

\* One step inside the call that c has made.
CallStep(c) ==
  /\ fault = None
  /\ \/ Count(c) \/ TryPush(c) \/ TryFails(c) \/ Push(c) \/ NotifyOne(c)
     \/ WaitReturns(c) \/ WaitTests(c) \/ WaitSleeps(c)
     \/ CancelClears(c) \/ CancelReturns(c)
     \/ StopQueue(c) \/ StopNotifies(c) \/ Join(c)

Call(c) ==
  /\ fault = None
  /\ \/ \E x \in Items : CallPost(c, x)
     \/ CallWait(c) \/ CallCancel(c) \/ CallDestroy(c)

Next ==
  \/ \E w \in Workers : WorkerStep(w) \/ (fault = None /\ Spurious(w))
  \/ \E c \in Callers : CallStep(c)
  \/ \E c \in Clients : Call(c) \/ (fault = None /\ WaitWakes(c))

Spec == Init /\ [][Next]_vars

\* Every thread is scheduled and tasks end; calls are up to the clients.
FairSpec ==
  /\ Spec
  /\ \A w \in Workers : WF_vars(WorkerStep(w))
  /\ \A c \in Callers : WF_vars(CallStep(c))

-----------------------------------------------------------------------------
(* What makes the pool correct.                                            *)

Done == {x \in Items : ranOn[x] # None}
InQueues == UNION {Elements(queue[w]) : w \in Workers}
Posting == {call[c].fn : c \in Callers}
Holding == {worker[w].fn : w \in Workers}

\* Where a task is: with a call that posts it, in a Queue, with a worker, or at
\* its end.
Places(x) ==
  {<<"call", c>> : c \in {c \in Callers : call[c].fn = x}}
  \cup {<<"worker", w>> : w \in {w \in Workers : worker[w].fn = x}}
  \cup {<<"queue", p>> : p \in {p \in UNION {{w} \X DOMAIN queue[w] : w \in Workers} :
                                  queue[p[1]][p[2]].fn = x}}
  \cup {<<"done", y>> : y \in Done \cap {x}}
  \cup {<<"cancelled", y>> : y \in cancelled \cap {x}}

\* A task that was posted is never lost nor run twice, although several workers
\* and the canceller take from the same queues (post, try_pop_if, pop, clear).
ExactlyOnce == \A x \in used : Cardinality(Places(x)) = 1

\* Seen from outside, the pool is a bag of tasks: what the coroutines need of
\* an executor (post, the worker loop, cancel).
Bag == INSTANCE TaskBag WITH
  waiting <- (Posting \ {None}) \cup InQueues,
  taken   <- (Holding \cup Done) \ {None},
  lost    <- cancelled
ImplementsTaskBag == Bag!Spec

\* A task posted with an id runs on that worker and no other, although the
\* others steal from its Queue (canSteal).
PinnedStay == \A x \in Done : Id[x] \in {-1, ranOn[x]}

\* A worker never calls an empty function ("Try to push to a non-block queue
\* firstly", thread_pool.hpp:156: the push that follows is for the same task).
NoEmptyTask == fault # "empty function"

Overslept(w) == worker[w].at = "blocked" /\ (queue[w] # <<>> \/ queueStop[w])
Notifies(c, w) == \/ call[c].at = "notify" /\ call[c].id = w
                  \/ call[c].at = "stop notify" /\ call[c].n = w

\* A worker that sleeps although its Queue has an item or was stopped is about
\* to be notified (Queue::push, try_push and stop notify after the unlock).
NoLostWakeup == \A w \in Workers : Overslept(w) => \E c \in Callers : Notifies(c, w)

\* wait() returns only when every task posted and counted before has run, and
\* what those tasks posted; with no cancel() and an initialized counter that is
\* all of them (_taskNum).
Unfinished == {x \in used : ~\E c \in Callers : call[c].fn = x /\ call[c].at = "count"}
              \ (Done \cup cancelled)
WaitSound == taskNum = 0 => Unfinished = {}

\* A task in a Queue is run, or dropped by cancel(), unless the pool stops.
TasksRun == \A x \in Items : x \in InQueues ~> (x \in Done \cup cancelled \/ stop)

\* The destructor ends: every worker sees the stop, even one that was about to
\* sleep when its Queue was stopped, or whose task was still posting; unless the
\* exception of such a post ends the process first.
DestructorEnds ==
  \A c \in Clients : call[c].at = "stop" ~> (call[c].at = "gone" \/ fault # None)

=============================================================================
