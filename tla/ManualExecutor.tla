--------------------------- MODULE ManualExecutor ---------------------------
(***************************************************************************)
(* The executor of include/coro/manual_executor.hpp: a queue of tasks that *)
(* client threads fill with post() and drain with the loop functions, a    *)
(* condition variable on which they wait for tasks, and a shutdown.        *)
(*                                                                         *)
(* m_tasks and m_abort are only touched under m_lock, so a critical        *)
(* section is one action.  What happens between two of them is not atomic: *)
(* notify_all() comes after the unlock, m_atomic_abort is set before the   *)
(* lock is taken, and the deadline of a timed call passes at any moment.   *)
(***************************************************************************)
EXTENDS Naturals, Sequences

CONSTANTS
  Threads,
  Items,     \* the tasks; each is posted at most once
  None,
  Counts,    \* the counts that loop and wait are called with
  Loopers,   \* the threads that only do: wait_for_task(); loop_once();
  Drainers,  \* the threads that may call any of the loop and wait functions
  Posters,   \* the threads that may call post
  Closers,   \* the threads that may call shutdown and clear
  Acting     \* the tasks that may throw, or call the executor that runs them

ASSUME ExecutorAssumption ==
  /\ None \notin Items
  /\ Counts \subseteq Nat
  /\ Loopers \subseteq Threads
  /\ Drainers \subseteq Threads \ Loopers
  /\ Posters \subseteq Threads \ Loopers
  /\ Closers \subseteq Threads \ Loopers
  /\ Acting \subseteq Items

VARIABLES
  m_tasks,         \* the deque
  m_abort,         \* set under the lock
  m_atomic_abort,  \* read by shutdown_requested()
  op,              \* the call each thread is in, and its local variables
  used,            \* the tasks that were given to post
  taken,           \* history: the tasks taken by a loop, in order
  lost             \* history: the tasks that were discarded

history == <<used, taken, lost>>
vars == <<m_tasks, m_abort, m_atomic_abort, op, history>>

Functions == {"none", "post", "shutdown", "loop", "loop_until", "wait", "wait_until"}

(***************************************************************************)
(* Where a call is: returned ("idle"), before its critical section         *)
(* ("lock"), before notify_all() ("notify"), at the head of the loop       *)
(* ("loop") or after it ("end"), running a task ("run"), in a shutdown or  *)
(* a post which that task has called ("run lock", "run notify"), about to  *)
(* test the predicate of a wait ("test"), or asleep on the condition       *)
(* variable ("blocked").                                                   *)
(***************************************************************************)
Places == {"idle", "lock", "notify", "loop", "end", "run", "run lock", "run notify",
           "test", "blocked"}

(***************************************************************************)
(* late: the deadline of a timed call has passed.                          *)
(***************************************************************************)
Calls == [fn : Functions, at : Places, count : Nat, executed : Nat,
          task : Items \cup {None}, late : BOOLEAN]

TypeOK ==
  /\ m_tasks \in Seq(Items)
  /\ m_abort \in BOOLEAN
  /\ m_atomic_abort \in BOOLEAN
  /\ op \in [Threads -> Calls]
  /\ used \subseteq Items
  /\ taken \in Seq(Items)
  /\ lost \subseteq Items

Idle == [fn |-> "none", at |-> "idle", count |-> 0, executed |-> 0, task |-> None,
         late |-> FALSE]

Init ==
  /\ m_tasks = <<>>
  /\ m_abort = FALSE
  /\ m_atomic_abort = FALSE
  /\ op = [t \in Threads |-> Idle]
  /\ used = {}
  /\ taken = <<>>
  /\ lost = {}

-----------------------------------------------------------------------------
At(t, fns, at) == op[t].fn \in fns /\ op[t].at = at

\* The call of t goes on at another place.
Goto(t, at) == op' = [op EXCEPT ![t].at = at]

\* A call that has returned; a looper remembers which one it was.
Returned(t) == [Idle EXCEPT !.fn = IF t \in Loopers THEN op[t].fn ELSE "none"]

\* The call of t returns or throws: the locals are gone.
Return(t) == op' = [op EXCEPT ![t] = Returned(t)]
Throw(t) == Return(t)

Begin(t, fn, at, n, x) ==
  op' = [op EXCEPT ![t] = [fn |-> fn, at |-> at, count |-> n, executed |-> 0,
                            task |-> x, late |-> FALSE]]

\* t may call a loop or wait function fn for n tasks: Loopers alternate both.
MayDrain(t, fn, n) ==
  /\ op[t].at = "idle"
  /\ \/ t \in Drainers
     \/ t \in Loopers /\ n = 1 /\ fn = IF op[t].fn = "wait" THEN "loop" ELSE "wait"

\* The task that t runs may call the executor, or throw.
Acts(t) == op[t].at = "run" /\ op[t].task \in Acting

Elements(s) == {s[i] : i \in DOMAIN s}

-----------------------------------------------------------------------------
(* post, and a task that posts to the executor that runs it.               *)

CallPost(t, x) ==
  /\ t \in Posters /\ op[t].at = "idle"
  /\ x \notin used
  /\ used' = used \cup {x}
  /\ Begin(t, "post", "lock", 0, x)
  /\ UNCHANGED <<m_tasks, m_abort, m_atomic_abort, taken, lost>>

\* Mutant: an empty task is stored (use after move).
EnqueuedEmpty(x) == Append(m_tasks, None)

\* Mutant: the new task overtakes the older ones.
EnqueuedFront(x) == <<x>> \o m_tasks

Enqueued(x) == Append(m_tasks, x)

\* Mutant: m_abort is not looked at.
RefusedNever == FALSE

Refused == m_abort

\* The critical section of post: refused after shutdown, else the task is in.
Post(t) ==
  /\ At(t, {"post"}, "lock")
  /\ \/ Refused /\ Throw(t) /\ UNCHANGED m_tasks
     \/ ~Refused /\ m_tasks' = Enqueued(op[t].task) /\ Goto(t, "notify")
  /\ UNCHANGED <<m_abort, m_atomic_abort, history>>

\* The same, called by the task that t runs; the exception ends the loop too.
TaskPosts(t, x) ==
  /\ Acts(t)
  /\ x \notin used
  /\ used' = used \cup {x}
  /\ \/ Refused /\ Throw(t) /\ UNCHANGED m_tasks
     \/ ~Refused /\ m_tasks' = Enqueued(x) /\ Goto(t, "run notify")
  /\ UNCHANGED <<m_abort, m_atomic_abort, taken, lost>>

\* Mutant: no sleeper is woken.
WokenNone(o) == o

\* notify_all: every sleeper will test its predicate again.
Woken(o) == [t \in Threads |-> IF o[t].at = "blocked" THEN [o[t] EXCEPT !.at = "test"]
                                                     ELSE o[t]]

NotifyAll(t) ==
  /\ \/ /\ op[t].at = "notify"
        /\ op' = Woken([op EXCEPT ![t] = Returned(t)])
     \/ /\ op[t].at = "run notify"
        /\ op' = Woken([op EXCEPT ![t].at = "run"])
  /\ UNCHANGED <<m_tasks, m_abort, m_atomic_abort, history>>

-----------------------------------------------------------------------------
(* shutdown and clear, called by a thread or by the task that it runs.     *)

MayClose(t) == Acts(t) \/ (t \in Closers /\ op[t].at = "idle")

\* m_atomic_abort.exchange(true): only the first caller goes on.
CallShutdown(t) ==
  /\ MayClose(t)
  /\ m_atomic_abort' = TRUE
  /\ \/ m_atomic_abort /\ UNCHANGED op
     \/ ~m_atomic_abort /\ op[t].at = "run" /\ Goto(t, "run lock")
     \/ ~m_atomic_abort /\ op[t].at = "idle" /\ Begin(t, "shutdown", "lock", 0, None)
  /\ UNCHANGED <<m_tasks, m_abort, history>>

Shutdown(t) ==
  /\ At(t, {"shutdown"}, "lock") \/ op[t].at = "run lock"
  /\ m_abort' = TRUE
  /\ m_tasks' = <<>>
  /\ lost' = lost \cup Elements(m_tasks)
  /\ Goto(t, IF op[t].at = "lock" THEN "notify" ELSE "run notify")
  /\ UNCHANGED <<m_atomic_abort, used, taken>>

\* clear throws after shutdown, and so ends the loop when a task calls it.
Clear(t) ==
  /\ MayClose(t)
  /\ \/ m_abort /\ Throw(t) /\ UNCHANGED <<m_tasks, lost>>
     \/ /\ ~m_abort
        /\ m_tasks' = <<>>
        /\ lost' = lost \cup Elements(m_tasks)
        /\ UNCHANGED op
  /\ UNCHANGED <<m_abort, m_atomic_abort, used, taken>>

-----------------------------------------------------------------------------
(* loop_impl and loop_until_impl.                                          *)

Looping == {"loop", "loop_until"}
Timed == {"loop_until", "wait_until"}

\* With a count of zero both return at once.
CallLoop(t, fn, n) ==
  /\ fn \in Looping
  /\ n > 0
  /\ MayDrain(t, fn, n)
  /\ Begin(t, fn, "loop", n, None)
  /\ UNCHANGED <<m_tasks, m_abort, m_atomic_abort, history>>

\* The front of the queue is moved out under the lock, to be run without it.
Take(t) ==
  /\ m_tasks # <<>>
  /\ m_tasks' = Tail(m_tasks)
  /\ taken' = Append(taken, Head(m_tasks))
  /\ op' = [op EXCEPT ![t].at = "run", ![t].task = Head(m_tasks)]

LoopTakes(t) ==
  /\ At(t, {"loop"}, "loop")
  /\ op[t].executed < op[t].count
  /\ ~m_abort
  /\ Take(t)
  /\ UNCHANGED <<m_abort, m_atomic_abort, used, lost>>

LoopStops(t) ==
  /\ At(t, {"loop"}, "loop")
  /\ op[t].executed = op[t].count \/ m_abort \/ m_tasks = <<>>
  /\ Goto(t, "end")
  /\ UNCHANGED <<m_tasks, m_abort, m_atomic_abort, history>>

\* loop_until_impl reads the clock, then waits for a task.
UntilWaits(t) ==
  /\ At(t, {"loop_until"}, "loop")
  /\ op[t].executed < op[t].count
  /\ ~op[t].late
  /\ Goto(t, "test")
  /\ UNCHANGED <<m_tasks, m_abort, m_atomic_abort, history>>

UntilStops(t) ==
  /\ At(t, {"loop_until"}, "loop")
  /\ op[t].executed = op[t].count \/ op[t].late
  /\ Goto(t, "end")
  /\ UNCHANGED <<m_tasks, m_abort, m_atomic_abort, history>>

RunEnds(t) ==
  /\ op[t].at = "run"
  /\ op' = [op EXCEPT ![t].at = "loop", ![t].executed = @ + 1, ![t].task = None]
  /\ UNCHANGED <<m_tasks, m_abort, m_atomic_abort, history>>

\* The exception of a task leaves the loop: the count is lost.
RunThrows(t) ==
  /\ Acts(t)
  /\ Throw(t)
  /\ UNCHANGED <<m_tasks, m_abort, m_atomic_abort, history>>

\* After the loop: throws if shutdown was requested, else returns the count.
LoopEnds(t) ==
  /\ At(t, Looping, "end")
  /\ IF m_atomic_abort THEN Throw(t) ELSE Return(t)
  /\ UNCHANGED <<m_tasks, m_abort, m_atomic_abort, history>>

-----------------------------------------------------------------------------
(* Waiting: wait_for_tasks_impl, with and without a deadline, and the wait *)
(* inside loop_until_impl.                                                 *)

Waiting == {"wait", "wait_until"}

\* wait for 0 tasks returns or throws at once, a timed one takes the lock.
CallWait(t, fn, n) ==
  /\ fn \in Waiting
  /\ MayDrain(t, fn, n)
  /\ fn = "wait" => n > 0
  /\ Begin(t, fn, "test", n, None)
  /\ UNCHANGED <<m_tasks, m_abort, m_atomic_abort, history>>

Needed(t) == IF op[t].fn = "loop_until" THEN 1 ELSE op[t].count

\* The predicate that t waits for.
Ready(t) == m_abort \/ Len(m_tasks) >= Needed(t)

\* The predicate is false under the lock: sleep, which releases it.
Block(t) ==
  /\ op[t].at = "test"
  /\ ~Ready(t)
  /\ ~op[t].late
  /\ Goto(t, "blocked")
  /\ UNCHANGED <<m_tasks, m_abort, m_atomic_abort, history>>

\* A sleeper wakes up without being notified, or because of its deadline.
Wakes(t) ==
  /\ op[t].at = "blocked"
  /\ Goto(t, "test")
  /\ UNCHANGED <<m_tasks, m_abort, m_atomic_abort, history>>

\* The wait is over: its predicate holds, or its deadline has passed.
Over(t) == op[t].at = "test" /\ (Ready(t) \/ op[t].late)

\* wait_for_tasks_impl throws after shutdown, else it returns.
WaitReturns(t) ==
  /\ op[t].fn \in Waiting
  /\ Over(t)
  /\ IF m_abort THEN Throw(t) ELSE Return(t)
  /\ UNCHANGED <<m_tasks, m_abort, m_atomic_abort, history>>

\* loop_until_impl leaves its loop on shutdown or when it found no task.
UntilGivesUp(t) ==
  /\ op[t].fn = "loop_until"
  /\ Over(t)
  /\ m_abort \/ ~Ready(t)
  /\ Goto(t, "end")
  /\ UNCHANGED <<m_tasks, m_abort, m_atomic_abort, history>>

\* It found a task: take it.
UntilTakes(t) ==
  /\ op[t].fn = "loop_until"
  /\ Over(t)
  /\ ~m_abort /\ Ready(t)
  /\ Take(t)
  /\ UNCHANGED <<m_abort, m_atomic_abort, used, lost>>

\* The clock reaches the deadline of the call.
DeadlinePasses(t) ==
  /\ op[t].fn \in Timed
  /\ op[t].at # "idle"
  /\ ~op[t].late
  /\ op' = [op EXCEPT ![t].late = TRUE]
  /\ UNCHANGED <<m_tasks, m_abort, m_atomic_abort, history>>

-----------------------------------------------------------------------------
\* One step inside the call that t has made.
Step(t) ==
  \/ Post(t) \/ NotifyAll(t) \/ Shutdown(t)
  \/ LoopTakes(t) \/ LoopStops(t) \/ RunEnds(t) \/ LoopEnds(t)
  \/ UntilWaits(t) \/ UntilStops(t) \/ UntilGivesUp(t) \/ UntilTakes(t)
  \/ Block(t) \/ WaitReturns(t)
  \/ op[t].at = "blocked" /\ op[t].late /\ Wakes(t)

\* t makes a call.
Call(t) ==
  \/ \E x \in Items : CallPost(t, x)
  \/ \E fn \in Functions, n \in Counts : CallLoop(t, fn, n) \/ CallWait(t, fn, n)

Next ==
  \E t \in Threads :
    \/ Step(t) \/ Call(t) \/ Wakes(t) \/ DeadlinePasses(t)
    \/ CallShutdown(t) \/ Clear(t) \/ RunThrows(t)
    \/ \E x \in Items : TaskPosts(t, x)

Spec == Init /\ [][Next]_vars

(***************************************************************************)
(* Threads are scheduled, tasks end, deadlines pass, and a looper goes on  *)
(* waiting and looping; nobody has to post or to shut down.                *)
(***************************************************************************)
FairSpec ==
  /\ Spec
  /\ \A t \in Threads : WF_vars(Step(t)) /\ WF_vars(DeadlinePasses(t))
  /\ \A t \in Loopers : WF_vars(Call(t))

-----------------------------------------------------------------------------
(* What makes the executor correct.                                        *)

\* No wakeup is lost: a thread that sleeps although what it waits for is there
\* is about to be notified, by a post or a shutdown that is not done yet.
NoLostWakeup ==
  \A t \in Threads :
    op[t].at = "blocked" /\ Ready(t) =>
      \E u \in Threads : op[u].at \in {"notify", "run notify"}

\* A loop that stops because of m_abort also sees shutdown_requested(), so it
\* throws; and after the shutdown no task is left that nobody would run.
ShutdownConsistent == m_abort => m_atomic_abort /\ m_tasks = <<>>

\* The executor is a queue: every task posted is taken at most once, in order,
\* and none is accepted after the shutdown (post, loop_impl, clear, shutdown).
Queue == INSTANCE TaskQueue WITH queue <- m_tasks, closed <- m_abort
ImplementsTaskQueue == Queue!Spec

\* shutdown and deadlines release every thread that waits.
WaitsEnd ==
  \A t \in Threads :
    op[t].at = "blocked" /\ (m_abort \/ op[t].late) ~> op[t].at # "blocked"

\* With a looper, a task that was posted does not wait for ever.
TasksLeave == \A x \in Items : x \in Elements(m_tasks) ~> x \notin Elements(m_tasks)

=============================================================================
