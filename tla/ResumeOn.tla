------------------------------ MODULE ResumeOn ------------------------------
(***************************************************************************)
(* Hopping with bare fibers: resume_on of test/test1.cpp, and the          *)
(* MoveWrapper of include/coro/move_wrapper.hpp that lets a fiber handle,  *)
(* which cannot be copied, travel in a std::function, which must be        *)
(* copyable: its copy constructor moves the handle out of the original.    *)
(*                                                                         *)
(* resume_on suspends the fiber and, on the stack of the thread that had   *)
(* resumed it, posts a lambda with the handle.  The lambda becomes the     *)
(* argument of post(), then an element of a queue, then a local of the     *)
(* thread that calls it; each of these is a MoveWrapper of its own, and    *)
(* the destructor of one that still has the handle unwinds the fiber.      *)
(***************************************************************************)
EXTENDS Naturals, Sequences

CONSTANTS
  Fibers,
  Threads,
  Executors,
  Serves,     \* <<t, e>>: thread t runs the tasks of executor e
  Starters,   \* the threads that may post a fiber that was never entered
  Closable,   \* the executors that may be shut down
  MaxHops,    \* bound: calls of resume_on by one fiber
  None

ASSUME ResumeOnAssumption ==
  /\ Serves \subseteq Threads \X Executors
  /\ Starters \subseteq Threads
  /\ Closable \subseteq Executors
  /\ MaxHops \in Nat
  /\ None \notin Fibers \cup Executors

ASSUME NoneAssumption == None # "null context"

VARIABLES
  fiber,   \* what became of each fiber
  handle,  \* the MoveWrappers that have the handle of a suspended fiber
  job,     \* what each thread does, for which fiber and executor
  queue,   \* the tasks of each executor
  closed,  \* the executors that were shut down
  hops,    \* how often each fiber has called resume_on
  fault    \* what terminated the process, or None

vars == <<fiber, handle, job, queue, closed, hops, fault>>

FiberStates == {"new", "suspended", "running", "done", "unwound"}

\* Where a MoveWrapper lives: in a thread's lambda, its std::function given to
\* post or taken from a queue, or in the queue of an executor.
Wrappers == ({"lambda", "argument", "task"} \X Threads) \cup ({"queue"} \X Executors)

(***************************************************************************)
(* A thread is idle, runs the body of a fiber, makes the lambda into a     *)
(* std::function ("convert"), is in post ("append"), returns from it       *)
(* ("leave"), or calls the task it has taken ("call").                     *)
(***************************************************************************)
Jobs == [at : {"idle", "body", "convert", "append", "leave", "call"},
         fiber : Fibers \cup {None}, executor : Executors \cup {None}]

TypeOK ==
  /\ fiber \in [Fibers -> FiberStates]
  /\ handle \in [Fibers -> SUBSET Wrappers]
  /\ job \in [Threads -> Jobs]
  /\ queue \in [Executors -> Seq(Fibers)]
  /\ closed \subseteq Executors
  /\ hops \in [Fibers -> 0..MaxHops]
  /\ fault \in {None, "null context", "uncaught exception"}

Idle == [at |-> "idle", fiber |-> None, executor |-> None]

Init ==
  /\ fiber = [f \in Fibers |-> "new"]
  /\ handle = [f \in Fibers |-> {}]
  /\ job = [t \in Threads |-> Idle]
  /\ queue = [e \in Executors |-> <<>>]
  /\ closed = {}
  /\ hops = [f \in Fibers |-> 0]
  /\ fault = None

-----------------------------------------------------------------------------
(* MoveWrapper.                                                            *)

\* Mutant: copy is copy.
CopyKeeps(f, from, to) == [handle EXCEPT ![f] = @ \cup {to}]

\* "copy is move": the new wrapper has what the old one had.
Copied(f, from, to) ==
  [handle EXCEPT ![f] = IF from \in @ THEN (@ \ {from}) \cup {to} ELSE @]

\* The destructors of wrappers: the fibers whose handles they have unwind.
Destroyed(gone) ==
  /\ handle' = [f \in Fibers |-> handle[f] \ gone[f]]
  /\ fiber' = [f \in Fibers |-> IF handle[f] \cap gone[f] # {} THEN "unwound" ELSE fiber[f]]

Goes(t, at) == job' = [job EXCEPT ![t].at = at]

-----------------------------------------------------------------------------
(* Posting a fiber.                                                        *)

\* The lambda with the handle of f, on thread t, to be posted to e.
Lambda(t, f, e) ==
  /\ fiber' = [fiber EXCEPT ![f] = "suspended"]
  /\ handle' = [handle EXCEPT ![f] = {<<"lambda", t>>}]
  /\ job' = [job EXCEPT ![t] = [at |-> "convert", fiber |-> f, executor |-> e]]

\* A fiber is made and posted.
Start(t, f, e) ==
  /\ t \in Starters
  /\ job[t] = Idle
  /\ fiber[f] = "new"
  /\ Lambda(t, f, e)
  /\ UNCHANGED <<queue, closed, hops, fault>>

\* The body of f calls resume_on(e): back on the stack of its resumer.
CallResumeOn(t, f, e) ==
  /\ job[t].at = "body" /\ job[t].fiber = f
  /\ hops[f] < MaxHops
  /\ hops' = [hops EXCEPT ![f] = @ + 1]
  /\ Lambda(t, f, e)
  /\ UNCHANGED <<queue, closed, fault>>

\* The lambda becomes the std::function that post takes.
Convert(t) ==
  /\ job[t].at = "convert"
  /\ handle' = Copied(job[t].fiber, <<"lambda", t>>, <<"argument", t>>)
  /\ Goes(t, "append")
  /\ UNCHANGED <<fiber, queue, closed, hops, fault>>

\* Mutant: the task does not reach the queue.
QueuedNot(e, f) == queue

Queued(e, f) == [queue EXCEPT ![e] = Append(@, f)]

\* post puts it into the queue of the executor.
PostAppends(t) ==
  /\ job[t].at = "append"
  /\ job[t].executor \notin closed
  /\ queue' = Queued(job[t].executor, job[t].fiber)
  /\ handle' = Copied(job[t].fiber, <<"argument", t>>, <<"queue", job[t].executor>>)
  /\ Goes(t, "leave")
  /\ UNCHANGED <<fiber, closed, hops, fault>>

\* post throws; a thread that has just left a fiber does not catch that.
PostThrows(t) ==
  /\ job[t].at = "append"
  /\ job[t].executor \in closed
  /\ fault' = "uncaught exception"
  /\ UNCHANGED <<fiber, handle, job, queue, closed, hops>>

\* post has returned: its argument and the lambda are destroyed, resume()
\* returns an empty handle, and the task that called it ends.
Leave(t) ==
  /\ job[t].at = "leave"
  /\ Destroyed([f \in Fibers |-> {"lambda", "argument", "task"} \X {t}])
  /\ job' = [job EXCEPT ![t] = Idle]
  /\ UNCHANGED <<queue, closed, hops, fault>>

-----------------------------------------------------------------------------
(* Running a fiber.                                                        *)

TakeTask(t, e) ==
  /\ <<t, e>> \in Serves
  /\ job[t] = Idle
  /\ queue[e] # <<>>
  /\ queue' = [queue EXCEPT ![e] = Tail(@)]
  /\ handle' = Copied(Head(queue[e]), <<"queue", e>>, <<"task", t>>)
  /\ job' = [job EXCEPT ![t] = [at |-> "call", fiber |-> Head(queue[e]), executor |-> e]]
  /\ UNCHANGED <<fiber, closed, hops, fault>>

\* Mutant: the handle stays in the wrapper, as if move() returned a reference
\* that is copied from.
MoveKeeps(t, f) == handle

\* fc.move().resume(): the wrapper is empty after that.
Moved(t, f) == [handle EXCEPT ![f] = @ \ {<<"task", t>>}]

CallTask(t) ==
  LET f == job[t].fiber IN
  /\ job[t].at = "call"
  /\ <<"task", t>> \in handle[f] /\ fiber[f] = "suspended"
  /\ handle' = Moved(t, f)
  /\ fiber' = [fiber EXCEPT ![f] = "running"]
  /\ Goes(t, "body")
  /\ UNCHANGED <<queue, closed, hops, fault>>

\* The wrapper is empty, or its fiber is not one that can be resumed.
CallFails(t) ==
  /\ job[t].at = "call"
  /\ ~(<<"task", t>> \in handle[job[t].fiber] /\ fiber[job[t].fiber] = "suspended")
  /\ fault' = "null context"
  /\ UNCHANGED <<fiber, handle, job, queue, closed, hops>>

\* The body returns the handle of its resumer; the task ends.
Finish(t, f) ==
  /\ job[t].at = "body" /\ job[t].fiber = f
  /\ fiber' = [fiber EXCEPT ![f] = "done"]
  /\ Goes(t, "leave")
  /\ UNCHANGED <<handle, queue, closed, hops, fault>>

\* ManualExecutor::shutdown destroys the tasks: their fibers unwind.
Shutdown(e) ==
  /\ e \in Closable \ closed
  /\ closed' = closed \cup {e}
  /\ queue' = [queue EXCEPT ![e] = <<>>]
  /\ Destroyed([f \in Fibers |-> {<<"queue", e>>}])
  /\ UNCHANGED <<job, hops, fault>>

-----------------------------------------------------------------------------
ThreadStep(t) ==
  /\ fault = None
  /\ \/ Convert(t) \/ PostAppends(t) \/ PostThrows(t) \/ Leave(t) \/ CallTask(t) \/ CallFails(t)
     \/ \E e \in Executors : TakeTask(t, e)
     \/ \E f \in Fibers : Finish(t, f) \/ \E e \in Executors : CallResumeOn(t, f, e)

Next ==
  \/ \E t \in Threads : ThreadStep(t)
  \/ fault = None /\ \E t \in Threads, f \in Fibers, e \in Executors : Start(t, f, e)
  \/ fault = None /\ \E e \in Executors : Shutdown(e)

Spec == Init /\ [][Next]_vars
FairSpec == Spec /\ \A t \in Threads : WF_vars(ThreadStep(t))

-----------------------------------------------------------------------------
\* A suspended fiber has exactly one handle, so it is neither lost nor resumed
\* twice, however often its task is copied; any other fiber has none, so that no
\* destructor unwinds one that runs on another thread (MoveWrapper, resume_on).
OneHandle ==
  \A f \in Fibers : IF fiber[f] = "suspended" THEN \E w \in Wrappers : handle[f] = {w}
                                             ELSE handle[f] = {}

\* The task that a queue hands out has its handle: it is called once, with the
\* last copy (MoveWrapper::move, fiber::resume).
HandleArrives == fault # "null context"

\* Only the shutdown of an executor unwinds a fiber, and only one that is
\* suspended in its queue: no wrapper that a hop leaves behind does, on whatever
\* thread it is destroyed (~MoveWrapper, ManualExecutor::shutdown).
UnwoundByShutdown ==
  [][\A f \in Fibers : fiber[f] # "unwound" /\ fiber'[f] = "unwound" =>
       \E e \in closed' \ closed : \E i \in 1..Len(queue[e]) : queue[e][i] = f]_vars

\* A fiber that was posted ends, if only with its executor.
FibersEnd ==
  \A f \in Fibers :
    fiber[f] = "suspended" ~> (fiber[f] \in {"done", "unwound"} \/ fault # None)

=============================================================================
