------------------------- MODULE CoroutineProperties -------------------------
(***************************************************************************)
(* What makes the coroutines of Coroutine correct, and the specification   *)
(* that they implement.                                                    *)
(***************************************************************************)
EXTENDS Coroutine

\* No call into the library ends in a failed assertion or an exception that
\* only a misuse of the library could explain (resume, startAndOp, runOn).
NoFault == fault = None

\* resume() always has a context to switch to ("assert( nullptr != fctx_)",
\* third-party/noboost/include/noboost/context/fiber_fcontext.hpp:300).
HandleNotEmpty == fault # "null context"

\* An operation called in a body finds the coroutine it is called in, so the
\* exception "currentCoro is null" (coro_wrap.hpp:246) is for other callers.
CoroutineFound == fault # "no coroutine"

\* Only two resume() that overlap while they take the fiber handle can make the
\* body of a coroutine run twice at a time: a resume() or start() that comes
\* later finds the handle in use or empty (resume, startAndOp).
BodyExclusive ==
  fault # "entered twice" =>
    \A c \in Coros : \A p, q \in FramesOf(c, {"body"}) : p = q

\* The completion callback of d has not been called yet.
Undelivered(d) ==
  ~coro[d].finished \/ FramesOf(d, {"body", "check", "call", "clear", "fin"}) # {}

(***************************************************************************)
(* Everything that will resume c, or is its running body: a frame, the     *)
(* function stored by its last yield, a posted task, a continuation of an  *)
(* async task, or the completion callback of the coroutine it awaits.      *)
(***************************************************************************)
Claims(c) ==
  FramesOf(c, {"jump", "body"})
  \cup (UNION {{e} \X (1..posted[e][[fn |-> "resume", co |-> c]]) : e \in Executors})
  \cup {<<"then", n>> : n \in 1..thens[c]}
  \cup {<<"yield", f>> : f \in {f \in {coro[c].yield_after_call} :
                               /\ f # None
                               /\ ~ghost[c].invoked
                               /\ coro[c].source = "fiber"}}
  \cup {<<"last call", d>> : d \in {d \in Coros : /\ ghost[c].awaiting = d
                                                  /\ ghost[c].invoked
                                                  /\ coro[d].last_call = c
                                                  /\ Undelivered(d)}}

\* A coroutine that has been started and has not returned is resumed by
\* exactly one party, so it is neither lost nor resumed twice (resume, yield,
\* awaitImpl, runOn, await of a task); one that has returned by nobody.  Only
\* one whose due resumption an executor dropped or refused because it was shut
\* down, or whose task failed, is resumed by nobody.
OneContinuation ==
  \A c \in Coros :
    Cardinality(Claims(c)) =
      IF coro[c].source = "null" \/ ghost[c].stranded THEN 0 ELSE 1

\* Following what c awaits leads to a coroutine that was stranded.
Doomed(c) ==
  \A S \in SUBSET Coros :
    /\ c \in S
    /\ \A d \in S : ghost[d].awaiting \in Coros => ghost[d].awaiting \in S
    => \E d \in S : ghost[d].stranded

\* await(d) returns only after d has finished (awaitImpl, finish_callback).
AwaitOrder ==
  \A t \in Threads, c \in Coros :
    At(t, c, "jump") /\ ghost[c].awaiting # None => coro[ghost[c].awaiting].finished

\* After runOn(e), or when posted to e, a body runs on a thread of e; awaiting
\* never moves it elsewhere (the getExecutor() tests in the callbacks).
RunsOnExecutor ==
  \A t \in Threads, c \in Coros :
    At(t, c, "body") /\ coro[c].executor # None => <<t, coro[c].executor>> \in Serves

\* A running body finds itself in thisCoro() (the operations of the library
\* act on the coroutine that calls them).
ThisCoroIsRunning ==
  \A t \in Threads, c \in Coros : At(t, c, "body") => thisCoro[t] = c

\* Who holds a shared pointer to c: the client, c itself (_prolong_life), its
\* fiber, a caller of start(), a task of postCoroTask, or a function to start c.
Owned(c) ==
  \/ held[c] \/ coro[c].prolong_life \/ coro[c].source # "null"
  \/ FramesOf(c, {"owner", "wait"}) # {}
  \/ \E e \in Executors : posted[e][[fn |-> "start", co |-> c]] > 0
  \/ \E p \in Coros : coro[p].yield_after_call = [fn |-> "start", co |-> c]

\* Who holds a raw pointer to c: a frame (its this), a posted task, the
\* continuation of an async task, the completion callback of an unfinished d.
PointedTo(c) ==
  \/ FramesOf(c, Phases \ {"owner", "wait"}) # {}
  \/ \E e \in Executors : posted[e][[fn |-> "resume", co |-> c]] > 0
  \/ thens[c] > 0
  \/ \E d \in Coros : coro[d].last_call = c /\ coro[d].source # "null"

\* The raw pointers never outlive the coroutine (_prolong_life, and the shared
\* pointers in the functions of postCoroTaskImpl and awaitImpl).
PointersAlive == \A c \in Coros : PointedTo(c) => Owned(c)

\* A coroutine that nobody is executing and whose body is gone does not keep
\* itself alive (finish_callback resets _prolong_life), unless telling its
\* awaiter was what ended in the exception of an executor that was shut down.
NoLeak ==
  \A c \in Coros :
    coro[c].source = "null" /\ FramesOf(c, Phases) = {} =>
      \/ ~coro[c].prolong_life
      \/ coro[c].last_call \in Coros /\ ghost[coro[c].last_call].stranded

\* sync_wait returns only when its coroutine has finished.
SyncWaitSound ==
  \A t \in Threads, c \in Coros : At(t, c, "wait") /\ signal[t] => coro[c].finished

\* A function given to yield is called before it is cleared or replaced
\* ("call fun when it resumes to the switch-in point", coro_wrap.hpp:54).
FunCalledOnReturn ==
  [][\A c \in Coros :
       (/\ coro[c].yield_after_call # None
        /\ coro'[c].yield_after_call # coro[c].yield_after_call)
       => ghost[c].invoked]_vars

\* Every coroutine that is started finishes, unless it waits, in the end, for
\* one that a shutdown or a failed task has stranded.  So it does when the
\* exception of a refused post unwinds other tails on its thread.
AllFinish == \A c \in Coros : uses[c] > 0 ~> coro[c].finished \/ Doomed(c)

\* start(), a task and sync_wait return to their caller.
AllReturn == \A t \in Threads : stack[t] # <<>> ~> stack[t] = <<>>

(***************************************************************************)
(* A schedule that the code does not enforce.  The functions that a tail   *)
(* of resume() calls hand its coroutine on, and nothing keeps another      *)
(* thread from resuming it before the tail has ended: the runs demo and    *)
(* demo_twice show what happens then.  In a timely behaviour the next      *)
(* resume() of a coroutine begins after the tails of the last one on other *)
(* threads.                                                                *)
(***************************************************************************)
TailPhases == {"check", "call", "clear", "fin", "release"}

Timely ==
  \A t \in Threads, c \in Coros :
    At(t, c, "jump")' /\ ~At(t, c, "jump") =>
      \A p \in FramesOf(c, TailPhases) : p[1] = t

TimelySpec == Init /\ [][Next /\ Timely]_vars

TimelyFairSpec == TimelySpec /\ \A t \in Threads : WF_vars(ThreadStep(t) /\ Timely)

(***************************************************************************)
(* The coroutines implement AwaitProtocol, as long as each is started once *)
(* (MaxUses = 1).  Between its launch and its first entry a coroutine is   *)
(* suspended: in an executor, or in the function its awaiter yielded with. *)
(***************************************************************************)
AbstractState(c) ==
  IF coro[c].finished THEN "done"
  ELSE IF coro[c].source = "caller" THEN "running"
  ELSE IF uses[c] = 0 THEN "new" ELSE "suspended"

Protocol == INSTANCE AwaitProtocol WITH
  st       <- [c \in Coros |-> AbstractState(c)],
  waitsFor <- [c \in Coros |-> ghost[c].awaiting]

\* A coroutine runs once, and awaiting one returns after it is done.
ImplementsProtocol == Protocol!Spec

=============================================================================
