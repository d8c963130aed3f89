------------------------------ MODULE Coroutine ------------------------------
(***************************************************************************)
(* The stackful coroutines of include/coro/coro_wrap.hpp, with the ways of *)
(* starting and suspending one that executor.hpp and awaitify.hpp add.     *)
(*                                                                         *)
(* A coroutine object holds a fiber handle (_source), the function its     *)
(* last yield asked to be called at the switch-in point                    *)
(* (_yield_after_call), the executor it hops on (_executor), a completion  *)
(* callback (_last_call), a flag (_finished) and a shared pointer to       *)
(* itself (_prolong_life).  CoroutineContextBase::resume switches to the   *)
(* fiber and, when the fiber yields or returns, runs a tail that calls and *)
(* clears _yield_after_call and then runs finish_callback.  While a tail   *)
(* runs, the function it called may already have handed the coroutine to   *)
(* another thread: the steps of a tail are therefore separate actions.     *)
(*                                                                         *)
(* Each thread has a stack of frames, top first.  A frame is one           *)
(* activation of resume(), and the coroutine body it switched to.          *)
(* An executor is the bag of the tasks posted to it, as TaskBag specifies  *)
(* and ManualExecutor and ThreadPool implement it.  One that was shut down *)
(* has dropped its tasks, and its post() throws.                           *)
(***************************************************************************)
EXTENDS Naturals, Sequences, FiniteSets

CONSTANTS
  Coros,      \* the coroutine objects
  Threads,    \* the threads of the program
  Executors,  \* the executors tasks are posted to
  None        \* the null pointer, the empty std::function

(***************************************************************************)
(* The client program: what it may do with its coroutines, as sets of      *)
(* pairs.                                                                  *)
(***************************************************************************)
CONSTANTS
  Serves,     \* <<t, e>>: thread t runs the tasks of executor e
  Posts,      \* <<c, e>>: the client calls e.postCoroTask(c)
  Starts,     \* <<t, c>>: thread t calls c.start() outside any coroutine
  SyncWaits,  \* <<t, c>>: thread t calls sync_wait(c)
  Hops,       \* <<c, e>>: the body of c calls runOn(e)
  Awaits,     \* <<c, d>>: the body of c calls await(d)
  Calls,      \* <<c, d>>: the body of c calls d.start() or d.resume() directly
  TaskAwaits, \* the coroutines whose body awaits an async::task
  Failing,    \* the coroutines whose async task may end in an exception
  Completers, \* the threads on which async tasks complete
  Bare,       \* the coroutines that may await without having an executor
  Resumes,    \* <<t, c>>: thread t calls c.resume() outside any coroutine
  Yielders,   \* the coroutines whose body calls yield() without a function
  Destroys,   \* <<t, c>>: thread t may call c.destory() while c is suspended
  Closable,   \* the executors that the client may shut down
  Catchers,   \* the threads that catch exceptions: async++ does, workers do not
  MaxOps,     \* bound: suspensions and nested starts of one body
  MaxUses     \* bound: times the client starts one coroutine

ASSUME ClientAssumption ==
  /\ None \notin Coros \cup Threads \cup Executors
  /\ Coros \cap Threads = {}
  /\ Serves \subseteq Threads \X Executors
  /\ Posts \subseteq Coros \X Executors
  /\ Starts \subseteq Threads \X Coros
  /\ SyncWaits \subseteq Threads \X Coros
  /\ Hops \subseteq Coros \X Executors
  /\ Awaits \subseteq Coros \X Coros
  /\ Calls \subseteq Coros \X Coros
  /\ TaskAwaits \subseteq Coros
  /\ Failing \subseteq Coros
  /\ Completers \subseteq Threads
  /\ Bare \subseteq Coros
  /\ Resumes \subseteq Threads \X Coros
  /\ Yielders \subseteq Coros
  /\ Destroys \subseteq Threads \X Coros
  /\ Closable \subseteq Executors
  /\ Completers \subseteq Catchers /\ Catchers \subseteq Threads
  /\ MaxOps \in Nat
  /\ MaxUses \in Nat \ {0}

VARIABLES
  coro,      \* the fields of each CoroutineContextBase
  thisCoro,  \* the thread_local returned by thisCoro()
  stack,     \* the frames of each thread, innermost first
  posted,    \* for each executor, how many times each task is pending
  thens,     \* continuations registered with async::task::then
  signal,    \* the event_task of the sync_wait a thread is in
  closed,    \* the executors that were shut down
  fault,     \* what terminated the process, or None
  uses,      \* how often the client started each coroutine
  ops,       \* how many operations each body has done
  held,      \* the client still holds its shared pointer
  ghost      \* history used only by properties

client == <<uses, ops, held>>
vars   == <<coro, thisCoro, stack, posted, thens, signal, closed, fault, client, ghost>>

(***************************************************************************)
(* What the fiber handle _source holds: nothing; a fiber that has not been *)
(* entered; the suspended coroutine; or, while the body runs, the context  *)
(* of the thread that resumed it.                                          *)
(***************************************************************************)
Sources == {"null", "fresh", "fiber", "caller"}

Callbacks == [fn : {"post", "start", "then"}, co : Coros]
Tasks     == [fn : {"start", "resume"}, co : Coros]

(***************************************************************************)
(* Where a frame is: about to switch ("jump"), in the body, at the steps   *)
(* of the tail of resume() ("check", "call", "clear", "fin", "release"),   *)
(* or a caller of start(): one that owns a shared pointer to the coroutine *)
(* until start() returns ("owner"), or sync_wait blocked on its event      *)
(* ("wait").                                                               *)
(***************************************************************************)
Phases == {"jump", "body", "check", "call", "clear", "fin", "release",
           "owner", "wait"}
Frames == [co : Coros, at : Phases]
Frame(c, phase) == [co |-> c, at |-> phase]

Faults == {"null context", "context in use", "entered twice", "empty function",
           "no coroutine", "uncaught exception"}

ASSUME NoneAssumption == None \notin Faults /\ None \notin Callbacks

CoroutineContextBase ==
  [source           : Sources,
   yield_after_call : Callbacks \cup {None},
   executor         : Executors \cup {None},
   last_call        : Coros \cup Threads \cup {None},
   finished         : BOOLEAN,
   prolong_life     : BOOLEAN]

(***************************************************************************)
(* History: the function of the last yield was called; the coroutine that  *)
(* the body waits for; and whether the start or resumption that is due was *)
(* refused or dropped by a closed executor, or is that of a failed task.   *)
(***************************************************************************)
Ghosts == [invoked : BOOLEAN, awaiting : Coros \cup {None}, stranded : BOOLEAN]

TypeOK ==
  /\ coro \in [Coros -> CoroutineContextBase]
  /\ thisCoro \in [Threads -> Coros \cup {None}]
  /\ stack \in [Threads -> Seq(Frames)]
  /\ posted \in [Executors -> [Tasks -> Nat]]
  /\ thens \in [Coros -> Nat]
  /\ signal \in [Threads -> BOOLEAN]
  /\ closed \subseteq Executors
  /\ fault \in Faults \cup {None}
  /\ uses \in [Coros -> 0..MaxUses]
  /\ ops \in [Coros -> Nat]
  /\ held \in [Coros -> BOOLEAN]
  /\ ghost \in [Coros -> Ghosts]

Init ==
  /\ coro = [c \in Coros |-> [source |-> "null", yield_after_call |-> None,
                              executor |-> None, last_call |-> None,
                              finished |-> FALSE, prolong_life |-> FALSE]]
  /\ thisCoro = [t \in Threads |-> None]
  /\ stack = [t \in Threads |-> <<>>]
  /\ posted = [e \in Executors |-> [k \in Tasks |-> 0]]
  /\ thens = [c \in Coros |-> 0]
  /\ signal = [t \in Threads |-> FALSE]
  /\ closed = {}
  /\ fault = None
  /\ uses = [c \in Coros |-> 0]
  /\ ops = [c \in Coros |-> 0]
  /\ held = [c \in Coros |-> TRUE]
  /\ ghost = [c \in Coros |-> [invoked |-> FALSE, awaiting |-> None,
                               stranded |-> FALSE]]

-----------------------------------------------------------------------------
(* Frames, tasks and the calls every operation is made of.                 *)

At(t, c, phase) == stack[t] # <<>> /\ Head(stack[t]) = Frame(c, phase)

\* The stack of t once its top frame has moved to another phase.
Moved(t, c, phase) == <<Frame(c, phase)>> \o Tail(stack[t])

SetStack(t, s) == stack' = [stack EXCEPT ![t] = s]

\* Mutant: the task is lost.
PostLoses(e, fn, c) == posted' = posted

\* executor.post: one more pending task.
Post(e, fn, c) ==
  posted' = [posted EXCEPT ![e][[fn |-> fn, co |-> c]] = @ + 1]

Fail(what) == fault' = what

\* startAndOp: a coroutine whose handle is not empty refuses to start.
Startable(c) == coro[c].source = "null"

\* The frames of c, as positions in the stacks, that are in the given phases.
FramesOf(c, phases) ==
  {p \in UNION {{t} \X DOMAIN stack[t] : t \in Threads} :
     stack[p[1]][p[2]].co = c /\ stack[p[1]][p[2]].at \in phases}

(***************************************************************************)
(* An exception thrown on thread t unwinds the frames above the innermost  *)
(* body, which are tails; that body, or else the thread, may catch it.     *)
(***************************************************************************)
Unwinds(t) ==
  \E n \in 1..(Len(stack[t]) + 1) :
    LET inBody == n \in DOMAIN stack[t] IN
    /\ inBody => stack[t][n].at = "body"
    /\ \A i \in 1..(n - 1) : stack[t][i].at # "body"
    /\ \/ /\ inBody \/ t \notin Catchers
          /\ Fail("uncaught exception")
          /\ UNCHANGED stack
       \/ /\ inBody \/ t \in Catchers
          /\ SetStack(t, SubSeq(stack[t], n, Len(stack[t])))
          /\ UNCHANGED fault

Strands(c) == ghost' = [ghost EXCEPT ![c].stranded = TRUE]

(***************************************************************************)
(* startAndOp called on thread t with the fields objs; rest is the stack   *)
(* below the call.  It creates the fiber and calls resume(), or throws     *)
(* "Started multiple times".                                               *)
(***************************************************************************)
StartAndOp(t, c, objs, rest) ==
  \/ /\ Startable(c)
     /\ coro' = [objs EXCEPT ![c].source = "fresh"]
     /\ SetStack(t, <<Frame(c, "jump")>> \o rest)
     /\ UNCHANGED fault
  \/ /\ ~Startable(c)
     /\ coro' = objs
     /\ Unwinds(t)

\* Mutant: the executor of the awaiter is ignored.
ResumeInPlace(t, p, rest) ==
  /\ SetStack(t, <<Frame(p, "jump")>> \o rest)
  /\ UNCHANGED posted

\* The executor of c was shut down: posting c to it throws.
Refused(c) == coro[c].executor \in closed

(***************************************************************************)
(* The end of an awaited computation on thread t: resume the awaiter p     *)
(* through its executor, or at once, on this stack, when it has none.      *)
(***************************************************************************)
ResumeAwaiter(t, p, rest) ==
  \/ /\ coro[p].executor # None /\ ~Refused(p)
     /\ Post(coro[p].executor, "resume", p)
     /\ SetStack(t, rest)
  \/ /\ coro[p].executor = None
     /\ SetStack(t, <<Frame(p, "jump")>> \o rest)
     /\ UNCHANGED posted

Used(c) == uses' = [uses EXCEPT ![c] = @ + 1]
Usable(c) == held[c] /\ uses[c] < MaxUses

-----------------------------------------------------------------------------
(* Starting a coroutine from outside the coroutines.                       *)

\* AbstractExecutor::postCoroTask, called by any thread of the client.
PostCoroTask(c, e) ==
  /\ <<c, e>> \in Posts
  /\ Usable(c)
  /\ Used(c)
  /\ coro' = [coro EXCEPT ![c].executor = e]
  /\ IF e \in closed THEN Strands(c) /\ UNCHANGED posted
                      ELSE Post(e, "start", c) /\ UNCHANGED ghost
  /\ UNCHANGED <<thisCoro, stack, thens, signal, fault, ops, held>>

\* start() on a thread that is not inside a coroutine: the wrapper that the
\* client calls it through owns the coroutine.
StartPlain(t, c) ==
  /\ <<t, c>> \in Starts
  /\ stack[t] = <<>>
  /\ Usable(c)
  /\ Used(c)
  /\ StartAndOp(t, c, coro, <<Frame(c, "owner")>>)
  /\ UNCHANGED <<thisCoro, posted, thens, signal, ops, held, ghost>>

\* resume() on a thread that is not inside a coroutine.
ResumePlain(t, c) ==
  /\ <<t, c>> \in Resumes
  /\ stack[t] = <<>>
  /\ held[c]
  /\ SetStack(t, <<Frame(c, "jump"), Frame(c, "owner")>>)
  /\ UNCHANGED <<coro, thisCoro, posted, thens, signal, fault, client, ghost>>

\* sync_wait: the completion callback sets the event the thread waits for.
SyncWait(t, c) ==
  /\ <<t, c>> \in SyncWaits
  /\ stack[t] = <<>>
  /\ Usable(c)
  /\ Used(c)
  /\ signal' = [signal EXCEPT ![t] = FALSE]
  /\ StartAndOp(t, c, [coro EXCEPT ![c].last_call = t],
                <<Frame(c, "wait")>>)
  /\ UNCHANGED <<thisCoro, posted, thens, ops, held, ghost>>

SyncWaitReturns(t, c) ==
  /\ At(t, c, "wait")
  /\ signal[t]
  /\ SetStack(t, Tail(stack[t]))
  /\ UNCHANGED <<coro, thisCoro, posted, thens, signal, fault, client, ghost>>

\* The executor's thread, or the client's call of start(), is done.
OwnerReturns(t, c) ==
  /\ At(t, c, "owner")
  /\ SetStack(t, Tail(stack[t]))
  /\ UNCHANGED <<coro, thisCoro, posted, thens, signal, fault, client, ghost>>

\* A task of c waits in executor e.
Pending(c, e) == \E k \in Tasks : k.co = c /\ posted[e][k] > 0

\* ManualExecutor::shutdown: the tasks of e are dropped, no more are accepted.
Shutdown(e) ==
  /\ e \in Closable \ closed
  /\ closed' = closed \cup {e}
  /\ posted' = [posted EXCEPT ![e] = [k \in Tasks |-> 0]]
  /\ ghost' = [c \in Coros |-> [ghost[c] EXCEPT !.stranded = @ \/ Pending(c, e)]]
  /\ UNCHANGED <<coro, thisCoro, stack, thens, signal, fault, client>>

\* The client lets go of its shared pointer to a coroutine it has started.
DropHandle(c) ==
  /\ held[c]
  /\ uses[c] > 0
  /\ held' = [held EXCEPT ![c] = FALSE]
  /\ UNCHANGED <<coro, thisCoro, stack, posted, thens, signal, fault, uses, ops,
                 ghost>>

-----------------------------------------------------------------------------
(* Executors and async tasks: an idle thread takes up pending work.        *)

\* Mutant: the task stays in the queue.
TakenNotRemoved(e, fn, c) ==
  /\ posted[e][[fn |-> fn, co |-> c]] > 0
  /\ posted' = posted

\* Mutant: nobody looks whether there is a task.
TakenFromEmpty(e, fn, c) ==
  posted' = [posted EXCEPT ![e][[fn |-> fn, co |-> c]] = @ - 1]

Taken(e, fn, c) ==
  /\ posted[e][[fn |-> fn, co |-> c]] > 0
  /\ posted' = [posted EXCEPT ![e][[fn |-> fn, co |-> c]] = @ - 1]

\* A task of postCoroTask: it owns the coroutine while it runs start().
RunStart(t, e, c) ==
  /\ <<t, e>> \in Serves
  /\ stack[t] = <<>>
  /\ Taken(e, "start", c)
  /\ StartAndOp(t, c, coro, <<Frame(c, "owner")>>)
  /\ UNCHANGED <<thisCoro, thens, signal, client, ghost>>

\* A task of runOn or of an awaiter: it calls resume() through a raw pointer.
RunResume(t, e, c) ==
  /\ <<t, e>> \in Serves
  /\ stack[t] = <<>>
  /\ Taken(e, "resume", c)
  /\ SetStack(t, <<Frame(c, "jump")>>)
  /\ UNCHANGED <<coro, thisCoro, thens, signal, fault, client, ghost>>

\* An async task ends on thread t and runs the continuation c registered, but
\* not if it ends in an exception.  The exception, or the one of a refused post,
\* stays in the task that then() returned.
CompleteTask(t, c) ==
  /\ t \in Completers
  /\ stack[t] = <<>>
  /\ thens[c] > 0
  /\ thens' = [thens EXCEPT ![c] = @ - 1]
  /\ \/ ResumeAwaiter(t, c, <<>>) /\ UNCHANGED ghost
     \/ (Refused(c) \/ c \in Failing) /\ Strands(c) /\ UNCHANGED <<posted, stack>>
  /\ UNCHANGED <<coro, thisCoro, signal, fault, client>>

-----------------------------------------------------------------------------
(* CoroutineContextBase::resume.                                           *)

\* Mutant: a running body counts as suspended.
ResumableIfAny(c) == coro[c].source # "null"

Resumable(c) == coro[c].source \in {"fresh", "fiber"}

\* Mutant: the coroutine does not keep itself alive.
EnteredWithoutLife(c) == [coro EXCEPT ![c].source = "caller"]

(***************************************************************************)
(* thisCoro() = this, and the switch into the fiber.  The first entry sets *)
(* _prolong_life; every entry leaves the resumer's context in _source.     *)
(***************************************************************************)
Entered(c) ==
  [coro EXCEPT ![c].source = "caller",
               ![c].prolong_life = @ \/ coro[c].source = "fresh"]

\* Mutant: resume() does not say which coroutine runs.
KeepThisCoro(t, c) == thisCoro' = thisCoro

SetThisCoro(t, c) == thisCoro' = [thisCoro EXCEPT ![t] = c]

\* What the body waited for is over.
WaitOver(c) == ghost' = [ghost EXCEPT ![c].awaiting = None, ![c].stranded = FALSE]

Enter(t, c) ==
  /\ At(t, c, "jump")
  /\ Resumable(c)
  /\ SetThisCoro(t, c)
  /\ coro' = Entered(c)
  /\ SetStack(t, Moved(t, c, "body"))
  /\ WaitOver(c)
  /\ UNCHANGED <<posted, thens, signal, fault, client>>

(***************************************************************************)
(* Reading and emptying _source is not atomic: two threads may both read   *)
(* it and both switch into the body.  Nothing is defined after that.       *)
(***************************************************************************)
EnterTwice(t, u, c) ==
  /\ t # u /\ At(t, c, "jump") /\ At(u, c, "jump")
  /\ Resumable(c)
  /\ thisCoro' = [thisCoro EXCEPT ![t] = c, ![u] = c]
  /\ coro' = Entered(c)
  /\ stack' = [stack EXCEPT ![t] = Moved(t, c, "body"), ![u] = Moved(u, c, "body")]
  /\ WaitOver(c)
  /\ Fail("entered twice")
  /\ UNCHANGED <<posted, thens, signal, client>>

(***************************************************************************)
(* fiber::resume asserts that there is a context to switch to: another     *)
(* thread may have taken it.  While the body runs it is the context of its *)
(* resumer, which is not for others to continue.                           *)
(***************************************************************************)
EnterFails(t, c) ==
  /\ At(t, c, "jump")
  /\ \/ coro[c].source = "caller" /\ Fail("context in use")
     \/ /\ coro[c].source = "null" \/ \E u \in Threads \ {t} : At(u, c, "jump")
        /\ Fail("null context")
  /\ SetThisCoro(t, c)
  /\ UNCHANGED <<coro, stack, posted, thens, signal, client, ghost>>

\* Mutant: the function is cleared without being called.
AfterSwitchNoCall(c) == IF coro[c].yield_after_call # None THEN "clear" ELSE "fin"

\* Back from the fiber: is there a function to call?
AfterSwitch(c) == IF coro[c].yield_after_call # None THEN "call" ELSE "fin"

Check(t, c) ==
  /\ At(t, c, "check")
  /\ SetStack(t, Moved(t, c, AfterSwitch(c)))
  /\ UNCHANGED <<coro, thisCoro, posted, thens, signal, fault, client, ghost>>

Invoked(c) == ghost' = [ghost EXCEPT ![c].invoked = TRUE]

Refuses(c) == ghost' = [ghost EXCEPT ![c].invoked = TRUE, ![c].stranded = TRUE]

\* The function of runOn posts the coroutine to its executor.
CallPost(t, c) ==
  /\ At(t, c, "call")
  /\ coro[c].yield_after_call = [fn |-> "post", co |-> c]
  /\ ~Refused(c)
  /\ Post(coro[c].executor, "resume", c)
  /\ SetStack(t, Moved(t, c, "clear"))
  /\ Invoked(c)
  /\ UNCHANGED <<coro, thisCoro, thens, signal, fault, client>>

\* The executor was shut down: the rest of the tail is skipped, c is stranded.
CallThrows(t, c) ==
  /\ At(t, c, "call")
  /\ coro[c].yield_after_call = [fn |-> "post", co |-> c]
  /\ Refused(c)
  /\ Unwinds(t)
  /\ Refuses(c)
  /\ UNCHANGED <<coro, thisCoro, posted, thens, signal, client>>

\* The function of await(coroutine) starts the awaited coroutine d here.  When
\* that throws, the function stays stored.
CallStart(t, c, d) ==
  /\ At(t, c, "call")
  /\ coro[c].yield_after_call = [fn |-> "start", co |-> d]
  /\ StartAndOp(t, d, coro, Moved(t, c, "clear"))
  /\ Invoked(c)
  /\ UNCHANGED <<thisCoro, posted, thens, signal, client>>

\* The function of await(task) registers a continuation with the task.
CallThen(t, c) ==
  /\ At(t, c, "call")
  /\ coro[c].yield_after_call = [fn |-> "then", co |-> c]
  /\ thens' = [thens EXCEPT ![c] = @ + 1]
  /\ SetStack(t, Moved(t, c, "clear"))
  /\ Invoked(c)
  /\ UNCHANGED <<coro, thisCoro, posted, signal, fault, client>>

\* Another thread emptied the function between the test and the call.
CallFails(t, c) ==
  /\ At(t, c, "call")
  /\ coro[c].yield_after_call = None
  /\ Fail("empty function")
  /\ UNCHANGED <<coro, thisCoro, stack, posted, thens, signal, client, ghost>>

\* Mutant: the function stays stored after the call.
NotCleared(c) == coro

Cleared(c) == [coro EXCEPT ![c].yield_after_call = None]

Clear(t, c) ==
  /\ At(t, c, "clear")
  /\ coro' = Cleared(c)
  /\ SetStack(t, Moved(t, c, "fin"))
  /\ UNCHANGED <<thisCoro, posted, thens, signal, fault, client, ghost>>

-----------------------------------------------------------------------------
(* finish_callback, at the end of every resume() and of destory().         *)

\* Mutant: finish_callback does not test isFinished().
FinishedAlways(c) == TRUE

\* Mutant: _finished is never set.
FinishedNever(c) == FALSE

IsFinished(c) == coro[c].finished

NotFinished(t, c) ==
  /\ At(t, c, "fin")
  /\ ~IsFinished(c)
  /\ SetStack(t, Tail(stack[t]))
  /\ UNCHANGED <<coro, thisCoro, posted, thens, signal, fault, client, ghost>>

\* Nobody asked to be told.
LastCallEmpty(t, c) ==
  /\ At(t, c, "fin")
  /\ IsFinished(c)
  /\ coro[c].last_call = None
  /\ SetStack(t, Moved(t, c, "release"))
  /\ UNCHANGED <<coro, thisCoro, posted, thens, signal, fault, client, ghost>>

\* The callback set by await resumes the awaiting coroutine p.
LastCallAwaiter(t, c, p) ==
  /\ At(t, c, "fin")
  /\ IsFinished(c)
  /\ coro[c].last_call = p
  /\ ResumeAwaiter(t, p, Moved(t, c, "release"))
  /\ UNCHANGED <<coro, thisCoro, thens, signal, fault, client, ghost>>

\* It throws because p's executor was shut down: c is not released.
LastCallThrows(t, c, p) ==
  /\ At(t, c, "fin")
  /\ IsFinished(c)
  /\ coro[c].last_call = p
  /\ Refused(p)
  /\ Unwinds(t)
  /\ Strands(p)
  /\ UNCHANGED <<coro, thisCoro, posted, thens, signal, client>>

\* The callback set by sync_wait sets the event of thread w.
LastCallEvent(t, c, w) ==
  /\ At(t, c, "fin")
  /\ IsFinished(c)
  /\ coro[c].last_call = w
  /\ signal' = [signal EXCEPT ![w] = TRUE]
  /\ SetStack(t, Moved(t, c, "release"))
  /\ UNCHANGED <<coro, thisCoro, posted, thens, fault, client, ghost>>

\* Mutant: _prolong_life is not reset.
NotReleased(c) == coro

Released(c) == [coro EXCEPT ![c].prolong_life = FALSE]

Release(t, c) ==
  /\ At(t, c, "release")
  /\ coro' = Released(c)
  /\ SetStack(t, Tail(stack[t]))
  /\ UNCHANGED <<thisCoro, posted, thens, signal, fault, client, ghost>>

-----------------------------------------------------------------------------
(* What the body of a coroutine may do.  The operations find the coroutine *)
(* through thisCoro(), not through the frame they run in.                  *)

InBody(t, c) == At(t, c, "body") /\ ops[c] < MaxOps

Did(c) == ops' = [ops EXCEPT ![c] = @ + 1]

\* The fields of c after yield(fun): it is suspended and fun is stored.
Yielded(objs, c, fun) ==
  [objs EXCEPT ![c].source = "fiber", ![c].yield_after_call = fun]

(***************************************************************************)
(* yield on thread t, seen from the thread: thisCoro() = nullptr, and back *)
(* to the code after the switch in resume().  d is the coroutine awaited.  *)
(***************************************************************************)
Switch(t, c, d) ==
  /\ thisCoro' = [thisCoro EXCEPT ![t] = None]
  /\ SetStack(t, Moved(t, c, "check"))
  /\ ghost' = [ghost EXCEPT ![c].invoked = FALSE, ![c].awaiting = d]

\* runOn: remember the executor, and be posted to it once suspended.
RunOn(t, c, e) ==
  /\ <<c, e>> \in Hops
  /\ InBody(t, c)
  /\ thisCoro[t] = c
  /\ coro' = Yielded([coro EXCEPT ![c].executor = e], c,
                     [fn |-> "post", co |-> c])
  /\ Switch(t, c, None)
  /\ Did(c)
  /\ UNCHANGED <<posted, thens, signal, fault, uses, held>>

MayAwait(c) == coro[c].executor # None \/ c \in Bare

\* await(coroutine): d will resume c when done, and is started by c's tail.
Await(t, c, d) ==
  /\ <<c, d>> \in Awaits
  /\ InBody(t, c)
  /\ MayAwait(c)
  /\ thisCoro[t] = c
  /\ Usable(d)
  /\ Used(d)
  /\ coro' = Yielded([coro EXCEPT ![d].last_call = c], c,
                     [fn |-> "start", co |-> d])
  /\ Switch(t, c, d)
  /\ Did(c)
  /\ UNCHANGED <<posted, thens, signal, fault, held>>

\* await(async::task): the task will resume c when done.
AwaitTask(t, c) ==
  /\ c \in TaskAwaits
  /\ InBody(t, c)
  /\ MayAwait(c)
  /\ thisCoro[t] = c
  /\ coro' = Yielded(coro, c, [fn |-> "then", co |-> c])
  /\ Switch(t, c, None)
  /\ Did(c)
  /\ UNCHANGED <<posted, thens, signal, fault, uses, held>>

\* yield() without a function: somebody will call resume().
Yield(t, c) ==
  /\ c \in Yielders
  /\ InBody(t, c)
  /\ thisCoro[t] = c
  /\ coro' = Yielded(coro, c, None)
  /\ Switch(t, c, None)
  /\ Did(c)
  /\ UNCHANGED <<posted, thens, signal, fault, uses, held>>

(***************************************************************************)
(* The same operations when thisCoro() is not the coroutine that calls     *)
(* them: runOn dereferences a null pointer, the awaits throw, and a yield  *)
(* through another coroutine has no context to switch to.                  *)
(***************************************************************************)
YieldFails(t, c) ==
  /\ InBody(t, c)
  /\ \/ c \in Yielders \/ \E e \in Executors : <<c, e>> \in Hops
     \/ MayAwait(c) /\ (c \in TaskAwaits \/ \E d \in Coros : <<c, d>> \in Awaits)
  /\ thisCoro[t] # c
  /\ Fail(IF thisCoro[t] = None THEN "no coroutine"
          ELSE IF coro[thisCoro[t]].source = "null" THEN "null context"
          ELSE "context in use")
  /\ UNCHANGED <<coro, thisCoro, stack, posted, thens, signal, client, ghost>>

\* A body may start another coroutine as the function it is: no await.  If that
\* throws, the body goes on or the process ends.
Call(t, c, d) ==
  /\ <<c, d>> \in Calls
  /\ InBody(t, c)
  /\ Usable(d)
  /\ Used(d)
  /\ StartAndOp(t, d, coro, <<Frame(d, "owner")>> \o stack[t])
  /\ Did(c)
  /\ UNCHANGED <<thisCoro, posted, thens, signal, held, ghost>>

\* A body may also resume another coroutine.
CallResume(t, c, d) ==
  /\ <<c, d>> \in Calls
  /\ InBody(t, c)
  /\ held[d]
  /\ SetStack(t, <<Frame(d, "jump"), Frame(d, "owner")>> \o stack[t])
  /\ Did(c)
  /\ UNCHANGED <<coro, thisCoro, posted, thens, signal, fault, uses, held, ghost>>

\* The body returns: the fiber ends, resume() gets an empty handle back.
Finish(t, c) ==
  /\ At(t, c, "body")
  /\ coro' = [coro EXCEPT ![c].finished = TRUE, ![c].source = "null"]
  /\ SetStack(t, Moved(t, c, "check"))
  /\ UNCHANGED <<thisCoro, posted, thens, signal, fault, client, ghost>>

\* destory: a suspended body is unwound without having finished.
Destory(t, c) ==
  /\ <<t, c>> \in Destroys
  /\ stack[t] = <<>>
  /\ held[c]
  /\ coro[c].source = "fiber"
  /\ coro' = [coro EXCEPT ![c].source = "null"]
  /\ SetStack(t, <<Frame(c, "fin"), Frame(c, "owner")>>)
  /\ UNCHANGED <<thisCoro, posted, thens, signal, fault, client, ghost>>

-----------------------------------------------------------------------------
\* One step of the resume() or start() that thread t is in.
Resume(t, c) ==
  \/ Enter(t, c) \/ EnterFails(t, c)
  \/ \E u \in Threads : EnterTwice(t, u, c)
  \/ Check(t, c) \/ CallPost(t, c) \/ CallThen(t, c) \/ CallFails(t, c)
  \/ CallThrows(t, c)
  \/ \E d \in Coros : CallStart(t, c, d)
  \/ Clear(t, c)
  \/ NotFinished(t, c) \/ LastCallEmpty(t, c) \/ Release(t, c)
  \/ \E p \in Coros : LastCallAwaiter(t, c, p) \/ LastCallThrows(t, c, p)
  \/ \E w \in Threads : LastCallEvent(t, c, w)
  \/ OwnerReturns(t, c) \/ SyncWaitReturns(t, c)

Body(t, c) ==
  \/ \E e \in Executors : RunOn(t, c, e)
  \/ \E d \in Coros : Await(t, c, d) \/ Call(t, c, d) \/ CallResume(t, c, d)
  \/ AwaitTask(t, c) \/ Yield(t, c)
  \/ YieldFails(t, c)
  \/ Finish(t, c)

TakeWork(t, c) ==
  \/ \E e \in Executors : RunStart(t, e, c) \/ RunResume(t, e, c)
  \/ CompleteTask(t, c)

ThreadStep(t) ==
  /\ fault = None /\ UNCHANGED closed
  /\ \E c \in Coros : Resume(t, c) \/ Body(t, c) \/ TakeWork(t, c)

\* What the client does of its own accord.
ClientStep ==
  /\ fault = None /\ UNCHANGED closed
  /\ \E c \in Coros :
       \/ \E e \in Executors : PostCoroTask(c, e)
       \/ \E t \in Threads : StartPlain(t, c) \/ ResumePlain(t, c)
                              \/ SyncWait(t, c) \/ Destory(t, c)
       \/ DropHandle(c)

Next ==
  \/ ClientStep
  \/ \E t \in Threads : ThreadStep(t)
  \/ fault = None /\ \E e \in Executors : Shutdown(e)

Spec == Init /\ [][Next]_vars

\* Threads are scheduled and executors keep taking work; nobody has to start.
FairSpec == Spec /\ \A t \in Threads : WF_vars(ThreadStep(t))

=============================================================================
