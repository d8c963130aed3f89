------------------------------ MODULE CoppWrap ------------------------------
(***************************************************************************)
(* The program of CoppWrap/CoppWrap.cpp: the main thread clicks a button,  *)
(* whose handler is a coroutine that hops between two pools and the main   *)
(* thread and awaits two others, starts one more coroutine, and then runs  *)
(* the loop of manualExecutor.  One click stands for the 5000, whose       *)
(* coroutines share nothing, and one thread for each pool.  The thread     *)
(* main_out only posts tasks that do nothing.                              *)
(***************************************************************************)
EXTENDS CoroutineProperties

CONSTANTS
  handler, timeOut, asyncHandle, test1,                   \* the coroutines
  manualExecutor, threadPoolA, threadPoolB, threadPoolC,  \* the executors
  main, threadA, threadB, threadC                         \* the threads

DemoServes == {<<main, manualExecutor>>, <<threadA, threadPoolA>>,
               <<threadB, threadPoolB>>, <<threadC, threadPoolC>>}

\* The body of each coroutine: an executor is a runOn, a coroutine an await.
Script == [c \in Coros |->
  CASE c = handler     -> <<threadPoolA, threadPoolB, timeOut, manualExecutor, asyncHandle>>
    [] c = timeOut     -> <<>>
    [] c = asyncHandle -> <<threadPoolC>>
    [] c = test1       -> <<threadPoolA, manualExecutor>>]

DoneBy(c, d) == \E i \in DOMAIN Script[c] : Script[c][i] = d
DemoHops     == {p \in Coros \X Executors : DoneBy(p[1], p[2])}
DemoAwaits   == {p \in Coros \X Coros : DoneBy(p[1], p[2])}
DemoStarts   == {<<main, handler>>, <<main, test1>>}
Nothing      == {}

\* What the yield that c has just made asks for.
Asked(c) ==
  LET fun == coro[c].yield_after_call
  IN  IF fun.fn = "post" THEN coro[c].executor ELSE fun.co

\* Every body does what its script says, and ends after that.
Follows ==
  \A c \in Coros :
    /\ ops'[c] > ops[c] => /\ ops[c] < Len(Script[c])
                           /\ Asked(c)' = Script[c][ops'[c]]
    /\ coro'[c].finished => coro[c].finished \/ ops[c] = Len(Script[c])

\* The main thread reaches its loop when it has started both coroutines; the
\* first comes first.
MainInOrder ==
  /\ uses'[test1] > uses[test1] => uses[handler] > 0
  /\ (\E k \in Tasks : posted'[manualExecutor][k] < posted[manualExecutor][k])
       => uses[test1] > 0

DemoNext == Next /\ Follows /\ MainInOrder

MainStarts == fault = None /\ \E c \in Coros : StartPlain(main, c) /\ UNCHANGED closed

\* Unlike the clients of other programs, the main thread does make its calls.
DemoSpec ==
  /\ Init /\ [][DemoNext]_vars
  /\ \A t \in Threads : WF_vars(ThreadStep(t) /\ Follows /\ MainInOrder)
  /\ WF_vars(MainStarts /\ MainInOrder)

=============================================================================
