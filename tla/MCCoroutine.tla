---------------------------- MODULE MCCoroutine ----------------------------
(***************************************************************************)
(* Small client programs for Coroutine: named values for its constants, to *)
(* be picked by the configurations.                                        *)
(***************************************************************************)
EXTENDS CoroutineProperties

CONSTANTS c1, c2, c3, t1, t2, t3, e1, e2

Nothing == {}

\* One event loop, t1, serves e1 and e2 and starts everything: c1 awaits c2,
\* which awaits c3, which awaits a task.
LoopServes    == {<<t1, e1>>, <<t1, e2>>}
LoopPosts     == {<<c1, e1>>}
LoopHops      == {<<c1, e2>>, <<c2, e2>>, <<c3, e1>>}
LoopAwaits    == {<<c1, c2>>, <<c2, c3>>}
LoopTasks     == {c3}
LoopStarts    == {<<t1, c3>>}

\* The pool of t1 and t2 serves e1, the main thread t3 serves e2.
HopsServes    == {<<t1, e1>>, <<t2, e1>>, <<t3, e2>>}
HopsPosts     == {<<c1, e1>>}
HopsStarts    == {<<t3, c1>>}
HopsSyncWaits == {<<t3, c2>>}
HopsHops      == {<<c1, e1>>, <<c1, e2>>, <<c2, e1>>}
HopsAwaits    == {<<c1, c2>>}
HopsTasks     == {c2}

\* Any client of two threads that both serve e1.
AnyServes    == {<<t1, e1>>, <<t2, e1>>}
AnyPosts     == {<<c1, e1>>}
AnyStarts    == {<<t1, c1>>}
AnySyncWaits == {<<t2, c2>>}
AnyHops      == {<<c1, e1>>}
AnyAwaits    == {<<c1, c2>>}
AnyCalls     == {<<c1, c2>>}
AnyTasks     == {c1}
AnyDestroys  == {<<t1, c1>>}
AnyResumes   == {<<t2, c2>>}

\* One thread: c1 awaits c2.
OneServes == {<<t1, e1>>}
OneStart  == {<<t1, c1>>}
OnePair   == {<<c1, c2>>}

\* One thread: c1, posted to e1, calls c2, which hops, and then awaits c3.
StartPosts  == {<<c1, e1>>}
StartCalls  == {<<c1, c2>>}
StartHops   == {<<c2, e1>>}
StartAwaits == {<<c1, c3>>}

=============================================================================
