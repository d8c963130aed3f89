------------------------ MODULE ManualExecutorProofs ------------------------
(***************************************************************************)
(* Proofs about ManualExecutor, for any threads, tasks, counts and roles   *)
(* of the threads: its state is well typed, no wakeup is lost, shutdown is *)
(* consistent, and it is the queue that TaskQueue specifies.               *)
(***************************************************************************)
EXTENDS ManualExecutor, TLAPS

-----------------------------------------------------------------------------
(* The invariant.                                                          *)

\* t has called post, or shutdown, and has not got the lock yet.
Posting(t) == op[t].fn = "post" /\ op[t].at = "lock"
Closing(t) == (op[t].fn = "shutdown" /\ op[t].at = "lock") \/ op[t].at = "run lock"

Locking == {"lock", "run lock"}

Notifying == {"notify", "run notify"}

\* The task of a pending post is a task, and nobody else's.
PostsInv ==
  /\ \A t \in Threads : Posting(t) => op[t].task \in used
  /\ \A t, u \in Threads :
       Posting(t) /\ Posting(u) /\ op[t].task = op[u].task => t = u

\* Every task in the queue, taken or discarded was given to a post that is over.
KnownInv ==
  \A x \in Items :
    Queue!Known(x) => x \in used /\ \A t \in Threads : Posting(t) => op[t].task # x

\* One thread at most is on its way to the critical section of shutdown.
ClosingInv ==
  \A t \in Threads :
    Closing(t) => /\ m_atomic_abort
                  /\ ~m_abort
                  /\ \A u \in Threads : Closing(u) => t = u

ExecutorInv == /\ TypeOK /\ PostsInv /\ KnownInv /\ ClosingInv
               /\ ShutdownConsistent /\ NoLostWakeup

-----------------------------------------------------------------------------
(* The kinds of steps.                                                     *)

\* Only the call of t changes, and t does not begin a post or a shutdown.
Moves(t) ==
  /\ op' \in [Threads -> Calls]
  /\ \A u \in Threads \ {t} : op'[u] = op[u]
  /\ ~Posting(t)' /\ (Closing(t)' => Closing(t))

\* A step that leaves the queue alone.
Quiet(t) ==
  /\ Moves(t)
  /\ op[t].at \in Notifying => op'[t].at \in Notifying
  /\ op'[t].at = "blocked" /\ Ready(t)' => op[t].at = "blocked" /\ Ready(t)
  /\ used \subseteq used' /\ used' \subseteq Items
  /\ UNCHANGED <<m_tasks, m_abort, m_atomic_abort, taken, lost>>

\* A step that puts x into the queue: a pending post, or a task that posts.
Enqueues(t, x) ==
  /\ ~m_abort
  /\ m_tasks' = Append(m_tasks, x)
  /\ Moves(t)
  /\ op'[t].at \in Notifying
  /\ \/ Posting(t) /\ x = op[t].task /\ used' = used
     \/ ~Posting(t) /\ x \notin used /\ used' = used \cup {x}
  /\ UNCHANGED <<m_abort, m_atomic_abort, taken, lost>>

Takes(t) ==
  /\ ~m_abort
  /\ m_tasks # <<>>
  /\ m_tasks' = Tail(m_tasks)
  /\ taken' = Append(taken, Head(m_tasks))
  /\ Moves(t)
  /\ op[t].at \notin Notifying /\ op'[t].at = "run"
  /\ UNCHANGED <<m_abort, m_atomic_abort, used, lost>>

-----------------------------------------------------------------------------
(* How the call of a thread changes.                                       *)

LEMMA GotoMoves ==
  ASSUME TypeOK, NEW t \in Threads, NEW at \in Places \ Locking, Goto(t, at)
  PROVE  /\ Moves(t)
         /\ op'[t].at = at /\ op'[t].fn = op[t].fn /\ op'[t].count = op[t].count
<1>1. [op[t] EXCEPT !.at = at] \in Calls
  BY DEF TypeOK, Calls
<1>2. op' \in [Threads -> Calls] /\ \A u \in Threads \ {t} : op'[u] = op[u]
  BY <1>1 DEF TypeOK, Goto
<1>3. op'[t].at = at /\ op'[t].fn = op[t].fn /\ op'[t].count = op[t].count
  BY DEF TypeOK, Goto, Calls
<1> QED
  BY <1>2, <1>3 DEF Moves, Posting, Closing, Locking

LEMMA ReturnMoves ==
  ASSUME TypeOK, NEW t \in Threads, Return(t)
  PROVE  Moves(t) /\ op'[t].at = "idle"
<1>1. Returned(t) \in Calls /\ Returned(t).at = "idle"
  BY DEF TypeOK, Returned, Idle, Calls, Functions, Places
<1> QED
  BY <1>1 DEF TypeOK, Return, Moves, Posting, Closing

LEMMA BeginMoves ==
  ASSUME TypeOK, NEW t \in Threads, NEW fn \in Functions, NEW at \in Places \ Locking,
         NEW n \in Nat, Begin(t, fn, at, n, None)
  PROVE  Moves(t) /\ op'[t].at = at
<1> DEFINE o == [fn |-> fn, at |-> at, count |-> n, executed |-> 0, task |-> None,
                 late |-> FALSE]
<1>1. o \in Calls /\ o.at = at
  BY DEF Calls
<1> HIDE DEF o
<1>2. op' = [op EXCEPT ![t] = o]
  BY DEF Begin, o
<1> QED
  BY <1>1, <1>2 DEF TypeOK, Moves, Posting, Closing, Locking

LEMMA TakeMoves ==
  ASSUME TypeOK, NEW t \in Threads, Take(t)
  PROVE  Moves(t) /\ op'[t].at = "run"
<1>1. Head(m_tasks) \in Items
  BY DEF TypeOK, Take
<1> DEFINE o == [op[t] EXCEPT !.at = "run", !.task = Head(m_tasks)]
<1>2. o \in Calls /\ o.at = "run"
  BY <1>1 DEF TypeOK, Calls, Places
<1> HIDE DEF o
<1>3. op' = [op EXCEPT ![t] = o]
  BY DEF Take, o
<1> QED
  BY <1>2, <1>3 DEF TypeOK, Moves, Posting, Closing

LEMMA DeadlineMoves ==
  ASSUME TypeOK, NEW t \in Threads, DeadlinePasses(t)
  PROVE  /\ Moves(t)
         /\ op'[t].at = op[t].at /\ op'[t].fn = op[t].fn /\ op'[t].count = op[t].count
<1> DEFINE o == [op[t] EXCEPT !.late = TRUE]
<1>1. o \in Calls /\ o.at = op[t].at /\ o.fn = op[t].fn /\ o.count = op[t].count
  BY DEF TypeOK, Calls
<1> HIDE DEF o
<1>2. op' = [op EXCEPT ![t] = o] /\ op[t].fn \notin {"post", "shutdown"}
  BY DEF DeadlinePasses, Timed, o
<1> QED
  BY <1>1, <1>2 DEF TypeOK, Moves, Posting, Closing

LEMMA RunMoves ==
  ASSUME TypeOK, NEW t \in Threads, RunEnds(t)
  PROVE  Moves(t) /\ op'[t].at = "loop"
<1> DEFINE o == [op[t] EXCEPT !.at = "loop", !.executed = @ + 1, !.task = None]
<1>1. o \in Calls /\ o.at = "loop"
  <2>1. op[t].executed + 1 \in Nat
    BY DEF TypeOK, Calls
  <2> QED
    BY <2>1 DEF TypeOK, Calls, Places
<1> HIDE DEF o
<1>2. op' = [op EXCEPT ![t] = o]
  BY DEF RunEnds, o
<1> QED
  BY <1>1, <1>2 DEF TypeOK, Moves, Posting, Closing

-----------------------------------------------------------------------------
(* Every step is of one of the kinds above, or one of five actions.        *)

LEMMA StepKinds ==
  ASSUME TypeOK, PostsInv, [Next]_vars
  PROVE  \/ \E t \in Threads :
              \/ Quiet(t) \/ Takes(t) \/ NotifyAll(t)
              \/ CallShutdown(t) \/ Shutdown(t) \/ (Clear(t) /\ ~m_abort)
              \/ \E x \in Items : Enqueues(t, x) \/ CallPost(t, x)
         \/ UNCHANGED vars
<1> DEFINE Kind(t) == \/ Quiet(t) \/ Takes(t) \/ NotifyAll(t)
                      \/ CallShutdown(t) \/ Shutdown(t) \/ (Clear(t) /\ ~m_abort)
                      \/ \E x \in Items : Enqueues(t, x) \/ CallPost(t, x)
<1> SUFFICES ASSUME NEW t \in Threads,
                    Step(t) \/ Call(t) \/ Wakes(t) \/ DeadlinePasses(t)
                      \/ CallShutdown(t) \/ Clear(t) \/ RunThrows(t)
                      \/ \E x \in Items : TaskPosts(t, x)
             PROVE  Kind(t)
  BY DEF Next
<1>0. used \in SUBSET Items /\ Notifying \in SUBSET Places
  BY DEF TypeOK, Notifying, Places
<1>1. CASE Post(t)
  <2>1. CASE m_abort
    <3>1. Moves(t) /\ op'[t].at = "idle"
      BY <1>1, <2>1, ReturnMoves DEF Post, Refused, Throw
    <3> QED
      BY <1>0, <1>1, <2>1, <3>1 DEF Post, Refused, At, Quiet, Notifying, history
  <2>2. CASE ~m_abort
    <3>1. Moves(t) /\ op'[t].at = "notify"
      BY <1>1, <2>2, GotoMoves DEF Post, Refused, Places, Locking
    <3>2. Posting(t)
      BY <1>1 DEF Post, At, Posting
    <3>3. op[t].task \in Items
      BY <3>2, <1>0 DEF PostsInv
    <3>4. Enqueues(t, op[t].task)
      BY <1>1, <2>2, <3>1, <3>2 DEF Post, Refused, Enqueues, Enqueued, Notifying, history
    <3> QED
      BY <3>3, <3>4
  <2> QED
    BY <2>1, <2>2
<1>2. ASSUME NEW x \in Items, TaskPosts(t, x) PROVE Kind(t)
  <2>1. CASE m_abort
    <3>1. Moves(t) /\ op'[t].at = "idle"
      BY <1>2, <2>1, ReturnMoves DEF TaskPosts, Refused, Acts, Throw
    <3> QED
      BY <1>0, <1>2, <2>1, <3>1 DEF TaskPosts, Refused, Acts, Quiet, Notifying
  <2>2. CASE ~m_abort
    <3>1. Moves(t) /\ op'[t].at = "run notify"
      BY <1>2, <2>2, GotoMoves DEF TaskPosts, Refused, Acts, Places, Locking
    <3>2. Enqueues(t, x)
      BY <1>2, <2>2, <3>1 DEF TaskPosts, Refused, Acts, Enqueues, Enqueued, Notifying, Posting
    <3> QED
      BY <3>2
  <2> QED
    BY <2>1, <2>2
<1>3. CASE LoopTakes(t) \/ UntilTakes(t)
  <2>1. Take(t) /\ op[t].at \in {"loop", "test"} /\ ~m_abort
    BY <1>3 DEF LoopTakes, UntilTakes, At, Over
  <2>2. Moves(t) /\ op'[t].at = "run"
    BY <2>1, TakeMoves
  <2>3. Takes(t)
    BY <1>3, <2>1, <2>2 DEF LoopTakes, UntilTakes, Take, Takes, Notifying
  <2> QED
    BY <2>3
<1>4. CASE LoopStops(t) \/ UntilStops(t) \/ UntilWaits(t) \/ UntilGivesUp(t) \/ Wakes(t)
  <2>1. op[t].at \in {"loop", "test", "blocked"}
    BY <1>4 DEF LoopStops, UntilStops, UntilWaits, UntilGivesUp, Wakes, At, Over
  <2>2. Goto(t, "end") \/ Goto(t, "test")
    BY <1>4 DEF LoopStops, UntilStops, UntilWaits, UntilGivesUp, Wakes
  <2>3. Moves(t) /\ op'[t].at \in {"end", "test"}
    BY <2>2, GotoMoves DEF Places, Locking
  <2>4. UNCHANGED <<m_tasks, m_abort, m_atomic_abort, history>>
    BY <1>4 DEF LoopStops, UntilStops, UntilWaits, UntilGivesUp, Wakes
  <2> QED
    BY <1>0, <2>1, <2>3, <2>4 DEF Quiet, Notifying, history
<1>5. CASE RunEnds(t)
  <2>1. Moves(t) /\ op'[t].at = "loop"
    BY <1>5, RunMoves
  <2> QED
    BY <1>0, <1>5, <2>1 DEF RunEnds, Quiet, Notifying, history
<1>6. CASE LoopEnds(t) \/ WaitReturns(t) \/ RunThrows(t) \/ (Clear(t) /\ m_abort)
  <2>1. /\ Return(t) /\ op[t].at \in {"idle", "end", "test", "run"}
        /\ UNCHANGED <<m_tasks, m_abort, m_atomic_abort, used, taken, lost>>
    BY <1>6 DEF LoopEnds, WaitReturns, RunThrows, Acts, Clear, MayClose, Throw, At, Over, history
  <2>2. Moves(t) /\ op'[t].at = "idle"
    BY <2>1, ReturnMoves
  <2> QED
    BY <1>0, <2>1, <2>2 DEF Quiet, Notifying
<1>7. CASE Block(t)
  <2>1. /\ Moves(t)
        /\ op'[t].at = "blocked" /\ op'[t].fn = op[t].fn /\ op'[t].count = op[t].count
    BY <1>7, GotoMoves DEF Block, Places, Locking
  <2>2. ~Ready(t)'
    BY <1>7, <2>1 DEF Block, Ready, Needed
  <2> QED
    BY <1>0, <1>7, <2>1, <2>2 DEF Block, Quiet, Notifying, history
<1>8. CASE DeadlinePasses(t)
  <2>1. /\ Moves(t)
        /\ op'[t].at = op[t].at /\ op'[t].fn = op[t].fn /\ op'[t].count = op[t].count
    BY <1>8, DeadlineMoves
  <2>2. UNCHANGED <<m_tasks, m_abort, m_atomic_abort, used, taken, lost>>
    BY <1>8 DEF DeadlinePasses, history
  <2>3. Ready(t)' <=> Ready(t)
    BY <2>1, <2>2 DEF Ready, Needed
  <2> QED
    BY <1>0, <2>1, <2>2, <2>3 DEF Quiet
<1>9. ASSUME NEW fn \in Functions, NEW n \in Counts, CallLoop(t, fn, n) \/ CallWait(t, fn, n)
      PROVE  Kind(t)
  <2>1. /\ op[t].at = "idle"
        /\ Begin(t, fn, "loop", n, None) \/ Begin(t, fn, "test", n, None)
        /\ UNCHANGED <<m_tasks, m_abort, m_atomic_abort, history>>
    BY <1>9 DEF CallLoop, CallWait, MayDrain
  <2>2. Moves(t) /\ op'[t].at \in {"loop", "test"}
    BY <2>1, BeginMoves, ExecutorAssumption DEF Places, Locking
  <2> QED
    BY <1>0, <2>1, <2>2 DEF Quiet, Notifying, history
<1> HIDE DEF Kind
<1>10. CASE NotifyAll(t) \/ CallShutdown(t) \/ Shutdown(t) \/ (Clear(t) /\ ~m_abort)
           \/ \E x \in Items : CallPost(t, x)
  BY <1>10 DEF Kind
<1> QED
  BY <1>1, <1>2, <1>3, <1>4, <1>5, <1>6, <1>7, <1>8, <1>9, <1>10 DEF Step, Call

-----------------------------------------------------------------------------
(* Every kind of step preserves the invariant.                             *)

\* No thread begins a post or a shutdown in a step that only moves t.
LEMMA NoNewCalls ==
  ASSUME NEW t \in Threads, Moves(t), NEW u \in Threads
  PROVE  /\ Posting(u)' => Posting(u) /\ op'[u].task = op[u].task
         /\ Closing(u)' => Closing(u)
  BY DEF Moves, Posting, Closing

\* If t does not stop notifying, does not fall asleep on a true predicate, and
\* no other predicate becomes true, no wakeup is lost.
LEMMA KeepsWaking ==
  ASSUME TypeOK, NoLostWakeup, NEW t \in Threads, Moves(t),
         op[t].at \in Notifying => op'[t].at \in Notifying,
         op'[t].at = "blocked" /\ Ready(t)' => op[t].at = "blocked" /\ Ready(t),
         m_tasks' \in Seq(Items), m_abort' = m_abort, Len(m_tasks') <= Len(m_tasks)
  PROVE  NoLostWakeup'
<1> SUFFICES ASSUME NEW u \in Threads, op'[u].at = "blocked", Ready(u)'
             PROVE  \E v \in Threads : op'[v].at \in Notifying
  BY DEF NoLostWakeup, Notifying
<1>1. op[u].at = "blocked" /\ Ready(u)
  <2>1. CASE u = t
    BY <2>1
  <2>2. CASE u # t
    <3>1. op'[u] = op[u]
      BY <2>2 DEF Moves
    <3>2. Len(m_tasks) \in Nat /\ Len(m_tasks') \in Nat /\ op[u].count \in Nat
      BY DEF TypeOK, Calls
    <3> QED
      BY <3>1, <3>2 DEF Ready, Needed
  <2> QED
    BY <2>1, <2>2
<1>2. PICK v \in Threads : op[v].at \in Notifying
  BY <1>1 DEF NoLostWakeup, Notifying
<1>3. op'[v].at \in Notifying
  BY <1>2 DEF Moves
<1> QED
  BY <1>3

LEMMA QuietInv ==
  ASSUME ExecutorInv, NEW t \in Threads, Quiet(t)
  PROVE  ExecutorInv'
<1> USE DEF ExecutorInv
<1>1. TypeOK'
  BY DEF TypeOK, Quiet, Moves
<1>2. PostsInv'
  BY NoNewCalls DEF PostsInv, Quiet
<1>3. KnownInv'
  BY NoNewCalls DEF KnownInv, Quiet, Queue!Known, Queue!InSeq
<1>4. ClosingInv' /\ ShutdownConsistent'
  BY NoNewCalls DEF ClosingInv, ShutdownConsistent, Quiet
<1>5. NoLostWakeup'
  <2>1. m_tasks' = m_tasks /\ m_abort' = m_abort /\ Len(m_tasks') <= Len(m_tasks)
    BY DEF TypeOK, Quiet
  <2> QED
    BY <1>1, <2>1, KeepsWaking DEF Quiet, TypeOK
<1> QED
  BY <1>1, <1>2, <1>3, <1>4, <1>5

LEMMA EnqueueInv ==
  ASSUME ExecutorInv, NEW t \in Threads, NEW x \in Items, Enqueues(t, x)
  PROVE  ExecutorInv'
<1> USE DEF ExecutorInv
<1>1. TypeOK'
  BY DEF TypeOK, Enqueues, Moves
<1>2. PostsInv'
  BY NoNewCalls DEF PostsInv, Enqueues
<1>3. KnownInv'
  <2> SUFFICES ASSUME NEW y \in Items, Queue!Known(y)'
               PROVE  y \in used' /\ \A u \in Threads : Posting(u)' => op'[u].task # y
    BY DEF KnownInv
  <2>1. Queue!Known(y) \/ y = x
    BY DEF TypeOK, Enqueues, Queue!Known, Queue!InSeq
  <2>2. CASE y = x
    <3>1. x \in used'
      BY DEF PostsInv, Enqueues
    <3>2. ASSUME NEW u \in Threads, Posting(u)', op'[u].task = x PROVE FALSE
      <4>1. Posting(u) /\ op[u].task = x /\ u # t
        BY <3>2, NoNewCalls DEF Enqueues, Moves
      <4> QED
        BY <4>1 DEF PostsInv, Enqueues
    <3> QED
      BY <2>2, <3>1, <3>2
  <2>3. CASE Queue!Known(y)
    BY <2>3, NoNewCalls DEF KnownInv, Enqueues
  <2> QED
    BY <2>1, <2>2, <2>3
<1>4. ClosingInv' /\ ShutdownConsistent'
  BY NoNewCalls DEF ClosingInv, ShutdownConsistent, Enqueues
<1>5. NoLostWakeup'
  BY DEF NoLostWakeup, Enqueues, Notifying
<1> QED
  BY <1>1, <1>2, <1>3, <1>4, <1>5

LEMMA TakeInv ==
  ASSUME ExecutorInv, NEW t \in Threads, Takes(t)
  PROVE  ExecutorInv'
<1> USE DEF ExecutorInv
<1>0. /\ m_tasks \in Seq(Items) /\ Tail(m_tasks) \in Seq(Items) /\ Head(m_tasks) \in Items
      /\ Len(m_tasks) \in Nat /\ Len(Tail(m_tasks)) = Len(m_tasks) - 1
  BY DEF TypeOK, Takes
<1>1. TypeOK'
  BY <1>0 DEF TypeOK, Takes, Moves
<1>2. PostsInv'
  BY NoNewCalls DEF PostsInv, Takes
<1>3. KnownInv'
  <2>1. ASSUME NEW y \in Items, Queue!Known(y)' PROVE Queue!Known(y)
    <3>1. Queue!InSeq(y, Tail(m_tasks)) => Queue!InSeq(y, m_tasks)
      BY <1>0 DEF Queue!InSeq, Takes
    <3>2. Queue!InSeq(y, taken') => Queue!InSeq(y, taken) \/ y = Head(m_tasks)
      BY <1>0 DEF TypeOK, Queue!InSeq, Takes
    <3>3. Queue!InSeq(Head(m_tasks), m_tasks)
      BY <1>0 DEF Queue!InSeq, Takes
    <3> QED
      BY <2>1, <3>1, <3>2, <3>3 DEF Queue!Known, Takes
  <2> QED
    BY <2>1, NoNewCalls DEF KnownInv, Takes
<1>4. ClosingInv' /\ ShutdownConsistent'
  BY NoNewCalls DEF ClosingInv, ShutdownConsistent, Takes
<1>5. NoLostWakeup'
  BY <1>0, KeepsWaking DEF Takes
<1> QED
  BY <1>1, <1>2, <1>3, <1>4, <1>5

LEMMA NotifyInv ==
  ASSUME ExecutorInv, NEW t \in Threads, NotifyAll(t)
  PROVE  ExecutorInv'
<1> USE DEF ExecutorInv
<1> DEFINE o == IF op[t].at = "notify" THEN Returned(t) ELSE [op[t] EXCEPT !.at = "run"]
<1> USE DEF Locking
<1>1. o \in Calls /\ o.at \in {"idle", "run"}
  <2>1. Returned(t) \in Calls /\ Returned(t).at = "idle"
    BY DEF TypeOK, Returned, Idle, Calls, Functions, Places
  <2>2. [op[t] EXCEPT !.at = "run"] \in Calls /\ [op[t] EXCEPT !.at = "run"].at = "run"
    BY DEF TypeOK, Calls, Places
  <2> QED
    BY <2>1, <2>2
<1>2. op' = Woken([op EXCEPT ![t] = o])
  BY DEF NotifyAll
<1> HIDE DEF o
<1>3. UNCHANGED <<m_tasks, m_abort, m_atomic_abort, used, taken, lost>>
  BY DEF NotifyAll, history
<1>4. ASSUME NEW u \in Threads
      PROVE  /\ op'[u] \in Calls
             /\ op'[u].at # "blocked"
             /\ op'[u].at \in Locking => op'[u] = op[u]
  <2> DEFINE p == [op EXCEPT ![t] = o]
  <2>1. p \in [Threads -> Calls]
    BY <1>1 DEF TypeOK
  <2>2. CASE p[u].at = "blocked"
    <3>1. [p[u] EXCEPT !.at = "test"] \in Calls /\ [p[u] EXCEPT !.at = "test"].at = "test"
      BY <2>1 DEF Calls, Places
    <3>2. op'[u] = [p[u] EXCEPT !.at = "test"]
      BY <1>2, <2>2 DEF Woken
    <3> QED
      BY <3>1, <3>2
  <2>3. CASE p[u].at # "blocked"
    <3>1. op'[u] = p[u]
      BY <1>2, <2>3 DEF Woken
    <3> QED
      BY <1>1, <2>1, <2>3, <3>1 DEF TypeOK
  <2> QED
    BY <2>2, <2>3
<1>5. TypeOK'
  <2>1. op' \in [Threads -> Calls]
    BY <1>2, <1>4 DEF Woken
  <2> QED
    BY <1>3, <2>1 DEF TypeOK
<1>6. ASSUME NEW u \in Threads
      PROVE  /\ Posting(u)' => Posting(u) /\ op'[u].task = op[u].task
             /\ Closing(u)' => Closing(u)
  BY <1>4 DEF Posting, Closing
<1>7. PostsInv'
  BY <1>3, <1>6 DEF PostsInv
<1>8. KnownInv'
  BY <1>3, <1>6 DEF KnownInv, Queue!Known, Queue!InSeq
<1>9. ClosingInv' /\ ShutdownConsistent'
  BY <1>3, <1>6 DEF ClosingInv, ShutdownConsistent
<1>10. NoLostWakeup'
  BY <1>4 DEF NoLostWakeup
<1> QED
  BY <1>5, <1>7, <1>8, <1>9, <1>10

LEMMA CallPostInv ==
  ASSUME ExecutorInv, NEW t \in Threads, NEW x \in Items, CallPost(t, x)
  PROVE  ExecutorInv'
<1> USE DEF ExecutorInv
<1> DEFINE o == [fn |-> "post", at |-> "lock", count |-> 0, executed |-> 0, task |-> x,
                 late |-> FALSE]
<1>1. o \in Calls /\ o.fn = "post" /\ o.at = "lock" /\ o.task = x
  <2>1. 0 \in Nat
    OBVIOUS
  <2> QED
    BY <2>1 DEF Calls, Functions, Places
<1>2. op' = [op EXCEPT ![t] = o] /\ op[t].at = "idle" /\ x \notin used /\ used' = used \cup {x}
  BY DEF CallPost, Begin
<1> HIDE DEF o
<1>3. UNCHANGED <<m_tasks, m_abort, m_atomic_abort, taken, lost>>
  BY DEF CallPost
<1>4. op' \in [Threads -> Calls] /\ op'[t] = o /\ \A u \in Threads \ {t} : op'[u] = op[u]
  BY <1>1, <1>2 DEF TypeOK
<1>5. TypeOK'
  BY <1>2, <1>3, <1>4 DEF TypeOK
<1>6. ASSUME NEW u \in Threads
      PROVE  /\ Posting(u)' => (u = t /\ op'[u].task = x)
                               \/ (Posting(u) /\ op'[u].task = op[u].task /\ op[u].task # x)
             /\ Closing(u)' => Closing(u)
  BY <1>1, <1>2, <1>4 DEF Posting, Closing, PostsInv
<1>7. PostsInv'
  BY <1>2, <1>6 DEF PostsInv
<1>8. KnownInv'
  BY <1>2, <1>3, <1>6 DEF KnownInv, Queue!Known, Queue!InSeq
<1>9. ClosingInv' /\ ShutdownConsistent'
  BY <1>3, <1>6 DEF ClosingInv, ShutdownConsistent
<1>10. NoLostWakeup'
  <2> SUFFICES ASSUME NEW u \in Threads, op'[u].at = "blocked", Ready(u)'
               PROVE  \E v \in Threads : op'[v].at \in Notifying
    BY DEF NoLostWakeup, Notifying
  <2>1. op[u].at = "blocked" /\ Ready(u)
    BY <1>1, <1>3, <1>4 DEF Ready, Needed
  <2>2. PICK v \in Threads : op[v].at \in Notifying
    BY <2>1 DEF NoLostWakeup, Notifying
  <2> QED
    BY <1>2, <1>4, <2>2 DEF Notifying
<1> QED
  BY <1>5, <1>7, <1>8, <1>9, <1>10

LEMMA CallShutdownInv ==
  ASSUME ExecutorInv, NEW t \in Threads, CallShutdown(t)
  PROVE  ExecutorInv'
<1> USE DEF ExecutorInv
<1>0. UNCHANGED <<m_tasks, m_abort, used, taken, lost>> /\ m_atomic_abort' = TRUE
  BY DEF CallShutdown, history
<1>1. CASE m_atomic_abort /\ UNCHANGED op
  <2>1. m_atomic_abort' = m_atomic_abort
    BY <1>0, <1>1 DEF TypeOK
  <2>2. TypeOK' /\ PostsInv' /\ ClosingInv'
    BY <1>0, <1>1, <2>1 DEF TypeOK, PostsInv, ClosingInv, Posting, Closing
  <2>3. KnownInv' /\ ShutdownConsistent'
    BY <1>0, <1>1, <2>1
       DEF KnownInv, ShutdownConsistent, Posting, Queue!Known, Queue!InSeq
  <2>4. NoLostWakeup'
    BY <1>0, <1>1 DEF NoLostWakeup, Ready, Needed
  <2> QED
    BY <2>2, <2>3, <2>4
<1>2. CASE ~m_atomic_abort /\ op[t].at = "idle" /\ Begin(t, "shutdown", "lock", 0, None)
  <2> DEFINE o == [fn |-> "shutdown", at |-> "lock", count |-> 0, executed |-> 0,
                   task |-> None, late |-> FALSE]
  <2>1. o \in Calls /\ o.fn = "shutdown" /\ o.at = "lock"
    <3>1. 0 \in Nat
      OBVIOUS
    <3> QED
      BY <3>1 DEF Calls, Functions, Places
  <2>2. op' = [op EXCEPT ![t] = o] /\ op[t].at = "idle"
    BY <1>2 DEF Begin
  <2> HIDE DEF o
  <2>3. op' \in [Threads -> Calls] /\ op'[t] = o /\ \A u \in Threads \ {t} : op'[u] = op[u]
    BY <2>1, <2>2 DEF TypeOK
  <2>4. TypeOK'
    BY <1>0, <2>3 DEF TypeOK
  <2>5. ASSUME NEW u \in Threads
        PROVE  /\ Posting(u)' => Posting(u) /\ op'[u].task = op[u].task
               /\ Closing(u)' => u = t
    BY <1>2, <2>1, <2>3 DEF Posting, Closing, ClosingInv
  <2>6. PostsInv'
    BY <1>0, <2>5 DEF PostsInv
  <2>7. KnownInv'
    BY <1>0, <2>5 DEF KnownInv, Queue!Known, Queue!InSeq
  <2>8. ClosingInv' /\ ShutdownConsistent'
    BY <1>0, <1>2, <2>5 DEF ClosingInv, ShutdownConsistent
  <2>9. NoLostWakeup'
    <3> SUFFICES ASSUME NEW u \in Threads, op'[u].at = "blocked", Ready(u)'
                 PROVE  \E v \in Threads : op'[v].at \in Notifying
      BY DEF NoLostWakeup, Notifying
    <3>1. op[u].at = "blocked" /\ Ready(u)
      BY <1>0, <2>1, <2>3 DEF Ready, Needed
    <3>2. PICK v \in Threads : op[v].at \in Notifying
      BY <3>1 DEF NoLostWakeup, Notifying
    <3> QED
      BY <2>2, <2>3, <3>2 DEF Notifying
  <2> QED
    BY <2>4, <2>6, <2>7, <2>8, <2>9
<1>3. CASE ~m_atomic_abort /\ op[t].at = "run" /\ Goto(t, "run lock")
  <2> DEFINE o == [op[t] EXCEPT !.at = "run lock"]
  <2>1. o \in Calls /\ o.at = "run lock"
    BY DEF TypeOK, Calls, Places
  <2>2. op' = [op EXCEPT ![t] = o]
    BY <1>3 DEF Goto
  <2> HIDE DEF o
  <2>3. op' \in [Threads -> Calls] /\ op'[t] = o /\ \A u \in Threads \ {t} : op'[u] = op[u]
    BY <2>1, <2>2 DEF TypeOK
  <2>4. TypeOK'
    BY <1>0, <2>3 DEF TypeOK
  <2>5. ASSUME NEW u \in Threads
        PROVE  /\ Posting(u)' => Posting(u) /\ op'[u].task = op[u].task
               /\ Closing(u)' => u = t
    BY <1>3, <2>1, <2>3 DEF Posting, Closing, ClosingInv
  <2>6. PostsInv'
    BY <1>0, <2>5 DEF PostsInv
  <2>7. KnownInv'
    BY <1>0, <2>5 DEF KnownInv, Queue!Known, Queue!InSeq
  <2>8. ClosingInv' /\ ShutdownConsistent'
    BY <1>0, <1>3, <2>5 DEF ClosingInv, ShutdownConsistent
  <2>9. NoLostWakeup'
    <3> SUFFICES ASSUME NEW u \in Threads, op'[u].at = "blocked", Ready(u)'
                 PROVE  \E v \in Threads : op'[v].at \in Notifying
      BY DEF NoLostWakeup, Notifying
    <3>1. op[u].at = "blocked" /\ Ready(u)
      BY <1>0, <2>1, <2>3 DEF Ready, Needed
    <3>2. PICK v \in Threads : op[v].at \in Notifying
      BY <3>1 DEF NoLostWakeup, Notifying
    <3> QED
      BY <1>3, <2>3, <3>2 DEF Notifying
  <2> QED
    BY <2>4, <2>6, <2>7, <2>8, <2>9
<1> QED
  BY <1>1, <1>2, <1>3 DEF CallShutdown

\* Discarding the queue makes no task known that was not.
LEMMA DiscardKnown ==
  ASSUME TypeOK, m_tasks' = <<>>, lost' = lost \cup Elements(m_tasks), taken' = taken,
         NEW x, Queue!Known(x)'
  PROVE  Queue!Known(x)
  BY DEF Queue!Known, Queue!InSeq, Elements

LEMMA ShutdownInv ==
  ASSUME ExecutorInv, NEW t \in Threads, Shutdown(t)
  PROVE  ExecutorInv'
<1> USE DEF ExecutorInv
<1>1. Moves(t) /\ op'[t].at \in Notifying /\ Closing(t)
  BY GotoMoves DEF Shutdown, Places, Locking, Notifying, At, Closing
<1>2. /\ m_tasks' = <<>> /\ m_abort' = TRUE /\ m_atomic_abort' = m_atomic_abort
      /\ lost' = lost \cup Elements(m_tasks) /\ used' = used /\ taken' = taken
  BY DEF Shutdown
<1>3. TypeOK'
  <2>1. Elements(m_tasks) \subseteq Items
    BY DEF TypeOK, Elements
  <2> QED
    BY <1>1, <1>2, <2>1 DEF TypeOK, Moves
<1>4. PostsInv'
  BY <1>1, <1>2, NoNewCalls DEF PostsInv
<1>5. KnownInv'
  BY <1>1, <1>2, NoNewCalls, DiscardKnown DEF KnownInv
<1>6. ClosingInv'
  BY <1>1, NoNewCalls DEF ClosingInv, Closing, Notifying
<1>7. ShutdownConsistent'
  BY <1>1, <1>2 DEF ClosingInv, ShutdownConsistent
<1>8. NoLostWakeup'
  BY <1>1 DEF NoLostWakeup, Notifying
<1> QED
  BY <1>3, <1>4, <1>5, <1>6, <1>7, <1>8

LEMMA ClearInv ==
  ASSUME ExecutorInv, NEW t \in Threads, Clear(t), ~m_abort
  PROVE  ExecutorInv'
<1> USE DEF ExecutorInv
<1>1. /\ m_tasks' = <<>> /\ ~m_abort /\ lost' = lost \cup Elements(m_tasks)
      /\ UNCHANGED <<m_abort, m_atomic_abort, op, used, taken>>
  BY DEF Clear
<1>2. TypeOK'
  <2>1. Elements(m_tasks) \subseteq Items
    BY DEF TypeOK, Elements
  <2> QED
    BY <1>1, <2>1 DEF TypeOK
<1>3. PostsInv' /\ ClosingInv' /\ ShutdownConsistent'
  BY <1>1 DEF PostsInv, ClosingInv, Posting, Closing, ShutdownConsistent
<1>4. KnownInv'
  BY <1>1, DiscardKnown DEF KnownInv, Posting
<1>5. NoLostWakeup'
  <2>1. ASSUME NEW u \in Threads, Ready(u)' PROVE Ready(u)
    <3>1. Len(m_tasks) \in Nat /\ op[u].count \in Nat /\ Len(m_tasks') = 0
      BY <1>1 DEF TypeOK, Calls
    <3> QED
      BY <1>1, <2>1, <3>1 DEF Ready, Needed
  <2> QED
    BY <1>1, <2>1 DEF NoLostWakeup
<1> QED
  BY <1>2, <1>3, <1>4, <1>5

LEMMA ExecutorInit == Init => ExecutorInv
<1> SUFFICES ASSUME Init
             PROVE  ExecutorInv
  OBVIOUS
<1>1. Idle \in Calls /\ Idle.at = "idle"
  BY DEF Idle, Calls, Functions, Places
<1>2. TypeOK
  <2>1. op \in [Threads -> Calls]
    BY <1>1 DEF Init
  <2>2. m_tasks \in Seq(Items) /\ taken \in Seq(Items)
    BY DEF Init
  <2> QED
    BY <2>1, <2>2 DEF Init, TypeOK
<1>3. PostsInv /\ ClosingInv
  BY <1>1 DEF Init, PostsInv, ClosingInv, Posting, Closing
<1>4. KnownInv
  BY <1>1 DEF Init, KnownInv, Queue!Known, Queue!InSeq
<1>5. ShutdownConsistent /\ NoLostWakeup
  BY <1>1 DEF Init, ShutdownConsistent, NoLostWakeup
<1> QED
  BY <1>2, <1>3, <1>4, <1>5 DEF ExecutorInv

LEMMA ExecutorStep == ExecutorInv /\ [Next]_vars => ExecutorInv'
<1> SUFFICES ASSUME ExecutorInv, [Next]_vars
             PROVE  ExecutorInv'
  OBVIOUS
<1>1. CASE UNCHANGED vars
  <2>1. UNCHANGED <<m_tasks, m_abort, m_atomic_abort, op, used, taken, lost>>
    BY <1>1 DEF vars, history
  <2>2. TypeOK' /\ PostsInv' /\ ClosingInv'
    BY <2>1 DEF ExecutorInv, TypeOK, PostsInv, ClosingInv, Posting, Closing
  <2>3. KnownInv' /\ ShutdownConsistent'
    BY <2>1 DEF ExecutorInv, KnownInv, ShutdownConsistent, Posting, Queue!Known, Queue!InSeq
  <2>4. NoLostWakeup'
    BY <2>1 DEF ExecutorInv, NoLostWakeup, Ready, Needed
  <2> QED
    BY <2>2, <2>3, <2>4 DEF ExecutorInv
<1>2. ASSUME NEW t \in Threads,
             \/ Quiet(t) \/ Takes(t) \/ NotifyAll(t)
             \/ CallShutdown(t) \/ Shutdown(t) \/ (Clear(t) /\ ~m_abort)
             \/ \E x \in Items : Enqueues(t, x) \/ CallPost(t, x)
      PROVE  ExecutorInv'
  BY <1>2, QuietInv, TakeInv, NotifyInv, CallShutdownInv, ShutdownInv, ClearInv, EnqueueInv,
     CallPostInv
<1> QED
  BY <1>1, <1>2, StepKinds DEF ExecutorInv

LEMMA ExecutorInvariant == Spec => []ExecutorInv
  BY ExecutorInit, ExecutorStep, PTL DEF Spec

-----------------------------------------------------------------------------
\* Every reachable state of the executor has well-typed variables.
THEOREM TypeCorrect == Spec => []TypeOK
  BY ExecutorInvariant, PTL DEF ExecutorInv

\* A thread that sleeps although its predicate holds is about to be notified:
\* notify_all after the unlock is early enough (post, shutdown).
THEOREM WakeupsArrive == Spec => []NoLostWakeup
  BY ExecutorInvariant, PTL DEF ExecutorInv

\* After the critical section of shutdown the queue stays empty, and whoever
\* sees m_abort also sees shutdown_requested() (shutdown, post).
THEOREM ShutdownIsConsistent == Spec => []ShutdownConsistent
  BY ExecutorInvariant, PTL DEF ExecutorInv

-----------------------------------------------------------------------------
(* The executor is a TaskQueue: most steps are stuttering steps of it.     *)

LEMMA QueueStep ==
  ASSUME ExecutorInv, [Next]_vars
  PROVE  Queue!Next \/ UNCHANGED Queue!vars
<1> USE DEF ExecutorInv
<1>1. ASSUME NEW t \in Threads,
             Quiet(t) \/ NotifyAll(t) \/ CallShutdown(t) \/ \E x \in Items : CallPost(t, x)
      PROVE  UNCHANGED Queue!vars
  BY <1>1 DEF Quiet, NotifyAll, CallShutdown, CallPost, Queue!vars, history
<1>2. ASSUME NEW t \in Threads, NEW x \in Items, Enqueues(t, x) PROVE Queue!Next
  <2>1. ~Queue!Known(x)
    BY <1>2 DEF Enqueues, KnownInv
  <2>2. Queue!Put(x)
    BY <1>2, <2>1 DEF Enqueues, Queue!Put
  <2> QED
    BY <2>2 DEF Queue!Next
<1>3. ASSUME NEW t \in Threads, Takes(t) PROVE Queue!Next
  BY <1>3 DEF Takes, Queue!Take, Queue!Next
<1>4. ASSUME NEW t \in Threads, Shutdown(t) PROVE Queue!Next
  <2>1. ~m_abort /\ m_abort' = TRUE
    BY <1>4 DEF Shutdown, At, ClosingInv, Closing
  <2>2. Queue!Close
    BY <1>4, <2>1 DEF Shutdown, Elements, Queue!Close, Queue!Discard
  <2> QED
    BY <2>2 DEF Queue!Next
<1>5. ASSUME NEW t \in Threads, Clear(t), ~m_abort PROVE Queue!Next
  BY <1>5 DEF Clear, Elements, Queue!Clear, Queue!Discard, Queue!Next
<1>6. CASE UNCHANGED vars
  BY <1>6 DEF vars, history, Queue!vars
<1> QED
  BY <1>1, <1>2, <1>3, <1>4, <1>5, <1>6, StepKinds

\* Tasks are taken in the order of the posts, each at most once, until they are
\* discarded by clear or the executor is shut down.
THEOREM ExecutorIsAQueue == Spec => ImplementsTaskQueue
<1>1. Init => Queue!Init
  BY DEF Init, Queue!Init
<1>2. ExecutorInv /\ [Next]_vars => [Queue!Next]_(Queue!vars)
  BY QueueStep
<1> QED
  BY <1>1, <1>2, ExecutorInvariant, PTL DEF Spec, ImplementsTaskQueue, Queue!Spec

=============================================================================
