-------------------------- MODULE ThreadPoolProofs --------------------------
(***************************************************************************)
(* Proofs about ThreadPool, for any clients, tasks and number of workers:  *)
(* its state is well typed, no worker misses a wakeup, pinned tasks stay   *)
(* with their worker, and, as long as no failed try empties a task, each   *)
(* task is in one place, the pool is the bag of tasks that TaskBag         *)
(* specifies, and wait() does not return too early.                        *)
(***************************************************************************)
EXTENDS ThreadPool, FiniteSetTheorems, TLAPS

-----------------------------------------------------------------------------
(* The calls and the workers: their types, and where a task may be.        *)

\* Where a call has the task that it posts.
PostPlaces == {"count", "try", "push"}

\* A call that has a task is posting it, with the id it was given; only a task
\* for any worker is tried.
PostsInv ==
  \A c \in Callers :
    /\ call[c].fn # None => /\ call[c].at \in PostPlaces
                            /\ call[c].id = Id[call[c].fn]
    /\ call[c].at = "try" => call[c].id = -1 /\ EnableWorkSteal

\* A worker that has a task runs it.
RunsInv == \A w \in Workers : worker[w].fn # None => worker[w].at = "run"

PlacesInv == TypeOK /\ PostsInv /\ RunsInv

-----------------------------------------------------------------------------
(* The kinds of steps, by what they do with the tasks.                     *)

OtherCalls(c) == \A d \in Callers \ {c} : call'[d] = call[d]
OtherWorkers(w) == \A v \in Workers \ {w} : worker'[v] = worker[v]

\* Every call, and every worker, keeps its task, and none starts without one.
SameCalls ==
  \A c \in Callers :
    /\ call'[c].fn = call[c].fn
    /\ call[c].fn # None => call'[c].id = call[c].id
    /\ call'[c].at \in PostPlaces => call[c].at \in PostPlaces
SameWork ==
  \A w \in Workers :
    /\ worker'[w].fn = worker[w].fn
    /\ worker'[w].at = "run" => worker[w].at = "run"

\* No task changes its place.
Still ==
  /\ SameCalls /\ SameWork
  /\ UNCHANGED <<queue, history>>

\* The call c takes on the new task x.
Begins(c, x) ==
  /\ x \notin used /\ used' = used \cup {x}
  /\ call[c].fn = None /\ call'[c].fn = x /\ call'[c].id = Id[x]
  /\ OtherCalls(c) /\ SameWork
  /\ UNCHANGED <<queue, ranOn, cancelled>>

\* The call c gives its task to Queue q.
Gives(c, q) ==
  /\ call[c].at \in {"try", "push"}
  /\ call[c].id \in {-1, q}
  /\ queue' = [queue EXCEPT ![q] = Append(@, [canSteal |-> Stealable(c), fn |-> call[c].fn])]
  /\ call'[c].fn = None /\ call'[c].at = "notify"
  /\ OtherCalls(c) /\ SameWork
  /\ UNCHANGED history

\* A failed try has emptied the task of call c.
Loses(c) ==
  /\ call[c].at = "try" /\ call[c].fn \notin Counted
  /\ call'[c].fn = None
  /\ OtherCalls(c) /\ SameWork
  /\ UNCHANGED <<queue, history>>

\* Worker w takes the first task of Queue q.
Takes(w, q) ==
  /\ queue[q] # <<>>
  /\ Head(queue[q]).canSteal \/ q = w
  /\ queue' = [queue EXCEPT ![q] = Tail(@)]
  /\ worker[w].fn = None /\ worker'[w].fn = Head(queue[q]).fn
  /\ OtherWorkers(w)
  /\ SameCalls
  /\ UNCHANGED history

\* The task of worker w is done.
Completes(w) ==
  /\ worker[w].fn \in Items
  /\ ranOn' = [ranOn EXCEPT ![worker[w].fn] = w]
  /\ worker'[w].fn = None /\ worker'[w].at # "run"
  /\ OtherWorkers(w)
  /\ SameCalls
  /\ UNCHANGED <<queue, used, cancelled>>

\* cancel() drops the tasks of Queue q.
Drops(q) ==
  /\ queue' = [queue EXCEPT ![q] = <<>>]
  /\ cancelled' = cancelled \cup Elements(queue[q])
  /\ SameCalls /\ SameWork
  /\ UNCHANGED <<used, ranOn>>

Kind ==
  \/ Still
  \/ \E c \in Callers, x \in Items : Begins(c, x)
  \/ \E c \in Callers, q \in Workers : Gives(c, q)
  \/ \E c \in Callers : Loses(c)
  \/ \E w, q \in Workers : Takes(w, q)
  \/ \E w \in Workers : Completes(w)
  \/ \E q \in Workers : Drops(q)

\* What is shown of every step.
Good == PlacesInv' /\ Kind

USE DEF PostPlaces, OtherWorkers

-----------------------------------------------------------------------------
(* How one call or one worker changes.                                     *)

LEMMA WorkersAreNumbers == \A w \in Workers : w \in Nat /\ w # -1
  BY PoolAssumption DEF Workers

LEMMA CallGoesTyped ==
  ASSUME TypeOK, NEW c \in Callers, NEW at \in CallPlaces, CallGoes(c, at)
  PROVE  /\ call' \in [Callers -> Calls]
         /\ OtherCalls(c)
         /\ call'[c].at = at /\ call'[c].fn = call[c].fn
         /\ call'[c].id = call[c].id /\ call'[c].n = call[c].n
<1> DEFINE o == [call[c] EXCEPT !.at = at]
<1>1. o \in Calls /\ o.at = at /\ o.fn = call[c].fn /\ o.id = call[c].id /\ o.n = call[c].n
  BY DEF TypeOK, Calls
<1> HIDE DEF o
<1>2. call' = [call EXCEPT ![c] = o]
  BY DEF CallGoes, o
<1> QED
  BY <1>1, <1>2 DEF TypeOK, OtherCalls

LEMMA ReturnsTyped ==
  ASSUME TypeOK, NEW c \in Callers, Returns(c)
  PROVE  /\ call' \in [Callers -> Calls]
         /\ OtherCalls(c)
         /\ call'[c].at = "idle" /\ call'[c].fn = None
<1>1. Idle \in Calls /\ Idle.at = "idle" /\ Idle.fn = None
  BY DEF Idle, Calls, CallPlaces
<1> QED
  BY <1>1 DEF TypeOK, Returns, OtherCalls

LEMMA WorkerGoesTyped ==
  ASSUME TypeOK, NEW w \in Workers, NEW at \in WorkerPlaces, WorkerGoes(w, at)
  PROVE  /\ worker' \in [Workers -> WorkerStates]
         /\ \A v \in Workers \ {w} : worker'[v] = worker[v]
         /\ worker'[w].at = at /\ worker'[w].fn = worker[w].fn
<1> DEFINE o == [worker[w] EXCEPT !.at = at]
<1>1. o \in WorkerStates /\ o.at = at /\ o.fn = worker[w].fn
  BY DEF TypeOK, WorkerStates
<1> HIDE DEF o
<1>2. worker' = [worker EXCEPT ![w] = o]
  BY DEF WorkerGoes, o
<1> QED
  BY <1>1, <1>2 DEF TypeOK

LEMMA AwakeTyped ==
  ASSUME TypeOK, NEW q, worker' = Awake(q)
  PROVE  /\ worker' \in [Workers -> WorkerStates]
         /\ \A v \in Workers : /\ worker'[v].fn = worker[v].fn
                               /\ worker'[v].at = IF v = q /\ worker[v].at = "blocked"
                                                  THEN "pop" ELSE worker[v].at
<1>1. CASE q \notin Workers
  BY <1>1 DEF TypeOK, Awake
<1>2. CASE q \in Workers
  <2> DEFINE a == IF worker[q].at = "blocked" THEN "pop" ELSE worker[q].at
             o == [worker[q] EXCEPT !.at = a]
  <2>1. a \in WorkerPlaces
    BY <1>2 DEF TypeOK, WorkerStates, WorkerPlaces
  <2>2. o \in WorkerStates /\ o.at = a /\ o.fn = worker[q].fn
    BY <1>2, <2>1 DEF TypeOK, WorkerStates
  <2>3. worker' = [worker EXCEPT ![q] = o]
    BY DEF Awake
  <2> HIDE DEF o
  <2> QED
    BY <1>2, <2>2, <2>3 DEF TypeOK
<1> QED
  BY <1>1, <1>2

\* Only the call c changes: the invariants about calls need looking at c alone.
LEMMA OneCallInv ==
  ASSUME PlacesInv, NEW c \in Callers, OtherCalls(c),
         call'[c].fn # None => /\ call'[c].at \in PostPlaces
                               /\ call'[c].id = Id[call'[c].fn],
         call'[c].at = "try" => call'[c].id = -1 /\ EnableWorkSteal
  PROVE  PostsInv'
  BY DEF PlacesInv, PostsInv, OtherCalls

\* A call without a task changes, and has none afterwards.
LEMMA QuietCall ==
  ASSUME PlacesInv, NEW c \in Callers, OtherCalls(c),
         call[c].fn = None, call'[c].fn = None, call'[c].at \notin PostPlaces
  PROVE  PostsInv' /\ SameCalls
<1>1. PostsInv'
  BY OneCallInv
<1>2. SameCalls
  BY DEF OtherCalls, SameCalls
<1> QED
  BY <1>1, <1>2

LEMMA BeginPostGood ==
  ASSUME PlacesInv, NEW c \in Callers, NEW x \in Items, BeginPost(c, x),
         call[c].at = "idle",
         UNCHANGED <<queue, queueStop, stop, taskNum, worker, ranOn, cancelled, fault>>
  PROVE  Good
<1> DEFINE a == IF x \in Counted THEN "count" ELSE Destination(-1)
           o == [at |-> a, fn |-> x, n |-> 0, id |-> Id[x]]
<1>1. /\ a \in {"count", "try", "push"} /\ Id[x] \in Workers \cup {-1}
      /\ a = "try" => Id[x] = -1 /\ EnableWorkSteal
  BY PoolAssumption DEF Destination
<1>2. o \in Calls /\ o.at = a /\ o.fn = x /\ o.id = Id[x]
  BY <1>1 DEF Calls, CallPlaces
<1>3. call' = [call EXCEPT ![c] = o]
  BY DEF BeginPost
<1> HIDE DEF o, a
<1>4. call' \in [Callers -> Calls] /\ OtherCalls(c) /\ call'[c] = o
  BY <1>2, <1>3 DEF PlacesInv, TypeOK, OtherCalls
<1>5. TypeOK'
  BY <1>4 DEF PlacesInv, TypeOK, BeginPost
<1>6. PostsInv'
  BY <1>1, <1>2, <1>4, OneCallInv
<1>7. call[c].fn = None
  BY DEF PlacesInv, PostsInv
<1>8. Begins(c, x)
  BY <1>2, <1>4, <1>7 DEF Begins, BeginPost, SameWork
<1> QED
  BY <1>5, <1>6, <1>8 DEF Good, PlacesInv, RunsInv, Kind

LEMMA PushedGood ==
  ASSUME PlacesInv, NEW c \in Callers, NEW q \in Workers, Pushed(c, q),
         call[c].at \in {"try", "push"}, call[c].id \in {-1, q},
         UNCHANGED <<queueStop, stop, taskNum, worker, history, fault>>
  PROVE  Good /\ OtherCalls(c) /\ call'[c].at = "notify" /\ call'[c].id = q
<1> DEFINE i == [canSteal |-> Stealable(c), fn |-> call[c].fn]
           o == [Idle EXCEPT !.at = "notify", !.id = q]
<1>1. o \in Calls /\ o.at = "notify" /\ o.fn = None /\ o.id = q
  BY DEF Idle, Calls, CallPlaces
<1>2. i \in WorkItem
  BY PoolAssumption DEF PlacesInv, TypeOK, Calls, WorkItem, Stealable
<1>3. /\ queue' = [queue EXCEPT ![q] = Append(@, i)]
      /\ call' = [call EXCEPT ![c] = o]
  BY DEF Pushed
<1>4. Gives(c, q) <=> /\ queue' = [queue EXCEPT ![q] = Append(@, i)]
                      /\ call'[c].fn = None /\ call'[c].at = "notify"
                      /\ OtherCalls(c)
  BY DEF Gives, SameWork
<1> HIDE DEF o, i
<1>5. /\ call' \in [Callers -> Calls] /\ OtherCalls(c) /\ call'[c] = o
      /\ queue' \in [Workers -> Seq(WorkItem)]
  <2>1. queue[q] \in Seq(WorkItem)
    BY DEF PlacesInv, TypeOK
  <2>2. Append(queue[q], i) \in Seq(WorkItem)
    BY <1>2, <2>1
  <2> QED
    BY <1>1, <1>3, <2>2 DEF PlacesInv, TypeOK, OtherCalls
<1>6. TypeOK'
  BY <1>5 DEF PlacesInv, TypeOK, history
<1>7. PostsInv'
  BY <1>1, <1>5, OneCallInv
<1>8. Gives(c, q)
  BY <1>1, <1>3, <1>4, <1>5
<1> QED
  BY <1>1, <1>5, <1>6, <1>7, <1>8 DEF Good, PlacesInv, RunsInv, Kind

LEMMA SlotTyped ==
  ASSUME NEW n \in Nat
  PROVE  Slot(n) \in Workers
<1>1. CASE n = 0
  BY <1>1, PoolAssumption DEF Slot
<1>2. CASE n # 0
  <2>1. n - 1 \in Nat
    BY <1>2
  <2>2. (n - 1) % ThreadNum \in 0..(ThreadNum - 1)
    BY <2>1, PoolAssumption
  <2> QED
    BY <1>2, <2>2 DEF Slot, Workers
<1> QED
  BY <1>1, <1>2

-----------------------------------------------------------------------------
(* Every step is of one of the kinds.                                      *)

LEMMA PostSteps ==
  ASSUME PlacesInv, NEW c \in Callers,
         Count(c) \/ TryPush(c) \/ TryFails(c) \/ Push(c) \/ NotifyOne(c)
  PROVE  Good
<1> USE DEF PlacesInv
<1>1. CASE Count(c)
  <2>1. Destination(call[c].id) \in CallPlaces \cap {"try", "push"}
    BY DEF Destination, CallPlaces
  <2>2. /\ call' \in [Callers -> Calls] /\ OtherCalls(c)
        /\ call'[c].at = Destination(call[c].id)
        /\ call'[c].fn = call[c].fn /\ call'[c].id = call[c].id
    BY <1>1, <2>1, CallGoesTyped DEF Count
  <2>3. TypeOK'
    <3>1. taskNum' = taskNum + 1
      BY <1>1 DEF Count, NextTaskNum
    <3>2. taskNum \in Int
      BY DEF TypeOK
    <3>3. taskNum' \in Int
      BY <3>1, <3>2
    <3> QED
      BY <1>1, <2>2, <3>3 DEF TypeOK, Count, history
  <2>4. call'[c].at = "try" => call'[c].id = -1 /\ EnableWorkSteal
    BY <2>2 DEF Destination
  <2>5. call[c].fn # None => call[c].id = Id[call[c].fn]
    BY DEF PostsInv
  <2>6. PostsInv'
    BY <2>1, <2>2, <2>4, <2>5, OneCallInv
  <2>7. Still
    BY <1>1, <2>2 DEF Count, Still, SameCalls, SameWork, OtherCalls
  <2> QED
    BY <1>1, <2>3, <2>6, <2>7 DEF Good, RunsInv, Kind, Count
<1>2. CASE TryPush(c)
  <2>1. call[c].at = "try" /\ call[c].id = -1 /\ call[c].n \in Nat
    BY <1>2 DEF TryPush, Trying, TypeOK, Calls, PostsInv
  <2>2. Slot(call[c].n) \in Workers
    BY <2>1, SlotTyped
  <2> QED
    BY <1>2, <2>1, <2>2, PushedGood DEF TryPush
<1>3. CASE TryFails(c)
  <2> DEFINE o == [call[c] EXCEPT !.n = @ + 1, !.fn = AfterMove(@)]
  <2>0. call[c].n \in Nat
    BY DEF TypeOK, Calls
  <2>1. call[c].n + 1 \in Nat /\ call[c].at = "try" /\ call[c].id = -1 /\ EnableWorkSteal
    BY <1>3, <2>0 DEF TryFails, Trying, PostsInv
  <2>2. AfterMove(call[c].fn) \in {call[c].fn, None}
    BY DEF AfterMove
  <2>3. /\ o \in Calls /\ o.at = "try" /\ o.id = -1
        /\ o.fn = AfterMove(call[c].fn)
    BY <2>1, <2>2 DEF TypeOK, Calls
  <2>4. call' = [call EXCEPT ![c] = o]
    BY <1>3 DEF TryFails
  <2> HIDE DEF o
  <2>5. call' \in [Callers -> Calls] /\ OtherCalls(c) /\ call'[c] = o
    BY <2>3, <2>4 DEF TypeOK, OtherCalls
  <2>6. TypeOK'
    BY <1>3, <2>5 DEF TryFails, TypeOK, history
  <2>7. call[c].fn # None => call[c].id = Id[call[c].fn]
    BY DEF PostsInv
  <2>8. PostsInv'
    BY <2>1, <2>2, <2>3, <2>5, <2>7, OneCallInv
  <2>9. Still \/ Loses(c)
    BY <1>3, <2>1, <2>3, <2>5
       DEF TryFails, AfterMove, Still, Loses, SameCalls, SameWork, OtherCalls
  <2> QED
    BY <1>3, <2>6, <2>8, <2>9 DEF Good, RunsInv, Kind, TryFails
<1>4. CASE Push(c)
  <2>1. PICK q \in Workers : call[c].id \in {-1, q} /\ Pushed(c, q)
    BY <1>4 DEF Push
  <2> QED
    BY <1>4, <2>1, PushedGood DEF Push
<1>5. CASE NotifyOne(c)
  <2>1. call[c].fn = None
    BY <1>5 DEF NotifyOne, PostsInv
  <2>2. call' \in [Callers -> Calls] /\ OtherCalls(c) /\ call'[c].at = "idle" /\ call'[c].fn = None
    BY <1>5, ReturnsTyped DEF NotifyOne
  <2>3. /\ worker' \in [Workers -> WorkerStates]
        /\ \A v \in Workers : /\ worker'[v].fn = worker[v].fn
                              /\ worker'[v].at = "run" <=> worker[v].at = "run"
    BY <1>5, AwakeTyped DEF NotifyOne
  <2>4. TypeOK'
    BY <1>5, <2>2, <2>3 DEF NotifyOne, TypeOK, history
  <2>5. PostsInv' /\ SameCalls
    BY <2>1, <2>2, QuietCall
  <2>6. Still
    BY <1>5, <2>3, <2>5 DEF NotifyOne, Still, SameWork
  <2> QED
    BY <2>3, <2>4, <2>5, <2>6 DEF Good, RunsInv, Kind
<1> QED
  BY <1>1, <1>2, <1>3, <1>4, <1>5

\* Calls that wait, cancel or destroy: they have no task.
LEMMA WaitSteps ==
  ASSUME PlacesInv, NEW c \in Callers,
         \/ c \in Clients /\ (CallWait(c) \/ WaitWakes(c))
         \/ WaitReturns(c) \/ WaitTests(c) \/ WaitSleeps(c)
  PROVE  Good
<1> USE DEF PlacesInv
<1>1. /\ call[c].at \in {"idle", "test", "decided", "blocked"}
      /\ \/ \E at \in {"test", "decided", "blocked"} : CallGoes(c, at)
         \/ Returns(c)
      /\ UNCHANGED <<queue, queueStop, stop, taskNum, worker, history, fault>>
  BY DEF CallWait, WaitWakes, WaitReturns, WaitTests, WaitSleeps
<1>2. call[c].fn = None
  BY <1>1 DEF PostsInv
<1>3. /\ call' \in [Callers -> Calls] /\ OtherCalls(c) /\ call'[c].fn = None
      /\ call'[c].at \in {"idle", "test", "decided", "blocked"}
  BY <1>1, <1>2, CallGoesTyped, ReturnsTyped DEF CallPlaces
<1>4. TypeOK'
  BY <1>1, <1>3 DEF TypeOK, history
<1>5. PostsInv' /\ SameCalls
  BY <1>2, <1>3, QuietCall
<1>6. Still
  BY <1>1, <1>5 DEF Still, SameWork
<1> QED
  BY <1>1, <1>4, <1>5, <1>6 DEF Good, RunsInv, Kind

LEMMA CancelSteps ==
  ASSUME PlacesInv, NEW c \in Callers,
         (c \in Clients /\ CallCancel(c)) \/ CancelClears(c) \/ CancelReturns(c)
  PROVE  Good
<1> USE DEF PlacesInv
<1>1. call[c].fn = None /\ call[c] \in Calls
  BY DEF CallCancel, CancelClears, CancelReturns, PostsInv, TypeOK
<1>2. CASE (c \in Clients /\ CallCancel(c)) \/ CancelReturns(c)
  <2>1. /\ CallGoes(c, "cancel") \/ Returns(c)
        /\ UNCHANGED <<queue, queueStop, stop, taskNum, worker, history, fault>>
    BY <1>2 DEF CallCancel, CancelReturns
  <2>2. /\ call' \in [Callers -> Calls] /\ OtherCalls(c) /\ call'[c].fn = None
        /\ call'[c].at \notin PostPlaces
    BY <1>1, <2>1, CallGoesTyped, ReturnsTyped DEF CallPlaces
  <2>3. TypeOK'
    BY <2>1, <2>2 DEF TypeOK, history
  <2>4. PostsInv' /\ SameCalls
    BY <1>1, <2>2, QuietCall
  <2>5. Still
    BY <2>1, <2>4 DEF Still, SameWork
  <2> QED
    BY <2>1, <2>3, <2>4, <2>5 DEF Good, RunsInv, Kind
<1>3. CASE CancelClears(c)
  <2> DEFINE q == call[c].n
             o == [call[c] EXCEPT !.n = @ + 1]
  <2>1. q \in Workers /\ q + 1 \in Nat
    <3>1. q \in Nat
      BY <1>1 DEF Calls
    <3> QED
      BY <1>3, <3>1, PoolAssumption DEF CancelClears, Workers
  <2>2. o \in Calls /\ o.fn = None /\ o.at = "cancel"
    BY <1>1, <1>3, <2>1 DEF CancelClears, Calls
  <2>3. /\ call' = [call EXCEPT ![c] = o]
        /\ queue' = [queue EXCEPT ![q] = <<>>]
        /\ cancelled' = cancelled \cup Elements(queue[q])
        /\ UNCHANGED <<queueStop, stop, taskNum, worker, used, ranOn, fault>>
    BY <1>3 DEF CancelClears
  <2> HIDE DEF o, q
  <2>4. call' \in [Callers -> Calls] /\ OtherCalls(c) /\ call'[c] = o
    BY <2>2, <2>3 DEF TypeOK, OtherCalls
  <2>5. PostsInv' /\ SameCalls
    BY <1>1, <2>2, <2>4, QuietCall
  <2>6. Drops(q)
    BY <2>3, <2>5 DEF Drops, SameWork
  <2>7. <<>> \in Seq(WorkItem)
    OBVIOUS
  <2>8. queue' \in [Workers -> Seq(WorkItem)]
    BY <2>3, <2>7 DEF TypeOK
  <2>9. Elements(queue[q]) \subseteq Items
    <3>1. queue[q] \in Seq(WorkItem)
      BY <2>1 DEF TypeOK
    <3>2. \A i \in DOMAIN queue[q] : queue[q][i] \in WorkItem
      BY <3>1
    <3> QED
      BY <3>2 DEF Elements, WorkItem
  <2>10. TypeOK'
    BY <2>3, <2>4, <2>8, <2>9 DEF TypeOK
  <2> QED
    BY <2>1, <2>3, <2>5, <2>6, <2>10 DEF Good, RunsInv, Kind
<1> QED
  BY <1>2, <1>3

LEMMA DestroySteps ==
  ASSUME PlacesInv, NEW c \in Callers,
         (c \in Clients /\ CallDestroy(c)) \/ StopQueue(c) \/ StopNotifies(c) \/ Join(c)
  PROVE  Good
<1> USE DEF PlacesInv
<1>1. call[c].fn = None /\ call[c] \in Calls
  BY DEF CallDestroy, StopQueue, StopNotifies, Join, PostsInv, TypeOK, Callers
<1>2. CASE (c \in Clients /\ CallDestroy(c)) \/ StopQueue(c) \/ Join(c)
  <2>1. /\ \E at \in {"stop", "stop notify", "gone"} : CallGoes(c, at)
        /\ stop' \in {stop, TRUE}
        /\ queueStop' = queueStop \/ queueStop' = [queueStop EXCEPT ![call[c].n] = TRUE]
        /\ UNCHANGED <<queue, taskNum, worker, history, fault>>
    BY <1>2 DEF CallDestroy, StopQueue, Join
  <2>2. /\ call' \in [Callers -> Calls] /\ OtherCalls(c) /\ call'[c].fn = None
        /\ call'[c].at \notin PostPlaces
    BY <1>1, <2>1, CallGoesTyped DEF CallPlaces
  <2>3. TypeOK'
    BY <2>1, <2>2 DEF TypeOK, history
  <2>4. PostsInv' /\ SameCalls
    BY <1>1, <2>2, QuietCall
  <2>5. Still
    BY <2>1, <2>4 DEF Still, SameWork
  <2> QED
    BY <2>1, <2>3, <2>4, <2>5 DEF Good, RunsInv, Kind
<1>3. CASE StopNotifies(c)
  <2> DEFINE o == [call[c] EXCEPT !.at = "stop", !.n = @ + 1]
  <2>1. call[c].n + 1 \in Nat
    BY <1>1 DEF Calls
  <2>2. o \in Calls /\ o.fn = None /\ o.at = "stop"
    BY <1>1, <2>1 DEF Calls, CallPlaces
  <2>3. call' = [call EXCEPT ![c] = o] /\ worker' = Awake(call[c].n)
    BY <1>3 DEF StopNotifies
  <2> HIDE DEF o
  <2>4. call' \in [Callers -> Calls] /\ OtherCalls(c) /\ call'[c] = o
    BY <2>2, <2>3 DEF TypeOK, OtherCalls
  <2>5. /\ worker' \in [Workers -> WorkerStates]
        /\ \A v \in Workers : /\ worker'[v].fn = worker[v].fn
                              /\ worker'[v].at = "run" <=> worker[v].at = "run"
    BY <2>3, AwakeTyped
  <2>6. TypeOK'
    BY <1>3, <2>4, <2>5 DEF TypeOK, StopNotifies, history
  <2>7. PostsInv' /\ SameCalls
    BY <1>1, <2>2, <2>4, QuietCall
  <2>8. Still
    BY <1>3, <2>5, <2>7 DEF Still, SameWork, StopNotifies
  <2> QED
    BY <2>5, <2>6, <2>7, <2>8 DEF Good, RunsInv, Kind
<1> QED
  BY <1>2, <1>3

\* The worker loop, outside of tasks.
LEMMA LoopSteps ==
  ASSUME PlacesInv, NEW w \in Workers,
         TestStop(w) \/ StealFails(w) \/ PopWaits(w) \/ Spurious(w) \/ RunEmpty(w)
           \/ Uncount(w) \/ NotifyWaiters(w)
  PROVE  Good
<1> USE DEF PlacesInv
<1>1. worker[w] \in WorkerStates
  BY DEF TypeOK
<1>2. ASSUME worker' \in [Workers -> WorkerStates], OtherWorkers(w),
             worker[w].fn = None, worker'[w].fn = None, worker'[w].at # "run"
      PROVE  SameWork /\ RunsInv'
  BY <1>2 DEF SameWork, RunsInv
<1>3. ASSUME UNCHANGED call
      PROVE  SameCalls /\ PostsInv'
  BY <1>3 DEF SameCalls, PostsInv
<1>4. CASE TestStop(w)
  <2> DEFINE a == IF stop THEN "exited" ELSE IF EnableWorkSteal THEN "steal" ELSE "pop"
             o == [at |-> a, fn |-> None, n |-> 0]
  <2>1. o \in WorkerStates /\ o.fn = None /\ o.at # "run"
    BY DEF WorkerStates, WorkerPlaces
  <2>2. worker' = [worker EXCEPT ![w] = o]
    BY <1>4 DEF TestStop
  <2> HIDE DEF o
  <2>3. worker' \in [Workers -> WorkerStates] /\ OtherWorkers(w) /\ worker'[w].fn = None
        /\ worker'[w].at # "run"
    BY <2>1, <2>2 DEF TypeOK
  <2>4. worker[w].fn = None
    BY <1>4 DEF TestStop, RunsInv
  <2>5. TypeOK'
    BY <1>4, <2>3 DEF TypeOK, TestStop, history
  <2> QED
    BY <1>2, <1>3, <1>4, <2>3, <2>4, <2>5 DEF Good, Kind, Still, TestStop
<1>5. CASE StealFails(w)
  <2> DEFINE o == [worker[w] EXCEPT !.n = @ + 1]
             p == [worker[w] EXCEPT !.at = "pop"]
  <2>1. worker[w].fn = None
    BY <1>5 DEF StealFails, RunsInv
  <2>2. worker[w].n + 1 \in Nat
    BY <1>1 DEF WorkerStates
  <2>3. /\ o \in WorkerStates /\ o.fn = None /\ o.at # "run"
        /\ p \in WorkerStates /\ p.fn = None /\ p.at # "run"
    BY <1>1, <1>5, <2>1, <2>2 DEF StealFails, WorkerStates, WorkerPlaces
  <2>4. worker' = [worker EXCEPT ![w] = o] \/ worker' = [worker EXCEPT ![w] = p]
    BY <1>5 DEF StealFails, WorkerGoes
  <2> HIDE DEF o, p
  <2>5. worker' \in [Workers -> WorkerStates] /\ OtherWorkers(w) /\ worker'[w].fn = None
        /\ worker'[w].at # "run"
    BY <2>3, <2>4 DEF TypeOK
  <2>6. TypeOK'
    BY <1>5, <2>5 DEF TypeOK, StealFails, history
  <2> QED
    BY <1>2, <1>3, <1>5, <2>1, <2>5, <2>6 DEF Good, Kind, Still, StealFails
<1>6. CASE PopWaits(w) \/ Spurious(w)
  <2>1. /\ \E at \in {"head", "blocked", "pop"} : WorkerGoes(w, at)
        /\ worker[w].fn = None
        /\ UNCHANGED <<queue, queueStop, stop, taskNum, call, history, fault>>
    BY <1>6 DEF PopWaits, Spurious, FoundNothing, RunsInv
  <2>2. worker' \in [Workers -> WorkerStates] /\ OtherWorkers(w) /\ worker'[w].fn = None
        /\ worker'[w].at # "run"
    BY <2>1, WorkerGoesTyped DEF WorkerPlaces
  <2>3. TypeOK'
    BY <2>1, <2>2 DEF TypeOK, history
  <2> QED
    BY <1>2, <1>3, <2>1, <2>2, <2>3 DEF Good, Kind, Still
<1>7. CASE RunEmpty(w)
  <2>1. TypeOK' /\ RunsInv' /\ SameWork
    BY <1>7 DEF RunEmpty, TypeOK, RunsInv, SameWork, history
  <2> QED
    BY <1>3, <1>7, <2>1 DEF RunEmpty, Good, Kind, Still
<1>8. CASE Uncount(w)
  <2>1. WorkerGoes(w, "notify") /\ worker[w].fn = None /\ taskNum' = taskNum - 1
    BY <1>8 DEF Uncount, RunsInv
  <2>2. worker' \in [Workers -> WorkerStates] /\ OtherWorkers(w) /\ worker'[w].fn = None
        /\ worker'[w].at # "run"
    BY <2>1, WorkerGoesTyped DEF WorkerPlaces
  <2>3. taskNum' \in Int
    <3>1. taskNum \in Int
      BY DEF TypeOK
    <3> QED
      BY <2>1, <3>1
  <2>4. TypeOK'
    BY <1>8, <2>2, <2>3 DEF TypeOK, Uncount, history
  <2> QED
    BY <1>2, <1>3, <1>8, <2>1, <2>2, <2>4 DEF Good, Kind, Still, Uncount
<1>9. CASE NotifyWaiters(w)
  <2>1. WorkerGoes(w, "head") /\ worker[w].fn = None
    BY <1>9 DEF NotifyWaiters, RunsInv
  <2>2. worker' \in [Workers -> WorkerStates] /\ OtherWorkers(w) /\ worker'[w].fn = None
        /\ worker'[w].at # "run"
    BY <2>1, WorkerGoesTyped DEF WorkerPlaces
  <2>3. ASSUME NEW c \in Callers
        PROVE  /\ call'[c] \in Calls /\ call'[c].fn = call[c].fn /\ call'[c].id = call[c].id
               /\ call'[c].at = call[c].at \/ (call[c].at = "blocked" /\ call'[c].at = "test")
    <3> DEFINE o == [call[c] EXCEPT !.at = "test"]
    <3>1. call[c] \in Calls
      BY DEF TypeOK
    <3>2. o \in Calls /\ o.fn = call[c].fn /\ o.id = call[c].id /\ o.at = "test"
      BY <3>1 DEF Calls, CallPlaces
    <3>3. call'[c] = IF call[c].at = "blocked" THEN o ELSE call[c]
      BY <1>9 DEF NotifyWaiters
    <3> HIDE DEF o
    <3> QED
      BY <3>1, <3>2, <3>3
  <2>4. call' \in [Callers -> Calls]
    BY <1>9, <2>3 DEF NotifyWaiters
  <2>5. PostsInv' /\ SameCalls
    BY <2>3 DEF PostsInv, SameCalls
  <2>6. TypeOK'
    BY <1>9, <2>2, <2>4 DEF TypeOK, NotifyWaiters, history
  <2> QED
    BY <1>2, <1>9, <2>1, <2>2, <2>5, <2>6 DEF Good, Kind, Still, NotifyWaiters
<1> QED
  BY <1>4, <1>5, <1>6, <1>7, <1>8, <1>9

\* A worker takes a task from its own Queue, or steals one.
LEMMA TakeSteps ==
  ASSUME PlacesInv, NEW w \in Workers, StealTakes(w) \/ PopTakes(w)
  PROVE  Good
<1> USE DEF PlacesInv
<1> DEFINE Taken(q) ==
      /\ queue[q] # <<>>
      /\ Head(queue[q]).canSteal \/ q = w
      /\ queue' = [queue EXCEPT ![q] = Tail(@)]
      /\ \E at \in {"pop", "run"} :
           /\ worker' = [worker EXCEPT ![w].fn = Head(queue[q]).fn, ![w].at = at]
           /\ Head(queue[q]).fn # None => at = "run"
      /\ UNCHANGED <<queueStop, stop, taskNum, call, history, fault>>
<1>1. worker[w] \in WorkerStates /\ worker[w].fn = None
  BY DEF StealTakes, PopTakes, RunsInv, TypeOK
<1>2. PICK q \in Workers : Taken(q)
  <2>1. CASE StealTakes(w)
    <3> DEFINE r == (w + worker[w].n) % ThreadNum
    <3>1. w + worker[w].n \in Nat
      BY <1>1, WorkersAreNumbers DEF WorkerStates
    <3>2. r \in Workers
      BY <3>1, PoolAssumption DEF Workers
    <3>3. Taken(r)
      BY <2>1 DEF StealTakes, Popped
    <3> QED
      BY <3>2, <3>3
  <2>2. CASE PopTakes(w)
    <3>1. worker' = [worker EXCEPT ![w].fn = Head(queue[w]).fn, ![w].at = "run"]
      BY <2>2 DEF PopTakes, TypeOK
    <3>2. Taken(w)
      BY <2>2, <3>1 DEF PopTakes, Popped
    <3> QED
      BY <3>2
  <2> QED
    BY <2>1, <2>2
<1>3. PICK at \in {"pop", "run"} :
        /\ worker' = [worker EXCEPT ![w].fn = Head(queue[q]).fn, ![w].at = at]
        /\ Head(queue[q]).fn # None => at = "run"
  BY <1>2
<1>4. /\ queue[q] \in Seq(WorkItem) /\ queue[q] # <<>>
      /\ Head(queue[q]) \in WorkItem /\ Tail(queue[q]) \in Seq(WorkItem)
  <2>1. queue[q] \in Seq(WorkItem) /\ queue[q] # <<>>
    BY <1>2 DEF TypeOK
  <2> QED
    BY <2>1
<1>5. Head(queue[q]).fn \in Items \cup {None}
  BY <1>4 DEF WorkItem
<1> DEFINE o == [worker[w] EXCEPT !.fn = Head(queue[q]).fn, !.at = at]
<1>6. o \in WorkerStates /\ o.fn = Head(queue[q]).fn /\ o.at = at
  BY <1>1, <1>5 DEF WorkerStates, WorkerPlaces
<1>7. worker' = [worker EXCEPT ![w] = o]
  BY <1>3
<1> HIDE DEF o
<1>8. /\ worker' \in [Workers -> WorkerStates] /\ worker'[w] = o
      /\ OtherWorkers(w)
  BY <1>6, <1>7 DEF TypeOK
<1>9. queue' \in [Workers -> Seq(WorkItem)]
  BY <1>2, <1>4 DEF TypeOK
<1>10. TypeOK'
  BY <1>2, <1>8, <1>9 DEF TypeOK, history
<1>11. PostsInv' /\ SameCalls
  BY <1>2 DEF PostsInv, SameCalls
<1>12. RunsInv'
  BY <1>3, <1>6, <1>8 DEF RunsInv
<1>13. Takes(w, q)
  BY <1>1, <1>2, <1>6, <1>8, <1>11 DEF Takes
<1> QED
  BY <1>10, <1>11, <1>12, <1>13 DEF Good, Kind

\* The task of a worker ends, or throws.
LEMMA EndSteps ==
  ASSUME PlacesInv, NEW w \in Workers, Run(w) \/ PostThrows(w)
  PROVE  Good
<1> USE DEF PlacesInv
<1>1. SameCalls /\ PostsInv'
  BY DEF Run, PostThrows, SameCalls, PostsInv
<1>2. CASE Ends(w) /\ worker[w].fn \in Items
           /\ UNCHANGED <<queue, queueStop, stop, taskNum, call, used, cancelled, fault>>
  <2> DEFINE o == [worker[w] EXCEPT !.at = "count", !.fn = None]
  <2>1. o \in WorkerStates /\ o.fn = None
    BY DEF TypeOK, WorkerStates, WorkerPlaces
  <2>2. worker' = [worker EXCEPT ![w] = o]
    BY <1>2 DEF Ends
  <2> HIDE DEF o
  <2>3. /\ worker' \in [Workers -> WorkerStates] /\ worker'[w].fn = None
        /\ OtherWorkers(w)
    BY <2>1, <2>2 DEF TypeOK
  <2>4. TypeOK'
    BY <1>2, <2>3 DEF TypeOK, Ends
  <2>5. RunsInv'
    BY <2>3 DEF RunsInv
  <2>6. Completes(w)
    BY <1>1, <1>2, <2>3 DEF Completes, Ends
  <2> QED
    BY <1>1, <2>4, <2>5, <2>6 DEF Good, Kind
<1>3. CASE /\ fault' = "uncaught exception"
           /\ UNCHANGED <<queue, queueStop, stop, taskNum, worker, call, history>>
  <2>1. TypeOK' /\ RunsInv' /\ SameWork
    BY <1>3 DEF TypeOK, RunsInv, SameWork, history
  <2> QED
    BY <1>1, <1>3, <2>1 DEF Good, Kind, Still
<1>4. worker[w].fn \in Items \cup {None}
  BY DEF TypeOK, WorkerStates
<1>5. CASE Run(w)
  BY <1>2, <1>4, <1>5 DEF Run
<1>6. CASE PostThrows(w)
  BY <1>2, <1>3, <1>6, PoolAssumption DEF PostThrows, history
<1> QED
  BY <1>5, <1>6

LEMMA StepKinds ==
  ASSUME PlacesInv, [Next]_vars
  PROVE  Good
<1>1. ASSUME NEW w \in Workers, WorkerStep(w) \/ Spurious(w)
      PROVE  Good
  <2>1. ASSUME NEW y \in Items, TaskPosts(w, y)
        PROVE  Good
    BY <2>1, BeginPostGood DEF TaskPosts, Callers
  <2> QED
    BY <1>1, <2>1, LoopSteps, TakeSteps, EndSteps DEF WorkerStep
<1>2. ASSUME NEW c \in Callers, CallStep(c)
      PROVE  Good
  BY <1>2, PostSteps, WaitSteps, CancelSteps, DestroySteps DEF CallStep
<1>3. ASSUME NEW c \in Clients, Call(c) \/ WaitWakes(c)
      PROVE  Good
  <2>1. c \in Callers
    BY DEF Callers
  <2>2. ASSUME NEW x \in Items, CallPost(c, x)
        PROVE  Good
    BY <2>1, <2>2, BeginPostGood DEF CallPost
  <2> QED
    BY <1>3, <2>1, <2>2, WaitSteps, CancelSteps, DestroySteps DEF Call
<1>4. CASE UNCHANGED vars
  BY <1>4 DEF vars, history, Good, PlacesInv, TypeOK, PostsInv, RunsInv, Kind, Still,
              SameCalls, SameWork
<1> QED
  BY <1>1, <1>2, <1>3, <1>4 DEF Next

LEMMA PlacesInit ==
  ASSUME Init
  PROVE  PlacesInv
<1>1. Idle \in Calls /\ Idle.fn = None /\ Idle.at = "idle"
  BY DEF Idle, Calls, CallPlaces
<1> DEFINE o == [at |-> "head", fn |-> None, n |-> 0]
<1>2. o \in WorkerStates /\ o.fn = None
  BY DEF WorkerStates, WorkerPlaces
<1>3. worker = [w \in Workers |-> o]
  BY DEF Init
<1> HIDE DEF o
<1>4. <<>> \in Seq(WorkItem)
  OBVIOUS
<1>5. TypeOK
  BY <1>1, <1>2, <1>3, <1>4, PoolAssumption DEF Init, TypeOK
<1> QED
  BY <1>1, <1>2, <1>3, <1>5 DEF Init, PlacesInv, PostsInv, RunsInv

LEMMA PlacesAlways == Spec => []PlacesInv
<1>1. Init => PlacesInv
  BY PlacesInit
<1>2. PlacesInv /\ [Next]_vars => PlacesInv'
  BY StepKinds DEF Good
<1> QED
  BY <1>1, <1>2, PTL DEF Spec

\* The state of the pool stays well typed, for any clients, tasks and number of
\* workers (include/coro/thread_pool.hpp).
THEOREM TypeCorrect == Spec => []TypeOK
<1>1. PlacesInv => TypeOK
  BY DEF PlacesInv
<1> QED
  BY <1>1, PlacesAlways, PTL

-----------------------------------------------------------------------------
(* How the queues change.                                                  *)

LEMMA GivesItems ==
  ASSUME PlacesInv, NEW c \in Callers, NEW q \in Workers, Gives(c, q)
  PROVE  \A p \in Workers : \A n \in DOMAIN queue'[p] :
           \/ n \in DOMAIN queue[p] /\ queue'[p][n] = queue[p][n]
           \/ /\ p = q /\ n = Len(queue[q]) + 1
              /\ queue'[p][n].fn = call[c].fn /\ queue'[p][n].canSteal = Stealable(c)
<1> DEFINE i == [canSteal |-> Stealable(c), fn |-> call[c].fn]
<1>1. i \in WorkItem
  BY PoolAssumption DEF PlacesInv, TypeOK, Calls, WorkItem, Stealable
<1>2. queue' = [queue EXCEPT ![q] = Append(@, i)]
  BY DEF Gives
<1>3. i.fn = call[c].fn /\ i.canSteal = Stealable(c)
  OBVIOUS
<1> HIDE DEF i
<1>4. queue[q] \in Seq(WorkItem) /\ queue \in [Workers -> Seq(WorkItem)]
  BY DEF PlacesInv, TypeOK
<1>5. \A n \in DOMAIN Append(queue[q], i) :
        \/ n \in DOMAIN queue[q] /\ Append(queue[q], i)[n] = queue[q][n]
        \/ n = Len(queue[q]) + 1 /\ Append(queue[q], i)[n] = i
  BY <1>1, <1>4
<1>6. \A p \in Workers : queue'[p] = IF p = q THEN Append(queue[q], i) ELSE queue[p]
  BY <1>2, <1>4
<1> QED
  BY <1>3, <1>5, <1>6

LEMMA TakesItems ==
  ASSUME PlacesInv, NEW w \in Workers, NEW q \in Workers, Takes(w, q)
  PROVE  /\ \A p \in Workers \ {q} : queue'[p] = queue[p]
         /\ \A n \in DOMAIN queue'[q] :
              n + 1 \in DOMAIN queue[q] /\ n + 1 # 1 /\ queue'[q][n] = queue[q][n + 1]
         /\ \A n \in DOMAIN queue[q] \ {1} :
              n - 1 \in DOMAIN queue'[q] /\ queue'[q][n - 1] = queue[q][n]
         /\ 1 \in DOMAIN queue[q] /\ Head(queue[q]) = queue[q][1]
<1>1. /\ queue[q] \in Seq(WorkItem) /\ queue[q] # <<>>
      /\ queue \in [Workers -> Seq(WorkItem)]
  BY DEF PlacesInv, TypeOK, Takes
<1>2. /\ \A n \in DOMAIN Tail(queue[q]) :
           n + 1 \in DOMAIN queue[q] /\ n + 1 # 1 /\ Tail(queue[q])[n] = queue[q][n + 1]
      /\ \A n \in DOMAIN queue[q] \ {1} :
           n - 1 \in DOMAIN Tail(queue[q]) /\ Tail(queue[q])[n - 1] = queue[q][n]
      /\ 1 \in DOMAIN queue[q] /\ Head(queue[q]) = queue[q][1]
  BY <1>1
<1>3. \A p \in Workers : queue'[p] = IF p = q THEN Tail(queue[q]) ELSE queue[p]
  BY <1>1 DEF Takes
<1> QED
  BY <1>2, <1>3

LEMMA DropsItems ==
  ASSUME PlacesInv, NEW q \in Workers, Drops(q)
  PROVE  /\ DOMAIN queue'[q] = {}
         /\ \A p \in Workers \ {q} : queue'[p] = queue[p]
<1>1. queue \in [Workers -> Seq(WorkItem)]
  BY DEF PlacesInv, TypeOK
<1>2. \A p \in Workers : queue'[p] = IF p = q THEN <<>> ELSE queue[p]
  BY <1>1 DEF Drops
<1> QED
  BY <1>2

\* An item of a Queue was there before, or was just given to it.
LEMMA NewItems ==
  ASSUME PlacesInv, Kind, NEW q \in Workers, NEW n \in DOMAIN queue'[q]
  PROVE  \/ \E m \in DOMAIN queue[q] : queue'[q][n] = queue[q][m]
         \/ \E c \in Callers :
              /\ Gives(c, q)
              /\ queue'[q][n].fn = call[c].fn /\ queue'[q][n].canSteal = Stealable(c)
<1>1. CASE UNCHANGED queue
  BY <1>1
<1>2. CASE \E c \in Callers, r \in Workers : Gives(c, r)
  BY <1>2, GivesItems
<1>3. CASE \E w, r \in Workers : Takes(w, r)
  BY <1>3, TakesItems
<1>4. CASE \E r \in Workers : Drops(r)
  BY <1>4, DropsItems
<1> QED
  BY <1>1, <1>2, <1>3, <1>4 DEF Kind, Still, Begins, Loses, Completes, history

-----------------------------------------------------------------------------
(* Pinned tasks.                                                           *)

\* A pinned task waits in the Queue of its worker, where nobody may steal it.
Kept(i, q) == i.fn # None => Id[i.fn] = -1 \/ (Id[i.fn] = q /\ ~i.canSteal)
PinQueued == \A q \in Workers : \A n \in DOMAIN queue[q] : Kept(queue[q][n], q)
PinHeld == \A w \in Workers : worker[w].fn # None => Id[worker[w].fn] \in {-1, w}
PinInv == PinQueued /\ PinHeld /\ PinnedStay

LEMMA PinStep ==
  ASSUME PlacesInv, PinInv, [Next]_vars
  PROVE  PinInv'
<1>1. Good
  BY StepKinds
<1>2. PinQueued'
  <2> SUFFICES ASSUME NEW q \in Workers, NEW n \in DOMAIN queue'[q]
               PROVE  Kept(queue'[q][n], q)
    BY DEF PinQueued, Kept
  <2>1. CASE \E m \in DOMAIN queue[q] : queue'[q][n] = queue[q][m]
    BY <2>1 DEF PinInv, PinQueued
  <2>2. ASSUME NEW c \in Callers, Gives(c, q),
               queue'[q][n].fn = call[c].fn, queue'[q][n].canSteal = Stealable(c)
        PROVE  Kept(queue'[q][n], q)
    <3>1. call[c].fn # None => call[c].id = Id[call[c].fn]
      BY DEF PlacesInv, PostsInv
    <3>2. call[c].id = -1 \/ (call[c].id = q /\ ~Stealable(c))
      BY <2>2 DEF Gives, Stealable
    <3> QED
      BY <2>2, <3>1, <3>2 DEF Kept
  <2> QED
    BY <1>1, <2>1, <2>2, NewItems DEF Good
<1>3. PinHeld'
  <2>1. CASE SameWork
    BY <2>1 DEF PinInv, PinHeld, SameWork
  <2>2. ASSUME NEW w \in Workers, NEW q \in Workers, Takes(w, q)
        PROVE  PinHeld'
    <3>1. Kept(Head(queue[q]), q)
      BY <2>2, TakesItems DEF PinInv, PinQueued
    <3> QED
      BY <2>2, <3>1 DEF Takes, Kept, PinInv, PinHeld
  <2>3. ASSUME NEW w \in Workers, Completes(w)
        PROVE  PinHeld'
    BY <2>3 DEF Completes, PinInv, PinHeld
  <2> QED
    BY <1>1, <2>1, <2>2, <2>3 DEF Good, Kind, Still, Begins, Gives, Loses, Drops
<1>4. PinnedStay'
  <2>1. CASE UNCHANGED ranOn
    BY <2>1 DEF PinInv, PinnedStay, Done
  <2>2. ASSUME NEW w \in Workers, Completes(w)
        PROVE  PinnedStay'
    <3>1. /\ ranOn \in [Items -> Workers \cup {None}]
          /\ ranOn' = [ranOn EXCEPT ![worker[w].fn] = w]
          /\ worker[w].fn \in Items
      BY <2>2 DEF Completes, PlacesInv, TypeOK
    <3>2. Id[worker[w].fn] \in {-1, w}
      BY <3>1, PoolAssumption DEF PinInv, PinHeld
    <3> QED
      BY <3>1, <3>2 DEF PinInv, PinnedStay, Done
  <2> QED
    BY <1>1, <2>1, <2>2
       DEF Good, Kind, Still, Begins, Gives, Loses, Takes, Drops, history
<1> QED
  BY <1>2, <1>3, <1>4 DEF PinInv

\* A task posted with an id runs on that worker and no other, however many
\* workers steal (canSteal of post and try_pop_if).
THEOREM PinnedRunAtHome == Spec => []PinnedStay
<1>1. Init => PinInv
  BY DEF Init, PinInv, PinQueued, PinHeld, PinnedStay, Done
<1>2. PlacesInv /\ PinInv /\ [Next]_vars => PinInv'
  BY PinStep
<1>3. PinInv => PinnedStay
  BY DEF PinInv
<1> QED
  BY <1>1, <1>2, <1>3, PlacesAlways, PTL DEF Spec

-----------------------------------------------------------------------------
(* Wakeups.                                                                *)

\* No worker falls asleep, and only a call that notifies nobody moves.
LEMMA QuietWake ==
  ASSUME NoLostWakeup, NEW c \in Callers, OtherCalls(c),
         \A w \in Workers : ~Notifies(c, w),
         \A w \in Workers : Overslept(w)' => Overslept(w)
  PROVE  NoLostWakeup'
<1>1. \A d \in Callers, w \in Workers : Notifies(d, w) => Notifies(d, w)'
  BY DEF Notifies, OtherCalls
<1> QED
  BY <1>1 DEF NoLostWakeup

\* Nobody oversleeps but w, which the call c is about to notify.
LEMMA OneWake ==
  ASSUME NoLostWakeup, NEW c \in Callers, OtherCalls(c), NEW q,
         \A w \in Workers : ~Notifies(c, w), Notifies(c, q)',
         \A w \in Workers : Overslept(w)' => Overslept(w) \/ w = q
  PROVE  NoLostWakeup'
<1>1. \A d \in Callers, w \in Workers : Notifies(d, w) => Notifies(d, w)'
  BY DEF Notifies, OtherCalls
<1> QED
  BY <1>1 DEF NoLostWakeup

\* The call c has notified the worker q.
LEMMA NotifiedWake ==
  ASSUME NoLostWakeup, NEW c \in Callers, OtherCalls(c), NEW q,
         \A w \in Workers : Notifies(c, w) => w = q,
         \A w \in Workers : Overslept(w)' => Overslept(w) /\ w # q
  PROVE  NoLostWakeup'
<1>1. \A d \in Callers \ {c}, w \in Workers : Notifies(d, w) => Notifies(d, w)'
  BY DEF Notifies, OtherCalls
<1> QED
  BY <1>1 DEF NoLostWakeup

LEMMA PushedWake ==
  ASSUME PlacesInv, NoLostWakeup, NEW c \in Callers, NEW q \in Workers, Pushed(c, q),
         call[c].at \in {"try", "push"}, call[c].id \in {-1, q},
         UNCHANGED <<queueStop, stop, taskNum, worker, history, fault>>
  PROVE  NoLostWakeup'
<1>1. OtherCalls(c) /\ call'[c].at = "notify" /\ call'[c].id = q
  BY PushedGood
<1>2. \A w \in Workers \ {q} : queue'[w] = queue[w]
  BY DEF Pushed, PlacesInv, TypeOK
<1>3. \A w \in Workers : Overslept(w)' => Overslept(w) \/ w = q
  BY <1>2 DEF Overslept
<1>4. (\A w \in Workers : ~Notifies(c, w)) /\ Notifies(c, q)'
  BY <1>1 DEF Notifies
<1> QED
  BY <1>1, <1>3, <1>4, OneWake

LEMMA CallWake ==
  ASSUME PlacesInv, NoLostWakeup, NEW c \in Callers,
         CallStep(c) \/ (c \in Clients /\ (Call(c) \/ WaitWakes(c)))
           \/ (\E y \in Items : c \in Workers /\ TaskPosts(c, y))
  PROVE  NoLostWakeup'
<1> USE DEF PlacesInv
<1>1. ASSUME /\ call[c].at \notin {"notify", "stop notify"}
             /\ UNCHANGED <<queue, queueStop, worker>>
             /\ \/ \E at \in CallPlaces : CallGoes(c, at)
                \/ Returns(c)
                \/ \E x \in Items : BeginPost(c, x)
                \/ TryFails(c)
      PROVE  NoLostWakeup'
  <2>1. OtherCalls(c)
    BY <1>1 DEF CallGoes, Returns, BeginPost, TryFails, OtherCalls, TypeOK
  <2>2. \A w \in Workers : ~Notifies(c, w) /\ (Overslept(w)' => Overslept(w))
    BY <1>1 DEF Notifies, Overslept
  <2> QED
    BY <2>1, <2>2, QuietWake
<1>2. CASE \/ Count(c) \/ TryFails(c)
           \/ WaitReturns(c) \/ WaitTests(c) \/ WaitSleeps(c)
           \/ CancelReturns(c) \/ Join(c)
           \/ (c \in Clients /\ (Call(c) \/ WaitWakes(c)))
           \/ (\E y \in Items : c \in Workers /\ TaskPosts(c, y))
  BY <1>1, <1>2 DEF Count, Destination, TryFails, Trying, WaitReturns, WaitTests, WaitSleeps,
       CancelReturns, Join, Call, CallPost, CallWait, CallCancel, CallDestroy,
       WaitWakes, TaskPosts, CallPlaces
<1>3. CASE TryPush(c)
  <2>1. call[c].at = "try" /\ call[c].id = -1 /\ call[c].n \in Nat
    BY <1>3 DEF TryPush, Trying, TypeOK, Calls, PostsInv
  <2>2. Slot(call[c].n) \in Workers
    BY <2>1, SlotTyped
  <2> QED
    BY <1>3, <2>1, <2>2, PushedWake DEF TryPush
<1>4. CASE Push(c)
  BY <1>4, PushedWake DEF Push
<1>5. CASE NotifyOne(c)
  <2>1. OtherCalls(c) /\ \A w \in Workers : Notifies(c, w) => w = call[c].id
    BY <1>5 DEF NotifyOne, Returns, OtherCalls, TypeOK, Notifies
  <2>2. \A w \in Workers : Overslept(w)' => Overslept(w) /\ w # call[c].id
    BY <1>5, AwakeTyped DEF NotifyOne, Overslept
  <2> QED
    BY <2>1, <2>2, NotifiedWake
<1>6. CASE CancelClears(c)
  <2>1. OtherCalls(c) /\ \A w \in Workers : ~Notifies(c, w)
    BY <1>6 DEF CancelClears, OtherCalls, TypeOK, Notifies
  <2>2. \A w \in Workers : queue'[w] # <<>> => queue[w] # <<>>
    BY <1>6 DEF CancelClears, TypeOK
  <2>3. \A w \in Workers : Overslept(w)' => Overslept(w)
    BY <1>6, <2>2 DEF CancelClears, Overslept
  <2> QED
    BY <2>1, <2>3, QuietWake
<1>7. CASE StopQueue(c)
  <2>1. PICK q : q = call[c].n
    OBVIOUS
  <2>2. /\ OtherCalls(c) /\ \A w \in Workers : ~Notifies(c, w)
        /\ Notifies(c, q)'
    BY <1>7, <2>1, CallGoesTyped DEF StopQueue, CallPlaces, Notifies
  <2>3. \A w \in Workers : queueStop'[w] = queueStop[w] \/ w = q
    BY <1>7, <2>1 DEF StopQueue, TypeOK
  <2>4. \A w \in Workers : Overslept(w)' => Overslept(w) \/ w = q
    BY <1>7, <2>3 DEF StopQueue, Overslept
  <2> QED
    BY <2>2, <2>4, OneWake
<1>8. CASE StopNotifies(c)
  <2>1. OtherCalls(c) /\ \A w \in Workers : Notifies(c, w) => w = call[c].n
    BY <1>8 DEF StopNotifies, OtherCalls, TypeOK, Notifies
  <2>2. \A w \in Workers : Overslept(w)' => Overslept(w) /\ w # call[c].n
    BY <1>8, AwakeTyped DEF StopNotifies, Overslept
  <2> QED
    BY <2>1, <2>2, NotifiedWake
<1> QED
  BY <1>2, <1>3, <1>4, <1>5, <1>6, <1>7, <1>8 DEF CallStep

LEMMA LoopWake ==
  ASSUME PlacesInv, NoLostWakeup, NEW w \in Workers,
         TestStop(w) \/ StealTakes(w) \/ StealFails(w) \/ PopTakes(w) \/ PopWaits(w)
           \/ Run(w) \/ RunEmpty(w) \/ PostThrows(w) \/ Uncount(w) \/ NotifyWaiters(w)
           \/ Spurious(w)
  PROVE  NoLostWakeup'
<1>1. /\ worker \in [Workers -> WorkerStates] /\ queue \in [Workers -> Seq(WorkItem)]
      /\ call \in [Callers -> Calls]
  BY DEF PlacesInv, TypeOK
<1>2. \A c \in Callers, v \in Workers : Notifies(c, v) => Notifies(c, v)'
  <2>1. CASE UNCHANGED call
    BY <2>1 DEF Notifies
  <2>2. CASE NotifyWaiters(w)
    BY <2>2 DEF NotifyWaiters, Notifies
  <2> QED
    BY <2>1, <2>2 DEF TestStop, StealTakes, StealFails, PopTakes, PopWaits, Run, RunEmpty,
                      PostThrows, Uncount, Spurious
<1>3. UNCHANGED queueStop
  BY DEF TestStop, StealTakes, StealFails, PopTakes, PopWaits, Run, RunEmpty, PostThrows,
         Uncount, NotifyWaiters, Spurious
<1>4. \A v \in Workers : queue'[v] # <<>> => queue[v] # <<>>
  BY <1>1 DEF TestStop, StealTakes, StealFails, PopTakes, PopWaits, Popped, Run, RunEmpty,
              PostThrows, Uncount, NotifyWaiters, Spurious
<1>5. \A v \in Workers \ {w} : worker'[v] = worker[v]
  BY <1>1 DEF TestStop, StealTakes, StealFails, PopTakes, PopWaits, Run, Ends, RunEmpty,
              PostThrows, Uncount, NotifyWaiters, Spurious, WorkerGoes
<1>6. CASE PopWaits(w)
  <2>1. queue[w] = <<>> /\ worker'[w].at = FoundNothing(w) /\ UNCHANGED queue
    BY <1>6, WorkerGoesTyped DEF PopWaits, FoundNothing, WorkerPlaces, PlacesInv
  <2>2. ~Overslept(w)'
    BY <1>3, <2>1 DEF FoundNothing, Overslept
  <2>3. \A v \in Workers : Overslept(v)' => Overslept(v)
    BY <1>3, <1>4, <1>5, <2>2 DEF Overslept
  <2> QED
    BY <1>2, <2>3 DEF NoLostWakeup
<1>7. CASE ~PopWaits(w)
  <2>1. worker'[w].at = "blocked" => worker[w].at = "blocked"
    <3>1. CASE UNCHANGED worker
      BY <3>1
    <3>2. CASE \E at \in WorkerPlaces \ {"blocked"} : WorkerGoes(w, at)
      BY <3>2, WorkerGoesTyped DEF PlacesInv
    <3>3. CASE StealFails(w) /\ worker' = [worker EXCEPT ![w].n = @ + 1]
      BY <1>1, <3>3 DEF WorkerStates
    <3>4. CASE StealTakes(w) \/ PopTakes(w)
      BY <1>1, <3>4 DEF StealTakes, PopTakes, WorkerStates
    <3>5. CASE Ends(w)
      BY <1>1, <3>5 DEF Ends, WorkerStates
    <3>6. CASE TestStop(w)
      BY <1>1, <3>6 DEF TestStop
    <3> QED
      BY <1>7, <3>1, <3>2, <3>3, <3>4, <3>5, <3>6
         DEF StealFails, Run, RunEmpty, PostThrows, Uncount, NotifyWaiters, Spurious,
             WorkerPlaces
  <2>2. \A v \in Workers : Overslept(v)' => Overslept(v)
    BY <1>3, <1>4, <1>5, <2>1 DEF Overslept
  <2> QED
    BY <1>2, <2>2 DEF NoLostWakeup
<1> QED
  BY <1>6, <1>7

\* No worker misses the notification of a push or of the stop of its Queue
\* (push, try_push, pop and stop of Queue).
THEOREM WakeupsArrive == Spec => []NoLostWakeup
<1>1. Init => NoLostWakeup
  BY DEF Init, NoLostWakeup, Overslept
<1>2. PlacesInv /\ NoLostWakeup /\ [Next]_vars => NoLostWakeup'
  <2> SUFFICES ASSUME PlacesInv, NoLostWakeup, [Next]_vars
               PROVE  NoLostWakeup'
    OBVIOUS
  <2>1. CASE UNCHANGED vars
    BY <2>1 DEF vars, history, NoLostWakeup, Overslept, Notifies
  <2>2. ASSUME NEW w \in Workers, WorkerStep(w) \/ Spurious(w)
        PROVE  NoLostWakeup'
    BY <2>2, LoopWake, CallWake DEF WorkerStep, Callers
  <2>3. ASSUME NEW c \in Callers, CallStep(c) \/ (c \in Clients /\ (Call(c) \/ WaitWakes(c)))
        PROVE  NoLostWakeup'
    BY <2>3, CallWake
  <2> QED
    BY <2>1, <2>2, <2>3 DEF Next, Callers
<1> QED
  BY <1>1, <1>2, PlacesAlways, PTL DEF Spec

-----------------------------------------------------------------------------
(* Tasks that are not lost on the way.                                     *)

\* No failed try empties a task: nobody tries, or all tasks are counted ones.
NoneEmptied == ~EnableWorkSteal \/ Counted = Items

FullInv ==
  /\ \A c \in Callers : call[c].at \in PostPlaces => call[c].fn # None
  /\ \A q \in Workers : \A n \in DOMAIN queue[q] : queue[q][n].fn # None
  /\ \A w \in Workers : worker[w].at = "run" => worker[w].fn # None

\* Only a worker that runs an empty function throws for it.
LEMMA EmptyFaults ==
  ASSUME [Next]_vars
  PROVE  \/ fault' \in {fault, "uncaught exception"}
         \/ \E w \in Workers : worker[w].at = "run" /\ worker[w].fn = None
  BY DEF Next, WorkerStep, CallStep, Call, vars, CallPost, TaskPosts, Count, TryPush, TryFails,
         Push, NotifyOne, TestStop, StealTakes, StealFails, PopTakes, PopWaits, Spurious, Run,
         RunEmpty, PostThrows, Uncount, NotifyWaiters, CallWait, WaitReturns, WaitTests,
         WaitSleeps, WaitWakes, CallCancel, CancelClears, CancelReturns, CallDestroy,
         StopQueue, StopNotifies, Join

LEMMA FullStep ==
  ASSUME NoneEmptied, PlacesInv, FullInv, [Next]_vars
  PROVE  FullInv' /\ ~\E c \in Callers : Loses(c)
<1>1. PlacesInv' /\ Kind
  BY StepKinds DEF Good
<1>2. ~\E c \in Callers : Loses(c)
  <2> SUFFICES ASSUME NEW c \in Callers, Loses(c)
               PROVE  FALSE
    OBVIOUS
  <2>1. EnableWorkSteal /\ call[c].fn # None /\ call[c].fn \in Items \cup {None}
    BY DEF Loses, PlacesInv, PostsInv, FullInv, TypeOK, Calls
  <2> QED
    BY <2>1 DEF NoneEmptied, Loses
<1>3. \A c \in Callers : call'[c].at \in PostPlaces => call'[c].fn # None
  <2>1. CASE SameCalls
    BY <2>1 DEF FullInv, SameCalls
  <2>2. CASE \E c \in Callers, x \in Items : Begins(c, x)
    BY <2>2, PoolAssumption DEF FullInv, Begins, OtherCalls
  <2>3. CASE \E c \in Callers, q \in Workers : Gives(c, q)
    BY <2>3 DEF FullInv, Gives, OtherCalls
  <2> QED
    BY <1>1, <1>2, <2>1, <2>2, <2>3 DEF Kind, Still, Takes, Completes, Drops
<1>4. \A q \in Workers : \A n \in DOMAIN queue'[q] : queue'[q][n].fn # None
  <2> SUFFICES ASSUME NEW q \in Workers, NEW n \in DOMAIN queue'[q]
               PROVE  queue'[q][n].fn # None
    OBVIOUS
  <2>1. CASE \E m \in DOMAIN queue[q] : queue'[q][n] = queue[q][m]
    BY <2>1 DEF FullInv
  <2>2. ASSUME NEW c \in Callers, Gives(c, q),
               queue'[q][n].fn = call[c].fn, queue'[q][n].canSteal = Stealable(c)
        PROVE  queue'[q][n].fn # None
    BY <2>2 DEF FullInv, Gives
  <2> QED
    BY <1>1, <2>1, <2>2, NewItems
<1>5. \A w \in Workers : worker'[w].at = "run" => worker'[w].fn # None
  <2>1. CASE SameWork
    BY <2>1 DEF FullInv, SameWork
  <2>2. ASSUME NEW w \in Workers, NEW q \in Workers, Takes(w, q)
        PROVE  \A v \in Workers : worker'[v].at = "run" => worker'[v].fn # None
    <3>1. Head(queue[q]).fn # None
      BY <2>2, TakesItems DEF FullInv
    <3> QED
      BY <2>2, <3>1 DEF Takes, FullInv
  <2>3. CASE \E w \in Workers : Completes(w)
    BY <2>3 DEF Completes, FullInv
  <2> QED
    BY <1>1, <1>2, <2>1, <2>2, <2>3 DEF Kind, Still, Begins, Gives, Drops
<1> QED
  BY <1>2, <1>3, <1>4, <1>5 DEF FullInv

LEMMA FullInit ==
  ASSUME Init
  PROVE  FullInv
  BY DEF Init, FullInv, Idle

\* When no failed try empties a task, no worker calls an empty function: the
\* push after the tries gets the task they were made for (thread_pool.hpp:156).
THEOREM NeverEmpty ==
  ASSUME NoneEmptied
  PROVE  Spec => []NoEmptyTask
<1>1. Init => FullInv /\ NoEmptyTask
  BY FullInit, NoneAssumption DEF Init, NoEmptyTask
<1>2. PlacesInv /\ FullInv /\ NoEmptyTask /\ [Next]_vars => FullInv' /\ NoEmptyTask'
  BY FullStep, EmptyFaults DEF FullInv, NoEmptyTask
<1> QED
  BY <1>1, <1>2, PlacesAlways, PTL DEF Spec

-----------------------------------------------------------------------------
(* The pool is a bag of tasks.                                             *)

Waiting == (Posting \ {None}) \cup InQueues
Taken == (Holding \cup Done) \ {None}

\* No task is in two of the places where tasks wait.
OneCall == \A c, d \in Callers : call[c].fn = call[d].fn /\ call[c].fn # None => c = d
CallOrQueue ==
  \A c \in Callers, q \in Workers : \A n \in DOMAIN queue[q] : queue[q][n].fn # call[c].fn
OneItem ==
  \A p, q \in Workers : \A m \in DOMAIN queue[p], n \in DOMAIN queue[q] :
    queue[p][m].fn = queue[q][n].fn => p = q /\ m = n
AllUsed == Waiting \cup Taken \cup cancelled \subseteq used
UniqueInv == OneCall /\ CallOrQueue /\ OneItem /\ AllUsed

BagInv == PlacesInv /\ FullInv /\ UniqueInv

LEMMA InQueuesIs ==
  /\ \A x : x \in InQueues <=>
       x # None /\ \E q \in Workers : \E n \in DOMAIN queue[q] : queue[q][n].fn = x
  /\ \A x : x \in InQueues' <=>
       x # None /\ \E q \in Workers : \E n \in DOMAIN queue'[q] : queue'[q][n].fn = x
  BY DEF InQueues, Elements

LEMMA WaitingIs ==
  /\ \A x : x \in Waiting <=> x # None /\ (x \in Posting \/ x \in InQueues)
  /\ \A x : x \in Waiting' <=> x # None /\ (x \in Posting' \/ x \in InQueues')
  BY InQueuesIs DEF Waiting

LEMMA PostingSame ==
  ASSUME SameCalls
  PROVE  Posting' = Posting
  BY DEF SameCalls, Posting

LEMMA HoldingSame ==
  ASSUME SameWork
  PROVE  Holding' = Holding
  BY DEF SameWork, Holding

LEMMA QueuesSame ==
  ASSUME UNCHANGED queue
  PROVE  InQueues' = InQueues
  BY DEF InQueues, Elements

\* What each kind of step does to the bag.
LEMMA StillBag ==
  ASSUME Still
  PROVE  UNCHANGED <<Waiting, Taken, cancelled>>
  BY PostingSame, HoldingSame, QueuesSame DEF Still, Waiting, Taken, Done, history

LEMMA BeginsBag ==
  ASSUME BagInv, NEW c \in Callers, NEW x \in Items, Begins(c, x)
  PROVE  /\ x \notin Waiting \cup Taken \cup cancelled
         /\ Waiting' = Waiting \cup {x}
         /\ UNCHANGED <<Taken, cancelled>>
<1>1. x # None
  BY PoolAssumption
<1>2. \A y : y # None => (y \in Posting' <=> y \in Posting \/ y = x)
  BY <1>1 DEF Begins, OtherCalls, Posting
<1>3. InQueues' = InQueues
  BY QueuesSame DEF Begins
<1>4. Waiting' = Waiting \cup {x}
  BY <1>1, <1>2, <1>3, WaitingIs
<1>5. UNCHANGED <<Taken, cancelled>>
  BY HoldingSame DEF Begins, Taken, Done
<1> QED
  BY <1>4, <1>5 DEF BagInv, UniqueInv, AllUsed, Begins

LEMMA GivesBag ==
  ASSUME BagInv, NEW c \in Callers, NEW q \in Workers, Gives(c, q)
  PROVE  UNCHANGED <<Waiting, Taken, cancelled>>
<1> DEFINE x == call[c].fn
<1>1. x # None /\ x \in Posting
  BY DEF BagInv, FullInv, Gives, Posting
<1>2. \A y : y # None => (y \in Posting' => y \in Posting) /\ (y \in Posting => y \in Posting' \/ y = x)
  BY DEF Gives, OtherCalls, Posting
<1>3. \A y : y \in InQueues' <=> y \in InQueues \/ y = x
  <2>0. \A p \in Workers : \A n \in DOMAIN queue'[p] :
          (n \in DOMAIN queue[p] /\ queue'[p][n] = queue[p][n]) \/ queue'[p][n].fn = x
    BY GivesItems DEF BagInv
  <2>1. \A y : y \in InQueues' => y \in InQueues \/ y = x
    BY <2>0, InQueuesIs
  <2>2. queue[q] \in Seq(WorkItem) /\ queue \in [Workers -> Seq(WorkItem)]
    BY DEF BagInv, PlacesInv, TypeOK
  <2> DEFINE i == [canSteal |-> Stealable(c), fn |-> x]
  <2>3. i.fn = x /\ queue' = [queue EXCEPT ![q] = Append(@, i)] /\ i \in WorkItem
    BY PoolAssumption DEF Gives, BagInv, PlacesInv, TypeOK, Calls, WorkItem, Stealable
  <2> HIDE DEF i
  <2>4. /\ \A n \in DOMAIN queue[q] : n \in DOMAIN Append(queue[q], i)
                                      /\ Append(queue[q], i)[n] = queue[q][n]
        /\ Len(queue[q]) + 1 \in DOMAIN Append(queue[q], i)
        /\ Append(queue[q], i)[Len(queue[q]) + 1] = i
    BY <2>2, <2>3
  <2>5. queue'[q] = Append(queue[q], i) /\ \A p \in Workers \ {q} : queue'[p] = queue[p]
    BY <2>2, <2>3
  <2>6. x \in InQueues'
    BY <1>1, <2>3, <2>4, <2>5, InQueuesIs
  <2>7. \A y : y \in InQueues => y \in InQueues'
    BY <2>4, <2>5, InQueuesIs
  <2> QED
    BY <2>1, <2>6, <2>7
<1>4. Waiting' = Waiting
  BY <1>1, <1>2, <1>3, WaitingIs
<1> QED
  BY <1>4, HoldingSame DEF Gives, Taken, Done, history

LEMMA TakesBag ==
  ASSUME BagInv, NEW w \in Workers, NEW q \in Workers, Takes(w, q)
  PROVE  \E x \in Waiting : /\ Waiting' = Waiting \ {x}
                            /\ Taken' = Taken \cup {x}
                            /\ UNCHANGED cancelled
<1> DEFINE x == queue[q][1].fn
<1>1. /\ 1 \in DOMAIN queue[q] /\ x # None /\ x \in InQueues
      /\ worker'[w].fn = x
  <2>1. 1 \in DOMAIN queue[q] /\ worker'[w].fn = x
    BY TakesItems DEF BagInv, Takes
  <2>2. x # None
    BY <2>1 DEF BagInv, FullInv
  <2> QED
    BY <2>1, <2>2, InQueuesIs
<1>2. x \notin Posting
  BY <1>1 DEF BagInv, UniqueInv, CallOrQueue, Posting
<1>3. \A y : y \in InQueues' => y \in InQueues \ {x}
  <2> SUFFICES ASSUME NEW y \in InQueues'
               PROVE  y \in InQueues /\ y # x
    OBVIOUS
  <2>0. PICK p \in Workers : \E n \in DOMAIN queue'[p] : queue'[p][n].fn = y
    BY InQueuesIs
  <2>1. PICK n \in DOMAIN queue'[p] : queue'[p][n].fn = y
    BY <2>0
  <2>2. CASE p # q
    <3>1. queue'[p] = queue[p]
      BY <2>2, TakesItems DEF BagInv
    <3> QED
      BY <1>1, <2>1, <2>2, <3>1, InQueuesIs DEF BagInv, UniqueInv, OneItem
  <2>3. CASE p = q
    <3>1. n + 1 \in DOMAIN queue[q] /\ n + 1 # 1 /\ queue'[q][n] = queue[q][n + 1]
      BY <2>1, <2>3, TakesItems DEF BagInv
    <3> QED
      BY <1>1, <2>1, <2>3, <3>1, InQueuesIs DEF BagInv, UniqueInv, OneItem
  <2> QED
    BY <2>2, <2>3
<1>4. \A y : y \in InQueues \ {x} => y \in InQueues'
  <2> SUFFICES ASSUME NEW y \in InQueues, y # x
               PROVE  y \in InQueues'
    OBVIOUS
  <2>0. PICK p \in Workers : \E n \in DOMAIN queue[p] : queue[p][n].fn = y /\ y # None
    BY InQueuesIs
  <2>1. PICK n \in DOMAIN queue[p] : queue[p][n].fn = y /\ y # None
    BY <2>0
  <2>2. CASE p # q
    <3>1. queue'[p] = queue[p]
      BY <2>2, TakesItems DEF BagInv
    <3> QED
      BY <2>1, <3>1, InQueuesIs
  <2>3. CASE p = q
    <3>1. n # 1
      BY <2>1, <2>3
    <3>2. n - 1 \in DOMAIN queue'[q] /\ queue'[q][n - 1] = queue[q][n]
      BY <2>1, <2>3, <3>1, TakesItems DEF BagInv
    <3> QED
      BY <2>1, <2>3, <3>2, InQueuesIs
  <2> QED
    BY <2>2, <2>3
<1>5. Posting' = Posting
  BY PostingSame DEF Takes
<1>6. Waiting' = Waiting \ {x} /\ x \in Waiting
  BY <1>1, <1>2, <1>3, <1>4, <1>5, WaitingIs
<1>7. Taken' = Taken \cup {x}
  BY <1>1 DEF Takes, Taken, Holding, Done, history
<1> QED
  BY <1>6, <1>7 DEF Takes, history

LEMMA CompletesBag ==
  ASSUME BagInv, NEW w \in Workers, Completes(w)
  PROVE  UNCHANGED <<Waiting, Taken, cancelled>>
<1> DEFINE x == worker[w].fn
<1>1. x \in Items /\ x # None /\ w # None
  BY PoolAssumption, NoneAssumption DEF Completes
<1>2. Done' = Done \cup {x}
  BY <1>1 DEF Completes, Done, BagInv, PlacesInv, TypeOK
<1>3. \A y : y # None => (y \in Holding' => y \in Holding) /\ (y \in Holding => y \in Holding' \/ y = x)
  BY DEF Completes, Holding
<1>4. x \in Holding
  BY DEF Holding
<1>5. Taken' = Taken
  BY <1>1, <1>2, <1>3, <1>4 DEF Taken
<1> QED
  BY <1>5, PostingSame, QueuesSame DEF Completes, Waiting

LEMMA DropsBag ==
  ASSUME BagInv, NEW q \in Workers, Drops(q)
  PROVE  \E some \in SUBSET Waiting : /\ Waiting' = Waiting \ some
                                      /\ cancelled' = cancelled \cup some
                                      /\ UNCHANGED Taken
<1> DEFINE some == Elements(queue[q])
<1>1. \A y : y \in some <=> y # None /\ \E n \in DOMAIN queue[q] : queue[q][n].fn = y
  BY DEF Elements
<1> HIDE DEF some
<1>2. \A y : y \in InQueues' <=> y \in InQueues \ some
  <2>1. \A p \in Workers \ {q} : queue'[p] = queue[p]
    BY DropsItems DEF BagInv
  <2>2. DOMAIN queue'[q] = {}
    BY DropsItems DEF BagInv
  <2>3. ASSUME NEW y \in InQueues'
        PROVE  y \in InQueues \ some
    <3>0. PICK p \in Workers : \E n \in DOMAIN queue'[p] : queue'[p][n].fn = y /\ y # None
      BY <2>3, InQueuesIs
    <3>1. PICK n \in DOMAIN queue'[p] : queue'[p][n].fn = y /\ y # None
      BY <3>0
    <3>2. p # q
      BY <2>2, <3>1
    <3>3. n \in DOMAIN queue[p] /\ queue[p][n].fn = y
      BY <2>1, <3>1, <3>2
    <3> QED
      BY <1>1, <3>1, <3>2, <3>3, InQueuesIs DEF BagInv, UniqueInv, OneItem
  <2>4. ASSUME NEW y \in InQueues \ some
        PROVE  y \in InQueues'
    BY <1>1, <2>1, <2>4, InQueuesIs
  <2> QED
    BY <2>3, <2>4
<1>3. \A y : y \in some => y \in InQueues /\ y \notin Posting
  BY <1>1, InQueuesIs DEF BagInv, UniqueInv, CallOrQueue, Posting
<1>4. Posting' = Posting
  BY PostingSame DEF Drops
<1>5. Waiting' = Waiting \ some /\ some \subseteq Waiting
  <2>1. some \subseteq Waiting
    BY <1>1, <1>3, WaitingIs
  <2>2. \A y : y \in Waiting' <=> y \in Waiting /\ y \notin some
    BY <1>2, <1>3, <1>4, WaitingIs
  <2> QED
    BY <2>1, <2>2
<1>6. UNCHANGED Taken
  BY HoldingSame DEF Drops, Taken, Done
<1> QED
  BY <1>5, <1>6 DEF Drops, some

LEMMA BagStep ==
  ASSUME NoneEmptied, BagInv, [Next]_vars
  PROVE  [Bag!Next]_(Bag!vars) /\ AllUsed'
<1>1. Kind /\ ~\E c \in Callers : Loses(c)
  BY StepKinds, FullStep DEF Good, BagInv
<1>2. ASSUME UNCHANGED <<Waiting, Taken, cancelled>>, used \subseteq used'
      PROVE  [Bag!Next]_(Bag!vars) /\ AllUsed'
  BY <1>2 DEF Bag!vars, Waiting, Taken, AllUsed, BagInv, UniqueInv
<1>3. ASSUME NEW c \in Callers, NEW x \in Items, Begins(c, x)
      PROVE  [Bag!Next]_(Bag!vars) /\ AllUsed'
  <2>1. Bag!Put(x)
    BY <1>3, BeginsBag DEF Bag!Put, Waiting, Taken
  <2>2. AllUsed'
    BY <1>3, BeginsBag DEF Begins, AllUsed, BagInv, UniqueInv
  <2> QED
    BY <2>1, <2>2 DEF Bag!Next
<1>4. ASSUME NEW w \in Workers, NEW q \in Workers, Takes(w, q)
      PROVE  [Bag!Next]_(Bag!vars) /\ AllUsed'
  <2>1. PICK x \in Waiting : /\ Waiting' = Waiting \ {x}
                             /\ Taken' = Taken \cup {x}
                             /\ UNCHANGED cancelled
    BY <1>4, TakesBag
  <2>2. x \in Items
    BY DEF AllUsed, BagInv, UniqueInv, PlacesInv, TypeOK
  <2>3. Bag!Take(x)
    BY <2>1 DEF Bag!Take, Waiting, Taken
  <2>4. AllUsed'
    BY <1>4, <2>1 DEF Takes, history, AllUsed, BagInv, UniqueInv
  <2> QED
    BY <2>2, <2>3, <2>4 DEF Bag!Next
<1>5. ASSUME NEW q \in Workers, Drops(q)
      PROVE  [Bag!Next]_(Bag!vars) /\ AllUsed'
  <2>1. PICK some \in SUBSET Waiting : /\ Waiting' = Waiting \ some
                                       /\ cancelled' = cancelled \cup some
                                       /\ UNCHANGED Taken
    BY <1>5, DropsBag
  <2>2. Bag!Discard
    BY <2>1 DEF Bag!Discard, Waiting, Taken
  <2>3. AllUsed'
    BY <1>5, <2>1 DEF Drops, AllUsed, BagInv, UniqueInv
  <2> QED
    BY <2>2, <2>3 DEF Bag!Next
<1> QED
  BY <1>1, <1>2, <1>3, <1>4, <1>5, StillBag, GivesBag, CompletesBag
     DEF Kind, Still, Gives, Completes, history

LEMMA UniqueStep ==
  ASSUME NoneEmptied, BagInv, [Next]_vars
  PROVE  OneCall' /\ CallOrQueue' /\ OneItem'
<1>1. Kind /\ ~(\E c \in Callers : Loses(c)) /\ FullInv'
  BY StepKinds, FullStep DEF Good, BagInv
<1>2. /\ \A c \in Callers : call[c].fn # None => call[c].fn \in used
      /\ \A q \in Workers : \A n \in DOMAIN queue[q] : queue[q][n].fn \in used
  BY WaitingIs, InQueuesIs DEF BagInv, FullInv, UniqueInv, AllUsed, Posting
<1>3. ASSUME SameCalls
      PROVE  /\ OneCall'
             /\ UNCHANGED queue => CallOrQueue'
  BY <1>3 DEF SameCalls, BagInv, UniqueInv, OneCall, CallOrQueue
<1>4. ASSUME UNCHANGED queue
      PROVE  OneItem'
  BY <1>4 DEF BagInv, UniqueInv, OneItem
<1>5. ASSUME NEW c \in Callers, NEW x \in Items, Begins(c, x)
      PROVE  OneCall' /\ CallOrQueue' /\ OneItem'
  <2>1. \A d \in Callers : call'[d].fn = IF d = c THEN x ELSE call[d].fn
    BY <1>5 DEF Begins, OtherCalls
  <2>2. x \notin used /\ UNCHANGED queue
    BY <1>5 DEF Begins
  <2>3. OneCall'
    BY <1>2, <2>1, <2>2 DEF BagInv, UniqueInv, OneCall
  <2>4. CallOrQueue'
    BY <1>2, <2>1, <2>2 DEF BagInv, UniqueInv, CallOrQueue
  <2> QED
    BY <1>4, <2>2, <2>3, <2>4
<1>6. ASSUME NEW c \in Callers, NEW q \in Workers, Gives(c, q)
      PROVE  OneCall' /\ CallOrQueue' /\ OneItem'
  <2> DEFINE x == call[c].fn
  <2>1. x # None /\ \A d \in Callers : call'[d].fn = IF d = c THEN None ELSE call[d].fn
    BY <1>6 DEF Gives, OtherCalls, BagInv, FullInv
  <2>2. \A p \in Workers : \A n \in DOMAIN queue'[p] :
          \/ n \in DOMAIN queue[p] /\ queue'[p][n] = queue[p][n]
          \/ p = q /\ n = Len(queue[q]) + 1 /\ queue'[p][n].fn = x
    <3>1. PlacesInv
      BY DEF BagInv
    <3> QED
      BY <1>6, <3>1, GivesItems
  <2>3. OneCall'
    BY <2>1 DEF BagInv, UniqueInv, OneCall
  <2>4. CallOrQueue'
    BY <1>1, <2>1, <2>2 DEF BagInv, UniqueInv, CallOrQueue, OneCall, FullInv
  <2>5. OneItem'
    <3> SUFFICES ASSUME NEW p \in Workers, NEW r \in Workers,
                        NEW m \in DOMAIN queue'[p], NEW n \in DOMAIN queue'[r],
                        queue'[p][m].fn = queue'[r][n].fn
                 PROVE  p = r /\ m = n
      BY DEF OneItem
    <3> QED
      BY <2>2 DEF BagInv, UniqueInv, OneItem, CallOrQueue
  <2> QED
    BY <2>3, <2>4, <2>5
<1>7. ASSUME NEW w \in Workers, NEW q \in Workers, Takes(w, q)
      PROVE  OneCall' /\ CallOrQueue' /\ OneItem'
  <2>1. SameCalls
    BY <1>7 DEF Takes
  <2>2. /\ \A p \in Workers \ {q} : queue'[p] = queue[p]
        /\ \A n \in DOMAIN queue'[q] : n + 1 \in DOMAIN queue[q] /\ queue'[q][n] = queue[q][n + 1]
    BY <1>7, TakesItems DEF BagInv
  <2>3. CallOrQueue'
    BY <2>1, <2>2 DEF SameCalls, BagInv, UniqueInv, CallOrQueue
  <2>4. OneItem'
    <3> SUFFICES ASSUME NEW p \in Workers, NEW r \in Workers,
                        NEW m \in DOMAIN queue'[p], NEW n \in DOMAIN queue'[r],
                        queue'[p][m].fn = queue'[r][n].fn
                 PROVE  p = r /\ m = n
      BY DEF OneItem
    <3>1. CASE p # q /\ r # q
      BY <2>2, <3>1 DEF BagInv, UniqueInv, OneItem
    <3>2. CASE p = q /\ r # q
      BY <2>2, <3>2 DEF BagInv, UniqueInv, OneItem
    <3>3. CASE p # q /\ r = q
      BY <2>2, <3>3 DEF BagInv, UniqueInv, OneItem
    <3>4. CASE p = q /\ r = q
      <4>1. m + 1 = n + 1
        BY <2>2, <3>4 DEF BagInv, UniqueInv, OneItem
      <4>2. queue'[q] \in Seq(WorkItem)
        BY StepKinds DEF Good, BagInv, PlacesInv, TypeOK
      <4>3. m \in Nat /\ n \in Nat
        BY <3>4, <4>2
      <4> QED
        BY <3>4, <4>1, <4>3
    <3> QED
      BY <3>1, <3>2, <3>3, <3>4
  <2> QED
    BY <1>3, <2>1, <2>3, <2>4
<1>8. ASSUME NEW q \in Workers, Drops(q)
      PROVE  OneCall' /\ CallOrQueue' /\ OneItem'
  <2>1. SameCalls
    BY <1>8 DEF Drops
  <2>2. \A p \in Workers : \A n \in DOMAIN queue'[p] : p # q /\ queue'[p] = queue[p]
    BY <1>8, DropsItems DEF BagInv
  <2>3. CallOrQueue'
    BY <2>1, <2>2 DEF SameCalls, BagInv, UniqueInv, CallOrQueue
  <2>4. OneItem'
    BY <2>2 DEF BagInv, UniqueInv, OneItem
  <2> QED
    BY <1>3, <2>1, <2>3, <2>4
<1> QED
  BY <1>1, <1>3, <1>4, <1>5, <1>6, <1>7, <1>8 DEF Kind, Still, Completes

LEMMA BagInit ==
  ASSUME Init
  PROVE  BagInv /\ Waiting = {} /\ Taken = {}
<1>1. /\ \A c \in Callers : call[c].fn = None
      /\ \A q \in Workers : queue[q] = <<>> /\ worker[q].fn = None
      /\ ranOn = [x \in Items |-> None] /\ cancelled = {} /\ used = {}
  BY DEF Init, Idle
<1>2. \A q \in Workers : DOMAIN queue[q] = {}
  BY <1>1
<1>3. Waiting = {}
  BY <1>1, <1>2, WaitingIs, InQueuesIs DEF Posting
<1>4. Taken = {}
  BY <1>1 DEF Taken, Holding, Done
<1>5. UniqueInv
  BY <1>1, <1>2, <1>3, <1>4 DEF UniqueInv, OneCall, CallOrQueue, OneItem, AllUsed
<1> QED
  BY <1>3, <1>4, <1>5, PlacesInit, FullInit DEF BagInv

LEMMA BagKept ==
  ASSUME NoneEmptied, BagInv, [Next]_vars
  PROVE  BagInv' /\ [Bag!Next]_(Bag!vars)
  BY BagStep, UniqueStep, FullStep, StepKinds DEF BagInv, UniqueInv, Good

\* When no failed try empties a task, the pool is a bag of tasks: post puts a
\* task in, one worker takes it out, and only cancel() drops it.
THEOREM PoolIsABag ==
  ASSUME NoneEmptied
  PROVE  Spec => ImplementsTaskBag
<1>1. Init => BagInv /\ Bag!Init
  BY BagInit DEF Init, Bag!Init, Waiting, Taken
<1>2. BagInv /\ [Next]_vars => BagInv' /\ [Bag!Next]_(Bag!vars)
  BY BagKept
<1> QED
  BY <1>1, <1>2, PTL DEF Spec, ImplementsTaskBag, Bag!Spec

-----------------------------------------------------------------------------
(* Each task is in one place.                                              *)

Whole == used = Waiting \cup Taken \cup cancelled
Apart == Waiting \cap Taken = {} /\ Waiting \cap cancelled = {} /\ Taken \cap cancelled = {}

\* Two workers never hold the same task, nor one that was run.
OneHolder ==
  \A v, w \in Workers : worker[v].fn = worker[w].fn /\ worker[v].fn # None => v = w
HeldNotDone == \A w \in Workers : worker[w].fn \notin Done

OnceInv == BagInv /\ Whole /\ Apart /\ OneHolder /\ HeldNotDone

LEMMA TakenIs == \A x : x \in Taken <=> x # None /\ (x \in Done \/ \E w \in Workers : worker[w].fn = x)
  BY DEF Taken, Holding

\* What worker w takes was waiting; nobody else has it or has run it.
LEMMA TakesFresh ==
  ASSUME OnceInv, NEW w \in Workers, NEW q \in Workers, Takes(w, q)
  PROVE  /\ worker'[w].fn \notin Done
         /\ \A v \in Workers : worker[v].fn # worker'[w].fn
<1>1. /\ worker'[w].fn = queue[q][1].fn /\ queue[q][1].fn # None
      /\ 1 \in DOMAIN queue[q]
  BY TakesItems DEF Takes, OnceInv, BagInv, FullInv
<1>2. queue[q][1].fn \in Waiting
  BY <1>1, WaitingIs, InQueuesIs
<1> QED
  BY <1>1, <1>2, TakenIs DEF OnceInv, Apart

LEMMA HoldersStep ==
  ASSUME NoneEmptied, OnceInv, [Next]_vars
  PROVE  OneHolder' /\ HeldNotDone'
<1>1. Kind
  BY StepKinds DEF Good, OnceInv, BagInv
<1>2. ASSUME SameWork, UNCHANGED ranOn
      PROVE  OneHolder' /\ HeldNotDone'
  BY <1>2 DEF SameWork, OnceInv, OneHolder, HeldNotDone, Done
<1>3. ASSUME NEW w \in Workers, NEW q \in Workers, Takes(w, q)
      PROVE  OneHolder' /\ HeldNotDone'
  <2>1. /\ worker'[w].fn \notin Done
        /\ \A v \in Workers : worker[v].fn # worker'[w].fn
    BY <1>3, TakesFresh
  <2>2. \A v \in Workers \ {w} : worker'[v] = worker[v]
    BY <1>3 DEF Takes
  <2>3. Done' = Done
    BY <1>3 DEF Takes, Done, history
  <2> QED
    BY <2>1, <2>2, <2>3 DEF OnceInv, OneHolder, HeldNotDone
<1>4. ASSUME NEW w \in Workers, Completes(w)
      PROVE  OneHolder' /\ HeldNotDone'
  <2>1. \A v \in Workers \ {w} : worker'[v] = worker[v]
    BY <1>4 DEF Completes
  <2>2. worker'[w].fn = None /\ worker[w].fn \in Items /\ None \notin Items
    BY <1>4, PoolAssumption DEF Completes
  <2>3. Done' \subseteq Done \cup {worker[w].fn} /\ Done' \subseteq Items
    BY <1>4 DEF Completes, Done, OnceInv, BagInv, PlacesInv, TypeOK
  <2>4. OneHolder'
    BY <2>1, <2>2 DEF OnceInv, OneHolder
  <2>5. HeldNotDone'
    BY <2>1, <2>2, <2>3 DEF OnceInv, OneHolder, HeldNotDone
  <2> QED
    BY <2>4, <2>5
<1> QED
  BY <1>1, <1>2, <1>3, <1>4
     DEF Kind, Still, Begins, Gives, Loses, Drops, history

LEMMA WholeStep ==
  ASSUME NoneEmptied, OnceInv, [Next]_vars
  PROVE  Whole' /\ Apart'
<1>0. BagInv /\ Whole /\ Apart
  BY DEF OnceInv
<1>1. Kind /\ ~\E c \in Callers : Loses(c)
  BY <1>0, StepKinds, FullStep DEF Good, BagInv
<1>2. ASSUME UNCHANGED <<Waiting, Taken, cancelled, used>>
      PROVE  Whole' /\ Apart'
  BY <1>0, <1>2 DEF Whole, Apart
<1>3. ASSUME NEW c \in Callers, NEW x \in Items, Begins(c, x)
      PROVE  Whole' /\ Apart'
  <2>1. used' = used \cup {x}
    BY <1>3 DEF Begins
  <2> QED
    BY <1>0, <1>3, <2>1, BeginsBag DEF Whole, Apart
<1>4. ASSUME NEW w \in Workers, NEW q \in Workers, Takes(w, q)
      PROVE  Whole' /\ Apart'
  <2>1. used' = used
    BY <1>4 DEF Takes, history
  <2> QED
    BY <1>0, <1>4, <2>1, TakesBag DEF Whole, Apart
<1>5. ASSUME NEW q \in Workers, Drops(q)
      PROVE  Whole' /\ Apart'
  <2>1. used' = used
    BY <1>5 DEF Drops
  <2> QED
    BY <1>0, <1>5, <2>1, DropsBag DEF Whole, Apart
<1> QED
  BY <1>0, <1>1, <1>2, <1>3, <1>4, <1>5, StillBag, GivesBag, CompletesBag
     DEF Kind, Still, Gives, Completes, history

LEMMA OnceInit ==
  ASSUME Init
  PROVE  OnceInv
<1>1. BagInv /\ Waiting = {} /\ Taken = {} /\ used = {} /\ cancelled = {}
  BY BagInit DEF Init
<1>2. OneHolder /\ HeldNotDone
  BY PoolAssumption DEF Init, OneHolder, HeldNotDone, Done
<1> QED
  BY <1>1, <1>2 DEF OnceInv, Whole, Apart

LEMMA OnceAlways ==
  ASSUME NoneEmptied
  PROVE  Spec => []OnceInv
<1>1. OnceInv /\ [Next]_vars => OnceInv'
  BY BagKept, HoldersStep, WholeStep DEF OnceInv
<1> QED
  BY <1>1, OnceInit, PTL DEF Spec

LEMMA PlacesIs ==
  ASSUME NEW x
  PROVE  \A p : p \in Places(x) <=>
           \/ \E c \in Callers : call[c].fn = x /\ p = <<"call", c>>
           \/ \E w \in Workers : worker[w].fn = x /\ p = <<"worker", w>>
           \/ \E q \in Workers : \E n \in DOMAIN queue[q] :
                queue[q][n].fn = x /\ p = <<"queue", <<q, n>>>>
           \/ x \in Done /\ p = <<"done", x>>
           \/ x \in cancelled /\ p = <<"cancelled", x>>
<1> DEFINE Spots == UNION {{w} \X DOMAIN queue[w] : w \in Workers}
           There == {p \in Spots : queue[p[1]][p[2]].fn = x}
<1>1. \A s : s \in There <=> \E q \in Workers : \E n \in DOMAIN queue[q] :
                                queue[q][n].fn = x /\ s = <<q, n>>
  OBVIOUS
<1>2. \A p : p \in {<<"queue", s>> : s \in There} <=>
               \E q \in Workers : \E n \in DOMAIN queue[q] :
                 queue[q][n].fn = x /\ p = <<"queue", <<q, n>>>>
  <2> HIDE DEF There
  <2> QED
    BY <1>1
<1>3. Places(x) = {<<"call", c>> : c \in {c \in Callers : call[c].fn = x}}
                  \cup {<<"worker", w>> : w \in {w \in Workers : worker[w].fn = x}}
                  \cup {<<"queue", s>> : s \in There}
                  \cup {<<"done", y>> : y \in Done \cap {x}}
                  \cup {<<"cancelled", y>> : y \in cancelled \cap {x}}
  BY DEF Places
<1> HIDE DEF There
<1> QED
  BY <1>2, <1>3

LEMMA OnlyOne ==
  ASSUME NEW S, NEW e, \A p : p \in S <=> p = e
  PROVE  S = {e}
<1>1. S \subseteq {e} /\ {e} \subseteq S
  OBVIOUS
<1> QED
  BY <1>1

LEMMA OnePlace ==
  ASSUME OnceInv, NEW x \in used
  PROVE  \E p : Places(x) = {p}
<1>0. x # None
  BY PoolAssumption DEF OnceInv, BagInv, PlacesInv, TypeOK
<1>i. /\ \A c \in Callers : call[c].fn = x => x \in Waiting
      /\ \A q \in Workers : \A n \in DOMAIN queue[q] : queue[q][n].fn = x => x \in Waiting
      /\ \A w \in Workers : worker[w].fn = x => x \in Taken /\ x \notin Done
      /\ x \in Done => x \in Taken
  BY <1>0, WaitingIs, InQueuesIs, TakenIs DEF Posting, OnceInv, HeldNotDone
<1>u. /\ \A c, d \in Callers : call[c].fn = x /\ call[d].fn = x => c = d
      /\ \A v, w \in Workers : worker[v].fn = x /\ worker[w].fn = x => v = w
      /\ \A p, q \in Workers : \A m \in DOMAIN queue[p], n \in DOMAIN queue[q] :
           queue[p][m].fn = x /\ queue[q][n].fn = x => p = q /\ m = n
      /\ \A c \in Callers, q \in Workers : \A n \in DOMAIN queue[q] :
           call[c].fn = x => queue[q][n].fn # x
  BY <1>0 DEF OnceInv, OneHolder, BagInv, UniqueInv, OneCall, OneItem, CallOrQueue
<1> DEFINE InCalls(p) == \E c \in Callers : call[c].fn = x /\ p = <<"call", c>>
           InWorkers(p) == \E w \in Workers : worker[w].fn = x /\ p = <<"worker", w>>
           InItems(p) == \E q \in Workers : \E n \in DOMAIN queue[q] :
                           queue[q][n].fn = x /\ p = <<"queue", <<q, n>>>>
<1>p. \A p : p \in Places(x) <=> \/ InCalls(p) \/ InWorkers(p) \/ InItems(p)
                                 \/ x \in Done /\ p = <<"done", x>>
                                 \/ x \in cancelled /\ p = <<"cancelled", x>>
  BY PlacesIs
<1>c. (\A c \in Callers : call[c].fn # x) => \A p : ~InCalls(p)
  OBVIOUS
<1>w. (\A w \in Workers : worker[w].fn # x) => \A p : ~InWorkers(p)
  OBVIOUS
<1>q. (\A q \in Workers : \A n \in DOMAIN queue[q] : queue[q][n].fn # x) => \A p : ~InItems(p)
  OBVIOUS
<1>1. CASE x \in Waiting
  <2>1. x \notin cancelled /\ x \notin Done /\ \A w \in Workers : worker[w].fn # x
    BY <1>1, <1>i DEF OnceInv, Apart
  <2>2. CASE \E c \in Callers : call[c].fn = x
    <3>1. PICK c \in Callers : call[c].fn = x
      BY <2>2
    <3>2. \A p : InCalls(p) <=> p = <<"call", c>>
      BY <3>1, <1>u
    <3>3. \A q \in Workers : \A n \in DOMAIN queue[q] : queue[q][n].fn # x
      BY <3>1, <1>u
    <3> HIDE DEF InCalls, InWorkers, InItems
    <3>4. \A p : p \in Places(x) <=> p = <<"call", c>>
      BY <3>2, <3>3, <2>1, <1>p, <1>q, <1>w
    <3>5. Places(x) = {<<"call", c>>}
      BY <3>4, OnlyOne
    <3> QED
      BY <3>5
  <2>3. CASE \E q \in Workers : \E n \in DOMAIN queue[q] : queue[q][n].fn = x
    <3>1. PICK q \in Workers : \E n \in DOMAIN queue[q] : queue[q][n].fn = x
      BY <2>3
    <3>2. PICK n \in DOMAIN queue[q] : queue[q][n].fn = x
      BY <3>1
    <3>3. \A p : InItems(p) <=> p = <<"queue", <<q, n>>>>
      BY <3>2, <1>u
    <3>4. \A c \in Callers : call[c].fn # x
      BY <3>2, <1>u
    <3> HIDE DEF InCalls, InWorkers, InItems
    <3>5. \A p : p \in Places(x) <=> p = <<"queue", <<q, n>>>>
      BY <3>3, <3>4, <2>1, <1>p, <1>c, <1>w
    <3>6. Places(x) = {<<"queue", <<q, n>>>>}
      BY <3>5, OnlyOne
    <3> QED
      BY <3>6
  <2> QED
    BY <1>1, <2>2, <2>3, WaitingIs, InQueuesIs DEF Posting
<1>2. CASE x \in Taken
  <2>1. /\ x \notin cancelled
        /\ \A c \in Callers : call[c].fn # x
        /\ \A q \in Workers : \A n \in DOMAIN queue[q] : queue[q][n].fn # x
    BY <1>2, <1>i DEF OnceInv, Apart
  <2>2. CASE x \in Done
    <3>1. \A p : p \in Places(x) <=> p = <<"done", x>>
      <4>1. \A w \in Workers : worker[w].fn # x
        BY <2>2, <1>i
      <4> HIDE DEF InCalls, InWorkers, InItems
      <4> QED
        BY <4>1, <2>1, <2>2, <1>p, <1>c, <1>w, <1>q
    <3>2. Places(x) = {<<"done", x>>}
      BY <3>1, OnlyOne
    <3> QED
      BY <3>2
  <2>3. CASE x \notin Done
    <3>1. PICK w \in Workers : worker[w].fn = x
      BY <1>2, <2>3, TakenIs
    <3>2. \A p : InWorkers(p) <=> p = <<"worker", w>>
      BY <3>1, <1>u
    <3> HIDE DEF InCalls, InWorkers, InItems
    <3>3. \A p : p \in Places(x) <=> p = <<"worker", w>>
      BY <3>2, <2>1, <2>3, <1>p, <1>c, <1>q
    <3>4. Places(x) = {<<"worker", w>>}
      BY <3>3, OnlyOne
    <3> QED
      BY <3>4
  <2> QED
    BY <2>2, <2>3
<1>3. CASE x \in cancelled
  <2>1. /\ x \notin Done
        /\ \A c \in Callers : call[c].fn # x
        /\ \A w \in Workers : worker[w].fn # x
        /\ \A q \in Workers : \A n \in DOMAIN queue[q] : queue[q][n].fn # x
    BY <1>3, <1>i DEF OnceInv, Apart
  <2> HIDE DEF InCalls, InWorkers, InItems
  <2>2. \A p : p \in Places(x) <=> p = <<"cancelled", x>>
    BY <1>3, <2>1, <1>p, <1>c, <1>w, <1>q
  <2>3. Places(x) = {<<"cancelled", x>>}
    BY <2>2, OnlyOne
  <2> QED
    BY <2>3
<1> QED
  BY <1>1, <1>2, <1>3 DEF OnceInv, Whole

\* When no failed try empties a task, a task that was posted is in exactly one
\* place: with its post, in one Queue, with one worker, run, or cancelled.
THEOREM PostedOnce ==
  ASSUME NoneEmptied
  PROVE  Spec => []ExactlyOnce
<1>1. OnceInv => ExactlyOnce
  BY OnePlace, FS_Singleton DEF ExactlyOnce
<1> QED
  BY <1>1, OnceAlways, PTL
-----------------------------------------------------------------------------
(* What the counter counts.                                                *)

\* The tasks that were counted and have not run, and the workers that have run
\* one and are still to uncount it.
CountsTask(c, x) == call[c].at = "count" /\ call[c].fn = x
Pending == {x \in used : x \notin Done /\ ~\E c \in Callers : CountsTask(c, x)}
Uncounting == {w \in Workers : worker[w].at = "count"}

CountInv == IsFiniteSet(used) /\ taskNum = Cardinality(Pending) + Cardinality(Uncounting)

\* No step of the counting.
SameCounting ==
  /\ UNCHANGED <<taskNum, used, ranOn>>
  /\ \A c \in Callers : /\ call'[c].at = "count" <=> call[c].at = "count"
                        /\ call[c].at = "count" => call'[c].fn = call[c].fn
  /\ \A w \in Workers : worker'[w].at = "count" <=> worker[w].at = "count"

\* The steps of the counting.
CountStep ==
  \/ \E c \in Callers, x \in Items : BeginPost(c, x) /\ call[c].at = "idle" /\ UNCHANGED <<taskNum, worker, ranOn>>
  \/ \E c \in Callers : Count(c)
  \/ \E w \in Workers : Run(w) \/ PostThrows(w)
  \/ \E w \in Workers : Uncount(w)

LEMMA WorkersFinite ==
  /\ IsFiniteSet(Workers)
  /\ IsFiniteSet(Uncounting) /\ Cardinality(Uncounting) \in Nat
<1>1. IsFiniteSet(Workers)
  BY PoolAssumption, FS_Interval DEF Workers
<1>2. IsFiniteSet(Uncounting)
  BY <1>1, FS_Subset DEF Uncounting
<1> QED
  BY <1>1, <1>2, FS_CardinalityType

LEMMA PendingFinite ==
  ASSUME IsFiniteSet(used)
  PROVE  IsFiniteSet(Pending) /\ Cardinality(Pending) \in Nat
<1>1. IsFiniteSet(Pending)
  BY FS_Subset DEF Pending
<1> QED
  BY <1>1, FS_CardinalityType

\* One call goes to another place, and was not and is not counting.
LEMMA CallsSameCounting ==
  ASSUME TypeOK, NEW c \in Callers, OtherCalls(c),
         call[c].at # "count", call'[c].at # "count",
         UNCHANGED <<taskNum, used, ranOn>>,
         \A w \in Workers : worker'[w].at = "count" <=> worker[w].at = "count"
  PROVE  SameCounting
  BY DEF SameCounting, OtherCalls

\* One worker goes on, and has no task to uncount before or after.
LEMMA WorkSameCounting ==
  ASSUME TypeOK, NEW w \in Workers, worker[w].at # "count", worker'[w].at # "count",
         \A v \in Workers \ {w} : worker'[v] = worker[v],
         UNCHANGED <<taskNum, used, ranOn, call>>
  PROVE  SameCounting
  BY DEF SameCounting

LEMMA CallSteps ==
  ASSUME TypeOK, NEW c \in Callers,
         \/ TryPush(c) \/ TryFails(c) \/ Push(c) \/ NotifyOne(c) \/ WaitReturns(c)
         \/ WaitTests(c) \/ WaitSleeps(c) \/ CancelClears(c) \/ CancelReturns(c)
         \/ StopQueue(c) \/ StopNotifies(c) \/ Join(c)
         \/ CallWait(c) \/ CallCancel(c) \/ WaitWakes(c)
  PROVE  SameCounting
<1>1. ASSUME NEW at \in CallPlaces \ {"count"}, CallGoes(c, at), call[c].at # "count",
             UNCHANGED <<taskNum, used, ranOn, worker>>
      PROVE  SameCounting
  BY <1>1, CallGoesTyped, CallsSameCounting
<1>2. ASSUME Returns(c), call[c].at # "count", UNCHANGED <<taskNum, used, ranOn>>,
             \A w \in Workers : worker'[w].at = "count" <=> worker[w].at = "count"
      PROVE  SameCounting
  BY <1>2, ReturnsTyped, CallsSameCounting
<1>3. ASSUME NEW o, call' = [call EXCEPT ![c] = o], o.at # "count", call[c].at # "count",
             UNCHANGED <<taskNum, used, ranOn>>,
             \A w \in Workers : worker'[w].at = "count" <=> worker[w].at = "count"
      PROVE  SameCounting
  <2>1. OtherCalls(c) /\ call'[c] = o
    BY <1>3 DEF TypeOK, OtherCalls
  <2> QED
    BY <1>3, <2>1, CallsSameCounting
<1>4. CASE TryPush(c) \/ Push(c)
  <2>1. PICK q \in Workers \cup {Slot(call[c].n)} : Pushed(c, q)
    BY <1>4 DEF TryPush, Push
  <2> DEFINE o == [Idle EXCEPT !.at = "notify", !.id = q]
  <2>2. call' = [call EXCEPT ![c] = o] /\ o.at = "notify"
    BY <2>1 DEF Pushed, Idle
  <2> HIDE DEF o
  <2>3. call[c].at \in {"try", "push"} /\ UNCHANGED <<taskNum, used, ranOn, worker>>
    BY <1>4 DEF TryPush, Push, Trying, history
  <2> QED
    BY <2>2, <2>3, <1>3
<1>5. CASE TryFails(c)
  <2> DEFINE o == [call[c] EXCEPT !.n = @ + 1, !.fn = AfterMove(@)]
  <2>1. o.at = call[c].at /\ call[c].at = "try"
    BY <1>5 DEF TypeOK, Calls, TryFails, Trying
  <2>2. call' = [call EXCEPT ![c] = o] /\ UNCHANGED <<taskNum, used, ranOn, worker>>
    BY <1>5 DEF TryFails, history
  <2> HIDE DEF o
  <2> QED
    BY <2>1, <2>2, <1>3
<1>6. CASE NotifyOne(c)
  <2>1. \A w \in Workers : worker'[w].at = "count" <=> worker[w].at = "count"
    BY <1>6, AwakeTyped DEF NotifyOne
  <2> QED
    BY <1>6, <2>1, <1>2 DEF NotifyOne, history
<1>7. CASE CancelClears(c)
  <2> DEFINE o == [call[c] EXCEPT !.n = @ + 1]
  <2>1. o.at = call[c].at /\ call[c].at = "cancel"
    BY <1>7 DEF TypeOK, Calls, CancelClears
  <2>2. call' = [call EXCEPT ![c] = o] /\ UNCHANGED <<taskNum, used, ranOn, worker>>
    BY <1>7 DEF CancelClears
  <2> HIDE DEF o
  <2> QED
    BY <2>1, <2>2, <1>3
<1>8. CASE StopNotifies(c)
  <2> DEFINE o == [call[c] EXCEPT !.at = "stop", !.n = @ + 1]
  <2>1. o.at = "stop" /\ call[c].at = "stop notify"
    BY <1>8 DEF TypeOK, Calls, StopNotifies
  <2>2. call' = [call EXCEPT ![c] = o] /\ UNCHANGED <<taskNum, used, ranOn>>
    BY <1>8 DEF StopNotifies, history
  <2> HIDE DEF o
  <2>3. \A w \in Workers : worker'[w].at = "count" <=> worker[w].at = "count"
    BY <1>8, AwakeTyped DEF StopNotifies
  <2> QED
    BY <2>1, <2>2, <2>3, <1>3
<1>9. CASE WaitReturns(c) \/ WaitTests(c) \/ WaitSleeps(c) \/ CallWait(c) \/ WaitWakes(c)
  BY <1>1, <1>2, <1>9
     DEF WaitReturns, WaitTests, WaitSleeps, CallWait, WaitWakes, history, CallPlaces
<1>10. CASE CancelReturns(c) \/ CallCancel(c) \/ StopQueue(c) \/ Join(c)
  BY <1>1, <1>2, <1>10 DEF CancelReturns, CallCancel, StopQueue, Join, history, CallPlaces
<1> QED
  BY <1>4, <1>5, <1>6, <1>7, <1>8, <1>9, <1>10

LEMMA WorkerSteps ==
  ASSUME TypeOK, NEW w \in Workers,
         \/ TestStop(w) \/ StealTakes(w) \/ StealFails(w) \/ PopTakes(w) \/ PopWaits(w)
         \/ Spurious(w) \/ RunEmpty(w) \/ NotifyWaiters(w)
  PROVE  SameCounting
<1>1. ASSUME NEW at \in WorkerPlaces \ {"count"}, WorkerGoes(w, at), worker[w].at # "count",
             UNCHANGED <<taskNum, used, ranOn, call>>
      PROVE  SameCounting
  BY <1>1, WorkerGoesTyped, WorkSameCounting
<1>2. ASSUME NEW o, worker' = [worker EXCEPT ![w] = o], o.at # "count", worker[w].at # "count",
             UNCHANGED <<taskNum, used, ranOn, call>>
      PROVE  SameCounting
  <2>1. worker'[w] = o /\ \A v \in Workers \ {w} : worker'[v] = worker[v]
    BY <1>2 DEF TypeOK
  <2> QED
    BY <1>2, <2>1, WorkSameCounting
<1>3. CASE TestStop(w)
  <2> DEFINE o == [at |-> IF stop THEN "exited" ELSE IF EnableWorkSteal THEN "steal" ELSE "pop",
                   fn |-> None, n |-> 0]
  <2>1. worker' = [worker EXCEPT ![w] = o] /\ o.at # "count"
    BY <1>3 DEF TestStop
  <2> HIDE DEF o
  <2> QED
    BY <1>3, <2>1, <1>2 DEF TestStop, history
<1>4. CASE StealTakes(w)
  <2> DEFINE h == Head(queue[(w + worker[w].n) % ThreadNum])
             o == [worker[w] EXCEPT !.fn = h.fn, !.at = IF h.fn = None THEN "pop" ELSE "run"]
  <2>1. o.at \in {"pop", "run"} /\ worker[w].at = "steal"
    BY <1>4 DEF TypeOK, WorkerStates, StealTakes
  <2>2. worker' = [worker EXCEPT ![w] = o] /\ UNCHANGED <<taskNum, used, ranOn, call>>
    BY <1>4 DEF StealTakes, history
  <2> HIDE DEF o
  <2> QED
    BY <2>1, <2>2, <1>2
<1>5. CASE StealFails(w)
  <2> DEFINE o == [worker[w] EXCEPT !.n = @ + 1]
  <2>1. o.at = worker[w].at /\ worker[w].at = "steal"
    BY <1>5 DEF TypeOK, WorkerStates, StealFails
  <2>2. \/ worker' = [worker EXCEPT ![w] = o]
        \/ WorkerGoes(w, "pop")
    BY <1>5 DEF StealFails
  <2> HIDE DEF o
  <2> QED
    BY <1>5, <2>1, <2>2, <1>1, <1>2 DEF StealFails, history, WorkerPlaces
<1>6. CASE PopTakes(w)
  <2> DEFINE o == [worker[w] EXCEPT !.at = "run", !.fn = Head(queue[w]).fn]
  <2>1. o.at = "run" /\ worker[w].at = "pop"
    BY <1>6 DEF TypeOK, WorkerStates, PopTakes
  <2>2. worker' = [worker EXCEPT ![w] = o] /\ UNCHANGED <<taskNum, used, ranOn, call>>
    BY <1>6 DEF PopTakes, history
  <2> HIDE DEF o
  <2> QED
    BY <2>1, <2>2, <1>2
<1>7. CASE PopWaits(w) \/ Spurious(w)
  BY <1>1, <1>7 DEF PopWaits, FoundNothing, Spurious, history, WorkerPlaces
<1>8. CASE RunEmpty(w)
  BY <1>8 DEF RunEmpty, SameCounting, history
<1>9. CASE NotifyWaiters(w)
  <2>1. \A v \in Workers : worker'[v].at = "count" <=> worker[v].at = "count"
    BY <1>9, WorkerGoesTyped DEF NotifyWaiters, WorkerPlaces
  <2>2. ASSUME NEW c \in Callers
        PROVE  /\ call'[c].at = "count" <=> call[c].at = "count"
               /\ call[c].at = "count" => call'[c].fn = call[c].fn
    <3>1. CASE call[c].at = "blocked"
      <4>1. call'[c] = [call[c] EXCEPT !.at = "test"]
        BY <1>9, <3>1 DEF NotifyWaiters
      <4>2. call'[c].at = "test"
        BY <4>1 DEF TypeOK, Calls
      <4> QED
        BY <3>1, <4>2
    <3>2. CASE call[c].at # "blocked"
      BY <1>9, <3>2 DEF NotifyWaiters
    <3> QED
      BY <3>1, <3>2
  <2> QED
    BY <1>9, <2>1, <2>2 DEF NotifyWaiters, SameCounting, history
<1> QED
  BY <1>3, <1>4, <1>5, <1>6, <1>7, <1>8, <1>9

LEMMA CountKinds ==
  ASSUME TypeOK, [Next]_vars
  PROVE  SameCounting \/ CountStep
<1>1. ASSUME NEW w \in Workers, WorkerStep(w) \/ Spurious(w)
      PROVE  SameCounting \/ CountStep
  <2>1. ASSUME NEW y \in Items, TaskPosts(w, y)
        PROVE  CountStep
    BY <2>1 DEF TaskPosts, CountStep, Callers
  <2> QED
    BY <1>1, <2>1, WorkerSteps DEF WorkerStep, CountStep
<1>2. ASSUME NEW c \in Callers, CallStep(c)
      PROVE  SameCounting \/ CountStep
  BY <1>2, CallSteps DEF CallStep, CountStep
<1>3. ASSUME NEW c \in Clients, Call(c) \/ WaitWakes(c)
      PROVE  SameCounting \/ CountStep
  <2>0. c \in Callers
    BY DEF Callers
  <2>1. ASSUME NEW x \in Items, CallPost(c, x)
        PROVE  CountStep
    BY <2>0, <2>1 DEF CallPost, CountStep
  <2>2. CASE CallDestroy(c)
    <3>1. call[c].at = "idle" /\ CallGoes(c, "stop") /\ UNCHANGED <<taskNum, used, ranOn, worker>>
      BY <2>2 DEF CallDestroy, history
    <3> QED
      BY <2>0, <3>1, CallGoesTyped, CallsSameCounting DEF CallPlaces
  <2> QED
    BY <1>3, <2>0, <2>1, <2>2, CallSteps DEF Call
<1>4. CASE UNCHANGED vars
  BY <1>4 DEF vars, history, SameCounting
<1> QED
  BY <1>1, <1>2, <1>3, <1>4 DEF Next

-----------------------------------------------------------------------------
\* A new task is not counted yet.
LEMMA BeginCounts ==
  ASSUME Counted = Items, OnceInv, CountInv, NEW c \in Callers, NEW x \in Items, BeginPost(c, x),
         call[c].at = "idle", UNCHANGED <<taskNum, worker, ranOn>>
  PROVE  CountInv'
<1> DEFINE o == [at |-> "count", fn |-> x, n |-> 0, id |-> Id[x]]
<1>1. o.at = "count" /\ o.fn = x
  OBVIOUS
<1>2. call' = [call EXCEPT ![c] = o] /\ used' = used \cup {x} /\ x \notin used
  BY DEF BeginPost
<1> HIDE DEF o
<1>3. call'[c] = o /\ \A d \in Callers \ {c} : call'[d] = call[d]
  BY <1>2 DEF OnceInv, BagInv, PlacesInv, TypeOK
<1>4. \A y : (\E d \in Callers : CountsTask(d, y)') <=> y = x \/ \E d \in Callers : CountsTask(d, y)
  BY <1>1, <1>3 DEF CountsTask
<1>5. Pending' = Pending
  BY <1>2, <1>4 DEF Pending, Done
<1>6. Uncounting' = Uncounting /\ IsFiniteSet(used')
  BY <1>2, FS_AddElement DEF Uncounting, CountInv
<1> QED
  BY <1>5, <1>6 DEF CountInv

LEMMA CountCounts ==
  ASSUME OnceInv, CountInv, NEW c \in Callers, Count(c)
  PROVE  CountInv'
<1> DEFINE x == call[c].fn
<1>1. TypeOK /\ call[c].at = "count" /\ taskNum' = taskNum + 1 /\ UNCHANGED <<worker, used, ranOn>>
  BY DEF Count, NextTaskNum, history, OnceInv, BagInv, PlacesInv
<1>2. x # None /\ x \in Waiting
  BY <1>1, WaitingIs DEF OnceInv, BagInv, FullInv, Posting
<1>3. x \in used /\ x \notin Done
  BY <1>2, TakenIs DEF OnceInv, Whole, Apart
<1>4. Destination(call[c].id) \in {"try", "push"}
  BY DEF Destination
<1>5. call'[c].at # "count" /\ \A d \in Callers \ {c} : call'[d] = call[d]
  BY <1>1, <1>4, CallGoesTyped DEF Count, CallPlaces, OtherCalls
<1>6. CountsTask(c, x) /\ \A d \in Callers : CountsTask(d, x) => d = c
  BY <1>1, <1>2 DEF CountsTask, OnceInv, BagInv, UniqueInv, OneCall
<1>7. \A y : (\E d \in Callers : CountsTask(d, y)') <=> y # x /\ \E d \in Callers : CountsTask(d, y)
  BY <1>5, <1>6 DEF CountsTask
<1>8. x \notin Pending /\ Pending' = Pending \cup {x}
  BY <1>1, <1>3, <1>6, <1>7 DEF Pending, Done
<1>9. IsFiniteSet(Pending) /\ Cardinality(Pending) \in Nat
  BY PendingFinite DEF CountInv
<1>10. Cardinality(Pending') = Cardinality(Pending) + 1
  BY <1>8, <1>9, FS_AddElement
<1>11. Uncounting' = Uncounting
  BY <1>1 DEF Uncounting
<1>12. taskNum' = Cardinality(Pending') + Cardinality(Uncounting')
  BY <1>1, <1>9, <1>10, <1>11, WorkersFinite DEF CountInv
<1> QED
  BY <1>1, <1>12 DEF CountInv

\* A task that has run is still to be uncounted.
LEMMA EndCounts ==
  ASSUME OnceInv, CountInv, NEW w \in Workers, Ends(w), worker[w].fn # None, worker[w].at = "run",
         UNCHANGED <<taskNum, used, call>>
  PROVE  CountInv'
<1> DEFINE x == worker[w].fn
           o == [worker[w] EXCEPT !.at = "count", !.fn = None]
<1>1. TypeOK /\ x \in Items
  BY DEF OnceInv, BagInv, PlacesInv, TypeOK, WorkerStates
<1>2. o.at = "count" /\ worker' = [worker EXCEPT ![w] = o]
  BY <1>1 DEF TypeOK, WorkerStates, Ends
<1> HIDE DEF o
<1>3. Uncounting' = Uncounting \cup {w} /\ w \notin Uncounting
  BY <1>1, <1>2 DEF TypeOK, Uncounting
<1>4. Done' = Done \cup {x}
  <2>1. ranOn' = [ranOn EXCEPT ![x] = w] /\ w # None /\ ranOn \in [Items -> Workers \cup {None}]
    BY <1>1, NoneAssumption DEF Ends, TypeOK
  <2> HIDE DEF x
  <2> QED
    BY <1>1, <2>1 DEF Done
<1>5. x \in Taken /\ x \notin Done
  BY TakenIs DEF OnceInv, HeldNotDone
<1>6. x \in used /\ x \notin Posting
  BY <1>5, WaitingIs DEF OnceInv, Whole, Apart
<1>7. x \in Pending /\ Pending' = Pending \ {x}
  BY <1>4, <1>5, <1>6 DEF Pending, CountsTask, Posting
<1>8. IsFiniteSet(Pending) /\ Cardinality(Pending) \in Nat
  BY PendingFinite DEF CountInv
<1>9. Cardinality(Pending') = Cardinality(Pending) - 1
  BY <1>7, <1>8, FS_RemoveElement
<1>10. Cardinality(Uncounting') = Cardinality(Uncounting) + 1
  BY <1>3, WorkersFinite, FS_AddElement
<1>11. taskNum' = Cardinality(Pending') + Cardinality(Uncounting')
  BY <1>8, <1>9, <1>10, WorkersFinite DEF CountInv
<1> QED
  BY <1>11 DEF CountInv

LEMMA UncountCounts ==
  ASSUME OnceInv, CountInv, NEW w \in Workers, Uncount(w)
  PROVE  CountInv'
<1>1. TypeOK /\ worker[w].at = "count" /\ taskNum' = taskNum - 1 /\ UNCHANGED <<call, used, ranOn>>
  BY DEF Uncount, history, OnceInv, BagInv, PlacesInv
<1>2. worker'[w].at = "notify" /\ \A v \in Workers \ {w} : worker'[v] = worker[v]
  BY <1>1, WorkerGoesTyped DEF Uncount, WorkerPlaces
<1>3. Uncounting' = Uncounting \ {w} /\ w \in Uncounting
  BY <1>1, <1>2 DEF Uncounting
<1>4. Pending' = Pending
  BY <1>1 DEF Pending, Done, CountsTask
<1>5. Cardinality(Uncounting') = Cardinality(Uncounting) - 1
  BY <1>3, WorkersFinite, FS_RemoveElement
<1>6. taskNum' = Cardinality(Pending') + Cardinality(Uncounting')
  BY <1>1, <1>4, <1>5, WorkersFinite, PendingFinite DEF CountInv
<1> QED
  BY <1>1, <1>6 DEF CountInv

LEMMA CountKept ==
  ASSUME Counted = Items, OnceInv, CountInv, [Next]_vars
  PROVE  CountInv'
<1>1. CASE SameCounting
  <2>1. Uncounting' = Uncounting
    BY <1>1 DEF SameCounting, Uncounting
  <2>2. \A x : \A c \in Callers : CountsTask(c, x)' <=> CountsTask(c, x)
    BY <1>1 DEF SameCounting, CountsTask
  <2>3. Pending' = Pending
    BY <1>1, <2>2 DEF SameCounting, Pending, Done
  <2> QED
    BY <1>1, <2>1, <2>3 DEF CountInv, SameCounting
<1>2. ASSUME NEW w \in Workers, Run(w) \/ PostThrows(w)
      PROVE  CountInv'
  <2>1. CASE Ends(w)
    <3>1. worker[w].fn # None /\ worker[w].at = "run" /\ UNCHANGED <<taskNum, used, call>>
      BY <1>2 DEF Run, PostThrows, OnceInv, BagInv, FullInv
    <3> QED
      BY <2>1, <3>1, EndCounts
  <2>2. CASE ~Ends(w)
    <3>1. UNCHANGED <<taskNum, used, ranOn, worker, call>>
      BY <1>2, <2>2 DEF Run, PostThrows
    <3> QED
      BY <1>1, <3>1 DEF SameCounting
  <2> QED
    BY <2>1, <2>2
<1> QED
  BY <1>1, <1>2, CountKinds, BeginCounts, CountCounts, UncountCounts
     DEF CountStep, OnceInv, BagInv, PlacesInv

\* When every task is counted, from zero, wait() never returns too early: the
\* counter is that of the tasks that were counted and have not run, those that
\* cancel() dropped included, and of the workers that are to uncount theirs.
THEOREM WaitIsSound ==
  ASSUME Counted = Items, InitialTaskNums = {0}
  PROVE  Spec => []WaitSound
<1>1. Init => CountInv
  <2> SUFFICES ASSUME Init
               PROVE  CountInv
    OBVIOUS
  <2>1. taskNum = 0 /\ used = {} /\ \A w \in Workers : worker[w].at = "head"
    BY DEF Init
  <2>2. Pending = {} /\ Uncounting = {}
    BY <2>1 DEF Pending, Uncounting
  <2> QED
    BY <2>1, <2>2, FS_EmptySet DEF CountInv
<1>2. OnceInv /\ CountInv /\ [Next]_vars => CountInv'
  BY CountKept
<1>3. OnceInv /\ CountInv => WaitSound
  <2> SUFFICES ASSUME OnceInv, CountInv, taskNum = 0
               PROVE  Unfinished = {}
    BY DEF WaitSound
  <2>1. Cardinality(Pending) = 0 /\ IsFiniteSet(Pending)
    BY PendingFinite, WorkersFinite DEF CountInv
  <2>2. Pending = {}
    BY <2>1, FS_EmptySet
  <2> QED
    BY <2>2 DEF Pending, CountsTask, Unfinished
<1>4. Spec => []OnceInv
  BY OnceAlways DEF NoneEmptied
<1> QED
  BY <1>1, <1>2, <1>3, <1>4, PTL DEF Spec

=============================================================================
