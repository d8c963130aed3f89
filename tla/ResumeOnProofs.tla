--------------------------- MODULE ResumeOnProofs ---------------------------
(***************************************************************************)
(* However many threads hop over however many executors, and whichever of  *)
(* these are shut down: a suspended fiber has one handle, the task that is *)
(* called has it, and only a shutdown unwinds a fiber.  Every action moves *)
(* one fiber with one thread; what the others have stays as it is.         *)
(***************************************************************************)
EXTENDS ResumeOn, TLAPS

\* A thread has a wrapper with a handle at these points, of this kind.
Carries == {"convert", "append", "call"}
Wrapper(at) == IF at = "convert" THEN "lambda" ELSE IF at = "append" THEN "argument" ELSE "task"
Kinds == {"lambda", "argument", "task"}

Busy == Carries \cup {"body"}

OneHandleOf(f) ==
  IF fiber[f] = "suspended" THEN \E w \in Wrappers : handle[f] = {w} ELSE handle[f] = {}

\* What a busy thread works for, and the handle it has.
JobsInv ==
  \A t \in Threads :
    /\ job[t].at \in Busy => job[t].fiber \in Fibers /\ job[t].executor \in Executors
    /\ job[t].at \in Carries => handle[job[t].fiber] = {<<Wrapper(job[t].at), t>>}
    /\ job[t].at = "body" => fiber[job[t].fiber] = "running"

\* One thread at most runs a fiber.
OneBody ==
  \A t, u \in Threads :
    job[t].at = "body" /\ job[u].at = "body" /\ job[t].fiber = job[u].fiber => t = u

\* A handle of a thread is of the fiber that the thread works for.
HandlesInv ==
  \A f \in Fibers, t \in Threads, k \in Kinds :
    <<k, t>> \in handle[f] => job[t].at \in Carries /\ job[t].fiber = f

\* The handles of the queued fibers, none of which is queued twice.
QueueInv ==
  \A e \in Executors : \A i \in 1..Len(queue[e]) :
    /\ handle[queue[e][i]] = {<<"queue", e>>}
    /\ \A j \in 1..Len(queue[e]) : queue[e][i] = queue[e][j] => i = j

HopInv == TypeOK /\ OneHandle /\ JobsInv /\ OneBody /\ HandlesInv /\ QueueInv

-----------------------------------------------------------------------------
\* The other fibers and threads keep their part of the invariant.
LEMMA OneMoves ==
  ASSUME HopInv, TypeOK', QueueInv', NEW t \in Threads, NEW f \in Fibers, closed' = closed,
         \A u \in Threads \ {t} : job'[u] = job[u],
         \A g \in Fibers \ {f} : handle'[g] = handle[g] /\ fiber'[g] = fiber[g],
         \A u \in Threads \ {t} : job[u].at \in Busy => job[u].fiber # f,
         job[t].at \in Carries => job[t].fiber = f,
         OneHandleOf(f)',
         job'[t].at \in Busy => job'[t].fiber = f /\ job'[t].executor \in Executors,
         job'[t].at \in Carries => handle'[f] = {<<Wrapper(job'[t].at), t>>},
         job'[t].at = "body" => fiber'[f] = "running",
         \A u \in Threads, k \in Kinds : <<k, u>> \in handle'[f] => u = t /\ job'[t].at \in Carries
  PROVE  HopInv'
<1>1. OneHandle'
  BY DEF HopInv, OneHandle, OneHandleOf
<1>2. JobsInv'
  <2> SUFFICES ASSUME NEW u \in Threads
               PROVE  /\ job'[u].at \in Busy => job'[u].fiber \in Fibers /\ job'[u].executor \in Executors
                      /\ job'[u].at \in Carries => handle'[job'[u].fiber] = {<<Wrapper(job'[u].at), u>>}
                      /\ job'[u].at = "body" => fiber'[job'[u].fiber] = "running"
    BY DEF JobsInv, Wrapper
  <2>1. CASE u = t
    BY <2>1 DEF Busy
  <2>2. CASE u # t
    <3>1. job'[u] = job[u] /\ (job[u].at \in Busy => job[u].fiber \in Fibers \ {f})
      BY <2>2 DEF HopInv, JobsInv
    <3> QED
      BY <3>1 DEF HopInv, JobsInv, Busy
  <2> QED
    BY <2>1, <2>2
<1>3. OneBody'
  BY DEF HopInv, OneBody, Busy
<1>4. HandlesInv'
  <2> SUFFICES ASSUME NEW g \in Fibers, NEW u \in Threads, NEW k \in Kinds, <<k, u>> \in handle'[g]
               PROVE  job'[u].at \in Carries /\ job'[u].fiber = g
    BY DEF HandlesInv
  <2>1. CASE g = f
    BY <2>1 DEF Busy
  <2>2. CASE g # f
    <3>1. job[u].at \in Carries /\ job[u].fiber = g
      BY <2>2 DEF HopInv, HandlesInv
    <3> QED
      BY <3>1, <2>2
  <2> QED
    BY <2>1, <2>2
<1> QED
  BY <1>1, <1>2, <1>3, <1>4 DEF HopInv

\* Whoever works for a fiber is alone with it, and it is in no queue.
LEMMA Alone ==
  ASSUME HopInv, NEW t \in Threads, job[t].at \in Busy
  PROVE  /\ \A u \in Threads \ {t} : job[u].at \in Busy => job[u].fiber # job[t].fiber
         /\ \A e \in Executors : \A i \in 1..Len(queue[e]) : queue[e][i] # job[t].fiber
<1>0. job[t].fiber \in Fibers
  BY DEF HopInv, JobsInv
<1>1. CASE job[t].at \in Carries
  <2>1. handle[job[t].fiber] = {<<Wrapper(job[t].at), t>>} /\ fiber[job[t].fiber] = "suspended"
    BY <1>0, <1>1 DEF HopInv, JobsInv, OneHandle
  <2>2. Wrapper(job[t].at) # "queue"
    BY DEF Wrapper
  <2>3. ASSUME NEW u \in Threads \ {t}, job[u].at \in Busy
        PROVE  job[u].fiber # job[t].fiber
    <3>1. job[u].at \in Carries => handle[job[u].fiber] = {<<Wrapper(job[u].at), u>>}
      BY DEF HopInv, JobsInv
    <3>2. job[u].at = "body" => fiber[job[u].fiber] = "running"
      BY DEF HopInv, JobsInv
    <3>3. <<Wrapper(job[u].at), u>> # <<Wrapper(job[t].at), t>>
      OBVIOUS
    <3> QED
      BY <2>1, <2>3, <3>1, <3>2, <3>3 DEF Busy
  <2>4. \A e \in Executors : <<"queue", e>> # <<Wrapper(job[t].at), t>>
    BY <2>2
  <2> QED
    BY <2>1, <2>3, <2>4 DEF HopInv, QueueInv
<1>2. CASE job[t].at = "body"
  <2>1. fiber[job[t].fiber] = "running" /\ handle[job[t].fiber] = {}
    BY <1>0, <1>2 DEF HopInv, JobsInv, OneHandle
  <2> QED
    BY <1>2, <2>1 DEF HopInv, JobsInv, OneBody, QueueInv, Busy
<1> QED
  BY <1>1, <1>2 DEF Busy

\* A queue that stays, of fibers whose handles stay.
LEMMA QueueStays ==
  ASSUME HopInv, NEW f \in Fibers, queue' = queue,
         \A g \in Fibers \ {f} : handle'[g] = handle[g],
         \A e \in Executors : \A i \in 1..Len(queue[e]) : queue[e][i] # f
  PROVE  QueueInv'
<1>1. ASSUME NEW e \in Executors, NEW i \in 1..Len(queue[e])
      PROVE  queue[e][i] \in Fibers
  <2>1. queue[e] \in Seq(Fibers)
    BY DEF HopInv, TypeOK
  <2> QED
    BY <2>1
<1> QED
  BY <1>1 DEF HopInv, QueueInv

\* The point of a thread changes.
LEMMA GoesOn ==
  ASSUME TypeOK, NEW t \in Threads, NEW at \in Busy \cup {"leave"}, Goes(t, at)
  PROVE  /\ job' \in [Threads -> Jobs]
         /\ job'[t].at = at /\ job'[t].fiber = job[t].fiber /\ job'[t].executor = job[t].executor
         /\ \A u \in Threads \ {t} : job'[u] = job[u]
BY DEF TypeOK, Goes, Jobs, Busy, Carries

-----------------------------------------------------------------------------
\* A fiber that has no handle gets the one of the lambda.
LEMMA LambdaStep ==
  ASSUME HopInv, NEW t \in Threads, NEW f \in Fibers, NEW e \in Executors, Lambda(t, f, e),
         hops' \in [Fibers -> 0..MaxHops], UNCHANGED <<queue, closed, fault>>,
         job[t].at \notin Carries, handle[f] = {},
         \A u \in Threads \ {t} : job[u].at \in Busy => job[u].fiber # f
  PROVE  HopInv'
<1>0. TypeOK
  BY DEF HopInv
<1>1. fiber' \in [Fibers -> FiberStates] /\ job' \in [Threads -> Jobs]
  BY <1>0 DEF TypeOK, Lambda, FiberStates, Jobs
<1>w. <<"lambda", t>> \in Wrappers
  BY DEF Wrappers
<1>2. handle' \in [Fibers -> SUBSET Wrappers]
  BY <1>0, <1>w DEF TypeOK, Lambda
<1>t. TypeOK'
  BY <1>0, <1>1, <1>2 DEF TypeOK
<1>3. /\ fiber'[f] = "suspended" /\ handle'[f] = {<<"lambda", t>>}
      /\ job'[t].at = "convert" /\ job'[t].fiber = f /\ job'[t].executor = e
      /\ \A u \in Threads \ {t} : job'[u] = job[u]
      /\ \A g \in Fibers \ {f} : handle'[g] = handle[g] /\ fiber'[g] = fiber[g]
  BY <1>0 DEF TypeOK, Lambda
<1>4. QueueInv'
  <2>1. ASSUME NEW e1 \in Executors, NEW i \in 1..Len(queue[e1])
        PROVE  queue[e1][i] # f
    <3>1. handle[queue[e1][i]] = {<<"queue", e1>>}
      BY DEF HopInv, QueueInv
    <3> QED
      BY <3>1
  <2> QED
    BY <1>3, <2>1, QueueStays
<1>5. OneHandleOf(f)'
  BY <1>3, <1>w DEF OneHandleOf
<1> QED
  BY <1>t, <1>3, <1>4, <1>5, OneMoves DEF Busy, Carries, Wrapper

LEMMA StartStep ==
  ASSUME HopInv, NEW t \in Threads, NEW f \in Fibers, NEW e \in Executors, Start(t, f, e)
  PROVE  HopInv'
<1>1. handle[f] = {} /\ job[t].at = "idle"
  BY DEF Start, HopInv, OneHandle, Idle
<1>2. \A u \in Threads \ {t} : job[u].at \in Busy => job[u].fiber # f
  BY <1>1 DEF Start, HopInv, JobsInv, Busy
<1>3. hops' \in [Fibers -> 0..MaxHops]
  BY DEF Start, HopInv, TypeOK
<1> QED
  BY <1>1, <1>2, <1>3, LambdaStep DEF Start, Carries

LEMMA CallResumeOnStep ==
  ASSUME HopInv, NEW t \in Threads, NEW f \in Fibers, NEW e \in Executors, CallResumeOn(t, f, e)
  PROVE  HopInv'
<1>1. job[t].at = "body" /\ job[t].fiber = f /\ job[t].at \in Busy
  BY DEF CallResumeOn, Busy
<1>2. handle[f] = {}
  BY <1>1 DEF HopInv, JobsInv, OneHandle
<1>3. hops' \in [Fibers -> 0..MaxHops]
  <2>1. hops \in [Fibers -> 0..MaxHops]
    BY DEF HopInv, TypeOK
  <2>2. hops[f] \in 0..MaxHops /\ hops[f] < MaxHops /\ hops' = [hops EXCEPT ![f] = hops[f] + 1]
    BY <2>1 DEF CallResumeOn
  <2>3. hops[f] + 1 \in 0..MaxHops
    BY <2>2, ResumeOnAssumption
  <2> QED
    BY <2>1, <2>2, <2>3
<1>4. \A u \in Threads \ {t} : job[u].at \in Busy => job[u].fiber # f
  BY <1>1, Alone
<1> QED
  BY <1>1, <1>2, <1>3, <1>4, LambdaStep DEF CallResumeOn, Carries

\* What a wrapper that has the only handle of f hands over.
LEMMA CopyMoves ==
  ASSUME TypeOK, NEW f \in Fibers, NEW from, NEW to \in Wrappers, handle[f] = {from},
         handle' = Copied(f, from, to)
  PROVE  /\ handle' \in [Fibers -> SUBSET Wrappers]
         /\ handle'[f] = {to} /\ \A g \in Fibers \ {f} : handle'[g] = handle[g]
BY DEF TypeOK, Copied

\* A thread goes on with the fiber f it works for, whose handle moves.
LEMMA MovesOn ==
  ASSUME HopInv, NEW t \in Threads, NEW f \in Fibers, job[t].fiber = f,
         job[t].at \in Carries, NEW at \in {"append", "leave", "body"}, Goes(t, at),
         handle' \in [Fibers -> SUBSET Wrappers],
         \A g \in Fibers \ {f} : handle'[g] = handle[g]
  PROVE  /\ job' \in [Threads -> Jobs]
         /\ job'[t].at = at /\ job'[t].fiber = f /\ job'[t].executor \in Executors
         /\ \A u \in Threads \ {t} : job'[u] = job[u]
         /\ \A u \in Threads \ {t} : job[u].at \in Busy => job[u].fiber # f
         /\ \A e \in Executors : \A i \in 1..Len(queue[e]) : queue[e][i] # f
         /\ fiber[f] = "suspended" /\ handle[f] = {<<Wrapper(job[t].at), t>>}
<1>1. TypeOK /\ job[t].at \in Busy /\ at \in Busy \cup {"leave"}
  BY DEF HopInv, Busy, Carries
<1>2. handle[f] = {<<Wrapper(job[t].at), t>>} /\ job[t].executor \in Executors
  BY <1>1 DEF HopInv, JobsInv
<1>3. fiber[f] = "suspended"
  BY <1>2 DEF HopInv, OneHandle
<1>4. /\ job' \in [Threads -> Jobs]
      /\ job'[t].at = at /\ job'[t].fiber = f /\ job'[t].executor = job[t].executor
      /\ \A u \in Threads \ {t} : job'[u] = job[u]
  BY <1>1, GoesOn
<1> QED
  BY <1>1, <1>2, <1>3, <1>4, Alone

LEMMA ConvertStep ==
  ASSUME HopInv, NEW t \in Threads, Convert(t)
  PROVE  HopInv'
<1>0. TypeOK /\ job[t].at = "convert" /\ job[t].at \in Carries /\ job[t].at \in Busy
  BY DEF HopInv, Convert, Carries, Busy
<1>1. job[t].fiber \in Fibers
  BY <1>0 DEF HopInv, JobsInv
<1>2. PICK f \in Fibers : job[t].fiber = f
  BY <1>1
<1>3. handle[f] = {<<"lambda", t>>} /\ <<"argument", t>> \in Wrappers
  BY <1>0, <1>2 DEF HopInv, JobsInv, Wrapper, Wrappers
<1>4. /\ handle' \in [Fibers -> SUBSET Wrappers]
      /\ handle'[f] = {<<"argument", t>>} /\ \A g \in Fibers \ {f} : handle'[g] = handle[g]
  BY <1>0, <1>2, <1>3, CopyMoves DEF Convert
<1>5. /\ job' \in [Threads -> Jobs]
      /\ job'[t].at = "append" /\ job'[t].fiber = f /\ job'[t].executor \in Executors
      /\ \A u \in Threads \ {t} : job'[u] = job[u]
      /\ \A u \in Threads \ {t} : job[u].at \in Busy => job[u].fiber # f
      /\ \A e \in Executors : \A i \in 1..Len(queue[e]) : queue[e][i] # f
      /\ fiber[f] = "suspended"
  BY <1>0, <1>2, <1>4, MovesOn DEF Convert
<1>6. TypeOK'
  BY <1>0, <1>4, <1>5 DEF TypeOK, Convert
<1>7. QueueInv'
  BY <1>4, <1>5, QueueStays DEF Convert
<1>8. OneHandleOf(f)' /\ fiber' = fiber /\ closed' = closed
  BY <1>3, <1>4, <1>5 DEF OneHandleOf, Convert
<1> QED
  BY <1>2, <1>4, <1>5, <1>6, <1>7, <1>8, OneMoves DEF Busy, Carries, Wrapper

LEMMA PostAppendsStep ==
  ASSUME HopInv, NEW t \in Threads, PostAppends(t)
  PROVE  HopInv'
<1>0. TypeOK /\ job[t].at = "append" /\ job[t].at \in Carries /\ job[t].at \in Busy
  BY DEF HopInv, PostAppends, Carries, Busy
<1>1. job[t].fiber \in Fibers /\ job[t].executor \in Executors
  BY <1>0 DEF HopInv, JobsInv
<1>2. PICK f \in Fibers, e \in Executors : job[t].fiber = f /\ job[t].executor = e
  BY <1>1
<1>3. handle[f] = {<<"argument", t>>} /\ <<"queue", e>> \in Wrappers
  BY <1>0, <1>2 DEF HopInv, JobsInv, Wrapper, Wrappers
<1>4. /\ handle' \in [Fibers -> SUBSET Wrappers]
      /\ handle'[f] = {<<"queue", e>>} /\ \A g \in Fibers \ {f} : handle'[g] = handle[g]
  BY <1>0, <1>2, <1>3, CopyMoves DEF PostAppends
<1>5. /\ job' \in [Threads -> Jobs]
      /\ job'[t].at = "leave"
      /\ \A u \in Threads \ {t} : job'[u] = job[u]
      /\ \A u \in Threads \ {t} : job[u].at \in Busy => job[u].fiber # f
      /\ \A e1 \in Executors : \A i \in 1..Len(queue[e1]) : queue[e1][i] # f
      /\ fiber[f] = "suspended"
  BY <1>0, <1>2, <1>4, MovesOn DEF PostAppends
<1>q. /\ queue \in [Executors -> Seq(Fibers)] /\ queue[e] \in Seq(Fibers)
      /\ queue' = [queue EXCEPT ![e] = Append(queue[e], f)]
  BY <1>0, <1>2 DEF TypeOK, PostAppends, Queued
<1>6. TypeOK'
  <2>1. queue' \in [Executors -> Seq(Fibers)]
    BY <1>q
  <2> QED
    BY <2>1, <1>0, <1>4, <1>5 DEF TypeOK, PostAppends
<1>7. QueueInv'
  <2> SUFFICES ASSUME NEW d \in Executors, NEW i \in 1..Len(queue'[d])
               PROVE  /\ handle'[queue'[d][i]] = {<<"queue", d>>}
                      /\ \A j \in 1..Len(queue'[d]) : queue'[d][i] = queue'[d][j] => i = j
    BY DEF QueueInv
  <2>1. ASSUME NEW k \in 1..Len(queue[d])
        PROVE  handle'[queue[d][k]] = {<<"queue", d>>} /\ queue[d][k] \in Fibers
    <3>1. queue[d] \in Seq(Fibers) /\ queue[d][k] # f
      BY <1>0, <1>5 DEF TypeOK
    <3> QED
      BY <3>1, <1>4 DEF HopInv, QueueInv
  <2>2. \A k, l \in 1..Len(queue[d]) : queue[d][k] = queue[d][l] => k = l
    BY DEF HopInv, QueueInv
  <2>3. CASE d # e
    <3>1. queue'[d] = queue[d]
      BY <1>q, <2>3
    <3> QED
      BY <2>1, <2>2, <3>1
  <2>4. CASE d = e
    <3>1. /\ Len(queue'[e]) = Len(queue[e]) + 1 /\ Len(queue[e]) \in Nat
          /\ queue'[e][Len(queue[e]) + 1] = f
          /\ \A k \in 1..Len(queue[e]) : queue'[e][k] = queue[e][k]
      BY <1>q
    <3>2. \A k \in 1..Len(queue[e]) : queue[e][k] # f
      BY <1>5
    <3>3. CASE i = Len(queue[e]) + 1
      BY <3>1, <3>2, <3>3, <2>4, <1>4
    <3>4. CASE i \in 1..Len(queue[e])
      BY <3>1, <3>2, <3>4, <2>1, <2>2, <2>4
    <3> QED
      BY <3>1, <3>3, <3>4, <2>4
  <2> QED
    BY <2>3, <2>4
<1>8. OneHandleOf(f)' /\ fiber' = fiber /\ closed' = closed
  BY <1>3, <1>4, <1>5 DEF OneHandleOf, PostAppends
<1> QED
  BY <1>2, <1>4, <1>5, <1>6, <1>7, <1>8, OneMoves DEF Busy, Carries, Kinds

LEMMA TakeTaskStep ==
  ASSUME HopInv, NEW t \in Threads, NEW e \in Executors, TakeTask(t, e)
  PROVE  HopInv'
<1>0. TypeOK /\ job[t].at = "idle"
  BY DEF HopInv, TakeTask, Idle
<1>1. /\ queue \in [Executors -> Seq(Fibers)] /\ queue[e] \in Seq(Fibers) /\ queue[e] # <<>>
      /\ queue' = [queue EXCEPT ![e] = Tail(queue[e])]
  BY <1>0 DEF TypeOK, TakeTask
<1>2. PICK f \in Fibers : f = Head(queue[e])
  BY <1>1
<1>3. queue[e][1] = f /\ 1 \in 1..Len(queue[e]) /\ Len(queue[e]) \in Nat
  BY <1>1, <1>2
<1>4. handle[f] = {<<"queue", e>>} /\ <<"task", t>> \in Wrappers
  BY <1>3 DEF HopInv, QueueInv, Wrappers
<1>5. fiber[f] = "suspended"
  BY <1>4 DEF HopInv, OneHandle
<1>6. /\ handle' \in [Fibers -> SUBSET Wrappers]
      /\ handle'[f] = {<<"task", t>>} /\ \A g \in Fibers \ {f} : handle'[g] = handle[g]
  BY <1>0, <1>2, <1>4, CopyMoves DEF TakeTask
<1>7. /\ job' \in [Threads -> Jobs]
      /\ job'[t].at = "call" /\ job'[t].fiber = f /\ job'[t].executor = e
      /\ \A u \in Threads \ {t} : job'[u] = job[u]
  BY <1>0, <1>2 DEF TypeOK, TakeTask, Jobs
<1>8. TypeOK'
  <2>1. queue' \in [Executors -> Seq(Fibers)]
    BY <1>1
  <2> QED
    BY <2>1, <1>0, <1>6, <1>7 DEF TypeOK, TakeTask
<1>9. ASSUME NEW u \in Threads, job[u].at \in Busy
      PROVE  job[u].fiber # f
  BY <1>3, <1>9, Alone
<1>10. QueueInv'
  <2> SUFFICES ASSUME NEW d \in Executors, NEW i \in 1..Len(queue'[d])
               PROVE  /\ handle'[queue'[d][i]] = {<<"queue", d>>}
                      /\ \A j \in 1..Len(queue'[d]) : queue'[d][i] = queue'[d][j] => i = j
    BY DEF QueueInv
  <2>1. \A k \in 1..Len(queue[d]) : handle[queue[d][k]] = {<<"queue", d>>} /\ queue[d][k] \in Fibers
    <3>1. queue[d] \in Seq(Fibers)
      BY <1>1
    <3> QED
      BY <3>1 DEF HopInv, QueueInv
  <2>2. \A k, l \in 1..Len(queue[d]) : queue[d][k] = queue[d][l] => k = l
    BY DEF HopInv, QueueInv
  <2>3. CASE d # e
    <3>1. queue'[d] = queue[d] /\ <<"queue", d>> # <<"queue", e>>
      BY <1>1, <2>3
    <3>2. ASSUME NEW k \in 1..Len(queue[d])
          PROVE  queue[d][k] # f
      <4>1. handle[queue[d][k]] = {<<"queue", d>>}
        BY <2>1
      <4> QED
        BY <4>1, <3>1, <1>4
    <3> QED
      BY <1>6, <2>1, <2>2, <3>1, <3>2
  <2>4. CASE d = e
    <3>1. /\ Len(queue'[e]) = Len(queue[e]) - 1
          /\ \A k \in 1..Len(queue'[e]) : queue'[e][k] = queue[e][k + 1]
      BY <1>1
    <3>2. \A k \in 1..Len(queue'[e]) : k + 1 \in 1..Len(queue[e]) /\ queue[e][k + 1] # f
      BY <3>1, <1>3, <2>2, <2>4
    <3>3. queue'[e][i] = queue[e][i + 1] /\ i \in 1..Len(queue'[e])
      BY <3>1, <2>4
    <3>4. handle'[queue[e][i + 1]] = {<<"queue", e>>}
      BY <3>2, <3>3, <1>6, <2>1, <2>4
    <3>5. ASSUME NEW j \in 1..Len(queue'[e]), queue'[e][i] = queue'[e][j]
          PROVE  i = j
      <4>1. i + 1 \in 1..Len(queue[e]) /\ j + 1 \in 1..Len(queue[e])
        BY <3>2, <3>3
      <4>2. queue[e][i + 1] = queue[e][j + 1]
        BY <3>1, <3>3, <3>5
      <4> QED
        BY <4>1, <4>2, <2>2, <2>4
    <3> QED
      BY <3>3, <3>4, <3>5, <2>4
  <2> QED
    BY <2>3, <2>4
<1>11. OneHandleOf(f)' /\ fiber' = fiber /\ closed' = closed
  BY <1>4, <1>5, <1>6 DEF OneHandleOf, TakeTask
<1> QED
  BY <1>0, <1>5, <1>6, <1>7, <1>8, <1>9, <1>10, <1>11, OneMoves DEF Busy, Carries, Wrapper

LEMMA CallTaskStep ==
  ASSUME HopInv, NEW t \in Threads, CallTask(t)
  PROVE  HopInv'
<1>0. TypeOK /\ job[t].at = "call" /\ job[t].at \in Carries /\ job[t].at \in Busy
  BY DEF HopInv, CallTask, Carries, Busy
<1>1. job[t].fiber \in Fibers
  BY <1>0 DEF HopInv, JobsInv
<1>2. PICK f \in Fibers : job[t].fiber = f
  BY <1>1
<1>3. handle[f] = {<<"task", t>>}
  BY <1>0, <1>2 DEF HopInv, JobsInv, Wrapper
<1>4. /\ handle' \in [Fibers -> SUBSET Wrappers]
      /\ handle'[f] = {} /\ \A g \in Fibers \ {f} : handle'[g] = handle[g]
  <2>1. handle' = [handle EXCEPT ![f] = handle[f] \ {<<"task", t>>}]
    BY <1>2 DEF CallTask, Moved
  <2> QED
    BY <2>1, <1>0, <1>3 DEF TypeOK
<1>5. /\ job' \in [Threads -> Jobs]
      /\ job'[t].at = "body" /\ job'[t].fiber = f /\ job'[t].executor \in Executors
      /\ \A u \in Threads \ {t} : job'[u] = job[u]
      /\ \A u \in Threads \ {t} : job[u].at \in Busy => job[u].fiber # f
      /\ \A e \in Executors : \A i \in 1..Len(queue[e]) : queue[e][i] # f
  BY <1>0, <1>2, <1>4, MovesOn DEF CallTask
<1>6. /\ fiber' \in [Fibers -> FiberStates]
      /\ fiber'[f] = "running" /\ \A g \in Fibers \ {f} : fiber'[g] = fiber[g]
  BY <1>0, <1>2 DEF TypeOK, FiberStates, CallTask
<1>7. TypeOK'
  BY <1>0, <1>4, <1>5, <1>6 DEF TypeOK, CallTask
<1>8. QueueInv'
  BY <1>4, <1>5, QueueStays DEF CallTask
<1>9. OneHandleOf(f)' /\ closed' = closed
  BY <1>4, <1>6 DEF OneHandleOf, CallTask
<1> QED
  BY <1>2, <1>4, <1>5, <1>6, <1>7, <1>8, <1>9, OneMoves DEF Busy, Carries

LEMMA FinishStep ==
  ASSUME HopInv, NEW t \in Threads, NEW f \in Fibers, Finish(t, f)
  PROVE  HopInv'
<1>0. TypeOK /\ job[t].at = "body" /\ job[t].at \in Busy /\ job[t].fiber = f
  BY DEF HopInv, Finish, Busy
<1>1. fiber[f] = "running" /\ handle[f] = {}
  BY <1>0 DEF HopInv, JobsInv, OneHandle
<1>2. /\ job' \in [Threads -> Jobs]
      /\ job'[t].at = "leave"
      /\ \A u \in Threads \ {t} : job'[u] = job[u]
  BY <1>0, GoesOn DEF Finish
<1>3. /\ fiber' \in [Fibers -> FiberStates]
      /\ fiber'[f] = "done" /\ \A g \in Fibers \ {f} : fiber'[g] = fiber[g]
  BY <1>0 DEF TypeOK, FiberStates, Finish
<1>4. TypeOK'
  BY <1>0, <1>2, <1>3 DEF TypeOK, Finish
<1>5. /\ \A u \in Threads \ {t} : job[u].at \in Busy => job[u].fiber # f
      /\ \A e \in Executors : \A i \in 1..Len(queue[e]) : queue[e][i] # f
  BY <1>0, Alone
<1>6. QueueInv'
  BY <1>5, QueueStays DEF Finish
<1>7. OneHandleOf(f)' /\ handle' = handle /\ closed' = closed
  BY <1>1, <1>3 DEF OneHandleOf, Finish
<1> QED
  BY <1>0, <1>1, <1>2, <1>3, <1>4, <1>5, <1>6, <1>7, OneMoves DEF Busy, Carries

-----------------------------------------------------------------------------
\* The thread that leaves has no handle: its destructors do nothing.
LEMMA LeaveStep ==
  ASSUME HopInv, NEW t \in Threads, Leave(t)
  PROVE  HopInv'
<1>0. TypeOK /\ job[t].at \notin Busy
  BY DEF HopInv, Leave, Busy, Carries
<1> DEFINE mine == {"lambda", "argument", "task"} \X {t}
<1>1. ASSUME NEW f \in Fibers
      PROVE  handle[f] \cap mine = {}
  <2> SUFFICES ASSUME NEW k \in Kinds, <<k, t>> \in handle[f]
               PROVE  FALSE
    BY DEF Kinds
  <2> QED
    BY <1>0 DEF HopInv, HandlesInv, Busy
<1>2. /\ handle' = [f \in Fibers |-> handle[f] \ mine]
      /\ fiber' = [f \in Fibers |-> IF handle[f] \cap mine # {} THEN "unwound" ELSE fiber[f]]
  <2> HIDE DEF mine
  <2>1. Destroyed([f \in Fibers |-> mine])
    BY DEF Leave, mine
  <2> QED
    BY <2>1 DEF Destroyed
<1> HIDE DEF mine
<1>3. handle' = handle /\ fiber' = fiber
  <2>1. \A f \in Fibers : handle'[f] = handle[f] /\ fiber'[f] = fiber[f]
    BY <1>1, <1>2
  <2> QED
    BY <2>1, <1>0, <1>2 DEF TypeOK
<1>4. /\ job' \in [Threads -> Jobs] /\ job'[t].at = "idle"
      /\ \A u \in Threads \ {t} : job'[u] = job[u]
  BY <1>0 DEF TypeOK, Leave, Idle, Jobs
<1>5. TypeOK'
  BY <1>0, <1>3, <1>4 DEF TypeOK, Leave
<1>6. OneHandle' /\ QueueInv'
  BY <1>3 DEF HopInv, OneHandle, QueueInv, Leave
<1>7. JobsInv'
  <2> SUFFICES ASSUME NEW u \in Threads
               PROVE  /\ job'[u].at \in Busy => job'[u].fiber \in Fibers /\ job'[u].executor \in Executors
                      /\ job'[u].at \in Carries => handle'[job'[u].fiber] = {<<Wrapper(job'[u].at), u>>}
                      /\ job'[u].at = "body" => fiber'[job'[u].fiber] = "running"
    BY DEF JobsInv, Wrapper
  <2> QED
    BY <1>3, <1>4 DEF HopInv, JobsInv, Busy, Carries
<1>8. OneBody' /\ HandlesInv'
  <2>1. OneBody'
    BY <1>4 DEF HopInv, OneBody
  <2>2. \A u \in Threads : job[u].at \in Carries => job'[u] = job[u]
    BY <1>0, <1>4 DEF Busy
  <2> QED
    BY <2>1, <2>2, <1>3 DEF HopInv, HandlesInv
<1> QED
  BY <1>5, <1>6, <1>7, <1>8 DEF HopInv

\* The fibers of the executor lose their only handle and are unwound; nobody
\* worked for them.
LEMMA ShutdownStep ==
  ASSUME HopInv, NEW e \in Executors, Shutdown(e)
  PROVE  HopInv'
<1>0. TypeOK /\ UNCHANGED <<job, hops, fault>> /\ closed' = closed \cup {e}
  BY DEF HopInv, Shutdown
<1> DEFINE q == <<"queue", e>>
<1>1. /\ handle' = [f \in Fibers |-> handle[f] \ {q}]
      /\ fiber' = [f \in Fibers |-> IF handle[f] \cap {q} # {} THEN "unwound" ELSE fiber[f]]
  <2> HIDE DEF q
  <2>1. Destroyed([f \in Fibers |-> {q}])
    BY DEF Shutdown, q
  <2> QED
    BY <2>1 DEF Destroyed
<1>2. ASSUME NEW f \in Fibers, q \notin handle[f]
      PROVE  handle'[f] = handle[f] /\ fiber'[f] = fiber[f]
  BY <1>1, <1>2
<1>3. ASSUME NEW f \in Fibers, q \in handle[f]
      PROVE  handle'[f] = {} /\ fiber'[f] = "unwound"
  <2>1. handle[f] = {q}
    BY <1>3 DEF HopInv, OneHandle
  <2> QED
    BY <1>1, <2>1
<1>4. queue \in [Executors -> Seq(Fibers)] /\ queue' = [queue EXCEPT ![e] = <<>>]
  BY <1>0 DEF TypeOK, Shutdown
<1>5. TypeOK'
  <2>1. queue' \in [Executors -> Seq(Fibers)]
    BY <1>4
  <2>2. fiber' \in [Fibers -> FiberStates] /\ handle' \in [Fibers -> SUBSET Wrappers]
    BY <1>0, <1>1 DEF TypeOK, FiberStates
  <2> QED
    BY <2>1, <2>2, <1>0 DEF TypeOK
<1>6. OneHandle'
  <2> SUFFICES ASSUME NEW f \in Fibers
               PROVE  IF fiber'[f] = "suspended" THEN \E w \in Wrappers : handle'[f] = {w}
                                                 ELSE handle'[f] = {}
    BY DEF OneHandle, Wrappers
  <2>1. CASE q \in handle[f]
    BY <1>3, <2>1
  <2>2. CASE q \notin handle[f]
    BY <1>2, <2>2 DEF HopInv, OneHandle
  <2> QED
    BY <2>1, <2>2
<1>7. JobsInv'
  <2> SUFFICES ASSUME NEW u \in Threads
               PROVE  /\ job[u].at \in Busy => job[u].fiber \in Fibers /\ job[u].executor \in Executors
                      /\ job[u].at \in Carries => handle'[job[u].fiber] = {<<Wrapper(job[u].at), u>>}
                      /\ job[u].at = "body" => fiber'[job[u].fiber] = "running"
    BY <1>0 DEF JobsInv, Wrapper
  <2>1. /\ job[u].at \in Busy => job[u].fiber \in Fibers /\ job[u].executor \in Executors
        /\ job[u].at \in Carries => handle[job[u].fiber] = {<<Wrapper(job[u].at), u>>}
        /\ job[u].at = "body" => fiber[job[u].fiber] = "running"
    BY DEF HopInv, JobsInv
  <2>2. Wrapper(job[u].at) # "queue"
    BY DEF Wrapper
  <2>3. job[u].at \in Carries => q \notin handle[job[u].fiber]
    BY <2>1, <2>2
  <2>4. job[u].at = "body" => q \notin handle[job[u].fiber]
    BY <2>1 DEF HopInv, OneHandle, Busy
  <2> HIDE DEF q
  <2> QED
    BY <2>1, <2>3, <2>4, <1>2 DEF Busy
<1>8. OneBody'
  BY <1>0 DEF HopInv, OneBody
<1>9. HandlesInv'
  BY <1>0, <1>1 DEF HopInv, HandlesInv
<1>10. QueueInv'
  <2> SUFFICES ASSUME NEW d \in Executors, NEW i \in 1..Len(queue'[d])
               PROVE  /\ handle'[queue'[d][i]] = {<<"queue", d>>}
                      /\ \A j \in 1..Len(queue'[d]) : queue'[d][i] = queue'[d][j] => i = j
    BY DEF QueueInv
  <2>1. d # e
    BY <1>4
  <2>2. queue'[d] = queue[d] /\ queue[d] \in Seq(Fibers)
    BY <1>4, <2>1
  <2>3. queue[d][i] \in Fibers /\ handle[queue[d][i]] = {<<"queue", d>>}
    BY <2>2 DEF HopInv, QueueInv
  <2>4. q \notin handle[queue[d][i]]
    BY <2>1, <2>3
  <2>5. \A j \in 1..Len(queue[d]) : queue[d][i] = queue[d][j] => i = j
    BY <2>2 DEF HopInv, QueueInv
  <2> HIDE DEF q
  <2>6. handle'[queue[d][i]] = handle[queue[d][i]]
    BY <2>3, <2>4, <1>2
  <2> QED
    BY <2>2, <2>3, <2>5, <2>6
<1> QED
  BY <1>5, <1>6, <1>7, <1>8, <1>9, <1>10 DEF HopInv

\* The wrapper that is called has its handle.
LEMMA CallsNeverFail ==
  ASSUME HopInv, NEW t \in Threads
  PROVE  ~CallFails(t)
<1> SUFFICES ASSUME job[t].at = "call"
             PROVE  <<"task", t>> \in handle[job[t].fiber] /\ fiber[job[t].fiber] = "suspended"
  BY DEF CallFails
<1>1. job[t].fiber \in Fibers /\ handle[job[t].fiber] = {<<"task", t>>}
  BY DEF HopInv, JobsInv, Busy, Carries, Wrapper
<1> QED
  BY <1>1 DEF HopInv, OneHandle

-----------------------------------------------------------------------------
LEMMA HopInit == Init => HopInv /\ HandleArrives
<1> SUFFICES ASSUME Init
             PROVE  HopInv /\ HandleArrives
  OBVIOUS
<1>1. TypeOK
  <2>1. job \in [Threads -> Jobs] /\ fiber \in [Fibers -> FiberStates]
    BY DEF Init, Idle, Jobs, FiberStates
  <2>2. queue \in [Executors -> Seq(Fibers)] /\ handle \in [Fibers -> SUBSET Wrappers]
    BY DEF Init
  <2>3. hops \in [Fibers -> 0..MaxHops]
    BY ResumeOnAssumption DEF Init
  <2> QED
    BY <2>1, <2>2, <2>3 DEF TypeOK, Init
<1>2. OneHandle /\ HandlesInv
  BY DEF Init, OneHandle, HandlesInv
<1>3. JobsInv /\ OneBody
  BY DEF Init, JobsInv, OneBody, Idle, Busy, Carries
<1>4. QueueInv
  BY DEF Init, QueueInv
<1> QED
  BY <1>1, <1>2, <1>3, <1>4, NoneAssumption DEF HopInv, HandleArrives, Init

LEMMA HopStep == HopInv /\ HandleArrives /\ [Next]_vars => HopInv' /\ HandleArrives'
<1> SUFFICES ASSUME HopInv, HandleArrives, [Next]_vars
             PROVE  HopInv' /\ HandleArrives'
  OBVIOUS
<1>1. ASSUME NEW t \in Threads, NEW f \in Fibers, NEW e \in Executors, Start(t, f, e)
      PROVE  HopInv' /\ HandleArrives'
  BY <1>1, StartStep DEF Start, HandleArrives
<1>2. ASSUME NEW e \in Executors, Shutdown(e)
      PROVE  HopInv' /\ HandleArrives'
  BY <1>2, ShutdownStep DEF Shutdown, HandleArrives
<1>3. ASSUME NEW t \in Threads, ThreadStep(t)
      PROVE  HopInv' /\ HandleArrives'
  <2>1. CASE Convert(t)
    BY <2>1, ConvertStep DEF Convert, HandleArrives
  <2>2. CASE PostAppends(t)
    BY <2>2, PostAppendsStep DEF PostAppends, HandleArrives
  <2>3. CASE PostThrows(t)
    <3>1. UNCHANGED <<fiber, handle, job, queue, closed, hops>> /\ fault' = "uncaught exception"
      BY <2>3 DEF PostThrows
    <3>2. TypeOK' /\ OneHandle' /\ OneBody' /\ HandlesInv'
      BY <3>1 DEF HopInv, TypeOK, OneHandle, OneBody, HandlesInv
    <3>3. JobsInv' /\ QueueInv'
      BY <3>1 DEF HopInv, JobsInv, QueueInv
    <3> QED
      BY <3>1, <3>2, <3>3 DEF HopInv, HandleArrives
  <2>4. CASE Leave(t)
    BY <2>4, LeaveStep DEF Leave, HandleArrives
  <2>5. CASE CallTask(t)
    BY <2>5, CallTaskStep DEF CallTask, HandleArrives
  <2>6. CASE CallFails(t)
    BY <2>6, CallsNeverFail
  <2>7. ASSUME NEW e \in Executors, TakeTask(t, e)
        PROVE  HopInv' /\ HandleArrives'
    BY <2>7, TakeTaskStep DEF TakeTask, HandleArrives
  <2>8. ASSUME NEW f \in Fibers, Finish(t, f)
        PROVE  HopInv' /\ HandleArrives'
    BY <2>8, FinishStep DEF Finish, HandleArrives
  <2>9. ASSUME NEW f \in Fibers, NEW e \in Executors, CallResumeOn(t, f, e)
        PROVE  HopInv' /\ HandleArrives'
    BY <2>9, CallResumeOnStep DEF CallResumeOn, HandleArrives
  <2> QED
    BY <1>3, <2>1, <2>2, <2>3, <2>4, <2>5, <2>6, <2>7, <2>8, <2>9 DEF ThreadStep
<1>4. ASSUME UNCHANGED vars
      PROVE  HopInv' /\ HandleArrives'
  <2>1. TypeOK' /\ OneHandle' /\ OneBody' /\ HandlesInv'
    BY <1>4 DEF vars, HopInv, TypeOK, OneHandle, OneBody, HandlesInv
  <2>2. JobsInv' /\ QueueInv' /\ HandleArrives'
    BY <1>4 DEF vars, HopInv, JobsInv, QueueInv, HandleArrives
  <2> QED
    BY <2>1, <2>2 DEF HopInv
<1> QED
  BY <1>1, <1>2, <1>3, <1>4 DEF Next

\* However the executors and threads interleave, a suspended fiber has one
\* handle and every other fiber none (MoveWrapper, resume_on).
THEOREM HandlesAreUnique == Spec => []OneHandle
<1>1. HopInv /\ HandleArrives => OneHandle
  BY DEF HopInv
<1> QED
  BY <1>1, HopInit, HopStep, PTL DEF Spec

\* A task never calls resume() on an empty handle.
THEOREM TasksHaveHandles == Spec => []HandleArrives
BY HopInit, HopStep, PTL DEF Spec

-----------------------------------------------------------------------------
(* Unwinding.                                                              *)

\* A handle in the queue of an executor is that of a fiber in this queue.
QueuedInv ==
  \A f \in Fibers, e \in Executors :
    <<"queue", e>> \in handle[f] => \E i \in 1..Len(queue[e]) : queue[e][i] = f

LEMMA QueuedKept ==
  ASSUME QueuedInv, queue' = queue,
         \A f \in Fibers, e \in Executors : <<"queue", e>> \in handle'[f] => <<"queue", e>> \in handle[f]
  PROVE  QueuedInv'
BY DEF QueuedInv

\* A new handle is in no queue.
LEMMA LambdaQueued ==
  ASSUME HopInv, QueuedInv, NEW t \in Threads, NEW f \in Fibers, NEW e \in Executors,
         Lambda(t, f, e), queue' = queue
  PROVE  QueuedInv'
<1>1. \A g \in Fibers, d \in Executors : <<"queue", d>> \in handle'[g] => <<"queue", d>> \in handle[g]
  <2> SUFFICES ASSUME NEW g \in Fibers, NEW d \in Executors, <<"queue", d>> \in handle'[g]
               PROVE  <<"queue", d>> \in handle[g]
    OBVIOUS
  <2>1. handle'[g] = IF g = f THEN {<<"lambda", t>>} ELSE handle[g]
    BY DEF HopInv, TypeOK, Lambda
  <2>2. <<"queue", d>> # <<"lambda", t>>
    OBVIOUS
  <2> QED
    BY <2>1, <2>2
<1> QED
  BY <1>1, QueuedKept

LEMMA ConvertQueued ==
  ASSUME HopInv, QueuedInv, NEW t \in Threads, Convert(t)
  PROVE  QueuedInv'
<1>1. \A g \in Fibers, d \in Executors : <<"queue", d>> \in handle'[g] => <<"queue", d>> \in handle[g]
  <2> SUFFICES ASSUME NEW g \in Fibers, NEW d \in Executors, <<"queue", d>> \in handle'[g]
               PROVE  <<"queue", d>> \in handle[g]
    OBVIOUS
  <2>1. handle'[g] \subseteq handle[g] \cup {<<"argument", t>>}
    BY DEF HopInv, TypeOK, Convert, Copied
  <2>2. <<"queue", d>> # <<"argument", t>>
    OBVIOUS
  <2> QED
    BY <2>1, <2>2
<1> QED
  BY <1>1, QueuedKept DEF Convert

LEMMA PostAppendsQueued ==
  ASSUME HopInv, QueuedInv, NEW t \in Threads, PostAppends(t)
  PROVE  QueuedInv'
<1> DEFINE e == job[t].executor
           f == job[t].fiber
<1>1. e \in Executors /\ f \in Fibers
  BY DEF HopInv, JobsInv, PostAppends, Busy, Carries
<1>2. queue \in [Executors -> Seq(Fibers)] /\ queue' = [queue EXCEPT ![e] = Append(@, f)]
  BY DEF HopInv, TypeOK, PostAppends, Queued
<1>3. \A g \in Fibers : handle'[g] \subseteq IF g = f THEN handle[g] \cup {<<"queue", e>>} ELSE handle[g]
  BY DEF HopInv, TypeOK, PostAppends, Copied
<1> HIDE DEF e, f
<1>4. \A d \in Executors : queue'[d] = IF d = e THEN Append(queue[e], f) ELSE queue[d]
  BY <1>2
<1> SUFFICES ASSUME NEW g \in Fibers, NEW d \in Executors, <<"queue", d>> \in handle'[g]
             PROVE  \E i \in 1..Len(queue'[d]) : queue'[d][i] = g
  BY DEF QueuedInv
<1>5. CASE g = f /\ d = e
  <2>1. queue'[d] = Append(queue[e], f) /\ queue[e] \in Seq(Fibers)
    BY <1>1, <1>2, <1>4, <1>5
  <2>2. /\ Len(queue'[d]) = Len(queue[e]) + 1 /\ Len(queue[e]) \in Nat
        /\ queue'[d][Len(queue[e]) + 1] = f
    BY <1>1, <2>1
  <2> QED
    BY <1>5, <2>2
<1>6. CASE ~(g = f /\ d = e)
  <2>1. <<"queue", d>> \in handle[g]
    BY <1>3, <1>6
  <2>2. PICK i \in 1..Len(queue[d]) : queue[d][i] = g
    BY <2>1 DEF QueuedInv
  <2>3. queue[d] \in Seq(Fibers) /\ queue'[d] = IF d = e THEN Append(queue[d], f) ELSE queue[d]
    BY <1>2, <1>4
  <2>4. i \in 1..Len(queue'[d]) /\ queue'[d][i] = queue[d][i]
    BY <1>1, <2>3
  <2> QED
    BY <2>2, <2>4
<1> QED
  BY <1>5, <1>6

\* The head leaves the queue with its only handle.
LEMMA TakeTaskQueued ==
  ASSUME HopInv, QueuedInv, NEW t \in Threads, NEW e \in Executors, TakeTask(t, e)
  PROVE  QueuedInv'
<1> DEFINE h == Head(queue[e])
<1>1. queue[e] \in Seq(Fibers) /\ queue[e] # <<>> /\ queue' = [queue EXCEPT ![e] = Tail(@)]
      /\ queue \in [Executors -> Seq(Fibers)]
  BY DEF HopInv, TypeOK, TakeTask
<1>2. h = queue[e][1] /\ 1 \in 1..Len(queue[e]) /\ h \in Fibers
  BY <1>1
<1>3. handle[h] = {<<"queue", e>>}
  BY <1>2 DEF HopInv, QueueInv
<1>4. \A g \in Fibers : handle'[g] = IF g = h THEN {<<"task", t>>} ELSE handle[g]
  BY <1>2, <1>3 DEF HopInv, TypeOK, TakeTask, Copied
<1> HIDE DEF h
<1>5. \A d \in Executors : queue'[d] = IF d = e THEN Tail(queue[e]) ELSE queue[d]
  BY <1>1
<1> SUFFICES ASSUME NEW g \in Fibers, NEW d \in Executors, <<"queue", d>> \in handle'[g]
             PROVE  \E i \in 1..Len(queue'[d]) : queue'[d][i] = g
  BY DEF QueuedInv
<1>6. <<"queue", d>> # <<"task", t>>
  OBVIOUS
<1>7. g # h /\ <<"queue", d>> \in handle[g]
  BY <1>4, <1>6
<1>8. PICK i \in 1..Len(queue[d]) : queue[d][i] = g
  BY <1>7 DEF QueuedInv
<1>9. CASE d = e
  <2>1. i # 1 /\ queue'[d] = Tail(queue[e])
    BY <1>2, <1>5, <1>7, <1>8, <1>9
  <2>2. /\ i - 1 \in 1..Len(Tail(queue[e]))
        /\ Tail(queue[e])[i - 1] = queue[e][i]
    BY <1>1, <1>8, <1>9, <2>1
  <2> QED
    BY <1>8, <1>9, <2>1, <2>2
<1>10. CASE d # e
  BY <1>5, <1>8, <1>10
<1> QED
  BY <1>9, <1>10

LEMMA ShutdownQueued ==
  ASSUME HopInv, QueuedInv, NEW e \in Executors, Shutdown(e)
  PROVE  QueuedInv'
<1>1. /\ queue' = [queue EXCEPT ![e] = <<>>] /\ queue \in [Executors -> Seq(Fibers)]
      /\ \A g \in Fibers : handle'[g] = handle[g] \ {<<"queue", e>>}
  BY DEF HopInv, TypeOK, Shutdown, Destroyed
<1> SUFFICES ASSUME NEW g \in Fibers, NEW d \in Executors, <<"queue", d>> \in handle'[g]
             PROVE  \E i \in 1..Len(queue'[d]) : queue'[d][i] = g
  BY DEF QueuedInv
<1>2. d # e /\ <<"queue", d>> \in handle[g]
  BY <1>1
<1>3. queue'[d] = queue[d]
  BY <1>1, <1>2
<1> QED
  BY <1>2, <1>3 DEF QueuedInv

LEMMA QueuedStep == HopInv /\ QueuedInv /\ [Next]_vars => QueuedInv'
<1> SUFFICES ASSUME HopInv, QueuedInv, [Next]_vars
             PROVE  QueuedInv'
  OBVIOUS
<1>1. ASSUME NEW t \in Threads, NEW f \in Fibers, NEW e \in Executors, Start(t, f, e)
      PROVE  QueuedInv'
  BY <1>1, LambdaQueued DEF Start
<1>2. ASSUME NEW e \in Executors, Shutdown(e)
      PROVE  QueuedInv'
  BY <1>2, ShutdownQueued
<1>3. ASSUME NEW t \in Threads, ThreadStep(t)
      PROVE  QueuedInv'
  <2>1. CASE Convert(t)
    BY <2>1, ConvertQueued
  <2>2. CASE PostAppends(t)
    BY <2>2, PostAppendsQueued
  <2>3. CASE PostThrows(t) \/ CallFails(t)
    BY <2>3, QueuedKept DEF PostThrows, CallFails
  <2>4. CASE Leave(t)
    <3>1. queue' = queue /\ \A g \in Fibers : handle'[g] \subseteq handle[g]
      BY <2>4 DEF Leave, Destroyed
    <3> QED
      BY <3>1, QueuedKept
  <2>5. CASE CallTask(t)
    <3>1. queue' = queue /\ \A g \in Fibers : handle'[g] \subseteq handle[g]
      BY <2>5 DEF HopInv, TypeOK, CallTask, Moved
    <3> QED
      BY <3>1, QueuedKept
  <2>6. ASSUME NEW e \in Executors, TakeTask(t, e)
        PROVE  QueuedInv'
    BY <2>6, TakeTaskQueued
  <2>7. ASSUME NEW f \in Fibers, Finish(t, f)
        PROVE  QueuedInv'
    BY <2>7, QueuedKept DEF Finish
  <2>8. ASSUME NEW f \in Fibers, NEW e \in Executors, CallResumeOn(t, f, e)
        PROVE  QueuedInv'
    BY <2>8, LambdaQueued DEF CallResumeOn
  <2> QED
    BY <1>3, <2>1, <2>2, <2>3, <2>4, <2>5, <2>6, <2>7, <2>8 DEF ThreadStep
<1>4. CASE UNCHANGED vars
  BY <1>4, QueuedKept DEF vars
<1> QED
  BY <1>1, <1>2, <1>3, <1>4 DEF Next

\* A thread that leaves a hop has no handle left.
LEMMA LeaveUnwindsNone ==
  ASSUME HopInv, NEW t \in Threads, Leave(t), NEW f \in Fibers
  PROVE  fiber'[f] = fiber[f]
<1>1. \A k \in Kinds : <<k, t>> \notin handle[f]
  BY DEF HopInv, HandlesInv, Leave, Carries
<1>2. handle[f] \cap (Kinds \X {t}) = {}
  BY <1>1
<1>3. fiber' = [g \in Fibers |-> IF handle[g] \cap (Kinds \X {t}) # {} THEN "unwound" ELSE fiber[g]]
  BY DEF Leave, Destroyed, Kinds
<1> HIDE DEF Kinds
<1> QED
  BY <1>2, <1>3

\* A step that unwinds a fiber is the shutdown of the executor that has it.
LEMMA UnwindingStep ==
  ASSUME HopInv, QueuedInv, [Next]_vars, NEW f \in Fibers, fiber[f] # "unwound", fiber'[f] = "unwound"
  PROVE  \E e \in closed' \ closed : \E i \in 1..Len(queue[e]) : queue[e][i] = f
<1>0. fiber \in [Fibers -> FiberStates]
  BY DEF HopInv, TypeOK
<1>1. ~UNCHANGED vars
  BY DEF vars
<1>2. ASSUME NEW t \in Threads, NEW g \in Fibers, NEW e \in Executors, Start(t, g, e) \/ CallResumeOn(t, g, e)
      PROVE  FALSE
  BY <1>0, <1>2 DEF Start, CallResumeOn, Lambda
<1>3. ASSUME NEW t \in Threads, ThreadStep(t)
      PROVE  FALSE
  <2>1. ~Leave(t)
    BY LeaveUnwindsNone
  <2>2. ~(Convert(t) \/ PostAppends(t) \/ PostThrows(t) \/ CallFails(t))
    BY DEF Convert, PostAppends, PostThrows, CallFails
  <2>3. ~CallTask(t)
    BY <1>0 DEF CallTask
  <2>4. \A e \in Executors : ~TakeTask(t, e)
    BY DEF TakeTask
  <2>5. \A g \in Fibers : ~Finish(t, g)
    BY <1>0 DEF Finish
  <2> QED
    BY <1>2, <1>3, <2>1, <2>2, <2>3, <2>4, <2>5 DEF ThreadStep
<1>4. PICK e \in Executors : Shutdown(e)
  BY <1>1, <1>2, <1>3 DEF Next
<1>5. e \in closed' \ closed
  BY <1>4 DEF Shutdown
<1>6. <<"queue", e>> \in handle[f]
  <2> DEFINE q == <<"queue", e>>
  <2> HIDE DEF q
  <2>1. Destroyed([g \in Fibers |-> {q}])
    BY <1>4 DEF Shutdown, q
  <2>2. q \in handle[f]
    BY <2>1 DEF Destroyed
  <2> QED
    BY <2>2 DEF q
<1> QED
  BY <1>5, <1>6 DEF QueuedInv

\* However executors and threads interleave, no wrapper that a hop leaves behind
\* unwinds a fiber: only the shutdown of the executor that has it does.
THEOREM FibersSurviveHops == Spec => UnwoundByShutdown
<1>1. Init => QueuedInv
  BY DEF Init, QueuedInv
<1>2. HopInv /\ QueuedInv /\ [Next]_vars =>
        [\A f \in Fibers : fiber[f] # "unwound" /\ fiber'[f] = "unwound" =>
           \E e \in closed' \ closed : \E i \in 1..Len(queue[e]) : queue[e][i] = f]_vars
  BY UnwindingStep
<1> QED
  BY <1>1, <1>2, HopInit, HopStep, QueuedStep, PTL DEF Spec, UnwoundByShutdown

=============================================================================
