----------------------------- MODULE HomeProofs -----------------------------
(***************************************************************************)
(* Client programs that are timely whatever the scheduler does: those in   *)
(* which every coroutine has a home thread, the only one that starts it or *)
(* serves the executors it uses.  Async tasks may complete anywhere.  The  *)
(* theorems of ConfinedProofs hold for every behaviour of such a program.  *)
(***************************************************************************)
EXTENDS ConfinedProofs

\* Only thread t runs the tasks of e.
ServedBy(e, t) == \A u \in Threads : <<u, e>> \in Serves => u = t

\* Whoever completes the task that c awaits without an executor runs c.
CompletedBy(c, t) == \A u \in Completers : u = t

Homes(h) ==
  /\ \A t \in Threads, c \in Coros :
       <<t, c>> \in Starts \cup SyncWaits \cup Resumes \cup Destroys => t = h[c]
  /\ \A c \in Coros, e \in Executors : <<c, e>> \in Posts \cup Hops => ServedBy(e, h[c])
  /\ \A c, d \in Coros : <<c, d>> \in Awaits \cup Calls => h[c] = h[d]
  /\ \A c \in Bare \cap TaskAwaits : CompletedBy(c, h[c])

\* The client programs the theorems are about.
Homely == \E h \in [Coros -> Threads] : Homes(h)

-----------------------------------------------------------------------------
(* Every frame of a coroutine is on its home thread.                       *)

HomeStack(h, t, s) == \A i \in DOMAIN s : h[s[i].co] = t
Stacked(h) == \A t \in Threads : HomeStack(h, t, stack[t])

\* What the fields o of c lead to is on the same thread as c.
HomeFields(h, c, o) ==
  /\ o.executor # None => ServedBy(o.executor, h[c])
  /\ o.last_call \in Coros => h[o.last_call] = h[c]
  /\ o.yield_after_call # None => h[o.yield_after_call.co] = h[c]
  /\ o.yield_after_call = [fn |-> "then", co |-> c] =>
       o.executor # None \/ c \in Bare \cap TaskAwaits
Stored(h, objs) == \A c \in Coros : HomeFields(h, c, objs[c])

Queued(h) ==
  \A c \in Coros, e \in Executors, fn \in {"start", "resume"} :
    posted[e][[fn |-> fn, co |-> c]] # 0 => ServedBy(e, h[c])

Completed(h) ==
  \A c \in Coros : thens[c] # 0 => coro[c].executor # None \/ c \in Bare \cap TaskAwaits

HomeInv(h) == Stacked(h) /\ Stored(h, coro) /\ Queued(h) /\ Completed(h)

LEMMA TopHome ==
  ASSUME TypeOK, NEW h, Stacked(h), NEW t \in Threads, NEW c \in Coros, NEW p, At(t, c, p)
  PROVE  /\ h[c] = t
         /\ Tail(stack[t]) \in Seq(Frames) /\ HomeStack(h, t, Tail(stack[t]))
<1>1. stack[t] \in Seq(Frames) /\ stack[t] # <<>> /\ stack[t][1] = Frame(c, p) /\ 1 \in DOMAIN stack[t]
  BY DEF TypeOK, At
<1>2. HomeStack(h, t, stack[t])
  BY DEF Stacked
<1>3. h[c] = t
  BY <1>1, <1>2 DEF HomeStack, Frame
<1>4. \A i \in DOMAIN Tail(stack[t]) : i + 1 \in DOMAIN stack[t] /\ Tail(stack[t])[i] = stack[t][i + 1]
  BY <1>1
<1> QED
  BY <1>1, <1>2, <1>3, <1>4 DEF HomeStack

LEMMA PushHome ==
  ASSUME NEW h, NEW t, NEW d \in Coros, h[d] = t, NEW q \in Phases,
         NEW s \in Seq(Frames), HomeStack(h, t, s)
  PROVE  /\ <<Frame(d, q)>> \o s \in Seq(Frames)
         /\ HomeStack(h, t, <<Frame(d, q)>> \o s)
<1> DEFINE r == <<Frame(d, q)>> \o s
<1>1. Frame(d, q) \in Frames /\ Frame(d, q).co = d
  BY DEF Frame, Frames
<1>2. /\ r \in Seq(Frames) /\ r[1] = Frame(d, q)
      /\ \A i \in DOMAIN r : i # 1 => i - 1 \in DOMAIN s /\ r[i] = s[i - 1]
  BY <1>1
<1> HIDE DEF r
<1>3. HomeStack(h, t, r)
  BY <1>1, <1>2 DEF HomeStack
<1>4. r = <<Frame(d, q)>> \o s
  BY DEF r
<1> QED
  BY <1>2, <1>3, <1>4

LEMMA SetHome ==
  ASSUME TypeOK, NEW h, Stacked(h), NEW t \in Threads, NEW s, HomeStack(h, t, s), SetStack(t, s)
  PROVE  Stacked(h)'
<1>1. stack \in [Threads -> Seq(Frames)] /\ stack' = [stack EXCEPT ![t] = s]
  BY DEF TypeOK, SetStack
<1>2. \A u \in Threads : stack'[u] = IF u = t THEN s ELSE stack[u]
  BY <1>1
<1> QED
  BY <1>2 DEF Stacked, HomeStack

LEMMA MoveHome ==
  ASSUME TypeOK, NEW h, Stacked(h), NEW t \in Threads, NEW c \in Coros, NEW p, At(t, c, p),
         NEW q \in Phases
  PROVE  Moved(t, c, q) \in Seq(Frames) /\ HomeStack(h, t, Moved(t, c, q))
BY TopHome, PushHome DEF Moved

LEMMA UnwoundHome ==
  ASSUME TypeOK, NEW h, Stacked(h), NEW t \in Threads, Unwinds(t)
  PROVE  Stacked(h)'
<1>1. stack[t] \in Seq(Frames)
  BY DEF TypeOK
<1>2. CASE UNCHANGED stack
  BY <1>2 DEF Stacked, HomeStack
<1>3. ASSUME NEW n \in 1..(Len(stack[t]) + 1), SetStack(t, SubSeq(stack[t], n, Len(stack[t])))
      PROVE  Stacked(h)'
  <2> DEFINE s == SubSeq(stack[t], n, Len(stack[t]))
  <2>1. \A i \in DOMAIN s : i + n - 1 \in DOMAIN stack[t] /\ s[i] = stack[t][i + n - 1]
    BY <1>1
  <2>2. SetStack(t, s)
    BY <1>3
  <2> HIDE DEF s
  <2>3. HomeStack(h, t, s)
    BY <2>1 DEF HomeStack, Stacked
  <2> QED
    BY <2>2, <2>3, SetHome
<1> QED
  BY <1>2, <1>3 DEF Unwinds

LEMMA StartHome ==
  ASSUME TypeOK, NEW h, Stacked(h), NEW t \in Threads, NEW c \in Coros, h[c] = t, NEW objs,
         NEW rest \in Seq(Frames), HomeStack(h, t, rest), StartAndOp(t, c, objs, rest)
  PROVE  Stacked(h)'
<1>1. "jump" \in Phases
  BY DEF Phases
<1>2. HomeStack(h, t, <<Frame(c, "jump")>> \o rest)
  BY <1>1, PushHome
<1>3. CASE SetStack(t, <<Frame(c, "jump")>> \o rest)
  BY <1>2, <1>3, SetHome
<1>4. CASE Unwinds(t)
  BY <1>4, UnwoundHome
<1> QED
  BY <1>3, <1>4 DEF StartAndOp

-----------------------------------------------------------------------------
(* What the fields of the coroutines lead to.                              *)

\* Nothing that leads to another coroutine or to an executor has changed.
Led(objs) ==
  \A b \in Coros : /\ objs[b].executor = coro[b].executor
                   /\ objs[b].last_call = coro[b].last_call
                   /\ objs[b].yield_after_call = coro[b].yield_after_call

LEMMA LedHome ==
  ASSUME NEW h, HomeInv(h), Led(coro'), Stacked(h)', UNCHANGED <<posted, thens>>
  PROVE  HomeInv(h)'
BY DEF HomeInv, Led, Stored, HomeFields, Queued, Completed

LEMMA FieldsLed ==
  ASSUME TypeOK, NEW c \in Coros
  PROVE  /\ \A v : Led([coro EXCEPT ![c].source = v])
         /\ \A v : Led([coro EXCEPT ![c].prolong_life = v])
         /\ \A v, w : Led([coro EXCEPT ![c].source = v, ![c].prolong_life = w])
         /\ \A v, w : Led([coro EXCEPT ![c].finished = v, ![c].source = w])
         /\ Led(coro)
<1>1. coro \in [Coros -> CoroutineContextBase]
  BY DEF TypeOK
<1> QED
  BY <1>1 DEF Led, CoroutineContextBase

LEMMA StartLed ==
  ASSUME TypeOK, NEW t, NEW c \in Coros, NEW rest, StartAndOp(t, c, coro, rest)
  PROVE  Led(coro')
<1>1. coro' = [coro EXCEPT ![c].source = "fresh"] \/ coro' = coro
  BY DEF StartAndOp
<1> QED
  BY <1>1, FieldsLed

\* A task for c joins those of its executor.
LEMMA PostHome ==
  ASSUME TypeOK, NEW h, Queued(h), NEW c \in Coros, NEW e, NEW fn \in {"start", "resume"},
         e # None => ServedBy(e, h[c]), Post(e, fn, c)
  PROVE  Queued(h)'
<1> SUFFICES ASSUME NEW b \in Coros, NEW x \in Executors, NEW g \in {"start", "resume"},
                    posted'[x][[fn |-> g, co |-> b]] # 0
             PROVE  ServedBy(x, h[b])
  BY DEF Queued
<1>1. x # None /\ [fn |-> g, co |-> b] \in Tasks
  BY NoneIs DEF Tasks
<1>2. CASE x = e /\ b = c
  BY <1>1, <1>2
<1>3. CASE ~(x = e /\ b = c)
  <2>1. [fn |-> g, co |-> b] # [fn |-> fn, co |-> c] \/ x # e
    BY <1>3
  <2>2. posted'[x][[fn |-> g, co |-> b]] = posted[x][[fn |-> g, co |-> b]]
    BY <1>1, <2>1 DEF Post, TypeOK
  <2> QED
    BY <2>2 DEF Queued
<1> QED
  BY <1>2, <1>3

LEMMA TakenHome ==
  ASSUME TypeOK, NEW h, Queued(h), NEW c \in Coros, NEW e \in Executors,
         NEW fn \in {"start", "resume"}, Taken(e, fn, c)
  PROVE  Queued(h)' /\ ServedBy(e, h[c])
<1>1. [fn |-> fn, co |-> c] \in Tasks /\ posted[e][[fn |-> fn, co |-> c]] # 0
  BY DEF Taken, TypeOK, Tasks
<1>2. ASSUME NEW b \in Coros, NEW x \in Executors, NEW g \in {"start", "resume"},
             posted'[x][[fn |-> g, co |-> b]] # 0
      PROVE  ServedBy(x, h[b])
  <2>1. CASE x = e /\ [fn |-> g, co |-> b] = [fn |-> fn, co |-> c]
    BY <1>1, <2>1 DEF Queued
  <2>2. CASE ~(x = e /\ [fn |-> g, co |-> b] = [fn |-> fn, co |-> c])
    <3>1. [fn |-> g, co |-> b] \in Tasks
      BY DEF Tasks
    <3>2. posted'[x][[fn |-> g, co |-> b]] = posted[x][[fn |-> g, co |-> b]]
      BY <2>2, <3>1 DEF Taken, TypeOK
    <3> QED
      BY <1>2, <3>2 DEF Queued
  <2> QED
    BY <2>1, <2>2
<1> QED
  BY <1>1, <1>2 DEF Queued

\* The end of what c awaited, on its home thread or posted to its executor.
LEMMA AwaiterHome ==
  ASSUME TypeOK, NEW h, HomeInv(h), NEW t \in Threads, NEW c \in Coros,
         coro[c].executor = None => h[c] = t, NEW rest \in Seq(Frames), HomeStack(h, t, rest),
         ResumeAwaiter(t, c, rest)
  PROVE  Stacked(h)' /\ Queued(h)'
<1>1. "jump" \in Phases
  BY DEF Phases
<1>2. CASE coro[c].executor = None
  <2>1. SetStack(t, <<Frame(c, "jump")>> \o rest) /\ UNCHANGED posted
    BY <1>2 DEF ResumeAwaiter
  <2>2. HomeStack(h, t, <<Frame(c, "jump")>> \o rest)
    BY <1>1, <1>2, PushHome
  <2>3. Stacked(h)'
    BY <2>1, <2>2, SetHome DEF HomeInv
  <2> QED
    BY <2>1, <2>3 DEF HomeInv, Queued
<1>3. CASE coro[c].executor # None
  <2>1. Post(coro[c].executor, "resume", c) /\ SetStack(t, rest)
    BY <1>3 DEF ResumeAwaiter
  <2>2. ServedBy(coro[c].executor, h[c])
    BY <1>3 DEF HomeInv, Stored, HomeFields
  <2>3. Queued(h)'
    BY <2>1, <2>2, PostHome DEF HomeInv
  <2>4. Stacked(h)'
    BY <2>1, SetHome DEF HomeInv
  <2> QED
    BY <2>3, <2>4
<1> QED
  BY <1>2, <1>3

\* A stored function is not the empty one.
LEMMA TaskNotNone == \A fn \in {"post", "start", "then"}, c \in Coros : [fn |-> fn, co |-> c] # None
BY NoneAssumption DEF Callbacks

-----------------------------------------------------------------------------
(* Every step keeps the coroutines at home.                                *)

LEMMA ResumeHome ==
  ASSUME TypeOK, NEW h, HomeInv(h), NEW t \in Threads, NEW c \in Coros, Resume(t, c)
  PROVE  HomeInv(h)'
<1>1. Stacked(h) /\ Stored(h, coro) /\ Queued(h) /\ Completed(h)
  BY DEF HomeInv
<1>2. Phases = {"jump", "body", "check", "call", "clear", "fin", "release", "owner", "wait"}
  BY DEF Phases
<1>3. ASSUME NEW p, At(t, c, p), NEW q \in Phases, SetStack(t, Moved(t, c, q))
      PROVE  Stacked(h)'
  <2>1. HomeStack(h, t, Moved(t, c, q))
    BY <1>1, <1>3, MoveHome
  <2> QED
    BY <1>1, <1>3, <2>1, SetHome
<1>4. ASSUME NEW p, At(t, c, p), SetStack(t, Tail(stack[t]))
      PROVE  Stacked(h)'
  BY <1>1, <1>4, TopHome, SetHome
<1>5. ASSUME UNCHANGED coro PROVE Led(coro')
  BY <1>5, FieldsLed
<1>6. CASE Enter(t, c)
  <2>1. PICK v : coro' = [coro EXCEPT ![c].source = "caller", ![c].prolong_life = v]
    BY <1>6 DEF Enter, Entered
  <2>2. Led(coro')
    BY <2>1, FieldsLed
  <2> QED
    BY <1>2, <1>3, <1>6, <2>2, LedHome DEF Enter
<1>7. ASSUME NEW u \in Threads, EnterTwice(t, u, c)
      PROVE  HomeInv(h)'
  <2>1. t = h[c] /\ u = h[c] /\ t # u
    BY <1>1, <1>7, TopHome DEF EnterTwice
  <2> QED
    BY <2>1
<1>8. CASE EnterFails(t, c) \/ CallFails(t, c)
  <2>1. UNCHANGED stack /\ Led(coro') /\ UNCHANGED <<posted, thens>>
    BY <1>5, <1>8 DEF EnterFails, CallFails
  <2>2. Stacked(h)'
    BY <1>1, <2>1 DEF Stacked, HomeStack
  <2> QED
    BY <2>1, <2>2, LedHome
<1>9. CASE Check(t, c)
  <2>1. AfterSwitch(c) \in Phases
    BY <1>2 DEF AfterSwitch
  <2>2. Stacked(h)'
    BY <1>3, <1>9, <2>1 DEF Check
  <2> QED
    BY <1>5, <1>9, <2>2, LedHome DEF Check
<1>10. CASE CallPost(t, c)
  <2>1. Stacked(h)'
    BY <1>2, <1>3, <1>10 DEF CallPost
  <2>2. Queued(h)'
    <3>1. Post(coro[c].executor, "resume", c)
      BY <1>10 DEF CallPost
    <3>2. coro[c].executor # None => ServedBy(coro[c].executor, h[c])
      BY <1>1 DEF Stored, HomeFields
    <3> QED
      BY <1>1, <3>1, <3>2, PostHome
  <2> QED
    BY <1>1, <1>10, <2>1, <2>2 DEF CallPost, HomeInv, Stored, HomeFields, Completed
<1>11. CASE CallThen(t, c)
  <2>1. Stacked(h)'
    BY <1>2, <1>3, <1>11 DEF CallThen
  <2>2. coro[c].executor # None \/ c \in Bare \cap TaskAwaits
    BY <1>1, <1>11 DEF CallThen, Stored, HomeFields
  <2>3. UNCHANGED <<coro, posted>> /\ \A b \in Coros \ {c} : thens'[b] = thens[b]
    BY <1>11 DEF CallThen, TypeOK
  <2> QED
    BY <1>1, <2>1, <2>2, <2>3 DEF HomeInv, Stored, HomeFields, Queued, Completed
<1>12. ASSUME CallThrows(t, c) \/ \E p \in Coros : LastCallThrows(t, c, p)
       PROVE  HomeInv(h)'
  <2>1. Stacked(h)' /\ Led(coro') /\ UNCHANGED <<posted, thens>>
    BY <1>1, <1>5, <1>12, UnwoundHome DEF CallThrows, LastCallThrows
  <2> QED
    BY <2>1, LedHome
<1>13. ASSUME NEW d \in Coros, CallStart(t, c, d)
       PROVE  HomeInv(h)'
  <2> DEFINE rest == Moved(t, c, "clear")
  <2>1. /\ At(t, c, "call") /\ StartAndOp(t, d, coro, rest) /\ UNCHANGED <<posted, thens>>
        /\ coro[c].yield_after_call = [fn |-> "start", co |-> d]
    BY <1>13 DEF CallStart
  <2>2. rest \in Seq(Frames) /\ HomeStack(h, t, rest) /\ h[c] = t
    BY <1>1, <1>2, <2>1, MoveHome, TopHome
  <2>3. h[d] = t
    <3>1. coro[c].yield_after_call # None /\ coro[c].yield_after_call.co = d
      BY <2>1, NoneAssumption DEF Callbacks
    <3> QED
      BY <1>1, <2>2, <3>1 DEF Stored, HomeFields
  <2> HIDE DEF rest
  <2>4. Stacked(h)' /\ Led(coro')
    BY <1>1, <2>1, <2>2, <2>3, StartHome, StartLed
  <2> QED
    BY <2>1, <2>4, LedHome
<1>14. CASE Clear(t, c)
  <2>1. Stacked(h)'
    BY <1>2, <1>3, <1>14 DEF Clear
  <2>2. /\ coro' = [coro EXCEPT ![c].yield_after_call = None]
        /\ coro \in [Coros -> CoroutineContextBase] /\ UNCHANGED <<posted, thens>>
    BY <1>14 DEF Clear, Cleared, TypeOK
  <2>3. /\ \A b \in Coros : /\ coro'[b].executor = coro[b].executor
                            /\ coro'[b].last_call = coro[b].last_call
                            /\ \/ coro'[b].yield_after_call = coro[b].yield_after_call
                               \/ coro'[b].yield_after_call = None
    BY <2>2 DEF CoroutineContextBase
  <2>4. Stored(h, coro)'
    BY <1>1, <2>3, TaskNotNone DEF Stored, HomeFields
  <2> QED
    BY <1>1, <2>1, <2>2, <2>3, <2>4 DEF HomeInv, Queued, Completed
<1>15. CASE NotFinished(t, c) \/ OwnerReturns(t, c) \/ SyncWaitReturns(t, c)
  <2>1. Stacked(h)'
    BY <1>4, <1>15 DEF NotFinished, OwnerReturns, SyncWaitReturns
  <2> QED
    BY <1>5, <1>15, <2>1, LedHome DEF NotFinished, OwnerReturns, SyncWaitReturns
<1>16. CASE LastCallEmpty(t, c) \/ \E w \in Threads : LastCallEvent(t, c, w)
  <2>1. Stacked(h)'
    BY <1>2, <1>3, <1>16 DEF LastCallEmpty, LastCallEvent
  <2> QED
    BY <1>5, <1>16, <2>1, LedHome DEF LastCallEmpty, LastCallEvent
<1>17. CASE Release(t, c)
  <2>1. Stacked(h)'
    BY <1>4, <1>17 DEF Release
  <2>2. Led(coro')
    BY <1>17, FieldsLed DEF Release, Released
  <2> QED
    BY <1>17, <2>1, <2>2, LedHome DEF Release
<1>18. ASSUME NEW p \in Coros, LastCallAwaiter(t, c, p)
       PROVE  HomeInv(h)'
  <2> DEFINE rest == Moved(t, c, "release")
  <2>1. At(t, c, "fin") /\ coro[c].last_call = p /\ ResumeAwaiter(t, p, rest) /\ UNCHANGED <<coro, thens>>
    BY <1>18 DEF LastCallAwaiter
  <2>2. rest \in Seq(Frames) /\ HomeStack(h, t, rest) /\ h[c] = t
    BY <1>1, <1>2, <2>1, MoveHome, TopHome
  <2>3. h[p] = t
    BY <1>1, <2>1, <2>2 DEF Stored, HomeFields
  <2> HIDE DEF rest
  <2>4. Stacked(h)' /\ Queued(h)'
    BY <2>1, <2>2, <2>3, AwaiterHome
  <2> QED
    BY <1>1, <2>1, <2>4 DEF HomeInv, Stored, HomeFields, Completed
<1> QED
  BY <1>6, <1>7, <1>8, <1>9, <1>10, <1>11, <1>12, <1>13, <1>14, <1>15, <1>16, <1>17, <1>18 DEF Resume

\* The body of c yields with a function that is about a coroutine at home.
LEMMA YieldHome ==
  ASSUME TypeOK, NEW h, HomeInv(h), NEW t \in Threads, NEW c \in Coros, At(t, c, "body"),
         SetStack(t, Moved(t, c, "check")), UNCHANGED <<posted, thens>>,
         NEW objs \in [Coros -> CoroutineContextBase], Stored(h, objs),
         \A b \in Coros : coro[b].executor # None => objs[b].executor # None,
         NEW fun, fun # None => h[fun.co] = h[c],
         fun = [fn |-> "then", co |-> c] => objs[c].executor # None \/ c \in Bare \cap TaskAwaits,
         coro' = Yielded(objs, c, fun)
  PROVE  HomeInv(h)'
<1>1. "check" \in Phases
  BY DEF Phases
<1>2. HomeStack(h, t, Moved(t, c, "check"))
  BY <1>1, MoveHome DEF HomeInv
<1>3. Stacked(h)'
  BY <1>2, SetHome DEF HomeInv
<1>4. \A b \in Coros : /\ coro'[b].executor = objs[b].executor
                       /\ coro'[b].last_call = objs[b].last_call
                       /\ coro'[b].yield_after_call = IF b = c THEN fun ELSE objs[b].yield_after_call
  BY DEF Yielded, CoroutineContextBase
<1>5. Stored(h, coro)'
  BY <1>4 DEF Stored, HomeFields
<1> QED
  BY <1>3, <1>4, <1>5 DEF HomeInv, Queued, Completed

LEMMA BodyHome ==
  ASSUME TypeOK, NEW h, Homes(h), HomeInv(h), NEW t \in Threads, NEW c \in Coros, Body(t, c)
  PROVE  HomeInv(h)'
<1>1. /\ Stacked(h) /\ Stored(h, coro) /\ Queued(h) /\ Completed(h)
      /\ coro \in [Coros -> CoroutineContextBase]
  BY DEF HomeInv, TypeOK
<1>2. "owner" \in Phases /\ "jump" \in Phases /\ "check" \in Phases
  BY DEF Phases
<1>3. \A fn, x : [fn |-> fn, co |-> x].co = x
  OBVIOUS
<1>4. \A x : /\ [fn |-> "post", co |-> x] # [fn |-> "then", co |-> c]
             /\ [fn |-> "start", co |-> x] # [fn |-> "then", co |-> c]
  OBVIOUS
<1>5. ASSUME NEW e \in Executors, RunOn(t, c, e)
      PROVE  HomeInv(h)'
  <2> DEFINE objs == [coro EXCEPT ![c].executor = e]
             fun == [fn |-> "post", co |-> c]
  <2>1. ServedBy(e, h[c])
    BY <1>5 DEF RunOn, Homes
  <2>2. objs \in [Coros -> CoroutineContextBase]
    BY <1>1, FieldType
  <2>3. \A b \in Coros : /\ objs[b].executor = IF b = c THEN e ELSE coro[b].executor
                         /\ objs[b].last_call = coro[b].last_call
                         /\ objs[b].yield_after_call = coro[b].yield_after_call
    BY <1>1 DEF CoroutineContextBase
  <2>4. /\ At(t, c, "body") /\ SetStack(t, Moved(t, c, "check")) /\ UNCHANGED <<posted, thens>>
        /\ coro' = Yielded(objs, c, fun)
    BY <1>5 DEF RunOn, InBody, Switch
  <2>5. fun.co = c /\ fun # [fn |-> "then", co |-> c]
    BY <1>3, <1>4
  <2> HIDE DEF objs, fun
  <2>6. Stored(h, objs) /\ \A b \in Coros : coro[b].executor # None => objs[b].executor # None
    BY <1>1, <2>1, <2>3, NoneIs DEF Stored, HomeFields
  <2> QED
    BY <2>2, <2>4, <2>5, <2>6, YieldHome
<1>6. ASSUME NEW d \in Coros, Await(t, c, d)
      PROVE  HomeInv(h)'
  <2> DEFINE objs == [coro EXCEPT ![d].last_call = c]
             fun == [fn |-> "start", co |-> d]
  <2>1. h[d] = h[c]
    BY <1>6 DEF Await, Homes
  <2>2. objs \in [Coros -> CoroutineContextBase]
    BY <1>1, FieldType
  <2>3. \A b \in Coros : /\ objs[b].executor = coro[b].executor
                         /\ objs[b].last_call = IF b = d THEN c ELSE coro[b].last_call
                         /\ objs[b].yield_after_call = coro[b].yield_after_call
    BY <1>1 DEF CoroutineContextBase
  <2>4. /\ At(t, c, "body") /\ SetStack(t, Moved(t, c, "check")) /\ UNCHANGED <<posted, thens>>
        /\ coro' = Yielded(objs, c, fun)
    BY <1>6 DEF Await, InBody, Switch
  <2>5. fun.co = d /\ fun # [fn |-> "then", co |-> c]
    BY <1>3, <1>4
  <2> HIDE DEF objs, fun
  <2>6. Stored(h, objs) /\ \A b \in Coros : coro[b].executor # None => objs[b].executor # None
    BY <1>1, <2>1, <2>3 DEF Stored, HomeFields
  <2> QED
    BY <2>1, <2>2, <2>4, <2>5, <2>6, YieldHome
<1>7. CASE AwaitTask(t, c)
  <2> DEFINE fun == [fn |-> "then", co |-> c]
  <2>1. /\ At(t, c, "body") /\ SetStack(t, Moved(t, c, "check")) /\ UNCHANGED <<posted, thens>>
        /\ coro' = Yielded(coro, c, fun)
        /\ coro[c].executor # None \/ c \in Bare \cap TaskAwaits
    BY <1>7 DEF AwaitTask, MayAwait, InBody, Switch
  <2>2. fun.co = c
    BY <1>3
  <2> HIDE DEF fun
  <2> QED
    BY <1>1, <2>1, <2>2, YieldHome
<1>8. CASE Yield(t, c)
  <2>1. /\ At(t, c, "body") /\ SetStack(t, Moved(t, c, "check")) /\ UNCHANGED <<posted, thens>>
        /\ coro' = Yielded(coro, c, None)
    BY <1>8 DEF Yield, InBody, Switch
  <2>2. None # [fn |-> "then", co |-> c]
    BY TaskNotNone
  <2> QED
    BY <1>1, <2>1, <2>2, YieldHome
<1>9. CASE YieldFails(t, c)
  <2>1. UNCHANGED stack /\ Led(coro') /\ UNCHANGED <<posted, thens>>
    BY <1>9, FieldsLed DEF YieldFails
  <2>2. Stacked(h)'
    BY <1>1, <2>1 DEF Stacked, HomeStack
  <2> QED
    BY <2>1, <2>2, LedHome
<1>10. ASSUME NEW d \in Coros, Call(t, c, d) \/ CallResume(t, c, d)
       PROVE  HomeInv(h)'
  <2> DEFINE rest == <<Frame(d, "owner")>> \o stack[t]
  <2>1. At(t, c, "body") /\ <<c, d>> \in Calls /\ UNCHANGED <<posted, thens>>
    BY <1>10 DEF Call, CallResume, InBody
  <2>2. h[d] = t
    BY <1>1, <2>1, TopHome DEF Homes
  <2>3. rest \in Seq(Frames) /\ HomeStack(h, t, rest)
    BY <1>1, <1>2, <2>2, PushHome DEF TypeOK, Stacked
  <2>4. CASE Call(t, c, d)
    <3>1. StartAndOp(t, d, coro, rest)
      BY <2>4 DEF Call
    <3> HIDE DEF rest
    <3>2. Stacked(h)' /\ Led(coro')
      BY <1>1, <2>2, <2>3, <3>1, StartHome, StartLed
    <3> QED
      BY <2>1, <3>2, LedHome
  <2>5. CASE CallResume(t, c, d)
    <3>1. UNCHANGED coro /\ SetStack(t, <<Frame(d, "jump"), Frame(d, "owner")>> \o stack[t])
      BY <2>5 DEF CallResume
    <3>2. <<Frame(d, "jump"), Frame(d, "owner")>> \o stack[t] = <<Frame(d, "jump")>> \o rest
      <4>1. stack[t] \in Seq(Frames)
        BY DEF TypeOK
      <4>2. Frame(d, "jump") \in Frames /\ Frame(d, "owner") \in Frames
        BY <1>2 DEF Frame, Frames
      <4> QED
        BY <4>1, <4>2
    <3> HIDE DEF rest
    <3>3. HomeStack(h, t, <<Frame(d, "jump")>> \o rest)
      BY <1>2, <2>2, <2>3, PushHome
    <3>4. Stacked(h)'
      BY <1>1, <3>1, <3>2, <3>3, SetHome
    <3>5. Led(coro')
      BY <3>1, FieldsLed
    <3> QED
      BY <2>1, <3>4, <3>5, LedHome
  <2> QED
    BY <1>10, <2>4, <2>5
<1>11. CASE Finish(t, c)
  <2>1. /\ At(t, c, "body") /\ SetStack(t, Moved(t, c, "check")) /\ UNCHANGED <<posted, thens>>
        /\ coro' = [coro EXCEPT ![c].finished = TRUE, ![c].source = "null"]
    BY <1>11 DEF Finish
  <2>2. HomeStack(h, t, Moved(t, c, "check"))
    BY <1>1, <1>2, <2>1, MoveHome
  <2>3. Stacked(h)' /\ Led(coro')
    BY <1>1, <2>1, <2>2, SetHome, FieldsLed
  <2> QED
    BY <2>1, <2>3, LedHome
<1> QED
  BY <1>5, <1>6, <1>7, <1>8, <1>9, <1>10, <1>11 DEF Body

LEMMA EmptyHome ==
  ASSUME NEW h, NEW t
  PROVE  <<>> \in Seq(Frames) /\ HomeStack(h, t, <<>>)
BY DEF HomeStack

\* A thread outside all bodies that is to run c, or its tail, on behalf of a caller.
LEMMA CallerHome ==
  ASSUME NEW h, NEW c \in Coros, NEW q \in Phases, NEW r \in Phases
  PROVE  /\ <<Frame(c, q)>> \in Seq(Frames) /\ HomeStack(h, h[c], <<Frame(c, q)>>)
         /\ HomeStack(h, h[c], <<Frame(c, r), Frame(c, q)>>)
<1>1. Frame(c, q) \in Frames /\ Frame(c, r) \in Frames /\ Frame(c, q).co = c /\ Frame(c, r).co = c
  BY DEF Frame, Frames
<1> QED
  BY <1>1 DEF HomeStack

LEMMA WorkHome ==
  ASSUME TypeOK, NEW h, Homes(h), HomeInv(h), NEW t \in Threads, NEW c \in Coros, TakeWork(t, c)
  PROVE  HomeInv(h)'
<1>1. Stacked(h) /\ Stored(h, coro) /\ Queued(h) /\ Completed(h)
  BY DEF HomeInv
<1>2. "owner" \in Phases /\ "jump" \in Phases
  BY DEF Phases
<1>3. ASSUME NEW e \in Executors, RunStart(t, e, c)
      PROVE  HomeInv(h)'
  <2>1. /\ Taken(e, "start", c) /\ <<t, e>> \in Serves /\ UNCHANGED thens
        /\ StartAndOp(t, c, coro, <<Frame(c, "owner")>>)
    BY <1>3 DEF RunStart
  <2>2. Queued(h)' /\ h[c] = t
    BY <1>1, <2>1, TakenHome DEF ServedBy
  <2>3. Stacked(h)' /\ Led(coro')
    BY <1>1, <1>2, <2>1, <2>2, CallerHome, StartHome, StartLed
  <2> QED
    BY <1>1, <2>1, <2>2, <2>3 DEF HomeInv, Led, Stored, HomeFields, Completed
<1>4. ASSUME NEW e \in Executors, RunResume(t, e, c)
      PROVE  HomeInv(h)'
  <2>1. /\ Taken(e, "resume", c) /\ <<t, e>> \in Serves /\ UNCHANGED <<coro, thens>>
        /\ SetStack(t, <<Frame(c, "jump")>>)
    BY <1>4 DEF RunResume
  <2>2. Queued(h)' /\ h[c] = t
    BY <1>1, <2>1, TakenHome DEF ServedBy
  <2>3. Stacked(h)'
    BY <1>1, <1>2, <2>1, <2>2, CallerHome, SetHome
  <2> QED
    BY <1>1, <2>1, <2>2, <2>3 DEF HomeInv, Stored, HomeFields, Completed
<1>5. CASE CompleteTask(t, c)
  <2>1. /\ t \in Completers /\ thens[c] # 0 /\ UNCHANGED coro
        /\ \A b \in Coros : thens'[b] # 0 => thens[b] # 0
        /\ ResumeAwaiter(t, c, <<>>) \/ UNCHANGED <<posted, stack>>
    BY <1>5 DEF CompleteTask, TypeOK
  <2>2. coro[c].executor = None => h[c] = t
    BY <1>1, <2>1 DEF Completed, Homes, CompletedBy
  <2>3. CASE ResumeAwaiter(t, c, <<>>)
    <3>1. Stacked(h)' /\ Queued(h)'
      BY <2>2, <2>3, EmptyHome, AwaiterHome
    <3> QED
      BY <1>1, <2>1, <3>1 DEF HomeInv, Stored, HomeFields, Completed
  <2>4. CASE UNCHANGED <<posted, stack>>
    BY <1>1, <2>1, <2>4 DEF HomeInv, Stacked, HomeStack, Stored, HomeFields, Queued, Completed
  <2> QED
    BY <2>1, <2>3, <2>4
<1> QED
  BY <1>3, <1>4, <1>5 DEF TakeWork

LEMMA ClientHome ==
  ASSUME TypeOK, NEW h, Homes(h), HomeInv(h), ClientStep
  PROVE  HomeInv(h)'
<1>1. /\ Stacked(h) /\ Stored(h, coro) /\ Queued(h) /\ Completed(h)
      /\ coro \in [Coros -> CoroutineContextBase]
  BY DEF HomeInv, TypeOK
<1>2. "owner" \in Phases /\ "jump" \in Phases /\ "fin" \in Phases /\ "wait" \in Phases
  BY DEF Phases
<1>3. ASSUME NEW c \in Coros, NEW e \in Executors, PostCoroTask(c, e)
      PROVE  HomeInv(h)'
  <2>1. ServedBy(e, h[c])
    BY <1>3 DEF PostCoroTask, Homes
  <2>2. /\ coro' = [coro EXCEPT ![c].executor = e] /\ UNCHANGED <<stack, thens>>
        /\ Post(e, "start", c) \/ UNCHANGED posted
    BY <1>3 DEF PostCoroTask
  <2>3. \A b \in Coros : /\ coro'[b].executor = IF b = c THEN e ELSE coro[b].executor
                         /\ coro'[b].last_call = coro[b].last_call
                         /\ coro'[b].yield_after_call = coro[b].yield_after_call
    BY <1>1, <2>2 DEF CoroutineContextBase
  <2>4. Stored(h, coro)' /\ Completed(h)'
    BY <1>1, <2>1, <2>2, <2>3, NoneIs DEF Stored, HomeFields, Completed
  <2>5. Queued(h)'
    <3>1. CASE Post(e, "start", c)
      BY <1>1, <2>1, <3>1, PostHome
    <3>2. CASE UNCHANGED posted
      BY <1>1, <3>2 DEF Queued
    <3> QED
      BY <2>2, <3>1, <3>2
  <2> QED
    BY <1>1, <2>2, <2>4, <2>5 DEF HomeInv, Stacked, HomeStack
<1>4. ASSUME NEW c \in Coros, NEW t \in Threads, StartPlain(t, c)
      PROVE  HomeInv(h)'
  <2>1. t = h[c] /\ StartAndOp(t, c, coro, <<Frame(c, "owner")>>) /\ UNCHANGED <<posted, thens>>
    BY <1>4 DEF StartPlain, Homes
  <2>2. Stacked(h)' /\ Led(coro')
    BY <1>1, <1>2, <2>1, CallerHome, StartHome, StartLed
  <2> QED
    BY <2>1, <2>2, LedHome
<1>5. ASSUME NEW c \in Coros, NEW t \in Threads, ResumePlain(t, c)
      PROVE  HomeInv(h)'
  <2>1. /\ t = h[c] /\ SetStack(t, <<Frame(c, "jump"), Frame(c, "owner")>>)
        /\ UNCHANGED <<coro, posted, thens>>
    BY <1>5 DEF ResumePlain, Homes
  <2>2. Stacked(h)'
    BY <1>1, <1>2, <2>1, CallerHome, SetHome
  <2> QED
    BY <2>1, <2>2, FieldsLed, LedHome
<1>6. ASSUME NEW c \in Coros, NEW t \in Threads, SyncWait(t, c)
      PROVE  HomeInv(h)'
  <2> DEFINE objs == [coro EXCEPT ![c].last_call = t]
  <2>1. t = h[c] /\ StartAndOp(t, c, objs, <<Frame(c, "wait")>>) /\ UNCHANGED <<posted, thens>>
    BY <1>6 DEF SyncWait, Homes
  <2>2. objs \in [Coros -> CoroutineContextBase]
    BY <1>1, FieldType
  <2>3. \A b \in Coros : /\ objs[b].executor = coro[b].executor
                         /\ objs[b].last_call = IF b = c THEN t ELSE coro[b].last_call
                         /\ objs[b].yield_after_call = coro[b].yield_after_call
    BY <1>1 DEF CoroutineContextBase
  <2> HIDE DEF objs
  <2>4. coro' = [objs EXCEPT ![c].source = "fresh"] \/ coro' = objs
    BY <2>1 DEF StartAndOp
  <2>5. \A b \in Coros : /\ coro'[b].executor = objs[b].executor
                         /\ coro'[b].last_call = objs[b].last_call
                         /\ coro'[b].yield_after_call = objs[b].yield_after_call
    BY <2>2, <2>4 DEF CoroutineContextBase
  <2>6. t \notin Coros
    BY ClientAssumption
  <2>7. Stored(h, coro)' /\ Completed(h)'
    BY <1>1, <2>1, <2>3, <2>5, <2>6 DEF Stored, HomeFields, Completed
  <2>8. Stacked(h)'
    BY <1>1, <1>2, <2>1, CallerHome, StartHome
  <2> QED
    BY <1>1, <2>1, <2>7, <2>8 DEF HomeInv, Queued
<1>7. ASSUME NEW c \in Coros, NEW t \in Threads, Destory(t, c)
      PROVE  HomeInv(h)'
  <2>1. /\ t = h[c] /\ SetStack(t, <<Frame(c, "fin"), Frame(c, "owner")>>)
        /\ coro' = [coro EXCEPT ![c].source = "null"] /\ UNCHANGED <<posted, thens>>
    BY <1>7 DEF Destory, Homes
  <2>2. Stacked(h)'
    BY <1>1, <1>2, <2>1, CallerHome, SetHome
  <2> QED
    BY <2>1, <2>2, FieldsLed, LedHome
<1>8. ASSUME NEW c \in Coros, DropHandle(c)
      PROVE  HomeInv(h)'
  <2>1. UNCHANGED <<coro, stack, posted, thens>>
    BY <1>8 DEF DropHandle
  <2> QED
    BY <1>1, <2>1 DEF HomeInv, Stacked, HomeStack, Stored, HomeFields, Queued, Completed
<1> QED
  BY <1>3, <1>4, <1>5, <1>6, <1>7, <1>8 DEF ClientStep

LEMMA HomeStep ==
  ASSUME NEW h, Homes(h), TypeOK, HomeInv(h), [Next]_vars
  PROVE  HomeInv(h)'
<1>1. Stacked(h) /\ Stored(h, coro) /\ Queued(h) /\ Completed(h)
  BY DEF HomeInv
<1>2. CASE \E t \in Threads : ThreadStep(t)
  BY <1>2, ResumeHome, BodyHome, WorkHome DEF ThreadStep
<1>3. CASE ClientStep
  BY <1>3, ClientHome
<1>4. ASSUME NEW e \in Executors, Shutdown(e)
      PROVE  HomeInv(h)'
  <2>1. posted' = [posted EXCEPT ![e] = [k \in Tasks |-> 0]] /\ UNCHANGED <<coro, stack, thens>>
    BY <1>4 DEF Shutdown
  <2>2. \A b \in Coros, x \in Executors, fn \in {"start", "resume"} :
          LET k == [fn |-> fn, co |-> b] IN posted'[x][k] # 0 => posted[x][k] # 0
    BY <2>1 DEF TypeOK, Tasks
  <2> QED
    BY <1>1, <2>1, <2>2 DEF HomeInv, Stacked, HomeStack, Stored, HomeFields, Queued, Completed
<1>5. CASE UNCHANGED vars
  BY <1>1, <1>5 DEF vars, HomeInv, Stacked, HomeStack, Stored, HomeFields, Queued, Completed
<1> QED
  BY <1>2, <1>3, <1>4, <1>5 DEF Next

LEMMA HomeInit ==
  ASSUME NEW h, Init
  PROVE  HomeInv(h)
<1>1. Stacked(h)
  BY DEF Init, Stacked, HomeStack
<1>2. Stored(h, coro)
  BY NoneIs, TaskNotNone DEF Init, Stored, HomeFields
<1>3. Queued(h) /\ Completed(h)
  BY DEF Init, Queued, Completed, Tasks
<1> QED
  BY <1>1, <1>2, <1>3 DEF HomeInv

-----------------------------------------------------------------------------
(* What such a program may rely on.                                        *)

\* The next resume() of a coroutine begins where the tail of the last one runs.
LEMMA HomeTimely ==
  ASSUME TypeOK, TypeOK', NEW h, HomeInv(h), HomeInv(h)'
  PROVE  Timely
<1> SUFFICES ASSUME NEW t \in Threads, NEW c \in Coros, At(t, c, "jump")',
                    NEW p \in FramesOf(c, TailPhases)
             PROVE  p[1] = t
  BY DEF Timely
<1>1. h[c] = t
  <2>1. stack'[t] \in Seq(Frames) /\ stack'[t] # <<>> /\ stack'[t][1] = Frame(c, "jump")
    BY DEF At, TypeOK
  <2>2. 1 \in DOMAIN stack'[t] /\ stack'[t][1].co = c
    BY <2>1 DEF Frame
  <2> QED
    BY <2>2 DEF HomeInv, Stacked, HomeStack
<1>2. PICK u \in Threads : p \in {u} \X DOMAIN stack[u]
  BY DEF FramesOf
<1>3. p[1] = u /\ p[2] \in DOMAIN stack[u] /\ stack[u][p[2]].co = c
  BY <1>2 DEF FramesOf
<1> QED
  BY <1>1, <1>3 DEF HomeInv, Stacked, HomeStack

\* Where every coroutine has a home thread no resume() overlaps the tail of an
\* earlier one, whatever the scheduler does (lines 44-51 of coro_wrap.hpp).
THEOREM HomesAreTimely ==
  ASSUME Homely
  PROVE  Spec => TimelySpec
<1>0. PICK h \in [Coros -> Threads] : Homes(h)
  BY DEF Homely
<1>1. Init => HomeInv(h)
  BY HomeInit
<1>2. TypeOK /\ HomeInv(h) /\ [Next]_vars => HomeInv(h)'
  BY <1>0, HomeStep
<1>3. TypeOK /\ TypeOK' /\ HomeInv(h) /\ HomeInv(h)' /\ [Next]_vars => [Next /\ Timely]_vars
  BY HomeTimely
<1> QED
  BY <1>1, <1>2, <1>3, TypeCorrect, PTL DEF Spec, TimelySpec

\* No raw pointer outlives the coroutine: neither the this of a tail, nor that
\* of a posted resumption, of a continuation or of a completion callback.
THEOREM HomePointersAlive ==
  ASSUME Confined, Homely
  PROVE  Spec => []PointersAlive
<1>1. Ready => PointersAlive
  BY ReadyPointersAlive
<1> QED
  BY <1>1, HomesAreTimely, AlwaysReady, PTL

\* What a coroutine gives to yield is called before it is cleared or replaced,
\* although tasks on other threads may complete and post before the tail ends.
THEOREM HomeFunCalled ==
  ASSUME Confined, Homely
  PROVE  Spec => FunCalledOnReturn
<1>0. Confined
  OBVIOUS
<1>1. Ready /\ [Next]_vars =>
        [\A c \in Coros :
            (/\ coro[c].yield_after_call # None
             /\ coro'[c].yield_after_call # coro[c].yield_after_call)
            => ghost[c].invoked]_vars
  BY <1>0, FunCalledStep
<1> QED
  BY <1>1, HomesAreTimely, AlwaysReady, PTL DEF Spec, FunCalledOnReturn

\* All that ConfinedProofs shows of timely behaviours, without that condition.
THEOREM HomeSafety ==
  ASSUME Confined, Homely
  PROVE  /\ Spec => [](NoFault /\ AwaitOrder /\ OneContinuation /\ NoLeak /\ RunsOnExecutor)
         /\ Spec => ImplementsProtocol
BY HomesAreTimely, ConfinedNoFault, ConfinedAwaitOrder, ConfinedOneContinuation, ConfinedNoLeak,
   ConfinedRunsOnExecutor, ConfinedImplementsProtocol, PTL

=============================================================================
