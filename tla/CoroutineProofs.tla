--------------------------- MODULE CoroutineProofs ---------------------------
(***************************************************************************)
(* Proofs about Coroutine, for every client program, any number of         *)
(* coroutines, threads and executors, and without bounds on them.          *)
(***************************************************************************)
EXTENDS CoroutineProperties, SequenceTheorems, TLAPS

CoroType  == coro \in [Coros -> CoroutineContextBase]
StackType == stack \in [Threads -> Seq(Frames)]
PostedType == posted \in [Executors -> [Tasks -> Nat]]

\* Assigning a field of one coroutine keeps the coroutines well typed.
LEMMA FieldType ==
  ASSUME NEW objs \in [Coros -> CoroutineContextBase], NEW c \in Coros
  PROVE  /\ \A x \in Sources :
              [objs EXCEPT ![c].source = x] \in [Coros -> CoroutineContextBase]
         /\ \A x \in Callbacks \cup {None} :
              [objs EXCEPT ![c].yield_after_call = x] \in [Coros -> CoroutineContextBase]
         /\ \A x \in Executors \cup {None} :
              [objs EXCEPT ![c].executor = x] \in [Coros -> CoroutineContextBase]
         /\ \A x \in Coros \cup Threads \cup {None} :
              [objs EXCEPT ![c].last_call = x] \in [Coros -> CoroutineContextBase]
         /\ \A x \in BOOLEAN :
              [objs EXCEPT ![c].prolong_life = x] \in [Coros -> CoroutineContextBase]
         /\ \A x \in Sources, y \in BOOLEAN :
              [objs EXCEPT ![c].source = x, ![c].prolong_life = y]
                \in [Coros -> CoroutineContextBase]
         /\ \A x \in Sources, y \in BOOLEAN :
              [objs EXCEPT ![c].finished = y, ![c].source = x]
                \in [Coros -> CoroutineContextBase]
BY DEF CoroutineContextBase

LEMMA YieldedType ==
  ASSUME NEW objs \in [Coros -> CoroutineContextBase], NEW c \in Coros,
         NEW fun \in Callbacks \cup {None}
  PROVE  Yielded(objs, c, fun) \in [Coros -> CoroutineContextBase]
BY DEF Yielded, CoroutineContextBase, Sources

\* The stacks an action may leave: a push, a pop, a move of the top frame.
LEMMA PushType ==
  ASSUME NEW s \in Seq(Frames), NEW c \in Coros, NEW ph \in Phases
  PROVE  <<Frame(c, ph)>> \o s \in Seq(Frames)
<1>1. Frame(c, ph) \in Frames
  BY DEF Frame, Frames
<1> QED
  BY <1>1

LEMMA MovedType ==
  ASSUME StackType, NEW t \in Threads, NEW c \in Coros, NEW ph \in Phases,
         stack[t] # <<>>
  PROVE  /\ Tail(stack[t]) \in Seq(Frames)
         /\ Moved(t, c, ph) \in Seq(Frames)
<1>1. Tail(stack[t]) \in Seq(Frames)
  BY DEF StackType
<1> QED
  BY <1>1, PushType DEF Moved

LEMMA SetStackType ==
  ASSUME StackType, NEW t \in Threads, NEW s \in Seq(Frames), SetStack(t, s)
  PROVE  StackType'
BY DEF SetStack, StackType

LEMMA PostType ==
  ASSUME PostedType,
         NEW e \in Executors, NEW c \in Coros, NEW fn \in {"start", "resume"},
         Post(e, fn, c) \/ Taken(e, fn, c)
  PROVE  PostedType'
<1>1. [fn |-> fn, co |-> c] \in Tasks
  BY DEF Tasks
<1> QED
  BY <1>1 DEF Post, Taken, PostedType

LEMMA UnwindType ==
  ASSUME StackType, fault \in Faults \cup {None}, NEW t \in Threads, Unwinds(t)
  PROVE  StackType' /\ fault' \in Faults \cup {None}
<1>1. PICK n \in 1..(Len(stack[t]) + 1) :
         \/ Fail("uncaught exception") /\ UNCHANGED stack
         \/ SetStack(t, SubSeq(stack[t], n, Len(stack[t]))) /\ UNCHANGED fault
  BY DEF Unwinds
<1>2. stack[t] \in Seq(Frames)
  BY DEF StackType
<1>3. Len(stack[t]) \in (n - 1)..Len(stack[t])
  BY <1>2
<1>4. SubSeq(stack[t], n, Len(stack[t])) \in Seq(Frames)
  BY <1>2, <1>3, SubSeqProperties
<1> QED
  BY <1>1, <1>4, SetStackType DEF Fail, Faults, StackType

LEMMA StartType ==
  ASSUME StackType, NEW t \in Threads, NEW c \in Coros, fault \in Faults \cup {None},
         NEW objs \in [Coros -> CoroutineContextBase], NEW rest \in Seq(Frames),
         StartAndOp(t, c, objs, rest)
  PROVE  CoroType' /\ StackType' /\ fault' \in Faults \cup {None}
<1>1. CASE Startable(c)
  <2>1. <<Frame(c, "jump")>> \o rest \in Seq(Frames)
    BY PushType DEF Phases
  <2>2. coro' = [objs EXCEPT ![c].source = "fresh"]
    BY <1>1 DEF StartAndOp
  <2>3. CoroType'
    BY <2>2, FieldType DEF CoroType, Sources
  <2> QED
    BY <1>1, <2>1, <2>3, SetStackType DEF StartAndOp
<1>2. CASE ~Startable(c)
  BY <1>2, UnwindType DEF StartAndOp, CoroType
<1> QED
  BY <1>1, <1>2

LEMMA ResumeType ==
  ASSUME CoroType, StackType, PostedType,
         NEW t \in Threads, NEW p \in Coros, NEW rest \in Seq(Frames),
         ResumeAwaiter(t, p, rest)
  PROVE  StackType' /\ PostedType'
<1>1. CASE coro[p].executor # None
  <2>1. coro[p].executor \in Executors
    BY <1>1 DEF CoroType, CoroutineContextBase
  <2>2. PostedType'
    BY <1>1, <2>1, PostType DEF ResumeAwaiter
  <2> QED
    BY <1>1, <2>2, SetStackType DEF ResumeAwaiter
<1>2. CASE coro[p].executor = None
  <2>1. <<Frame(p, "jump")>> \o rest \in Seq(Frames)
    BY PushType DEF Phases
  <2> QED
    BY <1>2, <2>1, SetStackType DEF ResumeAwaiter, PostedType
<1> QED
  BY <1>1, <1>2

\* The other variables that threads and clients change.
RestType ==
  /\ thisCoro \in [Threads -> Coros \cup {None}]
  /\ thens \in [Coros -> Nat]
  /\ signal \in [Threads -> BOOLEAN]
  /\ fault \in Faults \cup {None}
  /\ uses \in [Coros -> 0..MaxUses]
  /\ ops \in [Coros -> Nat]
  /\ held \in [Coros -> BOOLEAN]
  /\ ghost \in [Coros -> Ghosts]

LEMMA GhostType ==
  ASSUME ghost \in [Coros -> Ghosts], NEW c \in Coros
  PROVE  /\ [ghost EXCEPT ![c].awaiting = None, ![c].stranded = FALSE] \in [Coros -> Ghosts]
         /\ [ghost EXCEPT ![c].invoked = TRUE] \in [Coros -> Ghosts]
         /\ [ghost EXCEPT ![c].stranded = TRUE] \in [Coros -> Ghosts]
         /\ [ghost EXCEPT ![c].invoked = TRUE, ![c].stranded = TRUE] \in [Coros -> Ghosts]
         /\ \A d \in Coros \cup {None} :
              [ghost EXCEPT ![c].invoked = FALSE, ![c].awaiting = d] \in [Coros -> Ghosts]
BY DEF Ghosts

LEMMA CountType ==
  ASSUME NEW f \in [Coros -> Nat], NEW c \in Coros
  PROVE  [f EXCEPT ![c] = @ + 1] \in [Coros -> Nat]
OBVIOUS

LEMMA UsedType ==
  ASSUME NEW c \in Coros, RestType, Usable(c), Used(c)
  PROVE  uses' \in [Coros -> 0..MaxUses]
BY ClientAssumption DEF RestType, Usable, Used

-----------------------------------------------------------------------------
LEMMA TypeStep == TypeOK /\ [Next]_vars => TypeOK'
<1> SUFFICES ASSUME TypeOK, [Next]_vars
             PROVE  TypeOK'
  OBVIOUS
<1> DEFINE Typed == CoroType /\ StackType /\ PostedType /\ RestType
<1>0. Typed
  BY DEF TypeOK, CoroType, StackType, PostedType, RestType
<1>c. closed' \subseteq Executors
  BY DEF TypeOK, Next, ClientStep, ThreadStep, Shutdown, vars
<1> SUFFICES Typed'
  BY <1>c DEF TypeOK, CoroType, StackType, PostedType, RestType
<1>1. ASSUME NEW c \in Coros, NEW e \in Executors, PostCoroTask(c, e) PROVE Typed'
  <2>1. CoroType'
    BY <1>0, <1>1, FieldType DEF PostCoroTask, CoroType
  <2>2. StackType'
    BY <1>0, <1>1 DEF PostCoroTask, StackType
  <2>3. PostedType'
    BY <1>0, <1>1, PostType DEF PostCoroTask, PostedType
  <2>4. RestType'
    BY <1>0, <1>1, UsedType, GhostType DEF PostCoroTask, RestType, client, Strands
  <2> QED
    BY <2>1, <2>2, <2>3, <2>4
<1>2. ASSUME NEW t \in Threads, NEW c \in Coros, StartPlain(t, c) PROVE Typed'
  <2>1. <<Frame(c, "owner")>> \in Seq(Frames)
    BY <1>0, PushType DEF Phases, StackType
  <2>2. StartAndOp(t, c, coro, <<Frame(c, "owner")>>)
    BY <1>2 DEF StartPlain
  <2>3. coro \in [Coros -> CoroutineContextBase]
    BY <1>0, FieldType DEF CoroType
  <2>4. CoroType' /\ StackType' /\ fault' \in Faults \cup {None}
    BY <1>0, <2>1, <2>2, <2>3, StartType DEF RestType
  <2>5. CoroType'
    BY <1>0, <1>2, <2>1, <2>2, <2>3, <2>4
  <2>6. StackType'
    BY <1>0, <1>2, <2>1, <2>2, <2>3, <2>4
  <2>7. PostedType'
    BY <1>0, <1>2 DEF StartPlain, PostedType
  <2>8. RestType'
    BY <1>0, <1>2, UsedType, <2>1, <2>2, <2>3, <2>4 DEF StartPlain, RestType, client
  <2> QED
    BY <2>5, <2>6, <2>7, <2>8
<1>3. ASSUME NEW t \in Threads, NEW c \in Coros, SyncWait(t, c) PROVE Typed'
  <2>1. <<Frame(c, "wait")>> \in Seq(Frames)
    BY <1>0, PushType DEF Phases, StackType
  <2>2. StartAndOp(t, c, [coro EXCEPT ![c].last_call = t], <<Frame(c, "wait")>>)
    BY <1>3 DEF SyncWait
  <2>3. [coro EXCEPT ![c].last_call = t] \in [Coros -> CoroutineContextBase]
    BY <1>0, FieldType DEF CoroType
  <2>4. CoroType' /\ StackType' /\ fault' \in Faults \cup {None}
    BY <1>0, <2>1, <2>2, <2>3, StartType DEF RestType
  <2>5. CoroType'
    BY <1>0, <1>3, <2>1, <2>2, <2>3, <2>4
  <2>6. StackType'
    BY <1>0, <1>3, <2>1, <2>2, <2>3, <2>4
  <2>7. PostedType'
    BY <1>0, <1>3 DEF SyncWait, PostedType
  <2>8. RestType'
    BY <1>0, <1>3, UsedType, <2>1, <2>2, <2>3, <2>4 DEF SyncWait, RestType, client
  <2> QED
    BY <2>5, <2>6, <2>7, <2>8
<1>4. ASSUME NEW t \in Threads, NEW c \in Coros, Destory(t, c) PROVE Typed'
  <2>1. <<Frame(c, "fin"), Frame(c, "owner")>> \in Seq(Frames)
    BY DEF Frame, Frames, Phases
  <2>2. CoroType'
    BY <1>0, <1>4, FieldType DEF Destory, CoroType, Sources
  <2>3. StackType'
    BY <1>0, <1>4, <2>1, SetStackType DEF Destory
  <2>4. PostedType'
    BY <1>0, <1>4 DEF Destory, PostedType
  <2>5. RestType'
    BY <1>0, <1>4 DEF Destory, RestType, client
  <2> QED
    BY <2>2, <2>3, <2>4, <2>5
<1>5. ASSUME NEW c \in Coros, DropHandle(c) PROVE Typed'
  <2>1. CoroType'
    BY <1>0, <1>5 DEF DropHandle, CoroType
  <2>2. StackType'
    BY <1>0, <1>5 DEF DropHandle, StackType
  <2>3. PostedType'
    BY <1>0, <1>5 DEF DropHandle, PostedType
  <2>4. RestType'
    BY <1>0, <1>5 DEF DropHandle, RestType, client
  <2> QED
    BY <2>1, <2>2, <2>3, <2>4
<1>6. ASSUME NEW t \in Threads, NEW e \in Executors, NEW c \in Coros, RunStart(t, e, c) PROVE Typed'
  <2>1. <<Frame(c, "owner")>> \in Seq(Frames)
    BY <1>0, PushType DEF Phases, StackType
  <2>2. StartAndOp(t, c, coro, <<Frame(c, "owner")>>)
    BY <1>6 DEF RunStart
  <2>3. coro \in [Coros -> CoroutineContextBase]
    BY <1>0, FieldType DEF CoroType
  <2>4. CoroType' /\ StackType' /\ fault' \in Faults \cup {None}
    BY <1>0, <2>1, <2>2, <2>3, StartType DEF RestType
  <2>5. CoroType'
    BY <1>0, <1>6, <2>1, <2>2, <2>3, <2>4
  <2>6. StackType'
    BY <1>0, <1>6, <2>1, <2>2, <2>3, <2>4
  <2>7. PostedType'
    BY <1>0, <1>6, PostType DEF RunStart
  <2>8. RestType'
    BY <1>0, <1>6, <2>1, <2>2, <2>3, <2>4 DEF RunStart, RestType, client
  <2> QED
    BY <2>5, <2>6, <2>7, <2>8
<1>7. ASSUME NEW t \in Threads, NEW e \in Executors, NEW c \in Coros, RunResume(t, e, c) PROVE Typed'
  <2>1. <<Frame(c, "jump")>> \in Seq(Frames)
    BY DEF Frame, Frames, Phases
  <2>2. CoroType'
    BY <1>0, <1>7 DEF RunResume, CoroType
  <2>3. StackType'
    BY <1>0, <1>7, <2>1, SetStackType DEF RunResume
  <2>4. PostedType'
    BY <1>0, <1>7, PostType DEF RunResume
  <2>5. RestType'
    BY <1>0, <1>7 DEF RunResume, RestType, client
  <2> QED
    BY <2>2, <2>3, <2>4, <2>5
<1>8. ASSUME NEW t \in Threads, NEW c \in Coros, CompleteTask(t, c) PROVE Typed'
  <2>1. <<>> \in Seq(Frames)
    OBVIOUS
  <2>2. StackType' /\ PostedType'
    <3>1. CASE ResumeAwaiter(t, c, <<>>)
      BY <1>0, <2>1, <3>1, ResumeType
    <3>2. CASE UNCHANGED <<posted, stack>>
      BY <1>0, <3>2 DEF StackType, PostedType
    <3> QED
      BY <1>8, <3>1, <3>2 DEF CompleteTask
  <2>3. CoroType'
    BY <1>0, <1>8 DEF CompleteTask, CoroType
  <2>4. StackType'
    BY <1>0, <1>8, <2>1, <2>2
  <2>5. PostedType'
    BY <1>0, <1>8, <2>1, <2>2
  <2>6. RestType'
    <3>1. ghost' \in [Coros -> Ghosts]
      <4>1. CASE UNCHANGED ghost
        BY <1>0, <4>1 DEF RestType
      <4>2. CASE Strands(c)
        BY <1>0, <4>2, GhostType DEF RestType, Strands
      <4> QED
        BY <1>8, <4>1, <4>2 DEF CompleteTask
    <3>2. thens' \in [Coros -> Nat]
      BY <1>0, <1>8 DEF CompleteTask, RestType
    <3> QED
      BY <1>0, <1>8, <3>1, <3>2 DEF CompleteTask, RestType, client
  <2> QED
    BY <2>3, <2>4, <2>5, <2>6
<1>9. ASSUME NEW t \in Threads, NEW c \in Coros, Enter(t, c) PROVE Typed'
  <2>1. stack[t] # <<>>
    BY <1>9 DEF Enter, At, InBody
  <2>2. CoroType'
    BY <1>0, <1>9, FieldType DEF Enter, CoroType, Entered, Sources, CoroutineContextBase
  <2>3. StackType'
    BY <1>0, <1>9, MovedType, SetStackType, <2>1 DEF Enter, Phases
  <2>4. PostedType'
    BY <1>0, <1>9 DEF Enter, PostedType
  <2>5. RestType'
    BY <1>0, <1>9, GhostType DEF Enter, RestType, client, SetThisCoro, WaitOver
  <2> QED
    BY <2>2, <2>3, <2>4, <2>5
<1>10. ASSUME NEW t \in Threads, NEW c \in Coros, EnterFails(t, c) PROVE Typed'
  <2>1. CoroType'
    BY <1>0, <1>10 DEF EnterFails, CoroType
  <2>2. StackType'
    BY <1>0, <1>10 DEF EnterFails, StackType
  <2>3. PostedType'
    BY <1>0, <1>10 DEF EnterFails, PostedType
  <2>4. RestType'
    BY <1>0, <1>10 DEF EnterFails, RestType, client, SetThisCoro, Fail, Faults
  <2> QED
    BY <2>1, <2>2, <2>3, <2>4
<1>11. ASSUME NEW t \in Threads, NEW c \in Coros, Check(t, c) PROVE Typed'
  <2>1. stack[t] # <<>>
    BY <1>11 DEF Check, At, InBody
  <2>2. CoroType'
    BY <1>0, <1>11 DEF Check, CoroType
  <2>3. StackType'
    BY <1>0, <1>11, MovedType, SetStackType, <2>1 DEF Check, AfterSwitch, Phases
  <2>4. PostedType'
    BY <1>0, <1>11 DEF Check, PostedType
  <2>5. RestType'
    BY <1>0, <1>11 DEF Check, RestType, client
  <2> QED
    BY <2>2, <2>3, <2>4, <2>5
<1>12. ASSUME NEW t \in Threads, NEW c \in Coros, CallPost(t, c) PROVE Typed'
  <2>1. stack[t] # <<>>
    BY <1>12 DEF CallPost, At, InBody
  <2>2. Post(coro[c].executor, "resume", c)
    BY <1>12 DEF CallPost
  <2>3. ASSUME coro[c].executor \in Executors PROVE PostedType'
    BY <1>0, <2>2, <2>3, PostType
  <2>4. ASSUME coro[c].executor \notin Executors PROVE PostedType'
    BY <1>0, <2>2, <2>4 DEF Post, PostedType
  <2>5. CoroType'
    BY <1>0, <1>12 DEF CallPost, CoroType
  <2>6. StackType'
    BY <1>0, <1>12, MovedType, SetStackType, <2>1, <2>2, <2>3, <2>4 DEF CallPost, Phases
  <2>7. PostedType'
    BY <1>0, <1>12, <2>1, <2>2, <2>3, <2>4 DEF CallPost
  <2>8. RestType'
    BY <1>0, <1>12, GhostType DEF CallPost, RestType, client, Invoked
  <2> QED
    BY <2>5, <2>6, <2>7, <2>8
<1>13. ASSUME NEW t \in Threads, NEW c \in Coros, NEW d \in Coros, CallStart(t, c, d) PROVE Typed'
  <2>1. stack[t] # <<>>
    BY <1>13 DEF CallStart, At, InBody
  <2>2. Moved(t, c, "clear") \in Seq(Frames)
    BY <1>0, <2>1, MovedType DEF Phases
  <2>3. CoroType' /\ StackType' /\ fault' \in Faults \cup {None}
    BY <1>0, <1>13, <2>2, StartType DEF CallStart, RestType, CoroType
  <2>4. CoroType'
    BY <1>0, <1>13, <2>1, <2>2, <2>3
  <2>5. StackType'
    BY <1>0, <1>13, <2>1, <2>2, <2>3
  <2>6. PostedType'
    BY <1>0, <1>13 DEF CallStart, PostedType
  <2>7. RestType'
    BY <1>0, <1>13, GhostType, <2>1, <2>2, <2>3 DEF CallStart, RestType, client, Invoked
  <2> QED
    BY <2>4, <2>5, <2>6, <2>7
<1>14. ASSUME NEW t \in Threads, NEW c \in Coros, CallThen(t, c) PROVE Typed'
  <2>1. stack[t] # <<>>
    BY <1>14 DEF CallThen, At, InBody
  <2>2. CoroType'
    BY <1>0, <1>14 DEF CallThen, CoroType
  <2>3. StackType'
    BY <1>0, <1>14, MovedType, SetStackType, <2>1 DEF CallThen, Phases
  <2>4. PostedType'
    BY <1>0, <1>14 DEF CallThen, PostedType
  <2>5. RestType'
    BY <1>0, <1>14, GhostType, CountType DEF CallThen, RestType, client, Invoked
  <2> QED
    BY <2>2, <2>3, <2>4, <2>5
<1>15. ASSUME NEW t \in Threads, NEW c \in Coros, CallFails(t, c) PROVE Typed'
  <2>1. CoroType'
    BY <1>0, <1>15 DEF CallFails, CoroType
  <2>2. StackType'
    BY <1>0, <1>15 DEF CallFails, StackType
  <2>3. PostedType'
    BY <1>0, <1>15 DEF CallFails, PostedType
  <2>4. RestType'
    BY <1>0, <1>15 DEF CallFails, RestType, client, Fail, Faults
  <2> QED
    BY <2>1, <2>2, <2>3, <2>4
<1>16. ASSUME NEW t \in Threads, NEW c \in Coros, Clear(t, c) PROVE Typed'
  <2>1. stack[t] # <<>>
    BY <1>16 DEF Clear, At, InBody
  <2>2. CoroType'
    BY <1>0, <1>16, FieldType DEF Clear, CoroType, Cleared
  <2>3. StackType'
    BY <1>0, <1>16, MovedType, SetStackType, <2>1 DEF Clear, Phases
  <2>4. PostedType'
    BY <1>0, <1>16 DEF Clear, PostedType
  <2>5. RestType'
    BY <1>0, <1>16 DEF Clear, RestType, client
  <2> QED
    BY <2>2, <2>3, <2>4, <2>5
<1>17. ASSUME NEW t \in Threads, NEW c \in Coros, NotFinished(t, c) PROVE Typed'
  <2>1. stack[t] # <<>>
    BY <1>17 DEF NotFinished, At, InBody
  <2>2. CoroType'
    BY <1>0, <1>17 DEF NotFinished, CoroType
  <2>3. StackType'
    BY <1>0, <1>17, MovedType, SetStackType, <2>1 DEF NotFinished, Phases
  <2>4. PostedType'
    BY <1>0, <1>17 DEF NotFinished, PostedType
  <2>5. RestType'
    BY <1>0, <1>17 DEF NotFinished, RestType, client
  <2> QED
    BY <2>2, <2>3, <2>4, <2>5
<1>18. ASSUME NEW t \in Threads, NEW c \in Coros, LastCallEmpty(t, c) PROVE Typed'
  <2>1. stack[t] # <<>>
    BY <1>18 DEF LastCallEmpty, At, InBody
  <2>2. CoroType'
    BY <1>0, <1>18 DEF LastCallEmpty, CoroType
  <2>3. StackType'
    BY <1>0, <1>18, MovedType, SetStackType, <2>1 DEF LastCallEmpty, Phases
  <2>4. PostedType'
    BY <1>0, <1>18 DEF LastCallEmpty, PostedType
  <2>5. RestType'
    BY <1>0, <1>18 DEF LastCallEmpty, RestType, client
  <2> QED
    BY <2>2, <2>3, <2>4, <2>5
<1>19. ASSUME NEW t \in Threads, NEW c \in Coros, NEW p \in Coros, LastCallAwaiter(t, c, p) PROVE Typed'
  <2>1. stack[t] # <<>>
    BY <1>19 DEF LastCallAwaiter, At, InBody
  <2>2. Moved(t, c, "release") \in Seq(Frames)
    BY <1>0, <2>1, MovedType DEF Phases
  <2>3. StackType' /\ PostedType'
    BY <1>0, <1>19, <2>2, ResumeType DEF LastCallAwaiter
  <2>4. CoroType'
    BY <1>0, <1>19 DEF LastCallAwaiter, CoroType
  <2>5. StackType'
    BY <1>0, <1>19, <2>1, <2>2, <2>3
  <2>6. PostedType'
    BY <1>0, <1>19, <2>1, <2>2, <2>3
  <2>7. RestType'
    BY <1>0, <1>19 DEF LastCallAwaiter, RestType, client
  <2> QED
    BY <2>4, <2>5, <2>6, <2>7
<1>20. ASSUME NEW t \in Threads, NEW c \in Coros, NEW w \in Threads, LastCallEvent(t, c, w) PROVE Typed'
  <2>1. stack[t] # <<>>
    BY <1>20 DEF LastCallEvent, At, InBody
  <2>2. CoroType'
    BY <1>0, <1>20 DEF LastCallEvent, CoroType
  <2>3. StackType'
    BY <1>0, <1>20, MovedType, SetStackType, <2>1 DEF LastCallEvent, Phases
  <2>4. PostedType'
    BY <1>0, <1>20 DEF LastCallEvent, PostedType
  <2>5. RestType'
    BY <1>0, <1>20 DEF LastCallEvent, RestType, client
  <2> QED
    BY <2>2, <2>3, <2>4, <2>5
<1>21. ASSUME NEW t \in Threads, NEW c \in Coros, Release(t, c) PROVE Typed'
  <2>1. stack[t] # <<>>
    BY <1>21 DEF Release, At, InBody
  <2>2. CoroType'
    BY <1>0, <1>21, FieldType DEF Release, CoroType, Released
  <2>3. StackType'
    BY <1>0, <1>21, MovedType, SetStackType, <2>1 DEF Release, Phases
  <2>4. PostedType'
    BY <1>0, <1>21 DEF Release, PostedType
  <2>5. RestType'
    BY <1>0, <1>21 DEF Release, RestType, client
  <2> QED
    BY <2>2, <2>3, <2>4, <2>5
<1>22. ASSUME NEW t \in Threads, NEW c \in Coros, OwnerReturns(t, c) PROVE Typed'
  <2>1. stack[t] # <<>>
    BY <1>22 DEF OwnerReturns, At, InBody
  <2>2. CoroType'
    BY <1>0, <1>22 DEF OwnerReturns, CoroType
  <2>3. StackType'
    BY <1>0, <1>22, MovedType, SetStackType, <2>1 DEF OwnerReturns, Phases
  <2>4. PostedType'
    BY <1>0, <1>22 DEF OwnerReturns, PostedType
  <2>5. RestType'
    BY <1>0, <1>22 DEF OwnerReturns, RestType, client
  <2> QED
    BY <2>2, <2>3, <2>4, <2>5
<1>23. ASSUME NEW t \in Threads, NEW c \in Coros, SyncWaitReturns(t, c) PROVE Typed'
  <2>1. stack[t] # <<>>
    BY <1>23 DEF SyncWaitReturns, At, InBody
  <2>2. CoroType'
    BY <1>0, <1>23 DEF SyncWaitReturns, CoroType
  <2>3. StackType'
    BY <1>0, <1>23, MovedType, SetStackType, <2>1 DEF SyncWaitReturns, Phases
  <2>4. PostedType'
    BY <1>0, <1>23 DEF SyncWaitReturns, PostedType
  <2>5. RestType'
    BY <1>0, <1>23 DEF SyncWaitReturns, RestType, client
  <2> QED
    BY <2>2, <2>3, <2>4, <2>5
<1>24. ASSUME NEW t \in Threads, NEW c \in Coros, NEW e \in Executors, RunOn(t, c, e) PROVE Typed'
  <2>1. stack[t] # <<>>
    BY <1>24 DEF RunOn, At, InBody
  <2>2. [coro EXCEPT ![c].executor = e] \in [Coros -> CoroutineContextBase]
    BY <1>0, FieldType DEF CoroType
  <2>3. [fn |-> "post", co |-> c] \in Callbacks
    BY DEF Callbacks
  <2>4. coro' = Yielded([coro EXCEPT ![c].executor = e], c, [fn |-> "post", co |-> c])
    BY <1>24 DEF RunOn
  <2>5. CoroType'
    BY <1>0, <1>24, YieldedType, <2>1, <2>2, <2>3, <2>4 DEF CoroType
  <2>6. StackType'
    BY <1>0, <1>24, MovedType, SetStackType, <2>1, <2>2, <2>3, <2>4 DEF RunOn, Phases, Switch
  <2>7. PostedType'
    BY <1>0, <1>24 DEF RunOn, PostedType
  <2>8. RestType'
    BY <1>0, <1>24, GhostType, CountType DEF RunOn, RestType, client, Switch, Did
  <2> QED
    BY <2>5, <2>6, <2>7, <2>8
<1>25. ASSUME NEW t \in Threads, NEW c \in Coros, NEW d \in Coros, Await(t, c, d) PROVE Typed'
  <2>1. stack[t] # <<>>
    BY <1>25 DEF Await, At, InBody
  <2>2. [coro EXCEPT ![d].last_call = c] \in [Coros -> CoroutineContextBase]
    BY <1>0, FieldType DEF CoroType
  <2>3. [fn |-> "start", co |-> d] \in Callbacks
    BY DEF Callbacks
  <2>4. coro' = Yielded([coro EXCEPT ![d].last_call = c], c, [fn |-> "start", co |-> d])
    BY <1>25 DEF Await
  <2>5. CoroType'
    BY <1>0, <1>25, YieldedType, <2>1, <2>2, <2>3, <2>4 DEF CoroType
  <2>6. StackType'
    BY <1>0, <1>25, MovedType, SetStackType, <2>1, <2>2, <2>3, <2>4 DEF Await, Phases, Switch
  <2>7. PostedType'
    BY <1>0, <1>25 DEF Await, PostedType
  <2>8. RestType'
    BY <1>0, <1>25, GhostType, UsedType, CountType DEF Await, RestType, client, Switch, Did
  <2> QED
    BY <2>5, <2>6, <2>7, <2>8
<1>26. ASSUME NEW t \in Threads, NEW c \in Coros, AwaitTask(t, c) PROVE Typed'
  <2>1. stack[t] # <<>>
    BY <1>26 DEF AwaitTask, At, InBody
  <2>2. coro \in [Coros -> CoroutineContextBase]
    BY <1>0, FieldType DEF CoroType
  <2>3. [fn |-> "then", co |-> c] \in Callbacks
    BY DEF Callbacks
  <2>4. coro' = Yielded(coro, c, [fn |-> "then", co |-> c])
    BY <1>26 DEF AwaitTask
  <2>5. CoroType'
    BY <1>0, <1>26, YieldedType, <2>1, <2>2, <2>3, <2>4 DEF CoroType
  <2>6. StackType'
    BY <1>0, <1>26, MovedType, SetStackType, <2>1, <2>2, <2>3, <2>4 DEF AwaitTask, Phases, Switch
  <2>7. PostedType'
    BY <1>0, <1>26 DEF AwaitTask, PostedType
  <2>8. RestType'
    BY <1>0, <1>26, GhostType, CountType DEF AwaitTask, RestType, client, Switch, Did
  <2> QED
    BY <2>5, <2>6, <2>7, <2>8
<1>27. ASSUME NEW t \in Threads, NEW c \in Coros, YieldFails(t, c) PROVE Typed'
  <2>1. CoroType'
    BY <1>0, <1>27 DEF YieldFails, CoroType
  <2>2. StackType'
    BY <1>0, <1>27 DEF YieldFails, StackType
  <2>3. PostedType'
    BY <1>0, <1>27 DEF YieldFails, PostedType
  <2>4. RestType'
    BY <1>0, <1>27 DEF YieldFails, RestType, client, Fail, Faults
  <2> QED
    BY <2>1, <2>2, <2>3, <2>4
<1>28. ASSUME NEW t \in Threads, NEW c \in Coros, NEW d \in Coros, Call(t, c, d) PROVE Typed'
  <2>1. <<Frame(d, "owner")>> \o stack[t] \in Seq(Frames)
    BY <1>0, PushType DEF Phases, StackType
  <2>2. StartAndOp(t, d, coro, <<Frame(d, "owner")>> \o stack[t])
    BY <1>28 DEF Call
  <2>3. coro \in [Coros -> CoroutineContextBase]
    BY <1>0, FieldType DEF CoroType
  <2>4. CoroType' /\ StackType' /\ fault' \in Faults \cup {None}
    BY <1>0, <2>1, <2>2, <2>3, StartType DEF RestType
  <2>5. CoroType'
    BY <1>0, <1>28, <2>1, <2>2, <2>3, <2>4
  <2>6. StackType'
    BY <1>0, <1>28, <2>1, <2>2, <2>3, <2>4
  <2>7. PostedType'
    BY <1>0, <1>28 DEF Call, PostedType
  <2>8. RestType'
    BY <1>0, <1>28, UsedType, CountType, <2>1, <2>2, <2>3, <2>4 DEF Call, RestType, client, Did
  <2> QED
    BY <2>5, <2>6, <2>7, <2>8
<1>29. ASSUME NEW t \in Threads, NEW c \in Coros, Finish(t, c) PROVE Typed'
  <2>1. stack[t] # <<>>
    BY <1>29 DEF Finish, At, InBody
  <2>2. CoroType'
    BY <1>0, <1>29, FieldType DEF Finish, CoroType, Sources
  <2>3. StackType'
    BY <1>0, <1>29, MovedType, SetStackType, <2>1 DEF Finish, Phases
  <2>4. PostedType'
    BY <1>0, <1>29 DEF Finish, PostedType
  <2>5. RestType'
    BY <1>0, <1>29 DEF Finish, RestType, client
  <2> QED
    BY <2>2, <2>3, <2>4, <2>5
<1>30. ASSUME NEW t \in Threads, NEW c \in Coros, CallThrows(t, c) PROVE Typed'
  <2>1. StackType' /\ fault' \in Faults \cup {None}
    BY <1>0, <1>30, UnwindType DEF CallThrows, RestType
  <2>2. CoroType' /\ PostedType'
    BY <1>0, <1>30 DEF CallThrows, CoroType, PostedType
  <2>3. RestType'
    BY <1>0, <1>30, <2>1, GhostType DEF CallThrows, RestType, client, Refuses
  <2> QED
    BY <2>1, <2>2, <2>3
<1>31. ASSUME NEW t \in Threads, NEW c \in Coros, NEW p \in Coros, LastCallThrows(t, c, p)
       PROVE  Typed'
  <2>1. StackType' /\ fault' \in Faults \cup {None}
    BY <1>0, <1>31, UnwindType DEF LastCallThrows, RestType
  <2>2. CoroType' /\ PostedType'
    BY <1>0, <1>31 DEF LastCallThrows, CoroType, PostedType
  <2>3. RestType'
    BY <1>0, <1>31, <2>1, GhostType DEF LastCallThrows, RestType, client, Strands
  <2> QED
    BY <2>1, <2>2, <2>3
<1>32. ASSUME NEW e \in Executors, Shutdown(e) PROVE Typed'
  <2>1. PostedType'
    BY <1>0, <1>32 DEF Shutdown, PostedType
  <2>2. ghost' \in [Coros -> Ghosts]
    BY <1>0, <1>32 DEF Shutdown, RestType, Ghosts, Pending
  <2>3. CoroType' /\ StackType' /\ RestType'
    BY <1>0, <1>32, <2>2 DEF Shutdown, CoroType, StackType, RestType, client
  <2> QED
    BY <2>1, <2>3
<1>33. ASSUME NEW t \in Threads, NEW c \in Coros, ResumePlain(t, c) PROVE Typed'
  <2>1. <<Frame(c, "jump"), Frame(c, "owner")>> \in Seq(Frames)
    BY DEF Frame, Frames, Phases
  <2>2. StackType'
    BY <1>0, <1>33, <2>1, SetStackType DEF ResumePlain
  <2>3. CoroType' /\ PostedType' /\ RestType'
    BY <1>0, <1>33 DEF ResumePlain, CoroType, PostedType, RestType, client
  <2> QED
    BY <2>2, <2>3
<1>34. ASSUME NEW t \in Threads, NEW c \in Coros, NEW d \in Coros, CallResume(t, c, d)
       PROVE  Typed'
  <2>1. <<Frame(d, "jump"), Frame(d, "owner")>> \o stack[t] \in Seq(Frames)
    <3>1. <<Frame(d, "jump"), Frame(d, "owner")>> \in Seq(Frames)
      BY DEF Frame, Frames, Phases
    <3> QED
      BY <1>0, <3>1 DEF StackType
  <2>2. StackType'
    BY <1>0, <1>34, <2>1, SetStackType DEF CallResume
  <2>3. CoroType' /\ PostedType'
    BY <1>0, <1>34 DEF CallResume, CoroType, PostedType
  <2>4. RestType'
    BY <1>0, <1>34, CountType DEF CallResume, RestType, client, Did
  <2> QED
    BY <2>2, <2>3, <2>4
<1>35. ASSUME NEW t \in Threads, NEW c \in Coros, Yield(t, c) PROVE Typed'
  <2>1. stack[t] # <<>>
    BY <1>35 DEF Yield, At, InBody
  <2>2. Yielded(coro, c, None) \in [Coros -> CoroutineContextBase]
    BY <1>0, YieldedType DEF CoroType
  <2>3. CoroType' /\ PostedType'
    BY <1>0, <1>35, <2>2 DEF Yield, CoroType, PostedType
  <2>4. StackType'
    BY <1>0, <1>35, <2>1, MovedType, SetStackType DEF Yield, Phases, Switch
  <2>5. RestType'
    BY <1>0, <1>35, GhostType, CountType DEF Yield, RestType, client, Switch, Did
  <2> QED
    BY <2>3, <2>4, <2>5
<1>36. ASSUME NEW t \in Threads, NEW u \in Threads, NEW c \in Coros, EnterTwice(t, u, c)
       PROVE  Typed'
  <2>1. stack[t] # <<>> /\ stack[u] # <<>>
    BY <1>36 DEF EnterTwice, At
  <2>2. Moved(t, c, "body") \in Seq(Frames) /\ Moved(u, c, "body") \in Seq(Frames)
    BY <1>0, <2>1, MovedType DEF Phases
  <2>3. StackType'
    BY <1>0, <1>36, <2>2 DEF EnterTwice, StackType
  <2>4. CoroType' /\ PostedType'
    BY <1>0, <1>36, FieldType DEF EnterTwice, CoroType, PostedType, Entered, Sources,
       CoroutineContextBase
  <2>5. RestType'
    BY <1>0, <1>36, GhostType DEF EnterTwice, RestType, client, WaitOver, Fail, Faults
  <2> QED
    BY <2>3, <2>4, <2>5
<1>37. CASE UNCHANGED vars
  BY <1>0, <1>37 DEF vars, client, CoroType, StackType, PostedType, RestType
<1> QED
  BY <1>1, <1>2, <1>3, <1>4, <1>5, <1>6, <1>7, <1>8, <1>9, <1>10, <1>11, <1>12, <1>13, <1>14, <1>15, <1>16, <1>17, <1>18, <1>19, <1>20, <1>21, <1>22, <1>23, <1>24, <1>25, <1>26, <1>27, <1>28, <1>29, <1>30,
     <1>31, <1>32, <1>33, <1>34, <1>35, <1>36, <1>37
     DEF Next, ClientStep, ThreadStep, Resume, Body, TakeWork

\* The variables of the model keep their types, whatever the client does.
THEOREM TypeCorrect == Spec => []TypeOK
<1>1. Init => TypeOK
  BY ClientAssumption DEF Init, TypeOK, CoroutineContextBase, Sources, Ghosts
<1> QED
  BY <1>1, TypeStep, PTL DEF Spec

=============================================================================
