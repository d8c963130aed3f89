------------------------------ MODULE BodyProofs ------------------------------
(***************************************************************************)
(* What holds for every client, even one that resumes a coroutine from     *)
(* several threads.                                                        *)
(*                                                                         *)
(* First, the body of a coroutine runs twice at a time only when two       *)
(* resume() read the fiber handle (_source) together (EnterTwice).  The    *)
(* handle makes it so: it holds the context of a resumer exactly while the *)
(* body runs, and whoever looks at it then can not switch to the body.     *)
(* Second, thisCoro() names the body that runs.  Third, sync_wait returns  *)
(* only when its coroutine has finished.                                   *)
(***************************************************************************)
EXTENDS CoroutineProofs, Integers

BodyAt(t, i, c) == i \in DOMAIN stack[t] /\ stack[t][i] = Frame(c, "body")

\* The inductive invariant: whoever runs a body has left its context behind.
BodyInv ==
  /\ \A t \in Threads, i \in Nat, c \in Coros : BodyAt(t, i, c) => coro[c].source = "caller"
  /\ \A t, u \in Threads, i, j \in Nat, c \in Coros :
       BodyAt(t, i, c) /\ BodyAt(u, j, c) => t = u /\ i = j

LEMMA BodyInvImplies == TypeOK /\ BodyInv => BodyExclusive
<1> SUFFICES ASSUME TypeOK, BodyInv, NEW c \in Coros,
                    NEW p \in FramesOf(c, {"body"}), NEW q \in FramesOf(c, {"body"})
             PROVE  p = q
  BY DEF BodyExclusive
<1>1. ASSUME NEW r \in FramesOf(c, {"body"})
      PROVE  /\ r = <<r[1], r[2]>>
             /\ r[1] \in Threads
             /\ r[2] \in Nat
             /\ BodyAt(r[1], r[2], c)
  <2>1. PICK t \in Threads : r \in {t} \X DOMAIN stack[t]
    BY <1>1 DEF FramesOf
  <2>2. stack[t] \in Seq(Frames) /\ r[1] = t /\ r[2] \in DOMAIN stack[t] /\ r = <<r[1], r[2]>>
    BY <2>1 DEF TypeOK
  <2>3. stack[t][r[2]] \in Frames /\ stack[t][r[2]].co = c /\ stack[t][r[2]].at = "body"
    BY <1>1, <2>2 DEF FramesOf
  <2> QED
    BY <2>2, <2>3 DEF BodyAt, Frames, Frame
<1>2. p[1] = q[1] /\ p[2] = q[2]
  BY <1>1 DEF BodyInv
<1> QED
  BY <1>1, <1>2

\* The body frames of s are those of the stack of t, k places further down.
Shifted(t, s, k) ==
  \A i \in DOMAIN s : s[i].at = "body" => i + k \in DOMAIN stack[t] /\ stack[t][i + k] = s[i]

LEMMA ShiftedBodies ==
  ASSUME StackType, NEW t \in Threads, NEW s \in Seq(Frames), NEW k \in Int,
         Shifted(t, s, k), SetStack(t, s),
         NEW u \in Threads, NEW i \in Nat, NEW c \in Coros, BodyAt(u, i, c)'
  PROVE  BodyAt(u, IF u = t THEN i + k ELSE i, c)
<1>1. CASE u = t
  <2>1. i \in DOMAIN s /\ s[i] = Frame(c, "body")
    BY <1>1 DEF SetStack, BodyAt, StackType
  <2>2. s[i].at = "body"
    BY <2>1 DEF Frame
  <2> QED
    BY <1>1, <2>1, <2>2 DEF Shifted, BodyAt
<1>2. CASE u # t
  BY <1>2 DEF SetStack, BodyAt, StackType
<1> QED
  BY <1>1, <1>2

\* A step that enters no body keeps the invariant, if the handle of every
\* coroutine whose body is still running is left alone.
LEMMA KeepBodies ==
  ASSUME TypeOK, BodyInv, NEW t \in Threads, NEW s \in Seq(Frames), NEW k \in Int,
         Shifted(t, s, k), SetStack(t, s),
         \A u \in Threads, i \in Nat, c \in Coros :
           BodyAt(u, i, c)' => coro'[c].source = coro[c].source
  PROVE  BodyInv'
<1> DEFINE at(u, i) == IF u = t THEN i + k ELSE i
<1>1. ASSUME NEW u \in Threads, NEW i \in Nat, NEW c \in Coros, BodyAt(u, i, c)'
      PROVE  at(u, i) \in Nat /\ BodyAt(u, at(u, i), c)
  <2>1. StackType
    BY DEF TypeOK, StackType
  <2>2. BodyAt(u, at(u, i), c)
    BY <1>1, <2>1, ShiftedBodies
  <2>3. stack[u] \in Seq(Frames)
    BY DEF TypeOK
  <2> QED
    BY <2>2, <2>3 DEF BodyAt
<1>2. ASSUME NEW u \in Threads, NEW i \in Nat, NEW c \in Coros, BodyAt(u, i, c)'
      PROVE  coro'[c].source = "caller"
  <2>1. at(u, i) \in Nat /\ BodyAt(u, at(u, i), c)
    BY <1>1, <1>2
  <2>2. coro[c].source = "caller"
    BY <2>1 DEF BodyInv
  <2> QED
    BY <1>2, <2>2
<1>3. ASSUME NEW u \in Threads, NEW w \in Threads, NEW i \in Nat, NEW j \in Nat,
             NEW c \in Coros, BodyAt(u, i, c)', BodyAt(w, j, c)'
      PROVE  u = w /\ i = j
  <2>1. u = w /\ at(u, i) = at(w, j)
    BY <1>1, <1>3 DEF BodyInv
  <2> QED
    BY <2>1
<1> QED
  BY <1>2, <1>3 DEF BodyInv

LEMMA PopShifts ==
  ASSUME StackType, NEW t \in Threads, stack[t] # <<>>
  PROVE  Tail(stack[t]) \in Seq(Frames) /\ Shifted(t, Tail(stack[t]), 1)
<1>1. stack[t] \in Seq(Frames)
  BY DEF StackType
<1> QED
  BY <1>1 DEF Shifted

LEMMA MoveShifts ==
  ASSUME StackType, NEW t \in Threads, stack[t] # <<>>,
         NEW c \in Coros, NEW ph \in Phases \ {"body"}
  PROVE  Moved(t, c, ph) \in Seq(Frames) /\ Shifted(t, Moved(t, c, ph), 0)
<1>1. stack[t] \in Seq(Frames) /\ Frame(c, ph) \in Frames /\ Frame(c, ph).at # "body"
  BY DEF StackType, Frames, Frame
<1> QED
  BY <1>1 DEF Shifted, Moved

LEMMA PushShifts ==
  ASSUME NEW t, NEW s \in Seq(Frames), NEW k \in Int, Shifted(t, s, k),
         NEW c \in Coros, NEW ph \in Phases \ {"body"}
  PROVE  <<Frame(c, ph)>> \o s \in Seq(Frames) /\ Shifted(t, <<Frame(c, ph)>> \o s, k - 1)
<1> DEFINE z == <<Frame(c, ph)>> \o s
<1>1. Frame(c, ph) \in Frames /\ Frame(c, ph).at # "body"
  BY DEF Frames, Frame
<1>2. z \in Seq(Frames) /\ z[1] = Frame(c, ph)
  BY <1>1
<1>3. ASSUME NEW i \in DOMAIN z, z[i].at = "body"
      PROVE  i + (k - 1) \in DOMAIN stack[t] /\ stack[t][i + (k - 1)] = z[i]
  <2>1. i \in Nat /\ i - 1 \in DOMAIN s /\ z[i] = s[i - 1]
    BY <1>1, <1>2, <1>3
  <2>2. (i - 1) + k = i + (k - 1)
    BY <2>1
  <2> QED
    BY <1>3, <2>1, <2>2 DEF Shifted
<1> QED
  BY <1>2, <1>3 DEF Shifted

\* The handles of all the coroutines are left alone.
SourcesKept == \A b \in Coros : coro'[b].source = coro[b].source

\* An exception takes frames off the stack, and enters no body.
LEMMA UnwoundShifts ==
  ASSUME StackType, NEW t \in Threads, NEW n \in 1..(Len(stack[t]) + 1)
  PROVE  /\ n - 1 \in Int
         /\ SubSeq(stack[t], n, Len(stack[t])) \in Seq(Frames)
         /\ Shifted(t, SubSeq(stack[t], n, Len(stack[t])), n - 1)
<1> DEFINE z == SubSeq(stack[t], n, Len(stack[t]))
<1>1. stack[t] \in Seq(Frames)
  BY DEF StackType
<1>2. n \in Nat /\ n - 1 \in Int /\ Len(stack[t]) \in (n - 1)..Len(stack[t])
  BY <1>1
<1>3. /\ z \in Seq(Frames)
      /\ Len(z) = IF n <= Len(stack[t]) THEN Len(stack[t]) - n + 1 ELSE 0
      /\ \A i \in 1..(Len(stack[t]) - n + 1) : z[i] = stack[t][n + i - 1]
  BY <1>1, <1>2, SubSeqProperties
<1> HIDE DEF z
<1>4. Shifted(t, z, n - 1)
  <2> SUFFICES ASSUME NEW i \in DOMAIN z
               PROVE  i + (n - 1) \in DOMAIN stack[t] /\ stack[t][i + (n - 1)] = z[i]
    BY DEF Shifted
  <2>1. i \in 1..(Len(stack[t]) - n + 1) /\ i \in Nat
    BY <1>1, <1>2, <1>3
  <2>2. n + i - 1 = i + (n - 1) /\ n + i - 1 \in 1..Len(stack[t])
    BY <1>1, <1>2, <2>1
  <2>3. z[i] = stack[t][n + i - 1]
    BY <1>3, <2>1
  <2> QED
    BY <1>1, <2>2, <2>3
<1> QED
  BY <1>2, <1>3, <1>4 DEF z

LEMMA UnwindBodies ==
  ASSUME TypeOK, BodyInv, NEW t \in Threads, Unwinds(t), SourcesKept
  PROVE  BodyInv'
<1> DEFINE z(n) == SubSeq(stack[t], n, Len(stack[t]))
<1>1. PICK n \in 1..(Len(stack[t]) + 1) : UNCHANGED stack \/ SetStack(t, z(n))
  BY DEF Unwinds
<1>2. StackType
  BY DEF TypeOK, StackType
<1>3. n - 1 \in Int /\ z(n) \in Seq(Frames) /\ Shifted(t, z(n), n - 1)
  BY <1>2, UnwoundShifts
<1> HIDE DEF z
<1>4. CASE UNCHANGED stack
  BY <1>4 DEF BodyInv, BodyAt, SourcesKept
<1>5. CASE SetStack(t, z(n))
  BY <1>3, <1>5, KeepBodies DEF SourcesKept
<1> QED
  BY <1>1, <1>4, <1>5

\* startAndOp starts only a coroutine whose handle is empty, so not a running
\* one; it enters no body itself.
LEMMA StartBodies ==
  ASSUME TypeOK, BodyInv, NEW t \in Threads, NEW c \in Coros,
         NEW objs \in [Coros -> CoroutineContextBase],
         \A b \in Coros : objs[b].source = coro[b].source,
         NEW rest \in Seq(Frames), NEW k \in Int, Shifted(t, rest, k),
         StartAndOp(t, c, objs, rest)
  PROVE  BodyInv'
<1>1. CASE Startable(c)
  <2> DEFINE z == <<Frame(c, "jump")>> \o rest
  <2>1. z \in Seq(Frames) /\ Shifted(t, z, k - 1) /\ SetStack(t, z) /\ k - 1 \in Int
    BY <1>1, PushShifts DEF StartAndOp, Phases
  <2>2. \A b \in Coros : b # c => coro'[b].source = coro[b].source
    BY <1>1 DEF StartAndOp, CoroutineContextBase
  <2>3. \A u \in Threads, i \in Nat : ~BodyAt(u, i, c)
    BY <1>1 DEF BodyInv, Startable
  <2>4. \A u \in Threads, i \in Nat : ~BodyAt(u, i, c)'
    <3> SUFFICES ASSUME NEW u \in Threads, NEW i \in Nat, BodyAt(u, i, c)' PROVE FALSE
      OBVIOUS
    <3>1. StackType /\ stack[u] \in Seq(Frames)
      BY DEF TypeOK, StackType
    <3> HIDE DEF z
    <3>2. BodyAt(u, IF u = t THEN i + (k - 1) ELSE i, c)
      BY <2>1, <3>1, ShiftedBodies
    <3>3. (IF u = t THEN i + (k - 1) ELSE i) \in Nat
      BY <3>1, <3>2 DEF BodyAt
    <3> QED
      BY <2>3, <3>2, <3>3
  <2> HIDE DEF z
  <2> QED
    BY <2>1, <2>2, <2>4, KeepBodies
<1>2. CASE ~Startable(c)
  BY <1>2, UnwindBodies DEF StartAndOp, SourcesKept
<1> QED
  BY <1>1, <1>2

LEMMA ResumeBodies ==
  ASSUME TypeOK, BodyInv, NEW t \in Threads, NEW p \in Coros,
         NEW rest \in Seq(Frames), NEW k \in Int, Shifted(t, rest, k),
         ResumeAwaiter(t, p, rest), SourcesKept
  PROVE  BodyInv'
<1>1. <<Frame(p, "jump")>> \o rest \in Seq(Frames)
      /\ Shifted(t, <<Frame(p, "jump")>> \o rest, k - 1) /\ k - 1 \in Int
  BY PushShifts DEF Phases
<1> QED
  BY <1>1, KeepBodies DEF ResumeAwaiter, SourcesKept

LEMMA MoveBodies ==
  ASSUME TypeOK, BodyInv, NEW t \in Threads, NEW c \in Coros, NEW ph \in Phases \ {"body"},
         stack[t] # <<>>, SetStack(t, Moved(t, c, ph)), SourcesKept
  PROVE  BodyInv'
<1>1. StackType
  BY DEF TypeOK, StackType
<1>2. Moved(t, c, ph) \in Seq(Frames) /\ Shifted(t, Moved(t, c, ph), 0)
  BY <1>1, MoveShifts
<1> QED
  BY <1>2, KeepBodies DEF SourcesKept

LEMMA PopBodies ==
  ASSUME TypeOK, BodyInv, NEW t \in Threads,
         stack[t] # <<>>, SetStack(t, Tail(stack[t])), SourcesKept
  PROVE  BodyInv'
<1>1. StackType
  BY DEF TypeOK, StackType
<1>2. Tail(stack[t]) \in Seq(Frames) /\ Shifted(t, Tail(stack[t]), 1) /\ 1 \in Int
  BY <1>1, PopShifts
<1> QED
  BY <1>2, KeepBodies DEF SourcesKept

\* The body of c yields or returns: its frame was the only one of c.
LEMMA LeaveBody ==
  ASSUME TypeOK, BodyInv, NEW t \in Threads, NEW c \in Coros, At(t, c, "body"),
         SetStack(t, Moved(t, c, "check")),
         \A b \in Coros : b # c => coro'[b].source = coro[b].source
  PROVE  BodyInv'
<1>1. StackType /\ stack[t] # <<>>
  BY DEF TypeOK, StackType, At
<1>2. Moved(t, c, "check") \in Seq(Frames) /\ Shifted(t, Moved(t, c, "check"), 0)
  BY <1>1, MoveShifts DEF Phases
<1>3. BodyAt(t, 1, c)
  BY <1>1 DEF BodyAt, At, StackType
<1>4. ASSUME NEW u \in Threads, NEW i \in Nat, BodyAt(u, i, c)' PROVE FALSE
  <2>1. BodyAt(u, IF u = t THEN i + 0 ELSE i, c)
    BY <1>1, <1>2, <1>4, ShiftedBodies
  <2>2. BodyAt(u, i, c)
    BY <2>1
  <2>3. u = t /\ i = 1
    BY <1>3, <2>2 DEF BodyInv
  <2>4. stack'[t][1] = Frame(c, "check")
    BY <1>1 DEF SetStack, Moved, StackType
  <2> QED
    BY <1>4, <2>3, <2>4 DEF BodyAt, Frame
<1> QED
  BY <1>2, <1>4, KeepBodies

-----------------------------------------------------------------------------
\* Entering a body: its handle held no resumer's context, so it was not running.
LEMMA EnterBodies ==
  ASSUME TypeOK, BodyInv, NEW t \in Threads, NEW c \in Coros, Enter(t, c)
  PROVE  BodyInv'
<1>1. StackType /\ stack[t] # <<>> /\ stack[t] \in Seq(Frames)
  BY DEF Enter, At, TypeOK, StackType
<1>2. \A u \in Threads, i \in Nat : ~BodyAt(u, i, c)
  BY DEF Enter, Resumable, BodyInv
<1>3. /\ coro'[c].source = "caller"
      /\ \A b \in Coros : b # c => coro'[b].source = coro[b].source
  BY DEF Enter, Entered, TypeOK, CoroutineContextBase
<1>4. stack' = [stack EXCEPT ![t] = Moved(t, c, "body")]
  BY DEF Enter, SetStack
<1>5. ASSUME NEW u \in Threads, NEW i \in Nat, NEW b \in Coros, BodyAt(u, i, b)'
      PROVE  BodyAt(u, i, b) \/ (b = c /\ u = t /\ i = 1)
  <2>1. CASE u # t
    BY <1>1, <1>4, <1>5, <2>1 DEF BodyAt, StackType
  <2>2. CASE u = t /\ i = 1
    <3>1. stack'[t][1] = Frame(c, "body")
      BY <1>1, <1>4 DEF Moved, StackType
    <3> QED
      BY <1>5, <2>2, <3>1 DEF BodyAt, Frame
  <2>3. CASE u = t /\ i # 1
    BY <1>1, <1>4, <1>5, <2>3 DEF BodyAt, Moved, StackType
  <2> QED
    BY <2>1, <2>2, <2>3
<1>6. ASSUME NEW u \in Threads, NEW i \in Nat, NEW b \in Coros, BodyAt(u, i, b)'
      PROVE  coro'[b].source = "caller"
  BY <1>2, <1>3, <1>5, <1>6 DEF BodyInv
<1>7. ASSUME NEW u \in Threads, NEW w \in Threads, NEW i \in Nat, NEW j \in Nat,
             NEW b \in Coros, BodyAt(u, i, b)', BodyAt(w, j, b)'
      PROVE  u = w /\ i = j
  BY <1>2, <1>5, <1>7 DEF BodyInv
<1> QED
  BY <1>6, <1>7 DEF BodyInv

\* Nothing that concerns the invariant changes.
LEMMA SameBodies ==
  ASSUME BodyInv, stack' = stack, SourcesKept
  PROVE  BodyInv'
BY DEF BodyInv, BodyAt, SourcesKept

LEMMA OneFrame ==
  ASSUME NEW t \in Threads, stack[t] = <<>>, NEW c \in Coros, NEW ph \in Phases \ {"body"}
  PROVE  <<Frame(c, ph)>> \in Seq(Frames) /\ Shifted(t, <<Frame(c, ph)>>, 0)
BY DEF Shifted, Frame, Frames

LEMMA EmptyStack ==
  ASSUME NEW t \in Threads, stack[t] = <<>>
  PROVE  <<>> \in Seq(Frames) /\ Shifted(t, <<>>, 0)
BY DEF Shifted

LEMMA PushedTwice ==
  ASSUME StackType, NEW t \in Threads, NEW d \in Coros,
         NEW p \in Phases \ {"body"}, NEW q \in Phases \ {"body"}
  PROVE  /\ <<Frame(d, p), Frame(d, q)>> \o stack[t] \in Seq(Frames)
         /\ Shifted(t, <<Frame(d, p), Frame(d, q)>> \o stack[t], (0 - 1) - 1)
<1>1. stack[t] \in Seq(Frames) /\ Shifted(t, stack[t], 0) /\ 0 \in Int
  BY DEF StackType, Shifted
<1>2. <<Frame(d, q)>> \o stack[t] \in Seq(Frames) /\ Shifted(t, <<Frame(d, q)>> \o stack[t], 0 - 1)
  BY <1>1, PushShifts
<1>3. 0 - 1 \in Int
  OBVIOUS
<1>4. LET s == <<Frame(d, q)>> \o stack[t]
      IN  /\ <<Frame(d, p)>> \o s \in Seq(Frames)
          /\ Shifted(t, <<Frame(d, p)>> \o s, (0 - 1) - 1)
  BY <1>2, <1>3, PushShifts
<1>5. <<Frame(d, p)>> \o (<<Frame(d, q)>> \o stack[t]) = <<Frame(d, p), Frame(d, q)>> \o stack[t]
  <2>1. Frame(d, p) \in Frames /\ Frame(d, q) \in Frames
    BY DEF Frame, Frames
  <2> QED
    BY <1>1, <2>1
<1> QED
  BY <1>4, <1>5

\* The step is not one in which two resume() take the handle together.
NotTwice == fault' # "entered twice"

LEMMA BodyStep ==
  ASSUME TypeOK, BodyInv, [Next]_vars, NotTwice
  PROVE  BodyInv'
<1>0. /\ StackType
      /\ coro \in [Coros -> CoroutineContextBase]
      /\ 0 \in Int
  BY DEF TypeOK, StackType
<1>1. ASSUME NEW c \in Coros, NEW e \in Executors, PostCoroTask(c, e) PROVE BodyInv'
  <2>1. SourcesKept
    BY <1>0, <1>1 DEF PostCoroTask, SourcesKept, CoroutineContextBase
  <2> QED
    BY <1>1, <2>1, SameBodies DEF PostCoroTask
<1>2. ASSUME NEW t \in Threads, NEW c \in Coros, StartPlain(t, c) PROVE BodyInv'
  <2>1. <<Frame(c, "owner")>> \in Seq(Frames) /\ Shifted(t, <<Frame(c, "owner")>>, 0)
    BY <1>2, OneFrame DEF StartPlain, Phases
  <2> QED
    BY <1>0, <1>2, <2>1, StartBodies DEF StartPlain
<1>3. ASSUME NEW t \in Threads, NEW c \in Coros, SyncWait(t, c) PROVE BodyInv'
  <2>1. <<Frame(c, "wait")>> \in Seq(Frames) /\ Shifted(t, <<Frame(c, "wait")>>, 0)
    BY <1>3, OneFrame DEF SyncWait, Phases
  <2>2. /\ [coro EXCEPT ![c].last_call = t] \in [Coros -> CoroutineContextBase]
        /\ \A b \in Coros : [coro EXCEPT ![c].last_call = t][b].source = coro[b].source
    BY <1>0 DEF CoroutineContextBase
  <2> QED
    BY <1>0, <1>3, <2>1, <2>2, StartBodies DEF SyncWait
<1>4. ASSUME NEW t \in Threads, NEW c \in Coros, Destory(t, c) PROVE BodyInv'
  <2> DEFINE z == <<Frame(c, "fin"), Frame(c, "owner")>>
  <2>1. z \in Seq(Frames) /\ Shifted(t, z, 0)
    BY <1>4 DEF Destory, Shifted, Frame, Frames, Phases
  <2>2. \A b \in Coros : b # c => coro'[b].source = coro[b].source
    BY <1>0, <1>4 DEF Destory, CoroutineContextBase
  <2>3. \A u \in Threads, i \in Nat : ~BodyAt(u, i, c)
    BY <1>4 DEF Destory, BodyInv
  <2>4. SetStack(t, z)
    BY <1>4 DEF Destory
  <2> HIDE DEF z
  <2>5. \A u \in Threads, i \in Nat : ~BodyAt(u, i, c)'
    BY <1>0, <2>1, <2>3, <2>4, ShiftedBodies
  <2> QED
    BY <1>0, <2>1, <2>2, <2>4, <2>5, KeepBodies
<1>5. ASSUME NEW c \in Coros, DropHandle(c) PROVE BodyInv'
  BY <1>5, SameBodies DEF DropHandle, SourcesKept
<1>6. ASSUME NEW t \in Threads, NEW e \in Executors, NEW c \in Coros, RunStart(t, e, c) PROVE BodyInv'
  <2>1. <<Frame(c, "owner")>> \in Seq(Frames) /\ Shifted(t, <<Frame(c, "owner")>>, 0)
    BY <1>6, OneFrame DEF RunStart, Phases
  <2> QED
    BY <1>0, <1>6, <2>1, StartBodies DEF RunStart
<1>7. ASSUME NEW t \in Threads, NEW e \in Executors, NEW c \in Coros, RunResume(t, e, c) PROVE BodyInv'
  <2>1. <<Frame(c, "jump")>> \in Seq(Frames) /\ Shifted(t, <<Frame(c, "jump")>>, 0)
    BY <1>7, OneFrame DEF RunResume, Phases
  <2> QED
    BY <1>0, <1>7, <2>1, KeepBodies DEF RunResume
<1>8. ASSUME NEW t \in Threads, NEW c \in Coros, CompleteTask(t, c) PROVE BodyInv'
  <2>1. <<>> \in Seq(Frames) /\ Shifted(t, <<>>, 0)
    BY <1>8, EmptyStack DEF CompleteTask
  <2> QED
    BY <1>0, <1>8, <2>1, ResumeBodies, SameBodies DEF CompleteTask, SourcesKept
<1>9. ASSUME NEW t \in Threads, NEW c \in Coros, Enter(t, c) PROVE BodyInv'
  BY <1>9, EnterBodies
<1>10. ASSUME NEW t \in Threads, NEW c \in Coros, EnterFails(t, c) PROVE BodyInv'
  BY <1>10, SameBodies DEF EnterFails, SourcesKept
<1>11. ASSUME NEW t \in Threads, NEW c \in Coros, Check(t, c) PROVE BodyInv'
  <2>1. SourcesKept
    BY <1>11 DEF Check, SourcesKept
  <2>2. AfterSwitch(c) \in Phases \ {"body"} /\ stack[t] # <<>>
    BY <1>11 DEF Check, At, AfterSwitch, Phases
  <2>3. SetStack(t, Moved(t, c, AfterSwitch(c)))
    BY <1>11 DEF Check
  <2> QED
    BY <2>1, <2>2, <2>3, MoveBodies
<1>12. ASSUME NEW t \in Threads, NEW c \in Coros, CallPost(t, c) PROVE BodyInv'
  <2>1. SourcesKept
    BY <1>0, <1>12 DEF CallPost, SourcesKept, CoroutineContextBase
  <2> QED
    BY <1>12, <2>1, MoveBodies DEF CallPost, At, Phases
<1>13. ASSUME NEW t \in Threads, NEW c \in Coros, NEW d \in Coros, CallStart(t, c, d) PROVE BodyInv'
  <2>1. Moved(t, c, "clear") \in Seq(Frames) /\ Shifted(t, Moved(t, c, "clear"), 0)
    BY <1>0, <1>13, MoveShifts DEF CallStart, At, Phases
  <2> QED
    BY <1>0, <1>13, <2>1, StartBodies DEF CallStart
<1>14. ASSUME NEW t \in Threads, NEW c \in Coros, CallThen(t, c) PROVE BodyInv'
  <2>1. SourcesKept
    BY <1>0, <1>14 DEF CallThen, SourcesKept, CoroutineContextBase
  <2> QED
    BY <1>14, <2>1, MoveBodies DEF CallThen, At, Phases
<1>15. ASSUME NEW t \in Threads, NEW c \in Coros, CallFails(t, c) PROVE BodyInv'
  BY <1>15, SameBodies DEF CallFails, SourcesKept
<1>16. ASSUME NEW t \in Threads, NEW c \in Coros, Clear(t, c) PROVE BodyInv'
  <2>1. SourcesKept
    BY <1>0, <1>16 DEF Clear, SourcesKept, CoroutineContextBase, Cleared
  <2> QED
    BY <1>16, <2>1, MoveBodies DEF Clear, At, Phases
<1>17. ASSUME NEW t \in Threads, NEW c \in Coros, NotFinished(t, c) PROVE BodyInv'
  <2>1. SourcesKept
    BY <1>0, <1>17 DEF NotFinished, SourcesKept, CoroutineContextBase, Released
  <2> QED
    BY <1>17, <2>1, PopBodies DEF NotFinished, At
<1>18. ASSUME NEW t \in Threads, NEW c \in Coros, LastCallEmpty(t, c) PROVE BodyInv'
  <2>1. SourcesKept
    BY <1>0, <1>18 DEF LastCallEmpty, SourcesKept, CoroutineContextBase
  <2> QED
    BY <1>18, <2>1, MoveBodies DEF LastCallEmpty, At, Phases
<1>19. ASSUME NEW t \in Threads, NEW c \in Coros, Release(t, c) PROVE BodyInv'
  <2>1. SourcesKept
    BY <1>0, <1>19 DEF Release, SourcesKept, CoroutineContextBase, Released
  <2> QED
    BY <1>19, <2>1, PopBodies DEF Release, At
<1>20. ASSUME NEW t \in Threads, NEW c \in Coros, NEW p \in Coros, LastCallAwaiter(t, c, p) PROVE BodyInv'
  <2>1. Moved(t, c, "release") \in Seq(Frames) /\ Shifted(t, Moved(t, c, "release"), 0)
    BY <1>0, <1>20, MoveShifts DEF LastCallAwaiter, At, Phases
  <2> QED
    BY <1>0, <1>20, <2>1, ResumeBodies DEF LastCallAwaiter, SourcesKept
<1>21. ASSUME NEW t \in Threads, NEW c \in Coros, NEW w \in Threads, LastCallEvent(t, c, w) PROVE BodyInv'
  <2>1. SourcesKept
    BY <1>0, <1>21 DEF LastCallEvent, SourcesKept, CoroutineContextBase
  <2> QED
    BY <1>21, <2>1, MoveBodies DEF LastCallEvent, At, Phases
<1>22. ASSUME NEW t \in Threads, NEW c \in Coros, OwnerReturns(t, c) PROVE BodyInv'
  <2>1. SourcesKept
    BY <1>0, <1>22 DEF OwnerReturns, SourcesKept, CoroutineContextBase, Released
  <2> QED
    BY <1>22, <2>1, PopBodies DEF OwnerReturns, At
<1>23. ASSUME NEW t \in Threads, NEW c \in Coros, SyncWaitReturns(t, c) PROVE BodyInv'
  <2>1. SourcesKept
    BY <1>0, <1>23 DEF SyncWaitReturns, SourcesKept, CoroutineContextBase, Released
  <2> QED
    BY <1>23, <2>1, PopBodies DEF SyncWaitReturns, At
<1>24. ASSUME NEW t \in Threads, NEW c \in Coros, NEW e \in Executors, RunOn(t, c, e) PROVE BodyInv'
  <2>1. \A b \in Coros : b # c => coro'[b].source = coro[b].source
    BY <1>0, <1>24 DEF RunOn, Yielded, CoroutineContextBase
  <2> QED
    BY <1>24, <2>1, LeaveBody DEF RunOn, InBody, Switch
<1>25. ASSUME NEW t \in Threads, NEW c \in Coros, NEW d \in Coros, Await(t, c, d) PROVE BodyInv'
  <2>1. \A b \in Coros : b # c => coro'[b].source = coro[b].source
    BY <1>0, <1>25 DEF Await, Yielded, CoroutineContextBase
  <2> QED
    BY <1>25, <2>1, LeaveBody DEF Await, InBody, Switch
<1>26. ASSUME NEW t \in Threads, NEW c \in Coros, AwaitTask(t, c) PROVE BodyInv'
  <2>1. \A b \in Coros : b # c => coro'[b].source = coro[b].source
    BY <1>0, <1>26 DEF AwaitTask, Yielded, CoroutineContextBase
  <2> QED
    BY <1>26, <2>1, LeaveBody DEF AwaitTask, InBody, Switch
<1>27. ASSUME NEW t \in Threads, NEW c \in Coros, YieldFails(t, c) PROVE BodyInv'
  BY <1>27, SameBodies DEF YieldFails, SourcesKept
<1>28. ASSUME NEW t \in Threads, NEW c \in Coros, NEW d \in Coros, Call(t, c, d) PROVE BodyInv'
  <2>1. stack[t] \in Seq(Frames) /\ Shifted(t, stack[t], 0)
    BY <1>0 DEF StackType, Shifted
  <2>2. /\ <<Frame(d, "owner")>> \o stack[t] \in Seq(Frames)
        /\ Shifted(t, <<Frame(d, "owner")>> \o stack[t], 0 - 1)
    BY <1>0, <2>1, PushShifts DEF Phases
  <2>3. 0 - 1 \in Int
    OBVIOUS
  <2> QED
    BY <1>0, <1>28, <2>2, <2>3, StartBodies DEF Call
<1>29. ASSUME NEW t \in Threads, NEW c \in Coros, Finish(t, c) PROVE BodyInv'
  <2>1. \A b \in Coros : b # c => coro'[b].source = coro[b].source
    BY <1>0, <1>29 DEF Finish, Yielded, CoroutineContextBase
  <2> QED
    BY <1>29, <2>1, LeaveBody DEF Finish, InBody, Switch
<1>30. ASSUME NEW t \in Threads, NEW c \in Coros, CallThrows(t, c) PROVE BodyInv'
  BY <1>30, UnwindBodies DEF CallThrows, SourcesKept
<1>31. ASSUME NEW t \in Threads, NEW c \in Coros, NEW p \in Coros, LastCallThrows(t, c, p)
       PROVE  BodyInv'
  BY <1>31, UnwindBodies DEF LastCallThrows, SourcesKept
<1>32. ASSUME NEW e \in Executors, Shutdown(e) PROVE BodyInv'
  BY <1>32, SameBodies DEF Shutdown, SourcesKept
<1>33. ASSUME NEW t \in Threads, NEW c \in Coros, ResumePlain(t, c) PROVE BodyInv'
  <2> DEFINE z == <<Frame(c, "jump"), Frame(c, "owner")>>
  <2>1. z \in Seq(Frames) /\ Shifted(t, z, 0)
    BY <1>33 DEF ResumePlain, Shifted, Frame, Frames, Phases
  <2>2. SetStack(t, z) /\ SourcesKept
    BY <1>33 DEF ResumePlain, SourcesKept
  <2> HIDE DEF z
  <2> QED
    BY <1>0, <2>1, <2>2, KeepBodies DEF SourcesKept
<1>34. ASSUME NEW t \in Threads, NEW c \in Coros, NEW d \in Coros, CallResume(t, c, d)
       PROVE  BodyInv'
  <2> DEFINE z == <<Frame(d, "jump"), Frame(d, "owner")>> \o stack[t]
  <2>1. z \in Seq(Frames) /\ Shifted(t, z, (0 - 1) - 1)
    BY <1>0, PushedTwice DEF Phases
  <2>2. SetStack(t, z) /\ SourcesKept
    BY <1>34 DEF CallResume, SourcesKept
  <2> HIDE DEF z
  <2>3. (0 - 1) - 1 \in Int
    OBVIOUS
  <2> QED
    BY <1>0, <2>1, <2>2, <2>3, KeepBodies DEF SourcesKept
<1>35. ASSUME NEW t \in Threads, NEW c \in Coros, Yield(t, c) PROVE BodyInv'
  <2>1. \A b \in Coros : b # c => coro'[b].source = coro[b].source
    BY <1>0, <1>35 DEF Yield, Yielded, CoroutineContextBase
  <2> QED
    BY <1>35, <2>1, LeaveBody DEF Yield, InBody, Switch
<1>36. ASSUME NEW t \in Threads, NEW u \in Threads, NEW c \in Coros, EnterTwice(t, u, c)
       PROVE  FALSE
  BY <1>36 DEF EnterTwice, Fail, NotTwice
<1>37. CASE UNCHANGED vars
  BY <1>37, SameBodies DEF vars, SourcesKept
<1> QED
  BY <1>1, <1>2, <1>3, <1>4, <1>5, <1>6, <1>7, <1>8, <1>9, <1>10, <1>11, <1>12, <1>13, <1>14, <1>15, <1>16, <1>17, <1>18, <1>19, <1>20, <1>21, <1>22, <1>23, <1>24, <1>25, <1>26, <1>27, <1>28, <1>29, <1>30,
     <1>31, <1>32, <1>33, <1>34, <1>35, <1>36, <1>37
     DEF Next, ClientStep, ThreadStep, Resume, Body, TakeWork

\* After two resume() have switched into one body nothing more is claimed.
LEMMA OnceEntered ==
  ASSUME fault = "entered twice", [Next]_vars
  PROVE  fault' = "entered twice"
BY NoneAssumption DEF Next, ClientStep, ThreadStep, vars, Faults

\* For every client program, and for any number of threads, the body of a
\* coroutine runs twice at a time only if two resume() take its handle in the
\* same moment: restarting, resuming, destroying or awaiting it at any other
\* moment does not make it so (resume, startAndOp).
THEOREM BodiesAreExclusive == Spec => []BodyExclusive
<1> DEFINE Inv == fault # "entered twice" => BodyInv
<1>1. Init => Inv
  <2>1. Init => BodyInv
    BY DEF Init, BodyInv, BodyAt
  <2> QED
    BY <2>1
<1>2. TypeOK /\ Inv /\ [Next]_vars => Inv'
  BY BodyStep, OnceEntered DEF NotTwice
<1>3. TypeOK /\ Inv => BodyExclusive
  BY BodyInvImplies DEF BodyExclusive
<1> QED
  BY <1>1, <1>2, <1>3, TypeCorrect, PTL DEF Spec

-----------------------------------------------------------------------------
(***************************************************************************)
(* A body that runs is the one thisCoro() names, for every client that     *)
(* starts no coroutine directly inside the body of another: the condition  *)
(* is needed, as a nested start leaves thisCoro() empty.  Then no body is  *)
(* below another frame, so that nobody else sets thisCoro() while it runs. *)
(***************************************************************************)
\* The body that runs on thread t, if any, is on top and is thisCoro().
ThisInv ==
  \A t \in Threads, i \in Nat, c \in Coros : BodyAt(t, i, c) => i = 1 /\ thisCoro[t] = c

NoBody(t) == \A i \in Nat, c \in Coros : ~BodyAt(t, i, c)

\* A frame of c on top that is not its body: no body at all on that thread.
LEMMA TopNoBody ==
  ASSUME StackType, ThisInv, NEW t \in Threads,
         \/ stack[t] = <<>>
         \/ \E c \in Coros, ph \in Phases \ {"body"} : At(t, c, ph)
  PROVE  NoBody(t)
<1> SUFFICES ASSUME NEW i \in Nat, NEW b \in Coros, BodyAt(t, i, b)
             PROVE  FALSE
  BY DEF NoBody
<1>1. i = 1 /\ 1 \in DOMAIN stack[t] /\ stack[t][1] = Frame(b, "body")
  BY DEF ThisInv, BodyAt
<1>2. CASE stack[t] = <<>>
  BY <1>1, <1>2
<1>3. ASSUME NEW c \in Coros, NEW ph \in Phases \ {"body"}, At(t, c, ph)
      PROVE  FALSE
  <2>1. stack[t] \in Seq(Frames) /\ stack[t] # <<>> /\ Head(stack[t]) = Frame(c, ph)
    BY <1>3 DEF StackType, At
  <2>2. stack[t][1] = Frame(c, ph)
    BY <2>1
  <2> QED
    BY <1>1, <2>2 DEF Frame
<1> QED
  BY <1>2, <1>3

\* A thread without a body gets none by a step that enters none.
LEMMA KeepThis ==
  ASSUME StackType, ThisInv, NEW t \in Threads, NoBody(t),
         NEW s \in Seq(Frames), NEW k \in Int, Shifted(t, s, k), SetStack(t, s),
         \A u \in Threads \ {t} : thisCoro'[u] = thisCoro[u]
  PROVE  ThisInv'
<1> SUFFICES ASSUME NEW u \in Threads, NEW i \in Nat, NEW c \in Coros, BodyAt(u, i, c)'
             PROVE  i = 1 /\ thisCoro'[u] = c
  BY DEF ThisInv
<1>1. BodyAt(u, IF u = t THEN i + k ELSE i, c)
  BY ShiftedBodies
<1>2. u # t
  <2> SUFFICES ASSUME u = t
               PROVE  FALSE
    OBVIOUS
  <2>1. BodyAt(t, i + k, c) /\ stack[t] \in Seq(Frames)
    BY <1>1 DEF StackType
  <2>2. i + k \in Nat
    BY <2>1 DEF BodyAt
  <2> QED
    BY <2>1, <2>2 DEF NoBody
<1> QED
  BY <1>1, <1>2 DEF ThisInv

LEMMA SameThis ==
  ASSUME ThisInv, UNCHANGED <<stack, thisCoro>>
  PROVE  ThisInv'
BY DEF ThisInv, BodyAt

LEMMA UnwindThis ==
  ASSUME TypeOK, ThisInv, NEW t \in Threads, NoBody(t), Unwinds(t), UNCHANGED thisCoro
  PROVE  ThisInv'
<1>1. StackType
  BY DEF TypeOK, StackType
<1>2. CASE UNCHANGED stack
  BY <1>2, SameThis
<1>3. ASSUME ~UNCHANGED stack
      PROVE  ThisInv'
  <2> DEFINE z(n) == SubSeq(stack[t], n, Len(stack[t]))
  <2>1. PICK n \in 1..(Len(stack[t]) + 1) : SetStack(t, z(n))
    BY <1>3 DEF Unwinds
  <2>2. n - 1 \in Int /\ z(n) \in Seq(Frames) /\ Shifted(t, z(n), n - 1)
    BY <1>1, UnwoundShifts
  <2> HIDE DEF z
  <2> QED
    BY <1>1, <2>1, <2>2, KeepThis
<1> QED
  BY <1>2, <1>3

LEMMA StartThis ==
  ASSUME TypeOK, ThisInv, NEW t \in Threads, NoBody(t), NEW c \in Coros, NEW objs,
         NEW rest \in Seq(Frames), NEW k \in Int, Shifted(t, rest, k),
         StartAndOp(t, c, objs, rest), UNCHANGED thisCoro
  PROVE  ThisInv'
<1>1. StackType
  BY DEF TypeOK, StackType
<1> DEFINE z == <<Frame(c, "jump")>> \o rest
<1>2. z \in Seq(Frames) /\ Shifted(t, z, k - 1) /\ k - 1 \in Int
  BY PushShifts DEF Phases
<1>3. SetStack(t, z) \/ Unwinds(t)
  BY DEF StartAndOp
<1> HIDE DEF z
<1> QED
  BY <1>1, <1>2, <1>3, KeepThis, UnwindThis

LEMMA ResumeThis ==
  ASSUME TypeOK, ThisInv, NEW t \in Threads, NoBody(t), NEW p \in Coros,
         NEW rest \in Seq(Frames), NEW k \in Int, Shifted(t, rest, k),
         ResumeAwaiter(t, p, rest), UNCHANGED thisCoro
  PROVE  ThisInv'
<1>1. StackType
  BY DEF TypeOK, StackType
<1> DEFINE z == <<Frame(p, "jump")>> \o rest
<1>2. z \in Seq(Frames) /\ Shifted(t, z, k - 1) /\ k - 1 \in Int
  BY PushShifts DEF Phases
<1>3. SetStack(t, z) \/ SetStack(t, rest)
  BY DEF ResumeAwaiter
<1> HIDE DEF z
<1> QED
  BY <1>1, <1>2, <1>3, KeepThis

LEMMA MoveThis ==
  ASSUME TypeOK, ThisInv, NEW t \in Threads, NEW c \in Coros,
         NEW old \in Phases \ {"body"}, At(t, c, old),
         \/ \E ph \in Phases \ {"body"} : SetStack(t, Moved(t, c, ph))
         \/ SetStack(t, Tail(stack[t])),
         UNCHANGED thisCoro
  PROVE  ThisInv'
<1>1. StackType /\ stack[t] # <<>>
  BY DEF TypeOK, StackType, At
<1>2. NoBody(t)
  BY <1>1, TopNoBody
<1>3. ASSUME NEW ph \in Phases \ {"body"}, SetStack(t, Moved(t, c, ph))
      PROVE  ThisInv'
  BY <1>1, <1>2, <1>3, MoveShifts, KeepThis
<1>4. CASE SetStack(t, Tail(stack[t]))
  <2>1. Tail(stack[t]) \in Seq(Frames) /\ Shifted(t, Tail(stack[t]), 1) /\ 1 \in Int
    BY <1>1, PopShifts
  <2>2. \A u \in Threads \ {t} : thisCoro'[u] = thisCoro[u]
    OBVIOUS
  <2> QED
    BY <1>1, <1>2, <1>4, <2>1, <2>2, KeepThis
<1> QED
  BY <1>3, <1>4

\* The body of c, which was on top, has left the thread.
LEMMA LeaveThis ==
  ASSUME TypeOK, ThisInv, NEW t \in Threads, NEW c \in Coros, At(t, c, "body"),
         SetStack(t, Moved(t, c, "check")),
         \A u \in Threads \ {t} : thisCoro'[u] = thisCoro[u]
  PROVE  ThisInv'
<1>1. StackType /\ stack[t] # <<>>
  BY DEF TypeOK, StackType, At
<1>2. Moved(t, c, "check") \in Seq(Frames) /\ Shifted(t, Moved(t, c, "check"), 0)
  BY <1>1, MoveShifts DEF Phases
<1> SUFFICES ASSUME NEW u \in Threads, NEW i \in Nat, NEW b \in Coros, BodyAt(u, i, b)'
             PROVE  i = 1 /\ thisCoro'[u] = b
  BY DEF ThisInv
<1>3. BodyAt(u, IF u = t THEN i + 0 ELSE i, b)
  BY <1>1, <1>2, ShiftedBodies
<1>4. BodyAt(u, i, b)
  BY <1>3
<1>5. i = 1 /\ thisCoro[u] = b
  BY <1>4 DEF ThisInv
<1>6. u # t
  <2> SUFFICES ASSUME u = t
               PROVE  FALSE
    OBVIOUS
  <2>1. stack'[t][1] = Frame(c, "check")
    BY <1>1 DEF SetStack, Moved, StackType
  <2> QED
    BY <1>5, <2>1 DEF BodyAt, Frame
<1> QED
  BY <1>5, <1>6

LEMMA EnterThis ==
  ASSUME TypeOK, ThisInv, NEW t \in Threads, NEW c \in Coros, Enter(t, c)
  PROVE  ThisInv'
<1>1. StackType /\ stack[t] # <<>> /\ stack[t] \in Seq(Frames) /\ At(t, c, "jump")
  BY DEF Enter, At, TypeOK, StackType
<1>2. NoBody(t)
  BY <1>1, TopNoBody DEF Phases
<1>3. stack' = [stack EXCEPT ![t] = Moved(t, c, "body")] /\ thisCoro' = [thisCoro EXCEPT ![t] = c]
  BY DEF Enter, SetStack, SetThisCoro
<1> SUFFICES ASSUME NEW u \in Threads, NEW i \in Nat, NEW b \in Coros, BodyAt(u, i, b)'
             PROVE  i = 1 /\ thisCoro'[u] = b
  BY DEF ThisInv
<1>4. CASE u # t
  <2>1. BodyAt(u, i, b) /\ thisCoro'[u] = thisCoro[u]
    BY <1>1, <1>3, <1>4 DEF BodyAt, StackType, TypeOK
  <2> QED
    BY <2>1 DEF ThisInv
<1>5. CASE u = t /\ i = 1
  <2>1. stack'[t][1] = Frame(c, "body") /\ thisCoro'[t] = c
    BY <1>1, <1>3 DEF Moved, StackType, TypeOK
  <2> QED
    BY <1>5, <2>1 DEF BodyAt, Frame
<1>6. CASE u = t /\ i # 1
  <2>1. BodyAt(t, i, b)
    BY <1>1, <1>3, <1>6 DEF BodyAt, Moved, StackType
  <2> QED
    BY <1>2, <2>1 DEF NoBody
<1> QED
  BY <1>4, <1>5, <1>6

\* Two threads enter the body of c: each finds c in its own thisCoro().
LEMMA EnterTwiceThis ==
  ASSUME TypeOK, ThisInv, NEW t \in Threads, NEW w \in Threads, NEW c \in Coros,
         EnterTwice(t, w, c)
  PROVE  ThisInv'
<1>1. /\ t # w /\ At(t, c, "jump") /\ At(w, c, "jump") /\ StackType
      /\ thisCoro' = [thisCoro EXCEPT ![t] = c, ![w] = c]
      /\ stack' = [stack EXCEPT ![t] = Moved(t, c, "body"), ![w] = Moved(w, c, "body")]
  BY DEF EnterTwice, TypeOK, StackType
<1>2. NoBody(t) /\ NoBody(w)
  BY <1>1, TopNoBody DEF Phases
<1> SUFFICES ASSUME NEW u \in Threads, NEW i \in Nat, NEW b \in Coros, BodyAt(u, i, b)'
             PROVE  i = 1 /\ thisCoro'[u] = b
  BY DEF ThisInv
<1>3. CASE u # t /\ u # w
  <2>1. BodyAt(u, i, b) /\ thisCoro'[u] = thisCoro[u]
    BY <1>1, <1>3 DEF BodyAt, StackType, TypeOK
  <2> QED
    BY <2>1 DEF ThisInv
<1>4. ASSUME u = t \/ u = w
      PROVE  i = 1 /\ thisCoro'[u] = b
  <2>1. /\ stack[u] \in Seq(Frames) /\ stack[u] # <<>> /\ NoBody(u)
        /\ stack'[u] = <<Frame(c, "body")>> \o Tail(stack[u]) /\ thisCoro'[u] = c
    BY <1>1, <1>2, <1>4 DEF Moved, StackType, TypeOK, At
  <2>2. CASE i = 1
    <3>1. stack'[u][1] = Frame(c, "body")
      BY <2>1
    <3> QED
      BY <2>1, <2>2, <3>1 DEF BodyAt, Frame
  <2>3. CASE i # 1
    <3>1. BodyAt(u, i, b)
      BY <2>1, <2>3 DEF BodyAt
    <3> QED
      BY <2>1, <3>1 DEF NoBody
  <2> QED
    BY <2>2, <2>3
<1> QED
  BY <1>3, <1>4

-----------------------------------------------------------------------------
\* Calls from outside, and the tasks of executors: the thread was idle.
LEMMA OutsideThis ==
  ASSUME TypeOK, ThisInv, NEW c \in Coros,
         \/ \E t \in Threads : \/ StartPlain(t, c) \/ ResumePlain(t, c) \/ SyncWait(t, c)
                               \/ Destory(t, c) \/ TakeWork(t, c)
         \/ DropHandle(c)
         \/ \E e \in Executors : PostCoroTask(c, e)
  PROVE  ThisInv'
<1>0. StackType /\ 0 \in Int
  BY DEF TypeOK, StackType
<1>1. ASSUME NEW t \in Threads, NEW ph \in {"owner", "wait"}, stack[t] = <<>>, NEW objs,
             StartAndOp(t, c, objs, <<Frame(c, ph)>>), UNCHANGED thisCoro
      PROVE  ThisInv'
  <2>1. <<Frame(c, ph)>> \in Seq(Frames) /\ Shifted(t, <<Frame(c, ph)>>, 0)
    BY <1>1, OneFrame DEF Phases
  <2> QED
    BY <1>0, <1>1, <2>1, TopNoBody, StartThis
<1>2. ASSUME NEW t \in Threads, StartPlain(t, c) PROVE ThisInv'
  BY <1>1, <1>2 DEF StartPlain
<1>3. ASSUME NEW t \in Threads, SyncWait(t, c) PROVE ThisInv'
  BY <1>1, <1>3 DEF SyncWait
<1>4. ASSUME NEW t \in Threads, Destory(t, c) PROVE ThisInv'
  <2> DEFINE z == <<Frame(c, "fin"), Frame(c, "owner")>>
  <2>1. z \in Seq(Frames) /\ Shifted(t, z, 0)
    BY <1>4 DEF Destory, Shifted, Frame, Frames, Phases
  <2>2. SetStack(t, z) /\ stack[t] = <<>> /\ UNCHANGED thisCoro
    BY <1>4 DEF Destory
  <2> HIDE DEF z
  <2> QED
    BY <1>0, <2>1, <2>2, TopNoBody, KeepThis
<1>5. ASSUME NEW t \in Threads, NEW e \in Executors, RunStart(t, e, c) PROVE ThisInv'
  BY <1>1, <1>5 DEF RunStart
<1>6. ASSUME NEW t \in Threads, NEW e \in Executors, RunResume(t, e, c) PROVE ThisInv'
  <2>1. <<Frame(c, "jump")>> \in Seq(Frames) /\ Shifted(t, <<Frame(c, "jump")>>, 0)
    BY <1>6, OneFrame DEF RunResume, Phases
  <2> QED
    BY <1>0, <1>6, <2>1, TopNoBody, KeepThis DEF RunResume
<1>7. ASSUME NEW t \in Threads, CompleteTask(t, c) PROVE ThisInv'
  <2>1. <<>> \in Seq(Frames) /\ Shifted(t, <<>>, 0)
    BY <1>7, EmptyStack DEF CompleteTask
  <2> QED
    BY <1>0, <1>7, <2>1, TopNoBody, ResumeThis, SameThis DEF CompleteTask
<1>8. CASE DropHandle(c) \/ \E e \in Executors : PostCoroTask(c, e)
  BY <1>8, SameThis DEF DropHandle, PostCoroTask
<1>9. ASSUME NEW t \in Threads, ResumePlain(t, c) PROVE ThisInv'
  <2> DEFINE z == <<Frame(c, "jump"), Frame(c, "owner")>>
  <2>1. z \in Seq(Frames) /\ Shifted(t, z, 0)
    BY <1>9 DEF ResumePlain, Shifted, Frame, Frames, Phases
  <2>2. SetStack(t, z) /\ stack[t] = <<>> /\ UNCHANGED thisCoro
    BY <1>9 DEF ResumePlain
  <2> HIDE DEF z
  <2> QED
    BY <1>0, <2>1, <2>2, TopNoBody, KeepThis
<1> QED
  BY <1>2, <1>3, <1>4, <1>5, <1>6, <1>7, <1>8, <1>9 DEF TakeWork

\* The steps of resume() and of what it calls: the top frame is not a body.
LEMMA ResumeStepThis ==
  ASSUME TypeOK, ThisInv, NEW t \in Threads, NEW c \in Coros, Resume(t, c)
  PROVE  ThisInv'
<1>0. StackType
  BY DEF TypeOK, StackType
<1> USE DEF Phases
<1>1. ASSUME Enter(t, c) PROVE ThisInv'
  BY <1>1, EnterThis
<1>2. ASSUME EnterFails(t, c) PROVE ThisInv'
  <2>1. At(t, c, "jump") /\ UNCHANGED stack /\ SetThisCoro(t, c)
    BY <1>2 DEF EnterFails
  <2>2. NoBody(t)
    BY <1>0, <2>1, TopNoBody
  <2>3. \A u \in Threads \ {t} : thisCoro'[u] = thisCoro[u]
    BY <2>1 DEF SetThisCoro, TypeOK
  <2> QED
    BY <2>1, <2>2, <2>3 DEF ThisInv, NoBody, BodyAt
<1>3. ASSUME Check(t, c) PROVE ThisInv'
  <2>1. AfterSwitch(c) \in Phases \ {"body"}
    BY DEF AfterSwitch
  <2> QED
    BY <1>3, <2>1, MoveThis DEF Check
<1>4. ASSUME CallPost(t, c) \/ CallThen(t, c) PROVE ThisInv'
  BY <1>4, MoveThis DEF CallPost, CallThen
<1>5. ASSUME CallFails(t, c) PROVE ThisInv'
  BY <1>5, SameThis DEF CallFails
<1>6. ASSUME CallThrows(t, c) PROVE ThisInv'
  BY <1>0, <1>6, UnwindThis, TopNoBody DEF CallThrows
<1>7. ASSUME NEW d \in Coros, CallStart(t, c, d) PROVE ThisInv'
  <2>1. At(t, c, "call") /\ StartAndOp(t, d, coro, Moved(t, c, "clear")) /\ UNCHANGED thisCoro
    BY <1>7 DEF CallStart
  <2>2. /\ Moved(t, c, "clear") \in Seq(Frames) /\ Shifted(t, Moved(t, c, "clear"), 0)
        /\ 0 \in Int
    BY <1>0, <2>1, MoveShifts DEF At
  <2>3. NoBody(t)
    BY <1>0, <2>1, TopNoBody
  <2> QED
    BY <2>1, <2>2, <2>3, StartThis
<1>8. ASSUME \/ Clear(t, c) \/ NotFinished(t, c) \/ LastCallEmpty(t, c) \/ Release(t, c)
             \/ OwnerReturns(t, c) \/ SyncWaitReturns(t, c)
      PROVE  ThisInv'
  BY <1>8, MoveThis
     DEF Clear, NotFinished, LastCallEmpty, Release, OwnerReturns, SyncWaitReturns
<1>9. ASSUME NEW p \in Coros, LastCallAwaiter(t, c, p) PROVE ThisInv'
  <2>1. /\ At(t, c, "fin") /\ ResumeAwaiter(t, p, Moved(t, c, "release"))
        /\ UNCHANGED thisCoro
    BY <1>9 DEF LastCallAwaiter
  <2>2. /\ Moved(t, c, "release") \in Seq(Frames) /\ Shifted(t, Moved(t, c, "release"), 0)
        /\ 0 \in Int
    BY <1>0, <2>1, MoveShifts DEF At
  <2>3. NoBody(t)
    BY <1>0, <2>1, TopNoBody
  <2> QED
    BY <2>1, <2>2, <2>3, ResumeThis
<1>10. ASSUME NEW p \in Coros, LastCallThrows(t, c, p) PROVE ThisInv'
  BY <1>0, <1>10, UnwindThis, TopNoBody DEF LastCallThrows
<1>11. ASSUME NEW w \in Threads, LastCallEvent(t, c, w) PROVE ThisInv'
  BY <1>11, MoveThis DEF LastCallEvent
<1>12. ASSUME NEW w \in Threads, EnterTwice(t, w, c) PROVE ThisInv'
  BY <1>12, EnterTwiceThis
<1> QED
  BY <1>1, <1>2, <1>3, <1>4, <1>5, <1>6, <1>7, <1>8, <1>9, <1>10, <1>11, <1>12 DEF Resume

\* A body that runs is on top, so that thisCoro() names it.
LEMMA TopIsThis ==
  ASSUME TypeOK, ThisInv, NEW t \in Threads, NEW c \in Coros, At(t, c, "body")
  PROVE  thisCoro[t] = c
<1>1. stack[t] \in Seq(Frames) /\ stack[t] # <<>> /\ Head(stack[t]) = Frame(c, "body")
  BY DEF TypeOK, At
<1>2. BodyAt(t, 1, c)
  BY <1>1 DEF BodyAt
<1> QED
  BY <1>2 DEF ThisInv

\* The steps of a body: it leaves, as no body starts a coroutine directly.
LEMMA BodyStepThis ==
  ASSUME Calls = {}, TypeOK, ThisInv, NEW t \in Threads, NEW c \in Coros, Body(t, c)
  PROVE  ThisInv' /\ ~YieldFails(t, c)
<1>1. ~YieldFails(t, c)
  BY TopIsThis DEF YieldFails, InBody
<1>2. ASSUME NEW d, Switch(t, c, d), At(t, c, "body") PROVE ThisInv'
  <2>1. \A u \in Threads \ {t} : thisCoro'[u] = thisCoro[u]
    BY <1>2 DEF Switch, TypeOK
  <2> QED
    BY <1>2, <2>1, LeaveThis DEF Switch
<1>3. ASSUME NEW e \in Executors, RunOn(t, c, e) PROVE ThisInv'
  BY <1>2, <1>3 DEF RunOn, InBody
<1>4. ASSUME NEW d \in Coros, Await(t, c, d) PROVE ThisInv'
  BY <1>2, <1>4 DEF Await, InBody
<1>5. ASSUME AwaitTask(t, c) PROVE ThisInv'
  BY <1>2, <1>5 DEF AwaitTask, InBody
<1>6. ASSUME Finish(t, c) PROVE ThisInv'
  BY <1>6, LeaveThis DEF Finish
<1>7. ASSUME NEW d \in Coros PROVE ~Call(t, c, d) /\ ~CallResume(t, c, d)
  BY DEF Call, CallResume
<1>8. ASSUME Yield(t, c) PROVE ThisInv'
  BY <1>2, <1>8 DEF Yield, InBody
<1> QED
  BY <1>1, <1>3, <1>4, <1>5, <1>6, <1>7, <1>8 DEF Body

LEMMA ThisStep == Calls = {} /\ TypeOK /\ ThisInv /\ [Next]_vars => ThisInv'
<1> SUFFICES ASSUME Calls = {}, TypeOK, ThisInv, [Next]_vars
             PROVE  ThisInv'
  OBVIOUS
<1>1. ASSUME NEW t \in Threads, ThreadStep(t) PROVE ThisInv'
  BY <1>1, ResumeStepThis, BodyStepThis, OutsideThis DEF ThreadStep
<1>2. CASE ClientStep
  BY <1>2, OutsideThis DEF ClientStep
<1>3. ASSUME NEW e \in Executors, Shutdown(e) PROVE ThisInv'
  BY <1>3, SameThis DEF Shutdown
<1>4. CASE UNCHANGED vars
  BY <1>4, SameThis DEF vars
<1> QED
  BY <1>1, <1>2, <1>3, <1>4 DEF Next

LEMMA ThisInvHolds ==
  ASSUME Calls = {}
  PROVE  Spec => []ThisInv
<1>1. Init => ThisInv
  BY DEF Init, ThisInv, BodyAt
<1>2. TypeOK /\ ThisInv /\ [Next]_vars => ThisInv'
  BY ThisStep
<1> QED
  BY <1>1, <1>2, TypeCorrect, PTL DEF Spec

\* When no body starts a coroutine directly, the operations that a running
\* body calls act on the coroutine it belongs to, on whatever threads it has
\* run before and however it was resumed (resume, yield, thisCoro()).
THEOREM ThisCoroIsKept ==
  ASSUME Calls = {}
  PROVE  Spec => []ThisCoroIsRunning
<1>1. TypeOK /\ ThisInv => ThisCoroIsRunning
  BY TopIsThis DEF ThisCoroIsRunning
<1> QED
  BY <1>1, ThisInvHolds, TypeCorrect, PTL

\* What ends the process, if a step does, is not a missing coroutine.
FoundKept == fault' \in {fault, "null context", "context in use", "entered twice",
                         "empty function", "uncaught exception"}

LEMMA UnwindFound ==
  ASSUME NEW t, Unwinds(t)
  PROVE  FoundKept
BY DEF Unwinds, Fail, FoundKept

LEMMA ResumeStepFound ==
  ASSUME NEW t \in Threads, NEW c \in Coros, Resume(t, c)
  PROVE  FoundKept
<1>1. ASSUME \/ Enter(t, c) \/ EnterFails(t, c) \/ \E u \in Threads : EnterTwice(t, u, c)
             \/ Check(t, c) \/ CallPost(t, c) \/ CallThen(t, c) \/ CallFails(t, c)
      PROVE  FoundKept
  BY <1>1 DEF Enter, EnterFails, EnterTwice, Check, CallPost, CallThen, CallFails, Fail, FoundKept
<1>2. ASSUME \/ Clear(t, c) \/ NotFinished(t, c) \/ LastCallEmpty(t, c) \/ Release(t, c)
             \/ OwnerReturns(t, c) \/ SyncWaitReturns(t, c)
      PROVE  FoundKept
  BY <1>2 DEF Clear, NotFinished, LastCallEmpty, Release, OwnerReturns, SyncWaitReturns,
              FoundKept
<1>3. ASSUME CallThrows(t, c) \/ \E p \in Coros : LastCallThrows(t, c, p)
      PROVE  FoundKept
  <2>1. Unwinds(t)
    BY <1>3 DEF CallThrows, LastCallThrows
  <2> QED
    BY <2>1, UnwindFound
<1>4. ASSUME \/ \E d \in Coros : CallStart(t, c, d)
             \/ \E p \in Coros : LastCallAwaiter(t, c, p)
             \/ \E w \in Threads : LastCallEvent(t, c, w)
      PROVE  FoundKept
  BY <1>4, UnwindFound DEF CallStart, StartAndOp, LastCallAwaiter, LastCallEvent, FoundKept
<1> QED
  BY <1>1, <1>2, <1>3, <1>4 DEF Resume

LEMMA FoundStep ==
  ASSUME Calls = {}, TypeOK, ThisInv, CoroutineFound, [Next]_vars
  PROVE  CoroutineFound'
<1>1. ASSUME NEW t \in Threads, NEW c \in Coros, Body(t, c) PROVE FoundKept
  <2>1. ~YieldFails(t, c)
    BY <1>1, BodyStepThis
  <2> QED
    BY <1>1, <2>1 DEF Body, RunOn, Await, AwaitTask, Yield, Finish, Call, CallResume, FoundKept
<1>2. ASSUME NEW t \in Threads, NEW c \in Coros, TakeWork(t, c) PROVE FoundKept
  BY <1>2, UnwindFound DEF TakeWork, RunStart, RunResume, CompleteTask, StartAndOp, FoundKept
<1>3. ASSUME ClientStep PROVE FoundKept
  BY <1>3, UnwindFound
     DEF ClientStep, PostCoroTask, StartPlain, ResumePlain, SyncWait, Destory, DropHandle,
         StartAndOp, FoundKept
<1>4. ASSUME NEW e \in Executors, Shutdown(e) PROVE FoundKept
  BY <1>4 DEF Shutdown, FoundKept
<1>5. CASE UNCHANGED vars
  BY <1>5 DEF vars, CoroutineFound
<1>6. CASE FoundKept
  BY <1>6 DEF FoundKept, CoroutineFound
<1> QED
  BY <1>1, <1>2, <1>3, <1>4, <1>5, <1>6, ResumeStepFound DEF Next, ThreadStep

\* Under the same condition no operation of a body ends in the exception
\* "currentCoro is null", or in the null pointer that runOn would follow.
THEOREM CoroutineAlwaysFound ==
  ASSUME Calls = {}
  PROVE  Spec => []CoroutineFound
<1>1. Init => CoroutineFound
  BY NoneAssumption DEF Init, CoroutineFound, Faults
<1>2. TypeOK /\ ThisInv /\ CoroutineFound /\ [Next]_vars => CoroutineFound'
  BY FoundStep
<1> QED
  BY <1>1, <1>2, ThisInvHolds, TypeCorrect, PTL DEF Spec

-----------------------------------------------------------------------------
(***************************************************************************)
(* A completed sync_wait has a finished coroutine, for every client in     *)
(* which each thread uses sync_wait with one coroutine: whatever else runs *)
(* the coroutine, the event of a thread is only set by the callback of the *)
(* coroutine it waits for, and _finished is never reset.                   *)
(***************************************************************************)
OneSync == \A t \in Threads, c, d \in Coros : <<t, c>> \in SyncWaits /\ <<t, d>> \in SyncWaits => c = d

WaitsOnly(t, s) ==
  /\ s \in Seq(Frames)
  /\ \A i \in DOMAIN s : s[i].at = "wait" => <<t, s[i].co>> \in SyncWaits

EventsOnly(objs) ==
  \A c \in Coros : objs[c].last_call \in Threads => <<objs[c].last_call, c>> \in SyncWaits

FinishedKept(objs) == \A c \in Coros : coro[c].finished => objs[c].finished

SignalsOnly ==
  \A t \in Threads : signal[t] => \E c \in Coros : <<t, c>> \in SyncWaits /\ coro[c].finished

SyncInv ==
  /\ \A t \in Threads : WaitsOnly(t, stack[t])
  /\ EventsOnly(coro)
  /\ SignalsOnly

LEMMA WaitsPushed ==
  ASSUME NEW t \in Threads, NEW s, WaitsOnly(t, s), NEW c \in Coros,
         NEW ph \in Phases, ph = "wait" => <<t, c>> \in SyncWaits
  PROVE  WaitsOnly(t, <<Frame(c, ph)>> \o s)
<1> DEFINE z == <<Frame(c, ph)>> \o s
<1>1. /\ s \in Seq(Frames) /\ Frame(c, ph) \in Frames
      /\ Frame(c, ph).co = c /\ Frame(c, ph).at = ph
  BY DEF WaitsOnly, Frames, Frame
<1>2. z \in Seq(Frames) /\ z[1] = Frame(c, ph) /\ \A i \in DOMAIN z : i # 1 => i - 1 \in DOMAIN s /\ z[i] = s[i - 1]
  BY <1>1
<1> HIDE DEF z
<1>3. ASSUME NEW i \in DOMAIN z, z[i].at = "wait"
      PROVE  <<t, z[i].co>> \in SyncWaits
  BY <1>1, <1>2, <1>3 DEF WaitsOnly
<1> QED
  BY <1>2, <1>3 DEF WaitsOnly, z

LEMMA WaitsPopped ==
  ASSUME NEW t \in Threads, NEW s, WaitsOnly(t, s), s # <<>>
  PROVE  WaitsOnly(t, Tail(s))
<1>1. s \in Seq(Frames)
  BY DEF WaitsOnly
<1>2. Tail(s) \in Seq(Frames) /\ \A i \in DOMAIN Tail(s) : i + 1 \in DOMAIN s /\ Tail(s)[i] = s[i + 1]
  BY <1>1
<1> QED
  BY <1>2 DEF WaitsOnly

LEMMA WaitsMoved ==
  ASSUME NEW t \in Threads, WaitsOnly(t, stack[t]), stack[t] # <<>>, NEW c \in Coros,
         NEW ph \in Phases, ph = "wait" => <<t, c>> \in SyncWaits
  PROVE  WaitsOnly(t, Moved(t, c, ph))
BY WaitsPushed, WaitsPopped DEF Moved

LEMMA WaitsUnwound ==
  ASSUME NEW t \in Threads, WaitsOnly(t, stack[t]), NEW n \in 1..(Len(stack[t]) + 1)
  PROVE  WaitsOnly(t, SubSeq(stack[t], n, Len(stack[t])))
<1> DEFINE z == SubSeq(stack[t], n, Len(stack[t]))
<1>1. stack[t] \in Seq(Frames)
  BY DEF WaitsOnly
<1>2. n \in Nat /\ Len(stack[t]) \in Nat /\ Len(stack[t]) \in (n - 1)..Len(stack[t])
  BY <1>1
<1>3. /\ z \in Seq(Frames)
      /\ Len(z) = IF n <= Len(stack[t]) THEN Len(stack[t]) - n + 1 ELSE 0
      /\ \A i \in 1..(Len(stack[t]) - n + 1) : z[i] = stack[t][n + i - 1]
  BY <1>1, <1>2, SubSeqProperties
<1> HIDE DEF z
<1>4. ASSUME NEW i \in DOMAIN z, z[i].at = "wait"
      PROVE  <<t, z[i].co>> \in SyncWaits
  <2>1. i \in 1..(Len(stack[t]) - n + 1) /\ n + i - 1 \in DOMAIN stack[t]
    BY <1>1, <1>2, <1>3
  <2>2. z[i] = stack[t][n + i - 1]
    BY <1>3, <2>1
  <2> QED
    BY <1>4, <2>1, <2>2 DEF WaitsOnly
<1> QED
  BY <1>3, <1>4 DEF WaitsOnly, z

LEMMA WaitsSet ==
  ASSUME StackType, \A u \in Threads : WaitsOnly(u, stack[u]), NEW t \in Threads,
         \/ \E s : SetStack(t, s) /\ WaitsOnly(t, s)
         \/ Unwinds(t)
         \/ UNCHANGED stack
  PROVE  \A u \in Threads : WaitsOnly(u, stack[u])'
<1>1. ASSUME NEW s, SetStack(t, s), WaitsOnly(t, s)
      PROVE  \A u \in Threads : WaitsOnly(u, stack'[u])
  BY <1>1 DEF SetStack, StackType
<1>2. CASE UNCHANGED stack
  BY <1>2
<1>3. ASSUME Unwinds(t)
      PROVE  \A u \in Threads : WaitsOnly(u, stack'[u])
  BY <1>1, <1>2, <1>3, WaitsUnwound DEF Unwinds
<1>4. \A u \in Threads : WaitsOnly(u, stack'[u])
  BY <1>1, <1>2, <1>3
<1> QED
  BY <1>4 DEF WaitsOnly

LEMMA WaitsStarted ==
  ASSUME StackType, \A u \in Threads : WaitsOnly(u, stack[u]), NEW t \in Threads,
         NEW c \in Coros, NEW objs, NEW rest, WaitsOnly(t, rest),
         StartAndOp(t, c, objs, rest)
  PROVE  \A u \in Threads : WaitsOnly(u, stack[u])'
<1>1. WaitsOnly(t, <<Frame(c, "jump")>> \o rest)
  BY WaitsPushed DEF Phases
<1> QED
  BY <1>1, WaitsSet DEF StartAndOp

LEMMA WaitsResumed ==
  ASSUME StackType, \A u \in Threads : WaitsOnly(u, stack[u]), NEW t \in Threads,
         NEW p \in Coros, NEW rest, WaitsOnly(t, rest), ResumeAwaiter(t, p, rest)
  PROVE  \A u \in Threads : WaitsOnly(u, stack[u])'
<1>1. WaitsOnly(t, <<Frame(p, "jump")>> \o rest)
  BY WaitsPushed DEF Phases
<1> QED
  BY <1>1, WaitsSet DEF ResumeAwaiter

LEMMA SyncStacks ==
  ASSUME TypeOK, SyncInv, [Next]_vars
  PROVE  \A u \in Threads : WaitsOnly(u, stack[u])'
<1> DEFINE Goal == \A u \in Threads : WaitsOnly(u, stack[u])'
<1>0. StackType /\ \A u \in Threads : WaitsOnly(u, stack[u])
  BY DEF TypeOK, StackType, SyncInv
<1>2. ASSUME NEW t \in Threads, NEW c \in Coros, NEW ph \in Phases,
             ph = "wait" => <<t, c>> \in SyncWaits
      PROVE  WaitsOnly(t, <<>>) /\ WaitsOnly(t, <<Frame(c, ph)>>)
  BY <1>2 DEF WaitsOnly, Frames, Frame
<1>3. ASSUME NEW t \in Threads, NEW c \in Coros, NEW ph \in Phases \ {"wait"}, NEW s,
             WaitsOnly(t, s)
      PROVE  WaitsOnly(t, <<Frame(c, ph), Frame(c, "owner")>> \o s)
  <2>1. WaitsOnly(t, <<Frame(c, "owner")>> \o s)
    BY <1>3, WaitsPushed DEF Phases
  <2>2. WaitsOnly(t, <<Frame(c, ph)>> \o (<<Frame(c, "owner")>> \o s))
    BY <1>3, <2>1, WaitsPushed
  <2>3. s \in Seq(Frames) /\ Frame(c, ph) \in Frames /\ Frame(c, "owner") \in Frames
    BY <1>3 DEF WaitsOnly, Frames, Frame, Phases
  <2>4. <<Frame(c, ph)>> \o (<<Frame(c, "owner")>> \o s) = <<Frame(c, ph), Frame(c, "owner")>> \o s
    BY <2>3
  <2> QED
    BY <2>2, <2>4
<1>4. ASSUME NEW t \in Threads, NEW c \in Coros, NEW ph \in Phases \ {"wait"}
      PROVE  WaitsOnly(t, <<Frame(c, ph), Frame(c, "owner")>>)
  BY <1>4 DEF WaitsOnly, Frames, Frame, Phases
<1>5. ASSUME NEW t \in Threads, NEW c \in Coros,
             \/ StartPlain(t, c) \/ SyncWait(t, c)
             \/ \E e \in Executors : RunStart(t, e, c)
      PROVE  Goal
  <2>1. PICK ph \in {"owner", "wait"}, objs \in {coro, [coro EXCEPT ![c].last_call = t]} :
           /\ ph = "wait" => <<t, c>> \in SyncWaits
           /\ StartAndOp(t, c, objs, <<Frame(c, ph)>>)
    BY <1>5 DEF StartPlain, SyncWait, RunStart
  <2> QED
    BY <1>0, <1>2, <2>1, WaitsStarted DEF Phases
<1>6. ASSUME NEW t \in Threads, NEW c \in Coros,
             ResumePlain(t, c) \/ Destory(t, c) \/ \E e \in Executors : RunResume(t, e, c)
      PROVE  Goal
  BY <1>0, <1>2, <1>4, <1>6, WaitsSet DEF ResumePlain, Destory, RunResume, Phases
<1>7. ASSUME NEW t \in Threads, NEW c \in Coros, CompleteTask(t, c) PROVE Goal
  BY <1>0, <1>2, <1>7, WaitsResumed, WaitsSet DEF CompleteTask, Phases
<1>8. ASSUME NEW t \in Threads, NEW c \in Coros, NEW ph \in Phases \ {"wait"},
             stack[t] # <<>>,
             SetStack(t, Moved(t, c, ph)) \/ SetStack(t, Tail(stack[t]))
      PROVE  Goal
  BY <1>0, <1>8, WaitsMoved, WaitsPopped, WaitsSet
<1>9. ASSUME NEW t \in Threads, NEW c \in Coros,
             \/ Enter(t, c) \/ Check(t, c) \/ CallPost(t, c) \/ CallThen(t, c)
             \/ Clear(t, c) \/ NotFinished(t, c) \/ LastCallEmpty(t, c) \/ Release(t, c)
             \/ \E w \in Threads : LastCallEvent(t, c, w)
             \/ OwnerReturns(t, c) \/ SyncWaitReturns(t, c)
      PROVE  Goal
  <2>1. stack[t] # <<>>
    BY <1>9 DEF Enter, Check, CallPost, CallThen, Clear, NotFinished, LastCallEmpty,
                Release, LastCallEvent, OwnerReturns, SyncWaitReturns, At
  <2>2. \/ \E ph \in Phases \ {"wait"} : SetStack(t, Moved(t, c, ph))
        \/ SetStack(t, Tail(stack[t]))
    BY <1>9 DEF Enter, Check, AfterSwitch, CallPost, CallThen, Clear, NotFinished, LastCallEmpty,
                Release, LastCallEvent, OwnerReturns, SyncWaitReturns, Phases
  <2>3. "jump" \in Phases \ {"wait"}
    BY DEF Phases
  <2> QED
    BY <1>8, <2>1, <2>2, <2>3
<1>10. ASSUME NEW t \in Threads, NEW c \in Coros,
              \/ CallThrows(t, c) \/ \E p \in Coros : LastCallThrows(t, c, p)
       PROVE  Goal
  BY <1>0, <1>10, WaitsSet DEF CallThrows, LastCallThrows
<1>11. ASSUME NEW t \in Threads, NEW c \in Coros, NEW d \in Coros, CallStart(t, c, d)
       PROVE  Goal
  <2>1. WaitsOnly(t, Moved(t, c, "clear"))
    BY <1>0, <1>11, WaitsMoved DEF CallStart, At, Phases
  <2> QED
    BY <1>0, <1>11, <2>1, WaitsStarted DEF CallStart
<1>12. ASSUME NEW t \in Threads, NEW c \in Coros, NEW p \in Coros, LastCallAwaiter(t, c, p)
       PROVE  Goal
  <2>1. WaitsOnly(t, Moved(t, c, "release"))
    BY <1>0, <1>12, WaitsMoved DEF LastCallAwaiter, At, Phases
  <2> QED
    BY <1>0, <1>12, <2>1, WaitsResumed DEF LastCallAwaiter
<1>13. ASSUME NEW t \in Threads, NEW u \in Threads, NEW c \in Coros, EnterTwice(t, u, c)
       PROVE  Goal
  <2>1. WaitsOnly(t, Moved(t, c, "body")) /\ WaitsOnly(u, Moved(u, c, "body"))
    BY <1>0, <1>13, WaitsMoved DEF EnterTwice, At, Phases
  <2>2. \A w \in Threads : WaitsOnly(w, stack'[w])
    BY <1>0, <1>13, <2>1 DEF EnterTwice, StackType
  <2> QED
    BY <2>2 DEF WaitsOnly
<1>14. ASSUME NEW t \in Threads, NEW c \in Coros,
              \/ EnterFails(t, c) \/ CallFails(t, c) \/ YieldFails(t, c)
       PROVE  Goal
  BY <1>0, <1>14, WaitsSet DEF EnterFails, CallFails, YieldFails
<1>15. ASSUME NEW t \in Threads, NEW c \in Coros,
              \/ \E e \in Executors : RunOn(t, c, e)
              \/ \E d \in Coros : Await(t, c, d)
              \/ AwaitTask(t, c) \/ Yield(t, c) \/ Finish(t, c)
       PROVE  Goal
  <2>1. stack[t] # <<>> /\ SetStack(t, Moved(t, c, "check"))
    BY <1>15 DEF RunOn, Await, AwaitTask, Yield, Finish, InBody, At, Switch
  <2> QED
    BY <1>8, <2>1 DEF Phases
<1>16. ASSUME NEW t \in Threads, NEW c \in Coros, NEW d \in Coros,
              Call(t, c, d) \/ CallResume(t, c, d)
       PROVE  Goal
  <2>1. CASE Call(t, c, d)
    <3>1. WaitsOnly(t, <<Frame(d, "owner")>> \o stack[t])
      BY <1>0, WaitsPushed DEF Phases
    <3> QED
      BY <1>0, <2>1, <3>1, WaitsStarted DEF Call
  <2>2. CASE CallResume(t, c, d)
    <3>1. WaitsOnly(t, <<Frame(d, "jump"), Frame(d, "owner")>> \o stack[t])
      BY <1>0, <1>3 DEF Phases
    <3> QED
      BY <1>0, <2>2, <3>1, WaitsSet DEF CallResume
  <2> QED
    BY <1>16, <2>1, <2>2
<1>17. ASSUME UNCHANGED stack
       PROVE  Goal
  BY <1>0, <1>17 DEF WaitsOnly
<1>18. ASSUME UNCHANGED vars PROVE Goal
  BY <1>17, <1>18 DEF vars
<1>26. ASSUME NEW e \in Executors, Shutdown(e) PROVE Goal
  BY <1>17, <1>26 DEF Shutdown
<1>27. ASSUME NEW c \in Coros, DropHandle(c) PROVE Goal
  BY <1>17, <1>27 DEF DropHandle
<1>28. ASSUME NEW c \in Coros, NEW e \in Executors, PostCoroTask(c, e) PROVE Goal
  BY <1>17, <1>28 DEF PostCoroTask
<1> HIDE DEF Goal
<1>19. ASSUME NEW t \in Threads, NEW c \in Coros, Resume(t, c) PROVE Goal
  BY <1>9, <1>10, <1>11, <1>12, <1>13, <1>14, <1>19 DEF Resume
<1>20. ASSUME NEW t \in Threads, NEW c \in Coros, Body(t, c) PROVE Goal
  BY <1>14, <1>15, <1>16, <1>20 DEF Body
<1>21. ASSUME NEW t \in Threads, NEW c \in Coros, TakeWork(t, c) PROVE Goal
  BY <1>5, <1>6, <1>7, <1>21 DEF TakeWork
<1>22. ASSUME ClientStep PROVE Goal
  <2>1. ASSUME NEW t \in Threads, NEW c \in Coros,
               StartPlain(t, c) \/ ResumePlain(t, c) \/ SyncWait(t, c) \/ Destory(t, c)
        PROVE  Goal
    BY <1>5, <1>6, <2>1
  <2> QED
    BY <1>22, <1>27, <1>28, <2>1 DEF ClientStep
<1>23. ASSUME NEW t \in Threads, ThreadStep(t) PROVE Goal
  BY <1>19, <1>20, <1>21, <1>23 DEF ThreadStep
<1>24. ASSUME Next PROVE Goal
  BY <1>22, <1>23, <1>24, <1>26 DEF Next
<1>25. Goal
  BY <1>18, <1>24
<1> QED
  BY <1>25 DEF Goal

\* What the fields of the coroutines say: only sync_wait puts a thread into
\* _last_call, and nothing resets _finished.
LEMMA SyncFields ==
  ASSUME TypeOK, SyncInv, [Next]_vars
  PROVE  EventsOnly(coro') /\ FinishedKept(coro')
<1> DEFINE Good(objs) == EventsOnly(objs) /\ FinishedKept(objs)
<1>0. coro \in [Coros -> CoroutineContextBase] /\ Coros \cap Threads = {} /\ None \notin Threads
  BY ClientAssumption DEF TypeOK
<1>1. Good(coro)
  BY DEF SyncInv, FinishedKept
<1>2. ASSUME NEW objs \in [Coros -> CoroutineContextBase], Good(objs), NEW c \in Coros
      PROVE  /\ \A x : Good([objs EXCEPT ![c].source = x])
             /\ \A x : Good([objs EXCEPT ![c].yield_after_call = x])
             /\ \A x : Good([objs EXCEPT ![c].executor = x])
             /\ \A x : Good([objs EXCEPT ![c].prolong_life = x])
             /\ \A x, y : Good([objs EXCEPT ![c].source = x, ![c].prolong_life = y])
             /\ \A x, y : Good([objs EXCEPT ![c].source = x, ![c].yield_after_call = y])
             /\ \A x : Good([objs EXCEPT ![c].finished = TRUE, ![c].source = x])
             /\ \A x \in Coros : Good([objs EXCEPT ![c].last_call = x])
             /\ \A x \in Threads : <<x, c>> \in SyncWaits => Good([objs EXCEPT ![c].last_call = x])
  BY <1>0, <1>2 DEF EventsOnly, FinishedKept, CoroutineContextBase
<1>3. ASSUME NEW t \in Threads, NEW c \in Coros, NEW objs \in [Coros -> CoroutineContextBase],
             NEW rest, Good(objs), StartAndOp(t, c, objs, rest)
      PROVE  Good(coro')
  <2>1. Good([objs EXCEPT ![c].source = "fresh"])
    BY <1>2, <1>3
  <2> HIDE DEF Good
  <2> QED
    BY <1>3, <2>1 DEF StartAndOp
<1>4. ASSUME UNCHANGED coro
      PROVE  Good(coro')
  BY <1>1, <1>4
<1>8. ASSUME NEW t \in Threads, NEW c \in Coros,
             Enter(t, c) \/ \E u \in Threads : EnterTwice(t, u, c)
      PROVE  Good(coro')
  <2>1. coro' = Entered(c)
    BY <1>8 DEF Enter, EnterTwice
  <2> QED
    BY <1>0, <1>1, <2>1 DEF Entered, EventsOnly, FinishedKept, CoroutineContextBase
<1> HIDE DEF Good
<1>5. ASSUME NEW t \in Threads, NEW c \in Coros,
             \/ StartPlain(t, c) \/ SyncWait(t, c)
             \/ \E e \in Executors : RunStart(t, e, c)
      PROVE  Good(coro')
  <2>1. CASE SyncWait(t, c)
    <3>1. [coro EXCEPT ![c].last_call = t] \in [Coros -> CoroutineContextBase]
      BY <1>0, FieldType
    <3>2. Good([coro EXCEPT ![c].last_call = t])
      BY <1>0, <1>1, <1>2, <2>1 DEF SyncWait
    <3> QED
      BY <1>3, <2>1, <3>1, <3>2 DEF SyncWait
  <2>2. ASSUME StartPlain(t, c) \/ \E e \in Executors : RunStart(t, e, c)
        PROVE  Good(coro')
    BY <1>0, <1>1, <1>3, <2>2 DEF StartPlain, RunStart
  <2> QED
    BY <1>5, <2>1, <2>2
<1>6. ASSUME NEW t \in Threads, NEW c \in Coros,
             \/ ResumePlain(t, c) \/ CompleteTask(t, c) \/ \E e \in Executors : RunResume(t, e, c)
             \/ EnterFails(t, c) \/ Check(t, c) \/ CallPost(t, c) \/ CallThen(t, c)
             \/ CallFails(t, c) \/ CallThrows(t, c) \/ NotFinished(t, c) \/ LastCallEmpty(t, c)
      PROVE  Good(coro')
  <2>1. UNCHANGED coro
    BY <1>6 DEF ResumePlain, CompleteTask, RunResume, EnterFails, Check, CallPost, CallThen,
                CallFails, CallThrows, NotFinished, LastCallEmpty
  <2> QED
    BY <1>4, <2>1
<1>7. ASSUME NEW t \in Threads, NEW c \in Coros,
             \/ \E p \in Coros : LastCallAwaiter(t, c, p) \/ LastCallThrows(t, c, p)
             \/ \E w \in Threads : LastCallEvent(t, c, w)
             \/ OwnerReturns(t, c) \/ SyncWaitReturns(t, c)
             \/ YieldFails(t, c) \/ \E d \in Coros : CallResume(t, c, d)
      PROVE  Good(coro')
  <2>1. UNCHANGED coro
    BY <1>7 DEF LastCallAwaiter, LastCallThrows, LastCallEvent, OwnerReturns, SyncWaitReturns,
                YieldFails, CallResume
  <2> QED
    BY <1>4, <2>1
<1>9. ASSUME NEW t \in Threads, NEW c \in Coros, NEW d \in Coros,
             CallStart(t, c, d) \/ Call(t, c, d)
      PROVE  Good(coro')
  BY <1>0, <1>1, <1>3, <1>9 DEF CallStart, Call
<1>10. ASSUME NEW t \in Threads, NEW c \in Coros, Clear(t, c) \/ Release(t, c)
       PROVE  Good(coro')
  <2>1. CASE Clear(t, c)
    BY <1>0, <1>1, <1>2, <2>1 DEF Clear, Cleared
  <2>2. CASE Release(t, c)
    BY <1>0, <1>1, <1>2, <2>2 DEF Release, Released
  <2> QED
    BY <1>10, <2>1, <2>2
<1>11. ASSUME NEW t \in Threads, NEW c \in Coros, AwaitTask(t, c) \/ Yield(t, c) \/ Finish(t, c)
       PROVE  Good(coro')
  <2>1. \/ \E fun : coro' = [coro EXCEPT ![c].source = "fiber", ![c].yield_after_call = fun]
        \/ coro' = [coro EXCEPT ![c].finished = TRUE, ![c].source = "null"]
    BY <1>11 DEF AwaitTask, Yield, Finish, Yielded
  <2> QED
    BY <1>0, <1>1, <1>2, <2>1
<1>12. ASSUME NEW t \in Threads, NEW c \in Coros, NEW e \in Executors, RunOn(t, c, e)
       PROVE  Good(coro')
  <2>1. /\ [coro EXCEPT ![c].executor = e] \in [Coros -> CoroutineContextBase]
        /\ Good([coro EXCEPT ![c].executor = e])
    BY <1>0, <1>1, <1>2, FieldType
  <2> QED
    BY <1>2, <1>12, <2>1 DEF RunOn, Yielded
<1>13. ASSUME NEW t \in Threads, NEW c \in Coros, NEW d \in Coros, Await(t, c, d)
       PROVE  Good(coro')
  <2>1. /\ [coro EXCEPT ![d].last_call = c] \in [Coros -> CoroutineContextBase]
        /\ Good([coro EXCEPT ![d].last_call = c])
    BY <1>0, <1>1, <1>2, FieldType
  <2> QED
    BY <1>2, <1>13, <2>1 DEF Await, Yielded
<1>14. ASSUME NEW t \in Threads, NEW c \in Coros, Destory(t, c)
       PROVE  Good(coro')
  BY <1>0, <1>1, <1>2, <1>14 DEF Destory
<1>15. ASSUME NEW c \in Coros, NEW e \in Executors, PostCoroTask(c, e)
       PROVE  Good(coro')
  BY <1>0, <1>1, <1>2, <1>15 DEF PostCoroTask
<1>16. ASSUME UNCHANGED vars PROVE Good(coro')
  BY <1>4, <1>16 DEF vars
<1>24. ASSUME NEW e \in Executors, Shutdown(e) PROVE Good(coro')
  BY <1>4, <1>24 DEF Shutdown
<1>17. ASSUME NEW t \in Threads, NEW c \in Coros, Resume(t, c) PROVE Good(coro')
  BY <1>6, <1>7, <1>8, <1>9, <1>10, <1>17 DEF Resume
<1>18. ASSUME NEW t \in Threads, NEW c \in Coros, Body(t, c) PROVE Good(coro')
  BY <1>7, <1>9, <1>11, <1>12, <1>13, <1>18 DEF Body
<1>19. ASSUME NEW t \in Threads, NEW c \in Coros, TakeWork(t, c) PROVE Good(coro')
  BY <1>5, <1>6, <1>19 DEF TakeWork
<1>20. ASSUME ClientStep PROVE Good(coro')
  <2>1. ASSUME NEW t \in Threads, NEW c \in Coros,
               StartPlain(t, c) \/ ResumePlain(t, c) \/ SyncWait(t, c) \/ Destory(t, c)
        PROVE  Good(coro')
    BY <1>5, <1>6, <1>14, <2>1
  <2>2. ASSUME NEW c \in Coros, DropHandle(c) PROVE Good(coro')
    BY <1>4, <2>2 DEF DropHandle
  <2> QED
    BY <1>15, <1>20, <2>1, <2>2 DEF ClientStep
<1>21. ASSUME NEW t \in Threads, ThreadStep(t) PROVE Good(coro')
  BY <1>17, <1>18, <1>19, <1>21 DEF ThreadStep
<1>22. ASSUME Next PROVE Good(coro')
  BY <1>20, <1>21, <1>22, <1>24 DEF Next
<1>23. Good(coro')
  BY <1>16, <1>22
<1> QED
  BY <1>23 DEF Good

\* Only the callback of a finished coroutine sets an event.
LEMMA SyncSignals ==
  ASSUME TypeOK, SyncInv, [Next]_vars, FinishedKept(coro')
  PROVE  SignalsOnly'
<1>1. ASSUME \A t \in Threads : signal'[t] => signal[t] \/ \E c \in Coros : <<t, c>> \in SyncWaits /\ coro[c].finished
      PROVE  SignalsOnly'
  <2>1. \A t \in Threads : signal'[t] => \E c \in Coros : <<t, c>> \in SyncWaits /\ coro'[c].finished
    BY <1>1 DEF SyncInv, SignalsOnly, FinishedKept
  <2> QED
    BY <2>1 DEF SignalsOnly
<1>2. ASSUME UNCHANGED signal
      PROVE  SignalsOnly'
  BY <1>1, <1>2
<1>3. ASSUME NEW t \in Threads, NEW c \in Coros, NEW w \in Threads, LastCallEvent(t, c, w)
      PROVE  SignalsOnly'
  <2>1. <<w, c>> \in SyncWaits /\ coro[c].finished
    BY <1>3 DEF LastCallEvent, IsFinished, SyncInv, EventsOnly
  <2>2. \A u \in Threads : u # w => signal'[u] = signal[u]
    BY <1>3 DEF LastCallEvent, TypeOK
  <2> QED
    BY <1>1, <2>1, <2>2
<1>4. ASSUME NEW t \in Threads, NEW c \in Coros, SyncWait(t, c)
      PROVE  SignalsOnly'
  <2>1. \A u \in Threads : signal'[u] => signal[u]
    BY <1>4 DEF SyncWait, TypeOK
  <2> QED
    BY <1>1, <2>1
<1>5. ASSUME NEW t \in Threads, NEW c \in Coros, Resume(t, c)
      PROVE  SignalsOnly'
  <2>1. ASSUME ~UNCHANGED signal PROVE \E w \in Threads : LastCallEvent(t, c, w)
    BY <1>5, <2>1
       DEF Resume, Enter, EnterFails, EnterTwice, Check, CallPost, CallThen, CallFails, CallThrows,
           CallStart, Clear, NotFinished, LastCallEmpty, Release, LastCallAwaiter, LastCallThrows,
           OwnerReturns, SyncWaitReturns
  <2> QED
    BY <1>2, <1>3, <2>1
<1>6. ASSUME NEW t \in Threads, NEW c \in Coros, Body(t, c) \/ TakeWork(t, c)
      PROVE  SignalsOnly'
  <2>1. UNCHANGED signal
    BY <1>6 DEF Body, TakeWork, RunOn, Await, Call, CallResume, AwaitTask, Yield, YieldFails, Finish,
                RunStart, RunResume, CompleteTask
  <2> QED
    BY <1>2, <2>1
<1>7. CASE ClientStep
  <2>1. ASSUME ~UNCHANGED signal PROVE \E t \in Threads, c \in Coros : SyncWait(t, c)
    BY <1>7, <2>1 DEF ClientStep, PostCoroTask, StartPlain, ResumePlain, Destory, DropHandle
  <2> QED
    BY <1>2, <1>4, <2>1
<1>8. ASSUME UNCHANGED vars \/ \E e \in Executors : Shutdown(e)
      PROVE  SignalsOnly'
  BY <1>2, <1>8 DEF vars, Shutdown
<1>9. ASSUME NEW t \in Threads, ThreadStep(t) PROVE SignalsOnly'
  BY <1>5, <1>6, <1>9 DEF ThreadStep
<1> QED
  BY <1>7, <1>8, <1>9 DEF Next

LEMMA SyncInvHolds == Spec => []SyncInv
<1>1. Init => SyncInv
  <2>1. ASSUME Init PROVE SyncInv
    <3>1. \A t \in Threads : WaitsOnly(t, stack[t])
      BY <2>1 DEF Init, WaitsOnly
    <3>2. EventsOnly(coro)
      BY <2>1, ClientAssumption DEF Init, EventsOnly
    <3>3. SignalsOnly
      BY <2>1 DEF Init, SignalsOnly
    <3> QED
      BY <3>1, <3>2, <3>3 DEF SyncInv
  <2> QED
    BY <2>1
<1>2. TypeOK /\ SyncInv /\ [Next]_vars => SyncInv'
  <2>1. ASSUME TypeOK, SyncInv, [Next]_vars PROVE SyncInv'
    <3>1. EventsOnly(coro') /\ FinishedKept(coro')
      BY <2>1, SyncFields
    <3>2. SignalsOnly'
      BY <2>1, <3>1, SyncSignals
    <3>3. \A t \in Threads : WaitsOnly(t, stack[t])'
      BY <2>1, SyncStacks
    <3> QED
      BY <3>1, <3>2, <3>3 DEF SyncInv, EventsOnly, WaitsOnly
  <2> QED
    BY <2>1
<1> QED
  BY <1>1, <1>2, TypeCorrect, PTL DEF Spec

\* sync_wait returns only when its coroutine has finished, however many threads
\* resume the coroutine and whatever they do, if no thread uses sync_wait with
\* two coroutines (sync_wait, finish_callback).
THEOREM SyncWaitAlwaysSound ==
  ASSUME OneSync
  PROVE  Spec => []SyncWaitSound
<1>1. TypeOK /\ SyncInv => SyncWaitSound
  <2> SUFFICES ASSUME TypeOK, SyncInv, NEW t \in Threads, NEW c \in Coros,
                      At(t, c, "wait"), signal[t]
               PROVE  coro[c].finished
    BY DEF SyncWaitSound
  <2>1. PICK d \in Coros : <<t, d>> \in SyncWaits /\ coro[d].finished
    BY DEF SyncInv, SignalsOnly
  <2>2. <<t, c>> \in SyncWaits
    <3>1. stack[t] \in Seq(Frames) /\ stack[t] # <<>> /\ stack[t][1] = Frame(c, "wait")
      BY DEF TypeOK, At
    <3> QED
      BY <3>1 DEF SyncInv, WaitsOnly, Frame
  <2> QED
    BY <2>1, <2>2 DEF OneSync
<1> QED
  BY <1>1, SyncInvHolds, TypeCorrect, PTL

=============================================================================
