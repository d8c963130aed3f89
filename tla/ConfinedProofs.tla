----------------------------- MODULE ConfinedProofs -----------------------------
(***************************************************************************)
(* What a confined client program may rely on: the safety properties of    *)
(* CoroutineProperties and the refinement of AwaitProtocol, for any number *)
(* of coroutines, threads, executors and suspensions.                      *)
(*                                                                         *)
(* The invariant is built in two layers. StackInv says how the resume()s   *)
(* of the coroutines lie on the stacks: a coroutine has one at most, and   *)
(* one that is not on top is a tail whose function has just started the    *)
(* coroutine above it. Hence each coroutine is in one Phase, and ConfInv   *)
(* gives, phase by phase, what its context holds and who has been asked to *)
(* resume it. Ready is the conjunction that the steps preserve; the later  *)
(* sections add what single properties need.                               *)
(***************************************************************************)
EXTENDS BodyProofs, FiniteSetTheorems

\* The phases of a frame that is an activation of resume().
Acts == Phases \ {"owner", "wait"}

(***************************************************************************)
(* The client programs the theorems are about.                             *)
(*  - Bodies start and resume no coroutine by calling start() or resume()  *)
(*    (see direct_start), nobody calls resume() or destory() on a          *)
(*    suspended coroutine, whose posted resumption would stay behind, and  *)
(*    a coroutine is started once.                                         *)
(*  - A coroutine awaits another one only after a runOn (see bare_await).  *)
(*  - Where an executor may be shut down, threads catch what post throws.  *)
(* The theorems are about timely behaviours of them: nobody takes up a     *)
(* coroutine that another thread is in the tail of resuming (see demo).    *)
(***************************************************************************)
Confined ==
  /\ Calls = {} /\ Destroys = {} /\ Resumes = {} /\ Yielders = {} /\ MaxUses = 1
  /\ \A c, d \in Coros : <<c, d>> \in Awaits => c \notin Bare
  /\ Closable = {} \/ Catchers = Threads

-----------------------------------------------------------------------------
(* The frames of a coroutine.                                              *)

FrameAt(t, i, c, q) == i \in DOMAIN stack[t] /\ stack[t][i] = Frame(c, q)
ActAt(t, i, c) == \E q \in Acts : FrameAt(t, i, c, q)

\* Where the resume() of c is, if one is under way.
Phase(c) ==
  IF \E q \in Acts, t \in Threads, i \in Nat : FrameAt(t, i, c, q)
    THEN CHOOSE q \in Acts : \E t \in Threads, i \in Nat : FrameAt(t, i, c, q)
    ELSE "none"

\* A coroutine has one resume() at a time.
OneAct ==
  \A t, u \in Threads, i, j \in Nat, c \in Coros :
    ActAt(t, i, c) /\ ActAt(u, j, c) => t = u /\ i = j

\* A frame below the top is a tail that has started what its coroutine awaits.
Shape ==
  \A t \in Threads, i \in Nat, c \in Coros :
    ActAt(t, i, c) /\ i > 1 =>
      /\ FrameAt(t, i, c, "clear")
      /\ ghost[c].awaiting \in Coros
      /\ ActAt(t, i - 1, ghost[c].awaiting)

StackInv == OneAct /\ Shape

LEMMA SameFrame ==
  ASSUME NEW c, NEW d, NEW q, NEW r, Frame(c, q) = Frame(d, r)
  PROVE  c = d /\ q = r
BY DEF Frame

LEMMA PhaseIs ==
  ASSUME OneAct, NEW c \in Coros, NEW q \in Acts, NEW t \in Threads, NEW i \in Nat,
         FrameAt(t, i, c, q)
  PROVE  Phase(c) = q
<1>1. ASSUME NEW r \in Acts, NEW u \in Threads, NEW j \in Nat, FrameAt(u, j, c, r)
      PROVE  r = q
  <2>1. t = u /\ i = j
    BY <1>1 DEF OneAct, ActAt
  <2> QED
    BY <1>1, <2>1, SameFrame DEF FrameAt
<1> QED
  BY <1>1 DEF Phase

LEMMA PhaseIsNext ==
  ASSUME OneAct', NEW c \in Coros, NEW q \in Acts, NEW t \in Threads, NEW i \in Nat,
         FrameAt(t, i, c, q)'
  PROVE  Phase(c)' = q
<1>1. ASSUME NEW r \in Acts, NEW u \in Threads, NEW j \in Nat, FrameAt(u, j, c, r)'
      PROVE  r = q
  <2>1. t = u /\ i = j
    BY <1>1 DEF OneAct, ActAt
  <2> QED
    BY <1>1, <2>1, SameFrame DEF FrameAt
<1> QED
  BY <1>1 DEF Phase

LEMMA PhaseFrame ==
  ASSUME NEW c \in Coros
  PROVE  /\ Phase(c) \in Acts \cup {"none"}
         /\ Phase(c) \in Acts => \E t \in Threads, i \in Nat : FrameAt(t, i, c, Phase(c))
         /\ Phase(c) = "none" => \A t \in Threads, i \in Nat : ~ActAt(t, i, c)
<1>1. "none" \notin Acts
  BY DEF Acts, Phases
<1>2. CASE \E q \in Acts, t \in Threads, i \in Nat : FrameAt(t, i, c, q)
  <2>1. /\ Phase(c) \in Acts
        /\ \E t \in Threads, i \in Nat : FrameAt(t, i, c, Phase(c))
    BY <1>2 DEF Phase
  <2> QED
    BY <1>1, <2>1
<1>3. CASE ~ \E q \in Acts, t \in Threads, i \in Nat : FrameAt(t, i, c, q)
  BY <1>1, <1>3 DEF Phase, ActAt
<1> QED
  BY <1>2, <1>3

LEMMA PhaseNoneNext ==
  ASSUME NEW c \in Coros, \A t \in Threads, i \in Nat : ~ActAt(t, i, c)'
  PROVE  Phase(c)' = "none"
BY DEF Phase, ActAt

(***************************************************************************)
(* A thread gets the stack s.  Outside the coroutines S, which have frames *)
(* on no other thread, s holds the frames of before, k places further up.  *)
(***************************************************************************)
Carries(t, s, k, S) ==
  /\ \A i \in DOMAIN s, c \in Coros \ S, q \in Acts :
       s[i] = Frame(c, q) => FrameAt(t, i + k, c, q)
  /\ \A i \in Nat, c \in Coros \ S, q \in Acts :
       FrameAt(t, i, c, q) => i - k \in DOMAIN s /\ s[i - k] = Frame(c, q)
  /\ \A c \in S, u \in Threads \ {t}, i \in Nat : ~ActAt(u, i, c)
  /\ \A c \in S, i, j \in DOMAIN s, q, r \in Acts :
       s[i] = Frame(c, q) /\ s[j] = Frame(c, r) => i = j

LEMMA FrameAtNext ==
  ASSUME StackType, NEW t \in Threads, NEW s \in Seq(Frames), SetStack(t, s),
         NEW u \in Threads, NEW i, NEW c, NEW q
  PROVE  FrameAt(u, i, c, q)' <=> IF u = t THEN i \in DOMAIN s /\ s[i] = Frame(c, q)
                                           ELSE FrameAt(u, i, c, q)
BY DEF SetStack, StackType, FrameAt

LEMMA CarriesOneAct ==
  ASSUME StackType, OneAct, NEW t \in Threads, NEW s \in Seq(Frames), NEW k \in Int,
         NEW S \in SUBSET Coros, Carries(t, s, k, S), SetStack(t, s)
  PROVE  OneAct'
<1> SUFFICES ASSUME NEW u \in Threads, NEW w \in Threads, NEW i \in Nat, NEW j \in Nat,
                    NEW c \in Coros, ActAt(u, i, c)', ActAt(w, j, c)'
             PROVE  u = w /\ i = j
  BY DEF OneAct
<1>1. PICK q \in Acts : FrameAt(u, i, c, q)'
  BY DEF ActAt
<1>2. PICK r \in Acts : FrameAt(w, j, c, r)'
  BY DEF ActAt
<1>3. CASE c \in S
  <2>1. u = t /\ i \in DOMAIN s /\ s[i] = Frame(c, q)
    BY <1>1, <1>3, FrameAtNext DEF Carries, ActAt
  <2>2. w = t /\ j \in DOMAIN s /\ s[j] = Frame(c, r)
    BY <1>2, <1>3, FrameAtNext DEF Carries, ActAt
  <2> QED
    BY <1>3, <2>1, <2>2 DEF Carries
<1>4. CASE c \notin S
  <2> DEFINE at(v, n) == IF v = t THEN n + k ELSE n
  <2>1. FrameAt(u, at(u, i), c, q) /\ at(u, i) \in Nat
    <3>1. FrameAt(u, at(u, i), c, q)
      BY <1>1, <1>4, FrameAtNext DEF Carries
    <3>2. stack[u] \in Seq(Frames)
      BY DEF StackType
    <3> QED
      BY <3>1, <3>2 DEF FrameAt
  <2>2. FrameAt(w, at(w, j), c, r) /\ at(w, j) \in Nat
    <3>1. FrameAt(w, at(w, j), c, r)
      BY <1>2, <1>4, FrameAtNext DEF Carries
    <3>2. stack[w] \in Seq(Frames)
      BY DEF StackType
    <3> QED
      BY <3>1, <3>2 DEF FrameAt
  <2>3. u = w /\ at(u, i) = at(w, j)
    BY <2>1, <2>2 DEF OneAct, ActAt
  <2> QED
    BY <2>3
<1> QED
  BY <1>3, <1>4

LEMMA CarriesPhase ==
  ASSUME StackType, OneAct, NEW t \in Threads, NEW s \in Seq(Frames), NEW k \in Int,
         NEW S \in SUBSET Coros, Carries(t, s, k, S), SetStack(t, s), NEW c \in Coros
  PROVE  /\ c \notin S => Phase(c)' = Phase(c)
         /\ \A q \in Acts, i \in DOMAIN s : s[i] = Frame(c, q) => Phase(c)' = q
         /\ /\ c \in S
            /\ \A q \in Acts, i \in DOMAIN s : s[i] # Frame(c, q)
            => Phase(c)' = "none"
<1>1. OneAct'
  BY CarriesOneAct
<1>2. ASSUME NEW q \in Acts, NEW i \in DOMAIN s, s[i] = Frame(c, q)
      PROVE  Phase(c)' = q
  <2>1. i \in Nat /\ FrameAt(t, i, c, q)'
    BY <1>2, FrameAtNext
  <2> QED
    BY <1>1, <2>1, PhaseIsNext
<1>3. ASSUME c \in S, \A q \in Acts, i \in DOMAIN s : s[i] # Frame(c, q)
      PROVE  Phase(c)' = "none"
  <2>1. ASSUME NEW u \in Threads, NEW i \in Nat, NEW q \in Acts, FrameAt(u, i, c, q)'
        PROVE  FALSE
    BY <1>3, <2>1, FrameAtNext DEF Carries, ActAt
  <2> QED
    BY <2>1, PhaseNoneNext DEF ActAt
<1>4. ASSUME c \notin S
      PROVE  Phase(c)' = Phase(c)
  <2>1. CASE Phase(c) = "none"
    <3>1. ASSUME NEW u \in Threads, NEW i \in Nat, NEW q \in Acts, FrameAt(u, i, c, q)'
          PROVE  FALSE
      <4>1. FrameAt(u, IF u = t THEN i + k ELSE i, c, q)
        BY <1>4, <3>1, FrameAtNext DEF Carries
      <4>2. stack[u] \in Seq(Frames)
        BY DEF StackType
      <4>3. (IF u = t THEN i + k ELSE i) \in Nat
        BY <4>1, <4>2 DEF FrameAt
      <4> QED
        BY <2>1, <4>1, <4>3, PhaseFrame DEF ActAt
    <3> QED
      BY <2>1, <3>1, PhaseNoneNext DEF ActAt
  <2>2. CASE Phase(c) \in Acts
    <3>1. PICK q \in Acts : q = Phase(c)
      BY <2>2
    <3>2. PICK u \in Threads, i \in Nat : FrameAt(u, i, c, q)
      BY <2>2, <3>1, PhaseFrame
    <3>3. CASE u # t
      <4>1. FrameAt(u, i, c, q)'
        BY <3>2, <3>3, FrameAtNext
      <4> QED
        BY <1>1, <3>1, <4>1, PhaseIsNext
    <3>4. CASE u = t
      <4>1. i - k \in DOMAIN s /\ s[i - k] = Frame(c, q)
        BY <1>4, <3>2, <3>4 DEF Carries
      <4> QED
        BY <1>2, <3>1, <4>1
    <3> QED
      BY <3>3, <3>4
  <2> QED
    BY <2>1, <2>2, PhaseFrame
<1> QED
  BY <1>2, <1>3, <1>4

AwaitsKept(S) == \A b \in Coros \ S : ghost'[b].awaiting = ghost[b].awaiting

LEMMA CarriesShape ==
  ASSUME StackType, Shape, NEW t \in Threads, NEW s \in Seq(Frames), NEW k \in Int,
         NEW S \in SUBSET Coros, Carries(t, s, k, S), SetStack(t, s), AwaitsKept(S),
         \A i \in DOMAIN s, c \in Coros, q \in Acts :
           s[i] = Frame(c, q) /\ i > 1 =>
             /\ q = "clear"
             /\ ghost'[c].awaiting \in Coros
             /\ \E r \in Acts : s[i - 1] = Frame(ghost'[c].awaiting, r)
  PROVE  Shape'
<1> SUFFICES ASSUME NEW u \in Threads, NEW i \in Nat, NEW c \in Coros, ActAt(u, i, c)', i > 1
             PROVE  /\ FrameAt(u, i, c, "clear")'
                    /\ ghost'[c].awaiting \in Coros
                    /\ ActAt(u, i - 1, ghost[c].awaiting)'
  BY DEF Shape
<1>1. PICK q \in Acts : FrameAt(u, i, c, q)'
  BY DEF ActAt
<1>2. CASE u = t
  <2>1. i \in DOMAIN s /\ s[i] = Frame(c, q)
    BY <1>1, <1>2, FrameAtNext
  <2>2. q = "clear" /\ ghost'[c].awaiting \in Coros
    BY <2>1
  <2>3. PICK a \in Coros : a = ghost'[c].awaiting
    BY <2>2
  <2>4. PICK r \in Acts : s[i - 1] = Frame(a, r)
    BY <2>1, <2>3
  <2>5. i - 1 \in DOMAIN s
    BY <2>1
  <2>6. FrameAt(u, i - 1, a, r)'
    BY <1>2, <2>4, <2>5, FrameAtNext
  <2>7. ActAt(u, i - 1, a)'
    BY <2>6 DEF ActAt
  <2> QED
    BY <1>1, <2>2, <2>3, <2>7
<1>3. CASE u # t
  <2>1. FrameAt(u, i, c, q)
    BY <1>1, <1>3, FrameAtNext
  <2>2. c \notin S /\ ActAt(u, i, c)
    BY <1>3, <2>1 DEF Carries, ActAt
  <2>3. ghost'[c].awaiting = ghost[c].awaiting
    BY <2>2 DEF AwaitsKept
  <2>4. /\ FrameAt(u, i, c, "clear")
        /\ ghost[c].awaiting \in Coros
        /\ ActAt(u, i - 1, ghost[c].awaiting)
    BY <2>2 DEF Shape
  <2>5. PICK a \in Coros : a = ghost'[c].awaiting
    BY <2>3, <2>4
  <2>6. PICK r \in Acts : FrameAt(u, i - 1, a, r)
    BY <2>3, <2>4, <2>5 DEF ActAt
  <2>7. FrameAt(u, i - 1, a, r)' /\ FrameAt(u, i, c, "clear")'
    BY <1>3, <2>4, <2>6, FrameAtNext
  <2>8. ActAt(u, i - 1, a)'
    BY <2>7 DEF ActAt
  <2> QED
    BY <2>5, <2>7, <2>8
<1> QED
  BY <1>2, <1>3

Goes(c, q) ==
  /\ Phase(c)' = q
  /\ \A b \in Coros \ {c} : Phase(b)' = Phase(b)

LEMMA TopFrame ==
  ASSUME StackType, NEW t \in Threads, NEW c \in Coros, NEW q \in Phases, At(t, c, q)
  PROVE  /\ stack[t] \in Seq(Frames) /\ stack[t] # <<>>
         /\ FrameAt(t, 1, c, q)
         /\ \A d, r : FrameAt(t, 1, d, r) => d = c /\ r = q
<1>1. stack[t] \in Seq(Frames) /\ stack[t] # <<>> /\ stack[t][1] = Frame(c, q)
  BY DEF At, StackType
<1>2. FrameAt(t, 1, c, q)
  BY <1>1 DEF FrameAt
<1> QED
  BY <1>1, <1>2, SameFrame DEF FrameAt

\* The resume() of c, which is on top of a stack, goes on to another phase.
LEMMA MoveFrames ==
  ASSUME TypeOK, StackInv, NEW t \in Threads, NEW c \in Coros,
         NEW q \in Acts, At(t, c, q), NEW r \in Acts,
         SetStack(t, Moved(t, c, r)), AwaitsKept({c})
  PROVE  StackInv' /\ Phase(c) = q /\ Goes(c, r)
<1> DEFINE s == Moved(t, c, r)
<1>0. StackType /\ OneAct /\ Shape /\ q \in Phases /\ r \in Phases
  BY DEF TypeOK, StackType, StackInv, Acts
<1>1. stack[t] \in Seq(Frames) /\ stack[t] # <<>> /\ FrameAt(t, 1, c, q)
  BY <1>0, TopFrame
<1>2. /\ s \in Seq(Frames) /\ Len(s) = Len(stack[t]) /\ s[1] = Frame(c, r)
      /\ \A i \in DOMAIN s : i \in DOMAIN stack[t] /\ (i > 1 => s[i] = stack[t][i])
  <2>1. Frame(c, r) \in Frames
    BY <1>0 DEF Frame, Frames
  <2> QED
    BY <1>1, <2>1 DEF Moved
<1> HIDE DEF s
<1>3. SetStack(t, s)
  BY DEF s
<1>4. ActAt(t, 1, c)
  BY <1>1 DEF ActAt
<1>5. Carries(t, s, 0, {c})
  <2>1. \A i \in DOMAIN s, b \in Coros \ {c}, x \in Acts :
          s[i] = Frame(b, x) => FrameAt(t, i + 0, b, x)
    <3> SUFFICES ASSUME NEW i \in DOMAIN s, NEW b \in Coros \ {c}, NEW x \in Acts,
                        s[i] = Frame(b, x)
                 PROVE  FrameAt(t, i, b, x) /\ i \in Nat
      OBVIOUS
    <3> QED
      BY <1>2, SameFrame DEF FrameAt
  <2>2. \A i \in Nat, b \in Coros \ {c}, x \in Acts :
          FrameAt(t, i, b, x) => i - 0 \in DOMAIN s /\ s[i - 0] = Frame(b, x)
    <3> SUFFICES ASSUME NEW i \in Nat, NEW b \in Coros \ {c}, NEW x \in Acts,
                        FrameAt(t, i, b, x)
                 PROVE  i \in DOMAIN s /\ s[i] = Frame(b, x)
      OBVIOUS
    <3>1. i # 1
      BY <1>1, SameFrame DEF FrameAt
    <3> QED
      BY <1>1, <1>2, <3>1 DEF FrameAt
  <2>3. \A u \in Threads \ {t}, i \in Nat : ~ActAt(u, i, c)
    BY <1>0, <1>4 DEF OneAct
  <2>4. ASSUME NEW i \in DOMAIN s, NEW x \in Acts, s[i] = Frame(c, x)
        PROVE  i = 1
    <3> SUFFICES ASSUME i > 1
                 PROVE  FALSE
      BY <1>2
    <3>1. FrameAt(t, i, c, x) /\ i \in Nat
      BY <1>2, <2>4 DEF FrameAt
    <3> QED
      BY <1>0, <1>4, <3>1 DEF OneAct, ActAt
  <2> QED
    BY <2>1, <2>2, <2>3, <2>4 DEF Carries
<1>6. ASSUME NEW i \in DOMAIN s, NEW b \in Coros, NEW x \in Acts, s[i] = Frame(b, x), i > 1
      PROVE  /\ x = "clear"
             /\ ghost'[b].awaiting \in Coros
             /\ \E y \in Acts : s[i - 1] = Frame(ghost'[b].awaiting, y)
  <2>1. FrameAt(t, i, b, x) /\ i \in Nat /\ i - 1 \in Nat
    BY <1>2, <1>6 DEF FrameAt
  <2>2. b # c
    BY <1>0, <1>4, <1>6, <2>1 DEF OneAct, ActAt
  <2>3. ghost'[b].awaiting = ghost[b].awaiting
    BY <2>2 DEF AwaitsKept
  <2>4. /\ FrameAt(t, i, b, "clear") /\ ghost[b].awaiting \in Coros
        /\ ActAt(t, i - 1, ghost[b].awaiting)
    BY <1>0, <1>6, <2>1 DEF Shape, ActAt
  <2>5. x = "clear"
    BY <2>1, <2>4, SameFrame DEF FrameAt
  <2>6. PICK y \in Acts : FrameAt(t, i - 1, ghost[b].awaiting, y)
    BY <2>4 DEF ActAt
  <2>7. i - 1 \in DOMAIN s /\ (i - 1 > 1 => s[i - 1] = stack[t][i - 1])
    BY <1>1, <1>2, <2>1, <2>6 DEF FrameAt
  <2>8. CASE i - 1 > 1
    BY <2>3, <2>4, <2>5, <2>6, <2>7, <2>8 DEF FrameAt
  <2>9. CASE ~(i - 1 > 1)
    <3>1. i - 1 = 1
      BY <1>6, <2>1, <2>9
    <3>2. ghost[b].awaiting = c
      BY <1>1, <2>6, <3>1, SameFrame DEF FrameAt
    <3> QED
      BY <1>2, <2>3, <2>4, <2>5, <3>1, <3>2
  <2> QED
    BY <2>8, <2>9
<1>7. 0 \in Int /\ {c} \in SUBSET Coros /\ 1 \in DOMAIN s
  BY <1>1, <1>2
<1>8. OneAct'
  BY <1>0, <1>2, <1>3, <1>5, <1>7, CarriesOneAct
<1>9. Shape'
  BY <1>0, <1>2, <1>3, <1>5, <1>6, <1>7, CarriesShape
<1>11. Phase(c) = q
  BY <1>0, <1>1, PhaseIs
<1>12. Goes(c, r)
  <2>1. Phase(c)' = r
    BY <1>0, <1>2, <1>3, <1>5, <1>7, CarriesPhase
  <2>2. \A b \in Coros \ {c} : Phase(b)' = Phase(b)
    BY <1>0, <1>2, <1>3, <1>5, <1>7, CarriesPhase
  <2> QED
    BY <2>1, <2>2 DEF Goes
<1> QED
  BY <1>8, <1>9, <1>11, <1>12 DEF StackInv

\* The top frame is popped.
LEMMA PopCarries ==
  ASSUME TypeOK, StackInv, NEW t \in Threads, NEW c \in Coros, NEW q \in Phases, At(t, c, q),
         SetStack(t, Tail(stack[t])), AwaitsKept({}),
         NEW S \in SUBSET {c}, q \in Acts <=> S = {c}
  PROVE  StackInv' /\ Carries(t, Tail(stack[t]), 1, S) /\ Tail(stack[t]) \in Seq(Frames)
<1> DEFINE s == Tail(stack[t])
<1>0. StackType /\ OneAct /\ Shape
  BY DEF TypeOK, StackType, StackInv
<1>1. stack[t] \in Seq(Frames) /\ stack[t] # <<>> /\ FrameAt(t, 1, c, q)
  BY <1>0, TopFrame
<1>2. /\ s \in Seq(Frames)
      /\ \A i \in Nat : i > 1 => (i - 1 \in DOMAIN s <=> i \in DOMAIN stack[t])
      /\ \A i \in DOMAIN s : i \in Nat /\ i > 0 /\ i + 1 \in DOMAIN stack[t] /\ s[i] = stack[t][i + 1]
  BY <1>1
<1> HIDE DEF s
<1>3. SetStack(t, s)
  BY DEF s
<1>4. Carries(t, s, 1, S)
  <2>1. \A i \in DOMAIN s, b \in Coros \ S, x \in Acts :
          s[i] = Frame(b, x) => FrameAt(t, i + 1, b, x)
    BY <1>2 DEF FrameAt
  <2>2. ASSUME NEW i \in Nat, NEW b \in Coros \ S, NEW x \in Acts, FrameAt(t, i, b, x)
        PROVE  i - 1 \in DOMAIN s /\ s[i - 1] = Frame(b, x)
    <3>1. i # 1
      BY <1>1, <2>2, SameFrame DEF FrameAt
    <3>2. i > 1
      BY <1>1, <2>2, <3>1 DEF FrameAt
    <3>3. i - 1 \in DOMAIN s /\ (i - 1) + 1 = i
      BY <1>2, <2>2, <3>2 DEF FrameAt
    <3> QED
      BY <1>2, <2>2, <3>3 DEF FrameAt
  <2>3. ASSUME NEW b \in S, NEW u \in Threads, NEW i \in Nat, ActAt(u, i, b)
        PROVE  u = t /\ i = 1
    <3>1. b = c /\ ActAt(t, 1, c)
      BY <1>1, <2>3 DEF ActAt
    <3> QED
      BY <1>0, <2>3, <3>1 DEF OneAct
  <2>4. ASSUME NEW b \in S, NEW i \in DOMAIN s, NEW x \in Acts, s[i] = Frame(b, x)
        PROVE  FALSE
    <3>1. ActAt(t, i + 1, b) /\ i + 1 \in Nat /\ i + 1 # 1
      BY <1>2, <2>4 DEF ActAt, FrameAt
    <3> QED
      BY <2>3, <3>1
  <2> QED
    BY <2>1, <2>2, <2>3, <2>4 DEF Carries
<1>5. ASSUME NEW i \in DOMAIN s, NEW b \in Coros, NEW x \in Acts, s[i] = Frame(b, x), i > 1
      PROVE  /\ x = "clear"
             /\ ghost'[b].awaiting \in Coros
             /\ \E y \in Acts : s[i - 1] = Frame(ghost'[b].awaiting, y)
  <2>1. FrameAt(t, i + 1, b, x) /\ i + 1 \in Nat /\ i + 1 > 1 /\ (i + 1) - 1 = i
    BY <1>2, <1>5 DEF FrameAt
  <2>2. /\ FrameAt(t, i + 1, b, "clear") /\ ghost[b].awaiting \in Coros
        /\ ActAt(t, i, ghost[b].awaiting)
    BY <1>0, <2>1 DEF Shape, ActAt
  <2>3. x = "clear"
    BY <2>1, <2>2, SameFrame DEF FrameAt
  <2>4. PICK y \in Acts : FrameAt(t, i, ghost[b].awaiting, y)
    BY <2>2 DEF ActAt
  <2>5. i - 1 \in DOMAIN s /\ (i - 1) + 1 = i
    BY <1>2, <1>5, <2>4 DEF FrameAt
  <2>6. s[i - 1] = Frame(ghost[b].awaiting, y)
    BY <1>2, <2>4, <2>5 DEF FrameAt
  <2> QED
    BY <2>2, <2>3, <2>6 DEF AwaitsKept
<1>6. AwaitsKept(S)
  BY DEF AwaitsKept
<1>7. 1 \in Int /\ S \in SUBSET Coros
  OBVIOUS
<1>8. OneAct'
  BY <1>0, <1>2, <1>3, <1>4, <1>7, CarriesOneAct
<1>9. Shape'
  BY <1>0, <1>2, <1>3, <1>4, <1>5, <1>6, <1>7, CarriesShape
<1> QED
  BY <1>2, <1>4, <1>8, <1>9 DEF StackInv, s

LEMMA PopFrames ==
  ASSUME TypeOK, StackInv, NEW t \in Threads, NEW c \in Coros, NEW q \in Acts, At(t, c, q),
         SetStack(t, Tail(stack[t])), AwaitsKept({})
  PROVE  StackInv' /\ Phase(c) = q /\ Goes(c, "none")
<1>0. StackType /\ OneAct /\ q \in Phases /\ 1 \in Int /\ {c} \in SUBSET Coros
  BY DEF TypeOK, StackType, StackInv, Acts
<1>1. stack[t] \in Seq(Frames) /\ stack[t] # <<>> /\ FrameAt(t, 1, c, q)
  BY <1>0, TopFrame
<1> DEFINE s == Tail(stack[t])
<1>2. StackInv' /\ Carries(t, s, 1, {c}) /\ s \in Seq(Frames)
  BY <1>0, PopCarries
<1>3. ASSUME NEW i \in DOMAIN s, NEW x \in Acts, s[i] = Frame(c, x)
      PROVE  FALSE
  <2>1. ActAt(t, i + 1, c) /\ i + 1 \in Nat /\ i + 1 # 1
    BY <1>1, <1>3 DEF ActAt, FrameAt
  <2> QED
    BY <1>0, <1>1, <2>1 DEF OneAct, ActAt
<1> HIDE DEF s
<1>4. SetStack(t, s)
  BY DEF s
<1>5. Phase(c)' = "none" /\ \A b \in Coros \ {c} : Phase(b)' = Phase(b)
  BY <1>0, <1>2, <1>3, <1>4, CarriesPhase
<1> QED
  BY <1>0, <1>1, <1>2, <1>5, PhaseIs DEF Goes

PhasesKept == \A b \in Coros : Phase(b)' = Phase(b)

\* A caller of start() returns.
LEMMA PopCaller ==
  ASSUME TypeOK, StackInv, NEW t \in Threads, NEW c \in Coros, NEW q \in {"owner", "wait"},
         At(t, c, q), SetStack(t, Tail(stack[t])), AwaitsKept({})
  PROVE  StackInv' /\ PhasesKept
<1>0. StackType /\ OneAct /\ q \in Phases /\ q \notin Acts /\ 1 \in Int /\ {} \in SUBSET Coros
  BY DEF TypeOK, StackType, StackInv, Acts, Phases
<1> DEFINE s == Tail(stack[t])
<1>1. StackInv' /\ Carries(t, s, 1, {}) /\ s \in Seq(Frames)
  BY <1>0, PopCarries
<1> HIDE DEF s
<1>2. SetStack(t, s)
  BY DEF s
<1>3. \A b \in Coros : Phase(b)' = Phase(b)
  BY <1>0, <1>1, <1>2, CarriesPhase
<1> QED
  BY <1>1, <1>3 DEF PhasesKept

LEMMA SameFrames ==
  ASSUME StackInv, UNCHANGED stack, AwaitsKept({})
  PROVE  StackInv' /\ PhasesKept
<1>1. \A t, i, c, q : FrameAt(t, i, c, q)' <=> FrameAt(t, i, c, q)
  BY DEF FrameAt
<1>2. \A c \in Coros : ghost'[c].awaiting = ghost[c].awaiting
  BY DEF AwaitsKept
<1>3. OneAct'
  BY DEF StackInv, OneAct, ActAt, FrameAt
<1>4. Shape'
  BY <1>2 DEF StackInv, Shape, ActAt, FrameAt
<1>5. PhasesKept
  BY DEF PhasesKept, Phase, FrameAt
<1> QED
  BY <1>3, <1>4, <1>5 DEF StackInv

\* An idle thread begins a resume() of c, with or without a caller below it.
LEMMA BeginFrames ==
  ASSUME TypeOK, StackInv, NEW t \in Threads, NEW c \in Coros, stack[t] = <<>>,
         Phase(c) = "none", AwaitsKept({c}), NEW rest \in Seq(Frames),
         rest = <<>> \/ \E q \in Phases \ Acts : rest = <<Frame(c, q)>>,
         SetStack(t, <<Frame(c, "jump")>> \o rest)
  PROVE  StackInv' /\ Goes(c, "jump")
<1> DEFINE s == <<Frame(c, "jump")>> \o rest
<1>0. StackType /\ OneAct /\ Shape /\ "jump" \in Acts /\ "jump" \in Phases
  BY DEF TypeOK, StackType, StackInv, Acts, Phases
<1>1. /\ s \in Seq(Frames) /\ 1 \in DOMAIN s /\ s[1] = Frame(c, "jump")
      /\ \A i \in DOMAIN s : i \in Nat /\ (i > 1 => s[i] = rest[i - 1] /\ i - 1 \in DOMAIN rest)
  <2>1. Frame(c, "jump") \in Frames
    BY <1>0 DEF Frame, Frames
  <2> QED
    BY <2>1
<1> HIDE DEF s
<1>2. SetStack(t, s)
  BY DEF s
<1>3. ASSUME NEW i \in DOMAIN s, NEW b, NEW x \in Acts, s[i] = Frame(b, x)
      PROVE  i = 1 /\ b = c /\ x = "jump"
  <2>1. CASE i = 1
    BY <1>1, <1>3, <2>1, SameFrame
  <2>2. CASE i # 1
    <3>1. i > 1 /\ i - 1 \in DOMAIN rest /\ s[i] = rest[i - 1]
      BY <1>1, <2>2
    <3>2. PICK q \in Phases \ Acts : rest[i - 1] = Frame(c, q)
      BY <3>1
    <3>3. Frame(b, x) = Frame(c, q)
      BY <1>3, <3>1, <3>2
    <3>4. x = q
      BY <3>3, SameFrame
    <3> QED
      BY <3>2, <3>4
  <2> QED
    BY <2>1, <2>2
<1>4. Carries(t, s, 0, {c})
  <2>1. ASSUME NEW i, NEW b, NEW x, FrameAt(t, i, b, x) PROVE FALSE
    BY <2>1 DEF FrameAt
  <2>2. \A u \in Threads \ {t}, i \in Nat : ~ActAt(u, i, c)
    BY PhaseFrame
  <2> QED
    BY <1>3, <2>1, <2>2 DEF Carries
<1>5. 0 \in Int /\ {c} \in SUBSET Coros
  OBVIOUS
<1>6. OneAct'
  BY <1>0, <1>1, <1>2, <1>4, <1>5, CarriesOneAct
<1>7. Shape'
  BY <1>0, <1>1, <1>2, <1>3, <1>4, <1>5, CarriesShape
<1>9. Phase(c)' = "jump"
  BY <1>0, <1>1, <1>2, <1>4, <1>5, CarriesPhase
<1>10. \A b \in Coros \ {c} : Phase(b)' = Phase(b)
  BY <1>0, <1>1, <1>2, <1>4, <1>5, CarriesPhase
<1> QED
  BY <1>6, <1>7, <1>9, <1>10 DEF StackInv, Goes

\* The tail of c starts the coroutine d, which c awaits, on the same stack.
LEMMA NestFrames ==
  ASSUME TypeOK, StackInv, NEW t \in Threads, NEW c \in Coros, NEW d \in Coros,
         At(t, c, "call"), Phase(d) = "none", ghost'[c].awaiting = d, AwaitsKept({c, d}),
         SetStack(t, <<Frame(d, "jump")>> \o Moved(t, c, "clear"))
  PROVE  /\ StackInv'
         /\ c # d /\ Phase(c) = "call"
         /\ Phase(c)' = "clear" /\ Phase(d)' = "jump"
         /\ \A b \in Coros \ {c, d} : Phase(b)' = Phase(b)
<1> DEFINE s == <<Frame(d, "jump")>> \o Moved(t, c, "clear")
<1>0. StackType /\ OneAct /\ Shape
      /\ {"jump", "call", "clear"} \subseteq Acts /\ Acts \subseteq Phases
  BY DEF TypeOK, StackType, StackInv, Acts, Phases
<1>1. stack[t] \in Seq(Frames) /\ stack[t] # <<>> /\ FrameAt(t, 1, c, "call") /\ ActAt(t, 1, c)
  BY <1>0, TopFrame DEF ActAt
<1>2. /\ s \in Seq(Frames) /\ 1 \in DOMAIN s /\ 2 \in DOMAIN s
      /\ s[1] = Frame(d, "jump") /\ s[2] = Frame(c, "clear")
      /\ \A i \in DOMAIN s : i \in Nat /\ i > 0 /\ (i > 2 => i - 1 \in DOMAIN stack[t] /\ s[i] = stack[t][i - 1])
      /\ \A i \in DOMAIN stack[t] : i \in Nat /\ i > 0 /\ (i > 1 => i + 1 \in DOMAIN s /\ s[i + 1] = stack[t][i])
  <2>1. Frame(c, "clear") \in Frames /\ Frame(d, "jump") \in Frames
    BY <1>0 DEF Frame, Frames
  <2>2. /\ Moved(t, c, "clear") \in Seq(Frames) /\ Len(Moved(t, c, "clear")) = Len(stack[t])
        /\ Moved(t, c, "clear")[1] = Frame(c, "clear")
        /\ \A i \in DOMAIN stack[t] : i > 1 => Moved(t, c, "clear")[i] = stack[t][i]
    BY <1>1, <2>1 DEF Moved
  <2> QED
    BY <1>1, <2>1, <2>2
<1> HIDE DEF s
<1>3. SetStack(t, s)
  BY DEF s
<1>4. c # d /\ Phase(c) = "call"
  BY <1>0, <1>1, PhaseIs
<1>5. ASSUME NEW i \in Nat, NEW u \in Threads, ActAt(u, i, c) PROVE u = t /\ i = 1
  BY <1>0, <1>1, <1>5 DEF OneAct
<1>6. \A u \in Threads, i \in Nat : ~ActAt(u, i, d)
  BY PhaseFrame
<1>7. ASSUME NEW i \in DOMAIN s, NEW b \in Coros, NEW x \in Acts, s[i] = Frame(b, x), i > 2
      PROVE  b # c /\ b # d /\ FrameAt(t, i - 1, b, x) /\ i - 1 \in Nat
  <2>1. FrameAt(t, i - 1, b, x) /\ i - 1 \in Nat /\ i - 1 # 1
    BY <1>2, <1>7 DEF FrameAt
  <2> QED
    BY <1>5, <1>6, <2>1 DEF ActAt
<1>8. Carries(t, s, -1, {c, d})
  <2>1. ASSUME NEW i \in DOMAIN s, NEW b \in Coros \ {c, d}, NEW x \in Acts, s[i] = Frame(b, x)
        PROVE  FrameAt(t, i + (-1), b, x)
    <3>1. i # 1 /\ i # 2
      BY <1>2, <2>1, SameFrame
    <3>2. i > 2 /\ i - 1 = i + (-1)
      BY <1>2, <3>1
    <3> QED
      BY <1>7, <2>1, <3>2
  <2>2. ASSUME NEW i \in Nat, NEW b \in Coros \ {c, d}, NEW x \in Acts, FrameAt(t, i, b, x)
        PROVE  i - (-1) \in DOMAIN s /\ s[i - (-1)] = Frame(b, x)
    <3>1. i # 1
      BY <1>1, <2>2, SameFrame DEF FrameAt
    <3>2. i \in DOMAIN stack[t] /\ i > 1 /\ i - (-1) = i + 1
      BY <1>2, <2>2, <3>1 DEF FrameAt
    <3> QED
      BY <1>2, <2>2, <3>2 DEF FrameAt
  <2>3. \A b \in {c, d}, u \in Threads \ {t}, i \in Nat : ~ActAt(u, i, b)
    BY <1>5, <1>6
  <2>4. ASSUME NEW i \in DOMAIN s, NEW x \in Acts, s[i] = Frame(c, x)
        PROVE  i = 2
    <3>1. i # 1 /\ ~(i > 2)
      BY <1>2, <1>4, <1>7, <2>4, SameFrame
    <3> QED
      BY <1>2, <3>1
  <2>5. ASSUME NEW i \in DOMAIN s, NEW x \in Acts, s[i] = Frame(d, x)
        PROVE  i = 1
    <3>1. i # 2 /\ ~(i > 2)
      BY <1>2, <1>4, <1>7, <2>5, SameFrame
    <3> QED
      BY <1>2, <3>1
  <2>6. ASSUME NEW b \in {c, d}, NEW i \in DOMAIN s, NEW j \in DOMAIN s, NEW x \in Acts,
               NEW y \in Acts, s[i] = Frame(b, x), s[j] = Frame(b, y)
        PROVE  i = j
    BY <2>4, <2>5, <2>6
  <2> QED
    BY <2>1, <2>2, <2>3, <2>6 DEF Carries
<1>9. ASSUME NEW i \in DOMAIN s, NEW b \in Coros, NEW x \in Acts, s[i] = Frame(b, x), i > 1
      PROVE  /\ x = "clear"
             /\ ghost'[b].awaiting \in Coros
             /\ \E y \in Acts : s[i - 1] = Frame(ghost'[b].awaiting, y)
  <2>1. CASE i = 2
    <3>1. b = c /\ x = "clear"
      BY <1>2, <1>9, <2>1, SameFrame
    <3> QED
      BY <1>0, <1>2, <2>1, <3>1
  <2>2. CASE i # 2
    <3>1. i > 2 /\ i \in Nat
      BY <1>2, <1>9, <2>2
    <3>2. b # c /\ b # d /\ FrameAt(t, i - 1, b, x) /\ i - 1 \in Nat /\ i - 1 > 1
      BY <1>7, <1>9, <3>1
    <3>3. /\ FrameAt(t, i - 1, b, "clear") /\ ghost[b].awaiting \in Coros
          /\ ActAt(t, (i - 1) - 1, ghost[b].awaiting)
      BY <1>0, <3>2 DEF Shape, ActAt
    <3>4. x = "clear" /\ ghost'[b].awaiting = ghost[b].awaiting
      <4>1. Frame(b, x) = Frame(b, "clear")
        BY <3>2, <3>3 DEF FrameAt
      <4> QED
        BY <3>2, <4>1, SameFrame DEF AwaitsKept
    <3>5. PICK y \in Acts : FrameAt(t, (i - 1) - 1, ghost[b].awaiting, y)
      BY <3>3 DEF ActAt
    <3>6. CASE i - 1 > 2
      <4>1. i - 1 \in DOMAIN s /\ s[i - 1] = stack[t][(i - 1) - 1]
        <5>1. (i - 1) - 1 \in DOMAIN stack[t] /\ (i - 1) - 1 > 1 /\ ((i - 1) - 1) + 1 = i - 1
          BY <3>1, <3>5, <3>6 DEF FrameAt
        <5> QED
          BY <1>2, <5>1
      <4> QED
        BY <3>3, <3>4, <3>5, <4>1 DEF FrameAt
    <3>7. CASE ~(i - 1 > 2)
      <4>1. i - 1 = 2 /\ (i - 1) - 1 = 1
        BY <3>1, <3>2, <3>7
      <4>2. ghost[b].awaiting = c
        BY <1>1, <3>5, <4>1, SameFrame DEF FrameAt
      <4> QED
        BY <1>0, <1>2, <3>4, <4>1, <4>2
    <3> QED
      BY <3>6, <3>7
  <2> QED
    BY <2>1, <2>2
<1>10. -1 \in Int /\ {c, d} \in SUBSET Coros
  OBVIOUS
<1>11. OneAct'
  BY <1>0, <1>2, <1>3, <1>8, <1>10, CarriesOneAct
<1>12. Shape'
  BY <1>0, <1>2, <1>3, <1>8, <1>9, <1>10, CarriesShape
<1>14. \A b \in Coros \ {c, d} : Phase(b)' = Phase(b)
  BY <1>0, <1>2, <1>3, <1>8, <1>10, CarriesPhase
<1>15. Phase(c)' = "clear" /\ Phase(d)' = "jump"
  BY <1>0, <1>2, <1>3, <1>8, <1>10, CarriesPhase
<1> QED
  BY <1>4, <1>11, <1>12, <1>14, <1>15 DEF StackInv

\* The coroutines that thread t is in a resume() of.
On(t, b) == \E i \in Nat : ActAt(t, i, b)

\* An exception empties the stack of t: what was below the top were tails that
\* had called the start of the coroutine above.
LEMMA UnwoundFrames ==
  ASSUME TypeOK, StackInv, NEW t \in Threads, NEW c \in Coros, NEW q \in Acts, At(t, c, q),
         SetStack(t, <<>>), AwaitsKept({})
  PROVE  /\ StackInv'
         /\ Phase(c) = q /\ On(t, c)
         /\ \A b \in Coros :
              IF On(t, b)
              THEN /\ Phase(b)' = "none" /\ Phase(b) \in Acts
                   /\ b # c => /\ Phase(b) = "clear" /\ ghost[b].awaiting \in Coros
                               /\ On(t, ghost[b].awaiting)
              ELSE Phase(b)' = Phase(b)
<1>0. StackType /\ OneAct /\ Shape /\ q \in Phases /\ "clear" \in Acts /\ <<>> \in Seq(Frames)
  BY DEF TypeOK, StackType, StackInv, Acts, Phases
<1>1. stack[t] \in Seq(Frames) /\ stack[t] # <<>> /\ FrameAt(t, 1, c, q) /\ On(t, c)
  BY <1>0, TopFrame DEF On, ActAt
<1> DEFINE S == {b \in Coros : On(t, b)}
<1>2. S \in SUBSET Coros /\ 0 \in Int /\ DOMAIN <<>> = {}
  OBVIOUS
<1>3. Carries(t, <<>>, 0, S)
  <2>1. ASSUME NEW b \in Coros \ S, NEW i \in Nat, NEW x \in Acts, FrameAt(t, i, b, x) PROVE FALSE
    BY <2>1 DEF On, ActAt
  <2>2. ASSUME NEW b \in S, NEW u \in Threads \ {t}, NEW i \in Nat, ActAt(u, i, b) PROVE FALSE
    BY <1>0, <2>2 DEF On, OneAct
  <2> QED
    BY <1>2, <2>1, <2>2 DEF Carries
<1>4. OneAct'
  BY <1>0, <1>2, <1>3, CarriesOneAct
<1>5. AwaitsKept(S)
  BY DEF AwaitsKept
<1>6. Shape'
  BY <1>0, <1>2, <1>3, <1>5, CarriesShape
<1>8. ASSUME NEW b \in Coros, ~On(t, b) PROVE Phase(b)' = Phase(b)
  <2>1. b \notin S
    BY <1>8
  <2> HIDE DEF S
  <2> QED
    BY <1>0, <1>2, <1>3, <2>1, CarriesPhase
<1>9. ASSUME NEW b \in Coros, On(t, b)
      PROVE  /\ Phase(b)' = "none" /\ Phase(b) \in Acts
             /\ b # c => /\ Phase(b) = "clear" /\ ghost[b].awaiting \in Coros
                         /\ On(t, ghost[b].awaiting)
  <2>1. b \in S
    BY <1>9
  <2>2. Phase(b)' = "none"
    <3> HIDE DEF S
    <3> QED
      BY <1>0, <1>2, <1>3, <2>1, CarriesPhase
  <2>3. PICK i \in Nat, x \in Acts : FrameAt(t, i, b, x)
    BY <1>9 DEF On, ActAt
  <2>4. Phase(b) = x
    BY <1>0, <2>3, PhaseIs
  <2>5. ASSUME b # c
        PROVE  /\ Phase(b) = "clear" /\ ghost[b].awaiting \in Coros
               /\ On(t, ghost[b].awaiting)
    <3>1. i # 1
      BY <1>1, <2>3, <2>5, SameFrame DEF FrameAt
    <3>2. i > 1 /\ i - 1 \in Nat
      BY <1>1, <2>3, <3>1 DEF FrameAt
    <3>3. /\ FrameAt(t, i, b, "clear") /\ ghost[b].awaiting \in Coros
          /\ ActAt(t, i - 1, ghost[b].awaiting)
      BY <1>0, <2>3, <3>2 DEF Shape, ActAt
    <3> QED
      BY <1>0, <3>2, <3>3, PhaseIs DEF On
  <2> QED
    BY <2>2, <2>4, <2>5
<1>10. Phase(c) = q
  BY <1>0, <1>1, PhaseIs
<1> QED
  BY <1>1, <1>4, <1>6, <1>8, <1>9, <1>10 DEF StackInv

-----------------------------------------------------------------------------
(* What is pending for a coroutine.                                        *)

\* The phases in which a coroutine that has yielded may be resumed again.
Waits == {"none", "clear", "fin"}

Sent(c, fn, e) == posted[e][[fn |-> fn, co |-> c]]
Unsent(c, fn) == \A e \in Executors : Sent(c, fn, e) = 0

\* The completion callback of d has been called.
Delivered(d) == coro[d].finished /\ Phase(d) \in {"none", "release"}
AwaitDone(c) == \A d \in Coros : ghost[c].awaiting = d => Delivered(d)

\* An exception has skipped the rest of the tail of c.
Stuck(c) == Phase(c) = "none" /\ coro[c].yield_after_call # None

\* The handle and the function of the last yield in each phase.
Table(c) ==
  LET o == coro[c]
      inv == ghost[c].invoked
      ph == Phase(c) IN
  /\ ph = "none" => o.source \in {"null", "fiber"}
  /\ ph = "jump" => o.source \in {"fresh", "fiber"} /\ o.yield_after_call = None
  /\ ph = "body" => o.source = "caller"
  /\ ph = "check" => o.finished \/ (o.source = "fiber" /\ o.yield_after_call # None /\ ~inv)
  /\ ph = "call" => o.source = "fiber" /\ o.yield_after_call # None /\ ~inv
  /\ ph = "clear" => o.source = "fiber" /\ o.yield_after_call # None /\ inv
  /\ ph = "fin" => o.finished \/ (o.source = "fiber" /\ o.yield_after_call = None /\ inv)
  /\ ph = "release" => o.finished
  /\ o.source = "null" => o.finished \/ ph = "none"
  /\ o.source = "fresh" => ph = "jump"
  /\ o.source = "caller" => ph = "body"
  /\ o.source = "fiber" => inv \/ ph \in {"check", "call"}
  /\ o.source # "fiber" => o.yield_after_call = None /\ ghost[c].awaiting = None
  /\ o.finished => o.source = "null"

\* The function of the last yield is one of the three the library passes to it.
Asks(c) ==
  LET o == coro[c] IN
  o.yield_after_call # None =>
    \/ \E d \in Coros : o.yield_after_call = [fn |-> "start", co |-> d] /\ ghost[c].awaiting = d
    \/ /\ o.yield_after_call = [fn |-> "post", co |-> c]
       /\ ghost[c].awaiting = None /\ o.executor # None
    \/ /\ o.yield_after_call = [fn |-> "then", co |-> c]
       /\ ghost[c].awaiting = None /\ (o.executor # None \/ c \in Bare)

\* A coroutine nobody has started is as it was made.
Unused(c) ==
  uses[c] = 0 =>
    /\ coro[c].source = "null" /\ ~coro[c].finished
    /\ coro[c].executor = None /\ coro[c].last_call = None
    /\ Unsent(c, "start") /\ ~ghost[c].stranded

\* A task for c is posted once, to its executor, when it is due.
Posted(c) ==
  \A e \in Executors :
    /\ Sent(c, "start", e) # 0 =>
         /\ Sent(c, "start", e) = 1 /\ coro[c].executor = e
         /\ coro[c].source = "null" /\ ~coro[c].finished
    /\ Sent(c, "resume", e) # 0 =>
         /\ Sent(c, "resume", e) = 1 /\ coro[c].executor = e
         /\ coro[c].source = "fiber" /\ ghost[c].invoked /\ thens[c] = 0
         /\ Phase(c) \in Waits /\ ~Stuck(c) /\ AwaitDone(c)

\* A continuation is registered once, for a body that waits for nothing else.
Then(c) ==
  thens[c] # 0 =>
    /\ thens[c] = 1 /\ coro[c].source = "fiber" /\ ghost[c].invoked
    /\ ghost[c].awaiting = None
    /\ Phase(c) \in Waits /\ ~Stuck(c)
    /\ Unsent(c, "resume")
    /\ coro[c].executor # None \/ c \in Bare

\* An awaiter is resumed only after what it awaits has told it.
Jumping(c) == Phase(c) = "jump" => AwaitDone(c)

\* Somebody will resume a coroutine that has yielded, or it is stranded.
Resumed(c) ==
  coro[c].source = "fiber" /\ ghost[c].invoked /\ Phase(c) \in Waits =>
    \/ \E e \in Executors : Sent(c, "resume", e) = 1
    \/ thens[c] = 1
    \/ ~AwaitDone(c)
    \/ ghost[c].stranded

\* Nothing is pending for a stranded coroutine: it has not begun, or has yielded.
Adrift(c) ==
  ghost[c].stranded =>
    /\ Unsent(c, "start") /\ Unsent(c, "resume") /\ thens[c] = 0
    /\ coro[c].source \in {"null", "fiber"} /\ ~coro[c].finished
    /\ coro[c].source = "fiber" => ghost[c].invoked /\ Phase(c) \in Waits /\ AwaitDone(c)

\* A coroutine keeps itself alive from its start until it has told its awaiter.
Lives(c) ==
  LET o == coro[c] IN
  /\ o.source = "null" /\ ~o.finished => ~o.prolong_life
  /\ o.source \in {"fiber", "caller"} => o.prolong_life
  /\ o.finished /\ Phase(c) # "none" => o.prolong_life
  /\ o.finished /\ Phase(c) = "none" /\ o.prolong_life => o.last_call \in Coros

Own(c) ==
  /\ Table(c) /\ Asks(c) /\ Unused(c) /\ Posted(c) /\ Then(c)
  /\ Jumping(c) /\ Resumed(c) /\ Adrift(c) /\ Lives(c)

\* d has not been touched since it was stored for its awaiter to start.
Launching(d) ==
  /\ coro[d].source = "null" /\ ~coro[d].finished
  /\ coro[d].executor = None /\ Unsent(d, "start") /\ ~ghost[d].stranded

\* c awaits d exactly as long as the callback of d is to resume c.
Link(c, d) ==
  /\ ghost[c].awaiting = d =>
       /\ c # d /\ coro[d].last_call = c /\ uses[d] = 1 /\ coro[c].executor # None
       /\ ~ghost[c].invoked => Launching(d)
       /\ Stuck(c) => Phase(d) = "none" /\ (coro[d].finished \/ coro[d].yield_after_call # None)
  /\ coro[d].last_call = c =>
       /\ c # d /\ uses[d] = 1
       /\ Delivered(d) \/ ghost[c].awaiting = d
       /\ coro[d].finished /\ Phase(d) = "none" /\ coro[d].prolong_life =>
            /\ ghost[c].awaiting = d /\ coro[c].executor \in closed
            /\ Unsent(c, "resume") /\ thens[c] = 0 /\ Phase(c) # "jump"

\* Shutting an executor down drops its tasks, and post refuses new ones.
ClosedEmpty == \A e \in closed, c \in Coros : Sent(c, "start", e) = 0 /\ Sent(c, "resume", e) = 0

ConfInv ==
  /\ StackInv
  /\ \A c \in Coros : Own(c)
  /\ \A c, d \in Coros : Link(c, d)
  /\ closed \subseteq Closable /\ ClosedEmpty
  /\ fault = None

\* What the invariant says of b has not changed.
Same(b) ==
  /\ coro'[b] = coro[b] /\ ghost'[b] = ghost[b] /\ Phase(b)' = Phase(b)
  /\ uses'[b] = uses[b] /\ thens'[b] = thens[b]
  /\ \A fn \in {"start", "resume"}, e \in Executors : Sent(b, fn, e)' = Sent(b, fn, e)

LEMMA OwnCarries ==
  ASSUME NEW b \in Coros, Own(b), Same(b), closed \subseteq closed',
         \A d \in Coros : ghost[b].awaiting = d => (Delivered(d)' <=> Delivered(d))
  PROVE  Own(b)'
<1>1. AwaitDone(b)' <=> AwaitDone(b)
  BY DEF AwaitDone, Same
<1>2. Unsent(b, "start")' <=> Unsent(b, "start")
  BY DEF Unsent, Same
<1>3. Unsent(b, "resume")' <=> Unsent(b, "resume")
  BY DEF Unsent, Same
<1>4. Stuck(b)' <=> Stuck(b)
  BY DEF Stuck, Same
<1>6. Table(b)' /\ Asks(b)' /\ Lives(b)'
  BY DEF Own, Same, Table, Asks, Lives
<1>7. Unused(b)' /\ Then(b)' /\ Jumping(b)'
  BY <1>1, <1>2, <1>3, <1>4 DEF Own, Same, Unused, Then, Jumping
<1>8. Posted(b)' /\ Resumed(b)' /\ Adrift(b)'
  BY <1>1, <1>2, <1>3, <1>4 DEF Own, Same, Posted, Resumed, Adrift
<1> QED
  BY <1>6, <1>7, <1>8 DEF Own

LEMMA LinkCarries ==
  ASSUME NEW b \in Coros, NEW d \in Coros, Link(b, d), Same(b), Same(d), closed \subseteq closed'
  PROVE  Link(b, d)'
<1>1. /\ Unsent(d, "start")' <=> Unsent(d, "start")
      /\ Unsent(b, "resume")' <=> Unsent(b, "resume")
  BY DEF Unsent, Same
<1>2. /\ Stuck(b)' <=> Stuck(b)
      /\ Delivered(d)' <=> Delivered(d)
      /\ Launching(d)' <=> Launching(d)
  BY <1>1 DEF Stuck, Delivered, Launching, Same
<1> QED
  BY <1>1, <1>2 DEF Link, Same

\* A step that touches only the coroutines of S.
LEMMA Touch ==
  ASSUME ConfInv, NEW S \in SUBSET Coros, StackInv', \A b \in Coros \ S : Same(b),
         closed \subseteq closed', closed' \subseteq Closable, ClosedEmpty', fault' = None,
         \A c \in S : Own(c)',
         \A c \in S, b \in Coros \ S : ghost[b].awaiting = c => (Delivered(c)' <=> Delivered(c)),
         \A c \in S, b \in Coros : Link(b, c)' /\ Link(c, b)'
  PROVE  ConfInv'
<1>1. ASSUME NEW b \in Coros \ S PROVE Own(b)'
  <2>1. ASSUME NEW d \in Coros, ghost[b].awaiting = d PROVE Delivered(d)' <=> Delivered(d)
    <3>1. CASE d \in S
      BY <2>1, <3>1
    <3>2. CASE d \notin S
      BY <3>2 DEF Delivered, Same
    <3> QED
      BY <3>1, <3>2
  <2> QED
    BY <2>1, OwnCarries DEF ConfInv
<1>2. ASSUME NEW b \in Coros, NEW d \in Coros PROVE Link(b, d)'
  <2>1. CASE b \notin S /\ d \notin S
    BY <2>1, LinkCarries DEF ConfInv
  <2> QED
    BY <2>1
<1> QED
  BY <1>1, <1>2 DEF ConfInv

-----------------------------------------------------------------------------
(* What the assignments of the actions do to the fields and to the tasks.  *)

LEMMA Fields ==
  ASSUME NEW objs \in [Coros -> CoroutineContextBase], NEW c \in Coros, NEW v
  PROVE  /\ [objs EXCEPT ![c].source = v][c] = [objs[c] EXCEPT !.source = v]
         /\ [objs EXCEPT ![c].yield_after_call = v][c] = [objs[c] EXCEPT !.yield_after_call = v]
         /\ [objs EXCEPT ![c].executor = v][c] = [objs[c] EXCEPT !.executor = v]
         /\ [objs EXCEPT ![c].last_call = v][c] = [objs[c] EXCEPT !.last_call = v]
         /\ [objs EXCEPT ![c].finished = v][c] = [objs[c] EXCEPT !.finished = v]
         /\ [objs EXCEPT ![c].prolong_life = v][c] = [objs[c] EXCEPT !.prolong_life = v]
OBVIOUS

LEMMA TaskIs ==
  ASSUME NEW c, NEW fn, NEW d, NEW g, [fn |-> fn, co |-> c] = [fn |-> g, co |-> d]
  PROVE  c = d /\ fn = g
<1>1. [fn |-> fn, co |-> c].fn = fn /\ [fn |-> g, co |-> d].fn = g
  OBVIOUS
<1>2. [fn |-> fn, co |-> c].co = c /\ [fn |-> g, co |-> d].co = d
  OBVIOUS
<1> QED
  BY <1>1, <1>2

LEMMA SentType ==
  ASSUME PostedType, NEW e \in Executors, NEW c \in Coros, NEW fn \in {"start", "resume"}
  PROVE  [fn |-> fn, co |-> c] \in Tasks /\ Sent(c, fn, e) \in Nat
<1>1. [fn |-> fn, co |-> c] \in Tasks
  BY DEF Tasks
<1> QED
  BY <1>1 DEF PostedType, Sent

LEMMA PostSent ==
  ASSUME PostedType, NEW e \in Executors, NEW c \in Coros, NEW fn \in {"start", "resume"},
         Post(e, fn, c)
  PROVE  /\ Sent(c, fn, e)' = Sent(c, fn, e) + 1
         /\ \A x \in Executors, b \in Coros, g \in {"start", "resume"} :
              b # c \/ g # fn \/ x # e => Sent(b, g, x)' = Sent(b, g, x)
<1> DEFINE k == [fn |-> fn, co |-> c]
<1>1. k \in Tasks
  BY SentType
<1>2. posted' = [posted EXCEPT ![e] = [posted[e] EXCEPT ![k] = posted[e][k] + 1]]
  BY DEF Post
<1>3. posted'[e] = [posted[e] EXCEPT ![k] = posted[e][k] + 1]
      /\ \A x \in Executors : x # e => posted'[x] = posted[x]
  BY <1>2 DEF PostedType
<1>4. posted'[e][k] = posted[e][k] + 1
      /\ \A j \in Tasks : j # k => posted'[e][j] = posted[e][j]
  BY <1>1, <1>3 DEF PostedType
<1>5. ASSUME NEW x \in Executors, NEW b \in Coros, NEW g \in {"start", "resume"},
             b # c \/ g # fn \/ x # e
      PROVE  Sent(b, g, x)' = Sent(b, g, x)
  <2>1. [fn |-> g, co |-> b] \in Tasks
    BY SentType
  <2>2. x = e => [fn |-> g, co |-> b] # k
    BY <1>5, TaskIs
  <2> QED
    BY <1>3, <1>4, <2>1, <2>2 DEF Sent
<1> QED
  BY <1>4, <1>5 DEF Sent

LEMMA TakenSent ==
  ASSUME PostedType, NEW e \in Executors, NEW c \in Coros, NEW fn \in {"start", "resume"},
         Taken(e, fn, c)
  PROVE  /\ Sent(c, fn, e) > 0 /\ Sent(c, fn, e)' = Sent(c, fn, e) - 1
         /\ \A x \in Executors, b \in Coros, g \in {"start", "resume"} :
              b # c \/ g # fn \/ x # e => Sent(b, g, x)' = Sent(b, g, x)
<1> DEFINE k == [fn |-> fn, co |-> c]
<1>1. k \in Tasks
  BY SentType
<1>2. posted' = [posted EXCEPT ![e] = [posted[e] EXCEPT ![k] = posted[e][k] - 1]]
  BY DEF Taken
<1>3. posted'[e] = [posted[e] EXCEPT ![k] = posted[e][k] - 1]
      /\ \A x \in Executors : x # e => posted'[x] = posted[x]
  BY <1>2 DEF PostedType
<1>4. posted'[e][k] = posted[e][k] - 1
      /\ \A j \in Tasks : j # k => posted'[e][j] = posted[e][j]
  BY <1>1, <1>3 DEF PostedType
<1>5. ASSUME NEW x \in Executors, NEW b \in Coros, NEW g \in {"start", "resume"},
             b # c \/ g # fn \/ x # e
      PROVE  Sent(b, g, x)' = Sent(b, g, x)
  <2>1. [fn |-> g, co |-> b] \in Tasks
    BY SentType
  <2>2. x = e => [fn |-> g, co |-> b] # k
    BY <1>5, TaskIs
  <2> QED
    BY <1>3, <1>4, <2>1, <2>2 DEF Sent
<1> QED
  BY <1>4, <1>5 DEF Sent, Taken

LEMMA SameSent ==
  ASSUME UNCHANGED posted, NEW b, NEW fn, NEW e
  PROVE  Sent(b, fn, e)' = Sent(b, fn, e)
BY DEF Sent

-----------------------------------------------------------------------------
(* One lemma per operation.                                                *)

LEMMA NoneIs == None \notin Coros /\ None \notin Threads /\ None \notin Executors
BY ClientAssumption

\* What every step preserves, and the proofs about single properties start from.
Ready == TypeOK /\ ThisInv /\ ConfInv

\* Only callers of start() and shared pointers come and go.
LEMMA QuietConf ==
  ASSUME ConfInv, StackInv', PhasesKept,
         UNCHANGED <<coro, ghost, uses, thens, posted, closed, fault>>
  PROVE  ConfInv'
<1>1. \A b \in Coros : Same(b)
  BY SameSent DEF Same, PhasesKept
<1>2. ClosedEmpty'
  BY SameSent DEF ClosedEmpty, ConfInv
<1>3. {} \in SUBSET Coros
  OBVIOUS
<1> QED
  BY <1>1, <1>2, <1>3, Touch DEF ConfInv

LEMMA ReturnConf ==
  ASSUME Ready, NEW t \in Threads, NEW c \in Coros, UNCHANGED closed,
         OwnerReturns(t, c) \/ SyncWaitReturns(t, c)
  PROVE  ConfInv'
<1>1. TypeOK /\ StackInv /\ ConfInv
  BY DEF Ready, ConfInv
<1>2. AwaitsKept({})
  BY DEF AwaitsKept, OwnerReturns, SyncWaitReturns
<1>3. PICK q \in {"owner", "wait"} : At(t, c, q) /\ SetStack(t, Tail(stack[t]))
  BY DEF OwnerReturns, SyncWaitReturns
<1>4. StackInv' /\ PhasesKept
  BY <1>1, <1>2, <1>3, PopCaller
<1>5. UNCHANGED <<coro, ghost, uses, thens, posted, fault>>
  BY DEF OwnerReturns, SyncWaitReturns, client
<1> QED
  BY <1>1, <1>4, <1>5, QuietConf

LEMMA DropConf ==
  ASSUME Ready, NEW c \in Coros, UNCHANGED closed, DropHandle(c)
  PROVE  ConfInv'
<1>1. StackInv /\ ConfInv
  BY DEF Ready, ConfInv
<1>2. AwaitsKept({}) /\ UNCHANGED stack
  BY DEF AwaitsKept, DropHandle
<1>3. StackInv' /\ PhasesKept
  BY <1>1, <1>2, SameFrames
<1> QED
  BY <1>1, <1>3, QuietConf DEF DropHandle

\* A shutdown drops the tasks of coroutines that are stranded by it.
LEMMA ShutdownConf ==
  ASSUME Ready, NEW e \in Executors, Shutdown(e), fault = None
  PROVE  ConfInv'
<1>1. StackInv /\ ConfInv /\ PostedType /\ closed \subseteq Executors
  BY DEF Ready, ConfInv, TypeOK, PostedType
<1>9. \A b \in Coros : /\ ghost'[b].awaiting = ghost[b].awaiting
                        /\ ghost'[b].invoked = ghost[b].invoked
                        /\ ghost'[b].stranded = (ghost[b].stranded \/ Pending(b, e))
  BY DEF Ready, TypeOK, Ghosts, Shutdown
<1>10. \A b \in Coros : Pending(b, e) <=> Sent(b, "start", e) # 0 \/ Sent(b, "resume", e) # 0
  <2> SUFFICES ASSUME NEW b \in Coros
               PROVE  Pending(b, e) <=> Sent(b, "start", e) # 0 \/ Sent(b, "resume", e) # 0
    OBVIOUS
  <2>1. \A k \in Tasks : k.co = b => k = [fn |-> "start", co |-> b] \/ k = [fn |-> "resume", co |-> b]
    BY DEF Tasks
  <2>2. /\ [fn |-> "start", co |-> b] \in Tasks /\ [fn |-> "resume", co |-> b] \in Tasks
        /\ \A k \in Tasks : posted[e][k] \in Nat
    BY <1>1 DEF Tasks, PostedType, Shutdown
  <2> QED
    BY <2>1, <2>2 DEF Pending, Sent
<1>2. AwaitsKept({}) /\ UNCHANGED stack
  BY <1>9 DEF AwaitsKept, Shutdown
<1>3. StackInv' /\ PhasesKept
  BY <1>1, <1>2, SameFrames
<1>4. UNCHANGED <<coro, uses, thens, fault>>
      /\ closed' = closed \cup {e} /\ closed' \subseteq Closable
  BY <1>1 DEF Shutdown, client, ConfInv
<1>5. \A b \in Coros, fn \in {"start", "resume"}, x \in Executors :
        Sent(b, fn, x)' = IF x = e THEN 0 ELSE Sent(b, fn, x)
  BY <1>1, SentType DEF Shutdown, Sent, PostedType
<1>6. ASSUME NEW b \in Coros PROVE Own(b)'
  <2>1. Own(b) /\ Phase(b)' = Phase(b)
    BY <1>1, <1>3 DEF ConfInv, PhasesKept
  <2>2. AwaitDone(b)' <=> AwaitDone(b)
    BY <1>3, <1>4, <1>9 DEF AwaitDone, Delivered, PhasesKept
  <2>3. Stuck(b)' <=> Stuck(b)
    BY <1>4, <2>1 DEF Stuck
  <2>4. Table(b)' /\ Asks(b)' /\ Lives(b)'
    BY <1>4, <1>9, <2>1 DEF Own, Table, Asks, Lives
  <2>5. Then(b)' /\ Jumping(b)'
    BY <1>4, <1>5, <1>9, <2>1, <2>2, <2>3 DEF Own, Then, Jumping, Unsent
  <2>8. Unused(b)'
    BY <1>4, <1>5, <1>9, <1>10, <2>1 DEF Own, Unused, Unsent, Posted, Shutdown
  <2>6. Posted(b)'
    BY <1>4, <1>5, <1>9, <2>1, <2>2, <2>3 DEF Own, Posted
  <2>7. Resumed(b)'
    BY <1>4, <1>5, <1>9, <1>10, <2>1, <2>2 DEF Own, Resumed
  <2>9. Adrift(b)'
    <3>1. CASE ghost[b].stranded
      BY <1>4, <1>5, <1>9, <2>1, <2>2, <3>1 DEF Own, Adrift, Unsent
    <3>2. CASE Sent(b, "start", e) # 0
      BY <1>4, <1>5, <1>9, <2>1, <2>2, <3>2 DEF Own, Adrift, Posted, Then, Unsent, Shutdown
    <3>3. CASE Sent(b, "resume", e) # 0
      BY <1>4, <1>5, <1>9, <2>1, <2>2, <3>3 DEF Own, Adrift, Posted, Table, Unsent, Shutdown
    <3> QED
      BY <1>9, <1>10, <3>1, <3>2, <3>3 DEF Adrift
  <2> QED
    BY <2>4, <2>5, <2>6, <2>7, <2>8, <2>9 DEF Own
<1>7. ASSUME NEW b \in Coros, NEW d \in Coros PROVE Link(b, d)'
  <2>1. Link(b, d) /\ Phase(b)' = Phase(b) /\ Phase(d)' = Phase(d)
    BY <1>1, <1>3 DEF ConfInv, PhasesKept
  <2>2. Launching(d) => Launching(d)'
    <3>1. Own(d) /\ e \in Executors
      BY <1>1 DEF ConfInv
    <3>2. Launching(d) => ~Pending(d, e)
      BY <1>10, <3>1 DEF Own, Posted, Launching, Unsent
    <3> QED
      BY <1>4, <1>5, <1>9, <3>2 DEF Launching, Unsent
  <2> QED
    BY <1>4, <1>5, <1>9, <2>1, <2>2 DEF Link, Delivered, Stuck, Unsent
<1>8. ClosedEmpty'
  BY <1>1, <1>4, <1>5 DEF ConfInv, ClosedEmpty
<1> QED
  BY <1>1, <1>3, <1>4, <1>6, <1>7, <1>8 DEF ConfInv

\* Nobody waits to start c, or left the tail of its resume() before c had run.
Free(c) ==
  /\ ~Launching(c)
  /\ Phase(c) = "none" => ~coro[c].finished /\ coro[c].yield_after_call = None

\* c goes on awaiting what it awaits, or has stopped to.
Onward(c) ==
  \/ /\ ghost'[c].awaiting = ghost[c].awaiting
     /\ ghost[c].invoked => ghost'[c].invoked
     /\ coro'[c].executor = coro[c].executor
  \/ ghost'[c].awaiting = None /\ AwaitDone(c)

\* c is not left behind by a shutdown, or still is.
Behind(c) ==
  \/ Phase(c) = "jump" \/ ghost[c].awaiting = None \/ ~Unsent(c, "resume") \/ thens[c] # 0
  \/ /\ ghost'[c].awaiting = ghost[c].awaiting /\ coro'[c].executor = coro[c].executor
     /\ Unsent(c, "resume") => Unsent(c, "resume")'
     /\ thens'[c] = thens[c] /\ Phase(c)' # "jump"

\* A step that touches only c, and the links it has with others.
LEMMA OneConf ==
  ASSUME ConfInv, NEW c \in Coros, StackInv', \A b \in Coros \ {c} : Same(b),
         UNCHANGED <<closed, fault>>, ClosedEmpty', Own(c)',
         (Delivered(c)' <=> Delivered(c)) \/ (Delivered(c)' /\ coro[c].last_call \notin Coros),
         uses'[c] = uses[c], coro'[c].last_call = coro[c].last_call,
         Free(c), Onward(c), Behind(c), ~Stuck(c)',
         ~(coro'[c].finished /\ Phase(c)' = "none" /\ coro'[c].prolong_life)
  PROVE  ConfInv'
<1>1. ASSUME NEW b \in Coros PROVE Link(b, c)' /\ Link(c, b)'
  <2>1. Link(b, c) /\ Link(c, b)
    BY DEF ConfInv
  <2>2. CASE b = c
    BY <2>1, <2>2, NoneIs DEF Link, Onward
  <2>3. CASE b # c
    <3>1. Same(b)
      BY <2>3
    <3>2. /\ Stuck(b)' <=> Stuck(b)
          /\ Delivered(b)' <=> Delivered(b)
          /\ Launching(b)' <=> Launching(b)
          /\ Unsent(b, "resume")' <=> Unsent(b, "resume")
      BY <3>1 DEF Same, Stuck, Delivered, Launching, Unsent
    <3>3. Link(b, c)'
      BY <2>1, <3>1, <3>2 DEF Link, Same, Free
    <3>4. ghost'[c].awaiting = b => Link(c, b)'
      BY <2>1, <3>1, <3>2, NoneIs DEF Link, Same, Onward, Behind
    <3>5. ghost'[c].awaiting # b => Link(c, b)'
      BY <2>1, <3>1, <3>2, NoneIs DEF Link, Same, Onward, Behind, AwaitDone
    <3> QED
      BY <3>3, <3>4, <3>5
  <2> QED
    BY <2>2, <2>3
<1>2. \A b \in Coros \ {c} : ghost[b].awaiting = c => (Delivered(c)' <=> Delivered(c))
  BY DEF ConfInv, Link
<1>3. {c} \in SUBSET Coros /\ closed' \subseteq Closable /\ fault' = None
  BY DEF ConfInv
<1>4. \A d \in {c}, b \in Coros \ {c} : ghost[b].awaiting = d => (Delivered(d)' <=> Delivered(d))
  BY <1>2
<1>5. \A d \in {c} : Own(d)' /\ \A b \in Coros : Link(b, d)' /\ Link(d, b)'
  BY <1>1
<1> QED
  BY <1>3, <1>4, <1>5, Touch

\* A step of the resume() of c that posts nothing and touches nothing else.
Lone(c) ==
  /\ \A b \in Coros \ {c} : coro'[b] = coro[b] /\ ghost'[b] = ghost[b]
  /\ UNCHANGED <<uses, thens, posted, closed, fault>>

\* As far as c goes, it is now in phase q; and nothing is posted for it.
Alone(c, q) ==
  /\ \A b \in Coros \ {c} : Same(b)
  /\ UNCHANGED <<closed, fault>> /\ ClosedEmpty'
  /\ uses'[c] = uses[c] /\ Phase(c)' = q
Still(c) ==
  /\ thens'[c] = thens[c]
  /\ \A fn \in {"start", "resume"}, e \in Executors : Sent(c, fn, e)' = Sent(c, fn, e)

LEMMA LoneSame ==
  ASSUME ConfInv, NEW c \in Coros, NEW q, Goes(c, q), Lone(c)
  PROVE  Alone(c, q) /\ Still(c)
<1>1. \A b \in Coros, fn \in {"start", "resume"}, e \in Executors : Sent(b, fn, e)' = Sent(b, fn, e)
  BY SameSent DEF Lone
<1>2. \A b \in Coros \ {c} : Same(b)
  BY <1>1 DEF Same, Goes, Lone
<1>3. ClosedEmpty'
  BY SameSent DEF ClosedEmpty, ConfInv, Lone
<1> QED
  BY <1>1, <1>2, <1>3 DEF Lone, Goes, Alone, Still

\* resume() switches into the fiber.
LEMMA EnterConf ==
  ASSUME Ready, NEW t \in Threads, NEW c \in Coros, UNCHANGED closed, Enter(t, c)
  PROVE  ConfInv'
<1>1. TypeOK /\ ConfInv /\ StackInv /\ Own(c) /\ CoroType
  BY DEF Ready, ConfInv, TypeOK, CoroType
<1>2. {"jump", "body"} \subseteq Acts
  BY DEF Acts, Phases
<1>3. AwaitsKept({c})
  BY DEF AwaitsKept, Enter, WaitOver, Ready, TypeOK
<1>4. StackInv' /\ Phase(c) = "jump" /\ Goes(c, "body")
  BY <1>1, <1>2, <1>3, MoveFrames DEF Enter
<1>5. Lone(c)
  BY <1>1 DEF CoroType, TypeOK, Lone, Enter, Entered, WaitOver, client
<1>6. /\ coro[c].source \in {"fresh", "fiber"}
      /\ coro'[c].source = "caller"
      /\ coro'[c].prolong_life = (coro[c].prolong_life \/ coro[c].source = "fresh")
      /\ coro'[c].yield_after_call = coro[c].yield_after_call
      /\ coro'[c].executor = coro[c].executor
      /\ coro'[c].last_call = coro[c].last_call
      /\ coro'[c].finished = coro[c].finished
  BY <1>1 DEF CoroType, CoroutineContextBase, Enter, Resumable, Entered
<1>7. /\ ghost'[c].awaiting = None /\ ghost'[c].invoked = ghost[c].invoked
      /\ ~ghost'[c].stranded
  BY <1>1 DEF TypeOK, Ghosts, Enter, WaitOver
<1>8. Alone(c, "body") /\ Still(c)
  BY <1>1, <1>4, <1>5, LoneSame
<1>9. Own(c)'
  <2>1. Table(c)' /\ Lives(c)' /\ Asks(c)'
    BY <1>1, <1>4, <1>6, <1>7, <1>8 DEF Own, Table, Lives, Asks, Alone
  <2>2. Unused(c)' /\ Jumping(c)' /\ Resumed(c)' /\ Adrift(c)'
    BY <1>1, <1>6, <1>7, <1>8 DEF Own, Unused, Jumping, Resumed, Alone, Adrift
  <2>3. Posted(c)' /\ Then(c)'
    BY <1>1, <1>4, <1>6, <1>7, <1>8 DEF Own, Posted, Then, Waits, Table, Still
  <2> QED
    BY <2>1, <2>2, <2>3 DEF Own
<1>10. Free(c) /\ Onward(c) /\ Behind(c)
  BY <1>1, <1>4, <1>6, <1>7 DEF Own, Jumping, Free, Launching, Onward, Behind
<1>11. ~Delivered(c) /\ ~Delivered(c)' /\ ~Stuck(c)'
  BY <1>4, <1>8 DEF Delivered, Stuck, Alone
<1> QED
  BY <1>1, <1>4, <1>6, <1>8, <1>9, <1>10, <1>11, OneConf DEF Alone

\* Back from the fiber: there is a function to call after a yield only.
LEMMA CheckConf ==
  ASSUME Ready, NEW t \in Threads, NEW c \in Coros, UNCHANGED closed, Check(t, c)
  PROVE  ConfInv'
<1>1. TypeOK /\ ConfInv /\ StackInv /\ Own(c)
  BY DEF Ready, ConfInv
<1>2. {"check", "call", "fin"} \subseteq Acts
  BY DEF Acts, Phases
<1>3. AwaitsKept({c})
  BY DEF AwaitsKept, Check
<1>4. PICK q \in {"call", "fin"} : q = AfterSwitch(c)
  BY DEF AfterSwitch
<1>5. StackInv' /\ Phase(c) = "check" /\ Goes(c, q)
  BY <1>1, <1>2, <1>3, <1>4, MoveFrames DEF Check
<1>6. Lone(c) /\ UNCHANGED <<coro, ghost>>
  BY DEF Lone, Check, client
<1>7. Alone(c, q) /\ Still(c)
  BY <1>1, <1>5, <1>6, LoneSame
<1>8. q = IF coro[c].yield_after_call # None THEN "call" ELSE "fin"
  BY <1>4 DEF AfterSwitch
<1>9. Own(c)'
  <2>1. Table(c)' /\ Lives(c)' /\ Asks(c)'
    BY <1>1, <1>5, <1>6, <1>7, <1>8 DEF Own, Table, Lives, Asks, Alone
  <2>2. Unused(c)' /\ Jumping(c)' /\ Posted(c)' /\ Then(c)'
    BY <1>1, <1>5, <1>6, <1>7
    DEF Own, Unused, Jumping, Alone, Posted, Then, Waits, Table, Still, Unsent
  <2>3. Resumed(c)' /\ Adrift(c)'
    BY <1>1, <1>5, <1>6, <1>7, <1>8 DEF Own, Table, Resumed, Adrift, Alone, Waits
  <2> QED
    BY <2>1, <2>2, <2>3 DEF Own
<1>10. Free(c) /\ Onward(c) /\ Behind(c)
  BY <1>1, <1>5, <1>6, <1>7 DEF Own, Table, Free, Launching, Onward, Behind, Alone, Still, Unsent
<1>11. ~Delivered(c) /\ ~Delivered(c)' /\ ~Stuck(c)'
  BY <1>5, <1>7 DEF Delivered, Stuck, Alone
<1> QED
  BY <1>1, <1>5, <1>6, <1>7, <1>9, <1>10, <1>11, OneConf DEF Alone

LEMMA ClearConf ==
  ASSUME Ready, NEW t \in Threads, NEW c \in Coros, UNCHANGED closed, Clear(t, c)
  PROVE  ConfInv'
<1>1. TypeOK /\ ConfInv /\ StackInv /\ Own(c) /\ CoroType
  BY DEF Ready, ConfInv, TypeOK, CoroType
<1>2. {"clear", "fin"} \subseteq Acts
  BY DEF Acts, Phases
<1>3. AwaitsKept({c})
  BY DEF AwaitsKept, Clear
<1>4. StackInv' /\ Phase(c) = "clear" /\ Goes(c, "fin")
  BY <1>1, <1>2, <1>3, MoveFrames DEF Clear
<1>5. Lone(c) /\ UNCHANGED ghost
  BY <1>1 DEF CoroType, Lone, Clear, Cleared, client
<1>6. Alone(c, "fin") /\ Still(c)
  BY <1>1, <1>4, <1>5, LoneSame
<1>7. /\ coro'[c].source = coro[c].source
      /\ coro'[c].prolong_life = coro[c].prolong_life
      /\ coro'[c].yield_after_call = None
      /\ coro'[c].executor = coro[c].executor
      /\ coro'[c].last_call = coro[c].last_call
      /\ coro'[c].finished = coro[c].finished
  BY <1>1 DEF CoroType, CoroutineContextBase, Clear, Cleared
<1>8. /\ coro[c].source = "fiber" /\ coro[c].yield_after_call # None /\ ghost[c].invoked
      /\ ~coro[c].finished
  BY <1>1, <1>4 DEF Own, Table
<1>9. AwaitDone(c)' <=> AwaitDone(c)
  BY <1>4, <1>5, <1>6, <1>7, <1>8 DEF AwaitDone, Delivered, Alone, Same
<1>10. Own(c)'
  <2>1. Table(c)' /\ Lives(c)' /\ Asks(c)'
    BY <1>1, <1>4, <1>5, <1>6, <1>7, <1>8 DEF Own, Table, Lives, Asks, Alone
  <2>2. Unused(c)' /\ Jumping(c)'
    BY <1>1, <1>6, <1>7, <1>8 DEF Own, Unused, Jumping, Alone
  <2>3. Posted(c)' /\ Then(c)'
    BY <1>1, <1>4, <1>5, <1>6, <1>7, <1>8, <1>9
    DEF Own, Posted, Then, Waits, Alone, Still, Unsent, Stuck
  <2>4. Resumed(c)'
    BY <1>1, <1>4, <1>5, <1>6, <1>7, <1>8, <1>9 DEF Own, Resumed, Alone, Still, Waits
  <2>5. Adrift(c)'
    BY <1>1, <1>4, <1>5, <1>6, <1>7, <1>8, <1>9 DEF Own, Adrift, Alone, Still, Waits, Unsent
  <2> QED
    BY <2>1, <2>2, <2>3, <2>4, <2>5 DEF Own
<1>11. Free(c) /\ Onward(c) /\ Behind(c)
  BY <1>4, <1>5, <1>6, <1>7, <1>8 DEF Free, Launching, Onward, Behind, Alone, Still, Unsent
<1>12. ~Delivered(c) /\ ~Delivered(c)' /\ ~Stuck(c)'
  BY <1>4, <1>6, <1>7, <1>8 DEF Delivered, Stuck, Alone
<1> QED
  BY <1>1, <1>4, <1>6, <1>7, <1>10, <1>11, <1>12, OneConf DEF Alone

LEMMA NotFinishedConf ==
  ASSUME Ready, NEW t \in Threads, NEW c \in Coros, UNCHANGED closed, NotFinished(t, c)
  PROVE  ConfInv'
<1>1. TypeOK /\ ConfInv /\ StackInv /\ Own(c)
  BY DEF Ready, ConfInv
<1>2. "fin" \in Acts
  BY DEF Acts, Phases
<1>3. AwaitsKept({})
  BY DEF AwaitsKept, NotFinished
<1>4. StackInv' /\ Phase(c) = "fin" /\ Goes(c, "none")
  BY <1>1, <1>2, <1>3, PopFrames DEF NotFinished
<1>5. Lone(c) /\ UNCHANGED <<coro, ghost>> /\ ~coro[c].finished
  BY DEF Lone, NotFinished, IsFinished, client
<1>6. Alone(c, "none") /\ Still(c)
  BY <1>1, <1>4, <1>5, LoneSame
<1>7. coro[c].source = "fiber" /\ coro[c].yield_after_call = None /\ ghost[c].invoked
  BY <1>1, <1>4, <1>5 DEF Own, Table
<1>8. AwaitDone(c)' <=> AwaitDone(c)
  BY <1>5, <1>6 DEF AwaitDone, Delivered, Alone, Same
<1>9. Own(c)'
  <2>1. Table(c)' /\ Lives(c)' /\ Asks(c)'
    BY <1>1, <1>4, <1>5, <1>6, <1>7 DEF Own, Table, Lives, Asks, Alone
  <2>2. Unused(c)' /\ Jumping(c)'
    BY <1>1, <1>5, <1>6, <1>7 DEF Own, Unused, Jumping, Alone
  <2>3. Posted(c)' /\ Then(c)'
    BY <1>1, <1>4, <1>5, <1>6, <1>7, <1>8 DEF Own, Posted, Then, Waits, Alone, Still, Unsent, Stuck
  <2>4. Resumed(c)'
    BY <1>1, <1>4, <1>5, <1>6, <1>8 DEF Own, Resumed, Alone, Still, Waits
  <2>5. Adrift(c)'
    BY <1>1, <1>4, <1>5, <1>6, <1>7, <1>8 DEF Own, Adrift, Alone, Still, Waits, Unsent
  <2> QED
    BY <2>1, <2>2, <2>3, <2>4, <2>5 DEF Own
<1>10. Free(c) /\ Onward(c) /\ Behind(c)
  BY <1>4, <1>5, <1>6, <1>7 DEF Free, Launching, Onward, Behind, Alone, Still, Unsent
<1>11. ~Delivered(c) /\ ~Delivered(c)' /\ ~Stuck(c)'
  BY <1>5, <1>6, <1>7 DEF Delivered, Stuck, Alone
<1> QED
  BY <1>1, <1>4, <1>5, <1>6, <1>9, <1>10, <1>11, OneConf DEF Alone

\* A coroutine that nobody awaits has finished.
LEMMA LastCallConf ==
  ASSUME Ready, NEW t \in Threads, NEW c \in Coros, UNCHANGED closed,
         LastCallEmpty(t, c) \/ \E w \in Threads : LastCallEvent(t, c, w)
  PROVE  ConfInv'
<1>1. TypeOK /\ ConfInv /\ StackInv /\ Own(c)
  BY DEF Ready, ConfInv
<1>2. "fin" \in Acts /\ "release" \in Acts
  BY DEF Acts, Phases
<1>3. AwaitsKept({c})
  BY DEF AwaitsKept, LastCallEmpty, LastCallEvent
<1>4. At(t, c, "fin") /\ SetStack(t, Moved(t, c, "release"))
  BY DEF LastCallEmpty, LastCallEvent
<1>5. StackInv' /\ Phase(c) = "fin" /\ Goes(c, "release")
  BY <1>1, <1>2, <1>3, <1>4, MoveFrames
<1>6. /\ Lone(c) /\ UNCHANGED <<coro, ghost>>
      /\ coro[c].finished /\ coro[c].last_call \notin Coros
  BY ClientAssumption DEF Lone, LastCallEmpty, LastCallEvent, IsFinished, client
<1>7. Alone(c, "release") /\ Still(c)
  BY <1>1, <1>5, <1>6, LoneSame
<1>8. coro[c].source = "null" /\ coro[c].yield_after_call = None /\ ghost[c].awaiting = None
  BY <1>1, <1>6 DEF Own, Table
<1>9. Own(c)'
  <2>1. Table(c)' /\ Lives(c)' /\ Asks(c)'
    BY <1>1, <1>5, <1>6, <1>7, <1>8 DEF Own, Table, Lives, Asks, Alone
  <2>2. Unused(c)' /\ Jumping(c)' /\ Resumed(c)' /\ Adrift(c)'
    BY <1>1, <1>5, <1>6, <1>7, <1>8 DEF Own, Unused, Jumping, Resumed, Adrift, Alone
  <2>3. Posted(c)' /\ Then(c)'
    BY <1>1, <1>6, <1>7, <1>8 DEF Own, Posted, Then, Still
  <2> QED
    BY <2>1, <2>2, <2>3 DEF Own
<1>10. Free(c) /\ Onward(c) /\ Behind(c)
  BY <1>5, <1>6, <1>7, <1>8 DEF Free, Launching, Onward, Behind
<1>11. Delivered(c)' /\ ~Stuck(c)' /\ Phase(c)' # "none"
  BY <1>6, <1>7 DEF Delivered, Stuck, Alone
<1> QED
  BY <1>1, <1>5, <1>6, <1>7, <1>9, <1>10, <1>11, OneConf DEF Alone

LEMMA ReleaseConf ==
  ASSUME Ready, NEW t \in Threads, NEW c \in Coros, UNCHANGED closed, Release(t, c)
  PROVE  ConfInv'
<1>1. TypeOK /\ ConfInv /\ StackInv /\ Own(c) /\ CoroType
  BY DEF Ready, ConfInv, TypeOK, CoroType
<1>2. "release" \in Acts
  BY DEF Acts, Phases
<1>3. AwaitsKept({})
  BY DEF AwaitsKept, Release
<1>4. StackInv' /\ Phase(c) = "release" /\ Goes(c, "none")
  BY <1>1, <1>2, <1>3, PopFrames DEF Release
<1>5. Lone(c) /\ UNCHANGED ghost
  BY <1>1 DEF CoroType, Lone, Release, Released, client
<1>6. Alone(c, "none") /\ Still(c)
  BY <1>1, <1>4, <1>5, LoneSame
<1>7. /\ coro'[c].source = coro[c].source
      /\ coro'[c].prolong_life = FALSE
      /\ coro'[c].yield_after_call = coro[c].yield_after_call
      /\ coro'[c].executor = coro[c].executor
      /\ coro'[c].last_call = coro[c].last_call
      /\ coro'[c].finished = coro[c].finished
  BY <1>1 DEF CoroType, CoroutineContextBase, Release, Released
<1>8. /\ coro[c].source = "null" /\ coro[c].yield_after_call = None /\ ghost[c].awaiting = None
      /\ coro[c].finished
  BY <1>1, <1>4 DEF Own, Table
<1>9. Own(c)'
  <2>1. Table(c)' /\ Lives(c)' /\ Asks(c)'
    BY <1>1, <1>4, <1>5, <1>6, <1>7, <1>8 DEF Own, Table, Lives, Asks, Alone
  <2>2. Unused(c)' /\ Jumping(c)' /\ Resumed(c)' /\ Adrift(c)'
    BY <1>1, <1>5, <1>6, <1>7, <1>8 DEF Own, Unused, Jumping, Resumed, Adrift, Alone
  <2>3. Posted(c)' /\ Then(c)'
    BY <1>1, <1>6, <1>7, <1>8 DEF Own, Posted, Then, Still
  <2> QED
    BY <2>1, <2>2, <2>3 DEF Own
<1>10. Free(c) /\ Onward(c) /\ Behind(c)
  BY <1>4, <1>5, <1>6, <1>7, <1>8 DEF Free, Launching, Onward, Behind
<1>11. Delivered(c) /\ Delivered(c)' /\ ~Stuck(c)'
  BY <1>4, <1>6, <1>7, <1>8 DEF Delivered, Stuck, Alone
<1> QED
  BY <1>1, <1>4, <1>6, <1>7, <1>9, <1>10, <1>11, OneConf DEF Alone

\* The body returns.
LEMMA FinishConf ==
  ASSUME Ready, NEW t \in Threads, NEW c \in Coros, UNCHANGED closed, Finish(t, c)
  PROVE  ConfInv'
<1>1. TypeOK /\ ConfInv /\ StackInv /\ Own(c) /\ CoroType
  BY DEF Ready, ConfInv, TypeOK, CoroType
<1>2. "body" \in Acts /\ "check" \in Acts
  BY DEF Acts, Phases
<1>3. AwaitsKept({c})
  BY DEF AwaitsKept, Finish
<1>4. StackInv' /\ Phase(c) = "body" /\ Goes(c, "check")
  BY <1>1, <1>2, <1>3, MoveFrames DEF Finish
<1>5. Lone(c) /\ UNCHANGED ghost
  BY <1>1 DEF CoroType, Lone, Finish, client
<1>6. Alone(c, "check") /\ Still(c)
  BY <1>1, <1>4, <1>5, LoneSame
<1>7. /\ coro'[c].source = "null"
      /\ coro'[c].prolong_life = coro[c].prolong_life
      /\ coro'[c].yield_after_call = coro[c].yield_after_call
      /\ coro'[c].executor = coro[c].executor
      /\ coro'[c].last_call = coro[c].last_call
      /\ coro'[c].finished = TRUE
  BY <1>1 DEF CoroType, CoroutineContextBase, Finish
<1>8. /\ coro[c].source = "caller" /\ coro[c].yield_after_call = None /\ ghost[c].awaiting = None
      /\ ~coro[c].finished
  BY <1>1, <1>4 DEF Own, Table
<1>9. Own(c)'
  <2>1. Table(c)' /\ Lives(c)' /\ Asks(c)'
    BY <1>1, <1>4, <1>5, <1>6, <1>7, <1>8 DEF Own, Table, Lives, Asks, Alone
  <2>2. Unused(c)' /\ Jumping(c)' /\ Resumed(c)' /\ Adrift(c)'
    BY <1>1, <1>5, <1>6, <1>7, <1>8 DEF Own, Unused, Jumping, Resumed, Adrift, Alone
  <2>3. Posted(c)' /\ Then(c)'
    BY <1>1, <1>6, <1>7, <1>8 DEF Own, Posted, Then, Still
  <2> QED
    BY <2>1, <2>2, <2>3 DEF Own
<1>10. Free(c) /\ Onward(c) /\ Behind(c)
  BY <1>4, <1>5, <1>6, <1>7, <1>8 DEF Free, Launching, Onward, Behind
<1>11. ~Delivered(c) /\ ~Delivered(c)' /\ ~Stuck(c)' /\ Phase(c)' # "none"
  BY <1>4, <1>6, <1>7, <1>8 DEF Delivered, Stuck, Alone
<1> QED
  BY <1>1, <1>4, <1>6, <1>7, <1>9, <1>10, <1>11, OneConf DEF Alone

\* A body yields, to hop to an executor or to await an async task.
LEMMA SuspendConf ==
  ASSUME Ready, NEW t \in Threads, NEW c \in Coros, UNCHANGED closed,
         AwaitTask(t, c) \/ \E e \in Executors : RunOn(t, c, e)
  PROVE  ConfInv'
<1>1. TypeOK /\ ConfInv /\ StackInv /\ Own(c) /\ CoroType
  BY DEF Ready, ConfInv, TypeOK, CoroType
<1>2. "body" \in Acts /\ "check" \in Acts
  BY DEF Acts, Phases
<1>3. AwaitsKept({c})
  BY <1>1 DEF AwaitsKept, AwaitTask, RunOn, Switch, TypeOK
<1>4. At(t, c, "body") /\ SetStack(t, Moved(t, c, "check"))
  BY DEF AwaitTask, RunOn, Switch, InBody
<1>5. StackInv' /\ Phase(c) = "body" /\ Goes(c, "check")
  BY <1>1, <1>2, <1>3, <1>4, MoveFrames
<1>6. Lone(c)
  BY <1>1 DEF CoroType, TypeOK, Lone, AwaitTask, RunOn, Yielded, Switch
<1>7. Alone(c, "check") /\ Still(c)
  BY <1>1, <1>5, <1>6, LoneSame
<1>8. /\ coro[c].source = "caller" /\ coro[c].yield_after_call = None /\ ghost[c].awaiting = None
      /\ ~coro[c].finished
  BY <1>1, <1>5 DEF Own, Table
<1>9. /\ ghost'[c].awaiting = None /\ ~ghost'[c].invoked
      /\ ghost'[c].stranded = ghost[c].stranded
  <2>1. ghost \in [Coros -> Ghosts]
    BY <1>1 DEF TypeOK
  <2>2. ghost' = [ghost EXCEPT ![c].invoked = FALSE, ![c].awaiting = None]
    BY DEF AwaitTask, RunOn, Switch
  <2> QED
    BY <2>1, <2>2 DEF Ghosts
<1>10. /\ coro'[c].source = "fiber"
       /\ coro'[c].prolong_life = coro[c].prolong_life
       /\ coro'[c].last_call = coro[c].last_call
       /\ coro'[c].finished = coro[c].finished
       /\ \/ /\ coro'[c].yield_after_call = [fn |-> "then", co |-> c]
             /\ coro'[c].executor = coro[c].executor /\ MayAwait(c)
          \/ /\ coro'[c].yield_after_call = [fn |-> "post", co |-> c]
             /\ coro'[c].executor \in Executors
  <2>1. CASE AwaitTask(t, c)
    BY <1>1, <2>1 DEF AwaitTask, Yielded, CoroType, CoroutineContextBase
  <2>2. ASSUME NEW e \in Executors, RunOn(t, c, e)
        PROVE  /\ coro'[c].source = "fiber"
               /\ coro'[c].prolong_life = coro[c].prolong_life
               /\ coro'[c].last_call = coro[c].last_call
               /\ coro'[c].finished = coro[c].finished
               /\ coro'[c].yield_after_call = [fn |-> "post", co |-> c]
               /\ coro'[c].executor = e
    <3> DEFINE objs == [coro EXCEPT ![c].executor = e]
    <3>1. objs \in [Coros -> CoroutineContextBase]
      BY <1>1, FieldType DEF CoroType
    <3>2. /\ objs[c].prolong_life = coro[c].prolong_life
          /\ objs[c].last_call = coro[c].last_call
          /\ objs[c].finished = coro[c].finished
          /\ objs[c].executor = e
      BY <1>1 DEF CoroType, CoroutineContextBase
    <3>3. coro' = Yielded(objs, c, [fn |-> "post", co |-> c])
      BY <2>2 DEF RunOn
    <3> HIDE DEF objs
    <3> QED
      BY <3>1, <3>2, <3>3 DEF Yielded, CoroutineContextBase
  <2> QED
    BY <2>1, <2>2
<1>11. coro'[c].yield_after_call # None
  <2>1. coro'[c].yield_after_call \in Callbacks
    BY <1>10 DEF Callbacks
  <2> QED
    BY <2>1, NoneAssumption
<1>12. Own(c)'
  <2>1. Table(c)' /\ Lives(c)'
    BY <1>1, <1>5, <1>7, <1>8, <1>9, <1>10, <1>11 DEF Own, Table, Lives, Alone
  <2>2. Asks(c)'
    BY <1>9, <1>10, NoneIs DEF Asks, MayAwait
  <2>3. Unused(c)' /\ Jumping(c)' /\ Resumed(c)' /\ Adrift(c)'
    BY <1>1, <1>7, <1>8, <1>9, <1>10 DEF Own, Unused, Jumping, Resumed, Adrift, Alone
  <2>4. Posted(c)' /\ Then(c)'
    BY <1>1, <1>7, <1>8, <1>10 DEF Own, Posted, Then, Still
  <2> QED
    BY <2>1, <2>2, <2>3, <2>4 DEF Own
<1>13. Free(c) /\ Onward(c) /\ Behind(c)
  BY <1>5, <1>8, <1>9, NoneIs DEF Free, Launching, Onward, Behind, AwaitDone
<1>14. ~Delivered(c) /\ ~Delivered(c)' /\ ~Stuck(c)' /\ Phase(c)' # "none"
  BY <1>5, <1>7, <1>8, <1>10 DEF Delivered, Stuck, Alone
<1> QED
  BY <1>1, <1>5, <1>7, <1>10, <1>12, <1>13, <1>14, OneConf DEF Alone

\* A step that posts or takes a task of c, and touches nothing else.
Solo(c) ==
  /\ \A b \in Coros \ {c} : coro'[b] = coro[b] /\ ghost'[b] = ghost[b] /\ thens'[b] = thens[b]
  /\ UNCHANGED <<uses, closed, fault>>

LEMMA PostAlone ==
  ASSUME ConfInv, TypeOK, NEW c \in Coros, NEW q, Goes(c, q), Solo(c),
         NEW e \in Executors, e \notin closed, Post(e, "resume", c)
  PROVE  /\ Alone(c, q)
         /\ Sent(c, "resume", e)' = Sent(c, "resume", e) + 1
         /\ \A x \in Executors \ {e} : Sent(c, "resume", x)' = Sent(c, "resume", x)
         /\ \A x \in Executors : Sent(c, "start", x)' = Sent(c, "start", x)
<1>1. PostedType /\ closed \subseteq Executors
  BY DEF TypeOK, PostedType
<1>2. /\ Sent(c, "resume", e)' = Sent(c, "resume", e) + 1
      /\ \A x \in Executors, b \in Coros, g \in {"start", "resume"} :
           b # c \/ g # "resume" \/ x # e => Sent(b, g, x)' = Sent(b, g, x)
  BY <1>1, PostSent
<1>3. \A b \in Coros \ {c} : Same(b)
  BY <1>2 DEF Same, Goes, Solo
<1>4. ClosedEmpty'
  BY <1>1, <1>2 DEF ClosedEmpty, ConfInv, Solo
<1> QED
  BY <1>2, <1>3, <1>4 DEF Alone, Solo, Goes

LEMMA TakenAlone ==
  ASSUME ConfInv, TypeOK, NEW c \in Coros, NEW q, Goes(c, q), Solo(c),
         NEW e \in Executors, NEW fn \in {"start", "resume"}, Taken(e, fn, c)
  PROVE  /\ Alone(c, q)
         /\ Sent(c, fn, e) > 0 /\ Sent(c, fn, e)' = Sent(c, fn, e) - 1
         /\ \A g \in {"start", "resume"}, x \in Executors :
              g # fn \/ x # e => Sent(c, g, x)' = Sent(c, g, x)
<1>1. PostedType /\ closed \subseteq Executors
  BY DEF TypeOK, PostedType
<1>2. /\ Sent(c, fn, e) > 0 /\ Sent(c, fn, e)' = Sent(c, fn, e) - 1
      /\ \A x \in Executors, b \in Coros, g \in {"start", "resume"} :
           b # c \/ g # fn \/ x # e => Sent(b, g, x)' = Sent(b, g, x)
  BY <1>1, TakenSent
<1>3. \A b \in Coros \ {c} : Same(b)
  BY <1>2 DEF Same, Goes, Solo
<1>4. e \notin closed
  BY <1>2 DEF ConfInv, ClosedEmpty
<1>5. ClosedEmpty'
  BY <1>1, <1>2, <1>4 DEF ClosedEmpty, ConfInv, Solo
<1> QED
  BY <1>2, <1>3, <1>5 DEF Alone, Solo, Goes

LEMMA ThenAlone ==
  ASSUME ConfInv, NEW c \in Coros, NEW q, Goes(c, q), Solo(c), UNCHANGED posted
  PROVE  /\ Alone(c, q)
         /\ \A g \in {"start", "resume"}, x \in Executors : Sent(c, g, x)' = Sent(c, g, x)
<1>1. \A b \in Coros, g \in {"start", "resume"}, x \in Executors : Sent(b, g, x)' = Sent(b, g, x)
  BY SameSent
<1>2. \A b \in Coros \ {c} : Same(b)
  BY <1>1 DEF Same, Goes, Solo
<1>3. ClosedEmpty'
  BY SameSent DEF ClosedEmpty, ConfInv, Solo
<1> QED
  BY <1>1, <1>2, <1>3 DEF Alone, Solo, Goes

\* The function of runOn, or that of await(task), is called.
LEMMA CallOwnConf ==
  ASSUME Ready, NEW t \in Threads, NEW c \in Coros, UNCHANGED closed,
         CallPost(t, c) \/ CallThen(t, c)
  PROVE  ConfInv'
<1>1. TypeOK /\ ConfInv /\ StackInv /\ Own(c)
  BY DEF Ready, ConfInv
<1>2. "call" \in Acts /\ "clear" \in Acts
  BY DEF Acts, Phases
<1>3. ghost \in [Coros -> Ghosts] /\ thens \in [Coros -> Nat] /\ PostedType
  BY <1>1 DEF TypeOK, PostedType
<1>4. ghost' = [ghost EXCEPT ![c].invoked = TRUE]
  BY DEF CallPost, CallThen, Invoked
<1>5. /\ ghost'[c].invoked /\ ghost'[c].awaiting = ghost[c].awaiting
      /\ ghost'[c].stranded = ghost[c].stranded
      /\ \A b \in Coros \ {c} : ghost'[b] = ghost[b]
  BY <1>3, <1>4 DEF Ghosts
<1>6. AwaitsKept({c})
  BY <1>5 DEF AwaitsKept
<1>7. At(t, c, "call") /\ SetStack(t, Moved(t, c, "clear"))
  BY DEF CallPost, CallThen
<1>8. StackInv' /\ Phase(c) = "call" /\ Goes(c, "clear")
  BY <1>1, <1>2, <1>6, <1>7, MoveFrames
<1>9. Solo(c) /\ UNCHANGED coro
  BY <1>3, <1>5 DEF Solo, CallPost, CallThen, client
<1>10. /\ coro[c].source = "fiber" /\ coro[c].yield_after_call # None /\ ~ghost[c].invoked
       /\ ~coro[c].finished
  BY <1>1, <1>8 DEF Own, Table
<1>11. ghost[c].awaiting = None
  <2>1. \E fn \in {"post", "then"} : coro[c].yield_after_call = [fn |-> fn, co |-> c]
    BY DEF CallPost, CallThen
  <2>2. \A d : coro[c].yield_after_call # [fn |-> "start", co |-> d]
    BY <2>1, TaskIs
  <2> QED
    BY <1>1, <1>10, <2>2 DEF Own, Asks
<1>12. \A x \in Executors : Sent(c, "resume", x) = 0 /\ Sent(c, "start", x) = 0
  BY <1>1, <1>8, <1>10 DEF Own, Posted, Waits
<1>13. thens[c] = 0
  BY <1>1, <1>8 DEF Own, Then, Waits
<1>14. /\ Alone(c, "clear")
       /\ \A x \in Executors : Sent(c, "start", x)' = 0
       /\ \/ /\ thens'[c] = 0
             /\ \E x \in Executors : Sent(c, "resume", x)' = 1
             /\ \A x \in Executors : Sent(c, "resume", x)' # 0 =>
                  Sent(c, "resume", x)' = 1 /\ coro[c].executor = x
          \/ /\ thens'[c] = 1
             /\ coro[c].executor # None \/ c \in Bare
             /\ \A x \in Executors : Sent(c, "resume", x)' = 0
  <2>1. CASE CallPost(t, c)
    <3>1. coro[c].executor \in Executors
      <4>1. coro[c].executor # None
        <5>1. coro[c].yield_after_call = [fn |-> "post", co |-> c]
          BY <2>1 DEF CallPost
        <5>2. \A d : coro[c].yield_after_call # [fn |-> "start", co |-> d]
                  /\ coro[c].yield_after_call # [fn |-> "then", co |-> d]
          BY <5>1, TaskIs
        <5> QED
          BY <1>1, <1>10, <5>2 DEF Own, Asks
      <4> QED
        BY <1>1, <4>1 DEF TypeOK, CoroutineContextBase
    <3>2. PICK e \in Executors : e = coro[c].executor
      BY <3>1
    <3>3. e \notin closed /\ Post(e, "resume", c) /\ thens' = thens
      BY <2>1, <3>2 DEF CallPost, Refused
    <3>4. /\ Alone(c, "clear")
          /\ Sent(c, "resume", e)' = Sent(c, "resume", e) + 1
          /\ \A x \in Executors \ {e} : Sent(c, "resume", x)' = Sent(c, "resume", x)
          /\ \A x \in Executors : Sent(c, "start", x)' = Sent(c, "start", x)
      BY <1>1, <1>8, <1>9, <3>3, PostAlone
    <3> QED
      BY <1>12, <1>13, <3>2, <3>3, <3>4
  <2>2. CASE CallThen(t, c)
    <3>1. coro[c].executor # None \/ c \in Bare
      <4>1. coro[c].yield_after_call = [fn |-> "then", co |-> c]
        BY <2>2 DEF CallThen
      <4>2. \A d : coro[c].yield_after_call # [fn |-> "start", co |-> d]
                /\ coro[c].yield_after_call # [fn |-> "post", co |-> d]
        BY <4>1, TaskIs
      <4> QED
        BY <1>1, <1>10, <4>2 DEF Own, Asks
    <3>2. UNCHANGED posted
      BY <2>2 DEF CallThen
    <3>3. /\ Alone(c, "clear")
          /\ \A g \in {"start", "resume"}, x \in Executors : Sent(c, g, x)' = Sent(c, g, x)
      BY <1>1, <1>8, <1>9, <3>2, ThenAlone
    <3>4. thens'[c] = 1
      BY <1>3, <1>13, <2>2 DEF CallThen
    <3> QED
      BY <1>12, <3>1, <3>3, <3>4
  <2> QED
    BY <2>1, <2>2
<1>15. Own(c)'
  <2>1. Table(c)' /\ Lives(c)' /\ Asks(c)'
    BY <1>1, <1>5, <1>8, <1>9, <1>10, <1>14 DEF Own, Table, Lives, Asks, Alone
  <2>2. Unused(c)' /\ Jumping(c)'
    BY <1>1, <1>9, <1>10, <1>14 DEF Own, Unused, Jumping, Alone
  <2>3. AwaitDone(c)' /\ ~Stuck(c)'
    BY <1>5, <1>11, <1>14, NoneIs DEF AwaitDone, Stuck, Alone
  <2>4. Posted(c)' /\ Then(c)' /\ Resumed(c)'
    BY <1>5, <1>9, <1>10, <1>11, <1>14, <2>3
    DEF Posted, Then, Resumed, Waits, Unsent, Alone
  <2>5. Adrift(c)'
    BY <1>1, <1>5, <1>10 DEF Own, Adrift
  <2> QED
    BY <2>1, <2>2, <2>4, <2>5 DEF Own
<1>16. Free(c) /\ Onward(c) /\ Behind(c)
  BY <1>5, <1>8, <1>9, <1>10, <1>11 DEF Free, Launching, Onward, Behind
<1>17. ~Delivered(c) /\ ~Delivered(c)' /\ ~Stuck(c)' /\ Phase(c)' # "none"
  BY <1>9, <1>10, <1>14 DEF Delivered, Stuck, Alone
<1> QED
  BY <1>1, <1>8, <1>9, <1>14, <1>15, <1>16, <1>17, OneConf DEF Alone

\* The client uses c for the first time.
LEMMA NewConf ==
  ASSUME ConfInv, NEW c \in Coros, StackInv', \A b \in Coros \ {c} : Same(b),
         UNCHANGED <<closed, fault>>, ClosedEmpty', Own(c)', uses[c] = 0,
         coro'[c].last_call \notin Coros, ~coro'[c].finished,
         ghost'[c].awaiting = ghost[c].awaiting
  PROVE  ConfInv'
<1>1. coro[c].last_call = None /\ ~coro[c].finished /\ ghost[c].awaiting = None
  BY DEF ConfInv, Own, Unused, Table
<1>2. \A b \in Coros : ghost[b].awaiting # c
  BY DEF ConfInv, Link
<1>3. ASSUME NEW b \in Coros PROVE Link(b, c)' /\ Link(c, b)'
  <2>1. Link(b, c) /\ Link(c, b)
    BY DEF ConfInv
  <2>2. CASE b = c
    BY <1>1, <2>2, NoneIs DEF Link
  <2>3. CASE b # c
    <3>1. Same(b)
      BY <2>3
    <3>2. Delivered(b)' <=> Delivered(b)
      BY <3>1 DEF Same, Delivered
    <3>3. Link(b, c)'
      BY <1>2, <3>1 DEF Link, Same
    <3>4. Link(c, b)'
      BY <1>1, <2>1, <3>1, <3>2, NoneIs DEF Link, Same
    <3> QED
      BY <3>3, <3>4
  <2> QED
    BY <2>2, <2>3
<1>4. {c} \in SUBSET Coros /\ closed' \subseteq Closable /\ fault' = None
  BY DEF ConfInv
<1>5. \A d \in {c}, b \in Coros \ {c} : ghost[b].awaiting = d => (Delivered(d)' <=> Delivered(d))
  BY <1>2
<1>6. \A d \in {c} : Own(d)' /\ \A b \in Coros : Link(b, d)' /\ Link(d, b)'
  BY <1>3
<1> QED
  BY <1>4, <1>5, <1>6, Touch

LEMMA UsedOnce ==
  ASSUME TypeOK, MaxUses = 1, NEW c \in Coros, Usable(c), Used(c)
  PROVE  uses[c] = 0 /\ uses'[c] = 1 /\ \A b \in Coros \ {c} : uses'[b] = uses[b]
<1>1. uses \in [Coros -> 0..1]
  BY DEF TypeOK
<1> QED
  BY <1>1 DEF Usable, Used

\* start() or sync_wait on a thread of the client.
LEMMA StartConf ==
  ASSUME Ready, MaxUses = 1, NEW t \in Threads, NEW c \in Coros, UNCHANGED closed,
         StartPlain(t, c) \/ SyncWait(t, c)
  PROVE  ConfInv'
<1>1. TypeOK /\ ConfInv /\ StackInv /\ Own(c) /\ CoroType
  BY DEF Ready, ConfInv, TypeOK, CoroType
<1>2. Usable(c) /\ Used(c) /\ stack[t] = <<>> /\ UNCHANGED <<ghost, posted, thens>>
  BY DEF StartPlain, SyncWait
<1>3. uses[c] = 0 /\ uses'[c] = 1 /\ \A b \in Coros \ {c} : uses'[b] = uses[b]
  BY <1>1, <1>2, UsedOnce
<1>4. /\ coro[c].source = "null" /\ ~coro[c].finished
      /\ coro[c].executor = None /\ coro[c].last_call = None
      /\ coro[c].yield_after_call = None /\ ghost[c].awaiting = None
      /\ ~coro[c].prolong_life /\ ~ghost[c].stranded
      /\ \A x \in Executors : Sent(c, "resume", x) = 0 /\ Sent(c, "start", x) = 0
  BY <1>1, <1>3 DEF Own, Unused, Unsent, Posted, Table, Lives
<1>5. Phase(c) = "none"
  BY <1>1, <1>4 DEF Own, Table
<1>7. PICK last \in {None, t} :
        /\ coro' = [[coro EXCEPT ![c].last_call = last] EXCEPT ![c].source = "fresh"]
        /\ \E q \in {"owner", "wait"} :
             SetStack(t, <<Frame(c, "jump")>> \o <<Frame(c, q)>>)
        /\ UNCHANGED fault
  <2>1. CASE StartPlain(t, c)
    <3>1. coro = [coro EXCEPT ![c].last_call = None]
      BY <1>1, <1>4 DEF CoroType, CoroutineContextBase
    <3> QED
      BY <1>4, <2>1, <3>1 DEF StartPlain, StartAndOp, Startable
  <2>2. CASE SyncWait(t, c)
    BY <1>4, <2>2 DEF SyncWait, StartAndOp, Startable
  <2> QED
    BY <2>1, <2>2
<1>8. /\ coro'[c].source = "fresh" /\ ~coro'[c].finished
      /\ coro'[c].executor = None /\ coro'[c].last_call = last
      /\ coro'[c].yield_after_call = None
      /\ \A b \in Coros \ {c} : coro'[b] = coro[b]
  BY <1>1, <1>4, <1>7 DEF CoroType, CoroutineContextBase
<1>9. PICK q \in {"owner", "wait"} : SetStack(t, <<Frame(c, "jump")>> \o <<Frame(c, q)>>)
  BY <1>7
<1>10. StackInv' /\ Goes(c, "jump")
  <2> DEFINE rest == <<Frame(c, q)>>
  <2>1. rest \in Seq(Frames) /\ \E r \in Phases \ Acts : rest = <<Frame(c, r)>>
    <3>1. Frame(c, q) \in Frames /\ q \in Phases \ Acts
      BY DEF Frame, Frames, Phases, Acts
    <3> QED
      BY <3>1
  <2>2. AwaitsKept({c})
    BY <1>2 DEF AwaitsKept
  <2>3. SetStack(t, <<Frame(c, "jump")>> \o rest)
    BY <1>9
  <2> HIDE DEF rest
  <2> QED
    BY <1>1, <1>2, <1>5, <2>1, <2>2, <2>3, BeginFrames
<1>11. \A b \in Coros, fn \in {"start", "resume"}, x \in Executors : Sent(b, fn, x)' = Sent(b, fn, x)
  BY <1>2, SameSent
<1>12. \A b \in Coros \ {c} : Same(b)
  BY <1>2, <1>3, <1>8, <1>10, <1>11 DEF Same, Goes
<1>13. ClosedEmpty'
  BY <1>1, <1>2, SameSent DEF ConfInv, ClosedEmpty
<1>14. Phase(c)' = "jump" /\ ghost'[c] = ghost[c] /\ thens'[c] = thens[c]
  BY <1>2, <1>10 DEF Goes
<1>15. Own(c)'
  <2>1. Table(c)' /\ Lives(c)' /\ Asks(c)'
    BY <1>4, <1>8, <1>14 DEF Table, Lives, Asks
  <2>2. Unused(c)' /\ Jumping(c)' /\ Resumed(c)' /\ Adrift(c)'
    BY <1>3, <1>4, <1>8, <1>14, NoneIs DEF Unused, Jumping, Resumed, AwaitDone, Adrift
  <2>3. Posted(c)' /\ Then(c)'
    BY <1>1, <1>4, <1>8, <1>11, <1>14 DEF Own, Posted, Then
  <2> QED
    BY <2>1, <2>2, <2>3 DEF Own
<1>16. last \notin Coros
  BY ClientAssumption
<1> QED
  BY <1>1, <1>3, <1>7, <1>8, <1>10, <1>12, <1>13, <1>14, <1>15, <1>16, NewConf

LEMMA PostCoroConf ==
  ASSUME Ready, MaxUses = 1, NEW c \in Coros, NEW e \in Executors, UNCHANGED closed,
         PostCoroTask(c, e)
  PROVE  ConfInv'
<1>1. TypeOK /\ ConfInv /\ StackInv /\ Own(c) /\ CoroType /\ PostedType /\ closed \subseteq Executors
  BY DEF Ready, ConfInv, TypeOK, CoroType, PostedType
<1>2. Usable(c) /\ Used(c) /\ UNCHANGED <<stack, thens, fault>>
  BY DEF PostCoroTask
<1>3. uses[c] = 0 /\ uses'[c] = 1 /\ \A b \in Coros \ {c} : uses'[b] = uses[b]
  BY <1>1, <1>2, UsedOnce
<1>4. /\ coro[c].source = "null" /\ ~coro[c].finished
      /\ coro[c].executor = None /\ coro[c].last_call = None
      /\ coro[c].yield_after_call = None /\ ghost[c].awaiting = None
      /\ ~coro[c].prolong_life /\ thens[c] = 0
      /\ \A x \in Executors : Sent(c, "resume", x) = 0 /\ Sent(c, "start", x) = 0
  BY <1>1, <1>3 DEF Own, Unused, Unsent, Posted, Table, Lives, Then
<1>5. Phase(c) = "none"
  BY <1>1, <1>4 DEF Own, Table
<1>6. /\ coro'[c].source = "null" /\ ~coro'[c].finished
      /\ coro'[c].executor = e /\ coro'[c].last_call = None
      /\ coro'[c].yield_after_call = None /\ ~coro'[c].prolong_life
      /\ \A b \in Coros \ {c} : coro'[b] = coro[b]
  BY <1>1, <1>4 DEF PostCoroTask, CoroType, CoroutineContextBase
<1>14. /\ \A b \in Coros \ {c} : ghost'[b] = ghost[b]
       /\ ghost'[c].awaiting = ghost[c].awaiting /\ ghost'[c].invoked = ghost[c].invoked
       /\ e \notin closed => ghost'[c] = ghost[c]
  <2>1. ghost \in [Coros -> Ghosts]
    BY <1>1 DEF TypeOK
  <2>2. ghost' = ghost \/ (e \in closed /\ ghost' = [ghost EXCEPT ![c].stranded = TRUE])
    BY DEF PostCoroTask, Strands
  <2> QED
    BY <2>1, <2>2 DEF Ghosts
<1>7. StackInv' /\ PhasesKept
  <2>1. AwaitsKept({})
    BY <1>14 DEF AwaitsKept
  <2> QED
    BY <1>1, <1>2, <2>1, SameFrames
<1>8. /\ \A b \in Coros \ {c}, fn \in {"start", "resume"}, x \in Executors :
           Sent(b, fn, x)' = Sent(b, fn, x)
      /\ \A x \in Executors : Sent(c, "resume", x)' = 0
      /\ \A x \in Executors : Sent(c, "start", x)' # 0 =>
           Sent(c, "start", x)' = 1 /\ x = e /\ e \notin closed
  <2>1. CASE e \in closed
    <3>1. UNCHANGED posted
      BY <2>1 DEF PostCoroTask
    <3> QED
      BY <1>4, <3>1, SameSent
  <2>2. CASE e \notin closed
    <3>1. Post(e, "start", c)
      BY <2>2 DEF PostCoroTask
    <3>2. /\ Sent(c, "start", e)' = Sent(c, "start", e) + 1
          /\ \A x \in Executors, b \in Coros, g \in {"start", "resume"} :
               b # c \/ g # "start" \/ x # e => Sent(b, g, x)' = Sent(b, g, x)
      BY <1>1, <3>1, PostSent
    <3> QED
      BY <1>4, <2>2, <3>2
  <2> QED
    BY <2>1, <2>2
<1>9. \A b \in Coros \ {c} : Same(b)
  BY <1>2, <1>3, <1>6, <1>7, <1>8, <1>14 DEF Same, PhasesKept
<1>10. ClosedEmpty'
  BY <1>1, <1>8 DEF ConfInv, ClosedEmpty
<1>11. Phase(c)' = "none" /\ thens'[c] = 0
  BY <1>2, <1>4, <1>5, <1>7 DEF PhasesKept
<1>12. Own(c)'
  <2>1. Table(c)' /\ Lives(c)' /\ Asks(c)'
    BY <1>4, <1>6, <1>11, <1>14 DEF Table, Lives, Asks
  <2>2. Unused(c)' /\ Jumping(c)' /\ Resumed(c)'
    BY <1>3, <1>6, <1>11 DEF Unused, Jumping, Resumed
  <2>3. Posted(c)' /\ Then(c)'
    BY <1>4, <1>6, <1>8, <1>11 DEF Posted, Then
  <2>4. Adrift(c)'
    <3>1. ghost'[c].stranded => e \in closed
      BY <1>1, <1>3, <1>14 DEF Own, Unused
    <3>2. e \in closed => \A x \in Executors : Sent(c, "start", x)' = 0
      <4>1. e \in closed => UNCHANGED posted
        BY DEF PostCoroTask
      <4> QED
        BY <1>4, <4>1, SameSent
    <3> QED
      BY <1>6, <1>8, <1>11, <3>1, <3>2 DEF Adrift, Unsent
  <2> QED
    BY <2>1, <2>2, <2>3, <2>4 DEF Own
<1> QED
  BY <1>1, <1>2, <1>3, <1>6, <1>7, <1>9, <1>10, <1>12, <1>14, NewConf, NoneIs

\* A thread of an executor runs the task of postCoroTask.
LEMMA RunStartConf ==
  ASSUME Ready, NEW t \in Threads, NEW e \in Executors, NEW c \in Coros, UNCHANGED closed,
         RunStart(t, e, c)
  PROVE  ConfInv'
<1>1. TypeOK /\ ConfInv /\ StackInv /\ Own(c) /\ CoroType /\ PostedType
  BY DEF Ready, ConfInv, TypeOK, CoroType, PostedType
<1>2. Taken(e, "start", c) /\ stack[t] = <<>> /\ UNCHANGED <<ghost, thens, uses>>
  BY DEF RunStart, client
<1>3. Sent(c, "start", e) # 0 /\ Sent(c, "start", e)' = Sent(c, "start", e) - 1
  BY <1>1, <1>2, TakenSent
<1>4. /\ Sent(c, "start", e) = 1
      /\ coro[c].source = "null" /\ ~coro[c].finished
      /\ coro[c].yield_after_call = None /\ ghost[c].awaiting = None
      /\ ~coro[c].prolong_life /\ ~ghost[c].stranded
      /\ \A x \in Executors : Sent(c, "resume", x) = 0
      /\ \A x \in Executors \ {e} : Sent(c, "start", x) = 0
  BY <1>1, <1>3 DEF Own, Posted, Table, Lives, Adrift, Unsent
<1>5. Phase(c) = "none" /\ thens[c] = 0 /\ uses[c] # 0
  BY <1>1, <1>3, <1>4 DEF Own, Table, Then, Unused, Unsent
<1>7. /\ coro' = [coro EXCEPT ![c].source = "fresh"]
      /\ SetStack(t, <<Frame(c, "jump")>> \o <<Frame(c, "owner")>>)
      /\ UNCHANGED fault
  BY <1>4 DEF RunStart, StartAndOp, Startable
<1>8. /\ coro'[c].source = "fresh" /\ ~coro'[c].finished
      /\ coro'[c].executor = coro[c].executor /\ coro'[c].last_call = coro[c].last_call
      /\ coro'[c].yield_after_call = None
      /\ coro'[c].prolong_life = coro[c].prolong_life
      /\ \A b \in Coros \ {c} : coro'[b] = coro[b]
  BY <1>1, <1>4, <1>7 DEF CoroType, CoroutineContextBase
<1>9. StackInv' /\ Goes(c, "jump")
  <2> DEFINE rest == <<Frame(c, "owner")>>
  <2>1. rest \in Seq(Frames) /\ \E r \in Phases \ Acts : rest = <<Frame(c, r)>>
    <3>1. Frame(c, "owner") \in Frames /\ "owner" \in Phases \ Acts
      BY DEF Frame, Frames, Phases, Acts
    <3> QED
      BY <3>1
  <2>2. AwaitsKept({c})
    BY <1>2 DEF AwaitsKept
  <2>3. SetStack(t, <<Frame(c, "jump")>> \o rest)
    BY <1>7
  <2> HIDE DEF rest
  <2> QED
    BY <1>1, <1>2, <1>5, <2>1, <2>2, <2>3, BeginFrames
<1>10. Solo(c)
  BY <1>2, <1>7, <1>8 DEF Solo
<1>11. /\ Alone(c, "jump")
       /\ Sent(c, "start", e)' = Sent(c, "start", e) - 1
       /\ \A g \in {"start", "resume"}, x \in Executors :
            g # "start" \/ x # e => Sent(c, g, x)' = Sent(c, g, x)
  BY <1>1, <1>2, <1>9, <1>10, TakenAlone
<1>12. \A x \in Executors : Sent(c, "start", x)' = 0 /\ Sent(c, "resume", x)' = 0
  BY <1>4, <1>11
<1>13. Own(c)'
  <2>1. Table(c)' /\ Lives(c)' /\ Asks(c)'
    BY <1>2, <1>4, <1>8, <1>11 DEF Table, Lives, Asks, Alone
  <2>2. Unused(c)' /\ Jumping(c)' /\ Resumed(c)' /\ Adrift(c)'
    BY <1>2, <1>4, <1>5, <1>8, <1>11, NoneIs
    DEF Unused, Jumping, Resumed, AwaitDone, Alone, Adrift
  <2>3. Posted(c)' /\ Then(c)'
    BY <1>2, <1>5, <1>12 DEF Posted, Then
  <2> QED
    BY <2>1, <2>2, <2>3 DEF Own
<1>14. Free(c) /\ Onward(c) /\ Behind(c)
  BY <1>2, <1>3, <1>4, <1>8 DEF Free, Launching, Onward, Behind, Unsent
<1>15. ~Delivered(c) /\ ~Delivered(c)' /\ ~Stuck(c)' /\ Phase(c)' # "none"
  BY <1>4, <1>8, <1>11 DEF Delivered, Stuck, Alone
<1> QED
  BY <1>1, <1>8, <1>9, <1>11, <1>13, <1>14, <1>15, OneConf DEF Alone

\* No tail of c is under way when its work is taken up.
LEMMA NoFramesOf ==
  ASSUME TypeOK, NEW c \in Coros, NEW S \in SUBSET Phases
  PROVE  FramesOf(c, S) = {} <=> \A t \in Threads, i \in Nat, q \in S : ~FrameAt(t, i, c, q)
<1>1. ASSUME NEW t \in Threads, NEW i \in Nat, NEW q \in S, FrameAt(t, i, c, q)
      PROVE  FramesOf(c, S) # {}
  <2>1. <<t, i>> \in {t} \X DOMAIN stack[t] /\ stack[t][i].co = c /\ stack[t][i].at = q
    BY <1>1 DEF FrameAt, Frame
  <2>2. <<t, i>> \in FramesOf(c, S)
    BY <2>1 DEF FramesOf
  <2> QED
    BY <2>2
<1>2. ASSUME NEW p \in FramesOf(c, S)
      PROVE  \E t \in Threads, i \in Nat, q \in S : FrameAt(t, i, c, q)
  <2>1. PICK t \in Threads : p \in {t} \X DOMAIN stack[t]
    BY <1>2 DEF FramesOf
  <2>2. stack[t] \in Seq(Frames) /\ p[1] = t /\ p[2] \in DOMAIN stack[t]
    BY <2>1 DEF TypeOK
  <2>3. stack[t][p[2]] \in Frames /\ stack[t][p[2]].co = c /\ stack[t][p[2]].at \in S /\ p[2] \in Nat
    BY <1>2, <2>2 DEF FramesOf
  <2>4. FrameAt(t, p[2], c, stack[t][p[2]].at)
    BY <2>2, <2>3 DEF FrameAt, Frames, Frame
  <2> QED
    BY <2>3, <2>4
<1> QED
  BY <1>1, <1>2

LEMMA TakenIdle ==
  ASSUME TypeOK, OneAct, Timely, NEW t \in Threads, NEW c \in Coros, stack[t] = <<>>,
         At(t, c, "jump")', Phase(c) \in Waits
  PROVE  Phase(c) = "none"
<1> SUFFICES ASSUME Phase(c) \in {"clear", "fin"}
             PROVE  FALSE
  BY DEF Waits
<1>1. PICK q \in {"clear", "fin"} : q = Phase(c)
  OBVIOUS
<1>2. q \in Acts /\ q \in TailPhases /\ TailPhases \subseteq Phases
  BY DEF Acts, Phases, TailPhases
<1>3. PICK u \in Threads, i \in Nat : FrameAt(u, i, c, q)
  BY <1>1, <1>2, PhaseFrame
<1>4. u # t
  BY <1>3 DEF FrameAt
<1>5. <<u, i>> \in FramesOf(c, TailPhases)
  BY <1>2, <1>3 DEF FramesOf, FrameAt, Frame
<1>6. ~At(t, c, "jump")
  BY DEF At
<1> QED
  BY <1>4, <1>5, <1>6 DEF Timely

\* An idle thread resumes c, which was due.
LEMMA JumpConf ==
  ASSUME ConfInv, NEW c \in Coros, StackInv', Alone(c, "jump"), UNCHANGED <<coro, ghost>>,
         Phase(c) = "none", coro[c].source = "fiber", ghost[c].invoked, ~Stuck(c), AwaitDone(c),
         ~Unsent(c, "resume") \/ thens[c] # 0, thens'[c] = 0,
         \A x \in Executors, fn \in {"start", "resume"} : Sent(c, fn, x)' = 0
  PROVE  ConfInv'
<1>1. Own(c)
  BY DEF ConfInv
<1>2. Phase(c)' = "jump" /\ uses'[c] = uses[c]
  BY DEF Alone
<1>3. coro[c].yield_after_call = None /\ ~coro[c].finished
  BY <1>1 DEF Stuck, Own, Table
<1>4. AwaitDone(c)'
  <2>1. ASSUME NEW d \in Coros, ghost[c].awaiting = d
        PROVE  Delivered(d)'
    <3>1. Delivered(d) /\ d # c
      BY <1>3, <2>1 DEF AwaitDone, Delivered
    <3>2. Same(d)
      BY <3>1 DEF Alone
    <3> QED
      BY <3>1, <3>2 DEF Same, Delivered
  <2> QED
    BY <2>1 DEF AwaitDone
<1>5. Own(c)'
  <2>1. Table(c)' /\ Lives(c)' /\ Asks(c)'
    BY <1>1, <1>2, <1>3 DEF Own, Table, Lives, Asks
  <2>2. Unused(c)' /\ Jumping(c)' /\ Resumed(c)'
    BY <1>1, <1>2, <1>4 DEF Own, Unused, Jumping, Resumed, Waits
  <2>3. Posted(c)' /\ Then(c)'
    BY DEF Posted, Then
  <2>4. Adrift(c)'
    BY <1>1 DEF Own, Adrift
  <2> QED
    BY <2>1, <2>2, <2>3, <2>4 DEF Own
<1>6. Free(c) /\ Onward(c) /\ Behind(c)
  BY <1>3 DEF Free, Launching, Onward, Behind
<1>7. ~Delivered(c) /\ ~Delivered(c)' /\ ~Stuck(c)'
  BY <1>2, <1>3 DEF Delivered, Stuck
<1> QED
  BY <1>2, <1>5, <1>6, <1>7, OneConf DEF Alone

\* A thread of an executor runs the task of runOn or of an awaiter.
LEMMA RunResumeConf ==
  ASSUME Ready, Timely, NEW t \in Threads, NEW e \in Executors, NEW c \in Coros,
         UNCHANGED closed, RunResume(t, e, c)
  PROVE  ConfInv'
<1>1. TypeOK /\ ConfInv /\ StackInv /\ Own(c) /\ PostedType
  BY DEF Ready, ConfInv, TypeOK, PostedType
<1>2. /\ Taken(e, "resume", c) /\ stack[t] = <<>>
      /\ UNCHANGED <<coro, ghost, thens, uses, fault>>
  BY DEF RunResume, client
<1>3. Sent(c, "resume", e) # 0 /\ Sent(c, "resume", e)' = Sent(c, "resume", e) - 1
  BY <1>1, <1>2, TakenSent
<1>4. /\ Sent(c, "resume", e) = 1 /\ thens[c] = 0
      /\ coro[c].source = "fiber" /\ ghost[c].invoked /\ Phase(c) \in Waits
      /\ ~Stuck(c) /\ AwaitDone(c)
      /\ \A x \in Executors : Sent(c, "start", x) = 0
      /\ \A x \in Executors \ {e} : Sent(c, "resume", x) = 0
  BY <1>1, <1>3 DEF Own, Posted
<1>5. At(t, c, "jump")'
  BY <1>1 DEF RunResume, SetStack, At, TypeOK
<1>6. Phase(c) = "none"
  BY <1>1, <1>2, <1>4, <1>5, TakenIdle DEF StackInv
<1>7. StackInv' /\ Goes(c, "jump")
  <2> DEFINE rest == <<>>
  <2>1. rest \in Seq(Frames) /\ rest = <<>>
    OBVIOUS
  <2>2. AwaitsKept({c})
    BY <1>2 DEF AwaitsKept
  <2>3. SetStack(t, <<Frame(c, "jump")>> \o rest)
    BY DEF RunResume, SetStack
  <2> HIDE DEF rest
  <2> QED
    BY <1>1, <1>2, <1>6, <2>1, <2>2, <2>3, BeginFrames
<1>8. Solo(c)
  BY <1>2 DEF Solo
<1>9. /\ Alone(c, "jump")
      /\ Sent(c, "resume", e)' = Sent(c, "resume", e) - 1
      /\ \A g \in {"start", "resume"}, x \in Executors :
           g # "resume" \/ x # e => Sent(c, g, x)' = Sent(c, g, x)
  BY <1>1, <1>2, <1>7, <1>8, TakenAlone
<1>10. \A x \in Executors, fn \in {"start", "resume"} : Sent(c, fn, x)' = 0
  BY <1>4, <1>9
<1>11. thens'[c] = 0 /\ ~Unsent(c, "resume")
  BY <1>2, <1>3, <1>4 DEF Unsent
<1> QED
  BY <1>1, <1>2, <1>4, <1>6, <1>7, <1>9, <1>10, <1>11, JumpConf

\* An async task ends: c is posted to its executor, or resumed at once, or stranded.
LEMMA CompleteConf ==
  ASSUME Ready, Timely, NEW t \in Threads, NEW c \in Coros, UNCHANGED closed,
         CompleteTask(t, c)
  PROVE  ConfInv'
<1>1. TypeOK /\ ConfInv /\ StackInv /\ Own(c) /\ PostedType
  BY DEF Ready, ConfInv, TypeOK, PostedType
<1>2. /\ stack[t] = <<>> /\ thens \in [Coros -> Nat] /\ thens[c] > 0
      /\ thens' = [thens EXCEPT ![c] = thens[c] - 1]
      /\ UNCHANGED <<coro, uses, fault>>
  BY <1>1 DEF TypeOK, CompleteTask, client
<1>3. /\ thens[c] = 1
      /\ coro[c].source = "fiber" /\ ghost[c].invoked /\ Phase(c) \in Waits
      /\ ~Stuck(c) /\ ghost[c].awaiting = None
      /\ coro[c].executor # None \/ c \in Bare
      /\ ~ghost[c].stranded
      /\ \A x \in Executors : Sent(c, "start", x) = 0 /\ Sent(c, "resume", x) = 0
  BY <1>1, <1>2 DEF Own, Then, Posted, Unsent, Adrift
<1>4. thens'[c] = 0 /\ \A b \in Coros \ {c} : thens'[b] = thens[b]
  BY <1>2, <1>3
<1>11. /\ \A b \in Coros \ {c} : ghost'[b] = ghost[b]
       /\ ghost'[c].awaiting = ghost[c].awaiting /\ ghost'[c].invoked = ghost[c].invoked
       /\ UNCHANGED ghost \/ ghost'[c].stranded
       /\ ~UNCHANGED posted => UNCHANGED ghost
  <2>1. ghost \in [Coros -> Ghosts]
    BY <1>1 DEF TypeOK
  <2>2. /\ ghost' = ghost \/ ghost' = [ghost EXCEPT ![c].stranded = TRUE]
        /\ ~UNCHANGED posted => ghost' = ghost
    BY DEF CompleteTask, Strands
  <2> QED
    BY <2>1, <2>2 DEF Ghosts
<1>5. Solo(c) /\ AwaitDone(c) /\ AwaitDone(c)'
  BY <1>2, <1>3, <1>4, <1>11, NoneIs DEF Solo, AwaitDone
<1>6. AwaitsKept({}) /\ AwaitsKept({c})
  BY <1>11 DEF AwaitsKept
<1>7. ASSUME UNCHANGED stack, Alone(c, Phase(c)),
             \A x \in Executors : Sent(c, "start", x)' = 0,
             \A x \in Executors : Sent(c, "resume", x)' # 0 =>
               Sent(c, "resume", x)' = 1 /\ coro[c].executor = x,
             \/ (\E x \in Executors : Sent(c, "resume", x)' = 1) /\ UNCHANGED ghost
             \/ ghost'[c].stranded /\ \A x \in Executors : Sent(c, "resume", x)' = 0
      PROVE  ConfInv'
  <2>1. StackInv' /\ Phase(c)' = Phase(c) /\ uses'[c] = uses[c]
    BY <1>1, <1>6, <1>7, SameFrames DEF Alone
  <2>2. Stuck(c)' <=> Stuck(c)
    BY <1>2, <2>1 DEF Stuck
  <2>3. Own(c)'
    <3>1. Table(c)' /\ Lives(c)' /\ Asks(c)' /\ Unused(c)' /\ Jumping(c)'
      BY <1>1, <1>2, <1>3, <1>5, <1>11, <2>1 DEF Own, Table, Lives, Asks, Unused, Jumping
    <3>2. Posted(c)' /\ Then(c)' /\ Resumed(c)'
      BY <1>2, <1>3, <1>4, <1>5, <1>7, <1>11, <2>1, <2>2 DEF Posted, Then, Resumed
    <3>3. Adrift(c)'
      BY <1>1, <1>2, <1>3, <1>4, <1>5, <1>7, <1>11, <2>1 DEF Own, Table, Adrift, Unsent
    <3> QED
      BY <3>1, <3>2, <3>3 DEF Own
  <2>4. ~coro[c].finished
    BY <1>1, <1>3 DEF Own, Table
  <2>5. Free(c) /\ Onward(c) /\ Behind(c)
    BY <1>2, <1>3, <1>11, <2>4 DEF Free, Launching, Onward, Behind, Stuck
  <2>6. ~Delivered(c) /\ ~Delivered(c)' /\ ~Stuck(c)' /\ ~coro'[c].finished
    BY <1>2, <1>3, <2>2, <2>4 DEF Delivered
  <2> QED
    BY <1>1, <1>2, <1>7, <2>1, <2>3, <2>5, <2>6, OneConf DEF Alone
<1>8. CASE ResumeAwaiter(t, c, <<>>) /\ coro[c].executor # None
  <2>1. PICK e \in Executors : e = coro[c].executor
    BY <1>1, <1>8 DEF TypeOK, CoroutineContextBase
  <2>2. e \notin closed /\ Post(e, "resume", c) /\ stack' = [stack EXCEPT ![t] = <<>>]
    BY <1>8, <2>1 DEF ResumeAwaiter, Refused, SetStack
  <2>3. UNCHANGED stack
    BY <1>1, <1>2, <2>2 DEF TypeOK
  <2>4. PhasesKept
    BY <1>1, <1>6, <2>3, SameFrames
  <2>5. PICK q : q = Phase(c)
    OBVIOUS
  <2>6. Goes(c, q)
    BY <2>4, <2>5 DEF Goes, PhasesKept
  <2>7. /\ Alone(c, q)
        /\ Sent(c, "resume", e)' = Sent(c, "resume", e) + 1
        /\ \A x \in Executors \ {e} : Sent(c, "resume", x)' = Sent(c, "resume", x)
        /\ \A x \in Executors : Sent(c, "start", x)' = Sent(c, "start", x)
    BY <1>1, <1>5, <2>2, <2>6, PostAlone
  <2>8. ~UNCHANGED posted
    BY <1>1, <2>7, SentType DEF Sent
  <2> QED
    BY <1>3, <1>7, <1>11, <2>1, <2>3, <2>5, <2>7, <2>8
<1>9. CASE ResumeAwaiter(t, c, <<>>) /\ coro[c].executor = None /\ UNCHANGED ghost
  <2>1. At(t, c, "jump")'
    <3>1. stack' = [stack EXCEPT ![t] = <<Frame(c, "jump")>> \o <<>>]
      BY <1>9, NoneIs DEF ResumeAwaiter, SetStack
    <3>2. <<Frame(c, "jump")>> \o <<>> = <<Frame(c, "jump")>>
      OBVIOUS
    <3> QED
      BY <1>1, <3>1, <3>2 DEF At, TypeOK
  <2>2. Phase(c) = "none"
    BY <1>1, <1>2, <1>3, <2>1, TakenIdle DEF StackInv
  <2>3. StackInv' /\ Goes(c, "jump")
    <3> DEFINE rest == <<>>
    <3>1. rest \in Seq(Frames) /\ rest = <<>>
      OBVIOUS
    <3>2. SetStack(t, <<Frame(c, "jump")>> \o rest)
      BY <1>9 DEF ResumeAwaiter
    <3> HIDE DEF rest
    <3> QED
      BY <1>1, <1>2, <1>6, <2>2, <3>1, <3>2, BeginFrames
  <2>4. UNCHANGED posted
    BY <1>9 DEF ResumeAwaiter
  <2>5. /\ Alone(c, "jump")
        /\ \A g \in {"start", "resume"}, x \in Executors : Sent(c, g, x)' = Sent(c, g, x)
    BY <1>1, <1>5, <2>3, <2>4, ThenAlone
  <2>6. \A x \in Executors, fn \in {"start", "resume"} : Sent(c, fn, x)' = 0
    BY <1>3, <2>5
  <2>7. thens[c] # 0 /\ UNCHANGED <<coro, ghost>>
    BY <1>2, <1>3, <1>9
  <2> QED
    BY <1>1, <1>3, <1>4, <1>5, <2>2, <2>3, <2>5, <2>6, <2>7, JumpConf
<1>10. CASE ghost'[c].stranded /\ UNCHANGED <<posted, stack>>
  <2>1. PhasesKept
    BY <1>1, <1>6, <1>10, SameFrames
  <2>2. PICK q : q = Phase(c)
    OBVIOUS
  <2>3. Goes(c, q)
    BY <2>1, <2>2 DEF Goes, PhasesKept
  <2>4. /\ Alone(c, q)
        /\ \A g \in {"start", "resume"}, x \in Executors : Sent(c, g, x)' = Sent(c, g, x)
    BY <1>1, <1>5, <1>10, <2>3, ThenAlone
  <2> QED
    BY <1>3, <1>7, <1>10, <2>2, <2>4
<1>12. Strands(c) => ghost'[c].stranded
  BY <1>1 DEF Strands, TypeOK, Ghosts
<1> QED
  BY <1>8, <1>9, <1>10, <1>12 DEF CompleteTask

\* A body yields to await d, which nobody has used.
LEMMA AwaitConf ==
  ASSUME Ready, MaxUses = 1, \A b, x \in Coros : <<b, x>> \in Awaits => b \notin Bare,
         NEW t \in Threads, NEW c \in Coros, NEW d \in Coros, UNCHANGED closed, Await(t, c, d)
  PROVE  ConfInv'
<1>1. TypeOK /\ ConfInv /\ StackInv /\ Own(c) /\ Own(d) /\ CoroType
  BY DEF Ready, ConfInv, TypeOK, CoroType
<1>2. "body" \in Acts /\ "check" \in Acts
  BY DEF Acts, Phases
<1>3. ghost \in [Coros -> Ghosts]
  BY <1>1 DEF TypeOK
<1>4. /\ ghost'[c].invoked = FALSE /\ ghost'[c].awaiting = d
      /\ ghost'[c].stranded = ghost[c].stranded
      /\ \A b \in Coros \ {c} : ghost'[b] = ghost[b]
  <2>1. ghost' = [ghost EXCEPT ![c].invoked = FALSE, ![c].awaiting = d]
    BY DEF Await, Switch
  <2> QED
    BY <1>3, <2>1 DEF Ghosts
<1>5. AwaitsKept({c})
  BY <1>4 DEF AwaitsKept
<1>6. At(t, c, "body") /\ SetStack(t, Moved(t, c, "check"))
  BY DEF Await, Switch, InBody
<1>7. StackInv' /\ Phase(c) = "body" /\ Goes(c, "check")
  BY <1>1, <1>2, <1>5, <1>6, MoveFrames
<1>8. /\ coro[c].source = "caller" /\ coro[c].yield_after_call = None /\ ghost[c].awaiting = None
      /\ ~coro[c].finished /\ ~ghost[c].stranded
  BY <1>1, <1>7 DEF Own, Table, Adrift
<1>9. uses[d] = 0 /\ uses'[d] = 1 /\ \A b \in Coros \ {d} : uses'[b] = uses[b]
  BY <1>1, UsedOnce DEF Await
<1>10. /\ coro[d].source = "null" /\ ~coro[d].finished /\ coro[d].executor = None
       /\ coro[d].last_call = None /\ Unsent(d, "start") /\ coro[d].yield_after_call = None
       /\ ghost[d].awaiting = None /\ ~ghost[d].stranded
  BY <1>1, <1>9 DEF Own, Unused, Table
<1>11. c # d /\ coro[c].executor # None
  BY <1>8, <1>10 DEF Await, MayAwait
<1> DEFINE objs == [coro EXCEPT ![d].last_call = c]
<1>12. /\ objs \in [Coros -> CoroutineContextBase]
       /\ coro' = Yielded(objs, c, [fn |-> "start", co |-> d])
  BY <1>1, FieldType DEF CoroType, Await
<1>13. /\ objs[c] = coro[c] /\ objs[d] = [coro[d] EXCEPT !.last_call = c]
       /\ \A b \in Coros \ {c, d} : objs[b] = coro[b]
  BY <1>1, <1>11 DEF CoroType
<1> HIDE DEF objs
<1>14. /\ coro'[c] = [objs[c] EXCEPT !.source = "fiber", !.yield_after_call = [fn |-> "start", co |-> d]]
       /\ coro'[d] = objs[d] /\ \A b \in Coros \ {c, d} : coro'[b] = objs[b]
  BY <1>11, <1>12 DEF Yielded
<1>15. /\ coro'[c].source = "fiber" /\ coro'[c].yield_after_call = [fn |-> "start", co |-> d]
       /\ coro'[c].executor = coro[c].executor /\ coro'[c].last_call = coro[c].last_call
       /\ coro'[c].finished = coro[c].finished /\ coro'[c].prolong_life = coro[c].prolong_life
  BY <1>1, <1>13, <1>14 DEF CoroType, CoroutineContextBase
<1>16. /\ coro'[d].source = "null" /\ coro'[d].yield_after_call = None
       /\ coro'[d].executor = None /\ coro'[d].last_call = c
       /\ ~coro'[d].finished /\ coro'[d].prolong_life = coro[d].prolong_life
  BY <1>1, <1>10, <1>13, <1>14 DEF CoroType, CoroutineContextBase
<1>17. coro'[c].yield_after_call # None
  <2>1. coro'[c].yield_after_call \in Callbacks
    BY <1>15 DEF Callbacks
  <2> QED
    BY <2>1, NoneAssumption
<1>18. UNCHANGED <<posted, thens, fault>>
  BY DEF Await
<1>19. \A b \in Coros, fn \in {"start", "resume"}, x \in Executors : Sent(b, fn, x)' = Sent(b, fn, x)
  BY <1>18, SameSent
<1>20. \A b \in Coros \ {c, d} : Same(b)
  BY <1>4, <1>7, <1>9, <1>13, <1>14, <1>18, <1>19 DEF Same, Goes
<1>21. Phase(c)' = "check" /\ Phase(d)' = Phase(d) /\ Phase(d) = "none" /\ ghost'[d] = ghost[d]
  BY <1>1, <1>4, <1>7, <1>10, <1>11 DEF Goes, Own, Table
<1>22. Unsent(d, "start")' /\ (Unsent(d, "resume")' <=> Unsent(d, "resume"))
  BY <1>10, <1>19 DEF Unsent
<1>23. Own(c)'
  <2>1. Table(c)' /\ Lives(c)' /\ Asks(c)'
    BY <1>1, <1>4, <1>8, <1>15, <1>17, <1>21, NoneIs DEF Own, Table, Lives, Asks
  <2>2. Unused(c)' /\ Jumping(c)' /\ Resumed(c)' /\ Adrift(c)'
    BY <1>1, <1>4, <1>8, <1>9, <1>11, <1>21 DEF Own, Unused, Jumping, Resumed, Adrift
  <2>3. Posted(c)' /\ Then(c)'
    BY <1>1, <1>8, <1>18, <1>19 DEF Own, Posted, Then
  <2> QED
    BY <2>1, <2>2, <2>3 DEF Own
<1>24. Own(d)'
  <2>1. Table(d)' /\ Lives(d)' /\ Asks(d)'
    BY <1>1, <1>10, <1>16, <1>21 DEF Own, Table, Lives, Asks
  <2>2. Unused(d)' /\ Jumping(d)' /\ Resumed(d)' /\ Adrift(d)'
    BY <1>9, <1>10, <1>16, <1>21 DEF Unused, Jumping, Resumed, Adrift
  <2>3. Posted(d)' /\ Then(d)'
    BY <1>1, <1>10, <1>18, <1>19 DEF Own, Posted, Then, Unsent
  <2> QED
    BY <2>1, <2>2, <2>3 DEF Own
<1>25. /\ ~Delivered(c) /\ ~Delivered(c)' /\ ~Stuck(c)'
       /\ ~Delivered(d) /\ ~Delivered(d)' /\ Launching(d)'
  BY <1>8, <1>10, <1>15, <1>16, <1>21, <1>22 DEF Delivered, Stuck, Launching
<1>26. ASSUME NEW b \in Coros PROVE Link(b, c)' /\ Link(c, b)' /\ Link(b, d)' /\ Link(d, b)'
  <2>1. Link(b, c) /\ Link(c, b) /\ Link(b, d) /\ Link(d, b)
    BY <1>1 DEF ConfInv
  <2>2. CASE b \notin {c, d}
    <3>1. Same(b)
      BY <1>20, <2>2
    <3>2. /\ Stuck(b)' <=> Stuck(b)
          /\ Delivered(b)' <=> Delivered(b)
          /\ Unsent(b, "resume")' <=> Unsent(b, "resume")
      BY <3>1 DEF Same, Stuck, Delivered, Unsent
    <3>3. Link(b, c)'
      BY <1>7, <1>8, <1>9, <1>11, <1>15, <1>21, <1>25, <2>1, <2>2, <3>1, <3>2
      DEF Link, Same, Launching
    <3>4. Link(c, b)'
      BY <1>4, <1>8, <2>1, <2>2, <3>1, <3>2, NoneIs DEF Link, Same
    <3>5. Link(b, d)'
      BY <1>9, <1>16, <2>1, <2>2, <3>1 DEF Link, Same
    <3>6. Link(d, b)'
      BY <1>10, <1>21, <2>1, <2>2, <3>1, <3>2, NoneIs DEF Link, Same
    <3> QED
      BY <3>3, <3>4, <3>5, <3>6
  <2>3. Link(c, d)'
    BY <1>4, <1>9, <1>11, <1>15, <1>16, <1>25 DEF Link
  <2>4. Link(d, c)'
    BY <1>1, <1>7, <1>8, <1>9, <1>10, <1>11, <1>15, <1>21, <1>25, NoneIs DEF ConfInv, Link
  <2>5. Link(c, c)' /\ Link(d, d)'
    BY <1>1, <1>4, <1>8, <1>10, <1>11, <1>15, <1>16, <1>21, NoneIs DEF ConfInv, Link
  <2> QED
    BY <2>2, <2>3, <2>4, <2>5
<1>27. ClosedEmpty' /\ closed' \subseteq Closable /\ fault' = None
  BY <1>1, <1>18, SameSent DEF ConfInv, ClosedEmpty
<1> DEFINE S == {c, d}
<1>28. /\ S \in SUBSET Coros /\ \A b \in Coros \ S : Same(b)
       /\ \A b \in S : Own(b)'
       /\ \A x \in S, b \in Coros \ S : ghost[b].awaiting = x => (Delivered(x)' <=> Delivered(x))
       /\ \A x \in S, b \in Coros : Link(b, x)' /\ Link(x, b)'
  BY <1>20, <1>23, <1>24, <1>25, <1>26
<1> HIDE DEF S
<1> QED
  BY <1>1, <1>7, <1>27, <1>28, Touch

\* The function of await(coroutine) starts the awaited coroutine.
LEMMA CallStartConf ==
  ASSUME Ready, NEW t \in Threads, NEW c \in Coros, NEW d \in Coros, UNCHANGED closed,
         CallStart(t, c, d)
  PROVE  ConfInv'
<1>1. TypeOK /\ ConfInv /\ StackInv /\ Own(c) /\ Own(d) /\ CoroType /\ Link(c, d)
  BY DEF Ready, ConfInv, TypeOK, CoroType
<1>2. "call" \in Acts /\ "call" \in Phases
  BY DEF Acts, Phases
<1>3. ghost \in [Coros -> Ghosts] /\ ghost' = [ghost EXCEPT ![c].invoked = TRUE]
  BY <1>1 DEF TypeOK, CallStart, Invoked
<1>4. /\ ghost'[c].invoked /\ ghost'[c].awaiting = ghost[c].awaiting
      /\ ghost'[c].stranded = ghost[c].stranded
      /\ \A b \in Coros \ {c} : ghost'[b] = ghost[b]
  BY <1>3 DEF Ghosts
<1>5. Phase(c) = "call"
  BY <1>1, <1>2, TopFrame, PhaseIs DEF CallStart, TypeOK, StackType, StackInv
<1>6. /\ coro[c].source = "fiber" /\ coro[c].yield_after_call # None /\ ~ghost[c].invoked
      /\ ~coro[c].finished /\ ~ghost[c].stranded
  BY <1>1, <1>5 DEF Own, Table, Adrift, Waits
<1>7. ghost[c].awaiting = d
  <2>1. coro[c].yield_after_call = [fn |-> "start", co |-> d]
    BY DEF CallStart
  <2>2. \A x : /\ coro[c].yield_after_call # [fn |-> "post", co |-> x]
               /\ coro[c].yield_after_call # [fn |-> "then", co |-> x]
               /\ coro[c].yield_after_call = [fn |-> "start", co |-> x] => x = d
    BY <2>1, TaskIs
  <2> QED
    BY <1>1, <1>6, <2>2 DEF Own, Asks
<1>8. /\ c # d /\ coro[d].last_call = c /\ uses[d] = 1 /\ coro[c].executor # None
      /\ coro[d].source = "null" /\ ~coro[d].finished
      /\ coro[d].executor = None /\ Unsent(d, "start") /\ ~ghost[d].stranded
  BY <1>1, <1>6, <1>7 DEF Link, Launching
<1>9. Phase(d) = "none" /\ coro[d].yield_after_call = None /\ ghost[d].awaiting = None
  BY <1>1, <1>8 DEF Own, Table
<1>10. /\ coro' = [coro EXCEPT ![d].source = "fresh"]
       /\ SetStack(t, <<Frame(d, "jump")>> \o Moved(t, c, "clear"))
       /\ UNCHANGED <<fault, posted, thens, uses>>
  BY <1>8 DEF CallStart, StartAndOp, Startable, client
<1>11. /\ coro'[d].source = "fresh" /\ ~coro'[d].finished
       /\ coro'[d].executor = None /\ coro'[d].last_call = c
       /\ coro'[d].yield_after_call = None /\ coro'[d].prolong_life = coro[d].prolong_life
       /\ \A b \in Coros \ {d} : coro'[b] = coro[b]
  BY <1>1, <1>8, <1>9, <1>10 DEF CoroType, CoroutineContextBase
<1>12. /\ StackInv' /\ Phase(c)' = "clear" /\ Phase(d)' = "jump"
       /\ \A b \in Coros \ {c, d} : Phase(b)' = Phase(b)
  <2>1. ghost'[c].awaiting = d /\ AwaitsKept({c, d}) /\ At(t, c, "call")
    BY <1>4, <1>7 DEF AwaitsKept, CallStart
  <2> QED
    BY <1>1, <1>9, <1>10, <2>1, NestFrames
<1>13. \A b \in Coros, fn \in {"start", "resume"}, x \in Executors : Sent(b, fn, x)' = Sent(b, fn, x)
  BY <1>10, SameSent
<1>14. \A b \in Coros \ {c, d} : Same(b)
  BY <1>4, <1>10, <1>11, <1>12, <1>13 DEF Same
<1>15. /\ Unsent(d, "start")' /\ coro'[c] = coro[c] /\ ghost'[d] = ghost[d]
       /\ \A fn \in {"start", "resume"} : Unsent(c, fn) => Unsent(c, fn)'
  BY <1>4, <1>8, <1>11, <1>13 DEF Unsent
<1>16. /\ ~Delivered(c) /\ ~Delivered(c)' /\ ~Delivered(d) /\ ~Delivered(d)'
       /\ ~Stuck(c)' /\ ~Stuck(d)' /\ ~AwaitDone(c)'
  BY <1>4, <1>6, <1>7, <1>8, <1>11, <1>12, <1>15 DEF Delivered, Stuck, AwaitDone
<1>17. /\ \A x \in Executors : Sent(c, "start", x) = 0 /\ Sent(c, "resume", x) = 0
       /\ \A x \in Executors : Sent(d, "start", x) = 0 /\ Sent(d, "resume", x) = 0
       /\ thens[c] = 0 /\ thens[d] = 0
  BY <1>1, <1>5, <1>6, <1>8 DEF Own, Posted, Then, Waits, Unsent
<1>18. Own(c)'
  <2>1. Table(c)' /\ Lives(c)' /\ Asks(c)'
    BY <1>1, <1>4, <1>6, <1>7, <1>12, <1>15 DEF Own, Table, Lives, Asks
  <2>2. Unused(c)' /\ Jumping(c)' /\ Resumed(c)' /\ Adrift(c)'
    BY <1>1, <1>4, <1>6, <1>10, <1>12, <1>15, <1>16 DEF Own, Unused, Jumping, Resumed, Adrift
  <2>3. Posted(c)' /\ Then(c)'
    BY <1>10, <1>13, <1>17 DEF Posted, Then
  <2> QED
    BY <2>1, <2>2, <2>3 DEF Own
<1>19. Own(d)'
  <2>1. Table(d)' /\ Lives(d)' /\ Asks(d)'
    BY <1>9, <1>11, <1>12, <1>15 DEF Table, Lives, Asks
  <2>2. Unused(d)' /\ Jumping(d)' /\ Resumed(d)' /\ Adrift(d)'
    BY <1>8, <1>9, <1>10, <1>11, <1>12, <1>15, NoneIs
    DEF Unused, Jumping, Resumed, AwaitDone, Adrift
  <2>3. Posted(d)' /\ Then(d)'
    BY <1>10, <1>13, <1>17 DEF Posted, Then
  <2> QED
    BY <2>1, <2>2, <2>3 DEF Own
<1>20. ASSUME NEW b \in Coros PROVE Link(b, c)' /\ Link(c, b)' /\ Link(b, d)' /\ Link(d, b)'
  <2>1. Link(b, c) /\ Link(c, b) /\ Link(b, d) /\ Link(d, b) /\ Link(c, c) /\ Link(d, d) /\ Link(d, c)
    BY <1>1 DEF ConfInv
  <2>2. CASE b \notin {c, d}
    <3>1. Same(b)
      BY <1>14, <2>2
    <3>2. /\ Stuck(b)' <=> Stuck(b)
          /\ Delivered(b)' <=> Delivered(b)
          /\ Unsent(b, "resume")' <=> Unsent(b, "resume")
      BY <3>1 DEF Same, Stuck, Delivered, Unsent
    <3>3. Link(b, c)'
      BY <1>5, <1>6, <1>10, <1>12, <1>15, <1>16, <2>1, <2>2, <3>1, <3>2
      DEF Link, Same, Launching
    <3>4. Link(c, b)'
      BY <1>4, <1>7, <1>15, <1>16, <2>1, <2>2, <3>1, <3>2 DEF Link, Same
    <3>5. Link(b, d)'
      BY <1>8, <1>11, <2>1, <2>2, <3>1 DEF Link, Same
    <3>6. Link(d, b)'
      BY <1>9, <1>15, <2>1, <2>2, <3>1, <3>2, NoneIs DEF Link, Same
    <3> QED
      BY <3>3, <3>4, <3>5, <3>6
  <2>3. Link(c, d)'
    BY <1>4, <1>7, <1>8, <1>10, <1>11, <1>15, <1>16 DEF Link
  <2>4. Link(d, c)'
    BY <1>5, <1>6, <1>9, <1>10, <1>12, <1>15, <2>1, NoneIs DEF Link, Delivered
  <2>5. Link(c, c)' /\ Link(d, d)'
    BY <1>4, <1>7, <1>8, <1>9, <1>11, <1>15, <2>1, NoneIs DEF Link
  <2> QED
    BY <2>2, <2>3, <2>4, <2>5
<1>21. ClosedEmpty' /\ closed' \subseteq Closable /\ fault' = None
  BY <1>1, <1>10, SameSent DEF ConfInv, ClosedEmpty
<1> DEFINE S == {c, d}
<1>22. /\ S \in SUBSET Coros /\ \A b \in Coros \ S : Same(b)
       /\ \A b \in S : Own(b)'
       /\ \A x \in S, b \in Coros \ S : ghost[b].awaiting = x => (Delivered(x)' <=> Delivered(x))
       /\ \A x \in S, b \in Coros : Link(b, x)' /\ Link(x, b)'
  BY <1>14, <1>16, <1>18, <1>19, <1>20
<1> HIDE DEF S
<1> QED
  BY <1>1, <1>12, <1>21, <1>22, Touch

\* When d is about to tell p that it has finished, nothing else will resume p.
LEMMA AwaiterWaits ==
  ASSUME TypeOK, ConfInv, NEW d \in Coros, NEW p \in Coros,
         Phase(d) = "fin", coro[d].finished, coro[d].last_call = p
  PROVE  /\ p # d /\ ghost[p].awaiting = d /\ coro[p].executor \in Executors
         /\ coro[p].source = "fiber" /\ ghost[p].invoked /\ ~coro[p].finished
         /\ Phase(p) \in Waits /\ ~Stuck(p)
         /\ thens[p] = 0
         /\ \A x \in Executors, fn \in {"start", "resume"} : Sent(p, fn, x) = 0
         /\ ~Delivered(d) /\ ~ghost[p].stranded
         /\ coro[d].source = "null" /\ coro[d].yield_after_call = None /\ ghost[d].awaiting = None
         /\ \A b \in Coros : ghost[b].awaiting = d => b = p
<1>1. Link(p, d) /\ Own(p) /\ Own(d) /\ \A b \in Coros : Link(b, d)
  BY DEF ConfInv
<1>2. ~Delivered(d) /\ Phase(d) # "none"
  BY DEF Delivered
<1>3. /\ coro[d].source = "null" /\ coro[d].yield_after_call = None /\ ghost[d].awaiting = None
      /\ p # d /\ ghost[p].awaiting = d
  BY <1>1, <1>2 DEF Own, Table, Link
<1>4. coro[p].executor # None /\ ghost[p].invoked /\ ~Stuck(p)
  BY <1>1, <1>2, <1>3 DEF Link, Launching
<1>5. ~AwaitDone(p)
  BY <1>2, <1>3 DEF AwaitDone
<1>6. /\ coro[p].source = "fiber" /\ ~coro[p].finished
      /\ Phase(p) \in Waits /\ thens[p] = 0
  <2>1. coro[p].source = "fiber" /\ ~coro[p].finished /\ thens[p] = 0
    BY <1>1, <1>3, NoneIs DEF Own, Table, Then
  <2>2. Phase(p) \in Phases \cup {"none"} /\ Phase(p) \notin {"owner", "wait"}
    BY PhaseFrame DEF Acts, Phases
  <2> QED
    BY <1>1, <1>4, <1>5, <2>1, <2>2 DEF Own, Table, Jumping, Waits, Phases
<1>7. \A x \in Executors, fn \in {"start", "resume"} : Sent(p, fn, x) = 0
  BY <1>1, <1>5, <1>6 DEF Own, Posted
<1>8. coro[p].executor \in Executors
  BY <1>4 DEF TypeOK, CoroutineContextBase
<1>10. ~ghost[p].stranded
  BY <1>1, <1>5, <1>6 DEF Own, Adrift
<1>9. \A b \in Coros : ghost[b].awaiting = d => b = p
  BY <1>1 DEF Link
<1> QED
  BY <1>2, <1>3, <1>4, <1>6, <1>7, <1>8, <1>9, <1>10

\* The callback of c posts its awaiter p to the executor of p.
LEMMA LastCallAwaiterConf ==
  ASSUME Ready, NEW t \in Threads, NEW c \in Coros, NEW p \in Coros, UNCHANGED closed,
         LastCallAwaiter(t, c, p)
  PROVE  ConfInv'
<1>1. TypeOK /\ ConfInv /\ StackInv /\ Own(c) /\ Own(p) /\ PostedType /\ closed \subseteq Executors
  BY DEF Ready, ConfInv, TypeOK, PostedType
<1>2. "fin" \in Acts /\ "release" \in Acts /\ "fin" \in Phases
  BY DEF Acts, Phases
<1>3. /\ At(t, c, "fin") /\ coro[c].finished /\ coro[c].last_call = p
      /\ UNCHANGED <<coro, ghost, thens, uses, fault>>
  BY DEF LastCallAwaiter, IsFinished, client
<1>4. Phase(c) = "fin"
  BY <1>1, <1>2, <1>3, TopFrame, PhaseIs DEF TypeOK, StackType, StackInv
<1>5. /\ p # c /\ ghost[p].awaiting = c /\ coro[p].executor \in Executors
      /\ coro[p].source = "fiber" /\ ghost[p].invoked /\ ~coro[p].finished
      /\ Phase(p) \in Waits /\ ~Stuck(p)
      /\ thens[p] = 0
      /\ \A x \in Executors, fn \in {"start", "resume"} : Sent(p, fn, x) = 0
      /\ ~Delivered(c) /\ ~ghost[p].stranded
      /\ coro[c].source = "null" /\ coro[c].yield_after_call = None /\ ghost[c].awaiting = None
      /\ \A b \in Coros : ghost[b].awaiting = c => b = p
  BY <1>1, <1>3, <1>4, AwaiterWaits
<1>6. PICK e \in Executors : e = coro[p].executor
  BY <1>5
<1>7. Post(e, "resume", p) /\ e \notin closed /\ SetStack(t, Moved(t, c, "release"))
  BY <1>6, NoneIs DEF LastCallAwaiter, ResumeAwaiter, Refused
<1>8. StackInv' /\ Goes(c, "release")
  <2>1. AwaitsKept({c})
    BY <1>3 DEF AwaitsKept
  <2> QED
    BY <1>1, <1>2, <1>3, <1>7, <2>1, MoveFrames
<1>9. /\ Sent(p, "resume", e)' = Sent(p, "resume", e) + 1
      /\ \A x \in Executors, b \in Coros, g \in {"start", "resume"} :
           b # p \/ g # "resume" \/ x # e => Sent(b, g, x)' = Sent(b, g, x)
  BY <1>1, <1>7, PostSent
<1>10. \A b \in Coros \ {c, p} : Same(b)
  BY <1>3, <1>8, <1>9 DEF Same, Goes
<1>11. Phase(c)' = "release" /\ Phase(p)' = Phase(p)
  BY <1>5, <1>8 DEF Goes
<1>12. Delivered(c)' /\ ~Delivered(p) /\ ~Delivered(p)' /\ ~Stuck(c)' /\ ~Stuck(p)'
  BY <1>3, <1>5, <1>11 DEF Delivered, Stuck
<1>13. AwaitDone(p)'
  BY <1>3, <1>5, <1>12 DEF AwaitDone
<1>14. Own(c)'
  <2>1. Table(c)' /\ Lives(c)' /\ Asks(c)'
    BY <1>1, <1>3, <1>4, <1>5, <1>11 DEF Own, Table, Lives, Asks
  <2>2. Unused(c)' /\ Jumping(c)' /\ Resumed(c)' /\ Adrift(c)'
    BY <1>1, <1>3, <1>5, <1>11 DEF Own, Unused, Jumping, Resumed, Adrift
  <2>3. Posted(c)' /\ Then(c)'
    BY <1>1, <1>3, <1>5, <1>9 DEF Own, Posted, Then
  <2> QED
    BY <2>1, <2>2, <2>3 DEF Own
<1>15. Own(p)'
  <2>1. Table(p)' /\ Lives(p)' /\ Asks(p)'
    BY <1>1, <1>3, <1>11 DEF Own, Table, Lives, Asks
  <2>2. Unused(p)' /\ Jumping(p)' /\ Adrift(p)'
    BY <1>1, <1>3, <1>5, <1>13 DEF Own, Unused, Jumping, Adrift
  <2>3. Posted(p)' /\ Then(p)' /\ Resumed(p)'
    BY <1>3, <1>5, <1>6, <1>9, <1>11, <1>12, <1>13 DEF Posted, Then, Resumed
  <2> QED
    BY <2>1, <2>2, <2>3 DEF Own
<1>16. ASSUME NEW b \in Coros PROVE Link(b, c)' /\ Link(c, b)' /\ Link(b, p)' /\ Link(p, b)'
  <2>1. Link(b, c) /\ Link(c, b) /\ Link(b, p) /\ Link(p, b) /\ Link(c, c) /\ Link(p, p)
        /\ Link(p, c) /\ Link(c, p)
    BY <1>1 DEF ConfInv
  <2>2. CASE b \notin {c, p}
    <3>1. Same(b)
      BY <1>10, <2>2
    <3>2. /\ Stuck(b)' <=> Stuck(b)
          /\ Delivered(b)' <=> Delivered(b)
          /\ Unsent(b, "resume")' <=> Unsent(b, "resume")
          /\ Launching(b)' <=> Launching(b)
      BY <3>1 DEF Same, Stuck, Delivered, Unsent, Launching
    <3>3. Link(b, c)'
      BY <1>3, <1>5, <1>11, <2>1, <2>2, <3>1 DEF Link, Same
    <3>4. Link(c, b)'
      BY <1>3, <1>5, <2>1, <2>2, <3>1, <3>2, NoneIs DEF Link, Same
    <3>5. Link(b, p)'
      BY <1>3, <1>5, <1>11, <1>12, <2>1, <2>2, <3>1, <3>2 DEF Link, Same, Launching
    <3>6. Link(p, b)'
      BY <1>3, <1>5, <1>12, <2>1, <2>2, <3>1, <3>2 DEF Link, Same
    <3> QED
      BY <3>3, <3>4, <3>5, <3>6
  <2>3. Link(p, c)'
    BY <1>3, <1>5, <1>11, <1>12, <2>1 DEF Link
  <2>4. Link(c, p)'
    BY <1>3, <1>5, <2>1, NoneIs DEF Link, Delivered
  <2>5. Link(c, c)' /\ Link(p, p)'
    BY <1>3, <1>5, <2>1, NoneIs DEF Link
  <2> QED
    BY <2>2, <2>3, <2>4, <2>5
<1>17. ClosedEmpty' /\ closed' \subseteq Closable /\ fault' = None
  BY <1>1, <1>3, <1>7, <1>9 DEF ConfInv, ClosedEmpty
<1> DEFINE S == {c, p}
<1>18. /\ S \in SUBSET Coros /\ \A b \in Coros \ S : Same(b)
       /\ \A b \in S : Own(b)'
       /\ \A x \in S, b \in Coros \ S : ghost[b].awaiting = x => (Delivered(x)' <=> Delivered(x))
       /\ \A x \in S, b \in Coros : Link(b, x)' /\ Link(x, b)'
  BY <1>5, <1>10, <1>12, <1>14, <1>15, <1>16
<1> HIDE DEF S
<1> QED
  BY <1>1, <1>8, <1>17, <1>18, Touch

-----------------------------------------------------------------------------
(* An exception skips the rest of the tails on a stack.                    *)

\* No body is below a tail here, so the exception empties the stack.
LEMMA UnwindsAll ==
  ASSUME TypeOK, ThisInv, NEW t \in Catchers, NEW c \in Coros, NEW q \in {"call", "fin"},
         At(t, c, q), Unwinds(t)
  PROVE  SetStack(t, <<>>) /\ UNCHANGED fault
<1>1. t \in Threads /\ q \in Phases \ {"body"} /\ StackType
  BY ClientAssumption DEF Phases, TypeOK, StackType
<1>2. NoBody(t) /\ stack[t] \in Seq(Frames)
  BY <1>1, TopNoBody DEF StackType
<1>3. ASSUME NEW i \in DOMAIN stack[t], stack[t][i].at = "body" PROVE FALSE
  <2>1. stack[t][i] \in Frames /\ i \in Nat
    BY <1>2
  <2>2. stack[t][i].co \in Coros /\ stack[t][i] = Frame(stack[t][i].co, "body")
    BY <1>3, <2>1 DEF Frames, Frame
  <2> QED
    BY <1>2, <2>1, <2>2 DEF NoBody, BodyAt
<1>4. PICK n \in 1..(Len(stack[t]) + 1) :
        /\ n \in DOMAIN stack[t] => stack[t][n].at = "body"
        /\ \/ n \in DOMAIN stack[t] \/ t \notin Catchers
           \/ SetStack(t, SubSeq(stack[t], n, Len(stack[t]))) /\ UNCHANGED fault
  BY DEF Unwinds
<1>5. n = Len(stack[t]) + 1
  BY <1>2, <1>3, <1>4
<1>6. SubSeq(stack[t], n, Len(stack[t])) = <<>>
  BY <1>2, <1>5
<1> QED
  BY <1>2, <1>3, <1>4, <1>5, <1>6

\* A tail below the top started the coroutine it awaits, which is still there.
LEMMA TailsBelow ==
  ASSUME TypeOK, ConfInv, NEW b \in Coros, NEW a \in Coros, Phase(b) = "clear",
         ghost[b].awaiting = a, Phase(a) \in {"call", "clear", "fin"}
  PROVE  /\ coro[b].source = "fiber" /\ coro[b].yield_after_call # None
         /\ ~coro[b].finished /\ ghost[b].invoked /\ ~ghost[b].stranded
         /\ coro[a].last_call = b /\ ~Delivered(a)
         /\ thens[b] = 0 /\ \A x \in Executors, fn \in {"start", "resume"} : Sent(b, fn, x) = 0
<1>1. Own(b) /\ Link(b, a)
  BY DEF ConfInv
<1>2. /\ coro[b].source = "fiber" /\ coro[b].yield_after_call # None
      /\ ~coro[b].finished /\ ghost[b].invoked
  BY <1>1 DEF Own, Table
<1>3. coro[a].last_call = b /\ ~Delivered(a) /\ ~AwaitDone(b)
  BY <1>1 DEF Link, Delivered, AwaitDone
<1>4. thens[b] = 0 /\ \A x \in Executors, fn \in {"start", "resume"} : Sent(b, fn, x) = 0
  BY <1>1, <1>2, <1>3, NoneIs DEF Own, Then, Posted
<1>5. ~ghost[b].stranded
  BY <1>1, <1>2, <1>3 DEF Own, Adrift
<1> QED
  BY <1>2, <1>3, <1>4, <1>5

LEMMA CallThrowsConf ==
  ASSUME Ready, Closable = {} \/ Catchers = Threads,
         NEW t \in Threads, NEW c \in Coros, UNCHANGED closed, CallThrows(t, c)
  PROVE  ConfInv'
<1>1. TypeOK /\ ConfInv /\ StackInv /\ Own(c) /\ ThisInv /\ closed \subseteq Closable
  BY DEF Ready, ConfInv
<1>2. "call" \in Acts /\ At(t, c, "call") /\ coro[c].executor \in closed
  BY DEF Acts, Phases, CallThrows, Refused
<1>3. SetStack(t, <<>>) /\ UNCHANGED <<fault, coro, posted, thens, uses>>
  BY <1>1, <1>2, UnwindsAll DEF CallThrows, client
<1>4. /\ ghost \in [Coros -> Ghosts]
      /\ ghost' = [ghost EXCEPT ![c].invoked = TRUE, ![c].stranded = TRUE]
  BY <1>1 DEF TypeOK, CallThrows, Refuses
<1>5. /\ ghost'[c].invoked /\ ghost'[c].awaiting = ghost[c].awaiting
      /\ ghost'[c].stranded
      /\ \A b \in Coros \ {c} : ghost'[b] = ghost[b]
  BY <1>4 DEF Ghosts
<1>6. AwaitsKept({})
  BY <1>5 DEF AwaitsKept
<1>7. /\ StackInv'
      /\ Phase(c) = "call" /\ On(t, c)
      /\ \A b \in Coros :
           IF On(t, b)
           THEN /\ Phase(b)' = "none" /\ Phase(b) \in Acts
                /\ b # c => /\ Phase(b) = "clear" /\ ghost[b].awaiting \in Coros
                            /\ On(t, ghost[b].awaiting)
           ELSE Phase(b)' = Phase(b)
  BY <1>1, <1>2, <1>3, <1>6, UnwoundFrames
<1> DEFINE S == {b \in Coros : On(t, b)}
<1>8. /\ c \in S /\ S \in SUBSET Coros
      /\ \A b \in Coros \ S : Phase(b)' = Phase(b)
      /\ \A b \in S : Phase(b)' = "none"
      /\ \A b \in S : b # c => Phase(b) = "clear" /\ ghost[b].awaiting \in S
      /\ \A b \in S : Phase(b) \in {"call", "clear"}
  BY <1>7
<1> HIDE DEF S
<1>9. /\ coro[c].source = "fiber" /\ coro[c].yield_after_call # None /\ ~ghost[c].invoked
      /\ ~coro[c].finished
  BY <1>1, <1>7 DEF Own, Table
<1>10. ghost[c].awaiting = None
  <2>1. \A d : coro[c].yield_after_call # [fn |-> "start", co |-> d]
    BY TaskIs DEF CallThrows
  <2> QED
    BY <1>1, <1>9, <2>1 DEF Own, Asks
<1>11. thens[c] = 0 /\ \A x \in Executors, fn \in {"start", "resume"} : Sent(c, fn, x) = 0
  BY <1>1, <1>7, <1>9 DEF Own, Then, Posted, Waits
<1>12. ASSUME NEW b \in S, b # c
       PROVE  /\ coro[b].source = "fiber" /\ coro[b].yield_after_call # None
              /\ ~coro[b].finished /\ ghost[b].invoked /\ ~ghost[b].stranded
              /\ thens[b] = 0 /\ \A x \in Executors, fn \in {"start", "resume"} : Sent(b, fn, x) = 0
  <2>1. PICK a \in S : a = ghost[b].awaiting
    BY <1>8, <1>12
  <2>2. Phase(b) = "clear" /\ Phase(a) \in {"call", "clear"} /\ b \in Coros /\ a \in Coros
    BY <1>8, <1>12
  <2> QED
    BY <1>1, <2>1, <2>2, TailsBelow
<1>13. \A b \in Coros, fn \in {"start", "resume"}, x \in Executors : Sent(b, fn, x)' = Sent(b, fn, x)
  BY <1>3, SameSent
<1>14. \A b \in Coros \ S : Same(b)
  BY <1>3, <1>5, <1>8, <1>13 DEF Same
<1>15. \A b \in S : /\ coro[b].source = "fiber" /\ coro[b].yield_after_call # None
                    /\ ~coro[b].finished /\ ~Delivered(b) /\ ~Delivered(b)'
                    /\ Phase(b)' = "none" /\ Phase(b) # "none" /\ Stuck(b)'
  BY <1>3, <1>8, <1>9, <1>12 DEF Delivered, Stuck
<1>16. ASSUME NEW b \in S PROVE Own(b)'
  <2>1. Own(b) /\ b \in Coros
    BY <1>1, <1>8 DEF ConfInv
  <2>2. Table(b)'
    BY <1>3, <1>5, <1>9, <1>12, <1>15, <2>1 DEF Own, Table
  <2>7. Lives(b)'
    BY <1>3, <1>5, <1>9, <1>12, <1>15, <2>1 DEF Own, Lives
  <2>8. Asks(b)'
    BY <1>3, <1>5, <1>9, <1>12, <1>15, <2>1 DEF Own, Asks
  <2>3. Unused(b)' /\ Jumping(b)'
    BY <1>3, <1>15, <2>1 DEF Own, Unused, Jumping
  <2>4. Posted(b)' /\ Then(b)'
    BY <1>3, <1>11, <1>12, <1>13, <2>1 DEF Posted, Then
  <2>5. Resumed(b)'
    <3>1. CASE b = c
      BY <1>5, <3>1 DEF Resumed
    <3>2. CASE b # c
      <4>1. PICK a \in S : a = ghost[b].awaiting
        BY <1>8, <3>2
      <4>2. ~Delivered(a)' /\ a \in Coros /\ ghost'[b].awaiting = a
        BY <1>5, <1>8, <1>15, <2>1, <3>2, <4>1
      <4> QED
        BY <4>2 DEF Resumed, AwaitDone
    <3> QED
      BY <3>1, <3>2
  <2>6. Adrift(b)'
    <3>1. CASE b = c
      BY <1>3, <1>5, <1>9, <1>10, <1>11, <1>13, <1>15, <2>1, <3>1, NoneIs
      DEF Adrift, Unsent, Waits, AwaitDone
    <3>2. CASE b # c
      BY <1>5, <1>12, <2>1, <3>2 DEF Adrift
    <3> QED
      BY <3>1, <3>2
  <2> QED
    BY <2>2, <2>3, <2>4, <2>5, <2>6, <2>7, <2>8 DEF Own
<1>17. ASSUME NEW x \in S, NEW b \in Coros PROVE Link(b, x)' /\ Link(x, b)'
  <2>1. Link(b, x) /\ Link(x, b) /\ x \in Coros
    BY <1>1, <1>8 DEF ConfInv
  <2>2. \A y \in Coros : /\ Unsent(y, "resume")' <=> Unsent(y, "resume")
                         /\ Launching(y)' <=> Launching(y)
                         /\ Delivered(y)' <=> Delivered(y)
    <3>1. ASSUME NEW y \in Coros
          PROVE  /\ Unsent(y, "resume")' <=> Unsent(y, "resume")
                 /\ Launching(y)' <=> Launching(y)
      BY <1>3, <1>5, <1>9, <1>13 DEF Unsent, Launching
    <3>2. ASSUME NEW y \in Coros PROVE Delivered(y)' <=> Delivered(y)
      BY <1>14, <1>15 DEF Same, Delivered
    <3> QED
      BY <3>1, <3>2
  <2>3. Link(x, b)'
    <3>1. CASE x = c
      BY <1>3, <1>5, <1>8, <1>10, <1>15, <2>1, <2>2, <3>1, NoneIs DEF Link
    <3>2. CASE x # c
      <4>1. ghost[x].awaiting \in S /\ ghost'[x] = ghost[x]
        BY <1>5, <1>8, <2>1, <3>2
      <4>2. CASE b \in S
        BY <1>3, <1>8, <1>15, <2>1, <2>2, <4>1, <4>2 DEF Link
      <4>3. CASE b \notin S
        BY <1>3, <1>8, <1>14, <2>1, <2>2, <4>1, <4>3 DEF Link, Same
      <4> QED
        BY <4>2, <4>3
    <3> QED
      BY <3>1, <3>2
  <2>4. Link(b, x)'
    <3>1. ghost'[b].awaiting = ghost[b].awaiting /\ (ghost[b].invoked => ghost'[b].invoked)
      BY <1>5
    <3>2. ghost'[b].awaiting = x /\ Stuck(b)' => Phase(x)' = "none" /\ coro'[x].yield_after_call # None
      BY <1>3, <1>15
    <3> QED
      BY <1>3, <1>15, <2>1, <2>2, <3>1, <3>2 DEF Link
  <2> QED
    BY <2>3, <2>4
<1>18. ClosedEmpty' /\ closed' \subseteq Closable /\ fault' = None
  BY <1>1, <1>3, SameSent DEF ConfInv, ClosedEmpty
<1> QED
  BY <1>1, <1>7, <1>8, <1>14, <1>15, <1>16, <1>17, <1>18, Touch

LEMMA LastCallThrowsConf ==
  ASSUME Ready, Closable = {} \/ Catchers = Threads,
         NEW t \in Threads, NEW c \in Coros, NEW p \in Coros, UNCHANGED closed,
         LastCallThrows(t, c, p)
  PROVE  ConfInv'
<1>1. TypeOK /\ ConfInv /\ StackInv /\ Own(c) /\ Own(p) /\ ThisInv /\ closed \subseteq Closable
  BY DEF Ready, ConfInv
<1>2. /\ "fin" \in Acts /\ At(t, c, "fin") /\ coro[p].executor \in closed
      /\ coro[c].finished /\ coro[c].last_call = p
  BY DEF Acts, Phases, LastCallThrows, Refused, IsFinished
<1>3. SetStack(t, <<>>) /\ UNCHANGED <<fault, coro, posted, thens, uses>>
  BY <1>1, <1>2, UnwindsAll DEF LastCallThrows, client
<1>22. /\ ghost'[p].stranded
       /\ \A b \in Coros : /\ ghost'[b].awaiting = ghost[b].awaiting
                           /\ ghost'[b].invoked = ghost[b].invoked
                           /\ b # p => ghost'[b] = ghost[b]
  BY <1>1 DEF LastCallThrows, Strands, TypeOK, Ghosts
<1>4. AwaitsKept({})
  BY <1>22 DEF AwaitsKept
<1>5. /\ StackInv'
      /\ Phase(c) = "fin" /\ On(t, c)
      /\ \A b \in Coros :
           IF On(t, b)
           THEN /\ Phase(b)' = "none" /\ Phase(b) \in Acts
                /\ b # c => /\ Phase(b) = "clear" /\ ghost[b].awaiting \in Coros
                            /\ On(t, ghost[b].awaiting)
           ELSE Phase(b)' = Phase(b)
  BY <1>1, <1>2, <1>3, <1>4, UnwoundFrames
<1> DEFINE S == {b \in Coros : On(t, b)}
<1>6. /\ c \in S /\ S \in SUBSET Coros
      /\ \A b \in Coros \ S : Phase(b)' = Phase(b)
      /\ \A b \in S : Phase(b)' = "none"
      /\ \A b \in S : b # c => Phase(b) = "clear" /\ ghost[b].awaiting \in S
      /\ \A b \in S : Phase(b) \in {"fin", "clear"}
  BY <1>5
<1> HIDE DEF S
<1>7. /\ p # c /\ ghost[p].awaiting = c /\ coro[p].executor \in Executors
      /\ coro[p].source = "fiber" /\ ghost[p].invoked /\ ~coro[p].finished
      /\ Phase(p) \in Waits /\ ~Stuck(p)
      /\ thens[p] = 0
      /\ \A x \in Executors, fn \in {"start", "resume"} : Sent(p, fn, x) = 0
      /\ ~Delivered(c)
      /\ coro[c].source = "null" /\ coro[c].yield_after_call = None /\ ghost[c].awaiting = None
      /\ \A b \in Coros : ghost[b].awaiting = c => b = p
  BY <1>1, <1>2, <1>5, AwaiterWaits
<1>8. ASSUME NEW b \in S, b # c
      PROVE  /\ coro[b].source = "fiber" /\ coro[b].yield_after_call # None
             /\ ~coro[b].finished /\ ghost[b].invoked /\ ~ghost[b].stranded
             /\ thens[b] = 0 /\ \A x \in Executors, fn \in {"start", "resume"} : Sent(b, fn, x) = 0
  <2>1. PICK a \in S : a = ghost[b].awaiting
    BY <1>6, <1>8
  <2>2. Phase(b) = "clear" /\ Phase(a) \in {"clear", "fin"} /\ b \in Coros /\ a \in Coros
    BY <1>6, <1>8
  <2> QED
    BY <1>1, <2>1, <2>2, TailsBelow
<1>9. \A b \in Coros, fn \in {"start", "resume"}, x \in Executors : Sent(b, fn, x)' = Sent(b, fn, x)
  BY <1>3, SameSent
<1>10. \A b \in Coros \ (S \cup {p}) : Same(b)
  BY <1>3, <1>6, <1>9, <1>22 DEF Same
<1>11. \A b \in S : b # c => ~Delivered(b) /\ ~Delivered(b)'
  BY <1>3, <1>8 DEF Delivered
<1>12. Delivered(c)' /\ ~Stuck(c)'
  BY <1>2, <1>3, <1>6, <1>7 DEF Delivered, Stuck
<1>13. Phase(p)' \in Waits /\ Phase(p)' # "jump" /\ AwaitDone(p)'
  <2>1. Phase(p)' \in Waits /\ Phase(p)' # "jump"
    BY <1>6, <1>7 DEF Waits
  <2> QED
    BY <1>2, <1>3, <1>7, <1>12, <1>22, <2>1 DEF AwaitDone
<1>14. Own(c)'
  <2>1. Table(c)' /\ Lives(c)' /\ Asks(c)'
    BY <1>1, <1>2, <1>3, <1>6, <1>7, <1>22 DEF Own, Table, Lives, Asks
  <2>2. Unused(c)' /\ Jumping(c)' /\ Resumed(c)' /\ Adrift(c)'
    BY <1>1, <1>2, <1>3, <1>6, <1>7, <1>22 DEF Own, Unused, Jumping, Resumed, Adrift
  <2>3. Posted(c)' /\ Then(c)'
    BY <1>1, <1>2, <1>3, <1>7, <1>9 DEF Own, Posted, Then
  <2> QED
    BY <2>1, <2>2, <2>3 DEF Own
<1>15. Own(p)'
  <2>1. Table(p)' /\ Lives(p)' /\ Asks(p)'
    <3>1. Phase(p)' \in {Phase(p), "none"} /\ coro'[p] = coro[p]
      BY <1>3, <1>6
    <3>2. ghost'[p].awaiting = ghost[p].awaiting /\ ghost'[p].invoked = ghost[p].invoked
      BY <1>22
    <3>3. Table(p) /\ Lives(p) /\ Asks(p) /\ p \in Coros
      BY <1>1 DEF Own
    <3>4. Table(p)'
      BY <1>7, <3>1, <3>2, <3>3 DEF Table
    <3>5. Lives(p)'
      BY <1>7, <3>1, <3>3 DEF Lives
    <3> QED
      BY <3>1, <3>2, <3>3, <3>4, <3>5 DEF Asks
  <2>2. Unused(p)' /\ Jumping(p)' /\ Resumed(p)'
    BY <1>1, <1>3, <1>7, <1>13, <1>22 DEF Own, Unused, Jumping, Resumed
  <2>4. Adrift(p)'
    BY <1>3, <1>7, <1>9, <1>13, <1>22 DEF Adrift, Unsent
  <2>3. Posted(p)' /\ Then(p)'
    BY <1>3, <1>7, <1>9 DEF Posted, Then
  <2> QED
    BY <2>1, <2>2, <2>3, <2>4 DEF Own
<1>16. ASSUME NEW b \in S, b # c, b # p PROVE Own(b)'
  <2>1. Own(b) /\ b \in Coros /\ Phase(b)' = "none"
    BY <1>1, <1>6 DEF ConfInv
  <2>2. Table(b)' /\ Lives(b)' /\ Asks(b)'
    BY <1>3, <1>8, <1>16, <1>22, <2>1 DEF Own, Table, Lives, Asks
  <2>3. Unused(b)' /\ Jumping(b)' /\ Adrift(b)'
    BY <1>3, <1>8, <1>16, <1>22, <2>1 DEF Own, Unused, Jumping, Adrift
  <2>4. Posted(b)' /\ Then(b)'
    BY <1>3, <1>8, <1>9, <1>16, <2>1 DEF Posted, Then
  <2>5. Resumed(b)'
    <3>1. PICK a \in S : a = ghost[b].awaiting
      BY <1>6, <1>16
    <3>2. ~Delivered(a)' /\ a \in Coros /\ ghost'[b].awaiting = a
      BY <1>6, <1>7, <1>11, <1>16, <1>22, <2>1, <3>1
    <3> QED
      BY <3>2 DEF Resumed, AwaitDone
  <2> QED
    BY <2>2, <2>3, <2>4, <2>5 DEF Own
<1>17. \A y \in Coros : /\ Unsent(y, "resume")' <=> Unsent(y, "resume")
                        /\ Launching(y)' <=> Launching(y)
                        /\ y # c => (Delivered(y)' <=> Delivered(y))
  <2>1. ASSUME NEW y \in Coros
        PROVE  /\ Unsent(y, "resume")' <=> Unsent(y, "resume")
               /\ Launching(y)' <=> Launching(y)
    BY <1>3, <1>7, <1>9, <1>22 DEF Unsent, Launching
  <2>2. ASSUME NEW y \in Coros, y # c PROVE Delivered(y)' <=> Delivered(y)
    BY <1>3, <1>7, <1>10, <1>11, <2>2 DEF Same, Delivered
  <2> QED
    BY <2>1, <2>2
<1>18. ASSUME NEW x \in S, NEW b \in Coros PROVE Link(b, x)' /\ Link(x, b)'
  <2>1. Link(b, x) /\ Link(x, b) /\ x \in Coros
    BY <1>1, <1>6 DEF ConfInv
  <2>2. Link(x, b)'
    <3>1. CASE x = c
      BY <1>22, <1>2, <1>3, <1>6, <1>7, <1>8, <1>12, <1>17, <2>1, <3>1, NoneIs DEF Link
    <3>2. CASE x # c
      <4>1. ghost[x].awaiting \in S
        BY <1>6, <3>2
      <4>2. CASE b = c
        <5>1. ghost[x].awaiting = c => x = p
          BY <1>7, <2>1
        <5>2. coro[c].last_call = x => x = p
          BY <1>2
        <5> QED
          BY <1>22, <1>2, <1>3, <1>6, <1>7, <1>12, <1>13, <1>17, <2>1, <3>2, <4>2, <5>1, <5>2
          DEF Link, Unsent
      <4>3. CASE b \in S /\ b # c
        BY <1>22, <1>3, <1>6, <1>8, <1>11, <1>17, <2>1, <4>1, <4>3 DEF Link
      <4>4. CASE b \notin S
        BY <1>3, <1>6, <1>7, <1>17, <1>22, <2>1, <4>1, <4>4 DEF Link
      <4> QED
        BY <4>2, <4>3, <4>4
    <3> QED
      BY <3>1, <3>2
  <2>3. Link(b, x)'
    <3>1. CASE x = c
      <4>1. ghost[b].awaiting = c \/ coro[c].last_call = b => b = p
        BY <1>2, <1>7
      <4> QED
        BY <1>22, <1>2, <1>3, <1>6, <1>7, <1>12, <1>13, <1>17, <2>1, <3>1, <4>1 DEF Link, Unsent
    <3>2. CASE x # c
      <4>1. Phase(x)' = "none" /\ coro'[x].yield_after_call # None /\ ~coro'[x].finished
        BY <1>3, <1>6, <1>8, <3>2
      <4> QED
        BY <1>22, <1>3, <1>17, <2>1, <3>2, <4>1 DEF Link
    <3> QED
      BY <3>1, <3>2
  <2> QED
    BY <2>2, <2>3
<1>19. ASSUME NEW b \in Coros PROVE Link(b, p)' /\ Link(p, b)'
  <2>1. CASE p \in S \/ b \in S
    BY <1>18, <2>1
  <2>2. CASE p \notin S /\ b \notin S
    <3>1. Link(b, p) /\ Link(p, b) /\ c \in S
      BY <1>1, <1>6 DEF ConfInv
    <3>2. Phase(b)' = Phase(b) /\ Phase(p)' = Phase(p) /\ b # c
      BY <1>6, <2>2
    <3>3. (Stuck(b)' <=> Stuck(b)) /\ (Stuck(p)' <=> Stuck(p))
      BY <1>3, <3>2 DEF Stuck
    <3>4. (Delivered(b)' <=> Delivered(b)) /\ (Delivered(p)' <=> Delivered(p))
      BY <1>3, <3>2 DEF Delivered
    <3> QED
      BY <1>3, <1>17, <1>22, <3>1, <3>2, <3>3, <3>4 DEF Link
  <2> QED
    BY <2>1, <2>2
<1>20. ClosedEmpty' /\ closed' \subseteq Closable /\ fault' = None
  BY <1>1, <1>3, SameSent DEF ConfInv, ClosedEmpty
<1> DEFINE R == S \cup {p}
<1>21. /\ R \in SUBSET Coros /\ \A b \in Coros \ R : Same(b)
       /\ \A b \in R : Own(b)'
       /\ \A x \in R, b \in Coros \ R : ghost[b].awaiting = x => (Delivered(x)' <=> Delivered(x))
       /\ \A x \in R, b \in Coros : Link(b, x)' /\ Link(x, b)'
  <2>1. \A x \in R, b \in Coros \ R : ghost[b].awaiting = x => (Delivered(x)' <=> Delivered(x))
    BY <1>6, <1>7, <1>17
  <2>2. \A b \in R : Own(b)'
    BY <1>14, <1>15, <1>16
  <2> QED
    BY <1>6, <1>10, <1>18, <1>19, <2>1, <2>2
<1> HIDE DEF R
<1> QED
  BY <1>1, <1>5, <1>20, <1>21, Touch

-----------------------------------------------------------------------------
(* The faults never happen, and the invariant always holds.                *)

\* resume() finds a context to switch to, and nobody else is about to switch.
LEMMA NoEnterFails ==
  ASSUME Ready, NEW t \in Threads, NEW c \in Coros
  PROVE  ~EnterFails(t, c)
<1> SUFFICES ASSUME EnterFails(t, c)
             PROVE  FALSE
  OBVIOUS
<1>1. StackType /\ OneAct /\ Table(c) /\ "jump" \in Acts /\ "jump" \in Phases
  BY DEF Ready, TypeOK, StackType, ConfInv, StackInv, Own, Acts, Phases
<1>2. FrameAt(t, 1, c, "jump")
  BY <1>1, TopFrame DEF EnterFails
<1>3. Phase(c) = "jump"
  BY <1>1, <1>2, PhaseIs
<1>4. ASSUME NEW u \in Threads \ {t}, At(u, c, "jump")
      PROVE  FALSE
  <2>1. FrameAt(u, 1, c, "jump")
    BY <1>1, <1>4, TopFrame
  <2> QED
    BY <1>1, <1>2, <2>1 DEF OneAct, ActAt
<1>5. coro[c].source \in {"fresh", "fiber"}
  BY <1>1, <1>3 DEF Table
<1> QED
  BY <1>4, <1>5 DEF EnterFails

LEMMA NoEnterTwice ==
  ASSUME Ready, NEW t \in Threads, NEW c \in Coros
  PROVE  \A u \in Threads : ~EnterTwice(t, u, c)
<1> SUFFICES ASSUME NEW u \in Threads, EnterTwice(t, u, c)
             PROVE  FALSE
  OBVIOUS
<1>1. StackType /\ OneAct /\ "jump" \in Acts /\ "jump" \in Phases
  BY DEF Ready, TypeOK, StackType, ConfInv, StackInv, Acts, Phases
<1>2. FrameAt(t, 1, c, "jump") /\ FrameAt(u, 1, c, "jump") /\ t # u
  BY <1>1, TopFrame DEF EnterTwice
<1> QED
  BY <1>1, <1>2 DEF OneAct, ActAt

\* The function that the tail is about to call is still there.
LEMMA NoCallFails ==
  ASSUME Ready, NEW t \in Threads, NEW c \in Coros
  PROVE  ~CallFails(t, c)
<1> SUFFICES ASSUME CallFails(t, c)
             PROVE  FALSE
  OBVIOUS
<1>1. StackType /\ OneAct /\ Table(c) /\ "call" \in Acts /\ "call" \in Phases
  BY DEF Ready, TypeOK, StackType, ConfInv, StackInv, Own, Acts, Phases
<1>2. FrameAt(t, 1, c, "call")
  BY <1>1, TopFrame DEF CallFails
<1>3. Phase(c) = "call"
  BY <1>1, <1>2, PhaseIs
<1> QED
  BY <1>1, <1>3 DEF Table, CallFails

LEMMA ConfInit == Init => ConfInv
<1> SUFFICES ASSUME Init
             PROVE  ConfInv
  OBVIOUS
<1>1. \A t \in Threads, i \in Nat, c \in Coros : ~ActAt(t, i, c)
  BY DEF Init, ActAt, FrameAt
<1>2. \A c \in Coros : Phase(c) = "none"
  BY <1>1 DEF Phase, ActAt
<1>3. StackInv
  BY <1>1 DEF StackInv, OneAct, Shape, Init
<1>4. \A c \in Coros, e \in Executors, fn \in {"start", "resume"} : Sent(c, fn, e) = 0
  BY DEF Init, Sent, Tasks
<1>5. ASSUME NEW c \in Coros
      PROVE  Own(c)
  <2>1. Table(c) /\ Asks(c) /\ Lives(c)
    BY <1>2 DEF Init, Table, Asks, Lives
  <2>2. Unused(c) /\ Posted(c) /\ Then(c) /\ Jumping(c) /\ Resumed(c) /\ Adrift(c)
    BY <1>2, <1>4 DEF Init, Unused, Unsent, Posted, Then, Jumping, Resumed, Adrift
  <2> QED
    BY <2>1, <2>2 DEF Own
<1>6. \A c, d \in Coros : Link(c, d)
  BY NoneIs DEF Init, Link
<1>7. closed \subseteq Closable /\ ClosedEmpty /\ fault = None
  BY DEF Init, ClosedEmpty
<1> QED
  BY <1>3, <1>5, <1>6, <1>7 DEF ConfInv

LEMMA ResumeStepConf ==
  ASSUME Confined, Ready, NEW t \in Threads, NEW c \in Coros, UNCHANGED closed, Resume(t, c)
  PROVE  ConfInv'
<1>1. /\ ~EnterFails(t, c) /\ ~CallFails(t, c)
      /\ \A u \in Threads : ~EnterTwice(t, u, c)
  BY NoEnterFails, NoEnterTwice, NoCallFails
<1>2. CASE Enter(t, c) \/ Check(t, c) \/ CallPost(t, c) \/ CallThen(t, c) \/ CallThrows(t, c)
  BY <1>2, EnterConf, CheckConf, CallOwnConf, CallThrowsConf DEF Confined
<1>3. CASE \E d \in Coros : CallStart(t, c, d)
  BY <1>3, CallStartConf
<1>4. CASE Clear(t, c) \/ NotFinished(t, c) \/ LastCallEmpty(t, c) \/ Release(t, c)
  BY <1>4, ClearConf, NotFinishedConf, LastCallConf, ReleaseConf
<1>5. CASE \E p \in Coros : LastCallAwaiter(t, c, p) \/ LastCallThrows(t, c, p)
  BY <1>5, LastCallAwaiterConf, LastCallThrowsConf DEF Confined
<1>6. CASE \E w \in Threads : LastCallEvent(t, c, w)
  BY <1>6, LastCallConf
<1>7. CASE OwnerReturns(t, c) \/ SyncWaitReturns(t, c)
  BY <1>7, ReturnConf
<1> QED
  BY <1>1, <1>2, <1>3, <1>4, <1>5, <1>6, <1>7 DEF Resume

LEMMA BodyStepConf ==
  ASSUME Confined, Ready, NEW t \in Threads, NEW c \in Coros, UNCHANGED closed, Body(t, c)
  PROVE  ConfInv'
<1>1. ~YieldFails(t, c)
  BY BodyStepThis DEF Confined, Ready
<1>2. ~Yield(t, c) /\ \A d \in Coros : ~Call(t, c, d) /\ ~CallResume(t, c, d)
  BY DEF Confined, Call, CallResume, Yield
<1>3. \A d \in Coros : Await(t, c, d) => ConfInv'
  BY AwaitConf DEF Confined
<1> QED
  BY <1>1, <1>2, <1>3, SuspendConf, FinishConf DEF Body

\* Every step of a confined program keeps the invariant.
LEMMA ConfStep ==
  ASSUME Confined, Ready, [Next /\ Timely]_vars
  PROVE  ConfInv'
<1>1. ASSUME Timely, NEW t \in Threads, NEW c \in Coros, TakeWork(t, c), UNCHANGED closed
      PROVE  ConfInv'
  BY <1>1, RunStartConf, RunResumeConf, CompleteConf DEF TakeWork, Confined
<1>2. CASE Timely /\ \E t \in Threads : ThreadStep(t)
  BY <1>1, <1>2, ResumeStepConf, BodyStepConf DEF ThreadStep
<1>3. CASE ClientStep
  <2>1. \A t \in Threads, c \in Coros : ~Destory(t, c) /\ ~ResumePlain(t, c)
    BY DEF Confined, Destory, ResumePlain
  <2> QED
    BY <1>3, <2>1, PostCoroConf, StartConf, DropConf DEF ClientStep, Confined
<1>4. ASSUME NEW e \in Executors, fault = None, Shutdown(e)
      PROVE  ConfInv'
  BY <1>4, ShutdownConf
<1>5. CASE UNCHANGED vars
  <2>1. StackInv' /\ PhasesKept
    BY <1>5, SameFrames DEF Ready, ConfInv, vars, AwaitsKept
  <2> QED
    BY <1>5, <2>1, QuietConf DEF Ready, vars, client
<1> QED
  BY <1>2, <1>3, <1>4, <1>5 DEF Next

LEMMA TimelyIsSpec == TimelySpec => Spec
<1>1. [Next /\ Timely]_vars => [Next]_vars
  OBVIOUS
<1> QED
  BY <1>1, PTL DEF TimelySpec, Spec

\* The invariant holds in every state of a timely behaviour.
LEMMA AlwaysReady ==
  ASSUME Confined
  PROVE  TimelySpec => []Ready
<1>1. Confined /\ Calls = {}
  BY DEF Confined
<1>2. Init => ConfInv
  BY ConfInit
<1>3. TypeOK /\ ThisInv /\ ConfInv /\ [Next /\ Timely]_vars => ConfInv'
  BY <1>1, ConfStep DEF Ready
<1>4. Spec => []ThisInv
  BY <1>1, ThisInvHolds
<1>5. TypeOK /\ ThisInv /\ ConfInv <=> Ready
  BY DEF Ready
<1> QED
  BY <1>2, <1>3, <1>4, <1>5, TypeCorrect, TimelyIsSpec, PTL DEF TimelySpec

\* In a confined program no assertion of the fibers fails, no coroutine is
\* started twice, and no exception reaches a thread that does not catch it.
THEOREM ConfinedNoFault ==
  ASSUME Confined
  PROVE  TimelySpec => []NoFault
<1>1. Ready => NoFault
  BY DEF Ready, ConfInv, NoFault
<1> QED
  BY <1>1, AlwaysReady, PTL

\* await(d) returns to the body of its caller only after d has finished.
THEOREM ConfinedAwaitOrder ==
  ASSUME Confined
  PROVE  TimelySpec => []AwaitOrder
<1>1. Ready => AwaitOrder
  <2> SUFFICES ASSUME Ready, NEW t \in Threads, NEW c \in Coros, At(t, c, "jump"),
                      ghost[c].awaiting # None
               PROVE  coro[ghost[c].awaiting].finished
    BY DEF AwaitOrder
  <2>1. StackType /\ OneAct /\ "jump" \in Acts /\ "jump" \in Phases /\ Jumping(c)
    BY DEF Ready, TypeOK, StackType, ConfInv, StackInv, Own, Acts, Phases
  <2>2. Phase(c) = "jump"
    BY <2>1, TopFrame, PhaseIs
  <2>3. ghost[c].awaiting \in Coros
    BY DEF Ready, TypeOK, Ghosts
  <2> QED
    BY <2>1, <2>2, <2>3 DEF Jumping, AwaitDone, Delivered
<1> QED
  BY <1>1, AlwaysReady, PTL

\* Raw pointers to a coroutine never outlive the last shared pointer to it.
LEMMA ReadyPointersAlive ==
  ASSUME Ready
  PROVE  PointersAlive
<1> SUFFICES ASSUME NEW c \in Coros, PointedTo(c)
             PROVE  Owned(c)
  BY DEF PointersAlive
<1>1. Own(c) /\ TypeOK /\ StackInv /\ \A p, d \in Coros : Link(p, d)
  BY DEF Ready, ConfInv
<1>2. CASE FramesOf(c, Phases \ {"owner", "wait"}) # {}
  <2>1. PICK t \in Threads, i \in Nat, q \in Acts : FrameAt(t, i, c, q)
    BY <1>1, <1>2, NoFramesOf DEF Acts
  <2>2. Phase(c) \in Acts
    BY <1>1, <2>1, PhaseIs DEF StackInv
  <2>3. coro[c].source # "null" \/ coro[c].finished
    BY <1>1, <2>2 DEF Own, Table, Acts, Phases
  <2> QED
    BY <1>1, <2>2, <2>3 DEF Own, Lives, Owned, Acts, Phases
<1>3. ASSUME NEW e \in Executors, posted[e][[fn |-> "resume", co |-> c]] > 0
      PROVE  Owned(c)
  BY <1>1, <1>3 DEF Own, Posted, Sent, Owned
<1>4. CASE thens[c] > 0
  BY <1>1, <1>4 DEF Own, Then, Owned
<1>5. ASSUME NEW d \in Coros, coro[d].last_call = c, coro[d].source # "null"
      PROVE  Owned(c)
  <2>1. Own(d) /\ Link(c, d)
    BY <1>1 DEF Ready, ConfInv
  <2>2. ~coro[d].finished
    BY <1>5, <2>1 DEF Own, Table
  <2>3. ghost[c].awaiting = d
    BY <1>5, <2>1, <2>2 DEF Link, Delivered
  <2>4. coro[c].source = "fiber"
    BY <1>1, <2>3, NoneIs DEF Own, Table
  <2> QED
    BY <2>4 DEF Owned
<1> QED
  BY <1>2, <1>3, <1>4, <1>5 DEF PointedTo

-----------------------------------------------------------------------------
(* Every coroutine has one continuation.                                   *)

\* The frames of the one resume() of c.
LEMMA ActFrames ==
  ASSUME TypeOK, OneAct, NEW c \in Coros, NEW S \in SUBSET Acts
  PROVE  IF Phase(c) \in S THEN \E p : FramesOf(c, S) = {p} ELSE FramesOf(c, S) = {}
<1>0. S \in SUBSET Phases /\ "none" \notin Acts
  BY DEF Acts, Phases
<1>1. ASSUME NEW t \in Threads, NEW i \in Nat, NEW q \in S, FrameAt(t, i, c, q)
      PROVE  Phase(c) = q
  BY <1>1, PhaseIs
<1>2. ASSUME Phase(c) \notin S
      PROVE  FramesOf(c, S) = {}
  BY <1>0, <1>1, <1>2, NoFramesOf
<1>3. ASSUME Phase(c) \in S
      PROVE  \E p : FramesOf(c, S) = {p}
  <2>1. PICK t \in Threads, i \in Nat : FrameAt(t, i, c, Phase(c))
    BY <1>3, PhaseFrame
  <2>2. FramesOf(c, S) # {}
    BY <1>0, <1>3, <2>1, NoFramesOf
  <2>3. ASSUME NEW p \in FramesOf(c, S)
        PROVE  p = <<t, i>>
    <3>1. PICK u \in Threads : p \in {u} \X DOMAIN stack[u]
      BY <2>3 DEF FramesOf
    <3>2. stack[u] \in Seq(Frames) /\ p = <<u, p[2]>> /\ p[2] \in DOMAIN stack[u]
      BY <3>1 DEF TypeOK
    <3>3. stack[u][p[2]] \in Frames /\ stack[u][p[2]].co = c /\ stack[u][p[2]].at \in S /\ p[2] \in Nat
      BY <2>3, <3>2 DEF FramesOf
    <3>4. FrameAt(u, p[2], c, stack[u][p[2]].at)
      BY <3>2, <3>3 DEF FrameAt, Frames, Frame
    <3>5. u = t /\ p[2] = i
      BY <1>3, <2>1, <3>3, <3>4 DEF OneAct, ActAt
    <3> QED
      BY <3>2, <3>5
  <2>4. FramesOf(c, S) = {<<t, i>>}
    BY <2>2, <2>3
  <2> QED
    BY <2>4
<1> QED
  BY <1>2, <1>3

\* The parts of Claims.
PostedClaims(c) ==
  UNION {{e} \X (1..posted[e][[fn |-> "resume", co |-> c]]) : e \in Executors}
ThenClaims(c) == {<<"then", n>> : n \in 1..thens[c]}
YieldClaims(c) ==
  {<<"yield", f>> : f \in {f \in {coro[c].yield_after_call} :
                             /\ f # None
                             /\ ~ghost[c].invoked
                             /\ coro[c].source = "fiber"}}
AwaitClaims(c) ==
  {<<"last call", d>> : d \in {d \in Coros : /\ ghost[c].awaiting = d
                                             /\ ghost[c].invoked
                                             /\ coro[d].last_call = c
                                             /\ Undelivered(d)}}

LEMMA ClaimsAre ==
  ASSUME NEW c
  PROVE  Claims(c) = FramesOf(c, {"jump", "body"}) \cup PostedClaims(c) \cup ThenClaims(c)
                       \cup YieldClaims(c) \cup AwaitClaims(c)
BY DEF Claims, PostedClaims, ThenClaims, YieldClaims, AwaitClaims

\* Undelivered, of the properties, is the contrary of Delivered.
LEMMA UndeliveredIs ==
  ASSUME Ready, NEW d \in Coros
  PROVE  Undelivered(d) <=> ~Delivered(d)
<1>1. TypeOK /\ OneAct /\ Table(d)
  BY DEF Ready, ConfInv, StackInv, Own
<1>2. {"body", "check", "call", "clear", "fin"} \in SUBSET Acts
  BY DEF Acts, Phases
<1>3. FramesOf(d, {"body", "check", "call", "clear", "fin"}) # {} <=>
        Phase(d) \in {"body", "check", "call", "clear", "fin"}
  BY <1>1, <1>2, ActFrames
<1>4. Phase(d) \in {"none", "jump", "body", "check", "call", "clear", "fin", "release"}
  BY PhaseFrame DEF Acts, Phases
<1>5. coro[d].finished => Phase(d) # "jump"
  BY <1>1 DEF Table
<1> QED
  BY <1>3, <1>4, <1>5 DEF Undelivered, Delivered

LEMMA PostedClaimsAre ==
  ASSUME Ready, NEW c \in Coros
  PROVE  IF Unsent(c, "resume") THEN PostedClaims(c) = {} ELSE \E p : PostedClaims(c) = {p}
<1>1. Posted(c) /\ PostedType
  BY DEF Ready, ConfInv, Own, TypeOK, PostedType
<1>2. ASSUME NEW e \in Executors, Sent(c, "resume", e) # 0
      PROVE  PostedClaims(c) = {<<e, 1>>}
  <2>1. Sent(c, "resume", e) = 1 /\ \A x \in Executors \ {e} : Sent(c, "resume", x) = 0
    BY <1>1, <1>2 DEF Posted
  <2>2. 1..Sent(c, "resume", e) = {1} /\ \A x \in Executors \ {e} : 1..Sent(c, "resume", x) = {}
    BY <2>1
  <2>3. ASSUME NEW p
        PROVE  p \in PostedClaims(c) <=> \E x \in Executors : p \in {x} \X (1..Sent(c, "resume", x))
    BY DEF PostedClaims, Sent
  <2>4. \A p : p \in PostedClaims(c) <=> p \in {e} \X {1}
    BY <2>2, <2>3
  <2> QED
    BY <2>4
<1>3. ASSUME Unsent(c, "resume")
      PROVE  PostedClaims(c) = {}
  <2>1. \A x \in Executors : 1..Sent(c, "resume", x) = {}
    BY <1>3 DEF Unsent
  <2> QED
    BY <2>1 DEF PostedClaims, Sent
<1> QED
  BY <1>2, <1>3 DEF Unsent

\* A set of one element, and the empty set.
LEMMA One == \A x : Cardinality({x}) = 1
BY FS_Singleton

\* What the invariant says of the continuations of c, case by case.
LEMMA OneClaim ==
  ASSUME Ready, NEW c \in Coros
  PROVE  IF coro[c].source = "null" \/ ghost[c].stranded
           THEN Claims(c) = {}
           ELSE \E p : Claims(c) = {p}
<1>1. TypeOK /\ OneAct /\ Own(c) /\ coro[c].source \in Sources /\ thens[c] \in Nat
  BY DEF Ready, ConfInv, StackInv, TypeOK, CoroutineContextBase
<1>2. {"jump", "body"} \in SUBSET Acts
  BY DEF Acts, Phases
<1>3. IF Phase(c) \in {"jump", "body"} THEN \E p : FramesOf(c, {"jump", "body"}) = {p}
                                       ELSE FramesOf(c, {"jump", "body"}) = {}
  BY <1>1, <1>2, ActFrames
<1>4. /\ Unsent(c, "resume") => PostedClaims(c) = {}
      /\ ~Unsent(c, "resume") => \E p : PostedClaims(c) = {p}
  BY PostedClaimsAre
<1>5. /\ thens[c] = 0 => ThenClaims(c) = {}
      /\ thens[c] = 1 => \E p : ThenClaims(c) = {p}
  <2>1. 1..0 = {} /\ 1..1 = {1}
    OBVIOUS
  <2>2. thens[c] = 1 => ThenClaims(c) = {<<"then", 1>>}
    BY <2>1 DEF ThenClaims
  <2> QED
    BY <2>1, <2>2 DEF ThenClaims
<1>6. IF coro[c].yield_after_call # None /\ ~ghost[c].invoked /\ coro[c].source = "fiber"
        THEN \E p : YieldClaims(c) = {p} ELSE YieldClaims(c) = {}
  <2>1. coro[c].yield_after_call # None /\ ~ghost[c].invoked /\ coro[c].source = "fiber" =>
          YieldClaims(c) = {<<"yield", coro[c].yield_after_call>>}
    BY DEF YieldClaims
  <2> QED
    BY <2>1 DEF YieldClaims
<1>7. ~ghost[c].invoked \/ AwaitDone(c) => AwaitClaims(c) = {}
  BY UndeliveredIs DEF AwaitClaims, AwaitDone
<1>8. ghost[c].invoked /\ ~AwaitDone(c) => \E p : AwaitClaims(c) = {p}
  <2> SUFFICES ASSUME ghost[c].invoked, ~AwaitDone(c)
               PROVE  \E p : AwaitClaims(c) = {p}
    OBVIOUS
  <2>1. PICK d \in Coros : ghost[c].awaiting = d /\ ~Delivered(d)
    BY DEF AwaitDone
  <2>2. coro[d].last_call = c /\ Undelivered(d)
    BY <2>1, UndeliveredIs DEF Ready, ConfInv, Link
  <2>3. AwaitClaims(c) = {<<"last call", d>>}
    BY <2>1, <2>2 DEF AwaitClaims
  <2> QED
    BY <2>3
<1>9. \/ Unsent(c, "resume")
      \/ /\ coro[c].source = "fiber" /\ ghost[c].invoked /\ thens[c] = 0
         /\ Phase(c) \in Waits /\ AwaitDone(c)
  BY <1>1 DEF Own, Posted, Unsent
<1>10. \/ thens[c] = 0
       \/ /\ thens[c] = 1 /\ coro[c].source = "fiber" /\ ghost[c].invoked
          /\ ghost[c].awaiting = None /\ Phase(c) \in Waits /\ Unsent(c, "resume")
  BY <1>1 DEF Own, Then
<1>11. ghost[c].awaiting = None => AwaitDone(c)
  BY NoneIs DEF AwaitDone
<1>15. ghost[c].stranded => coro[c].source \in {"null", "fiber"}
  BY <1>1 DEF Own, Adrift
<1>12. CASE coro[c].source = "null"
  <2>1. Phase(c) \notin {"jump", "body"} /\ ghost[c].awaiting = None
    BY <1>1, <1>12 DEF Own, Table
  <2> QED
    BY <1>3, <1>4, <1>5, <1>6, <1>7, <1>9, <1>10, <1>11, <1>12, <2>1, ClaimsAre
<1>13. CASE coro[c].source \in {"fresh", "caller"}
  <2>1. Phase(c) \in {"jump", "body"} /\ ghost[c].awaiting = None
    BY <1>1, <1>13 DEF Own, Table
  <2>2. Claims(c) = FramesOf(c, {"jump", "body"})
    BY <1>4, <1>5, <1>6, <1>7, <1>9, <1>10, <1>11, <1>13, <2>1, ClaimsAre
  <2> QED
    BY <1>3, <1>13, <1>15, <2>1, <2>2
<1>14. CASE coro[c].source = "fiber"
  <2>0. /\ ~coro[c].finished /\ Phase(c) \in Acts \cup {"none"}
        /\ Phase(c) # "body" /\ Phase(c) # "release"
        /\ ghost[c].stranded => /\ Phase(c) \in Waits /\ AwaitDone(c)
                               /\ Unsent(c, "resume") /\ thens[c] = 0
    BY <1>1, <1>14, PhaseFrame DEF Own, Table, Adrift
  <2>1. CASE Phase(c) = "jump"
    <3>1. coro[c].yield_after_call = None /\ AwaitDone(c)
      BY <1>1, <2>1 DEF Own, Table, Jumping
    <3>2. Claims(c) = FramesOf(c, {"jump", "body"})
      BY <1>4, <1>5, <1>6, <1>7, <1>9, <1>10, <2>1, <3>1, ClaimsAre DEF Waits
    <3> QED
      BY <1>3, <1>14, <2>0, <2>1, <3>2 DEF Waits
  <2>2. CASE Phase(c) \in {"check", "call"}
    <3>1. coro[c].yield_after_call # None /\ ~ghost[c].invoked
      BY <1>1, <2>0, <2>2 DEF Own, Table
    <3>2. Claims(c) = YieldClaims(c)
      BY <1>3, <1>4, <1>5, <1>7, <1>9, <1>10, <2>2, <3>1, ClaimsAre
    <3> QED
      BY <1>6, <1>14, <2>0, <2>2, <3>1, <3>2 DEF Waits
  <2>3. CASE Phase(c) \in Waits
    <3>1. ghost[c].invoked
      BY <1>1, <1>14, <2>3 DEF Own, Table, Waits
    <3>2. FramesOf(c, {"jump", "body"}) = {} /\ YieldClaims(c) = {}
      BY <1>3, <1>6, <2>3, <3>1 DEF Waits
    <3>3. CASE ~Unsent(c, "resume")
      <4>1. Claims(c) = PostedClaims(c)
        BY <1>5, <1>7, <1>9, <3>2, <3>3, ClaimsAre
      <4> QED
        BY <1>4, <1>14, <2>0, <3>3, <4>1
    <3>4. CASE Unsent(c, "resume") /\ thens[c] # 0
      <4>1. Claims(c) = ThenClaims(c)
        BY <1>4, <1>7, <1>10, <1>11, <3>2, <3>4, ClaimsAre
      <4> QED
        BY <1>5, <1>10, <1>14, <2>0, <3>4, <4>1
    <3>5. CASE Unsent(c, "resume") /\ thens[c] = 0
      <4>1. Claims(c) = AwaitClaims(c)
        BY <1>4, <1>5, <3>2, <3>5, ClaimsAre
      <4>2. ~AwaitDone(c) \/ ghost[c].stranded
        BY <1>1, <1>14, <2>3, <3>1, <3>5 DEF Own, Resumed, Unsent
      <4> QED
        BY <1>7, <1>8, <1>14, <2>0, <3>1, <4>1, <4>2
    <3> QED
      BY <3>3, <3>4, <3>5
  <2> QED
    BY <2>0, <2>1, <2>2, <2>3 DEF Acts, Phases, Waits
<1> QED
  BY <1>1, <1>12, <1>13, <1>14 DEF Sources

\* A coroutine that was started and has not returned is resumed by exactly one
\* party, one that has returned by nobody; only a shutdown or a failed task
\* leaves it without.
THEOREM ConfinedOneContinuation ==
  ASSUME Confined
  PROVE  TimelySpec => []OneContinuation
<1>1. Ready => OneContinuation
  <2> SUFFICES ASSUME Ready, NEW c \in Coros
               PROVE  Cardinality(Claims(c)) =
                        IF coro[c].source = "null" \/ ghost[c].stranded THEN 0 ELSE 1
    BY DEF OneContinuation
  <2>1. CASE Claims(c) = {}
    BY <2>1, OneClaim, FS_EmptySet
  <2>2. CASE \E p : Claims(c) = {p}
    BY <2>2, OneClaim, One
  <2> QED
    BY <2>1, <2>2, OneClaim
<1> QED
  BY <1>1, AlwaysReady, PTL

\* A coroutine that nobody executes and whose body is gone keeps itself alive
\* only if its awaiter is the one that a shutdown has stranded.
THEOREM ConfinedNoLeak ==
  ASSUME Confined
  PROVE  TimelySpec => []NoLeak
<1>1. Ready => NoLeak
  <2> SUFFICES ASSUME Ready, NEW c \in Coros, coro[c].source = "null",
                      FramesOf(c, Phases) = {}, coro[c].prolong_life
               PROVE  coro[c].last_call \in Coros /\ ghost[coro[c].last_call].stranded
    BY DEF NoLeak
  <2>1. TypeOK /\ Own(c)
    BY DEF Ready, ConfInv
  <2>2. Phase(c) = "none"
    <3>1. \A t \in Threads, i \in Nat : ~ActAt(t, i, c)
      BY <2>1, NoFramesOf DEF ActAt, Acts
    <3> QED
      BY <3>1 DEF Phase, ActAt
  <2>3. coro[c].finished /\ coro[c].last_call \in Coros
    BY <2>1, <2>2 DEF Own, Lives
  <2>4. PICK p \in Coros : p = coro[c].last_call
    BY <2>3
  <2>5. /\ ghost[p].awaiting = c /\ Delivered(c) /\ Own(p) /\ Link(p, c)
        /\ Unsent(p, "resume") /\ thens[p] = 0 /\ Phase(p) # "jump"
    BY <2>2, <2>3, <2>4 DEF Ready, ConfInv, Link, Delivered
  <2>6. coro[p].source = "fiber" /\ ghost[p].invoked
    BY <2>3, <2>5, NoneIs DEF Own, Table, Link, Launching
  <2>7. Phase(p) \in Waits
    <3>1. Phase(p) \in Acts \cup {"none"} /\ ~coro[p].finished
      BY <2>5, <2>6, PhaseFrame DEF Own, Table
    <3> QED
      BY <2>5, <2>6, <3>1 DEF Own, Table, Waits, Acts, Phases
  <2>8. AwaitDone(p)
    BY <2>5 DEF AwaitDone
  <2> QED
    BY <2>3, <2>4, <2>5, <2>6, <2>7, <2>8 DEF Own, Resumed, Unsent
<1> QED
  BY <1>1, AlwaysReady, PTL

-----------------------------------------------------------------------------
(* The function of a yield is called before it is cleared or replaced.     *)

FunsKept(objs) == \A b \in Coros : objs[b].yield_after_call = coro[b].yield_after_call

LEMMA FunKept ==
  ASSUME TypeOK, NEW objs \in [Coros -> CoroutineContextBase], FunsKept(objs), NEW c \in Coros, NEW v
  PROVE  /\ FunsKept([objs EXCEPT ![c].source = v])
         /\ FunsKept([objs EXCEPT ![c].executor = v])
         /\ FunsKept([objs EXCEPT ![c].last_call = v])
         /\ FunsKept([objs EXCEPT ![c].finished = v])
         /\ FunsKept([objs EXCEPT ![c].prolong_life = v])
BY DEF FunsKept, CoroutineContextBase

LEMMA StartFun ==
  ASSUME TypeOK, NEW objs \in [Coros -> CoroutineContextBase], FunsKept(objs),
         NEW t, NEW c \in Coros, NEW rest, StartAndOp(t, c, objs, rest)
  PROVE  FunsKept(coro')
<1>1. coro' = [objs EXCEPT ![c].source = "fresh"] \/ coro' = objs
  BY DEF StartAndOp
<1>2. FunsKept([objs EXCEPT ![c].source = "fresh"])
  BY FunKept
<1> QED
  BY <1>1, <1>2

LEMMA SameFun ==
  ASSUME UNCHANGED coro
  PROVE  FunsKept(coro')
BY DEF FunsKept

LEMMA ResumeStepFun ==
  ASSUME Ready, NEW t \in Threads, NEW c \in Coros, Resume(t, c), ~Clear(t, c)
  PROVE  FunsKept(coro')
<1>1. TypeOK /\ coro \in [Coros -> CoroutineContextBase] /\ FunsKept(coro)
  BY DEF Ready, TypeOK, FunsKept
<1>2. CASE Enter(t, c)
  <2>1. PICK v : coro' = [coro EXCEPT ![c].source = "caller", ![c].prolong_life = v]
    BY <1>2 DEF Enter, Entered
  <2> QED
    BY <1>1, <2>1 DEF FunsKept, CoroutineContextBase
<1>3. ASSUME NEW d \in Coros, CallStart(t, c, d)
      PROVE  FunsKept(coro')
  BY <1>1, <1>3, StartFun DEF CallStart
<1>4. CASE Release(t, c)
  BY <1>1, <1>4, FunKept DEF Release, Released
<1>5. \A u \in Threads : ~EnterTwice(t, u, c)
  BY NoEnterTwice
<1> QED
  BY <1>2, <1>3, <1>4, <1>5, SameFun
     DEF Resume, EnterFails, Check, CallPost, CallThen, CallFails, CallThrows, NotFinished,
         LastCallEmpty, LastCallAwaiter, LastCallThrows, LastCallEvent, OwnerReturns,
         SyncWaitReturns

\* A body that yields had no function stored: it was entered without one.
LEMMA YieldFun ==
  ASSUME Ready, NEW t \in Threads, NEW c \in Coros, At(t, c, "body"),
         NEW objs \in [Coros -> CoroutineContextBase], FunsKept(objs), NEW fun,
         coro' = Yielded(objs, c, fun), NEW b \in Coros, coro[b].yield_after_call # None
  PROVE  coro'[b].yield_after_call = coro[b].yield_after_call
<1>1. StackType /\ OneAct /\ Table(c) /\ "body" \in Acts /\ "body" \in Phases
  BY DEF Ready, TypeOK, StackType, ConfInv, StackInv, Own, Acts, Phases
<1>2. Phase(c) = "body"
  BY <1>1, TopFrame, PhaseIs
<1>3. b # c
  BY <1>1, <1>2 DEF Table
<1>4. coro'[b] = objs[b]
  BY <1>3 DEF Yielded
<1> QED
  BY <1>4 DEF FunsKept

LEMMA BodyStepFun ==
  ASSUME Confined, Ready, NEW t \in Threads, NEW c \in Coros, Body(t, c),
         NEW b \in Coros, coro[b].yield_after_call # None
  PROVE  coro'[b].yield_after_call = coro[b].yield_after_call
<1>1. /\ TypeOK /\ coro \in [Coros -> CoroutineContextBase] /\ FunsKept(coro)
      /\ ~YieldFails(t, c) /\ ~Yield(t, c)
      /\ \A d \in Coros : ~Call(t, c, d) /\ ~CallResume(t, c, d)
  BY BodyStepThis DEF Ready, TypeOK, FunsKept, Confined, Call, CallResume, Yield
<1>2. ASSUME NEW e \in Executors, RunOn(t, c, e)
      PROVE  coro'[b].yield_after_call = coro[b].yield_after_call
  <2> DEFINE objs == [coro EXCEPT ![c].executor = e]
  <2>1. objs \in [Coros -> CoroutineContextBase] /\ FunsKept(objs)
    BY <1>1, FieldType, FunKept
  <2>2. At(t, c, "body") /\ coro' = Yielded(objs, c, [fn |-> "post", co |-> c])
    BY <1>2 DEF RunOn, InBody
  <2> HIDE DEF objs
  <2> QED
    BY <2>1, <2>2, YieldFun
<1>3. ASSUME NEW d \in Coros, Await(t, c, d)
      PROVE  coro'[b].yield_after_call = coro[b].yield_after_call
  <2> DEFINE objs == [coro EXCEPT ![d].last_call = c]
  <2>1. objs \in [Coros -> CoroutineContextBase] /\ FunsKept(objs)
    BY <1>1, FieldType, FunKept
  <2>2. At(t, c, "body") /\ coro' = Yielded(objs, c, [fn |-> "start", co |-> d])
    BY <1>3 DEF Await, InBody
  <2> HIDE DEF objs
  <2> QED
    BY <2>1, <2>2, YieldFun
<1>4. CASE AwaitTask(t, c)
  <2>1. At(t, c, "body") /\ coro' = Yielded(coro, c, [fn |-> "then", co |-> c])
    BY <1>4 DEF AwaitTask, InBody
  <2> QED
    BY <1>1, <2>1, YieldFun
<1>5. CASE Finish(t, c)
  <2>1. coro' = [coro EXCEPT ![c].finished = TRUE, ![c].source = "null"]
    BY <1>5 DEF Finish
  <2> QED
    BY <1>1, <2>1 DEF CoroutineContextBase
<1> QED
  BY <1>1, <1>2, <1>3, <1>4, <1>5 DEF Body

\* The steps that begin or take up work store no function.
LEMMA OutsideFun ==
  ASSUME Ready,
         \/ \E t \in Threads, c \in Coros : TakeWork(t, c)
         \/ ClientStep
         \/ \E e \in Executors : Shutdown(e)
         \/ UNCHANGED vars
  PROVE  FunsKept(coro')
<1>1. TypeOK /\ coro \in [Coros -> CoroutineContextBase] /\ FunsKept(coro)
  BY DEF Ready, TypeOK, FunsKept
<1>2. ASSUME NEW t \in Threads, NEW c \in Coros, TakeWork(t, c)
      PROVE  FunsKept(coro')
  BY <1>1, <1>2, StartFun, SameFun DEF TakeWork, RunStart, RunResume, CompleteTask
<1>3. ASSUME NEW c \in Coros, NEW e \in Executors, PostCoroTask(c, e)
      PROVE  FunsKept(coro')
  BY <1>1, <1>3, FunKept DEF PostCoroTask
<1>4. ASSUME NEW t \in Threads, NEW c \in Coros, StartPlain(t, c)
      PROVE  FunsKept(coro')
  BY <1>1, <1>4, StartFun DEF StartPlain
<1>5. ASSUME NEW t \in Threads, NEW c \in Coros, SyncWait(t, c)
      PROVE  FunsKept(coro')
  <2> DEFINE objs == [coro EXCEPT ![c].last_call = t]
  <2>1. objs \in [Coros -> CoroutineContextBase] /\ FunsKept(objs)
    BY <1>1, FieldType, FunKept
  <2>2. StartAndOp(t, c, objs, <<Frame(c, "wait")>>)
    BY <1>5 DEF SyncWait
  <2> HIDE DEF objs
  <2> QED
    BY <1>1, <2>1, <2>2, StartFun
<1>6. ASSUME NEW t \in Threads, NEW c \in Coros, Destory(t, c)
      PROVE  FunsKept(coro')
  BY <1>1, <1>6, FunKept DEF Destory
<1>7. CASE ClientStep
  BY <1>3, <1>4, <1>5, <1>6, <1>7, SameFun DEF ClientStep, DropHandle, ResumePlain
<1> QED
  BY <1>2, <1>7, SameFun DEF Shutdown, vars

\* What a coroutine gives to yield is called, once it is suspended, before it is
\* cleared or replaced.
LEMMA FunCalledStep ==
  ASSUME Confined, Ready, [Next]_vars
  PROVE  [\A c \in Coros :
            (/\ coro[c].yield_after_call # None
             /\ coro'[c].yield_after_call # coro[c].yield_after_call)
            => ghost[c].invoked]_vars
<1>1. ASSUME NEW c \in Coros, coro[c].yield_after_call # None,
             coro'[c].yield_after_call # coro[c].yield_after_call
      PROVE  ghost[c].invoked
  <2>1. ~FunsKept(coro')
    BY <1>1 DEF FunsKept
  <2>2. PICK t \in Threads, b \in Coros : Clear(t, b)
    BY <1>1, <2>1, OutsideFun, BodyStepFun, ResumeStepFun DEF Next, ThreadStep
  <2>3. StackType /\ OneAct /\ Table(b) /\ "clear" \in Acts /\ "clear" \in Phases
    BY <1>1 DEF Ready, TypeOK, StackType, ConfInv, StackInv, Own, Acts, Phases
  <2>4. Phase(b) = "clear"
    BY <2>2, <2>3, TopFrame, PhaseIs DEF Clear
  <2>5. c = b
    BY <1>1, <2>2 DEF Clear, Cleared, Ready, TypeOK
  <2> QED
    BY <2>3, <2>4, <2>5 DEF Table
<1> QED
  BY <1>1

-----------------------------------------------------------------------------
(* Which frames a step adds and which it removes.                          *)

OnIn(t, c, Q) == \E i \in Nat, q \in Q : FrameAt(t, i, c, q)

\* The frames of the stack s, in the phases Q, that thread t has already; and
\* that it will not lose with s.
Within(s, t, Q) ==
  \A i \in DOMAIN s, b \in Coros, q \in Q : s[i] = Frame(b, q) => OnIn(t, b, Q)
Holds(s, t, Q) ==
  \A i \in DOMAIN stack[t], b \in Coros, q \in Q :
    stack[t][i] = Frame(b, q) => \E j \in DOMAIN s : s[j] = Frame(b, q)

\* No frame in a phase of Q that was not there before, except of d on t.
Adds(t, d, Q) ==
  \A u \in Threads, b \in Coros : OnIn(u, b, Q)' => OnIn(u, b, Q) \/ (u = t /\ b = d)
AddsNone(Q) == \A u \in Threads, b \in Coros : OnIn(u, b, Q)' => OnIn(u, b, Q)
Keeps(Q) == \A u \in Threads, b \in Coros : OnIn(u, b, Q) => OnIn(u, b, Q)'

LEMMA NoneAdded ==
  ASSUME NEW t, NEW Q, Adds(t, None, Q)
  PROVE  AddsNone(Q)
BY NoneIs DEF Adds, AddsNone

LEMMA SetAdds ==
  ASSUME TypeOK, NEW t \in Threads, NEW s \in Seq(Frames), SetStack(t, s), NEW d, NEW Q,
         \A i \in DOMAIN s, b \in Coros, q \in Q : s[i] = Frame(b, q) => OnIn(t, b, Q) \/ b = d
  PROVE  Adds(t, d, Q)
<1> SUFFICES ASSUME NEW u \in Threads, NEW b \in Coros, NEW i \in Nat, NEW q \in Q,
                    FrameAt(u, i, b, q)'
             PROVE  OnIn(u, b, Q) \/ (u = t /\ b = d)
  BY DEF Adds, OnIn
<1>1. StackType
  BY DEF TypeOK, StackType
<1>2. IF u = t THEN i \in DOMAIN s /\ s[i] = Frame(b, q) ELSE FrameAt(u, i, b, q)
  BY <1>1, FrameAtNext
<1>3. CASE u = t
  BY <1>2, <1>3
<1>4. CASE u # t
  BY <1>2, <1>4 DEF OnIn
<1> QED
  BY <1>3, <1>4

LEMMA SetKeeps ==
  ASSUME TypeOK, NEW t \in Threads, NEW s \in Seq(Frames), SetStack(t, s), NEW Q, Holds(s, t, Q)
  PROVE  Keeps(Q)
<1> SUFFICES ASSUME NEW u \in Threads, NEW b \in Coros, NEW i \in Nat, NEW q \in Q,
                    FrameAt(u, i, b, q)
             PROVE  OnIn(u, b, Q)'
  BY DEF Keeps, OnIn
<1>1. StackType
  BY DEF TypeOK, StackType
<1>2. CASE u = t
  <2>1. PICK j \in DOMAIN s : s[j] = Frame(b, q)
    BY <1>2 DEF FrameAt, Holds
  <2>2. j \in Nat /\ FrameAt(t, j, b, q)'
    BY <1>1, <2>1, FrameAtNext
  <2> QED
    BY <1>2, <2>2 DEF OnIn
<1>3. CASE u # t
  <2>1. FrameAt(u, i, b, q)'
    BY <1>1, <1>3, FrameAtNext
  <2> QED
    BY <2>1 DEF OnIn
<1> QED
  BY <1>2, <1>3

LEMMA SameAdds ==
  ASSUME UNCHANGED stack, NEW Q
  PROVE  AddsNone(Q) /\ Keeps(Q)
BY DEF AddsNone, Keeps, OnIn, FrameAt

\* Frames that were on the stack already.
LEMMA OldFrames ==
  ASSUME TypeOK, NEW t \in Threads, NEW i \in DOMAIN stack[t], NEW b \in Coros, NEW Q, NEW q \in Q,
         stack[t][i] = Frame(b, q)
  PROVE  OnIn(t, b, Q)
<1>1. stack[t] \in Seq(Frames)
  BY DEF TypeOK
<1>2. i \in Nat /\ FrameAt(t, i, b, q)
  BY <1>1 DEF FrameAt
<1> QED
  BY <1>2 DEF OnIn

\* The stack of t, with the top frame in another phase.
LEMMA MovedFrames ==
  ASSUME TypeOK, NEW t \in Threads, NEW c \in Coros, NEW p \in Phases, NEW q \in Phases,
         At(t, c, p), NEW Q
  PROVE  /\ Moved(t, c, q) \in Seq(Frames)
         /\ (q \in Q => p \in Q) => Within(Moved(t, c, q), t, Q)
         /\ p \notin Q => Holds(Moved(t, c, q), t, Q)
<1> DEFINE s == Moved(t, c, q)
<1>1. /\ stack[t] \in Seq(Frames) /\ stack[t] # <<>> /\ stack[t][1] = Frame(c, p)
      /\ 1 \in DOMAIN stack[t]
  BY DEF At, TypeOK
<1>2. /\ s \in Seq(Frames) /\ s[1] = Frame(c, q) /\ DOMAIN s = DOMAIN stack[t]
      /\ \A i \in DOMAIN s : i # 1 => s[i] = stack[t][i]
  <2>1. Frame(c, q) \in Frames
    BY DEF Frame, Frames
  <2> QED
    BY <1>1, <2>1 DEF Moved
<1> HIDE DEF s
<1>3. ASSUME q \in Q => p \in Q, NEW i \in DOMAIN s, NEW b \in Coros, NEW r \in Q, s[i] = Frame(b, r)
      PROVE  OnIn(t, b, Q)
  <2>1. CASE i = 1
    <3>1. b = c /\ r = q
      BY <1>2, <1>3, <2>1, SameFrame
    <3> QED
      BY <1>1, <1>3, <3>1, OldFrames
  <2>2. CASE i # 1
    BY <1>2, <1>3, <2>2, OldFrames
  <2> QED
    BY <2>1, <2>2
<1>4. ASSUME p \notin Q, NEW i \in DOMAIN stack[t], NEW b \in Coros, NEW r \in Q,
             stack[t][i] = Frame(b, r)
      PROVE  i \in DOMAIN s /\ s[i] = Frame(b, r)
  <2>1. i # 1
    BY <1>1, <1>4, SameFrame
  <2> QED
    BY <1>2, <1>4, <2>1
<1>5. /\ (q \in Q => p \in Q) => Within(s, t, Q)
      /\ p \notin Q => Holds(s, t, Q)
  BY <1>3, <1>4 DEF Within, Holds
<1>6. s = Moved(t, c, q)
  BY DEF s
<1> QED
  BY <1>2, <1>5, <1>6

LEMMA MoveAdds ==
  ASSUME TypeOK, NEW t \in Threads, NEW c \in Coros, NEW p \in Phases, NEW q \in Phases,
         At(t, c, p), SetStack(t, Moved(t, c, q)), NEW Q
  PROVE  /\ (q \in Q => p \in Q) => AddsNone(Q)
         /\ p \notin Q => Keeps(Q)
<1> DEFINE s == Moved(t, c, q)
<1>1. /\ s \in Seq(Frames)
      /\ (q \in Q => p \in Q) => Within(s, t, Q)
      /\ p \notin Q => Holds(s, t, Q)
      /\ SetStack(t, s)
  BY MovedFrames
<1> HIDE DEF s
<1>2. (q \in Q => p \in Q) => Adds(t, None, Q)
  BY <1>1, SetAdds DEF Within
<1>3. p \notin Q => Keeps(Q)
  BY <1>1, SetKeeps
<1> QED
  BY <1>2, <1>3, NoneAdded

LEMMA PopAdds ==
  ASSUME TypeOK, NEW t \in Threads, NEW c \in Coros, NEW p \in Phases, At(t, c, p),
         SetStack(t, Tail(stack[t])), NEW Q
  PROVE  AddsNone(Q) /\ (p \notin Q => Keeps(Q))
<1> DEFINE s == Tail(stack[t])
<1>1. stack[t] \in Seq(Frames) /\ stack[t] # <<>> /\ stack[t][1] = Frame(c, p)
  BY DEF At, TypeOK
<1>2. /\ s \in Seq(Frames) /\ \A i \in DOMAIN s : i + 1 \in DOMAIN stack[t] /\ s[i] = stack[t][i + 1]
      /\ \A i \in DOMAIN stack[t] : i # 1 => i - 1 \in DOMAIN s /\ s[i - 1] = stack[t][i]
  BY <1>1
<1>3. SetStack(t, s)
  OBVIOUS
<1> HIDE DEF s
<1>4. Within(s, t, Q)
  BY <1>2, OldFrames DEF Within
<1>5. Adds(t, None, Q)
  BY <1>2, <1>3, <1>4, SetAdds DEF Within
<1>6. ASSUME p \notin Q
      PROVE  Keeps(Q)
  <2>1. ASSUME NEW i \in DOMAIN stack[t], NEW b \in Coros, NEW r \in Q, stack[t][i] = Frame(b, r)
        PROVE  i - 1 \in DOMAIN s /\ s[i - 1] = Frame(b, r)
    <3>1. i # 1
      BY <1>1, <1>6, <2>1, SameFrame
    <3> QED
      BY <1>2, <2>1, <3>1
  <2>2. Holds(s, t, Q)
    BY <2>1 DEF Holds
  <2> QED
    BY <1>2, <1>3, <2>2, SetKeeps
<1> QED
  BY <1>5, <1>6, NoneAdded

LEMMA UnwoundAdds ==
  ASSUME TypeOK, NEW t \in Threads, Unwinds(t), NEW Q
  PROVE  AddsNone(Q)
<1>1. stack[t] \in Seq(Frames)
  BY DEF TypeOK
<1>2. CASE UNCHANGED stack
  BY <1>2, SameAdds
<1>3. ASSUME NEW n \in 1..(Len(stack[t]) + 1), SetStack(t, SubSeq(stack[t], n, Len(stack[t])))
      PROVE  AddsNone(Q)
  <2> DEFINE s == SubSeq(stack[t], n, Len(stack[t]))
  <2>1. /\ s \in Seq(Frames)
        /\ \A i \in DOMAIN s : i + n - 1 \in DOMAIN stack[t] /\ s[i] = stack[t][i + n - 1]
    BY <1>1
  <2>2. SetStack(t, s)
    BY <1>3
  <2> HIDE DEF s
  <2>3. Within(s, t, Q)
    BY <2>1, OldFrames DEF Within
  <2>4. Adds(t, None, Q)
    BY <2>1, <2>2, <2>3, SetAdds DEF Within
  <2> QED
    BY <2>4, NoneAdded
<1> QED
  BY <1>2, <1>3 DEF Unwinds

\* Thread t is about to enter d, above frames that it had already.
LEMMA PushAdds ==
  ASSUME TypeOK, NEW t \in Threads, NEW d \in Coros, NEW rest \in Seq(Frames), NEW Q,
         SetStack(t, <<Frame(d, "jump")>> \o rest) \/ SetStack(t, rest)
  PROVE  /\ Within(rest, t, Q) => Adds(t, d, Q) /\ ("jump" \notin Q => AddsNone(Q))
         /\ Holds(rest, t, Q) => Keeps(Q)
<1> DEFINE s == <<Frame(d, "jump")>> \o rest
<1>1. /\ s \in Seq(Frames) /\ s[1] = Frame(d, "jump")
      /\ \A i \in DOMAIN s : i # 1 => i - 1 \in DOMAIN rest /\ s[i] = rest[i - 1]
      /\ \A i \in DOMAIN rest : i + 1 \in DOMAIN s /\ s[i + 1] = rest[i]
  <2>1. Frame(d, "jump") \in Frames
    BY DEF Frame, Frames, Phases
  <2> QED
    BY <2>1
<1>2. SetStack(t, s) \/ SetStack(t, rest)
  OBVIOUS
<1> HIDE DEF s
<1>3. ASSUME Within(rest, t, Q)
      PROVE  Adds(t, d, Q) /\ ("jump" \notin Q => AddsNone(Q))
  <2>1. \A i \in DOMAIN s, b \in Coros, q \in Q :
          s[i] = Frame(b, q) => OnIn(t, b, Q) \/ (b = d /\ q = "jump")
    BY <1>1, <1>3, SameFrame DEF Within
  <2>2. Adds(t, d, Q)
    BY <1>1, <1>2, <1>3, <2>1, SetAdds DEF Within
  <2>3. ASSUME "jump" \notin Q
        PROVE  AddsNone(Q)
    <3>1. Within(s, t, Q)
      BY <2>1, <2>3 DEF Within
    <3>2. Adds(t, None, Q)
      BY <1>1, <1>2, <1>3, <3>1, SetAdds DEF Within
    <3> QED
      BY <3>2, NoneAdded
  <2> QED
    BY <2>2, <2>3
<1>4. ASSUME Holds(rest, t, Q)
      PROVE  Keeps(Q)
  <2>1. Holds(s, t, Q)
    BY <1>1, <1>4 DEF Holds
  <2> QED
    BY <1>1, <1>2, <1>4, <2>1, SetKeeps
<1> QED
  BY <1>3, <1>4

\* A caller of start(), alone on a stack that was empty, is no resume().
LEMMA CallerFrames ==
  ASSUME NEW t \in Threads, NEW c \in Coros, NEW p \in {"owner", "wait"}, NEW Q, stack[t] = <<>>
  PROVE  /\ <<Frame(c, p)>> \in Seq(Frames)
         /\ p \notin Q => Within(<<Frame(c, p)>>, t, Q)
         /\ Holds(<<Frame(c, p)>>, t, Q)
<1>1. Frame(c, p) \in Frames
  BY DEF Frame, Frames, Phases
<1>2. ASSUME p \notin Q, NEW i \in DOMAIN <<Frame(c, p)>>, NEW b \in Coros, NEW q \in Q,
             <<Frame(c, p)>>[i] = Frame(b, q)
      PROVE  FALSE
  <2>1. Frame(c, p) = Frame(b, q)
    BY <1>2
  <2> QED
    BY <1>2, <2>1, SameFrame
<1> QED
  BY <1>1, <1>2 DEF Within, Holds

(***************************************************************************)
(* Where a step begins a resume(): the coroutine is neither finished nor   *)
(* stranded, and the thread serves its executor if it has one.             *)
(***************************************************************************)
Fits(t, c) == coro[c].executor = None \/ <<t, coro[c].executor>> \in Serves

Due(t, c) == Fits(t, c) /\ ~coro[c].finished /\ ~Stuck(c)

Entry(Q) ==
  \A t \in Threads, b \in Coros :
    OnIn(t, b, Q)' => OnIn(t, b, Q) \/ ("jump" \in Q /\ Due(t, b))

\* Phases of which a resume() is in one before it enters another one of them.
Onset(Q) ==
  /\ "owner" \notin Q
  /\ "body" \in Q => "jump" \in Q
  /\ "check" \in Q => "body" \in Q
  /\ "call" \in Q => "check" \in Q
  /\ "clear" \in Q => "call" \in Q
  /\ "fin" \in Q => "clear" \in Q /\ "check" \in Q
  /\ "release" \in Q => "fin" \in Q

LEMMA NoEntry ==
  ASSUME NEW Q, AddsNone(Q)
  PROVE  Entry(Q)
BY DEF AddsNone, Entry

LEMMA NewEntry ==
  ASSUME NEW Q, NEW t \in Threads, NEW d \in Coros, Adds(t, d, Q), "jump" \notin Q => AddsNone(Q),
         Due(t, d)
  PROVE  Entry(Q)
BY DEF Adds, AddsNone, Entry

LEMMA NullDue ==
  ASSUME NEW t, NEW c \in Coros, Own(c), coro[c].source = "null", ~coro[c].finished, Fits(t, c)
  PROVE  Due(t, c)
BY DEF Due, Own, Table, Stuck

\* The start of a coroutine.
LEMMA StartEntry ==
  ASSUME TypeOK, NEW t \in Threads, NEW c \in Coros, NEW rest \in Seq(Frames), NEW objs, NEW Q,
         StartAndOp(t, c, objs, rest), Within(rest, t, Q), Due(t, c)
  PROVE  Entry(Q)
<1>1. CASE SetStack(t, <<Frame(c, "jump")>> \o rest)
  BY <1>1, PushAdds, NewEntry
<1>2. CASE Unwinds(t)
  BY <1>2, UnwoundAdds, NoEntry
<1> QED
  BY <1>1, <1>2 DEF StartAndOp

LEMMA AllPhases ==
  Phases = {"jump", "body", "check", "call", "clear", "fin", "release", "owner", "wait"}
BY DEF Phases

LEMMA ResumeStepEntry ==
  ASSUME Ready, NEW t \in Threads, NEW c \in Coros, Resume(t, c), NEW Q, Onset(Q)
  PROVE  Entry(Q)
<1>1. TypeOK /\ StackType /\ OneAct
  BY DEF Ready, TypeOK, StackType, ConfInv, StackInv
<1>2. ASSUME NEW p \in Phases, NEW q \in Phases, At(t, c, p), SetStack(t, Moved(t, c, q)),
             q \in Q => p \in Q
      PROVE  Entry(Q)
  BY <1>1, <1>2, MoveAdds, NoEntry
<1>3. ASSUME NEW p \in Phases, At(t, c, p), SetStack(t, Tail(stack[t]))
      PROVE  Entry(Q)
  BY <1>1, <1>3, PopAdds, NoEntry
<1>4. CASE Enter(t, c)
  BY <1>2, <1>4, AllPhases DEF Enter, Onset
<1>5. CASE Check(t, c)
  <2>1. PICK q \in {"call", "fin"} : SetStack(t, Moved(t, c, q))
    BY <1>5 DEF Check, AfterSwitch
  <2> QED
    BY <1>2, <1>5, <2>1, AllPhases DEF Check, Onset
<1>6. CASE CallPost(t, c) \/ CallThen(t, c)
  BY <1>2, <1>6, AllPhases DEF CallPost, CallThen, Onset
<1>7. CASE Clear(t, c) \/ LastCallEmpty(t, c) \/ \E w \in Threads : LastCallEvent(t, c, w)
  BY <1>2, <1>7, AllPhases DEF Clear, LastCallEmpty, LastCallEvent, Onset
<1>8. CASE NotFinished(t, c) \/ Release(t, c) \/ OwnerReturns(t, c) \/ SyncWaitReturns(t, c)
  BY <1>3, <1>8, AllPhases DEF NotFinished, Release, OwnerReturns, SyncWaitReturns
<1>9. CASE CallThrows(t, c) \/ \E p \in Coros : LastCallThrows(t, c, p)
  BY <1>1, <1>9, UnwoundAdds, NoEntry DEF CallThrows, LastCallThrows
<1>10. CASE EnterFails(t, c) \/ CallFails(t, c)
  BY <1>10, SameAdds, NoEntry DEF EnterFails, CallFails
<1>11. ASSUME NEW d \in Coros, CallStart(t, c, d)
       PROVE  Entry(Q)
  <2> DEFINE rest == Moved(t, c, "clear")
  <2>1. At(t, c, "call") /\ StartAndOp(t, d, coro, rest)
        /\ coro[c].yield_after_call = [fn |-> "start", co |-> d]
    BY <1>11 DEF CallStart
  <2>2. rest \in Seq(Frames) /\ Within(rest, t, Q)
    BY <1>1, <2>1, MovedFrames, AllPhases DEF Onset
  <2>3. OneAct /\ Own(c) /\ Link(c, d) /\ "call" \in Acts /\ "call" \in Phases
    BY DEF Ready, ConfInv, StackInv, Acts, Phases
  <2>4. Phase(c) = "call"
    BY <1>1, <2>1, <2>3, TopFrame, PhaseIs
  <2>5. ~ghost[c].invoked /\ coro[c].yield_after_call # None
    BY <2>3, <2>4 DEF Own, Table
  <2>6. ghost[c].awaiting = d
    <3>1. \A x : /\ coro[c].yield_after_call # [fn |-> "post", co |-> x]
                 /\ coro[c].yield_after_call # [fn |-> "then", co |-> x]
                 /\ coro[c].yield_after_call = [fn |-> "start", co |-> x] => x = d
      BY <2>1, TaskIs
    <3> QED
      BY <2>3, <2>5, <3>1 DEF Own, Asks
  <2>7. Due(t, d)
    <3>1. Own(d)
      BY DEF Ready, ConfInv
    <3> QED
      BY <2>3, <2>5, <2>6, <3>1, NullDue DEF Link, Launching, Fits
  <2> HIDE DEF rest
  <2> QED
    BY <1>1, <2>1, <2>2, <2>7, StartEntry
<1>12. ASSUME NEW p \in Coros, LastCallAwaiter(t, c, p)
       PROVE  Entry(Q)
  <2> DEFINE rest == Moved(t, c, "release")
  <2>1. /\ At(t, c, "fin") /\ ResumeAwaiter(t, p, rest)
        /\ coro[c].finished /\ coro[c].last_call = p
    BY <1>12 DEF LastCallAwaiter, IsFinished
  <2>2. rest \in Seq(Frames) /\ Within(rest, t, Q)
    BY <1>1, <2>1, MovedFrames, AllPhases DEF Onset
  <2>3. Phase(c) = "fin"
    BY <1>1, <2>1, TopFrame, PhaseIs, AllPhases DEF Acts
  <2>4. ~coro[p].finished /\ ~Stuck(p)
    BY <1>1, <2>1, <2>3, AwaiterWaits DEF Ready
  <2>5. \/ coro[p].executor = None /\ SetStack(t, <<Frame(p, "jump")>> \o rest)
        \/ SetStack(t, rest)
    BY <2>1 DEF ResumeAwaiter
  <2>6. coro[p].executor = None => Due(t, p)
    BY <2>4 DEF Due, Fits
  <2> HIDE DEF rest
  <2>7. SetStack(t, rest) => Adds(t, None, Q)
    BY <1>1, <2>2, SetAdds DEF Within
  <2> QED
    BY <1>1, <2>2, <2>4, <2>5, <2>6, <2>7, PushAdds, NewEntry, NoneAdded, NoEntry
<1>13. \A u \in Threads : ~EnterTwice(t, u, c)
  BY NoEnterTwice
<1> QED
  BY <1>4, <1>5, <1>6, <1>7, <1>8, <1>9, <1>10, <1>11, <1>12, <1>13 DEF Resume

LEMMA BodyStepEntry ==
  ASSUME Confined, Ready, NEW t \in Threads, NEW c \in Coros, Body(t, c), NEW Q, Onset(Q)
  PROVE  Entry(Q) /\ At(t, c, "body") /\ SetStack(t, Moved(t, c, "check"))
<1>1. /\ TypeOK /\ ~YieldFails(t, c) /\ ~Yield(t, c)
      /\ \A d \in Coros : ~Call(t, c, d) /\ ~CallResume(t, c, d)
  BY BodyStepThis DEF Ready, Confined, Call, CallResume, Yield
<1>2. At(t, c, "body") /\ SetStack(t, Moved(t, c, "check"))
  BY <1>1 DEF Body, RunOn, Await, AwaitTask, Finish, InBody, Switch
<1>3. AddsNone(Q)
  BY <1>1, <1>2, MoveAdds, AllPhases DEF Onset
<1> QED
  BY <1>2, <1>3, NoEntry

LEMMA OutsideEntry ==
  ASSUME Confined, Ready, NEW Q, Onset(Q),
         "wait" \in Q => \A t \in Threads, c \in Coros : ~SyncWait(t, c),
         \/ \E t \in Threads, c \in Coros : TakeWork(t, c)
         \/ ClientStep
         \/ \E e \in Executors : Shutdown(e)
         \/ UNCHANGED vars
  PROVE  Entry(Q)
<1>1. /\ TypeOK /\ PostedType /\ MaxUses = 1 /\ "owner" \notin Q
  BY DEF Ready, TypeOK, PostedType, Confined, Onset
<1>2. ASSUME NEW t \in Threads, stack[t] = <<>>, NEW c \in Coros, NEW p \in {"owner", "wait"},
             p \notin Q, NEW objs, StartAndOp(t, c, objs, <<Frame(c, p)>>), Due(t, c)
      PROVE  Entry(Q)
  BY <1>1, <1>2, CallerFrames, StartEntry
<1>3. ASSUME NEW t \in Threads, stack[t] = <<>>, NEW c \in Coros, Due(t, c),
             SetStack(t, <<Frame(c, "jump")>> \o <<>>)
      PROVE  Entry(Q)
  <2> DEFINE rest == <<>>
  <2>1. rest \in Seq(Frames) /\ Within(rest, t, Q) /\ SetStack(t, <<Frame(c, "jump")>> \o rest)
    BY <1>3 DEF Within
  <2> HIDE DEF rest
  <2> QED
    BY <1>1, <1>3, <2>1, PushAdds, NewEntry
<1>4. UNCHANGED stack => Entry(Q)
  BY SameAdds, NoEntry
<1>5. ASSUME NEW t \in Threads, NEW e \in Executors, NEW c \in Coros, RunStart(t, e, c)
      PROVE  Entry(Q)
  <2>1. /\ Taken(e, "start", c) /\ StartAndOp(t, c, coro, <<Frame(c, "owner")>>)
        /\ <<t, e>> \in Serves /\ stack[t] = <<>>
    BY <1>5 DEF RunStart
  <2>2. Sent(c, "start", e) # 0
    BY <1>1, <2>1, TakenSent
  <2>3. Due(t, c)
    <3>1. Own(c)
      BY DEF Ready, ConfInv
    <3> QED
      BY <2>1, <2>2, <3>1, NullDue DEF Own, Posted, Fits
  <2> QED
    BY <1>1, <1>2, <2>1, <2>3
<1>6. ASSUME NEW t \in Threads, NEW e \in Executors, NEW c \in Coros, RunResume(t, e, c)
      PROVE  Entry(Q)
  <2>1. /\ Taken(e, "resume", c) /\ SetStack(t, <<Frame(c, "jump")>>)
        /\ <<t, e>> \in Serves /\ stack[t] = <<>>
    BY <1>6 DEF RunResume
  <2>2. Sent(c, "resume", e) # 0
    BY <1>1, <2>1, TakenSent
  <2>3. Due(t, c)
    BY <2>1, <2>2 DEF Ready, ConfInv, Own, Posted, Fits, Table, Due
  <2>4. SetStack(t, <<Frame(c, "jump")>> \o <<>>)
    BY <2>1 DEF SetStack
  <2> QED
    BY <1>3, <2>1, <2>3, <2>4
<1>7. ASSUME NEW t \in Threads, NEW c \in Coros, CompleteTask(t, c)
      PROVE  Entry(Q)
  <2>1. thens[c] # 0 /\ stack[t] = <<>>
    BY <1>1, <1>7 DEF CompleteTask, TypeOK
  <2>2. ~coro[c].finished /\ ~Stuck(c)
    BY <2>1 DEF Ready, ConfInv, Own, Then, Table
  <2>3. CASE UNCHANGED stack
    BY <1>4, <2>3
  <2>4. CASE ResumeAwaiter(t, c, <<>>)
    <3>1. \/ SetStack(t, <<>>)
          \/ coro[c].executor = None /\ SetStack(t, <<Frame(c, "jump")>> \o <<>>)
      BY <2>4 DEF ResumeAwaiter
    <3>2. SetStack(t, <<>>) => UNCHANGED stack
      BY <1>1, <2>1 DEF SetStack, TypeOK
    <3>3. coro[c].executor = None => Due(t, c)
      BY <2>2 DEF Due, Fits
    <3> QED
      BY <1>3, <1>4, <2>1, <3>1, <3>2, <3>3
  <2> QED
    BY <1>7, <2>3, <2>4 DEF CompleteTask
<1>8. ASSUME NEW c \in Coros, Usable(c), Used(c)
      PROVE  coro[c].source = "null" /\ ~coro[c].finished /\ coro[c].executor = None /\ Own(c)
  BY <1>1, <1>8, UsedOnce DEF Ready, ConfInv, Own, Unused
<1>9. ASSUME NEW t \in Threads, NEW c \in Coros, StartPlain(t, c) \/ SyncWait(t, c)
      PROVE  Entry(Q)
  <2>1. PICK p \in {"owner", "wait"}, objs \in {coro, [coro EXCEPT ![c].last_call = t]} :
          p \notin Q /\ StartAndOp(t, c, objs, <<Frame(c, p)>>)
    BY <1>1, <1>9 DEF StartPlain, SyncWait
  <2>2. Usable(c) /\ Used(c) /\ stack[t] = <<>>
    BY <1>9 DEF StartPlain, SyncWait
  <2>3. Due(t, c)
    BY <1>8, <2>2, NullDue DEF Fits
  <2> QED
    BY <1>2, <2>1, <2>2, <2>3
<1>10. CASE ClientStep
  <2>1. \A t \in Threads, c \in Coros : ~Destory(t, c) /\ ~ResumePlain(t, c)
    BY DEF Confined, Destory, ResumePlain
  <2> QED
    BY <1>4, <1>9, <1>10, <2>1 DEF ClientStep, PostCoroTask, DropHandle
<1>11. CASE (\E e \in Executors : Shutdown(e)) \/ UNCHANGED vars
  BY <1>4, <1>11 DEF Shutdown, vars
<1> QED
  BY <1>5, <1>6, <1>7, <1>10, <1>11 DEF TakeWork

-----------------------------------------------------------------------------
(* A body runs where its executor says.                                    *)

Runs == {"jump", "body"}
RunsOn(t, c) == OnIn(t, c, Runs)

\* A thread that is in the body of c, or about to enter it, serves its executor.
Placed == \A t \in Threads, c \in Coros : RunsOn(t, c) => Fits(t, c)

ExecsKept(objs) == \A b \in Coros : objs[b].executor = coro[b].executor

LEMMA RunsOnset == Onset(Runs)
BY DEF Onset, Runs

LEMMA PlacedKept ==
  ASSUME Placed, Entry(Runs), ExecsKept(coro')
  PROVE  Placed'
BY DEF Placed, Entry, Due, Fits, ExecsKept, RunsOn

LEMMA ExecKept ==
  ASSUME TypeOK, NEW objs \in [Coros -> CoroutineContextBase], ExecsKept(objs), NEW c \in Coros, NEW v
  PROVE  /\ ExecsKept([objs EXCEPT ![c].source = v])
         /\ ExecsKept([objs EXCEPT ![c].yield_after_call = v])
         /\ ExecsKept([objs EXCEPT ![c].last_call = v])
         /\ ExecsKept([objs EXCEPT ![c].prolong_life = v])
BY DEF ExecsKept, CoroutineContextBase

LEMMA SameExec ==
  ASSUME UNCHANGED coro
  PROVE  ExecsKept(coro')
BY DEF ExecsKept

LEMMA ResumeStepPlaced ==
  ASSUME Ready, Placed, NEW t \in Threads, NEW c \in Coros, Resume(t, c)
  PROVE  Placed'
<1>1. TypeOK /\ coro \in [Coros -> CoroutineContextBase] /\ ExecsKept(coro)
  BY DEF Ready, TypeOK, ExecsKept
<1>2. ExecsKept(coro')
  <2>1. CASE Enter(t, c)
    <3>1. PICK v : coro' = [coro EXCEPT ![c].source = "caller", ![c].prolong_life = v]
      BY <2>1 DEF Enter, Entered
    <3> QED
      BY <1>1, <3>1 DEF ExecsKept, CoroutineContextBase
  <2>2. ASSUME NEW d \in Coros, CallStart(t, c, d)
        PROVE  ExecsKept(coro')
    <3>1. coro' = [coro EXCEPT ![d].source = "fresh"] \/ coro' = coro
      BY <2>2 DEF CallStart, StartAndOp
    <3>2. ExecsKept([coro EXCEPT ![d].source = "fresh"])
      BY <1>1, ExecKept
    <3> QED
      BY <1>1, <3>1, <3>2
  <2>3. CASE Release(t, c) \/ Clear(t, c)
    <3>1. \/ coro' = [coro EXCEPT ![c].prolong_life = FALSE]
          \/ coro' = [coro EXCEPT ![c].yield_after_call = None]
      BY <2>3 DEF Release, Released, Clear, Cleared
    <3>2. /\ ExecsKept([coro EXCEPT ![c].prolong_life = FALSE])
          /\ ExecsKept([coro EXCEPT ![c].yield_after_call = None])
      BY <1>1, ExecKept
    <3> QED
      BY <3>1, <3>2
  <2>4. \A u \in Threads : ~EnterTwice(t, u, c)
    BY NoEnterTwice
  <2> QED
    BY <2>1, <2>2, <2>3, <2>4, SameExec
       DEF Resume, EnterFails, Check, CallPost, CallThen, CallFails, CallThrows, NotFinished,
           LastCallEmpty, LastCallAwaiter, LastCallThrows, LastCallEvent, OwnerReturns,
           SyncWaitReturns
<1>3. Entry(Runs)
  BY ResumeStepEntry, RunsOnset
<1> QED
  BY <1>2, <1>3, PlacedKept

LEMMA BodyStepPlaced ==
  ASSUME Confined, Ready, ConfInv', Placed, NEW t \in Threads, NEW c \in Coros, Body(t, c)
  PROVE  Placed'
<1>1. /\ TypeOK /\ coro \in [Coros -> CoroutineContextBase] /\ StackType
      /\ ~YieldFails(t, c) /\ ~Yield(t, c)
      /\ \A d \in Coros : ~Call(t, c, d) /\ ~CallResume(t, c, d)
  BY BodyStepThis DEF Ready, TypeOK, StackType, Confined, Call, CallResume, Yield
<1>2. "body" \in Phases /\ "check" \in Phases /\ "check" \notin Runs /\ "check" \in Acts
      /\ Runs \subseteq Acts
  BY DEF Phases, Runs, Acts
<1>3. Entry(Runs) /\ At(t, c, "body") /\ SetStack(t, Moved(t, c, "check"))
  BY BodyStepEntry, RunsOnset
<1>5. \A u \in Threads : ~RunsOn(u, c)'
  <2> SUFFICES ASSUME NEW u \in Threads, NEW i \in Nat, NEW q \in Runs, FrameAt(u, i, c, q)'
               PROVE  FALSE
    BY DEF RunsOn, OnIn
  <2> DEFINE s == Moved(t, c, "check")
  <2>1. s \in Seq(Frames) /\ 1 \in DOMAIN s /\ s[1] = Frame(c, "check")
    <3>1. stack[t] \in Seq(Frames) /\ stack[t] # <<>> /\ Frame(c, "check") \in Frames
      BY <1>1, <1>2, <1>3 DEF At, StackType, Frame, Frames
    <3> QED
      BY <3>1 DEF Moved
  <2>2. SetStack(t, s)
    BY <1>3
  <2> HIDE DEF s
  <2>3. FrameAt(t, 1, c, "check")'
    BY <1>1, <2>1, <2>2, FrameAtNext
  <2>4. Phase(c)' = "check"
    BY <1>2, <2>3, PhaseIsNext DEF ConfInv, StackInv
  <2>5. Phase(c)' = q
    BY <1>2, PhaseIsNext DEF ConfInv, StackInv
  <2> QED
    BY <1>2, <2>4, <2>5
<1>6. \A b \in Coros \ {c} : coro'[b].executor = coro[b].executor
  <2>1. ASSUME NEW d \in Coros, coro' = Yielded([coro EXCEPT ![d].last_call = c], c, [fn |-> "start", co |-> d])
        PROVE  \A b \in Coros \ {c} : coro'[b].executor = coro[b].executor
    <3> DEFINE objs == [coro EXCEPT ![d].last_call = c]
    <3>1. ExecsKept(objs)
      BY <1>1, ExecKept DEF ExecsKept
    <3>2. coro' = Yielded(objs, c, [fn |-> "start", co |-> d])
      BY <2>1
    <3>3. objs \in [Coros -> CoroutineContextBase]
      BY <1>1, FieldType
    <3> HIDE DEF objs
    <3>4. \A b \in Coros \ {c} : coro'[b] = objs[b]
      BY <3>2, <3>3 DEF Yielded
    <3> QED
      BY <3>1, <3>4 DEF ExecsKept
  <2>2. CASE \E e \in Executors : RunOn(t, c, e)
    BY <1>1, <2>2 DEF RunOn, Yielded
  <2>3. CASE AwaitTask(t, c) \/ Finish(t, c)
    BY <1>1, <2>3 DEF AwaitTask, Finish, Yielded
  <2> QED
    BY <1>1, <2>1, <2>2, <2>3 DEF Body, Await
<1> QED
  BY <1>3, <1>5, <1>6 DEF Placed, Entry, Due, Fits, RunsOn

LEMMA OutsidePlaced ==
  ASSUME Confined, Ready, Placed,
         \/ \E t \in Threads, c \in Coros : TakeWork(t, c)
         \/ ClientStep
         \/ \E e \in Executors : Shutdown(e)
         \/ UNCHANGED vars
  PROVE  Placed'
<1>1. /\ TypeOK /\ coro \in [Coros -> CoroutineContextBase] /\ ExecsKept(coro)
      /\ MaxUses = 1 /\ OneAct
  BY DEF Ready, TypeOK, ExecsKept, Confined, ConfInv, StackInv
<1>2. Entry(Runs)
  BY OutsideEntry, RunsOnset DEF Runs
<1>3. ASSUME NEW c \in Coros, NEW e \in Executors, PostCoroTask(c, e)
      PROVE  Placed'
  <2>1. /\ UNCHANGED stack /\ uses[c] = 0
        /\ \A b \in Coros \ {c} : coro'[b].executor = coro[b].executor
    BY <1>1, <1>3, UsedOnce DEF PostCoroTask
  <2>2. Phase(c) = "none"
    <3>1. Table(c) /\ Unused(c)
      BY DEF Ready, ConfInv, Own
    <3> QED
      BY <2>1, <3>1 DEF Table, Unused
  <2>3. ASSUME NEW t \in Threads, RunsOn(t, c)
        PROVE  FALSE
    <3>1. PICK i \in Nat, q \in Runs : FrameAt(t, i, c, q)
      BY <2>3 DEF RunsOn, OnIn
    <3>2. q \in Acts /\ q # "none"
      BY DEF Runs, Acts, Phases
    <3> QED
      BY <1>1, <2>2, <3>1, <3>2, PhaseIs
  <2>4. ASSUME NEW t \in Threads, NEW b \in Coros, RunsOn(t, b)'
        PROVE  Fits(t, b)'
    <3>1. RunsOn(t, b)
      BY <2>1, <2>4 DEF RunsOn, OnIn, FrameAt
    <3>2. b # c
      BY <2>3, <3>1
    <3> QED
      BY <2>1, <3>1, <3>2 DEF Placed, Fits
  <2> QED
    BY <2>4 DEF Placed
<1>4. ASSUME NEW t \in Threads, NEW c \in Coros,
             \/ StartPlain(t, c) \/ SyncWait(t, c)
             \/ \E e \in Executors : RunStart(t, e, c)
      PROVE  ExecsKept(coro')
  <2> DEFINE told == [coro EXCEPT ![c].last_call = t]
  <2>1. told \in [Coros -> CoroutineContextBase] /\ ExecsKept(told)
    BY <1>1, FieldType, ExecKept
  <2>2. PICK objs \in {coro, told} : coro' = objs \/ coro' = [objs EXCEPT ![c].source = "fresh"]
    BY <1>4 DEF StartPlain, SyncWait, RunStart, StartAndOp
  <2> HIDE DEF told
  <2>3. ExecsKept(objs) /\ ExecsKept([objs EXCEPT ![c].source = "fresh"])
    BY <1>1, <2>1, ExecKept
  <2> QED
    BY <2>2, <2>3
<1>5. CASE \E t \in Threads, c \in Coros : TakeWork(t, c)
  BY <1>2, <1>4, <1>5, PlacedKept, SameExec DEF TakeWork, RunResume, CompleteTask
<1>6. CASE ClientStep
  <2>1. \A t \in Threads, c \in Coros : ~Destory(t, c) /\ ~ResumePlain(t, c)
    BY DEF Confined, Destory, ResumePlain
  <2> QED
    BY <1>2, <1>3, <1>4, <1>6, <2>1, PlacedKept, SameExec DEF ClientStep, DropHandle
<1>7. CASE (\E e \in Executors : Shutdown(e)) \/ UNCHANGED vars
  BY <1>2, <1>7, PlacedKept, SameExec DEF Shutdown, vars
<1> QED
  BY <1>5, <1>6, <1>7

\* After runOn(e), or when posted to e, a body runs on a thread that serves e.
THEOREM ConfinedRunsOnExecutor ==
  ASSUME Confined
  PROVE  TimelySpec => []RunsOnExecutor
<1>0. Confined
  OBVIOUS
<1>1. Init => Placed
  BY DEF Init, Placed, RunsOn, OnIn, FrameAt
<1>2. ASSUME Confined, Ready, Ready', Placed, [Next]_vars
      PROVE  Placed'
  BY <1>2, ResumeStepPlaced, BodyStepPlaced, OutsidePlaced DEF Next, ThreadStep, Ready
<1>3. Ready /\ Placed => RunsOnExecutor
  <2> SUFFICES ASSUME Ready, Placed, NEW t \in Threads, NEW c \in Coros, At(t, c, "body"),
                      coro[c].executor # None
               PROVE  <<t, coro[c].executor>> \in Serves
    BY DEF RunsOnExecutor
  <2>1. StackType /\ "body" \in Phases /\ "body" \in Runs
    BY DEF Ready, TypeOK, StackType, Phases, Runs
  <2>2. RunsOn(t, c)
    BY <2>1, TopFrame DEF RunsOn, OnIn
  <2> QED
    BY <2>2 DEF Placed, Fits
<1> QED
  BY <1>0, <1>1, <1>2, <1>3, AlwaysReady, TimelyIsSpec, PTL DEF TimelySpec, Spec

-----------------------------------------------------------------------------
(* The coroutines implement AwaitProtocol.                                 *)

\* The protocol does not see a change of b.
AbsKept(b) == AbstractState(b)' = AbstractState(b) /\ ghost'[b].awaiting = ghost[b].awaiting

LEMMA AbsStutter ==
  ASSUME \A b \in Coros : AbsKept(b)
  PROVE  UNCHANGED Protocol!vars
BY DEF AbsKept, Protocol!vars

\* A new state of c is all that the protocol sees.
LEMMA AbsMoves ==
  ASSUME NEW c \in Coros, \A b \in Coros \ {c} : AbsKept(b)
  PROVE  /\ AbstractState(c) = "new" /\ AbstractState(c)' = "suspended"
              /\ ghost'[c].awaiting = ghost[c].awaiting => Protocol!Launch(c)
         /\ AbstractState(c) = "suspended" /\ AbstractState(c)' = "running"
              /\ ghost'[c].awaiting = None
              /\ (\A d \in Coros : ghost[c].awaiting = d => AbstractState(d) = "done")
              /\ ghost[c].awaiting \in Coros \cup {None} => Protocol!Run(c)
         /\ AbstractState(c) = "running" /\ AbstractState(c)' = "suspended"
              /\ ghost'[c].awaiting = ghost[c].awaiting => Protocol!Suspend(c)
         /\ AbstractState(c) = "running" /\ AbstractState(c)' = "done"
              /\ ghost'[c].awaiting = ghost[c].awaiting => Protocol!Done(c)
<1> DEFINE st == [b \in Coros |-> AbstractState(b)]
           wf == [b \in Coros |-> ghost[b].awaiting]
<1>1. /\ st' = [st EXCEPT ![c] = AbstractState(c)']
      /\ wf' = [wf EXCEPT ![c] = ghost'[c].awaiting]
  BY DEF AbsKept
<1>2. ghost'[c].awaiting = ghost[c].awaiting => wf' = wf
  BY <1>1
<1>3. st[c] = AbstractState(c) /\ wf[c] = ghost[c].awaiting
  OBVIOUS
<1>4. \A d \in Coros : st[d] = AbstractState(d)
  OBVIOUS
<1> QED
  BY <1>1, <1>2, <1>3, <1>4
     DEF Protocol!Launch, Protocol!Run, Protocol!Suspend, Protocol!Done

LEMMA AbsAwaits ==
  ASSUME NEW c \in Coros, NEW d \in Coros, c # d, \A b \in Coros \ {c, d} : AbsKept(b),
         AbstractState(c) = "running", AbstractState(c)' = "suspended", ghost'[c].awaiting = d,
         AbstractState(d) = "new", AbstractState(d)' = "suspended",
         ghost'[d].awaiting = ghost[d].awaiting
  PROVE  Protocol!Await(c, d)
<1> DEFINE st == [b \in Coros |-> AbstractState(b)]
           wf == [b \in Coros |-> ghost[b].awaiting]
<1>1. /\ st' = [st EXCEPT ![c] = "suspended", ![d] = "suspended"]
      /\ wf' = [wf EXCEPT ![c] = d]
      /\ st[c] = "running" /\ st[d] = "new"
  BY DEF AbsKept
<1> QED
  BY <1>1 DEF Protocol!Await

\* The protocol does not see a step that ends or begins nothing.
LEMMA AbsSame ==
  ASSUME NEW b \in Coros, coro'[b].finished = coro[b].finished, uses'[b] = uses[b],
         (coro'[b].source = "caller") <=> (coro[b].source = "caller"),
         ghost'[b].awaiting = ghost[b].awaiting
  PROVE  AbsKept(b)
BY DEF AbsKept, AbstractState

LEMMA UsedSource ==
  ASSUME ConfInv, NEW c \in Coros, coro[c].source # "null"
  PROVE  uses[c] # 0 /\ ~coro[c].finished
BY DEF ConfInv, Own, Unused, Table

\* What start() does to the fields is not seen either.
LEMMA StartAbs ==
  ASSUME NEW c \in Coros, NEW t, NEW rest, NEW objs \in [Coros -> CoroutineContextBase],
         \A b \in Coros : /\ objs[b].finished = coro[b].finished
                          /\ objs[b].source = coro[b].source,
         StartAndOp(t, c, objs, rest), coro[c].source = "null"
  PROVE  \A b \in Coros : /\ coro'[b].finished = coro[b].finished
                          /\ (coro'[b].source = "caller") <=> (coro[b].source = "caller")
<1>1. coro' = [objs EXCEPT ![c].source = "fresh"] \/ coro' = objs
  BY DEF StartAndOp
<1> QED
  BY <1>1 DEF CoroutineContextBase

LEMMA EnterRefines ==
  ASSUME Ready, NEW t \in Threads, NEW c \in Coros, Enter(t, c)
  PROVE  Protocol!Run(c)
<1>1. /\ TypeOK /\ StackType /\ OneAct /\ "jump" \in Acts /\ "jump" \in Phases
      /\ coro \in [Coros -> CoroutineContextBase] /\ ghost \in [Coros -> Ghosts]
      /\ Own(c) /\ ConfInv
  BY DEF Ready, TypeOK, StackType, ConfInv, StackInv, Acts, Phases
<1>2. /\ At(t, c, "jump") /\ coro[c].source \in {"fresh", "fiber"} /\ UNCHANGED uses
      /\ ghost' = [ghost EXCEPT ![c].awaiting = None, ![c].stranded = FALSE]
  BY DEF Enter, Resumable, WaitOver, client
<1>3. PICK v : coro' = [coro EXCEPT ![c].source = "caller", ![c].prolong_life = v]
  BY DEF Enter, Entered
<1>4. /\ coro'[c].source = "caller" /\ coro'[c].finished = coro[c].finished
      /\ \A b \in Coros \ {c} : coro'[b] = coro[b]
  BY <1>1, <1>3 DEF CoroutineContextBase
<1>5. ghost'[c].awaiting = None /\ \A b \in Coros \ {c} : ghost'[b] = ghost[b]
  BY <1>1, <1>2 DEF Ghosts
<1>6. uses[c] # 0 /\ ~coro[c].finished
  BY <1>1, <1>2, UsedSource
<1>7. \A b \in Coros \ {c} : AbsKept(b)
  BY <1>2, <1>4, <1>5 DEF AbsKept, AbstractState
<1>8. AbstractState(c) = "suspended" /\ AbstractState(c)' = "running"
  BY <1>2, <1>4, <1>6 DEF AbstractState
<1>9. \A d \in Coros : ghost[c].awaiting = d => AbstractState(d) = "done"
  <2>1. Phase(c) = "jump"
    BY <1>1, <1>2, TopFrame, PhaseIs
  <2> QED
    BY <1>1, <2>1 DEF Own, Jumping, AwaitDone, Delivered, AbstractState
<1>10. ghost[c].awaiting \in Coros \cup {None}
  BY <1>1 DEF Ghosts
<1> QED
  BY <1>5, <1>7, <1>8, <1>9, <1>10, AbsMoves

LEMMA StrandsAwaiting ==
  ASSUME ghost \in [Coros -> Ghosts], NEW p \in Coros, Strands(p)
  PROVE  \A b \in Coros : ghost'[b].awaiting = ghost[b].awaiting
<1>1. ghost' = [ghost EXCEPT ![p].stranded = TRUE]
  BY DEF Strands
<1> QED
  BY <1>1 DEF Ghosts

\* The rest of a resume() changes nothing that the protocol tells apart.
LEMMA TailRefines ==
  ASSUME Ready, NEW t \in Threads, NEW c \in Coros, Resume(t, c), ~Enter(t, c)
  PROVE  UNCHANGED Protocol!vars
<1>0. \A u \in Threads : ~EnterTwice(t, u, c)
  BY NoEnterTwice
<1>1. /\ TypeOK /\ StackType /\ OneAct /\ ConfInv /\ Own(c)
      /\ coro \in [Coros -> CoroutineContextBase] /\ ghost \in [Coros -> Ghosts]
  BY DEF Ready, TypeOK, StackType, ConfInv, StackInv
<1>2. \A b \in Coros : ghost'[b].awaiting = ghost[b].awaiting
  <2>1. UNCHANGED ghost \/ Invoked(c) \/ Refuses(c) \/ \E p \in Coros : Strands(p)
    BY <1>0 DEF Resume, EnterFails, Check, CallPost, CallThen, CallFails, CallThrows, CallStart,
           Clear, NotFinished, LastCallEmpty, LastCallAwaiter, LastCallThrows, LastCallEvent,
           Release, OwnerReturns, SyncWaitReturns
  <2>2. CASE Invoked(c)
    <3>1. ghost' = [ghost EXCEPT ![c].invoked = TRUE]
      BY <2>2 DEF Invoked
    <3> QED
      BY <1>1, <3>1 DEF Ghosts
  <2>3. CASE Refuses(c)
    <3>1. ghost' = [ghost EXCEPT ![c].invoked = TRUE, ![c].stranded = TRUE]
      BY <2>3 DEF Refuses
    <3> QED
      BY <1>1, <3>1 DEF Ghosts
  <2>4. ASSUME NEW p \in Coros, Strands(p)
        PROVE  \A b \in Coros : ghost'[b].awaiting = ghost[b].awaiting
    BY <1>1, <2>4, StrandsAwaiting
  <2> QED
    BY <2>1, <2>2, <2>3, <2>4
<1>3. UNCHANGED uses
  BY <1>0 DEF Resume, EnterFails, Check, CallPost, CallThen, CallFails, CallThrows, CallStart, Clear,
         NotFinished, LastCallEmpty, LastCallAwaiter, LastCallThrows, LastCallEvent, Release,
         OwnerReturns, SyncWaitReturns, client
<1>4. \A b \in Coros : /\ coro'[b].finished = coro[b].finished
                       /\ (coro'[b].source = "caller") <=> (coro[b].source = "caller")
  <2>1. ASSUME NEW d \in Coros, CallStart(t, c, d)
        PROVE  \A b \in Coros : /\ coro'[b].finished = coro[b].finished
                                /\ (coro'[b].source = "caller") <=> (coro[b].source = "caller")
    <3>1. /\ StartAndOp(t, d, coro, Moved(t, c, "clear")) /\ At(t, c, "call")
          /\ coro[c].yield_after_call = [fn |-> "start", co |-> d]
      BY <2>1 DEF CallStart
    <3>2. Link(c, d) /\ "call" \in Acts /\ "call" \in Phases
      BY <1>1 DEF ConfInv, Acts, Phases
    <3>3. Phase(c) = "call"
      BY <1>1, <3>1, <3>2, TopFrame, PhaseIs
    <3>4. ~ghost[c].invoked /\ coro[c].yield_after_call # None
      BY <1>1, <3>3 DEF Own, Table
    <3>5. ghost[c].awaiting = d
      <4>1. \A x : /\ coro[c].yield_after_call # [fn |-> "post", co |-> x]
                   /\ coro[c].yield_after_call # [fn |-> "then", co |-> x]
                   /\ coro[c].yield_after_call = [fn |-> "start", co |-> x] => x = d
        BY <3>1, TaskIs
      <4> QED
        BY <1>1, <3>4, <4>1 DEF Own, Asks
    <3>6. coro[d].source = "null"
      BY <3>2, <3>4, <3>5 DEF Link, Launching
    <3> QED
      BY <1>1, <3>1, <3>6, StartAbs
  <2>2. CASE Clear(t, c) \/ Release(t, c)
    <3>1. \/ coro' = [coro EXCEPT ![c].prolong_life = FALSE]
          \/ coro' = [coro EXCEPT ![c].yield_after_call = None]
      BY <2>2 DEF Release, Released, Clear, Cleared
    <3> QED
      BY <1>1, <3>1 DEF CoroutineContextBase
  <2> QED
    BY <1>0, <2>1, <2>2
       DEF Resume, EnterFails, Check, CallPost, CallThen, CallFails, CallThrows, NotFinished,
           LastCallEmpty, LastCallAwaiter, LastCallThrows, LastCallEvent, OwnerReturns,
           SyncWaitReturns
<1>5. \A b \in Coros : AbsKept(b)
  BY <1>2, <1>3, <1>4, AbsSame
<1> QED
  BY <1>5, AbsStutter

\* A body that suspends without awaiting a coroutine, or ends.
LEMMA BodyRefines ==
  ASSUME Confined, Ready, NEW t \in Threads, NEW c \in Coros, Body(t, c)
  PROVE  Protocol!Suspend(c) \/ Protocol!Done(c) \/ \E d \in Coros : Protocol!Await(c, d)
<1>1. /\ TypeOK /\ StackType /\ OneAct /\ ConfInv /\ Own(c) /\ MaxUses = 1
      /\ coro \in [Coros -> CoroutineContextBase] /\ ghost \in [Coros -> Ghosts]
      /\ ~YieldFails(t, c) /\ ~Yield(t, c)
      /\ \A d \in Coros : ~Call(t, c, d) /\ ~CallResume(t, c, d)
      /\ "body" \in Acts /\ "body" \in Phases
  BY BodyStepThis DEF Ready, TypeOK, StackType, Confined, Call, CallResume, Yield, ConfInv,
                      StackInv, Acts, Phases
<1>2. At(t, c, "body")
  BY <1>1 DEF Body, RunOn, Await, AwaitTask, Finish, InBody
<1>3. coro[c].source = "caller" /\ ghost[c].awaiting = None
  <2>1. Phase(c) = "body"
    BY <1>1, <1>2, TopFrame, PhaseIs
  <2> QED
    BY <1>1, <2>1 DEF Own, Table
<1>4. uses[c] # 0 /\ ~coro[c].finished /\ AbstractState(c) = "running"
  BY <1>1, <1>3, UsedSource DEF AbstractState
<1>5. ASSUME NEW d, Switch(t, c, d)
      PROVE  ghost'[c].awaiting = d /\ \A b \in Coros \ {c} : ghost'[b] = ghost[b]
  <2>1. ghost' = [ghost EXCEPT ![c].invoked = FALSE, ![c].awaiting = d]
    BY <1>5 DEF Switch
  <2> QED
    BY <1>1, <2>1 DEF Ghosts
<1>6. ASSUME NEW objs \in [Coros -> CoroutineContextBase], NEW fun, coro' = Yielded(objs, c, fun)
      PROVE  /\ coro'[c].source = "fiber" /\ coro'[c].finished = objs[c].finished
             /\ \A b \in Coros \ {c} : coro'[b] = objs[b]
  BY <1>6 DEF Yielded, CoroutineContextBase
<1>7. ASSUME \/ \E e \in Executors : RunOn(t, c, e)
             \/ AwaitTask(t, c)
      PROVE  Protocol!Suspend(c)
  <2>1. Switch(t, c, None) /\ UNCHANGED uses
    BY <1>7 DEF RunOn, AwaitTask
  <2>2. PICK objs \in [Coros -> CoroutineContextBase], fun \in Callbacks :
          /\ coro' = Yielded(objs, c, fun)
          /\ objs[c].finished = coro[c].finished
          /\ \A b \in Coros \ {c} : objs[b] = coro[b]
    <3>1. CASE AwaitTask(t, c)
      BY <1>1, <3>1 DEF AwaitTask, Callbacks
    <3>2. ASSUME NEW e \in Executors, RunOn(t, c, e)
          PROVE  \E objs \in [Coros -> CoroutineContextBase], fun \in Callbacks :
                   /\ coro' = Yielded(objs, c, fun)
                   /\ objs[c].finished = coro[c].finished
                   /\ \A b \in Coros \ {c} : objs[b] = coro[b]
      <4> DEFINE objs == [coro EXCEPT ![c].executor = e]
                 fun  == [fn |-> "post", co |-> c]
      <4>1. /\ objs \in [Coros -> CoroutineContextBase] /\ objs[c].finished = coro[c].finished
            /\ \A b \in Coros \ {c} : objs[b] = coro[b]
        BY <1>1, FieldType DEF CoroutineContextBase
      <4>2. coro' = Yielded(objs, c, fun) /\ fun \in Callbacks
        BY <3>2 DEF RunOn, Callbacks
      <4> HIDE DEF objs, fun
      <4> QED
        BY <4>1, <4>2
    <3> QED
      BY <1>7, <3>1, <3>2
  <2>3. ghost'[c].awaiting = ghost[c].awaiting /\ \A b \in Coros \ {c} : ghost'[b] = ghost[b]
    BY <1>3, <1>5, <2>1
  <2>4. /\ coro'[c].source = "fiber" /\ ~coro'[c].finished
        /\ \A b \in Coros \ {c} : coro'[b] = coro[b]
    BY <1>4, <1>6, <2>2
  <2>5. AbstractState(c)' = "suspended"
    BY <1>4, <2>1, <2>4 DEF AbstractState
  <2>6. \A b \in Coros \ {c} : AbsKept(b)
    BY <2>1, <2>3, <2>4 DEF AbsKept, AbstractState
  <2> QED
    BY <1>4, <2>3, <2>5, <2>6, AbsMoves
<1>8. ASSUME Finish(t, c)
      PROVE  Protocol!Done(c)
  <2>1. /\ coro' = [coro EXCEPT ![c].finished = TRUE, ![c].source = "null"]
        /\ UNCHANGED <<ghost, uses>>
    BY <1>8 DEF Finish, client
  <2>2. coro'[c].finished /\ \A b \in Coros \ {c} : coro'[b] = coro[b]
    BY <1>1, <2>1 DEF CoroutineContextBase
  <2>3. AbstractState(c)' = "done" /\ \A b \in Coros \ {c} : AbsKept(b)
    BY <2>1, <2>2 DEF AbstractState, AbsKept
  <2> QED
    BY <1>4, <2>1, <2>3, AbsMoves
<1>9. ASSUME NEW d \in Coros, Await(t, c, d)
      PROVE  Protocol!Await(c, d)
  <2> DEFINE objs == [coro EXCEPT ![d].last_call = c]
             fun  == [fn |-> "start", co |-> d]
  <2>1. /\ Switch(t, c, d) /\ coro' = Yielded(objs, c, fun)
        /\ uses[d] = 0 /\ uses'[d] = 1 /\ \A b \in Coros \ {d} : uses'[b] = uses[b]
    BY <1>1, <1>9, UsedOnce DEF Await
  <2>2. c # d
    BY <1>4, <2>1
  <2>3. /\ objs \in [Coros -> CoroutineContextBase]
        /\ objs[d].source = coro[d].source /\ objs[d].finished = coro[d].finished
        /\ \A b \in Coros \ {d} : objs[b] = coro[b]
    BY <1>1, FieldType DEF CoroutineContextBase
  <2> HIDE DEF objs, fun
  <2>4. /\ coro'[c].source = "fiber" /\ coro'[c].finished = objs[c].finished
        /\ \A b \in Coros \ {c} : coro'[b] = objs[b]
    BY <1>6, <2>1, <2>3
  <2>5. coro[d].source = "null" /\ ~coro[d].finished
    BY <1>1, <2>1 DEF ConfInv, Own, Unused
  <2>6. ghost'[c].awaiting = d /\ \A b \in Coros \ {c} : ghost'[b] = ghost[b]
    BY <1>5, <2>1
  <2>7. AbstractState(c)' = "suspended"
    BY <1>4, <2>1, <2>2, <2>3, <2>4 DEF AbstractState
  <2>8. AbstractState(d) = "new" /\ AbstractState(d)' = "suspended"
    BY <2>1, <2>2, <2>3, <2>4, <2>5 DEF AbstractState
  <2>9. \A b \in Coros \ {c, d} : AbsKept(b)
    BY <2>1, <2>3, <2>4, <2>6 DEF AbstractState, AbsKept
  <2> QED
    BY <1>4, <2>2, <2>6, <2>7, <2>8, <2>9, AbsAwaits
<1> QED
  BY <1>1, <1>7, <1>8, <1>9 DEF Body

\* The client launches a coroutine, or does what the protocol does not see.
LEMMA OutsideRefines ==
  ASSUME Confined, Ready,
         \/ \E t \in Threads, c \in Coros : TakeWork(t, c)
         \/ ClientStep
         \/ \E e \in Executors : Shutdown(e)
         \/ UNCHANGED vars
  PROVE  (\E c \in Coros : Protocol!Launch(c)) \/ UNCHANGED Protocol!vars
<1>1. /\ TypeOK /\ ConfInv /\ MaxUses = 1 /\ PostedType
      /\ coro \in [Coros -> CoroutineContextBase] /\ ghost \in [Coros -> Ghosts]
  BY DEF Ready, TypeOK, Confined, PostedType
<1>2. ASSUME UNCHANGED <<coro, uses>>, UNCHANGED ghost \/ \E p \in Coros : Strands(p)
      PROVE  UNCHANGED Protocol!vars
  <2>1. \A b \in Coros : ghost'[b].awaiting = ghost[b].awaiting
    BY <1>1, <1>2, StrandsAwaiting
  <2> QED
    BY <1>2, <2>1, AbsStutter DEF AbsKept, AbstractState
<1>3. ASSUME NEW t \in Threads, NEW e \in Executors, NEW c \in Coros, RunStart(t, e, c)
      PROVE  UNCHANGED Protocol!vars
  <2>1. Taken(e, "start", c) /\ StartAndOp(t, c, coro, <<Frame(c, "owner")>>) /\ UNCHANGED <<uses, ghost>>
    BY <1>3 DEF RunStart, client
  <2>2. Sent(c, "start", e) # 0
    BY <1>1, <2>1, TakenSent
  <2>3. coro[c].source = "null"
    BY <1>1, <2>2 DEF ConfInv, Own, Posted
  <2>4. \A b \in Coros : AbsKept(b)
    BY <1>1, <2>1, <2>3, StartAbs, AbsSame
  <2> QED
    BY <2>4, AbsStutter
<1>4. ASSUME NEW c \in Coros, Usable(c), Used(c), UNCHANGED ghost \/ Strands(c),
             \A b \in Coros : /\ coro'[b].finished = coro[b].finished
                              /\ (coro'[b].source = "caller") <=> (coro[b].source = "caller")
      PROVE  Protocol!Launch(c)
  <2>1. uses[c] = 0 /\ uses'[c] = 1 /\ \A b \in Coros \ {c} : uses'[b] = uses[b]
    BY <1>1, <1>4, UsedOnce
  <2>5. \A b \in Coros : ghost'[b].awaiting = ghost[b].awaiting
    BY <1>1, <1>4, StrandsAwaiting
  <2>2. coro[c].source = "null" /\ ~coro[c].finished
    BY <1>1, <2>1 DEF ConfInv, Own, Unused
  <2>3. AbstractState(c) = "new" /\ AbstractState(c)' = "suspended"
    BY <1>4, <2>1, <2>2 DEF AbstractState
  <2>4. \A b \in Coros \ {c} : AbsKept(b)
    BY <1>4, <2>1, <2>5, AbsSame
  <2> QED
    BY <2>3, <2>4, <2>5, AbsMoves
<1>5. ASSUME NEW c \in Coros, NEW e \in Executors, PostCoroTask(c, e)
      PROVE  Protocol!Launch(c)
  <2>1. /\ Usable(c) /\ Used(c) /\ coro' = [coro EXCEPT ![c].executor = e]
        /\ UNCHANGED ghost \/ Strands(c)
    BY <1>5 DEF PostCoroTask
  <2> QED
    BY <1>1, <1>4, <2>1 DEF CoroutineContextBase
<1>6. ASSUME NEW t \in Threads, NEW c \in Coros, StartPlain(t, c) \/ SyncWait(t, c)
      PROVE  Protocol!Launch(c)
  <2> DEFINE told == [coro EXCEPT ![c].last_call = t]
  <2>1. Usable(c) /\ Used(c) /\ UNCHANGED ghost
    BY <1>6 DEF StartPlain, SyncWait
  <2>2. coro[c].source = "null"
    <3>1. uses[c] = 0
      BY <1>1, <2>1, UsedOnce
    <3> QED
      BY <1>1, <3>1 DEF ConfInv, Own, Unused
  <2>6. told \in [Coros -> CoroutineContextBase]
    BY <1>1, FieldType
  <2>3. \A b \in Coros : told[b].finished = coro[b].finished /\ told[b].source = coro[b].source
    BY <1>1 DEF CoroutineContextBase
  <2>4. \/ StartAndOp(t, c, coro, <<Frame(c, "owner")>>)
        \/ StartAndOp(t, c, told, <<Frame(c, "wait")>>)
    BY <1>6 DEF StartPlain, SyncWait
  <2> HIDE DEF told
  <2>5. \A b \in Coros : /\ coro'[b].finished = coro[b].finished
                         /\ (coro'[b].source = "caller") <=> (coro[b].source = "caller")
    BY <1>1, <2>2, <2>3, <2>4, <2>6, StartAbs
  <2> QED
    BY <1>4, <2>1, <2>5
<1>7. CASE \E t \in Threads, c \in Coros : TakeWork(t, c)
  BY <1>2, <1>3, <1>7 DEF TakeWork, RunResume, CompleteTask, client
<1>8. CASE ClientStep
  <2>1. \A t \in Threads, c \in Coros : ~Destory(t, c) /\ ~ResumePlain(t, c)
    BY DEF Confined, Destory, ResumePlain
  <2> QED
    BY <1>2, <1>5, <1>6, <1>8, <2>1 DEF ClientStep, DropHandle
<1>9. ASSUME NEW e \in Executors, Shutdown(e)
      PROVE  UNCHANGED Protocol!vars
  <2>1. ghost' = [c \in Coros |-> [ghost[c] EXCEPT !.stranded = @ \/ Pending(c, e)]]
    BY <1>9 DEF Shutdown
  <2>2. \A b \in Coros : ghost'[b].awaiting = ghost[b].awaiting
    BY <1>1, <2>1 DEF Ghosts
  <2> QED
    BY <1>9, <2>2, AbsStutter DEF AbsKept, AbstractState, Shutdown, client
<1>10. CASE UNCHANGED vars
  BY <1>2, <1>10 DEF vars, client
<1> QED
  BY <1>7, <1>8, <1>9, <1>10

\* A coroutine of a confined program runs once, from its launch to its end, and
\* one that awaits another goes on only when the other is done: the callbacks,
\* executors and threads of the library are one implementation of that.
THEOREM ConfinedImplementsProtocol ==
  ASSUME Confined
  PROVE  TimelySpec => ImplementsProtocol
<1>0. Confined
  OBVIOUS
<1>1. Init => Protocol!Init
  <2> SUFFICES ASSUME Init
               PROVE  Protocol!Init
    OBVIOUS
  <2>1. \A c \in Coros : AbstractState(c) = "new" /\ ghost[c].awaiting = None
    BY DEF Init, AbstractState
  <2> QED
    BY <2>1 DEF Protocol!Init
<1>2. ASSUME Confined, Ready, [Next]_vars
      PROVE  [Protocol!Next]_Protocol!vars
  <2>1. ASSUME NEW t \in Threads, NEW c \in Coros, Resume(t, c)
        PROVE  [Protocol!Next]_Protocol!vars
    BY <1>2, <2>1, EnterRefines, TailRefines DEF Protocol!Next
  <2>2. ASSUME NEW t \in Threads, NEW c \in Coros, Body(t, c)
        PROVE  [Protocol!Next]_Protocol!vars
    BY <1>2, <2>2, BodyRefines DEF Protocol!Next
  <2>3. ASSUME \/ \E t \in Threads, c \in Coros : TakeWork(t, c)
               \/ ClientStep
               \/ \E e \in Executors : Shutdown(e)
               \/ UNCHANGED vars
        PROVE  [Protocol!Next]_Protocol!vars
    BY <1>2, <2>3, OutsideRefines DEF Protocol!Next
  <2> QED
    BY <1>2, <2>1, <2>2, <2>3 DEF Next, ThreadStep
<1> QED
  BY <1>0, <1>1, <1>2, AlwaysReady, TimelyIsSpec, PTL
     DEF TimelySpec, Spec, ImplementsProtocol, Protocol!Spec

=============================================================================
