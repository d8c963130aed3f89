--------------------------- MODULE TaskQueueProofs ---------------------------
(***************************************************************************)
(* A task queue is a bag of tasks: with ExecutorIsAQueue, what Coroutine   *)
(* assumes of its executors holds of ManualExecutor.                       *)
(***************************************************************************)
EXTENDS TaskQueue, TLAPS

\* No task waits twice, so that the one that is taken does not wait any more.
QueueInv ==
  /\ queue \in Seq(Items)
  /\ taken \in Seq(Items)
  /\ \A i, j \in DOMAIN queue : queue[i] = queue[j] => i = j

LEMMA AppendRange ==
  ASSUME NEW s \in Seq(Items), NEW x \in Items
  PROVE  /\ Append(s, x) \in Seq(Items)
         /\ SeqRange(Append(s, x)) = SeqRange(s) \cup {x}
<1>1. /\ Append(s, x) \in Seq(Items)
      /\ DOMAIN s = 1..Len(s) /\ DOMAIN Append(s, x) = 1..(Len(s) + 1)
      /\ \A i \in 1..Len(s) : Append(s, x)[i] = s[i]
      /\ Append(s, x)[Len(s) + 1] = x
      /\ Len(s) \in Nat
  OBVIOUS
<1>2. \A y : y \in SeqRange(Append(s, x)) <=> y \in SeqRange(s) \/ y = x
  <2>1. \A i : i \in 1..(Len(s) + 1) <=> i \in 1..Len(s) \/ i = Len(s) + 1
    BY <1>1
  <2> QED
    BY <1>1, <2>1 DEF SeqRange
<1> QED
  BY <1>1, <1>2

LEMMA TailRange ==
  ASSUME NEW s \in Seq(Items), s # <<>>, \A i, j \in DOMAIN s : s[i] = s[j] => i = j
  PROVE  /\ Tail(s) \in Seq(Items) /\ Head(s) \in Items /\ Head(s) \in SeqRange(s)
         /\ SeqRange(Tail(s)) = SeqRange(s) \ {Head(s)}
         /\ \A i, j \in DOMAIN Tail(s) : Tail(s)[i] = Tail(s)[j] => i = j
<1>1. /\ Tail(s) \in Seq(Items) /\ Head(s) \in Items
      /\ 1 \in DOMAIN s /\ Head(s) = s[1]
  OBVIOUS
<1>2. /\ Len(s) \in Nat \ {0} /\ DOMAIN s = 1..Len(s) /\ DOMAIN Tail(s) = 1..(Len(s) - 1)
      /\ \A i \in 1..(Len(s) - 1) : Tail(s)[i] = s[i + 1]
  OBVIOUS
<1>3. \A i \in DOMAIN Tail(s) :
        i + 1 \in DOMAIN s /\ i + 1 # 1 /\ Tail(s)[i] = s[i + 1] /\ i \in Nat
  BY <1>2
<1>4. \A i \in DOMAIN s \ {1} : i - 1 \in DOMAIN Tail(s) /\ Tail(s)[i - 1] = s[i]
  <2> SUFFICES ASSUME NEW i \in 1..Len(s), i # 1
               PROVE  i - 1 \in 1..(Len(s) - 1) /\ Tail(s)[i - 1] = s[i]
    BY <1>2
  <2>1. i - 1 \in 1..(Len(s) - 1) /\ (i - 1) + 1 = i
    BY <1>2
  <2> QED
    BY <1>2, <2>1
<1>5. \A y : y \in SeqRange(Tail(s)) => y \in SeqRange(s) /\ y # Head(s)
  BY <1>1, <1>3 DEF SeqRange
<1>6. \A y : y \in SeqRange(s) /\ y # Head(s) => y \in SeqRange(Tail(s))
  <2> SUFFICES ASSUME NEW y \in SeqRange(s), y # Head(s)
               PROVE  y \in SeqRange(Tail(s))
    OBVIOUS
  <2>1. PICK i \in DOMAIN s \ {1} : s[i] = y
    BY <1>1 DEF SeqRange
  <2>2. i - 1 \in DOMAIN Tail(s) /\ Tail(s)[i - 1] = y
    BY <1>4, <2>1
  <2> QED
    BY <2>2 DEF SeqRange
<1>7. ASSUME NEW i \in DOMAIN Tail(s), NEW j \in DOMAIN Tail(s), Tail(s)[i] = Tail(s)[j]
      PROVE  i = j
  <2>1. i + 1 = j + 1
    BY <1>1, <1>3, <1>7
  <2> QED
    BY <1>3, <2>1
<1> QED
  BY <1>1, <1>5, <1>6, <1>7 DEF SeqRange

LEMMA QueueStep ==
  ASSUME QueueInv, [Next]_vars
  PROVE  QueueInv' /\ [Bag!Next]_(Bag!vars)
<1>1. ASSUME NEW x \in Items, Put(x)
      PROVE  QueueInv' /\ Bag!Put(x)
  <2>1. queue' \in Seq(Items) /\ SeqRange(queue') = SeqRange(queue) \cup {x} /\ UNCHANGED taken
    BY <1>1, AppendRange DEF QueueInv, Put
  <2>2. \A i, j \in DOMAIN queue' : queue'[i] = queue'[j] => i = j
    <3>1. x \notin SeqRange(queue) /\ queue \in Seq(Items) /\ queue' = Append(queue, x)
      BY <1>1 DEF QueueInv, Put, Known, InSeq, SeqRange
    <3>2. \A i \in DOMAIN queue : queue[i] # x
      BY <3>1 DEF SeqRange
    <3> QED
      BY <3>1, <3>2 DEF QueueInv
  <2>3. QueueInv'
    BY <2>1, <2>2 DEF QueueInv
  <2>4. SeqRange(queue)' = SeqRange(queue) \cup {x} /\ SeqRange(taken)' = SeqRange(taken)
    BY <2>1 DEF SeqRange
  <2> QED
    BY <1>1, <2>3, <2>4 DEF Bag!Put, Put, Known, InSeq, SeqRange
<1>2. ASSUME Take
      PROVE  QueueInv' /\ \E x \in Items : Bag!Take(x)
  <2> DEFINE x == Head(queue)
  <2>1. /\ queue' \in Seq(Items) /\ x \in Items /\ x \in SeqRange(queue)
        /\ SeqRange(queue') = SeqRange(queue) \ {x}
        /\ \A i, j \in DOMAIN queue' : queue'[i] = queue'[j] => i = j
    BY <1>2, TailRange DEF QueueInv, Take
  <2>2. taken' \in Seq(Items) /\ SeqRange(taken') = SeqRange(taken) \cup {x}
    BY <1>2, <2>1, AppendRange DEF QueueInv, Take
  <2>3. QueueInv'
    BY <2>1, <2>2 DEF QueueInv
  <2>4. SeqRange(queue)' = SeqRange(queue) \ {x} /\ SeqRange(taken)' = SeqRange(taken) \cup {x}
    BY <2>1, <2>2 DEF SeqRange
  <2>5. Bag!Take(x)
    BY <1>2, <2>1, <2>4 DEF Bag!Take, Take
  <2> QED
    BY <2>1, <2>3, <2>5
<1>3. ASSUME Clear \/ Close
      PROVE  QueueInv' /\ Bag!Discard
  <2>1. queue' = <<>> /\ lost' = lost \cup SeqRange(queue) /\ UNCHANGED taken
    BY <1>3 DEF Clear, Close, Discard, SeqRange
  <2>2. QueueInv'
    BY <2>1 DEF QueueInv
  <2>3. SeqRange(queue)' = SeqRange(queue) \ SeqRange(queue) /\ SeqRange(taken)' = SeqRange(taken)
    BY <2>1 DEF SeqRange
  <2> QED
    BY <2>1, <2>2, <2>3 DEF Bag!Discard
<1>4. CASE UNCHANGED vars
  BY <1>4 DEF vars, QueueInv, Bag!vars, SeqRange
<1> QED
  BY <1>1, <1>2, <1>3, <1>4 DEF Next, Bag!Next

\* Whatever keeps the order of the posts also keeps every task: the executors
\* that are task queues are bags of tasks, as Coroutine takes them to be.
THEOREM QueueIsABag == Spec => ImplementsTaskBag
<1>1. Init => QueueInv /\ Bag!Init
  BY DEF Init, QueueInv, Bag!Init, SeqRange
<1>2. QueueInv /\ [Next]_vars => QueueInv' /\ [Bag!Next]_(Bag!vars)
  BY QueueStep
<1> QED
  BY <1>1, <1>2, PTL DEF Spec, ImplementsTaskBag, Bag!Spec

=============================================================================
