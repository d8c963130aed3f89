------------------------------ MODULE TaskBag ------------------------------
(***************************************************************************)
(* The least that an executor promises, whatever the order it runs tasks   *)
(* in: a task that was posted waits until it is taken, once, or discarded. *)
(* TaskQueue, and so ManualExecutor, and ThreadPool implement it; it is    *)
(* all that Coroutine assumes of an executor.                              *)
(***************************************************************************)
CONSTANT Items

VARIABLES
  waiting,  \* the tasks that were posted and not yet taken
  taken,    \* the tasks that run or have run
  lost      \* the tasks that were discarded

vars == <<waiting, taken, lost>>

Init ==
  /\ waiting = {}
  /\ taken = {}
  /\ lost = {}

Put(x) ==
  /\ x \notin waiting \cup taken \cup lost
  /\ waiting' = waiting \cup {x}
  /\ UNCHANGED <<taken, lost>>

Take(x) ==
  /\ x \in waiting
  /\ waiting' = waiting \ {x}
  /\ taken' = taken \cup {x}
  /\ UNCHANGED lost

Discard ==
  \E some \in SUBSET waiting :
    /\ waiting' = waiting \ some
    /\ lost' = lost \cup some
    /\ UNCHANGED taken

Next == (\E x \in Items : Put(x) \/ Take(x)) \/ Discard

Spec == Init /\ [][Next]_vars

=============================================================================
