----------------------------- MODULE TaskQueue -----------------------------
(***************************************************************************)
(* What an executor promises of the tasks posted to it: each is taken at   *)
(* most once, in the order of the posts, until the executor is closed or   *)
(* the tasks that wait are discarded.                                      *)
(***************************************************************************)
EXTENDS Naturals, Sequences

CONSTANT Items

VARIABLES
  queue,   \* the tasks that wait, oldest first
  taken,   \* the tasks that were taken, in that order
  lost,    \* the tasks that were discarded
  closed   \* no task is accepted any more

vars == <<queue, taken, lost, closed>>

InSeq(x, s) == \E i \in DOMAIN s : s[i] = x
Known(x) == InSeq(x, queue) \/ InSeq(x, taken) \/ x \in lost

Init ==
  /\ queue = <<>>
  /\ taken = <<>>
  /\ lost = {}
  /\ closed = FALSE

Put(x) ==
  /\ ~closed
  /\ ~Known(x)
  /\ queue' = Append(queue, x)
  /\ UNCHANGED <<taken, lost, closed>>

Take ==
  /\ queue # <<>>
  /\ taken' = Append(taken, Head(queue))
  /\ queue' = Tail(queue)
  /\ UNCHANGED <<lost, closed>>

Discard ==
  /\ queue' = <<>>
  /\ lost' = lost \cup {queue[i] : i \in DOMAIN queue}
  /\ UNCHANGED taken

Clear == ~closed /\ Discard /\ UNCHANGED closed
Close == ~closed /\ Discard /\ closed' = TRUE

Next == (\E x \in Items : Put(x)) \/ Take \/ Clear \/ Close

Spec == Init /\ [][Next]_vars

-----------------------------------------------------------------------------
SeqRange(s) == {s[i] : i \in DOMAIN s}

\* A queue of tasks is, in particular, a bag of tasks.
Bag == INSTANCE TaskBag WITH
  waiting <- SeqRange(queue), taken <- SeqRange(taken), lost <- lost
ImplementsTaskBag == Bag!Spec

=============================================================================
