--------------------------- MODULE AwaitProtocol ---------------------------
(***************************************************************************)
(* What include/coro promises of coroutines, without threads, executors or *)
(* callbacks: a coroutine runs once, from its launch to its end, possibly  *)
(* suspended in between, and one that awaits another goes on only when the *)
(* other is done.  Coroutine implements this specification.                *)
(***************************************************************************)
CONSTANTS Coros, None

VARIABLES
  st,       \* "new", "suspended", "running" or "done"
  waitsFor  \* the coroutine that c awaits, or None

vars == <<st, waitsFor>>

Init ==
  /\ st = [c \in Coros |-> "new"]
  /\ waitsFor = [c \in Coros |-> None]

\* start, postCoroTask, sync_wait.
Launch(c) ==
  /\ st[c] = "new"
  /\ st' = [st EXCEPT ![c] = "suspended"]
  /\ UNCHANGED waitsFor

\* resume: an awaited coroutine is done before its awaiter goes on.
Run(c) ==
  /\ st[c] = "suspended"
  /\ waitsFor[c] # None => st[waitsFor[c]] = "done"
  /\ st' = [st EXCEPT ![c] = "running"]
  /\ waitsFor' = [waitsFor EXCEPT ![c] = None]

\* runOn, and await of an async task.
Suspend(c) ==
  /\ st[c] = "running"
  /\ st' = [st EXCEPT ![c] = "suspended"]
  /\ UNCHANGED waitsFor

\* await: d is started, unless somebody has started it, and c waits for it.
Await(c, d) ==
  /\ st[c] = "running"
  /\ st' = [st EXCEPT ![c] = "suspended",
                      ![d] = IF st[d] = "new" THEN "suspended" ELSE @]
  /\ waitsFor' = [waitsFor EXCEPT ![c] = d]

Done(c) ==
  /\ st[c] = "running"
  /\ st' = [st EXCEPT ![c] = "done"]
  /\ UNCHANGED waitsFor

Next ==
  \E c \in Coros :
    \/ Launch(c) \/ Run(c) \/ Suspend(c) \/ Done(c)
    \/ \E d \in Coros : Await(c, d)

Spec == Init /\ [][Next]_vars

=============================================================================
