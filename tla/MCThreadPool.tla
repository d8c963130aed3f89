---------------------------- MODULE MCThreadPool ----------------------------
(***************************************************************************)
(* Small instances of ThreadPool.                                          *)
(***************************************************************************)
EXTENDS ThreadPool

CONSTANTS x1, x2, x3

\* x1 posts x3 while it runs, or x2 and x3, of which post(Fun&&) counts x3 only,
\* post x1 unless the other did; x2 is for any worker, or for worker 0.
Nothing  == {}
OneSpawn == {<<x1, x3>>}
BackSpawn == {<<x2, x1>>, <<x3, x1>>}
AnyId    == [x \in Items |-> -1]
OnePin   == [x \in Items |-> IF x = x2 THEN 0 ELSE -1]

=============================================================================
