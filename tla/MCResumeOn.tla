---------------------------- MODULE MCResumeOn ----------------------------
(***************************************************************************)
(* The threads and executors of test1.cpp.                                 *)
(***************************************************************************)
EXTENDS ResumeOn

CONSTANTS main, worker, manualExecutor, threadPool

TestServes == {<<main, manualExecutor>>, <<worker, threadPool>>}

=============================================================================
