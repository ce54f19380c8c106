--------------------------- MODULE MC_ThreadPool ---------------------------
(* Model-checking instance: more tasks than workers, so that a task waits  *)
(* while every worker runs, and two callers that may push back to back.    *)
EXTENDS ThreadPool
=============================================================================
