---------------------------- MODULE MC_LiveEngine ----------------------------
(* Model-checking instance of the live trading loop.                       *)
EXTENDS LiveEngine
=============================================================================
