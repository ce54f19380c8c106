---------------------------- MODULE MC_LiveFeed ----------------------------
(* Model-checking instance of the live feed.                               *)
EXTENDS LiveFeed
=============================================================================
