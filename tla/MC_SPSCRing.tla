---------------------------- MODULE MC_SPSCRing ----------------------------
(* A ring of four slots whose indices wrap after three laps, two values:   *)
(* the ring is full, empty and wrapped in every interleaving.              *)
EXTENDS SPSCRing
=============================================================================
