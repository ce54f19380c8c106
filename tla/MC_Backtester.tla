--------------------------- MODULE MC_Backtester ---------------------------
(* Model-checking instance: ticks of two symbols over three intervals of   *)
(* two time units each.                                                    *)
EXTENDS Backtester

CONSTANTS s1, s2

MC_Ticks == [symbol : {s1, s2}, time : 0..5, price : {1, 2, 3}, volume : {1}]
=============================================================================
