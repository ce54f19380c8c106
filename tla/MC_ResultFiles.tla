--------------------------- MODULE MC_ResultFiles ---------------------------
(* Model-checking instance of the result files: a pair, and a strategy that  *)
(* does not trade in two runs of the engine, whose curves have one key,      *)
(* beside curves without a time stamp.                                       *)
EXTENDS ResultFiles

MC_Pair == [symbol |-> "AAPL", second |-> "GOOG", strategy |-> <<"PairsTrading">>]
MC_SMA == [symbol |-> "AAPL", second |-> "", strategy |-> <<"SMA", "20", "50">>]
MC_Simple == [symbol : {"AAPL", "SPY"}, second : {""}, strategy : {<<>>}]

MC_Combos == {MC_Pair, MC_SMA} \cup MC_Simple
MC_LogColumns == {"timestamp", "symbol", "type", "quantity", "price", "cash"}
MC_EngineRuns == <<<<MC_Pair, MC_SMA>>, <<MC_SMA>>>>
MC_Leftovers == [kind : {"equity"}, combo : MC_Simple, stamp : {0}]
MC_Trading == {MC_Pair}
MC_PlotNames == [kind : {"plot"}, combo : {MC_Pair}, stamp : {1}]
=============================================================================
