--------------------------- MODULE MC_ResearchRun ---------------------------
(* Model-checking instance of the research programs.  The constant functions *)
(* are arbitrary, but tell the data they are given apart.                    *)
EXTENDS ResearchRun, FiniteSetsExt

Mixed(x, y) == (7 * x + 5 * y + x * y) % 1009

MC_OfReturns(r) == 3 * r.from + 5 * r.to + 11 * Cardinality(r.factors)
MC_OfRow(row) == Mixed(MC_OfReturns(row["a"]), MC_OfReturns(row["b"]))
MC_OfWindow(w) ==
    FoldLeft(LAMBDA x, u : Mixed(x, MC_OfRow(w[u])), Cardinality(DOMAIN w), InOrder(DOMAIN w))

MC_Modes(w) == MC_OfWindow(w) % 3
MC_OUFit(s, r) ==
    LET h == MC_OfWindow(r.window) + r.factors + IF s = "a" THEN 1 ELSE 0
    IN  [valid |-> h % 11 # 0, fast |-> h % 13 # 0, zone |-> 1 + ((h \div 5) % 5)]
MC_Level(kind, s, returns) ==
    2 * FoldLeft(LAMBDA x, u : Mixed(x, MC_OfReturns(returns[u])), 0, InOrder(DOMAIN returns))
    + IF s = "a" THEN 0 ELSE 1
MC_OfDays(S) == SumSet(S) + 17 * Cardinality(S)
MC_HmmFilter(train, seen) ==
    LET h == FoldLeft(LAMBDA x, u : (7 * x + MC_OfDays(u)) % 1009, Len(train), seen)
    IN  [state |-> h % 3, sure |-> h % 5 # 0]

MC_Gaps == {<<"b", 3>>}
MC_Actions == {[symbol |-> "a", date |-> 4, kind |-> "dividend", plausible |-> TRUE]}
=============================================================================
