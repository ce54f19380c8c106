------------------------------- MODULE Regime -------------------------------
(***************************************************************************)
(* The regime classifier: regime_features.py, regime_hmm.py and            *)
(* regime_debounce.py.  A feature row is represented by the market bars it *)
(* is computed from; the hidden Markov model is a constant function of the *)
(* rows it is fitted on and of the rows it has filtered.                   *)
(***************************************************************************)
EXTENDS PriceHistory

CONSTANTS
    FeatureSpan,       \* market bars the widest of the five features needs
    Warmup,            \* feature rows before the first state
    RefitEvery,        \* rows between two refits
    HmmFilter(_, _),   \* of the training rows and the rows observed:
                       \*   [state, sure]: the likeliest state, and whether its
                       \*   filtered probability meets the floor
    MinDwell           \* rows that confirm a change of regime

ASSUME RegimeAssumption ==
    {FeatureSpan, Warmup, RefitEvery, MinDwell} \subseteq Nat \ {0}

FeatureRows(v) == {t \in v.market : HasFull(v.market, t, FeatureSpan)}
FeatureRow(v, t) == Trailing(v.market, t, FeatureSpan)

\* The first Warmup - 1 rows have no state; too short a series is refused.
StateRows(v) ==
    LET at == InOrder(FeatureRows(v)) IN {at[i] : i \in Warmup..Len(at)}

\* The state of row i: the model last refitted at or before it, on the rows up
\* to that refit, and filtered over the rows up to i.
RegimeState(v, t) ==
    LET at   == InOrder(FeatureRows(v))
        i    == CHOOSE i \in DOMAIN at : at[i] = t
        fit  == Warmup + RefitEvery * ((i - Warmup) \div RefitEvery)
        rows(n) == [j \in 1..n |-> FeatureRow(v, at[j])]
    IN  HmmFilter(rows(fit), rows(i))

\* One row of debounce_states: the streak of equal, sure states, and the
\* committed state, which follows a state that has lasted MinDwell rows.
Debounce(m, raw) ==
    LET streak == IF ~raw.sure THEN 0
                  ELSE IF raw.state = m.last THEN m.streak + 1 ELSE 1
    IN  [last |-> raw.state, streak |-> streak,
         committed |-> IF streak >= MinDwell THEN raw.state ELSE m.committed]

Committed(raws) ==
    LET first == [last |-> raws[1].state, streak |-> IF raws[1].sure THEN 1 ELSE 0,
                  committed |-> raws[1].state]
    IN  FoldLeft(Debounce, first, Tail(raws)).committed

CommittedState(v, t) ==
    LET at == InOrder(UpTo(StateRows(v), t))
    IN  Committed([i \in DOMAIN at |-> RegimeState(v, at[i])])
=============================================================================
