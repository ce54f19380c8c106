---------------------------- MODULE PriceHistory ----------------------------
(***************************************************************************)
(* From raw daily bars to the returns matrix: corporate_actions.py and the *)
(* matrices of build_universe.py.                                          *)
(*                                                                         *)
(* A number is represented by what it is computed from: a close by the bar *)
(* it was read from and the factors it was scaled with, a return by its    *)
(* two bars and the factors that do not cancel between them.  Two numbers  *)
(* are equal here when the code computes them from the same data in the    *)
(* same way.                                                               *)
(*                                                                         *)
(* A vintage is all the data a program may read: the bars on disk of every *)
(* symbol and of the market proxy, and the file of corporate actions.      *)
(***************************************************************************)
EXTENDS Integers, FiniteSets, Sequences, SequencesExt

CONSTANTS Symbols,   \* the universe
          Window     \* rows of the trailing estimation window

ASSUME PriceHistoryAssumption ==
    /\ Symbols # {} /\ IsFiniteSet(Symbols)
    /\ Window \in Nat \ {0, 1}

Greatest(S) == CHOOSE x \in S : \A y \in S : y <= x
Least(S) == CHOOSE x \in S : \A y \in S : x <= y
UpTo(S, t) == {x \in S : x <= t}
InOrder(S) ==
    [i \in 1..Cardinality(S) |-> CHOOSE x \in S : Cardinality({y \in S : y < x}) = i - 1]

\* The part of a vintage that was known at the close of day t
KnownBy(v, t) ==
    [bars |-> [s \in Symbols |-> UpTo(v.bars[s], t)],
     market |-> UpTo(v.market, t),
     actions |-> {e \in v.actions : e.date <= t}]
-----------------------------------------------------------------------------
(* corporate_actions.py *)

RowsBeforeExDate(days, e) == {d \in days : d < e.date}

\* Events that precede the series, and implausible ones, are skipped.
AppliedActions(v, s) ==
    {e \in v.actions : /\ e.symbol = s /\ e.plausible
                       /\ RowsBeforeExDate(v.bars[s], e) # {}}

\* A dividend's factor is relative to the last raw close before its ex-date.
Factor(v, e) ==
    [action |-> e,
     reference |-> IF e.kind = "dividend"
                   THEN Greatest(RowsBeforeExDate(v.bars[e.symbol], e))
                   ELSE 0]

AdjustedClose(v, s, d) ==
    [bar |-> d,
     factors |-> {Factor(v, e) : e \in {e \in AppliedActions(v, s) : d < e.date}}]
-----------------------------------------------------------------------------
(* build_universe.py *)

\* The union grid of trading days from the day every symbol has printed
PanelRows(v) ==
    {d \in UNION {v.bars[s] : s \in Symbols} :
        \A s \in Symbols : \E b \in v.bars[s] : b <= d}

\* mutant: a gap is filled from the bar that follows it
PanelCloseBackFilled(v, s, d) ==
    AdjustedClose(v, s, IF \E b \in v.bars[s] : b >= d
                        THEN Least({b \in v.bars[s] : b >= d})
                        ELSE Greatest(v.bars[s]))

\* A gap keeps the close of the last bar, scaled by that bar's own date.
PanelClose(v, s, d) == AdjustedClose(v, s, Greatest(UpTo(v.bars[s], d)))

ReturnRows(v) == LET rows == PanelRows(v) IN {d \in rows : \E p \in rows : p < d}

\* Of P_t / P_{t-1}, the factors of the later close cancel.
Return(v, s, t) ==
    LET last   == Greatest({d \in PanelRows(v) : d < t})
        before == PanelClose(v, s, last)
        now    == PanelClose(v, s, t)
    IN  [from |-> before.bar, to |-> now.bar,
         factors |-> before.factors \ now.factors]

ReturnsRow(v, t) == [s \in Symbols |-> Return(v, s, t)]

\* The last n of the rows up to t, and whether there are as many
Trailing(rows, t, n) ==
    LET before == UpTo(rows, t) IN {u \in before : Cardinality({x \in before : u < x}) < n}
HasFull(rows, t, n) == Cardinality(UpTo(rows, t)) >= n

WindowRows(v) == LET rows == ReturnRows(v) IN {t \in rows : HasFull(rows, t, Window)}

ReturnsWindow(v, t) ==
    [u \in Trailing(ReturnRows(v), t, Window) |-> ReturnsRow(v, u)]

StandardizedRow(v, t) == [returns |-> ReturnsRow(v, t), window |-> ReturnsWindow(v, t)]

\* A symbol that has not traded for a whole window has no variance: the
\* build stops before it writes anything.
HasNoVariance(v) ==
    \E t \in WindowRows(v), s \in Symbols :
        \A u \in Trailing(ReturnRows(v), t, Window) :
            Return(v, s, u).from = Return(v, s, u).to
=============================================================================
