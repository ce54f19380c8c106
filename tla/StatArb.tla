------------------------------ MODULE StatArb ------------------------------
(***************************************************************************)
(* From the returns matrix to target books: rolling_pca.py, residuals.py,  *)
(* ou_sscore.py, signals.py and baselines.py, and the walk-forward         *)
(* backtest of portfolio/compare_allocators.py.                            *)
(*                                                                         *)
(* The linear algebra is a constant function of the data it is given; what *)
(* rows it is given, and what is done with its result, is the code's.      *)
(***************************************************************************)
EXTENDS PriceHistory

CONSTANTS
    Mode,                \* rule for the number of factors: "mp", "fixed", "variance"
    FixedFactors,        \* --fixed-k
    ModesAboveEdge(_),   \* of a window: eigenvalues above the Marchenko-Pastur edge
    ModesForShare(_),    \* of a window: eigenvalues that explain the target share
    OUFit(_, _),         \* of a symbol and its residuals: [valid, fast, zone]
    Level(_, _, _),      \* of a baseline's kind, a symbol and its returns: an order
    ExecutionLag,        \* rows between a signal and the file that holds its book
    ReversalLookback, MomentumLookback, MomentumSkip,
    Lookback, Hold       \* of the walk-forward backtest

ASSUME StatArbAssumption ==
    /\ Mode \in {"mp", "fixed", "variance"}
    /\ {FixedFactors, ExecutionLag, ReversalLookback, MomentumLookback,
        MomentumSkip, Lookback, Hold} \subseteq Nat \ {0}
    /\ MomentumSkip < MomentumLookback

AtMost(a, b) == IF a < b THEN a ELSE b
AtLeast(a, b) == IF a < b THEN b ELSE a
-----------------------------------------------------------------------------
(* rolling_pca.py and residuals.py *)

SelectNumFactors(w) ==
    CASE Mode = "mp"       -> ModesAboveEdge(w)
      [] Mode = "fixed"    -> AtMost(FixedFactors, Cardinality(Symbols))
      [] Mode = "variance" -> ModesForShare(w)

\* Weights come from the whole window, the factors' returns of day t from its
\* last row.
PcaRow(v, t) ==
    LET w == ReturnsWindow(v, t)
    IN  [window |-> w, factors |-> SelectNumFactors(w), crossSection |-> ReturnsRow(v, t)]

\* Every name is regressed on the retained factors, or on the intercept alone;
\* without a factor there is no market beta.
ResidualRow(v, t) ==
    LET pca == PcaRow(v, t)
    IN  [window |-> pca.window, factors |-> pca.factors, hasBeta |-> pca.factors > 0]
-----------------------------------------------------------------------------
(* ou_sscore.py.  A score is NotANumber or the zone it lies in: 1 below    *)
(* open_long, 2 up to close_long, 3 below close_short, 4 up to open_short, *)
(* 5 above.                                                                *)

NotANumber == 0

OuRow(v, t) ==
    LET residuals == ResidualRow(v, t)
    IN  [s \in Symbols |->
            LET fit     == OUFit(s, residuals)
                speedOk == fit.valid /\ fit.fast
            IN  [score   |-> IF speedOk THEN fit.zone ELSE NotANumber,
                 kappa   |-> fit.valid,
                 speedOk |-> speedOk]]
-----------------------------------------------------------------------------
(* signals.py *)

Long == 1
Flat == 0
Short == -1

\* A position held with hysteresis; the bar that closes one may open the other.
NextPosition(prev, zone) ==
    LET exits == \/ prev = Long /\ zone > 2
                 \/ prev = Short /\ zone < 4
        held  == IF exits THEN Flat ELSE prev
    IN  IF zone = NotANumber THEN Flat
        ELSE IF held # Flat THEN held
        ELSE CASE zone = 1 -> Long [] zone = 5 -> Short [] OTHER -> Flat

\* The scan of every name's scores from the first row, which starts flat
Held(scores) ==
    LET step(prev, u) == [s \in Symbols |-> NextPosition(prev[s], scores[u][s].score)]
    IN  FoldLeft(step, [s \in Symbols |-> Flat], InOrder(DOMAIN scores))

PositionRow(v, t) == Held([u \in UpTo(WindowRows(v), t) |-> OuRow(v, u)])

\* Each side shares half of the gross exposure equally; a book with one side
\* only goes flat.  The weight of a name is side / (2 * names), times gross.
DollarNeutralRow(position) ==
    LET side(p) == {s \in Symbols : position[s] = p}
        hedged  == side(Long) # {} /\ side(Short) # {}
    IN  [s \in Symbols |->
            IF hedged /\ position[s] # Flat
            THEN [side |-> position[s], names |-> Cardinality(side(position[s]))]
            ELSE [side |-> Flat, names |-> 0]]

\* Net, gross and counts come from the row; turnover also from the row before.
DiagnosticsRow(v, t) ==
    LET weights(u) == DollarNeutralRow(PositionRow(v, u))
        before     == {u \in WindowRows(v) : u < t}
    IN  [weights |-> weights(t),
         before  |-> IF before = {} THEN DollarNeutralRow([s \in Symbols |-> Flat])
                     ELSE weights(Greatest(before))]

\* The dates that get a weight file, each with the signal date of its book:
\* the row of one date goes to the file of a date ExecutionLag rows later.
WeightFiles(rows) ==
    LET at == InOrder(rows)
    IN  [d \in {at[i + ExecutionLag] : i \in 1..(Len(at) - ExecutionLag)} |->
            at[(CHOOSE i \in DOMAIN at : at[i] = d) - ExecutionLag]]
-----------------------------------------------------------------------------
(* baselines.py *)

\* Both signals are differences of a cumulative sum, so their first rows,
\* one more than the look-back needs, have no signal.
HasSignal(v, kind, t) ==
    HasFull({u \in ReturnRows(v) : u < t}, t,
            IF kind = "reversal" THEN ReversalLookback ELSE MomentumLookback)

SignalRows(v, kind, t) ==
    IF kind = "reversal" THEN Trailing(ReturnRows(v), t, ReversalLookback)
    ELSE Trailing(ReturnRows(v), t, MomentumLookback)
         \ Trailing(ReturnRows(v), t, MomentumSkip)

SignalOf(v, kind, s, t) ==
    Level(kind, s, [u \in SignalRows(v, kind, t) |-> Return(v, s, u)])

Ranked(signal) == SetToSortSeq(Symbols, LAMBDA a, b : signal[a] < signal[b])

\* The third with the highest signal is held long, the lowest third short.
SignalPosition(v, kind, t) ==
    LET n     == Cardinality(Symbols)
        k     == AtMost(AtLeast(1, (2 * n + 3) \div 6), n \div 2)
        order == Ranked([s \in Symbols |-> SignalOf(v, kind, s, t)])
    IN  [s \in Symbols |->
            IF ~HasSignal(v, kind, t) \/ n < 2 THEN Flat
            ELSE IF s \in {order[i] : i \in 1..k} THEN Short
            ELSE IF s \in {order[i] : i \in (n - k + 1)..n} THEN Long
            ELSE Flat]

\* generate_baseline: the signal's positions in the construction of signals.py
BaselineBook(v, kind, t) == DollarNeutralRow(SignalPosition(v, kind, t))

\* mutant: the book earns the return of the very next row
EarnsFromNextRow(rows, signalRows, t) ==
    LET at == InOrder(rows)
        i  == (CHOOSE i \in DOMAIN at : at[i] = t) - ExecutionLag
    IN  IF i >= 1 /\ at[i] \in signalRows THEN {at[i]} ELSE {}

\* paper_pnl: the signal row whose book earns the return of row t, if any.
\* The book is filed for ExecutionLag rows later and earns from the row after.
EarnsFrom(rows, signalRows, t) ==
    LET at == InOrder(rows)
        i  == (CHOOSE i \in DOMAIN at : at[i] = t) - (ExecutionLag + 1)
    IN  IF i >= 1 /\ at[i] \in signalRows THEN {at[i]} ELSE {}
-----------------------------------------------------------------------------
(* compare_allocators.py: weights estimated on the rows before position i  *)
(* earn the returns of rows i .. i + Hold - 1; a last part of a block has  *)
(* no book.                                                                *)

WalkForward(rows) ==
    LET at == InOrder(rows)
    IN  {[estimated |-> {at[j] : j \in (i - Lookback)..(i - 1)},
          held      |-> {at[j] : j \in i..(i + Hold - 1)}] :
            i \in {i \in (Lookback + 1)..(Len(at) + 1 - Hold) :
                      (i - Lookback - 1) % Hold = 0}}
=============================================================================
