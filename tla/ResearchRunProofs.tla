-------------------------- MODULE ResearchRunProofs --------------------------
(***************************************************************************)
(* No look-ahead, for every universe, history, revision of the data and    *)
(* parameter: each row of each file that the research programs write, and  *)
(* the book of each weight file, is what a run at the close of the row's   *)
(* own day would have written (THEOREM FilesReplayLive); a manifest is the *)
(* last of its files (ManifestsAreLast), and a paper book earns nothing    *)
(* before the session after the one it is first held in (PaperIsNotEarly). *)
(*                                                                         *)
(* An adjusted close does change when a corporate action is entered later. *)
(* The argument is that of a return the factors of all later actions       *)
(* cancel: those that remain have their ex-date between the bars it was    *)
(* computed from (LEMMA FactorsKnown).  The rest follows because windows   *)
(* trail, and because the days up to t come first in the order of all days *)
(* (LEMMA InOrderPrefix), so that a scan, a filter or a refit is on the    *)
(* same rows whether or not later ones are there.                          *)
(***************************************************************************)
EXTENDS ResearchRun, FiniteSetTheorems, WellFoundedInduction, TLAPS

\* Days and dates are numbered; any symbol may have any bars and actions.
Vintage(v) ==
    /\ v.bars \in [Symbols -> SUBSET Nat]
    /\ \A e \in v.actions : e.date \in Nat

\* A vintage ends on some day, as everything that is ever on disk does.
Published(v) ==
    /\ \E n \in Nat : v.bars \in [Symbols -> SUBSET (1..n)] /\ v.market \in SUBSET (1..n)
    /\ \A e \in v.actions : e.date \in Nat
------------------------------------------------------------------------------
\* A bounded set of days has a greatest one.
LEMMA GreatestOf ==
    ASSUME NEW S \in SUBSET Nat, S # {}, NEW t \in Nat, \A x \in S : x <= t
    PROVE  Greatest(S) \in S /\ \A y \in S : y <= Greatest(S)
<1> DEFINE T == {t - x : x \in S}
<1>1. T \subseteq Nat /\ T # {}
    <2>1. \A x \in S : t - x \in Nat
        OBVIOUS
    <2>2. \E x \in S : t - x \in T
        OBVIOUS
    <2> QED
        BY <2>1, <2>2
<1> DEFINE R == OpToRel(<, Nat)
<1>2. PICK m \in T : \A y \in T : <<y, m>> \notin R
    <2> HIDE DEF R, T
    <2>1. IsWellFoundedOn(R, Nat)
        BY NatLessThanWellFounded DEF R
    <2> QED
        BY <1>1, <2>1, WFMin
<1>3. PICK x \in S : m = t - x
    OBVIOUS
<1>4. \A y \in S : y <= x
    <2> SUFFICES ASSUME NEW y \in S PROVE y <= x
        OBVIOUS
    <2>1. t - y \in T /\ t - y \in Nat /\ m \in Nat
        BY <1>1
    <2>2. ~(t - y < m)
        BY <1>2, <2>1 DEF OpToRel
    <2> QED
        BY <1>3, <2>2
<1> QED
    BY <1>4 DEF Greatest

\* What a run at the close of day t finds on disk
LEMMA KnownBars ==
    ASSUME NEW v, Vintage(v), NEW t \in Nat
    PROVE  /\ Vintage(KnownBy(v, t))
           /\ \A s \in Symbols : KnownBy(v, t).bars[s] = UpTo(v.bars[s], t)
           /\ KnownBy(v, t).actions = {e \in v.actions : e.date <= t}
BY DEF Vintage, KnownBy, UpTo

\* The rows of the panel, of the returns and of the windows up to day t are
\* known at its close.
LEMMA KnownPanelRows ==
    ASSUME NEW v, Vintage(v), NEW t \in Nat
    PROVE  PanelRows(KnownBy(v, t)) = UpTo(PanelRows(v), t)
<1> DEFINE k == KnownBy(v, t)
<1>1. \A s \in Symbols : k.bars[s] = {d \in v.bars[s] : d <= t} /\ v.bars[s] \in SUBSET Nat
    BY KnownBars DEF UpTo, Vintage
<1> HIDE DEF k
<1>2. ASSUME NEW d
      PROVE  d \in PanelRows(k) <=> d \in PanelRows(v) /\ d <= t
    <2>1. d \in UNION {k.bars[s] : s \in Symbols}
          <=> d \in UNION {v.bars[s] : s \in Symbols} /\ d <= t
        BY <1>1
    <2>2. ASSUME d \in UNION {v.bars[s] : s \in Symbols}, d <= t, NEW s \in Symbols
          PROVE  (\E b \in k.bars[s] : b <= d) <=> (\E b \in v.bars[s] : b <= d)
        <3>1. d \in Nat
            BY <1>1, <2>2
        <3> QED
            BY <1>1, <2>2, <3>1
    <2> QED
        BY <2>1, <2>2 DEF PanelRows
<1> QED
    BY <1>2 DEF k, UpTo

\* The returns begin with the second row of the panel.
LEMMA RowsAreDays ==
    ASSUME NEW v, Vintage(v)
    PROVE  PanelRows(v) \subseteq Nat /\ ReturnRows(v) \subseteq PanelRows(v)
BY DEF PanelRows, ReturnRows, Vintage

LEMMA KnownReturnRows ==
    ASSUME NEW v, Vintage(v), NEW t \in Nat
    PROVE  ReturnRows(KnownBy(v, t)) = UpTo(ReturnRows(v), t)
BY KnownPanelRows, RowsAreDays DEF ReturnRows, UpTo
------------------------------------------------------------------------------
(* Returns *)

\* The bars of a return, and the row before it
LEMMA BarsOfReturn ==
    ASSUME NEW v, Vintage(v), NEW s \in Symbols, NEW d \in PanelRows(v)
    PROVE  /\ Greatest(UpTo(v.bars[s], d)) \in v.bars[s]
           /\ Greatest(UpTo(v.bars[s], d)) <= d
<1>1. v.bars[s] \in SUBSET Nat /\ d \in Nat
    BY RowsAreDays DEF Vintage
<1>2. UpTo(v.bars[s], d) \in SUBSET Nat /\ UpTo(v.bars[s], d) # {}
    BY <1>1 DEF UpTo, PanelRows
<1> QED
    BY <1>1, <1>2, GreatestOf DEF UpTo

\* A return has a row before it.
LEMMA RowBefore ==
    ASSUME NEW v, Vintage(v), NEW u \in ReturnRows(v)
    PROVE  /\ Greatest({d \in PanelRows(v) : d < u}) \in PanelRows(v)
           /\ Greatest({d \in PanelRows(v) : d < u}) < u
<1> DEFINE S == {d \in PanelRows(v) : d < u}
<1>1. S \in SUBSET Nat /\ S # {} /\ u \in Nat /\ \A x \in S : x <= u
    BY RowsAreDays DEF ReturnRows
<1>2. Greatest(S) \in S
    BY <1>1, GreatestOf
<1> QED
    BY <1>2

\* The bar that a panel row was filled from was known.
LEMMA KnownBar ==
    ASSUME NEW v, Vintage(v), NEW t \in Nat, NEW s \in Symbols, NEW d \in Nat, d <= t
    PROVE  UpTo(KnownBy(v, t).bars[s], d) = UpTo(v.bars[s], d)
BY KnownBars DEF UpTo, Vintage

\* Of the actions between the two bars of a return, ex-date and reference
\* close are known when the return is.
LEMMA FactorsKnown ==
    ASSUME NEW v, Vintage(v), NEW t \in Nat, NEW s \in Symbols,
           NEW b \in v.bars[s], NEW c \in v.bars[s], b <= c, c <= t
    PROVE  AdjustedClose(KnownBy(v, t), s, b).factors \ AdjustedClose(KnownBy(v, t), s, c).factors
           = AdjustedClose(v, s, b).factors \ AdjustedClose(v, s, c).factors
<1> DEFINE k == KnownBy(v, t)
           Between(w) == {Factor(w, e) : e \in {e \in AppliedActions(w, s) : b < e.date /\ e.date <= c}}
<1>1. b \in Nat /\ c \in Nat
    BY DEF Vintage
<1>2. ASSUME NEW w, Vintage(w)
      PROVE  AdjustedClose(w, s, b).factors \ AdjustedClose(w, s, c).factors = Between(w)
    <2>1. \A e, f : Factor(w, e) = Factor(w, f) => e = f
        <3> SUFFICES ASSUME NEW e, NEW f, Factor(w, e) = Factor(w, f) PROVE e = f
            OBVIOUS
        <3>1. Factor(w, e).action = e /\ Factor(w, f).action = f
            BY DEF Factor
        <3> QED
            BY <3>1
    <2>2. \A e \in AppliedActions(w, s) : e.date \in Nat
        BY <1>2 DEF AppliedActions, Vintage
    <2>3. \A d : AdjustedClose(w, s, d).factors
                 = {Factor(w, e) : e \in {e \in AppliedActions(w, s) : d < e.date}}
        BY DEF AdjustedClose
    <2> HIDE DEF k
    <2> QED
        BY <1>1, <2>1, <2>2, <2>3
<1>3. k.actions = {e \in v.actions : e.date <= t} /\ k.bars[s] = UpTo(v.bars[s], t) /\ Vintage(k)
    BY KnownBars
<1> HIDE DEF k
<1>4. \A e : e.date \in Nat /\ e.date <= c => RowsBeforeExDate(k.bars[s], e) = RowsBeforeExDate(v.bars[s], e)
    BY <1>1, <1>3 DEF RowsBeforeExDate, UpTo, Vintage
<1>5. {e \in AppliedActions(k, s) : b < e.date /\ e.date <= c}
      = {e \in AppliedActions(v, s) : b < e.date /\ e.date <= c}
    BY <1>1, <1>3, <1>4 DEF AppliedActions, Vintage
<1>6. \A e \in AppliedActions(v, s) : e.date <= c => Factor(k, e) = Factor(v, e)
    <2> SUFFICES ASSUME NEW e \in AppliedActions(v, s), e.date <= c PROVE Factor(k, e) = Factor(v, e)
        OBVIOUS
    <2>1. e.symbol = s /\ e.date \in Nat
        BY DEF AppliedActions, Vintage
    <2> QED
        BY <1>4, <2>1 DEF Factor
<1>7. Between(k) = Between(v)
    BY <1>5, <1>6
<1> QED
    BY <1>2, <1>3, <1>7 DEF k
\* What makes a return of day u is known at its close.
LEMMA ReturnKnown ==
    ASSUME NEW v, Vintage(v), NEW t \in Nat, NEW u \in ReturnRows(v), u <= t, NEW s \in Symbols
    PROVE  Return(KnownBy(v, t), s, u) = Return(v, s, u)
<1> DEFINE k    == KnownBy(v, t)
           last == Greatest({d \in PanelRows(v) : d < u})
           b    == Greatest(UpTo(v.bars[s], last))
           c    == Greatest(UpTo(v.bars[s], u))
<1>1. /\ u \in PanelRows(v) /\ u \in Nat
      /\ last \in PanelRows(v) /\ last \in Nat /\ last < u
    BY RowsAreDays, RowBefore
<1>2. {d \in PanelRows(k) : d < u} = {d \in PanelRows(v) : d < u}
    <2> HIDE DEF last
    <2> QED
        BY <1>1, KnownPanelRows, RowsAreDays DEF UpTo
<1>3. b \in v.bars[s] /\ b <= last /\ c \in v.bars[s] /\ c <= u
    BY <1>1, BarsOfReturn
<1>4. b <= c /\ c <= t
    <2>1. v.bars[s] \in SUBSET Nat
        BY DEF Vintage
    <2>2. UpTo(v.bars[s], u) \in SUBSET Nat /\ b \in UpTo(v.bars[s], u)
        BY <1>1, <1>3, <2>1 DEF UpTo
    <2>3. b <= c
        BY <1>1, <2>2, GreatestOf DEF UpTo
    <2> HIDE DEF b, c, last
    <2> QED
        BY <1>1, <1>3, <2>1, <2>3
<1>5. UpTo(k.bars[s], last) = UpTo(v.bars[s], last) /\ UpTo(k.bars[s], u) = UpTo(v.bars[s], u)
    <2>1. last <= t
        BY <1>1
    <2> QED
        BY <1>1, <2>1, KnownBar
<1>6. /\ PanelClose(k, s, last) = AdjustedClose(k, s, b) /\ PanelClose(k, s, u) = AdjustedClose(k, s, c)
      /\ PanelClose(v, s, last) = AdjustedClose(v, s, b) /\ PanelClose(v, s, u) = AdjustedClose(v, s, c)
    BY <1>5 DEF PanelClose
<1> HIDE DEF b, c, last
<1>7. AdjustedClose(k, s, b).factors \ AdjustedClose(k, s, c).factors
      = AdjustedClose(v, s, b).factors \ AdjustedClose(v, s, c).factors
    BY <1>3, <1>4, FactorsKnown
<1>8. \A w, d : AdjustedClose(w, s, d).bar = d
    BY DEF AdjustedClose
<1> HIDE DEF k
<1>9. /\ Return(k, s, u)
          = [from |-> b, to |-> c,
             factors |-> AdjustedClose(k, s, b).factors \ AdjustedClose(k, s, c).factors]
      /\ Return(v, s, u)
          = [from |-> b, to |-> c,
             factors |-> AdjustedClose(v, s, b).factors \ AdjustedClose(v, s, c).factors]
    BY <1>2, <1>6, <1>8 DEF Return, last
<1> QED
    BY <1>7, <1>9 DEF k
------------------------------------------------------------------------------
(* Windows *)

\* A trailing window has only rows up to its own day.
LEMMA KnownTrailing ==
    ASSUME NEW v, Vintage(v), NEW t \in Nat, NEW n
    PROVE  /\ Trailing(ReturnRows(KnownBy(v, t)), t, n) = Trailing(ReturnRows(v), t, n)
           /\ HasFull(ReturnRows(KnownBy(v, t)), t, n) <=> HasFull(ReturnRows(v), t, n)
           /\ Trailing(ReturnRows(v), t, n) \subseteq {u \in ReturnRows(v) : u <= t}
<1>1. UpTo(ReturnRows(KnownBy(v, t)), t) = UpTo(ReturnRows(v), t)
    BY KnownReturnRows DEF UpTo
<1> QED
    BY <1>1 DEF Trailing, HasFull, UpTo

\* The window that ends on a day is known at its close.
LEMMA WindowKnown ==
    ASSUME NEW v, Vintage(v), NEW t \in ReturnRows(v)
    PROVE  /\ t \in ReturnRows(KnownBy(v, t))
           /\ ReturnsRow(KnownBy(v, t), t) = ReturnsRow(v, t)
           /\ ReturnsWindow(KnownBy(v, t), t) = ReturnsWindow(v, t)
<1>1. t \in Nat
    BY RowsAreDays
<1>2. t \in ReturnRows(KnownBy(v, t))
    BY <1>1, KnownReturnRows DEF UpTo
<1>3. \A u \in ReturnRows(v) : u <= t => ReturnsRow(KnownBy(v, t), u) = ReturnsRow(v, u)
    BY <1>1, ReturnKnown DEF ReturnsRow
<1>4. ReturnsRow(KnownBy(v, t), t) = ReturnsRow(v, t)
    BY <1>1, <1>3
<1>5. ReturnsWindow(KnownBy(v, t), t) = ReturnsWindow(v, t)
    <2> DEFINE rows == Trailing(ReturnRows(v), t, Window)
    <2>1. rows \subseteq {u \in ReturnRows(v) : u <= t}
        BY <1>1, KnownTrailing
    <2>2. Trailing(ReturnRows(KnownBy(v, t)), t, Window) = rows
        BY <1>1, KnownTrailing
    <2> HIDE DEF rows
    <2>3. [u \in rows |-> ReturnsRow(KnownBy(v, t), u)] = [u \in rows |-> ReturnsRow(v, u)]
        BY <1>3, <2>1
    <2> QED
        BY <2>2, <2>3 DEF ReturnsWindow, rows
<1> QED
    BY <1>2, <1>4, <1>5

\* universe_returns and universe_standardized: the no-look-ahead contract in
\* the heading of build_universe.py.
THEOREM UniverseIsLive ==
    ASSUME NEW v, Vintage(v), NEW t
    PROVE  /\ t \in ReturnRows(v) =>
                  /\ t \in ReturnRows(KnownBy(v, t))
                  /\ ReturnsRow(KnownBy(v, t), t) = ReturnsRow(v, t)
           /\ t \in WindowRows(v) =>
                  /\ t \in WindowRows(KnownBy(v, t))
                  /\ StandardizedRow(KnownBy(v, t), t) = StandardizedRow(v, t)
<1>1. ASSUME t \in ReturnRows(v)
      PROVE  /\ t \in ReturnRows(KnownBy(v, t))
             /\ ReturnsRow(KnownBy(v, t), t) = ReturnsRow(v, t)
    BY <1>1, WindowKnown
<1>2. ASSUME t \in WindowRows(v)
      PROVE  /\ t \in WindowRows(KnownBy(v, t))
             /\ StandardizedRow(KnownBy(v, t), t) = StandardizedRow(v, t)
    <2>1. t \in ReturnRows(v) /\ t \in Nat
        BY <1>2, RowsAreDays DEF WindowRows
    <2>2. HasFull(ReturnRows(KnownBy(v, t)), t, Window) <=> HasFull(ReturnRows(v), t, Window)
        BY <2>1, KnownTrailing
    <2> QED
        BY <1>2, <2>1, <2>2, WindowKnown DEF WindowRows, StandardizedRow
<1> QED
    BY <1>1, <1>2

\* The rows of rolling_pca.py, residuals.py and ou_sscore.py: neither the
\* number of factors nor a fit nor a score depends on what came later.
THEOREM ScoresAreLive ==
    ASSUME NEW v, Vintage(v), NEW t \in WindowRows(v)
    PROVE  /\ PcaRow(KnownBy(v, t), t) = PcaRow(v, t)
           /\ ResidualRow(KnownBy(v, t), t) = ResidualRow(v, t)
           /\ OuRow(KnownBy(v, t), t) = OuRow(v, t)
<1>1. t \in ReturnRows(v)
    BY DEF WindowRows
<1>2. PcaRow(KnownBy(v, t), t) = PcaRow(v, t)
    BY <1>1, WindowKnown DEF PcaRow
<1>3. ResidualRow(KnownBy(v, t), t) = ResidualRow(v, t)
    BY <1>2 DEF ResidualRow
<1>4. OuRow(KnownBy(v, t), t) = OuRow(v, t)
    BY <1>3 DEF OuRow
<1> QED
    BY <1>2, <1>3, <1>4
------------------------------------------------------------------------------
(* Days in order *)

\* How many rows come before x
Rank(S, x) == Cardinality({y \in S : y < x})

\* The ranks of n days are 0 .. n - 1, each taken once.
LEMMA Ranks ==
    ASSUME NEW S \in SUBSET Nat, IsFiniteSet(S)
    PROVE  /\ Cardinality(S) \in Nat
           /\ \A x \in S : Rank(S, x) \in 0..(Cardinality(S) - 1)
           /\ \A x, y \in S : x < y => Rank(S, x) < Rank(S, y)
           /\ \A i \in 1..Cardinality(S) : \E x \in S : Rank(S, x) = i - 1
<1> DEFINE n == Cardinality(S)
           Before(x) == {y \in S : y < x}
<1>1. n \in Nat
    BY FS_CardinalityType
<1>2. \A x : IsFiniteSet(Before(x)) /\ Cardinality(Before(x)) \in Nat
    BY FS_Subset, FS_CardinalityType
<1>3. ASSUME NEW x \in S
      PROVE  Rank(S, x) \in 0..(n - 1)
    <2>1. Before(x) \in SUBSET S /\ Before(x) # S
        OBVIOUS
    <2>2. Cardinality(Before(x)) <= n /\ Cardinality(Before(x)) # n
        BY <2>1, FS_Subset
    <2> QED
        BY <1>1, <1>2, <2>2 DEF Rank
<1>4. ASSUME NEW x \in S, NEW y \in S, x < y
      PROVE  Rank(S, x) < Rank(S, y)
    <2>1. Before(x) \in SUBSET Before(y) /\ Before(x) # Before(y)
        <3>1. x \in Before(y) /\ x \notin Before(x)
            BY <1>4
        <3>2. \A z \in S : z < x => z < y
            BY <1>4
        <3> QED
            BY <3>1, <3>2
    <2>2. Cardinality(Before(x)) <= Cardinality(Before(y)) /\ Cardinality(Before(x)) # Cardinality(Before(y))
        BY <1>2, <2>1, FS_Subset
    <2> QED
        BY <1>2, <2>2 DEF Rank
<1>5. ASSUME NEW i \in 1..n
      PROVE  \E x \in S : Rank(S, x) = i - 1
    <2> DEFINE rank == [x \in S |-> Rank(S, x)]
    <2>1. rank \in Injection(S, 0..(n - 1))
        <3>1. rank \in [S -> 0..(n - 1)]
            BY <1>3
        <3>2. \A x, y \in S : rank[x] = rank[y] => x = y
            <4> SUFFICES ASSUME NEW x \in S, NEW y \in S, rank[x] = rank[y], x # y PROVE FALSE
                OBVIOUS
            <4>1. x < y \/ y < x
                OBVIOUS
            <4>2. rank[x] \in Nat /\ rank[y] \in Nat /\ rank[x] = Rank(S, x) /\ rank[y] = Rank(S, y)
                BY <1>1, <3>1
            <4> QED
                BY <1>4, <4>1, <4>2
        <3> QED
            BY <3>1, <3>2 DEF Injection, IsInjective
    <2>2. IsFiniteSet(0..(n - 1)) /\ Cardinality(0..(n - 1)) = n
        <3>1. 0 \in Int /\ n - 1 \in Int /\ (n - 1) - 0 + 1 = n /\ (0 > n - 1 => n = 0)
            BY <1>1
        <3> HIDE DEF n
        <3> QED
            BY <3>1, FS_Interval
    <2>3. rank \in Surjection(S, 0..(n - 1))
        BY <2>1, <2>2, FS_Injection
    <2>4. i - 1 \in 0..(n - 1)
        BY <1>1
    <2> QED
        BY <2>3, <2>4 DEF Surjection
<1> QED
    BY <1>1, <1>3, <1>4, <1>5

\* InOrder lists a finite set of days once each, in order.
LEMMA InOrderLists ==
    ASSUME NEW S \in SUBSET Nat, IsFiniteSet(S)
    PROVE  /\ Cardinality(S) \in Nat
           /\ InOrder(S) \in Seq(S) /\ Len(InOrder(S)) = Cardinality(S)
           /\ DOMAIN InOrder(S) = 1..Cardinality(S)
           /\ \A i \in 1..Cardinality(S) :
                  InOrder(S)[i] \in S /\ Rank(S, InOrder(S)[i]) = i - 1
           /\ \A i, j \in 1..Cardinality(S) : i < j => InOrder(S)[i] < InOrder(S)[j]
           /\ \A x \in S : /\ Rank(S, x) + 1 \in 1..Cardinality(S)
                             /\ InOrder(S)[Rank(S, x) + 1] = x
<1> DEFINE n == Cardinality(S)
           at == InOrder(S)
<1> USE Ranks
<1>1. n \in Nat
    OBVIOUS
<1>2. at = [i \in 1..n |-> CHOOSE x \in S : Rank(S, x) = i - 1]
    BY DEF InOrder, Rank
<1>3. ASSUME NEW i \in 1..n
      PROVE  at[i] \in S /\ Rank(S, at[i]) = i - 1
    BY <1>2, <1>3
<1>4. at \in Seq(S) /\ Len(at) = n /\ DOMAIN at = 1..n
    <2>1. at \in [1..n -> S]
        BY <1>2, <1>3
    <2> HIDE DEF at, n
    <2> QED
        BY <1>1, <2>1
<1>5. ASSUME NEW x \in S, NEW y \in S, Rank(S, x) = Rank(S, y)
      PROVE  x = y
    <2>1. x < y \/ y < x \/ x = y
        OBVIOUS
    <2>2. Rank(S, x) \in Nat /\ Rank(S, y) \in Nat
        BY <1>1
    <2> QED
        BY <1>5, <2>1, <2>2
<1>6. ASSUME NEW i \in 1..n, NEW j \in 1..n, i < j
      PROVE  at[i] < at[j]
    <2>1. at[i] \in S /\ at[j] \in S /\ Rank(S, at[i]) = i - 1 /\ Rank(S, at[j]) = j - 1
        BY <1>3
    <2>2. \A x, y \in S : x < y \/ x = y \/ y < x
        OBVIOUS
    <2>3. i \in Int /\ j \in Int
        BY <1>1
    <2> HIDE DEF at, n
    <2>4. ~(Rank(S, at[j]) < Rank(S, at[i])) /\ Rank(S, at[i]) # Rank(S, at[j])
        BY <1>6, <2>1, <2>3
    <2> QED
        BY <2>1, <2>2, <2>4
<1>7. ASSUME NEW x \in S
      PROVE  Rank(S, x) + 1 \in 1..n /\ at[Rank(S, x) + 1] = x
    <2>1. Rank(S, x) + 1 \in 1..n /\ (Rank(S, x) + 1) - 1 = Rank(S, x)
        BY <1>1
    <2>2. at[Rank(S, x) + 1] \in S /\ Rank(S, at[Rank(S, x) + 1]) = Rank(S, x)
        BY <1>3, <2>1
    <2> QED
        BY <1>5, <2>1, <2>2
<1> QED
    BY <1>1, <1>3, <1>4, <1>6, <1>7

\* The days up to t are finitely many too.
LEMMA UpToIsFinite ==
    ASSUME NEW S \in SUBSET Nat, IsFiniteSet(S), NEW t \in Nat
    PROVE  UpTo(S, t) \in SUBSET Nat /\ IsFiniteSet(UpTo(S, t)) /\ UpTo(S, t) \subseteq S
<1>1. UpTo(S, t) \in SUBSET S
    BY DEF UpTo
<1> QED
    BY <1>1, FS_Subset

\* The position of a day in order
LEMMA PlaceInOrder ==
    ASSUME NEW S \in SUBSET Nat, IsFiniteSet(S), NEW x \in S
    PROVE  (CHOOSE i \in DOMAIN InOrder(S) : InOrder(S)[i] = x) = Rank(S, x) + 1
<1> DEFINE k == CHOOSE i \in DOMAIN InOrder(S) : InOrder(S)[i] = x
<1>1. k \in 1..Cardinality(S) /\ InOrder(S)[k] = x
    BY InOrderLists
<1>2. Rank(S, x) = k - 1
    BY <1>1, InOrderLists
<1> QED
    BY <1>1, <1>2, InOrderLists

\* The days up to one of them come first.
LEMMA InOrderPrefix ==
    ASSUME NEW S \in SUBSET Nat, IsFiniteSet(S), NEW t \in Nat
    PROVE  /\ Cardinality(UpTo(S, t)) \in 0..Cardinality(S)
           /\ \A i \in 1..Cardinality(UpTo(S, t)) : InOrder(UpTo(S, t))[i] = InOrder(S)[i]
           /\ \A x \in UpTo(S, t) : Rank(UpTo(S, t), x) = Rank(S, x)
<1> DEFINE T == UpTo(S, t)
<1>1. T \in SUBSET Nat /\ IsFiniteSet(T) /\ T \subseteq S
    BY UpToIsFinite
<1>2. ASSUME NEW x \in T
      PROVE  Rank(T, x) = Rank(S, x)
    <2>1. x \in Nat /\ x <= t
        BY <1>1 DEF UpTo
    <2>2. \A y \in S : y < x => y <= t
        BY <2>1
    <2>3. {y \in T : y < x} = {y \in S : y < x}
        BY <2>2 DEF UpTo
    <2> QED
        BY <2>3 DEF Rank
<1>3. Cardinality(T) \in 0..Cardinality(S)
    BY <1>1, FS_Subset, FS_CardinalityType
<1>4. ASSUME NEW i \in 1..Cardinality(T)
      PROVE  InOrder(T)[i] = InOrder(S)[i]
    <2> HIDE DEF T
    <2>1. InOrder(T)[i] \in T /\ Rank(T, InOrder(T)[i]) = i - 1
        BY <1>1, InOrderLists
    <2>2. InOrder(T)[i] \in S /\ Rank(S, InOrder(T)[i]) = i - 1
        BY <1>1, <1>2, <2>1
    <2>3. InOrder(S)[Rank(S, InOrder(T)[i]) + 1] = InOrder(T)[i]
        BY <2>2, InOrderLists
    <2>4. i = (i - 1) + 1
        BY <1>1, InOrderLists
    <2> QED
        BY <2>2, <2>3, <2>4
<1> QED
    BY <1>2, <1>3, <1>4
------------------------------------------------------------------------------
(* Signals and baselines *)

\* The rows of every file are finitely many days.
LEMMA RowsAreFinite ==
    ASSUME NEW v, Published(v)
    PROVE  /\ Vintage(v)
           /\ v.market \in SUBSET Nat /\ IsFiniteSet(v.market)
           /\ ReturnRows(v) \in SUBSET Nat /\ IsFiniteSet(ReturnRows(v))
           /\ WindowRows(v) \in SUBSET Nat /\ IsFiniteSet(WindowRows(v))
           /\ WindowRows(v) \subseteq ReturnRows(v)
<1>1. PICK n \in Nat : v.bars \in [Symbols -> SUBSET (1..n)] /\ v.market \in SUBSET (1..n)
    BY DEF Published
<1>2. 1..n \subseteq Nat /\ IsFiniteSet(1..n)
    BY FS_Interval
<1>3. Vintage(v)
    BY <1>1, <1>2 DEF Vintage, Published
<1>4. WindowRows(v) \subseteq ReturnRows(v) /\ ReturnRows(v) \subseteq PanelRows(v)
    BY DEF WindowRows, ReturnRows
<1>5. PanelRows(v) \subseteq 1..n
    BY <1>1 DEF PanelRows
<1>6. ReturnRows(v) \subseteq 1..n /\ WindowRows(v) \subseteq 1..n
    BY <1>4, <1>5
<1> QED
    BY <1>1, <1>2, <1>3, <1>4, <1>6, FS_Subset

\* What a run at the close of day t had found is known to any later run.
LEMMA KnownAgain ==
    ASSUME NEW v, Vintage(v), v.market \in SUBSET Nat, NEW t \in Nat, NEW u \in Nat, u <= t
    PROVE  KnownBy(KnownBy(v, t), u) = KnownBy(v, u)
<1>1. ASSUME NEW S \in SUBSET Nat
      PROVE  UpTo(UpTo(S, t), u) = UpTo(S, u)
    <2>1. \A x \in S : x <= u => x <= t
        OBVIOUS
    <2> QED
        BY <2>1 DEF UpTo
<1>2. \A s \in Symbols : v.bars[s] \in SUBSET Nat
    BY DEF Vintage
<1>3. {e \in {e \in v.actions : e.date <= t} : e.date <= u} = {e \in v.actions : e.date <= u}
    BY DEF Vintage
<1> QED
    BY <1>1, <1>2, <1>3 DEF KnownBy

\* The rows with a full window up to day t are known at its close.
LEMMA KnownWindowRows ==
    ASSUME NEW v, Vintage(v), NEW t \in Nat
    PROVE  WindowRows(KnownBy(v, t)) = UpTo(WindowRows(v), t)
<1> DEFINE k == KnownBy(v, t)
<1>1. ReturnRows(k) = UpTo(ReturnRows(v), t) /\ ReturnRows(v) \subseteq Nat
    BY KnownReturnRows, RowsAreDays
<1>2. \A u \in Nat : u <= t => UpTo(ReturnRows(k), u) = UpTo(ReturnRows(v), u)
    BY <1>1 DEF UpTo
<1> HIDE DEF k
<1>3. \A u : u \in UpTo(ReturnRows(v), t) => u \in Nat /\ u <= t
    BY <1>1 DEF UpTo
<1>4. \A u \in UpTo(ReturnRows(v), t) :
          HasFull(ReturnRows(k), u, Window) <=> HasFull(ReturnRows(v), u, Window)
    BY <1>2, <1>3 DEF HasFull
<1>5. WindowRows(k) = {u \in UpTo(ReturnRows(v), t) : HasFull(ReturnRows(v), u, Window)}
    BY <1>1, <1>4 DEF WindowRows
<1> QED
    BY <1>5 DEF WindowRows, UpTo, k

\* The scores of all earlier days too
LEMMA ScoresKnown ==
    ASSUME NEW v, Vintage(v), v.market \in SUBSET Nat, NEW t \in Nat,
           NEW u \in WindowRows(v), u <= t
    PROVE  OuRow(KnownBy(v, t), u) = OuRow(v, u)
<1>1. u \in Nat
    BY RowsAreDays DEF WindowRows
<1>2. Vintage(KnownBy(v, t))
    BY KnownBars
<1>3. u \in WindowRows(KnownBy(v, t))
    BY <1>1, KnownWindowRows DEF UpTo
<1>4. OuRow(KnownBy(KnownBy(v, t), u), u) = OuRow(KnownBy(v, t), u)
    BY <1>2, <1>3, ScoresAreLive
<1> QED
    BY <1>1, <1>4, KnownAgain, ScoresAreLive

\* The scan of the scores up to a day has seen no later one.
LEMMA PositionsKnown ==
    ASSUME NEW v, Vintage(v), v.market \in SUBSET Nat, NEW t \in Nat, NEW u \in Nat, u <= t
    PROVE  PositionRow(KnownBy(v, t), u) = PositionRow(v, u)
<1> DEFINE rows == UpTo(WindowRows(v), u)
<1>1. WindowRows(v) \subseteq Nat
    BY RowsAreDays DEF WindowRows
<1>2. UpTo(WindowRows(KnownBy(v, t)), u) = rows
    BY <1>1, KnownWindowRows DEF UpTo
<1>3. \A w \in rows : w \in WindowRows(v) /\ w <= t
    BY <1>1 DEF UpTo
<1> HIDE DEF rows
<1>4. [w \in rows |-> OuRow(KnownBy(v, t), w)] = [w \in rows |-> OuRow(v, w)]
    BY <1>3, ScoresKnown
<1> QED
    BY <1>2, <1>4 DEF PositionRow, rows

\* signals.py: the hysteresis scan has seen the same scores, the book and its
\* turnover are of the same positions.
THEOREM SignalsAreLive ==
    ASSUME NEW v, Published(v), NEW t \in WindowRows(v)
    PROVE  /\ t \in WindowRows(KnownBy(v, t))
           /\ PositionRow(KnownBy(v, t), t) = PositionRow(v, t)
           /\ DiagnosticsRow(KnownBy(v, t), t) = DiagnosticsRow(v, t)
<1> DEFINE k == KnownBy(v, t)
           before == {u \in WindowRows(v) : u < t}
<1>1. Vintage(v) /\ v.market \in SUBSET Nat /\ WindowRows(v) \in SUBSET Nat /\ t \in Nat
    BY RowsAreFinite
<1>2. WindowRows(k) = UpTo(WindowRows(v), t)
    BY <1>1, KnownWindowRows
<1>3. t \in WindowRows(k) /\ {u \in WindowRows(k) : u < t} = before
    BY <1>1, <1>2 DEF UpTo
<1>4. \A u \in Nat : u <= t => PositionRow(k, u) = PositionRow(v, u)
    BY <1>1, PositionsKnown
<1>5. ASSUME before # {}
      PROVE  Greatest(before) \in Nat /\ Greatest(before) <= t
    <2>1. before \in SUBSET Nat /\ \A x \in before : x <= t
        BY <1>1
    <2>2. Greatest(before) \in before
        BY <1>1, <1>5, <2>1, GreatestOf
    <2> QED
        BY <2>1, <2>2
<1> HIDE DEF k, before
<1>6. PositionRow(k, t) = PositionRow(v, t)
    BY <1>1, <1>4
<1>7. before # {} => PositionRow(k, Greatest(before)) = PositionRow(v, Greatest(before))
    BY <1>4, <1>5
<1>8. DiagnosticsRow(k, t) = DiagnosticsRow(v, t)
    BY <1>3, <1>6, <1>7 DEF DiagnosticsRow, before
<1> QED
    BY <1>3, <1>6, <1>8 DEF k

\* baselines.py
THEOREM BaselinesAreLive ==
    ASSUME NEW v, Vintage(v), NEW t \in ReturnRows(v), NEW kind
    PROVE  /\ SignalPosition(KnownBy(v, t), kind, t) = SignalPosition(v, kind, t)
           /\ BaselineBook(KnownBy(v, t), kind, t) = BaselineBook(v, kind, t)
<1> DEFINE k == KnownBy(v, t)
<1>1. t \in Nat
    BY RowsAreDays
<1>2. ReturnRows(k) = UpTo(ReturnRows(v), t) /\ ReturnRows(v) \subseteq Nat
    BY <1>1, KnownReturnRows, RowsAreDays
<1>3. {u \in ReturnRows(k) : u < t} = {u \in ReturnRows(v) : u < t}
    BY <1>1, <1>2 DEF UpTo
<1>4. HasSignal(k, kind, t) = HasSignal(v, kind, t)
    <2> HIDE DEF k
    <2> QED
        BY <1>3 DEF HasSignal
<1>5. \A n : Trailing(ReturnRows(k), t, n) = Trailing(ReturnRows(v), t, n)
             /\ Trailing(ReturnRows(v), t, n) \subseteq {u \in ReturnRows(v) : u <= t}
    BY <1>1, KnownTrailing
<1>6. \A s \in Symbols : \A u \in ReturnRows(v) : u <= t => Return(k, s, u) = Return(v, s, u)
    BY <1>1, ReturnKnown
<1> HIDE DEF k
<1>7. /\ SignalRows(k, kind, t) = SignalRows(v, kind, t)
      /\ SignalRows(v, kind, t) \subseteq {u \in ReturnRows(v) : u <= t}
    BY <1>5 DEF SignalRows
<1>8. ASSUME NEW s \in Symbols
      PROVE  SignalOf(k, kind, s, t) = SignalOf(v, kind, s, t)
    <2> DEFINE rows == SignalRows(v, kind, t)
    <2>1. \A u \in rows : Return(k, s, u) = Return(v, s, u)
        BY <1>6, <1>7
    <2> HIDE DEF rows
    <2>2. [u \in rows |-> Return(k, s, u)] = [u \in rows |-> Return(v, s, u)]
        BY <2>1
    <2> QED
        BY <1>7, <2>2 DEF SignalOf, rows
<1>9. [s \in Symbols |-> SignalOf(k, kind, s, t)] = [s \in Symbols |-> SignalOf(v, kind, s, t)]
    BY <1>8
<1>10. SignalPosition(k, kind, t) = SignalPosition(v, kind, t)
    BY <1>4, <1>9 DEF SignalPosition
<1> QED
    BY <1>10 DEF BaselineBook, k
------------------------------------------------------------------------------
(* The regime classifier *)

\* A feature row reads market bars up to its own day.
LEMMA FeaturesKnown ==
    ASSUME NEW v, v.market \in SUBSET Nat, NEW t \in Nat
    PROVE  /\ FeatureRows(KnownBy(v, t)) = UpTo(FeatureRows(v), t)
           /\ \A u \in Nat : u <= t => FeatureRow(KnownBy(v, t), u) = FeatureRow(v, u)
<1> DEFINE k == KnownBy(v, t)
<1>1. k.market = UpTo(v.market, t)
    BY DEF KnownBy
<1> HIDE DEF k
<1>2. ASSUME NEW u \in Nat, u <= t
      PROVE  UpTo(k.market, u) = UpTo(v.market, u)
    <2>1. \A x \in v.market : x <= u => x <= t
        BY <1>2
    <2> QED
        BY <1>1, <2>1 DEF UpTo
<1>3. \A u \in Nat : u <= t => FeatureRow(k, u) = FeatureRow(v, u)
    BY <1>2 DEF FeatureRow, Trailing
<1>4. \A u \in Nat : u <= t =>
          (HasFull(k.market, u, FeatureSpan) <=> HasFull(v.market, u, FeatureSpan))
    BY <1>2 DEF HasFull
<1>5. \A u \in UpTo(v.market, t) : u \in Nat /\ u <= t
    BY DEF UpTo
<1>6. FeatureRows(k) = {u \in UpTo(v.market, t) : HasFull(v.market, u, FeatureSpan)}
    BY <1>1, <1>4, <1>5 DEF FeatureRows
<1> QED
    BY <1>3, <1>6 DEF FeatureRows, UpTo, k

\* The feature rows are finitely many days.
LEMMA FeatureRowsAreFinite ==
    ASSUME NEW v, v.market \in SUBSET Nat, IsFiniteSet(v.market)
    PROVE  FeatureRows(v) \in SUBSET Nat /\ IsFiniteSet(FeatureRows(v))
BY FS_Subset DEF FeatureRows

\* The model of a row was fitted on rows up to it.
LEMMA RefitBefore ==
    ASSUME NEW i \in Nat, i >= Warmup
    PROVE  /\ Warmup + RefitEvery * ((i - Warmup) \div RefitEvery) \in Nat
           /\ Warmup + RefitEvery * ((i - Warmup) \div RefitEvery) <= i
<1> DEFINE m == i - Warmup
           q == m \div RefitEvery
<1>1. Warmup \in Nat \ {0} /\ RefitEvery \in Nat \ {0} /\ m \in Nat
    BY RegimeAssumption
<1>2. q \in Nat /\ RefitEvery * q <= m
    <2>1. ASSUME NEW a \in Nat, NEW b \in Nat \ {0}
          PROVE  a \div b \in Nat /\ b * (a \div b) <= a
        BY <2>1, SMTT(30)
    <2> HIDE DEF m
    <2> QED
        BY <1>1, <2>1
<1>3. RefitEvery * q \in Nat
    <2>1. ASSUME NEW a \in Nat, NEW b \in Nat PROVE a * b \in Nat
        BY <2>1
    <2> HIDE DEF q
    <2> QED
        BY <1>1, <1>2, <2>1
<1> QED
    <2> DEFINE r == RefitEvery * q
    <2> HIDE DEF r
    <2>1. r \in Nat /\ r <= i - Warmup
        BY <1>2, <1>3 DEF r
    <2> QED
        BY <1>1, <2>1 DEF r

\* The regime of every day up to t is known at the close of t.
LEMMA StatesKnown ==
    ASSUME NEW v, v.market \in SUBSET Nat, IsFiniteSet(v.market), NEW t \in Nat
    PROVE  /\ StateRows(KnownBy(v, t)) = UpTo(StateRows(v), t)
           /\ StateRows(v) \subseteq FeatureRows(v)
           /\ \A u \in StateRows(v) : u <= t => RegimeState(KnownBy(v, t), u) = RegimeState(v, u)
<1> DEFINE k  == KnownBy(v, t)
           F  == FeatureRows(v)
           G  == UpTo(F, t)
           at == InOrder(F)
           nF == Cardinality(F)
           nG == Cardinality(G)
<1>1. F \in SUBSET Nat /\ IsFiniteSet(F)
    BY FeatureRowsAreFinite
<1>2. G \in SUBSET Nat /\ IsFiniteSet(G) /\ G \subseteq F
    BY <1>1, UpToIsFinite
<1>3. FeatureRows(k) = G
    BY FeaturesKnown
<1>4. /\ nF \in Nat /\ nG \in 0..nF
      /\ Len(at) = nF /\ DOMAIN at = 1..nF
      /\ Len(InOrder(G)) = nG /\ DOMAIN InOrder(G) = 1..nG
    BY <1>1, <1>2, InOrderLists, InOrderPrefix
<1>5. /\ \A i \in 1..nG : InOrder(G)[i] = at[i]
      /\ \A x \in G : Rank(G, x) = Rank(F, x)
    BY <1>1, InOrderPrefix
<1>6. \A x \in F : Rank(F, x) + 1 \in 1..nF /\ at[Rank(F, x) + 1] = x
    BY <1>1, InOrderLists
<1>7. \A x \in G : Rank(F, x) + 1 \in 1..nG
    BY <1>2, <1>5, InOrderLists
<1>8. \A i \in 1..nF : at[i] \in F /\ Rank(F, at[i]) = i - 1
    BY <1>1, InOrderLists
<1>9. \A x \in G : x \in F /\ x <= t
    BY DEF UpTo
<1>10. Warmup \in Nat \ {0}
    BY RegimeAssumption
<1>11. \A x \in F : x \in Nat /\ (x <= t => x \in G)
    BY <1>1 DEF UpTo
<1>12. /\ StateRows(v) = {at[i] : i \in Warmup..nF}
       /\ StateRows(k) = {InOrder(G)[i] : i \in Warmup..nG}
    BY <1>3, <1>4 DEF StateRows
<1>13. \A u : u \in StateRows(v) <=> u \in F /\ Rank(F, u) + 1 >= Warmup
    <2> HIDE DEF F, at, nF
    <2>1. ASSUME NEW u \in StateRows(v)
          PROVE  u \in F /\ Rank(F, u) + 1 >= Warmup
        <3>1. PICK i \in Warmup..nF : u = at[i]
            BY <1>12
        <3>2. i \in 1..nF /\ i >= Warmup /\ (i - 1) + 1 = i
            BY <1>4, <1>10
        <3> QED
            BY <1>8, <3>1, <3>2
    <2>2. ASSUME NEW u \in F, Rank(F, u) + 1 >= Warmup
          PROVE  u \in StateRows(v)
        <3>1. Rank(F, u) + 1 \in Warmup..nF
            BY <1>4, <1>6, <1>10, <2>2
        <3> QED
            BY <1>6, <1>12, <3>1
    <2> QED
        BY <2>1, <2>2
<1>14. \A u : u \in StateRows(k) <=> u \in G /\ Rank(F, u) + 1 >= Warmup
    <2> HIDE DEF F, G, at, nF, nG, k
    <2>1. ASSUME NEW u \in StateRows(k)
          PROVE  u \in G /\ Rank(F, u) + 1 >= Warmup
        <3>1. PICK i \in Warmup..nG : u = InOrder(G)[i]
            BY <1>12
        <3>2. i \in 1..nG /\ i \in 1..nF /\ i >= Warmup /\ (i - 1) + 1 = i
            BY <1>4, <1>10
        <3>3. u = at[i] /\ Rank(F, u) = i - 1
            BY <1>5, <1>8, <3>1, <3>2
        <3>4. InOrder(G)[i] \in G
            BY <1>2, <3>2, InOrderLists DEF nG
        <3> QED
            BY <3>1, <3>2, <3>3, <3>4
    <2>2. ASSUME NEW u \in G, Rank(F, u) + 1 >= Warmup
          PROVE  u \in StateRows(k)
        <3>1. Rank(F, u) + 1 \in Warmup..nG
            BY <1>4, <1>7, <1>10, <2>2
        <3>2. InOrder(G)[Rank(F, u) + 1] = u
            BY <1>5, <1>6, <1>7, <1>9
        <3> QED
            BY <1>12, <3>1, <3>2
    <2> QED
        BY <2>1, <2>2
<1>15. StateRows(k) = UpTo(StateRows(v), t)
    <2> HIDE DEF F, G, k
    <2> QED
        BY <1>9, <1>11, <1>13, <1>14 DEF UpTo
<1>16. ASSUME NEW u \in StateRows(v), u <= t
       PROVE  RegimeState(k, u) = RegimeState(v, u)
    <2> DEFINE i   == Rank(F, u) + 1
               fit == Warmup + RefitEvery * ((i - Warmup) \div RefitEvery)
    <2>1. u \in F /\ u \in G /\ i >= Warmup /\ i \in 1..nG
        <3> HIDE DEF F, G
        <3> QED
            BY <1>7, <1>11, <1>13, <1>16
    <2>2. fit \in Nat /\ fit <= i
        <3>1. i \in Nat
            BY <1>4, <2>1
        <3> HIDE DEF i
        <3> QED
            BY <2>1, <3>1, RefitBefore
    <2>3. (CHOOSE j \in DOMAIN at : at[j] = u) = i
        BY <1>1, <2>1, PlaceInOrder
    <2>4. (CHOOSE j \in DOMAIN InOrder(G) : InOrder(G)[j] = u) = i
        BY <1>2, <1>5, <2>1, PlaceInOrder
    <2> HIDE DEF F, G, nF, nG, k, at, i
    <2>5. \A j \in 1..i : /\ j \in 1..nG /\ j \in 1..nF
                          /\ InOrder(G)[j] = at[j] /\ at[j] \in Nat /\ at[j] <= t
        <3> SUFFICES ASSUME NEW j \in 1..i
                     PROVE /\ j \in 1..nG /\ j \in 1..nF
                           /\ InOrder(G)[j] = at[j] /\ at[j] \in Nat /\ at[j] <= t
            OBVIOUS
        <3>1. j \in 1..nG /\ j \in 1..nF
            BY <1>4, <2>1
        <3>2. InOrder(G)[j] \in G
            BY <1>2, <3>1, InOrderLists DEF nG
        <3> QED
            BY <1>5, <1>8, <1>9, <1>11, <3>1, <3>2
    <2>6. \A j \in 1..i : FeatureRow(k, InOrder(G)[j]) = FeatureRow(v, at[j])
        BY <2>5, FeaturesKnown DEF k
    <2> HIDE DEF fit
    <2>7. /\ [j \in 1..i |-> FeatureRow(k, InOrder(G)[j])] = [j \in 1..i |-> FeatureRow(v, at[j])]
          /\ [j \in 1..fit |-> FeatureRow(k, InOrder(G)[j])]
             = [j \in 1..fit |-> FeatureRow(v, at[j])]
        <3>1. \A j \in 1..fit : j \in 1..i
            BY <1>4, <2>1, <2>2
        <3> QED
            BY <2>6, <3>1
    <2>8. RegimeState(k, u)
          = HmmFilter([j \in 1..fit |-> FeatureRow(k, InOrder(G)[j])],
                      [j \in 1..i |-> FeatureRow(k, InOrder(G)[j])])
        BY <1>3, <2>4 DEF RegimeState, fit
    <2>9. RegimeState(v, u)
          = HmmFilter([j \in 1..fit |-> FeatureRow(v, at[j])], [j \in 1..i |-> FeatureRow(v, at[j])])
        BY <2>3 DEF RegimeState, fit, at, F
    <2> QED
        BY <2>7, <2>8, <2>9
<1>17. StateRows(v) \subseteq F
    <2> HIDE DEF F
    <2> QED
        BY <1>13
<1> QED
    BY <1>15, <1>16, <1>17

\* The regime classifier: the filter is fitted on and run over rows up to the
\* day itself, and the debounced state follows from the states of those days.
THEOREM RegimesAreLive ==
    ASSUME NEW v, v.market \in SUBSET Nat, IsFiniteSet(v.market), NEW t
    PROVE  /\ t \in FeatureRows(v) =>
                  /\ t \in FeatureRows(KnownBy(v, t))
                  /\ FeatureRow(KnownBy(v, t), t) = FeatureRow(v, t)
           /\ t \in StateRows(v) =>
                  /\ t \in StateRows(KnownBy(v, t))
                  /\ RegimeState(KnownBy(v, t), t) = RegimeState(v, t)
                  /\ CommittedState(KnownBy(v, t), t) = CommittedState(v, t)
<1> DEFINE k == KnownBy(v, t)
           T == UpTo(StateRows(v), t)
           at == InOrder(T)
<1>1. ASSUME t \in FeatureRows(v)
      PROVE  /\ t \in Nat /\ t \in FeatureRows(k)
             /\ FeatureRow(k, t) = FeatureRow(v, t)
    <2>1. t \in Nat
        BY <1>1, FeatureRowsAreFinite
    <2> QED
        BY <1>1, <2>1, FeaturesKnown DEF UpTo
<1>2. ASSUME t \in StateRows(v)
      PROVE  /\ t \in StateRows(k)
             /\ RegimeState(k, t) = RegimeState(v, t)
             /\ CommittedState(k, t) = CommittedState(v, t)
    <2>0. StateRows(v) \subseteq FeatureRows(v)
        BY StatesKnown
    <2>1. t \in Nat /\ StateRows(v) \in SUBSET Nat /\ IsFiniteSet(StateRows(v))
        BY <1>2, <2>0, FeatureRowsAreFinite, FS_Subset
    <2>2. StateRows(k) = T
        BY <2>1, StatesKnown
    <2>3. t \in StateRows(k)
        BY <1>2, <2>1, <2>2 DEF UpTo
    <2>4. \A u \in StateRows(v) : u <= t => RegimeState(k, u) = RegimeState(v, u)
        BY <2>1, StatesKnown
    <2>5. T \in SUBSET Nat /\ IsFiniteSet(T)
        BY <2>1, UpToIsFinite
    <2>6. UpTo(StateRows(k), t) = T
        BY <2>2 DEF UpTo
    <2>7. \A x \in T : x \in StateRows(v) /\ x <= t
        BY DEF UpTo
    <2> HIDE DEF T
    <2>8. \A i \in DOMAIN at : at[i] \in T
        BY <2>5, InOrderLists
    <2> HIDE DEF k, at
    <2>9. [i \in DOMAIN at |-> RegimeState(k, at[i])] = [i \in DOMAIN at |-> RegimeState(v, at[i])]
        BY <2>4, <2>7, <2>8
    <2>10. CommittedState(k, t) = CommittedState(v, t)
        BY <2>6, <2>9 DEF CommittedState, at, T
    <2>11. t <= t
        BY <2>1
    <2> QED
        BY <1>2, <2>3, <2>4, <2>10, <2>11
<1> QED
    BY <1>1, <1>2
------------------------------------------------------------------------------
(* Weight files, and the list of files of each program *)

\* A book is filed for a day later than its signal's, which is one of the rows.
LEMMA WeightFilesAreLater ==
    ASSUME NEW rows \in SUBSET Nat, IsFiniteSet(rows)
    PROVE  /\ DOMAIN WeightFiles(rows) \in SUBSET rows
           /\ \A d \in DOMAIN WeightFiles(rows) :
                 WeightFiles(rows)[d] \in rows /\ WeightFiles(rows)[d] < d
<1> DEFINE at    == InOrder(rows)
           n     == Cardinality(rows)
           dates == {at[i + ExecutionLag] : i \in 1..(Len(at) - ExecutionLag)}
<1>1. n \in Nat /\ Len(at) = n /\ DOMAIN at = 1..n
    BY InOrderLists
<1>2. /\ \A i \in 1..n : at[i] \in rows
      /\ \A i, j \in 1..n : i < j => at[i] < at[j]
      /\ \A i, j \in 1..n : at[i] = at[j] => i = j
    <2>1. \A i \in 1..n : at[i] \in rows /\ Rank(rows, at[i]) = i - 1
        BY InOrderLists
    <2>2. \A i, j \in 1..n : i < j => at[i] < at[j]
        BY InOrderLists
    <2> HIDE DEF at
    <2>3. ASSUME NEW i \in 1..n, NEW j \in 1..n, at[i] = at[j] PROVE i = j
        <3>1. i - 1 = j - 1
            BY <2>1, <2>3
        <3>2. i \in Int /\ j \in Int
            BY <1>1
        <3> QED
            BY <3>1, <3>2
    <2> QED
        BY <2>1, <2>2, <2>3
<1>3. ExecutionLag \in Nat \ {0}
    BY StatArbAssumption
<1>4. WeightFiles(rows) = [d \in dates |-> at[(CHOOSE i \in DOMAIN at : at[i] = d) - ExecutionLag]]
    BY DEF WeightFiles
<1> HIDE DEF at, n
<1>5. ASSUME NEW d \in dates
      PROVE  d \in rows /\ WeightFiles(rows)[d] \in rows /\ WeightFiles(rows)[d] < d
    <2>1. PICK i \in 1..(n - ExecutionLag) : d = at[i + ExecutionLag]
        BY <1>1
    <2>2. i \in 1..n /\ i + ExecutionLag \in 1..n /\ i < i + ExecutionLag
          /\ (i + ExecutionLag) - ExecutionLag = i
        BY <1>1, <1>3
    <2>3. (CHOOSE j \in DOMAIN at : at[j] = d) = i + ExecutionLag
        BY <1>1, <1>2, <2>1, <2>2
    <2>4. WeightFiles(rows)[d] = at[(CHOOSE j \in DOMAIN at : at[j] = d) - ExecutionLag]
        <3> HIDE DEF dates
        <3> QED
            BY <1>4
    <2>5. WeightFiles(rows)[d] = at[i]
        BY <2>2, <2>3, <2>4
    <2> QED
        BY <1>2, <2>1, <2>2, <2>5
<1>6. DOMAIN WeightFiles(rows) = dates
    BY <1>4
<1> HIDE DEF dates
<1> QED
    BY <1>5, <1>6

\* The weight files of a kind, in the order they are written
LEMMA WeightFileNames ==
    ASSUME NEW rows \in SUBSET Nat, IsFiniteSet(rows), NEW kind
    PROVE  /\ WeightFilesOf(kind, rows) \in Seq({kind} \X DOMAIN WeightFiles(rows))
           /\ DOMAIN WeightFilesOf(kind, rows) = 1..Len(WeightFilesOf(kind, rows))
           /\ \A i \in DOMAIN WeightFilesOf(kind, rows) :
                 /\ WeightFilesOf(kind, rows)[i][1] = kind
                 /\ WeightFilesOf(kind, rows)[i][2] \in DOMAIN WeightFiles(rows)
<1> DEFINE D     == DOMAIN WeightFiles(rows)
           dates == InOrder(D)
           n     == Cardinality(D)
           W     == WeightFilesOf(kind, rows)
<1>1. D \in SUBSET Nat /\ IsFiniteSet(D)
    BY WeightFilesAreLater, FS_Subset
<1> HIDE DEF D
<1>2. n \in Nat /\ DOMAIN dates = 1..n /\ \A i \in 1..n : dates[i] \in D
    BY <1>1, InOrderLists
<1>3. W = [i \in 1..n |-> <<kind, dates[i]>>]
    BY <1>2 DEF WeightFilesOf, D
<1> HIDE DEF dates, n, W
<1>4. W \in [1..n -> {kind} \X D]
    BY <1>2, <1>3
<1>5. W \in Seq({kind} \X D) /\ DOMAIN W = 1..Len(W)
    BY <1>2, <1>4
<1>6. \A i \in DOMAIN W : W[i][1] = kind /\ W[i][2] \in D
    BY <1>2, <1>3
<1> QED
    BY <1>5, <1>6 DEF D, W

\* The files that describe the others of a run
ManifestNames ==
    {"universe_manifest", "rolling_pca_manifest", "residual_manifest", "ou_manifest",
     "signal_manifest", "baseline_manifest", "regime_manifest", "regime_hmm_manifest",
     "regime_debounce_manifest"}

LEMMA NamesOfManifests == DOMAIN Manifests = ManifestNames
BY DEF Manifests, ManifestNames

\* The name of a weight file is one of the dates that get one.
Dated(v, f) ==
    f[1] \in DatedFiles =>
        f[2] \in DOMAIN WeightFiles(IF f[1] = "weights" THEN WindowRows(v) ELSE ReturnRows(v))

\* A list of a program's files that has its manifest, if any, at its end
Listing(p, v, F) ==
    /\ \E S : F \in Seq(S)
    /\ \A i \in 1..Len(F) : Dated(v, F[i])
    /\ \A i \in 1..Len(F) : F[i][1] \in ManifestNames => i = Len(F) /\ Manifests[F[i][1]] = p

\* A part of the list that comes before the manifest
WithoutManifest(F) == \A i \in 1..Len(F) : F[i][1] \notin ManifestNames

\* A list of names without dates
LEMMA ListingOfNames ==
    ASSUME NEW p, NEW v, NEW S, NEW names \in Seq(S),
           \A i \in 1..Len(names) : names[i] \notin DatedFiles,
           \A i \in 1..Len(names) : names[i] \in ManifestNames =>
              i = Len(names) /\ Manifests[names[i]] = p
    PROVE  /\ Listing(p, v, Undated(names)) /\ Len(Undated(names)) = Len(names)
           /\ (\A i \in 1..Len(names) : names[i] \notin ManifestNames)
              => WithoutManifest(Undated(names))
<1> DEFINE F == Undated(names)
           n == Len(names)
<1>1. n \in Nat /\ DOMAIN names = 1..n /\ \A i \in 1..n : names[i] \in S
    OBVIOUS
<1>2. F = [i \in 1..n |-> <<names[i], 0>>]
    BY <1>1 DEF Undated
<1> HIDE DEF F, n
<1>3. F \in [1..n -> S \X {0}] /\ \A i \in 1..n : F[i][1] = names[i]
    BY <1>1, <1>2
<1>4. F \in Seq(S \X {0}) /\ Len(F) = n
    BY <1>1, <1>3
<1>5. \A i \in 1..n : Dated(v, F[i])
    BY <1>3 DEF Dated, n
<1> QED
    BY <1>3, <1>4, <1>5 DEF Listing, WithoutManifest, F, n

\* A part without a manifest may come before.
LEMMA ListingAfter ==
    ASSUME NEW p, NEW v, NEW F, NEW G, Listing(p, v, F), Listing(p, v, G), WithoutManifest(F)
    PROVE  /\ Listing(p, v, F \o G)
           /\ Len(G) # 0 => F \o G # <<>>
           /\ WithoutManifest(G) => WithoutManifest(F \o G)
<1> DEFINE H == F \o G
           n == Len(F)
           m == Len(G)
<1>1. PICK S : F \in Seq(S)
    BY DEF Listing
<1>2. PICK T : G \in Seq(T)
    BY DEF Listing
<1>3. F \in Seq(S \cup T) /\ G \in Seq(S \cup T) /\ n \in Nat /\ m \in Nat
    BY <1>1, <1>2
<1>4. /\ H \in Seq(S \cup T) /\ Len(H) = n + m
      /\ \A i \in 1..n : H[i] = F[i]
      /\ \A i \in (n + 1)..(n + m) : i - n \in 1..m /\ H[i] = G[i - n]
    BY <1>3
<1>5. \A i \in 1..(n + m) : i \in 1..n \/ i \in (n + 1)..(n + m)
    BY <1>3
<1>6. \A i \in 1..(n + m) : i - n = m => i = n + m
    BY <1>3
<1> HIDE DEF H, n, m
<1>7. \A i \in 1..n : Dated(v, F[i]) /\ F[i][1] \notin ManifestNames
    BY DEF Listing, WithoutManifest, n
<1>8. \A i \in 1..m : /\ Dated(v, G[i])
                      /\ G[i][1] \in ManifestNames => i = m /\ Manifests[G[i][1]] = p
    BY DEF Listing, m
<1>9. ASSUME NEW i \in 1..(n + m)
      PROVE  /\ Dated(v, H[i])
             /\ H[i][1] \in ManifestNames => i = n + m /\ Manifests[H[i][1]] = p
    <2>1. CASE i \in 1..n
        BY <1>4, <1>7, <2>1
    <2>2. CASE i \in (n + 1)..(n + m)
        BY <1>4, <1>6, <1>8, <2>2
    <2> QED
        BY <1>5, <2>1, <2>2
<1>10. Listing(p, v, H)
    BY <1>4, <1>9 DEF Listing
<1>11. WithoutManifest(G) => WithoutManifest(H)
    BY <1>4, <1>5, <1>7 DEF WithoutManifest, m
<1>12. m # 0 => H # <<>>
    BY <1>3, <1>4
<1> QED
    BY <1>10, <1>11, <1>12 DEF H, n, m

\* The weight files as a part of the list
LEMMA ListingOfWeights ==
    ASSUME NEW p, NEW v, Published(v), NEW kind \in DatedFiles,
           NEW rows, rows = IF kind = "weights" THEN WindowRows(v) ELSE ReturnRows(v)
    PROVE  Listing(p, v, WeightFilesOf(kind, rows)) /\ WithoutManifest(WeightFilesOf(kind, rows))
<1> DEFINE W == WeightFilesOf(kind, rows)
<1>1. rows \in SUBSET Nat /\ IsFiniteSet(rows)
    BY RowsAreFinite
<1>2. kind \notin ManifestNames
    BY DEF DatedFiles, ManifestNames
<1>3. /\ W \in Seq({kind} \X DOMAIN WeightFiles(rows)) /\ DOMAIN W = 1..Len(W)
      /\ \A i \in DOMAIN W : W[i][1] = kind /\ W[i][2] \in DOMAIN WeightFiles(rows)
    BY <1>1, WeightFileNames
<1> HIDE DEF W
<1>4. \A i \in 1..Len(W) : Dated(v, W[i])
    BY <1>3 DEF Dated
<1> QED
    BY <1>2, <1>3, <1>4 DEF Listing, WithoutManifest, W

\* Every program writes a manifest of its own, if any, as its last file.
LEMMA FilesOfPrograms ==
    ASSUME NEW p \in Programs, NEW v, Published(v)
    PROVE  Listing(p, v, Files(p, v)) /\ Files(p, v) # <<>>
<1>1. CASE p = "build_universe"
    <2> DEFINE names == <<"universe_returns", "universe_standardized", "prices", "universe_manifest">>
    <2>1. /\ names \in Seq({"universe_returns", "universe_standardized", "prices", "universe_manifest"})
          /\ Len(names) = 4
        OBVIOUS
    <2>2. ASSUME NEW i \in 1..4
          PROVE  /\ names[i] \notin DatedFiles
                 /\ names[i] \in ManifestNames => i = 4 /\ Manifests[names[i]] = p
        <3>1. i \in {1, 2, 3, 4}
            OBVIOUS
        <3> QED
            BY <1>1, <3>1 DEF DatedFiles, ManifestNames, Manifests
    <2>3. Listing(p, v, Undated(names)) /\ Len(Undated(names)) = 4
        <3> HIDE DEF names
        <3> QED
            BY <2>1, <2>2, ListingOfNames
    <2>4. Undated(names) # <<>>
        BY <2>3
    <2> QED
        BY <1>1, <2>3, <2>4 DEF Files, BuildUniverse
<1>2. CASE p = "rolling_pca"
    <2> DEFINE names == <<"eigen_spectrum", "factor_counts", "factor_returns", "rolling_pca_manifest">>
    <2>1. /\ names \in Seq({"eigen_spectrum", "factor_counts", "factor_returns", "rolling_pca_manifest"})
          /\ Len(names) = 4
        OBVIOUS
    <2>2. ASSUME NEW i \in 1..4
          PROVE  /\ names[i] \notin DatedFiles
                 /\ names[i] \in ManifestNames => i = 4 /\ Manifests[names[i]] = p
        <3>1. i \in {1, 2, 3, 4}
            OBVIOUS
        <3> QED
            BY <1>2, <3>1 DEF DatedFiles, ManifestNames, Manifests
    <2>3. Listing(p, v, Undated(names)) /\ Len(Undated(names)) = 4
        <3> HIDE DEF names
        <3> QED
            BY <2>1, <2>2, ListingOfNames
    <2>4. Undated(names) # <<>>
        BY <2>3
    <2> QED
        BY <1>2, <2>3, <2>4 DEF Files, RollingPca
<1>3. CASE p = "residuals"
    <2> DEFINE names == <<"residual_r2", "residual_market_beta", "residual_diagnostics", "residual_manifest">>
    <2>1. /\ names \in Seq({"residual_r2", "residual_market_beta", "residual_diagnostics", "residual_manifest"})
          /\ Len(names) = 4
        OBVIOUS
    <2>2. ASSUME NEW i \in 1..4
          PROVE  /\ names[i] \notin DatedFiles
                 /\ names[i] \in ManifestNames => i = 4 /\ Manifests[names[i]] = p
        <3>1. i \in {1, 2, 3, 4}
            OBVIOUS
        <3> QED
            BY <1>3, <3>1 DEF DatedFiles, ManifestNames, Manifests
    <2>3. Listing(p, v, Undated(names)) /\ Len(Undated(names)) = 4
        <3> HIDE DEF names
        <3> QED
            BY <2>1, <2>2, ListingOfNames
    <2>4. Undated(names) # <<>>
        BY <2>3
    <2> QED
        BY <1>3, <2>3, <2>4 DEF Files, Residuals
<1>4. CASE p = "ou_sscore"
    <2> DEFINE names == <<"ou_sscore", "ou_kappa", "ou_speed_ok", "ou_manifest">>
    <2>1. /\ names \in Seq({"ou_sscore", "ou_kappa", "ou_speed_ok", "ou_manifest"})
          /\ Len(names) = 4
        OBVIOUS
    <2>2. ASSUME NEW i \in 1..4
          PROVE  /\ names[i] \notin DatedFiles
                 /\ names[i] \in ManifestNames => i = 4 /\ Manifests[names[i]] = p
        <3>1. i \in {1, 2, 3, 4}
            OBVIOUS
        <3> QED
            BY <1>4, <3>1 DEF DatedFiles, ManifestNames, Manifests
    <2>3. Listing(p, v, Undated(names)) /\ Len(Undated(names)) = 4
        <3> HIDE DEF names
        <3> QED
            BY <2>1, <2>2, ListingOfNames
    <2>4. Undated(names) # <<>>
        BY <2>3
    <2> QED
        BY <1>4, <2>3, <2>4 DEF Files, OuScores
<1>5. CASE p = "compare_allocators"
    <2> DEFINE names == <<"hrp_vs_mvo_summary">>
    <2>1. /\ names \in Seq({"hrp_vs_mvo_summary"})
          /\ Len(names) = 1
        OBVIOUS
    <2>2. ASSUME NEW i \in 1..1
          PROVE  /\ names[i] \notin DatedFiles
                 /\ names[i] \in ManifestNames => i = 1 /\ Manifests[names[i]] = p
        <3>1. i \in {1}
            OBVIOUS
        <3> QED
            BY <1>5, <3>1 DEF DatedFiles, ManifestNames, Manifests
    <2>3. Listing(p, v, Undated(names)) /\ Len(Undated(names)) = 1
        <3> HIDE DEF names
        <3> QED
            BY <2>1, <2>2, ListingOfNames
    <2>4. Undated(names) # <<>>
        BY <2>3
    <2> QED
        BY <1>5, <2>3, <2>4 DEF Files, CompareAllocators
<1>6. CASE p = "regime_features"
    <2> DEFINE names == <<"regime_features", "regime_manifest">>
    <2>1. /\ names \in Seq({"regime_features", "regime_manifest"})
          /\ Len(names) = 2
        OBVIOUS
    <2>2. ASSUME NEW i \in 1..2
          PROVE  /\ names[i] \notin DatedFiles
                 /\ names[i] \in ManifestNames => i = 2 /\ Manifests[names[i]] = p
        <3>1. i \in {1, 2}
            OBVIOUS
        <3> QED
            BY <1>6, <3>1 DEF DatedFiles, ManifestNames, Manifests
    <2>3. Listing(p, v, Undated(names)) /\ Len(Undated(names)) = 2
        <3> HIDE DEF names
        <3> QED
            BY <2>1, <2>2, ListingOfNames
    <2>4. Undated(names) # <<>>
        BY <2>3
    <2> QED
        BY <1>6, <2>3, <2>4 DEF Files, RegimeFeatures
<1>7. CASE p = "regime_hmm"
    <2> DEFINE names == <<"regime_states", "regime_hmm_manifest">>
    <2>1. /\ names \in Seq({"regime_states", "regime_hmm_manifest"})
          /\ Len(names) = 2
        OBVIOUS
    <2>2. ASSUME NEW i \in 1..2
          PROVE  /\ names[i] \notin DatedFiles
                 /\ names[i] \in ManifestNames => i = 2 /\ Manifests[names[i]] = p
        <3>1. i \in {1, 2}
            OBVIOUS
        <3> QED
            BY <1>7, <3>1 DEF DatedFiles, ManifestNames, Manifests
    <2>3. Listing(p, v, Undated(names)) /\ Len(Undated(names)) = 2
        <3> HIDE DEF names
        <3> QED
            BY <2>1, <2>2, ListingOfNames
    <2>4. Undated(names) # <<>>
        BY <2>3
    <2> QED
        BY <1>7, <2>3, <2>4 DEF Files, RegimeHmm
<1>8. CASE p = "regime_debounce"
    <2> DEFINE names == <<"regime_committed", "regime_debounce_manifest">>
    <2>1. /\ names \in Seq({"regime_committed", "regime_debounce_manifest"})
          /\ Len(names) = 2
        OBVIOUS
    <2>2. ASSUME NEW i \in 1..2
          PROVE  /\ names[i] \notin DatedFiles
                 /\ names[i] \in ManifestNames => i = 2 /\ Manifests[names[i]] = p
        <3>1. i \in {1, 2}
            OBVIOUS
        <3> QED
            BY <1>8, <3>1 DEF DatedFiles, ManifestNames, Manifests
    <2>3. Listing(p, v, Undated(names)) /\ Len(Undated(names)) = 2
        <3> HIDE DEF names
        <3> QED
            BY <2>1, <2>2, ListingOfNames
    <2>4. Undated(names) # <<>>
        BY <2>3
    <2> QED
        BY <1>8, <2>3, <2>4 DEF Files, RegimeDebounce
<1>9. CASE p = "signals"
    <2>1. /\ Listing(p, v, Undated(<<"signal_positions", "signal_weights", "signal_diagnostics">>))
          /\ WithoutManifest(Undated(<<"signal_positions", "signal_weights", "signal_diagnostics">>))
        <3> DEFINE names == <<"signal_positions", "signal_weights", "signal_diagnostics">>
        <3>1. /\ names \in Seq({"signal_positions", "signal_weights", "signal_diagnostics"})
              /\ Len(names) = 3
            OBVIOUS
        <3>2. ASSUME NEW i \in 1..3
              PROVE  /\ names[i] \notin DatedFiles
                     /\ names[i] \notin ManifestNames
            <4>1. i \in {1, 2, 3}
                OBVIOUS
            <4> QED
                BY <4>1 DEF DatedFiles, ManifestNames
        <3>3. Listing(p, v, Undated(names)) /\ WithoutManifest(Undated(names))
            <4> HIDE DEF names
            <4> QED
                BY <3>1, <3>2, ListingOfNames
        <3> QED
            BY <3>3
    <2>2. /\ Listing(p, v, Undated(<<"signal_manifest">>))
          /\ Len(Undated(<<"signal_manifest">>)) = 1
        <3> DEFINE names == <<"signal_manifest">>
        <3>1. /\ names \in Seq({"signal_manifest"})
              /\ Len(names) = 1
            OBVIOUS
        <3>2. ASSUME NEW i \in 1..1
              PROVE  /\ names[i] \notin DatedFiles
                     /\ names[i] \in ManifestNames => i = 1 /\ Manifests[names[i]] = p
            <4>1. i \in {1}
                OBVIOUS
            <4> QED
                BY <1>9, <4>1 DEF DatedFiles, ManifestNames, Manifests
        <3>3. Listing(p, v, Undated(names)) /\ Len(Undated(names)) = 1
            <4> HIDE DEF names
            <4> QED
                BY <3>1, <3>2, ListingOfNames
        <3> QED
            BY <3>3
    <2> DEFINE A == Undated(<<"signal_positions", "signal_weights", "signal_diagnostics">>)
               W == WeightFilesOf("weights", WindowRows(v))
               M == Undated(<<"signal_manifest">>)
    <2>3. Listing(p, v, W) /\ WithoutManifest(W)
        <3>1. "weights" \in DatedFiles
            BY DEF DatedFiles
        <3> QED
            BY <3>1, ListingOfWeights
    <2>4. Files(p, v) = (A \o W) \o M
        BY <1>9 DEF Files, Signals
    <2> HIDE DEF A, W, M
    <2>5. Listing(p, v, A \o W) /\ WithoutManifest(A \o W)
        BY <2>1, <2>3, ListingAfter DEF A
    <2>6. Listing(p, v, M) /\ Len(M) = 1
        BY <2>2 DEF M
    <2> DEFINE Before == A \o W
    <2>7. Listing(p, v, Before) /\ WithoutManifest(Before) /\ Files(p, v) = Before \o M
        BY <2>4, <2>5
    <2> HIDE DEF Before
    <2> QED
        BY <2>6, <2>7, ListingAfter
<1>10. CASE p = "baselines"
    <2>1. /\ Listing(p, v, Undated(<<"baseline_reversal_positions", "baseline_reversal_weights">>))
          /\ WithoutManifest(Undated(<<"baseline_reversal_positions", "baseline_reversal_weights">>))
        <3> DEFINE names == <<"baseline_reversal_positions", "baseline_reversal_weights">>
        <3>1. /\ names \in Seq({"baseline_reversal_positions", "baseline_reversal_weights"})
              /\ Len(names) = 2
            OBVIOUS
        <3>2. ASSUME NEW i \in 1..2
              PROVE  /\ names[i] \notin DatedFiles
                     /\ names[i] \notin ManifestNames
            <4>1. i \in {1, 2}
                OBVIOUS
            <4> QED
                BY <4>1 DEF DatedFiles, ManifestNames
        <3>3. Listing(p, v, Undated(names)) /\ WithoutManifest(Undated(names))
            <4> HIDE DEF names
            <4> QED
                BY <3>1, <3>2, ListingOfNames
        <3> QED
            BY <3>3
    <2>2. /\ Listing(p, v, Undated(<<"baseline_momentum_positions", "baseline_momentum_weights">>))
          /\ WithoutManifest(Undated(<<"baseline_momentum_positions", "baseline_momentum_weights">>))
        <3> DEFINE names == <<"baseline_momentum_positions", "baseline_momentum_weights">>
        <3>1. /\ names \in Seq({"baseline_momentum_positions", "baseline_momentum_weights"})
              /\ Len(names) = 2
            OBVIOUS
        <3>2. ASSUME NEW i \in 1..2
              PROVE  /\ names[i] \notin DatedFiles
                     /\ names[i] \notin ManifestNames
            <4>1. i \in {1, 2}
                OBVIOUS
            <4> QED
                BY <4>1 DEF DatedFiles, ManifestNames
        <3>3. Listing(p, v, Undated(names)) /\ WithoutManifest(Undated(names))
            <4> HIDE DEF names
            <4> QED
                BY <3>1, <3>2, ListingOfNames
        <3> QED
            BY <3>3
    <2>3. /\ Listing(p, v, Undated(<<"baseline_manifest">>))
          /\ Len(Undated(<<"baseline_manifest">>)) = 1
        <3> DEFINE names == <<"baseline_manifest">>
        <3>1. /\ names \in Seq({"baseline_manifest"})
              /\ Len(names) = 1
            OBVIOUS
        <3>2. ASSUME NEW i \in 1..1
              PROVE  /\ names[i] \notin DatedFiles
                     /\ names[i] \in ManifestNames => i = 1 /\ Manifests[names[i]] = p
            <4>1. i \in {1}
                OBVIOUS
            <4> QED
                BY <1>10, <4>1 DEF DatedFiles, ManifestNames, Manifests
        <3>3. Listing(p, v, Undated(names)) /\ Len(Undated(names)) = 1
            <4> HIDE DEF names
            <4> QED
                BY <3>1, <3>2, ListingOfNames
        <3> QED
            BY <3>3
    <2> DEFINE A == Undated(<<"baseline_reversal_positions", "baseline_reversal_weights">>)
               R == WeightFilesOf("weights_reversal", ReturnRows(v))
               B == Undated(<<"baseline_momentum_positions", "baseline_momentum_weights">>)
               W == WeightFilesOf("weights_momentum", ReturnRows(v))
               M == Undated(<<"baseline_manifest">>)
    <2>4. Listing(p, v, R) /\ WithoutManifest(R) /\ Listing(p, v, W) /\ WithoutManifest(W)
        <3>1. "weights_reversal" \in DatedFiles /\ "weights_momentum" \in DatedFiles
            BY DEF DatedFiles
        <3> QED
            BY <3>1, ListingOfWeights
    <2>5. Files(p, v) = (((A \o R) \o B) \o W) \o M
        BY <1>10 DEF Files, Baselines
    <2> HIDE DEF A, R, B, W, M
    <2>6. Listing(p, v, A \o R) /\ WithoutManifest(A \o R)
        BY <2>1, <2>4, ListingAfter DEF A
    <2>7. Listing(p, v, (A \o R) \o B) /\ WithoutManifest((A \o R) \o B)
        BY <2>2, <2>6, ListingAfter DEF B
    <2>8. Listing(p, v, M) /\ Len(M) = 1
        BY <2>3 DEF M
    <2> DEFINE Before == ((A \o R) \o B) \o W
    <2>9. Listing(p, v, Before) /\ WithoutManifest(Before) /\ Files(p, v) = Before \o M
        BY <2>4, <2>5, <2>7, ListingAfter
    <2> HIDE DEF Before
    <2> QED
        BY <2>8, <2>9, ListingAfter
<1> QED
    BY <1>1, <1>2, <1>3, <1>4, <1>5, <1>6, <1>7, <1>8, <1>9, <1>10
       DEF Programs, Input, ReturnsReaders
------------------------------------------------------------------------------
(* Files *)

\* Every row of every file, and the book of every weight file
LEMMA RowsOfFilesAreLive ==
    ASSUME NEW v, Published(v), NEW name \in RowFiles, NEW t \in Rows(name, v)
    PROVE  SameLive(name, v, t)
<1> DEFINE k == KnownBy(v, t)
<1>1. /\ Vintage(v) /\ v.market \in SUBSET Nat /\ IsFiniteSet(v.market)
      /\ WindowRows(v) \subseteq ReturnRows(v)
    BY RowsAreFinite
<1>2. CASE name = "universe_returns"
    <2>1. t \in ReturnRows(v)
        BY <1>2 DEF Rows
    <2>2. t \in ReturnRows(k) /\ ReturnsRow(k, t) = ReturnsRow(v, t)
        BY <1>1, <2>1, UniverseIsLive
    <2> QED
        BY <1>2, <2>2 DEF SameLive, Rows, Row
<1>3. CASE name \in {"universe_standardized", "factor_returns", "residual_r2", "ou_sscore",
                     "signal_positions", "signal_diagnostics"}
    <2>1. t \in WindowRows(v)
        BY <1>3 DEF Rows
    <2>2. /\ t \in WindowRows(k) /\ StandardizedRow(k, t) = StandardizedRow(v, t)
          /\ PcaRow(k, t) = PcaRow(v, t) /\ ResidualRow(k, t) = ResidualRow(v, t)
          /\ OuRow(k, t) = OuRow(v, t)
        BY <1>1, <2>1, UniverseIsLive, ScoresAreLive
    <2>3. PositionRow(k, t) = PositionRow(v, t) /\ DiagnosticsRow(k, t) = DiagnosticsRow(v, t)
        BY <2>1, SignalsAreLive
    <2>4. Rows(name, k) = WindowRows(k)
        BY <1>3 DEF Rows
    <2> HIDE DEF k
    <2>5. Row(name, k, t) = Row(name, v, t)
        BY <1>3, <2>2, <2>3 DEF Row
    <2> QED
        BY <2>2, <2>4, <2>5 DEF SameLive, k
<1>4. CASE name \in {"baseline_reversal_positions", "baseline_momentum_positions"}
    <2>1. t \in ReturnRows(v)
        BY <1>4 DEF Rows
    <2>2. t \in ReturnRows(k)
        BY <1>1, <2>1, UniverseIsLive
    <2>3. \A kind : SignalPosition(k, kind, t) = SignalPosition(v, kind, t)
        BY <1>1, <2>1, BaselinesAreLive
    <2>4. Rows(name, k) = ReturnRows(k)
        BY <1>4 DEF Rows
    <2> HIDE DEF k
    <2>5. Row(name, k, t) = Row(name, v, t)
        BY <1>4, <2>3 DEF Row
    <2> QED
        BY <2>2, <2>4, <2>5 DEF SameLive, k
<1>5. CASE name = "regime_features"
    <2>1. t \in FeatureRows(v)
        BY <1>5 DEF Rows
    <2>2. t \in FeatureRows(k) /\ FeatureRow(k, t) = FeatureRow(v, t)
        BY <1>1, <2>1, RegimesAreLive
    <2> HIDE DEF k
    <2> QED
        BY <1>5, <2>2 DEF SameLive, Rows, Row, k
<1>6. CASE name \in {"regime_states", "regime_committed"}
    <2>1. t \in StateRows(v)
        BY <1>6 DEF Rows
    <2>2. /\ t \in StateRows(k) /\ RegimeState(k, t) = RegimeState(v, t)
          /\ CommittedState(k, t) = CommittedState(v, t)
        BY <1>1, <2>1, RegimesAreLive
    <2>3. Rows(name, k) = StateRows(k)
        BY <1>6 DEF Rows
    <2> HIDE DEF k
    <2>4. Row(name, k, t) = Row(name, v, t)
        BY <1>6, <2>2 DEF Row
    <2> QED
        BY <2>2, <2>3, <2>4 DEF SameLive, k
<1> QED
    BY <1>2, <1>3, <1>4, <1>5, <1>6 DEF RowFiles

\* The book of a weight file, on the day of its signal
LEMMA BooksAreLive ==
    ASSUME NEW v, Published(v), NEW name \in DatedFiles,
           NEW signal \in IF name = "weights" THEN WindowRows(v) ELSE ReturnRows(v)
    PROVE  Row(name, KnownBy(v, signal), signal) = Row(name, v, signal)
<1> DEFINE k == KnownBy(v, signal)
<1>1. Vintage(v)
    BY RowsAreFinite
<1>2. CASE name = "weights"
    <2>1. PositionRow(k, signal) = PositionRow(v, signal)
        BY <1>2, SignalsAreLive
    <2> HIDE DEF k
    <2> QED
        BY <1>2, <2>1 DEF Row, k
<1>3. CASE name \in {"weights_reversal", "weights_momentum"}
    <2>1. \A kind : BaselineBook(k, kind, signal) = BaselineBook(v, kind, signal)
        BY <1>1, <1>3, BaselinesAreLive
    <2> HIDE DEF k
    <2> QED
        BY <1>3, <2>1 DEF Row, k
<1> QED
    BY <1>2, <1>3 DEF DatedFiles

\* The next session lies between the row that a book uses and the one it earns.
LEMMA EarnsLater ==
    ASSUME NEW rows \in SUBSET Nat, IsFiniteSet(rows), NEW signals, NEW t \in rows,
           NEW u \in EarnsFrom(rows, signals, t)
    PROVE  NextSession(rows, u, t)
<1> DEFINE at == InOrder(rows)
           n  == Cardinality(rows)
           j  == Rank(rows, t) + 1
           i  == j - (ExecutionLag + 1)
<1>1. n \in Nat /\ j \in 1..n /\ at[j] = t
    BY InOrderLists
<1>2. (CHOOSE m \in DOMAIN at : at[m] = t) = j
    BY PlaceInOrder
<1>3. /\ \A m \in 1..n : at[m] \in rows
      /\ \A l, m \in 1..n : l < m => at[l] < at[m]
    BY InOrderLists
<1>4. ExecutionLag \in Nat \ {0}
    BY StatArbAssumption
<1>5. EarnsFrom(rows, signals, t) = IF i >= 1 /\ at[i] \in signals THEN {at[i]} ELSE {}
    BY <1>2 DEF EarnsFrom
<1> HIDE DEF at, n, j
<1>6. i >= 1 /\ u = at[i]
    BY <1>5
<1>7. i \in 1..n /\ i + 1 \in 1..n /\ i < i + 1 /\ i + 1 < j
    BY <1>1, <1>4, <1>6
<1>8. at[i + 1] \in rows /\ at[i] < at[i + 1] /\ at[i + 1] < at[j]
    BY <1>1, <1>3, <1>7
<1> QED
    BY <1>1, <1>6, <1>8 DEF NextSession
------------------------------------------------------------------------------
(* The data directory: the inductive invariant *)

\* All that a program can read
Vintages ==
    {v \in [bars : [Symbols -> SUBSET Nat], market : SUBSET Nat, actions : SUBSET KnownActions] :
        Published(v)}

\* Nothing is ever of a day that has not come.
DataOK ==
    /\ today \in Nat
    /\ vendor \in [Symbols -> SUBSET (1..today)]
    /\ csv \in [Symbols -> SUBSET (1..today)]
    /\ actions \in SUBSET KnownActions
    /\ job.program = "fetch" => job.served \in [Symbols -> SUBSET (1..today)]

\* A job has the three fields, and is of a program of the model.
JobOK ==
    /\ job = [program |-> job.program, todo |-> job.todo, served |-> job.served]
    /\ job.program \in Programs \cup {"none", "fetch"}
    /\ job.program = "none" => job = Idle

\* A file is of a run that has read its input.
RunsOK ==
    /\ read \in Seq(Vintages)
    /\ \A f \in DOMAIN disk : disk[f].run \in 1..Len(read)

\* What is left of F from place k on
Remaining(F, todo, k) ==
    /\ \E S : todo \in Seq(S)
    /\ k \in 1..Len(F) /\ Len(todo) = Len(F) - k + 1
    /\ \A i \in 1..Len(todo) : todo[i] = F[k + i - 1]

\* A program's files are written in order: those before the next one are on
\* disk, of this very run.
WrittenInOrder ==
    job.program \in Programs =>
        /\ read # <<>>
        /\ LET F == Files(job.program, read[Len(read)])
           IN  \E k \in 1..Len(F) :
                  /\ Remaining(F, job.todo, k)
                  /\ \A i \in 1..(k - 1) : F[i] \in DOMAIN disk /\ disk[F[i]].run = Len(read)

\* The inductive invariant
IInv == DataOK /\ JobOK /\ RunsOK /\ WrittenInOrder /\ ManifestIsLast
------------------------------------------------------------------------------
\* Nothing is written yet.
LEMMA RemainingAtFirst ==
    ASSUME NEW S, NEW F \in Seq(S), F # <<>>
    PROVE  Remaining(F, F, 1)
<1>1. Len(F) \in Nat /\ Len(F) # 0
    OBVIOUS
<1>2. 1 \in 1..Len(F) /\ Len(F) = Len(F) - 1 + 1 /\ \A i \in 1..Len(F) : 1 + i - 1 = i
    BY <1>1
<1> QED
    BY <1>2 DEF Remaining

\* A file is written, and the list goes on or is done.
LEMMA RemainingAfter ==
    ASSUME NEW S, NEW F \in Seq(S), NEW todo, NEW k, Remaining(F, todo, k)
    PROVE  /\ Head(todo) = F[k] /\ k \in 1..Len(F)
           /\ Len(todo) > 1 => k + 1 \in 1..Len(F) /\ Remaining(F, Tail(todo), k + 1)
           /\ ~(Len(todo) > 1) => k = Len(F)
           /\ Len(todo) = 1 <=> k = Len(F)
<1> DEFINE n == Len(F)
           m == Len(todo)
<1>1. PICK T : todo \in Seq(T)
    BY DEF Remaining
<1>2. n \in Nat /\ m \in Nat /\ k \in 1..n /\ m = n - k + 1 /\ k \in Nat
    BY <1>1 DEF Remaining
<1>3. \A i \in 1..m : todo[i] = F[k + i - 1]
    BY DEF Remaining
<1>4. m >= 1 /\ todo # <<>>
    BY <1>1, <1>2
<1>5. Head(todo) = F[k]
    <2>1. Head(todo) = todo[1]
        BY <1>1, <1>4
    <2>2. 1 \in 1..m /\ k + 1 - 1 = k
        BY <1>2, <1>4
    <2> QED
        BY <1>3, <2>1, <2>2
<1>6. ASSUME m > 1
      PROVE  k + 1 \in 1..n /\ Remaining(F, Tail(todo), k + 1)
    <2> DEFINE rest == Tail(todo)
    <2>1. rest \in Seq(T) /\ Len(rest) = m - 1 /\ \A i \in 1..(m - 1) : rest[i] = todo[i + 1]
        BY <1>1, <1>4
    <2> HIDE DEF rest, n, m
    <2>2. k + 1 \in 1..n /\ m - 1 = n - (k + 1) + 1
        BY <1>2, <1>6
    <2>3. \A i \in 1..(m - 1) : i + 1 \in 1..m /\ k + (i + 1) - 1 = (k + 1) + i - 1
        BY <1>2
    <2>4. \A i \in 1..(m - 1) : rest[i] = F[(k + 1) + i - 1]
        BY <1>3, <2>1, <2>3
    <2>5. Remaining(F, rest, k + 1)
        BY <2>1, <2>2, <2>4 DEF Remaining, n
    <2> QED
        BY <2>2, <2>5 DEF rest
<1>7. (~(m > 1) => k = n) /\ (m = 1 <=> k = n)
    <2> HIDE DEF n, m
    <2> QED
        BY <1>2, <1>4
<1> QED
    BY <1>2, <1>5, <1>6, <1>7

\* No program has run.
LEMMA InitInv == Init => IInv
<1> SUFFICES ASSUME Init PROVE IInv
    OBVIOUS
<1> USE DEF Init
<1>1. DataOK
    BY ResearchAssumption DEF DataOK, Idle
<1>2. JobOK
    BY DEF JobOK, Idle
<1>3. RunsOK
    BY DEF RunsOK
<1>4. WrittenInOrder
    BY DEF WrittenInOrder, Idle, Programs, Input, ReturnsReaders
<1>5. ManifestIsLast
    BY DEF ManifestIsLast
<1> QED
    BY <1>1, <1>2, <1>3, <1>4, <1>5 DEF IInv

\* Neither a fetch nor an idle job is a program that writes.
LEMMA IdleIsNoProgram ==
    "none" \notin Programs /\ "fetch" \notin Programs /\ "build_universe" \in Programs
BY DEF Programs, Input, ReturnsReaders

\* What is on disk is a vintage, also while a fetch saves its bars.
LEMMA DiskIsVintage ==
    ASSUME today \in Nat, actions \in SUBSET KnownActions,
           NEW bars \in [Symbols -> SUBSET (1..today)]
    PROVE  /\ [OnDisk EXCEPT !.bars = bars] \in Vintages
           /\ OnDisk.bars = csv
<1> DEFINE v == [bars |-> bars, market |-> 1..today, actions |-> actions]
<1>1. [OnDisk EXCEPT !.bars = bars] = v /\ OnDisk.bars = csv
    BY DEF OnDisk
<1>2. v.bars = bars /\ v.market = 1..today /\ v.actions = actions
    OBVIOUS
<1>3. bars \in [Symbols -> SUBSET Nat] /\ 1..today \in SUBSET Nat
    OBVIOUS
<1>4. v \in [bars : [Symbols -> SUBSET Nat], market : SUBSET Nat, actions : SUBSET KnownActions]
    BY <1>3
<1> HIDE DEF v
<1>5. Published(v)
    <2>1. \A e \in v.actions : e.date \in Nat
        BY <1>2, ResearchAssumption
    <2>2. v.bars \in [Symbols -> SUBSET (1..today)] /\ v.market \in SUBSET (1..today)
        BY <1>2
    <2> QED
        BY <2>1, <2>2 DEF Published
<1> QED
    BY <1>1, <1>4, <1>5 DEF Vintages

\* A program that has read a vintage, and has written nothing yet
LEMMA RunsStep ==
    ASSUME IInv, DataOK', NEW p \in Programs, NEW v \in Vintages, Runs(p, v), UNCHANGED disk
    PROVE  IInv'
<1> DEFINE n == Len(read)
<1>1. /\ read \in Seq(Vintages) /\ n \in Nat
      /\ \A f \in DOMAIN disk : disk[f].run \in 1..n
    BY DEF IInv, RunsOK
<1>2. /\ read' \in Seq(Vintages) /\ Len(read') = n + 1
      /\ read'[n + 1] = v /\ \A i \in 1..n : read'[i] = read[i]
    BY <1>1 DEF Runs
<1>3. job' = [program |-> p, todo |-> Files(p, v), served |-> <<>>]
    BY DEF Runs
<1>4. job'.program = p /\ job'.todo = Files(p, v) /\ job'.served = <<>>
    BY <1>3
<1> HIDE DEF n
<1>5. JobOK'
    BY <1>3, <1>4, IdleIsNoProgram DEF JobOK
<1>6. RunsOK'
    <2>1. \A i \in 1..n : i \in 1..(n + 1)
        BY <1>1 DEF n
    <2> QED
        BY <1>1, <1>2, <2>1 DEF RunsOK
<1>7. WrittenInOrder'
    <2> DEFINE F == Files(p, v)
    <2>1. Listing(p, v, F) /\ F # <<>>
        BY FilesOfPrograms DEF Vintages
    <2>2. read' # <<>> /\ read'[Len(read')] = v
        BY <1>1, <1>2
    <2> HIDE DEF F
    <2>3. Remaining(F, F, 1) /\ 1 \in 1..Len(F)
        BY <2>1, RemainingAtFirst DEF Listing, Remaining
    <2>4. \A i \in 1..(1 - 1) : FALSE
        OBVIOUS
    <2>5. Files(job'.program, read'[Len(read')]) = F /\ job'.todo = F
        BY <1>4, <2>2 DEF F
    <2> QED
        BY <2>2, <2>3, <2>4, <2>5 DEF WrittenInOrder
<1>8. ManifestIsLast'
    <2> SUFFICES ASSUME NEW f \in DOMAIN disk, f[1] \in DOMAIN Manifests,
                        NEW i \in DOMAIN Files(Manifests[f[1]], read'[disk[f].run])
                 PROVE  LET described == Files(Manifests[f[1]], read'[disk[f].run])
                        IN  described[i] \in DOMAIN disk /\ disk[described[i]].run >= disk[f].run
        BY DEF ManifestIsLast
    <2>1. read'[disk[f].run] = read[disk[f].run]
        BY <1>1, <1>2
    <2> QED
        BY <2>1 DEF IInv, ManifestIsLast
<1> QED
    BY <1>5, <1>6, <1>7, <1>8 DEF IInv

\* The world, and a fetch that is not yet done, leave the files alone.
LEMMA DataStep ==
    ASSUME IInv, DataOK', JobOK', UNCHANGED <<disk, read>>,
           job'.program \notin Programs \/ UNCHANGED job
    PROVE  IInv'
<1>1. RunsOK' /\ ManifestIsLast'
    BY DEF IInv, RunsOK, ManifestIsLast
<1>2. WrittenInOrder'
    BY DEF IInv, WrittenInOrder
<1> QED
    BY <1>1, <1>2 DEF IInv
------------------------------------------------------------------------------
\* When a program ends, whichever way, the job is idle.
LEMMA IdleJob ==
    ASSUME job' = Idle
    PROVE  JobOK' /\ job'.program \notin Programs /\ job'.program # "fetch"
BY IdleIsNoProgram DEF JobOK, Idle

\* New sessions, late bars and corporate actions
LEMMA WorldInv ==
    ASSUME IInv,
           \/ \E traded \in SUBSET Symbols : NewSession(traded)
           \/ \E s \in Symbols, d \in 1..LastDay : LateBar(s, d)
           \/ \E e \in KnownActions : EnterAction(e)
    PROVE  IInv'
<1> USE DEF IInv, DataOK
<1>1. UNCHANGED <<csv, disk, job, read>> /\ job = Idle
    BY DEF NewSession, LateBar, EnterAction
<1>2. job'.program # "fetch"
    BY <1>1, IdleJob
<1>3. DataOK'
    <2>1. CASE \E traded \in SUBSET Symbols : NewSession(traded)
        <3>1. PICK traded \in SUBSET Symbols : NewSession(traded)
            BY <2>1
        <3>2. today' = today + 1 /\ UNCHANGED actions
            BY <3>1 DEF NewSession
        <3>3. 1..today \subseteq 1..(today + 1) /\ today + 1 \in 1..(today + 1) /\ today + 1 \in Nat
            OBVIOUS
        <3>4. \A s \in Symbols : vendor[s] \cup (IF s \in traded THEN {today + 1} ELSE {})
                                 \in SUBSET (1..(today + 1))
            BY <3>3
        <3>5. vendor' \in [Symbols -> SUBSET (1..(today + 1))]
            BY <3>1, <3>4 DEF NewSession
        <3>6. csv' \in [Symbols -> SUBSET (1..(today + 1))]
            BY <1>1, <3>3
        <3> QED
            BY <1>2, <3>2, <3>3, <3>5, <3>6
    <2>2. CASE \E s \in Symbols, d \in 1..LastDay : LateBar(s, d)
        BY <1>1, <1>2, <2>2 DEF LateBar
    <2>3. CASE \E e \in KnownActions : EnterAction(e)
        BY <1>1, <1>2, <2>3 DEF EnterAction
    <2> QED
        BY <2>1, <2>2, <2>3
<1>4. JobOK'
    BY <1>1 DEF JobOK
<1> QED
    BY <1>1, <1>3, <1>4, DataStep

\* What a fetch was served is of days that have come.
LEMMA FetchInv ==
    ASSUME IInv, Fetch PROVE IInv'
<1> USE DEF IInv, DataOK
<1>1. /\ job' = [program |-> "fetch", todo |-> SetToSeq(Symbols), served |-> vendor]
      /\ UNCHANGED <<world, csv, disk, read>>
    BY DEF Fetch
<1>2. job'.program = "fetch" /\ job'.served = vendor /\ job'.todo = SetToSeq(Symbols)
    BY <1>1
<1>3. DataOK'
    BY <1>1, <1>2 DEF world
<1>4. JobOK'
    BY <1>1, <1>2, IdleIsNoProgram DEF JobOK
<1> QED
    BY <1>1, <1>2, <1>3, <1>4, IdleIsNoProgram, DataStep

\* A fetch saves the bars of a symbol, and builds after the last.
LEMMA SaveBarsInv ==
    ASSUME IInv, SaveBars PROVE IInv'
<1> DEFINE v == [OnDisk EXCEPT !.bars = csv']
<1>1. /\ job.program = "fetch" /\ UNCHANGED <<world, disk>>
      /\ csv' = [csv EXCEPT ![Head(job.todo)] = job.served[Head(job.todo)]]
      /\ IF Len(job.todo) > 1 THEN job' = [job EXCEPT !.todo = Tail(@)] /\ UNCHANGED read
         ELSE IF Computes("build_universe", v) THEN Runs("build_universe", v)
         ELSE job' = Idle /\ UNCHANGED read
    BY DEF SaveBars
<1>2. csv' \in [Symbols -> SUBSET (1..today)]
    BY <1>1 DEF IInv, DataOK
<1>3. v \in Vintages
    BY <1>2, DiskIsVintage DEF IInv, DataOK
<1>4. /\ today' \in Nat /\ vendor' \in [Symbols -> SUBSET (1..today')]
      /\ csv' \in [Symbols -> SUBSET (1..today')] /\ actions' \in SUBSET KnownActions
    BY <1>1, <1>2 DEF IInv, DataOK, world
<1> HIDE DEF v
<1>5. CASE Len(job.todo) > 1
    <2> DEFINE next == [program |-> "fetch", todo |-> Tail(job.todo), served |-> job.served]
    <2>1. job' = next /\ UNCHANGED read
        BY <1>1, <1>5 DEF IInv, JobOK
    <2>2. next.program = "fetch" /\ next.todo = Tail(job.todo) /\ next.served = job.served
        OBVIOUS
    <2>3. JobOK'
        BY <2>1, <2>2, IdleIsNoProgram DEF JobOK
    <2> HIDE DEF next
    <2>4. job.served \in [Symbols -> SUBSET (1..today')] /\ job'.served = job.served
        BY <1>1, <2>1, <2>2 DEF IInv, DataOK, world
    <2>5. DataOK'
        BY <1>4, <2>4 DEF DataOK
    <2> QED
        BY <1>1, <2>1, <2>2, <2>3, <2>5, IdleIsNoProgram, DataStep
<1>6. CASE ~(Len(job.todo) > 1) /\ Computes("build_universe", v)
    <2>1. Runs("build_universe", v)
        BY <1>1, <1>6
    <2>2. job'.program = "build_universe"
        BY <2>1 DEF Runs
    <2>3. DataOK'
        BY <1>4, <2>2 DEF DataOK
    <2> QED
        BY <1>1, <1>3, <2>1, <2>3, IdleIsNoProgram, RunsStep
<1>7. CASE ~(Len(job.todo) > 1) /\ ~Computes("build_universe", v)
    <2>1. job' = Idle /\ UNCHANGED read
        BY <1>1, <1>7
    <2>2. DataOK'
        BY <1>4, <2>1, IdleJob DEF DataOK
    <2> QED
        BY <1>1, <2>1, <2>2, IdleJob, DataStep
<1> QED
    BY <1>5, <1>6, <1>7

\* A program reads what is on disk, or the vintage its input was made from.
LEMMA StartInv ==
    ASSUME IInv, NEW p \in Programs, Start(p) PROVE IInv'
<1> DEFINE v == IF p \in DOMAIN Input THEN read[disk[Input[p]].run] ELSE OnDisk
<1>1. Runs(p, v) /\ UNCHANGED <<world, csv, disk>>
    BY DEF Start
<1>2. OnDisk \in Vintages
    <2>1. csv \in [Symbols -> SUBSET (1..today)]
        BY DEF IInv, DataOK
    <2>2. [OnDisk EXCEPT !.bars = csv] \in Vintages /\ OnDisk.bars = csv
        BY <2>1, DiskIsVintage DEF IInv, DataOK
    <2>3. [OnDisk EXCEPT !.bars = csv] = OnDisk
        BY DEF OnDisk
    <2> QED
        BY <2>2, <2>3
<1>3. v \in Vintages
    <2>1. CASE p \in DOMAIN Input
        <3>1. Input[p] \in DOMAIN disk
            BY <2>1 DEF Start
        <3>2. disk[Input[p]].run \in 1..Len(read) /\ read \in Seq(Vintages)
            BY <3>1 DEF IInv, RunsOK
        <3> QED
            BY <2>1, <3>2
    <2> QED
        BY <1>2, <2>1
<1> HIDE DEF v
<1>4. job'.program = p
    BY <1>1 DEF Runs
<1>5. DataOK'
    BY <1>1, <1>4, IdleIsNoProgram DEF IInv, DataOK, world
<1> QED
    BY <1>1, <1>3, <1>5, RunsStep

\* A program that raises or is killed leaves its files as they are.
LEMMA EndInv ==
    ASSUME IInv, Raise \/ Die PROVE IInv'
<1>1. job' = Idle /\ UNCHANGED <<world, csv, disk, read>>
    BY DEF Raise, Die
<1>2. DataOK'
    BY <1>1, IdleJob DEF IInv, DataOK, world
<1> QED
    BY <1>1, <1>2, IdleJob, DataStep

\* The file that is written, and its place in the program's list
LEMMA WrittenFile ==
    ASSUME IInv, Write
    PROVE  LET p == job.program
               v == read[Len(read)]
               F == Files(p, v)
               f == Head(job.todo)
           IN  /\ p \in Programs /\ read # <<>> /\ Len(read) \in Nat \ {0}
               /\ v \in Vintages /\ Published(v) /\ Listing(p, v, F)
               /\ DOMAIN disk' = DOMAIN disk \cup {f} /\ disk'[f] = Content(f)
               /\ \A g \in DOMAIN disk : g # f => disk'[g] = disk[g]
               /\ \E k \in 1..Len(F) :
                     /\ f = F[k]
                     /\ \A i \in 1..(k - 1) : F[i] \in DOMAIN disk /\ disk[F[i]].run = Len(read)
                     /\ Len(job.todo) > 1 => k + 1 \in 1..Len(F) /\ Remaining(F, Tail(job.todo), k + 1)
<1> DEFINE p == job.program
           v == read[Len(read)]
           F == Files(p, v)
           f == Head(job.todo)
<1>1. p \in Programs /\ disk' = Put(disk, f, Content(f))
    BY DEF Write
<1>2. read # <<>> /\ read \in Seq(Vintages)
    BY <1>1 DEF IInv, WrittenInOrder, RunsOK
<1>3. Len(read) \in Nat \ {0} /\ v \in Vintages /\ Published(v)
    BY <1>2 DEF Vintages
<1>4. Listing(p, v, F)
    BY <1>1, <1>3, FilesOfPrograms
<1>5. /\ DOMAIN disk' = DOMAIN disk \cup {f} /\ disk'[f] = Content(f)
      /\ \A g \in DOMAIN disk : g # f => disk'[g] = disk[g]
    BY <1>1 DEF Put
<1>6. PICK k \in 1..Len(F) :
            /\ Remaining(F, job.todo, k)
            /\ \A i \in 1..(k - 1) : F[i] \in DOMAIN disk /\ disk[F[i]].run = Len(read)
    BY <1>1 DEF IInv, WrittenInOrder
<1>7. /\ f = F[k]
      /\ Len(job.todo) > 1 => k + 1 \in 1..Len(F) /\ Remaining(F, Tail(job.todo), k + 1)
    <2> HIDE DEF F
    <2>1. PICK S : F \in Seq(S)
        BY <1>4 DEF Listing
    <2> QED
        BY <1>6, <2>1, RemainingAfter
<1> HIDE DEF F, f
<1> QED
    BY <1>1, <1>2, <1>3, <1>4, <1>5, <1>6, <1>7 DEF F, f

\* A file of the run is written: in its place, and the manifest after all.
LEMMA WriteInv ==
    ASSUME IInv, Write PROVE IInv'
<1> DEFINE p == job.program
           r == Len(read)
           v == read[r]
           F == Files(p, v)
           f == Head(job.todo)
<1>1. /\ p \in Programs /\ read # <<>> /\ r \in Nat \ {0} /\ Listing(p, v, F)
      /\ DOMAIN disk' = DOMAIN disk \cup {f} /\ disk'[f] = Content(f)
      /\ \A g \in DOMAIN disk : g # f => disk'[g] = disk[g]
    BY WrittenFile
<1>2. PICK k \in 1..Len(F) :
            /\ f = F[k]
            /\ \A i \in 1..(k - 1) : F[i] \in DOMAIN disk /\ disk[F[i]].run = r
            /\ Len(job.todo) > 1 => k + 1 \in 1..Len(F) /\ Remaining(F, Tail(job.todo), k + 1)
    BY WrittenFile
<1>3. UNCHANGED <<world, csv, read>>
    BY DEF Write
<1>4. disk'[f].run = r
    BY <1>1 DEF Content
<1>5. Len(F) \in Nat /\ k \in Nat
    BY <1>1 DEF Listing
<1>6. \A g \in DOMAIN disk : disk[g].run \in 1..r
    BY DEF IInv, RunsOK
<1>7. RunsOK'
    <2> HIDE DEF F, f, r
    <2>1. r \in 1..r /\ r = Len(read')
        BY <1>1, <1>3 DEF r
    <2>2. \A g \in DOMAIN disk' : disk'[g].run \in 1..r
        BY <1>1, <1>4, <1>6, <2>1
    <2>3. read' \in Seq(Vintages)
        BY <1>3 DEF IInv, RunsOK
    <2> QED
        BY <2>1, <2>2, <2>3 DEF RunsOK
<1>8. /\ Len(job.todo) > 1 => job' = [job EXCEPT !.todo = Tail(@)]
      /\ ~(Len(job.todo) > 1) => job' = Idle
      /\ job = [program |-> job.program, todo |-> job.todo, served |-> job.served]
    BY DEF Write, IInv, JobOK
<1>9. JobOK' /\ DataOK' /\ WrittenInOrder'
    <2>1. CASE Len(job.todo) > 1
        <3> DEFINE next == [program |-> p, todo |-> Tail(job.todo), served |-> job.served]
        <3>1. job' = next
            BY <1>8, <2>1
        <3>2. next.program = p /\ next.todo = Tail(job.todo) /\ next.served = job.served
            OBVIOUS
        <3>3. JobOK'
            BY <1>1, <3>1, <3>2, IdleIsNoProgram DEF JobOK
        <3> HIDE DEF next
        <3>4. DataOK'
            BY <1>1, <1>3, <3>1, <3>2, IdleIsNoProgram DEF IInv, DataOK, world
        <3>5. read'[Len(read')] = v /\ Len(read') = r /\ read' # <<>> /\ Files(job'.program, v) = F
            BY <1>1, <1>3, <3>1, <3>2
        <3> HIDE DEF F, f, r, v
        <3>6. \A i \in 1..((k + 1) - 1) : F[i] \in DOMAIN disk' /\ disk'[F[i]].run = r
            <4> SUFFICES ASSUME NEW i \in 1..((k + 1) - 1)
                         PROVE F[i] \in DOMAIN disk' /\ disk'[F[i]].run = r
                OBVIOUS
            <4>1. i \in 1..(k - 1) \/ i = k
                BY <1>5
            <4> QED
                BY <1>1, <1>2, <1>4, <4>1
        <3>7. k + 1 \in 1..Len(F) /\ Remaining(F, job'.todo, k + 1)
            BY <1>2, <2>1, <3>1, <3>2
        <3>8. WrittenInOrder'
            BY <3>5, <3>6, <3>7 DEF WrittenInOrder
        <3> QED
            BY <3>3, <3>4, <3>8
    <2>2. CASE ~(Len(job.todo) > 1)
        <3>1. job' = Idle
            BY <1>8, <2>2
        <3>2. DataOK'
            BY <1>3, <3>1, IdleJob DEF IInv, DataOK, world
        <3> QED
            BY <3>1, <3>2, IdleJob DEF WrittenInOrder
    <2> QED
        BY <2>1, <2>2
<1>10. ManifestIsLast'
    <2> SUFFICES ASSUME NEW g \in DOMAIN disk', g[1] \in DOMAIN Manifests,
                        NEW i \in DOMAIN Files(Manifests[g[1]], read'[disk'[g].run])
                 PROVE  LET described == Files(Manifests[g[1]], read'[disk'[g].run])
                        IN  /\ described[i] \in DOMAIN disk'
                            /\ disk'[described[i]].run >= disk'[g].run
        BY DEF ManifestIsLast
    <2> DEFINE described == Files(Manifests[g[1]], read'[disk'[g].run])
    <2>1. CASE g = f
        <3>1. k = Len(F) /\ Manifests[g[1]] = p
            BY <1>1, <1>2, <2>1, NamesOfManifests DEF Listing
        <3>2. described = F
            BY <1>3, <1>4, <2>1, <3>1
        <3>3. DOMAIN F = 1..Len(F)
            BY <1>1 DEF Listing
        <3> HIDE DEF F, f, r, described
        <3>4. i \in 1..(k - 1) \/ i = k
            BY <1>5, <3>1, <3>2, <3>3 DEF described
        <3>5. F[i] \in DOMAIN disk' /\ disk'[F[i]].run = r
            BY <1>1, <1>2, <1>4, <3>4
        <3>6. r >= r
            BY <1>1
        <3> QED
            BY <1>4, <2>1, <3>2, <3>5, <3>6 DEF described
    <2>2. CASE g # f
        <3>1. g \in DOMAIN disk /\ disk'[g] = disk[g]
            BY <1>1, <2>2
        <3>2. described = Files(Manifests[g[1]], read[disk[g].run])
            BY <1>3, <3>1
        <3>3. described[i] \in DOMAIN disk /\ disk[described[i]].run >= disk[g].run
            BY <3>1, <3>2 DEF IInv, ManifestIsLast
        <3> HIDE DEF F, f, r, described
        <3>4. disk'[described[i]] = disk[described[i]] \/ described[i] = f
            BY <1>1, <3>3
        <3>5. r >= disk[g].run
            BY <1>1, <1>6, <3>1
        <3> QED
            BY <1>1, <1>4, <3>1, <3>3, <3>4, <3>5 DEF described
    <2> QED
        BY <2>1, <2>2
<1> QED
    BY <1>7, <1>9, <1>10 DEF IInv

\* Every step of the model preserves the invariant.
LEMMA StepInv == IInv /\ [Next]_vars => IInv'
<1> SUFFICES ASSUME IInv, [Next]_vars PROVE IInv'
    OBVIOUS
<1>1. CASE \E traded \in SUBSET Symbols \ {{}} : NewSession(traded)
    BY <1>1, WorldInv
<1>2. CASE \E s \in Symbols, d \in 1..LastDay : LateBar(s, d)
    BY <1>2, WorldInv
<1>3. CASE \E e \in KnownActions \ actions : EnterAction(e)
    BY <1>3, WorldInv
<1>4. CASE Fetch
    BY <1>4, FetchInv
<1>5. CASE SaveBars
    BY <1>5, SaveBarsInv
<1>6. CASE \E p \in Programs : Start(p)
    BY <1>6, StartInv
<1>7. CASE Write
    BY <1>7, WriteInv
<1>8. CASE Raise \/ Die
    BY <1>8, EndInv
<1>9. CASE UNCHANGED vars
    BY <1>9 DEF vars, IInv, DataOK, JobOK, RunsOK, WrittenInOrder, ManifestIsLast
<1> QED
    BY <1>1, <1>2, <1>3, <1>4, <1>5, <1>6, <1>7, <1>8, <1>9 DEF Next

\* The invariant of the data directory, over every run, death and revision of
\* the data: each file is of a run that has read a vintage, and a program's
\* files are written in its order, the manifest last.
THEOREM Invariant == Spec => []IInv
<1>1. Init => IInv
    BY InitInv
<1>2. IInv /\ [Next]_vars => IInv'
    BY StepInv
<1> QED
    BY <1>1, <1>2, PTL DEF Spec

\* Every file that a manifest describes is on disk, of the manifest's own run
\* or a later one, however many programs died half way.
THEOREM ManifestsAreLast == Spec => []ManifestIsLast
<1>1. IInv => ManifestIsLast
    BY DEF IInv
<1> QED
    BY <1>1, Invariant, PTL

\* paper_pnl of baselines.py: a book earns its first return the session after
\* the one it is first held in, whatever signals it is compared with.
THEOREM PaperIsNotEarly == Spec => []PaperEarnsNextSession
<1>1. IInv => PaperEarnsNextSession
    <2> SUFFICES ASSUME IInv, NEW f \in DOMAIN disk, NEW signals,
                        NEW t \in ReturnRows(read[disk[f].run]),
                        NEW u \in EarnsFrom(ReturnRows(read[disk[f].run]), signals, t)
                 PROVE  NextSession(ReturnRows(read[disk[f].run]), u, t)
        BY DEF PaperEarnsNextSession
    <2>1. read[disk[f].run] \in Vintages
        BY DEF IInv, RunsOK
    <2>2. Published(read[disk[f].run])
        BY <2>1 DEF Vintages
    <2> QED
        BY <2>2, RowsAreFinite, EarnsLater
<1> QED
    BY <1>1, Invariant, PTL

\* No look-ahead in any file that any of the programs ever writes, for every
\* universe, history, revision and window.
THEOREM FilesReplayLive == Spec => LiveReplay
<1> DEFINE Written(g) == g \notin DOMAIN disk \/ disk[g] # disk'[g]
<1>1. ASSUME IInv, Next, NEW g \in DOMAIN disk', Written(g)
      PROVE  SameLiveFile(g, read[disk'[g].run], disk'[g].signal)
    <2> DEFINE v == read[Len(read)]
               F == Files(job.program, v)
    <2>1. Write
        <3>1. CASE disk' = disk
            BY <1>1, <3>1
        <3>2. CASE \E p \in Programs : Start(p)
            BY <1>1, <3>2 DEF Start
        <3> QED
            BY <1>1, <3>1, <3>2
               DEF Next, NewSession, LateBar, EnterAction, Fetch, SaveBars, Raise, Die
    <2>2. /\ Published(v) /\ Listing(job.program, v, F)
          /\ DOMAIN disk' = DOMAIN disk \cup {Head(job.todo)}
          /\ disk'[Head(job.todo)] = Content(Head(job.todo))
          /\ \A f \in DOMAIN disk : f # Head(job.todo) => disk'[f] = disk[f]
          /\ \E k \in 1..Len(F) : Head(job.todo) = F[k]
        BY <1>1, <2>1, WrittenFile
    <2>3. g = Head(job.todo) /\ disk'[g] = Content(g)
        BY <1>1, <2>2
    <2>4. disk'[g].run = Len(read) /\ Dated(v, g)
        BY <2>2, <2>3 DEF Content, Listing
    <2> HIDE DEF F
    <2>5. ASSUME g[1] \in RowFiles
          PROVE  \A t \in Rows(g[1], v) : SameLive(g[1], v, t)
        BY <2>2, <2>5, RowsOfFilesAreLive
    <2>6. ASSUME g[1] \in DatedFiles
          PROVE  /\ disk'[g].signal < g[2]
                 /\ Row(g[1], KnownBy(v, disk'[g].signal), disk'[g].signal)
                    = Row(g[1], v, disk'[g].signal)
        <3> DEFINE rows == IF g[1] = "weights" THEN WindowRows(v) ELSE ReturnRows(v)
        <3>1. g[2] \in DOMAIN WeightFiles(rows)
            BY <2>4, <2>6 DEF Dated
        <3>2. disk'[g].signal = WeightFiles(rows)[g[2]]
            BY <2>3, <2>6 DEF Content, DatedFiles
        <3>3. rows \in SUBSET Nat /\ IsFiniteSet(rows)
            BY <2>2, RowsAreFinite
        <3>4. disk'[g].signal \in rows /\ disk'[g].signal < g[2]
            <4> HIDE DEF rows
            <4> QED
                BY <3>1, <3>2, <3>3, WeightFilesAreLater
        <3> QED
            BY <2>2, <2>6, <3>4, BooksAreLive
    <2> QED
        BY <2>4, <2>5, <2>6 DEF SameLiveFile
<1>2. IInv /\ [Next]_vars =>
        [\A f \in DOMAIN disk' : (f \notin DOMAIN disk \/ disk[f] # disk'[f])
            => SameLiveFile(f, read[disk'[f].run], disk'[f].signal)]_vars
    BY <1>1
<1> QED
    BY <1>2, Invariant, PTL DEF Spec, LiveReplay
==============================================================================
