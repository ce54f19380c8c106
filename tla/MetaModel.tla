------------------------------ MODULE MetaModel ------------------------------
(***************************************************************************)
(* The meta-labelling pipeline on one version of the signals: labels, the  *)
(* weights of the samples, the out-of-sample scores and the sized books    *)
(* (triple_barrier.py, sample_uniqueness.py, build_meta_dataset.py,        *)
(* meta_model.py, meta_sizing.py).                                         *)
(*                                                                         *)
(* A version is [positions, prices], both from names and bars.  Prices are *)
(* on a scale where a return is a difference.  A fitted model is           *)
(* represented by the samples it was fitted on.                            *)
(***************************************************************************)
EXTENDS CrossValidation, Sequences, FiniteSetsExt

CONSTANTS Names,         \* the columns of the position frame, numbered
          NumBars,       \* its rows
          ProfitTake, StopLoss, MaxHolding,
          FirstFeatures, \* the first bar at which no feature is missing
          EmbargoPercent,
          Proba(_, _),   \* P(profitable): models, event |-> 0..FullSize
          FullSize, Floor

ASSUME MetaAssumption ==
    /\ Names \subseteq Nat /\ IsFiniteSet(Names)
    /\ NumBars \in Nat \ {0} /\ EmbargoPercent \in Nat
    /\ ProfitTake \in Nat \ {0} /\ StopLoss \in Nat \ {0} /\ MaxHolding \in Nat \ {0}
    /\ FullSize \in Nat /\ Floor \in 0..(FullSize - 1)

Bars == 0..(NumBars - 1)
Earliest(S) == CHOOSE x \in S : \A y \in S : x <= y
Latest(S) == CHOOSE x \in S : \A y \in S : y <= x
-----------------------------------------------------------------------------
(* triple_barrier.py *)

EntryEvents(position) ==
    {t \in Bars : /\ position[t] # 0
                  /\ t > 0 => position[t] # position[t - 1]}

Signed(price, side, t0, t) == side * (price[t] - price[t0])

\* The first bar that touches a barrier, else the horizon or the last bar.
TripleBarrier(price, side, t0) ==
    LET horizon == IF t0 + MaxHolding < NumBars THEN t0 + MaxHolding ELSE NumBars - 1
        touched == {t \in (t0 + 1)..horizon :
                       \/ Signed(price, side, t0, t) >= ProfitTake
                       \/ Signed(price, side, t0, t) <= -StopLoss}
        t1 == IF touched = {} THEN horizon ELSE Earliest(touched)
    IN  [t1 |-> t1, label |-> IF Signed(price, side, t0, t1) > 0 THEN 1 ELSE 0]
-----------------------------------------------------------------------------
(* build_meta_dataset.py and sample_uniqueness.py *)

LabelledEvents(v) ==
    UNION {{[name |-> x, t0 |-> t, side |-> v.positions[x][t],
             outcome |-> TripleBarrier(v.prices[x], v.positions[x][t], t)] :
               t \in EntryEvents(v.positions[x])} : x \in Names}

\* The events whose features are all there.  kappa, the regime and the
\* volatilities are those of the entry bar and are not looked into.
Dataset(v) == {e \in LabelledEvents(v) : e.t0 >= FirstFeatures}

Window(e) == [start |-> e.t0, end |-> e.outcome.t1]

\* Within a name: residual paths of different names do not overlap.
Concurrency(events, name, t) ==
    Cardinality({e \in events : e.name = name /\ e.t0 <= t /\ t <= e.outcome.t1})

\* What the average uniqueness is the average of
Uniqueness(events, e) ==
    [t \in e.t0..e.outcome.t1 |-> Concurrency(events, e.name, t)]
-----------------------------------------------------------------------------
(* meta_model.py *)

\* The stable order by entry bar of a frame that is ordered by name
Precedes(e, f) == e.t0 < f.t0 \/ (e.t0 = f.t0 /\ e.name < f.name)

InEntryOrder(events) ==
    [i \in 0..(Cardinality(events) - 1) |->
        CHOOSE e \in events : Cardinality({f \in events : Precedes(f, e)}) = i]

\* purged_cpcv_splits: what each combination of groups tests and trains on
Splits(events, groups, k) ==
    LET order == InEntryOrder(events)
        n == Cardinality(events)
        windows == [i \in DOMAIN order |-> Window(order[i])]
        TrainOf(c) == EventTrain(n, TestBars(n, groups, c), windows, NumBars, EmbargoPercent)
    IN  [c \in Combinations(groups, k) |->
            [test  |-> {order[i] : i \in TestBars(n, groups, c)},
             train |-> {order[i] : i \in TrainOf(c)}]]

\* train_cpcv and pooled_oos_proba: the models whose scores are averaged
ModelsOf(splits, e) == {c \in DOMAIN splits : e \in splits[c].test}

\* A sample is an event with its label and weight.
Samples(events, train) == {[event |-> e, weight |-> Uniqueness(events, e)] : e \in train}

\* A model without samples predicts NaN, and so does every mean it is in.
IsNaN(splits, e) == \E c \in ModelsOf(splits, e) : splits[c].train = {}

Score(events, splits, e) ==
    Proba({Samples(events, splits[c].train) : c \in ModelsOf(splits, e)}, e)
-----------------------------------------------------------------------------
(* meta_sizing.py *)

Clip(x) == IF x < 0 THEN 0 ELSE x

\* NaN is not at or above the floor; as a size it is on neither side of the
\* book, which is what a size of 0 is.  Mode off is of full size throughout.
SizeFromProba(mode, events, splits, e) ==
    IF IsNaN(splits, e) THEN 0
    ELSE IF mode = "gate" THEN IF Score(events, splits, e) >= Floor THEN FullSize ELSE 0
    ELSE (Clip(Score(events, splits, e) - Floor) * FullSize) \div (FullSize - Floor)

\* The events whose held run, begun at their entry, lasts until bar t
Covering(position, events, name, t) ==
    {e \in events : /\ e.name = name /\ e.t0 <= t
                    /\ \A u \in e.t0..t : position[u] = position[t]}

\* mutant: a run goes on through a flip, and keeps the size it began with
SizedPositionThroughFlips(positions, events, size, name, t) ==
    LET entries == {e \in events : /\ e.name = name /\ e.t0 <= t
                                   /\ \A u \in e.t0..t : positions[name][u] # 0}
        first == Earliest({e.t0 : e \in entries})
    IN  IF entries = {} THEN FullSize * positions[name][t]
        ELSE size[CHOOSE e \in entries : e.t0 = first] * positions[name][t]

\* apply_meta_sizes: full size without an event; a later event overwrites.
SizedPosition(positions, events, size, name, t) ==
    LET runs == Covering(positions[name], events, name, t)
        last == Latest({e.t0 : e \in runs})
    IN  IF runs = {} THEN FullSize * positions[name][t]
        ELSE size[CHOOSE e \in runs : e.t0 = last] * positions[name][t]

\* What the long side (s = 1) or the short side (s = -1) of a row is worth
Whole(row, s) == MapThenSumSet(LAMBDA x : s * row[x], {x \in Names : s * row[x] > 0})

\* A weight: its share <<part, whole>> of one side of the book, <<0, 1>> when flat
DollarNeutral(row) ==
    [x \in Names |->
        IF Whole(row, 1) > 0 /\ Whole(row, -1) > 0 /\ row[x] # 0
        THEN <<row[x], Whole(row, IF row[x] > 0 THEN 1 ELSE -1)>>
        ELSE <<0, 1>>]

\* meta_weights: the row of bar t
MetaBook(positions, events, size, t) ==
    DollarNeutral([x \in Names |-> SizedPosition(positions, events, size, x, t)])
=============================================================================
