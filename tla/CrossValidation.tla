--------------------------- MODULE CrossValidation ---------------------------
(***************************************************************************)
(* Combinatorial purged cross-validation: purge_embargo.py, cpcv.py and    *)
(* the splits over events of meta_model.py.                                *)
(*                                                                         *)
(* An observation is an index; w[i] is its information window, the bars    *)
(* [start, end] that its label depends on.  Fractions of a series are      *)
(* given in percent.                                                       *)
(***************************************************************************)
EXTENDS Integers, FiniteSets

Smaller(a, b) == IF a < b THEN a ELSE b
-----------------------------------------------------------------------------
(* purge_embargo.py *)

Overlap(a, b) == a.start <= b.end /\ b.start <= a.end

DefaultWindows(n, holding) ==
    [i \in 0..(n - 1) |-> [start |-> i, end |-> i + holding]]

EmbargoSize(n, percent) == (n * percent) \div 100

\* mutant: only the entry bar of a training window is looked at
PurgeEntries(train, test, w) ==
    {j \in train : \A t \in test : ~(w[t].start <= w[j].start /\ w[j].start <= w[t].end)}

Purge(train, test, w) == {j \in train : \A t \in test : ~Overlap(w[j], w[t])}

\* On observations that are bars
Embargo(train, test, w, n, percent) ==
    LET size == EmbargoSize(n, percent)
    IN  {j \in train : \A t \in test :
            j \notin (w[t].end + 1)..Smaller(w[t].end + size, n - 1)}

PurgedTrain(n, test, w, percent) ==
    Embargo(Purge(0..(n - 1) \ test, test, w), test, w, n, percent)
-----------------------------------------------------------------------------
(* cpcv.py *)

\* mutant: the remainder belongs to no group
GroupStartNoRemainder(n, groups, g) == g * (n \div groups)

\* np.array_split: the first n % groups of the groups are one longer.
GroupStart(n, groups, g) == g * (n \div groups) + Smaller(g, n % groups)
Group(n, groups, g) == GroupStart(n, groups, g)..(GroupStart(n, groups, g + 1) - 1)

Combinations(groups, k) == {c \in SUBSET (0..(groups - 1)) : Cardinality(c) = k}

NumPaths(groups, k) == Cardinality({c \in SUBSET (1..(groups - 1)) : Cardinality(c) = k - 1})

\* The order in which itertools.combinations lists them
Earlier(c, d) ==
    \E m \in c \ d : \A x \in d \ c : m < x

\* A split is known by the groups it tests.
TestBars(n, groups, c) == UNION {Group(n, groups, g) : g \in c}

CpcvTrain(n, groups, c, percent, holding) ==
    PurgedTrain(n, TestBars(n, groups, c), DefaultWindows(n, holding), percent)

\* The split that supplies group g of path j: the j-th of those that test it
PathSplit(groups, k, j, g) ==
    LET of == {c \in Combinations(groups, k) : g \in c}
    IN  CHOOSE c \in of : Cardinality({d \in of : Earlier(d, c)}) = j

\* assemble_paths: bar t of path j is predicted by this split.
PathAt(n, groups, k, j, t) ==
    PathSplit(groups, k, j, CHOOSE g \in 0..(groups - 1) : t \in Group(n, groups, g))
-----------------------------------------------------------------------------
(* meta_model.py: observations are events, bars are another axis. *)

BarEmbargo(train, test, w, bars, percent) ==
    LET size == EmbargoSize(bars, percent)
    IN  {j \in train : \A t \in test :
            w[j].start \notin (w[t].end + 1)..(w[t].end + size)}

EventTrain(n, test, w, bars, percent) ==
    BarEmbargo(Purge(0..(n - 1) \ test, test, w), test, w, bars, percent)
=============================================================================
