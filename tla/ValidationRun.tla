---------------------------- MODULE ValidationRun ----------------------------
(***************************************************************************)
(* The validation programs at work on one data directory: the sweep of     *)
(* TrialRegistry, and the meta-labelling programs, build_meta_dataset.py,  *)
(* meta_sizing.py in each mode, the engine's audit of the books, and       *)
(* judge_meta.py.  Each reads what is on disk when it starts, which another *)
(* program may have written from an earlier version of the signals.        *)
(*                                                                         *)
(* What a meta program writes is read by no one before it has ended or     *)
(* died, so its writes are one step here that may stop half way.           *)
(***************************************************************************)
EXTENDS TrialRegistry, MetaModel

CONSTANTS Versions,   \* bound: the signals and returns there can be
          Updates,    \* bound: those that may replace others
          Folds,      \* --n-groups and -k, as <<groups, k>>
          MaxPrograms, \* bound: programs started
          Stops       \* bound: files that are written when a program dies

ASSUME ValidationAssumption ==
    /\ Updates \subseteq Versions
    /\ \A v \in Versions :
          /\ v.positions \in [Names -> [Bars -> {-1, 0, 1}]]
          /\ v.prices \in [Names -> [Bars -> Int]]
    /\ \A f \in Folds : f[1] \in Nat /\ f[2] \in 1..(f[1] - 1)

VARIABLES version,    \* history: the signals and returns of each version of the data
          dataset,    \* meta_dataset.parquet: its version, 0 without
          weights,    \* weights_meta_<mode>: of the file of each bar, what it was made from
          curves,     \* the audit's curves per mode: the files they were made from
          judged,     \* the judge's summary: what it was made from
          scored,     \* history: the last events scored out of sample, and their folds
          folds,      \* the arguments of the programs (bound: the same for all)
          programs    \* history: how many programs have started

metaVars == <<version, dataset, weights, curves, judged, scored, folds, programs>>
vars == <<registryVars, metaVars>>

Modes == <<"off", "gate", "size">>
ModeNames == {Modes[i] : i \in DOMAIN Modes}
NoFile == [positions |-> 0, dataset |-> 0, folds |-> <<0, 0>>]
\* A row's file is named after the next bar: the last row has none.
FileRows == 0..(NumBars - 2)
NoFiles == [t \in FileRows |-> NoFile]

Init ==
    /\ RegistryInit
    /\ version \in {<<v>> : v \in Versions}
    /\ dataset = 0
    /\ weights = [m \in ModeNames |-> NoFiles]
    /\ curves = [m \in ModeNames |-> NoFiles]
    /\ judged = NoFile
    /\ scored = NoFile
    /\ folds \in Folds
    /\ programs = 0

\* The sweep and the meta programs share nothing but the data: a behaviour has
\* one or the others (bound), as their order does not matter.
CanStart ==
    /\ sweep = NoSweep /\ Listed = {}
    /\ programs < MaxPrograms
    /\ programs' = programs + 1
HasDir(mode) == weights[mode] # NoFiles

\* A program's scores and sizes are functions of what it reads, tabulated here
\* for the versions that have as many events as the folds have groups.  (For TLC,
\* which evaluates the whole table when it compares it.)
Tabulated(f) == CHOOSE g \in {f} : g = g

Scorable == {in \in Versions \X Folds : Cardinality(Dataset(in[1])) >= in[2][1]}
SplitsOf ==
    Tabulated([in \in Scorable |-> Tabulated(Splits(Dataset(in[1]), in[2][1], in[2][2]))])
SizesOf ==
    Tabulated([mode \in {"gate", "size"}, in \in Scorable |->
        Tabulated([e \in Dataset(in[1]) |->
            SizeFromProba(mode, Dataset(in[1]), SplitsOf[in], e)])])

\* A program that runs to its end, or one more death
EndsOrDies(ends) ==
    \/ ends /\ UNCHANGED deaths
    \/ ~ends /\ deaths < MaxDeaths /\ deaths' = deaths + 1

-----------------------------------------------------------------------------
\* The stat-arb programs have run again: the registry's new data
NewSignals ==
    /\ NewData
    /\ \E v \in Updates : version' = Append(version, v)
    /\ UNCHANGED <<dataset, weights, curves, judged, scored, folds, programs>>

\* partition_groups raises when there are fewer events than groups.
CanScore(d) ==
    d # 0 /\ Cardinality(Dataset(version[d])) >= folds[1]

\* Without any event the frame has no columns, which raises; without enough
\* events to evaluate, the dataset is written all the same.
BuildMetaDataset ==
    /\ CanStart
    /\ LabelledEvents(version[data]) # {}
    /\ dataset' = data
    /\ scored' = IF CanScore(data)
                 THEN [positions |-> data, dataset |-> data, folds |-> folds] ELSE scored
    /\ UNCHANGED <<registryVars, version, weights, curves, judged, folds>>

\* write_weight_files: one file after the other, none is removed.
MetaSizing(mode, upto) ==
    /\ CanStart
    /\ mode # "off" => CanScore(dataset)
    /\ EndsOrDies(upto = NumBars - 1)
    /\ LET made == IF mode = "off" THEN [NoFile EXCEPT !.positions = data]
                   ELSE [positions |-> data, dataset |-> dataset, folds |-> folds]
       IN  /\ weights' = [weights EXCEPT ![mode] = [t \in FileRows |-> IF t < upto THEN made ELSE @[t]]]
           /\ scored' = IF mode = "off" THEN scored ELSE made
    /\ UNCHANGED <<data, returnsFile, paramsFile, sweep, verdict, cut,
                   version, dataset, curves, judged, folds>>

\* run_engine_b: the tool runs mode by mode and fails on a directory that is
\* not there, which ends the run.
RunEngineB(upto) ==
    /\ CanStart
    /\ \A i \in 1..upto : HasDir(Modes[i])
    /\ EndsOrDies(~(upto < Len(Modes) /\ HasDir(Modes[upto + 1])))
    /\ curves' = [m \in ModeNames |->
                    IF \E i \in 1..upto : Modes[i] = m THEN weights[m] ELSE curves[m]]
    /\ UNCHANGED <<data, returnsFile, paramsFile, sweep, verdict, cut,
                   version, dataset, weights, judged, scored, folds>>

\* engine_b_table leaves out a mode without curves; the summary looks up all
\* three, and raises before it is written.
CurvesThere == \A m \in ModeNames : curves[m] # NoFiles

\* The three lenses of the summary: the deflated Sharpe ratio is of the scored
\* books, the importance of the dataset; the curves may be of other books.
Judgement == [positions |-> data, dataset |-> dataset, folds |-> folds]

\* judge_meta without --run-engine-b
JudgeMeta ==
    /\ CanStart
    /\ CanScore(dataset)
    /\ CurvesThere
    /\ judged' = Judgement
    /\ scored' = judged'
    /\ UNCHANGED <<registryVars, version, dataset, weights, curves, folds>>

Sweep ==
    /\ programs = 0
    /\ \/ StartSweep \/ OpenReturns \/ LogReturns \/ OpenParams \/ LogParams
       \/ Deflate \/ SweepDies
    /\ UNCHANGED metaVars

Next ==
    \/ NewSignals
    \/ BuildMetaDataset
    \/ \E m \in ModeNames, upto \in Stops \cup {NumBars - 1} : MetaSizing(m, upto)
    \/ \E upto \in 0..Len(Modes) : RunEngineB(upto)
    \/ JudgeMeta
    \/ Sweep

Spec == Init /\ [][Next]_vars
-----------------------------------------------------------------------------
(* Properties *)

\* The events a book is sized by: all entries at full size in mode off
BookEvents(mode, made) ==
    IF mode = "off" THEN LabelledEvents(version[made.positions])
    ELSE Dataset(version[made.dataset])
BookSizes(mode, made) ==
    IF mode = "off" THEN [e \in BookEvents(mode, made) |-> FullSize]
    ELSE SizesOf[mode, <<version[made.dataset], made.folds>>]

\* The same prices, but for one bar
OtherPrices(price, t) == {[price EXCEPT ![t] = x] : x \in -2..2}

\* What is known of an event is not told by what it is scored with: whatever
\* the prices of the event's own bars had been, the labels of all the events
\* its models were fitted on would be the same, and these begin later than the
\* embargo after it.
LeakFreeSplits(splits, prices) ==
    \A c \in DOMAIN splits : \A e \in splits[c].test, f \in splits[c].train :
        /\ (e.t0..e.outcome.t1) \cap (f.t0..f.outcome.t1) = {}
        /\ f.t0 > e.outcome.t1 =>
               f.t0 - e.outcome.t1 > EmbargoSize(NumBars, EmbargoPercent)
        /\ f.name = e.name =>
               \A t \in e.t0..e.outcome.t1 : \A p \in OtherPrices(prices[f.name], t) :
                   TripleBarrier(p, f.side, f.t0) = f.outcome

LeakFreeOf == Tabulated([in \in Scorable |-> LeakFreeSplits(SplitsOf[in], in[1].prices)])

InputOf(made) == <<version[made.dataset], made.folds>>

\* For every score that is computed, whichever program computes it: it is out
\* of sample (purged_cpcv_splits, "no leakage can inflate it").
LeakFree == [][scored' # scored => LeakFreeOf[InputOf(scored')]]_vars

\* Each event is tested by as many splits as there are paths, and a path takes
\* every bar from a split that tests it, no two paths from the same one: the
\* counts in cpcv.py's heading.  What that split was trained on ends before the
\* bar, or begins after its holding period and the embargo.
Tiles(events, splits, n, k) ==
    LET paths == 0..(NumPaths(n, k) - 1)
        At(j, t) == PathAt(NumBars, n, k, j, t)
    IN  /\ \A e \in events : Cardinality(ModelsOf(splits, e)) = NumPaths(n, k)
        /\ \A t \in Bars, i, j \in paths :
               t \in TestBars(NumBars, n, At(j, t)) /\ (At(i, t) = At(j, t) => i = j)
        /\ \A t \in Bars, j \in paths :
               \A u \in CpcvTrain(NumBars, n, At(j, t), EmbargoPercent, MaxHolding) :
                   \/ u + MaxHolding < t
                   \/ u > t + MaxHolding + EmbargoSize(NumBars, EmbargoPercent)

TilesOf ==
    Tabulated([in \in Scorable |-> Tiles(Dataset(in[1]), SplitsOf[in], in[2][1], in[2][2])])

PathsTile == [][scored' # scored => TilesOf[InputOf(scored')]]_vars

EntryOf(position, t) ==
    CHOOSE u \in 0..t : /\ \A b \in u..t : position[b] = position[t]
                        /\ u > 0 => position[u - 1] # position[t]

\* The decision of a bet is that of its entry, for as long as it is held: the
\* book of each bar holds each name in the size scored for the entry event of
\* the run that the bar is in (full size when that event was not scored), and
\* the two sides of the book are worth the same, or it is flat.  For books
\* made with the dataset of the same positions.
EntrySized(mode, made, t) ==
    LET v == version[made.positions]
        events == BookEvents(mode, made)
        size == BookSizes(mode, made)
        book == MetaBook(v.positions, events, size, t)
        own(x) == {e \in events : e.name = x /\ e.t0 = EntryOf(v.positions[x], t)}
        expected == [x \in Names |->
            (IF own(x) = {} THEN FullSize ELSE size[CHOOSE e \in own(x) : TRUE]) * v.positions[x][t]]
        flat == ~(Whole(expected, 1) > 0 /\ Whole(expected, -1) > 0)
    IN  \A x \in Names :
            IF flat \/ expected[x] = 0 THEN book[x][1] = 0
            ELSE book[x] = <<expected[x], Whole(expected, IF expected[x] > 0 THEN 1 ELSE -1)>>

BetsKeepTheirSize ==
    [][\A m \in ModeNames, t \in FileRows :
          (/\ weights'[m][t] # weights[m][t]
           /\ m = "off" \/ weights'[m][t].dataset = weights'[m][t].positions)
          => EntrySized(m, weights'[m][t], t)]_vars
=============================================================================
