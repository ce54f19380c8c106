----------------------------- MODULE ResultFiles -----------------------------
(***************************************************************************)
(* The files of backtest results and the programs that move, copy and read *)
(* them: scripts/organize_results.py (the organizer), data/                *)
(* organize_results.py and data/organize_plots.py (the movers), and        *)
(* analyze_organized.py, analyze_pairs_trading.py and                      *)
(* analyze_multi_strategy.py (the analysts).  They share directories and   *)
(* no lock: each lists a directory once and then works through the list,   *)
(* while the engine writes and the others move, copy or remove.            *)
(*                                                                         *)
(* A name is [kind, combo, stamp]: an equity curve, trade log or plot of   *)
(* one combination of symbol and strategy by the run of one time stamp, 0  *)
(* for a name without, as files from before there were stamps have.  A     *)
(* file is open while the engine writes it, and has rows under its header  *)
(* once it is closed, if there are any.                                    *)
(***************************************************************************)
EXTENDS Integers, FiniteSets, Sequences, TLC

CONSTANTS
    Combos,       \* [symbol, second, strategy]: second is "" but for a pair, and
                  \*   strategy is a sequence of words
    EngineRuns,   \* bound: the runs of the engine, each with its combinations in order,
                  \*   in none of which a backtest raises
    Leftovers,    \* bound: results without a time stamp that are there at first
    Trading,      \* the combinations whose trade log gets rows
    LogColumns,   \* external: the columns of the engine's trade log
    Panels,       \* panels of the comparison plot (4 in the code)
    PlotNames,    \* bound: the plots that may be drawn
    RunNames,     \* the names of organized runs, which may be used again
    MaxPrograms   \* bound: organizers, movers and analysts that are started

ASSUME ResultFilesAssumption ==
    /\ EngineRuns \in Seq(Seq({c \in Combos : c.strategy # <<>>})) /\ Trading \subseteq Combos
    /\ Leftovers \subseteq [kind : {"equity", "tradelog"}, combo : Combos, stamp : {0}]
    /\ Panels \in Nat /\ MaxPrograms \in Nat
    /\ \A name \in PlotNames : name.kind = "plot"

VARIABLES
    files,       \* <<directory, name>> |-> [rows, open]
    stamp,       \* of the last run of the engine
    engine,      \* the combinations it has left; the files of the first are open
    organizer,   \* the organizer at work
    mover,       \* the mover at work
    analyst,     \* the analyst at work
    summaries,   \* organized run |-> the names its run_summary counts
    report,      \* what analysis_report speaks of
    pairReport,  \* what pairs_trading_report speaks of
    pairPlots,   \* pair |-> the log its plots were drawn from
    table,       \* what analyze_multi_strategy has shown last
    written,     \* history: every name with a time stamp that was written
    cleaned,     \* history: an organizer has removed the originals
    programs     \* history: programs started

shown == <<report, pairReport, pairPlots, table>>
actors == <<organizer, mover, analyst>>
filesVars == <<files, stamp, engine, actors, summaries, shown, written, cleaned, programs>>

\* A directory is the tree it is in and the time stamp or run it is named after.
Results == <<"results", 0>>
Plots == <<"plots", 0>>
Misc == -1
Organized(run) == <<"organized", run>>

Has(dir, name) == <<dir, name>> \in DOMAIN files
\* What a glob finds, which does not look into other directories
Listing(dir, kinds) == {p[2] : p \in {p \in DOMAIN files : p[1] = dir /\ p[2].kind \in kinds}}
\* The first of a list (bound: every listing has the same order)
FirstOf(names) == CHOOSE n \in names : TRUE
NotEmpty(dir, kind) == {n \in Listing(dir, {kind}) : files[<<dir, n>>].rows}

NoFunction == [x \in {} |-> {}]
IdleOrganizer == [run |-> 0, stage |-> "idle", todo |-> {}, counted |-> {}, clean |-> FALSE]
IdleMover == [source |-> Results, todo |-> {}]
IdleAnalyst == [program |-> "none", run |-> 0, curves |-> NoFunction, todo |-> {}, results |-> {}]

FilesInit ==
    /\ files = [p \in {<<Results, n>> : n \in Leftovers} |-> [rows |-> TRUE, open |-> FALSE]]
    /\ stamp = 0 /\ engine = <<>>
    /\ organizer = IdleOrganizer /\ mover = IdleMover /\ analyst = IdleAnalyst
    /\ summaries = NoFunction
    /\ report = [run |-> 0, metrics |-> NoFunction, activity |-> NoFunction]
    /\ pairReport = [run |-> 0, pairs |-> NoFunction]
    /\ pairPlots = NoFunction
    /\ table = [rows |-> {}, compared |-> {}]
    /\ written = {} /\ cleaned = FALSE /\ programs = 0

\* f with value at every point of keys; TLC's @@ and :> are opaque to the prover
Put(f, keys, value) == [x \in DOMAIN f \cup keys |-> IF x \in keys THEN value ELSE f[x]]

Starts == programs < MaxPrograms /\ programs' = programs + 1
-----------------------------------------------------------------------------
(* The engine, multi_strategy_main.cpp: an OrderManager opens both files of *)
(* a combination, writes their headers, and closes them with what the       *)
(* combination has traded.                                                  *)

NamesOf(combos) == [kind : {"equity", "tradelog"}, combo : combos, stamp : {stamp'}]

Closed(fs) ==
    [p \in DOMAIN fs |->
        IF ~fs[p].open THEN fs[p]
        ELSE [rows |-> p[2].kind = "equity" \/ p[2].combo \in Trading, open |-> FALSE]]

\* The files of the combination before are closed, those of the next opened.
GoesOn(left) ==
    LET opened == NamesOf({left[i] : i \in {1} \cap DOMAIN left})
    IN  /\ engine' = left
        /\ files' = Put(Closed(files), {<<Results, n>> : n \in opened},
                        [rows |-> FALSE, open |-> TRUE])
        /\ written' = written \cup opened
        /\ UNCHANGED <<actors, summaries, shown, cleaned, programs>>

RunEngine ==
    /\ engine = <<>> /\ stamp < Len(EngineRuns)
    /\ stamp' = stamp + 1
    /\ GoesOn(EngineRuns[stamp'])

NextCombo ==
    /\ engine # <<>>
    /\ UNCHANGED stamp
    /\ GoesOn(Tail(engine))

\* external: the programs that plot a run that has ended
DrawPlot(name) ==
    /\ engine = <<>> /\ name.stamp \in {0, stamp}
    /\ ~Has(Plots, name) /\ name \notin written
    /\ files' = Put(files, {<<Plots, name>>}, [rows |-> TRUE, open |-> FALSE])
    /\ written' = written \cup IF name.stamp = 0 THEN {} ELSE {name}
    /\ UNCHANGED <<stamp, engine, actors, summaries, shown, cleaned, programs>>
-----------------------------------------------------------------------------
(* data/organize_results.py and data/organize_plots.py *)

\* Results without a time stamp stay where they are, plots go to misc.
ToMove(source) ==
    IF source = Results
    THEN {n \in Listing(Results, {"equity", "tradelog"}) : n.stamp # 0}
    ELSE Listing(Plots, {"plot"})
MovedTo(source, name) ==
    <<IF source = Results THEN "filed" ELSE "plots", IF name.stamp = 0 THEN Misc ELSE name.stamp>>

StartMover(source) ==
    /\ mover.todo = {} /\ Starts
    /\ mover' = [source |-> source, todo |-> ToMove(source)]
    /\ UNCHANGED <<files, stamp, engine, organizer, analyst, summaries, shown, written, cleaned>>

\* mutant: the file is copied and then removed
RenamedByCopy(fs, from, to) ==
    [p \in (DOMAIN fs \ {from}) \cup {to} |->
        IF p = to THEN [fs[from] EXCEPT !.open = FALSE] ELSE fs[p]]

\* A rename within one file system: a file that the engine has open stays open.
Renamed(fs, from, to) ==
    [p \in (DOMAIN fs \ {from}) \cup {to} |-> IF p = to THEN fs[from] ELSE fs[p]]

\* A file that is gone raises, which ends the mover.
MoveOne ==
    /\ mover.todo # {}
    /\ LET name == FirstOf(mover.todo)
           from == <<mover.source, name>>
       IN  IF from \in DOMAIN files
           THEN /\ files' = Renamed(files, from, <<MovedTo(mover.source, name), name>>)
                /\ mover' = [mover EXCEPT !.todo = @ \ {name}]
           ELSE mover' = IdleMover /\ UNCHANGED files
    /\ UNCHANGED <<stamp, engine, organizer, analyst, summaries, shown, written, cleaned, programs>>

MoverDies ==
    /\ mover.todo # {}
    /\ mover' = IdleMover
    /\ UNCHANGED <<files, stamp, engine, organizer, analyst, summaries, shown, written, cleaned,
                   programs>>
-----------------------------------------------------------------------------
(* scripts/organize_results.py *)

organizerOnly == <<stamp, engine, mover, analyst, shown, written>>

StartOrganizer(run, clean) ==
    /\ organizer.stage = "idle" /\ Starts
    /\ LET csv == Listing(Results, {"equity", "tradelog"})
       IN  organizer' = [run |-> run, stage |-> "csv", todo |-> csv, counted |-> csv, clean |-> clean]
    /\ UNCHANGED <<organizerOnly, files, summaries, cleaned>>

\* mutant: a file that is gone is skipped
CopyOneSkipping ==
    /\ organizer.todo # {}
    /\ LET equity == {n \in organizer.todo : n.kind = "equity"}
           name   == FirstOf(IF equity # {} THEN equity ELSE organizer.todo)
           from   == <<IF name.kind = "plot" THEN Plots ELSE Results, name>>
       IN  /\ organizer' = [organizer EXCEPT !.todo = @ \ {name}]
           /\ files' = IF from \notin DOMAIN files THEN files
                       ELSE Put(files, {<<Organized(organizer.run), name>>},
                                [files[from] EXCEPT !.open = FALSE])
    /\ UNCHANGED <<organizerOnly, summaries, cleaned, programs>>

\* Curves before logs.  What is copied of a file that is being written is its
\* header; a file that is gone raises, which ends the organizer.
CopyOne ==
    /\ organizer.todo # {}
    /\ LET equity == {n \in organizer.todo : n.kind = "equity"}
           name   == FirstOf(IF equity # {} THEN equity ELSE organizer.todo)
           from   == <<IF name.kind = "plot" THEN Plots ELSE Results, name>>
       IN  IF from \in DOMAIN files
           THEN /\ organizer' = [organizer EXCEPT !.todo = @ \ {name}]
                /\ files' = Put(files, {<<Organized(organizer.run), name>>},
                                [files[from] EXCEPT !.open = FALSE])
           ELSE organizer' = IdleOrganizer /\ UNCHANGED files
    /\ UNCHANGED <<organizerOnly, summaries, cleaned, programs>>

ListPlots ==
    /\ organizer.stage = "csv" /\ organizer.todo = {}
    /\ LET plots == Listing(Plots, {"plot"})
       IN  organizer' = [organizer EXCEPT !.stage = "plots", !.todo = plots, !.counted = @ \cup plots]
    /\ UNCHANGED <<organizerOnly, files, summaries, cleaned, programs>>

\* The counts are those of the listings.  The configuration and the README are
\* copied with the summary.
Summarize ==
    /\ organizer.stage = "plots" /\ organizer.todo = {}
    /\ summaries' = Put(summaries, {organizer.run}, organizer.counted)
    /\ organizer' = IF organizer.clean THEN [organizer EXCEPT !.stage = "clean"] ELSE IdleOrganizer
    /\ UNCHANGED <<organizerOnly, files, cleaned, programs>>

\* --clean: both trees with everything in them, listed or not
CleanUp ==
    /\ organizer.stage = "clean"
    /\ files' = [p \in {p \in DOMAIN files : p[1][1] = "organized"} |-> files[p]]
    /\ cleaned' = TRUE
    /\ organizer' = IdleOrganizer
    /\ UNCHANGED <<organizerOnly, summaries, programs>>

OrganizerDies ==
    /\ organizer.stage # "idle"
    /\ organizer' = IdleOrganizer
    /\ UNCHANGED <<organizerOnly, files, summaries, cleaned, programs>>
-----------------------------------------------------------------------------
(* analyze_organized.py *)

\* No other program reads what an analyst writes: one of them, started after all
\* organizers and movers of a behaviour, is enough (bound).
StartsLast == analyst = IdleAnalyst /\ programs = MaxPrograms - 1 /\ Starts

analystOnly == <<files, stamp, engine, organizer, mover, summaries, written, cleaned>>

IsPair(combo) == combo.second # ""

\* Names that the code spells out
IsSimple(name) ==
    /\ name.stamp = 0 /\ ~IsPair(name.combo)
    /\ name.combo.symbol \in {"AAPL", "GOOG", "MSFT", "SPY"}
    /\ name.combo.strategy =
           IF name.kind = "equity" /\ name.combo.symbol = "AAPL" THEN <<"current">> ELSE <<>>

\* Any other name without a strategy has too few parts, and is skipped.
HasKey(name) == IsSimple(name) \/ name.combo.strategy # <<>>

\* SYMBOL_STRATEGY, of which the strategy is its first word
OrganizedKey(name) ==
    IF IsSimple(name) THEN <<name.combo.symbol>> \o name.combo.strategy \o <<"Unknown">>
    ELSE IF IsPair(name.combo)
    THEN <<name.combo.symbol, name.combo.second, name.combo.strategy[1]>>
    ELSE <<name.combo.symbol, name.combo.strategy[1]>>

\* Of files with the same key, the last that is listed; any may be that.
Loaded(names) ==
    LET parsed == {n \in names : HasKey(n)}
        keys   == {OrganizedKey(n) : n \in parsed}
    IN  {f \in [keys -> parsed] : \A k \in keys : OrganizedKey(f[k]) = k}

LoadEquityCurves(run) ==
    /\ StartsLast
    /\ Listing(Organized(run), {"equity"}) # {}
    /\ \E curves \in Loaded(NotEmpty(Organized(run), "equity")) :
           analyst' = [IdleAnalyst EXCEPT !.program = "organized", !.run = run, !.curves = curves]
    /\ UNCHANGED <<analystOnly, shown>>

\* The log's rows are told apart, and added up, by columns that may be missing.
TradeActivity(log) ==
    [log |-> log, sides |-> "side" \in LogColumns, volume |-> "quantity" \in LogColumns,
     profit |-> "pnl" \in LogColumns]

\* What follows the symbol in a key names a panel of the comparison.
PanelsOf(curves) == {Tail(k) : k \in DOMAIN curves}

\* A curve from before strategies were in the names has no equity column
\* (results/equity_SPY.csv): it is plotted, but has no metrics.
HasEquity(curve) == curve.combo.strategy # <<>>

ReportOf(run, curves, logs) ==
    [run |-> run,
     metrics |-> [k \in {k \in DOMAIN curves : HasEquity(curves[k])} |-> curves[k]],
     activity |-> [k \in DOMAIN logs |-> TradeActivity(logs[k])]]

\* A panel too many raises before a plot or the report is written; without a
\* curve there is no report.
LoadLogsAndReport ==
    /\ analyst.program = "organized"
    /\ IF analyst.curves = NoFunction \/ Cardinality(PanelsOf(analyst.curves)) > Panels
       THEN UNCHANGED report
       ELSE \E logs \in Loaded(NotEmpty(Organized(analyst.run), "tradelog")) :
               report' = ReportOf(analyst.run, analyst.curves, logs)
    /\ analyst' = IdleAnalyst
    /\ UNCHANGED <<analystOnly, pairReport, pairPlots, table, programs>>
-----------------------------------------------------------------------------
(* analyze_pairs_trading.py *)

PairFiles(run, kind) == {n \in NotEmpty(Organized(run), kind) : IsPair(n.combo)}

\* The two legs are told apart by the log's symbol column.
PairActivity(log) == [legs |-> "symbol" \in LogColumns] @@ TradeActivity(log)

DetailedPlots(log) ==
    IF "symbol" \notin LogColumns THEN {}
    ELSE {"first_prices", "second_prices", "combined_activity", "price_distributions"}
         \cup IF "quantity" \in LogColumns THEN {"volumes", "volume_statistics"} ELSE {}

PairPlotsOf(log) == [log |-> log, plots |-> {"pairs_analysis"} \cup DetailedPlots(log)]

\* Every pair with a log is reported, with the curve of its pair when there is
\* one.
PairReportOf(run, logs, curves) ==
    [run   |-> run,
     pairs |-> [k \in DOMAIN logs |->
                   [activity |-> PairActivity(logs[k]),
                    curve |-> {curves[c] : c \in {k} \cap DOMAIN curves}]]]

\* Plots of pairs that are not in this report stay from earlier ones.
AnalyzePairs(run) ==
    /\ StartsLast
    /\ PairFiles(run, "tradelog") # {}
    /\ \E logs \in Loaded(PairFiles(run, "tradelog")), curves \in Loaded(PairFiles(run, "equity")) :
           /\ pairReport' = PairReportOf(run, logs, curves)
           /\ pairPlots' = [k \in DOMAIN logs |-> PairPlotsOf(logs[k])] @@ pairPlots
    /\ UNCHANGED <<analystOnly, analyst, report, table>>
-----------------------------------------------------------------------------
(* analyze_multi_strategy.py, on results (given as the run directory: those *)
(* that the mover makes hold no file, only directories)                     *)

\* A pair's log is looked for without a time stamp.
LogFor(curve) ==
    [curve EXCEPT !.kind = "tradelog", !.stamp = IF IsPair(curve.combo) THEN 0 ELSE @]

StartMultiStrategy ==
    /\ StartsLast
    /\ Listing(Results, {"equity"}) # {}
    /\ analyst' = [IdleAnalyst EXCEPT !.program = "multi", !.todo = Listing(Results, {"equity"})]
    /\ UNCHANGED <<analystOnly, shown>>

\* The metrics of one curve: none when it is empty, or gone since it was listed
ResultOf(curve) ==
    {[curve |-> n, log |-> LogFor(n)] : n \in {curve} \cap NotEmpty(Results, "equity")}

\* A curve without a log is left out, and so is one without a strategy, whose log
\* is looked for under a name that ends in an underscore.
TakeResult ==
    /\ analyst.program = "multi" /\ analyst.todo # {}
    /\ LET curve == FirstOf(analyst.todo)
       IN  analyst' = [analyst EXCEPT
                          !.todo = @ \ {curve},
                          !.results = @ \cup IF HasEquity(curve) /\ Has(Results, LogFor(curve))
                                             THEN ResultOf(curve) ELSE {}]
    /\ UNCHANGED <<analystOnly, shown, programs>>

\* A symbol with two results gets a comparison of its strategies.
Compared(results) ==
    {r.curve.combo.symbol : r \in
        {r \in results : \E q \in results \ {r} : q.curve.combo.symbol = r.curve.combo.symbol}}

ShowTable ==
    /\ analyst.program = "multi" /\ analyst.todo = {}
    /\ table' = IF analyst.results = {} THEN table
                ELSE [rows |-> analyst.results, compared |-> Compared(analyst.results)]
    /\ analyst' = IdleAnalyst
    /\ UNCHANGED <<analystOnly, report, pairReport, pairPlots, programs>>

FilesNext ==
    \/ RunEngine
    \/ NextCombo
    \/ \E name \in PlotNames : DrawPlot(name)
    \/ \E source \in {Results, Plots} : StartMover(source)
    \/ MoveOne
    \/ MoverDies
    \/ \E run \in RunNames, clean \in BOOLEAN : StartOrganizer(run, clean)
    \/ CopyOne
    \/ ListPlots
    \/ Summarize
    \/ CleanUp
    \/ OrganizerDies
    \/ \E run \in RunNames : LoadEquityCurves(run)
    \/ LoadLogsAndReport
    \/ \E run \in RunNames : AnalyzePairs(run)
    \/ StartMultiStrategy
    \/ TakeResult
    \/ ShowTable

FilesSpec == FilesInit /\ [][FilesNext]_filesVars
-----------------------------------------------------------------------------
(* Properties *)

BeingWritten(name) == name.stamp = stamp /\ \E i \in DOMAIN engine : engine[i] = name.combo

\* Until an organizer cleans up, whatever movers move while the engine writes
\* and whoever dies: every result and every plot with a time stamp is in its
\* tree, and once the engine is done with it it has the rows the engine wrote.
NothingLost ==
    cleaned \/ \A name \in written : \E p \in DOMAIN files :
        /\ p[2] = name /\ p[1][1] # "organized"
        /\ (name.kind = "equity" \/ name.combo \in Trading) /\ ~BeingWritten(name) =>
               files[p].rows

\* Every file that a run_summary counts was copied to its run and is there,
\* whatever movers and other organizers do meanwhile; so --clean, which comes
\* after the summary, removes nothing of what was listed that is not there.
SummaryCountsHeld ==
    \A run \in DOMAIN summaries : \A name \in summaries[run] : Has(Organized(run), name)
=============================================================================
