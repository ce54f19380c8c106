----------------------------- MODULE ResearchRun -----------------------------
(***************************************************************************)
(* The research programs at work on one data directory: build_universe.py  *)
(* with and without --fetch, and the programs that read what it or another *)
(* program has written.  A program reads its input, computes, and writes   *)
(* its files one after the other, the manifest last; it may die between    *)
(* two writes, and what it has not rewritten stays from an earlier run.    *)
(*                                                                         *)
(* Between and during the runs the vendor publishes new sessions and late  *)
(* bars, and corporate actions are entered in the configuration.           *)
(***************************************************************************)
EXTENDS StatArb, Regime

CONSTANTS LastDay,    \* bound: trading days
          FirstDays,  \* days published before the model begins
          Gaps,       \* bound: <<symbol, day>> without a bar at first
          KnownActions,  \* bound: corporate actions that may be entered
          BlockGroups,   \* --n-groups of compare_allocators
          MaxRuns,       \* bound: programs that have read their input
          MaxDeaths      \* bound: programs that end before their time

ASSUME ResearchAssumption ==
    /\ FirstDays \in Nat /\ LastDay \in Nat
    /\ \A e \in KnownActions : e.date \in Nat

VARIABLES vendor,   \* external: the bars published, per symbol
          today,    \* the last session
          csv,      \* the bars saved per symbol, {} without a file
          actions,  \* the file of corporate actions
          disk,     \* file name |-> what it was made from
          job,      \* the program at work, what it has to write, what a fetch was served
          read,     \* history: the vintage that each run has read
          deaths    \* history: programs that ended before their time

vars == <<vendor, today, csv, actions, disk, job, read, deaths>>
world == <<vendor, today, actions>>

\* f with the value at x; TLC's @@ and :> are opaque to the prover
Put(f, x, value) == [y \in DOMAIN f \cup {x} |-> IF y = x THEN value ELSE f[y]]

Idle == [program |-> "none", todo |-> <<>>, served |-> <<>>]

\* external: the market proxy's file is kept up to date
OnDisk == [bars |-> csv, market |-> 1..today, actions |-> actions]

Init ==
    /\ today = FirstDays
    /\ vendor = [s \in Symbols |-> {d \in 1..FirstDays : <<s, d>> \notin Gaps}]
    /\ csv = [s \in Symbols |-> {}]
    /\ actions = {}
    /\ disk = [f \in {} |-> {}]
    /\ job = Idle
    /\ read = <<>> /\ deaths = 0
-----------------------------------------------------------------------------
(* The world.  No program reads anything twice that changes here, so what  *)
(* happens while one is at work may as well happen before it or after it:  *)
(* the bound job = Idle leaves these interleavings out.                    *)

\* A new session, in which a symbol may not trade, or its bar comes late
NewSession(traded) ==
    /\ job = Idle
    /\ today < LastDay
    /\ today' = today + 1
    /\ \A s \in Symbols \ traded : <<s, today + 1>> \in Gaps
    /\ vendor' = [s \in Symbols |-> vendor[s] \cup IF s \in traded THEN {today + 1} ELSE {}]
    /\ UNCHANGED <<csv, actions, disk, job, read, deaths>>

LateBar(s, d) ==
    /\ job = Idle
    /\ d \in 1..today \ vendor[s]
    /\ vendor' = [vendor EXCEPT ![s] = @ \cup {d}]
    /\ UNCHANGED <<today, csv, actions, disk, job, read, deaths>>

EnterAction(e) ==
    /\ job = Idle
    /\ actions' = actions \cup {e}
    /\ UNCHANGED <<vendor, today, csv, disk, job, read, deaths>>
-----------------------------------------------------------------------------
(* What each program writes, in order, from the vintage it has read.  A   *)
(* file is its name and its date, 0 when it has none.                      *)

Undated(names) == [i \in DOMAIN names |-> <<names[i], 0>>]

WeightFilesOf(kind, rows) ==
    LET dates == InOrder(DOMAIN WeightFiles(rows))
    IN  [i \in DOMAIN dates |-> <<kind, dates[i]>>]

\* mutant: the manifest is written before the files it describes
BuildUniverseManifestFirst(v) ==
    Undated(<<"universe_manifest", "universe_returns", "universe_standardized", "prices">>)

BuildUniverse(v) ==
    Undated(<<"universe_returns", "universe_standardized", "prices", "universe_manifest">>)

RollingPca(v) ==
    Undated(<<"eigen_spectrum", "factor_counts", "factor_returns", "rolling_pca_manifest">>)

Residuals(v) ==
    Undated(<<"residual_r2", "residual_market_beta", "residual_diagnostics",
              "residual_manifest">>)

OuScores(v) == Undated(<<"ou_sscore", "ou_kappa", "ou_speed_ok", "ou_manifest">>)

Signals(v) ==
    Undated(<<"signal_positions", "signal_weights", "signal_diagnostics">>)
    \o WeightFilesOf("weights", WindowRows(v))
    \o Undated(<<"signal_manifest">>)

Baselines(v) ==
    Undated(<<"baseline_reversal_positions", "baseline_reversal_weights">>)
    \o WeightFilesOf("weights_reversal", ReturnRows(v))
    \o Undated(<<"baseline_momentum_positions", "baseline_momentum_weights">>)
    \o WeightFilesOf("weights_momentum", ReturnRows(v))
    \o Undated(<<"baseline_manifest">>)

CompareAllocators(v) == Undated(<<"hrp_vs_mvo_summary">>)
RegimeFeatures(v) == Undated(<<"regime_features", "regime_manifest">>)
RegimeHmm(v) == Undated(<<"regime_states", "regime_hmm_manifest">>)
RegimeDebounce(v) == Undated(<<"regime_committed", "regime_debounce_manifest">>)

Files(p, v) ==
    CASE p = "build_universe"     -> BuildUniverse(v)
      [] p = "rolling_pca"        -> RollingPca(v)
      [] p = "residuals"          -> Residuals(v)
      [] p = "ou_sscore"          -> OuScores(v)
      [] p = "signals"            -> Signals(v)
      [] p = "baselines"          -> Baselines(v)
      [] p = "compare_allocators" -> CompareAllocators(v)
      [] p = "regime_features"    -> RegimeFeatures(v)
      [] p = "regime_hmm"         -> RegimeHmm(v)
      [] p = "regime_debounce"    -> RegimeDebounce(v)

ReturnsReaders ==
    {"rolling_pca", "residuals", "ou_sscore", "signals", "baselines", "compare_allocators"}

\* The file a program reads; build_universe and regime_features read raw bars.
Input ==
    [p \in ReturnsReaders \cup {"regime_hmm", "regime_debounce"} |->
        CASE p = "regime_hmm"      -> <<"regime_features", 0>>
          [] p = "regime_debounce" -> <<"regime_states", 0>>
          [] OTHER                 -> <<"universe_returns", 0>>]

Programs == DOMAIN Input \cup {"build_universe", "regime_features"}

\* The blocks of the comparison are cut from the rows that were held.
EnoughBlocks(v) == Cardinality(WalkForward(ReturnRows(v))) * Hold >= BlockGroups

\* The program gets to its first write: nothing it computes raises.
Computes(p, v) ==
    CASE p = "build_universe" ->
             ~HasNoVariance(v) /\ \A s \in Symbols : v.bars[s] # {}
      [] p \in {"rolling_pca", "residuals", "ou_sscore"} -> ~HasNoVariance(v)
      [] p = "signals" -> ~HasNoVariance(v) /\ WindowRows(v) # {}
      [] p = "baselines" -> ReturnRows(v) # {}
      [] p = "compare_allocators" -> EnoughBlocks(v)
      [] p = "regime_hmm" -> StateRows(v) # {}
      [] OTHER -> TRUE

\* The manifest names the first and the last row, which raises without rows, and
\* that of the scores their extremes, which raises when no fit is fast enough for
\* a score.  The other files are already written then.
Describable(p, v) ==
    CASE p \in {"build_universe", "rolling_pca", "residuals"} -> WindowRows(v) # {}
      [] p = "ou_sscore" ->
             \E t \in WindowRows(v), s \in Symbols : OuRow(v, t)[s].score # NotANumber
      [] p = "regime_features" -> FeatureRows(v) # {}
      [] OTHER -> TRUE
-----------------------------------------------------------------------------
(* The programs *)

CanStart == job = Idle /\ Len(read) < MaxRuns

\* main with --fetch: all pages of all symbols are read before anything is
\* saved; when the first feed is refused, the same is asked of the other.
Fetch ==
    /\ CanStart
    /\ job' = [program |-> "fetch", todo |-> SetToSeq(Symbols), served |-> vendor]
    /\ UNCHANGED <<world, csv, disk, read, deaths>>

Runs(p, v) ==
    /\ job' = [program |-> p, todo |-> Files(p, v), served |-> <<>>]
    /\ read' = Append(read, v)

\* The build follows the last file saved, and reads all of them again.
SaveBars ==
    /\ job.program = "fetch"
    /\ csv' = [csv EXCEPT ![Head(job.todo)] = job.served[Head(job.todo)]]
    /\ LET v == [OnDisk EXCEPT !.bars = csv']
       IN  IF Len(job.todo) > 1 THEN job' = [job EXCEPT !.todo = Tail(@)] /\ UNCHANGED read
           ELSE IF Computes("build_universe", v) THEN Runs("build_universe", v)
           ELSE job' = Idle /\ UNCHANGED read
    /\ UNCHANGED <<world, disk, deaths>>

\* A program whose input is missing, or whose computation raises, changes
\* nothing.
Start(p) ==
    /\ CanStart
    /\ p \in DOMAIN Input => Input[p] \in DOMAIN disk
    /\ LET v == IF p \in DOMAIN Input THEN read[disk[Input[p]].run] ELSE OnDisk
       IN  Computes(p, v) /\ Runs(p, v)
    /\ UNCHANGED <<world, csv, disk, deaths>>

\* What a file holds: the number of its run; a weight file the date of its
\* signal; the baselines' manifest the run whose stat-arb weights it has
\* compared with, when they are on disk.
Content(f) ==
    [run    |-> Len(read),
     signal |-> CASE f[1] = "weights" -> WeightFiles(WindowRows(read[Len(read)]))[f[2]]
                  [] f[1] \in {"weights_reversal", "weights_momentum"} ->
                         WeightFiles(ReturnRows(read[Len(read)]))[f[2]]
                  [] OTHER -> 0,
     compared |-> IF f[1] = "baseline_manifest" /\ <<"signal_weights", 0>> \in DOMAIN disk
                  THEN {disk[<<"signal_weights", 0>>].run} ELSE {}]

CanWrite ==
    Len(job.todo) = 1 => Describable(job.program, read[Len(read)])

Write ==
    /\ job.program \in Programs /\ CanWrite
    /\ disk' = Put(disk, Head(job.todo), Content(Head(job.todo)))
    /\ job' = IF Len(job.todo) > 1 THEN [job EXCEPT !.todo = Tail(@)] ELSE Idle
    /\ UNCHANGED <<world, csv, read, deaths>>

Raise ==
    /\ job.program \in Programs /\ ~CanWrite
    /\ job' = Idle
    /\ UNCHANGED <<world, csv, disk, read, deaths>>

\* The program is killed.
Die ==
    /\ job # Idle
    /\ deaths < MaxDeaths
    /\ job' = Idle
    /\ deaths' = deaths + 1
    /\ UNCHANGED <<world, csv, disk, read>>

Next ==
    \/ \E traded \in SUBSET Symbols \ {{}} : NewSession(traded)
    \/ \E s \in Symbols, d \in 1..LastDay : LateBar(s, d)
    \/ \E e \in KnownActions \ actions : EnterAction(e)
    \/ Fetch
    \/ SaveBars
    \/ \E p \in Programs : Start(p)
    \/ Write
    \/ Raise
    \/ Die

Spec == Init /\ [][Next]_vars
-----------------------------------------------------------------------------
(* Properties *)

\* The rows of a file, and what each holds
Rows(name, v) ==
    CASE name \in {"universe_returns", "baseline_reversal_positions",
                   "baseline_momentum_positions"} -> ReturnRows(v)
      [] name = "regime_features" -> FeatureRows(v)
      [] name \in {"regime_states", "regime_committed"} -> StateRows(v)
      [] OTHER -> WindowRows(v)

Row(name, v, t) ==
    CASE name = "universe_returns" -> ReturnsRow(v, t)
      [] name = "universe_standardized" -> StandardizedRow(v, t)
      [] name = "factor_returns" -> PcaRow(v, t)
      [] name = "residual_r2" -> ResidualRow(v, t)
      [] name = "ou_sscore" -> OuRow(v, t)
      [] name = "signal_positions" -> PositionRow(v, t)
      [] name = "signal_diagnostics" -> DiagnosticsRow(v, t)
      [] name = "weights" -> DollarNeutralRow(PositionRow(v, t))
      [] name = "baseline_reversal_positions" -> SignalPosition(v, "reversal", t)
      [] name = "baseline_momentum_positions" -> SignalPosition(v, "momentum", t)
      [] name = "weights_reversal" -> BaselineBook(v, "reversal", t)
      [] name = "weights_momentum" -> BaselineBook(v, "momentum", t)
      [] name = "regime_features" -> FeatureRow(v, t)
      [] name = "regime_states" -> RegimeState(v, t)
      [] name = "regime_committed" -> CommittedState(v, t)

DatedFiles == {"weights", "weights_reversal", "weights_momentum"}
RowFiles ==
    {"universe_returns", "universe_standardized", "factor_returns", "residual_r2", "ou_sscore",
     "signal_positions", "signal_diagnostics", "baseline_reversal_positions",
     "baseline_momentum_positions", "regime_features", "regime_states", "regime_committed"}

SameLive(name, v, t) ==
    LET known == KnownBy(v, t)
    IN  t \in Rows(name, known) /\ Row(name, known, t) = Row(name, v, t)

SameLiveFile(f, v, signal) ==
    /\ f[1] \in RowFiles => \A t \in Rows(f[1], v) : SameLive(f[1], v, t)
    /\ f[1] \in DatedFiles =>
          /\ signal < f[2]
          /\ Row(f[1], KnownBy(v, signal), signal) = Row(f[1], v, signal)

\* The no-look-ahead contract of build_universe.py, carried through every
\* program: each row of a file that is written, and the book of each weight
\* file, is what a run at the close of the row's own day would have computed
\* from the same bars, and the file of a book is dated later than that day.
LiveReplay ==
    [][\A f \in DOMAIN disk' :
          (f \notin DOMAIN disk \/ disk[f] # disk'[f])
          => SameLiveFile(f, read[disk'[f].run], disk'[f].signal)]_vars

\* A manifest never speaks of files it is newer than: whatever runs died half
\* way, each file that a manifest describes was written by the manifest's own
\* run or by a later one.
Manifests ==
    [universe_manifest |-> "build_universe", rolling_pca_manifest |-> "rolling_pca",
     residual_manifest |-> "residuals", ou_manifest |-> "ou_sscore",
     signal_manifest |-> "signals", baseline_manifest |-> "baselines",
     regime_manifest |-> "regime_features", regime_hmm_manifest |-> "regime_hmm",
     regime_debounce_manifest |-> "regime_debounce"]

ManifestIsLast ==
    \A f \in DOMAIN disk : f[1] \in DOMAIN Manifests =>
        LET described == Files(Manifests[f[1]], read[disk[f].run])
        IN  \A i \in DOMAIN described :
                described[i] \in DOMAIN disk /\ disk[described[i]].run >= disk[f].run

\* A book that uses row t is not held before the session after t, and earns
\* its first return the session after that: build_universe.py's contract for
\* those who read a row.  For the paper returns of the baselines, and of the
\* stat-arb weights they are compared with.
NextSession(rows, t, earned) == \E x \in rows : t < x /\ x < earned

PaperEarnsNextSession ==
    \A f \in {<<"baseline_manifest", 0>>} \cap DOMAIN disk :
        LET rows == ReturnRows(read[disk[f].run])
        IN  \A signals \in {rows} \cup {WindowRows(read[r]) : r \in disk[f].compared} :
                \A t \in rows : \A u \in EarnsFrom(rows, signals, t) : NextSession(rows, u, t)

\* The same contract for the walk-forward comparison of the allocators.
AllocatorsEarnNextSession ==
    \A f \in {<<"hrp_vs_mvo_summary", 0>>} \cap DOMAIN disk :
        LET rows == ReturnRows(read[disk[f].run])
        IN  \A b \in WalkForward(rows) : \A t \in b.held :
                NextSession(rows, Greatest(b.estimated), t)
=============================================================================
