---------------------------- MODULE TrialRegistry ----------------------------
(***************************************************************************)
(* The registry of trials and the deflated Sharpe ratio of a parameter     *)
(* sweep: trial_registry.py, deflate_registry and deflate_qr4.py.          *)
(*                                                                         *)
(* A trial is two files, the return series and then the parameters, which  *)
(* list it.  Each is overwritten in place: from the moment it is opened    *)
(* until it is closed it cannot be read, and a sweep that is killed in     *)
(* between leaves it like that.  A sweep logs every configuration again,   *)
(* whatever earlier sweeps have logged, and then deflates what the         *)
(* registry lists.  It reads its data once, and new data may arrive at any *)
(* time.  A series is represented by the version of the data it was        *)
(* computed from.                                                          *)
(***************************************************************************)
EXTENDS Integers, Sequences

CONSTANTS Configurations,  \* what params can be
          Grid,            \* the configurations of a sweep, in its order
          MaxVersions,     \* bound: versions of the data
          MaxDeaths        \* bound: sweeps that die

ASSUME GridAssumption ==
    /\ Grid \in Seq(Configurations) /\ Grid # <<>>
    /\ MaxVersions \in Nat /\ MaxDeaths \in Nat

VARIABLES data,         \* the version of the returns on disk
          returnsFile,  \* <trial_id>.returns.parquet: its version, or Missing or Torn
          paramsFile,   \* <trial_id>.params.json: version of its Sharpe, or Missing or Torn
          sweep,        \* the sweep at work: version read, place in Grid, stage of log
          verdict,      \* the summary: version of the sweep, and of each trial's series
          cut,          \* history: trials that a sweep died in and none has logged since
          deaths        \* history: how many sweeps died

registryVars == <<data, returnsFile, paramsFile, sweep, verdict, cut, deaths>>

Missing == 0
Torn == -1

\* A sweep runs a configuration; log then has the series open, has closed it,
\* has the parameters open.
Stages == {"run", "series", "between", "params"}
NoSweep == [version |-> 0, at |-> 0, stage |-> "run"]
Swept == {Grid[i] : i \in DOMAIN Grid}

RegistryInit ==
    /\ data = 1
    /\ returnsFile = [c \in Configurations |-> Missing]
    /\ paramsFile = [c \in Configurations |-> Missing]
    /\ sweep = NoSweep
    /\ verdict = [version |-> 0, trials |-> <<>>]
    /\ cut = {}
    /\ deaths = 0

\* build_universe has run again.
NewData ==
    /\ data < MaxVersions
    /\ data' = data + 1
    /\ UNCHANGED <<returnsFile, paramsFile, sweep, verdict, cut, deaths>>

StartSweep ==
    /\ sweep = NoSweep
    /\ sweep' = [version |-> data, at |-> 1, stage |-> "run"]
    /\ UNCHANGED <<data, returnsFile, paramsFile, verdict, cut, deaths>>

Sweeping == sweep # NoSweep /\ sweep.at <= Len(Grid)

\* trial_ids
Listed == {c \in Configurations : paramsFile[c] # Missing}

\* mutant: a configuration that is in the registry is not run again
OpenReturnsOnce ==
    /\ Sweeping /\ sweep.stage = "run"
    /\ IF Grid[sweep.at] \in Listed
       THEN sweep' = [sweep EXCEPT !.at = @ + 1] /\ UNCHANGED returnsFile
       ELSE /\ returnsFile' = [returnsFile EXCEPT ![Grid[sweep.at]] = Torn]
            /\ sweep' = [sweep EXCEPT !.stage = "series"]
    /\ UNCHANGED <<data, paramsFile, verdict, cut, deaths>>

\* mutant: the trial is listed before its series is written
OpenReturnsListed ==
    /\ Sweeping /\ sweep.stage = "run"
    /\ paramsFile' = [paramsFile EXCEPT ![Grid[sweep.at]] = Torn]
    /\ sweep' = [sweep EXCEPT !.stage = "series"]
    /\ UNCHANGED <<data, returnsFile, verdict, cut, deaths>>

\* log, to_parquet: the series overwrites that of an earlier sweep,
OpenReturns ==
    /\ Sweeping /\ sweep.stage = "run"
    /\ returnsFile' = [returnsFile EXCEPT ![Grid[sweep.at]] = Torn]
    /\ sweep' = [sweep EXCEPT !.stage = "series"]
    /\ UNCHANGED <<data, paramsFile, verdict, cut, deaths>>

LogReturns ==
    /\ sweep.stage = "series"
    /\ returnsFile' = [returnsFile EXCEPT ![Grid[sweep.at]] = sweep.version]
    /\ sweep' = [sweep EXCEPT !.stage = "between"]
    /\ UNCHANGED <<data, paramsFile, verdict, cut, deaths>>

\* and write_text: so do the parameters, which are empty at first.
OpenParams ==
    /\ sweep.stage = "between"
    /\ paramsFile' = [paramsFile EXCEPT ![Grid[sweep.at]] = Torn]
    /\ sweep' = [sweep EXCEPT !.stage = "params"]
    /\ UNCHANGED <<data, returnsFile, verdict, cut, deaths>>

LogParams ==
    /\ sweep.stage = "params"
    /\ paramsFile' = [paramsFile EXCEPT ![Grid[sweep.at]] = sweep.version]
    /\ sweep' = [sweep EXCEPT !.at = @ + 1, !.stage = "run"]
    /\ cut' = cut \ {Grid[sweep.at]}
    /\ UNCHANGED <<data, returnsFile, verdict, deaths>>

\* load
Loads(c) == returnsFile[c] > 0 /\ paramsFile[c] > 0

\* load_all reads both files of every listed trial, and raises without one.
Deflate ==
    /\ sweep.at = Len(Grid) + 1
    /\ verdict' = IF \A c \in Listed : Loads(c)
                  THEN [version |-> sweep.version, trials |-> [c \in Listed |-> returnsFile[c]]]
                  ELSE verdict
    /\ sweep' = NoSweep
    /\ UNCHANGED <<data, returnsFile, paramsFile, cut, deaths>>

\* The trial in the sweep's hands, from when its series is opened
InHand == IF sweep.stage = "run" THEN {} ELSE {Grid[sweep.at]}

\* Killed, at any stage: a file that is open stays torn.
SweepDies ==
    /\ sweep # NoSweep
    /\ deaths < MaxDeaths
    /\ deaths' = deaths + 1
    /\ cut' = cut \cup InHand
    /\ sweep' = NoSweep
    /\ UNCHANGED <<data, returnsFile, paramsFile, verdict>>
-----------------------------------------------------------------------------
(* Properties *)

\* A sweep that is killed spoils no trial but the one in its hands.  Every
\* other listed trial can be loaded, and the Sharpe ratio beside its parameters
\* is that of its series.  Of any listed trial the series comes first: there
\* is a file of it, and one that can be read is never older than a Sharpe ratio
\* that can be read (sharpes()).
UncutTrialsLoad ==
    \A c \in Listed :
        /\ returnsFile[c] # Missing
        /\ Loads(c) => paramsFile[c] <= returnsFile[c]
        /\ c \notin cut \cup InHand => Loads(c) /\ paramsFile[c] = returnsFile[c]

\* A sweep that gets to its deflation writes its summary: whatever torn files
\* the sweeps that died have left, it has written them anew.
SweepsRecover ==
    [][sweep # NoSweep /\ sweep.at > Len(Grid) /\ sweep' # sweep /\ deaths' = deaths
          => verdict'.version = sweep.version]_registryVars

\* The summary deflates against every configuration of the sweep, and against
\* series that were all computed from the data the sweep has read: nothing
\* left by an earlier or a dead sweep stands in for a trial of this one.
DeflatesThisSweep ==
    verdict.version # 0 =>
        /\ DOMAIN verdict.trials = Swept
        /\ \A c \in Swept : verdict.trials[c] = verdict.version
=============================================================================
