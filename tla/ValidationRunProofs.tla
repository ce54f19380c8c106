------------------------- MODULE ValidationRunProofs -------------------------
(***************************************************************************)
(* The validation programs, for every grid, panel, price history, number   *)
(* of folds and classifier, however often the data changes and whatever    *)
(* dies half way, with a file of a trial open too: no trial is spoilt but  *)
(* the one that a sweep died in (TrialsLoadUnlessCut); a later sweep that  *)
(* gets to its end deflates all the same (SweepsAlwaysRecover), and the    *)
(* trials of its own (SweepDeflated); every score is out of sample         *)
(* (ScoresAreOutOfSample); each event has a model per path and each bar of *)
(* a path its own split (PathsTileTheBars); and a bet keeps the size of    *)
(* its entry (BetsAreKept).                                                *)
(*                                                                         *)
(* The invariant is of the files: none is of a later version than the data *)
(* or what the sweep at work has read, the sweep has brought all before    *)
(* its place in the grid to its own version, but for the file it has open  *)
(* again, and of the trial in its hands the series comes first; and what   *)
(* the meta programs read is of versions that there have been. The rest is *)
(* about the operators: events and combinations are listed by a strict     *)
(* total order (LEMMA Ranks), the groups of a split are a partition        *)
(* (OneGroup), a label looks no further than the bar that decides it       *)
(* (LabelsLookNoFurther), and of the events of a name only the entry of    *)
(* the run a bar is in covers it (CoveringIsEntry).                        *)
(***************************************************************************)
EXTENDS ValidationRun, FiniteSetTheorems, WellFoundedInduction, TLAPS

\* What a file of a trial can hold: a version, or it is missing or torn
Contents == Nat \cup {Torn}

\* The registry and the sweep at work
TypeOK ==
    /\ data \in Nat \ {0} /\ deaths \in Nat
    /\ returnsFile \in [Configurations -> Contents]
    /\ paramsFile \in [Configurations -> Contents]
    /\ sweep \in [version : Nat, at : Nat, stage : Stages]
    /\ sweep = NoSweep \/ (sweep.version \in 1..data /\ sweep.at \in 1..(Len(Grid) + 1))
    /\ sweep.stage # "run" => sweep # NoSweep /\ sweep.at <= Len(Grid)

\* Nothing is newer than the data, nor than what the sweep at work has read.
VersionsInOrder ==
    \A c \in Configurations :
        /\ paramsFile[c] <= data /\ returnsFile[c] <= data
        /\ sweep # NoSweep => paramsFile[c] <= sweep.version /\ returnsFile[c] <= sweep.version

\* What the sweep has logged so far, but for what it has open again, is of its
\* own version, and so is the series it has closed last.
LoggedIsCurrent ==
    /\ \A i \in 1..Len(Grid) : i < sweep.at /\ Grid[i] \notin InHand =>
           returnsFile[Grid[i]] = sweep.version /\ paramsFile[Grid[i]] = sweep.version
    /\ sweep.stage \in {"between", "params"} => returnsFile[Grid[sweep.at]] = sweep.version

\* No trial is of another grid.
ListedIsSwept == \A c \in Configurations : paramsFile[c] # Missing => c \in Swept

\* The registry
RegistryInv ==
    /\ TypeOK
    /\ VersionsInOrder
    /\ LoggedIsCurrent
    /\ ListedIsSwept
    /\ UncutTrialsLoad
    /\ DeflatesThisSweep
------------------------------------------------------------------------------
\* The grid lists configurations.
LEMMA GridElements ==
    /\ Len(Grid) \in Nat \ {0}
    /\ DOMAIN Grid = 1..Len(Grid)
    /\ \A i \in 1..Len(Grid) : Grid[i] \in Configurations
BY GridAssumption

\* A sweep runs configurations of the registry.
LEMMA SweptConfigurations == Swept \subseteq Configurations
BY GridElements DEF Swept

\* The invariant holds of an empty registry.
LEMMA RegistryInitInv == RegistryInit => RegistryInv
<1> SUFFICES ASSUME RegistryInit PROVE RegistryInv
    OBVIOUS
<1> USE DEF RegistryInit, NoSweep, Missing
<1>1. TypeOK
    BY DEF TypeOK, Contents, Stages
<1>2. VersionsInOrder /\ LoggedIsCurrent /\ ListedIsSwept
    BY GridElements DEF VersionsInOrder, LoggedIsCurrent, ListedIsSwept
<1>3. UncutTrialsLoad /\ DeflatesThisSweep
    BY DEF UncutTrialsLoad, Listed, DeflatesThisSweep
<1> QED
    BY <1>1, <1>2, <1>3 DEF RegistryInv

\* A sweep with a trial in its hands is at a place of its grid.
LEMMA TrialInHand ==
    ASSUME RegistryInv, sweep.stage # "run" \/ Sweeping
    PROVE  /\ sweep # NoSweep /\ sweep.version \in 1..data
           /\ sweep.at \in 1..Len(Grid) /\ Grid[sweep.at] \in Configurations
BY GridElements DEF RegistryInv, TypeOK, Sweeping

\* A sweep that gets to its deflation has brought every trial of its grid to
\* its own version, and the registry lists no other.
LEMMA SweptAreCurrent ==
    ASSUME RegistryInv, sweep # NoSweep, sweep.at > Len(Grid)
    PROVE  /\ sweep.stage = "run" /\ sweep.version > 0
           /\ \A c \in Swept : returnsFile[c] = sweep.version /\ paramsFile[c] = sweep.version
           /\ Listed = Swept
<1> USE GridElements
<1>1. sweep.at \in Nat /\ sweep.stage = "run" /\ sweep.version \in 1..data
    BY DEF RegistryInv, TypeOK
<1>2. \A c \in Swept : returnsFile[c] = sweep.version /\ paramsFile[c] = sweep.version
    BY <1>1 DEF RegistryInv, LoggedIsCurrent, InHand, Swept
<1>3. Listed = Swept
    BY <1>1, <1>2, SweptConfigurations DEF Listed, Missing, RegistryInv, TypeOK, ListedIsSwept
<1> QED
    BY <1>1, <1>2, <1>3

\* No write, death or new version of the data breaks it.
LEMMA RegistryStep ==
    ASSUME RegistryInv,
           \/ NewData \/ StartSweep \/ OpenReturns \/ LogReturns \/ OpenParams \/ LogParams
           \/ Deflate \/ SweepDies
           \/ /\ UNCHANGED <<data, returnsFile, paramsFile, sweep, verdict, cut>>
              /\ deaths' \in {deaths, deaths + 1}
    PROVE  RegistryInv'
<1> USE GridElements, SweptConfigurations
<1>1. CASE NewData
    <2> USE <1>1 DEF NewData
    <2>1. TypeOK'
        BY DEF RegistryInv, TypeOK
    <2>2. VersionsInOrder'
        BY DEF RegistryInv, TypeOK, VersionsInOrder, Contents, Torn
    <2>3. (LoggedIsCurrent /\ ListedIsSwept)'
        BY DEF RegistryInv, LoggedIsCurrent, InHand, ListedIsSwept
    <2>4. (UncutTrialsLoad /\ DeflatesThisSweep)'
        BY DEF RegistryInv, UncutTrialsLoad, Listed, Loads, InHand, DeflatesThisSweep
    <2> QED
        BY <2>1, <2>2, <2>3, <2>4 DEF RegistryInv
<1>2. CASE StartSweep
    <2> USE <1>2 DEF StartSweep
    <2>1. TypeOK'
        BY DEF RegistryInv, TypeOK, Stages
    <2>2. VersionsInOrder'
        BY DEF RegistryInv, TypeOK, VersionsInOrder
    <2>3. (LoggedIsCurrent /\ ListedIsSwept)'
        BY DEF RegistryInv, LoggedIsCurrent, ListedIsSwept
    <2>4. InHand = {} /\ InHand' = {}
        BY DEF InHand, NoSweep
    <2>5. (UncutTrialsLoad /\ DeflatesThisSweep)'
        BY <2>4 DEF RegistryInv, UncutTrialsLoad, Listed, Loads, DeflatesThisSweep
    <2> QED
        BY <2>1, <2>2, <2>3, <2>5 DEF RegistryInv
<1>3. CASE OpenReturns
    <2> DEFINE here == Grid[sweep.at]
    <2>1. /\ sweep # NoSweep /\ sweep.version \in 1..data /\ sweep.at \in 1..Len(Grid)
          /\ here \in Configurations /\ sweep.stage = "run"
        BY <1>3, TrialInHand DEF OpenReturns
    <2>2. /\ returnsFile' = [returnsFile EXCEPT ![here] = Torn]
          /\ sweep' = [sweep EXCEPT !.stage = "series"]
          /\ UNCHANGED <<data, paramsFile, verdict, cut, deaths>>
        BY <1>3 DEF OpenReturns
    <2>3. /\ sweep'.version = sweep.version /\ sweep'.at = sweep.at /\ sweep'.stage = "series"
          /\ sweep' # NoSweep
        BY <2>1, <2>2 DEF RegistryInv, TypeOK, NoSweep
    <2>4. InHand = {} /\ InHand' = {here}
        BY <2>1, <2>3 DEF InHand
    <2>5. \A c \in Configurations : returnsFile'[c] = IF c = here THEN Torn ELSE returnsFile[c]
        BY <2>1, <2>2 DEF RegistryInv, TypeOK
    <2> HIDE DEF here
    <2>6. TypeOK'
        BY <2>1, <2>2, <2>3 DEF RegistryInv, TypeOK, Contents, Stages
    <2>7. VersionsInOrder'
        BY <2>1, <2>2, <2>3, <2>5 DEF RegistryInv, TypeOK, VersionsInOrder, Torn
    <2>8. LoggedIsCurrent'
        BY <2>2, <2>3, <2>4, <2>5 DEF RegistryInv, LoggedIsCurrent
    <2>9. ListedIsSwept' /\ DeflatesThisSweep'
        BY <2>2 DEF RegistryInv, ListedIsSwept, DeflatesThisSweep
    <2>10. UncutTrialsLoad'
        BY <2>2, <2>4, <2>5 DEF RegistryInv, UncutTrialsLoad, Listed, Loads, Torn, Missing
    <2> QED
        BY <2>6, <2>7, <2>8, <2>9, <2>10 DEF RegistryInv
<1>4. CASE LogReturns
    <2> DEFINE here == Grid[sweep.at]
    <2>1. /\ sweep # NoSweep /\ sweep.version \in 1..data /\ sweep.at \in 1..Len(Grid)
          /\ here \in Configurations /\ sweep.stage = "series"
        BY <1>4, TrialInHand DEF LogReturns
    <2>2. /\ returnsFile' = [returnsFile EXCEPT ![here] = sweep.version]
          /\ sweep' = [sweep EXCEPT !.stage = "between"]
          /\ UNCHANGED <<data, paramsFile, verdict, cut, deaths>>
        BY <1>4 DEF LogReturns
    <2>3. /\ sweep'.version = sweep.version /\ sweep'.at = sweep.at /\ sweep'.stage = "between"
          /\ sweep' # NoSweep
        BY <2>1, <2>2 DEF RegistryInv, TypeOK, NoSweep
    <2>4. InHand = {here} /\ InHand' = {here} /\ here' = here
        BY <2>1, <2>3 DEF InHand
    <2>5. \A c \in Configurations :
             returnsFile'[c] = IF c = here THEN sweep.version ELSE returnsFile[c]
        BY <2>1, <2>2 DEF RegistryInv, TypeOK
    <2>6. returnsFile'[Grid[sweep'.at]] = sweep'.version
        BY <2>1, <2>3, <2>5
    <2> HIDE DEF here
    <2>7. TypeOK'
        BY <2>1, <2>2, <2>3 DEF RegistryInv, TypeOK, Contents, Stages
    <2>8. VersionsInOrder'
        BY <2>1, <2>2, <2>3, <2>5 DEF RegistryInv, TypeOK, VersionsInOrder
    <2>9. LoggedIsCurrent'
        BY <2>2, <2>3, <2>4, <2>5, <2>6 DEF RegistryInv, LoggedIsCurrent
    <2>10. ListedIsSwept' /\ DeflatesThisSweep'
        BY <2>2 DEF RegistryInv, ListedIsSwept, DeflatesThisSweep
    <2>11. paramsFile[here] <= sweep.version /\ 0 < sweep.version
        BY <2>1 DEF RegistryInv, VersionsInOrder
    <2>12. UncutTrialsLoad'
        BY <2>2, <2>4, <2>5, <2>11 DEF RegistryInv, UncutTrialsLoad, Listed, Loads, Missing
    <2> QED
        BY <2>7, <2>8, <2>9, <2>10, <2>12 DEF RegistryInv
<1>5. CASE OpenParams
    <2> DEFINE here == Grid[sweep.at]
    <2>1. /\ sweep # NoSweep /\ sweep.version \in 1..data /\ sweep.at \in 1..Len(Grid)
          /\ here \in Configurations /\ sweep.stage = "between" /\ here \in Swept
        BY <1>5, TrialInHand DEF OpenParams, Swept
    <2>2. /\ paramsFile' = [paramsFile EXCEPT ![here] = Torn]
          /\ sweep' = [sweep EXCEPT !.stage = "params"]
          /\ UNCHANGED <<data, returnsFile, verdict, cut, deaths>>
        BY <1>5 DEF OpenParams
    <2>3. /\ sweep'.version = sweep.version /\ sweep'.at = sweep.at /\ sweep'.stage = "params"
          /\ sweep' # NoSweep
        BY <2>1, <2>2 DEF RegistryInv, TypeOK, NoSweep
    <2>4. InHand = {here} /\ InHand' = {here}
        BY <2>1, <2>3 DEF InHand
    <2>5. \A c \in Configurations : paramsFile'[c] = IF c = here THEN Torn ELSE paramsFile[c]
        BY <2>1, <2>2 DEF RegistryInv, TypeOK
    <2>6. returnsFile[here] = sweep.version /\ returnsFile'[Grid[sweep'.at]] = sweep'.version
        BY <2>1, <2>2, <2>3 DEF RegistryInv, LoggedIsCurrent
    <2> HIDE DEF here
    <2>7. TypeOK'
        BY <2>1, <2>2, <2>3 DEF RegistryInv, TypeOK, Contents, Stages
    <2>8. VersionsInOrder'
        BY <2>1, <2>2, <2>3, <2>5 DEF RegistryInv, TypeOK, VersionsInOrder, Torn
    <2>9. LoggedIsCurrent'
        BY <2>2, <2>3, <2>4, <2>5, <2>6 DEF RegistryInv, LoggedIsCurrent
    <2>10. ListedIsSwept' /\ DeflatesThisSweep'
        BY <2>1, <2>2, <2>5 DEF RegistryInv, ListedIsSwept, DeflatesThisSweep
    <2>11. returnsFile[here] # 0
        BY <2>1, <2>6
    <2>12. UncutTrialsLoad'
        BY <2>2, <2>4, <2>5, <2>11 DEF RegistryInv, UncutTrialsLoad, Listed, Loads, Missing, Torn
    <2> QED
        BY <2>7, <2>8, <2>9, <2>10, <2>12 DEF RegistryInv
<1>6. CASE LogParams
    <2> DEFINE here == Grid[sweep.at]
               next == [version |-> sweep.version, at |-> sweep.at + 1, stage |-> "run"]
    <2>1. /\ sweep # NoSweep /\ sweep.version \in 1..data /\ sweep.at \in 1..Len(Grid)
          /\ here \in Configurations /\ sweep.stage = "params" /\ here \in Swept
        BY <1>6, TrialInHand DEF LogParams, Swept
    <2>2. /\ paramsFile' = [paramsFile EXCEPT ![here] = sweep.version]
          /\ sweep' = [sweep EXCEPT !.at = @ + 1, !.stage = "run"]
          /\ cut' = cut \ {here}
          /\ UNCHANGED <<data, returnsFile, verdict, deaths>>
        BY <1>6 DEF LogParams
    <2>3. /\ sweep' = next
          /\ sweep'.version = sweep.version /\ sweep'.at = sweep.at + 1 /\ sweep'.stage = "run"
          /\ sweep' # NoSweep
        <3>1. sweep' = next
            BY <2>2 DEF RegistryInv, TypeOK
        <3>2. sweep.version # 0
            BY <2>1 DEF RegistryInv, TypeOK
        <3> QED
            BY <3>1, <3>2 DEF NoSweep
    <2>4. InHand = {here} /\ InHand' = {}
        BY <2>1, <2>3 DEF InHand
    <2>5. \A c \in Configurations :
             paramsFile'[c] = IF c = here THEN sweep.version ELSE paramsFile[c]
        BY <2>1, <2>2 DEF RegistryInv, TypeOK
    <2>6. returnsFile[here] = sweep.version
        BY <2>1 DEF RegistryInv, LoggedIsCurrent
    <2>7. \A i \in 1..Len(Grid) : i < sweep'.at => i < sweep.at \/ Grid[i] = here
        BY <2>1, <2>3
    <2>8. sweep.version \in Nat /\ sweep.at + 1 \in Nat /\ sweep.version # 0
        BY <2>1 DEF RegistryInv, TypeOK
    <2> HIDE DEF here
    <2>9. TypeOK'
        <3>1. sweep' \in [version : Nat, at : Nat, stage : Stages]
            BY <2>3, <2>8 DEF Stages
        <3>2. paramsFile' \in [Configurations -> Contents]
            BY <2>1, <2>2 DEF RegistryInv, TypeOK, Contents
        <3>3. sweep'.at \in 1..(Len(Grid) + 1)
            BY <2>1, <2>3
        <3> HIDE DEF next
        <3> QED
            BY <2>1, <2>2, <2>3, <3>1, <3>2, <3>3 DEF RegistryInv, TypeOK
    <2> HIDE DEF next
    <2>10. VersionsInOrder'
        BY <2>1, <2>2, <2>3, <2>5 DEF RegistryInv, TypeOK, VersionsInOrder
    <2>11. LoggedIsCurrent'
        <3> SUFFICES ASSUME NEW i \in 1..Len(Grid), i < sweep'.at
                     PROVE  /\ returnsFile'[Grid[i]] = sweep'.version
                            /\ paramsFile'[Grid[i]] = sweep'.version
            BY <2>3 DEF LoggedIsCurrent
        <3>1. CASE Grid[i] = here
            BY <2>1, <2>2, <2>3, <2>5, <2>6, <3>1
        <3>2. CASE Grid[i] # here
            <4>1. i < sweep.at
                BY <2>7, <3>2
            <4>2. returnsFile[Grid[i]] = sweep.version /\ paramsFile[Grid[i]] = sweep.version
                BY <2>4, <3>2, <4>1 DEF RegistryInv, LoggedIsCurrent
            <4> QED
                BY <2>2, <2>3, <2>5, <3>2, <4>2
        <3> QED
            BY <3>1, <3>2
    <2>12. ListedIsSwept' /\ DeflatesThisSweep'
        BY <2>1, <2>2, <2>5 DEF RegistryInv, ListedIsSwept, DeflatesThisSweep
    <2>13. UncutTrialsLoad'
        <3> SUFFICES ASSUME NEW c \in Configurations, paramsFile'[c] # Missing
                     PROVE  /\ returnsFile'[c] # Missing
                            /\ Loads(c)' => paramsFile'[c] <= returnsFile'[c]
                            /\ c \notin cut' \cup InHand' =>
                                   Loads(c)' /\ paramsFile'[c] = returnsFile'[c]
            BY DEF UncutTrialsLoad, Listed
        <3>1. CASE c = here
            BY <2>1, <2>2, <2>5, <2>6, <2>8, <3>1 DEF Loads, Missing
        <3>2. CASE c # here
            <4>1. /\ paramsFile'[c] = paramsFile[c] /\ returnsFile'[c] = returnsFile[c]
                  /\ c \notin cut' => c \notin cut \cup InHand
                BY <2>2, <2>4, <2>5, <3>2
            <4> QED
                BY <4>1 DEF RegistryInv, UncutTrialsLoad, Listed, Loads
        <3> QED
            BY <3>1, <3>2
    <2> QED
        BY <2>9, <2>10, <2>11, <2>12, <2>13 DEF RegistryInv
<1>7. CASE Deflate
    <2>1. sweep # NoSweep /\ sweep.at > Len(Grid)
        BY <1>7 DEF Deflate, NoSweep
    <2>2. /\ sweep.stage = "run" /\ sweep.version > 0 /\ Listed = Swept
          /\ \A c \in Swept : returnsFile[c] = sweep.version /\ paramsFile[c] = sweep.version
        BY <2>1, SweptAreCurrent
    <2>3. \A c \in Listed : Loads(c)
        BY <2>2 DEF Loads
    <2>4. verdict' = [version |-> sweep.version, trials |-> [c \in Swept |-> returnsFile[c]]]
        BY <1>7, <2>2, <2>3 DEF Deflate
    <2>5. DeflatesThisSweep'
        BY <2>2, <2>4 DEF DeflatesThisSweep
    <2>6. sweep' = NoSweep /\ UNCHANGED <<data, returnsFile, paramsFile, cut, deaths>>
        BY <1>7 DEF Deflate
    <2>7. InHand = {} /\ InHand' = {}
        BY <2>2, <2>6 DEF InHand, NoSweep
    <2>8. TypeOK'
        BY <2>6 DEF RegistryInv, TypeOK, NoSweep, Stages
    <2>9. (VersionsInOrder /\ LoggedIsCurrent /\ ListedIsSwept)'
        BY <2>6 DEF RegistryInv, VersionsInOrder, LoggedIsCurrent, ListedIsSwept, NoSweep
    <2>10. UncutTrialsLoad'
        BY <2>6, <2>7 DEF RegistryInv, UncutTrialsLoad, Listed, Loads
    <2> QED
        BY <2>5, <2>8, <2>9, <2>10 DEF RegistryInv
<1>8. CASE SweepDies
    <2>1. /\ sweep' = NoSweep /\ deaths' = deaths + 1 /\ cut' = cut \cup InHand
          /\ UNCHANGED <<data, returnsFile, paramsFile, verdict>>
        BY <1>8 DEF SweepDies
    <2>2. TypeOK'
        BY <2>1 DEF RegistryInv, TypeOK, NoSweep, Stages
    <2>3. (VersionsInOrder /\ LoggedIsCurrent /\ ListedIsSwept /\ DeflatesThisSweep)'
        BY <2>1 DEF RegistryInv, VersionsInOrder, LoggedIsCurrent, ListedIsSwept,
                    DeflatesThisSweep, NoSweep
    <2>4. UncutTrialsLoad'
        BY <2>1 DEF RegistryInv, UncutTrialsLoad, Listed, Loads
    <2> QED
        BY <2>2, <2>3, <2>4 DEF RegistryInv
<1>9. CASE /\ UNCHANGED <<data, returnsFile, paramsFile, sweep, verdict, cut>>
          /\ deaths' \in {deaths, deaths + 1}
    <2> USE <1>9
    <2>1. (TypeOK /\ VersionsInOrder /\ LoggedIsCurrent)'
        BY DEF RegistryInv, TypeOK, VersionsInOrder, LoggedIsCurrent, InHand
    <2>2. (ListedIsSwept /\ UncutTrialsLoad /\ DeflatesThisSweep)'
        BY DEF RegistryInv, ListedIsSwept, UncutTrialsLoad, Listed, Loads, InHand,
               DeflatesThisSweep
    <2> QED
        BY <2>1, <2>2 DEF RegistryInv
<1> QED
    BY <1>1, <1>2, <1>3, <1>4, <1>5, <1>6, <1>7, <1>8, <1>9


\* The data directory: the programs read versions that there have been.
MetaInv ==
    /\ version \in Seq(Versions) /\ Len(version) = data
    /\ dataset \in 0..data
    /\ folds \in Folds

\* What a file was made from
Made == [positions : 0..data, dataset : 0..data, folds : Folds \cup {<<0, 0>>}]

\* Of versions that there have been
FilesInv ==
    /\ weights \in [ModeNames -> [FileRows -> Made]]
    /\ curves \in [ModeNames -> [FileRows -> Made]]
    /\ judged \in Made /\ scored \in Made

\* The inductive invariant
IInv == RegistryInv /\ MetaInv /\ FilesInv

\* Nothing has run.
LEMMA InitInv == Init => IInv
<1> SUFFICES ASSUME Init PROVE IInv
    OBVIOUS
<1>1. RegistryInv
    BY RegistryInitInv DEF Init
<1>2. MetaInv
    <2>1. PICK v \in Versions : version = <<v>>
        BY DEF Init
    <2>2. version \in Seq(Versions) /\ Len(version) = 1
        BY <2>1
    <2> QED
        BY <2>2 DEF Init, RegistryInit, MetaInv
<1>3. FilesInv
    <2>1. data = 1 /\ NoFile \in Made /\ NoFiles \in [FileRows -> Made]
        BY DEF Init, RegistryInit, NoFile, NoFiles, Made
    <2> QED
        BY <2>1 DEF Init, FilesInv
<1> QED
    BY <1>1, <1>2, <1>3 DEF IInv

\* Every step of the model preserves the invariant.
LEMMA StepInv == IInv /\ [Next]_vars => IInv'
<1> SUFFICES ASSUME IInv, [Next]_vars PROVE IInv'
    OBVIOUS
<1>1. RegistryInv'
    <2>1. \/ NewData \/ StartSweep \/ OpenReturns \/ LogReturns \/ OpenParams \/ LogParams
          \/ Deflate \/ SweepDies
          \/ /\ UNCHANGED <<data, returnsFile, paramsFile, sweep, verdict, cut>>
             /\ deaths' \in {deaths, deaths + 1}
        BY DEF Next, vars, registryVars, NewSignals, BuildMetaDataset, MetaSizing, RunEngineB,
               JudgeMeta, Sweep, EndsOrDies
    <2> QED
        BY <2>1, RegistryStep DEF IInv
<1>2. MetaInv'
    <2>0. /\ version \in Seq(Versions) /\ Len(version) = data /\ data \in Nat \ {0}
          /\ dataset \in 0..data /\ folds \in Folds
        BY DEF IInv, MetaInv, RegistryInv, TypeOK
    <2>1. CASE NewSignals
        <3>1. PICK v \in Updates : version' = Append(version, v)
            BY <2>1 DEF NewSignals
        <3>2. v \in Versions /\ data' = data + 1 /\ UNCHANGED <<dataset, folds>>
            BY <2>1, ValidationAssumption DEF NewSignals, NewData
        <3> QED
            BY <2>0, <3>1, <3>2 DEF MetaInv
    <2>2. CASE UNCHANGED <<version, data, folds>> /\ dataset' \in {dataset, data}
        BY <2>0, <2>2 DEF MetaInv
    <2>3. NewSignals \/ (UNCHANGED <<version, data, folds>> /\ dataset' \in {dataset, data})
        BY DEF Next, vars, registryVars, metaVars, BuildMetaDataset, MetaSizing, RunEngineB,
               JudgeMeta, Sweep, StartSweep, OpenReturns, LogReturns, OpenParams,
               LogParams, Deflate, SweepDies
    <2> QED
        BY <2>1, <2>2, <2>3
<1>3. FilesInv'
    <2>0. /\ data \in Nat \ {0} /\ dataset \in 0..data /\ folds \in Folds
          /\ weights \in [ModeNames -> [FileRows -> Made]]
          /\ curves \in [ModeNames -> [FileRows -> Made]]
          /\ judged \in Made /\ scored \in Made
        BY DEF IInv, MetaInv, FilesInv, RegistryInv, TypeOK
    <2>1. (data' = data \/ data' = data + 1) /\ folds' = folds
        BY DEF Next, vars, registryVars, metaVars, NewSignals, NewData, BuildMetaDataset, MetaSizing,
               RunEngineB, JudgeMeta, Sweep, StartSweep, OpenReturns, LogReturns, OpenParams,
               LogParams, Deflate, SweepDies
    <2>2. Made \subseteq Made'
        BY <2>0, <2>1 DEF Made
    <2>3. ASSUME NEW d \in 0..data
          PROVE  [positions |-> data, dataset |-> d, folds |-> folds] \in Made
        BY <2>0 DEF Made
    <2>4. [NoFile EXCEPT !.positions = data] \in Made
        BY <2>0 DEF Made, NoFile
    <2> HIDE DEF Made
    <2>5. CASE BuildMetaDataset
        <3>1. scored' \in Made /\ UNCHANGED <<weights, curves, judged>>
            BY <2>0, <2>3, <2>5 DEF BuildMetaDataset
        <3> QED
            BY <2>0, <2>2, <3>1 DEF FilesInv
    <2>6. ASSUME NEW mode \in ModeNames, NEW upto, MetaSizing(mode, upto)
          PROVE  FilesInv'
        <3> DEFINE made == IF mode = "off" THEN [NoFile EXCEPT !.positions = data]
                           ELSE [positions |-> data, dataset |-> dataset, folds |-> folds]
                   rows == [t \in FileRows |-> IF t < upto THEN made ELSE weights[mode][t]]
        <3>1. made \in Made
            BY <2>0, <2>3, <2>4
        <3>2. /\ weights' = [weights EXCEPT ![mode] = rows]
              /\ scored' = (IF mode = "off" THEN scored ELSE made)
              /\ UNCHANGED <<curves, judged>>
            BY <2>6 DEF MetaSizing
        <3> HIDE DEF made
        <3>3. rows \in [FileRows -> Made]
            BY <2>0, <3>1
        <3> HIDE DEF rows
        <3> QED
            BY <2>0, <2>2, <3>1, <3>2, <3>3 DEF FilesInv
    <2>7. ASSUME NEW upto, RunEngineB(upto)
          PROVE  FilesInv'
        <3>1. /\ curves' = [m \in ModeNames |-> IF \E i \in 1..upto : Modes[i] = m
                                                 THEN weights[m] ELSE curves[m]]
              /\ UNCHANGED <<weights, judged, scored>>
            BY <2>7 DEF RunEngineB
        <3>2. curves' \in [ModeNames -> [FileRows -> Made]]
            BY <2>0, <3>1
        <3> QED
            BY <2>0, <2>2, <3>1, <3>2 DEF FilesInv
    <2>8. CASE JudgeMeta
        <3>1. scored' \in Made /\ judged' \in Made /\ UNCHANGED <<weights, curves>>
            BY <2>0, <2>3, <2>8 DEF JudgeMeta, Judgement
        <3> QED
            BY <2>0, <2>2, <3>1 DEF FilesInv
    <2>9. CASE NewSignals \/ Sweep \/ UNCHANGED vars
        <3>1. UNCHANGED <<weights, curves, judged, scored>>
            BY <2>9 DEF NewSignals, Sweep, vars, metaVars
        <3> QED
            BY <2>0, <2>2, <3>1 DEF FilesInv
    <2> QED
        BY <2>5, <2>6, <2>7, <2>8, <2>9 DEF Next
<1> QED
    BY <1>1, <1>2, <1>3 DEF IInv

\* What the validation programs leave on disk, at all times.
THEOREM Invariant == Spec => []IInv
<1> QED
    BY InitInv, StepInv, PTL DEF Spec

\* Wherever sweeps were killed, at an open file of a trial too: only the trial
\* in hand was spoilt, and the others load with the Sharpe ratio of their series.
THEOREM TrialsLoadUnlessCut == Spec => []UncutTrialsLoad
<1>1. IInv => UncutTrialsLoad
    BY DEF IInv, RegistryInv
<1> QED
    BY <1>1, Invariant, PTL

\* A sweep that gets to its deflation writes its summary, whatever torn files
\* others have left it.
THEOREM SweepsAlwaysRecover == Spec => SweepsRecover
<1> DEFINE Recovers ==
        sweep # NoSweep /\ sweep.at > Len(Grid) /\ sweep' # sweep /\ deaths' = deaths
            => verdict'.version = sweep.version
<1>1. IInv /\ [Next]_vars => [Recovers]_registryVars
    <2> SUFFICES ASSUME IInv, [Next]_vars, sweep # NoSweep, sweep.at > Len(Grid),
                        sweep' # sweep, deaths' = deaths
                 PROVE  verdict'.version = sweep.version
        OBVIOUS
    <2>1. /\ sweep.stage = "run" /\ sweep.version > 0 /\ Listed = Swept
          /\ \A c \in Swept : returnsFile[c] = sweep.version /\ paramsFile[c] = sweep.version
        BY SweptAreCurrent DEF IInv
    <2>2. sweep.at \in Nat /\ Len(Grid) \in Nat /\ deaths \in Nat
        BY GridElements DEF IInv, RegistryInv, TypeOK
    <2>3. Deflate
        BY <2>1, <2>2 DEF Next, vars, registryVars, NewSignals, NewData, BuildMetaDataset, MetaSizing,
               RunEngineB, JudgeMeta, Sweep, StartSweep, Sweeping, OpenReturns, LogReturns,
               OpenParams, LogParams, SweepDies
    <2>4. \A c \in Listed : Loads(c)
        BY <2>1 DEF Loads
    <2> QED
        BY <2>3, <2>4 DEF Deflate
<1> QED
    BY <1>1, Invariant, PTL DEF Spec, SweepsRecover

\* deflate_qr4's summary is over all configurations of its sweep, no others,
\* and over series of one and the same version of the data.
THEOREM SweepDeflated == Spec => []DeflatesThisSweep
<1>1. IInv => DeflatesThisSweep
    BY DEF IInv, RegistryInv
<1> QED
    BY <1>1, Invariant, PTL
------------------------------------------------------------------------------
(* Elements in order *)

\* A strict total order on S, as a set of pairs
Orders(R, S) ==
    /\ \A x \in S : <<x, x>> \notin R
    /\ \A x, y \in S : x = y \/ <<x, y>> \in R \/ <<y, x>> \in R
    /\ \A x, y, z \in S : <<x, y>> \in R /\ <<y, z>> \in R => <<x, z>> \in R

\* How many elements come before x
Rank(S, R, x) == Cardinality({y \in S : <<y, x>> \in R})

\* The ranks of n elements are 0 .. n - 1, each taken once.
LEMMA Ranks ==
    ASSUME NEW S, IsFiniteSet(S), NEW R, Orders(R, S)
    PROVE  /\ Cardinality(S) \in Nat
           /\ \A x \in S : Rank(S, R, x) \in 0..(Cardinality(S) - 1)
           /\ \A x, y \in S : <<x, y>> \in R => Rank(S, R, x) < Rank(S, R, y)
           /\ \A x, y \in S : Rank(S, R, x) = Rank(S, R, y) => x = y
           /\ \A i \in 0..(Cardinality(S) - 1) : \E x \in S : Rank(S, R, x) = i
<1> DEFINE n == Cardinality(S)
           Before(x) == {y \in S : <<y, x>> \in R}
<1>1. n \in Nat
    BY FS_CardinalityType
<1>2. \A x : IsFiniteSet(Before(x)) /\ Cardinality(Before(x)) \in Nat
    BY FS_Subset, FS_CardinalityType
<1>3. ASSUME NEW x \in S
      PROVE  Rank(S, R, x) \in 0..(n - 1)
    <2>1. Before(x) \in SUBSET S /\ Before(x) # S
        BY DEF Orders
    <2>2. Cardinality(Before(x)) <= n /\ Cardinality(Before(x)) # n
        BY <2>1, FS_Subset
    <2> QED
        BY <1>1, <1>2, <2>2 DEF Rank
<1>4. ASSUME NEW x \in S, NEW y \in S, <<x, y>> \in R
      PROVE  Rank(S, R, x) < Rank(S, R, y)
    <2>1. Before(x) \in SUBSET Before(y) /\ Before(x) # Before(y)
        <3>1. x \in Before(y) /\ x \notin Before(x)
            BY <1>4 DEF Orders
        <3>2. \A z \in S : <<z, x>> \in R => <<z, y>> \in R
            BY <1>4 DEF Orders
        <3> QED
            BY <3>1, <3>2
    <2>2. Cardinality(Before(x)) <= Cardinality(Before(y)) /\ Cardinality(Before(x)) # Cardinality(Before(y))
        BY <1>2, <2>1, FS_Subset
    <2>3. Rank(S, R, x) = Cardinality(Before(x)) /\ Rank(S, R, y) = Cardinality(Before(y))
        BY DEF Rank
    <2> HIDE DEF Before
    <2> QED
        BY <1>2, <2>2, <2>3
<1>5. \A x, y \in S : Rank(S, R, x) = Rank(S, R, y) => x = y
    <2> SUFFICES ASSUME NEW x \in S, NEW y \in S, Rank(S, R, x) = Rank(S, R, y), x # y PROVE FALSE
        OBVIOUS
    <2>1. <<x, y>> \in R \/ <<y, x>> \in R
        BY DEF Orders
    <2>2. Rank(S, R, x) \in 0..(n - 1) /\ Rank(S, R, y) \in 0..(n - 1)
        BY <1>3
    <2>3. Rank(S, R, x) < Rank(S, R, y) \/ Rank(S, R, y) < Rank(S, R, x)
        BY <1>4, <2>1
    <2> QED
        BY <2>2, <2>3
<1>6. ASSUME NEW i \in 0..(n - 1)
      PROVE  \E x \in S : Rank(S, R, x) = i
    <2> DEFINE rank == [x \in S |-> Rank(S, R, x)]
    <2>1. rank \in Injection(S, 0..(n - 1))
        <3>1. rank \in [S -> 0..(n - 1)]
            BY <1>3
        <3> QED
            BY <1>5, <3>1 DEF Injection, IsInjective
    <2>2. IsFiniteSet(0..(n - 1)) /\ Cardinality(0..(n - 1)) = n
        <3>1. 0 \in Int /\ n - 1 \in Int /\ (n - 1) - 0 + 1 = n /\ (0 > n - 1 => n = 0)
            BY <1>1
        <3> HIDE DEF n
        <3> QED
            BY <3>1, FS_Interval
    <2>3. rank \in Surjection(S, 0..(n - 1))
        BY <2>1, <2>2, FS_Injection
    <2> QED
        BY <2>3 DEF Surjection
<1> QED
    BY <1>1, <1>3, <1>4, <1>5, <1>6
------------------------------------------------------------------------------
(* Labels *)

\* A set of bars has an earliest one.
LEMMA EarliestOf ==
    ASSUME NEW S \in SUBSET Nat, S # {}
    PROVE  Earliest(S) \in S /\ \A y \in S : Earliest(S) <= y
<1> DEFINE R == OpToRel(<, Nat)
<1>1. PICK m \in S : \A y \in S : <<y, m>> \notin R
    <2>1. IsWellFoundedOn(R, Nat)
        BY NatLessThanWellFounded
    <2> HIDE DEF R
    <2> QED
        BY <2>1, WFMin
<1>2. \A y \in S : m <= y
    <2> SUFFICES ASSUME NEW y \in S PROVE m <= y
        OBVIOUS
    <2>1. m \in Nat /\ y \in Nat
        OBVIOUS
    <2>2. ~(y < m)
        BY <1>1, <2>1 DEF OpToRel
    <2> QED
        BY <2>1, <2>2
<1> QED
    BY <1>2 DEF Earliest

\* The last bar at which a label is decided, and the bars that may decide it
Horizon(t0) == IF t0 + MaxHolding < NumBars THEN t0 + MaxHolding ELSE NumBars - 1
Touched(price, side, t0) ==
    {t \in (t0 + 1)..Horizon(t0) : \/ Signed(price, side, t0, t) >= ProfitTake
                                   \/ Signed(price, side, t0, t) <= -StopLoss}

\* The horizon is within the series.
LEMMA BarsOfHorizon ==
    ASSUME NEW t0 \in Bars
    PROVE  Horizon(t0) \in t0..(NumBars - 1) /\ Horizon(t0) <= t0 + MaxHolding
BY MetaAssumption DEF Bars, Horizon

\* A label is decided between its entry and the horizon, by what happens first.
LEMMA Barrier ==
    ASSUME NEW price, NEW side, NEW t0 \in Bars
    PROVE  LET t1 == TripleBarrier(price, side, t0).t1
               touched == Touched(price, side, t0)
           IN  /\ t1 \in t0..Horizon(t0) /\ t1 \in Bars
               /\ \A u \in touched : t1 <= u
               /\ touched = {} => t1 = Horizon(t0)
               /\ touched # {} => t1 \in touched
               /\ TripleBarrier(price, side, t0)
                  = [t1 |-> t1, label |-> IF Signed(price, side, t0, t1) > 0 THEN 1 ELSE 0]
<1> DEFINE touched == Touched(price, side, t0)
           t1 == IF touched = {} THEN Horizon(t0) ELSE Earliest(touched)
<1>1. TripleBarrier(price, side, t0)
      = [t1 |-> t1, label |-> IF Signed(price, side, t0, t1) > 0 THEN 1 ELSE 0]
    BY DEF TripleBarrier, Horizon, Touched
<1>2. t0 \in Nat /\ Horizon(t0) \in t0..(NumBars - 1) /\ NumBars \in Nat
    BY BarsOfHorizon, MetaAssumption DEF Bars
<1>3. touched \in SUBSET ((t0 + 1)..Horizon(t0)) /\ touched \in SUBSET Nat
    BY <1>2 DEF Touched
<1>4. touched # {} => Earliest(touched) \in touched /\ \A u \in touched : Earliest(touched) <= u
    BY <1>3, EarliestOf
<1> HIDE DEF touched
<1>5. t1 \in t0..Horizon(t0) /\ t1 \in Bars
    <2>1. Earliest(touched) \in (t0 + 1)..Horizon(t0) \/ touched = {}
        BY <1>3, <1>4
    <2>2. CASE touched = {}
        BY <1>2, <2>2 DEF Bars
    <2>3. CASE touched # {}
        <3>1. t1 = Earliest(touched)
            BY <2>3
        <3> HIDE DEF t1
        <3> QED
            BY <1>2, <2>1, <2>3, <3>1 DEF Bars
    <2> QED
        BY <2>2, <2>3
<1>6. TripleBarrier(price, side, t0).t1 = t1
    BY <1>1
<1> HIDE DEF t1
<1>7. /\ t1 \in t0..Horizon(t0) /\ t1 \in Bars
      /\ \A u \in touched : t1 <= u
      /\ touched = {} => t1 = Horizon(t0)
      /\ touched # {} => t1 \in touched
    BY <1>4, <1>5 DEF t1
<1> QED
    BY <1>1, <1>6, <1>7 DEF touched

\* A label depends on no price after the bar that decides it.
LEMMA LabelsLookNoFurther ==
    ASSUME NEW price, NEW p, NEW side, NEW t0 \in Bars,
           \A u \in t0..TripleBarrier(price, side, t0).t1 : p[u] = price[u]
    PROVE  TripleBarrier(p, side, t0) = TripleBarrier(price, side, t0)
<1> DEFINE t1 == TripleBarrier(price, side, t0).t1
           s1 == TripleBarrier(p, side, t0).t1
           A == Touched(price, side, t0)
           B == Touched(p, side, t0)
<1>0. t0 \in Nat /\ Horizon(t0) \in Nat /\ t0 <= Horizon(t0)
    BY BarsOfHorizon, MetaAssumption DEF Bars
<1>1. /\ t1 \in t0..Horizon(t0)
      /\ \A u \in A : t1 <= u
      /\ A = {} => t1 = Horizon(t0)
      /\ A # {} => t1 \in A
    BY Barrier
<1>2. /\ s1 \in t0..Horizon(t0)
      /\ \A u \in B : s1 <= u
      /\ B = {} => s1 = Horizon(t0)
      /\ B # {} => s1 \in B
    BY Barrier
<1>3. \A u \in t0..t1 : p[u] = price[u]
    OBVIOUS
<1>4. \A u \in t0..t1 : Signed(p, side, t0, u) = Signed(price, side, t0, u)
    <2> HIDE DEF t1
    <2> QED
        BY <1>0, <1>1, <1>3 DEF Signed
<1>5. \A u \in t0..t1 : u \in A <=> u \in B
    <2> HIDE DEF t1
    <2> QED
        BY <1>0, <1>1, <1>4 DEF Touched
<1>6. A \in SUBSET ((t0 + 1)..Horizon(t0)) /\ B \in SUBSET ((t0 + 1)..Horizon(t0))
    BY DEF Touched
<1>7. s1 = t1
    <2> HIDE DEF s1, t1, A, B
    <2>1. CASE A = {}
        <3>1. B = {}
            BY <1>0, <1>1, <1>5, <1>6, <2>1
        <3> QED
            BY <1>1, <1>2, <2>1, <3>1
    <2>2. CASE A # {}
        <3>1. t1 \in B
            BY <1>0, <1>1, <1>5, <2>2
        <3>2. s1 \in B /\ s1 <= t1
            BY <1>2, <3>1
        <3>3. s1 \in A
            BY <1>0, <1>1, <1>2, <1>5, <3>2
        <3>4. t1 <= s1
            BY <1>1, <3>3
        <3> QED
            BY <1>0, <1>1, <1>2, <3>2, <3>4
    <2> QED
        BY <2>1, <2>2
<1>8. TripleBarrier(price, side, t0)
      = [t1 |-> t1, label |-> IF Signed(price, side, t0, t1) > 0 THEN 1 ELSE 0]
    BY Barrier
<1>9. TripleBarrier(p, side, t0)
      = [t1 |-> s1, label |-> IF Signed(p, side, t0, s1) > 0 THEN 1 ELSE 0]
    BY Barrier
<1>10. Signed(p, side, t0, t1) = Signed(price, side, t0, t1)
    <2> HIDE DEF t1
    <2> QED
        BY <1>0, <1>1, <1>4
<1> HIDE DEF s1, t1
<1> QED
    BY <1>7, <1>8, <1>9, <1>10
------------------------------------------------------------------------------
(* Events *)

\* The event of an entry
EventAt(v, x, t) ==
    [name |-> x, t0 |-> t, side |-> v.positions[x][t],
     outcome |-> TripleBarrier(v.prices[x], v.positions[x][t], t)]

\* An event is known by its name and its entry bar, and lies within the bars.
LEMMA Events ==
    ASSUME NEW v
    PROVE  /\ \A e \in LabelledEvents(v) :
                 /\ e.name \in Names /\ e.t0 \in EntryEvents(v.positions[e.name])
                 /\ e = EventAt(v, e.name, e.t0)
                 /\ e.outcome.t1 \in e.t0..(NumBars - 1) /\ e.outcome.t1 \in Bars
                 /\ e.t0 \in Bars
           /\ \A x \in Names : \A t \in EntryEvents(v.positions[x]) :
                 EventAt(v, x, t) \in LabelledEvents(v)
           /\ Dataset(v) \subseteq LabelledEvents(v)
<1>1. \A e : e \in LabelledEvents(v) <=>
                \E x \in Names : \E t \in EntryEvents(v.positions[x]) : e = EventAt(v, x, t)
    BY DEF LabelledEvents, EventAt
<1>2. \A x \in Names : \A t \in EntryEvents(v.positions[x]) : EventAt(v, x, t) \in LabelledEvents(v)
    BY <1>1
<1>3. ASSUME NEW e \in LabelledEvents(v)
      PROVE  /\ e.name \in Names /\ e.t0 \in EntryEvents(v.positions[e.name])
             /\ e = EventAt(v, e.name, e.t0)
             /\ e.outcome.t1 \in e.t0..(NumBars - 1) /\ e.outcome.t1 \in Bars
             /\ e.t0 \in Bars
    <2>1. PICK x \in Names : \E t \in EntryEvents(v.positions[x]) : e = EventAt(v, x, t)
        BY <1>1, <1>3
    <2>2. PICK t \in EntryEvents(v.positions[x]) : e = EventAt(v, x, t)
        BY <2>1
    <2>3. e.name = x /\ e.t0 = t /\ e.outcome = TripleBarrier(v.prices[x], v.positions[x][t], t)
        BY <2>2 DEF EventAt
    <2>4. t \in Bars
        BY DEF EntryEvents
    <2>5. e.outcome.t1 \in t..Horizon(t) /\ e.outcome.t1 \in Bars
        BY <2>3, <2>4, Barrier
    <2>6. e.outcome.t1 \in t..(NumBars - 1)
        BY <2>4, <2>5, MetaAssumption DEF Bars
    <2> QED
        BY <2>2, <2>3, <2>4, <2>5, <2>6
<1>4. Dataset(v) \subseteq LabelledEvents(v)
    BY DEF Dataset
<1> QED
    BY <1>2, <1>3, <1>4

\* There are finitely many events.
LEMMA EventsAreFinite ==
    ASSUME NEW v
    PROVE  IsFiniteSet(LabelledEvents(v)) /\ IsFiniteSet(Dataset(v))
<1> DEFINE key == [e \in LabelledEvents(v) |-> <<e.name, e.t0>>]
<1>1. IsFiniteSet(Bars)
    <2>1. 0 \in Int /\ NumBars - 1 \in Int
        BY MetaAssumption
    <2> QED
        BY <2>1, FS_Interval DEF Bars
<1>2. IsFiniteSet(Names \X Bars)
    BY <1>1, MetaAssumption, FS_Product
<1>3. key \in Injection(LabelledEvents(v), Names \X Bars)
    <2>1. \A e \in LabelledEvents(v) : e.name \in Names /\ e.t0 \in Bars /\ e = EventAt(v, e.name, e.t0)
        BY Events
    <2>2. key \in [LabelledEvents(v) -> Names \X Bars]
        BY <2>1
    <2>3. \A e, f \in LabelledEvents(v) : key[e] = key[f] => e = f
        BY <2>1
    <2> QED
        BY <2>2, <2>3 DEF Injection, IsInjective
<1>4. IsFiniteSet(LabelledEvents(v))
    <2> HIDE DEF key
    <2> QED
        BY <1>2, <1>3, FS_Injection
<1> QED
    BY <1>4, Events, FS_Subset

\* Entry bar, then name, is a strict total order of the events.
EntryOrder(events) == {p \in events \X events : Precedes(p[1], p[2])}

\* Two events of a dataset differ in their name or their entry bar.
LEMMA EntryOrders ==
    ASSUME NEW v
    PROVE  /\ Orders(EntryOrder(Dataset(v)), Dataset(v))
           /\ \A e \in Dataset(v) :
                 Rank(Dataset(v), EntryOrder(Dataset(v)), e)
                 = Cardinality({f \in Dataset(v) : Precedes(f, e)})
<1> DEFINE S == Dataset(v)
<1>1. \A e \in S : e.name \in Nat /\ e.t0 \in Nat
    <2>1. \A e \in S : e.name \in Names /\ e.t0 \in Bars
        BY Events
    <2>2. Names \subseteq Nat /\ Bars \subseteq Nat
        BY MetaAssumption DEF Bars
    <2> QED
        BY <2>1, <2>2
<1>2. \A e, f \in S : e.name = f.name /\ e.t0 = f.t0 => e = f
    <2>1. \A e \in S : e = EventAt(v, e.name, e.t0)
        BY Events
    <2> QED
        BY <2>1
<1>3. \A e, f \in S : <<e, f>> \in EntryOrder(S) <=> Precedes(e, f)
    BY DEF EntryOrder
<1> HIDE DEF S
<1>4. \A e \in S : ~Precedes(e, e)
    BY <1>1 DEF Precedes
<1>5. \A e, f \in S : e = f \/ Precedes(e, f) \/ Precedes(f, e)
    BY <1>1, <1>2 DEF Precedes
<1>6. \A e, f, g \in S : Precedes(e, f) /\ Precedes(f, g) => Precedes(e, g)
    BY <1>1 DEF Precedes
<1>7. Orders(EntryOrder(S), S)
    BY <1>3, <1>4, <1>5, <1>6 DEF Orders
<1>8. ASSUME NEW e \in S
      PROVE  Rank(S, EntryOrder(S), e) = Cardinality({f \in S : Precedes(f, e)})
    <2>1. {f \in S : <<f, e>> \in EntryOrder(S)} = {f \in S : Precedes(f, e)}
        BY <1>3
    <2> QED
        BY <2>1 DEF Rank
<1> QED
    BY <1>7, <1>8 DEF S

\* InEntryOrder lists the events of a dataset, each once.
LEMMA EntryOrderLists ==
    ASSUME NEW v
    PROVE  LET S == Dataset(v)
               order == InEntryOrder(S)
           IN  /\ Cardinality(S) \in Nat
               /\ DOMAIN order = 0..(Cardinality(S) - 1)
               /\ \A i \in DOMAIN order : order[i] \in S
               /\ \A i, j \in DOMAIN order : order[i] = order[j] => i = j
               /\ \A e \in S : \E i \in DOMAIN order : order[i] = e
<1> DEFINE S == Dataset(v)
           R == EntryOrder(S)
           n == Cardinality(S)
           order == InEntryOrder(S)
           At(i) == CHOOSE e \in S : Cardinality({f \in S : Precedes(f, e)}) = i
<1>1. order = [i \in 0..(n - 1) |-> At(i)]
    BY DEF InEntryOrder
<1>2. /\ n \in Nat
      /\ \A e \in S : Rank(S, R, e) \in 0..(n - 1)
      /\ \A e, f \in S : Rank(S, R, e) = Rank(S, R, f) => e = f
      /\ \A i \in 0..(n - 1) : \E e \in S : Rank(S, R, e) = i
    BY EntryOrders, EventsAreFinite, Ranks
<1>3. \A e \in S : Rank(S, R, e) = Cardinality({f \in S : Precedes(f, e)})
    BY EntryOrders
<1> HIDE DEF S, R, n, order
<1>4. ASSUME NEW i \in 0..(n - 1)
      PROVE  order[i] \in S /\ Rank(S, R, order[i]) = i
    <2>1. \E e \in S : Cardinality({f \in S : Precedes(f, e)}) = i
        BY <1>2, <1>3
    <2>2. At(i) \in S /\ Cardinality({f \in S : Precedes(f, At(i))}) = i
        BY <2>1
    <2>3. order[i] = At(i)
        BY <1>1
    <2> HIDE DEF At
    <2> QED
        BY <1>3, <2>2, <2>3
<1>5. DOMAIN order = 0..(n - 1)
    BY <1>1
<1>6. \A e \in S : \E i \in 0..(n - 1) : order[i] = e
    BY <1>2, <1>4
<1>7. \A i, j \in 0..(n - 1) : order[i] = order[j] => i = j
    BY <1>4
<1> QED
    BY <1>2, <1>4, <1>5, <1>6, <1>7 DEF S, n, order
------------------------------------------------------------------------------
(* Groups *)

\* array_split: the groups are in order and end with the last observation.
LEMMA GroupStarts ==
    ASSUME NEW n \in Nat, NEW groups \in Nat \ {0}
    PROVE  /\ \A g \in Nat : GroupStart(n, groups, g) \in Nat
           /\ GroupStart(n, groups, 0) = 0
           /\ \A g \in Nat : GroupStart(n, groups, g) <= GroupStart(n, groups, g + 1)
           /\ GroupStart(n, groups, groups) = n
<1> DEFINE q == n \div groups
           r == n % groups
<1>1. q \in Nat /\ r \in Nat /\ r < groups /\ n = groups * q + r
    OBVIOUS
<1>2. \A g : GroupStart(n, groups, g) = g * q + Smaller(g, r)
    BY DEF GroupStart
<1> HIDE DEF q, r
<1>3. \A g \in Nat : g * q \in Nat /\ (g + 1) * q = g * q + q
    BY <1>1
<1>4. 0 * q = 0
    BY <1>1
<1> QED
    BY <1>1, <1>2, <1>3, <1>4 DEF Smaller

\* The groups are in order.
LEMMA GroupStartsMonotone ==
    ASSUME NEW n \in Nat, NEW groups \in Nat \ {0}, NEW g \in Nat, NEW h \in Nat, g <= h
    PROVE  GroupStart(n, groups, g) <= GroupStart(n, groups, h)
<1> DEFINE q == n \div groups
           r == n % groups
<1>1. q \in Nat /\ r \in Nat
    OBVIOUS
<1>2. \A x : GroupStart(n, groups, x) = x * q + Smaller(x, r)
    BY DEF GroupStart
<1> HIDE DEF q, r
<1>3. g * q <= h * q /\ g * q \in Nat /\ h * q \in Nat
    <2>1. h - g \in Nat
        OBVIOUS
    <2>2. PICK d \in Nat : h = g + d
        BY <2>1
    <2>3. h * q = g * q + d * q
        BY <1>1, <2>2
    <2>4. d * q \in Nat /\ g * q \in Nat
        BY <1>1
    <2> QED
        BY <2>3, <2>4
<1>4. Smaller(g, r) <= Smaller(h, r) /\ Smaller(g, r) \in Nat /\ Smaller(h, r) \in Nat
    BY <1>1 DEF Smaller
<1> QED
    BY <1>2, <1>3, <1>4

\* Every observation is in one group, and a group has no others.
LEMMA OneGroup ==
    ASSUME NEW n \in Nat, NEW groups \in Nat \ {0}
    PROVE  /\ \A g \in 0..(groups - 1) : Group(n, groups, g) \subseteq 0..(n - 1)
           /\ \A t \in 0..(n - 1) : \E g \in 0..(groups - 1) : t \in Group(n, groups, g)
           /\ \A t, g, h : g \in 0..(groups - 1) /\ h \in 0..(groups - 1)
                            /\ t \in Group(n, groups, g) /\ t \in Group(n, groups, h) => g = h
<1> DEFINE S(g) == GroupStart(n, groups, g)
<1>1. /\ \A g \in Nat : S(g) \in Nat
      /\ S(0) = 0 /\ S(groups) = n
    BY GroupStarts
<1>2. \A g, h \in Nat : g <= h => S(g) <= S(h)
    BY GroupStartsMonotone
<1>3. \A g : Group(n, groups, g) = S(g)..(S(g + 1) - 1)
    BY DEF Group
<1> HIDE DEF S
<1>4. ASSUME NEW g \in 0..(groups - 1)
      PROVE  Group(n, groups, g) \subseteq 0..(n - 1)
    <2>1. g \in Nat /\ g + 1 \in Nat /\ g + 1 <= groups
        OBVIOUS
    <2>2. S(g) \in Nat /\ S(g + 1) \in Nat /\ S(g + 1) <= n
        BY <1>1, <1>2, <2>1
    <2> QED
        BY <1>3, <2>2
<1>5. ASSUME NEW t \in 0..(n - 1)
      PROVE  \E g \in 0..(groups - 1) : t \in Group(n, groups, g)
    <2> DEFINE After == {g \in 0..groups : t < S(g)}
    <2>1. After \in SUBSET Nat /\ groups \in After
        BY <1>1
    <2>2. Earliest(After) \in After /\ \A g \in After : Earliest(After) <= g
        BY <2>1, EarliestOf
    <2> DEFINE h == Earliest(After)
    <2>3. h \in 0..groups /\ t < S(h) /\ \A g \in After : h <= g
        BY <2>2
    <2> HIDE DEF h
    <2>4. h # 0
        BY <1>1, <2>3
    <2>5. h - 1 \in 0..(groups - 1) /\ h - 1 \in Nat /\ h - 1 \in 0..groups /\ (h - 1) + 1 = h
        BY <2>3, <2>4
    <2>6. ~(t < S(h - 1))
        BY <2>3, <2>5
    <2>7. t \in Group(n, groups, h - 1)
        BY <1>1, <1>3, <2>3, <2>5, <2>6
    <2> QED
        BY <2>5, <2>7
<1>6. ASSUME NEW t, NEW g \in 0..(groups - 1), NEW h \in 0..(groups - 1),
             t \in Group(n, groups, g), t \in Group(n, groups, h), g < h
      PROVE  FALSE
    <2>1. S(g) \in Nat /\ S(g + 1) \in Nat /\ S(h) \in Nat /\ S(h + 1) \in Nat /\ S(g + 1) <= S(h)
        BY <1>1, <1>2, <1>6
    <2> QED
        BY <1>3, <1>6, <2>1
<1>7. ASSUME NEW t, NEW g \in 0..(groups - 1), NEW h \in 0..(groups - 1),
             t \in Group(n, groups, g), t \in Group(n, groups, h)
      PROVE  g = h
    <2>1. ~(g < h) /\ ~(h < g)
        BY <1>6, <1>7
    <2> QED
        BY <2>1
<1> QED
    BY <1>4, <1>5, <1>7
------------------------------------------------------------------------------
(* Leakage *)

\* A table is the function it tabulates.
LEMMA TabulatedIs ==
    ASSUME NEW f PROVE Tabulated(f) = f
BY DEF Tabulated

\* What is tabulated for a version and folds
LEMMA SplitsAre ==
    ASSUME NEW in \in Scorable
    PROVE  /\ SplitsOf[in] = Splits(Dataset(in[1]), in[2][1], in[2][2])
           /\ in[1] \in Versions /\ in[2] \in Folds
           /\ in[2][1] \in Nat \ {0} /\ in[2][2] \in 1..(in[2][1] - 1)
           /\ Cardinality(Dataset(in[1])) >= in[2][1]
<1>1. SplitsOf[in] = Splits(Dataset(in[1]), in[2][1], in[2][2])
    BY TabulatedIs DEF SplitsOf
<1>2. in[1] \in Versions /\ in[2] \in Folds /\ Cardinality(Dataset(in[1])) >= in[2][1]
    BY DEF Scorable
<1>3. in[2][1] \in Nat \ {0} /\ in[2][2] \in 1..(in[2][1] - 1)
    BY <1>2, ValidationAssumption
<1> QED
    BY <1>1, <1>2, <1>3

\* An event that a split tests and one that it trains on: their windows are
\* apart, and the later one begins beyond the embargo.
LEMMA TrainedApart ==
    ASSUME NEW v, NEW groups \in Nat \ {0}, NEW k, Cardinality(Dataset(v)) >= groups,
           NEW c \in Combinations(groups, k),
           NEW e \in Splits(Dataset(v), groups, k)[c].test,
           NEW f \in Splits(Dataset(v), groups, k)[c].train
    PROVE  /\ e \in Dataset(v) /\ f \in Dataset(v)
           /\ ~(f.t0 <= e.outcome.t1 /\ e.t0 <= f.outcome.t1)
           /\ f.t0 \notin (e.outcome.t1 + 1)..(e.outcome.t1 + EmbargoSize(NumBars, EmbargoPercent))
<1> DEFINE S == Dataset(v)
           n == Cardinality(S)
           order == InEntryOrder(S)
           windows == [i \in DOMAIN order |-> Window(order[i])]
           test == TestBars(n, groups, c)
           train == EventTrain(n, test, windows, NumBars, EmbargoPercent)
<1>1. /\ Splits(S, groups, k)[c].test = {order[i] : i \in test}
      /\ Splits(S, groups, k)[c].train = {order[i] : i \in train}
    BY DEF Splits
<1>2. /\ n \in Nat /\ DOMAIN order = 0..(n - 1)
      /\ \A i \in 0..(n - 1) : order[i] \in S
    BY EntryOrderLists
<1>3. test \subseteq 0..(n - 1)
    <2>1. c \subseteq 0..(groups - 1)
        BY DEF Combinations
    <2>2. \A g \in c : Group(n, groups, g) \subseteq 0..(n - 1)
        BY <1>2, <2>1, OneGroup
    <2> QED
        BY <2>2 DEF TestBars
<1>4. train \subseteq 0..(n - 1)
    BY DEF EventTrain, BarEmbargo, Purge
<1>5. \A i \in 0..(n - 1) : windows[i].start = order[i].t0 /\ windows[i].end = order[i].outcome.t1
    BY <1>2 DEF Window
<1>6. \A j \in train : \A i \in test :
          /\ ~Overlap(windows[j], windows[i])
          /\ windows[j].start \notin
                (windows[i].end + 1)..(windows[i].end + EmbargoSize(NumBars, EmbargoPercent))
    BY DEF EventTrain, BarEmbargo, Purge
<1>7. PICK i \in test : e = order[i]
    BY <1>1
<1>8. PICK j \in train : f = order[j]
    BY <1>1
<1> HIDE DEF S, n, order, windows, test, train
<1>9. i \in 0..(n - 1) /\ j \in 0..(n - 1)
    BY <1>3, <1>4
<1>10. /\ ~Overlap(windows[j], windows[i])
       /\ windows[j].start \notin
            (windows[i].end + 1)..(windows[i].end + EmbargoSize(NumBars, EmbargoPercent))
    BY <1>6
<1>11. e \in S /\ f \in S
    BY <1>2, <1>7, <1>8, <1>9
<1>12. /\ windows[i].start = e.t0 /\ windows[i].end = e.outcome.t1
       /\ windows[j].start = f.t0 /\ windows[j].end = f.outcome.t1
    BY <1>5, <1>7, <1>8, <1>9
<1> QED
    BY <1>10, <1>11, <1>12 DEF S, Overlap

\* No split trains on what it is tested with.
LEMMA SplitsAreLeakFree ==
    ASSUME NEW in \in Scorable
    PROVE  LeakFreeSplits(SplitsOf[in], in[1].prices)
<1> DEFINE v == in[1]
           splits == SplitsOf[in]
           size == EmbargoSize(NumBars, EmbargoPercent)
<1>1. DOMAIN splits = Combinations(in[2][1], in[2][2])
    BY SplitsAre DEF Splits
<1>2. ASSUME NEW c \in DOMAIN splits, NEW e \in splits[c].test, NEW f \in splits[c].train
      PROVE  /\ e \in Dataset(v) /\ f \in Dataset(v)
             /\ ~(f.t0 <= e.outcome.t1 /\ e.t0 <= f.outcome.t1)
             /\ f.t0 \notin (e.outcome.t1 + 1)..(e.outcome.t1 + size)
    BY <1>1, <1>2, SplitsAre, TrainedApart
<1>3. size \in Int
    BY MetaAssumption DEF EmbargoSize
<1>4. ASSUME NEW c \in DOMAIN splits, NEW e \in splits[c].test, NEW f \in splits[c].train
      PROVE  /\ (e.t0..e.outcome.t1) \cap (f.t0..f.outcome.t1) = {}
             /\ f.t0 > e.outcome.t1 => f.t0 - e.outcome.t1 > size
             /\ f.name = e.name =>
                   \A t \in e.t0..e.outcome.t1 : \A p \in OtherPrices(v.prices[f.name], t) :
                       TripleBarrier(p, f.side, f.t0) = f.outcome
    <2>1. /\ e \in Dataset(v) /\ f \in Dataset(v)
          /\ ~(f.t0 <= e.outcome.t1 /\ e.t0 <= f.outcome.t1)
          /\ f.t0 \notin (e.outcome.t1 + 1)..(e.outcome.t1 + size)
        BY <1>2, <1>4
    <2>2. \A x \in Dataset(v) : /\ x = EventAt(v, x.name, x.t0) /\ x.t0 \in Bars
                                /\ x.name \in Names
                                /\ x.outcome.t1 \in Bars
        BY Events
    <2>3. Bars \subseteq Nat
        BY MetaAssumption DEF Bars
    <2>4. /\ e.t0 \in Nat /\ f.t0 \in Nat /\ e.outcome.t1 \in Nat /\ f.outcome.t1 \in Nat
          /\ f = EventAt(v, f.name, f.t0) /\ f.name \in Names /\ f.t0 \in Bars
        BY <2>1, <2>2, <2>3
    <2> HIDE DEF size, splits
    <2>5. (e.t0..e.outcome.t1) \cap (f.t0..f.outcome.t1) = {}
        BY <2>1, <2>4
    <2>6. f.t0 > e.outcome.t1 => f.t0 - e.outcome.t1 > size
        BY <1>3, <2>1, <2>4
    <2>7. ASSUME NEW t \in e.t0..e.outcome.t1, NEW p \in OtherPrices(v.prices[f.name], t)
          PROVE  TripleBarrier(p, f.side, f.t0) = f.outcome
        <3>1. f.outcome = TripleBarrier(v.prices[f.name], f.side, f.t0)
            <4>1. f.side = EventAt(v, f.name, f.t0).side /\ f.outcome = EventAt(v, f.name, f.t0).outcome
                BY <2>4
            <4> QED
                BY <4>1 DEF EventAt
        <3>2. \A u \in f.t0..f.outcome.t1 : u \in Bars /\ u # t
            <4>1. f.outcome.t1 \in Bars
                BY <2>1, <2>2
            <4>2. \A u \in f.t0..f.outcome.t1 : u \in Bars
                BY <2>4, <4>1, MetaAssumption DEF Bars
            <4>3. \A u \in f.t0..f.outcome.t1 : u # t
                BY <2>5
            <4> QED
                BY <4>2, <4>3
        <3>3. v.prices[f.name] \in [Bars -> Int]
            BY <2>4, SplitsAre, ValidationAssumption
        <3>4. \A u \in f.t0..f.outcome.t1 : p[u] = v.prices[f.name][u]
            BY <2>7, <3>2, <3>3 DEF OtherPrices
        <3> QED
            BY <2>4, <3>1, <3>4, LabelsLookNoFurther
    <2> QED
        BY <2>5, <2>6, <2>7
<1> HIDE DEF splits, size, v
<1>5. LeakFreeSplits(splits, v.prices)
    BY <1>4 DEF LeakFreeSplits, size
<1> QED
    BY <1>5 DEF splits, v
------------------------------------------------------------------------------
\* What is scored is a version with at least as many events as the folds have
\* groups.
LEMMA ScoredIsScorable ==
    ASSUME IInv, [Next]_vars, scored' # scored
    PROVE  InputOf(scored') \in Scorable
<1>1. /\ version \in Seq(Versions) /\ Len(version) = data /\ data \in Nat \ {0}
      /\ dataset \in 0..data /\ folds \in Folds
    BY DEF IInv, MetaInv, RegistryInv, TypeOK
<1>2. ASSUME NEW d \in 0..data, CanScore(d),
             scored' = [positions |-> data, dataset |-> d, folds |-> folds]
      PROVE  InputOf(scored') \in Scorable
    <2>1. version[d] \in Versions /\ Cardinality(Dataset(version[d])) >= folds[1]
        BY <1>1, <1>2 DEF CanScore
    <2>2. InputOf(scored') = <<version[d], folds>>
        BY <1>2 DEF InputOf
    <2> QED
        BY <1>1, <2>1, <2>2 DEF Scorable
<1>3. CASE BuildMetaDataset
    <2>1. CanScore(data) /\ scored' = [positions |-> data, dataset |-> data, folds |-> folds]
        BY <1>3 DEF BuildMetaDataset
    <2> QED
        BY <1>1, <1>2, <2>1
<1>4. ASSUME NEW m \in ModeNames, NEW upto, MetaSizing(m, upto)
      PROVE  InputOf(scored') \in Scorable
    <2>1. CanScore(dataset) /\ scored' = [positions |-> data, dataset |-> dataset, folds |-> folds]
        BY <1>4 DEF MetaSizing
    <2> QED
        BY <1>1, <1>2, <2>1
<1>5. CASE JudgeMeta
    <2>1. CanScore(dataset) /\ scored' = [positions |-> data, dataset |-> dataset, folds |-> folds]
        BY <1>5 DEF JudgeMeta, Judgement
    <2> QED
        BY <1>1, <1>2, <2>1
<1>6. ~(UNCHANGED vars) /\ ~NewSignals /\ ~Sweep /\ \A upto : ~RunEngineB(upto)
    BY DEF vars, metaVars, NewSignals, Sweep, RunEngineB
<1> QED
    BY <1>3, <1>4, <1>5, <1>6 DEF Next

\* purged_cpcv_splits: whichever program scores events, and from whichever
\* version of the data, the scores are out of sample.
THEOREM ScoresAreOutOfSample == Spec => LeakFree
<1>1. ASSUME NEW in \in Scorable
      PROVE  LeakFreeOf[in]
    <2>1. LeakFreeOf[in] = LeakFreeSplits(SplitsOf[in], in[1].prices)
        BY TabulatedIs DEF LeakFreeOf
    <2> QED
        BY <2>1, SplitsAreLeakFree
<1>2. IInv /\ [Next]_vars => [scored' # scored => LeakFreeOf[InputOf(scored')]]_vars
    BY <1>1, ScoredIsScorable
<1> QED
    BY <1>2, Invariant, PTL DEF Spec, LeakFree
------------------------------------------------------------------------------
(* Sizes *)

\* A run of equal positions that bar t is in begins at bar u.
RunFrom(position, t, u) ==
    /\ \A b \in u..t : position[b] = position[t]
    /\ u > 0 => position[u - 1] # position[t]

\* The run that a bar is in has one first bar.
LEMMA EntryOfRun ==
    ASSUME NEW position, NEW t \in Nat
    PROVE  /\ EntryOf(position, t) \in 0..t
           /\ RunFrom(position, t, EntryOf(position, t))
           /\ \A u \in 0..t : RunFrom(position, t, u) => u = EntryOf(position, t)
<1> DEFINE S == {u \in 0..t : \A b \in u..t : position[b] = position[t]}
           first == Earliest(S)
<1>1. t \in S /\ S \in SUBSET Nat
    OBVIOUS
<1>2. first \in S /\ \A u \in S : first <= u
    <2> HIDE DEF S
    <2> QED
        BY <1>1, EarliestOf
<1>3. first \in 0..t /\ \A b \in first..t : position[b] = position[t]
    <2> HIDE DEF first
    <2> QED
        BY <1>2
<1>4. first > 0 => position[first - 1] # position[t]
    <2> SUFFICES ASSUME first > 0, position[first - 1] = position[t] PROVE FALSE
        OBVIOUS
    <2> HIDE DEF first
    <2>1. first - 1 \in 0..t /\ \A b \in (first - 1)..t : position[b] = position[t]
        <3>1. \A b \in (first - 1)..t : b = first - 1 \/ b \in first..t
            BY <1>3
        <3> QED
            BY <1>3, <3>1
    <2>2. first - 1 \in S
        BY <2>1
    <2>3. first <= first - 1
        BY <1>2, <2>2
    <2> QED
        BY <1>3, <2>3
<1>5. RunFrom(position, t, first)
    BY <1>3, <1>4 DEF RunFrom
<1> HIDE DEF first
<1>6. ASSUME NEW u \in 0..t, NEW w \in 0..t, RunFrom(position, t, u), RunFrom(position, t, w), u < w
      PROVE  FALSE
    <2>1. w - 1 \in u..t /\ w > 0
        BY <1>6
    <2> QED
        BY <1>6, <2>1 DEF RunFrom
<1>7. \A u, w \in 0..t : RunFrom(position, t, u) /\ RunFrom(position, t, w) => u = w
    <2> SUFFICES ASSUME NEW u \in 0..t, NEW w \in 0..t,
                        RunFrom(position, t, u), RunFrom(position, t, w)
                 PROVE  u = w
        OBVIOUS
    <2>1. ~(u < w) /\ ~(w < u)
        BY <1>6
    <2> QED
        BY <2>1
<1>8. EntryOf(position, t) = CHOOSE u \in 0..t : RunFrom(position, t, u)
    BY DEF EntryOf, RunFrom
<1>9. EntryOf(position, t) \in 0..t /\ RunFrom(position, t, EntryOf(position, t))
    BY <1>3, <1>5, <1>8
<1> QED
    BY <1>7, <1>9

\* The events whose runs cover a bar: none, or the entry of the run it is in.
LEMMA CoveringIsEntry ==
    ASSUME NEW v, NEW events \in SUBSET LabelledEvents(v), NEW x \in Names, NEW t \in Bars
    PROVE  Covering(v.positions[x], events, x, t)
           = {e \in events : e.name = x /\ e.t0 = EntryOf(v.positions[x], t)}
<1> DEFINE position == v.positions[x]
           entry == EntryOf(position, t)
<1>1. t \in Nat /\ Bars \subseteq Nat
    BY MetaAssumption DEF Bars
<1>2. /\ entry \in 0..t /\ RunFrom(position, t, entry)
      /\ \A u \in 0..t : RunFrom(position, t, u) => u = entry
    BY <1>1, EntryOfRun
<1> HIDE DEF entry
<1>3. ASSUME NEW e \in events, e.name = x
      PROVE  (e.t0 <= t /\ \A u \in e.t0..t : position[u] = position[t]) <=> e.t0 = entry
    <2>1. e.t0 \in EntryEvents(position) /\ e.t0 \in Bars
        BY <1>3, Events
    <2>2. e.t0 \in Nat /\ (e.t0 > 0 => position[e.t0] # position[e.t0 - 1])
        BY <1>1, <2>1 DEF EntryEvents
    <2>3. ASSUME e.t0 <= t, \A u \in e.t0..t : position[u] = position[t]
          PROVE  e.t0 = entry
        <3>1. e.t0 \in 0..t /\ position[e.t0] = position[t]
            BY <1>1, <2>2, <2>3
        <3>2. RunFrom(position, t, e.t0)
            BY <2>2, <2>3, <3>1 DEF RunFrom
        <3> QED
            BY <1>2, <3>1, <3>2
    <2>4. ASSUME e.t0 = entry
          PROVE  e.t0 <= t /\ \A u \in e.t0..t : position[u] = position[t]
        BY <1>1, <1>2, <2>4 DEF RunFrom
    <2> QED
        BY <2>3, <2>4
<1> QED
    BY <1>3 DEF Covering, entry

\* A name has one event at a bar.
LEMMA OneEntry ==
    ASSUME NEW v, NEW events \in SUBSET LabelledEvents(v), NEW x, NEW t
    PROVE  \A e, f \in {e \in events : e.name = x /\ e.t0 = t} : e = f
<1>1. \A e \in events : e = EventAt(v, e.name, e.t0)
    BY Events
<1> QED
    BY <1>1

\* The size scored for the entry of the run that a bar is in
SizeOfEntry(v, events, size, x, t) ==
    LET own == {e \in events : e.name = x /\ e.t0 = EntryOf(v.positions[x], t)}
    IN  (IF own = {} THEN FullSize ELSE size[CHOOSE e \in own : TRUE])

\* apply_meta_sizes overwrites: the size that remains is that of the entry.
LEMMA SizedByEntry ==
    ASSUME NEW v, NEW events \in SUBSET LabelledEvents(v), NEW size, NEW x \in Names, NEW t \in Bars
    PROVE  SizedPosition(v.positions, events, size, x, t)
           = SizeOfEntry(v, events, size, x, t) * v.positions[x][t]
<1> DEFINE entry == EntryOf(v.positions[x], t)
           own == {e \in events : e.name = x /\ e.t0 = entry}
           last == Latest({e.t0 : e \in own})
<1>1. Covering(v.positions[x], events, x, t) = own
    BY CoveringIsEntry
<1>2. SizedPosition(v.positions, events, size, x, t)
      = IF own = {} THEN FullSize * v.positions[x][t]
        ELSE size[CHOOSE e \in own : e.t0 = last] * v.positions[x][t]
    BY <1>1 DEF SizedPosition
<1>3. \A e, f \in own : e = f
    BY OneEntry
<1>4. ASSUME own # {}
      PROVE  (CHOOSE e \in own : e.t0 = last) = CHOOSE e \in own : TRUE
    <2>1. PICK e \in own : TRUE
        BY <1>4
    <2>2. own = {e}
        BY <1>3, <2>1
    <2>3. e.t0 = entry /\ {f.t0 : f \in own} = {entry}
        BY <2>1, <2>2
    <2>4. entry \in Int
        <3>1. e.t0 \in Bars
            BY <2>1, Events
        <3> QED
            BY <2>3, <3>1 DEF Bars
    <2> HIDE DEF own, entry
    <2>5. last = entry
        <3>1. \A y \in {entry} : y <= entry
            BY <2>4
        <3> QED
            BY <2>3, <3>1 DEF Latest
    <2> HIDE DEF last
    <2> QED
        BY <2>2, <2>3, <2>5
<1> HIDE DEF own, last
<1>5. SizedPosition(v.positions, events, size, x, t)
      = (IF own = {} THEN FullSize ELSE size[CHOOSE e \in own : TRUE]) * v.positions[x][t]
    BY <1>2, <1>4
<1> QED
    BY <1>5 DEF own, SizeOfEntry

\* A book that is made with the dataset of its own positions
LEMMA BooksAreEntrySized ==
    ASSUME IInv, NEW mode, NEW made, NEW t \in Bars,
           made.positions \in 1..data, mode = "off" \/ made.dataset = made.positions
    PROVE  EntrySized(mode, made, t)
<1> DEFINE v == version[made.positions]
           events == BookEvents(mode, made)
           size == BookSizes(mode, made)
           own(x) == {e \in events : e.name = x /\ e.t0 = EntryOf(v.positions[x], t)}
           expected == [x \in Names |->
               (IF own(x) = {} THEN FullSize ELSE size[CHOOSE e \in own(x) : TRUE]) * v.positions[x][t]]
           book == MetaBook(v.positions, events, size, t)
           flat == ~(Whole(expected, 1) > 0 /\ Whole(expected, -1) > 0)
<1>1. events \in SUBSET LabelledEvents(v)
    BY Events DEF BookEvents
<1> HIDE DEF v, events, size
<1>2. ASSUME NEW x \in Names
      PROVE  SizedPosition(v.positions, events, size, x, t)
             = (IF own(x) = {} THEN FullSize ELSE size[CHOOSE e \in own(x) : TRUE]) * v.positions[x][t]
    <2>1. SizedPosition(v.positions, events, size, x, t)
          = SizeOfEntry(v, events, size, x, t) * v.positions[x][t]
        BY <1>1, SizedByEntry
    <2> QED
        BY <2>1 DEF SizeOfEntry
<1>3. [x \in Names |-> SizedPosition(v.positions, events, size, x, t)] = expected
    <2> HIDE DEF own
    <2> QED
        BY <1>2
<1>4. book = DollarNeutral(expected)
    BY <1>3 DEF MetaBook
<1> HIDE DEF expected
<1>5. \A x \in Names :
          book[x] = IF ~flat /\ expected[x] # 0
                    THEN <<expected[x], Whole(expected, IF expected[x] > 0 THEN 1 ELSE -1)>>
                    ELSE <<0, 1>>
    BY <1>4 DEF DollarNeutral
<1> HIDE DEF book
<1>6. ASSUME NEW x \in Names
      PROVE  IF flat \/ expected[x] = 0 THEN book[x][1] = 0
             ELSE book[x] = <<expected[x], Whole(expected, IF expected[x] > 0 THEN 1 ELSE -1)>>
    <2>1. CASE flat \/ expected[x] = 0
        <3>1. book[x] = <<0, 1>>
            BY <1>5, <2>1
        <3> QED
            BY <2>1, <3>1
    <2>2. CASE ~(flat \/ expected[x] = 0)
        BY <1>5, <2>2
    <2> QED
        BY <2>1, <2>2
<1> QED
    BY <1>6 DEF EntrySized, v, events, size, expected, book, flat

\* A weight file that changes is of the current positions.
LEMMA NewFiles ==
    ASSUME IInv, [Next]_vars, NEW m \in ModeNames, NEW t \in FileRows,
           weights'[m][t] # weights[m][t]
    PROVE  weights'[m][t].positions = data
<1>1. weights \in [ModeNames -> [FileRows -> Made]]
    BY DEF IInv, FilesInv
<1>2. PICK mode \in ModeNames, upto \in Stops \cup {NumBars - 1} : MetaSizing(mode, upto)
    BY DEF Next, vars, metaVars, NewSignals, BuildMetaDataset, RunEngineB, JudgeMeta, Sweep
<1> DEFINE made == IF mode = "off" THEN [NoFile EXCEPT !.positions = data]
                   ELSE [positions |-> data, dataset |-> dataset, folds |-> folds]
           rows == [u \in FileRows |-> IF u < upto THEN made ELSE weights[mode][u]]
<1>3. weights' = [weights EXCEPT ![mode] = rows]
    BY <1>2 DEF MetaSizing
<1>4. made.positions = data
    BY DEF NoFile
<1> HIDE DEF made
<1>5. rows[t] = (IF t < upto THEN made ELSE weights[mode][t])
    OBVIOUS
<1> HIDE DEF rows
<1>6. weights'[m] = (IF m = mode THEN rows ELSE weights[m])
    BY <1>1, <1>3
<1>7. weights'[m][t] = made
    BY <1>5, <1>6
<1> QED
    BY <1>4, <1>7

\* meta_weights: the decision of a bet is that of its entry, as long as it is
\* held, and the two sides of every book are worth the same.
THEOREM BetsAreKept == Spec => BetsKeepTheirSize
<1>1. ASSUME IInv, [Next]_vars, NEW m \in ModeNames, NEW t \in FileRows,
             weights'[m][t] # weights[m][t],
             m = "off" \/ weights'[m][t].dataset = weights'[m][t].positions
      PROVE  EntrySized(m, weights'[m][t], t)
    <2>1. weights'[m][t].positions = data
        BY <1>1, NewFiles
    <2>2. data \in 1..data
        BY <1>1 DEF IInv, RegistryInv, TypeOK
    <2>3. t \in Bars
        BY MetaAssumption DEF FileRows, Bars
    <2> QED
        BY <1>1, <2>1, <2>2, <2>3, BooksAreEntrySized
<1>2. IInv /\ [Next]_vars
      => [\A m \in ModeNames, t \in FileRows :
             (/\ weights'[m][t] # weights[m][t]
              /\ m = "off" \/ weights'[m][t].dataset = weights'[m][t].positions)
             => EntrySized(m, weights'[m][t], t)]_vars
    BY <1>1
<1> QED
    BY <1>2, Invariant, PTL DEF Spec, BetsKeepTheirSize
------------------------------------------------------------------------------
(* Paths *)

\* The subsets of one size
SubsetsOf(S, m) == {d \in SUBSET S : Cardinality(d) = m}

\* Two sets of one size have as many subsets of each size.
LEMMA SubsetsOfOneSize ==
    ASSUME NEW S, NEW T, IsFiniteSet(S), IsFiniteSet(T), Cardinality(S) = Cardinality(T), NEW m
    PROVE  Cardinality(SubsetsOf(S, m)) = Cardinality(SubsetsOf(T, m))
<1> DEFINE A == {d \in SUBSET S : Cardinality(d) = m}
           B == {d \in SUBSET T : Cardinality(d) = m}
<1>1. PICK b : b \in Bijection(S, T)
    BY FS_SameCardinalityBij DEF ExistsBijection
<1>2. /\ b \in [S -> T]
      /\ \A x, y \in S : b[x] = b[y] => x = y
      /\ \A y \in T : \E x \in S : b[x] = y
    BY <1>1 DEF Bijection, Injection, Surjection, IsInjective
<1> DEFINE Image(d) == {b[x] : x \in d}
           F == [d \in A |-> Image(d)]
<1>3. ASSUME NEW d \in SUBSET S
      PROVE  Image(d) \in SUBSET T /\ Cardinality(Image(d)) = Cardinality(d)
    <2> DEFINE h == [x \in d |-> b[x]]
    <2>1. h \in [d -> Image(d)]
        OBVIOUS
    <2>2. \A x, y \in d : h[x] = h[y] => x = y
        BY <1>2
    <2>3. \A y \in Image(d) : \E x \in d : h[x] = y
        OBVIOUS
    <2> HIDE DEF h, Image
    <2>4. h \in Bijection(d, Image(d))
        BY <2>1, <2>2, <2>3 DEF Bijection, Injection, Surjection, IsInjective
    <2>5. IsFiniteSet(d)
        BY FS_Subset
    <2>6. Cardinality(Image(d)) = Cardinality(d)
        BY <2>4, <2>5, FS_Bijection DEF ExistsBijection
    <2>7. Image(d) \in SUBSET T
        BY <1>2 DEF Image
    <2> QED
        BY <2>6, <2>7
<1>4. \A d, e \in SUBSET S : Image(d) = Image(e) => d = e
    <2> SUFFICES ASSUME NEW d \in SUBSET S, NEW e \in SUBSET S, Image(d) = Image(e), NEW x \in d
                 PROVE  x \in e
        <3>1. ASSUME NEW d \in SUBSET S, NEW e \in SUBSET S, Image(d) = Image(e)
              PROVE  d = e
            <4>1. \A x : x \in d => x \in e
                BY <3>1
            <4>2. \A x : x \in e => x \in d
                BY <3>1
            <4> QED
                BY <4>1, <4>2
        <3> QED
            BY <3>1
    <2>1. b[x] \in Image(e)
        OBVIOUS
    <2>2. PICK y \in e : b[x] = b[y]
        BY <2>1
    <2> QED
        BY <1>2, <2>2
<1>5. \A e \in B : \E d \in A : Image(d) = e
    <2> SUFFICES ASSUME NEW e \in B PROVE \E d \in A : Image(d) = e
        OBVIOUS
    <2> DEFINE d == {x \in S : b[x] \in e}
    <2>1. Image(d) = e
        BY <1>2
    <2>2. d \in A
        BY <1>3, <2>1
    <2> QED
        BY <2>1, <2>2
<1>6. F \in Bijection(A, B)
    <2>1. F \in [A -> B]
        BY <1>3
    <2>2. \A d \in A : F[d] = Image(d) /\ d \in SUBSET S
        OBVIOUS
    <2> HIDE DEF F, Image, A, B
    <2> QED
        BY <1>4, <1>5, <2>1, <2>2 DEF Bijection, Injection, Surjection, IsInjective
<1>7. IsFiniteSet(A)
    <2>1. A \in SUBSET (SUBSET S)
        OBVIOUS
    <2> QED
        BY <2>1, FS_SUBSET, FS_Subset
<1> HIDE DEF A, B, F
<1>8. Cardinality(B) = Cardinality(A)
    BY <1>6, <1>7, FS_Bijection DEF ExistsBijection
<1> QED
    BY <1>8 DEF A, B, SubsetsOf

\* The splits that test a group
Testing(groups, k, g) == {c \in Combinations(groups, k) : g \in c}

\* Every group is tested by as many splits as there are paths.
LEMMA TestedByEachPath ==
    ASSUME NEW groups \in Nat \ {0}, NEW k \in Nat \ {0}, NEW g \in 0..(groups - 1)
    PROVE  /\ IsFiniteSet(Testing(groups, k, g))
           /\ Cardinality(Testing(groups, k, g)) = NumPaths(groups, k)
<1> DEFINE G == 0..(groups - 1)
           A == Testing(groups, k, g)
           B == {d \in SUBSET (G \ {g}) : Cardinality(d) = k - 1}
           F == [c \in A |-> c \ {g}]
<1>1. IsFiniteSet(G) /\ Cardinality(G) = groups
    <2>1. 0 \in Int /\ groups - 1 \in Int /\ (groups - 1) - 0 + 1 = groups /\ ~(0 > groups - 1)
        OBVIOUS
    <2> QED
        BY <2>1, FS_Interval
<1>2. IsFiniteSet(1..(groups - 1)) /\ Cardinality(1..(groups - 1)) = groups - 1
    <2>1. 1 \in Int /\ groups - 1 \in Int /\ (groups - 1) - 1 + 1 = groups - 1
          /\ (1 > groups - 1 => groups - 1 = 0)
        OBVIOUS
    <2> QED
        BY <2>1, FS_Interval
<1>3. IsFiniteSet(G \ {g}) /\ Cardinality(G \ {g}) = groups - 1
    <2>1. g \in G
        OBVIOUS
    <2> HIDE DEF G
    <2> QED
        BY <1>1, <2>1, FS_RemoveElement
<1>4. A = {c \in SUBSET G : Cardinality(c) = k /\ g \in c}
    BY DEF Testing, Combinations
<1>5. IsFiniteSet(A)
    <2>1. A \in SUBSET (SUBSET G)
        BY <1>4
    <2> QED
        BY <1>1, <2>1, FS_SUBSET, FS_Subset
<1>6. \A c \in SUBSET G : IsFiniteSet(c) /\ Cardinality(c) \in Nat
    BY <1>1, FS_Subset, FS_CardinalityType
<1>7. F \in Bijection(A, B)
    <2>1. ASSUME NEW c \in A PROVE c \ {g} \in B
        <3>1. c \in SUBSET G /\ Cardinality(c) = k /\ g \in c
            BY <1>4
        <3>2. Cardinality(c \ {g}) = k - 1
            <4>1. IsFiniteSet(c)
                BY <1>6, <3>1
            <4> QED
                BY <3>1, <4>1, FS_RemoveElement
        <3> QED
            BY <3>1, <3>2
    <2>2. \A c, e \in A : c \ {g} = e \ {g} => c = e
        BY <1>4
    <2>3. ASSUME NEW d \in B PROVE \E c \in A : c \ {g} = d
        <3>1. d \cup {g} \in SUBSET G /\ d \in SUBSET G /\ g \notin d
            OBVIOUS
        <3>2. Cardinality(d \cup {g}) = k
            <4>1. Cardinality(d \cup {g}) = Cardinality(d) + 1
                BY <1>6, <3>1, FS_AddElement
            <4>2. Cardinality(d) = k - 1
                OBVIOUS
            <4> QED
                BY <4>1, <4>2
        <3>3. d \cup {g} \in A /\ (d \cup {g}) \ {g} = d
            BY <1>4, <3>1, <3>2
        <3> QED
            BY <3>3
    <2>4. F \in [A -> B] /\ \A c \in A : F[c] = c \ {g}
        BY <2>1
    <2>5. \A c, e \in A : F[c] = F[e] => c = e
        BY <2>2, <2>4
    <2>6. \A d \in B : \E c \in A : F[c] = d
        <3> SUFFICES ASSUME NEW d \in B PROVE \E c \in A : F[c] = d
            OBVIOUS
        <3>1. PICK c \in A : c \ {g} = d
            BY <2>3
        <3> QED
            BY <2>4, <3>1
    <2> HIDE DEF F, A, B
    <2> QED
        BY <2>4, <2>5, <2>6 DEF Bijection, Injection, Surjection, IsInjective
<1>8. Cardinality(B) = NumPaths(groups, k)
    <2>1. Cardinality(SubsetsOf(G \ {g}, k - 1)) = Cardinality(SubsetsOf(1..(groups - 1), k - 1))
        <3> HIDE DEF G
        <3> QED
            BY <1>2, <1>3, SubsetsOfOneSize
    <2> QED
        BY <2>1 DEF NumPaths, SubsetsOf
<1> HIDE DEF A, B, F
<1>9. Cardinality(B) = Cardinality(A)
    BY <1>5, <1>7, FS_Bijection DEF ExistsBijection
<1> QED
    BY <1>5, <1>8, <1>9 DEF A
------------------------------------------------------------------------------
\* The first difference decides.
LEMMA FirstDifference ==
    ASSUME NEW c \in SUBSET Nat, NEW d \in SUBSET Nat
    PROVE  Earlier(c, d) <=> \E m \in c \ d : \A x \in Nat : x < m => (x \in c <=> x \in d)
<1>1. ASSUME Earlier(c, d)
      PROVE  \E m \in c \ d : \A x \in Nat : x < m => (x \in c <=> x \in d)
    <2>1. PICK n \in c \ d : \A x \in d \ c : n < x
        BY <1>1 DEF Earlier
    <2>2. PICK m \in c \ d : \A y \in c \ d : m <= y
        <3>1. c \ d \in SUBSET Nat /\ c \ d # {}
            BY <2>1
        <3> QED
            BY <3>1, EarliestOf
    <2>3. m \in Nat /\ n \in Nat /\ m <= n
        BY <2>1, <2>2
    <2>4. \A x \in Nat : x < m => (x \in c <=> x \in d)
        BY <2>1, <2>2, <2>3
    <2> QED
        BY <2>4
<1>2. ASSUME NEW m \in c \ d, \A x \in Nat : x < m => (x \in c <=> x \in d)
      PROVE  Earlier(c, d)
    <2>1. \A x \in d \ c : m < x
        <3> SUFFICES ASSUME NEW x \in d \ c PROVE m < x
            OBVIOUS
        <3>1. x \in Nat /\ m \in Nat /\ x # m /\ ~(x < m)
            BY <1>2
        <3> QED
            BY <3>1
    <2> QED
        BY <2>1 DEF Earlier
<1> QED
    BY <1>1, <1>2

\* The order of itertools.combinations is strict and total.
CombinationOrder(S) == {p \in S \X S : Earlier(p[1], p[2])}

\* No two combinations share their place in the list.
LEMMA CombinationsInOrder ==
    ASSUME NEW S \in SUBSET (SUBSET Nat)
    PROVE  /\ Orders(CombinationOrder(S), S)
           /\ \A c \in S : Rank(S, CombinationOrder(S), c)
                           = Cardinality({d \in S : Earlier(d, c)})
<1>1. \A c, d \in S : <<c, d>> \in CombinationOrder(S) <=> Earlier(c, d)
    BY DEF CombinationOrder
<1>2. \A c \in S : ~Earlier(c, c)
    BY DEF Earlier
<1>3. ASSUME NEW c \in S, NEW d \in S, c # d
      PROVE  Earlier(c, d) \/ Earlier(d, c)
    <2> DEFINE D == (c \ d) \cup (d \ c)
    <2>1. D \in SUBSET Nat /\ D # {}
        BY <1>3
    <2>2. PICK m \in D : \A y \in D : m <= y
        BY <2>1, EarliestOf
    <2>3. m \in Nat /\ \A x \in Nat : x < m => x \notin D
        BY <2>1, <2>2
    <2>4. \A x \in Nat : x < m => (x \in c <=> x \in d)
        BY <2>3
    <2>5. c \in SUBSET Nat /\ d \in SUBSET Nat
        OBVIOUS
    <2>6. CASE m \in c \ d
        BY <2>4, <2>5, <2>6, FirstDifference
    <2>7. CASE m \in d \ c
        BY <2>4, <2>5, <2>7, FirstDifference
    <2> QED
        BY <2>6, <2>7
<1>4. ASSUME NEW c \in S, NEW d \in S, NEW e \in S, Earlier(c, d), Earlier(d, e)
      PROVE  Earlier(c, e)
    <2>0. c \in SUBSET Nat /\ d \in SUBSET Nat /\ e \in SUBSET Nat
        OBVIOUS
    <2>1. PICK m \in c \ d : \A x \in Nat : x < m => (x \in c <=> x \in d)
        BY <1>4, <2>0, FirstDifference
    <2>2. PICK n \in d \ e : \A x \in Nat : x < n => (x \in d <=> x \in e)
        BY <1>4, <2>0, FirstDifference
    <2>3. m \in Nat /\ n \in Nat /\ m # n
        BY <2>0, <2>1, <2>2
    <2>4. CASE m < n
        <3>1. m \in c \ e
            BY <2>1, <2>2, <2>3, <2>4
        <3>2. \A x \in Nat : x < m => (x \in c <=> x \in e)
            BY <2>1, <2>2, <2>3, <2>4
        <3> QED
            BY <2>0, <3>1, <3>2, FirstDifference
    <2>5. CASE n < m
        <3>1. n \in c \ e
            BY <2>1, <2>2, <2>3, <2>5
        <3>2. \A x \in Nat : x < n => (x \in c <=> x \in e)
            BY <2>1, <2>2, <2>3, <2>5
        <3> QED
            BY <2>0, <3>1, <3>2, FirstDifference
    <2> QED
        BY <2>3, <2>4, <2>5
<1>5. Orders(CombinationOrder(S), S)
    BY <1>1, <1>2, <1>3, <1>4 DEF Orders
<1>6. ASSUME NEW c \in S
      PROVE  Rank(S, CombinationOrder(S), c) = Cardinality({d \in S : Earlier(d, c)})
    <2>1. {d \in S : <<d, c>> \in CombinationOrder(S)} = {d \in S : Earlier(d, c)}
        BY <1>1
    <2> QED
        BY <2>1 DEF Rank
<1> QED
    BY <1>5, <1>6

\* How many splits of S are listed before c
Place(S, c) == Cardinality({d \in S : Earlier(d, c)})

\* The split that supplies a group of a path
LEMMA PathSplits ==
    ASSUME NEW groups \in Nat \ {0}, NEW k \in Nat \ {0}, NEW g \in 0..(groups - 1)
    PROVE  /\ NumPaths(groups, k) \in Nat
           /\ \A j \in 0..(NumPaths(groups, k) - 1) :
                 /\ PathSplit(groups, k, j, g) \in Testing(groups, k, g)
                 /\ Place(Testing(groups, k, g), PathSplit(groups, k, j, g)) = j
<1> DEFINE S == Testing(groups, k, g)
           R == CombinationOrder(S)
           At(j) == PathSplit(groups, k, j, g)
<1>1. S \in SUBSET (SUBSET Nat)
    <2>1. \A c \in S : c \subseteq 0..(groups - 1)
        BY DEF Testing, Combinations
    <2>2. 0..(groups - 1) \subseteq Nat
        OBVIOUS
    <2> QED
        BY <2>1, <2>2
<1>2. IsFiniteSet(S) /\ Cardinality(S) = NumPaths(groups, k)
    BY TestedByEachPath
<1>3. \A j : At(j) = CHOOSE c \in S : Place(S, c) = j
    BY DEF PathSplit, Testing, Place
<1> HIDE DEF S, At
<1>4. Orders(R, S) /\ \A c \in S : Rank(S, R, c) = Place(S, c)
    BY <1>1, CombinationsInOrder DEF Place
<1> HIDE DEF R
<1>5. Cardinality(S) \in Nat /\ \A j \in 0..(Cardinality(S) - 1) : \E c \in S : Rank(S, R, c) = j
    BY <1>2, <1>4, Ranks
<1>6. ASSUME NEW j \in 0..(Cardinality(S) - 1)
      PROVE  At(j) \in S /\ Place(S, At(j)) = j
    <2>1. \E c \in S : Place(S, c) = j
        BY <1>4, <1>5
    <2> QED
        BY <1>3, <2>1
<1>7. \A j \in 0..(NumPaths(groups, k) - 1) :
          At(j) \in S /\ Place(S, At(j)) = j
    BY <1>2, <1>6
<1> QED
    BY <1>2, <1>5, <1>7 DEF S, At

\* The group that a bar is in
LEMMA GroupOf ==
    ASSUME NEW n \in Nat, NEW groups \in Nat \ {0}, NEW t \in 0..(n - 1)
    PROVE  LET g == CHOOSE g \in 0..(groups - 1) : t \in Group(n, groups, g)
           IN  g \in 0..(groups - 1) /\ t \in Group(n, groups, g)
BY OneGroup

\* An event has a model for each path.
LEMMA ModelsPerPath ==
    ASSUME NEW v, NEW groups \in Nat \ {0}, NEW k \in Nat \ {0}, NEW e \in Dataset(v)
    PROVE  Cardinality(ModelsOf(Splits(Dataset(v), groups, k), e)) = NumPaths(groups, k)
<1> DEFINE S == Dataset(v)
           n == Cardinality(S)
           order == InEntryOrder(S)
           splits == Splits(S, groups, k)
<1>1. /\ n \in Nat /\ DOMAIN order = 0..(n - 1)
      /\ \A i, j \in 0..(n - 1) : order[i] = order[j] => i = j
      /\ \E i \in 0..(n - 1) : order[i] = e
    BY EntryOrderLists
<1>2. PICK i \in 0..(n - 1) : order[i] = e
    BY <1>1
<1>3. PICK g \in 0..(groups - 1) : i \in Group(n, groups, g)
    BY <1>1, OneGroup
<1>4. /\ DOMAIN splits = Combinations(groups, k)
      /\ \A c \in Combinations(groups, k) :
            splits[c].test = {order[j] : j \in TestBars(n, groups, c)}
    BY DEF Splits
<1> HIDE DEF S, n, order, splits
<1>5. ASSUME NEW c \in Combinations(groups, k)
      PROVE  e \in splits[c].test <=> g \in c
    <2>1. c \subseteq 0..(groups - 1)
        BY DEF Combinations
    <2>2. \A j \in TestBars(n, groups, c) : j \in 0..(n - 1)
        BY <1>1, <2>1, OneGroup DEF TestBars
    <2>3. e \in splits[c].test <=> i \in TestBars(n, groups, c)
        BY <1>1, <1>2, <1>4, <2>2
    <2>4. i \in TestBars(n, groups, c) <=> \E h \in c : i \in Group(n, groups, h)
        BY DEF TestBars
    <2>5. (\E h \in c : i \in Group(n, groups, h)) <=> g \in c
        BY <1>1, <1>3, <2>1, OneGroup
    <2> QED
        BY <2>3, <2>4, <2>5
<1>6. ModelsOf(splits, e) = Testing(groups, k, g)
    BY <1>4, <1>5 DEF ModelsOf, Testing
<1> QED
    BY <1>6, TestedByEachPath DEF splits, S

\* A bar of a path is predicted by a split that tests it, by another one on
\* each path.
LEMMA PathsAreApart ==
    ASSUME NEW groups \in Nat \ {0}, NEW k \in Nat \ {0}, NEW t \in Bars,
           NEW i \in 0..(NumPaths(groups, k) - 1), NEW j \in 0..(NumPaths(groups, k) - 1)
    PROVE  /\ t \in TestBars(NumBars, groups, PathAt(NumBars, groups, k, j, t))
           /\ PathAt(NumBars, groups, k, i, t) = PathAt(NumBars, groups, k, j, t) => i = j
<1> DEFINE g == CHOOSE g \in 0..(groups - 1) : t \in Group(NumBars, groups, g)
           S == Testing(groups, k, g)
           At(x) == PathAt(NumBars, groups, k, x, t)
<1>1. g \in 0..(groups - 1) /\ t \in Group(NumBars, groups, g)
    BY GroupOf, MetaAssumption DEF Bars
<1>2. \A x : At(x) = PathSplit(groups, k, x, g)
    BY DEF PathAt
<1> HIDE DEF g, At
<1>3. /\ At(i) \in S /\ Place(S, At(i)) = i
      /\ At(j) \in S /\ Place(S, At(j)) = j
    BY <1>1, <1>2, PathSplits
<1>4. g \in At(j)
    BY <1>3 DEF Testing
<1>5. t \in TestBars(NumBars, groups, At(j))
    BY <1>1, <1>4 DEF TestBars
<1>6. At(i) = At(j) => i = j
    <2> HIDE DEF S
    <2> QED
        BY <1>3
<1> QED
    BY <1>5, <1>6 DEF At

\* What a split was trained on is far from every bar that it tests.
LEMMA TrainedFar ==
    ASSUME NEW groups, NEW c, NEW t \in Bars, t \in TestBars(NumBars, groups, c),
           NEW u \in CpcvTrain(NumBars, groups, c, EmbargoPercent, MaxHolding)
    PROVE  u + MaxHolding < t \/ u > t + MaxHolding + EmbargoSize(NumBars, EmbargoPercent)
<1> DEFINE w == DefaultWindows(NumBars, MaxHolding)
           size == EmbargoSize(NumBars, EmbargoPercent)
           test == TestBars(NumBars, groups, c)
<1>1. /\ u \in 0..(NumBars - 1)
      /\ ~Overlap(w[u], w[t])
      /\ u \notin (w[t].end + 1)..Smaller(w[t].end + size, NumBars - 1)
    <2>1. u \in Embargo(Purge(0..(NumBars - 1) \ test, test, w), test, w, NumBars, EmbargoPercent)
        BY DEF CpcvTrain, PurgedTrain
    <2> HIDE DEF test, w
    <2>2. t \in test
        BY DEF test
    <2> QED
        BY <2>1, <2>2 DEF Embargo, Purge
<1>2. /\ w[u].start = u /\ w[u].end = u + MaxHolding
      /\ w[t].start = t /\ w[t].end = t + MaxHolding
    BY <1>1 DEF DefaultWindows, Bars
<1>3. size \in Int /\ u \in Int /\ t \in Int /\ NumBars \in Nat /\ MaxHolding \in Nat
    BY <1>1, MetaAssumption DEF EmbargoSize, Bars
<1> HIDE DEF w, size
<1>4. ~(u <= t + MaxHolding /\ t <= u + MaxHolding)
    BY <1>1, <1>2 DEF Overlap
<1>5. u \notin (t + MaxHolding + 1)..Smaller(t + MaxHolding + size, NumBars - 1)
    BY <1>1, <1>2
<1>6. u + MaxHolding < t \/ u > t + MaxHolding + size
    BY <1>1, <1>3, <1>4, <1>5 DEF Smaller
<1> QED
    BY <1>6 DEF size

\* The paths of a version and folds
LEMMA SplitsTile ==
    ASSUME NEW in \in Scorable
    PROVE  Tiles(Dataset(in[1]), SplitsOf[in], in[2][1], in[2][2])
<1> DEFINE groups == in[2][1]
           k == in[2][2]
           events == Dataset(in[1])
           paths == 0..(NumPaths(groups, k) - 1)
<1>1. /\ SplitsOf[in] = Splits(events, groups, k)
      /\ groups \in Nat \ {0} /\ k \in Nat \ {0}
    <2>1. groups \in Nat \ {0} /\ k \in 1..(groups - 1)
        BY SplitsAre
    <2> HIDE DEF groups, k
    <2>2. k \in Nat \ {0}
        BY <2>1
    <2> QED
        BY <2>1, <2>2, SplitsAre DEF groups, k
<1> HIDE DEF groups, k
<1>2. \A e \in events : Cardinality(ModelsOf(SplitsOf[in], e)) = NumPaths(groups, k)
    BY <1>1, ModelsPerPath
<1>3. \A t \in Bars, i, j \in paths :
         /\ t \in TestBars(NumBars, groups, PathAt(NumBars, groups, k, j, t))
         /\ PathAt(NumBars, groups, k, i, t) = PathAt(NumBars, groups, k, j, t) => i = j
    BY <1>1, PathsAreApart
<1>4. \A t \in Bars, j \in paths :
         \A u \in CpcvTrain(NumBars, groups, PathAt(NumBars, groups, k, j, t), EmbargoPercent, MaxHolding) :
             \/ u + MaxHolding < t
             \/ u > t + MaxHolding + EmbargoSize(NumBars, EmbargoPercent)
    BY <1>3, TrainedFar
<1>5. Tiles(events, SplitsOf[in], groups, k)
    BY <1>2, <1>3, <1>4 DEF Tiles
<1> QED
    BY <1>5 DEF groups, k

\* cpcv.py: every event is tested once per path, every bar of every path has
\* its own split, and what that was trained on is purged and embargoed.
THEOREM PathsTileTheBars == Spec => PathsTile
<1>1. ASSUME NEW in \in Scorable
      PROVE  TilesOf[in]
    <2>1. TilesOf[in] = Tiles(Dataset(in[1]), SplitsOf[in], in[2][1], in[2][2])
        BY TabulatedIs DEF TilesOf
    <2> QED
        BY <2>1, SplitsTile
<1>2. IInv /\ [Next]_vars => [scored' # scored => TilesOf[InputOf(scored')]]_vars
    BY <1>1, ScoredIsScorable
<1> QED
    BY <1>2, Invariant, PTL DEF Spec, PathsTile
==============================================================================
