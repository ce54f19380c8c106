SPECIFICATION Spec
CONSTANTS
    Configurations = {"narrow", "wide"}
    Grid <- MC_Grid
    MaxVersions = 2
    MaxDeaths = 1
    Names = {1, 2}
    NumBars = 8
    ProfitTake = 2
    StopLoss = 1
    MaxHolding = 3
    FirstFeatures = 1
    EmbargoPercent = 13
    Proba <- MC_Proba
    FullSize = 4
    Floor = 1
    Versions <- MC_Versions
    Updates <- MC_Updates
    Folds <- MC_Folds
    MaxPrograms = 6
    Stops = {3}
CHECK_DEADLOCK FALSE
INVARIANTS
    UncutTrialsLoad
    DeflatesThisSweep
PROPERTIES
    SweepsRecover
    LeakFree
    PathsTile
    BetsKeepTheirSize
