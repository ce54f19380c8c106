SPECIFICATION FilesSpec
CONSTANTS
    Combos <- MC_Combos
    EngineRuns <- MC_EngineRuns
    Leftovers <- MC_Leftovers
    Trading <- MC_Trading
    LogColumns <- MC_LogColumns
    Panels = 1
    PlotNames <- MC_PlotNames
    RunNames = {1}
    MaxPrograms = 3
CHECK_DEADLOCK FALSE
INVARIANTS
    NothingLost
    SummaryCountsHeld
