SPECIFICATION MCSpec
CONSTANTS
    isMariko = FALSE
    freqTable <- EristaTable
    boostCpuFreq = 17850
    maxMemFreq = 18624
    Apps = {"game"}
    ProfileLists <- NoneHot
    ValueLists <- UnsafeBoosting
    OverrideFreqs = {0}
    CoarseMtime = TRUE
    PowerStates <- HandheldDock
    ApmConfs = {"00020003", "92220009"}
    ChargeLevels = {50}
    RTModes = {"NotFound"}
    ToolMode <- NoTool
    IpcExit = TRUE
    ForceDisable = FALSE
    SlowCalls = TRUE
    HeapWords = {0}
    MaxEvents = 2
    FirstFiles <- AnyFile
INVARIANTS CapHeld BoostNeedsCharger
PROPERTIES SetWithinCap
