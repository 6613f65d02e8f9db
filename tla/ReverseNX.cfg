SPECIFICATION MCSpec
CONSTANTS
    isMariko = FALSE
    freqTable <- EristaTable
    boostCpuFreq = 17850
    maxMemFreq = 18624
    Apps = {"game", "menu"}
    ProfileLists <- JustNone
    ValueLists <- JustDefault
    OverrideFreqs = {0}
    CoarseMtime = FALSE
    PowerStates <- HandheldOfficial
    ApmConfs = {"00020003", "92220009"}
    ChargeLevels = {50}
    RTModes = {"Docked"}
    ToolMode <- NoTool
    IpcExit = FALSE
    ForceDisable = FALSE
    SlowCalls = FALSE
    HeapWords = {0}
    MaxEvents = 2
    FirstFiles <- AnyFile
PROPERTIES NominalProfileSyncs
