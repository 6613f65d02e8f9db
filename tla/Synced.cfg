SPECIFICATION TickingSpec
CONSTANTS
    isMariko = TRUE
    freqTable <- MarikoTable
    boostCpuFreq = 17850
    maxMemFreq = 19968
    Apps = {"game", "menu"}
    ProfileLists <- TitleGlobal
    ValueLists <- Mixed
    OverrideFreqs = {0, 10200}
    CoarseMtime = FALSE
    PowerStates <- HandheldDock
    ApmConfs = {"00020003", "92220009"}
    ChargeLevels = {80}
    RTModes = {"Handheld"}
    ToolMode <- HandheldGame
    IpcExit = FALSE
    ForceDisable = TRUE
    SlowCalls = FALSE
    HeapWords = {0}
    MaxEvents = 2
    FirstFiles <- JustUsed
INVARIANTS SettingsCurrent
PROPERTIES SettlesOnRequest ChargeLimitHolds GovernorRangeSettles OneOwner
