SPECIFICATION MCSpec
CONSTANTS
    isMariko = TRUE
    freqTable <- Table
    boostCpuFreq = 17850
    maxMemFreq = 0
    Cores = {2, 3}
    SysCore = 3
    UpdateRate = 1
    Utils = {1000}
    MaxHzs <- Range
    MinHzs = {6120}
    BoostHzs = {17850}
    PerfConfs = {"00010000"}
    HeapFlags = {FALSE}
    HeapHz = {0}
    MaxEvents = 4
PROPERTIES CpuFollowsLoad
CHECK_DEADLOCK FALSE
