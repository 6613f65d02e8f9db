SPECIFICATION MCSpec
CONSTANTS
    isMariko = TRUE
    freqTable <- Table
    boostCpuFreq = 17850
    maxMemFreq = 0
    Cores = {2, 3}
    SysCore = 3
    UpdateRate = 2
    Utils = {0, 1000}
    MaxHzs <- Range
    MinHzs = {6120}
    BoostHzs = {17850}
    PerfConfs = {"00010000", "92220009"}
    HeapFlags = {TRUE, FALSE}
    HeapHz = {7680}
    MaxEvents = 3
INVARIANTS NoThreadLeft
PROPERTIES OwnsItsClocks SetConfigReturns GpuFollowsLoad BoostSettles
CHECK_DEADLOCK FALSE
