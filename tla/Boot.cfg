SPECIFICATION BootSpec
CONSTANTS
    Nsos <- AllNsos
    Customs <- AllCustoms
    PtmImages <- AllPtmImages
    entryCnt = 4
    Cards <- AllCards
INVARIANTS BootTypeOK ScanUnaffected TablesAgree MemoryAgrees TimingsFit RequestedRatesExist ClocksMatchDriver TablesUsable KipFound VoltagesSafe
CHECK_DEADLOCK FALSE
