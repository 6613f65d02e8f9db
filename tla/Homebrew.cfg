SPECIFICATION HomebrewSpec
CONSTANTS
    Heap = 160
    Ram = 24
    Header = 1
    pagesize = 2
    wantbytes_orig = 16
    AlmostAll = 15
    WordBits = 8
    Rands = {0, 93}
    Faults <- SomeFaults
    FrameCoversPoll = TRUE
    THREADS = 3
    MAXREPEATS = 4
    Addresses = {1050000}
    Random32 = {0, 77, 65535}
    Wakeups = 1
INVARIANTS RoundIsWhole AccessesInside
PROPERTIES Verdict TestsEnd
CHECK_DEADLOCK FALSE
