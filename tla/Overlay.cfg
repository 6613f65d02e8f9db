SPECIFICATION OverlaySpec
CONSTANTS
    FadeSteps = 5
    Titles = {game, menu}
    Fields = {dockedCPU}
    Governors = {CPU}
    Modules = {MEM}
    Options = {governor}
    GovernorOption = governor
    Freqs = {1600}
    None = None
    MaxChanges = 2
INVARIANTS OverlayTypeOK InputIsCurrent
PROPERTIES EditsOneItem HideCompletes
CHECK_DEADLOCK FALSE
