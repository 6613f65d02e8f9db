SPECIFICATION Spec
CONSTANTS
    KipFiles <- SomeFiles
    Typed <- Limits
    MaxLoads = 2
    MaxEdits = 1
INVARIANTS SavedIntact SavedBoots
