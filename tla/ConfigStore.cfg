SPECIFICATION Spec
CONSTANTS
    Sections = {values, title}
    Lines = {slow, fast}
    Absent = Absent
    Off = Off
    Failing = {"create", "openTemp"}
INVARIANTS AppliedIsSaved
PROPERTIES SavesAreAtomic
