\* Two workers claim from four rows, two at a time.
SPECIFICATION FairSpec
CONSTANTS
    Worker = {w1, w2}
    Window = 2
    Priorities = {"LOW", "MEDIUM"}
    MaxRows = 4
    MaxDue = 2
    MaxFaults = 1
    None = None
INVARIANTS TypeOK PassesBounded
PROPERTIES ImplementsQueue RowsClaimed
CHECK_DEADLOCK FALSE
