\* Two turns and an answer, one consumer, callers at any moment.
SPECIFICATION StreamSpec
CONSTANTS
    Base = 2
    Width = 2
    Digit = 4
    TimeDigits = 1
    Group = 2
    GroupDigits = 1
    MaxMs = 0
    MaxIds = 2
    Kinds = {"iterator", "sse"}
    MaxProgress = 1
    MaxDeliveries = 3
    MaxStreams = 1
    MaxFailures = 1
    MaxLeaves = 1
CHECK_DEADLOCK FALSE
INVARIANTS OneTerminal StreamIsWhole NobodyIsStranded StrictlyIncreasing
