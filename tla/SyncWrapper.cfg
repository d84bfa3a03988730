SPECIFICATION MCSpec
CONSTANTS
    Free = Free
    u1 = u1
    u2 = u2
    MaxFrame = 2
INVARIANTS
    RingsSound
    DataMatchesTimestamp
    RunloopSound
PROPERTIES
    FormatRequested
    TaskServed
    GetReturns
