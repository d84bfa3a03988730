SPECIFICATION MCSpec
CONSTANTS
    ClockMod = 6
    PidUpdate = 2
    ImuReport = 3
    MaxGap = 2
    Commands <- MCCommands
    ServoMax = 1
    TxSize = 4
    LineRoom = 3
    Lines <- MCLines
    MaxRx = 2
    Errors <- MCErrors
    HeadingsSent = {10}
    LockBand = 5
    LockHold = 2
    IdleHold = 1
    ImuStale = 1
    Spread = 15
    TrackerTime = 2
    Samples <- MCSamples
    HeadingsShown <- MCHeadings
    AudioStale = 1
    Timeline = 1
    EdgeHeading = 85
    MaxQueue = 2
    VisualizerTime = 4
INVARIANTS
    ErrorIsLastLine
    HeadingReported
    StateSinceFirst
    
PROPERTIES
    PidPeriodKept
    CorrectionsAgree
    LockEarned
