SPECIFICATION Spec
CONSTANTS
    Errors <- MCErrors
    LockBand = 5
    LockHold = 1
    IdleHold = 1
    ImuStale = 1
    Spread = 15
    ClockMod = 3
    PidUpdate = 1
    ImuReport = 1
    MaxGap = 1
    ServoMax = 2
    LineRoom = 1
    Lines <- MCLines
    MaxWire = 2
INVARIANT CommandInEffect
PROPERTY CommandsTakeEffect
