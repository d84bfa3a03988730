SPECIFICATION MCSpec
CONSTANTS
    Indexes = {0}
    MaxOpens = 3
    Wrap = 3
    MaxTime = 4
    Devs = {d1, d2}
    Handles <- MCHandles
    Angles <- MCAngles
    Leds = {"blink_red_yellow"}
    MaxTag = 3
    Tilts = {1, 2}
    MaxEntries = 3
    K4W = TRUE
    Width = 3
    Flags = {1, 2}
    TagMod = 2
    Sessions <- MCSessions
    MaxFaults = 1
CHECK_DEADLOCK FALSE
INVARIANTS
    MapsTrue
    
PROPERTIES
    TargetsThere
    ClockTrue
    MotorTrue
    CallsTrue
