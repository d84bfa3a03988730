SPECIFICATION MCSpec
CONSTANTS
    d1 = d1
    d2 = d2
    Kinects = {"old", "new"}
    Model <- MCModel
    Buses <- MCBuses
    Desc <- MCDesc
    Loops = 2
    MaxOpen = 2
    Images <- MCImages
    Header = 2
    Page = 4
    Chunk = 2
    Devs <- TwoDevs
SYMMETRY DevSymmetry
INVARIANTS
    DevicesSound
    HandlesAccounted
    LaunchedWhole
PROPERTIES
    
    AllOrNone
