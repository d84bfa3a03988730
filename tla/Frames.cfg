SPECIFICATION MCSpec
CONSTANTS
    PktsPerFrame = 5
    SeqMod = 7
    LostLimit = 2
    MaxMissed = 6
    MaxFrames = 2
    SplitBufs = FALSE
    UserBufs <- MCUserBufs
    First = 2
    Second = 4
    Wrap = 6
    Channels <- MCChannels
    Windows <- MCWindows
    MaxOut = 4
    X_RES = 4
    Y_RES = 3
    MAX_METRIC = 8
    Width = 4
    Height = 4
    Packed <- MCPacked
    Bayers <- MCBayers
    Yuvs <- MCYuvs
    Regs <- MCRegs
    Raws <- MCRaws
    Params <- MCParams
INVARIANTS
    PacketsInPlace
    FramesConverted
    RegistrationExact
    CountersAgree
    
PROPERTIES
    TimestampsAdvance
    WholeFrames
    HandedIsWhatCame
