SPECIFICATION MCSpec
CONSTANTS
    x1 = x1
    x2 = x2
    Streams <- MCStreams
    StopOrder <- MCStopOrder
    Xfers <- TwoXfers
    AllocFails = TRUE
    Endpoints = {1}
    Num = 3
    MaxStarts = 2
    MaxHandles = 1
INVARIANT DeliveredInSync
