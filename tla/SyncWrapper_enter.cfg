SPECIFICATION MCSpec
CONSTANTS
    Free = Free
    u1 = u1
    u2 = u2
    MaxFrame = 2
INVARIANT EnterGrantsKinect
