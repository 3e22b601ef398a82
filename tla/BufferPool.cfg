CONSTANTS
    t1 = t1
    t2 = t2
    f1 = f1
    f2 = f2
    Threads <- MCThreads
    Frames <- MCFrames
    Pages <- MCPages
    MaxWrites = 1
    MaxFaults = 1
    MaxFlushes = 1
    NoPage = NoPage
    NoFrame = NoFrame
SPECIFICATION Spec
SYMMETRY MCSymmetry
CONSTRAINT OneDisturbance
INVARIANTS TypeOK ResourcesAccountedFor OneFramePerPage
PROPERTY OnlyClientsChangePages
