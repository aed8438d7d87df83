\* Two channels, with three frames and one; what the sockets hold is unbounded traffic.
SPECIFICATION FairSpec
CONSTANTS
    a = a
    b = b
    None = None
    Channels <- TwoChannels
    Sizes = {1, 2, 3}
    SoftCap = 1
    MaxFrameBytes = 2
    MaxQueuedBytes = 4
    MaxQueuedFrames = 3
    BudgetBytes = 5
    BudgetFrames = 3
    MaxBuffered = 3
    CompactionHead = 2
    MaxFrames <- ThreeAndOne
CHECK_DEADLOCK FALSE
INVARIANTS
    TypeOK
    HeadIsFrame
    ClaimsMatch
    BytesMatch
    BudgetMatches
    ParkedIsPolled
    NothingSkipped
    BufferBounded
PROPERTIES
    KeepsOrder
    FramesLeave
