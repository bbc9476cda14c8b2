SPECIFICATION MCFairSpec

CONSTANTS
    Tab = {t1}
    Intent <- Endpoint
    Call = {x1, x2}
    NoCall = NoCall
    Attempts = 2
    Reads = 2
    MaxKeys = 1
    MaxPages = 0
    MaxOthers = 2
    Room = {palace, garden, stuck}
    Stuck = {stuck}
    BatchLimit = 2
    MaxRestarts = 1
    MaxMoves = 3
    t1 = t1
    x1 = x1
    x2 = x2
    palace = palace
    garden = garden
    stuck = stuck

CHECK_DEADLOCK FALSE

INVARIANT AtMostOnce
INVARIANT AnswersAgree
PROPERTY EveryCallEnds
PROPERTY ScanSparesRestored
PROPERTY ExpiredRoomIsPurged
PROPERTY SkeletonStandsItsTime
PROPERTY SkeletonEnds
