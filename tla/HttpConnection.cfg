SPECIFICATION FairSpec
CONSTANTS
    MaxRequests = 2
    HighWater = 2
    LowWater = 1
    MaxTail = 3
INVARIANT
    TypeOK
    AnswersInOrder
    FilesFollowHeads
    NothingAfterClose
PROPERTY
    Answered
    StopEnds
CHECK_DEADLOCK FALSE
