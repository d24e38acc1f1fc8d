SPECIFICATION Spec
CONSTANTS
    MaxRequests = 2
    HighWater = 2
    LowWater = 1
    MaxTail = 3
PROPERTY
    LastAnswerDelivered
CHECK_DEADLOCK FALSE
