CONSTANTS
    PayloadSize <- MCPayloadSize
    MaxOrders = 2
    MaxHeartbeats = 3
SPECIFICATION FairSpec
INVARIANTS
    TypeOK
    AnsweredUnlessMixed
PROPERTIES
    RefinesChannel
    SessionEnds
