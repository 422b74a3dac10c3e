CONSTANTS
    Length = 4
    Buffer = 3
    MaxRetries = 2
SPECIFICATION FairSpec
INVARIANTS
    FinisherIsDelivered
PROPERTIES
    IsByteChannel
    SentArrives
