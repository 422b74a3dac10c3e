CONSTANTS
    MaxLines = 3
    MaxQueue = 1
    MaxBackoff = 60
SPECIFICATION FairSpec
INVARIANTS
    LineIsWatched
    OneSendAtATime
    OpenLineIsPinged
    OneLineOpen
PROPERTIES
    LossLeadsToReconnect
    LineIsGreetedUnlessSendsFail
