CONSTANTS
    Session = {s1}
    MaxLines = 3
SPECIFICATION FairSpec
INVARIANTS
    OneLine
    FreedIsReleased
PROPERTIES
    StopEndsLine
    EndsCloseTogether
