CONSTANTS
    Message <- Messages
    MaxMessages = 2
SPECIFICATION Spec
INVARIANTS
    PopsWhatWasSent
