CONSTANTS
    None = None
    Tunnel = {t1}
SPECIFICATION FairSpec
INVARIANTS
    NoDeadPairStays
    PipesAreThere
PROPERTIES
    KeepsEnds
    EndsCloseTogether
