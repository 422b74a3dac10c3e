CONSTANTS
    None = None
    Session = {1, 2}
    Port = {p1}
    MaxLines = 2
    MaxQueue = 1
    MaxTransit = 1
    MaxExtra = 1
SPECIFICATION MCSpec
INVARIANTS
    TypeOK
    NoOrphanService
    PublisherIsServedInTurn
    ServicesMapGuarded
    RequestsAreRead
PROPERTIES
    LossIsNoticed
    OpenLineIsServed
