CONSTANTS
    Subscriber = Subscriber
    None = None
    Tunnel = {t1, t2, t3}
SPECIFICATION Spec
SYMMETRY Symmetry
INVARIANTS
    TypeOK
    OneToOne
    AnswersItsClient
    RegistryMatchesSides
    OpenSidesAreTimed
    HalfClosedIsTransient
PROPERTIES
    KeepsPromise
