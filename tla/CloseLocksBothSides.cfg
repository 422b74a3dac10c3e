CONSTANTS
    a = a
    b = b
    c = c
    t1 = t1
    t2 = t2
    t3 = t3
    t4 = t4
    Thread = {t1, t2, t3, t4}
    Side = {a, b, c}
    Guard = Guard
    None = None
    Peer <- Peers
    Handlers <- BothSides
SPECIFICATION Spec
INVARIANTS
    NoCircularWait
