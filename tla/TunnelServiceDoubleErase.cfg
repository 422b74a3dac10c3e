CONSTANTS
    Subscriber = Subscriber
    None = None
    Tunnel = {t1, t2, t3}
SPECIFICATION Spec
INVARIANTS
    EraseIsDefined
