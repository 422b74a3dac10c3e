CONSTANTS
    None = None
    Session = {s1, s2}
    Port = {p1}
SPECIFICATION Spec
INVARIANTS
    PublisherIsServed
