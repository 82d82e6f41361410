SPECIFICATION Spec
CONSTANTS
    c1 = c1
    c2 = c2
    d1 = d1
    Clients = {c1}
    Slow = {c1}
    Defs = {d1}
INVARIANTS
    StaysDown
PROPERTIES
    EnrolledComesBack
    StopEnds
