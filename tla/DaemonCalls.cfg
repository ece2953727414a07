SPECIFICATION FairSpec
CONSTANTS
    NONE = NONE
    c1 = c1
    c2 = c2
    c3 = c3
    p1 = p1
    p2 = p2
    Callers = {c1, c2}
    Payloads = {p1}
    MaxInstances = 1
    Operations = {"restart"}
    Faults = {"caller", "instance"}
INVARIANTS RequestsAreOwned
PROPERTIES CallsEnd
