SPECIFICATION Spec
CONSTANTS
    NONE = NONE
    c1 = c1
    c2 = c2
    g1 = g1
    g2 = g2
    p1 = p1
    p2 = p2
    h1 = h1
    h2 = h2
    Clients = {c1, c2}
    Groups = {g1, g2}
    Proxies = {p1, p2}
    Heads = {h1, h2}
    Offers <- MCOffers
    MaxGeneration = 2
    MaxCommits = 2
    MaxInstances = 2
    Reimport = TRUE

SYMMETRY MCSymmetry
CHECK_DEADLOCK FALSE
INVARIANTS RuntimeIsPublished
PROPERTIES SelectionsMoveForward
