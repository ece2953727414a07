SPECIFICATION Spec
CONSTANTS
    NONE = NONE
    k1 = k1
    k2 = k2
    raw = raw
    full = full
    slim = slim
    g1 = g1
    p1 = p1
    p2 = p2
    c1 = c1
    c2 = c2
    s1 = s1
    s2 = s2
    Clients = {c1}
    Keys = {k1}
    Bundles = {full}
    Groups = {g1}
    Proxies = {p1, p2}
    Secrets = {s1}
    RuntimeReady = {full}
    Members <- MCMembers
    Selectable <- MCSelectable
    InitialFormats = {"missing"}
    LegacyBundle <- MCLegacyBundle
    LegacyActive = k1
    LegacySelections <- MCLegacySelections
    LegacySelected = {k1}
    Interruptible = {"profile", "identity", "revisions"}
    MaxSequence = 1
    MaxGeneration = 1
INVARIANTS HeadsSurvivePowerLoss
