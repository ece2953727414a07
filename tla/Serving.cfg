SPECIFICATION ServingSpec
CONSTANTS
    NONE = NONE
    k1 = k1
    k2 = k2
    raw = raw
    full = full
    slim = slim
    g1 = g1
    p1 = p1
    p2 = p2
    c1 = c1
    s1 = s1
    s2 = s2
    Clients = {c1}
    Keys = {k1, k2}
    Bundles = {full, slim, raw}
    Groups = {g1}
    Proxies = {p1, p2}
    Secrets = {s1, s2}
    RuntimeReady = {full, slim}
    Members <- BundleMembers
    Selectable <- BundleSelectable
    InitialFormats = {"legacy"}
    LegacyBundle <- LegacyBundles
    LegacyActive = k1
    LegacySelections <- LegacyChoices
    LegacySelected = {k1}
    Interruptible = {}
    MaxSequence = 3
    MaxGeneration = 3
    Kinds <- ProxyKinds
    Addresses = {"a", "b"}
    DomainNames = {"n"}
    MaxRules = 3
    Documents <- AllDocuments
    Requests <- HttpRequests
    BodyLimit = 1
    InterimLimit = 2
    ReplyItems = 2
    QueueSize = 2
    MaxIncoming = 3
    MaxOutgoing = 3
    Hosts = {"m", "n"}
    CallLimit = 2
    MaxCalls = 3
    ApiRequests <- ControlRequests
    Setups <- InstanceSetups
    Attempts = {"first", "second"}
    DnsSlots = 2
    MaxAddresses = 2
    HeaderLimit = 3
    FirstWriteLimit = 2
    UnitSize = 2
    BodySize = 8
    MaxBytes = 4
    LogWriters = {"v", "w"}
    LogLimit = 4
    TailLines = 1
    MaxRecords = 3
    MaxForeign = 2
    MaxFiles = 2
    MaxInstances = 2
    MaxFailures = 2
    MaxPanics = 1
INVARIANTS
    ActiveIsRunnableHead
    GroupsResolve RulesFollowDocument DialledIsChecked
    ReuseIsClean ExchangeIsHonest SessionIsWhole ControlIsTrue
    OutboundsAccount StreamIsExact LogIsComplete EvidenceIsComplete
PROPERTIES GenerationIdentifiesSelections SecretNeverRotates
