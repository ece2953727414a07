SPECIFICATION FairSpec
CONSTANTS
    Uploads = 1
    Downloads = 1
    Beats = 2
    Packets = 2
    MAX_HEARTS = 1
    MAX_CLOSE_DRAIN = 1
    Room = 1
    NONE = NONE
    Faults = {"timeout", "idle", "client", "server", "garbage"}
INVARIANT TransferIsExact
PROPERTY TransferEnds
CHECK_DEADLOCK FALSE
