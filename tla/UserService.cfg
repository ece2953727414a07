CONSTANTS
    p1 = p1
    p2 = p2
    Payloads = {p1, p2}
    MaxPids = 3
    MaxVersions = 3
    Operations = {"start", "stop", "restart", "enable", "disable", "status", "install"}
    Installs = {"Systemd"}
    Faults = {"manager", "process", "kill", "install"}
    NONE = NONE
SPECIFICATION Spec
SYMMETRY MCSymmetry
CHECK_DEADLOCK FALSE
INVARIANTS ServiceIsRecoverable
PROPERTIES CommandsAreExact
