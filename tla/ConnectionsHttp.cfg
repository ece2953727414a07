SPECIFICATION Spec
CONSTANTS
    NONE = NONE
    t1 = t1
    t2 = t2
    direct = direct
    reject = reject
    shadowsocks = shadowsocks
    trojan = trojan
    a1 = a1
    a2 = a2
    MaxConnections = 2
    MaxUdp = 0
    MaxRequests = 2
    TicketLimit = 1
    MaxSequence = 2
    MaxTickets = 1
    Clients = {"http_forward"}
    Targets = {t1}
    Leaves = {direct, reject}
    Reject = {reject}
    Udp = {}
    Trojan = {}
    Senders = {}
CHECK_DEADLOCK FALSE
INVARIANTS ListingIsSound LoopIsSound
PROPERTIES RecordsAreFinal
