SPECIFICATION FairSpec
CONSTANTS
    NONE = NONE
    t1 = t1
    t2 = t2
    direct = direct
    reject = reject
    shadowsocks = shadowsocks
    trojan = trojan
    a1 = a1
    a2 = a2
    MaxConnections = 2
    MaxUdp = 1
    MaxRequests = 1
    TicketLimit = 0
    MaxSequence = 2
    MaxTickets = 0
    Clients = {"socks5_udp", "socks5_connect"}
    Targets = {t1}
    Leaves = {trojan}
    Reject = {}
    Udp = {trojan}
    Trojan = {trojan}
    Senders = {a1, a2}
CHECK_DEADLOCK FALSE
INVARIANTS AssociationsAreSound
PROPERTIES ShutdownsEnd
