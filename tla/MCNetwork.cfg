SPECIFICATION Spec
CONSTANTS
    ARP_CACHE_SIZE = 2
    MAX_PING_STATES = 4
    REPLY_AGE = 1
    ARP_RETRIES = 2
    PING_TIMEOUT = 1
    DNS_TIMEOUT_MS = 1
    PING_COUNT = 2
    Local = {"gw", "peer", "third"}
    Remote = {"far"}
    Gateway = "gw"
    dns_server = "gw"
    Pings <- MCPings
    Unsolicited <- MCUnsolicited
    MaxPings = 2
    MaxRepeats = 1
INVARIANTS
    TypeOK
    OneEntryPerNeighbour
    FramesReachNextHop
    RepliesAreReal
    AnswersAreReported
PROPERTIES
    PingReturns
