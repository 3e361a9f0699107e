SPECIFICATION Spec
CONSTANTS
    ARP_CACHE_SIZE = 2
    MAX_PING_STATES = 4
    REPLY_AGE = 1
    ARP_RETRIES = 2
    PING_TIMEOUT = 1
    DNS_TIMEOUT_MS = 2
    PING_COUNT = 1
    Local = {"gw", "peer", "third"}
    Remote = {"far"}
    Gateway = "gw"
    dns_server = "gw"
    Pings <- MCPings
    Unsolicited <- Quiet
    MaxPings = 2
    MaxRepeats = 0
INVARIANT AnsweredNamesResolve
