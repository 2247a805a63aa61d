SPECIFICATION TablesSpec
CONSTANTS
    SocketMax = 3
    IntMax = 7
    LastPort = 2
    FirstEphemeral = 1
    LocalIps = {a, b}
    Peers = {p}
    Backlog = 1
    QueueSize = 2
    Types = {"dgram", "stream"}
    MaxSockets = 4
    Width = 3
    Unicasts = {1, 2, 3, 4, 5, 6}
    Devs = {0, 1}
    AddrMax = 3
    RouteMax = 5
    RuleMax = 2
    StartAddresses <- MCStartAddresses
    StartRoutes <- MCStartRoutes
    Addresses <- MCAddresses
    Routes <- MCRoutes
    Rules <- MCRules
    AclMax = 3
    AclRules <- MCAclRules
    AclPackets <- MCAclPackets
    MaxPackets = 3
    Burst = 2
    Interval = 3
    MaxTime = 12
SYMMETRY Symmetry
INVARIANTS
    HandlesNameSockets
    PacketsFindSockets
    LongestPrefixWins
    NextHopReachable
    BoundAddressesStay
    CountersFollowRules
    RateKept
CHECK_DEADLOCK FALSE
