SPECIFICATION FairSpec
CONSTANTS
    d1 = d1
    d2 = d2
    h1 = h1
    h2 = h2
    r1 = r1
    r2 = r2
    Device = {d1}
    Host = {h1}
    DeviceOf <- OneHost
    Rloc = {r1}
    Prefix = {1, 2}
    MaxChildren = 1
    MaxNet = 1
    Base = 1
    PoolSize = 1
    NoEui = NoEui
    Loopback = Loopback
    NoObserver = NoObserver
    None = None
    FreePort = FreePort
    HeldPort = HeldPort
    Fallible = {"MonitorNetworkStatus", "CheckNewNode", "OmrIp", "GetNodeStatus"}
    Strays = {"empty", "short"}
INVARIANTS
    PoolConserved
PROPERTIES
    RegistrationRetried
    RoundsGoOn
    HeldPortsComeBack
    StaleNodesEvicted
    PrefixFollowed
