SPECIFICATION FairSpec
CONSTANTS
    d1 = d1
    h1 = h1
    h2 = h2
    Device = {d1}
    Host = {h1, h2}
    DeviceOf <- OneNode
    Rloc = {}
    Prefix = {1}
    MaxChildren = 0
    MaxNet = 1
    NoObserver = NoObserver
    Observers <- TwoHandlers
    BufferSize = 127
    MaxLength <- JsonLengths
    Threshold = 5
    Lights <- Dark
INVARIANTS
    TypeOK
PROPERTIES
    LuxScaledAsMeasured
    NodeImplemented
    ReadingsGoOn
    KeepsMeasuring
