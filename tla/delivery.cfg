SPECIFICATION FairSpec
CONSTANTS
    s1 = s1
    s2 = s2
    c1 = c1
    Stream = {s1, s2}
    Client = {c1}
    MaxReadings = 2
    MaxApi = 1
INVARIANTS
    TypeOK
    ReadingsInOrder
    TerminatedOnce
PROPERTIES
    SubscriptionImplemented
    ReadingsDelivered
    StatusDelivered
