SPECIFICATION Spec
CONSTANTS
    e1 = e1
    e2 = e2
    i1 = i1
    i2 = i2
    i3 = i3
    Eui = {e1, e2}
    Ip = {i1, i2, i3}
    OwnerOf <- TwoOwners
    NoEui = NoEui
    AnswersRead = TRUE
    Window = 4
    Drain = 2
    Limit = 2
    NumTabs = 2
    Period = 1
    AxisLength = 4
    MaxRow = 1
    MaxEvents = 1
    MaxReadings = 6
SYMMETRY AddressSymmetry
INVARIANTS
    TypeOK
    AddrsResolve
    HistoriesInOrder
    ReadingsShownOnce
    NoPanic
PROPERTY
    RegistrationsKeepHistories
CHECK_DEADLOCK FALSE
