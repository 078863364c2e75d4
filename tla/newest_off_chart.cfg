SPECIFICATION Spec
CONSTANTS
    e1 = e1
    e2 = e2
    i1 = i1
    i2 = i2
    i3 = i3
    Eui = {e1}
    Ip = {i1}
    OwnerOf <- OneAddress
    NoEui = NoEui
    AnswersRead = TRUE
    Window = 50
    Drain = 5
    Limit = 20
    NumTabs = 1
    Period = 25
    AxisLength = 1000
    MaxRow = 0
    MaxEvents = 1
    MaxReadings = 42
INVARIANT
    NewestOnChart
CHECK_DEADLOCK FALSE
