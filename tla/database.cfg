SPECIFICATION FairSpec
CONSTANTS
    e1 = e1
    e2 = e2
    a1 = a1
    a2 = a2
    a3 = a3
    Eui = {e1, e2}
    Addr = {a1, a2, a3}
    OwnerOf <- TwoOwners
    NoEui = NoEui
    AnswersRead = TRUE
    MaxFaults = 1
    MaxQueue = 1
    MaxReadings = 2
INVARIANTS
    TypeOK
    StoredWithItsPlant
    SoilRowCompletes
    TablesInOrder
PROPERTY
    ReadingsStored
