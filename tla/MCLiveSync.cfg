SPECIFICATION FairSpec
CONSTANTS
    v1 = v1
    w1 = w1
    w2 = w2
    Viewers = {v1}
    Writers = {w1, w2}
    MaxWrites = 1
    MaxEliminations = 1
    MaxEntries = 2
    MaxDrops = 1
    MayFail = TRUE
INVARIANTS
    StaleOnlyForAReason
    OneReconnectPerEntry
PROPERTY
    PagesSettle
