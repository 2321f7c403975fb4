\* Is an abandoned table cleaned up?
CONSTANTS
    Seats = {n1}
    NoSeat = NoSeat
    Clients = {c1}
    Moves = {"day", "voting"}
    Targets = {n1}
    Deltas <- OneSecond
    SpeakingSeconds = 2
    MaxSeconds = 3
    MaxVersion = 0
    MayFail = TRUE
SPECIFICATION FairSpec
INVARIANT TypeOK
PROPERTY AbandonedTablesEvaporate
