\* Is a version given to one document only?
CONSTANTS
    Seats = {n1, n2}
    NoSeat = NoSeat
    Clients = {c1, c2}
    Moves = {}
    Targets = {}
    Deltas = {}
    SpeakingSeconds = 1
    MaxSeconds = 1
    MaxVersion = 3
    MayFail = FALSE
SPECIFICATION Spec
PROPERTY VersionIsMonotonic
