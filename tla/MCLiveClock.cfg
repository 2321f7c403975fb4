\* Two overlapping requests and the clock: the turn and its challenge.
CONSTANTS
    Seats = {n1, n2}
    NoSeat = NoSeat
    Clients = {c1, c2}
    Moves = {"night"}
    Targets = {n1, n2}
    Deltas = {}
    SpeakingSeconds = 1
    MaxSeconds = 1
    MaxVersion = 0
    MayFail = TRUE
SPECIFICATION ClockSpec
SYMMETRY ClockSymmetry
INVARIANTS
    FloorIsConsistent
    ChallengeOfThisTurn
    TimersStopOnlyForAReason
