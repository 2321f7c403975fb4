\* Three seats on one phone, two remote users who join and leave.
CONSTANTS
    seat1 = seat1
    seat2 = seat2
    seat3 = seat3
    Users = {seat1, seat2, seat3, v1, v2}
    SeatUser <- SeatUsers
    citizen = citizen
    mafia = mafia
    Roles = {citizen, mafia}
    NoRole = NoRole
    PlayerCount = 3
    MaxJoinOrder = 6
    Sessions = {s1, s2}
    Selections <- OverlappingSelections
SPECIFICATION SingleDeviceSpec
SYMMETRY TableSymmetry
INVARIANTS
    PhoneCanGoRound
PROPERTY ImplementsDeal
\* A deleted game takes no further step.
CHECK_DEADLOCK FALSE
