\* Four users for three seats, two concurrent updates of the creator.
CONSTANTS
    Users = {u1, u2, u3, u4}
    citizen = citizen
    mafia = mafia
    Roles = {citizen, mafia}
    NoRole = NoRole
    PlayerCount = 3
    MaxJoinOrder = 5
    Sessions = {s1, s2}
    Selections <- OverlappingSelections
SPECIFICATION AutoSpec
SYMMETRY TableSymmetry
INVARIANTS
    EveryoneIsDealt
    NextJoinIsServed
PROPERTY ImplementsDeal
\* A deleted game takes no further step.
CHECK_DEADLOCK FALSE
