\* Four users for three seats, eliminations from the Mini App at any time.
CONSTANTS
    Users = {u1, u2, u3, u4}
    citizen = citizen
    mafia = mafia
    Roles = {citizen, mafia}
    NoRole = NoRole
    PlayerCount = 3
    MaxJoinOrder = 4
    Sessions = {s1}
    Selections <- OverlappingSelections
SPECIFICATION EliminationSpec
SYMMETRY TableSymmetry
INVARIANTS
    RoleConservation
    SeatedWithinTable
\* A deleted game takes no further step.
CHECK_DEADLOCK FALSE
