SPECIFICATION Spec
CONSTANTS
    u1 = u1
    u2 = u2
    citizen = citizen
    custom = custom
    Users <- MCUsers
    Roles = {citizen, custom}
    CustomRoles = {custom}
    NoRole = NoRole
    NoUser = NoUser
    PlayerCount = 2
    MaxJoinOrder = 3
    MaxMessages = 2
    MaxPeeks = 1
    MaxFailures = 1
SYMMETRY Symmetry
CHECK_DEADLOCK FALSE
INVARIANTS
    WaitingScreensAreCurrent
    NobodyIsStuck
    RoleStaysOnScreen
PROPERTY
    ImplementsLobby
