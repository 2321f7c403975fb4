SPECIFICATION Spec
CONSTANTS
    MinPlayers = 3
    MaxPlayers = 40
    jester = jester
    OwnRoles <- MCOwnRoles
    OwnTeam <- MCOwnTeam
CHECK_DEADLOCK FALSE
INVARIANTS
    PoolFillsTable
    SummaryIsThePool
    PicksAreDealt
    CityLeadsWithoutIndependents
    EveryCountResolves
