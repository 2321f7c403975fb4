CONSTANTS
    u1 = u1
    u2 = u2
    m1 = m1
    m2 = m2
    g1 = g1
    g2 = g2
    r1 = r1
    r2 = r2
    r3 = r3
    Updates <- MCUpdates
    Messages <- MCMessages
    Games <- MCGames
    RoleIds <- MCRoleIds
    Names <- MCNames
    a = a
    b = b
    c = c
    x = x
    y = y
    Counts <- MCCounts
    Admits <- MCAdmits
    CatalogRoles <- MCCatalogRoles
    Compositions <- MCCompositions
    FixedRoles <- MCFixedRoles
    Loads <- MCLoads
    MaxActive = 1
    NoGame = NoGame
    NoName = NoName
    NewMessage = NewMessage
SPECIFICATION Spec
SYMMETRY Symmetry
INVARIANTS
    CheckedNameIsFree
