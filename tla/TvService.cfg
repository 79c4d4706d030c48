SPECIFICATION FairSpec
CONSTANTS
    Clients = {app, tool}
    NULL = null
    DEAD = dead
    MaxEntries = 4
INVARIANTS
    TypeOK
    CookieOwned
    ReachesAll
PROPERTIES
    BusSpec
    GapsHeal
