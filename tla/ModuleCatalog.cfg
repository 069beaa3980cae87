SPECIFICATION CatalogSpec
CONSTANTS
    Users = {u1}
    Urls = {v1}
    Requests = {r1}
    Others = {q1, q2}
    SuperAdmins = {q2}
    TopLevel = 2
    DefaultLevel = 1
    MaxLaunches = 1
    MaxUnderWay = 2
    NoUrl = NoUrl
INVARIANTS
    CatalogTypeOK
    GrantsAreCurrent
    LaunchesAreAudited
    ListsMatchLaunches
PROPERTIES
    OthersEnd
CHECK_DEADLOCK FALSE
