SPECIFICATION MCSpec
CONSTANTS
    Users = {u1, u2, u3}
    Tenants = {n1}
    Tickets = {t1}
    Requests = {r1}
    NoUser = NoUser
    MaxChanges = 2
    RoleChanges = FALSE
    Deletions = FALSE
    Crashes = FALSE
    Watchers = {u1}
    ListLimit = 1
    MaxRestarts = 1
    theAdmin = u2
    theIntegrationAdmin = u3
INVARIANTS
    InboxTypeOK
    NothingMissed
PROPERTIES
    NoticesAreShown
    NoticesArrive
CHECK_DEADLOCK FALSE
