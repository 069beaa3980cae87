SPECIFICATION Spec
CONSTANTS
    Users = {u1, u2}
    Tenants = {n1}
    Tickets = {t1}
    Requests = {r1, r2}
    NoUser = NoUser
    MaxChanges = 2
    RoleChanges = FALSE
    Deletions = FALSE
    Crashes = FALSE
PROPERTIES
    AllowedMoves
CHECK_DEADLOCK FALSE
