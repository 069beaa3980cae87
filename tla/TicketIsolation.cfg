SPECIFICATION MCSpec
CONSTANTS
    Users = {u1, u2, u3}
    Tenants = {n1, n2}
    Tickets = {t1}
    Requests = {r1, r2}
    NoUser = NoUser
    MaxChanges = 2
    RoleChanges = TRUE
    Deletions = TRUE
    Crashes = TRUE
SYMMETRY Symmetry
INVARIANTS
    ChangedByEntitled
    NoticesStayInside
    CreatorIsTold
    OnlyDeletedRecipientsSilence
PROPERTIES
    OnlyOverlapsLeaveTheTable
CHECK_DEADLOCK FALSE
