SPECIFICATION SerialSpec
CONSTANTS
    Users = {u1, u2, u3}
    Tenants = {t1, t2}
    Requests = {r1, r2}
    Operations = {"changeRole", "deleteUser"}
    NoTenant = NoTenant
SYMMETRY Symmetry
INVARIANTS
    TypeOK
    OnlyLatecomersAreLeft
    SerialRequestsKeepAnAdmin
PROPERTIES
    OnlyFormerAdminsStrandATenant
    TenantsAreIsolated
CHECK_DEADLOCK FALSE
