SPECIFICATION SerialSpec
CONSTANTS
    Users = {u1, u2}
    Tenants = {t1}
    Requests = {r1, r2}
    Operations = {"changeRole"}
    NoTenant = NoTenant
SYMMETRY Symmetry
INVARIANTS
    TenantHasAdmin
CHECK_DEADLOCK FALSE
