SPECIFICATION Spec
CONSTANTS
    Users = {u1, u2, u3}
    Tenants = {t1, t2}
    SuperAdmins = {s1}
    Platform = Platform
    Requests = {r1, r2}
SYMMETRY Symmetry
INVARIANTS
    TypeOK
    OneRecipientPerRequest
    SuperAdminStaysOut
    StandingRequestsAreReported
