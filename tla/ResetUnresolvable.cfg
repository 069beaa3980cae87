SPECIFICATION Spec
CONSTANTS
    Users = {u1, u2, u3}
    Tenants = {t1}
    SuperAdmins = {s1}
    Platform = Platform
    Requests = {r1}
SYMMETRY Symmetry
INVARIANTS
    RecipientsCanReset
CHECK_DEADLOCK FALSE
