SPECIFICATION MCSpec
CONSTANTS
    Browsers = {b1, b2}
    TokenLife = 1
    Latency = 1
    Gone = Gone
    Tenants = {t1}
    s1 = s1
    s2 = s2
    Emails = {s1, s2, d1, d2, x}
    SeedEntries <- MCSeedEntries
    DemoUsers = {d1, d2}
    DemoAdmin = x
    Inputs = {s2, x}
    NewRoles = {"ANALYST"}
    PageSizes = {1, 2}
    Requests = {r1, r2}
    MaxUsers = 3
    MaxTime = 2
    NoTenant = NoTenant
SYMMETRY Symmetry
INVARIANTS
    AnswersCatchUp
    NewAccountsAreGated
    DirectoryTypeOK
    PagesAreHonest
    FirstAdmins
    SeedsRecover
CHECK_DEADLOCK FALSE
