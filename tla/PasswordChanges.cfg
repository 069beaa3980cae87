SPECIFICATION Spec
CONSTANTS
    Passwords = {p1, p2, p3, p4, p5, p6}
    Requests = {r1, r2}
    HistoryLimit = 4
    MaxEntries = 5
    Crashes = TRUE
SYMMETRY Symmetry
INVARIANTS
    ResetAloneForcesChange
    EveryChangeHasAnEntry
PROPERTIES
    NoReuse
CHECK_DEADLOCK FALSE
