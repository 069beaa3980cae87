SPECIFICATION Spec
CONSTANTS
    Tokens = {t1, t2, t3}
    Users = {u1}
    Requests = {r1, r2}
    TTL = 0
    MaxTime = 1
    NoToken = NoToken
    NotStarted = NotStarted
    Ended = Ended
SYMMETRY Symmetry
INVARIANTS
    SingleCurrentToken
    RotationChain
    NoFalseReuse
PROPERTIES
    ImplementsSessions
CHECK_DEADLOCK FALSE
