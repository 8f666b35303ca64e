CONSTANTS
    Users = {ann}
    Secrets = {old, new}
    Salts = {1, 2, 3, 4, 5}
    Ids = {s1, s2}
    Procs = {p, q}
    MaxTime = 1
    TTL = 1
    Retention = 0
    BatchSize = 1
    MaxResets = 1
    None = None
SPECIFICATION Spec
SYMMETRY Symmetry
INVARIANTS
    TypeOK
    SessionsAreCurrent
    RefusedOnlyForNewHash
PROPERTIES
    DeadStaysDead
    ImplementsPromise
