CONSTANTS
    Users = {ann}
    Secrets = {old}
    Salts = {1, 2, 3, 4, 5}
    Ids = {s1}
    Procs = {p, q}
    MaxTime = 3
    TTL = 2
    Retention = 0
    BatchSize = 1
    MaxResets = 0
    None = None
SPECIFICATION FairSpec
PROPERTIES
    CleanupSparesUsable
    EveryRequestAnswered
