CONSTANTS
    Tasks = {t1, t2, t3}
    PoolSize = 1
    Threads = 1
SPECIFICATION DatabaseFairSpec
INVARIANTS
    TypeOK
    NoConnectionAcrossRedisOrHash
    NothingLeaks
PROPERTIES
    PoolDrains
    EveryRequestAnswered
