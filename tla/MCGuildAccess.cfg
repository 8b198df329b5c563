SPECIFICATION FairSpec
CONSTANTS
    Threads = {t1, t2}
    Users = {u1, u2}
    Guilds = {g1}
    None = None
    TTL = 2
    MaxTime = 3
    MaxChanges = 1
    MaxRestarts = 1
INVARIANTS TypeOK AccessFresh
PROPERTIES EveryRequestAnswered
CHECK_DEADLOCK FALSE
