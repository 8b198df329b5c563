SPECIFICATION FairSpec
CONSTANTS
    Guilds = {g1}
    Prefixes = {p1}
    NoPrefix = NoPrefix
    NoRow = NoRow
    Requests = {q1, q2}
    Invalid = Invalid
    NoEdit = NoEdit
    MaxInFlight = 2
    MaxAttempts = 2
    MaxFaults = 2
INVARIANTS TypeOK OneCreation
PROPERTIES FollowsTheTable EventuallyCoherent
CHECK_DEADLOCK FALSE
