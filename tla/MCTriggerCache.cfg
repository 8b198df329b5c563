SPECIFICATION FairSpec
CONSTANTS
    g1 = g1  g2 = g2  a = a  b = b  c = c  n1 = n1  c1 = c1
    Guilds = {g1, g2}
    Responses = {a, b, c}
    GuildOf <- TwoGuilds
    Start <- OneOfEach
    Names = {n1, n2}
    Contents = {c1}
    Requests = {q1, q2}
    NoRow = NoRow
    NoEdit = NoEdit
    MaxInFlight = 2
    MaxAttempts = 2
    MaxFaults = 2
INVARIANTS TypeOK ListsInv AuditChain
PROPERTIES DeletedStaysDeleted FollowsTheTable LostForAReason EventuallyCoherent
CHECK_DEADLOCK FALSE
