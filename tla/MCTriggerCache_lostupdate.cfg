SPECIFICATION Spec
CONSTANTS
    g1 = g1  g2 = g2  a = a  b = b  c = c  n1 = n1  c1 = c1
    Guilds = {g1}
    Responses = {a, b}
    GuildOf <- TwoGuilds
    Start <- NoneYet
    Names = {n1, n2}
    Contents = {c1}
    Requests = {q1, q2, q3}
    NoRow = NoRow
    NoEdit = NoEdit
    MaxInFlight = 2
    MaxAttempts = 2
    MaxFaults = 0
PROPERTIES RemovesOnlyTheDeleted
CHECK_DEADLOCK FALSE
