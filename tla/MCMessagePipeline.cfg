SPECIFICATION FairSpec
CONSTANTS
    Messages = {p1}
    Interactions = {i1}
    MaxWritten = 1
    MaxPosts = 3
    MaxFaults = 1
INVARIANTS TypeOK NoEcho SeenOnce
PROPERTIES EventuallyQuiet
CHECK_DEADLOCK FALSE
