SPECIFICATION FairSpec
CONSTANTS
    Msgs = {m1, m2, m3}
    MaxFaults = 3
INVARIANTS TypeOK NothingLost FewDuplicates
PROPERTIES EventuallySettled
CHECK_DEADLOCK FALSE
