SPECIFICATION Spec
CONSTANTS
    Tabs = {t1, t2}
    Pages = {home, page}
    Home = home
    Foreign = foreign
    Users = {u1, u2}
    None = None
    MaxRandom = 4
    MaxFaults = 1
INVARIANTS TypeOK ReturnsWhereItStarted WholeOrNothing
SYMMETRY Symmetry
CHECK_DEADLOCK FALSE
