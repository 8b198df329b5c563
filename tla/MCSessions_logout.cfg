SPECIFICATION Spec
CONSTANTS
    Tabs = {t1, t2}
    Pages = {home, page}
    Home = home
    Foreign = foreign
    Users = {u1, u2}
    None = None
    MaxRandom = 3
    MaxFaults = 0
PROPERTIES LogoutEndsTheSession
CHECK_DEADLOCK FALSE
