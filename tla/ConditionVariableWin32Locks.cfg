SPECIFICATION FairSpec
CONSTANTS
    Threads = {t1, t2}
    Mortal = {}
    Capacity = 3
    None = None
PROPERTIES
    NotifiedReturns
CHECK_DEADLOCK FALSE
