SPECIFICATION BuildSpec
CONSTANTS
    t1 = t1
    t2 = t2
    t3 = t3
    p1 = p1
    p2 = p2
    Second = 4
    None = None
    Threads <- MCThreads
    ProcessOf <- MCProcessOf
    Processes = {p1, p2}
    Mortal = {p2}
INVARIANTS
    Exclusion
    NothingLeftLocked
    RecursionDetected

    
CHECK_DEADLOCK FALSE
