SPECIFICATION Spec
CONSTANTS
    Threads = {t1, t2}
    Mortal = {t2}
    Second = 4
    None = None
INVARIANTS
    LockSucceeds
CHECK_DEADLOCK FALSE
