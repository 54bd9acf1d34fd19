SPECIFICATION Spec
CONSTANTS
    Threads = {t1, t2}
    Promises = {p1, p2}
    Derived = {d1, d2}
    Local = Local
SYMMETRY Symmetry
INVARIANTS
    SettledAfterInputs
    SettledWithInputs
    CallableOrBroken
PROPERTIES
    LoopsUndisturbed
CHECK_DEADLOCK FALSE
