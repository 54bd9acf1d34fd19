SPECIFICATION Spec
CONSTANTS
    Workers = {w1, w2, w3}
    Clients = {c1}
    Tasks = {t1, t2, t3, t4}
    External = {}
    TaskOutcomes = {"Ready"}
    None = None
    Local = Local
SYMMETRY Symmetry
INVARIANTS
    NoSleepingOverReadyTask
PROPERTIES
    ImplementsTaskGraph
