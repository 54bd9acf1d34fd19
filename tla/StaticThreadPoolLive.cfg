SPECIFICATION FairSpec
CONSTANTS
    Workers = {w1, w2}
    Clients = {c1, c2}
    Tasks = {t1, t2}
    External = {e1}
    TaskOutcomes = {"Ready", "Exception"}
    None = None
    Local = Local
INVARIANTS
    DependenciesSettledBeforeRun
    AllSettledAfterDestruction
PROPERTIES
    SubmittedIsSettled
    DestructorTerminates
