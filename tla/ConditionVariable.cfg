SPECIFICATION BuildSpec
CONSTANTS
    Threads = {t1, t2, t3}
    Mortal = {t3}
    Capacity = 2
    None = None
SYMMETRY Symmetry
INVARIANTS
    NobodyForgotten
    WakesAreNew
    QueueHoldsWaiters
    PipesOfWaits
    MissingPipesOfDeserters
PROPERTIES
    EverybodyNotified
CHECK_DEADLOCK FALSE
