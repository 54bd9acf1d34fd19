SPECIFICATION Spec
CONSTANTS
    Threads = {t1, t2, t3}
    Continuations = {c1, c2}
    IsVoid = FALSE
    MaxSets = 2
INVARIANTS
    NoContinuationLost
    RunOncePerSettlement
    BrokenRunsOnlyLateContinuations
    AwakeOnlyWhenSettled
PROPERTIES
    VectorStableWhileUnlocked
    ValueStableWhileCopied
    SettledWakesEveryone
