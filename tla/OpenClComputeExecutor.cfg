SPECIFICATION FairSpec
CONSTANTS
    Workers = {w1, w2, w3}
    Sizes <- MCSizes
    Offset <- MCOffset
INVARIANTS
    EachItemOnce
    SettledAfterAll
PROPERTIES
    ResultSettled
