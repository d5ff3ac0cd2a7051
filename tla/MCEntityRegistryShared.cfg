CONSTANTS
    e1 = e1
    e2 = e2
    t1 = t1
    t2 = t2
    r1 = r1
    Ids <- OneId
    Threads <- TwoThreads
    Touches <- SameId
    Owns <- SameId
    Readers <- OneReader
    NoId = NoId
    MaxGen = 2
SPECIFICATION Spec
INVARIANT DeregisteredIsGone
CHECK_DEADLOCK FALSE
