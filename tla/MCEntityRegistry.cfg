CONSTANTS
    e1 = e1
    e2 = e2
    t1 = t1
    t2 = t2
    r1 = r1
    Ids <- TwoIds
    Threads <- TwoThreads
    Touches <- IdOfItsOwn
    Owns <- IdOfItsOwn
    Readers <- OneReader
    NoId = NoId
    MaxGen = 2
SPECIFICATION Spec
INVARIANTS TypeOK InfoAgrees NoStaleName EventsAlternate WatcherConverges
CHECK_DEADLOCK FALSE
