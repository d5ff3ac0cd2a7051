CONSTANTS
    c1 = c1
    c2 = c2
    srv = srv
    None = None
    Callers <- MCCallers
    Server = srv
    Cap = 2
    MaxBatch = 2
    MaxCalls <- CallsFromOutside
SPECIFICATION FairSpec
INVARIANTS TypeOK NoSendOnClosed NoAddDuringWait NothingLost
PROPERTIES QueueSpec StopsOnCancel AcceptedRuns
