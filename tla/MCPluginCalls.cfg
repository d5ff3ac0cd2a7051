CONSTANTS
    page = page
    Entities = Entities
    Events = Events
    Dispatcher = Dispatcher
    Main = Main
    None = None
    N = 2
    Outside <- Pages
    MayCall <- Uses
    Panicking = {1}
    MaxCalls = 4
SPECIFICATION FairSpec
INVARIANTS TypeOK DependenciesServe NobodyIsStuck
PROPERTY EveryWaitEnds
