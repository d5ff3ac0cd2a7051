CONSTANTS
    p1 = p1
    p2 = p2
    o1 = o1
    None = None
    Plugins <- TwoPlugins
    Others <- NoOthers
    MaxHandles = 2
    MaxEvents = 2
    MaxRemoves = 1
SPECIFICATION FairSpec
INVARIANT TypeOK
PROPERTIES BusSpec CallsReturn StopReturns EventuallyServed
