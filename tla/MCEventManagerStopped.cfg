CONSTANTS
    p1 = p1
    p2 = p2
    o1 = o1
    None = None
    Plugins <- TwoPlugins
    Others <- OneOther
    MaxHandles = 2
    MaxEvents = 2
    MaxRemoves = 0
SPECIFICATION Spec
INVARIANT AllDelivered
