CONSTANTS
    s1 = s1
    s2 = s2
    s3 = s3
    v1 = v1
    v2 = v2
    NoValue = NoValue
    Torn = Torn
    Savers <- ThreeSavers
    Values <- TwoValues
    MaxCrashes = 2
SPECIFICATION StoreSpec
INVARIANT NoLitter
PROPERTY AtomicSpec
