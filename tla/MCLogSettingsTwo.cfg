CONSTANTS
    core = core
    bus = bus
    warn = warn
    debug = debug
    s1 = s1
    s2 = s2
    Root = Root
    Bad = Bad
    Unset = Unset
    NoValue = NoValue
    Torn = Torn
    Names <- TwoNames
    Parent <- ParentOf
    Levels <- TwoLevels
    Values <- Settings
    DefaultLevel = warn
    Savers <- TwoSavers
    MaxChanges = 2
    MaxCrashes = 0
SPECIFICATION Spec
INVARIANT SurvivesRestart
