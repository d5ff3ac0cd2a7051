CONSTANTS
    PerHour = 2
    PerDay = 2
    PerMonth = 2
    PerYear = 2
    Offset <- SummerTimeEnds
    Horizon = 15
    MaxAdjustments = 2
SPECIFICATION Spec
INVARIANTS TypeOK ListenerAgrees LargestFirst
PROPERTIES MinutesIncrease SilentWhenStopped
CHECK_DEADLOCK FALSE
