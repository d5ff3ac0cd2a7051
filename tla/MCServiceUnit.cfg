CONSTANTS
    c1 = c1
    c2 = c2
    b1 = b1
    b2 = b2
    x1 = x1
    x2 = x2
    Foreign = Foreign
    NoFile = NoFile
    Torn = Torn
    Commands <- TwoCommands
    Builds <- TwoBuilds
    Edits <- TwoEdits
    Horizon = 2
SYMMETRY Symmetry
SPECIFICATION Spec
INVARIANTS TypeOK EditsKept InUseKept
