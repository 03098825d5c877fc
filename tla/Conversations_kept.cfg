SPECIFICATION Spec
CONSTANTS
    Shapes <- MCShapes
    MaxTurns = 3
    MaxRunning = 2
    MaxFaults = 1
    MaxTime = 1
INVARIANTS
    ContextIsHistory
    ToldIsFound
PROPERTIES
    ConnectionServes
CHECK_DEADLOCK FALSE
