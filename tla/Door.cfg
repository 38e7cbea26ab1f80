SPECIFICATION Spec
CONSTANTS
    MaxDistance = 4
    Wall = 4
    Bodies = {1, 3}
    EchoLost = FALSE
    Hurry = TRUE
    MaxPassages = 2
    dist_to_ppl = 2
    UPDATE_TIME = 2
    MaxPass = 1
    Wrap = 5
    CardFaults = TRUE
    KeepRows = 2
    MaxPowerLosses = 1
INVARIANTS
    TypeOK
    CounterInv
    LogInterval
    RowsInOrder
PROPERTIES
    NeverOvercounts
\* A station that cannot use its card at power-up stays in for(;;).
CHECK_DEADLOCK FALSE
