SPECIFICATION FairSpec
CONSTANTS
    MaxDistance = 5
    Wall = 5
    MARGIN = 1
    FLOOR = 3
    Bodies = {2, 4}
    EchoLost = FALSE
    Hurry = FALSE
    MaxPassages = 2
    UPDATE_TIME = 2
    MaxPass = 1
    Wrap = 5
    CardFaults = TRUE
    BmpFaults = TRUE
    KeepRows = 1
    MaxPowerLosses = 1
INVARIANTS
    TypeOK
    CounterInv
    ShaftIsEmpty
PROPERTIES
    NeverOvercounts
    CountsEveryone
    AllLogged
\* A station that cannot use its card at power-up stays in for(;;).
CHECK_DEADLOCK FALSE
