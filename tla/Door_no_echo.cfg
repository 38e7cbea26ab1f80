SPECIFICATION Spec
CONSTANTS
    MaxDistance = 4
    Wall = 4
    Bodies = {1, 3}
    dist_to_ppl = 2
    UPDATE_TIME = 3
    MaxPass = 2
    Wrap = 9
    EchoLost = TRUE
    Hurry = FALSE
    CardFaults = FALSE
    MaxPassages = 2
    KeepRows = 1
    MaxPowerLosses = 0
INVARIANTS
    NoPhantom
