CONSTANTS
    Fd = Fd
    Runs = {12, 25}
    LastBatsman = 1
    Fielders = {2}
    FielderNo <- EachNumber
    Late = TRUE
    MaxBalls = 4
SPECIFICATION Spec
INVARIANTS FileExclusive BallReadAsBowled StreamAligned SignalInTurn NoVainWait BoundariesCount
CHECK_DEADLOCK FALSE
