CONSTANTS
    Fd = Fd
    Runs <- Shots
    LastBatsman = 1
    Fielders = {1, 2, 3, 4}
    FielderNo <- EachNumber
    Late = TRUE
    MaxBalls = 2
SPECIFICATION FairSpec
INVARIANTS OneOutPerCatch
PROPERTIES BallIsSettled
CHECK_DEADLOCK FALSE
