CONSTANTS
    Nobody = Nobody
    Rounds = 2
    Early = {1}
    StaleTypes = {2}
    StalePosts = {}
    Prompt = TRUE
SPECIFICATION Spec
INVARIANTS NoSignalLost HeardInTurn LeftKnown NobodyKilled GroupTold
PROPERTIES ImplementsRoundRobin AllEnd
CHECK_DEADLOCK FALSE
