CONSTANTS
    d1 = d1
    d2 = d2
    v1 = v1
    v2 = v2
    Dispensers = {d1, d2}
    Vehicles = {v1, v2}
    Leavers = {v1}
    Amounts = {0, 2, 3}
    NoVehicle = NoVehicle
    Ghost = Ghost
    c1 = c1
    c2 = c2
    p1 = p1
    p2 = p2
    S1 = S1
    S2 = S2
    Ports = {p1, p2}
    Kinds = {S1, S2}
    NoProgram = NoProgram
    NoPort = NoPort
    Customers = {c1, c2}
    Walkouts = {c1}
    MaxSent = 2
    MaxAsked = 1
    N = 4
    LeftPosted = {2}
    MaxTurns = 3
SPECIFICATION Spec
INVARIANTS TotalsAddUp AnswersAreOwn OneTurn InOrder
PROPERTIES EveryVehicleGetsAway EveryLineIsAnswered EverybodyPosts
CHECK_DEADLOCK FALSE
