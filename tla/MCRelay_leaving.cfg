CONSTANTS
    None = None
    p1 = p1
    p2 = p2
    c1 = c1
    c2 = c2
    Packages = {p1, p2}
    Clients = {c1, c2}
    PackNos = {1, 2}
    PackNo <- PackageNumbers
    Numbers = {10, 20}
    NumberOf <- ClientNumbers
    AddrOf <- Addresses
    Kinds = {"live", "paid"}
    Leavers = {p1, c1}
    MaxSay = 1
SPECIFICATION Spec
INVARIANTS KnownIsLog AnsweredIsTold Addressed CenterDiesOfLeavers
CHECK_DEADLOCK FALSE
