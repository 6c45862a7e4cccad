CONSTANTS
    None = None
    p1 = p1
    p2 = p2
    c1 = c1
    c2 = c2
    Packages = {p1}
    Clients = {c1, c2}
    PackNos = {1, 9}
    PackNo <- PackageNumbers
    Numbers = {10, 20}
    NumberOf <- ClientNumbers
    AddrOf <- Addresses
    Kinds = {"live","paid"}
    Leavers = {}
    MaxSay = 1
SPECIFICATION FairSpec
PROPERTIES AnswerComes LiveTextArrives
CHECK_DEADLOCK FALSE
