CONSTANTS
    c1 = c1
    c2 = c2
    c3 = c3
    Clients = {c1, c2, c3}
    Conns = {k1}
    MaxUnread = 1
    QueueCap = 2
    None = None
    QIds = {q1, q2, q3, q4}
    Paths = {c1, c2, c3}
    PathOf <- OwnPaths
    UserLines = {"text", "exit"}
    Answers = {"y", "n"}
    Prompts = {"again", "exit"}
    Killable = {}
SPECIFICATION Spec
INVARIANTS ReceivedIsServed
CHECK_DEADLOCK FALSE
