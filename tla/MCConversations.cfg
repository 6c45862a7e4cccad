CONSTANTS
    h1 = h1
    h2 = h2
    h3 = h3
    Chatters = {h1, h2, h3}
    Quitters = {h1}
    MaxLines <- LineLimits
    Nobody = Nobody
    m1 = m1
    m2 = m2
    w1 = w1
    w2 = w2
    Audience = {m1, m2}
    Deserters = {m1}
    Writers = {w1, w2}
    MaxNews = 2
    MaxSignals = 2
    MaxTyped = 2
    EchoLines <- SomeLines
    echo = echo
    capital = capital
    clock = clock
    k1 = k1
    k2 = k2
    TcpServices = {echo, capital}
    UdpServices = {clock}
    Echo = echo
    Callers = {k1, k2}
    Droppers = {k1}
    MaxWords = 3
    ReadSize = 2
    LongAnswer = 3
    NoService = NoService
    r1 = r1
    cut = cut
    torn = torn
    s1 = s1
    s2 = s2
    Submitters = {s1, s2}
    Vanishers = {s1}
    Files <- SomeFiles
    Ending = Ending
    Blank = Blank
    Starting = Starting
    Str <- SomeStrings
    NoSubmitter = NoSubmitter
SPECIFICATION Spec
INVARIANTS OneConversation NewsThenEchoes ReadsFollowWords JudgedAsSent
CHECK_DEADLOCK FALSE
