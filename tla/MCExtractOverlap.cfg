SPECIFICATION FairSpec
CONSTANTS
    c1 = c1
    c2 = c2
    Chats = {c1, c2}
    MaxMessage = 3
    ChatOf <- TwoChats
    Dispatchers = {p1, p2}
    BatchLimit = 2
    MaxTries = 2
    InOrder = TRUE
    FaultKinds = {"failure", "lostReply", "crash"}
    MaxFaults = 1
INVARIANTS
    TypeOK
    ExtractedIsProposed
    ThreadProposedOnce
PROPERTIES
    SkipIsSafe
    EveryMessageExtracted
CHECK_DEADLOCK FALSE
