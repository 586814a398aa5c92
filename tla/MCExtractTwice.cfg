SPECIFICATION Spec
CONSTANTS
    c1 = c1
    c2 = c2
    Chats = {c1}
    MaxMessage = 3
    ChatOf <- OneChat
    Dispatchers = {p1}
    BatchLimit = 3
    MaxTries = 2
    InOrder = TRUE
    FaultKinds = {}
    MaxFaults = 0
INVARIANTS
    MessageProposedOnce
CHECK_DEADLOCK FALSE
