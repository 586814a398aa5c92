SPECIFICATION FairSpec
CONSTANTS
    l1 = l1
    w1 = w1
    b1 = b1
    Null = Null
    Runs = {l1, w1, b1}
    Kind <- OneOfEach
    Chats = {c1}
    FetchLimit = 2
    Cutoff = 1
    MaxId = 3
    MaxFaults = 1
INVARIANTS
    TypeOK
    NoGap
PROPERTIES
    CursorMonotone
    ExtractedStays
    EveryMessageStored
