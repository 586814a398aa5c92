SPECIFICATION FairSpec
CONSTANTS
    Runs = {r1, r2}
    Chats = {c1, c2}
    MaxDeals = 1
    MaxProposals = 1
    Long = {2}
    MaxChanges = 2
    MaxFaults = 1
INVARIANTS
    TypeOK
    OnePagePerChat
PROPERTIES
    EveryRowShown
    DiffsOnly
