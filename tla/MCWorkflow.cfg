SPECIFICATION MCSpec
CONSTANTS
    Null = Null
    Instances = {k1, k2}
    ChatOf <- MCChatOf
    Senders <- MCSenders
    Users = {u1}
    Persons = {p1}
    Chats = {c1}
    Titled = {c1}
    Deals = {d1, d2}
    Scores = {0, 93}
    MinScore = 40
    AutoConfirm = 78
    Margin = 15
    PageSize = 2
    MaxRenames = 1
INVARIANTS
    TypeOK
    ConfirmedPersonStays
PROPERTIES
    RecordWasLive
    PersonWasConfirmed
SYMMETRY WorkflowSymmetry
