SPECIFICATION Spec
CONSTANTS
    Null = Null
    Runs = {r1}
    Chats = {c1}
    Titled = {c1}
    Deals = {d1, d2}
    Scores = {0, 93}
    MinScore = 40
    AutoConfirm = 78
    Margin = 15
    PageSize = 2
    MaxRenames = 0
INVARIANTS
    LinkIsKept
