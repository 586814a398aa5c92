SPECIFICATION Spec
CONSTANTS
    Null = Null
    Runs = {r1, r2}
    Chats = {c1, c2}
    Titled = {c1}
    Deals = {d1, d2}
    Scores = {0, 40, 77, 78, 93}
    MinScore = 40
    AutoConfirm = 78
    Margin = 15
    PageSize = 2
    MaxRenames = 1
INVARIANTS
    TypeOK
    TargetIffConfirmed
    ConfirmedIsEarned
    QuietLinkIsKept
PROPERTIES
    AnswerIsTrusted
SYMMETRY RunSymmetry
