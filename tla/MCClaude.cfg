SPECIFICATION Spec
CONSTANTS
    Null = Null
    NaN = NaN
    MaxLength = 6
    MessageCounts = {25, 26}
    CharCounts = {12000, 12001}
    Confidences <- MCConfidences
    LongCount = 25
    LongChars = 12000
    LowConfidence = 45
INVARIANTS
    FindsTheObject
    WeakFirstPassEscalates
CHECK_DEADLOCK FALSE
