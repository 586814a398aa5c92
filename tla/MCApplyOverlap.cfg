SPECIFICATION Spec
CONSTANTS
    Null = Null
    c1 = c1
    c2 = c2
    d1deal = d1deal
    d2deal = d2deal
    ann = ann
    bob = bob
    Slugs <- MCSlugs
    AttioSlugs <- MCAttioSlugs
    Norm <- MCNorm
    StageSlugs <- MCStageSlugs
    SafeSlugs <- MCSafeSlugs
    FieldMap <- MCFieldMap
    Threshold = 90
    Runs = {r1, r2}
    Proposals = {1}
    Prop <- OneDeal
    Chats = {c1}
    Deals = {d1deal, d2deal}
    Persons = {ann, bob}
    Limit = 2
    LinkParticipants = TRUE
    HumanContacts = {bob}
    FaultKinds = {"refused", "lostReply", "crash"}
    MaxFaults = 1
INVARIANTS
    TypeOK
    TargetWasLive
    DealWriteHasNote
    CleanApplyIsComplete
PROPERTIES
    SeenContactsKept
    ImplementsLifecycle
SYMMETRY RunSymmetry
