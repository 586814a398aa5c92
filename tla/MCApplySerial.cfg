SPECIFICATION FairSpec
CONSTANTS
    Null = Null
    c1 = c1
    c2 = c2
    d1deal = d1deal
    d2deal = d2deal
    ann = ann
    bob = bob
    Slugs <- MCSlugs
    AttioSlugs <- MCAttioSlugs
    Norm <- MCNorm
    StageSlugs <- MCStageSlugs
    SafeSlugs <- MCSafeSlugs
    FieldMap <- MCFieldMap
    Threshold = 90
    Runs = {r1}
    Proposals = {1, 2, 3}
    Prop <- DealAndPeople
    Chats = {c1}
    Deals = {d1deal}
    Persons = {ann, bob}
    Limit = 2
    LinkParticipants = TRUE
    HumanContacts = {}
    FaultKinds = {"refused", "lostReply", "crash"}
    MaxFaults = 2
INVARIANTS
    BatchWithinLimit
    UnapprovedWritesAreSafe
PROPERTIES
    AppliedIsFinal
    LinkTakesEffect
