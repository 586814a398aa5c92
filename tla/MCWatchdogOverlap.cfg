SPECIFICATION FairSpec
CONSTANTS
    Runs = {k1, k2}
    MaxSilence = 1
    Cooldown = 2
    MaxFaults = 1
INVARIANTS
    TypeOK
    KnownWasAlerted
PROPERTIES
    AlertsAreSpaced
    OutageIsTold
    DeadMansSwitch
