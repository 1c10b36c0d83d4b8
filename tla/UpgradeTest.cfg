SPECIFICATION FairSpec
CONSTANTS
    Buffer = 2
    MaxTries = 2
    MaxHeight = 11
INVARIANTS
    PassedMeansUpgraded
PROPERTIES
    StartsOnHaltedChain
    RehearsalEnds
CHECK_DEADLOCK FALSE
