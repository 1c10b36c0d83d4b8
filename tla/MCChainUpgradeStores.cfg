\* An upgrade that adds a store: the stores, the loader, and the chain after the halt.
CONSTANTS
    n1 = n1
    n2 = n2
    n3 = n3
    Nodes <- MCNodes
    Power <- MCPower
    Supervised <- MCSupervised
    Contents <- MCContents
    StoreUpgrades = {"store"}
    SkipHeights = {}
    MaxHeight = 3
    MaxCrashes = 1
    MaxSwaps = 0
SPECIFICATION FairSpec
INVARIANTS
    StoresMatchUpgrade
    LoadsAfterHalt
PROPERTY
    ChainContinues
CHECK_DEADLOCK FALSE
