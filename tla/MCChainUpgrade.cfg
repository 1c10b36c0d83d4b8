\* The v2 upgrade: no new stores, one crash, one wrong binary; a plan for height 3 is skipped.
CONSTANTS
    n1 = n1
    n2 = n2
    n3 = n3
    Nodes <- MCNodes
    Power <- MCPower
    Supervised <- MCSupervised
    Contents <- MCContents
    StoreUpgrades = {}
    SkipHeights = {3}
    MaxHeight = 3
    MaxCrashes = 1
    MaxSwaps = 1
SYMMETRY MCSymmetry
SPECIFICATION Spec
INVARIANTS
    TypeOK
    Agreement
    RightBinary
CHECK_DEADLOCK FALSE
