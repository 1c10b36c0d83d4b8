SPECIFICATION Spec
CONSTANTS
    N = 2
    Unit = 2
    ValidatorOf <- MCDelegations
    Entries = {e1}
    MaxValidators = 1
    Commissions = {0, 3}
    Rewards = {3}
    Powers = {0, 1, 2}
    Last = 2
    Heights <- MCHeights
    AllowLists <- MCAllowLists
INVARIANTS
    TypeOK
    NothingLost
    OnlyFractionsDonated
    FreshStart
    OnlyAllowedBonded
CHECK_DEADLOCK FALSE
