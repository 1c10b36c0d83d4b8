SPECIFICATION FairSpec
CONSTANTS
    a = a
    b = b
    x = x
    Accounts = {a, b}
    Authority = b
    Details = {x}
    Denoms <- MCDenoms
    NoDenom = NoDenom
    Txs <- MCTxs
    Blocks <- MCBlocks
    NoBlock = NoBlock
    InitialFunds = 2
    MaxHeight = 2
    MaxCrashes = 1
INVARIANTS
    TypeOK
    NoReplay
    FeePerSequence
    TimeoutRespected
PROPERTIES
    OnlyOwnerChanges
    ImplementsLedger
    DecidedIsCommitted
