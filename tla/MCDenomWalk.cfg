SPECIFICATION FairSpec
CONSTANTS
    Accounts = {a1}
    Authority = a1
    Details = {x}
    Denoms <- MCDenoms
    PageSizes <- MCPageSizes
    NoDenom = NoDenom
    NoKey = NoKey
INVARIANTS
    TypeOK
    KeyWalkExact
    OffsetWalkExact
    ExportRoundTrips
PROPERTIES
    WalkEnds
