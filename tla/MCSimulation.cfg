\* Any sequence of the three operations.
CONSTANTS
    Accounts = {a1, a2, s}
    Authority = s
    SimAccounts = {a1, a2}
    Details = {unset, other}
    Unset = unset
    Denoms <- MCDenoms
    NoDenom = NoDenom
SPECIFICATION SimSpec
INVARIANTS
    SimTypeOK
    NeverRefused
