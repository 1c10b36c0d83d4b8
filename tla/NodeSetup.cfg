\* All commands, on both kinds of host, with interruptions and an operator.
CONSTANTS
    Hosts = {"fresh", "existing"}
    Interrupts = TRUE
    OperatorActs = TRUE
SPECIFICATION Spec
INVARIANTS
    TypeOK
    UnitStartable
    OneNode
    RollbackRestores
