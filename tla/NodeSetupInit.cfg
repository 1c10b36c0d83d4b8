\* A failed download, nothing else.
CONSTANTS
    Hosts = {"fresh"}
    Interrupts = FALSE
    OperatorActs = FALSE
SPECIFICATION Spec
INVARIANT
    NothingHalfDone
