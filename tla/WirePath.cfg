\* Words of 15 bits and int32s of 8: three bytes for a negative number, two at most for
\* any other one; strings up to the first length that takes two bytes.
CONSTANTS
    WordBits = 15
    IntBits = 8
    Nil = Nil
    Packages = {"tokenfactory", "medasdigital"}
    LongString = 128
    MaxOps = 2
    MaxChangedOps = 1
SPECIFICATION Spec
INVARIANTS
    DecodersAgree
    Delivered
    RelayedWhole
    SetIsOnTheWire
    ShownAsCreated
CHECK_DEADLOCK FALSE
