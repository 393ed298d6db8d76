\* Every object and nested arrays of seven values.
SPECIFICATION Spec
CONSTANTS
    Texts <- MCTexts
    Depth <- MCDepth
    RecursionLimit = 3
INVARIANTS
    TypeOK
    EveryMemberIsHandled
    RefusedAsAWhole
CHECK_DEADLOCK FALSE
