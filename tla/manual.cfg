CONSTANTS
    WIDTH = 11
    LLONG_MAX = 1000000
    Inputs <- Programs
    NameOrder <- Names
SPECIFICATION Spec
INVARIANT VariantsAreAccepted
CHECK_DEADLOCK FALSE
