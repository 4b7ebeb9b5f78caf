CONSTANTS
    WIDTH = 11
    LLONG_MAX = 1000000
    Inputs <- MCInputs
    NameOrder <- Names
SPECIFICATION Spec
INVARIANT BranchesReachLabels
CHECK_DEADLOCK FALSE
