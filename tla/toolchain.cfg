SPECIFICATION ToolSpec
CONSTANTS
    WIDTH = 11
    LLONG_MAX = 1000000
    INT64_MAX = 1000000
    Inputs <- MCInputs
    NameOrder <- Names
    Endless <- MCEndless
    LastAddress = 30
INVARIANTS OpensIffLabelsHaveWords StartsAsLaidOut ExitTellsWhy
PROPERTIES RunsAsWritten ToolsReturn
CHECK_DEADLOCK FALSE
