CONSTANTS
    WIDTH = 11
    LLONG_MAX = 1000000
    Inputs <- MCInputs
    NameOrder <- Names
SPECIFICATION Spec
INVARIANTS AssemblerTypeOK BranchReachesLabel LabelsPointAtInstructions
INVARIANTS SectionsPartitionMemory FileRangesDisjoint SymbolsMatchLayout
INVARIANTS ParserMatchesGrammar AssemblesIffWellFormed
CHECK_DEADLOCK FALSE
