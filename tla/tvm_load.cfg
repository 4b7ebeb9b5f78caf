SPECIFICATION HostSpec
CONSTANTS
    WIDTH = 10
    Base = 29516
    INT64_MAX = 1000000
    Images <- LoadImages
    HostCPUs <- MCHostCPUs
    HostWrites <- MCHostWrites
    MaxContexts = 2
CONSTRAINT Bounded
INVARIANTS TvmTypeOK ContextsMatchSaves
PROPERTIES LoadDependsOnImageOnly FailedLoadEffects RestoreIsExact
