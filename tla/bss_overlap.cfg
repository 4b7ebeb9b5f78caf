SPECIFICATION HostSpec
CONSTANTS
    WIDTH = 10
    Base = 29510
    INT64_MAX = 1000000
    Images <- GoodImages
    HostCPUs = {}
    HostWrites = {}
    MaxContexts = 0
PROPERTY BssIsZero
