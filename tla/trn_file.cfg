SPECIFICATION Spec
CONSTANTS
    WIDTH = 5
    INT64_MAX = 1000000
    Images <- AllImages
    OldImage <- MCOldImage
    ExtraWord = 15
    DamagedWords <- AllDamagedWords
    Tables <- MCTables
    MaxReserve = 120
    Fragile <- MCFragile
    MaxPayload = 2
INVARIANT LoadersAgree
PROPERTY RefinesStore
CHECK_DEADLOCK FALSE
