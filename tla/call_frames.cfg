SPECIFICATION Spec
CONSTANTS
    WIDTH = 11
    Starts <- MCStarts
    MaxDepth = 3
CONSTRAINT Bounded
INVARIANTS FrameTypeOK FramesIntact ImageIntact
PROPERTIES ReturnsToCaller FailureIsContained ZeroWordStores
