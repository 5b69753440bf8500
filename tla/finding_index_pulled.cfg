SPECIFICATION Spec
CONSTANTS
    Buffers = {b1, b2}
    NoBuffer = NoBuffer
    Pictures <- MCPictures
    MaxPictures <- MCQueued
    MaxMarkers = 0
    MaxDrains = 1
    MaxFailures = 0
INVARIANT
    IndexPulledByFailure
CHECK_DEADLOCK FALSE
