SPECIFICATION Spec
CONSTANTS
    Buffers = {b1, b2}
    NoBuffer = NoBuffer
    Pictures <- MCPictures
    MaxPictures <- MCMaxPictures
    MaxMarkers = 2
    MaxDrains = 1
    MaxFailures = 2
INVARIANT
    TypeOK
    DecodedBeforeOutput
    InUseNotFree
    NewFramesKept
    MarkerBehindDecodes
    NoMarkerLeft
SYMMETRY MCSymmetry
CHECK_DEADLOCK FALSE
