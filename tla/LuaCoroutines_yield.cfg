SPECIFICATION YieldSpec
CONSTANTS
    MAX_COS = 2
    MAX_FRAMES = 4
    MaxSerial = 2
    MaxNested = 1
INVARIANTS SuspendedWhole
