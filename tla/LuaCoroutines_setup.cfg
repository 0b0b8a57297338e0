SPECIFICATION SetupSpec
CONSTANTS
    MAX_COS = 2
    MAX_FRAMES = 3
    MaxSerial = 2
    MaxNested = 1
INVARIANTS ResumeHandsBack
