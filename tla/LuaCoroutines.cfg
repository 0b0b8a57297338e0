SPECIFICATION Spec
CONSTANTS
    MAX_COS = 2
    MAX_FRAMES = 3
    MaxSerial = 3
    MaxNested = 1
INVARIANTS TypeOK ResumeChain OwnFrames SuspendedWhole RootPerRun
PROPERTIES ParkedUntouched
