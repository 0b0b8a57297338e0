SPECIFICATION Spec
CONSTANTS
    Maps <- MCMaps
    Images <- MCImages
    Top = 15
    BOOT_END = 1
    FOUR_GB = 512
    WORD = 512
    FALLBACK = 1
    ARM_BASE = 5
    SIZE_HINT = 2
    FETCH_BASE = 4
    FETCH_TOTAL_CAP = 2
CHECK_DEADLOCK FALSE
INVARIANT WindowsApart
