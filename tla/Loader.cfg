SPECIFICATION PartsSpec
CONSTANTS
    NUM_RX_DESC = 3
    MaxFrames = 4
    MaxUnread = 3
    MaxInits = 2
    NUM_TX_DESC = 2
    MaxSends = 3
    MaxGiveUps = 3
    FileName = {f, g}
    NoName = NoName
    Absent = Absent
    Char = {x}
    EndOfLine = EndOfLine
    MAX_OPEN = 2
    STR_CAP = 1
    MaxData = 2
    MaxFetched = 1
    HTTP_FILE_CAP = 2
    MaxDownloads = 3
    Number = {3, 1, 0}
    Paths <- DevicePaths
    Maps <- E820
    Images <- BootFiles
    MAX_BOOT_OPTIONS = 2
    Keys = {1, 2}
    None = None
    MaxBoots = 2
    Top = 16
    BOOT_END = 2
    FOUR_GB = 12
    WORD = 32
    FALLBACK = 3
    ARM_BASE = 5
    SIZE_HINT = 3
    FETCH_BASE = 6
    FETCH_TOTAL_CAP = 2
    Name = {a, b, c}
    Disks = disks
    MAX_FETCH_FILES = 2
    MAX_FETCHED = 3
    PER_FILE_CAP = 1
    MaxFetches = 3
    MaxHttp = 1
    MaxHandles = 2
    MaxResets = 1
CHECK_DEADLOCK FALSE
INVARIANTS ReturnedOnce ReportedSent FilesAsWritten ReadsWhole LeavesNothing BootsThePicked InUsableMemory LoadedAsLinked FilesIntact ReadsItsFile ListedOnce
SYMMETRY Interchangeable
