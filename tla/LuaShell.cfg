SPECIFICATION Spec
CONSTANTS
    MAX_SCOPES = 5
    MAX_LABELS_PER_SCOPE = 3
    MAX_GOTOS_PER_SCOPE = 3
    NoName = NoName
    Rounds = 2
    MAX_FRAMES = 5
    MAX_CELLS = 4
    MAX_CLOSURES = 4
    MAX_LOCALS = 3
    MAX_GLOBALS = 2
    MAX_UPVALS = 2
    Letter = "a"
    Open = ","
    LocalDecl = "local"
    GlobalDecl <- EditorDecl
    NewLine = "newline"
    Blank = "_"
    Mark = ">"
    LINE_CAP = 2
    CHUNK_CAP = 3
    HIST_CAP = 4
    HIST_MAX = 2
    CwdWidth = {2}
    MaxRuns = 2
    MaxEdits = 1
    Name = {n}
    Value = {1, 2}
    Nil = Nil
    TABLE_SLOTS = 3
    Char = {"a", "b"}
    Subjects <- ShortSubjects
    Patterns <- ShortPatterns
    Inits <- SomeInits
    GM_CAPS = 2
    Formats <- ShortFormats
    Ints <- FewInts
    Strings <- ShortStrings
    FloatByte = {1, 2}
    Byte = 4
    OUT_CAP = 32
CHECK_DEADLOCK FALSE
INVARIANTS InStep LexicalScoping SlotsAreTheMap MeetsEachOnce FindsTheMatch GsubKeepsTheRest RoundTrip LineOnScreen RecallIsWhole
PROPERTY GmatchMovesOn
