SPECIFICATION Spec
CONSTANTS
    Letter = "a"
    Open = ","
    LocalDecl = "local"
    GlobalDecl <- EditorDecl
    NewLine = "newline"
    Blank = "_"
    Mark = ">"
    LINE_CAP = 3
    CHUNK_CAP = 4
    HIST_CAP = 4
    HIST_MAX = 2
    CwdWidth = {1}
    MaxRuns = 1
    MaxEdits = 2
CHECK_DEADLOCK FALSE
INVARIANT NoTextLeftBehind
