------------------------------ MODULE ShellParts ------------------------------
(***************************************************************************)
(* Four parts of the Lua shell side by side: tables, patterns, packed data *)
(* and the line editor have no state in common, so that each behaviour     *)
(* follows one of them (`part') and the variables of the others rest.      *)
(***************************************************************************)
EXTENDS Integers, Sequences

CONSTANTS
    Name, Value, Nil, TABLE_SLOTS,
    Letter, Open, LocalDecl, GlobalDecl, NewLine, Blank, Mark,
    LINE_CAP, CHUNK_CAP, HIST_CAP, HIST_MAX, CwdWidth, MaxRuns, MaxEdits,
    Char, Subjects, Patterns, Inits, GM_CAPS,
    Formats, Ints, Strings, FloatByte, Byte, OUT_CAP

VARIABLES
    part,
    slots, map, proper, loop, met, gone, added,                     \* table
    pos,                                                            \* editor, pattern, pack
    acc, line, shown, hist, hist_pos, draft, row, col, base, uniform, width, bottom, recalled, runs, edits, \* editor
    subject, pattern, done, last,                                   \* pattern
    fmt, stage, option, little, align_max, packed, vals, got        \* pack

table == <<slots, map, proper, loop, met, gone, added>>
editor == <<acc, line, shown, hist, hist_pos, draft, row, col, base, uniform, width, bottom, recalled, runs, edits>>
matcher == <<subject, pattern, done, last>>
packer == <<fmt, stage, option, little, align_max, packed, vals, got>>
shellVars == <<part, pos, table, editor, matcher, packer>>

Table == INSTANCE LuaTable
Editor == INSTANCE LineEditor
Pattern == INSTANCE LuaPattern
Pack == INSTANCE LuaPack WITH phase <- stage, i <- option

\* No key is both a name and a number; a rewritten declaration is one character longer (`local', `global').
ASSUME TableAssumption ==
    /\ TABLE_SLOTS \in Nat /\ Value \subseteq Int /\ Value # {}
    /\ Name \cap Table!Index = {} /\ Nil \notin Table!Key \cup Value
ASSUME EditorAssumption ==
    /\ {LINE_CAP, CHUNK_CAP, HIST_CAP, HIST_MAX} \subseteq Nat /\ CwdWidth \subseteq Nat
    /\ GlobalDecl = <<GlobalDecl[1], GlobalDecl[2]>>
ASSUME PatternAssumption ==
    /\ Subjects \subseteq Seq(Char) /\ Inits \subseteq Int /\ GM_CAPS \in Nat
    /\ \A p \in Patterns : Pattern!IsPattern(p)
\* Integers of 64 bits, strings of bytes.
ASSUME PackAssumption ==
    /\ Byte \in Nat /\ Byte >= 2 /\ OUT_CAP \in Nat /\ FloatByte \subseteq 0 .. Byte - 1
    /\ Ints \subseteq Int /\ \A v \in Ints : -Pack!Power[Pack!WORD] <= 2 * v /\ 2 * v < Pack!Power[Pack!WORD]
    /\ Strings \subseteq Seq(0 .. Byte - 1)
    /\ \A f \in Formats : Pack!IsFormat(f)

NoTable == slots = 0 /\ map = 0 /\ proper = 0 /\ loop = 0 /\ met = 0 /\ gone = 0 /\ added = 0
NoEditor == acc = 0 /\ line = 0 /\ shown = 0 /\ hist = 0 /\ hist_pos = 0 /\ draft = 0 /\ row = 0 /\ col = 0
            /\ base = 0 /\ uniform = 0 /\ width = 0 /\ bottom = 0 /\ recalled = 0 /\ runs = 0 /\ edits = 0
NoMatcher == subject = 0 /\ pattern = 0 /\ done = 0 /\ last = 0

NoPacker == fmt = 0 /\ stage = 0 /\ option = 0 /\ little = 0 /\ align_max = 0 /\ packed = 0 /\ vals = 0 /\ got = 0

ShellInit ==
    \/ part = "table" /\ Table!Init /\ pos = 0 /\ NoEditor /\ NoMatcher /\ NoPacker
    \/ part = "editor" /\ Editor!Init /\ NoTable /\ NoMatcher /\ NoPacker
    \/ part = "pattern" /\ Pattern!Init /\ NoTable /\ NoEditor /\ NoPacker
    \/ part = "pack" /\ Pack!Init /\ NoTable /\ NoEditor /\ NoMatcher

ShellNext ==
    \/ part = "table" /\ Table!Next /\ UNCHANGED <<part, pos, editor, matcher, packer>>
    \/ part = "editor" /\ Editor!Next /\ UNCHANGED <<part, table, matcher, packer>>
    \/ part = "pattern" /\ Pattern!Next /\ UNCHANGED <<part, table, editor, packer>>
    \/ part = "pack" /\ Pack!Next /\ UNCHANGED <<part, table, editor, matcher>>

ShellSpec == ShellInit /\ [][ShellNext]_shellVars

-----------------------------------------------------------------------------
\* The parts' properties, each of its part's behaviours.
\* LuaTable: the slots are the map.
SlotsAreTheMap == part = "table" => Table!SlotsAreTheMap
\* LuaTable: a loop meets every entry once.
MeetsEachOnce == part = "table" => Table!MeetsEachOnce
\* LineEditor: the row shows the line.
LineOnScreen == part = "editor" => Editor!LineOnScreen
\* LineEditor: the history keys lose nothing.
RecallIsWhole == part = "editor" => Editor!RecallIsWhole
\* LuaPattern: the matchers find the match.
FindsTheMatch == part = "pattern" => Pattern!FindsTheMatch
\* LuaPattern: gmatch moves on.
GmatchMovesOn == [][part = "pattern" => Pattern!MovesOn]_shellVars
\* LuaPattern: gsub replaces the matches and nothing else.
GsubKeepsTheRest == part = "pattern" => Pattern!GsubKeepsTheRest
\* LuaPack: what was packed is unpacked.
RoundTrip == part = "pack" => Pack!RoundTrip
=============================================================================
