----------------------------- MODULE LineEditor -----------------------------
(***************************************************************************)
(* The interactive shell (lua/src/repl.rs): the line being edited, the     *)
(* chunk it continues, the history and the draft kept while browsing it,   *)
(* and the row of the terminal the line is on.                             *)
(*                                                                         *)
(* Characters are abstract.  Open leaves the chunk incomplete when it ends *)
(* with it; LocalDecl is the beginning `local x =' of a line, which is     *)
(* rewritten to `global x =', one character longer; Change is a `cd' that  *)
(* changes to the other directory.  A row is a sequence of characters from *)
(* column 0; long rows do not wrap.                                        *)
(***************************************************************************)
EXTENDS Integers, Sequences, SequencesExt

CONSTANTS
    Letter, Open, LocalDecl,            \* characters that are typed
    GlobalDecl,                         \* the rewritten declaration, of two characters
    NewLine, Blank, Mark,               \* Mark: a character of a prompt
    LINE_CAP, CHUNK_CAP, HIST_CAP, HIST_MAX,
    CwdWidth,                           \* widths of the directories' names in the prompt
    MaxRuns,                            \* bound: chunks that are run
    MaxEdits                            \* bound: keys other than letters, Enter, Up and Down

VARIABLES
    acc,        \* the lines of the chunk entered so far, each with its NewLine
    line, pos,  \* the line being edited and the cursor in it
    shown,      \* how much of the line the last redraw displayed
    hist, hist_pos,     \* the history; the entry on show is hist[hist_pos + 1]
    draft,      \* draft_acc and draft_line
    row, col,   \* the terminal's row and its cursor
    base,       \* the column where the line starts on the row
    uniform,    \* every prompt drawn on the row since it was begun is as wide as the last
    width,      \* of the current directory's name
    bottom,     \* the chunk and line that were left for the history
    recalled,   \* nothing was edited since the last Up or Down
    runs,       \* chunks run; -1: the shell was left
    edits       \* keys counted by MaxEdits

vars == <<acc, line, pos, shown, hist, hist_pos, draft, row, col, base, uniform, width, bottom,
          recalled, runs, edits>>
screen == <<row, col, base, uniform>>
text == <<acc, line, pos, shown>>
history == <<hist, hist_pos, draft, bottom>>

hist_n == Len(hist)
Times(n, c) == [k \in 1 .. n |-> c]

-----------------------------------------------------------------------------
(* The terminal.  A screen is [row, col]. *)
Puts(s, str) ==
    LET end == s.col + Len(str)
        size == IF end > Len(s.row) THEN end ELSE Len(s.row)
    IN  [row |-> [k \in 1 .. size |-> IF k > s.col /\ k <= end THEN str[k - s.col]
                                      ELSE IF k <= Len(s.row) THEN s.row[k] ELSE Blank],
         col |-> end]
Return(s) == [s EXCEPT !.col = 0]
Back(s, n) == [s EXCEPT !.col = IF @ > n THEN @ - n ELSE 0]
Fresh == [row |-> <<>>, col |-> 0]
Now == [row |-> row, col |-> col]
Show(s) == row' = s.row /\ col' = s.col

\* "> ", ">> ": the prompts of redraw_line; the first prompt of a chunk also
\* names the directory.
Prompt(a) == Times(IF a = <<>> THEN 2 ELSE 3, Mark)
FirstPrompt(w) == Times(w + 3, Mark)

\* Mutant: only what the new line covers is erased.
Redrawn_NewWidth(s, pr, l, p) ==
    Back(Puts(Puts(Return(Puts(Return(s), Times(Len(l) + Len(pr), Blank))), pr), l), Len(l) - p)

\* redraw_line: erase the longer of the old and the new line, print anew.
Redrawn(s, pr, l, p) ==
    LET most == IF shown > Len(l) THEN shown ELSE Len(l) IN
    Back(Puts(Puts(Return(Puts(Return(s), Times(most + Len(pr), Blank))), pr), l), Len(l) - p)

Draw(s, pr, l, p) == Show(Redrawn(s, pr, l, p)) /\ base' = Len(pr) /\ shown' = Len(l)
RedrawInPlace(pr, l, p) == Draw(Now, pr, l, p) /\ uniform' = (uniform /\ Len(pr) = base)
RedrawBelow(pr, l, p) == Draw(Fresh, pr, l, p) /\ uniform' = TRUE

\* The start of the loop: a row that may hold what the chunk wrote.
Reprompt(written, w) ==
    /\ Show(Puts(Puts(Fresh, written), FirstPrompt(w)))
    /\ base' = Len(written) + Len(FirstPrompt(w)) /\ uniform' = TRUE

Cut(str, cap) == SubSeq(str, 1, IF Len(str) < cap THEN Len(str) ELSE cap)

-----------------------------------------------------------------------------
Init ==
    /\ acc = <<>> /\ line = <<>> /\ pos = 0 /\ shown = 0
    /\ hist = <<>> /\ hist_pos = 0 /\ draft = <<<<>>, <<>>>>
    /\ width \in CwdWidth
    /\ row = Times(width + 3, Mark) /\ col = width + 3 /\ base = width + 3 /\ uniform = TRUE
    /\ bottom = <<<<>>, <<>>>> /\ recalled = FALSE /\ runs = 0 /\ edits = 0

Edited == recalled' = FALSE
Reading == runs >= 0

\* A printable key, and Tab with one completion (whose suffix is inserted).
Inserted(str) ==
    /\ line' = SubSeq(line, 1, pos) \o str \o SubSeq(line, pos + 1, Len(line))
    /\ pos' = pos + Len(str)
    /\ Show(Back(Puts(Now, str \o SubSeq(line, pos + 1, Len(line))), Len(line) - pos))
    /\ shown' = Len(line) + Len(str)
    /\ Edited /\ UNCHANGED <<acc, base, uniform, width, runs>> /\ UNCHANGED history

\* A declaration begins a line and Open ends one.
Insert ==
    /\ Reading /\ Len(line) < LINE_CAP
    /\ \E c \in {Letter, Open, LocalDecl} :
        /\ c = LocalDecl => pos = 0
        /\ c = Open => pos = Len(line)
        /\ Inserted(<<c>>)

Complete ==
    /\ Reading /\ line # <<>>
    /\ \/ Len(line) + 1 <= LINE_CAP /\ Inserted(<<Letter>>)
       \/ \* several names: they are listed and the line is drawn on a new row
          /\ RedrawBelow(Prompt(acc), line, pos)
          /\ UNCHANGED <<acc, line, pos, width, runs, recalled>> /\ UNCHANGED history

Left == Reading /\ pos > 0 /\ pos' = pos - 1 /\ Show(Back(Now, 1))
        /\ UNCHANGED <<acc, line, shown, base, uniform, width, recalled, runs>> /\ UNCHANGED history
Right == Reading /\ pos < Len(line) /\ pos' = pos + 1 /\ Show(Puts(Now, <<line[pos + 1]>>))
        /\ UNCHANGED <<acc, line, shown, base, uniform, width, recalled, runs>> /\ UNCHANGED history

HomeEnd ==
    /\ Reading
    /\ pos' \in {0, Len(line)} /\ RedrawInPlace(Prompt(acc), line, pos')
    /\ UNCHANGED <<acc, line, width, recalled, runs>> /\ UNCHANGED history

\* Delete at the cursor, Backspace before it.
Erase ==
    /\ Reading
    /\ \E p \in {pos, pos - 1} :
        /\ p >= 0 /\ p < Len(line)
        /\ line' = RemoveAt(line, p + 1) /\ pos' = p
        /\ RedrawInPlace(Prompt(acc), line', p)
    /\ Edited /\ UNCHANGED <<acc, width, runs>> /\ UNCHANGED history

ClearScreen ==
    /\ Reading /\ RedrawBelow(Prompt(acc), line, pos)
    /\ UNCHANGED <<acc, line, pos, width, recalled, runs>> /\ UNCHANGED history

\* Ctrl-C: without a chunk or a line it only prints the prompt again, in place.
Cancel ==
    /\ Reading /\ Edited
    /\ IF acc # <<>> \/ line # <<>>
       THEN /\ acc' = <<>> /\ line' = <<>> /\ pos' = 0 /\ shown' = 0
            /\ draft' = <<<<>>, <<>>>> /\ hist_pos' = hist_n /\ bottom' = draft'
            /\ Reprompt(<<>>, width)
       ELSE /\ col <= width + 3     \* bound: once on a row
            /\ Show(Puts(Now, FirstPrompt(width))) /\ base' = col + width + 3 /\ uniform' = FALSE
            /\ UNCHANGED <<draft, hist_pos, bottom>> /\ UNCHANGED text
    /\ UNCHANGED <<hist, width, runs>>

-----------------------------------------------------------------------------
(* The history. *)
\* record_history: neither too long nor the same as the last; the oldest goes.
Recorded(content) ==
    IF content = <<>> \/ Len(content) > HIST_CAP \/ (hist # <<>> /\ Last(hist) = content) THEN hist
    ELSE Append(IF hist_n >= HIST_MAX THEN Tail(hist) ELSE hist, content)

\* load_entry: all lines but the last into the chunk, the last into the line.
Breaks(e) == {k \in DOMAIN e : e[k] = NewLine}
Split(e) == IF Breaks(e) = {} THEN 0 ELSE CHOOSE k \in Breaks(e) : \A j \in Breaks(e) : j <= k
LastLine(e) == SubSeq(e, Split(e) + 1, Len(e))
Loaded(e) == <<Cut(SubSeq(e, 1, Split(e)), CHUNK_CAP), Cut(LastLine(e), LINE_CAP)>>

\* render_recalled: in place for a single line, else every line on a new row.
Render(a, l) ==
    IF a = <<>> THEN RedrawInPlace(Prompt(<<>>), l, Len(l))
    ELSE Show(Puts(Puts(Fresh, Prompt(a)), l)) /\ base' = Len(Prompt(a)) /\ uniform' = TRUE
         /\ shown' = Len(l)

Present(pair) ==
    /\ acc' = pair[1] /\ line' = pair[2] /\ pos' = Len(pair[2])
    /\ Render(pair[1], pair[2])
    /\ recalled' = TRUE

\* Mutant: the draft is saved at every step.
Saved_Always == <<acc, line>>

\* The chunk being edited is saved when the history is entered.
Saved == IF hist_pos = hist_n THEN <<acc, line>> ELSE draft

Up ==
    /\ Reading /\ hist # <<>>
    /\ draft' = Saved
    /\ bottom' = IF hist_pos = hist_n THEN <<acc, line>> ELSE bottom
    /\ IF hist_pos > 0 THEN hist_pos' = hist_pos - 1 /\ Present(Loaded(hist[hist_pos]))
       ELSE UNCHANGED <<hist_pos, recalled>> /\ UNCHANGED text /\ UNCHANGED screen
    /\ UNCHANGED <<hist, width, runs>>

Down ==
    /\ Reading /\ hist_pos < hist_n
    /\ hist_pos' = hist_pos + 1
    /\ Present(IF hist_pos + 1 = hist_n THEN draft ELSE Loaded(hist[hist_pos + 2]))
    /\ UNCHANGED <<hist, draft, width, bottom, runs>>

-----------------------------------------------------------------------------
(* Enter. *)
Rewritten(l) == IF l # <<>> /\ Head(l) = LocalDecl THEN GlobalDecl \o Tail(l) ELSE l
Chunk == Cut(acc \o Rewritten(line) \o <<NewLine>>, CHUNK_CAP)

\* is_complete; a chunk cut at CHUNK_CAP is judged as it is.
Contents(chunk) == LET kept == {k \in DOMAIN chunk : chunk[k] # NewLine} IN
                   IF kept = {} THEN <<>>
                   ELSE SubSeq(chunk, 1, CHOOSE k \in kept : \A j \in kept : j <= k)
Incomplete(chunk) == Contents(chunk) # <<>> /\ Last(Contents(chunk)) = Open

EmptyEnter ==
    /\ Reading /\ acc = <<>> /\ line = <<>>
    /\ Reprompt(<<>>, width)
    /\ UNCHANGED <<width, recalled, runs>> /\ UNCHANGED text /\ UNCHANGED history

Continue ==
    /\ Reading /\ (acc # <<>> \/ line # <<>>) /\ Incomplete(Chunk)
    /\ acc' = Chunk /\ line' = <<>> /\ pos' = 0 /\ shown' = 0
    /\ Show(Puts(Fresh, Prompt(Chunk))) /\ base' = 3 /\ uniform' = TRUE
    /\ Edited /\ UNCHANGED <<width, runs>> /\ UNCHANGED history

\* The chunk runs: it may write without a new line, change the directory (cd)
\* or leave the shell.
Run ==
    /\ Reading /\ (acc # <<>> \/ line # <<>>) /\ ~Incomplete(Chunk) /\ runs < MaxRuns
    /\ acc' = <<>> /\ line' = <<>> /\ pos' = 0 /\ shown' = 0
    /\ hist' = Recorded(Contents(Chunk)) /\ hist_pos' = Len(hist')
    /\ draft' = <<<<>>, <<>>>>
    /\ \E written \in {<<>>, <<Letter>>}, w \in CwdWidth : width' = w /\ Reprompt(written, w)
    /\ runs' \in {runs + 1, -1}
    /\ bottom' = <<<<>>, <<>>>>
    /\ Edited

Key == Insert \/ Up \/ Down \/ Continue \/ Run
EditKey == Complete \/ Left \/ Right \/ HomeEnd \/ Erase \/ ClearScreen \/ Cancel \/ EmptyEnter

Next ==
    \/ Key /\ UNCHANGED edits
    \/ edits < MaxEdits /\ EditKey /\ edits' = edits + 1

Spec == Init /\ [][Next]_vars

-----------------------------------------------------------------------------
(***************************************************************************)
(* The row shows the line where the shell believes it is, with the cursor  *)
(* at its place, after any sequence of edits, recalls, completions and     *)
(* redraws: what is typed next lands where it is seen.  Nothing is left    *)
(* behind the line either, on a row all of whose prompts were of one       *)
(* width.  (The hand-counted backspaces and blanks of repl_loop,           *)
(* redraw_line and complete.)                                              *)
(***************************************************************************)
ClearBehind == \A k \in DOMAIN row : k > base + Len(line) => row[k] = Blank
LineOnScreen ==
    Reading => /\ SubSeq(row, base + 1, base + Len(line)) = line
               /\ col = base + pos
               /\ uniform => ClearBehind

(***************************************************************************)
(* What redraw_line's comment says: erasing always covers the old text, so *)
(* that nothing is left behind the line, whatever prompt the row began     *)
(* with.  (It counts the prompt it is given, not the one on the row.)      *)
(***************************************************************************)
NoTextLeftBehind == Reading => ClearBehind

(***************************************************************************)
(* The history keys lose nothing: after Up or Down, before any edit, chunk *)
(* and line are together the whole entry -- unless its last line grew past *)
(* the line buffer when it was rewritten -- and back at the bottom they    *)
(* are the chunk and line that were left there.  (load_entry, KEY_UP and   *)
(* KEY_DOWN.)                                                              *)
(***************************************************************************)
RecallIsWhole ==
    recalled => IF hist_pos = hist_n THEN <<acc, line>> = bottom
                ELSE LET e == hist[hist_pos + 1] IN
                     Len(LastLine(e)) <= LINE_CAP => acc \o line = e
=============================================================================
