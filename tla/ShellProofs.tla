----------------------------- MODULE ShellProofs ------------------------------
(***************************************************************************)
(* What holds of the line editor and of the tables of the Lua shell for    *)
(* every terminal, history, chunk and buffer size, and for every table.    *)
(***************************************************************************)
EXTENDS ShellParts, FiniteSetTheorems, SequenceTheorems, WellFoundedInduction, TLAPS

Glyph == {Letter, Open, LocalDecl, NewLine, Blank, Mark} \cup {GlobalDecl[i] : i \in {1, 2}}
Line == Seq(Glyph)

(* Every step is one of the part that the behaviour follows. *)
LEMMA Moves ==
    [ShellNext]_shellVars =>
        /\ part' = part
        /\ part = "table" => [Table!Next]_(Table!vars)
        /\ part = "editor" => [Editor!Next]_(Editor!vars)
BY DEF ShellNext, shellVars, table, editor, Table!vars, Editor!vars

(* Every behaviour begins as its part does. *)
LEMMA Starts ==
    ShellInit =>
        /\ part = "table" => Table!Init
        /\ part = "editor" => Editor!Init
BY DEF ShellInit

-----------------------------------------------------------------------------
(***************************************************************************)
(* The terminal: what is put on a row is there from the cursor on, and     *)
(* what was before the cursor stays.                                       *)
(***************************************************************************)
Screen == [row : Line, col : Nat]

LEMMA TimesIs ==
    ASSUME NEW n \in Nat, NEW c \in Glyph
    PROVE  /\ Editor!Times(n, c) \in Line /\ Len(Editor!Times(n, c)) = n
           /\ \A k \in 1 .. n : Editor!Times(n, c)[k] = c
BY DEF Editor!Times, Line

LEMMA PutsIs ==
    ASSUME NEW s \in Screen, NEW str \in Line
    PROVE  /\ Editor!Puts(s, str) \in Screen
           /\ Editor!Puts(s, str).col = s.col + Len(str)
           /\ Len(Editor!Puts(s, str).row) >= s.col + Len(str)
           /\ Len(Editor!Puts(s, str).row) >= Len(s.row)
           /\ \A k \in 1 .. Len(Editor!Puts(s, str).row) :
                 /\ k > s.col /\ k <= s.col + Len(str) => Editor!Puts(s, str).row[k] = str[k - s.col]
                 /\ k <= s.col /\ k <= Len(s.row) => Editor!Puts(s, str).row[k] = s.row[k]
                 /\ k > s.col + Len(str) => k <= Len(s.row) /\ Editor!Puts(s, str).row[k] = s.row[k]
<1> DEFINE end == s.col + Len(str)
           size == IF end > Len(s.row) THEN end ELSE Len(s.row)
           cell(k) == IF k > s.col /\ k <= end THEN str[k - s.col]
                      ELSE IF k <= Len(s.row) THEN s.row[k] ELSE Blank
           r == [k \in 1 .. size |-> cell(k)]
<1>1. s.row \in Line /\ s.col \in Nat /\ Len(str) \in Nat /\ Len(s.row) \in Nat
  BY DEF Screen, Line
<1>2. size \in Nat /\ size >= end /\ size >= Len(s.row)
  BY <1>1
<1>3. Editor!Puts(s, str) = [row |-> r, col |-> end]
  BY DEF Editor!Puts
<1>4. ASSUME NEW k \in 1 .. size PROVE cell(k) \in Glyph
  <2>1. CASE k > s.col /\ k <= end
    <3>1. k - s.col \in 1 .. Len(str)
      BY <1>1, <2>1
    <3> QED  BY <2>1, <3>1 DEF Line
  <2>2. CASE ~(k > s.col /\ k <= end) /\ k <= Len(s.row)
    BY <1>1, <2>2 DEF Line
  <2>3. CASE ~(k > s.col /\ k <= end) /\ ~(k <= Len(s.row))
    BY <2>3 DEF Glyph
  <2> QED  BY <2>1, <2>2, <2>3
<1>5. r \in Line /\ Len(r) = size /\ \A k \in 1 .. size : r[k] = cell(k)
  <2> HIDE DEF size, cell
  <2>1. r \in Line
    BY <1>2, <1>4 DEF Line
  <2>2. Len(r) = size
    BY <1>2
  <2> QED  BY <2>1, <2>2
<1> HIDE DEF r
<1>6. [row |-> r, col |-> end] \in Screen
  BY <1>1, <1>5 DEF Screen
<1> QED  BY <1>1, <1>2, <1>3, <1>5, <1>6

\* From column n on a row is blank.
Clear(r, n) == \A k \in 1 .. Len(r) : k > n => r[k] = Blank

(* Behind what is put on a row it stays as it was. *)
LEMMA PutsClear ==
    ASSUME NEW s \in Screen, NEW str \in Line, NEW n, Clear(s.row, n), NEW m \in Nat, n <= m, s.col + Len(str) <= m,
           n \in Nat
    PROVE  Clear(Editor!Puts(s, str).row, m)
<1> DEFINE d == Editor!Puts(s, str)
<1>1. /\ d \in Screen
      /\ \A k \in 1 .. Len(d.row) : k > s.col + Len(str) => k <= Len(s.row) /\ d.row[k] = s.row[k]
  BY PutsIs
<1> HIDE DEF d
<1>2. Len(d.row) \in Nat /\ Len(s.row) \in Nat /\ s.col \in Nat /\ Len(str) \in Nat
  BY <1>1 DEF Screen, Line
<1>3. ASSUME NEW k \in 1 .. Len(d.row), k > m PROVE d.row[k] = Blank
  <2>1. k > s.col + Len(str) /\ k > n /\ k >= 1
    BY <1>2, <1>3
  <2>2. k \in 1 .. Len(s.row) /\ d.row[k] = s.row[k]
    BY <1>1, <1>2, <2>1
  <2> QED  BY <2>1, <2>2 DEF Clear
<1> QED  BY <1>3 DEF Clear, d

\* The row of a screen shows line l from column b on.
Shows(r, b, l) == Len(r) >= b + Len(l) /\ \A k \in 1 .. Len(l) : r[b + k] = l[k]

(* A prompt and a line behind it, drawn from the beginning of a row. *)
LEMMA DrawnIs ==
    ASSUME NEW s \in Screen, s.col = 0, NEW pr \in Line, NEW l \in Line
    PROVE  LET d == Editor!Puts(Editor!Puts(s, pr), l)
           IN  /\ d \in Screen /\ d.col = Len(pr) + Len(l) /\ Shows(d.row, Len(pr), l)
               /\ Clear(s.row, 0) => Clear(d.row, Len(pr) + Len(l))
<1> DEFINE a == Editor!Puts(s, pr)
           d == Editor!Puts(a, l)
<1>1. a \in Screen /\ a.col = Len(pr) /\ Len(a.row) >= Len(pr) /\ Len(pr) \in Nat /\ Len(l) \in Nat
  <2>1. Len(pr) \in Nat /\ Len(l) \in Nat
    BY DEF Line
  <2> QED  BY <2>1, PutsIs
<1> HIDE DEF a
<1>2. /\ d \in Screen /\ d.col = a.col + Len(l) /\ Len(d.row) >= a.col + Len(l)
      /\ \A k \in 1 .. Len(d.row) : k > a.col /\ k <= a.col + Len(l) => d.row[k] = l[k - a.col]
  BY <1>1, PutsIs
<1> HIDE DEF d
<1>3. Shows(d.row, Len(pr), l)
  <2>1. Len(d.row) \in Nat
    BY <1>2 DEF Screen, Line
  <2>2. ASSUME NEW k \in 1 .. Len(l) PROVE d.row[Len(pr) + k] = l[k]
    <3>1. Len(pr) + k \in 1 .. Len(d.row) /\ (Len(pr) + k) - Len(pr) = k
      BY <1>1, <1>2, <2>1
    <3> QED  BY <1>1, <1>2, <3>1
  <2> QED  BY <1>1, <1>2, <2>2 DEF Shows
<1>4. ASSUME Clear(s.row, 0) PROVE Clear(d.row, Len(pr) + Len(l))
  <2>1. Clear(a.row, Len(pr))
    <3>1. 0 <= Len(pr) /\ s.col + Len(pr) <= Len(pr) /\ 0 \in Nat /\ Len(pr) \in Nat
      BY <1>1
    <3> QED  BY <1>4, <3>1, PutsClear DEF a
  <2>2. Len(pr) <= Len(pr) + Len(l) /\ a.col + Len(l) <= Len(pr) + Len(l) /\ Len(pr) + Len(l) \in Nat
    BY <1>1
  <2> QED  BY <1>1, <2>1, <2>2, PutsClear DEF d
<1> QED  BY <1>1, <1>2, <1>3, <1>4 DEF a, d

(* Moving back moves the cursor and nothing else. *)
LEMMA BackIs ==
    ASSUME NEW s \in Screen, NEW n \in Nat, n <= s.col
    PROVE  Editor!Back(s, n) \in Screen /\ Editor!Back(s, n).row = s.row /\ Editor!Back(s, n).col = s.col - n
<1>1. s = [row |-> s.row, col |-> s.col] /\ s.row \in Line /\ s.col \in Nat
  BY DEF Screen
<1>2. Editor!Back(s, n) = [row |-> s.row, col |-> IF s.col > n THEN s.col - n ELSE 0]
  BY <1>1 DEF Editor!Back, Screen
<1>3. (IF s.col > n THEN s.col - n ELSE 0) = s.col - n /\ s.col - n \in Nat
  BY <1>1
<1> QED  BY <1>1, <1>2, <1>3 DEF Screen

(* redraw_line shows the line behind the prompt and comes back to p; it    *)
(* leaves nothing behind the line if the row held no more than that prompt *)
(* and what was shown.                                                     *)
LEMMA RedrawnIs ==
    ASSUME NEW s \in Screen, NEW pr \in Line, NEW l \in Line, NEW p \in 0 .. Len(l), shown \in Nat
    PROVE  LET d == Editor!Redrawn(s, pr, l, p)
           IN  /\ d \in Screen /\ d.col = Len(pr) + p /\ Shows(d.row, Len(pr), l)
               /\ Clear(s.row, Len(pr) + shown) => Clear(d.row, Len(pr) + Len(l))
<1> DEFINE most == IF shown > Len(l) THEN shown ELSE Len(l)
           b == Editor!Times(most + Len(pr), Blank)
           r == Editor!Return(s)
           e == Editor!Puts(r, b)
           a == Editor!Puts(Editor!Puts(Editor!Return(e), pr), l)
           d == Editor!Back(a, Len(l) - p)
<1>1. Len(l) \in Nat /\ Len(pr) \in Nat /\ most \in Nat /\ Blank \in Glyph
  BY DEF Line, Glyph
<1>2. /\ b \in Line /\ Len(b) = most + Len(pr) /\ \A k \in 1 .. most + Len(pr) : b[k] = Blank
      /\ most + Len(pr) \in Nat /\ most + Len(pr) >= Len(pr) + shown
  BY <1>1, TimesIs
<1>3. r \in Screen /\ r.col = 0 /\ r.row = s.row
  BY DEF Editor!Return, Screen
<1> HIDE DEF b, r
<1>4. /\ e \in Screen
      /\ \A k \in 1 .. Len(e.row) :
            /\ k > 0 /\ k <= 0 + Len(b) => e.row[k] = b[k - 0]
            /\ k > 0 + Len(b) => k <= Len(s.row) /\ e.row[k] = s.row[k]
  <2>1. /\ e \in Screen
        /\ \A k \in 1 .. Len(e.row) :
              /\ k > r.col /\ k <= r.col + Len(b) => e.row[k] = b[k - r.col]
              /\ k > r.col + Len(b) => k <= Len(r.row) /\ e.row[k] = r.row[k]
    BY <1>2, <1>3, PutsIs
  <2> HIDE DEF e
  <2> QED  BY <1>3, <2>1
<1> HIDE DEF e
<1>5. Editor!Return(e) \in Screen /\ Editor!Return(e).col = 0 /\ Editor!Return(e).row = e.row
  BY <1>4 DEF Editor!Return, Screen
<1>6. /\ a \in Screen /\ a.col = Len(pr) + Len(l) /\ Shows(a.row, Len(pr), l)
      /\ Clear(e.row, 0) => Clear(a.row, Len(pr) + Len(l))
  BY <1>5, DrawnIs
<1>10. ASSUME Clear(s.row, Len(pr) + shown) PROVE Clear(e.row, 0)
  <2> SUFFICES ASSUME NEW k \in 1 .. Len(e.row) PROVE e.row[k] = Blank
    BY DEF Clear
  <2>1. Len(e.row) \in Nat /\ Len(s.row) \in Nat
    BY <1>4 DEF Screen, Line
  <2>2. CASE k <= Len(b)
    <3>1. k \in 1 .. most + Len(pr) /\ k > 0 /\ k <= 0 + Len(b) /\ k - 0 = k
      BY <1>2, <2>1, <2>2
    <3> QED  BY <1>2, <1>4, <3>1
  <2>3. CASE k > Len(b)
    <3>1. k > 0 + Len(b) /\ k > Len(pr) + shown
      BY <1>1, <1>2, <2>1, <2>3
    <3>2. k \in 1 .. Len(s.row) /\ e.row[k] = s.row[k]
      BY <1>4, <2>1, <3>1
    <3> QED  BY <1>10, <3>1, <3>2 DEF Clear
  <2> QED  BY <1>2, <2>1, <2>2, <2>3
<1> HIDE DEF a
<1>7. Len(l) - p \in Nat /\ Len(l) - p <= a.col /\ a.col - (Len(l) - p) = Len(pr) + p
  BY <1>1, <1>6
<1>8. d \in Screen /\ d.row = a.row /\ d.col = Len(pr) + p
  BY <1>6, <1>7, BackIs
<1>9. d = Editor!Redrawn(s, pr, l, p)
  BY DEF Editor!Redrawn, a, b, e, r
<1> QED  BY <1>6, <1>8, <1>9, <1>10

-----------------------------------------------------------------------------
(* A set of numbers up to n that is not empty has a largest one. *)
LEMMA Largest ==
    ASSUME NEW n \in Nat, NEW S, S \subseteq 0 .. n, S # {}
    PROVE  \E m \in S : \A k \in S : k <= m
<1> DEFINE Less == {p \in Nat \X Nat : p[1] < p[2]}
           T == {j \in Nat : n - j \in S}
<1>1. IsWellFoundedOn(Less, Nat)
  BY NatLessThanWellFounded DEF OpToRel
<1>2. T \subseteq Nat /\ T # {}
  <2>1. PICK k \in S : TRUE
    OBVIOUS
  <2>2. n - k \in Nat /\ n - (n - k) \in S
    BY <2>1
  <2> QED  BY <2>2
<1>3. PICK j \in T : \A t \in T : ~(<<t, j>> \in Less)
  <2> HIDE DEF Less, T
  <2> QED  BY <1>1, <1>2, WFMin
<1>4. j \in Nat /\ n - j \in S
  BY <1>3
<1>5. ASSUME NEW k \in S PROVE k <= n - j
  <2>1. n - k \in Nat /\ n - (n - k) = k
    BY <1>5
  <2>2. n - k \in T
    BY <2>1
  <2>3. <<n - k, j>> \in Nat \X Nat /\ <<n - k, j>>[1] = n - k /\ <<n - k, j>>[2] = j
    BY <1>4, <2>1
  <2>4. ~(n - k < j)
    BY <1>3, <2>2, <2>3
  <2> QED  BY <1>4, <1>5, <2>4
<1> QED  BY <1>4, <1>5

(* Cut keeps what fits. *)
LEMMA CutIs ==
    ASSUME NEW str \in Line, NEW cap \in Nat
    PROVE  /\ Editor!Cut(str, cap) \in Line /\ Len(Editor!Cut(str, cap)) <= cap
           /\ Len(str) <= cap => Editor!Cut(str, cap) = str
<1> DEFINE n == IF Len(str) < cap THEN Len(str) ELSE cap
<1>1. Len(str) \in Nat /\ str \in Seq(Glyph)
  BY DEF Line
<1>2. n \in Nat /\ n <= Len(str) /\ n <= cap
  BY <1>1
<1>3. Editor!Cut(str, cap) = SubSeq(str, 1, n)
  BY DEF Editor!Cut
<1>4. \A i \in 1 .. n : str[i] \in Glyph
  BY <1>1, <1>2
<1> HIDE DEF n
<1>5. SubSeq(str, 1, n) \in Seq(Glyph) /\ Len(SubSeq(str, 1, n)) = n
  BY <1>2, <1>4, SubSeqProperties
<1>6. ASSUME Len(str) <= cap PROVE Editor!Cut(str, cap) = str
  <2>1. n = Len(str)
    BY <1>1, <1>6 DEF n
  <2> QED  BY <1>1, <1>3, <2>1, SubSeqFull
<1> QED  BY <1>2, <1>3, <1>5, <1>6 DEF Line

(* What is before the last line of an entry and the last line are the entry. *)
LEMMA SplitIs ==
    ASSUME NEW e \in Line
    PROVE  /\ Editor!Split(e) \in 0 .. Len(e)
           /\ SubSeq(e, 1, Editor!Split(e)) \in Line
           /\ Len(SubSeq(e, 1, Editor!Split(e))) = Editor!Split(e)
           /\ Editor!LastLine(e) \in Line
           /\ SubSeq(e, 1, Editor!Split(e)) \o Editor!LastLine(e) = e
<1> DEFINE n == Editor!Split(e)
<1>1. e \in Seq(Glyph) /\ Len(e) \in Nat /\ DOMAIN e = 1 .. Len(e)
  BY DEF Line
<1>2. n \in 0 .. Len(e)
  <2>1. CASE Editor!Breaks(e) = {}
    BY <1>1, <2>1 DEF Editor!Split
  <2>2. CASE Editor!Breaks(e) # {}
    <3>1. Editor!Breaks(e) \subseteq 0 .. Len(e)
      BY <1>1 DEF Editor!Breaks
    <3>2. \E k \in Editor!Breaks(e) : \A j \in Editor!Breaks(e) : j <= k
      BY <1>1, <2>2, <3>1, Largest
    <3>3. n \in Editor!Breaks(e)
      BY <2>2, <3>2 DEF Editor!Split
    <3> QED  BY <3>1, <3>3
  <2> QED  BY <2>1, <2>2
<1> HIDE DEF n
<1>3. \A i \in 1 .. Len(e) : e[i] \in Glyph
  BY <1>1
<1>4. SubSeq(e, 1, n) \in Seq(Glyph) /\ Len(SubSeq(e, 1, n)) = n
  BY <1>1, <1>2, <1>3, SubSeqProperties
<1>5. SubSeq(e, n + 1, Len(e)) \in Seq(Glyph)
  BY <1>1, <1>2, <1>3, SubSeqProperties
<1>6. SubSeq(e, 1, n) \o SubSeq(e, n + 1, Len(e)) = SubSeq(e, 1, Len(e))
  <2>1. 1 \in 1 .. Len(e) + 1 /\ n \in 1 - 1 .. Len(e) /\ Len(e) \in n .. Len(e)
    BY <1>1, <1>2
  <2> QED  BY <1>1, <2>1, ConcatAdjacentSubSeq
<1>7. SubSeq(e, 1, Len(e)) = e
  BY <1>1, SubSeqFull
<1> QED  BY <1>2, <1>4, <1>5, <1>6, <1>7 DEF Line, Editor!LastLine, n

(* load_entry keeps an entry that fits the chunk and the line. *)
LEMMA LoadedIs ==
    ASSUME NEW e \in Line
    PROVE  /\ Editor!Loaded(e) \in Line \X Line
           /\ Len(e) <= CHUNK_CAP /\ Len(Editor!LastLine(e)) <= LINE_CAP =>
                Editor!Loaded(e)[1] \o Editor!Loaded(e)[2] = e
<1> DEFINE a == SubSeq(e, 1, Editor!Split(e))
           l == Editor!LastLine(e)
<1>1. CHUNK_CAP \in Nat /\ LINE_CAP \in Nat /\ Len(e) \in Nat
  BY EditorAssumption DEF Line
<1>2. a \in Line /\ l \in Line /\ Len(a) = Editor!Split(e) /\ Editor!Split(e) \in 0 .. Len(e) /\ a \o l = e
  BY SplitIs
<1>3. Editor!Loaded(e) = <<Editor!Cut(a, CHUNK_CAP), Editor!Cut(l, LINE_CAP)>>
  BY DEF Editor!Loaded
<1> HIDE DEF a, l
<1>4. Editor!Cut(a, CHUNK_CAP) \in Line /\ Editor!Cut(l, LINE_CAP) \in Line
  BY <1>1, <1>2, CutIs
<1>5. Len(a) <= CHUNK_CAP => Editor!Cut(a, CHUNK_CAP) = a
  BY <1>1, <1>2, CutIs
<1>6. Len(l) <= LINE_CAP => Editor!Cut(l, LINE_CAP) = l
  BY <1>1, <1>2, CutIs
<1>7. Editor!Loaded(e)[1] = Editor!Cut(a, CHUNK_CAP) /\ Editor!Loaded(e)[2] = Editor!Cut(l, LINE_CAP)
  BY <1>3
<1>8. Len(a) <= Len(e)
  BY <1>1, <1>2
<1>9. ASSUME Len(e) <= CHUNK_CAP, Len(l) <= LINE_CAP
      PROVE  Editor!Loaded(e)[1] \o Editor!Loaded(e)[2] = e
  <2>1. Len(a) \in Nat /\ Len(a) <= CHUNK_CAP
    BY <1>1, <1>2, <1>8, <1>9
  <2> QED  BY <1>2, <1>5, <1>6, <1>7, <1>9, <2>1
<1> QED  BY <1>3, <1>4, <1>9 DEF l

(* What is left of a chunk for the history is no longer than the chunk. *)
LEMMA ContentsIs ==
    ASSUME NEW c \in Line
    PROVE  Editor!Contents(c) \in Line /\ Len(Editor!Contents(c)) <= Len(c)
<1> DEFINE kept == {k \in DOMAIN c : c[k] # NewLine}
<1>1. c \in Seq(Glyph) /\ Len(c) \in Nat /\ DOMAIN c = 1 .. Len(c)
  BY DEF Line
<1>2. CASE kept = {}
  <2>1. Editor!Contents(c) = <<>>
    BY <1>2 DEF Editor!Contents
  <2> QED  BY <1>1, <2>1 DEF Line
<1>3. CASE kept # {}
  <2> DEFINE m == CHOOSE k \in kept : \A j \in kept : j <= k
  <2>1. kept \subseteq 0 .. Len(c)
    BY <1>1
  <2>2. Editor!Contents(c) = SubSeq(c, 1, m)
    BY <1>3 DEF Editor!Contents
  <2> HIDE DEF kept
  <2>3. \E k \in kept : \A j \in kept : j <= k
    BY <1>1, <1>3, <2>1, Largest
  <2>4. m \in kept
    BY <2>3
  <2> HIDE DEF m
  <2>5. m \in 0 .. Len(c) /\ \A i \in 1 .. m : c[i] \in Glyph
    BY <1>1, <2>1, <2>4
  <2>6. SubSeq(c, 1, m) \in Seq(Glyph) /\ Len(SubSeq(c, 1, m)) = m
    BY <1>1, <2>5, SubSeqProperties
  <2> QED  BY <1>1, <2>2, <2>5, <2>6 DEF Line
<1> QED  BY <1>2, <1>3

(* A chunk is no longer than its buffer. *)
LEMMA ChunkIs ==
    ASSUME acc \in Line, line \in Line
    PROVE  Editor!Chunk \in Line /\ Len(Editor!Chunk) <= CHUNK_CAP
<1>1. GlobalDecl \in Line
  <2>1. GlobalDecl[1] \in Glyph /\ GlobalDecl[2] \in Glyph
    BY DEF Glyph
  <2>2. <<GlobalDecl[1], GlobalDecl[2]>> \in Line
    BY <2>1 DEF Line
  <2> QED  BY <2>2, EditorAssumption
<1>2. Editor!Rewritten(line) \in Line
  <2>1. CASE line # <<>>
    <3>1. Tail(line) \in Line
      BY <2>1, HeadTailProperties DEF Line
    <3>2. GlobalDecl \o Tail(line) \in Line
      BY <1>1, <3>1, ConcatProperties DEF Line
    <3> QED  BY <3>2 DEF Editor!Rewritten
  <2>2. CASE line = <<>>
    BY <2>2 DEF Editor!Rewritten
  <2> QED  BY <2>1, <2>2
<1>3. acc \o Editor!Rewritten(line) \in Line
  BY <1>2, ConcatProperties DEF Line
<1>4. <<NewLine>> \in Line
  <2>1. NewLine \in Glyph
    BY DEF Glyph
  <2> QED  BY <2>1 DEF Line
<1>5. acc \o Editor!Rewritten(line) \o <<NewLine>> \in Line
  BY <1>3, <1>4, ConcatProperties DEF Line
<1>6. CHUNK_CAP \in Nat
  BY EditorAssumption
<1> QED  BY <1>5, <1>6, CutIs DEF Editor!Chunk

\* The entries of a history.
Entries(h) == h \in Seq(Line) /\ \A i \in 1 .. Len(h) : Len(h[i]) <= CHUNK_CAP

(* record_history keeps a history one. *)
LEMMA RecordedIs ==
    ASSUME Entries(hist), NEW c \in Line, Len(c) <= CHUNK_CAP
    PROVE  Entries(Editor!Recorded(c))
<1> DEFINE h == IF Len(hist) >= HIST_MAX THEN Tail(hist) ELSE hist
<1>1. CASE Editor!Recorded(c) = hist
  BY <1>1
<1>2. CASE Editor!Recorded(c) # hist
  <2>1. Editor!Recorded(c) = Append(h, c)
    BY <1>2 DEF Editor!Recorded, Editor!hist_n
  <2>2. h \in Seq(Line) /\ \A i \in 1 .. Len(h) : Len(h[i]) <= CHUNK_CAP
    <3>1. CASE hist = <<>>
      <4>1. h = <<>> \/ h = Tail(<<>>)
        BY <3>1
      <4> QED  BY <3>1, <4>1 DEF Entries
    <3>2. CASE hist # <<>>
      <4>1. Tail(hist) \in Seq(Line) /\ Len(Tail(hist)) = Len(hist) - 1
            /\ \A i \in 1 .. Len(Tail(hist)) : Tail(hist)[i] = hist[i + 1]
        BY <3>2, HeadTailProperties DEF Entries
      <4>2. \A i \in 1 .. Len(Tail(hist)) : Len(Tail(hist)[i]) <= CHUNK_CAP
        <5> SUFFICES ASSUME NEW i \in 1 .. Len(Tail(hist)) PROVE Len(Tail(hist)[i]) <= CHUNK_CAP
          OBVIOUS
        <5>1. i + 1 \in 1 .. Len(hist)
          BY <4>1 DEF Entries
        <5> QED  BY <4>1, <5>1 DEF Entries
      <4> QED  BY <4>1, <4>2 DEF Entries
    <3> QED  BY <3>1, <3>2
  <2> HIDE DEF h
  <2>3. Append(h, c) \in Seq(Line) /\ Len(Append(h, c)) = Len(h) + 1
    BY <2>2
  <2>4. \A i \in 1 .. Len(h) + 1 : Append(h, c)[i] = IF i <= Len(h) THEN h[i] ELSE c
    BY <2>2
  <2>5. \A i \in 1 .. Len(h) + 1 : Len(Append(h, c)[i]) <= CHUNK_CAP
    BY <2>2, <2>4
  <2> QED  BY <2>1, <2>3, <2>5 DEF Entries
<1> QED  BY <1>1, <1>2

-----------------------------------------------------------------------------
(***************************************************************************)
(* The invariant of the editor.  The row shows the line also when the      *)
(* shell was left; what the history keys promise needs that no entry is    *)
(* longer than the chunk buffer and that, off the bottom, the draft is     *)
(* what was left there.                                                    *)
(***************************************************************************)
TextInv ==
    /\ acc \in Line /\ line \in Line /\ pos \in 0 .. Len(line)
    /\ shown = Len(line) /\ width \in Nat
ScreenInv ==
    /\ row \in Line /\ base \in Nat /\ col = base + pos /\ Shows(row, base, line)
    /\ uniform => Clear(row, base + Len(line))
HistoryInv ==
    /\ Entries(hist) /\ hist_pos \in 0 .. Len(hist)
    /\ draft \in Line \X Line
    /\ hist_pos < Len(hist) => draft = bottom
    /\ Editor!RecallIsWhole
EditInv == TextInv /\ ScreenInv /\ HistoryInv

(* Drawing the line anew. *)
LEMMA Redraws ==
    ASSUME NEW s \in Screen, NEW pr \in Line, NEW l \in Line, NEW p \in 0 .. Len(l), shown \in Nat,
           Editor!Draw(s, pr, l, p), line' = l, pos' = p, uniform' => Clear(s.row, Len(pr) + shown)
    PROVE  ScreenInv' /\ shown' = Len(line')
<1> DEFINE d == Editor!Redrawn(s, pr, l, p)
<1>1. /\ d \in Screen /\ d.col = Len(pr) + p /\ Shows(d.row, Len(pr), l)
      /\ Clear(s.row, Len(pr) + shown) => Clear(d.row, Len(pr) + Len(l))
  BY RedrawnIs
<1>2. Len(pr) \in Nat /\ Len(l) \in Nat
  BY DEF Line
<1>3. row' = d.row /\ col' = d.col /\ base' = Len(pr) /\ shown' = Len(l)
  BY DEF Editor!Draw, Editor!Show
<1> HIDE DEF d
<1>4. row' \in Line
  BY <1>1, <1>3 DEF Screen
<1>5. ASSUME uniform' PROVE Clear(row', base' + Len(line'))
  BY <1>1, <1>3, <1>5
<1>6. Shows(row', base', line') /\ base' \in Nat /\ col' = base' + pos'
  BY <1>1, <1>2, <1>3
<1> QED  BY <1>3, <1>4, <1>5, <1>6 DEF ScreenInv, Shows, Clear

(* A prompt behind what is on the row, and an empty line. *)
LEMMA Prompts ==
    ASSUME NEW s \in Screen, NEW pr \in Line,
           Editor!Show(Editor!Puts(s, pr)), base' = s.col + Len(pr), line' = <<>>, pos' = 0,
           uniform' => Clear(s.row, s.col)
    PROVE  ScreenInv'
<1>1. /\ Editor!Puts(s, pr) \in Screen /\ Editor!Puts(s, pr).col = s.col + Len(pr)
      /\ Len(Editor!Puts(s, pr).row) >= s.col + Len(pr)
  BY PutsIs
<1>2. Len(pr) \in Nat /\ s.col \in Nat
  BY DEF Line, Screen
<1>3. row' = Editor!Puts(s, pr).row /\ col' = Editor!Puts(s, pr).col
  BY DEF Editor!Show
<1>4. row' \in Line
  BY <1>1, <1>3 DEF Screen
<1>5. ASSUME uniform' PROVE Clear(row', s.col + Len(pr) + 0)
  <2>1. /\ s.col \in Nat /\ s.col + Len(pr) + 0 \in Nat /\ s.col <= s.col + Len(pr) + 0
        /\ s.col + Len(pr) <= s.col + Len(pr) + 0
    BY <1>2
  <2> QED  BY <1>3, <1>5, <2>1, PutsClear
<1>6. Len(line') = 0
  OBVIOUS
<1> QED  BY <1>1, <1>2, <1>3, <1>4, <1>5, <1>6 DEF ScreenInv, Shows

(* The screen as it is. *)
LEMMA NowIs == ASSUME TextInv, ScreenInv PROVE Editor!Now \in Screen /\ Editor!Now.col = col /\ Editor!Now.row = row
<1>1. col \in Nat
  BY DEF TextInv, ScreenInv
<1> QED  BY <1>1 DEF Editor!Now, ScreenInv, Screen

LEMMA FreshIs == Editor!Fresh \in Screen /\ Editor!Fresh.col = 0 /\ \A n : Clear(Editor!Fresh.row, n)
BY DEF Editor!Fresh, Screen, Line, Clear

(* A line drawn anew on its row or on a new one. *)
LEMMA RedrawsInPlace ==
    ASSUME TextInv, ScreenInv, NEW pr \in Line, NEW l \in Line, NEW p \in 0 .. Len(l),
           Editor!RedrawInPlace(pr, l, p), line' = l, pos' = p
    PROVE  ScreenInv' /\ shown' = Len(line')
<1>1. Editor!Now \in Screen /\ Editor!Now.row = row /\ shown \in Nat /\ shown = Len(line)
  BY NowIs DEF TextInv, Line
<1>2. uniform' => Clear(Editor!Now.row, Len(pr) + shown)
  BY <1>1 DEF Editor!RedrawInPlace, ScreenInv
<1> QED  BY <1>1, <1>2, Redraws DEF Editor!RedrawInPlace

LEMMA RedrawsBelow ==
    ASSUME TextInv, NEW pr \in Line, NEW l \in Line, NEW p \in 0 .. Len(l),
           Editor!RedrawBelow(pr, l, p), line' = l, pos' = p
    PROVE  ScreenInv' /\ shown' = Len(line')
<1>1. shown \in Nat
  BY DEF TextInv, Line
<1> QED  BY <1>1, FreshIs, Redraws DEF Editor!RedrawBelow

(* The prompts are of marks. *)
LEMMA PromptIs ==
    /\ \A a : Editor!Prompt(a) \in Line /\ Len(Editor!Prompt(a)) = (IF a = <<>> THEN 2 ELSE 3)
    /\ \A w \in Nat : Editor!FirstPrompt(w) \in Line /\ Len(Editor!FirstPrompt(w)) = w + 3
<1>1. Mark \in Glyph
  BY DEF Glyph
<1>2. ASSUME NEW a PROVE Editor!Prompt(a) \in Line /\ Len(Editor!Prompt(a)) = (IF a = <<>> THEN 2 ELSE 3)
  BY <1>1, TimesIs DEF Editor!Prompt
<1>3. ASSUME NEW w \in Nat PROVE Editor!FirstPrompt(w) \in Line /\ Len(Editor!FirstPrompt(w)) = w + 3
  BY <1>1, TimesIs DEF Editor!FirstPrompt
<1> QED  BY <1>2, <1>3

(* The start of the loop. *)
LEMMA Reprompts ==
    ASSUME NEW written \in Line, NEW w \in Nat, Editor!Reprompt(written, w), line' = <<>>, pos' = 0
    PROVE  ScreenInv'
<1> DEFINE s == Editor!Puts(Editor!Fresh, written)
           pr == Editor!FirstPrompt(w)
<1>1. s \in Screen /\ s.col = 0 + Len(written)
  BY FreshIs, PutsIs
<1>2. pr \in Line
  BY PromptIs
<1>3. Len(written) \in Nat
  BY DEF Line
<1>5. Clear(s.row, s.col)
  <2>1. /\ 0 \in Nat /\ s.col \in Nat /\ 0 <= s.col
        /\ Editor!Fresh.col + Len(written) <= s.col
    BY <1>1, <1>3, FreshIs
  <2> HIDE DEF s
  <2>2. Clear(Editor!Puts(Editor!Fresh, written).row, s.col)
    BY <2>1, FreshIs, PutsClear
  <2> QED  BY <2>2 DEF s
<1>4. Editor!Show(Editor!Puts(s, pr)) /\ base' = s.col + Len(pr)
  BY <1>1, <1>3 DEF Editor!Reprompt
<1> HIDE DEF s, pr
<1> QED  BY <1>1, <1>2, <1>4, <1>5, Prompts

(* render_recalled shows a recalled line wherever it draws it. *)
LEMMA Presents ==
    ASSUME TextInv, ScreenInv, NEW pair \in Line \X Line, Editor!Present(pair)
    PROVE  /\ ScreenInv' /\ acc' \in Line /\ line' \in Line /\ pos' \in 0 .. Len(line') /\ shown' = Len(line')
           /\ <<acc', line'>> = pair /\ recalled' = TRUE
<1>1. acc' = pair[1] /\ line' = pair[2] /\ pos' = Len(line') /\ recalled' = TRUE
      /\ Editor!Render(acc', line')
  BY DEF Editor!Present
<1>2. acc' \in Line /\ line' \in Line /\ <<acc', line'>> = pair /\ Len(line') \in Nat
  BY <1>1 DEF Line
<1>3. CASE acc' = <<>>
  <2>1. Editor!RedrawInPlace(Editor!Prompt(<<>>), line', Len(line'))
    BY <1>1, <1>3 DEF Editor!Render
  <2>2. Editor!Prompt(<<>>) \in Line
    BY PromptIs
  <2>3. Len(line') \in 0 .. Len(line')
    BY <1>2
  <2> QED  BY <1>1, <1>2, <2>1, <2>2, <2>3, RedrawsInPlace
<1>4. CASE acc' # <<>>
  <2> DEFINE pr == Editor!Prompt(acc')
             d == Editor!Puts(Editor!Puts(Editor!Fresh, pr), line')
  <2>1. row' = d.row /\ col' = d.col /\ base' = Len(pr) /\ shown' = Len(line')
    BY <1>1, <1>4 DEF Editor!Render, Editor!Show
  <2>2. pr \in Line
    BY PromptIs
  <2> HIDE DEF pr
  <2>5. Len(pr) \in Nat
    BY <2>2 DEF Line
  <2>3. d \in Screen /\ d.col = Len(pr) + Len(line') /\ Shows(d.row, Len(pr), line')
        /\ Clear(d.row, Len(pr) + Len(line'))
    BY <1>2, <2>2, FreshIs, DrawnIs
  <2>4. row' \in Line
    BY <2>1, <2>3 DEF Screen
  <2> QED  BY <1>1, <1>2, <2>1, <2>2, <2>3, <2>4, <2>5 DEF ScreenInv, Shows
<1> QED  BY <1>1, <1>2, <1>3, <1>4

(* What is typed is written over the rest of the line, which follows it; *)
(* the cursor is brought back over that.                                 *)
LEMMA Inserts ==
    ASSUME TextInv, ScreenInv, NEW str \in Line, Editor!Inserted(str)
    PROVE  ScreenInv' /\ line' \in Line /\ pos' \in 0 .. Len(line') /\ shown' = Len(line')
<1> DEFINE head == SubSeq(line, 1, pos)
           rest == SubSeq(line, pos + 1, Len(line))
           t == str \o rest
           d == Editor!Puts(Editor!Now, t)
<1>1. /\ line \in Seq(Glyph) /\ Len(line) \in Nat /\ pos \in Nat /\ pos <= Len(line) /\ Len(str) \in Nat
      /\ base \in Nat /\ col = base + pos /\ row \in Line /\ Len(row) \in Nat
  BY DEF TextInv, ScreenInv, Line
<1>2. \A i \in 1 .. Len(line) : line[i] \in Glyph
  BY <1>1
<1>3. head \in Line /\ Len(head) = pos /\ \A i \in 1 .. pos : head[i] = line[i]
  BY <1>1, <1>2, SubSeqProperties DEF Line
<1>4. rest \in Line /\ Len(rest) = Len(line) - pos
  BY <1>1, <1>2, SubSeqProperties DEF Line
<1>5. /\ line' = head \o str \o rest /\ pos' = pos + Len(str) /\ base' = base /\ uniform' = uniform
      /\ row' = Editor!Back(d, Len(line) - pos).row /\ col' = Editor!Back(d, Len(line) - pos).col
      /\ shown' = Len(line) + Len(str)
  BY DEF Editor!Inserted, Editor!Show
<1> HIDE DEF head, rest
<1>6. t \in Line /\ Len(t) = Len(str) + Len(rest)
      /\ \A i \in 1 .. Len(str) + Len(rest) : t[i] = IF i <= Len(str) THEN str[i] ELSE rest[i - Len(str)]
  BY <1>4, ConcatProperties DEF Line
<1>7. head \o str \in Line /\ Len(head \o str) = pos + Len(str)
      /\ \A i \in 1 .. pos + Len(str) : (head \o str)[i] = IF i <= pos THEN head[i] ELSE str[i - pos]
  BY <1>3, ConcatProperties DEF Line
<1>8. line' \in Line /\ Len(line') = pos + Len(str) + Len(rest)
      /\ \A i \in 1 .. pos + Len(str) + Len(rest) :
            line'[i] = IF i <= pos + Len(str) THEN (head \o str)[i] ELSE rest[i - (pos + Len(str))]
  <2> DEFINE h == head \o str
  <2>1. h \in Seq(Glyph) /\ rest \in Seq(Glyph) /\ Len(h) = pos + Len(str)
    BY <1>4, <1>7 DEF Line
  <2> HIDE DEF h
  <2>2. h \o rest \in Seq(Glyph) /\ Len(h \o rest) = Len(h) + Len(rest)
        /\ \A i \in 1 .. Len(h) + Len(rest) : (h \o rest)[i] = IF i <= Len(h) THEN h[i] ELSE rest[i - Len(h)]
    BY <2>1, ConcatProperties, ZenonT(60)
  <2>3. line' = h \o rest
    BY <1>5 DEF h
  <2> QED  BY <2>1, <2>2, <2>3 DEF Line, h
<1> HIDE DEF t
<1>9. /\ Editor!Now \in Screen /\ Editor!Now.col = base + pos /\ Editor!Now.row = row
  BY <1>1, NowIs
<1>10. /\ d \in Screen /\ d.col = base + pos + Len(t) /\ Len(d.row) >= base + pos + Len(t)
       /\ \A k \in 1 .. Len(d.row) :
             /\ k > base + pos /\ k <= base + pos + Len(t) => d.row[k] = t[k - (base + pos)]
             /\ k <= base + pos /\ k <= Len(row) => d.row[k] = row[k]
             /\ k > base + pos + Len(t) => k <= Len(row) /\ d.row[k] = row[k]
  <2>1. /\ d \in Screen /\ d.col = Editor!Now.col + Len(t) /\ Len(d.row) >= Editor!Now.col + Len(t)
        /\ \A k \in 1 .. Len(d.row) :
              /\ k > Editor!Now.col /\ k <= Editor!Now.col + Len(t) => d.row[k] = t[k - Editor!Now.col]
              /\ k <= Editor!Now.col /\ k <= Len(Editor!Now.row) => d.row[k] = Editor!Now.row[k]
              /\ k > Editor!Now.col + Len(t) => k <= Len(Editor!Now.row) /\ d.row[k] = Editor!Now.row[k]
    BY <1>6, <1>9, PutsIs
  <2> QED  BY <1>9, <2>1
<1> HIDE DEF d
<1>11. Len(line) - pos \in Nat /\ Len(line) - pos <= d.col
  BY <1>1, <1>4, <1>6, <1>10
<1>12. row' = d.row /\ col' = d.col - (Len(line) - pos)
  BY <1>5, <1>10, <1>11, BackIs
<1>13. row' \in Line /\ Len(row') \in Nat
  BY <1>10, <1>12 DEF Screen, Line
<1>14. col' = base' + pos' /\ Len(row') >= base' + Len(line')
  <2>1. /\ base \in Nat /\ pos \in Nat /\ Len(str) \in Nat /\ Len(line) \in Nat
        /\ Len(rest) \in Nat /\ Len(d.row) \in Nat
    BY <1>1, <1>4, <1>10 DEF Line, Screen
  <2>2. base' = base /\ pos' = pos + Len(str)
    BY <1>5
  <2>3. Len(t) = Len(str) + Len(rest) /\ Len(rest) = Len(line) - pos
    BY <1>4, <1>6
  <2>4. d.col = base + pos + Len(t) /\ Len(d.row) >= base + pos + Len(t)
    BY <1>10
  <2>5. row' = d.row /\ col' = d.col - (Len(line) - pos)
    BY <1>12
  <2>6. Len(line') = pos + Len(str) + Len(rest)
    BY <1>8
  <2> QED  BY <2>1, <2>2, <2>3, <2>4, <2>5, <2>6, SMTT(30)
<1>15. ASSUME NEW k \in 1 .. Len(line') PROVE row'[base' + k] = line'[k]
  <2>1. base + k \in 1 .. Len(row') /\ base' = base
    <3>1. Len(line') \in Nat /\ base' = base /\ k \in Nat /\ k >= 1 /\ k <= Len(line')
      BY <1>5, <1>8 DEF Line
    <3> QED  BY <1>1, <1>13, <1>14, <3>1
  <2>2. CASE k <= pos
    <3>1. row'[base + k] = row[base + k]
      <4>1. base + k <= Len(row) /\ base + k <= base + pos
        BY <1>1, <2>2 DEF ScreenInv, Shows
      <4> QED  BY <1>10, <1>12, <2>1, <4>1
    <3>2. row[base + k] = line[k]
      BY <1>1, <2>2 DEF ScreenInv, Shows
    <3>3. line'[k] = line[k]
      <4>1. k \in 1 .. pos /\ k \in 1 .. pos + Len(str) /\ k \in 1 .. pos + Len(str) + Len(rest) /\ k <= pos + Len(str)
        BY <1>1, <1>4, <1>8, <2>2
      <4> QED  BY <1>3, <1>7, <1>8, <2>2, <4>1
    <3> QED  BY <2>1, <3>1, <3>2, <3>3
  <2>3. CASE k > pos
    <3>1. k - pos \in 1 .. Len(str) + Len(rest) /\ (base + k) - (base + pos) = k - pos
      BY <1>1, <1>4, <1>8, <2>3
    <3>2. row'[base + k] = t[k - pos]
      <4>1. base + k > base + pos /\ base + k <= base + pos + Len(t)
        BY <1>1, <1>4, <1>6, <1>8, <2>3
      <4> QED  BY <1>10, <1>12, <2>1, <3>1, <4>1
    <3>3. CASE k <= pos + Len(str)
      <4>1. k - pos <= Len(str) /\ k \in 1 .. pos + Len(str) /\ ~(k <= pos)
        BY <1>1, <2>3, <3>3
      <4>2. t[k - pos] = str[k - pos]
        BY <1>6, <3>1, <4>1
      <4>3. line'[k] = str[k - pos]
        BY <1>7, <1>8, <3>3, <4>1
      <4> QED  BY <2>1, <3>2, <4>2, <4>3
    <3>4. CASE k > pos + Len(str)
      <4>1. ~(k - pos <= Len(str)) /\ (k - pos) - Len(str) = k - (pos + Len(str)) /\ ~(k <= pos + Len(str))
        BY <1>1, <3>4
      <4>2. t[k - pos] = rest[k - (pos + Len(str))]
        BY <1>6, <3>1, <4>1
      <4>3. line'[k] = rest[k - (pos + Len(str))]
        BY <1>8, <4>1
      <4> QED  BY <2>1, <3>2, <4>2, <4>3
    <3> QED  BY <1>1, <3>3, <3>4
  <2> QED  BY <1>1, <2>2, <2>3
<1>16. ASSUME uniform' PROVE Clear(row', base' + Len(line'))
  <2>1. Clear(row, base + Len(line))
    BY <1>5, <1>16 DEF ScreenInv
  <2>2. base' + Len(line') = base + pos + Len(t) /\ base + pos + Len(t) >= base + Len(line)
    BY <1>1, <1>4, <1>5, <1>6, <1>8
  <2> SUFFICES ASSUME NEW k \in 1 .. Len(row'), k > base + pos + Len(t) PROVE row'[k] = Blank
    BY <2>2 DEF Clear
  <2>3. k <= Len(row) /\ row'[k] = row[k]
    BY <1>10, <1>12
  <2>4. k \in 1 .. Len(row) /\ k > base + Len(line)
    <3>1. Len(t) \in Nat
      BY <1>6 DEF Line
    <3> QED  BY <1>1, <1>13, <2>2, <2>3, <3>1
  <2> QED  BY <2>1, <2>3, <2>4 DEF Clear
<1> QED
  <2>1. pos' \in 0 .. Len(line') /\ shown' = Len(line') /\ base' \in Nat
    BY <1>1, <1>4, <1>5, <1>8
  <2> QED  BY <1>8, <1>13, <1>14, <1>15, <1>16, <2>1 DEF ScreenInv, Shows

-----------------------------------------------------------------------------
(* A step that leaves the history alone, and either edits or leaves the *)
(* text alone too.                                                      *)
LEMMA HistoryRests ==
    ASSUME HistoryInv, UNCHANGED Editor!history,
           recalled' = FALSE \/ UNCHANGED <<acc, line, recalled>>
    PROVE  HistoryInv'
<1>1. hist' = hist /\ hist_pos' = hist_pos /\ draft' = draft /\ bottom' = bottom
  BY DEF Editor!history
<1>2. Editor!RecallIsWhole'
  <2>1. CASE recalled' = FALSE
    BY <2>1 DEF Editor!RecallIsWhole
  <2>2. CASE UNCHANGED <<acc, line, recalled>>
    BY <1>1, <2>2 DEF Editor!RecallIsWhole, HistoryInv, Editor!hist_n, Editor!LastLine, Editor!Split, Editor!Breaks
  <2> QED  BY <2>1, <2>2
<1> QED  BY <1>1, <1>2 DEF HistoryInv, Entries

LEMMA InsertStep == ASSUME EditInv, Editor!Insert PROVE EditInv'
<1>1. PICK c \in {Letter, Open, LocalDecl} : Editor!Inserted(<<c>>)
  BY DEF Editor!Insert
<1>2. <<c>> \in Line
  <2>1. c \in Glyph
    BY DEF Glyph
  <2> QED  BY <2>1 DEF Line
<1>3. ScreenInv' /\ line' \in Line /\ pos' \in 0 .. Len(line') /\ shown' = Len(line')
  BY <1>1, <1>2, Inserts DEF EditInv
<1>4. acc' = acc /\ width' = width /\ recalled' = FALSE /\ UNCHANGED Editor!history
  BY <1>1 DEF Editor!Inserted, Editor!Edited
<1>5. HistoryInv'
  BY <1>4, HistoryRests DEF EditInv
<1> QED  BY <1>3, <1>4, <1>5 DEF EditInv, TextInv

(* Steps that draw the line and leave it as it is. *)
LEMMA RedrawStep ==
    ASSUME EditInv, pos' \in 0 .. Len(line),
           \/ Editor!RedrawInPlace(Editor!Prompt(acc), line, pos')
           \/ Editor!RedrawBelow(Editor!Prompt(acc), line, pos'),
           UNCHANGED <<acc, line, width, recalled>>, UNCHANGED Editor!history
    PROVE  EditInv'
<1>1. Editor!Prompt(acc) \in Line /\ line \in Line
  BY PromptIs DEF EditInv, TextInv
<1>2. ScreenInv' /\ shown' = Len(line')
  BY <1>1, RedrawsInPlace, RedrawsBelow DEF EditInv
<1>3. HistoryInv'
  BY HistoryRests DEF EditInv
<1> QED  BY <1>2, <1>3 DEF EditInv, TextInv

LEMMA CompleteStep == ASSUME EditInv, Editor!Complete PROVE EditInv'
<1>1. CASE Editor!Inserted(<<Letter>>)
  <2>1. <<Letter>> \in Line
    BY DEF Line, Glyph
  <2>2. ScreenInv' /\ line' \in Line /\ pos' \in 0 .. Len(line') /\ shown' = Len(line')
    BY <1>1, <2>1, Inserts DEF EditInv
  <2>3. acc' = acc /\ width' = width /\ recalled' = FALSE /\ UNCHANGED Editor!history
    BY <1>1 DEF Editor!Inserted, Editor!Edited
  <2>4. HistoryInv'
    BY <2>3, HistoryRests DEF EditInv
  <2> QED  BY <2>2, <2>3, <2>4 DEF EditInv, TextInv
<1>2. CASE /\ Editor!RedrawBelow(Editor!Prompt(acc), line, pos)
           /\ UNCHANGED <<acc, line, pos, width, runs, recalled>> /\ UNCHANGED Editor!history
  <2>1. pos' = pos /\ pos \in 0 .. Len(line)
    BY <1>2 DEF EditInv, TextInv
  <2> QED  BY <1>2, <2>1, RedrawStep
<1> QED  BY <1>1, <1>2 DEF Editor!Complete

LEMMA ClearStep == ASSUME EditInv, Editor!ClearScreen PROVE EditInv'
<1>1. pos' = pos /\ pos \in 0 .. Len(line)
  BY DEF Editor!ClearScreen, EditInv, TextInv
<1> QED  BY <1>1, RedrawStep DEF Editor!ClearScreen

LEMMA HomeEndStep == ASSUME EditInv, Editor!HomeEnd PROVE EditInv'
<1>1. Len(line) \in Nat
  BY DEF EditInv, TextInv, Line
<1>2. pos' \in 0 .. Len(line)
  BY <1>1 DEF Editor!HomeEnd
<1> QED  BY <1>2, RedrawStep DEF Editor!HomeEnd

LEMMA LeftStep == ASSUME EditInv, Editor!Left PROVE EditInv'
<1>1. /\ Editor!Now \in Screen /\ Editor!Now.col = base + pos /\ Editor!Now.row = row
      /\ base \in Nat /\ pos \in Nat /\ pos > 0 /\ pos' = pos - 1
      /\ base' = base /\ line' = line /\ uniform' = uniform
      /\ row' = Editor!Back(Editor!Now, 1).row /\ col' = Editor!Back(Editor!Now, 1).col
  BY NowIs DEF EditInv, TextInv, ScreenInv, Editor!Left, Editor!Show
<1>2. row' = row /\ col' = base + pos - 1
  BY <1>1, BackIs
<1>3. ScreenInv'
  BY <1>1, <1>2 DEF EditInv, ScreenInv, Shows
<1>4. TextInv'
  BY <1>1 DEF EditInv, TextInv, Editor!Left
<1>5. HistoryInv'
  BY HistoryRests DEF EditInv, Editor!Left
<1> QED  BY <1>3, <1>4, <1>5 DEF EditInv

LEMMA RightStep == ASSUME EditInv, Editor!Right PROVE EditInv'
<1>1. /\ Editor!Now \in Screen /\ Editor!Now.col = base + pos /\ Editor!Now.row = row
      /\ base \in Nat /\ pos \in Nat /\ pos < Len(line) /\ Len(line) \in Nat /\ pos' = pos + 1
      /\ base' = base /\ line' = line /\ uniform' = uniform
  BY NowIs DEF EditInv, TextInv, ScreenInv, Editor!Right, Line
<1> DEFINE str == <<line[pos + 1]>>
           d == Editor!Puts(Editor!Now, str)
<1>2. str \in Line /\ Len(str) = 1 /\ str[1] = line[pos + 1]
  BY <1>1 DEF EditInv, TextInv, Line
<1>3. row' = d.row /\ col' = d.col
  BY DEF Editor!Right, Editor!Show
<1> HIDE DEF str
<1>4. /\ d \in Screen /\ d.col = Editor!Now.col + 1 /\ Len(d.row) >= Len(Editor!Now.row)
      /\ \A k \in 1 .. Len(d.row) :
            /\ k > Editor!Now.col /\ k <= Editor!Now.col + 1 => d.row[k] = str[k - Editor!Now.col]
            /\ k <= Editor!Now.col /\ k <= Len(Editor!Now.row) => d.row[k] = Editor!Now.row[k]
            /\ k > Editor!Now.col + 1 => k <= Len(Editor!Now.row) /\ d.row[k] = Editor!Now.row[k]
  BY <1>1, <1>2, PutsIs
<1> HIDE DEF d
<1>5. row' \in Line /\ Len(row') \in Nat /\ Len(row) \in Nat
  BY <1>3, <1>4 DEF Screen, EditInv, ScreenInv, Line
<1>6. Len(row) >= base + Len(line) /\ \A k \in 1 .. Len(line) : row[base + k] = line[k]
  BY DEF EditInv, ScreenInv, Shows
<1>7. ASSUME NEW k \in 1 .. Len(line) PROVE row'[base + k] = line[k]
  <2>1. base + k \in 1 .. Len(row') /\ base + k <= Len(row)
    BY <1>1, <1>3, <1>4, <1>5, <1>6
  <2>2. CASE k = pos + 1
    BY <1>1, <1>2, <1>3, <1>4, <2>1, <2>2
  <2>3. CASE k # pos + 1
    BY <1>1, <1>3, <1>4, <1>6, <2>1, <2>3
  <2> QED  BY <2>2, <2>3
<1>11. ASSUME uniform PROVE Clear(row', base + Len(line))
  <2>1. Clear(row, base + Len(line))
    BY <1>11 DEF EditInv, ScreenInv
  <2> SUFFICES ASSUME NEW k \in 1 .. Len(row'), k > base + Len(line) PROVE row'[k] = Blank
    BY DEF Clear
  <2>2. k > Editor!Now.col + 1
    BY <1>1, <1>5
  <2>3. k \in 1 .. Len(row) /\ row'[k] = row[k]
    BY <1>1, <1>3, <1>4, <1>5, <2>2
  <2> QED  BY <2>1, <2>3 DEF Clear
<1>8. ScreenInv'
  BY <1>1, <1>3, <1>4, <1>5, <1>6, <1>7, <1>11 DEF ScreenInv, Shows
<1>9. TextInv'
  BY <1>1 DEF EditInv, TextInv, Editor!Right
<1>10. HistoryInv'
  BY HistoryRests DEF EditInv, Editor!Right
<1> QED  BY <1>8, <1>9, <1>10 DEF EditInv

LEMMA EraseStep == ASSUME EditInv, Editor!Erase PROVE EditInv'
<1>1. PICK p \in {pos, pos - 1} :
        /\ p >= 0 /\ p < Len(line)
        /\ line' = Editor!RemoveAt(line, p + 1) /\ pos' = p
        /\ Editor!RedrawInPlace(Editor!Prompt(acc), line', p)
  BY DEF Editor!Erase
<1>2. line \in Seq(Glyph) /\ Len(line) \in Nat /\ p \in Nat /\ p < Len(line)
      /\ \A i \in 1 .. Len(line) : line[i] \in Glyph
  BY <1>1 DEF EditInv, TextInv, Line
<1>3. SubSeq(line, 1, p) \in Seq(Glyph) /\ Len(SubSeq(line, 1, p)) = p
  BY <1>2, SubSeqProperties
<1>4. SubSeq(line, p + 2, Len(line)) \in Seq(Glyph) /\ Len(SubSeq(line, p + 2, Len(line))) = Len(line) - (p + 1)
  BY <1>2, SubSeqProperties
<1>5. line' = SubSeq(line, 1, p) \o SubSeq(line, p + 2, Len(line))
  <2>1. (p + 1) - 1 = p /\ (p + 1) + 1 = p + 2
    BY <1>2
  <2> QED  BY <1>1, <2>1 DEF Editor!RemoveAt
<1>6. line' \in Line /\ Len(line') = Len(line) - 1
  <2> DEFINE a == SubSeq(line, 1, p)
             b == SubSeq(line, p + 2, Len(line))
  <2>1. a \in Seq(Glyph) /\ b \in Seq(Glyph) /\ Len(a) = p /\ Len(b) = Len(line) - (p + 1) /\ line' = a \o b
    BY <1>3, <1>4, <1>5
  <2> HIDE DEF a, b
  <2>2. a \o b \in Seq(Glyph) /\ Len(a \o b) = Len(a) + Len(b)
    BY <2>1, ConcatProperties
  <2> QED  BY <1>2, <2>1, <2>2 DEF Line
<1>7. p \in 0 .. Len(line')
  BY <1>2, <1>6
<1>8. Editor!Prompt(acc) \in Line
  BY PromptIs
<1>9. ScreenInv' /\ shown' = Len(line')
  BY <1>1, <1>6, <1>7, <1>8, RedrawsInPlace DEF EditInv
<1>10. recalled' = FALSE /\ acc' = acc /\ width' = width /\ UNCHANGED Editor!history
  BY DEF Editor!Erase, Editor!Edited
<1>11. HistoryInv'
  BY <1>10, HistoryRests DEF EditInv
<1> QED  BY <1>1, <1>6, <1>7, <1>9, <1>10, <1>11 DEF EditInv, TextInv

(* The empty text. *)
LEMMA NoText == <<>> \in Line /\ Len(<<>>) = 0 /\ 0 \in 0 .. Len(<<>>) /\ <<<<>>, <<>>>> \in Line \X Line
<1>1. <<>> \in Line /\ Len(<<>>) = 0
  BY DEF Line
<1> QED  BY <1>1

LEMMA CancelStep == ASSUME EditInv, Editor!Cancel PROVE EditInv'
<1>1. recalled' = FALSE /\ hist' = hist /\ width' = width /\ width \in Nat
  BY DEF Editor!Cancel, Editor!Edited, EditInv, TextInv
<1>2. Editor!RecallIsWhole'
  BY <1>1 DEF Editor!RecallIsWhole
<1>3. CASE acc # <<>> \/ line # <<>>
  <2>1. /\ acc' = <<>> /\ line' = <<>> /\ pos' = 0 /\ shown' = 0 /\ Editor!Reprompt(<<>>, width)
        /\ draft' = <<<<>>, <<>>>> /\ hist_pos' = Len(hist) /\ bottom' = draft'
    BY <1>3 DEF Editor!Cancel, Editor!hist_n
  <2>2. ScreenInv'
    BY <1>1, <2>1, NoText, Reprompts
  <2>3. TextInv'
    BY <1>1, <2>1, NoText DEF TextInv
  <2>4. Len(hist) \in Nat
    BY DEF EditInv, HistoryInv, Entries
  <2>5. HistoryInv'
    BY <1>1, <1>2, <2>1, <2>4, NoText DEF EditInv, HistoryInv, Entries
  <2> QED  BY <2>2, <2>3, <2>5 DEF EditInv
<1>4. CASE ~(acc # <<>> \/ line # <<>>)
  <2>1. /\ Editor!Show(Editor!Puts(Editor!Now, Editor!FirstPrompt(width))) /\ base' = col + width + 3 /\ uniform' = FALSE
        /\ UNCHANGED Editor!text /\ UNCHANGED Editor!history
    BY <1>1, <1>4 DEF Editor!Cancel, Editor!history
  <2>2. line' = <<>> /\ pos' = 0
    BY <1>4, <2>1, NoText DEF Editor!text, EditInv, TextInv
  <2>3. Editor!Now \in Screen /\ Editor!Now.col = col /\ Editor!FirstPrompt(width) \in Line
        /\ Len(Editor!FirstPrompt(width)) = width + 3 /\ col \in Nat
    <3>1. Editor!Now \in Screen /\ Editor!Now.col = col
      BY NowIs DEF EditInv
    <3>2. Editor!FirstPrompt(width) \in Line /\ Len(Editor!FirstPrompt(width)) = width + 3
      BY <1>1, PromptIs
    <3>3. col \in Nat
      BY DEF EditInv, TextInv, ScreenInv
    <3> QED  BY <3>1, <3>2, <3>3
  <2>4. base' = Editor!Now.col + Len(Editor!FirstPrompt(width))
    BY <1>1, <2>1, <2>3
  <2>5. ScreenInv'
    BY <2>1, <2>2, <2>3, <2>4, Prompts
  <2>6. TextInv'
    BY <1>1, <2>1 DEF Editor!text, EditInv, TextInv
  <2>7. HistoryInv'
    BY <1>1, <2>1, HistoryRests DEF EditInv
  <2> QED  BY <2>5, <2>6, <2>7 DEF EditInv
<1> QED  BY <1>3, <1>4

LEMMA EmptyEnterStep == ASSUME EditInv, Editor!EmptyEnter PROVE EditInv'
<1>1. /\ line = <<>> /\ Editor!Reprompt(<<>>, width) /\ width \in Nat
      /\ UNCHANGED <<width, recalled>> /\ UNCHANGED Editor!text /\ UNCHANGED Editor!history
  BY DEF Editor!EmptyEnter, EditInv, TextInv
<1>2. UNCHANGED <<acc, line, pos, shown>>
  BY <1>1 DEF Editor!text
<1>3. line' = <<>> /\ pos' = 0
  BY <1>1, <1>2, NoText DEF EditInv, TextInv
<1>4. ScreenInv'
  BY <1>1, <1>3, NoText, Reprompts
<1>5. TextInv'
  BY <1>1, <1>2 DEF EditInv, TextInv
<1>6. HistoryInv'
  BY <1>1, <1>2, HistoryRests DEF EditInv
<1> QED  BY <1>4, <1>5, <1>6 DEF EditInv

LEMMA ContinueStep == ASSUME EditInv, Editor!Continue PROVE EditInv'
<1>1. /\ acc' = Editor!Chunk /\ line' = <<>> /\ pos' = 0 /\ shown' = 0
      /\ Editor!Show(Editor!Puts(Editor!Fresh, Editor!Prompt(Editor!Chunk))) /\ base' = 3
      /\ recalled' = FALSE /\ width' = width /\ UNCHANGED Editor!history
      /\ Editor!Contents(Editor!Chunk) # <<>>
  BY DEF Editor!Continue, Editor!Edited, Editor!Incomplete
<1>2. Editor!Chunk \in Line
  BY ChunkIs DEF EditInv, TextInv
<1>3. Editor!Chunk # <<>>
  <2> SUFFICES ASSUME Editor!Chunk = <<>> PROVE FALSE
    OBVIOUS
  <2>1. Editor!Contents(<<>>) \in Line /\ Len(Editor!Contents(<<>>)) <= 0
    BY NoText, ContentsIs
  <2>2. Editor!Contents(<<>>) = <<>>
    BY <2>1 DEF Line
  <2> QED  BY <1>1, <2>2
<1>4. Editor!Prompt(Editor!Chunk) \in Line /\ Len(Editor!Prompt(Editor!Chunk)) = 3
  BY <1>3, PromptIs
<1>5. ScreenInv'
  <2>1. base' = Editor!Fresh.col + Len(Editor!Prompt(Editor!Chunk))
    BY <1>1, <1>4, FreshIs
  <2> QED  BY <1>1, <1>4, <2>1, FreshIs, Prompts
<1>6. TextInv'
  BY <1>1, <1>2, NoText DEF EditInv, TextInv
<1>7. HistoryInv'
  BY <1>1, HistoryRests DEF EditInv
<1> QED  BY <1>5, <1>6, <1>7 DEF EditInv

(* What was run is recorded, and the cursor of the history is at its end. *)
LEMMA RunStep == ASSUME EditInv, Editor!Run PROVE EditInv'
<1>1. /\ acc' = <<>> /\ line' = <<>> /\ pos' = 0 /\ shown' = 0
      /\ hist' = Editor!Recorded(Editor!Contents(Editor!Chunk)) /\ hist_pos' = Len(hist')
      /\ draft' = <<<<>>, <<>>>> /\ bottom' = <<<<>>, <<>>>> /\ recalled' = FALSE
  BY DEF Editor!Run, Editor!Edited
<1>2. PICK written \in {<<>>, <<Letter>>}, w \in CwdWidth : width' = w /\ Editor!Reprompt(written, w)
  BY DEF Editor!Run
<1>3. written \in Line /\ w \in Nat
  <2>1. w \in Nat
    BY <1>2, EditorAssumption
  <2>2. <<>> \in Line /\ <<Letter>> \in Line
    BY DEF Line, Glyph
  <2> QED  BY <1>2, <2>1, <2>2
<1>4. ScreenInv'
  BY <1>1, <1>2, <1>3, Reprompts
<1>5. TextInv'
  BY <1>1, <1>2, <1>3, NoText DEF TextInv
<1>6. Editor!Chunk \in Line /\ Len(Editor!Chunk) <= CHUNK_CAP
  BY ChunkIs DEF EditInv, TextInv
<1>7. Editor!Contents(Editor!Chunk) \in Line /\ Len(Editor!Contents(Editor!Chunk)) <= CHUNK_CAP
  <2>1. Editor!Contents(Editor!Chunk) \in Line /\ Len(Editor!Contents(Editor!Chunk)) <= Len(Editor!Chunk)
    BY <1>6, ContentsIs
  <2>2. Len(Editor!Chunk) \in Nat /\ Len(Editor!Contents(Editor!Chunk)) \in Nat /\ CHUNK_CAP \in Nat
    BY <1>6, <2>1, EditorAssumption DEF Line
  <2> QED  BY <1>6, <2>1, <2>2
<1>8. Entries(hist)'
  <2>1. Entries(hist')
    BY <1>1, <1>7, RecordedIs DEF EditInv, HistoryInv
  <2> QED  BY <2>1 DEF Entries
<1>9. hist_pos' \in 0 .. Len(hist') /\ ~(hist_pos' < Len(hist'))
  BY <1>1, <1>8 DEF Entries
<1>10. HistoryInv'
  BY <1>1, <1>8, <1>9, NoText DEF HistoryInv, Editor!RecallIsWhole
<1> QED  BY <1>4, <1>5, <1>10 DEF EditInv

LEMMA UpStep == ASSUME EditInv, Editor!Up PROVE EditInv'
<1>1. /\ hist # <<>> /\ hist' = hist /\ width' = width
      /\ draft' = (IF hist_pos = Len(hist) THEN <<acc, line>> ELSE draft)
      /\ bottom' = (IF hist_pos = Len(hist) THEN <<acc, line>> ELSE bottom)
  BY DEF Editor!Up, Editor!Saved, Editor!hist_n
<1>2. /\ hist \in Seq(Line) /\ Len(hist) \in Nat /\ Len(hist) > 0 /\ hist_pos \in 0 .. Len(hist)
      /\ \A i \in 1 .. Len(hist) : hist[i] \in Line /\ Len(hist[i]) <= CHUNK_CAP
  <2>1. Entries(hist) /\ hist_pos \in 0 .. Len(hist)
    BY DEF EditInv, HistoryInv
  <2>2. hist \in Seq(Line) /\ Len(hist) \in Nat
    BY <2>1 DEF Entries
  <2>3. Len(hist) > 0
    BY <1>1, <2>2, EmptySeq
  <2> QED  BY <2>1, <2>2, <2>3 DEF Entries
<1>3. draft' \in Line \X Line /\ (hist_pos < Len(hist) \/ hist_pos = Len(hist)) /\ draft' = bottom'
  BY <1>1, <1>2 DEF EditInv, TextInv, HistoryInv
<1>4. Entries(hist)'
  BY <1>1 DEF EditInv, HistoryInv, Entries
<1>5. CASE hist_pos > 0
  <2> DEFINE e == hist[hist_pos]
  <2>1. hist_pos' = hist_pos - 1 /\ Editor!Present(Editor!Loaded(e))
    BY <1>5 DEF Editor!Up
  <2>2. e \in Line /\ Len(e) <= CHUNK_CAP
    BY <1>2, <1>5
  <2>3. hist_pos' \in 0 .. Len(hist') /\ hist_pos' # Len(hist') /\ hist'[hist_pos' + 1] = e
    <3>1. (hist_pos - 1) + 1 = hist_pos
      BY <1>2
    <3> QED  BY <1>1, <1>2, <1>5, <2>1, <3>1
  <2> HIDE DEF e
  <2>4. /\ Editor!Loaded(e) \in Line \X Line
        /\ Len(Editor!LastLine(e)) <= LINE_CAP => Editor!Loaded(e)[1] \o Editor!Loaded(e)[2] = e
    BY <2>2, LoadedIs
  <2>5. /\ ScreenInv' /\ acc' \in Line /\ line' \in Line /\ pos' \in 0 .. Len(line') /\ shown' = Len(line')
        /\ <<acc', line'>> = Editor!Loaded(e)
    BY <2>1, <2>4, Presents DEF EditInv
  <2>6. Len(Editor!LastLine(e)) <= LINE_CAP => acc' \o line' = e
    BY <2>4, <2>5
  <2>7. Editor!RecallIsWhole'
    BY <2>3, <2>6 DEF Editor!RecallIsWhole, Editor!hist_n, Editor!LastLine, Editor!Split, Editor!Breaks
  <2>8. HistoryInv'
    BY <1>3, <1>4, <2>3, <2>7 DEF HistoryInv
  <2>9. TextInv'
    BY <1>1, <2>5 DEF EditInv, TextInv
  <2> QED  BY <2>5, <2>8, <2>9 DEF EditInv
<1>6. CASE ~(hist_pos > 0)
  <2>1. UNCHANGED <<hist_pos, recalled>> /\ UNCHANGED Editor!text /\ UNCHANGED Editor!screen
    BY <1>6 DEF Editor!Up
  <2>2. UNCHANGED <<hist_pos, recalled, acc, line, pos, shown, row, col, base, uniform>>
    BY <2>1 DEF Editor!text, Editor!screen
  <2>3. hist_pos # Len(hist)
    BY <1>2, <1>6
  <2>4. Editor!RecallIsWhole'
    BY <1>1, <2>2, <2>3 DEF EditInv, HistoryInv, Editor!RecallIsWhole, Editor!hist_n, Editor!LastLine,
                            Editor!Split, Editor!Breaks
  <2>5. HistoryInv'
    BY <1>1, <1>3, <1>4, <2>2, <2>4 DEF EditInv, HistoryInv
  <2>6. TextInv' /\ ScreenInv'
    BY <1>1, <2>2 DEF EditInv, TextInv, ScreenInv, Shows, Clear
  <2> QED  BY <2>5, <2>6 DEF EditInv
<1> QED  BY <1>5, <1>6

LEMMA DownStep == ASSUME EditInv, Editor!Down PROVE EditInv'
<1> DEFINE e == hist[hist_pos + 2]
           pair == IF hist_pos + 1 = Len(hist) THEN draft ELSE Editor!Loaded(e)
<1>1. /\ hist_pos < Len(hist) /\ hist_pos' = hist_pos + 1 /\ Editor!Present(pair)
      /\ UNCHANGED <<hist, draft, width, bottom>>
  BY DEF Editor!Down, Editor!hist_n
<1>2. /\ Len(hist) \in Nat /\ hist_pos \in 0 .. Len(hist) /\ draft \in Line \X Line /\ draft = bottom
      /\ \A i \in 1 .. Len(hist) : hist[i] \in Line /\ Len(hist[i]) <= CHUNK_CAP
  BY <1>1 DEF EditInv, HistoryInv, Entries
<1>3. ASSUME hist_pos + 1 # Len(hist)
      PROVE  /\ Editor!Loaded(e) \in Line \X Line
             /\ Len(Editor!LastLine(e)) <= LINE_CAP => Editor!Loaded(e)[1] \o Editor!Loaded(e)[2] = e
  <2>1. hist_pos + 2 \in 1 .. Len(hist)
    BY <1>1, <1>2, <1>3
  <2>2. e \in Line /\ Len(e) <= CHUNK_CAP
    BY <1>2, <2>1
  <2> QED  BY <2>2, LoadedIs
<1>4. pair \in Line \X Line
  BY <1>2, <1>3
<1>5. /\ ScreenInv' /\ acc' \in Line /\ line' \in Line /\ pos' \in 0 .. Len(line') /\ shown' = Len(line')
      /\ <<acc', line'>> = pair
  <2> HIDE DEF pair
  <2> QED  BY <1>1, <1>4, Presents DEF EditInv
<1>6. Editor!RecallIsWhole'
  <2>1. CASE hist_pos + 1 = Len(hist)
    <3>1. hist_pos' = Len(hist') /\ <<acc', line'>> = bottom'
      BY <1>1, <1>2, <1>5, <2>1
    <3> QED  BY <3>1 DEF Editor!RecallIsWhole, Editor!hist_n
  <2>2. CASE hist_pos + 1 # Len(hist)
    <3>1. <<acc', line'>> = Editor!Loaded(e)
      BY <1>5, <2>2
    <3>2. hist_pos' # Len(hist') /\ hist'[hist_pos' + 1] = e
      <4>1. (hist_pos + 1) + 1 = hist_pos + 2
        BY <1>2
      <4> QED  BY <1>1, <2>2, <4>1
    <3> HIDE DEF e
    <3>3. Len(Editor!LastLine(e)) <= LINE_CAP => acc' \o line' = e
      BY <1>3, <2>2, <3>1
    <3> QED  BY <3>2, <3>3 DEF Editor!RecallIsWhole, Editor!hist_n, Editor!LastLine, Editor!Split, Editor!Breaks
  <2> QED  BY <2>1, <2>2
<1>7. HistoryInv'
  <2>1. hist_pos' \in 0 .. Len(hist')
    BY <1>1, <1>2
  <2> QED  BY <1>1, <1>2, <1>6, <2>1 DEF EditInv, HistoryInv, Entries
<1>8. TextInv'
  BY <1>1, <1>5 DEF EditInv, TextInv
<1> QED  BY <1>5, <1>7, <1>8 DEF EditInv

(* Every key keeps the editor's invariant. *)
LEMMA EditStep == EditInv /\ [Editor!Next]_(Editor!vars) => EditInv'
<1> SUFFICES ASSUME EditInv, [Editor!Next]_(Editor!vars) PROVE EditInv'
  OBVIOUS
<1>1. CASE Editor!Key
  BY <1>1, InsertStep, UpStep, DownStep, ContinueStep, RunStep DEF Editor!Key
<1>2. CASE Editor!EditKey
  BY <1>2, CompleteStep, LeftStep, RightStep, HomeEndStep, EraseStep, ClearStep, CancelStep, EmptyEnterStep
     DEF Editor!EditKey
<1>3. CASE UNCHANGED Editor!vars
  <2>1. UNCHANGED <<acc, line, pos, shown, width, row, col, base, uniform, recalled>> /\ UNCHANGED Editor!history
    BY <1>3 DEF Editor!vars, Editor!history
  <2>2. HistoryInv'
    BY <2>1, HistoryRests DEF EditInv
  <2> QED  BY <2>1, <2>2 DEF EditInv, TextInv, ScreenInv, Shows, Clear
<1> QED  BY <1>1, <1>2, <1>3 DEF Editor!Next

LEMMA EditStart == Editor!Init => EditInv
<1> SUFFICES ASSUME Editor!Init PROVE EditInv
  OBVIOUS
<1>1. width \in Nat
  BY EditorAssumption DEF Editor!Init
<1>2. /\ acc = <<>> /\ line = <<>> /\ pos = 0 /\ shown = 0 /\ hist = <<>> /\ hist_pos = 0
      /\ draft = <<<<>>, <<>>>> /\ bottom = <<<<>>, <<>>>> /\ recalled = FALSE
      /\ row = Editor!Times(width + 3, Mark) /\ col = width + 3 /\ base = width + 3
  BY DEF Editor!Init
<1>3. row \in Line /\ Len(row) = width + 3
  <2>1. Mark \in Glyph /\ width + 3 \in Nat
    BY <1>1 DEF Glyph
  <2> QED  BY <1>2, <2>1, TimesIs
<1>4. TextInv
  BY <1>1, <1>2, NoText DEF TextInv
<1>5. ScreenInv
  BY <1>1, <1>2, <1>3, NoText DEF ScreenInv, Shows, Clear
<1>6. Entries(hist) /\ Len(hist) = 0
  BY <1>2 DEF Entries
<1>7. HistoryInv
  BY <1>2, <1>6, NoText DEF HistoryInv, Editor!RecallIsWhole
<1> QED  BY <1>4, <1>5, <1>7 DEF EditInv

LEMMA EditHolds == ShellSpec => [](part = "editor" => EditInv)
<1>1. ShellInit => (part = "editor" => EditInv)
  BY Starts, EditStart
<1>2. (part = "editor" => EditInv) /\ [ShellNext]_shellVars => (part = "editor" => EditInv)'
  BY EditStep, Moves
<1> QED  BY <1>1, <1>2, PTL DEF ShellSpec

(* Wherever the line was drawn, by whichever key, the row shows it where   *)
(* the shell believes it is, the cursor is at its place, and nothing is    *)
(* left behind the line on a row of one prompt: for lines, prompts and     *)
(* histories of every length.                                              *)
THEOREM RowShowsLine == ShellSpec => []LineOnScreen
<1>1. EditInv => Editor!LineOnScreen
  <2> SUFFICES ASSUME EditInv
               PROVE  SubSeq(row, base + 1, base + Len(line)) = line /\ col = base + pos
    BY DEF Editor!LineOnScreen, Editor!ClearBehind, EditInv, ScreenInv, Clear, Line
  <2>1. /\ row \in Seq(Glyph) /\ line \in Seq(Glyph) /\ base \in Nat /\ Len(line) \in Nat /\ Len(row) \in Nat
        /\ col = base + pos /\ Len(row) >= base + Len(line) /\ \A k \in 1 .. Len(line) : line[k] = row[base + k]
    BY DEF EditInv, TextInv, ScreenInv, Shows, Line
  <2>2. \A i \in base + 1 .. base + Len(line) : row[i] \in Glyph
    BY <2>1
  <2>3. base + 1 \in Int /\ base + Len(line) \in Int
    BY <2>1
  <2> DEFINE s == SubSeq(row, base + 1, base + Len(line))
  <2>4. /\ s \in Seq(Glyph)
        /\ Len(s) = IF base + 1 <= base + Len(line) THEN (base + Len(line)) - (base + 1) + 1 ELSE 0
        /\ \A i \in 1 .. (base + Len(line)) - (base + 1) + 1 : s[i] = row[base + 1 + i - 1]
    BY <2>2, <2>3, SubSeqProperties
  <2> HIDE DEF s
  <2>5. Len(s) = Len(line)
    BY <2>1, <2>4
  <2>6. ASSUME NEW i \in 1 .. Len(s) PROVE s[i] = line[i]
    <3>1. i \in 1 .. (base + Len(line)) - (base + 1) + 1 /\ base + 1 + i - 1 = base + i
      BY <2>1, <2>5
    <3> QED  BY <2>1, <2>4, <2>5, <3>1
  <2>7. s = line
    BY <2>1, <2>4, <2>5, <2>6, SeqEqual
  <2> QED  BY <2>1, <2>7 DEF s
<1>2. (part = "editor" => EditInv) => LineOnScreen
  BY <1>1 DEF LineOnScreen
<1> QED  BY <1>2, EditHolds, PTL

(* The history keys lose nothing: a recalled entry is whole, and back at   *)
(* the bottom are the chunk and the line that were left there.             *)
THEOREM RecallsAreWhole == ShellSpec => []RecallIsWhole
<1>1. (part = "editor" => EditInv) => RecallIsWhole
  BY DEF RecallIsWhole, EditInv, HistoryInv
<1> QED  BY <1>1, EditHolds, PTL

-----------------------------------------------------------------------------
(* Taking an element out of a sequence, and putting one in. *)
LEMMA RemoveAtIs ==
    ASSUME NEW S, NEW s \in Seq(S), NEW p \in 1 .. Len(s)
    PROVE  /\ Table!RemoveAt(s, p) \in Seq(S) /\ Len(Table!RemoveAt(s, p)) = Len(s) - 1
           /\ \A j \in 1 .. Len(s) - 1 : Table!RemoveAt(s, p)[j] = IF j < p THEN s[j] ELSE s[j + 1]
<1> DEFINE a == SubSeq(s, 1, p - 1)
           b == SubSeq(s, p + 1, Len(s))
<1>1. Len(s) \in Nat /\ p \in Nat /\ p >= 1 /\ p <= Len(s) /\ \A i \in 1 .. Len(s) : s[i] \in S
  OBVIOUS
<1>2. a \in Seq(S) /\ Len(a) = p - 1 /\ \A j \in 1 .. p - 1 : a[j] = s[j]
  BY <1>1, SubSeqProperties
<1>3. b \in Seq(S) /\ Len(b) = Len(s) - p /\ \A j \in 1 .. Len(s) - p : b[j] = s[p + 1 + j - 1]
  BY <1>1, SubSeqProperties
<1>4. Table!RemoveAt(s, p) = a \o b
  BY DEF Table!RemoveAt
<1> HIDE DEF a, b
<1>5. /\ a \o b \in Seq(S) /\ Len(a \o b) = Len(a) + Len(b)
      /\ \A j \in 1 .. Len(a) + Len(b) : (a \o b)[j] = IF j <= Len(a) THEN a[j] ELSE b[j - Len(a)]
  BY <1>2, <1>3, ConcatProperties
<1>6. ASSUME NEW j \in 1 .. Len(s) - 1 PROVE (a \o b)[j] = IF j < p THEN s[j] ELSE s[j + 1]
  <2>1. j \in 1 .. Len(a) + Len(b)
    BY <1>1, <1>2, <1>3
  <2>2. CASE j < p
    BY <1>1, <1>2, <1>5, <2>1, <2>2
  <2>3. CASE ~(j < p)
    <3>1. ~(j <= Len(a)) /\ j - Len(a) \in 1 .. Len(s) - p /\ p + 1 + (j - Len(a)) - 1 = j + 1
      BY <1>1, <1>2, <2>3
    <3> QED  BY <1>3, <1>5, <2>1, <2>3, <3>1
  <2> QED  BY <2>2, <2>3
<1> QED  BY <1>1, <1>2, <1>3, <1>4, <1>5, <1>6

PutIn(S, s, p, e, t) ==
    /\ t \in Seq(S) /\ Len(t) = Len(s) + 1
    /\ \A j \in 1 .. Len(s) + 1 : t[j] = IF j < p THEN s[j] ELSE IF j = p THEN e ELSE s[j - 1]
LEMMA InsertAtIs ==
    ASSUME NEW S, NEW s \in Seq(S), NEW p \in 1 .. Len(s) + 1, NEW e \in S
    PROVE  PutIn(S, s, p, e, Table!InsertAt(s, p, e))
<1> DEFINE a == SubSeq(s, 1, p - 1)
           b == SubSeq(s, p, Len(s))
           c == a \o <<e>>
<1>1. Len(s) \in Nat /\ p \in Nat /\ p >= 1 /\ p <= Len(s) + 1 /\ \A i \in 1 .. Len(s) : s[i] \in S
  OBVIOUS
<1>2. a \in Seq(S) /\ Len(a) = p - 1 /\ \A j \in 1 .. p - 1 : a[j] = s[j]
  BY <1>1, SubSeqProperties
<1>3. b \in Seq(S) /\ Len(b) = Len(s) + 1 - p /\ \A j \in 1 .. Len(s) + 1 - p : b[j] = s[p + j - 1]
  BY <1>1, SubSeqProperties
<1>4. Table!InsertAt(s, p, e) = c \o b
  BY DEF Table!InsertAt
<1> HIDE DEF a, b
<1>5. <<e>> \in Seq(S) /\ Len(<<e>>) = 1 /\ <<e>>[1] = e
  OBVIOUS
<1>6. /\ c \in Seq(S) /\ Len(c) = p
      /\ \A j \in 1 .. p : c[j] = IF j <= p - 1 THEN a[j] ELSE e
  <2>1. /\ c \in Seq(S) /\ Len(c) = Len(a) + Len(<<e>>)
        /\ \A j \in 1 .. Len(a) + Len(<<e>>) : c[j] = IF j <= Len(a) THEN a[j] ELSE <<e>>[j - Len(a)]
    BY <1>2, <1>5, ConcatProperties
  <2>2. Len(a) + Len(<<e>>) = p
    BY <1>1, <1>2, <1>5
  <2> HIDE DEF c
  <2>3. ASSUME NEW j \in 1 .. p PROVE c[j] = IF j <= p - 1 THEN a[j] ELSE e
    <3>1. ~(j <= p - 1) => j - Len(a) = 1
      BY <1>1, <1>2
    <3> QED  BY <1>2, <1>5, <2>1, <2>2, <3>1
  <2> QED  BY <2>1, <2>2, <2>3
<1> HIDE DEF c
<1>7. /\ c \o b \in Seq(S) /\ Len(c \o b) = Len(c) + Len(b)
      /\ \A j \in 1 .. Len(c) + Len(b) : (c \o b)[j] = IF j <= Len(c) THEN c[j] ELSE b[j - Len(c)]
  BY <1>3, <1>6, ConcatProperties
<1>8. ASSUME NEW j \in 1 .. Len(s) + 1
      PROVE  (c \o b)[j] = IF j < p THEN s[j] ELSE IF j = p THEN e ELSE s[j - 1]
  <2>1. j \in 1 .. Len(c) + Len(b)
    BY <1>1, <1>3, <1>6
  <2>2. CASE j < p
    BY <1>1, <1>2, <1>6, <1>7, <2>1, <2>2
  <2>3. CASE j = p
    BY <1>1, <1>6, <1>7, <2>1, <2>3
  <2>4. CASE j > p
    <3>1. ~(j <= Len(c)) /\ j - Len(c) \in 1 .. Len(s) + 1 - p /\ p + (j - Len(c)) - 1 = j - 1 /\ ~(j < p) /\ j # p
      BY <1>1, <1>6, <2>4
    <3> QED  BY <1>3, <1>7, <2>1, <3>1
  <2>5. j < p \/ j = p \/ j > p
    BY <1>1
  <2> QED  BY <2>2, <2>3, <2>4, <2>5
<1> QED  BY <1>1, <1>3, <1>4, <1>6, <1>7, <1>8 DEF PutIn

-----------------------------------------------------------------------------
(***************************************************************************)
(* The slots in use hold the map, no key twice.  Of a table that is not    *)
(* `proper' any more nothing is said.                                      *)
(***************************************************************************)
Entry == [key : Table!Key, value : Value]
Keys(s) == {s[i].key : i \in 1 .. Len(s)}
Good(s, m) ==
    /\ s \in Seq(Entry) /\ Len(s) <= TABLE_SLOTS
    /\ \A i, j \in 1 .. Len(s) : s[i].key = s[j].key => i = j
    /\ DOMAIN m = Keys(s)
    /\ \A i \in 1 .. Len(s) : m[s[i].key] = s[i].value
TableInv == proper => Good(slots, map)

(* What is known of a table's slots, in the form it is used in. *)
LEMMA GoodIs ==
    ASSUME NEW s, NEW m, Good(s, m)
    PROVE  /\ s \in Seq(Entry) /\ Len(s) \in Nat /\ TABLE_SLOTS \in Nat /\ Len(s) <= TABLE_SLOTS
           /\ DOMAIN s = 1 .. Len(s)
           /\ \A i \in 1 .. Len(s) :
                /\ s[i] \in Entry /\ s[i].key \in Table!Key /\ s[i].value \in Value
                /\ s[i].key # Nil /\ s[i].value # Nil /\ s[i] = [key |-> s[i].key, value |-> s[i].value]
           /\ \A i, j \in 1 .. Len(s) : s[i].key = s[j].key => i = j
<1>1. s \in Seq(Entry) /\ Len(s) \in Nat /\ TABLE_SLOTS \in Nat /\ Len(s) <= TABLE_SLOTS
  BY TableAssumption DEF Good
<1>2. ASSUME NEW i \in 1 .. Len(s)
      PROVE  /\ s[i] \in Entry /\ s[i].key \in Table!Key /\ s[i].value \in Value
             /\ s[i].key # Nil /\ s[i].value # Nil /\ s[i] = [key |-> s[i].key, value |-> s[i].value]
  <2>1. s[i] \in Entry
    BY <1>1, <1>2
  <2>2. s[i].key \in Table!Key /\ s[i].value \in Value /\ s[i] = [key |-> s[i].key, value |-> s[i].value]
    BY <2>1 DEF Entry
  <2> QED  BY <2>1, <2>2, TableAssumption
<1> QED  BY <1>1, <1>2 DEF Good

(* A key is in one slot or in none. *)
LEMMA FoundIs ==
    ASSUME NEW s, NEW m, Good(s, m)
    PROVE  /\ \A k : Table!At(s, k) = {} <=> k \notin Keys(s)
           /\ \A i \in 1 .. Len(s) : /\ Table!At(s, s[i].key) # {}
                                     /\ Table!FirstOf(Table!At(s, s[i].key)) = i
                                     /\ Table!RawGet(s, s[i].key) = s[i].value
           /\ \A k : k \notin Keys(s) => Table!RawGet(s, k) = Nil
<1>1. DOMAIN s = 1 .. Len(s) /\ \A i, j \in 1 .. Len(s) : s[i].key = s[j].key => i = j
  BY GoodIs
<1>2. \A k : Table!At(s, k) = {} <=> k \notin Keys(s)
  BY <1>1 DEF Table!At, Keys
<1>3. ASSUME NEW i \in 1 .. Len(s)
      PROVE  /\ Table!At(s, s[i].key) # {}
             /\ Table!FirstOf(Table!At(s, s[i].key)) = i
             /\ Table!RawGet(s, s[i].key) = s[i].value
  <2>1. Table!At(s, s[i].key) = {i}
    BY <1>1 DEF Table!At
  <2>2. Table!FirstOf({i}) = i
    BY DEF Table!FirstOf
  <2> QED  BY <2>1, <2>2 DEF Table!RawGet
<1>4. ASSUME NEW k, k \notin Keys(s) PROVE Table!RawGet(s, k) = Nil
  BY <1>2, <1>4 DEF Table!RawGet
<1> QED  BY <1>2, <1>3, <1>4

(* Slots in which one was changed, added or taken out. *)
Changed(s, p, v) == [s EXCEPT ![p].value = v]
LEMMA ChangedIs ==
    ASSUME NEW s, NEW m, Good(s, m), NEW p \in 1 .. Len(s), NEW v \in Value,
           NEW t, t = Changed(s, p, v)
    PROVE  Good(t, Table!Updated(m, s[p].key, v)) /\ Len(t) = Len(s) /\ \A i \in 1 .. Len(s) : t[i].key = s[i].key
<1>1. /\ s \in Seq(Entry) /\ Len(s) \in Nat
      /\ \A i \in 1 .. Len(s) : s[i] \in Entry /\ s[i].key \in Table!Key
  BY GoodIs
<1> DEFINE e == [s[p] EXCEPT !.value = v]
           n == Table!Updated(m, s[p].key, v)
<1>0. DOMAIN n = DOMAIN m /\ n[s[p].key] = v /\ \A k \in DOMAIN m : k # s[p].key => n[k] = m[k]
  <2>1. s[p].key \in DOMAIN m /\ v # Nil
    BY TableAssumption DEF Good, Keys
  <2> QED  BY <2>1 DEF Table!Updated
<1> HIDE DEF n
<1>2. e \in Entry /\ e.key = s[p].key /\ e.value = v
  BY <1>1 DEF Entry
<1>3. t = [s EXCEPT ![p] = e]
  BY DEF Changed
<1> HIDE DEF e
<1>4. t \in Seq(Entry) /\ Len(t) = Len(s) /\ \A i \in 1 .. Len(s) : t[i] = IF i = p THEN e ELSE s[i]
  BY <1>1, <1>2, <1>3, ExceptSeq
<1>5. \A i \in 1 .. Len(s) : t[i].key = s[i].key
  BY <1>2, <1>4
<1>6. Keys(t) = Keys(s)
  BY <1>4, <1>5 DEF Keys
<1>7. ASSUME NEW i \in 1 .. Len(t) PROVE n[t[i].key] = t[i].value
  <2>1. CASE i = p
    BY <1>0, <1>2, <1>4, <2>1
  <2>2. CASE i # p
    <3>1. s[i].key # s[p].key /\ s[i].key \in DOMAIN m /\ m[s[i].key] = s[i].value
      BY <1>4, <2>2 DEF Good, Keys
    <3> QED  BY <1>0, <1>4, <2>2, <3>1
  <2> QED  BY <2>1, <2>2
<1>8. Good(t, n)
  BY <1>0, <1>4, <1>5, <1>6, <1>7 DEF Good
<1> QED  BY <1>4, <1>5, <1>8 DEF n

LEMMA AddedIs ==
    ASSUME NEW s, NEW m, Good(s, m), NEW k \in Table!Key, k \notin Keys(s), NEW v \in Value, Len(s) < TABLE_SLOTS,
           NEW t, t = Append(s, [key |-> k, value |-> v])
    PROVE  Good(t, Table!Updated(m, k, v)) /\ Len(t) = Len(s) + 1 /\ t[Len(s) + 1].key = k
           /\ \A i \in 1 .. Len(s) : t[i].key = s[i].key
<1> DEFINE e == [key |-> k, value |-> v]
           n == Table!Updated(m, k, v)
<1>0. DOMAIN n = DOMAIN m \cup {k} /\ n[k] = v /\ \A j \in DOMAIN m : j # k => n[j] = m[j]
  <2>1. v # Nil
    BY TableAssumption
  <2> QED  BY <2>1 DEF Table!Updated
<1> HIDE DEF n
<1>1. e \in Entry /\ e.key = k /\ e.value = v
  BY DEF Entry
<1>2. s \in Seq(Entry) /\ Len(s) \in Nat /\ TABLE_SLOTS \in Nat
  BY GoodIs
<1> HIDE DEF e
<1>3. t \in Seq(Entry) /\ Len(t) = Len(s) + 1
  BY <1>1, <1>2 DEF e
<1>4. \A i \in 1 .. Len(s) + 1 : t[i] = IF i <= Len(s) THEN s[i] ELSE e
  BY <1>1, <1>2 DEF e
<1>5. t[Len(s) + 1].key = k /\ t[Len(s) + 1].value = v
  BY <1>1, <1>2, <1>4
<1>6. \A i \in 1 .. Len(s) : t[i].key = s[i].key /\ t[i].value = s[i].value
  BY <1>2, <1>4
<1>7. \A i \in 1 .. Len(s) : s[i].key # k /\ s[i].key \in DOMAIN m /\ m[s[i].key] = s[i].value
  BY DEF Good, Keys
<1>8. \A i \in 1 .. Len(s) + 1 : i \in 1 .. Len(s) \/ i = Len(s) + 1
  BY <1>2
<1>9. \A i, j \in 1 .. Len(t) : t[i].key = t[j].key => i = j
  BY <1>3, <1>5, <1>6, <1>7, <1>8 DEF Good
<1>10. \A i \in 1 .. Len(t) : n[t[i].key] = t[i].value
  BY <1>0, <1>3, <1>5, <1>6, <1>7, <1>8
<1>11. Keys(t) = Keys(s) \cup {k}
  <2>1. Keys(t) \subseteq Keys(s) \cup {k}
    BY <1>3, <1>5, <1>6, <1>8 DEF Keys
  <2>2. \A i \in 1 .. Len(s) : i \in 1 .. Len(t) /\ t[i].key = s[i].key
    BY <1>2, <1>3, <1>6
  <2>3. Len(s) + 1 \in 1 .. Len(t)
    BY <1>2, <1>3
  <2> QED  BY <1>5, <2>1, <2>2, <2>3 DEF Keys
<1>12. Len(t) <= TABLE_SLOTS
  BY <1>2, <1>3
<1>13. Good(t, n)
  BY <1>0, <1>3, <1>9, <1>10, <1>11, <1>12 DEF Good
<1> QED  BY <1>3, <1>5, <1>6, <1>13 DEF n

Took(s, t, p) == /\ Len(t) = Len(s) - 1
                 /\ \A i \in 1 .. Len(s) - 1 : t[i].key = IF i < p THEN s[i].key ELSE s[i + 1].key
LEMMA TakenIs ==
    ASSUME NEW s, NEW m, Good(s, m), NEW p \in 1 .. Len(s), NEW t, t = Table!RemoveAt(s, p)
    PROVE  Good(t, Table!Updated(m, s[p].key, Nil)) /\ Took(s, t, p)
<1> DEFINE n == Table!Updated(m, s[p].key, Nil)
<1>0. DOMAIN n = DOMAIN m \ {s[p].key} /\ \A k \in DOMAIN n : n[k] = m[k]
  BY DEF Table!Updated
<1> HIDE DEF n
<1>1. s \in Seq(Entry) /\ Len(s) \in Nat /\ TABLE_SLOTS \in Nat /\ Len(s) <= TABLE_SLOTS
  BY GoodIs
<1>2. t \in Seq(Entry) /\ Len(t) = Len(s) - 1
      /\ \A i \in 1 .. Len(s) - 1 : t[i] = IF i < p THEN s[i] ELSE s[i + 1]
  BY <1>1, RemoveAtIs
<1> DEFINE from(i) == IF i < p THEN i ELSE i + 1
<1>3. /\ \A i \in 1 .. Len(t) : from(i) \in 1 .. Len(s) /\ from(i) # p /\ t[i] = s[from(i)]
      /\ \A i, j \in 1 .. Len(t) : from(i) = from(j) => i = j
      /\ \A j \in 1 .. Len(s) : j # p => \E i \in 1 .. Len(t) : from(i) = j
  <2>1. ASSUME NEW i \in 1 .. Len(t) PROVE from(i) \in 1 .. Len(s) /\ from(i) # p /\ t[i] = s[from(i)]
    <3>1. i \in 1 .. Len(s) - 1 /\ i \in 1 .. Len(s) /\ i + 1 \in 1 .. Len(s)
      BY <1>1, <1>2
    <3>2. CASE i < p
      BY <1>2, <3>1, <3>2
    <3>3. CASE ~(i < p)
      BY <1>2, <3>1, <3>3
    <3> QED  BY <3>2, <3>3
  <2>2. \A i, j \in 1 .. Len(t) : from(i) = from(j) => i = j
    BY <1>1, <1>2
  <2>3. ASSUME NEW j \in 1 .. Len(s), j # p PROVE \E i \in 1 .. Len(t) : from(i) = j
    <3>1. CASE j < p
      <4>1. j \in 1 .. Len(t) /\ from(j) = j
        BY <1>1, <1>2, <3>1
      <4> QED  BY <4>1
    <3>2. CASE ~(j < p)
      <4>1. j - 1 \in 1 .. Len(t) /\ from(j - 1) = j
        BY <1>1, <1>2, <2>3, <3>2
      <4> QED  BY <4>1
    <3> QED  BY <3>1, <3>2
  <2> QED  BY <2>1, <2>2, <2>3
<1> HIDE DEF from
<1>4. ASSUME NEW i \in 1 .. Len(t), NEW j \in 1 .. Len(t), t[i].key = t[j].key PROVE i = j
  <2>1. \A k, l \in 1 .. Len(s) : s[k].key = s[l].key => k = l
    BY DEF Good
  <2>2. s[from(i)].key = s[from(j)].key /\ from(i) \in 1 .. Len(s) /\ from(j) \in 1 .. Len(s)
    BY <1>3, <1>4
  <2>3. from(i) = from(j)
    BY <2>1, <2>2
  <2> QED  BY <1>3, <2>3
<1>5. Keys(t) = Keys(s) \ {s[p].key}
  <2>1. ASSUME NEW i \in 1 .. Len(t) PROVE t[i].key \in Keys(s) \ {s[p].key}
    <3>1. \A k, l \in 1 .. Len(s) : s[k].key = s[l].key => k = l
      BY DEF Good
    <3>2. t[i].key = s[from(i)].key /\ from(i) \in 1 .. Len(s) /\ from(i) # p
      BY <1>3
    <3>3. s[from(i)].key # s[p].key
      BY <3>1, <3>2
    <3> QED  BY <3>2, <3>3 DEF Keys
  <2>2. ASSUME NEW j \in 1 .. Len(s), s[j].key # s[p].key PROVE s[j].key \in Keys(t)
    BY <1>3, <2>2 DEF Keys
  <2> QED  BY <2>1, <2>2, SMTT(30) DEF Keys
<1>6. \A i \in 1 .. Len(t) : n[t[i].key] = t[i].value
  <2> SUFFICES ASSUME NEW i \in 1 .. Len(t) PROVE n[t[i].key] = t[i].value
    OBVIOUS
  <2>1. t[i].key \in DOMAIN n
    BY <1>0, <1>5 DEF Keys, Good
  <2> QED  BY <1>0, <1>3, <2>1 DEF Good
<1>7. \A i \in 1 .. Len(s) - 1 : t[i].key = IF i < p THEN s[i].key ELSE s[i + 1].key
  BY <1>2
<1>8. Len(t) <= TABLE_SLOTS
  BY <1>1, <1>2
<1>9. Good(t, n)
  BY <1>0, <1>2, <1>4, <1>5, <1>6, <1>8 DEF Good
<1> QED  BY <1>2, <1>7, <1>9 DEF n, Took

(* A set of numbers that is not empty has a least one. *)
LEMMA Least ==
    ASSUME NEW S, S \subseteq Nat, S # {}
    PROVE  \E n \in S : \A k \in S : n <= k
<1> DEFINE Less == {p \in Nat \X Nat : p[1] < p[2]}
<1>1. IsWellFoundedOn(Less, Nat)
  BY NatLessThanWellFounded DEF OpToRel
<1>2. PICK n \in S : \A k \in S : ~(<<k, n>> \in Less)
  <2> HIDE DEF Less
  <2> QED  BY <1>1, WFMin
<1>3. ASSUME NEW k \in S PROVE n <= k
  <2>1. <<k, n>> \in Nat \X Nat /\ <<k, n>>[1] = k /\ <<k, n>>[2] = n
    BY <1>2, <1>3
  <2>2. ~(k < n)
    BY <1>2, <2>1
  <2> QED  BY <1>2, <1>3, <2>2
<1> QED  BY <1>2, <1>3

(* Slots that hold the map are read and walked as the map is. *)
LEMMA ReadsTheMap ==
    ASSUME NEW s, NEW m, Good(s, m)
    PROVE  /\ \A k \in Table!Key : Table!RawGet(s, k) = IF k \in DOMAIN m THEN m[k] ELSE Nil
           /\ \A i, j \in DOMAIN s : s[i].key = s[j].key => i = j
           /\ {s[i].key : i \in DOMAIN s} = DOMAIN m
           /\ \A k \in DOMAIN m : k \in {Table!NextKey(s, j) : j \in {Nil} \cup DOMAIN m}
           /\ \A k \in 1 .. Table!RawLen(s) : k \in DOMAIN m
<1>1. /\ s \in Seq(Entry) /\ Len(s) \in Nat /\ TABLE_SLOTS \in Nat /\ DOMAIN s = 1 .. Len(s)
      /\ \A i \in 1 .. Len(s) : s[i].key # Nil /\ s[i].value # Nil
      /\ \A i, j \in 1 .. Len(s) : s[i].key = s[j].key => i = j
  BY GoodIs
<1>2. DOMAIN m = Keys(s) /\ \A i \in 1 .. Len(s) : m[s[i].key] = s[i].value
  BY DEF Good
<1>3. \A k : Table!RawGet(s, k) = IF k \in DOMAIN m THEN m[k] ELSE Nil
  BY <1>2, FoundIs DEF Keys
<1>4. {s[i].key : i \in DOMAIN s} = DOMAIN m
  BY <1>1, <1>2 DEF Keys
<1>5. ASSUME NEW k \in DOMAIN m PROVE \E j \in {Nil} \cup DOMAIN m : k = Table!NextKey(s, j)
  <2>1. PICK i \in 1 .. Len(s) : s[i].key = k
    BY <1>2 DEF Keys
  <2>2. CASE i = 1
    <3>1. Table!NextKey(s, Nil) = s[1].key
      BY <1>1, <2>1, <2>2 DEF Table!NextKey
    <3> QED  BY <2>1, <2>2, <3>1
  <2>3. CASE i # 1
    <3>1. i - 1 \in 1 .. Len(s) /\ (i - 1) + 1 = i /\ ~(i > Len(s))
      BY <1>1, <2>1, <2>3
    <3>2. s[i - 1].key # Nil /\ Table!FirstOf(Table!At(s, s[i - 1].key)) = i - 1 /\ s[i - 1].key \in DOMAIN m
      BY <1>1, <1>2, <3>1, FoundIs DEF Keys
    <3>3. Table!NextKey(s, s[i - 1].key) = s[i].key
      BY <3>1, <3>2 DEF Table!NextKey
    <3> QED  BY <2>1, <3>2, <3>3
  <2> QED  BY <2>2, <2>3
<1>6. ASSUME NEW k \in 1 .. Table!RawLen(s) PROVE k \in DOMAIN m
  <2> DEFINE Border(n) == /\ \A l \in 1 .. n : Table!RawGet(s, l) # Nil
                          /\ n < TABLE_SLOTS => Table!RawGet(s, n + 1) = Nil
             S == {n \in 0 .. TABLE_SLOTS : n < TABLE_SLOTS => Table!RawGet(s, n + 1) = Nil}
  <2>1. S \subseteq Nat /\ TABLE_SLOTS \in S
    BY <1>1
  <2>2. PICK n \in S : \A l \in S : n <= l
    <3> HIDE DEF S
    <3> QED  BY <2>1, Least
  <2>3. ASSUME NEW l \in 1 .. n PROVE Table!RawGet(s, l) # Nil
    <3>1. l - 1 \in 0 .. TABLE_SLOTS /\ l - 1 < TABLE_SLOTS /\ l - 1 < n /\ (l - 1) + 1 = l
      BY <1>1, <2>2, <2>3
    <3>2. l - 1 \notin S
      <4>1. \A j \in S : n <= j
        BY <2>2
      <4>2. n \in Nat
        BY <2>1, <2>2
      <4> HIDE DEF S
      <4> QED  BY <3>1, <4>1, <4>2
    <3> QED  BY <3>1, <3>2
  <2>4. n \in 0 .. TABLE_SLOTS /\ Border(n)
    BY <2>2, <2>3
  <2>5. Table!RawLen(s) = CHOOSE l \in 0 .. TABLE_SLOTS : Border(l)
    BY DEF Table!RawLen
  <2>6. Border(Table!RawLen(s))
    <3> HIDE DEF Border
    <3> QED  BY <2>4, <2>5
  <2>7. Table!RawGet(s, k) # Nil
    BY <2>6
  <2> QED  BY <1>3, <2>7
<1> QED  BY <1>1, <1>3, <1>4, <1>5, <1>6

(* An assignment does to the slots what it does to the map. *)
LEMMA SetIs ==
    ASSUME NEW s, NEW m, Good(s, m), NEW k \in Table!Key, NEW v \in Value \cup {Nil},
           v # Nil /\ k \notin Keys(s) => Len(s) < TABLE_SLOTS
    PROVE  /\ Good(Table!RawSet(s, k, v), Table!Updated(m, k, v))
           /\ v # Nil /\ k \in Keys(s) =>
                /\ Len(Table!RawSet(s, k, v)) = Len(s)
                /\ \A i \in 1 .. Len(s) : Table!RawSet(s, k, v)[i].key = s[i].key
           /\ v = Nil /\ k \notin Keys(s) => Table!RawSet(s, k, v) = s
           /\ v = Nil /\ k \in Keys(s) => \E p \in 1 .. Len(s) : s[p].key = k /\ Took(s, Table!RawSet(s, k, v), p)
<1> SUFFICES
      ASSUME NEW t, t = Table!RawSet(s, k, v), NEW n, n = Table!Updated(m, k, v)
      PROVE  /\ Good(t, n)
             /\ v # Nil /\ k \in Keys(s) => Len(t) = Len(s) /\ \A i \in 1 .. Len(s) : t[i].key = s[i].key
             /\ v = Nil /\ k \notin Keys(s) => t = s
             /\ v = Nil /\ k \in Keys(s) => \E p \in 1 .. Len(s) : s[p].key = k /\ Took(s, t, p)
  OBVIOUS
<1>1. CASE v # Nil /\ k \in Keys(s)
  <2>1. PICK p \in 1 .. Len(s) : s[p].key = k
    BY <1>1 DEF Keys
  <2>2. Table!At(s, k) # {} /\ Table!FirstOf(Table!At(s, k)) = p
    BY <2>1, FoundIs
  <2>3. t = Changed(s, p, v) /\ v \in Value
    BY <1>1, <2>2 DEF Table!RawSet, Changed
  <2>4. /\ Good(t, Table!Updated(m, s[p].key, v)) /\ Len(t) = Len(s)
        /\ \A i \in 1 .. Len(s) : t[i].key = s[i].key
    BY <2>3, ChangedIs
  <2> QED  BY <1>1, <2>1, <2>4
<1>2. CASE v # Nil /\ k \notin Keys(s)
  <2>1. Table!At(s, k) = {}
    BY <1>2, FoundIs
  <2>2. t = Append(s, [key |-> k, value |-> v]) /\ v \in Value /\ Len(s) < TABLE_SLOTS
    BY <1>2, <2>1 DEF Table!RawSet, Table!Slot
  <2>3. Good(t, n)
    BY <1>2, <2>2, AddedIs
  <2> QED  BY <1>2, <2>3
<1>3. CASE v = Nil /\ k \notin Keys(s)
  <2>1. Table!At(s, k) = {}
    BY <1>3, FoundIs
  <2>2. t = s
    BY <1>3, <2>1 DEF Table!RawSet
  <2>3. DOMAIN m = Keys(s)
    BY DEF Good
  <2>4. DOMAIN n = DOMAIN m /\ \A j \in DOMAIN m : n[j] = m[j]
    BY <1>3, <2>3 DEF Table!Updated
  <2>5. Good(s, n)
    BY <2>3, <2>4 DEF Good, Keys
  <2> QED  BY <1>3, <2>2, <2>5
<1>4. CASE v = Nil /\ k \in Keys(s)
  <2>1. PICK p \in 1 .. Len(s) : s[p].key = k
    BY <1>4 DEF Keys
  <2>2. Table!At(s, k) # {} /\ Table!FirstOf(Table!At(s, k)) = p
    BY <2>1, FoundIs
  <2>3. t = Table!RemoveAt(s, p)
    BY <1>4, <2>2 DEF Table!RawSet
  <2>4. Good(t, n) /\ Took(s, t, p)
    BY <1>4, <2>1, <2>3, TakenIs
  <2> QED  BY <1>4, <2>1, <2>4
<1> QED  BY <1>1, <1>2, <1>3, <1>4

-----------------------------------------------------------------------------
(* A list: slot k has key k.  What holds of it, and when a list holds a map. *)
LEMMA ListIs ==
    ASSUME NEW s, NEW m, Good(s, m), Table!IsList(s)
    PROVE  /\ DOMAIN m = 1 .. Len(s)
           /\ \A i \in 1 .. Len(s) : /\ s[i].key = i /\ s[i].value \in Value /\ m[i] = s[i].value
                                     /\ Table!RawGet(s, i) = s[i].value /\ s[i] = [key |-> i, value |-> s[i].value]
<1>1. /\ DOMAIN s = 1 .. Len(s)
      /\ \A i \in 1 .. Len(s) : s[i].value \in Value /\ s[i] = [key |-> s[i].key, value |-> s[i].value]
  BY GoodIs
<1>2. \A i \in 1 .. Len(s) : s[i].key = i
  BY <1>1 DEF Table!IsList
<1>3. DOMAIN m = Keys(s) /\ \A i \in 1 .. Len(s) : m[s[i].key] = s[i].value
  BY DEF Good
<1>4. Keys(s) = 1 .. Len(s)
  BY <1>2 DEF Keys
<1>5. \A i \in 1 .. Len(s) : Table!RawGet(s, s[i].key) = s[i].value
  BY FoundIs
<1> QED  BY <1>1, <1>2, <1>3, <1>4, <1>5

LEMMA IsGood ==
    ASSUME NEW len \in Nat, len <= TABLE_SLOTS,
           NEW t, DOMAIN t = 1 .. len, \E f : t = [i \in 1 .. len |-> f[i]],
           NEW n, DOMAIN n = 1 .. len,
           \A i \in 1 .. len : n[i] \in Value /\ t[i] = [key |-> i, value |-> n[i]]
    PROVE  Good(t, n) /\ Len(t) = len
<1>1. \A i \in 1 .. len : i \in Table!Key
  BY TableAssumption DEF Table!Key, Table!Index
<1>2. ASSUME NEW i \in 1 .. len PROVE t[i] \in Entry /\ t[i].key = i /\ t[i].value = n[i]
  <2>1. n[i] \in Value /\ t[i] = [key |-> i, value |-> n[i]] /\ i \in Table!Key
    BY <1>1, <1>2
  <2>2. [key |-> i, value |-> n[i]] \in Entry
    BY <2>1 DEF Entry
  <2> QED  BY <2>1, <2>2
<1>3. t \in Seq(Entry) /\ Len(t) = len
  BY <1>2
<1>4. Keys(t) = 1 .. len
  BY <1>2, <1>3 DEF Keys
<1> QED  BY <1>2, <1>3, <1>4 DEF Good

LEMMA InsertsIs ==
    ASSUME NEW s, NEW m, Good(s, m), Table!IsList(s), Len(s) < TABLE_SLOTS, NEW p \in 1 .. Len(s) + 1, NEW v \in Value,
           NEW n, n = [k \in DOMAIN m \cup {Len(s) + 1} |->
                        IF k \notin Table!Index \/ k < p THEN m[k]
                        ELSE IF k = p THEN v ELSE Table!RawGet(s, k - 1)]
    PROVE  Good(Table!Inserted(s, p, v), n)
<1> DEFINE wide == Table!InsertAt(s, p, Table!Slot(p, v))
           t == Table!Inserted(s, p, v)
<1>1. /\ s \in Seq(Entry) /\ Len(s) \in Nat /\ TABLE_SLOTS \in Nat /\ DOMAIN m = 1 .. Len(s)
      /\ \A i \in 1 .. Len(s) : /\ s[i].value \in Value /\ m[i] = s[i].value /\ Table!RawGet(s, i) = s[i].value
                                /\ s[i] = [key |-> i, value |-> s[i].value]
  BY GoodIs, ListIs
<1>2. Table!Slot(p, v) \in Entry /\ Table!Slot(p, v) = [key |-> p, value |-> v]
  <2>1. p \in Table!Key
    BY <1>1 DEF Table!Key, Table!Index
  <2> QED  BY <2>1 DEF Table!Slot, Entry
<1>3. /\ wide \in Seq(Entry) /\ Len(wide) = Len(s) + 1
      /\ \A j \in 1 .. Len(s) + 1 :
            wide[j] = IF j < p THEN s[j] ELSE IF j = p THEN Table!Slot(p, v) ELSE s[j - 1]
  <2> DEFINE e == Table!Slot(p, v)
  <2>1. e \in Entry
    BY <1>2
  <2> HIDE DEF e
  <2>2. PutIn(Entry, s, p, e, Table!InsertAt(s, p, e))
    BY <1>1, <2>1, InsertAtIs
  <2> QED  BY <2>2 DEF PutIn, e
<1>4. t = [i \in DOMAIN wide |-> IF i > p THEN Table!Slot(i, wide[i].value) ELSE wide[i]]
  BY DEF Table!Inserted
<1> HIDE DEF wide, t
<1>5. DOMAIN n = 1 .. Len(s) + 1 /\ Len(s) + 1 \in Nat /\ Len(s) + 1 <= TABLE_SLOTS
  BY <1>1
<1>6. ASSUME NEW i \in 1 .. Len(s) + 1 PROVE n[i] \in Value /\ t[i] = [key |-> i, value |-> n[i]]
  <2>1. i \in DOMAIN wide /\ i \in Table!Index /\ i \in DOMAIN m \cup {Len(s) + 1}
    BY <1>1, <1>3 DEF Table!Index
  <2>2. CASE i < p
    <3>1. i \in 1 .. Len(s) /\ ~(i > p)
      BY <1>1, <2>2
    <3>2. n[i] = m[i]
      BY <2>1, <2>2
    <3>3. t[i] = s[i]
      BY <1>3, <1>4, <2>1, <2>2, <3>1
    <3> QED  BY <1>1, <3>1, <3>2, <3>3
  <2>3. CASE i = p
    <3>1. n[i] = v /\ t[i] = Table!Slot(p, v)
      BY <1>3, <1>4, <2>1, <2>3
    <3> QED  BY <1>2, <2>3, <3>1
  <2>4. CASE i > p
    <3>1. i - 1 \in 1 .. Len(s) /\ ~(i < p) /\ i # p
      BY <1>1, <2>4
    <3>2. n[i] = s[i - 1].value
      BY <1>1, <2>1, <3>1
    <3>3. wide[i] = s[i - 1]
      BY <1>3, <3>1
    <3>4. t[i] = [key |-> i, value |-> s[i - 1].value]
      BY <1>4, <2>1, <2>4, <3>3 DEF Table!Slot
    <3> QED  BY <1>1, <3>1, <3>2, <3>4
  <2> QED  BY <1>1, <2>2, <2>3, <2>4
<1>7. DOMAIN t = 1 .. Len(s) + 1 /\ t = [i \in 1 .. Len(s) + 1 |-> t[i]]
  BY <1>1, <1>3, <1>4
<1>8. \E f : t = [i \in 1 .. Len(s) + 1 |-> f[i]]
  BY <1>7
<1>9. Good(t, n)
  BY <1>5, <1>6, <1>7, <1>8, IsGood
<1> QED  BY <1>9 DEF t

LEMMA RemovesIs ==
    ASSUME NEW s, NEW m, Good(s, m), Table!IsList(s), NEW p \in 1 .. Len(s),
           NEW n, n = [k \in DOMAIN m \ {Len(s)} |->
                        IF k \notin Table!Index \/ k < p THEN m[k] ELSE Table!RawGet(s, k + 1)]
    PROVE  Good(Table!Removed(s, p), n)
<1> DEFINE short == Table!RemoveAt(s, p)
           t == Table!Removed(s, p)
<1>1. /\ s \in Seq(Entry) /\ Len(s) \in Nat /\ TABLE_SLOTS \in Nat /\ DOMAIN m = 1 .. Len(s) /\ Len(s) <= TABLE_SLOTS
      /\ \A i \in 1 .. Len(s) : /\ s[i].value \in Value /\ m[i] = s[i].value /\ Table!RawGet(s, i) = s[i].value
                                /\ s[i] = [key |-> i, value |-> s[i].value]
  BY GoodIs, ListIs
<1>2. /\ short \in Seq(Entry) /\ Len(short) = Len(s) - 1
      /\ \A j \in 1 .. Len(s) - 1 : short[j] = IF j < p THEN s[j] ELSE s[j + 1]
  <2> HIDE DEF short
  <2> QED  BY <1>1, RemoveAtIs DEF short
<1>3. t = [i \in DOMAIN short |-> IF i >= p THEN Table!Slot(i, short[i].value) ELSE short[i]]
  BY DEF Table!Removed
<1> HIDE DEF short, t
<1>4. DOMAIN n = 1 .. Len(s) - 1 /\ Len(s) - 1 \in Nat /\ Len(s) - 1 <= TABLE_SLOTS
  BY <1>1
<1>5. ASSUME NEW i \in 1 .. Len(s) - 1 PROVE n[i] \in Value /\ t[i] = [key |-> i, value |-> n[i]]
  <2>1. /\ i \in DOMAIN short /\ i \in Table!Index /\ i \in 1 .. Len(s) /\ i \in DOMAIN m \ {Len(s)}
        /\ i + 1 \in 1 .. Len(s)
    BY <1>1, <1>2 DEF Table!Index
  <2>2. CASE i < p
    <3>1. n[i] = m[i]
      BY <2>1, <2>2
    <3>2. t[i] = s[i]
      BY <1>2, <1>3, <2>1, <2>2
    <3> QED  BY <1>1, <2>1, <3>1, <3>2
  <2>3. CASE i >= p
    <3>1. ~(i < p)
      BY <2>3
    <3>2. n[i] = s[i + 1].value
      BY <1>1, <2>1, <3>1
    <3>3. short[i] = s[i + 1]
      BY <1>2, <3>1
    <3>4. t[i] = [key |-> i, value |-> s[i + 1].value]
      BY <1>3, <2>1, <2>3, <3>3 DEF Table!Slot
    <3> QED  BY <1>1, <2>1, <3>2, <3>4
  <2> QED  BY <1>1, <2>2, <2>3
<1>6. DOMAIN t = 1 .. Len(s) - 1 /\ t = [i \in 1 .. Len(s) - 1 |-> t[i]]
  BY <1>1, <1>2, <1>3
<1>7. \E f : t = [i \in 1 .. Len(s) - 1 |-> f[i]]
  BY <1>6
<1>8. Good(t, n)
  BY <1>4, <1>5, <1>6, <1>7, IsGood
<1> QED  BY <1>8 DEF t

LEMMA PacksIs ==
    ASSUME NEW n \in 0 .. TABLE_SLOTS - 1, NEW vs \in [1 .. n -> Value], NEW field \in Name, NEW w \in Value
    PROVE  Good([i \in 1 .. n + 1 |-> IF i <= n THEN Table!Slot(i, vs[i]) ELSE Table!Slot(field, w)],
                [k \in (1 .. n) \cup {field} |-> IF k = field THEN w ELSE vs[k]])
<1> DEFINE t == [i \in 1 .. n + 1 |-> IF i <= n THEN Table!Slot(i, vs[i]) ELSE Table!Slot(field, w)]
           m == [k \in (1 .. n) \cup {field} |-> IF k = field THEN w ELSE vs[k]]
<1>1. n \in Nat /\ TABLE_SLOTS \in Nat /\ n + 1 <= TABLE_SLOTS
  BY TableAssumption
<1>2. field \notin 1 .. n /\ field \in Table!Key /\ \A i \in 1 .. n : i \in Table!Key
  BY <1>1, TableAssumption DEF Table!Key, Table!Index
<1>3. \A i \in 1 .. n + 1 : i \in 1 .. n \/ (i = n + 1 /\ ~(i <= n))
  BY <1>1
<1>4. ASSUME NEW i \in 1 .. n PROVE t[i] = [key |-> i, value |-> vs[i]] /\ m[i] = vs[i]
  <2>1. i \in 1 .. n + 1 /\ i <= n
    BY <1>1
  <2> QED  BY <1>2, <2>1 DEF Table!Slot
<1>5. t[n + 1] = [key |-> field, value |-> w] /\ m[field] = w
  <2>1. n + 1 \in 1 .. n + 1 /\ ~(n + 1 <= n)
    BY <1>1
  <2> QED  BY <2>1 DEF Table!Slot
<1>6. DOMAIN m = (1 .. n) \cup {field} /\ DOMAIN t = 1 .. n + 1
  OBVIOUS
<1> HIDE DEF t, m
<1>13. ASSUME NEW i \in 1 .. n PROVE i \in 1 .. n + 1 /\ t[i].key = i /\ t[i].value = vs[i] /\ m[i] = vs[i]
  <2>1. t[i] = [key |-> i, value |-> vs[i]] /\ m[i] = vs[i]
    BY <1>4
  <2>2. [key |-> i, value |-> vs[i]].key = i /\ [key |-> i, value |-> vs[i]].value = vs[i]
    OBVIOUS
  <2>3. i \in 1 .. n + 1
    BY <1>1
  <2> QED  BY <2>1, <2>2, <2>3, Zenon
<1>14. n + 1 \in 1 .. n + 1 /\ t[n + 1].key = field /\ t[n + 1].value = w /\ m[field] = w
  BY <1>1, <1>5
<1>7. \A i \in 1 .. n + 1 : t[i] \in Entry
  <2>1. \A i \in 1 .. n : [key |-> i, value |-> vs[i]] \in Entry
    BY <1>2 DEF Entry
  <2>2. [key |-> field, value |-> w] \in Entry
    BY <1>2 DEF Entry
  <2> QED  BY <1>3, <1>4, <1>5, <2>1, <2>2
<1>8. t \in Seq(Entry) /\ Len(t) = n + 1
  BY <1>1, <1>7 DEF t
<1>9. \A i, j \in 1 .. n + 1 : t[i].key = t[j].key => i = j
  BY <1>2, <1>3, <1>13, <1>14
<1>10. Keys(t) = (1 .. n) \cup {field}
  <2>1. \A i \in 1 .. n + 1 : t[i].key \in (1 .. n) \cup {field}
    BY <1>3, <1>13, <1>14
  <2> QED  BY <1>8, <1>13, <1>14, <2>1 DEF Keys
<1>11. \A i \in 1 .. n + 1 : m[t[i].key] = t[i].value
  <2> SUFFICES ASSUME NEW i \in 1 .. n + 1 PROVE m[t[i].key] = t[i].value
    OBVIOUS
  <2>1. CASE i \in 1 .. n
    <3>1. t[i].key = i /\ t[i].value = vs[i] /\ m[i] = vs[i]
      BY <1>13, <2>1
    <3> QED  BY <3>1
  <2>2. CASE i = n + 1
    BY <1>14, <2>2
  <2> QED  BY <1>3, <2>1, <2>2
<1>12. Good(t, m)
  BY <1>1, <1>6, <1>7, <1>8, <1>9, <1>10, <1>11 DEF Good
<1> QED  BY <1>12 DEF t, m

-----------------------------------------------------------------------------
(* Two arrangements of the same numbers, both sorted, are the same: were   *)
(* one lower at i, its first i numbers and the other's from i on would be  *)
(* one more than there are.                                                *)
OneToOne(n, q) == q \in [1 .. n -> 1 .. n] /\ \A j, k \in 1 .. n : q[j] = q[k] => j = k
LEMMA NotLower ==
    ASSUME NEW n \in Nat, NEW w, \A j \in 1 .. n : w[j] \in Int,
           NEW p, OneToOne(n, p), \A j, k \in 1 .. n : j < k => w[p[j]] <= w[p[k]],
           NEW q, OneToOne(n, q), \A j, k \in 1 .. n : j < k => w[q[j]] <= w[q[k]],
           NEW i \in 1 .. n
    PROVE  w[p[i]] <= w[q[i]]
<1> SUFFICES ASSUME ~(w[p[i]] <= w[q[i]]) PROVE FALSE
  OBVIOUS
<1>1. /\ \A j \in 1 .. n : p[j] \in 1 .. n /\ q[j] \in 1 .. n /\ w[p[j]] \in Int /\ w[q[j]] \in Int
      /\ \A j, k \in 1 .. n : (p[j] = p[k] => j = k) /\ (q[j] = q[k] => j = k)
  BY DEF OneToOne
<1> DEFINE h == [j \in 1 .. n + 1 |-> IF j <= i THEN q[j] ELSE p[j - 1]]
<1>2. ASSUME NEW j \in 1 .. n + 1 PROVE h[j] \in 1 .. n
  <2>1. CASE j <= i
    <3>1. j \in 1 .. n
      BY <2>1
    <3> QED  BY <1>1, <2>1, <3>1
  <2>2. CASE ~(j <= i)
    <3>1. j - 1 \in 1 .. n
      BY <2>2
    <3> QED  BY <1>1, <2>2, <3>1
  <2> QED  BY <2>1, <2>2
<1>3. \A j \in 1 .. n : j <= i => w[q[j]] <= w[q[i]]
  BY <1>1
<1>4. \A j \in 1 .. n : j >= i => w[p[j]] >= w[p[i]]
  BY <1>1
<1>5. \A j, k \in 1 .. n : j <= i /\ k >= i => q[j] # p[k]
  BY <1>1, <1>3, <1>4
<1>6. ASSUME NEW j \in 1 .. n + 1, NEW k \in 1 .. n + 1, j < k, h[j] = h[k] PROVE FALSE
  <2>1. CASE j <= i /\ k <= i
    <3>1. j \in 1 .. n /\ k \in 1 .. n /\ j # k /\ h[j] = q[j] /\ h[k] = q[k]
      BY <1>6, <2>1
    <3> QED  BY <1>1, <1>6, <3>1
  <2>2. CASE j <= i /\ ~(k <= i)
    <3>1. j \in 1 .. n /\ k - 1 \in 1 .. n /\ k - 1 >= i /\ h[j] = q[j] /\ h[k] = p[k - 1]
      BY <2>2
    <3> QED  BY <1>5, <1>6, <2>2, <3>1
  <2>3. CASE ~(j <= i) /\ ~(k <= i)
    <3>1. j - 1 \in 1 .. n /\ k - 1 \in 1 .. n /\ j - 1 # k - 1 /\ h[j] = p[j - 1] /\ h[k] = p[k - 1]
      BY <1>6, <2>3
    <3> QED  BY <1>1, <1>6, <3>1
  <2>4. ~(~(j <= i) /\ k <= i)
    BY <1>6
  <2> QED  BY <2>1, <2>2, <2>3, <2>4
<1>7. h \in [1 .. n + 1 -> 1 .. n]
  BY <1>2
<1> HIDE DEF h
<1>8. /\ IsFiniteSet(1 .. n + 1) /\ Cardinality(1 .. n + 1) = n + 1
      /\ IsFiniteSet(1 .. n) /\ Cardinality(1 .. n) = n
  <2>1. n + 1 \in Int /\ 1 \in Int /\ n \in Int
    OBVIOUS
  <2>2. /\ IsFiniteSet(1 .. n + 1) /\ Cardinality(1 .. n + 1) = IF 1 > n + 1 THEN 0 ELSE (n + 1) - 1 + 1
        /\ IsFiniteSet(1 .. n) /\ Cardinality(1 .. n) = IF 1 > n THEN 0 ELSE n - 1 + 1
    BY <2>1, FS_Interval
  <2> QED  BY <2>2
<1>9. PICK j, k \in 1 .. n + 1 : j # k /\ h[j] = h[k]
  <2>1. Cardinality(1 .. n) < Cardinality(1 .. n + 1)
    BY <1>8
  <2> DEFINE S == 1 .. n + 1
             T == 1 .. n
  <2>2. IsFiniteSet(S) /\ IsFiniteSet(T) /\ Cardinality(T) < Cardinality(S) /\ h \in [S -> T]
    BY <1>7, <1>8, <2>1
  <2> HIDE DEF S, T
  <2>3. \E j, k \in S : j # k /\ h[j] = h[k]
    BY <2>2, FS_PigeonHole
  <2> QED  BY <2>3 DEF S
<1>10. j < k \/ k < j
  BY <1>9
<1> QED  BY <1>6, <1>9, <1>10

(* What the insertion sort has put in order of the first n slots. *)
Sorting(s, r, n) ==
    /\ r \in Seq(Entry) /\ Len(r) = n
    /\ \A j, k \in 1 .. n : j < k => r[j].value <= r[k].value
    /\ \E q : OneToOne(n, q) /\ \A j \in 1 .. n : r[j] = s[q[j]]
LEMMA SortsOne ==
    ASSUME NEW s \in Seq(Entry), NEW n \in Nat, n + 1 <= Len(s), NEW r, Sorting(s, r, n),
           NEW b, b = Table!Behind(r, s[n + 1].value)
    PROVE  Sorting(s, Table!InsertAt(r, b + 1, s[n + 1]), n + 1)
<1> DEFINE e == s[n + 1]
           t == Table!InsertAt(r, b + 1, s[n + 1])
<1>1. e \in Entry /\ e.value \in Int
  <2>1. n + 1 \in 1 .. Len(s)
    OBVIOUS
  <2>2. e \in Entry
    BY <2>1
  <2> QED  BY <2>2, TableAssumption DEF Entry
<1>2. /\ r \in Seq(Entry) /\ Len(r) = n /\ \A i \in 1 .. n : r[i] \in Entry /\ r[i].value \in Int
      /\ \A j, k \in 1 .. n : j < k => r[j].value <= r[k].value
  <2>1. r \in Seq(Entry) /\ Len(r) = n /\ \A j, k \in 1 .. n : j < k => r[j].value <= r[k].value
    BY DEF Sorting
  <2>2. ASSUME NEW i \in 1 .. n PROVE r[i] \in Entry /\ r[i].value \in Int
    <3>1. r[i] \in Entry
      BY <2>1
    <3> QED  BY <3>1, TableAssumption DEF Entry
  <2> QED  BY <2>1, <2>2
<1>3. PICK q : OneToOne(n, q) /\ \A j \in 1 .. n : r[j] = s[q[j]]
  BY DEF Sorting
<1>4. /\ b \in 0 .. n
      /\ b > 0 => r[b].value <= e.value
      /\ \A k \in b + 1 .. n : r[k].value > e.value
  <2> DEFINE Fits(j) == /\ j > 0 => r[j].value <= e.value
                        /\ \A k \in j + 1 .. Len(r) : r[k].value > e.value
             S == {j \in 0 .. n : j > 0 => r[j].value <= e.value}
  <2>1. 0 \in S /\ S \subseteq 0 .. n
    OBVIOUS
  <2>2. PICK j \in S : \A k \in S : k <= j
    <3> HIDE DEF S
    <3> QED  BY <2>1, Largest
  <2>3. ASSUME NEW k \in j + 1 .. n PROVE r[k].value > e.value
    <3>1. k \in 1 .. n /\ k > j
      BY <2>1, <2>2
    <3>2. k \notin S
      <4> HIDE DEF S
      <4>1. \A l \in S : l <= j
        BY <2>2
      <4>2. j \in Nat
        BY <2>1
      <4> QED  BY <3>1, <4>1, <4>2
    <3>3. ~(r[k].value <= e.value)
      BY <3>1, <3>2
    <3> QED  BY <1>1, <1>2, <3>1, <3>3
  <2>4. j \in 0 .. Len(r) /\ Fits(j)
    BY <1>2, <2>2, <2>3
  <2>5. b = CHOOSE l \in 0 .. Len(r) : Fits(l)
    BY DEF Table!Behind
  <2>6. b \in 0 .. Len(r) /\ Fits(b)
    <3> HIDE DEF Fits
    <3> QED  BY <2>4, <2>5
  <2> QED  BY <1>2, <2>6
<1>5. /\ t \in Seq(Entry) /\ Len(t) = n + 1
      /\ \A j \in 1 .. n + 1 : t[j] = IF j < b + 1 THEN r[j] ELSE IF j = b + 1 THEN e ELSE r[j - 1]
  <2>1. r \in Seq(Entry) /\ e \in Entry /\ b + 1 \in 1 .. Len(r) + 1
    BY <1>1, <1>2, <1>4
  <2> HIDE DEF e
  <2>2. PutIn(Entry, r, b + 1, e, Table!InsertAt(r, b + 1, e))
    BY <2>1, InsertAtIs
  <2>3. PutIn(Entry, r, b + 1, e, t)
    BY <2>2 DEF e
  <2> HIDE DEF t
  <2> QED  BY <1>2, <2>3 DEF PutIn
<1> HIDE DEF t, e
<1> DEFINE f == [j \in 1 .. n + 1 |-> IF j < b + 1 THEN q[j] ELSE IF j = b + 1 THEN n + 1 ELSE q[j - 1]]
<1>6. ASSUME NEW j \in 1 .. n + 1
      PROVE  /\ j < b + 1 => j \in 1 .. n /\ t[j] = r[j] /\ f[j] = q[j]
             /\ j = b + 1 => t[j] = e /\ f[j] = n + 1
             /\ j > b + 1 => j - 1 \in 1 .. n /\ j - 1 >= b + 1 /\ t[j] = r[j - 1] /\ f[j] = q[j - 1]
  <2>1. CASE j < b + 1
    BY <1>4, <1>5, <2>1
  <2>2. CASE j = b + 1
    BY <1>4, <1>5, <2>2
  <2>3. CASE j > b + 1
    <3>1. ~(j < b + 1) /\ j # b + 1
      BY <1>4, <2>3
    <3>2. j - 1 \in 1 .. n /\ j - 1 >= b + 1
      BY <1>4, <2>3
    <3> QED  BY <1>5, <3>1, <3>2
  <2>4. j < b + 1 \/ j = b + 1 \/ j > b + 1
    BY <1>4
  <2> QED  BY <1>4, <2>1, <2>2, <2>3, <2>4
<1>7. \A j \in 1 .. n : q[j] \in 1 .. n
  BY <1>3 DEF OneToOne
<1>8. DOMAIN f = 1 .. n + 1 /\ f = [j \in 1 .. n + 1 |-> f[j]]
  OBVIOUS
<1> HIDE DEF f
<1>9. b + 1 \in Int /\ \A j \in 1 .. n + 1 : j < b + 1 \/ j = b + 1 \/ j > b + 1
  BY <1>4
<1>10. \A j \in 1 .. n + 1 : f[j] \in 1 .. n + 1 /\ t[j] = s[f[j]]
  <2> SUFFICES ASSUME NEW j \in 1 .. n + 1 PROVE f[j] \in 1 .. n + 1 /\ t[j] = s[f[j]]
    OBVIOUS
  <2>1. CASE j = b + 1
    BY <1>6, <2>1 DEF e
  <2>2. CASE j < b + 1
    BY <1>3, <1>6, <1>7, <2>2
  <2>3. CASE j > b + 1
    BY <1>3, <1>6, <1>7, <2>3
  <2> QED  BY <1>9, <2>1, <2>2, <2>3
<1>11. OneToOne(n + 1, f)
  <2>1. \A j, k \in 1 .. n : q[j] = q[k] => j = k
    BY <1>3 DEF OneToOne
  <2>2. ASSUME NEW j \in 1 .. n + 1, NEW k \in 1 .. n + 1, f[j] = f[k] PROVE j = k
    BY <1>6, <1>7, <1>9, <2>1, <2>2, SMTT(30)
  <2>3. f \in [1 .. n + 1 -> 1 .. n + 1]
    BY <1>8, <1>10
  <2> QED  BY <2>2, <2>3 DEF OneToOne
<1>12. ASSUME NEW j \in 1 .. n + 1, NEW k \in 1 .. n + 1, j < k PROVE t[j].value <= t[k].value
  <2>1. \A l \in 1 .. n : l <= b => r[l].value <= e.value
    <3> SUFFICES ASSUME NEW l \in 1 .. n, l <= b PROVE r[l].value <= e.value
      OBVIOUS
    <3>1. b \in 1 .. n /\ b > 0
      BY <1>4
    <3>2. l = b \/ l < b
      BY <1>4
    <3> QED  BY <1>1, <1>2, <1>4, <3>1, <3>2 DEF e
  <2>2. \A l \in 1 .. n : l >= b + 1 => e.value <= r[l].value
    <3> SUFFICES ASSUME NEW l \in 1 .. n, l >= b + 1 PROVE e.value <= r[l].value
      OBVIOUS
    <3>1. l \in b + 1 .. n
      BY <1>4
    <3> QED  BY <1>1, <1>2, <1>4, <3>1
  <2>3. CASE k < b + 1
    BY <1>2, <1>6, <1>9, <1>12, <2>3
  <2>4. CASE k = b + 1
    <3>1. j < b + 1 /\ j \in 1 .. n /\ j <= b /\ t[j] = r[j] /\ t[k] = e
      BY <1>4, <1>6, <1>12, <2>4
    <3> QED  BY <2>1, <3>1
  <2>5. CASE k > b + 1
    <3>1. k - 1 \in 1 .. n /\ k - 1 >= b + 1 /\ t[k] = r[k - 1]
      BY <1>6, <2>5
    <3>2. CASE j > b + 1
      <4>1. j - 1 \in 1 .. n /\ t[j] = r[j - 1] /\ j - 1 < k - 1
        BY <1>6, <1>12, <3>2
      <4> QED  BY <1>2, <3>1, <4>1
    <3>3. CASE j = b + 1
      <4>1. t[j] = e
        BY <1>6, <3>3
      <4> QED  BY <2>2, <3>1, <4>1
    <3>4. CASE j < b + 1
      <4>1. j \in 1 .. n /\ t[j] = r[j] /\ j < k - 1
        BY <1>6, <1>9, <2>5, <3>4
      <4> QED  BY <1>2, <3>1, <4>1
    <3> QED  BY <1>9, <3>2, <3>3, <3>4
  <2> QED  BY <1>9, <2>3, <2>4, <2>5
<1>13. Sorting(s, t, n + 1)
  BY <1>5, <1>10, <1>11, <1>12 DEF Sorting
<1> QED  BY <1>13 DEF t

SortRow(s, f, n) ==
    IF n = 0 THEN <<>> ELSE Table!InsertAt(f[n - 1], Table!Behind(f[n - 1], s[n].value) + 1, s[n])

(* All the slots, sorted. *)
LEMMA SortedIs ==
    ASSUME slots \in Seq(Entry)
    PROVE  Sorting(slots, Table!SortedOf[Len(slots)], Len(slots))
<1> DEFINE all == Len(slots)
           Fold(f, n) == f = [i \in 0 .. n |-> SortRow(slots, f, i)]
<1>1. all \in Nat
  OBVIOUS
<1>2. \E f : Fold(f, all)
  <2> DEFINE Bad == {n \in 0 .. all : \A f : ~Fold(f, n)}
  <2> SUFFICES ASSUME Bad # {} PROVE FALSE
    BY <1>1
  <2>1. PICK n \in Bad : \A k \in Bad : n <= k
    <3>1. Bad \subseteq Nat
      BY <1>1
    <3> HIDE DEF Bad
    <3> QED  BY <3>1, Least
  <2>2. CASE n = 0
    <3> DEFINE g == [i \in 0 .. 0 |-> <<>>]
    <3>1. Fold(g, 0)
      BY DEF SortRow
    <3> QED  BY <2>2, <3>1
  <2>3. CASE n # 0
    <3>1. n - 1 \in 0 .. all /\ n - 1 \notin Bad /\ n \in Nat
      BY <1>1, <2>1, <2>3
    <3>2. PICK f : Fold(f, n - 1)
      BY <3>1
    <3> DEFINE g == [i \in 0 .. n |-> IF i = n THEN SortRow(slots, f, n) ELSE f[i]]
    <3>3. \A i \in 0 .. n - 1 : g[i] = f[i]
      BY <3>1
    <3>4. \A i \in 0 .. n : SortRow(slots, g, i) = SortRow(slots, f, i)
      BY <3>1, <3>3, SMT DEF SortRow
    <3>5. \A i \in 0 .. n - 1 : f[i] = SortRow(slots, f, i)
      BY <3>2
    <3>6. \A i \in 0 .. n : g[i] = SortRow(slots, g, i)
      BY <3>1, <3>4, <3>5
    <3>7. Fold(g, n)
      BY <3>6
    <3> QED  BY <2>1, <3>7
  <2> QED  BY <2>2, <2>3
<1>3. Table!SortedOf = CHOOSE f : Fold(f, all)
  BY Zenon DEF Table!SortedOf, SortRow
<1>4. Fold(Table!SortedOf, all)
  <2> HIDE DEF Fold
  <2> QED  BY <1>2, <1>3, Zenon
<1> DEFINE sofar(n) == Table!SortedOf[n]
           Wrong == {n \in 0 .. all : ~Sorting(slots, sofar(n), n)}
<1>5. \A n \in 0 .. all : sofar(n) = SortRow(slots, Table!SortedOf, n)
  BY <1>4
<1>6. ASSUME Wrong # {} PROVE FALSE
  <2> USE <1>6
  <2>1. PICK n \in Wrong : \A k \in Wrong : n <= k
    <3>1. Wrong \subseteq Nat
      BY <1>1
    <3> HIDE DEF Wrong
    <3> QED  BY <3>1, Least
  <2>2. n # 0
    <3>1. Sorting(slots, <<>>, 0)
      <4> DEFINE q == [j \in 1 .. 0 |-> 1]
      <4>1. OneToOne(0, q) /\ \A j \in 1 .. 0 : <<>>[j] = slots[q[j]]
        BY DEF OneToOne
      <4> HIDE DEF q
      <4> QED  BY <4>1 DEF Sorting
    <3>2. sofar(0) = <<>>
      <4>1. 0 \in 0 .. all
        BY <1>1
      <4>2. SortRow(slots, Table!SortedOf, 0) = <<>>
        BY DEF SortRow
      <4> QED  BY <1>5, <4>1, <4>2
    <3> QED  BY <2>1, <3>1, <3>2
  <2>3. n - 1 \in Nat /\ (n - 1) + 1 = n /\ n <= all /\ n \in 0 .. all /\ Sorting(slots, sofar(n - 1), n - 1)
    BY <1>1, <2>1, <2>2
  <2>4. sofar(n) = Table!InsertAt(sofar(n - 1), Table!Behind(sofar(n - 1), slots[n].value) + 1, slots[n])
    BY <1>5, <2>2, <2>3 DEF SortRow
  <2> HIDE DEF sofar
  <2> DEFINE b == Table!Behind(sofar(n - 1), slots[(n - 1) + 1].value)
  <2>5. Sorting(slots, Table!InsertAt(sofar(n - 1), b + 1, slots[(n - 1) + 1]), (n - 1) + 1)
    <3> HIDE DEF b
    <3> QED  BY <2>3, SortsOne DEF b
  <2>6. Sorting(slots, sofar(n), n)
    BY <2>3, <2>4, <2>5
  <2> QED  BY <2>1, <2>6
<1> QED  BY <1>1, <1>6

(* table.sort of a list leaves the list of its values in order, whichever  *)
(* way the values of the map were put in order.                            *)
LEMMA SortsIs ==
    ASSUME Good(slots, map), Table!IsList(slots), NEW p \in [DOMAIN map -> DOMAIN map],
           \A j, k \in DOMAIN map : p[j] = p[k] => j = k,
           \A j, k \in DOMAIN map \cap Table!Index : j < k => map[p[j]] <= map[p[k]]
    PROVE  Good(Table!Sorted, [k \in DOMAIN map |-> map[p[k]]])
<1> DEFINE all == Len(slots)
           r == Table!SortedOf[all]
           t == Table!Sorted
           n == [k \in DOMAIN map |-> map[p[k]]]
           w == [j \in 1 .. all |-> slots[j].value]
<1>1. /\ slots \in Seq(Entry) /\ all \in Nat /\ TABLE_SLOTS \in Nat /\ all <= TABLE_SLOTS
      /\ DOMAIN map = 1 .. all /\ \A i \in 1 .. all : slots[i].value \in Value /\ map[i] = slots[i].value
  <2>1. slots \in Seq(Entry) /\ all \in Nat /\ TABLE_SLOTS \in Nat /\ all <= TABLE_SLOTS
    BY GoodIs
  <2>2. DOMAIN map = 1 .. all /\ \A i \in 1 .. all : slots[i].value \in Value /\ map[i] = slots[i].value
    <3> HIDE DEF all
    <3>1. DOMAIN map = 1 .. Len(slots)
      BY ListIs
    <3>2. \A i \in 1 .. Len(slots) :
            /\ slots[i].key = i /\ slots[i].value \in Value /\ map[i] = slots[i].value
            /\ Table!RawGet(slots, i) = slots[i].value /\ slots[i] = [key |-> i, value |-> slots[i].value]
      BY ListIs
    <3> QED  BY <3>1, <3>2 DEF all
  <2> QED  BY <2>1, <2>2
<1>2. /\ r \in Seq(Entry) /\ Len(r) = all
      /\ \A j, k \in 1 .. all : j < k => r[j].value <= r[k].value
  BY <1>1, SortedIs DEF Sorting
<1>3. PICK q : OneToOne(all, q) /\ \A j \in 1 .. all : r[j] = slots[q[j]]
  BY <1>1, SortedIs DEF Sorting
<1>4. t = [i \in 1 .. all |-> [key |-> i, value |-> r[i].value]]
  <2>1. DOMAIN r = 1 .. all
    BY <1>2
  <2> QED  BY <2>1 DEF Table!Sorted, Table!Keyed, Table!Slot
<1> HIDE DEF all, r, t
<1>5. \A j \in 1 .. all : w[j] = slots[j].value /\ w[j] \in Int /\ w[j] \in Value
  BY <1>1, TableAssumption
<1> HIDE DEF w
<1>6. OneToOne(all, p) /\ \A j \in 1 .. all : p[j] \in 1 .. all /\ q[j] \in 1 .. all
  BY <1>1, <1>3 DEF OneToOne
<1>7. \A j, k \in 1 .. all : j < k => w[p[j]] <= w[p[k]]
  <2>1. \A j \in 1 .. all : j \in DOMAIN map \cap Table!Index
    BY <1>1 DEF Table!Index
  <2> QED  BY <1>1, <1>5, <1>6, <2>1
<1>8. \A j \in 1 .. all : r[j].value = w[q[j]]
  BY <1>3, <1>5, <1>6
<1>9. \A j, k \in 1 .. all : j < k => w[q[j]] <= w[q[k]]
  BY <1>2, <1>8
<1>10. ASSUME NEW i \in 1 .. all PROVE w[p[i]] = w[q[i]]
  <2>1. w[p[i]] <= w[q[i]]
    BY <1>1, <1>3, <1>5, <1>6, <1>7, <1>9, NotLower
  <2>2. w[q[i]] <= w[p[i]]
    BY <1>1, <1>3, <1>5, <1>6, <1>7, <1>9, NotLower
  <2> QED  BY <1>5, <1>6, <2>1, <2>2
<1>11. ASSUME NEW i \in 1 .. all PROVE n[i] \in Value /\ t[i] = [key |-> i, value |-> n[i]]
  <2>1. n[i] = w[p[i]]
    BY <1>1, <1>5, <1>6
  <2> HIDE DEF n
  <2>2. n[i] = r[i].value /\ n[i] \in Value
    BY <1>5, <1>6, <1>8, <1>10, <2>1
  <2> QED  BY <1>4, <2>2
<1>12. DOMAIN n = 1 .. all
  BY <1>1
<1>13. DOMAIN t = 1 .. all /\ \E f : t = [i \in 1 .. all |-> f[i]]
  <2>1. DOMAIN t = 1 .. all /\ t = [i \in 1 .. all |-> t[i]]
    BY <1>4
  <2> QED  BY <2>1
<1> HIDE DEF n
<1>14. Good(t, n)
  BY <1>1, <1>11, <1>12, <1>13, IsGood
<1> QED  BY <1>14 DEF t, n

-----------------------------------------------------------------------------
(* table.move half done: the numbers of D hold what was d slots further on, *)
(* the others what they held.                                              *)
Moving(s, t, d, D) ==
    /\ t \in Seq(Entry) /\ 1 .. Len(t) = (1 .. Len(s)) \cup D /\ Len(t) \in Len(s) .. Len(s) + 1
    /\ \A i \in 1 .. Len(t) : t[i] = [key |-> i, value |-> IF i \in D THEN s[i + d].value ELSE s[i].value]
LEMMA MovesOne ==
    ASSUME NEW s, NEW m, Good(s, m), Table!IsList(s), NEW d \in Int, NEW D, NEW t, Moving(s, t, d, D),
           NEW c \in 1 .. Len(s) + 1, c <= TABLE_SLOTS, NEW from \in 1 .. Len(s), from = c + d, from \notin D
    PROVE  Moving(s, Table!MovedOne(t, from, c), d, D \cup {c})
<1> DEFINE v == s[from].value
           u == Table!MovedOne(t, from, c)
<1>1. s \in Seq(Entry) /\ Len(s) \in Nat /\ TABLE_SLOTS \in Nat /\ v \in Value /\ v # Nil
  BY GoodIs
<1>2. /\ t \in Seq(Entry) /\ Len(t) \in Nat /\ 1 .. Len(t) = (1 .. Len(s)) \cup D
      /\ Len(t) = Len(s) \/ Len(t) = Len(s) + 1
  BY <1>1 DEF Moving
<1>3. \A i \in 1 .. Len(t) : t[i] = [key |-> i, value |-> IF i \in D THEN s[i + d].value ELSE s[i].value]
  BY DEF Moving
<1>4. from <= Len(t) /\ from \in 1 .. Len(t) /\ t[from].value = v
  <2>1. from <= Len(t) /\ from \in 1 .. Len(t)
    BY <1>1, <1>2
  <2>2. t[from] = [key |-> from, value |-> v]
    BY <1>3, <2>1
  <2>3. [key |-> from, value |-> v].value = v
    OBVIOUS
  <2> QED  BY <2>1, <2>2, <2>3, Zenon
<1>5. CASE c <= Len(t)
  <2> DEFINE e == [t[c] EXCEPT !.value = v]
  <2>1. c \in 1 .. Len(t)
    BY <1>1, <1>2, <1>5
  <2>2. t[c] \in Entry /\ t[c].key = c
    <3>1. t[c] \in Entry
      BY <1>2, <2>1
    <3>2. t[c] = [key |-> c, value |-> IF c \in D THEN s[c + d].value ELSE s[c].value]
      BY <1>3, <2>1
    <3> HIDE DEF e, u, v
    <3> QED  BY <3>1, <3>2
  <2>3. e \in Entry /\ e = [key |-> c, value |-> v]
    BY <1>1, <2>2 DEF Entry
  <2>4. u = [t EXCEPT ![c] = e]
    <3>1. u = [t EXCEPT ![c].value = t[from].value]
      BY <1>4, <1>5 DEF Table!MovedOne
    <3> QED  BY <1>4, <3>1
  <2> HIDE DEF e, u, v
  <2>5. u \in Seq(Entry) /\ Len(u) = Len(t) /\ \A i \in 1 .. Len(t) : u[i] = IF i = c THEN e ELSE t[i]
    BY <1>2, <2>1, <2>3, <2>4, ExceptSeq
  <2>6. ASSUME NEW i \in 1 .. Len(t)
        PROVE  u[i] = [key |-> i, value |-> IF i \in D \cup {c} THEN s[i + d].value ELSE s[i].value]
    <3>1. CASE i = c
      BY <2>3, <2>5, <3>1 DEF v
    <3>2. CASE i # c
      BY <1>3, <2>5, <3>2
    <3> QED  BY <3>1, <3>2
  <2>7. 1 .. Len(u) = (1 .. Len(s)) \cup (D \cup {c})
    BY <1>2, <2>1, <2>5
  <2>8. Len(u) \in Len(s) .. Len(s) + 1
    BY <1>1, <1>2, <2>5
  <2>9. Moving(s, u, d, D \cup {c})
    BY <2>5, <2>6, <2>7, <2>8 DEF Moving
  <2> QED  BY <2>9 DEF u
<1>6. CASE ~(c <= Len(t))
  <2>1. Len(t) = Len(s) /\ c = Len(s) + 1 /\ ~(c > TABLE_SLOTS) /\ c \in Nat
    BY <1>1, <1>2, <1>6
  <2>2. u = [i \in 1 .. c |-> IF i <= Len(t) THEN t[i] ELSE IF i < c THEN Table!Slot(Nil, Nil) ELSE Table!Slot(c, v)]
    BY <1>4, <1>6, <2>1 DEF Table!MovedOne
  <2> HIDE DEF u, v
  <2>3. \A i \in 1 .. c : (i \in 1 .. Len(t) /\ i <= Len(t) /\ i # c) \/ (i = c /\ ~(i <= Len(t)) /\ ~(i < c))
    BY <1>1, <2>1
  <2>4. ASSUME NEW i \in 1 .. c
        PROVE  /\ u[i] = [key |-> i, value |-> IF i \in D \cup {c} THEN s[i + d].value ELSE s[i].value]
               /\ u[i] \in Entry
    <3>1. CASE i \in 1 .. Len(t) /\ i <= Len(t) /\ i # c
      <4>1. u[i] = t[i]
        BY <2>2, <3>1
      <4> QED  BY <1>2, <1>3, <3>1, <4>1
    <3>2. CASE i = c /\ ~(i <= Len(t)) /\ ~(i < c)
      <4>1. u[i] = [key |-> c, value |-> v]
        BY <2>2, <3>2 DEF Table!Slot
      <4>2. c \in Table!Key
        BY <1>1, <2>1 DEF Table!Key, Table!Index
      <4>3. [key |-> c, value |-> v] \in Entry
        BY <1>1, <4>2 DEF Entry
      <4> QED  BY <3>2, <4>1, <4>3 DEF v
    <3> QED  BY <2>3, <3>1, <3>2
  <2>5. u \in Seq(Entry) /\ Len(u) = c
    <3>1. u = [i \in 1 .. c |-> u[i]]
      BY <2>2
    <3>2. u \in [1 .. c -> Entry]
      BY <2>4, <3>1
    <3> QED  BY <2>1, <3>2
  <2>6. 1 .. Len(u) = (1 .. Len(s)) \cup (D \cup {c})
    <3>1. 1 .. c = (1 .. Len(t)) \cup {c}
      BY <1>1, <2>1
    <3> QED  BY <1>2, <2>5, <3>1
  <2>7. Len(u) \in Len(s) .. Len(s) + 1
    BY <1>1, <2>1, <2>5
  <2>8. Moving(s, u, d, D \cup {c})
    BY <2>4, <2>5, <2>6, <2>7 DEF Moving
  <2> QED  BY <2>8 DEF u
<1> QED  BY <1>5, <1>6

Offset(f, to, all, k) == IF to > f THEN all - k ELSE k - 1
MoveRow(s, f, to, all, g, k) ==
    IF k = 0 THEN s ELSE Table!MovedOne(g[k - 1], f + Offset(f, to, all, k), to + Offset(f, to, all, k))
MovedNow(f, to, all, k) == IF to > f THEN to + all - k .. to + all - 1 ELSE to .. to + k - 1

(* table.move within a list, or to its end, does to the list what it does  *)
(* to the map, the parts overlapping or not.                               *)
LEMMA MovesIs ==
    ASSUME NEW s, NEW m, Good(s, m), Table!IsList(s),
           NEW f \in Table!Index, NEW e \in Table!Index, NEW to \in Table!Index,
           f <= e, e <= Len(s), to <= Len(s) + 1, to + e - f <= TABLE_SLOTS,
           to + e - f > Len(s) + 1 => to <= f \/ f = e,
           NEW n, n = [k \in DOMAIN m \cup (to .. to + e - f) |->
                        IF k \in to .. to + e - f THEN Table!RawGet(s, f + k - to) ELSE m[k]]
    PROVE  Good(Table!Moved(s, f, e, to), n)
<1> DEFINE all == e - f + 1
           d == f - to
           Fold(g, k) == g = [i \in 0 .. k |-> MoveRow(s, f, to, all, g, i)]
           M == CHOOSE g : Fold(g, all)
           t == Table!Moved(s, f, e, to)
<1>1. /\ s \in Seq(Entry) /\ Len(s) \in Nat /\ TABLE_SLOTS \in Nat /\ DOMAIN m = 1 .. Len(s) /\ Len(s) <= TABLE_SLOTS
      /\ \A i \in 1 .. Len(s) : /\ s[i].value \in Value /\ m[i] = s[i].value /\ Table!RawGet(s, i) = s[i].value
                                /\ s[i] = [key |-> i, value |-> s[i].value]
  BY GoodIs, ListIs
<1>2. /\ f \in Nat /\ e \in Nat /\ to \in Nat /\ f >= 1 /\ to >= 1 /\ all \in Nat /\ all >= 1 /\ d \in Int
      /\ to + all - 1 = to + e - f /\ f + all - 1 = e
  <2>1. f \in Nat /\ e \in Nat /\ to \in Nat /\ f >= 1 /\ to >= 1 /\ f <= e
    BY <1>1 DEF Table!Index
  <2> QED  BY <2>1
<1>3. to + all - 1 <= Len(s) + 1 /\ to + all - 1 <= TABLE_SLOTS /\ f + all - 1 <= Len(s)
  BY <1>1, <1>2
<1>4. t = M[all]
  BY Zenon DEF Table!Moved, MoveRow, Offset
<1> HIDE DEF t, all
<1>5. \E g : Fold(g, all)
  <2> DEFINE Bad == {k \in 0 .. all : \A g : ~Fold(g, k)}
  <2> SUFFICES ASSUME Bad # {} PROVE FALSE
    BY <1>2, SMTT(30)
  <2>1. PICK k \in Bad : \A l \in Bad : k <= l
    <3>1. Bad \subseteq Nat
      BY <1>2
    <3> HIDE DEF Bad
    <3> QED  BY <3>1, Least
  <2>2. CASE k = 0
    <3> DEFINE g == [i \in 0 .. 0 |-> s]
    <3>1. Fold(g, 0)
      BY DEF MoveRow
    <3> QED  BY <2>2, <3>1
  <2>3. CASE k # 0
    <3>1. k - 1 \in 0 .. all /\ k - 1 \notin Bad /\ k \in Nat
      BY <1>2, <2>1, <2>3
    <3>2. PICK h : Fold(h, k - 1)
      BY <3>1
    <3> DEFINE g == [i \in 0 .. k |-> IF i = k THEN MoveRow(s, f, to, all, h, k) ELSE h[i]]
    <3>3. \A i \in 0 .. k - 1 : g[i] = h[i]
      BY <3>1
    <3>4. \A i \in 0 .. k : MoveRow(s, f, to, all, g, i) = MoveRow(s, f, to, all, h, i)
      BY <3>1, <3>3, SMT DEF MoveRow
    <3>5. \A i \in 0 .. k - 1 : h[i] = MoveRow(s, f, to, all, h, i)
      BY <3>2
    <3>6. \A i \in 0 .. k : g[i] = MoveRow(s, f, to, all, g, i)
      BY <3>1, <3>4, <3>5
    <3>7. Fold(g, k)
      BY <3>6
    <3> QED  BY <2>1, <3>7
  <2> QED  BY <2>2, <2>3
<1>6. Fold(M, all)
  <2> HIDE DEF Fold
  <2> QED  BY <1>5, Zenon
<1> DEFINE sofar(k) == M[k]
           D(k) == MovedNow(f, to, all, k)
           Wrong == {k \in 0 .. all : ~Moving(s, sofar(k), d, D(k))}
<1>7. \A k \in 0 .. all : sofar(k) = MoveRow(s, f, to, all, M, k)
  BY <1>6
<1> HIDE DEF M
<1>8. ASSUME Wrong # {} PROVE FALSE
  <2> USE <1>8
  <2>1. PICK k \in Wrong : \A l \in Wrong : k <= l
    <3>1. Wrong \subseteq Nat
      BY <1>2
    <3> HIDE DEF Wrong
    <3> QED  BY <3>1, Least
  <2>2. k # 0
    <3>1. D(0) = {}
      BY <1>2 DEF MovedNow
    <3>2. sofar(0) = s
      <4>1. 0 \in 0 .. all
        BY <1>2
      <4> QED  BY <1>7, <4>1 DEF MoveRow
    <3>3. Moving(s, s, d, {})
      BY <1>1 DEF Moving
    <3> QED  BY <2>1, <3>1, <3>2, <3>3
  <2> DEFINE o == Offset(f, to, all, k)
  <2>3. k \in 1 .. all /\ k - 1 \in 0 .. all /\ Moving(s, sofar(k - 1), d, D(k - 1))
    BY <1>2, <2>1, <2>2
  <2>4. sofar(k) = Table!MovedOne(sofar(k - 1), f + o, to + o)
    BY <1>7, <2>2, <2>3 DEF MoveRow
  <2>5. o \in 0 .. all - 1 /\ (to > f => o = all - k) /\ (~(to > f) => o = k - 1)
    BY <1>2, <2>3 DEF Offset
  <2> HIDE DEF o, sofar
  <2>6. f + o \in 1 .. Len(s) /\ to + o \in 1 .. Len(s) + 1 /\ to + o <= TABLE_SLOTS /\ f + o = (to + o) + d
    BY <1>1, <1>2, <1>3, <2>5
  <2>7. f + o \notin D(k - 1)
    BY <1>2, <2>3, <2>5, SMTT(30) DEF MovedNow
  <2>8. D(k) = D(k - 1) \cup {to + o}
    <3>1. CASE to > f
      <4>1. D(k) = to + all - k .. to + all - 1 /\ D(k - 1) = to + all - (k - 1) .. to + all - 1
        BY <3>1 DEF MovedNow
      <4> HIDE DEF D
      <4>2. to + all - k .. to + all - 1 = (to + all - (k - 1) .. to + all - 1) \cup {to + o}
        BY <1>2, <2>3, <2>5, <3>1, SMTT(30)
      <4> QED  BY <4>1, <4>2
    <3>2. CASE ~(to > f)
      <4>1. D(k) = to .. to + k - 1 /\ D(k - 1) = to .. to + (k - 1) - 1
        BY <3>2 DEF MovedNow
      <4> HIDE DEF D
      <4>2. to .. to + k - 1 = (to .. to + (k - 1) - 1) \cup {to + o}
        <5>1. o = k - 1 /\ k \in Nat /\ k >= 1
          BY <1>2, <2>3, <2>5, <3>2
        <5> DEFINE a == to + (k - 1) - 1
                   b == to + k - 1
        <5>2. a \in Int /\ b \in Int /\ b = a + 1 /\ to <= b /\ to + o = b
          BY <1>2, <5>1
        <5> HIDE DEF a, b
        <5>3. to .. b = (to .. a) \cup {b}
          BY <1>2, <5>2
        <5> QED  BY <5>2, <5>3 DEF a, b
      <4> QED  BY <4>1, <4>2
    <3> QED  BY <3>1, <3>2
  <2> HIDE DEF D, d
  <2>9. Moving(s, Table!MovedOne(sofar(k - 1), f + o, to + o), d, D(k - 1) \cup {to + o})
    BY <1>2, <2>3, <2>6, <2>7, MovesOne
  <2>10. Moving(s, sofar(k), d, D(k))
    BY <2>4, <2>8, <2>9
  <2> QED  BY <2>1, <2>10
<1>9. Moving(s, t, d, to .. to + e - f)
  <2>1. all \in 0 .. all /\ D(all) = to .. to + e - f
    BY <1>2 DEF MovedNow
  <2>2. Moving(s, sofar(all), d, D(all))
    BY <1>8, <2>1
  <2> QED  BY <1>4, <2>1, <2>2
<1>10. /\ t \in Seq(Entry) /\ 1 .. Len(t) = (1 .. Len(s)) \cup (to .. to + e - f) /\ Len(t) \in Len(s) .. Len(s) + 1
       /\ \A i \in 1 .. Len(t) :
            t[i] = [key |-> i, value |-> IF i \in to .. to + e - f THEN s[i + d].value ELSE s[i].value]
  BY <1>9 DEF Moving
<1>11. DOMAIN n = 1 .. Len(t)
  BY <1>1, <1>10
<1>12. Len(t) \in Nat /\ Len(t) <= TABLE_SLOTS
  <2>1. Len(t) \in Nat
    BY <1>1, <1>10
  <2>2. CASE Len(t) = 0
    BY <1>1, <2>2
  <2>3. CASE Len(t) # 0
    <3>1. Len(t) \in (1 .. Len(s)) \cup (to .. to + e - f)
      BY <1>10, <2>1, <2>3
    <3> QED  BY <1>1, <1>2, <3>1
  <2> QED  BY <2>1, <2>2, <2>3
<1>13. ASSUME NEW i \in 1 .. Len(t) PROVE n[i] \in Value /\ t[i] = [key |-> i, value |-> n[i]]
  <2>1. CASE i \in to .. to + e - f
    <3>1. f + i - to = i + d /\ i + d \in 1 .. Len(s)
      BY <1>1, <1>2, <2>1, SMTT(30)
    <3>2. n[i] = s[i + d].value
      BY <1>1, <2>1, <3>1
    <3> QED  BY <1>1, <1>10, <2>1, <3>1, <3>2
  <2>2. CASE i \notin to .. to + e - f
    <3>1. i \in 1 .. Len(s)
      BY <1>10, <2>2
    <3>2. n[i] = s[i].value
      BY <1>1, <2>2, <3>1
    <3> QED  BY <1>1, <1>10, <2>2, <3>1, <3>2
  <2> QED  BY <2>1, <2>2
<1>14. DOMAIN t = 1 .. Len(t) /\ \E g : t = [i \in 1 .. Len(t) |-> g[i]]
  <2>1. DOMAIN t = 1 .. Len(t) /\ t = [i \in 1 .. Len(t) |-> t[i]]
    BY <1>10
  <2> QED  BY <2>1
<1>15. Good(t, n)
  BY <1>11, <1>12, <1>13, <1>14, IsGood
<1> QED  BY <1>15 DEF t

-----------------------------------------------------------------------------
(* What each operation does to the slots and the map. *)
LEMMA SetKeeps == ASSUME TableInv, Table!Set PROVE TableInv'
<1>1. proper /\ Good(slots, map) /\ proper' = proper
  BY DEF TableInv, Table!Set, Table!Acts
<1>2. PICK k \in Table!Key, v \in Value \cup {Nil} :
        /\ v # Nil /\ Table!At(slots, k) = {} => Len(slots) < TABLE_SLOTS
        /\ slots' = Table!RawSet(slots, k, v) /\ map' = Table!Updated(map, k, v)
  BY DEF Table!Set
<1>3. Table!At(slots, k) = {} <=> k \notin Keys(slots)
  BY <1>1, FoundIs
<1>4. Good(Table!RawSet(slots, k, v), Table!Updated(map, k, v))
  BY <1>1, <1>2, <1>3, SetIs
<1> QED  BY <1>2, <1>4 DEF TableInv

LEMMA InsertKeeps == ASSUME TableInv, Table!TableInsert PROVE TableInv'
<1> SUFFICES ASSUME proper' PROVE Good(slots', map')
  BY DEF TableInv
<1>1. proper /\ Good(slots, map) /\ Table!IsList(slots) /\ Len(slots) < TABLE_SLOTS
  BY DEF TableInv, Table!TableInsert, Table!Outside
<1>2. PICK p \in 1 .. Len(slots) + 1, v \in Value :
        /\ slots' = Table!Inserted(slots, p, v)
        /\ map' = [k \in DOMAIN map \cup {Len(slots) + 1} |->
                    IF k \notin Table!Index \/ k < p THEN map[k]
                    ELSE IF k = p THEN v ELSE Table!RawGet(slots, k - 1)]
  BY DEF Table!TableInsert
<1> DEFINE n == [k \in DOMAIN map \cup {Len(slots) + 1} |->
                    IF k \notin Table!Index \/ k < p THEN map[k]
                    ELSE IF k = p THEN v ELSE Table!RawGet(slots, k - 1)]
<1>3. Good(Table!Inserted(slots, p, v), n)
  BY <1>1, InsertsIs
<1> QED  BY <1>2, <1>3

LEMMA RemoveKeeps == ASSUME TableInv, Table!TableRemove PROVE TableInv'
<1> SUFFICES ASSUME proper' PROVE Good(slots', map')
  BY DEF TableInv
<1>1. proper /\ Good(slots, map) /\ Table!IsList(slots)
  BY DEF TableInv, Table!TableRemove, Table!Outside
<1>2. DOMAIN slots = 1 .. Len(slots)
  BY <1>1, GoodIs
<1>3. PICK p \in 1 .. Len(slots) :
        /\ slots' = Table!Removed(slots, p)
        /\ map' = [k \in DOMAIN map \ {Len(slots)} |->
                    IF k \notin Table!Index \/ k < p THEN map[k] ELSE Table!RawGet(slots, k + 1)]
  BY <1>2 DEF Table!TableRemove
<1> DEFINE n == [k \in DOMAIN map \ {Len(slots)} |->
                    IF k \notin Table!Index \/ k < p THEN map[k] ELSE Table!RawGet(slots, k + 1)]
<1>4. Good(Table!Removed(slots, p), n)
  BY <1>1, RemovesIs
<1> QED  BY <1>3, <1>4

LEMMA SortKeeps == ASSUME TableInv, Table!TableSort PROVE TableInv'
<1> SUFFICES ASSUME proper' PROVE Good(slots', map')
  BY DEF TableInv
<1>1. proper /\ Good(slots, map) /\ Table!IsList(slots) /\ slots' = Table!Sorted
  BY DEF TableInv, Table!TableSort, Table!Outside
<1>2. PICK p \in [DOMAIN map -> DOMAIN map] :
        /\ \A j, k \in DOMAIN map : p[j] = p[k] => j = k
        /\ \A j, k \in DOMAIN map \cap Table!Index : j < k => map[p[j]] <= map[p[k]]
        /\ map' = [k \in DOMAIN map |-> map[p[k]]]
  BY DEF Table!TableSort
<1>3. Good(Table!Sorted, [k \in DOMAIN map |-> map[p[k]]])
  BY <1>1, <1>2, SortsIs
<1> QED  BY <1>1, <1>2, <1>3

LEMMA MoveKeeps == ASSUME TableInv, Table!TableMove PROVE TableInv'
<1> SUFFICES ASSUME proper' PROVE Good(slots', map')
  BY DEF TableInv
<1>1. proper /\ Good(slots, map)
  BY DEF TableInv, Table!TableMove, Table!Outside
<1>2. PICK f \in Table!Index, e \in Table!Index, to \in Table!Index :
        /\ f <= e
        /\ slots' = Table!Moved(slots, f, e, to)
        /\ Table!IsList(slots) /\ e <= Len(slots) /\ to <= Len(slots) + 1 /\ to + e - f <= TABLE_SLOTS
        /\ to + e - f > Len(slots) + 1 => to <= f \/ f = e
        /\ map' = [k \in (DOMAIN map \cup (to .. to + e - f)) |->
                    IF k \in to .. to + e - f THEN Table!RawGet(slots, f + k - to) ELSE map[k]]
  BY DEF Table!TableMove
<1> DEFINE n == [k \in (DOMAIN map \cup (to .. to + e - f)) |->
                    IF k \in to .. to + e - f THEN Table!RawGet(slots, f + k - to) ELSE map[k]]
<1>3. Good(Table!Moved(slots, f, e, to), n)
  BY <1>1, <1>2, MovesIs
<1> QED  BY <1>2, <1>3

LEMMA PackKeeps == ASSUME TableInv, Table!TablePack PROVE TableInv'
<1> DEFINE w == CHOOSE v \in Value : TRUE
<1>1. w \in Value
  BY TableAssumption
<1>2. PICK n \in 0 .. TABLE_SLOTS - 1 : \E vs \in [1 .. n -> Value], field \in Name :
        /\ slots' = [i \in 1 .. n + 1 |-> IF i <= n THEN Table!Slot(i, vs[i]) ELSE Table!Slot(field, w)]
        /\ map' = [k \in (1 .. n) \cup {field} |-> IF k = field THEN w ELSE vs[k]]
  BY DEF Table!TablePack
<1> HIDE DEF w
<1>3. PICK vs \in [1 .. n -> Value], field \in Name :
        /\ slots' = [i \in 1 .. n + 1 |-> IF i <= n THEN Table!Slot(i, vs[i]) ELSE Table!Slot(field, w)]
        /\ map' = [k \in (1 .. n) \cup {field} |-> IF k = field THEN w ELSE vs[k]]
  BY <1>2
<1> DEFINE t == [i \in 1 .. n + 1 |-> IF i <= n THEN Table!Slot(i, vs[i]) ELSE Table!Slot(field, w)]
           m == [k \in (1 .. n) \cup {field} |-> IF k = field THEN w ELSE vs[k]]
<1>4. Good(t, m)
  BY <1>1, PacksIs
<1> HIDE DEF t, m
<1>5. slots' = t /\ map' = m
  BY <1>3 DEF t, m
<1> QED  BY <1>4, <1>5 DEF TableInv

LEMMA LoopRests ==
    ASSUME TableInv, Table!ForInPrep \/ Table!ForInNext \/ Table!ForInAdvance \/ Table!Leave \/ UNCHANGED Table!vars
    PROVE  TableInv'
<1>1. UNCHANGED <<slots, map, proper>>
  BY DEF Table!ForInPrep, Table!ForInNext, Table!ForInAdvance, Table!Leave, Table!vars
<1> QED  BY <1>1 DEF TableInv

LEMMA TableStep == TableInv /\ [Table!Next]_(Table!vars) => TableInv'
BY SetKeeps, InsertKeeps, RemoveKeeps, SortKeeps, MoveKeeps, PackKeeps, LoopRests DEF Table!Next

LEMMA TableStart == Table!Init => TableInv
<1> SUFFICES ASSUME Table!Init PROVE Good(slots, map)
  BY DEF TableInv
<1>1. slots = <<>> /\ map = Table!Empty
  BY DEF Table!Init
<1>2. Good(<<>>, Table!Empty)
  BY TableAssumption DEF Good, Keys, Table!Empty
<1> QED  BY <1>1, <1>2

-----------------------------------------------------------------------------
(***************************************************************************)
(* The loop.  The slots up to one are those that were met, and no later    *)
(* one was: up to where the loop is; in the body also, as long as the      *)
(* current entry is in its slot, the next one being taken afterwards, and  *)
(* else up to the slot before, the next entry having moved into this one.  *)
(***************************************************************************)
Met == {met[i] : i \in 1 .. Len(met)}
Split(s, M, n) ==
    /\ n \in Nat /\ n <= Len(s)
    /\ \A i \in 1 .. n : s[i].key \in M
    /\ \A i \in n + 1 .. Len(s) : s[i].key \notin M
LoopType ==
    /\ loop = [phase |-> loop.phase, i |-> loop.i, key |-> loop.key]
    /\ loop.i \in Nat /\ loop.phase \in {"idle", "next", "body", "done"}
Here == loop.i + 1 <= Len(slots) /\ slots[loop.i + 1].key = loop.key /\ Split(slots, Met, loop.i + 1)
Moved == gone = 1 /\ Split(slots, Met, loop.i)
LoopInv ==
    proper /\ ~added /\ gone # -1 =>
        /\ met \in Seq(Table!Key) /\ \A i, j \in 1 .. Len(met) : met[i] = met[j] => i = j
        /\ loop.phase = "next" => gone = 0 /\ Split(slots, Met, loop.i)
        /\ loop.phase = "body" => gone \in {0, 1} /\ loop.key \in Met /\ (Here \/ Moved)
        /\ loop.phase = "done" => \A i \in 1 .. Len(slots) : slots[i].key \in Met
LoopAll == TableInv /\ LoopType /\ LoopInv

LEMMA NoneMet == ASSUME met' = <<>> PROVE met' \in Seq(Table!Key) /\ Len(met') = 0 /\ Met' = {}
BY DEF Met

(* The body's assignments. *)
LEMMA BodySets == ASSUME LoopAll, Table!Set PROVE LoopInv'
<1> SUFFICES ASSUME proper', ~added', gone' # -1 PROVE LoopInv'
  BY DEF LoopInv
<1>1. proper /\ Good(slots, map) /\ UNCHANGED <<loop, met>> /\ Met' = Met
  BY DEF LoopAll, TableInv, Table!Set, Table!Acts, Met
<1>2. PICK k \in Table!Key, v \in Value \cup {Nil} :
        /\ v # Nil /\ Table!At(slots, k) = {} => Len(slots) < TABLE_SLOTS
        /\ slots' = Table!RawSet(slots, k, v)
        /\ added' = (added \/ (Table!InLoop /\ v # Nil /\ Table!At(slots, k) = {}))
        /\ gone' = IF ~Table!InLoop \/ v # Nil \/ Table!At(slots, k) = {} THEN gone
                   ELSE IF gone = 0 THEN 1 ELSE -1
  BY DEF Table!Set
<1>3. Table!At(slots, k) = {} <=> k \notin Keys(slots)
  BY <1>1, FoundIs
<1> DEFINE t == Table!RawSet(slots, k, v)
<1>4. /\ v # Nil /\ k \in Keys(slots) => Len(t) = Len(slots) /\ \A i \in 1 .. Len(slots) : t[i].key = slots[i].key
      /\ v = Nil /\ k \notin Keys(slots) => t = slots
      /\ v = Nil /\ k \in Keys(slots) => \E p \in 1 .. Len(slots) : slots[p].key = k /\ Took(slots, t, p)
  BY <1>1, <1>2, <1>3, SetIs
<1> HIDE DEF t
<1>5. slots' = t /\ Len(slots) \in Nat
  BY <1>1, <1>2, GoodIs DEF t
<1>6. ~added /\ gone # -1
  <2>1. ~added
    BY <1>2, Zenon
  <2>2. gone # -1
    BY <1>2
  <2> QED  BY <2>1, <2>2
<1>7. /\ met \in Seq(Table!Key) /\ \A i, j \in 1 .. Len(met) : met[i] = met[j] => i = j
      /\ loop.phase = "body" => gone \in {0, 1} /\ loop.key \in Met /\ (Here \/ Moved)
      /\ loop.i \in Nat
  BY <1>1, <1>6 DEF LoopAll, LoopInv, LoopType
<1>8. loop.phase \in {"idle", "body"}
  BY DEF Table!Set, Table!Acts
<1>9. CASE loop.phase = "idle"
  BY <1>1, <1>7, <1>9 DEF LoopInv
<1>10. ASSUME loop.phase = "body" PROVE gone' \in {0, 1} /\ (Here \/ Moved)'
  <2>1. Table!InLoop
    BY <1>10 DEF Table!InLoop
  <2>2. CASE (v # Nil /\ k \in Keys(slots)) \/ (v = Nil /\ k \notin Keys(slots))
    <3>1. gone' = gone
      BY <1>2, <1>3, <2>2
    <3>2. Len(slots') = Len(slots) /\ \A i \in 1 .. Len(slots) : slots'[i].key = slots[i].key
      BY <1>4, <1>5, <2>2
    <3>3. \A n : Split(slots, Met, n) => Split(slots', Met', n)
      BY <1>1, <1>5, <3>2 DEF Split
    <3>4. Here => Here'
      <4>1. loop.i + 1 <= Len(slots) => loop.i + 1 \in 1 .. Len(slots)
        BY <1>5, <1>7
      <4> QED  BY <1>1, <3>2, <3>3, <4>1 DEF Here
    <3>5. Moved => Moved'
      BY <1>1, <3>1, <3>3 DEF Moved
    <3> QED  BY <1>7, <1>10, <3>1, <3>4, <3>5
  <2>3. v # Nil => k \in Keys(slots)
    BY <1>2, <1>3, <2>1
  <2>4. CASE v = Nil /\ k \in Keys(slots)
    <3>1. gone = 0 /\ gone' = 1
      BY <1>2, <1>3, <2>1, <2>4
    <3>2. Here
      BY <1>7, <1>10, <3>1 DEF Moved
    <3>3. PICK p \in 1 .. Len(slots) : Took(slots, t, p)
      BY <1>4, <2>4
    <3> DEFINE i == loop.i
    <3>4. /\ i \in Nat /\ i + 1 <= Len(slots) /\ slots[i + 1].key = loop.key
          /\ \A j \in 1 .. i + 1 : slots[j].key \in Met
          /\ \A j \in i + 1 + 1 .. Len(slots) : slots[j].key \notin Met
      BY <1>7, <3>2 DEF Here, Split
    <3>5. /\ Len(t) = Len(slots) - 1
          /\ \A j \in 1 .. Len(t) : t[j].key = IF j < p THEN slots[j].key ELSE slots[j + 1].key
      BY <3>3 DEF Took
    <3>6. loop'.i = i /\ loop'.key = loop.key
      BY <1>1
    <3> HIDE DEF i
    <3>7. CASE p > i + 1
      <4>1. i + 1 <= Len(t) /\ t[i + 1].key = loop.key
        BY <1>5, <3>4, <3>5, <3>7
      <4>2. ASSUME NEW j \in 1 .. i + 1 PROVE t[j].key \in Met
        BY <1>5, <3>4, <3>5, <3>7, <4>1
      <4>3. ASSUME NEW j \in i + 1 + 1 .. Len(t) PROVE t[j].key \notin Met
        <5>1. j \in 1 .. Len(t) /\ j \in i + 1 + 1 .. Len(slots) /\ j + 1 \in i + 1 + 1 .. Len(slots)
          BY <1>5, <3>4, <3>5
        <5>2. t[j].key = slots[j].key \/ t[j].key = slots[j + 1].key
          BY <3>5, <5>1
        <5> QED  BY <3>4, <5>1, <5>2
      <4>4. Split(t, Met, i + 1)
        BY <3>4, <4>1, <4>2, <4>3 DEF Split
      <4>5. Here'
        BY <1>1, <1>5, <3>6, <4>1, <4>4 DEF Here
      <4> QED  BY <3>1, <4>5
    <3>8. CASE ~(p > i + 1)
      <4>1. i <= Len(t)
        BY <1>5, <3>4, <3>5
      <4>2. ASSUME NEW j \in 1 .. i PROVE t[j].key \in Met
        <5>1. j \in 1 .. Len(t) /\ j \in 1 .. i + 1 /\ j + 1 \in 1 .. i + 1
          BY <1>5, <3>4, <4>1, <3>5
        <5>2. t[j].key = slots[j].key \/ t[j].key = slots[j + 1].key
          BY <3>5, <5>1
        <5> QED  BY <3>4, <5>1, <5>2
      <4>3. ASSUME NEW j \in i + 1 .. Len(t) PROVE t[j].key \notin Met
        <5>1. j \in 1 .. Len(t) /\ ~(j < p) /\ j + 1 \in i + 1 + 1 .. Len(slots)
          BY <1>5, <3>4, <3>5, <3>8
        <5> QED  BY <3>4, <3>5, <5>1
      <4>4. Split(t, Met, i)
        BY <3>4, <4>1, <4>2, <4>3 DEF Split
      <4>5. Moved'
        BY <1>1, <1>5, <3>1, <3>6, <4>4 DEF Moved
      <4> QED  BY <3>1, <4>5
    <3> QED  BY <3>7, <3>8
  <2> QED  BY <2>2, <2>3, <2>4
<1>11. CASE loop.phase = "body"
  BY <1>1, <1>7, <1>10, <1>11 DEF LoopInv
<1> QED  BY <1>8, <1>9, <1>11

(* The loop's own steps. *)
LEMMA LoopNext == ASSUME LoopAll, Table!ForInNext PROVE LoopInv' /\ LoopType'
<1>1. /\ loop = [phase |-> loop.phase, i |-> loop.i, key |-> loop.key] /\ loop.i \in Nat /\ loop.phase = "next"
      /\ UNCHANGED <<slots, map, proper, gone, added>>
  BY DEF LoopAll, LoopType, Table!ForInNext
<1>2. CASE loop.i >= Len(slots)
  <2>1. loop' = [loop EXCEPT !.phase = "done"] /\ UNCHANGED met
    BY <1>2 DEF Table!ForInNext
  <2>2. loop' = [phase |-> "done", i |-> loop.i, key |-> loop.key]
    BY <1>1, <2>1
  <2>3. LoopType'
    BY <1>1, <2>2 DEF LoopType
  <2> SUFFICES ASSUME proper, ~added, gone # -1 PROVE LoopInv'
    BY <1>1, <2>3 DEF LoopInv
  <2>4. /\ met \in Seq(Table!Key) /\ \A i, j \in 1 .. Len(met) : met[i] = met[j] => i = j
        /\ Split(slots, Met, loop.i) /\ Good(slots, map)
    BY <1>1 DEF LoopAll, LoopInv, TableInv
  <2>5. Len(slots) \in Nat
    BY <2>4, GoodIs
  <2>6. \A i \in 1 .. Len(slots) : slots[i].key \in Met
    <3>1. \A i \in 1 .. Len(slots) : i \in 1 .. loop.i
      BY <1>1, <1>2, <2>5
    <3> QED  BY <2>4, <3>1 DEF Split
  <2>7. Met' = Met
    BY <2>1 DEF Met
  <2> QED  BY <1>1, <2>1, <2>2, <2>4, <2>6, <2>7 DEF LoopInv
<1>3. CASE ~(loop.i >= Len(slots))
  <2> DEFINE n == loop.i + 1
             k == slots[n].key
  <2>1. /\ loop' = [loop EXCEPT !.phase = "body", !.key = k]
        /\ met' = IF added \/ gone = -1 THEN <<>> ELSE Append(met, k)
    BY <1>3 DEF Table!ForInNext
  <2>2. loop' = [phase |-> "body", i |-> loop.i, key |-> k]
    BY <1>1, <2>1
  <2>3. LoopType'
    BY <1>1, <2>2 DEF LoopType
  <2> SUFFICES ASSUME proper, ~added, gone # -1 PROVE LoopInv'
    BY <1>1, <2>3 DEF LoopInv
  <2>4. /\ met \in Seq(Table!Key) /\ \A i, j \in 1 .. Len(met) : met[i] = met[j] => i = j
        /\ Split(slots, Met, loop.i) /\ Good(slots, map) /\ gone = 0
    BY <1>1 DEF LoopAll, LoopInv, TableInv
  <2>5. Len(slots) \in Nat /\ n \in 1 .. Len(slots)
    <3>1. Len(slots) \in Nat
      BY <2>4, GoodIs
    <3> QED  BY <1>1, <1>3, <3>1
  <2>6. k \in Table!Key
    BY <2>4, <2>5, GoodIs
  <2>7. k \notin Met
    <3>1. n \in loop.i + 1 .. Len(slots)
      BY <1>1, <2>5
    <3> QED  BY <2>4, <3>1 DEF Split
  <2>8. met' = Append(met, k) /\ loop'.key = k /\ loop'.i = loop.i /\ loop'.phase = "body"
    BY <2>1, <2>2
  <2> HIDE DEF k, n
  <2>9. /\ met' \in Seq(Table!Key) /\ Len(met') = Len(met) + 1 /\ Len(met) \in Nat
        /\ met'[Len(met) + 1] = k /\ \A i \in 1 .. Len(met) : met'[i] = met[i]
    BY <2>4, <2>6, <2>8
  <2>10. \A i \in 1 .. Len(met) : met[i] # k
    BY <2>7 DEF Met
  <2>11. \A i \in 1 .. Len(met) + 1 : i \in 1 .. Len(met) \/ i = Len(met) + 1
    BY <2>9
  <2>12. \A i, j \in 1 .. Len(met') : met'[i] = met'[j] => i = j
    BY <2>4, <2>9, <2>10, <2>11
  <2>13. Met' = Met \cup {k}
    <3>1. Met' = {met'[i] : i \in 1 .. Len(met')}
      BY DEF Met
    <3>2. \A i \in 1 .. Len(met') : met'[i] \in Met \cup {k}
      BY <2>9, <2>11 DEF Met
    <3>3. \A i \in 1 .. Len(met) : i \in 1 .. Len(met') /\ met'[i] = met[i]
      BY <2>9
    <3>4. Len(met) + 1 \in 1 .. Len(met')
      BY <2>9
    <3> QED  BY <2>9, <3>1, <3>2, <3>3, <3>4 DEF Met
  <2>14. Split(slots, Met \cup {k}, n)
    <3>1. /\ loop.i \in Nat /\ \A i \in 1 .. loop.i : slots[i].key \in Met
          /\ \A i \in loop.i + 1 .. Len(slots) : slots[i].key \notin Met
      BY <2>4 DEF Split
    <3>2. n = loop.i + 1 /\ slots[n].key = k
      BY DEF n, k
    <3>3. \A i, j \in 1 .. Len(slots) : slots[i].key = slots[j].key => i = j
      BY <2>4 DEF Good
    <3>4. ASSUME NEW i \in 1 .. n PROVE slots[i].key \in Met \cup {k}
      <4>1. i \in 1 .. loop.i \/ i = n
        BY <3>1, <3>2
      <4> QED  BY <3>1, <3>2, <4>1
    <3>5. ASSUME NEW i \in n + 1 .. Len(slots) PROVE slots[i].key \notin Met \cup {k}
      <4>1. i \in loop.i + 1 .. Len(slots) /\ i \in 1 .. Len(slots) /\ i # n
        BY <2>5, <3>1, <3>2
      <4> QED  BY <2>5, <3>1, <3>2, <3>3, <4>1
    <3> QED  BY <2>5, <3>4, <3>5 DEF Split
  <2>15. Here'
    <3>1. n = loop.i + 1 /\ slots[n].key = k /\ n <= Len(slots)
      BY <2>5 DEF n, k
    <3> QED  BY <1>1, <2>8, <2>13, <2>14, <3>1 DEF Here
  <2> QED  BY <1>1, <2>4, <2>8, <2>9, <2>12, <2>13, <2>15 DEF LoopInv
<1> QED  BY <1>2, <1>3

LEMMA LoopAdvance == ASSUME LoopAll, Table!ForInAdvance PROVE LoopInv' /\ LoopType'
<1> DEFINE n == Table!Advanced
<1>1. /\ loop = [phase |-> loop.phase, i |-> loop.i, key |-> loop.key] /\ loop.i \in Nat /\ loop.phase = "body"
      /\ loop' = [loop EXCEPT !.phase = "next", !.i = n]
      /\ gone' = (IF gone = 1 THEN 0 ELSE gone)
      /\ UNCHANGED <<slots, map, proper, met, added>>
  BY DEF LoopAll, LoopType, Table!ForInAdvance
<1>2. n = IF loop.i >= Len(slots) \/ slots[loop.i + 1].key # loop.key THEN loop.i ELSE loop.i + 1
  BY DEF Table!Advanced
<1> HIDE DEF n
<1>3. loop' = [phase |-> "next", i |-> n, key |-> loop.key] /\ n \in Nat
  <2>1. loop' = [loop EXCEPT !.phase = "next", !.i = n] /\ loop = [phase |-> loop.phase, i |-> loop.i, key |-> loop.key]
    BY <1>1
  <2>2. loop' = [phase |-> "next", i |-> n, key |-> loop.key]
    BY <2>1
  <2>3. n = loop.i \/ n = loop.i + 1
    BY <1>2
  <2>4. loop.i \in Nat
    BY <1>1
  <2> QED  BY <2>2, <2>3, <2>4
<1>4. LoopType'
  BY <1>3 DEF LoopType
<1> SUFFICES ASSUME proper, ~added, gone' # -1 PROVE LoopInv'
  BY <1>1, <1>4 DEF LoopInv
<1>5. gone # -1
  BY <1>1
<1>6. /\ met \in Seq(Table!Key) /\ \A i, j \in 1 .. Len(met) : met[i] = met[j] => i = j
      /\ gone \in {0, 1} /\ loop.key \in Met /\ (Here \/ Moved) /\ Good(slots, map)
  BY <1>1, <1>5 DEF LoopAll, LoopInv, TableInv
<1>7. gone' = 0 /\ Met' = Met
  BY <1>1, <1>6 DEF Met
<1>8. Len(slots) \in Nat
  BY <1>6, GoodIs
<1>9. CASE Here
  <2>1. n = loop.i + 1
    BY <1>1, <1>2, <1>8, <1>9 DEF Here
  <2> QED  BY <1>1, <1>3, <1>6, <1>7, <1>9, <2>1 DEF LoopInv, Here
<1>10. CASE Moved
  <2>1. Split(slots, Met, loop.i)
    BY <1>10 DEF Moved
  <2>2. ~(loop.i >= Len(slots)) => slots[loop.i + 1].key # loop.key
    <3>1. ~(loop.i >= Len(slots)) => loop.i + 1 \in loop.i + 1 .. Len(slots)
      BY <1>1, <1>8
    <3> QED  BY <1>6, <2>1, <3>1 DEF Split
  <2>3. n = loop.i
    BY <1>2, <2>2
  <2> QED  BY <1>1, <1>3, <1>6, <1>7, <2>1, <2>3 DEF LoopInv
<1> QED  BY <1>6, <1>9, <1>10

LEMMA LoopPrep == ASSUME LoopAll, Table!ForInPrep PROVE LoopInv' /\ LoopType'
<1>1. /\ loop' = [phase |-> "next", i |-> 0, key |-> Nil] /\ met' = <<>> /\ gone' = 0
      /\ UNCHANGED <<slots, map, proper>> /\ proper
  BY DEF Table!ForInPrep, Table!Outside
<1>2. LoopType'
  BY <1>1 DEF LoopType
<1>3. Good(slots, map)
  BY <1>1 DEF LoopAll, TableInv
<1>4. Len(slots) \in Nat
  BY <1>3, GoodIs
<1>5. met' \in Seq(Table!Key) /\ Len(met') = 0 /\ Met' = {}
  BY <1>1, NoneMet
<1>6. Split(slots, {}, 0)
  BY <1>4 DEF Split
<1>7. loop'.phase = "next" /\ loop'.i = 0
  BY <1>1
<1>8. Split(slots', Met', loop'.i)
  BY <1>1, <1>5, <1>6, <1>7
<1> QED  BY <1>1, <1>2, <1>5, <1>7, <1>8 DEF LoopInv

(* Outside the loop nothing was met yet that matters. *)
LEMMA LoopLeft ==
    ASSUME LoopAll, Table!Leave
    PROVE  LoopInv' /\ LoopType'
<1>1. loop' = [phase |-> "idle", i |-> 0, key |-> Nil] /\ met' = <<>>
  BY DEF Table!Leave, Table!Idle
<1>2. LoopType'
  BY <1>1 DEF LoopType
<1>3. met' \in Seq(Table!Key) /\ Len(met') = 0
  BY <1>1, NoneMet
<1>4. loop'.phase = "idle"
  BY <1>1
<1> QED  BY <1>2, <1>3, <1>4 DEF LoopInv

LEMMA LoopOutside ==
    ASSUME LoopAll, Table!Outside, UNCHANGED <<loop, met, gone, added>>
    PROVE  LoopInv' /\ LoopType'
<1>1. loop.phase = "idle" /\ loop' = loop /\ met' = met /\ proper
  BY DEF Table!Outside
<1>2. LoopType'
  BY <1>1 DEF LoopAll, LoopType
<1> SUFFICES ASSUME ~added, gone # -1 PROVE LoopInv'
  BY <1>2 DEF LoopInv
<1>3. met \in Seq(Table!Key) /\ \A i, j \in 1 .. Len(met) : met[i] = met[j] => i = j
  BY <1>1 DEF LoopAll, LoopInv
<1> QED  BY <1>1, <1>3 DEF LoopInv

LEMMA LoopStep == LoopAll /\ [Table!Next]_(Table!vars) => LoopAll'
<1> SUFFICES ASSUME LoopAll, [Table!Next]_(Table!vars) PROVE LoopAll'
  OBVIOUS
<1>1. TableInv'
  BY TableStep DEF LoopAll
<1>2. CASE Table!Set
  <2>1. UNCHANGED loop
    BY <1>2 DEF Table!Set
  <2>2. LoopType'
    BY <2>1 DEF LoopAll, LoopType
  <2> QED  BY <1>1, <1>2, <2>2, BodySets DEF LoopAll
<1>3. CASE Table!TableInsert \/ Table!TableRemove \/ Table!TableSort \/ Table!TableMove \/ Table!TablePack
  <2>1. Table!Outside /\ UNCHANGED <<loop, met, gone, added>>
    BY <1>3 DEF Table!TableInsert, Table!TableRemove, Table!TableSort, Table!TableMove, Table!TablePack
  <2> QED  BY <1>1, <2>1, LoopOutside DEF LoopAll
<1>4. CASE Table!ForInPrep
  BY <1>1, <1>4, LoopPrep DEF LoopAll
<1>5. CASE Table!ForInNext
  BY <1>1, <1>5, LoopNext DEF LoopAll
<1>6. CASE Table!ForInAdvance
  BY <1>1, <1>6, LoopAdvance DEF LoopAll
<1>7. CASE Table!Leave
  BY <1>1, <1>7, LoopLeft DEF LoopAll
<1>8. CASE UNCHANGED Table!vars
  BY <1>1, <1>8 DEF LoopAll, LoopInv, LoopType, Here, Moved, Met, Table!vars
<1> QED  BY <1>2, <1>3, <1>4, <1>5, <1>6, <1>7, <1>8 DEF Table!Next

LEMMA LoopStart == Table!Init => LoopAll
<1> SUFFICES ASSUME Table!Init PROVE LoopInv /\ LoopType
  BY TableStart DEF LoopAll
<1>1. loop = [phase |-> "idle", i |-> 0, key |-> Nil] /\ met = <<>> /\ loop.phase = "idle"
  BY DEF Table!Init, Table!Idle
<1> QED  BY <1>1 DEF LoopInv, LoopType

LEMMA LoopHolds == ShellSpec => [](part = "table" => LoopAll)
<1>1. ShellInit => (part = "table" => LoopAll)
  BY Starts, LoopStart
<1>2. (part = "table" => LoopAll) /\ [ShellNext]_shellVars => (part = "table" => LoopAll)'
  BY LoopStep, Moves
<1> QED  BY <1>1, <1>2, PTL DEF ShellSpec

(* The slots are the map after any assignments, removals and list          *)
(* functions on lists, sorted and moved ones included (eval.rs raw_get,    *)
(* raw_set, next, rawlen and the table library): every key reads as it     *)
(* should, none is in two slots, next reaches each: for every table and    *)
(* every TABLE_SLOTS.                                                      *)
THEOREM TableIsItsMap == ShellSpec => []SlotsAreTheMap
<1>1. ASSUME TableInv PROVE Table!SlotsAreTheMap
  BY <1>1, ReadsTheMap DEF TableInv, Table!SlotsAreTheMap
<1>2. (part = "table" => LoopAll) => SlotsAreTheMap
  BY <1>1 DEF SlotsAreTheMap, LoopAll
<1> QED  BY <1>2, LoopHolds, PTL

(* A for-in loop whose body adds no key and removes at most one entry a    *)
(* round meets every entry that is left exactly once, wherever the removed *)
(* ones were (vm.rs ForInAdvance): for every table and every body.         *)
THEOREM LoopMeetsEach == ShellSpec => []MeetsEachOnce
<1>1. ASSUME LoopAll PROVE Table!MeetsEachOnce
  <2> SUFFICES ASSUME proper, ~added, gone # -1
               PROVE  /\ \A i, j \in DOMAIN met : met[i] = met[j] => i = j
                      /\ loop.phase = "done" => DOMAIN map \subseteq {met[i] : i \in DOMAIN met}
    BY DEF Table!MeetsEachOnce
  <2>1. /\ met \in Seq(Table!Key) /\ \A i, j \in 1 .. Len(met) : met[i] = met[j] => i = j
        /\ loop.phase = "done" => \A i \in 1 .. Len(slots) : slots[i].key \in Met
        /\ DOMAIN map = Keys(slots)
    BY <1>1 DEF LoopAll, LoopInv, TableInv, Good
  <2>2. DOMAIN met = 1 .. Len(met)
    BY <2>1
  <2> QED  BY <2>1, <2>2 DEF Met, Keys
<1>2. (part = "table" => LoopAll) => MeetsEachOnce
  BY <1>1 DEF MeetsEachOnce
<1> QED  BY <1>2, LoopHolds, PTL
=============================================================================
