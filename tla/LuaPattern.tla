------------------------------ MODULE LuaPattern ------------------------------
(***************************************************************************)
(* String patterns (lua/src/eval.rs): the matcher of string.find, the one  *)
(* with captures behind string.gmatch, string.match and string.gsub, the   *)
(* gmatch iterator and gsub's loop.                                        *)
(*                                                                         *)
(* A pattern is [anchored, els]: an element is an item with the set of     *)
(* characters it matches and its quantifier, a group of items, or the end  *)
(* anchor, behind which the matchers do not look.  Offsets count from 0; a *)
(* failed match is NoMatch.                                                *)
(***************************************************************************)
EXTENDS Integers, Sequences

CONSTANTS
    Char, Subjects, Patterns,   \* the inputs
    Inits,                      \* where gmatch is told to begin: from 1 on, or from the end
    GM_CAPS                     \* captures that are kept

VARIABLES subject, pattern,
    pos, done,      \* the iterator
    last            \* its last match: [mstart, mend, caps], or NoMatch

vars == <<subject, pattern, pos, done, last>>

NoMatch == -1
None == [mstart |-> NoMatch, mend |-> NoMatch, caps |-> <<>>]

\* What a pattern is made of; what is in a group has no groups.
Element(kinds, inners) == [k : kinds, set : SUBSET Char, q : {"", "*", "+", "-", "?"}, inner : inners]
Plain == Element({"item", "end"}, {<<>>})
EndsLast(els) == \A k \in DOMAIN els : els[k].k = "end" => k = Len(els)
IsPattern(p) ==
    /\ p \in [anchored : BOOLEAN, els : Seq(Element({"item", "group", "end"}, Seq(Plain)))]
    /\ EndsLast(p.els) /\ \A k \in DOMAIN p.els : EndsLast(p.els[k].inner)

-----------------------------------------------------------------------------
(* string.find *)
\* match_item: one character of the set.
MatchItem(s, si, item) == si < Len(s) /\ s[si + 1] \in item.set

\* How many characters in a row the item matches.
Run(s, si, item) == CHOOSE n \in 0 .. Len(s) :
    /\ \A k \in 0 .. n - 1 : MatchItem(s, si + k, item)
    /\ ~MatchItem(s, si + n, item)

\* Mutant: a greedy item takes all it can get and gives nothing back.
Counts_Possessive(s, si, item) ==
    LET run == Run(s, si, item) IN
    CASE item.q = "?" -> IF run > 0 THEN <<1, 0>> ELSE <<0>>
      [] item.q = "*" -> <<run>>
      [] item.q = "+" -> IF run > 0 THEN <<run>> ELSE <<>>
      [] item.q = "-" -> [k \in 1 .. run + 1 |-> k - 1]
      [] OTHER -> IF run > 0 THEN <<1>> ELSE <<>>

\* The numbers of repetitions that are tried, in their order.
Counts(s, si, item) ==
    LET run == Run(s, si, item) IN
    CASE item.q = "?" -> IF run > 0 THEN <<1, 0>> ELSE <<0>>
      [] item.q = "*" -> [k \in 1 .. run + 1 |-> run + 1 - k]
      [] item.q = "+" -> [k \in 1 .. run |-> run + 1 - k]
      [] item.q = "-" -> [k \in 1 .. run + 1 |-> k - 1]
      [] OTHER -> IF run > 0 THEN <<1>> ELSE <<>>

\* The first of the tries, made in their order, that comes to an end.
First(ends) == LET ok == {n \in DOMAIN ends : ends[n] # NoMatch} IN
    IF ok = {} THEN NoMatch ELSE CHOOSE n \in ok : \A m \in ok : n <= m
FirstEnd(ends) == IF First(ends) = NoMatch THEN NoMatch ELSE ends[First(ends)]

\* Where a match from si on can be: nothing is taken past the end of the subject.
Offsets(s, si) == IF si <= Len(s) THEN 0 .. Len(s) ELSE {si}

\* match_here: where the elements end, from si on; end[k] is of those from the k-th on.
MatchHere(s, si, els) ==
    LET end[k \in 1 .. Len(els) + 1] == [a \in Offsets(s, si) |->
            IF k > Len(els) THEN a
            ELSE IF els[k].k = "end" THEN IF a = Len(s) THEN a ELSE NoMatch
            ELSE LET counts == Counts(s, a, els[k]) IN
                 FirstEnd([n \in DOMAIN counts |-> end[k + 1][a + counts[n]]])]
    IN end[1][si]

\* The starts that are tried: `from', even past the end, and those after it
\* unless the pattern is anchored.
Starts(s, p, from) == from .. (IF p.anchored \/ from > Len(s) THEN from ELSE Len(s))

\* string.find, which looks at where it is to begin.
StringFind(s, p, from) ==
    LET i == First([j \in Starts(s, p, from) |-> MatchHere(s, j, p.els)]) IN
    IF from > Len(s) \/ i = NoMatch THEN None ELSE [mstart |-> i, mend |-> MatchHere(s, i, p.els), caps |-> <<>>]

-----------------------------------------------------------------------------
(* The matcher with captures.  A group is matched on its own, the first    *)
(* way it can be; what a failed try captured stays in the list, of which   *)
(* the first GM_CAPS are kept.                                             *)
Gathered(rs, n) ==
    LET all[m \in 0 .. n] == IF m = 0 THEN <<>> ELSE all[m - 1] \o rs[m].caps IN all[n]

Tried(rs) == LET n == First([m \in DOMAIN rs |-> rs[m].end]) IN
    IF n = NoMatch THEN [end |-> NoMatch, caps |-> Gathered(rs, Len(rs))]
    ELSE [end |-> rs[n].end, caps |-> Gathered(rs, n)]

GmMatch(s, si, els) ==
    LET m[k \in 1 .. Len(els) + 1] == [a \in Offsets(s, si) |->
            IF k > Len(els) THEN [end |-> a, caps |-> <<>>]
            ELSE IF els[k].k = "end" THEN [end |-> IF a = Len(s) THEN a ELSE NoMatch, caps |-> <<>>]
            ELSE IF els[k].k = "group" THEN
                LET end == MatchHere(s, a, els[k].inner) IN
                IF end = NoMatch THEN [end |-> NoMatch, caps |-> <<>>]
                ELSE [end |-> m[k + 1][end].end, caps |-> <<<<a, end>>>> \o m[k + 1][end].caps]
            ELSE LET counts == Counts(s, a, els[k]) IN
                 Tried([n \in DOMAIN counts |-> m[k + 1][a + counts[n]]])]
    IN m[1][si]

Kept(caps) == SubSeq(caps, 1, IF Len(caps) < GM_CAPS THEN Len(caps) ELSE GM_CAPS)

\* gm_find: each start begins without captures.
Found(ms) ==
    LET i == First([j \in DOMAIN ms |-> ms[j].end]) IN
    IF i = NoMatch THEN None ELSE [mstart |-> i, mend |-> ms[i].end, caps |-> Kept(ms[i].caps)]
GmFind(s, p, from) == Found([j \in Starts(s, p, from) |-> GmMatch(s, j, p.els)])

-----------------------------------------------------------------------------
(* string.gmatch *)
\* The offset of an `init', which may be past the end.
Start(s, init) ==
    LET at == IF init >= 0 THEN init ELSE Len(s) + init + 1 IN
    IF at < 1 THEN 0 ELSE at - 1

Init ==
    /\ subject \in Subjects /\ pattern \in Patterns
    /\ \E init \in Inits : pos = Start(subject, init)
    /\ done = FALSE /\ last = None

\* Mutant: an empty match does not move the iterator.
NextPos_Stays(m) == m.mend

NextPos(m) == IF m.mend > m.mstart THEN m.mend ELSE m.mstart + 1

\* gmatch_advance: never stuck on an empty match.  The program panics on the
\* text of a match past the end (eval.rs:722), where the iterator is done.
Advance ==
    /\ ~done
    /\ last' = GmFind(subject, pattern, pos)
    /\ IF last' = None THEN done' = TRUE /\ UNCHANGED pos
       ELSE IF NextPos(last') > Len(subject) THEN done' = TRUE /\ UNCHANGED pos
       ELSE pos' = NextPos(last') /\ UNCHANGED done
    /\ UNCHANGED <<subject, pattern>>

Next == Advance

Spec == Init /\ [][Next]_vars

-----------------------------------------------------------------------------
(* string.match and string.gsub *)
Text(s, a, b) == SubSeq(s, a + 1, b)

\* What a match gives: its captures, or all of it when it has none.
Given(s, m) == IF m.caps = <<>> THEN <<Text(s, m.mstart, m.mend)>>
               ELSE [k \in DOMAIN m.caps |-> Text(s, m.caps[k][1], m.caps[k][2])]
StringMatch(s, p, from) == LET m == GmFind(s, p, from) IN IF m = None THEN <<>> ELSE Given(s, m)

\* The replacement: "%0", the empty string, or a function or a table that
\* has none for the match.
Replacement(s, m, repl) == IF repl = "empty" THEN <<>> ELSE Text(s, m.mstart, m.mend)

\* Mutant: the character behind an empty match is not copied.
Stepped_Drops(s, m) == <<>>

\* An empty match takes the character behind it along.
Stepped(s, m) == IF m.mend = m.mstart /\ m.mstart < Len(s) THEN <<s[m.mstart + 1]>> ELSE <<>>

\* gsub's loop, of at most n replacements: what is copied so far, up to where,
\* and the match that is next.
Ahead(s, p, from) == IF from > Len(s) THEN None ELSE GmFind(s, p, from)

Gsub(s, p, repl, n) ==
    LET Round(st) ==
            IF st.m = None \/ st.count = n THEN st
            ELSE [from |-> NextPos(st.m), m |-> Ahead(s, p, NextPos(st.m)),
                  out |-> st.out \o Text(s, st.from, st.m.mstart) \o Replacement(s, st.m, repl) \o Stepped(s, st.m),
                  count |-> IF repl = "none" THEN st.count ELSE st.count + 1]
        rounds[k \in 0 .. Len(s) + 1] ==
            IF k = 0 THEN [from |-> 0, m |-> Ahead(s, p, 0), out |-> <<>>, count |-> 0] ELSE Round(rounds[k - 1])
        end == rounds[Len(s) + 1]
    IN  [out |-> end.out \o Text(s, end.from, Len(s)), count |-> end.count]

-----------------------------------------------------------------------------
(* What a match is: a reading of the subject, element by element; at[j] is *)
(* how far it has come behind the j-th.  Of all readings it is the one     *)
(* preferred, item by item: more for * + ?, fewer for -.  A group of plain *)
(* characters takes one for each.                                          *)
Allowed(item, n) == CASE item.q = "?" -> n <= 1
                      [] item.q = "+" -> n >= 1
                      [] item.q \in {"*", "-"} -> TRUE
                      [] OTHER -> n = 1

Takes(s, e, a, b) ==
    CASE e.k = "end" -> a = b /\ b = Len(s)
      [] e.k = "group" -> b = a + Len(e.inner) /\ \A n \in DOMAIN e.inner : s[a + n] \in e.inner[n].set
      [] OTHER -> a <= b /\ Allowed(e, b - a) /\ \A n \in a + 1 .. b : s[n] \in e.set

Readings(s, i, els) ==
    {at \in [0 .. Len(els) -> 0 .. Len(s)] :
        at[0] = i /\ \A j \in 1 .. Len(els) : Takes(s, els[j], at[j - 1], at[j])}

Prefers(els, v, w) ==
    v = w \/ \E j \in 1 .. Len(els) :
        /\ \A k \in 0 .. j - 1 : v[k] = w[k]
        /\ IF els[j].q = "-" THEN v[j] < w[j] ELSE v[j] > w[j]
Best(s, i, els) == CHOOSE v \in Readings(s, i, els) : \A w \in Readings(s, i, els) : Prefers(els, v, w)

\* The spans of the groups, in order.
Captured(els, at) ==
    LET caps[k \in 1 .. Len(els) + 1] ==
            IF k > Len(els) THEN <<>>
            ELSE IF els[k].k = "group" THEN <<<<at[k - 1], at[k]>>>> \o caps[k + 1] ELSE caps[k + 1]
    IN caps[1]

Meant(s, p, from) ==
    LET starts == {i \in Starts(s, p, from) : Readings(s, i, p.els) # {}}
        i == CHOOSE k \in starts : \A j \in starts : k <= j
        v == Best(s, i, p.els)
    IN  IF starts = {} THEN None
        ELSE [mstart |-> i, mend |-> v[Len(p.els)], caps |-> Kept(Captured(p.els, v))]

\* A group matches in one way only; nothing tries a group a second time.
FixedGroups(p) == \A k \in DOMAIN p.els :
    p.els[k].k = "group" => \A j \in DOMAIN p.els[k].inner : p.els[k].inner[j].k = "item" /\ p.els[k].inner[j].q = ""
NoRetry(p) == \A j, k \in DOMAIN p.els : j < k /\ p.els[k].k = "group" => p.els[j].k # "item" \/ p.els[j].q = ""
NoGroups(p) == \A k \in DOMAIN p.els : p.els[k].k # "group"
Span(m) == <<m.mstart, m.mend>>

(***************************************************************************)
(* Both matchers find the match the pattern means: the leftmost one, with  *)
(* the repetitions greedy and lazy items prefer, backtracking included --  *)
(* the capturing one where groups match in one way only, and it gives the  *)
(* groups' spans where no quantified item precedes a group; from the       *)
(* iterator's place on, unless it was told to begin past the end.          *)
(* (eval.rs match_here, gm_match.)                                         *)
(***************************************************************************)
FindsTheMatch ==
    LET meant == Meant(subject, pattern, pos)
        found == GmFind(subject, pattern, pos)
    IN  pos <= Len(subject) =>
    /\ NoGroups(pattern) => Span(StringFind(subject, pattern, pos)) = Span(meant)
    /\ FixedGroups(pattern) => Span(found) = Span(meant)
    /\ FixedGroups(pattern) /\ NoRetry(pattern) =>
            /\ found.caps = meant.caps
            /\ StringMatch(subject, pattern, pos) = IF meant = None THEN <<>> ELSE Given(subject, meant)

(***************************************************************************)
(* The iterator always moves on: each round starts behind the last match,  *)
(* so gmatch ends for every pattern; and begun in its subject it gives     *)
(* matches that lie in it.  (gmatch_advance.)  Begun past the end, which   *)
(* string.gmatch does not check, it gives the empty match there, whose     *)
(* text is out of range.                                                   *)
(***************************************************************************)
MovesOn == last' # None => /\ last'.mstart >= pos
                           /\ pos <= Len(subject) => last'.mend <= Len(subject)
                           /\ done' \/ (pos' > last'.mstart /\ pos' >= last'.mend)
GmatchMovesOn == [][MovesOn]_vars

\* The matches the iterator comes to, one after the other, from its start.
Walk(s, p) ==
    LET Round(st) == IF st.m = None THEN st
                     ELSE [ms |-> Append(st.ms, st.m), m |-> Ahead(s, p, NextPos(st.m))]
        rounds[k \in 0 .. Len(s) + 1] == IF k = 0 THEN [ms |-> <<>>, m |-> Ahead(s, p, 0)] ELSE Round(rounds[k - 1])
    IN  rounds[Len(s) + 1].ms

FirstOnes(ms, n) == SubSeq(ms, 1, IF n < Len(ms) THEN n ELSE Len(ms))

\* The characters outside the matches, in order.
Without(s, ms) ==
    LET rest[k \in 0 .. Len(s)] ==
            IF k = 0 THEN <<>>
            ELSE IF \E j \in DOMAIN ms : ms[j].mstart < k /\ k <= ms[j].mend THEN rest[k - 1]
            ELSE Append(rest[k - 1], s[k])
    IN rest[Len(s)]

(***************************************************************************)
(* gsub replaces the matches gmatch comes to, the first n of them, and     *)
(* nothing else: a replacement by the match itself, or by none, gives the  *)
(* subject back, an empty one exactly the characters outside the matches,  *)
(* and the count is that of the replacements.  (eval.rs, string.gsub and   *)
(* gmatch_advance, which have a loop each.)                                *)
(***************************************************************************)
GsubKeepsTheRest ==
    pos = 0 /\ last = None => \A n \in 0 .. Len(subject) + 1 : \A ms \in {FirstOnes(Walk(subject, pattern), n)} :
        /\ Gsub(subject, pattern, "match", n) = [out |-> subject, count |-> Len(ms)]
        /\ Gsub(subject, pattern, "none", n) = [out |-> subject, count |-> 0]
        /\ Gsub(subject, pattern, "empty", n) = [out |-> Without(subject, ms), count |-> Len(ms)]
=============================================================================
