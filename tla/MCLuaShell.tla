------------------------------ MODULE MCLuaShell ------------------------------
(***************************************************************************)
(* The parts of the Lua shell for TLC, in one run: the compiler, scopes,   *)
(* tables, patterns, packed data and the line editor have no state in      *)
(* common, so that each behaviour follows one of them (`part') and the     *)
(* variables of the others rest.                                           *)
(***************************************************************************)
EXTENDS ShellParts

CONSTANTS
    MAX_SCOPES, MAX_LABELS_PER_SCOPE, MAX_GOTOS_PER_SCOPE,
    NoName, Rounds, MAX_FRAMES, MAX_CELLS, MAX_CLOSURES, MAX_LOCALS, MAX_GLOBALS, MAX_UPVALS

VARIABLES
    prog,                                                           \* compiler, scopes
    code, fn, ip, depth, top, due,                                  \* compiler
    frames, cells, closures, globals, values, store, seen, running  \* scopes

compiler == <<code, fn, ip, depth, top, due>>
scopes == <<frames, cells, closures, globals, values, store, seen, running>>
vars == <<shellVars, prog, compiler, scopes>>

Upto(T, n) == UNION {[1 .. m -> T] : m \in 0 .. n}
NonEmpty(S) == S \ {<<>>}

-----------------------------------------------------------------------------
(* Programs of the compiler: blocks in blocks, with labels, gotos, breaks   *)
(* and returns in them and around them.                                    *)
Stat(k, b, e) == [k |-> k, l |-> "a", body |-> b, els |-> e]
Simple == {Stat(k, <<>>, <<>>) : k \in {"act", "break", "goto", "label", "return"}}
Around(B) == {Stat(k, b, <<>>) : k \in {"while", "repeat", "for", "forin", "func"}, b \in B}
             \cup {Stat("if", b, e) : b \in B, e \in Upto(Simple, 1)}
Small == Around(Upto(Simple, 1))
Nested == Around({<<x>> : x \in Small} \cup {<<x, y>> : x \in Small, y \in Simple})
Flat == Around(Upto(Simple, 2))
CompilerPrograms ==
    {<<x>> : x \in Flat \cup Nested} \cup {<<x, y>> : x \in Simple, y \in Small}
    \cup {<<y, x>> : x \in Simple, y \in Small} \cup {<<Stat("label", <<>>, <<>>), y>> : y \in Flat}

(* Programs of the scopes: a variable declared, set, read and captured at   *)
(* three depths.                                                           *)
Uses(k, b) == [k |-> k, x |-> "x", body |-> b]
Use == {Uses(k, <<>>) : k \in {"local", "set", "use", "call"}}
Block(B) == {Uses(k, b) : k \in {"block", "for", "func"}, b \in B}
            \cup {[k |-> "func", x |-> NoName, body |-> b] : b \in B}
Inner == Block(NonEmpty(Upto(Use, 1)))
Deep == Block(NonEmpty(Upto(Use \cup Inner, 2)))
ScopePrograms ==
    {<<Uses("local", <<>>), b, a>> : a \in Use, b \in Deep}
    \cup {<<b, Uses("call", <<>>), a>> : a \in Use, b \in Deep}
    \cup {<<a, b, Uses("call", <<>>), c>> : a, c \in Use, b \in Block(NonEmpty(Upto(Use, 2)))}
    \cup {<<Uses("local", <<>>), Uses("for", <<x>>), Uses("use", <<>>)>> : x \in Deep}
    \cup {<<Uses("lit", <<>>)>>}

(* Patterns of up to three elements over two characters. *)
Item(c, q) == [k |-> "item", set |-> c, q |-> q, inner |-> <<>>]
One == {Item(c, "") : c \in {{"a"}, {"b"}, {"a", "b"}}}
Repeated == {Item(c, q) : c \in {{"a"}, {"a", "b"}}, q \in {"*", "+", "-", "?"}}
Group == {[k |-> "group", set |-> {}, q |-> "", inner |-> b] :
            b \in {<<x>> : x \in One \cup Repeated} \cup {<<x, y>> : x, y \in One}}
EndAnchor == [k |-> "end", set |-> {}, q |-> "", inner |-> <<>>]
Elements == One \cup Repeated \cup Group
ShortPatterns ==
    {[anchored |-> FALSE, els |-> e] : e \in
        Upto(Elements, 1) \cup {<<x, y>> : x \in Elements, y \in One \cup Repeated}
        \cup {<<x, y, Item({"b"}, "")>> : x \in Repeated, y \in Repeated \cup Group}
        \cup {<<x, y, EndAnchor>> : x, y \in Repeated}}
    \cup {[anchored |-> TRUE, els |-> <<x>>] : x \in Repeated \cup Group}
ShortSubjects == {<<>>, <<"a">>} \cup [1 .. 3 -> {"a", "b"}]
SomeInits == {1, 3, -2}

(* Formats of up to three options behind a byte order and an alignment. *)
Option(k, n, s) == [k |-> k, n |-> n, signed |-> s]
Options == {Option("int", n, TRUE) : n \in {1, 3, 8, 16}}
           \cup {Option(k, n, FALSE) : <<k, n>> \in
                    {<<"x", 0>>, <<"X", 4>>, <<"int", 2>>, <<"num", 4>>, <<"c", 2>>, <<"z", 0>>, <<"s", 1>>}}
Settings == {<<>>, <<Option("!", 4, FALSE)>>, <<Option(">", 0, FALSE)>>,
             <<Option("!", 0, FALSE), Option(">", 0, FALSE)>>}
Past == <<Option("!", 64, FALSE), Option("x", 0, FALSE), Option("X", 64, FALSE)>>
ShortFormats ==
    {a \o b : a \in Settings, b \in Upto(Options, 2) \cup {<<Option("x", 0, FALSE), x, y>> : x, y \in Options}}
    \cup {Past, Append(Past, Option("x", 0, FALSE))}

ShortStrings == {<<>>, <<0>>, <<1, 3>>}
FewInts == {-2, 1, 9}

-----------------------------------------------------------------------------
EditorDecl == <<"global", "decl">>

Compiler == INSTANCE LuaCompiler WITH Programs <- CompilerPrograms
Scopes == INSTANCE LuaScopes WITH Programs <- ScopePrograms

NoCompiler == code = 0 /\ fn = 0 /\ ip = 0 /\ depth = 0 /\ top = 0 /\ due = 0
NoScopes == frames = 0 /\ cells = 0 /\ closures = 0 /\ globals = 0 /\ values = 0 /\ store = 0
            /\ seen = 0 /\ running = 0

Init ==
    \/ /\ part = "compiler" /\ Compiler!Init /\ pos = 0
       /\ NoScopes /\ NoTable /\ NoMatcher /\ NoPacker /\ NoEditor
    \/ /\ part = "scopes" /\ Scopes!Init /\ pos = 0
       /\ NoCompiler /\ NoTable /\ NoMatcher /\ NoPacker /\ NoEditor
    \/ ShellInit /\ prog = 0 /\ NoCompiler /\ NoScopes

Next ==
    \/ part = "compiler" /\ Compiler!Next /\ UNCHANGED <<part, pos, scopes, table, matcher, packer, editor>>
    \/ part = "scopes" /\ Scopes!Next /\ UNCHANGED <<part, pos, compiler, table, matcher, packer, editor>>
    \/ ShellNext /\ UNCHANGED <<prog, compiler, scopes>>

Spec == Init /\ [][Next]_vars

-----------------------------------------------------------------------------
\* The parts' properties, each of its part's behaviours.
\* LuaCompiler: the machine runs the statement that is due.
InStep == part = "compiler" => Compiler!InStep
\* LuaScopes: a use reads what lexical scoping says.
LexicalScoping == part = "scopes" => Scopes!LexicalScoping
=============================================================================
