----------------------------- MODULE LuaCompiler -----------------------------
(***************************************************************************)
(* Control flow of a Lua script: how the parser resolves `goto' and        *)
(* labels (lua/src/parse.rs), the code the compiler emits for each kind of *)
(* statement, and how the virtual machine runs it (lua/src/vm.rs).         *)
(*                                                                         *)
(* A program is a sequence of statements [k, l, body, els]; an expression  *)
(* or a statement without control flow is "act", and an `elseif' is an if  *)
(* in the else branch (the parser and the compiler treat them alike).      *)
(* The node of a statement is its place: the path of its block, pairs of   *)
(* an index and a branch, and its index there.                             *)
(*                                                                         *)
(* Beside the machine runs the program itself: `due' is the place and the  *)
(* kind of event the structure of the program asks for next.  Conditions   *)
(* and the ends of loops are chosen freely.                                *)
(***************************************************************************)
EXTENDS Integers, Sequences, FiniteSets, SequencesExt

CONSTANTS
    Programs,               \* the programs to run
    MAX_SCOPES,             \* open blocks in a function (parser)
    MAX_LABELS_PER_SCOPE, MAX_GOTOS_PER_SCOPE

VARIABLES
    prog,       \* the program
    code,       \* its code; <<>> when the compiler refused it
    fn,         \* the function that runs: the path of its body
    ip,         \* the machine's next instruction; 0 when it has stopped
    depth,      \* block frames above the function's frame
    top,        \* the condition on the operand stack
    due         \* the next event of the program

vars == <<prog, code, fn, ip, depth, top, due>>

-----------------------------------------------------------------------------
(* Places in a program. *)
BlockAt(p, b) == FoldLeft(LAMBDA blk, s : IF s[2] = 1 THEN blk[s[1]].body ELSE blk[s[1]].els, p, b)
Place(b, i) == [b |-> b, i |-> i]
StatAt(p, n) == BlockAt(p, n.b)[n.i]
Inner(n, branch) == Append(n.b, <<n.i, branch>>)
Owner(b) == Place(Front(b), Last(b)[1])
NoNode == Place(<<>>, 0)

\* Places of all the statements; a body is met before it is looked into.
RECURSIVE PlacesOf(_, _)
PlacesOf(stats, b) == UNION {
    {Place(b, i)} \cup PlacesOf(stats[i].body, Append(b, <<i, 1>>))
                  \cup PlacesOf(stats[i].els, Append(b, <<i, 2>>)) : i \in DOMAIN stats}

-----------------------------------------------------------------------------
(* The parser: one scope of labels and gotos per open block, in an array   *)
(* that every function body uses from its start again.                     *)
NewScope == [labels |-> <<>>, gotos |-> <<>>]
Refused(st) == [st EXCEPT !.ok = FALSE]

\* find_label: innermost scope first; in a scope, the first of that name.
FindLabel(st, name) ==
    LET Hits(j) == SelectSeq(st.scopes[j].labels, LAMBDA x : x[1] = name)
        found == {j \in 1 .. st.n : Hits(j) # <<>>}
    IN  IF found = {} THEN NoNode
        ELSE Hits(CHOOSE j \in found : \A k \in found : k <= j)[1][2]

\* One goto at the end of its block: found, deferred to the block outside, or unknown.
ResolveGoto(st, g) ==
    LET target == FindLabel(st, g[2]) IN
    IF target # NoNode THEN [st EXCEPT !.target = @ \cup {<<g[1], target>>}]
    ELSE IF st.n = 1 \/ Len(st.scopes[st.n - 1].gotos) >= MAX_GOTOS_PER_SCOPE THEN Refused(st)
    ELSE [st EXCEPT !.scopes[st.n - 1].gotos = Append(@, g)]

ResolveScope(st) ==
    LET done == FoldLeft(ResolveGoto, st, st.scopes[st.n].gotos) IN [done EXCEPT !.n = @ - 1]

RECURSIVE ParseBlock(_, _, _)
ParseStat(st, s, n) ==
    LET Loop(x) == [ParseBlock(s.body, Inner(n, 1), [x EXCEPT !.loop = @ + 1]) EXCEPT !.loop = x.loop]
        room == [labels |-> Len(st.scopes[st.n].labels) < MAX_LABELS_PER_SCOPE,
                 gotos |-> Len(st.scopes[st.n].gotos) < MAX_GOTOS_PER_SCOPE]
    IN
    CASE s.k = "if" -> ParseBlock(s.els, Inner(n, 2), ParseBlock(s.body, Inner(n, 1), st))
      [] s.k \in {"while", "repeat", "for", "forin"} -> Loop(st)
      [] s.k = "func" -> [ParseBlock(s.body, Inner(n, 1), [st EXCEPT !.n = 0, !.loop = 0])
                            EXCEPT !.n = st.n, !.loop = st.loop]
      [] s.k = "label" -> IF room.labels
                          THEN [st EXCEPT !.scopes[st.n].labels = Append(@, <<s.l, n>>)]
                          ELSE Refused(st)
      [] s.k = "goto" -> IF room.gotos
                         THEN [st EXCEPT !.scopes[st.n].gotos = Append(@, <<n, s.l>>)]
                         ELSE Refused(st)
      [] s.k = "break" -> IF st.loop = 0 THEN Refused(st) ELSE st
      [] OTHER -> st

ParseBlock(stats, b, st) ==
    IF ~st.ok \/ st.n >= MAX_SCOPES THEN Refused(st)
    ELSE LET open == [st EXCEPT !.n = @ + 1, !.scopes[st.n + 1] = NewScope]
             body == FoldLeftDomain(
                        LAMBDA x, i : IF x.ok THEN ParseStat(x, stats[i], Place(b, i)) ELSE x, open, stats)
         IN  IF body.ok THEN ResolveScope(body) ELSE body

Parse(p) == ParseBlock(p, <<>>,
    [scopes |-> [j \in 1 .. MAX_SCOPES |-> NewScope], n |-> 0, loop |-> 0, target |-> {}, ok |-> TRUE])

\* A goto starts as `Goto(0)': node 0 is the first one of the script.
GotoTarget(parsed, n) ==
    IF \E t \in parsed.target : t[1] = n
    THEN (CHOOSE t \in parsed.target : t[1] = n)[2] ELSE Place(<<>>, 1)

-----------------------------------------------------------------------------
(* The compiler. *)
Emit(c, op, n) == [c EXCEPT !.code = Append(@, [op |-> op, a |-> 0, b |-> 0, at |-> n])]
Here(c) == Len(c.code) + 1
Patch(c, at, target) == [c EXCEPT !.code[at].a = target]
PushScope(c, n) == [Emit(c, "PushScope", n) EXCEPT !.scope = @ + 1]
PopScope(c, n) == [Emit(c, "PopScope", n) EXCEPT !.scope = @ - 1]
BeginLoop(c, scope) == [c EXCEPT !.loops = Append(@, [scope |-> scope, ends |-> <<>>])]
EndLoop(c) ==
    LET patched == FoldLeft(LAMBDA x, at : Patch(x, at, Here(c)), c, Last(c.loops).ends) IN
    [patched EXCEPT !.loops = Front(@)]

\* A jump out of scopes: how many is known at once for a break, later for a goto.
EmitBreak(c, n) ==
    LET j == Emit(c, "JumpScopes", n) IN
    [j EXCEPT !.code[Len(j.code)].b = c.scope - Last(c.loops).scope,
              !.loops[Len(j.loops)].ends = Append(@, Len(j.code))]

EmitGoto(c, n, target) ==
    LET j == Emit(c, "JumpScopes", n) IN
    [j EXCEPT !.fixups = Append(@, <<Len(j.code), target, c.scope>>)]

\* Mutant: the frames of the blocks around a return are left on the stack.
EmitReturn_NoPops(c, n) == Emit(Emit(c, "Act", n), "Return", n)

\* The value, one PopScope for every open block (they stay open for the code that follows).
EmitReturn(c, n) ==
    Emit(FoldLeft(LAMBDA x, k : Emit(x, "PopScope", n), Emit(c, "Act", n), [k \in 1 .. c.scope |-> k]),
         "Return", n)

RECURSIVE CompileChain(_, _, _, _)
Scoped(c, stats, b, P) == PopScope(CompileChain(PushScope(c, Place(b, 1)), stats, b, P), Place(b, 1))

CompileIf(c, s, n, P) ==
    LET test == Emit(Emit(c, "Eval", n), "JumpIfFalse", n)
        then == Emit(Scoped(test, s.body, Inner(n, 1), P), "Jump", n)
        els == Patch(then, Len(test.code), Here(then))
        both == IF s.els = <<>> THEN els ELSE Scoped(els, s.els, Inner(n, 2), P)
    IN  Patch(both, Len(then.code), Here(both))

CompileWhile(c, s, n, P) ==
    LET test == Emit(Emit(c, "Eval", n), "JumpIfFalse", n)
        body == Emit(Scoped(BeginLoop(test, c.scope), s.body, Inner(n, 1), P), "Jump", n)
        back == Patch(body, Len(body.code), Here(c))
    IN  EndLoop(Patch(back, Len(test.code), Here(back)))

\* The condition is evaluated inside the body's scope.
CompileRepeat(c, s, n, P) ==
    LET body == CompileChain(PushScope(BeginLoop(c, c.scope), n), s.body, Inner(n, 1), P)
        test == Emit(PopScope(Emit(body, "Eval", n), n), "JumpIfFalse", n)
    IN  EndLoop(Patch(test, Len(test.code), Here(c)))

\* The control values live in a scope around the body's scope; a break leaves both.
CompileFor(c, s, n, P) ==
    LET prep == Emit(PushScope(c, n), "ForPrep", n)
        body == Scoped(BeginLoop(prep, prep.scope - 1), s.body, Inner(n, 1), P)
        loop == Emit(body, "ForLoop", n)
        back == Patch(loop, Len(loop.code), Here(prep))
        exit == PopScope(Patch(back, Len(prep.code), Here(back)), n)
    IN  EndLoop(exit)

CompileForIn(c, s, n, P) ==
    LET prep == Emit(PushScope(c, n), "ForInPrep", n)
        next == Emit(prep, "ForInNext", n)
        body == Scoped(BeginLoop(next, next.scope - 1), s.body, Inner(n, 1), P)
        loop == Emit(body, "ForInAdvance", n)
        back == Patch(loop, Len(loop.code), Here(prep))
        exit == PopScope(Patch(back, Len(next.code), Here(back)), n)
    IN  EndLoop(exit)

CompileStat(c, s, n, P) ==
    CASE s.k = "if" -> CompileIf(c, s, n, P)
      [] s.k = "while" -> CompileWhile(c, s, n, P)
      [] s.k = "repeat" -> CompileRepeat(c, s, n, P)
      [] s.k = "for" -> CompileFor(c, s, n, P)
      [] s.k = "forin" -> CompileForIn(c, s, n, P)
      [] s.k = "break" -> EmitBreak(c, n)
      [] s.k = "goto" -> EmitGoto(c, n, GotoTarget(P, n))
      [] s.k = "label" -> [c EXCEPT !.labels = Append(@, <<n, Here(c), c.scope>>)]
      [] s.k = "return" -> EmitReturn(c, n)
      [] s.k = "func" -> [Emit(c, "Act", n) EXCEPT !.pending = Append(@, n)]
      [] OTHER -> Emit(c, "Act", n)

CompileChain(c, stats, b, P) ==
    FoldLeftDomain(LAMBDA x, i : CompileStat(x, stats[i], Place(b, i), P), c, stats)

\* resolve_fixups: the labels of this function only; the scopes to leave are
\* the difference of the two depths.
ResolveFixup(c, f) ==
    LET hits == SelectSeq(c.labels, LAMBDA l : l[1] = f[2]) IN
    IF hits = <<>> THEN Refused(c)
    ELSE [c EXCEPT !.code[f[1]].a = hits[1][2], !.code[f[1]].b = f[3] - hits[1][3]]

\* A function: its block, a Return, its gotos; then the literals met in it, last first.
CompileFunction(c, stats, b, P) ==
    LET fresh == [c EXCEPT !.scope = 0, !.loops = <<>>, !.labels = <<>>, !.fixups = <<>>,
                           !.entry = @ \cup {<<b, Here(c)>>}]
        body == Emit(CompileChain(fresh, stats, b, P), "Return", Place(b, Len(stats) + 1))
    IN  FoldLeft(ResolveFixup, body, body.fixups)

RECURSIVE CompilePending(_, _, _)
CompilePending(c, p, P) ==
    IF c.pending = <<>> \/ ~c.ok THEN c
    ELSE LET f == Last(c.pending) IN
         CompilePending(CompileFunction([c EXCEPT !.pending = Front(@)], StatAt(p, f).body, Inner(f, 1), P), p, P)

Compile(p, P) == CompilePending(CompileFunction(
    [code |-> <<>>, scope |-> 0, loops |-> <<>>, labels |-> <<>>, fixups |-> <<>>,
     pending |-> <<>>, entry |-> {}, ok |-> TRUE], p, <<>>, P), p, P)

-----------------------------------------------------------------------------
(* The program's own order of events. *)
IsFunc(p, b) == b = <<>> \/ StatAt(p, Owner(b)).k = "func"
Event(n, ev) == [at |-> n, ev |-> ev]

RECURSIVE LoopAround(_, _)
LoopAround(p, b) ==
    IF StatAt(p, Owner(b)).k \in {"while", "repeat", "for", "forin"} THEN Owner(b)
    ELSE LoopAround(p, Owner(b).b)

RECURSIVE FunctionOf(_, _)
FunctionOf(p, b) == IF IsFunc(p, b) THEN b ELSE FunctionOf(p, Front(b))

\* The label a goto means: of its block or a block around it, in the same function.
LabelsFor(p, n) == {m \in PlacesOf(p, <<>>) :
    /\ StatAt(p, m).k = "label" /\ StatAt(p, m).l = StatAt(p, n).l
    /\ IsPrefix(m.b, n.b) /\ FunctionOf(p, m.b) = FunctionOf(p, n.b)}
Meant(p, n) == CHOOSE m \in LabelsFor(p, n) : \A k \in LabelsFor(p, n) : Len(k.b) <= Len(m.b)

After(n) == [n EXCEPT !.i = @ + 1]

\* What control meets first on reaching a place.
RECURSIVE Reach(_, _)
Reach(p, n) ==
    IF n.i > Len(BlockAt(p, n.b)) THEN
        IF IsFunc(p, n.b) THEN Event(n, "Return")
        ELSE LET o == Owner(n.b) k == StatAt(p, o).k IN
             CASE k = "if" -> Reach(p, After(o))
               [] k \in {"while", "repeat"} -> Event(o, "Eval")
               [] k = "for" -> Event(o, "ForLoop")
               [] k = "forin" -> Event(o, "ForInNext")
    ELSE LET k == StatAt(p, n).k IN
         CASE k \in {"if", "while"} -> Event(n, "Eval")
           [] k = "repeat" -> Reach(p, Place(Inner(n, 1), 1))
           [] k = "for" -> Event(n, "ForPrep")
           [] k = "forin" -> Event(n, "ForInPrep")
           [] k \in {"goto", "break"} -> Event(n, "JumpScopes")
           [] k = "label" -> Reach(p, After(n))
           [] OTHER -> Event(n, "Act")

\* The event after an event, given its outcome (the condition holds, the loop goes on).
Follows(p, e, yes) ==
    LET n == e.at s == StatAt(p, n)
        body == Reach(p, Place(Inner(n, 1), 1))
        next == Reach(p, After(n))
    IN
    CASE e.ev = "Act" -> IF s.k = "return" THEN Event(n, "Return") ELSE next
      [] e.ev = "Eval" /\ s.k = "if" -> IF yes THEN body ELSE Reach(p, Place(Inner(n, 2), 1))
      [] e.ev = "Eval" /\ s.k = "while" -> IF yes THEN body ELSE next
      [] e.ev = "Eval" /\ s.k = "repeat" -> IF yes THEN next ELSE body
      [] e.ev = "ForInPrep" -> Event(n, "ForInNext")
      [] e.ev \in {"ForPrep", "ForLoop", "ForInNext"} -> IF yes THEN body ELSE next
      [] e.ev = "JumpScopes" -> IF s.k = "break" THEN Reach(p, After(LoopAround(p, n.b)))
                                ELSE Reach(p, Meant(p, n))

\* Blocks open at an event: two for each loop with control values, one for
\* every other block; the loop's own events see its outer one, the condition
\* of a repeat the body's.
Nesting(p, e) ==
    LET f == FunctionOf(p, e.at.b)
        Width(j) == IF StatAt(p, Owner(SubSeq(e.at.b, 1, j))).k \in {"for", "forin"} THEN 2 ELSE 1
    IN  IF e.ev = "Return" THEN 0
        ELSE FoldLeft(LAMBDA sum, j : sum + Width(j), 0, [k \in 1 .. Len(e.at.b) - Len(f) |-> k + Len(f)])
             + IF e.ev \in {"ForPrep", "ForLoop", "ForInPrep", "ForInNext"}
                  \/ (e.ev = "Eval" /\ StatAt(p, e.at).k = "repeat") THEN 1 ELSE 0

-----------------------------------------------------------------------------
(* The machine. *)
Init ==
    /\ prog \in Programs
    /\ depth = 0 /\ top = TRUE
    /\ LET P == Parse(prog)
           c == IF P.ok THEN Compile(prog, P) ELSE P
       IN  IF ~c.ok
           THEN code = <<>> /\ fn = <<>> /\ ip = 0 /\ due = Event(NoNode, "Return")
           ELSE /\ code = c.code
                /\ \E e \in c.entry :
                        fn = e[1] /\ ip = e[2] /\ due = Reach(prog, Place(e[1], 1))

Running(ops) == ip # 0 /\ code[ip].op \in ops
AsDue == due = Event(code[ip].at, code[ip].op)
Progress(yes) == due' = IF AsDue THEN Follows(prog, due, yes) ELSE due
Keep == UNCHANGED <<prog, code, fn>>

Act == Running({"Act", "ForInPrep"}) /\ ip' = ip + 1 /\ Progress(TRUE) /\ UNCHANGED <<depth, top>> /\ Keep

Eval == /\ Running({"Eval"})
        /\ \E yes \in BOOLEAN : top' = yes /\ Progress(yes)
        /\ ip' = ip + 1 /\ UNCHANGED depth /\ Keep

JumpIfFalse ==
    /\ Running({"JumpIfFalse"})
    /\ ip' = IF top THEN ip + 1 ELSE code[ip].a
    /\ UNCHANGED <<depth, top, due>> /\ Keep

\* Jump and ForInAdvance, which goes back to ForInNext.
Jump == Running({"Jump", "ForInAdvance"}) /\ ip' = code[ip].a /\ UNCHANGED <<depth, top, due>> /\ Keep

JumpScopes ==
    /\ Running({"JumpScopes"})
    /\ ip' = code[ip].a /\ depth' = depth - code[ip].b
    /\ Progress(TRUE) /\ UNCHANGED top /\ Keep

Scope ==
    /\ Running({"PushScope", "PopScope"})
    /\ depth' = IF code[ip].op = "PushScope" THEN depth + 1 ELSE depth - 1
    /\ ip' = ip + 1 /\ UNCHANGED <<top, due>> /\ Keep

\* ForPrep skips to the end, ForLoop goes back to the body, ForInNext leaves.
Loop ==
    /\ Running({"ForPrep", "ForLoop", "ForInNext"})
    /\ \E yes \in BOOLEAN :
        /\ Progress(yes)
        /\ ip' = IF yes = (code[ip].op = "ForLoop") THEN code[ip].a ELSE ip + 1
    /\ UNCHANGED <<depth, top>> /\ Keep

Return == Running({"Return"}) /\ ip' = 0 /\ UNCHANGED <<depth, top, due>> /\ Keep

Next == Act \/ Eval \/ JumpIfFalse \/ Jump \/ JumpScopes \/ Scope \/ Loop \/ Return

Spec == Init /\ [][Next]_vars

-----------------------------------------------------------------------------
(* Programs the parser is asked about. *)
Gotos(p) == {n \in PlacesOf(p, <<>>) : StatAt(p, n).k = "goto"}
RECURSIVE InLoop(_, _)
InLoop(p, b) == ~IsFunc(p, b) /\ (StatAt(p, Owner(b)).k # "if" \/ InLoop(p, Front(b)))

WellFormed(p) ==
    /\ \A n \in Gotos(p) : LabelsFor(p, n) # {}
    /\ \A n \in PlacesOf(p, <<>>) : StatAt(p, n).k = "break" => InLoop(p, n.b)

\* No function literal stands in a program with labels or gotos outside it,
\* and a function has no two labels of one name.
Plain(p) ==
    LET All == PlacesOf(p, <<>>) IN
    /\ \A f \in All, n \in All : StatAt(p, f).k = "func" /\ StatAt(p, n).k \in {"goto", "label"}
                                    => IsPrefix(Inner(f, 1), n.b)
    /\ \A m, n \in All :
        StatAt(p, m).k = "label" /\ StatAt(p, n).k = "label" /\ FunctionOf(p, m.b) = FunctionOf(p, n.b)
            => m = n \/ StatAt(p, m).l # StatAt(p, n).l

Faithful ==
    /\ WellFormed(prog) <=> code # <<>>
    /\ Running({"Act", "Eval", "JumpScopes", "ForPrep", "ForLoop", "ForInPrep", "ForInNext", "Return"}) =>
            /\ AsDue /\ depth = Nesting(prog, due)

(***************************************************************************)
(* The compiled code does what the program says: the parser refuses        *)
(* exactly the programs with a goto without a visible label or a break     *)
(* outside a loop, and at each statement, condition and loop step the      *)
(* machine runs the one that is due, with just the frames of the blocks    *)
(* around it on the frame stack -- whichever way a block was left: at its  *)
(* end, by break, goto or return.  (parse.rs resolve_scope, vm.rs          *)
(* compile_stmt, JumpScopes.)                                              *)
(***************************************************************************)
InStep == Plain(prog) => Faithful
=============================================================================
