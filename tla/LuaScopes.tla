------------------------------ MODULE LuaScopes ------------------------------
(***************************************************************************)
(* Local variables, upvalues and globals of a Lua script: what the parser  *)
(* records about captured names (lua/src/parse.rs) and how frames, cells   *)
(* and closures keep the variables at run time (lua/src/lib.rs, vm.rs).    *)
(*                                                                         *)
(* A program is a sequence of statements [k, x, body] about the variable   *)
(* x:  local x = v,  x = v (set),  a use of x,  { x } (lit),  do body end  *)
(* (block; any statement with a block and no control values),              *)
(* for x = 1, Rounds do body end  (for),  k = function (x) body end        *)
(* (func), and  k()  (call), where k is one global variable.  Every value  *)
(* stored is a new one.                                                    *)
(*                                                                         *)
(* Beside the run time the module keeps what lexical scoping says:         *)
(* `env', the variables a block can see with the newest last, each a       *)
(* location of its own in `store'.                                         *)
(***************************************************************************)
EXTENDS Integers, Sequences, FiniteSets, SequencesExt

CONSTANTS
    Programs,           \* the programs to run
    NoName,             \* the parameter of a function without one
    Rounds,             \* bound: rounds of a for loop
    MAX_FRAMES, MAX_CELLS, MAX_CLOSURES, MAX_LOCALS, MAX_GLOBALS, MAX_UPVALS

VARIABLES
    prog,       \* the program
    frames,     \* the frames, innermost last, each with the statements still to run
    cells,      \* boxed variables
    closures,   \* closures made, the last one in the variable k
    globals,    \* the named globals
    values,     \* values stored so far
    store,      \* lexical scoping: location -> value
    seen,       \* the last use: what was read and what should have been
    running

vars == <<prog, frames, cells, closures, globals, values, store, seen, running>>

NO_CELL == 0
NO_CLOSURE == 0
Undefined == -1
Least(S) == CHOOSE i \in S : \A j \in S : i <= j
Greatest(S) == CHOOSE i \in S : \A j \in S : i >= j

-----------------------------------------------------------------------------
(* The parser's capture analysis: the statement tree with the upvalues of  *)
(* each function and, for each loop, whether its variable is captured.     *)
(* pst is [locals, funcs, ok]: declared locals, and the names collected    *)
(* for each function open.                                                 *)
DeclareRec(pst, name) ==
    [pst EXCEPT !.locals = Append(@, [name |-> name, func |-> Len(pst.funcs), captured |-> FALSE])]

AddUp(pst, level, name) ==
    IF Contains(pst.funcs[level], name) THEN pst
    ELSE IF Len(pst.funcs[level]) >= MAX_UPVALS THEN [pst EXCEPT !.ok = FALSE]
    ELSE [pst EXCEPT !.funcs[level] = Append(@, name)]

\* Mutant: only the innermost function records the upvalue.
ResolveName_InnerOnly(pst, name) ==
    LET here == {i \in DOMAIN pst.locals : pst.locals[i].name = name}
        i == Greatest(here)
        cur == Len(pst.funcs)
    IN  IF here = {} \/ pst.locals[i].func = cur THEN pst
        ELSE AddUp([pst EXCEPT !.locals[i].captured = TRUE], cur, name)

\* The newest local of that name; every function between it and the use
\* records it as an upvalue.
ResolveName(pst, name) ==
    LET here == {i \in DOMAIN pst.locals : pst.locals[i].name = name}
        i == Greatest(here)
        cur == Len(pst.funcs)
    IN  IF here = {} \/ pst.locals[i].func = cur THEN pst
        ELSE FoldLeft(LAMBDA p, level : AddUp(p, level, name),
                      [pst EXCEPT !.locals[i].captured = TRUE],
                      [k \in 1 .. cur - pst.locals[i].func |-> pst.locals[i].func + k])

RECURSIVE ParseBlock(_, _)
\* A statement, as the pair of its node and the parser's state.
ParseStat(s, pst) ==
    LET mark == Len(pst.locals)
        Back(p) == [p EXCEPT !.locals = SubSeq(@, 1, mark)]
        Node(body, ups, cell) == [k |-> s.k, x |-> s.x, body |-> body, ups |-> ups, cell |-> cell]
        Plain(p) == <<Node(<<>>, <<>>, FALSE), p>>
    IN
    CASE s.k = "local" -> Plain(DeclareRec(pst, s.x))
      [] s.k \in {"set", "use"} -> Plain(ResolveName(pst, s.x))
      [] s.k \in {"lit", "call"} -> Plain(pst)
      [] s.k = "block" -> LET b == ParseBlock(s.body, pst) IN <<Node(b[1], <<>>, FALSE), b[2]>>
      [] s.k = "for" -> LET b == ParseBlock(s.body, DeclareRec(pst, s.x)) IN
                        <<Node(b[1], <<>>, b[2].locals[mark + 1].captured), Back(b[2])>>
      [] s.k = "func" ->
            LET open == [pst EXCEPT !.funcs = Append(@, <<>>)]
                b == ParseBlock(s.body, IF s.x = NoName THEN open ELSE DeclareRec(open, s.x))
            IN  <<Node(b[1], Last(b[2].funcs), FALSE), [Back(b[2]) EXCEPT !.funcs = Front(@)]>>

\* Locals declared in a block go out of scope at its end.
ParseBlock(stats, pst) ==
    LET all == FoldLeft(LAMBDA acc, s : LET r == ParseStat(s, acc[2]) IN <<Append(acc[1], r[1]), r[2]>>,
                        <<<<>>, pst>>, stats)
    IN  <<all[1], [all[2] EXCEPT !.locals = SubSeq(@, 1, Len(pst.locals))]>>

Parse(p) == ParseBlock(p, [locals |-> <<>>, funcs |-> <<<<>>>>, ok |-> TRUE])

-----------------------------------------------------------------------------
(* Frames.  A call's frame ends the search for locals and leads to the     *)
(* upvalues of its closure.                                                *)
Frame(call, closure, todo, env) ==
    [locals |-> <<>>, call |-> call, closure |-> closure, round |-> 0, todo |-> todo, env |-> env]
Local(name, value, cell) == [name |-> name, value |-> value, cell |-> cell]
Top == frames[Len(frames)]

\* The frames of the running function, and those of them that have the name.
OwnFrames == {f \in DOMAIN frames : \A g \in f + 1 .. Len(frames) : ~frames[g].call}
Having(name) == {f \in OwnFrames : \E i \in DOMAIN frames[f].locals : frames[f].locals[i].name = name}

\* Innermost frame first; in a frame, the first local declared under the name.
FindFrame(name) == Greatest(Having(name))
FindLocal(f, name) == Least({i \in DOMAIN frames[f].locals : frames[f].locals[i].name = name})

\* The upvalues of the running function's closure that have the name.
Running == frames[Least(OwnFrames)].closure
Upvalues(name) ==
    IF Running = NO_CLOSURE THEN {}
    ELSE {i \in DOMAIN closures[Running].ups : closures[Running].ups[i].name = name}
UpCell(name) == closures[Running].ups[Least(Upvalues(name))].cell

\* lookup: local, upvalue, global.
Lookup(name) ==
    IF Having(name) # {} THEN
        LET l == frames[FindFrame(name)].locals[FindLocal(FindFrame(name), name)] IN
        IF l.cell = NO_CELL THEN l.value ELSE cells[l.cell]
    ELSE IF Upvalues(name) # {} THEN
        IF UpCell(name) = NO_CELL THEN Undefined ELSE cells[UpCell(name)]
    ELSE LET g == {i \in DOMAIN globals : globals[i].name = name} IN
         IF g = {} THEN Undefined ELSE globals[Least(g)].value

\* A global beyond the last slot is dropped.
SetGlobal(name, v) ==
    LET g == {i \in DOMAIN globals : globals[i].name = name} IN
    globals' = IF g # {} THEN [globals EXCEPT ![Least(g)].value = v]
               ELSE IF Len(globals) < MAX_GLOBALS THEN Append(globals, [name |-> name, value |-> v])
               ELSE globals

\* What a name means: the newest variable of that name in sight, else a global.
Meant(name) ==
    LET hits == {i \in DOMAIN Top.env : Top.env[i].name = name} IN
    IF hits = {} THEN [global |-> TRUE, at |-> 0]
    ELSE [global |-> FALSE, at |-> Top.env[Greatest(hits)].at]
GlobalsMeant(name) == LET g == {i \in DOMAIN globals : globals[i].name = name} IN
                      IF g = {} THEN Undefined ELSE globals[Least(g)].value
MeantValue(name) == IF Meant(name).global THEN GlobalsMeant(name) ELSE store[Meant(name).at]

-----------------------------------------------------------------------------
Init ==
    /\ prog \in Programs
    /\ LET parsed == Parse(prog) IN
        /\ frames = <<Frame(TRUE, NO_CLOSURE, parsed[1], <<>>)>>
        /\ running = parsed[2].ok
    /\ cells = <<>> /\ closures = <<>> /\ globals = <<>>
    /\ values = 0 /\ store = <<>>
    /\ seen = [read |-> 0, meant |-> 0]

\* The statement that runs next, and its frame without it.
Ready(kinds) == running /\ Top.todo # <<>> /\ Head(Top.todo).k \in kinds
Stat == Head(Top.todo)
Advanced == [frames EXCEPT ![Len(frames)].todo = Tail(@)]
Here == Len(frames)

Declare ==
    /\ Ready({"local"}) /\ Len(Top.locals) < MAX_LOCALS
    /\ values' = values + 1
    /\ store' = Append(store, values + 1)
    /\ frames' = [Advanced EXCEPT ![Here].locals = Append(@, Local(Stat.x, values + 1, NO_CELL)),
                                  ![Here].env = Append(@, [name |-> Stat.x, at |-> Len(store) + 1])]
    /\ UNCHANGED <<prog, cells, closures, globals, seen, running>>

\* assign_local, else set_global.
Assign ==
    /\ Ready({"set"})
    /\ values' = values + 1
    /\ LET x == Stat.x v == values + 1
           f == FindFrame(x) i == FindLocal(f, x) cell == frames[f].locals[i].cell
       IN
       /\ \/ /\ Having(x) # {} /\ cell = NO_CELL
             /\ frames' = [Advanced EXCEPT ![f].locals[i].value = v]
             /\ UNCHANGED <<cells, globals>>
          \/ /\ Having(x) # {} /\ cell # NO_CELL
             /\ cells' = [cells EXCEPT ![cell] = v]
             /\ frames' = Advanced /\ UNCHANGED globals
          \/ /\ Having(x) = {} /\ Upvalues(x) # {}
             /\ cells' = IF UpCell(x) = NO_CELL THEN cells ELSE [cells EXCEPT ![UpCell(x)] = v]
             /\ frames' = Advanced /\ UNCHANGED globals
          \/ /\ Having(x) = {} /\ Upvalues(x) = {}
             /\ SetGlobal(x, v)
             /\ frames' = Advanced /\ UNCHANGED cells
       /\ store' = IF Meant(x).global THEN store ELSE [store EXCEPT ![Meant(x).at] = v]
    /\ UNCHANGED <<prog, closures, seen, running>>

\* An undefined variable is an error.
Use ==
    /\ Ready({"use", "lit"})
    /\ seen' = [read |-> Lookup(Stat.x), meant |-> MeantValue(Stat.x)]
    /\ running' = (Lookup(Stat.x) # Undefined)
    /\ frames' = Advanced
    /\ UNCHANGED <<prog, cells, closures, globals, values, store>>

\* PushScope .. PopScope around a block.
EnterBlock ==
    /\ Ready({"block"}) /\ Here < MAX_FRAMES
    /\ frames' = Append(Advanced, Frame(FALSE, NO_CLOSURE, Stat.body, Top.env))
    /\ UNCHANGED <<prog, cells, closures, globals, values, store, seen, running>>

\* ForPrep: the control frame, in which the loop's variable lives.
EnterFor ==
    /\ Ready({"for"}) /\ Here < MAX_FRAMES
    /\ frames' = Append(Advanced, [Frame(FALSE, NO_CLOSURE, <<[Stat EXCEPT !.k = "round"]>>, Top.env)
                                    EXCEPT !.round = 1])
    /\ UNCHANGED <<prog, cells, closures, globals, values, store, seen, running>>

\* set_local_top_cell: a fresh cell for each round.
LoopCell(v) == Append(cells, v)

\* ForPrep, ForLoop: the variable gets the round's value -- in a fresh cell
\* when the body captures it -- and the body runs in a frame of its own.
Round ==
    /\ Ready({"round"}) /\ Top.round <= Rounds /\ Here < MAX_FRAMES
    /\ Stat.cell => Len(cells) < MAX_CELLS
    /\ LET v == values + 1
           fresh == Local(Stat.x, IF Stat.cell THEN 0 ELSE v,
                          IF Stat.cell THEN Len(LoopCell(v)) ELSE NO_CELL)
           env == Append(Top.env, [name |-> Stat.x, at |-> Len(store) + 1])
       IN
       /\ values' = v
       /\ store' = Append(store, v)
       /\ cells' = IF Stat.cell THEN LoopCell(v) ELSE cells
       /\ frames' = Append([frames EXCEPT ![Here].locals = <<fresh>>, ![Here].round = @ + 1],
                           Frame(FALSE, NO_CLOSURE, Stat.body, env))
    /\ UNCHANGED <<prog, closures, globals, seen, running>>

LeaveFor ==
    /\ Ready({"round"}) /\ Top.round > Rounds
    /\ frames' = SubSeq(frames, 1, Here - 1)
    /\ UNCHANGED <<prog, cells, closures, globals, values, store, seen, running>>

(***************************************************************************)
(* MakeClosure: each upvalue is the cell of the enclosing function's       *)
(* local, boxed now if it was not yet, or else the enclosing closure's     *)
(* upvalue of that name.  A full cell or closure table is an error.        *)
(***************************************************************************)
Capture(acc, name) ==
    LET own == Having(name) f == FindFrame(name) i == FindLocal(f, name)
        l == acc.frames[f].locals[i]
        Up(a, c) == [a EXCEPT !.ups = Append(@, [name |-> name, cell |-> c])]
    IN
    IF own # {} THEN
        IF l.cell # NO_CELL THEN Up(acc, l.cell)
        ELSE Up([acc EXCEPT !.cells = Append(@, l.value),
                            !.frames[f].locals[i].cell = Len(acc.cells) + 1], Len(acc.cells) + 1)
    ELSE Up(acc, IF Upvalues(name) = {} THEN NO_CELL ELSE UpCell(name))

Made == FoldLeft(Capture, [frames |-> Advanced, cells |-> cells, ups |-> <<>>], Stat.ups)

MakeClosure ==
    /\ Ready({"func"}) /\ Len(closures) < MAX_CLOSURES
    /\ Len(Made.cells) <= MAX_CELLS
    /\ frames' = Made.frames /\ cells' = Made.cells
    /\ closures' = Append(closures, [ups |-> Made.ups, x |-> Stat.x, body |-> Stat.body, env |-> Top.env])
    /\ UNCHANGED <<prog, globals, values, store, seen, running>>

\* setup_func_frame: the parameter is the first local of the call's frame.
Call ==
    /\ Ready({"call"}) /\ closures # <<>> /\ Here < MAX_FRAMES
    /\ LET c == Last(closures)
           new == Frame(TRUE, Len(closures), c.body, c.env)
       IN  IF c.x = NoName
           THEN frames' = Append(Advanced, new) /\ UNCHANGED <<values, store>>
           ELSE /\ values' = values + 1
                /\ store' = Append(store, values + 1)
                /\ frames' = Append(Advanced,
                        [new EXCEPT !.locals = <<Local(c.x, values + 1, NO_CELL)>>,
                                    !.env = Append(@, [name |-> c.x, at |-> Len(store) + 1])])
    /\ UNCHANGED <<prog, cells, closures, globals, seen, running>>

\* PopScope, Return; the end of the script.
Leave ==
    /\ running /\ Top.todo = <<>>
    /\ frames' = SubSeq(frames, 1, Here - 1)
    /\ running' = (Here > 1)
    /\ UNCHANGED <<prog, cells, closures, globals, values, store, seen>>

\* "too many locals", "call stack overflow", "too many captured variables",
\* "too many closures", a call of nothing.
Error ==
    /\ \/ Ready({"local"}) /\ Len(Top.locals) >= MAX_LOCALS
       \/ Ready({"block", "for", "call"}) /\ Here >= MAX_FRAMES
       \/ Ready({"round"}) /\ Top.round <= Rounds /\ Here >= MAX_FRAMES
       \/ Ready({"round"}) /\ Top.round <= Rounds /\ Stat.cell /\ Len(cells) >= MAX_CELLS
       \/ Ready({"func"}) /\ (Len(closures) >= MAX_CLOSURES \/ Len(Made.cells) > MAX_CELLS)
       \/ Ready({"call"}) /\ closures = <<>>
    /\ running' = FALSE
    /\ UNCHANGED <<prog, frames, cells, closures, globals, values, store, seen>>

Next == Declare \/ Assign \/ Use \/ EnterBlock \/ EnterFor \/ Round \/ LeaveFor \/ MakeClosure \/ Call
        \/ Leave \/ Error

Spec == Init /\ [][Next]_vars

-----------------------------------------------------------------------------
Agrees == seen.read = seen.meant

\* The variables a block declares: a function's parameter is one of its body's.
DeclaredIn(stats) == SelectSeq(stats, LAMBDA s : s.k = "local")
RECURSIVE OnceEach(_, _)
OnceEach(stats, params) ==
    LET names == params \o [i \in DOMAIN DeclaredIn(stats) |-> DeclaredIn(stats)[i].x] IN
    /\ IsInjective(names)
    /\ \A i \in DOMAIN stats : OnceEach(stats[i].body,
            IF stats[i].k = "func" /\ stats[i].x # NoName THEN <<stats[i].x>> ELSE <<>>)

RECURSIVE NoLit(_)
NoLit(stats) == \A i \in DOMAIN stats : stats[i].k # "lit" /\ NoLit(stats[i].body)

(***************************************************************************)
(* A name read in a block gives the value last assigned to the variable    *)
(* that lexical scoping says it means, whichever frame, cell or upvalue    *)
(* holds it: locals of enclosing blocks, variables of enclosing functions  *)
(* that have returned, each round of a loop its own -- in a program where  *)
(* no block declares a name twice (the second is not seen, the first goes  *)
(* on being found) and no table constructor holds a bare name.  (lib.rs lookup, find_or_box_local_cell; parse.rs resolve_name.)  *)
(***************************************************************************)
LexicalScoping == OnceEach(prog, <<>>) /\ NoLit(prog) => Agrees
=============================================================================
