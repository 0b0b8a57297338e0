--------------------------- MODULE LuaCoroutines ---------------------------
(***************************************************************************)
(* Coroutines, protected calls and nested runs of the Lua virtual machine  *)
(* (lua/src/vm.rs, with the coroutine builtins of lua/src/eval.rs).        *)
(*                                                                         *)
(* A Lua thread is a stack of frames.  The running thread's stack is in    *)
(* the machine itself; the others are parked in `threads'.  The            *)
(* interpreter run_at is entered again, on the Rust stack, for the script, *)
(* for every resume, and for every call a builtin makes back into Lua (a   *)
(* metamethod, an xpcall handler).  These activations are `runs'; each has *)
(* a floor, the height of the frame stack below which it must not unwind.  *)
(*                                                                         *)
(* Values, locals and operand stacks are left out: a frame is what kind it *)
(* is, which decides where control goes when it returns, and the serial    *)
(* number of the coroutine that pushed it.  Block scopes push frames that  *)
(* behave like "func" frames here.                                         *)
(***************************************************************************)
EXTENDS Integers, Sequences, FiniteSets

CONSTANTS
    MAX_COS,        \* coroutine records (3 in the code)
    MAX_FRAMES,     \* frames of one thread (16 in the code)
    MaxSerial,      \* bound: coroutines created in a behaviour
    MaxNested       \* bound: nested runs at one time (MAX_MM_DEPTH, 100)

ASSUME PoolAssumption == MAX_COS \in Nat /\ MAX_FRAMES \in Nat \ {0}
ASSUME BoundAssumption == MaxSerial \in Nat /\ MaxNested \in Nat

Co == 1 .. MAX_COS              \* a coroutine record, and its thread
Thread == 0 .. MAX_COS          \* 0 is the main thread
Serial == 0 .. MaxSerial        \* 0 is the main script

\* Frames that end a run when they return (RET_HALT), and pcall/xpcall marks.
HaltKind == {"root", "body", "nested"}
ProtKind == {"pcall", "xpcall"}
FrameKind == HaltKind \cup ProtKind \cup {"func", "callee"}
Frame == [kind : FrameKind, co : Serial]

Status == {"dead", "suspended", "running", "normal"}

VARIABLES
    current,    \* index of the running thread
    flat,       \* its frames
    threads,    \* saved frames, one slot per thread
    cos,        \* the coroutine records
    runs,       \* activations of run_at on the Rust stack, innermost last
    mode,       \* what the innermost run is doing: see below
    serials     \* coroutines created so far

vars == <<current, flat, threads, cos, runs, mode, serials>>

\* run:   executing instructions
\* raise: an instruction of the innermost run failed, before unwinding
\* fail:  the innermost run is returning Err
\* done:  the script ended and the shell has not started the next one
Mode == {"run", "raise", "fail", "done"}

DeadCo == [status |-> "dead", started |-> FALSE, serial |-> 0]

Depth == Len(flat)
TopRun == runs[Len(runs)]
BelowTop == SubSeq(runs, 1, Len(runs) - 1)
TopKind == IF Depth = 0 THEN "none" ELSE flat[Depth].kind
Self == IF current = 0 THEN 0 ELSE cos[current].serial
NewFrame(kind) == [kind |-> kind, co |-> Self]
\* Mutant: one frame too many.
Full_OffByOne == Depth = MAX_FRAMES + 1

Full == Depth = MAX_FRAMES

\* The frames after fsp = n, which the code only writes to drop frames.
Cut(n) == SubSeq(flat, 1, IF n < Depth THEN n ELSE Depth)

Run(kind, th, parent, floor, wrap) ==
    [kind |-> kind, th |-> th, parent |-> parent, floor |-> floor, wrap |-> wrap]

RunRecord == [kind : {"root", "resume", "meta", "handler"}, th : Thread,
              parent : Thread, floor : 0 .. MAX_FRAMES, wrap : BOOLEAN]
CoRecord == [status : Status, started : BOOLEAN, serial : Serial]

MainRun == Run("root", 0, 0, 1, FALSE)
Nested == {k \in 1 .. Len(runs) : runs[k].kind \in {"meta", "handler"}}

Init ==
    /\ current = 0
    /\ flat = <<[kind |-> "root", co |-> 0]>>
    /\ threads = [t \in Thread |-> <<>>]
    /\ cos = [i \in Co |-> DeadCo]
    /\ runs = <<MainRun>>
    /\ mode = "run"
    /\ serials = 0

(***************************************************************************)
(* swap_threads, from the running thread to another: exchange the machine  *)
(* with the target's slot, then the two slots.  Swap(to, f) gives control  *)
(* to thread `to', whose frames become f.                                  *)
(***************************************************************************)
\* Mutant: the second exchange is forgotten.
Swap_Half(to, newFlat) ==
    /\ current' = to
    /\ flat' = newFlat
    /\ threads' = [threads EXCEPT ![to] = flat]

Swap(to, newFlat) ==
    /\ current' = to
    /\ flat' = newFlat
    /\ threads' = [threads EXCEPT ![current] = flat, ![to] = threads[current]]

(***************************************************************************)
(* coroutine.create: the first dead record is used again, its thread       *)
(* emptied.  With none left the builtin raises an error (see Error).       *)
(***************************************************************************)
\* Mutant: a suspended coroutine's record is taken for free.
Create_TakesSuspended ==
    /\ mode = "run" /\ serials < MaxSerial
    /\ \E i \in Co :
        /\ cos[i].status \in {"dead", "suspended"}
        /\ cos' = [cos EXCEPT ![i] =
                    [status |-> "suspended", started |-> FALSE, serial |-> serials + 1]]
        /\ threads' = [threads EXCEPT ![i] = <<>>]
    /\ serials' = serials + 1
    /\ UNCHANGED <<current, flat, runs, mode>>

Create ==
    /\ mode = "run" /\ serials < MaxSerial
    /\ \E i \in Co :
        /\ cos[i].status = "dead"
        /\ \A j \in Co : cos[j].status = "dead" => i <= j
        /\ cos' = [cos EXCEPT ![i] =
                    [status |-> "suspended", started |-> FALSE, serial |-> serials + 1]]
        /\ threads' = [threads EXCEPT ![i] = <<>>]
    /\ serials' = serials + 1
    /\ UNCHANGED <<current, flat, runs, mode>>

(***************************************************************************)
(* coroutine.resume and a call of a coroutine.wrap function, of a          *)
(* suspended coroutine.  Of any other coroutine they return false or       *)
(* raise, without a change of state here.  A pcall whose callee is         *)
(* coroutine.resume or a wrap function pushes its frame first (see         *)
(* ProtectNative).                                                         *)
(***************************************************************************)
\* Mutant: the resumer stays marked as running.
Entered_KeepRunning(i) ==
    [cos EXCEPT ![i].status = "running", ![i].started = TRUE]

\* The records once i runs and its resumer waits for it.
Entered(i) ==
    [j \in Co |-> CASE j = i       -> [cos[j] EXCEPT !.status = "running", !.started = TRUE]
                    [] j = current -> [cos[j] EXCEPT !.status = "normal"]
                    [] OTHER       -> cos[j]]

Body(i) == <<[kind |-> "body", co |-> cos[i].serial]>>

Resume(wrap) ==
    /\ mode = "run"
    /\ \E i \in Co :
        /\ cos[i].status = "suspended"
        /\ cos' = Entered(i)
        /\ IF cos[i].started
           THEN /\ Swap(i, threads[i])
                /\ runs' = Append(runs, Run("resume", i, current, 0, wrap))
           ELSE /\ Swap(i, Body(i))
                /\ runs' = Append(runs, Run("resume", i, current, 1, wrap))
    /\ UNCHANGED <<mode, serials>>

\* The body is a builtin: it is called once, returns, and the coroutine is dead.
ResumeNative ==
    /\ mode = "run"
    /\ \E i \in Co :
        /\ cos[i].status = "suspended" /\ ~cos[i].started
        /\ cos' = [cos EXCEPT ![i].status = "dead", ![i].started = TRUE]
    /\ UNCHANGED <<current, flat, threads, runs, mode, serials>>

\* coroutine.close of a suspended coroutine.
Close ==
    /\ mode = "run"
    /\ \E i \in Co : cos[i].status = "suspended" /\ cos' = [cos EXCEPT ![i].status = "dead"]
    /\ UNCHANGED <<current, flat, threads, runs, mode, serials>>

(***************************************************************************)
(* Calls.                                                                  *)
(***************************************************************************)
\* error(), a failed builtin, a full pool: any instruction may raise.
Error ==
    /\ mode = "run"
    /\ mode' = "raise"
    /\ UNCHANGED <<current, flat, threads, cos, runs, serials>>

\* push_frame fails when the thread's frames are used up.
Call ==
    /\ mode = "run" /\ ~Full /\ TopKind \notin ProtKind
    /\ flat' = Append(flat, NewFrame("func"))
    /\ UNCHANGED <<current, threads, cos, runs, mode, serials>>

\* pcall(f, ...) and xpcall(f, h, ...): the protected frame, then the callee's,
\* for which there may be no room any more: then the call fails under protection.
Protect ==
    /\ mode = "run" /\ ~Full /\ TopKind \notin ProtKind
    /\ \E kind \in ProtKind :
        IF Depth + 1 < MAX_FRAMES
        THEN /\ flat' = flat \o <<NewFrame(kind), NewFrame("callee")>>
             /\ mode' = mode
        ELSE /\ flat' = Append(flat, NewFrame(kind))
             /\ mode' = "raise"
    /\ UNCHANGED <<current, threads, cos, runs, serials>>

\* pcall of a builtin: the builtin runs with the protected frame on top.
\* (It is popped by finish_pcall, or by the unwinding.)
ProtectNative ==
    /\ mode = "run" /\ ~Full /\ TopKind \notin ProtKind
    /\ \E kind \in ProtKind : flat' = Append(flat, NewFrame(kind))
    /\ UNCHANGED <<current, threads, cos, runs, mode, serials>>

\* finish_pcall
FinishProtect ==
    /\ mode = "run" /\ TopKind \in ProtKind
    /\ flat' = Cut(Depth - 1)
    /\ UNCHANGED <<current, threads, cos, runs, mode, serials>>

\* A metamethod, or a callback of a builtin: call_value enters run again.
CallMeta ==
    /\ mode = "run" /\ ~Full
    /\ Cardinality(Nested) < MaxNested
    /\ flat' = Append(flat, NewFrame("nested"))
    /\ runs' = Append(runs, Run("meta", current, current, Depth + 1, FALSE))
    /\ UNCHANGED <<current, threads, cos, mode, serials>>

(***************************************************************************)
(* The end of a run of a coroutine: back to the resumer's thread, which    *)
(* runs again.  `then' is the mode of its run.                             *)
(***************************************************************************)
\* Mutant: the resumer is left as it was.
Left_ParentNormal(i, parent, status) == [cos EXCEPT ![i].status = status]

Left(i, parent, status) ==
    [j \in Co |-> CASE j = i      -> [cos[j] EXCEPT !.status = status]
                    [] j = parent -> [cos[j] EXCEPT !.status = "running"]
                    [] OTHER      -> cos[j]]

\* Leave the coroutine of the innermost run, whose frames are f by now.
SwitchBack(frames, status, then) ==
    LET to == TopRun.parent IN
    /\ current' = to
    /\ flat' = threads[to]
    /\ threads' = [threads EXCEPT ![TopRun.th] = frames, ![to] = threads[TopRun.th]]
    /\ cos' = Left(TopRun.th, to, status)
    /\ runs' = BelowTop
    /\ mode' = then

\* The Return instruction pops the top frame.
ReturnCall ==
    /\ mode = "run" /\ TopKind = "func"
    /\ flat' = Cut(Depth - 1)
    /\ UNCHANGED <<current, threads, cos, runs, mode, serials>>

\* RET_PCALL: the callee's frame and the protected frame below it.
ReturnProtected ==
    /\ mode = "run" /\ TopKind = "callee"
    /\ flat' = Cut(Depth - 2)
    /\ UNCHANGED <<current, threads, cos, runs, mode, serials>>

\* RET_HALT: the innermost run is over, whichever that is.
ReturnHalt ==
    /\ mode = "run" /\ TopKind \in HaltKind
    /\ LET rest == Cut(Depth - 1) IN
       CASE TopRun.kind = "root" ->
                /\ mode' = "done"
                /\ flat' = rest
                /\ UNCHANGED <<current, threads, cos, runs>>
         [] TopRun.kind = "resume" ->
                SwitchBack(rest, "dead", "run")
         [] OTHER ->
                /\ runs' = BelowTop
                /\ flat' = rest
                /\ UNCHANGED <<current, threads, cos, mode>>
    /\ UNCHANGED serials

(***************************************************************************)
(* coroutine.yield.                                                        *)
(***************************************************************************)
\* Suspend the running coroutine with these frames.
Suspend == SwitchBack(flat, "suspended", "run")

\* Directly in the coroutine's own run.  Under a protected frame with no
\* callee, pcall(coroutine.yield), the call raises instead.
Yield ==
    /\ mode = "run" /\ current # 0 /\ TopRun.kind = "resume"
    /\ TopKind \notin ProtKind
    /\ Suspend
    /\ UNCHANGED serials

ProtectedInRun == {d \in TopRun.floor + 1 .. Depth : flat[d].kind \in ProtKind}

\* Mutant: a yield inside a nested run suspends the coroutine.
YieldMeta_Suspends ==
    /\ mode = "run" /\ current # 0 /\ TopRun.kind = "meta"
    /\ runs[Len(runs) - 1].kind = "resume"
    /\ LET to == runs[Len(runs) - 1].parent IN
       /\ current' = to
       /\ flat' = threads[to]
       /\ threads' = [threads EXCEPT ![current] = flat, ![to] = threads[current]]
       /\ cos' = Left(current, to, "suspended")
       /\ runs' = SubSeq(runs, 1, Len(runs) - 2)
       /\ UNCHANGED <<mode, serials>>

\* In a run nested in a coroutine: the nested run returns to call_mm, which
\* raises "attempt to yield across a metamethod" in the run around it.  The
\* nested frames stay until that error is caught.
YieldMeta ==
    /\ mode = "run" /\ current # 0 /\ TopRun.kind = "meta"
    /\ ProtectedInRun = {}
    /\ runs' = BelowTop
    /\ mode' = "raise"
    /\ UNCHANGED <<current, flat, threads, cos, serials>>

\* In an xpcall handler: unwind_protected itself fails, and the run around
\* it, here the coroutine's own, ends with that error whatever protected
\* frames it has.
YieldHandler ==
    /\ mode = "run" /\ current # 0 /\ TopRun.kind = "handler"
    /\ runs[Len(runs) - 1].kind = "resume"
    /\ runs' = BelowTop
    /\ mode' = "fail"
    /\ UNCHANGED <<current, flat, threads, cos, serials>>

(***************************************************************************)
(* unwind_protected: the innermost protected frame at or above the floor.  *)
(***************************************************************************)
\* Mutant: the floor is ignored.
Catchers_NoFloor == {d \in 1 .. Depth : flat[d].kind \in ProtKind}

Catchers == {d \in TopRun.floor + 1 .. Depth : flat[d].kind \in ProtKind}

Catch ==
    /\ mode = "raise"
    /\ \E d \in Catchers :
        /\ \A e \in Catchers : e <= d
        /\ mode' = "run"
        /\ IF flat[d].kind = "pcall"
           THEN flat' = Cut(d - 1) /\ UNCHANGED runs
           ELSE \* the frame is dropped and the handler called where it was
                /\ flat' = Append(Cut(d - 1), NewFrame("nested"))
                /\ runs' = Append(runs, Run("handler", current, current, d, FALSE))
    /\ UNCHANGED <<current, threads, cos, serials>>

\* The handler is a builtin: its result follows at once.
CatchNative ==
    /\ mode = "raise"
    /\ \E d \in Catchers :
        /\ \A e \in Catchers : e <= d
        /\ flat[d].kind = "xpcall"
        /\ flat' = Cut(d - 1)
    /\ mode' = "run"
    /\ UNCHANGED <<current, threads, cos, runs, serials>>

Propagate ==
    /\ mode = "raise" /\ Catchers = {}
    /\ mode' = "fail"
    /\ UNCHANGED <<current, flat, threads, cos, runs, serials>>

(***************************************************************************)
(* The innermost run returns Err to whoever entered it.                    *)
(***************************************************************************)
\* The script or shell line ends with the error.
FailRoot ==
    /\ mode = "fail" /\ TopRun.kind = "root"
    /\ mode' = "done"
    /\ UNCHANGED <<current, flat, threads, cos, runs, serials>>

\* resume: the coroutine is dead; false and the error, or, from wrap, the
\* error raised again in the resumer.
FailResume ==
    /\ mode = "fail" /\ TopRun.kind = "resume"
    /\ SwitchBack(flat, "dead", IF TopRun.wrap THEN "raise" ELSE "run")
    /\ UNCHANGED serials

\* A metamethod's error is an error of the instruction that called it.
FailMeta ==
    /\ mode = "fail" /\ TopRun.kind = "meta"
    /\ runs' = BelowTop
    /\ mode' = "raise"
    /\ UNCHANGED <<current, flat, threads, cos, serials>>

\* An xpcall handler's error: its frames are dropped and the search goes on.
FailHandler ==
    /\ mode = "fail" /\ TopRun.kind = "handler"
    /\ flat' = Cut(TopRun.floor - 1)
    /\ runs' = BelowTop
    /\ mode' = "raise"
    /\ UNCHANGED <<current, threads, cos, serials>>

(***************************************************************************)
(* run_repl_once starts the next line with an empty stack, and leaves the  *)
(* coroutines as they are; LuaState::reset, for a script, kills them.      *)
(***************************************************************************)
NextLine ==
    /\ mode = "done"
    /\ flat' = <<[kind |-> "root", co |-> Self]>>
    /\ runs' = <<MainRun>>
    /\ mode' = "run"
    /\ UNCHANGED <<current, threads, cos, serials>>

NextScript ==
    /\ mode = "done"
    /\ current' = 0
    /\ flat' = <<[kind |-> "root", co |-> 0]>>
    /\ runs' = <<MainRun>>
    /\ cos' = [i \in Co |-> [cos[i] EXCEPT !.status = "dead"]]
    /\ mode' = "run"
    /\ UNCHANGED <<threads, serials>>

Coroutines ==
    \/ Create \/ Resume(FALSE) \/ Resume(TRUE) \/ ResumeNative \/ Close
    \/ Yield \/ YieldMeta \/ YieldHandler

Calls ==
    \/ Error \/ Call \/ Protect \/ ProtectNative \/ FinishProtect \/ CallMeta
    \/ ReturnCall \/ ReturnProtected \/ ReturnHalt

Unwinding ==
    \/ Catch \/ CatchNative \/ Propagate
    \/ FailRoot \/ FailResume \/ FailMeta \/ FailHandler

Next == Coroutines \/ Calls \/ Unwinding \/ NextLine \/ NextScript

Spec == Init /\ [][Next]_vars

(***************************************************************************)
(* What Next leaves out: scripts that meet one of four defects.            *)
(***************************************************************************)
\* A body with more than MAX_LOCALS parameters, or arguments that overflow
\* the operand stack: the setup fails between the two swaps of the resume,
\* and the error is returned from there.
ResumeSetupFails ==
    /\ mode = "run"
    /\ \E i \in Co :
        /\ cos[i].status = "suspended"
        /\ cos' = Entered(i)
        /\ Swap(i, IF cos[i].started THEN threads[i] ELSE Body(i))
    /\ mode' = "raise"
    /\ UNCHANGED <<runs, serials>>

\* A yield in a function called as __call or __pairs: neither rejects it.
YieldCallable ==
    /\ mode = "run" /\ current # 0 /\ TopRun.kind = "meta"
    /\ runs[Len(runs) - 1].kind = "resume"
    /\ LET to == runs[Len(runs) - 1].parent IN
       /\ current' = to
       /\ flat' = threads[to]
       /\ threads' = [threads EXCEPT ![current] = flat, ![to] = threads[current]]
       /\ cos' = Left(current, to, "suspended")
       /\ runs' = SubSeq(runs, 1, Len(runs) - 2)
       /\ UNCHANGED <<mode, serials>>

\* A yield in a comparison function of table.sort: taken for "not less".
YieldSort ==
    /\ mode = "run" /\ current # 0 /\ TopRun.kind = "meta"
    /\ runs' = BelowTop
    /\ UNCHANGED <<current, flat, threads, cos, mode, serials>>

\* A yield under a pcall of the metamethod, or in a handler called inside
\* one: the run around it catches the rejected yield at a pcall whose run
\* is gone.
YieldMetaProtected ==
    /\ mode = "run" /\ current # 0
    /\ \/ TopRun.kind = "meta" /\ ProtectedInRun # {} /\ mode' = "raise"
       \/ TopRun.kind = "handler" /\ runs[Len(runs) - 1].kind # "resume" /\ mode' = "fail"
    /\ runs' = BelowTop
    /\ UNCHANGED <<current, flat, threads, cos, serials>>

SetupSpec == Init /\ [][Next \/ ResumeSetupFails]_vars
YieldSpec == Init /\ [][Next \/ YieldCallable \/ YieldSort \/ YieldMetaProtected]_vars

-----------------------------------------------------------------------------
(* Every variable has its type. *)
TypeOK ==
    /\ current \in Thread
    /\ flat \in Seq(Frame) /\ Depth <= MAX_FRAMES
    /\ threads \in [Thread -> Seq(Frame)]
    /\ cos \in [Co -> CoRecord]
    /\ runs \in Seq(RunRecord)
    /\ mode \in Mode
    /\ serials \in Serial

Resumes == {k \in 1 .. Len(runs) : runs[k].kind = "resume"}

(***************************************************************************)
(* The status of every coroutine and the running thread agree with the     *)
(* resumes that are under way: the innermost run's thread is the one that  *)
(* runs, every resume was entered from the thread of the run around it,    *)
(* and a coroutine is running or normal exactly while its resume is under  *)
(* way.  This is what yield, isyieldable, running, status and close rely   *)
(* on (eval.rs 3780-3855).                                                 *)
(***************************************************************************)
RunsNest ==
    /\ runs[1] = MainRun
    /\ TopRun.th = current
    /\ \A k \in 2 .. Len(runs) :
        /\ runs[k].kind # "root"
        /\ runs[k].parent = runs[k - 1].th
        /\ runs[k].th = IF runs[k].kind = "resume" THEN runs[k].th ELSE runs[k - 1].th

StatusAgrees ==
    \A i \in Co :
        /\ cos[i].status = "running" <=> i = current
        /\ cos[i].status = "normal" <=> i # current /\ \E k \in Resumes : runs[k].th = i

OncePerResume == \A j, k \in Resumes : runs[j].th = runs[k].th => j = k

ResumeChain == RunsNest /\ StatusAgrees /\ OncePerResume

(***************************************************************************)
(* A resume, however it ends, hands control back to the resumer: "Returns  *)
(* `true` plus the results, or `false` plus the error value" (vm.rs        *)
(* 1604-1605).  So the thread that runs is always the one the innermost    *)
(* run was entered for.                                                    *)
(***************************************************************************)
ResumeHandsBack == TopRun.th = current

(***************************************************************************)
(* No coroutine runs on another one's frames: swap_threads puts every      *)
(* stack back into its own slot, in whatever order coroutines resume one   *)
(* another, yield, fail and are created again in a dead one's slot.        *)
(***************************************************************************)
OwnFrames ==
    /\ \A d \in 1 .. Depth : flat[d].co = Self
    /\ current # 0 => \A d \in 1 .. Len(threads[0]) : threads[0][d].co = 0
    /\ \A i \in Co : i # current /\ cos[i].status # "dead" =>
            \A d \in 1 .. Len(threads[i]) : threads[i][d].co = cos[i].serial

(***************************************************************************)
(* A suspended coroutine can be resumed by entering run_at alone: no run   *)
(* that its frames would return to has been left.  Its frames are its body *)
(* and what the body called; none belongs to a nested run.                 *)
(***************************************************************************)
Resumable(i) ==
    /\ Len(threads[i]) > 0
    /\ \A d \in 1 .. Len(threads[i]) : threads[i][d].kind \in HaltKind <=> d = 1

SuspendedWhole ==
    \A i \in Co : cos[i].status = "suspended" /\ cos[i].started => Resumable(i)

(***************************************************************************)
(* While instructions execute, the frames that end a run are as many as    *)
(* the runs of this thread, so every run ends with its own root frame:     *)
(* "Execute bytecode starting at `entry` until the root frame returns"     *)
(* (vm.rs 680), and no catch unwinds into the run around it (686-690).     *)
(***************************************************************************)
RunsHere == {k \in 1 .. Len(runs) : runs[k].th = current}

RootPerRun ==
    mode = "run" =>
        Cardinality({d \in 1 .. Depth : flat[d].kind \in HaltKind}) = Cardinality(RunsHere)

(***************************************************************************)
(* A step that does not run a coroutine leaves its frames alone, from the  *)
(* yield or resume that parked it to the resume or return that brings it   *)
(* back.                                                                   *)
(***************************************************************************)
ParkedUntouched ==
    [][\A i \in Thread : i # current /\ i # current' =>
            \/ threads'[i] = threads[i]
            \/ i \in Co /\ cos[i].status = "dead"]_vars
=============================================================================
