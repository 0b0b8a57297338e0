------------------------ MODULE LuaCoroutinesProofs ------------------------
(***************************************************************************)
(* What holds of the coroutine machine for every number of coroutines,     *)
(* every depth of frames and every script.                                 *)
(***************************************************************************)
EXTENDS LuaCoroutines, FiniteSetTheorems, TLAPS

(* Cutting a sequence back keeps its elements and makes it no longer. *)
LEMMA Prefix ==
    ASSUME NEW S, NEW s \in Seq(S), NEW n \in Int, n <= Len(s)
    PROVE  /\ SubSeq(s, 1, n) \in Seq(S)
           /\ Len(SubSeq(s, 1, n)) <= Len(s)
           /\ n >= 0 => Len(SubSeq(s, 1, n)) = n
           /\ \A i \in 1 .. Len(SubSeq(s, 1, n)) :
                i \in 1 .. Len(s) /\ SubSeq(s, 1, n)[i] = s[i]
  OBVIOUS

(* Appending keeps what was there and adds one element at the end. *)
LEMMA Longer ==
    ASSUME NEW S, NEW s \in Seq(S), NEW e \in S
    PROVE  /\ Append(s, e) \in Seq(S)
           /\ Len(Append(s, e)) = Len(s) + 1
           /\ Append(s, e)[Len(s) + 1] = e
           /\ \A i \in 1 .. Len(s) : Append(s, e)[i] = s[i]
  OBVIOUS

-----------------------------------------------------------------------------
(***************************************************************************)
(* Type correctness needs two facts beside the types: every saved stack    *)
(* fits into a thread, since resume makes it the running one, and the      *)
(* first run is the script's, so that ending another run leaves one.       *)
(***************************************************************************)
TypeInv ==
    /\ TypeOK
    /\ \A t \in Thread : Len(threads[t]) <= MAX_FRAMES
    /\ Len(runs) >= 1 /\ runs[1].kind = "root"

(* TypeInv in the next state, from its parts. *)
LEMMA TypeIntro ==
    ASSUME current' \in Thread,
           flat' \in Seq(Frame), Len(flat') <= MAX_FRAMES,
           threads' \in [Thread -> Seq(Frame)],
           \A t \in Thread : Len(threads'[t]) <= MAX_FRAMES,
           cos' \in [Co -> CoRecord],
           runs' \in Seq(RunRecord), Len(runs') >= 1, runs'[1].kind = "root",
           mode' \in Mode, serials' \in Serial
    PROVE  TypeInv'
BY DEF TypeInv, TypeOK, RunRecord, Depth

(* A frame the running thread pushes is a frame. *)
LEMMA NewFrameType == ASSUME TypeInv, NEW k \in FrameKind PROVE NewFrame(k) \in Frame
<1>1. Self \in Serial
  BY PoolAssumption, BoundAssumption DEF TypeInv, TypeOK, Self, Serial, Thread, Co, CoRecord
<1> QED
  BY <1>1 DEF NewFrame, Frame

(* The run below one that is not the script's. *)
LEMMA BelowType ==
    ASSUME TypeInv, TopRun.kind # "root"
    PROVE  /\ Len(runs) >= 2
           /\ BelowTop \in Seq(RunRecord)
           /\ Len(BelowTop) = Len(runs) - 1
           /\ \A k \in 1 .. Len(runs) - 1 : BelowTop[k] = runs[k]
<1>1. runs \in Seq(RunRecord) /\ Len(runs) \in Nat /\ Len(runs) >= 1 /\ runs[1].kind = "root"
  BY DEF TypeInv, TypeOK, RunRecord
<1>2. Len(runs) # 1
  BY <1>1 DEF TopRun
<1>3. Len(runs) - 1 \in Int /\ Len(runs) - 1 <= Len(runs) /\ Len(runs) - 1 >= 0
  BY <1>1
<1>4. /\ BelowTop \in Seq(RunRecord)
      /\ Len(BelowTop) = Len(runs) - 1
      /\ \A k \in 1 .. Len(BelowTop) : BelowTop[k] = runs[k]
  BY <1>1, <1>3, Prefix DEF BelowTop
<1> QED
  BY <1>1, <1>2, <1>4

(* The fields of a run are those of a run record. *)
LEMMA TopRunType == ASSUME TypeInv PROVE TopRun \in RunRecord
<1>1. runs \in Seq(RunRecord) /\ Len(runs) \in Nat /\ Len(runs) >= 1
  BY DEF TypeInv, TypeOK, RunRecord
<1> QED
  BY <1>1 DEF TopRun

(* Leaving a coroutine. *)
LEMMA SwitchBackType ==
    ASSUME TypeInv, TopRun.kind = "resume",
           NEW frames \in Seq(Frame), Len(frames) <= MAX_FRAMES,
           NEW status \in Status, NEW then \in Mode,
           SwitchBack(frames, status, then), UNCHANGED serials
    PROVE  TypeInv'
<1>1. TopRun \in RunRecord /\ TopRun.parent \in Thread /\ TopRun.th \in Thread
  BY TopRunType DEF RunRecord
<1>2. cos' = Left(TopRun.th, TopRun.parent, status) /\ cos' \in [Co -> CoRecord]
  BY <1>1 DEF SwitchBack, Left, TypeInv, TypeOK, Status, CoRecord
<1>3. /\ Len(runs) >= 2
      /\ runs' \in Seq(RunRecord)
      /\ Len(runs') = Len(runs) - 1
      /\ runs'[1] = runs[1]
  BY BelowType DEF SwitchBack, TypeInv, TypeOK
<1>4. threads' = [threads EXCEPT ![TopRun.th] = frames, ![TopRun.parent] = threads[TopRun.th]]
  BY DEF SwitchBack
<1>5. threads' \in [Thread -> Seq(Frame)] /\ \A t \in Thread : Len(threads'[t]) <= MAX_FRAMES
  BY <1>1, <1>4 DEF TypeInv, TypeOK
<1>6. flat' \in Seq(Frame) /\ Len(flat') <= MAX_FRAMES
  BY <1>1 DEF SwitchBack, TypeInv, TypeOK
<1>7. current' \in Thread /\ mode' \in Mode /\ serials' \in Serial
  BY <1>1 DEF SwitchBack, TypeInv, TypeOK
<1>8. runs'[1].kind = "root"
  BY <1>3 DEF TypeInv
<1>9. Len(runs') >= 1
  BY <1>3 DEF TypeInv, TypeOK
<1> QED
  BY <1>2, <1>3, <1>5, <1>6, <1>7, <1>8, <1>9, TypeIntro

(* Entering a coroutine. *)
LEMMA ResumeType == ASSUME TypeInv, NEW w \in BOOLEAN, Resume(w) PROVE TypeInv'
<1>1. PICK i \in Co :
        /\ cos[i].status = "suspended"
        /\ cos' = Entered(i)
        /\ IF cos[i].started
           THEN /\ Swap(i, threads[i])
                /\ runs' = Append(runs, Run("resume", i, current, 0, w))
           ELSE /\ Swap(i, Body(i))
                /\ runs' = Append(runs, Run("resume", i, current, 1, w))
  BY DEF Resume
<1>2. i \in Thread /\ current \in Thread
  BY DEF Co, Thread, TypeInv, TypeOK
<1>3. Body(i) \in Seq(Frame) /\ Len(Body(i)) = 1
  BY DEF Body, Frame, FrameKind, HaltKind, TypeInv, TypeOK, CoRecord
<1>4. flat' \in Seq(Frame) /\ Len(flat') <= MAX_FRAMES
  <2>1. threads[i] \in Seq(Frame) /\ Len(threads[i]) <= MAX_FRAMES
    BY <1>2 DEF TypeInv, TypeOK
  <2>2. flat' = threads[i] \/ flat' = Body(i)
    BY <1>1 DEF Swap
  <2>3. 1 <= MAX_FRAMES
    BY PoolAssumption
  <2> QED
    BY <1>3, <2>1, <2>2, <2>3
<1>5. threads' = [threads EXCEPT ![current] = flat, ![i] = threads[current]]
  BY <1>1 DEF Swap
<1>6. threads' \in [Thread -> Seq(Frame)] /\ \A t \in Thread : Len(threads'[t]) <= MAX_FRAMES
  BY <1>2, <1>5 DEF TypeInv, TypeOK, Depth
<1>7. cos' \in [Co -> CoRecord]
  BY <1>1 DEF Entered, TypeInv, TypeOK, Status, CoRecord
<1>8. \A f \in {0, 1} : Run("resume", i, current, f, w) \in RunRecord
  BY <1>2, PoolAssumption DEF Run, RunRecord
<1>9. runs \in Seq(RunRecord)
  BY DEF TypeInv, TypeOK, RunRecord
<1>10. /\ runs' \in Seq(RunRecord)
       /\ Len(runs') = Len(runs) + 1
       /\ runs'[1] = runs[1]
  BY <1>1, <1>8, <1>9, Longer DEF TypeInv
<1>11. current' = i /\ mode' = mode /\ serials' = serials
  BY <1>1 DEF Resume, Swap
<1>12. current' \in Thread /\ mode' \in Mode /\ serials' \in Serial
  BY <1>2, <1>11 DEF TypeInv, TypeOK
<1>13. Len(runs') >= 1 /\ runs'[1].kind = "root"
  BY <1>9, <1>10 DEF TypeInv
<1> QED
  BY <1>4, <1>6, <1>7, <1>10, <1>12, <1>13, TypeIntro

(* A step that stays in its thread, and enters or leaves at most one run. *)
LEMMA StayType ==
    ASSUME TypeInv, UNCHANGED <<current, threads, cos, serials>>,
           flat' \in Seq(Frame), Len(flat') <= MAX_FRAMES, mode' \in Mode,
           \/ runs' = runs
           \/ \E r \in RunRecord : runs' = Append(runs, r)
           \/ runs' = BelowTop /\ TopRun.kind # "root"
    PROVE  TypeInv'
<1>1. runs \in Seq(RunRecord) /\ Len(runs) \in Nat /\ Len(runs) >= 1 /\ runs[1].kind = "root"
  BY DEF TypeInv, TypeOK, RunRecord
<1>2. runs' \in Seq(RunRecord) /\ Len(runs') >= 1 /\ runs'[1].kind = "root"
  <2>1. CASE runs' = runs
    BY <1>1, <2>1
  <2>2. CASE \E r \in RunRecord : runs' = Append(runs, r)
    BY <1>1, <2>2, Longer
  <2>3. CASE runs' = BelowTop /\ TopRun.kind # "root"
    BY <1>1, <2>3, BelowType
  <2> QED
    BY <2>1, <2>2, <2>3
<1> QED
  BY <1>2, TypeIntro DEF TypeInv, TypeOK

(* The running thread's frames, cut back by a return or an unwinding. *)
LEMMA CutType ==
    ASSUME TypeInv, NEW n \in Int
    PROVE  /\ Cut(n) \in Seq(Frame)
           /\ Len(Cut(n)) <= MAX_FRAMES
           /\ n < MAX_FRAMES => Len(Cut(n)) < MAX_FRAMES
<1>1. flat \in Seq(Frame) /\ Len(flat) <= MAX_FRAMES /\ Len(flat) \in Nat
  BY DEF TypeInv, TypeOK, Depth
<1> DEFINE m == IF n < Len(flat) THEN n ELSE Len(flat)
<1>2. m \in Int /\ m <= Len(flat) /\ m <= n /\ Cut(n) = SubSeq(flat, 1, m)
  BY <1>1 DEF Cut, Depth
<1> HIDE DEF m
<1>3. /\ Cut(n) \in Seq(Frame)
      /\ Len(Cut(n)) <= Len(flat)
      /\ m >= 0 => Len(Cut(n)) = m
  BY <1>1, <1>2, Prefix
<1>4. m < 0 => Len(Cut(n)) = 0
  BY <1>1, <1>2
<1> QED
  BY <1>1, <1>2, <1>3, <1>4, PoolAssumption

(* The running thread's frames with one more on top of some of them. *)
LEMMA PushType ==
    ASSUME TypeInv, NEW n \in Int, n < MAX_FRAMES, NEW k \in FrameKind
    PROVE  /\ Append(Cut(n), NewFrame(k)) \in Seq(Frame)
           /\ Len(Append(Cut(n), NewFrame(k))) <= MAX_FRAMES
<1>1. Cut(n) \in Seq(Frame) /\ Len(Cut(n)) \in Nat /\ Len(Cut(n)) < MAX_FRAMES
  BY CutType
<1>2. NewFrame(k) \in Frame
  BY NewFrameType
<1> QED
  BY <1>1, <1>2, Longer, PoolAssumption

(* A call pushes onto all the frames of the thread, if there is room. *)
LEMMA CallType ==
    ASSUME TypeInv, ~Full, NEW k \in FrameKind
    PROVE  /\ Append(flat, NewFrame(k)) \in Seq(Frame)
           /\ Len(Append(flat, NewFrame(k))) = Depth + 1
           /\ Depth + 1 \in 0 .. MAX_FRAMES
<1>1. flat \in Seq(Frame) /\ Len(flat) <= MAX_FRAMES /\ Len(flat) \in Nat
  BY DEF TypeInv, TypeOK, Depth
<1>2. NewFrame(k) \in Frame
  BY NewFrameType
<1>3. /\ Append(flat, NewFrame(k)) \in Seq(Frame)
      /\ Len(Append(flat, NewFrame(k))) = Len(flat) + 1
  BY <1>1, <1>2, Longer
<1> QED
  BY <1>1, <1>3, PoolAssumption DEF Full, Depth

(* The steps that make or end coroutines, or leave one. *)
LEMMA CoroutinesType == TypeInv /\ Coroutines => TypeInv'
<1> SUFFICES ASSUME TypeInv, Coroutines PROVE TypeInv'
  OBVIOUS
<1>f. flat \in Seq(Frame) /\ Len(flat) <= MAX_FRAMES
  BY DEF TypeInv, TypeOK, Depth
<1>r. runs \in Seq(RunRecord) /\ Len(runs) >= 1 /\ runs[1].kind = "root"
  BY DEF TypeInv, TypeOK, RunRecord
<1>1. CASE Create
  <2>1. PICK i \in Co :
          /\ cos' = [cos EXCEPT ![i] =
                      [status |-> "suspended", started |-> FALSE, serial |-> serials + 1]]
          /\ threads' = [threads EXCEPT ![i] = <<>>]
    BY <1>1 DEF Create
  <2>2. serials + 1 \in Serial
    BY <1>1, BoundAssumption DEF Create, TypeInv, TypeOK, Serial
  <2>3. cos' \in [Co -> CoRecord]
    BY <2>1, <2>2 DEF TypeInv, TypeOK, Status, CoRecord
  <2>4. <<>> \in Seq(Frame) /\ Len(<<>>) <= MAX_FRAMES
    BY PoolAssumption
  <2>5. threads' \in [Thread -> Seq(Frame)] /\ \A t \in Thread : Len(threads'[t]) <= MAX_FRAMES
    BY <2>1, <2>4 DEF TypeInv, TypeOK
  <2>6. /\ current' \in Thread /\ flat' = flat /\ runs' = runs
        /\ mode' \in Mode /\ serials' \in Serial
    BY <1>1, <2>2 DEF Create, TypeInv, TypeOK
  <2> QED
    BY <1>f, <1>r, <2>3, <2>5, <2>6, TypeIntro
<1>2. CASE \E w \in BOOLEAN : Resume(w)
  BY <1>2, ResumeType
<1>3. CASE ResumeNative \/ Close
  <2>1. cos' \in [Co -> CoRecord]
    <3>1. PICK i \in Co : \/ cos' = [cos EXCEPT ![i].status = "dead", ![i].started = TRUE]
                          \/ cos' = [cos EXCEPT ![i].status = "dead"]
      BY <1>3 DEF ResumeNative, Close
    <3>2. cos \in [Co -> CoRecord] /\ "dead" \in Status
      BY DEF TypeInv, TypeOK, Status
    <3>3. CASE cos' = [cos EXCEPT ![i].status = "dead", ![i].started = TRUE]
      BY <3>2, <3>3 DEF CoRecord
    <3>4. CASE cos' = [cos EXCEPT ![i].status = "dead"]
      BY <3>2, <3>4 DEF CoRecord
    <3> QED  BY <3>1, <3>3, <3>4
  <2>2. UNCHANGED <<current, flat, threads, runs, mode, serials>>
    BY <1>3 DEF ResumeNative, Close
  <2> QED
    BY <1>f, <1>r, <2>1, <2>2, TypeIntro DEF TypeInv, TypeOK
<1>4. CASE Yield
  <2>1. SwitchBack(flat, "suspended", "run") /\ TopRun.kind = "resume" /\ UNCHANGED serials
    BY <1>4 DEF Yield, Suspend
  <2>2. "suspended" \in Status /\ "run" \in Mode
    BY DEF Status, Mode
  <2> QED
    BY <1>f, <2>1, <2>2, SwitchBackType
<1>5. CASE YieldMeta \/ YieldHandler
  <2>1. /\ UNCHANGED <<current, flat, threads, cos, serials>>
        /\ runs' = BelowTop /\ TopRun.kind # "root"
        /\ mode' \in Mode
    BY <1>5 DEF YieldMeta, YieldHandler, Mode
  <2> QED
    BY <1>f, <2>1, StayType
<1> QED
  BY <1>1, <1>2, <1>3, <1>4, <1>5 DEF Coroutines

(* Calls and returns. *)
LEMMA CallsType == TypeInv /\ Calls => TypeInv'
<1> SUFFICES ASSUME TypeInv, Calls PROVE TypeInv'
  OBVIOUS
<1>f. flat \in Seq(Frame) /\ Len(flat) <= MAX_FRAMES /\ Depth \in Nat /\ Depth = Len(flat)
  BY DEF TypeInv, TypeOK, Depth
<1>k. ProtKind \subseteq FrameKind /\ {"func", "callee", "nested"} \subseteq FrameKind
  BY DEF FrameKind, HaltKind, ProtKind
<1>m. {"run", "raise", "done"} \subseteq Mode
  BY DEF Mode
<1>1. CASE Error
  BY <1>1, <1>f, <1>m, StayType DEF Error
<1>2. CASE Call
  BY <1>2, <1>k, CallType, StayType DEF Call, TypeInv, TypeOK
<1>3. CASE Protect
  <2>1. PICK kind \in ProtKind :
          IF Depth + 1 < MAX_FRAMES
          THEN flat' = flat \o <<NewFrame(kind), NewFrame("callee")>> /\ mode' = mode
          ELSE flat' = Append(flat, NewFrame(kind)) /\ mode' = "raise"
    BY <1>3 DEF Protect
  <2>2. UNCHANGED <<current, threads, cos, runs, serials>> /\ ~Full
    BY <1>3 DEF Protect
  <2>3. NewFrame(kind) \in Frame /\ NewFrame("callee") \in Frame
    BY <1>k, NewFrameType
  <2>4. mode' \in Mode
    BY <2>1, <1>m DEF TypeInv, TypeOK
  <2>5. flat' \in Seq(Frame) /\ Len(flat') <= MAX_FRAMES
    <3>1. CASE Depth + 1 < MAX_FRAMES
      <4>1. flat' = flat \o <<NewFrame(kind), NewFrame("callee")>>
        BY <2>1, <3>1
      <4>2. <<NewFrame(kind), NewFrame("callee")>> \in Seq(Frame)
        BY <2>3
      <4> QED
        BY <1>f, <3>1, <4>1, <4>2, PoolAssumption
    <3>2. CASE ~(Depth + 1 < MAX_FRAMES)
      BY <1>k, <2>1, <2>2, <3>2, CallType
    <3> QED
      BY <3>1, <3>2
  <2> QED
    BY <2>2, <2>4, <2>5, StayType
<1>4. CASE ProtectNative
  <2>1. PICK kind \in ProtKind : flat' = Append(flat, NewFrame(kind))
    BY <1>4 DEF ProtectNative
  <2>2. ~Full /\ UNCHANGED <<current, threads, cos, runs, mode, serials>>
    BY <1>4 DEF ProtectNative
  <2>3. flat' \in Seq(Frame) /\ Len(flat') <= MAX_FRAMES
    BY <1>k, <2>1, <2>2, CallType
  <2> QED
    BY <2>2, <2>3, StayType DEF TypeInv, TypeOK
<1>5. CASE FinishProtect \/ ReturnCall
  <2>1. /\ flat' = Cut(Depth - 1)
        /\ UNCHANGED <<current, threads, cos, runs, mode, serials>>
    BY <1>5 DEF FinishProtect, ReturnCall
  <2>2. flat' \in Seq(Frame) /\ Len(flat') <= MAX_FRAMES
    BY <1>f, <2>1, CutType
  <2> QED
    BY <2>1, <2>2, StayType DEF TypeInv, TypeOK
<1>6. CASE ReturnProtected
  <2>1. /\ flat' = Cut(Depth - 2)
        /\ UNCHANGED <<current, threads, cos, runs, mode, serials>>
    BY <1>6 DEF ReturnProtected
  <2>2. flat' \in Seq(Frame) /\ Len(flat') <= MAX_FRAMES
    BY <1>f, <2>1, CutType
  <2> QED
    BY <2>1, <2>2, StayType DEF TypeInv, TypeOK
<1>7. CASE CallMeta
  <2>1. /\ flat' = Append(flat, NewFrame("nested")) /\ ~Full
        /\ runs' = Append(runs, Run("meta", current, current, Depth + 1, FALSE))
        /\ UNCHANGED <<current, threads, cos, mode, serials>>
    BY <1>7 DEF CallMeta
  <2>2. flat' \in Seq(Frame) /\ Len(flat') <= MAX_FRAMES /\ Depth + 1 \in 0 .. MAX_FRAMES
    BY <1>k, <2>1, CallType
  <2>3. Run("meta", current, current, Depth + 1, FALSE) \in RunRecord
    BY <2>2 DEF Run, RunRecord, TypeInv, TypeOK
  <2> QED
    BY <2>1, <2>2, <2>3, StayType DEF TypeInv, TypeOK
<1>8. CASE ReturnHalt
  <2> DEFINE rest == Cut(Depth - 1)
  <2>1. rest \in Seq(Frame) /\ Len(rest) <= MAX_FRAMES
    <3>1. Depth - 1 \in Int
      BY <1>f
    <3> QED
      BY <3>1, CutType
  <2>2. CASE TopRun.kind = "root"
    <3>1. mode' = "done" /\ flat' = rest /\ UNCHANGED <<current, threads, cos, runs, serials>>
      BY <1>8, <2>2 DEF ReturnHalt
    <3> QED
      BY <2>1, <3>1, <1>m, StayType
  <2>3. CASE TopRun.kind = "resume"
    <3>1. SwitchBack(rest, "dead", "run") /\ UNCHANGED serials
      BY <1>8, <2>3 DEF ReturnHalt
    <3>2. "dead" \in Status
      BY DEF Status
    <3> HIDE DEF rest
    <3> QED
      BY <2>1, <2>3, <3>1, <3>2, <1>m, SwitchBackType
  <2>4. CASE TopRun.kind \notin {"root", "resume"}
    <3>1. /\ runs' = BelowTop /\ TopRun.kind # "root" /\ flat' = rest
          /\ UNCHANGED <<current, threads, cos, mode, serials>>
      BY <1>8, <2>4 DEF ReturnHalt
    <3> QED
      BY <2>1, <3>1, StayType DEF TypeInv, TypeOK
  <2> QED
    BY <2>2, <2>3, <2>4
<1> QED
  BY <1>1, <1>2, <1>3, <1>4, <1>5, <1>6, <1>7, <1>8 DEF Calls

(* Errors, caught or handed to the run around. *)
LEMMA UnwindingType == TypeInv /\ Unwinding => TypeInv'
<1> SUFFICES ASSUME TypeInv, Unwinding PROVE TypeInv'
  OBVIOUS
<1>f. flat \in Seq(Frame) /\ Len(flat) <= MAX_FRAMES /\ Depth \in Nat /\ Depth = Len(flat)
  BY DEF TypeInv, TypeOK, Depth
<1>m. {"run", "raise", "fail", "done"} \subseteq Mode
  BY DEF Mode
<1>t. TopRun \in RunRecord
  BY TopRunType
<1>d. \A d \in Catchers : d \in Nat /\ d >= 1 /\ d <= Depth /\ d \in 0 .. MAX_FRAMES
  BY <1>f, <1>t, PoolAssumption DEF Catchers, RunRecord
<1>1. CASE Catch
  <2>1. PICK d \in Catchers :
          /\ mode' = "run"
          /\ IF flat[d].kind = "pcall"
             THEN flat' = Cut(d - 1) /\ UNCHANGED runs
             ELSE /\ flat' = Append(Cut(d - 1), NewFrame("nested"))
                  /\ runs' = Append(runs, Run("handler", current, current, d, FALSE))
    BY <1>1 DEF Catch
  <2>2. UNCHANGED <<current, threads, cos, serials>>
    BY <1>1 DEF Catch
  <2>3. d - 1 \in Int /\ d - 1 < MAX_FRAMES /\ d \in 0 .. MAX_FRAMES
    BY <1>d, <1>f, PoolAssumption
  <2>4. CASE flat[d].kind = "pcall"
    <3>1. flat' \in Seq(Frame) /\ Len(flat') <= MAX_FRAMES
      BY <2>1, <2>3, <2>4, CutType
    <3> QED
      BY <1>m, <2>1, <2>2, <2>4, <3>1, StayType
  <2>5. CASE flat[d].kind # "pcall"
    <3>1. "nested" \in FrameKind
      BY DEF FrameKind, HaltKind
    <3>2. flat' \in Seq(Frame) /\ Len(flat') <= MAX_FRAMES
      BY <2>1, <2>3, <2>5, <3>1, PushType
    <3>3. Run("handler", current, current, d, FALSE) \in RunRecord
      BY <2>3 DEF Run, RunRecord, TypeInv, TypeOK
    <3> QED
      BY <1>m, <2>1, <2>2, <2>5, <3>2, <3>3, StayType
  <2> QED
    BY <2>4, <2>5
<1>2. CASE CatchNative
  <2>1. PICK d \in Catchers : flat' = Cut(d - 1)
    BY <1>2 DEF CatchNative
  <2>2. flat' \in Seq(Frame) /\ Len(flat') <= MAX_FRAMES
    BY <1>d, <1>f, <2>1, CutType
  <2> QED
    BY <1>2, <1>m, <2>2, StayType DEF CatchNative
<1>3. CASE Propagate \/ FailRoot
  BY <1>3, <1>f, <1>m, StayType DEF Propagate, FailRoot
<1>4. CASE FailResume
  <2>1. PICK then \in Mode : SwitchBack(flat, "dead", then)
    BY <1>4, <1>m DEF FailResume
  <2>2. "dead" \in Status
    BY DEF Status
  <2> QED
    BY <1>4, <1>f, <2>1, <2>2, SwitchBackType DEF FailResume
<1>5. CASE FailMeta
  BY <1>5, <1>f, <1>m, StayType DEF FailMeta
<1>6. CASE FailHandler
  <2>1. TopRun.floor - 1 \in Int
    BY <1>t DEF RunRecord
  <2>2. flat' \in Seq(Frame) /\ Len(flat') <= MAX_FRAMES
    BY <1>6, <2>1, CutType DEF FailHandler
  <2> QED
    BY <1>6, <1>m, <2>2, StayType DEF FailHandler
<1> QED
  BY <1>1, <1>2, <1>3, <1>4, <1>5, <1>6 DEF Unwinding

(* The first script, and the next one. *)
LEMMA StartType ==
    /\ Init => TypeInv
    /\ TypeInv /\ (NextLine \/ NextScript) => TypeInv'
<1>1. 0 \in Thread /\ 0 \in Serial /\ "run" \in Mode /\ 1 <= MAX_FRAMES /\ 0 <= MAX_FRAMES
  BY PoolAssumption, BoundAssumption DEF Thread, Serial, Mode
<1>2. MainRun \in RunRecord /\ MainRun.kind = "root"
  BY <1>1, PoolAssumption DEF MainRun, Run, RunRecord
<1>3. \A c \in Serial : <<[kind |-> "root", co |-> c]>> \in Seq(Frame)
  BY DEF Frame, FrameKind, HaltKind
<1>4. Init => TypeInv
  <2> SUFFICES ASSUME Init PROVE TypeInv
    OBVIOUS
  <2>1. flat \in Seq(Frame) /\ Depth <= MAX_FRAMES
    BY <1>1, <1>3 DEF Init, Depth
  <2>2. threads \in [Thread -> Seq(Frame)] /\ \A t \in Thread : Len(threads[t]) <= MAX_FRAMES
    BY <1>1 DEF Init
  <2>3. cos \in [Co -> CoRecord]
    BY <1>1 DEF Init, DeadCo, CoRecord, Status
  <2>4. runs \in Seq(RunRecord) /\ Len(runs) >= 1 /\ runs[1].kind = "root"
    BY <1>2 DEF Init
  <2> QED
    BY <1>1, <2>1, <2>2, <2>3, <2>4 DEF Init, TypeInv, TypeOK
<1>5. ASSUME TypeInv, NextLine \/ NextScript PROVE TypeInv'
  <2>1. Self \in Serial
    BY <1>1, <1>5 DEF TypeInv, TypeOK, Self, Thread, Co, CoRecord
  <2>2. flat' \in Seq(Frame) /\ Len(flat') <= MAX_FRAMES
    BY <1>1, <1>3, <1>5, <2>1 DEF NextLine, NextScript
  <2>3. cos' \in [Co -> CoRecord]
    <3>1. CASE NextLine
      BY <1>5, <3>1 DEF NextLine, TypeInv, TypeOK
    <3>2. CASE NextScript
      <4>1. \A i \in Co : [cos[i] EXCEPT !.status = "dead"] \in CoRecord
        BY <1>5 DEF TypeInv, TypeOK, CoRecord, Status
      <4> QED
        BY <3>2, <4>1 DEF NextScript
    <3> QED
      BY <1>5, <3>1, <3>2
  <2>4. runs' \in Seq(RunRecord) /\ Len(runs') >= 1 /\ runs'[1].kind = "root"
    <3>1. runs' = <<MainRun>>
      BY <1>5 DEF NextLine, NextScript
    <3> QED
      BY <1>2, <3>1
  <2>5. current' \in Thread /\ mode' \in Mode /\ UNCHANGED <<threads, serials>>
    BY <1>1, <1>5 DEF NextLine, NextScript, TypeInv, TypeOK
  <2> QED
    BY <1>5, <2>2, <2>3, <2>4, <2>5, TypeIntro DEF TypeInv, TypeOK
<1> QED
  BY <1>4, <1>5

LEMMA StepType == TypeInv /\ [Next]_vars => TypeInv'
<1> SUFFICES ASSUME TypeInv, [Next]_vars PROVE TypeInv'
  OBVIOUS
<1>1. CASE UNCHANGED vars
  BY <1>1 DEF vars, TypeInv, TypeOK, Depth
<1> QED
  BY <1>1, StartType, CoroutinesType, CallsType, UnwindingType DEF Next

(***************************************************************************)
(* Whatever a script does, the machine's indices stay in its arrays: the   *)
(* running thread has no more than MAX_FRAMES frames, a floor is one of    *)
(* them, and there is a run to return to.                                  *)
(***************************************************************************)
THEOREM TypeCorrect == Spec => []TypeOK
<1>1. Init => TypeInv
  BY StartType
<1>2. TypeInv /\ [Next]_vars => TypeInv'
  BY StepType
<1>3. TypeInv => TypeOK
  BY DEF TypeInv
<1> QED
  BY <1>1, <1>2, <1>3, PTL DEF Spec

-----------------------------------------------------------------------------
(***************************************************************************)
(* ResumeChain holds for every number of coroutines, every depth of frames *)
(* and every script: which coroutine is running, which wait for one they   *)
(* resumed, and which are not under way at all, is what the activations of *)
(* run_at on the Rust stack say.                                           *)
(*                                                                         *)
(* ResumeChain is not inductive.  A resume of i makes the resumer normal,  *)
(* so the resumer, if a coroutine, must have a resume of its own under way *)
(* (Underway); and when the resume ends, the coroutine must not be the     *)
(* thread of a run further down, which Underway and OncePerResume give     *)
(* together.  The next script starts from a clean chain because one that   *)
(* ended has left every run but its own (Ended).  The frames play no part: *)
(* where an error is caught, and how much of a stack it leaves, moves no   *)
(* coroutine.                                                              *)
(***************************************************************************)
Underway ==
    /\ \A k \in Resumes : runs[k].th # 0
    /\ \A k \in 1 .. Len(runs) :
        runs[k].th # 0 => \E j \in Resumes : j <= k /\ runs[j].th = runs[k].th

Ended == mode = "done" => Len(runs) = 1

ChainInv == TypeInv /\ ResumeChain /\ Underway /\ Ended

(* A coroutine's index is also its thread's, and never the main thread's. *)
LEMMA CoThread == Thread = Co \cup {0} /\ 0 \notin Co
BY PoolAssumption DEF Co, Thread

(* The runs are a non-empty sequence, and so they are after a step. *)
LEMMA RunsType == ASSUME TypeInv PROVE runs \in Seq(RunRecord) /\ Len(runs) \in Nat /\ Len(runs) >= 1
BY DEF TypeInv, TypeOK

-----------------------------------------------------------------------------
(* Steps inside a run leave the chain alone. *)
LEMMA SameRun ==
    ASSUME ChainInv, TypeInv', UNCHANGED <<current, cos, runs>>, Ended'
    PROVE  ChainInv'
BY DEF ChainInv, ResumeChain, RunsNest, TopRun, StatusAgrees, OncePerResume, Resumes, Underway

(* Making, or ending, a coroutine that is not under way. *)
LEMMA IdleCoroutine ==
    ASSUME ChainInv, TypeInv', UNCHANGED <<current, runs, mode>>,
           \A i \in Co : \/ cos'[i] = cos[i]
                         \/ /\ cos[i].status \in {"dead", "suspended"}
                            /\ cos'[i].status \in {"dead", "suspended"}
    PROVE  ChainInv'
<1>1. Resumes' = Resumes /\ TopRun' = TopRun
  BY DEF Resumes, TopRun
<1>2. RunsNest' /\ OncePerResume' /\ Underway' /\ Ended'
  BY <1>1 DEF ChainInv, ResumeChain, RunsNest, OncePerResume, Underway, Ended
<1>3. StatusAgrees'
  <2> SUFFICES ASSUME NEW i \in Co
               PROVE  /\ cos'[i].status = "running" <=> i = current
                      /\ cos'[i].status = "normal" <=>
                            i # current /\ \E k \in Resumes : runs[k].th = i
    BY <1>1 DEF StatusAgrees
  <2>1. /\ cos[i].status = "running" <=> i = current
        /\ cos[i].status = "normal" <=> i # current /\ \E k \in Resumes : runs[k].th = i
    BY DEF ChainInv, ResumeChain, StatusAgrees
  <2> QED
    BY <2>1
<1> QED
  BY <1>2, <1>3 DEF ChainInv, ResumeChain

(* Entering a run nested in the running thread. *)
LEMMA EnterNested ==
    ASSUME ChainInv, TypeInv', UNCHANGED <<current, cos>>, mode' # "done",
           NEW r \in RunRecord, r.kind \in {"meta", "handler"},
           r.th = current, r.parent = current, runs' = Append(runs, r)
    PROVE  ChainInv'
<1>1. /\ Len(runs) \in Nat /\ Len(runs) >= 1
      /\ Len(runs') = Len(runs) + 1
      /\ runs'[Len(runs) + 1] = r
      /\ \A k \in 1 .. Len(runs) : runs'[k] = runs[k]
  BY RunsType, Longer DEF ChainInv
<1>4. runs[Len(runs)].th = current /\ runs[1] = MainRun
  BY DEF ChainInv, ResumeChain, RunsNest, TopRun
<1>5. RunsNest'
  <2>1. ASSUME NEW k \in 2 .. Len(runs')
        PROVE  /\ runs'[k].kind # "root"
               /\ runs'[k].parent = runs'[k - 1].th
               /\ runs'[k].th = IF runs'[k].kind = "resume" THEN runs'[k].th ELSE runs'[k - 1].th
    <3>1. CASE k = Len(runs) + 1
      BY <1>1, <1>4, <3>1
    <3>2. CASE k # Len(runs) + 1
      <4>1. k \in 2 .. Len(runs) /\ k - 1 \in 1 .. Len(runs) /\ k \in 1 .. Len(runs)
        BY <1>1, <2>1, <3>2
      <4> QED
        BY <1>1, <4>1 DEF ChainInv, ResumeChain, RunsNest
    <3> QED
      BY <3>1, <3>2
  <2>2. TopRun' = r /\ runs'[1] = MainRun
    BY <1>1, <1>4 DEF TopRun
  <2> QED
    BY <2>1, <2>2 DEF RunsNest
<1>6. Resumes' = Resumes
  BY <1>1 DEF Resumes
<1>7. \A k \in Resumes : k \in 1 .. Len(runs) /\ runs'[k] = runs[k]
  BY <1>1 DEF Resumes
<1>8. StatusAgrees' /\ OncePerResume'
  BY <1>6, <1>7 DEF ChainInv, ResumeChain, StatusAgrees, OncePerResume
<1>9. Underway'
  <2>1. ASSUME NEW k \in 1 .. Len(runs'), runs'[k].th # 0
        PROVE  \E j \in Resumes' : j <= k /\ runs'[j].th = runs'[k].th
    <3>1. PICK m \in 1 .. Len(runs) : m <= k /\ runs[m].th = runs'[k].th
      <4>1. CASE k = Len(runs) + 1
        BY <1>1, <1>4, <4>1
      <4>2. CASE k # Len(runs) + 1
        <5>1. k \in 1 .. Len(runs) /\ k <= k
          BY <1>1, <2>1, <4>2
        <5> QED
          BY <1>1, <5>1
      <4> QED
        BY <4>1, <4>2
    <3>2. PICK j \in Resumes : j <= m /\ runs[j].th = runs[m].th
      BY <2>1, <3>1 DEF ChainInv, Underway
    <3>3. j <= k
      BY <1>1, <2>1, <3>1, <3>2 DEF Resumes
    <3> QED
      BY <1>6, <1>7, <3>1, <3>2, <3>3
  <2> QED
    BY <1>6, <1>7, <2>1 DEF ChainInv, Underway
<1> QED
  BY <1>5, <1>8, <1>9 DEF ChainInv, ResumeChain, Ended

(* Leaving a nested run. *)
LEMMA LeaveNested ==
    ASSUME ChainInv, TypeInv', UNCHANGED <<current, cos>>, mode' # "done",
           TopRun.kind \in {"meta", "handler"}, runs' = BelowTop
    PROVE  ChainInv'
<1>1. /\ Len(runs) \in Nat /\ Len(runs) >= 2
      /\ Len(runs') = Len(runs) - 1
      /\ \A k \in 1 .. Len(runs) - 1 : runs'[k] = runs[k]
  BY BelowType, RunsType DEF ChainInv
<1>2. TopRun = runs[Len(runs)] /\ TopRun' = runs[Len(runs) - 1]
  BY <1>1 DEF TopRun
<1>3. runs[Len(runs) - 1].th = current
  <2>1. Len(runs) \in 2 .. Len(runs)
    BY <1>1
  <2> QED
    BY <1>2, <2>1 DEF ChainInv, ResumeChain, RunsNest
<1>4. RunsNest'
  <2>1. \A k \in 2 .. Len(runs') :
          /\ k \in 2 .. Len(runs) /\ runs'[k] = runs[k] /\ runs'[k - 1] = runs[k - 1]
    BY <1>1
  <2> QED
    BY <1>1, <1>2, <1>3, <2>1 DEF ChainInv, ResumeChain, RunsNest
<1>5. Resumes' = Resumes
  BY <1>1, <1>2 DEF Resumes
<1>6. \A k \in Resumes : k \in 1 .. Len(runs') /\ runs'[k] = runs[k]
  BY <1>1, <1>5 DEF Resumes
<1>7. StatusAgrees' /\ OncePerResume'
  BY <1>5, <1>6 DEF ChainInv, ResumeChain, StatusAgrees, OncePerResume
<1>8. Underway'
  <2>1. \A k \in 1 .. Len(runs') : k \in 1 .. Len(runs) /\ runs'[k] = runs[k]
    BY <1>1
  <2> QED
    BY <1>5, <1>6, <2>1 DEF ChainInv, Underway
<1> QED
  BY <1>4, <1>7, <1>8 DEF ChainInv, ResumeChain, Ended

-----------------------------------------------------------------------------
(* Entering a coroutine: it was not under way, its resumer now waits. *)
LEMMA EnterCoroutine ==
    ASSUME ChainInv, TypeInv', NEW w \in BOOLEAN, Resume(w)
    PROVE  ChainInv'
<1>1. PICK i \in Co :
        /\ cos[i].status = "suspended"
        /\ cos' = Entered(i)
        /\ current' = i
        /\ \E floor \in {0, 1} : runs' = Append(runs, Run("resume", i, current, floor, w))
  BY DEF Resume, Swap
<1>2. PICK floor \in {0, 1} : runs' = Append(runs, Run("resume", i, current, floor, w))
  BY <1>1
<1> DEFINE r == Run("resume", i, current, floor, w)
<1>3. r \in RunRecord /\ r.kind = "resume" /\ r.th = i /\ r.parent = current
  <2>1. i \in Thread /\ current \in Thread /\ floor \in 0 .. MAX_FRAMES
    BY CoThread, PoolAssumption DEF ChainInv, TypeInv, TypeOK
  <2> QED
    BY <2>1 DEF Run, RunRecord
<1> HIDE DEF r
<1>4. runs' = Append(runs, r)
  BY <1>2 DEF r
<1>5. /\ Len(runs) \in Nat /\ Len(runs) >= 1
      /\ Len(runs') = Len(runs) + 1
      /\ runs'[Len(runs) + 1] = r
      /\ \A k \in 1 .. Len(runs) : runs'[k] = runs[k]
  BY <1>3, <1>4, RunsType, Longer DEF ChainInv
<1>6. /\ Resumes' = Resumes \cup {Len(runs) + 1}
      /\ \A k \in Resumes : k \in 1 .. Len(runs) /\ runs'[k] = runs[k]
  BY <1>3, <1>5 DEF Resumes
<1>7. i # current /\ \A k \in Resumes : runs[k].th # i
  BY <1>1 DEF ChainInv, ResumeChain, StatusAgrees
<1>8. runs[Len(runs)].th = current /\ runs[1] = MainRun
  BY DEF ChainInv, ResumeChain, RunsNest, TopRun
<1>9. RunsNest'
  <2>1. ASSUME NEW k \in 2 .. Len(runs')
        PROVE  /\ runs'[k].kind # "root"
               /\ runs'[k].parent = runs'[k - 1].th
               /\ runs'[k].th = IF runs'[k].kind = "resume" THEN runs'[k].th ELSE runs'[k - 1].th
    <3>1. CASE k = Len(runs) + 1
      BY <1>3, <1>5, <1>8, <3>1
    <3>2. CASE k # Len(runs) + 1
      <4>1. k \in 2 .. Len(runs) /\ k - 1 \in 1 .. Len(runs) /\ k \in 1 .. Len(runs)
        BY <1>5, <2>1, <3>2
      <4> QED
        BY <1>5, <4>1 DEF ChainInv, ResumeChain, RunsNest
    <3> QED
      BY <3>1, <3>2
  <2>2. TopRun' = r /\ runs'[1] = MainRun
    BY <1>5, <1>8 DEF TopRun
  <2> QED
    BY <1>1, <1>3, <2>1, <2>2 DEF RunsNest
<1>10. OncePerResume'
  BY <1>3, <1>5, <1>6, <1>7 DEF ChainInv, ResumeChain, OncePerResume
<1>11. Underway'
  <2>1. ASSUME NEW k \in 1 .. Len(runs'), runs'[k].th # 0
        PROVE  \E j \in Resumes' : j <= k /\ runs'[j].th = runs'[k].th
    <3>1. CASE k = Len(runs) + 1
      BY <1>5, <1>6, <3>1
    <3>2. CASE k # Len(runs) + 1
      BY <1>5, <1>6, <2>1, <3>2 DEF ChainInv, Underway
    <3> QED
      BY <3>1, <3>2
  <2>2. \A k \in Resumes' : runs'[k].th # 0
    BY <1>3, <1>5, <1>6, CoThread DEF ChainInv, Underway
  <2> QED
    BY <2>1, <2>2 DEF Underway
<1>12. StatusAgrees'
  <2> SUFFICES ASSUME NEW j \in Co
               PROVE  /\ cos'[j].status = "running" <=> j = i
                      /\ cos'[j].status = "normal" <=>
                            j # i /\ \E k \in Resumes' : runs'[k].th = j
    BY <1>1 DEF StatusAgrees
  <2>1. /\ cos[j].status = "running" <=> j = current
        /\ cos[j].status = "normal" <=> j # current /\ \E k \in Resumes : runs[k].th = j
    BY DEF ChainInv, ResumeChain, StatusAgrees
  <2>2. cos[j] \in CoRecord
    BY DEF ChainInv, TypeInv, TypeOK
  <2>3. j # i => ((\E k \in Resumes' : runs'[k].th = j) <=> \E k \in Resumes : runs[k].th = j)
    BY <1>3, <1>5, <1>6
  <2>4. CASE j = i
    BY <1>1, <1>7, <2>2, <2>4 DEF Entered, CoRecord
  <2>5. CASE j # i /\ j = current
    <3>1. cos'[j].status = "normal"
      BY <1>1, <2>2, <2>5 DEF Entered, CoRecord
    <3>2. \E k \in Resumes : runs[k].th = j
      <4>1. Len(runs) \in 1 .. Len(runs) /\ runs[Len(runs)].th # 0
        BY <1>5, <1>8, <2>5, CoThread
      <4> QED
        BY <1>8, <2>5, <4>1 DEF ChainInv, Underway
    <3> QED
      BY <2>3, <2>5, <3>1, <3>2
  <2>6. CASE j # i /\ j # current
    <3>1. cos'[j] = cos[j]
      BY <1>1, <2>6 DEF Entered
    <3> QED
      BY <2>1, <2>3, <2>6, <3>1
  <2> QED
    BY <2>4, <2>5, <2>6
<1>13. Ended'
  BY DEF Resume, Ended
<1> QED
  BY <1>9, <1>10, <1>11, <1>12, <1>13 DEF ChainInv, ResumeChain

(* Leaving a coroutine: only its own resume was on it. *)
LEMMA LeaveCoroutine ==
    ASSUME ChainInv, TypeInv', TopRun.kind = "resume", mode' # "done",
           NEW frames, NEW status \in {"dead", "suspended"}, NEW then,
           SwitchBack(frames, status, then)
    PROVE  ChainInv'
<1> DEFINE n == Len(runs)
           p == TopRun.parent
<1>1. /\ n \in Nat /\ n >= 2
      /\ Len(runs') = n - 1
      /\ \A k \in 1 .. n - 1 : runs'[k] = runs[k]
  BY BelowType, RunsType DEF ChainInv, SwitchBack
<1>2. TopRun = runs[n] /\ TopRun' = runs[n - 1] /\ n \in Resumes
  BY <1>1 DEF TopRun, Resumes
<1>3. TopRun.th = current /\ runs[n - 1].th = p /\ p \in Thread /\ current \in Co
  <2>1. TopRun.th = current /\ p = runs[n - 1].th
    BY <1>1, <1>2 DEF ChainInv, ResumeChain, RunsNest
  <2>2. p \in Thread
    BY TopRunType DEF ChainInv, RunRecord
  <2>3. current # 0 /\ current \in Thread
    BY <1>2, <2>1 DEF ChainInv, Underway, TypeInv, TypeOK
  <2> QED
    BY <2>1, <2>2, <2>3, CoThread
<1>4. current' = p /\ cos' = Left(current, p, status)
  BY <1>3 DEF SwitchBack
<1>5. Resumes' = Resumes \ {n} /\ \A k \in Resumes' : k \in 1 .. n - 1 /\ runs'[k] = runs[k]
  BY <1>1 DEF Resumes
<1>6. \A k \in 1 .. n - 1 : runs[k].th # current
  <2> SUFFICES ASSUME NEW k \in 1 .. n - 1, runs[k].th = current PROVE FALSE
    OBVIOUS
  <2>1. k \in 1 .. n /\ runs[k].th # 0
    BY <1>1, <1>3, CoThread
  <2>2. PICK j \in Resumes : j <= k /\ runs[j].th = runs[k].th
    BY <2>1 DEF ChainInv, Underway
  <2>3. j = n
    BY <1>2, <1>3, <2>2 DEF ChainInv, ResumeChain, OncePerResume
  <2> QED
    BY <1>1, <2>2, <2>3
<1>7. p # current
  BY <1>1, <1>3, <1>6
<1> HIDE DEF n, p
<1>8. RunsNest'
  <2>1. \A k \in 2 .. Len(runs') :
          /\ k \in 2 .. n /\ runs'[k] = runs[k] /\ runs'[k - 1] = runs[k - 1]
    BY <1>1
  <2>2. runs'[1] = runs[1]
    BY <1>1
  <2> QED
    BY <1>1, <1>2, <1>3, <1>4, <2>1, <2>2 DEF ChainInv, ResumeChain, RunsNest, n
<1>9. OncePerResume'
  BY <1>5 DEF ChainInv, ResumeChain, OncePerResume
<1>10. Underway'
  <2>1. ASSUME NEW k \in 1 .. Len(runs'), runs'[k].th # 0
        PROVE  \E j \in Resumes' : j <= k /\ runs'[j].th = runs'[k].th
    <3>1. k \in 1 .. n /\ k \in 1 .. n - 1 /\ runs'[k] = runs[k]
      BY <1>1, <2>1
    <3>2. PICK j \in Resumes : j <= k /\ runs[j].th = runs[k].th
      BY <2>1, <3>1 DEF ChainInv, Underway, n
    <3>3. j # n
      BY <1>1, <3>1, <3>2
    <3> QED
      BY <1>5, <3>1, <3>2, <3>3
  <2> QED
    BY <1>5, <2>1 DEF ChainInv, Underway
<1>11. StatusAgrees'
  <2> SUFFICES ASSUME NEW j \in Co
               PROVE  /\ cos'[j].status = "running" <=> j = p
                      /\ cos'[j].status = "normal" <=>
                            j # p /\ \E k \in Resumes' : runs'[k].th = j
    BY <1>4 DEF StatusAgrees
  <2>1. /\ cos[j].status = "running" <=> j = current
        /\ cos[j].status = "normal" <=> j # current /\ \E k \in Resumes : runs[k].th = j
    BY DEF ChainInv, ResumeChain, StatusAgrees
  <2>2. cos[j] \in CoRecord
    BY DEF ChainInv, TypeInv, TypeOK
  <2>3. CASE j = current
    <3>1. cos'[j].status = status
      BY <1>4, <1>7, <2>2, <2>3 DEF Left, CoRecord
    <3>2. \A k \in Resumes' : runs'[k].th # j
      BY <1>5, <1>6, <2>3 DEF n
    <3> QED
      BY <1>7, <2>3, <3>1, <3>2
  <2>4. CASE j # current /\ j = p
    <3>1. cos'[j].status = "running"
      BY <1>4, <2>2, <2>4 DEF Left, CoRecord
    <3> QED
      BY <2>4, <3>1
  <2>5. CASE j # current /\ j # p
    <3>1. cos'[j] = cos[j]
      BY <1>4, <2>5 DEF Left
    <3>2. (\E k \in Resumes' : runs'[k].th = j) <=> \E k \in Resumes : runs[k].th = j
      BY <1>2, <1>3, <1>5, <2>5
    <3> QED
      BY <2>1, <2>5, <3>1, <3>2
  <2> QED
    BY <2>3, <2>4, <2>5
<1>12. Ended'
  BY DEF Ended
<1> QED
  BY <1>8, <1>9, <1>10, <1>11, <1>12 DEF ChainInv, ResumeChain

-----------------------------------------------------------------------------
(* A script that ended is back in its own run, on the main thread. *)
LEMMA RootAlone == ASSUME ChainInv, TopRun.kind = "root" PROVE Len(runs) = 1
<1>1. Len(runs) \in Nat /\ Len(runs) >= 1
  BY RunsType DEF ChainInv
<1>2. Len(runs) \in 2 .. Len(runs) => runs[Len(runs)].kind # "root"
  BY DEF ChainInv, ResumeChain, RunsNest
<1>3. ~(Len(runs) \in 2 .. Len(runs))
  BY <1>2 DEF TopRun
<1>4. \A n \in Nat : n >= 1 /\ ~(n \in 2 .. n) => n = 1
  OBVIOUS
<1> QED
  BY <1>1, <1>3, <1>4

LEMMA StartChain ==
    /\ Init => ChainInv
    /\ ChainInv /\ TypeInv' /\ (NextLine \/ NextScript) => ChainInv'
<1>1. /\ Len(<<MainRun>>) = 1 /\ <<MainRun>>[1] = MainRun
      /\ MainRun.kind = "root" /\ MainRun.th = 0
  BY DEF MainRun, Run
<1>2. Init => ChainInv
  <2> SUFFICES ASSUME Init PROVE ChainInv
    OBVIOUS
  <2>1. runs = <<MainRun>> /\ current = 0 /\ mode = "run" /\ \A i \in Co : cos[i].status = "dead"
    BY DEF Init, DeadCo
  <2>2. Resumes = {} /\ TopRun = MainRun
    BY <1>1, <2>1 DEF Resumes, TopRun
  <2>3. RunsNest /\ OncePerResume /\ Underway /\ Ended
    BY <1>1, <2>1, <2>2 DEF RunsNest, OncePerResume, Underway, Ended
  <2>4. StatusAgrees
    BY <2>1, <2>2, CoThread DEF StatusAgrees
  <2> QED
    BY <2>3, <2>4, StartType DEF ChainInv, ResumeChain
<1>3. ASSUME ChainInv, TypeInv', NextLine \/ NextScript PROVE ChainInv'
  <2>1. Len(runs) = 1 /\ runs[1] = MainRun /\ TopRun.th = current
    BY <1>3 DEF NextLine, NextScript, ChainInv, Ended, ResumeChain, RunsNest
  <2>2. current = 0 /\ Resumes = {}
    BY <1>1, <2>1 DEF TopRun, Resumes
  <2>3. \A i \in Co : cos[i].status \notin {"running", "normal"}
    BY <1>3, <2>2, CoThread DEF ChainInv, ResumeChain, StatusAgrees
  <2>4. runs' = <<MainRun>> /\ current' = 0 /\ mode' = "run"
    BY <1>3, <2>2 DEF NextLine, NextScript
  <2>5. \A i \in Co : cos'[i].status \notin {"running", "normal"}
    <3>1. CASE NextLine
      BY <2>3, <3>1 DEF NextLine
    <3>2. CASE NextScript
      <4>1. \A i \in Co : cos[i] \in CoRecord
        BY <1>3 DEF ChainInv, TypeInv, TypeOK
      <4> QED
        BY <3>2, <4>1 DEF NextScript, CoRecord
    <3> QED
      BY <1>3, <3>1, <3>2
  <2>6. Resumes' = {} /\ TopRun' = MainRun
    BY <1>1, <2>4 DEF Resumes, TopRun
  <2>7. RunsNest' /\ OncePerResume' /\ Underway' /\ Ended'
    BY <1>1, <2>4, <2>6 DEF RunsNest, OncePerResume, Underway, Ended
  <2>8. StatusAgrees'
    BY <2>4, <2>5, <2>6, CoThread DEF StatusAgrees
  <2> QED
    BY <1>3, <2>7, <2>8 DEF ChainInv, ResumeChain
<1> QED
  BY <1>2, <1>3

LEMMA StepChain == ChainInv /\ [Next]_vars => ChainInv'
<1> SUFFICES ASSUME ChainInv, [Next]_vars PROVE ChainInv'
  OBVIOUS
<1>t. TypeInv'
  BY StepType DEF ChainInv
<1>1. CASE Create \/ ResumeNative \/ Close
  <2>1. \A i \in Co : cos[i] \in CoRecord
    BY DEF ChainInv, TypeInv, TypeOK
  <2>2. /\ UNCHANGED <<current, runs, mode>>
        /\ \A i \in Co : \/ cos'[i] = cos[i]
                         \/ /\ cos[i].status \in {"dead", "suspended"}
                            /\ cos'[i].status \in {"dead", "suspended"}
    <3>1. cos \in [Co -> CoRecord]
      BY DEF ChainInv, TypeInv, TypeOK
    <3>2. CASE Create
      BY <2>1, <3>1, <3>2 DEF Create
    <3>3. CASE ResumeNative
      BY <2>1, <3>1, <3>3 DEF ResumeNative, CoRecord
    <3>4. CASE Close
      BY <2>1, <3>1, <3>4 DEF Close, CoRecord
    <3> QED
      BY <1>1, <3>2, <3>3, <3>4
  <2> QED
    BY <1>t, <2>2, IdleCoroutine
<1>2. CASE \E w \in BOOLEAN : Resume(w)
  BY <1>2, <1>t, EnterCoroutine
<1>3. CASE Yield \/ FailResume
  <2>1. PICK status \in {"dead", "suspended"}, then \in {"run", "raise"} :
            SwitchBack(flat, status, then)
    BY <1>3 DEF Yield, Suspend, FailResume
  <2>2. TopRun.kind = "resume" /\ mode' # "done"
    BY <1>3, <2>1 DEF Yield, FailResume, SwitchBack
  <2> QED
    BY <1>t, <2>1, <2>2, LeaveCoroutine
<1>4. CASE YieldMeta \/ YieldHandler \/ FailMeta \/ FailHandler
  <2>1. /\ UNCHANGED <<current, cos>> /\ runs' = BelowTop /\ mode' # "done"
        /\ TopRun.kind \in {"meta", "handler"}
    BY <1>4 DEF YieldMeta, YieldHandler, FailMeta, FailHandler
  <2> QED
    BY <1>t, <2>1, LeaveNested
<1>5. CASE \/ Error \/ Call \/ Protect \/ ProtectNative \/ FinishProtect
           \/ ReturnCall \/ ReturnProtected \/ CatchNative \/ Propagate \/ UNCHANGED vars
  <2>1. UNCHANGED <<current, cos, runs>> /\ (mode' = "done" => mode = "done")
    BY <1>5 DEF Error, Call, Protect, ProtectNative, FinishProtect, ReturnCall,
                ReturnProtected, CatchNative, Propagate, vars
  <2>2. Ended'
    BY <2>1 DEF ChainInv, Ended
  <2> QED
    BY <1>t, <2>1, <2>2, SameRun
<1>6. CASE CallMeta
  <2> DEFINE r == Run("meta", current, current, Depth + 1, FALSE)
  <2>1. /\ UNCHANGED <<current, cos>> /\ mode' # "done" /\ runs' = Append(runs, r)
        /\ r.kind = "meta" /\ r.th = current /\ r.parent = current
    BY <1>6 DEF CallMeta, Run
  <2>2. r \in RunRecord
    <3>1. ~Full /\ Depth \in Nat /\ Depth <= MAX_FRAMES /\ current \in Thread
      BY <1>6 DEF CallMeta, ChainInv, TypeInv, TypeOK, Depth
    <3>2. Depth + 1 \in 0 .. MAX_FRAMES
      BY <3>1, PoolAssumption DEF Full
    <3> QED
      BY <3>1, <3>2 DEF Run, RunRecord
  <2> HIDE DEF r
  <2> QED
    BY <1>t, <2>1, <2>2, EnterNested
<1>7. CASE Catch
  <2>1. PICK d \in Catchers :
          IF flat[d].kind = "pcall" THEN UNCHANGED runs
          ELSE runs' = Append(runs, Run("handler", current, current, d, FALSE))
    BY <1>7 DEF Catch
  <2>2. UNCHANGED <<current, cos>> /\ mode' # "done"
    BY <1>7 DEF Catch
  <2>3. CASE UNCHANGED runs
    BY <1>t, <2>2, <2>3, SameRun DEF Ended
  <2>4. CASE runs' = Append(runs, Run("handler", current, current, d, FALSE))
    <3> DEFINE r == Run("handler", current, current, d, FALSE)
    <3>1. r.kind = "handler" /\ r.th = current /\ r.parent = current
      BY DEF Run
    <3>2. r \in RunRecord
      <4>1. Depth \in Nat /\ Depth <= MAX_FRAMES /\ current \in Thread /\ TopRun.floor \in Nat
        BY TopRunType DEF ChainInv, TypeInv, TypeOK, Depth, RunRecord
      <4>2. d \in 0 .. MAX_FRAMES
        BY <4>1, PoolAssumption DEF Catchers
      <4> QED
        BY <4>1, <4>2 DEF Run, RunRecord
    <3> HIDE DEF r
    <3>3. runs' = Append(runs, r)
      BY <2>4 DEF r
    <3> QED
      BY <1>t, <2>2, <3>1, <3>2, <3>3, EnterNested
  <2> QED
    BY <2>1, <2>3, <2>4
<1>8. CASE FailRoot
  <2>1. UNCHANGED <<current, cos, runs>> /\ TopRun.kind = "root"
    BY <1>8 DEF FailRoot
  <2>2. Ended'
    BY <2>1, RootAlone DEF Ended
  <2> QED
    BY <1>t, <2>1, <2>2, SameRun
<1>9. CASE ReturnHalt
  <2>1. CASE TopRun.kind = "root"
    <3>1. UNCHANGED <<current, cos, runs>>
      BY <1>9, <2>1 DEF ReturnHalt
    <3>2. Ended'
      BY <2>1, <3>1, RootAlone DEF Ended
    <3> QED
      BY <1>t, <3>1, <3>2, SameRun
  <2>2. CASE TopRun.kind = "resume"
    <3>1. SwitchBack(Cut(Depth - 1), "dead", "run") /\ mode' # "done"
      BY <1>9, <2>2 DEF ReturnHalt, SwitchBack
    <3> QED
      BY <1>t, <2>2, <3>1, LeaveCoroutine
  <2>3. CASE TopRun.kind \notin {"root", "resume"}
    <3>1. UNCHANGED <<current, cos, mode>> /\ runs' = BelowTop /\ mode # "done"
      BY <1>9, <2>3 DEF ReturnHalt
    <3>2. TopRun.kind \in {"meta", "handler"}
      BY <2>3, TopRunType DEF ChainInv, RunRecord
    <3> QED
      BY <1>t, <3>1, <3>2, LeaveNested
  <2> QED
    BY <2>1, <2>2, <2>3
<1>10. CASE NextLine \/ NextScript
  BY <1>10, <1>t, StartChain
<1> QED
  BY <1>1, <1>2, <1>3, <1>4, <1>5, <1>6, <1>7, <1>8, <1>9, <1>10
  DEF Next, Coroutines, Calls, Unwinding

(***************************************************************************)
(* Whatever coroutines a script makes, and in whatever order they resume   *)
(* one another, yield, fail and are closed, their statuses and the running *)
(* thread are those of the resumes under way.                              *)
(***************************************************************************)
THEOREM StatusesAreTheResumes == Spec => []ResumeChain
<1>1. Init => ChainInv
  BY StartChain
<1>2. ChainInv /\ [Next]_vars => ChainInv'
  BY StepChain
<1>3. ChainInv => ResumeChain
  BY DEF ChainInv
<1> QED
  BY <1>1, <1>2, <1>3, PTL DEF Spec

-----------------------------------------------------------------------------
(***************************************************************************)
(* Whose frames a thread has: OwnFrames, SuspendedWhole, RootPerRun and    *)
(* ParkedUntouched.                                                        *)
(*                                                                         *)
(* Each run of a thread has a foot, the frame that ends it.  While         *)
(* instructions execute, the frames that end runs are exactly the feet of  *)
(* the runs of the thread (Exact); the stack of a thread that waits for    *)
(* one it resumed stays so (ParkedInv).  An error leaves frames of runs    *)
(* that are gone above the innermost foot; they do no harm because no      *)
(* protected frame is above them (Junk), so that whatever catches the      *)
(* error also drops them.                                                  *)
(***************************************************************************)
(* Stacks: the frames that end a run; a callee has its mark below it. *)
Halts(s) == {d \in 1 .. Len(s) : s[d].kind \in HaltKind}
Paired(s) == \A d \in 1 .. Len(s) : s[d].kind = "callee" => d > 1 /\ s[d - 1].kind \in ProtKind
OwnedBy(s, c) == \A d \in 1 .. Len(s) : s[d].co = c

(* Frames that are dropped from the top. *)
LEMMA CutIs ==
    ASSUME NEW s \in Seq(Frame), NEW n \in 0 .. Len(s)
    PROVE  /\ SubSeq(s, 1, n) \in Seq(Frame) /\ Len(SubSeq(s, 1, n)) = n
           /\ \A d \in 1 .. n : SubSeq(s, 1, n)[d] = s[d]
           /\ Halts(SubSeq(s, 1, n)) = {d \in Halts(s) : d <= n}
           /\ Paired(s) => Paired(SubSeq(s, 1, n))
           /\ \A c : OwnedBy(s, c) => OwnedBy(SubSeq(s, 1, n), c)
<1>1. /\ SubSeq(s, 1, n) \in Seq(Frame) /\ Len(SubSeq(s, 1, n)) = n
      /\ \A d \in 1 .. n : SubSeq(s, 1, n)[d] = s[d]
      /\ Len(s) \in Nat /\ n \in Nat /\ n <= Len(s)
  OBVIOUS
<1> DEFINE t == SubSeq(s, 1, n)
<1> HIDE DEF t
<1>2. Len(t) = n /\ \A d \in 1 .. n : t[d] = s[d]
  BY <1>1 DEF t
<1>3. \A d \in 1 .. n : d \in 1 .. Len(s) /\ (d > 1 => d - 1 \in 1 .. n)
  BY <1>1
<1>4. Halts(t) = {d \in Halts(s) : d <= n}
  BY <1>1, <1>2, <1>3 DEF Halts
<1>5. Paired(s) => Paired(t)
  BY <1>1, <1>2, <1>3 DEF Paired
<1>6. \A c : OwnedBy(s, c) => OwnedBy(t, c)
  BY <1>2, <1>3 DEF OwnedBy
<1> QED  BY <1>1, <1>4, <1>5, <1>6 DEF t

(* A frame that is pushed. *)
LEMMA PushIs ==
    ASSUME NEW s \in Seq(Frame), NEW f \in Frame
    PROVE  /\ Append(s, f) \in Seq(Frame) /\ Len(Append(s, f)) = Len(s) + 1
           /\ \A d \in 1 .. Len(s) : Append(s, f)[d] = s[d]
           /\ Append(s, f)[Len(s) + 1] = f
           /\ Halts(Append(s, f)) = Halts(s) \cup (IF f.kind \in HaltKind THEN {Len(s) + 1} ELSE {})
           /\ Paired(s) /\ (f.kind = "callee" => Len(s) > 0 /\ s[Len(s)].kind \in ProtKind)
                => Paired(Append(s, f))
           /\ \A c : OwnedBy(s, c) /\ f.co = c => OwnedBy(Append(s, f), c)
<1> DEFINE t == Append(s, f)
<1>1. /\ t \in Seq(Frame) /\ Len(t) = Len(s) + 1 /\ Len(s) \in Nat
      /\ \A d \in 1 .. Len(s) : t[d] = s[d]
      /\ t[Len(s) + 1] = f
  BY Longer
<1> HIDE DEF t
<1>2. \A d \in 1 .. Len(t) : d \in 1 .. Len(s) \/ d = Len(s) + 1
  BY <1>1
<1>3. \A d \in 1 .. Len(s) : d \in 1 .. Len(t) /\ (d > 1 => d - 1 \in 1 .. Len(s))
  BY <1>1
<1>4. Len(s) + 1 \in 1 .. Len(t)
  BY <1>1
<1>5. Halts(t) = Halts(s) \cup (IF f.kind \in HaltKind THEN {Len(s) + 1} ELSE {})
  BY <1>1, <1>2, <1>3, <1>4 DEF Halts
<1>6. ASSUME Paired(s), f.kind = "callee" => Len(s) > 0 /\ s[Len(s)].kind \in ProtKind
      PROVE  Paired(t)
  <2> SUFFICES ASSUME NEW d \in 1 .. Len(t), t[d].kind = "callee"
               PROVE  d > 1 /\ t[d - 1].kind \in ProtKind
    BY DEF Paired
  <2>1. CASE d \in 1 .. Len(s)
    <3>1. d > 1 /\ s[d - 1].kind \in ProtKind
      BY <1>1, <1>6, <2>1 DEF Paired
    <3> QED  BY <1>1, <1>3, <2>1, <3>1
  <2>2. CASE d = Len(s) + 1
    <3>1. Len(s) > 0 /\ s[Len(s)].kind \in ProtKind
      BY <1>1, <1>6, <2>2
    <3>2. Len(s) \in 1 .. Len(s) /\ d - 1 = Len(s) /\ d > 1
      BY <1>1, <2>2, <3>1
    <3> QED  BY <1>1, <3>1, <3>2
  <2> QED  BY <1>2, <2>1, <2>2
<1>7. \A c : OwnedBy(s, c) /\ f.co = c => OwnedBy(t, c)
  BY <1>1, <1>2 DEF OwnedBy
<1> QED  BY <1>1, <1>5, <1>6, <1>7 DEF t

(* A stack of one frame that ends a run. *)
LEMMA OneFrame ==
    ASSUME NEW f \in Frame, f.kind \in HaltKind
    PROVE  /\ <<f>> \in Seq(Frame) /\ Len(<<f>>) = 1
           /\ Halts(<<f>>) = {1} /\ Paired(<<f>>) /\ OwnedBy(<<f>>, f.co)
<1>1. <<f>> \in Seq(Frame) /\ Len(<<f>>) = 1 /\ <<f>>[1] = f /\ 1 .. 1 = {1}
  OBVIOUS
<1>2. f.kind # "callee"
  BY DEF HaltKind
<1> QED  BY <1>1, <1>2 DEF Halts, Paired, OwnedBy

(* A stack without frames. *)
LEMMA NoFrame == Halts(<<>>) = {} /\ Paired(<<>>) /\ \A c : OwnedBy(<<>>, c)
BY DEF Halts, Paired, OwnedBy

-----------------------------------------------------------------------------
(***************************************************************************)
(* Runs: the foot of each, which is its floor, but the first frame of a    *)
(* coroutine that is resumed again, where the floor is 0; the feet of a    *)
(* thread's runs.                                                          *)
(***************************************************************************)
Foot(r) == IF r.kind = "resume" THEN 1 ELSE r.floor
FeetOf(rs, t) == {Foot(rs[k]) : k \in {j \in 1 .. Len(rs) : rs[j].th = t}}
Rising(rs) ==
    /\ \A k \in 1 .. Len(rs) : Foot(rs[k]) >= 1
    /\ \A j, k \in 1 .. Len(rs) : j < k /\ rs[j].th = rs[k].th => Foot(rs[j]) < Foot(rs[k])

LEMMA FootType == ASSUME NEW r \in RunRecord PROVE Foot(r) \in Nat
BY PoolAssumption DEF RunRecord, Foot

(* A run that is entered. *)
LEMMA FeetEnter ==
    ASSUME NEW rs \in Seq(RunRecord), NEW r \in RunRecord
    PROVE  /\ FeetOf(Append(rs, r), r.th) = FeetOf(rs, r.th) \cup {Foot(r)}
           /\ \A t : t # r.th => FeetOf(Append(rs, r), t) = FeetOf(rs, t)
           /\ Rising(rs) /\ Foot(r) >= 1 /\ (\A f \in FeetOf(rs, r.th) : f < Foot(r))
                => Rising(Append(rs, r))
<1> DEFINE q == Append(rs, r)
<1>1. /\ q \in Seq(RunRecord) /\ Len(q) = Len(rs) + 1 /\ Len(rs) \in Nat
      /\ \A k \in 1 .. Len(rs) : q[k] = rs[k]
      /\ q[Len(rs) + 1] = r
  BY Longer
<1> HIDE DEF q
<1>2. \A k \in 1 .. Len(q) : k \in 1 .. Len(rs) \/ k = Len(rs) + 1
  BY <1>1
<1>3. Len(rs) + 1 \in 1 .. Len(q) /\ \A k \in 1 .. Len(rs) : k \in 1 .. Len(q) /\ k # Len(rs) + 1
  BY <1>1
<1>4. FeetOf(q, r.th) = FeetOf(rs, r.th) \cup {Foot(r)}
  <2>1. ASSUME NEW f \in FeetOf(q, r.th) PROVE f \in FeetOf(rs, r.th) \cup {Foot(r)}
    <3>1. PICK k \in 1 .. Len(q) : q[k].th = r.th /\ f = Foot(q[k])
      BY <2>1 DEF FeetOf
    <3> QED  BY <1>1, <1>2, <3>1 DEF FeetOf
  <2>2. ASSUME NEW f \in FeetOf(rs, r.th) PROVE f \in FeetOf(q, r.th)
    <3>1. PICK k \in 1 .. Len(rs) : rs[k].th = r.th /\ f = Foot(rs[k])
      BY <2>2 DEF FeetOf
    <3> QED  BY <1>1, <1>3, <3>1 DEF FeetOf
  <2>3. Foot(r) \in FeetOf(q, r.th)
    BY <1>1, <1>3 DEF FeetOf
  <2> QED  BY <2>1, <2>2, <2>3
<1>5. ASSUME NEW t, t # r.th PROVE FeetOf(q, t) = FeetOf(rs, t)
  <2>1. \A k : k \in 1 .. Len(q) /\ q[k].th = t <=> k \in 1 .. Len(rs) /\ rs[k].th = t
    BY <1>1, <1>2, <1>3, <1>5
  <2>2. ASSUME NEW f \in FeetOf(q, t) PROVE f \in FeetOf(rs, t)
    <3>1. PICK k \in 1 .. Len(q) : q[k].th = t /\ f = Foot(q[k])
      BY <2>2 DEF FeetOf
    <3> QED  BY <1>1, <2>1, <3>1 DEF FeetOf
  <2>3. ASSUME NEW f \in FeetOf(rs, t) PROVE f \in FeetOf(q, t)
    <3>1. PICK k \in 1 .. Len(rs) : rs[k].th = t /\ f = Foot(rs[k])
      BY <2>3 DEF FeetOf
    <3> QED  BY <1>1, <2>1, <3>1 DEF FeetOf
  <2> QED  BY <2>2, <2>3
<1>6. ASSUME Rising(rs), Foot(r) >= 1, \A f \in FeetOf(rs, r.th) : f < Foot(r)
      PROVE  Rising(q)
  <2>1. \A k \in 1 .. Len(q) : Foot(q[k]) >= 1
    BY <1>1, <1>2, <1>6 DEF Rising
  <2>2. ASSUME NEW j \in 1 .. Len(q), NEW k \in 1 .. Len(q), j < k, q[j].th = q[k].th
        PROVE  Foot(q[j]) < Foot(q[k])
    <3>1. j \in 1 .. Len(rs)
      BY <1>1, <2>2
    <3>2. CASE k \in 1 .. Len(rs)
      BY <1>1, <1>6, <2>2, <3>1, <3>2 DEF Rising
    <3>3. CASE k = Len(rs) + 1
      <4>1. Foot(rs[j]) \in FeetOf(rs, r.th)
        BY <1>1, <2>2, <3>1, <3>3 DEF FeetOf
      <4> QED  BY <1>1, <1>6, <3>1, <3>3, <4>1
    <3> QED  BY <1>2, <3>2, <3>3
  <2> QED  BY <2>1, <2>2 DEF Rising
<1> QED  BY <1>4, <1>5, <1>6 DEF q

(* A run that is left; its foot was the highest of its thread. *)
AllButLast(q, rs) == Len(rs) = Len(q) + 1 /\ \A k \in 1 .. Len(q) : q[k] = rs[k]

LEMMA FeetLeave ==
    ASSUME NEW rs \in Seq(RunRecord), NEW q \in Seq(RunRecord), AllButLast(q, rs),
           Rising(rs), NEW r \in RunRecord, rs[Len(rs)] = r
    PROVE  /\ FeetOf(q, r.th) = FeetOf(rs, r.th) \ {Foot(r)}
           /\ Foot(r) \in FeetOf(rs, r.th)
           /\ \A f \in FeetOf(q, r.th) : f < Foot(r)
           /\ \A t : t # r.th => FeetOf(q, t) = FeetOf(rs, t)
           /\ Rising(q)
<1>0. Len(rs) = Len(q) + 1 /\ \A k \in 1 .. Len(q) : q[k] = rs[k]
  BY DEF AllButLast
<1>1. Len(q) \in Nat /\ Len(rs) \in 1 .. Len(rs) /\ rs[Len(rs)] \in RunRecord
  BY <1>0
<1>2. \A k \in 1 .. Len(rs) : k \in 1 .. Len(q) \/ k = Len(rs)
  BY <1>0, <1>1
<1>3. \A k \in 1 .. Len(q) : k \in 1 .. Len(rs) /\ k < Len(rs) /\ q[k] = rs[k]
  BY <1>0, <1>1
<1>4. Foot(r) \in FeetOf(rs, r.th) /\ Foot(r) \in Nat
  BY <1>1, FootType DEF FeetOf
<1>5. ASSUME NEW f \in FeetOf(q, r.th) PROVE f < Foot(r) /\ f \in Nat
  <2>1. PICK k \in 1 .. Len(q) : q[k].th = r.th /\ f = Foot(q[k])
    BY <1>5 DEF FeetOf
  <2>2. k \in 1 .. Len(rs) /\ k < Len(rs) /\ rs[k].th = rs[Len(rs)].th /\ f = Foot(rs[k])
    BY <1>3, <2>1
  <2>3. Foot(rs[k]) < Foot(rs[Len(rs)])
    BY <1>1, <2>2 DEF Rising
  <2>4. f \in Nat
    BY <2>1, FootType
  <2> QED  BY <2>2, <2>3, <2>4
<1>6. FeetOf(q, r.th) = FeetOf(rs, r.th) \ {Foot(r)}
  <2>1. ASSUME NEW f \in FeetOf(q, r.th) PROVE f \in FeetOf(rs, r.th)
    <3>1. PICK k \in 1 .. Len(q) : q[k].th = r.th /\ f = Foot(q[k])
      BY <2>1 DEF FeetOf
    <3> QED  BY <1>3, <3>1 DEF FeetOf
  <2>2. ASSUME NEW f \in FeetOf(rs, r.th), f # Foot(r) PROVE f \in FeetOf(q, r.th)
    <3>1. PICK k \in 1 .. Len(rs) : rs[k].th = r.th /\ f = Foot(rs[k])
      BY <2>2 DEF FeetOf
    <3>2. k \in 1 .. Len(q)
      BY <1>2, <2>2, <3>1
    <3> QED  BY <1>3, <3>1, <3>2 DEF FeetOf
  <2>3. \A f \in FeetOf(q, r.th) : f # Foot(r)
    BY <1>4, <1>5
  <2> QED  BY <2>1, <2>2, <2>3
<1>7. ASSUME NEW t, t # r.th PROVE FeetOf(q, t) = FeetOf(rs, t)
  <2>1. ASSUME NEW f \in FeetOf(q, t) PROVE f \in FeetOf(rs, t)
    <3>1. PICK k \in 1 .. Len(q) : q[k].th = t /\ f = Foot(q[k])
      BY <2>1 DEF FeetOf
    <3> QED  BY <1>3, <3>1 DEF FeetOf
  <2>2. ASSUME NEW f \in FeetOf(rs, t) PROVE f \in FeetOf(q, t)
    <3>1. PICK k \in 1 .. Len(rs) : rs[k].th = t /\ f = Foot(rs[k])
      BY <2>2 DEF FeetOf
    <3>2. k \in 1 .. Len(q)
      BY <1>2, <1>7, <3>1
    <3> QED  BY <1>3, <3>1, <3>2 DEF FeetOf
  <2> QED  BY <2>1, <2>2
<1>8. Rising(q)
  <2>1. \A k \in 1 .. Len(q) : Foot(q[k]) >= 1
    BY <1>3 DEF Rising
  <2>2. ASSUME NEW j \in 1 .. Len(q), NEW k \in 1 .. Len(q), j < k, q[j].th = q[k].th
        PROVE  Foot(q[j]) < Foot(q[k])
    BY <1>3, <2>2 DEF Rising
  <2> QED  BY <2>1, <2>2 DEF Rising
<1> QED  BY <1>4, <1>5, <1>6, <1>7, <1>8

(* The script's own run. *)
LEMMA FeetStart ==
    /\ Rising(<<MainRun>>) /\ FeetOf(<<MainRun>>, 0) = {1}
    /\ \A t : t # 0 => FeetOf(<<MainRun>>, t) = {}
<1>1. Len(<<MainRun>>) = 1 /\ <<MainRun>>[1] = MainRun /\ 1 .. 1 = {1}
  OBVIOUS
<1>2. MainRun.th = 0 /\ Foot(MainRun) = 1
  BY DEF MainRun, Run, Foot
<1> QED  BY <1>1, <1>2 DEF Rising, FeetOf

-----------------------------------------------------------------------------
(***************************************************************************)
(* What holds of the frames s of thread t under the runs rs: Exact while   *)
(* instructions execute; once one has failed, only up to the innermost     *)
(* foot (UpTo), above which frames of runs that are gone may be left, with *)
(* no protected frame above them (Junk).  An error that leaves a nested    *)
(* run has found no protected frame above its foot at all (Bare).          *)
(***************************************************************************)
Innermost(rs) == rs[Len(rs)]
Exact(s, rs, t) == Halts(s) = FeetOf(rs, t)
UpTo(s, rs, t) ==
    /\ FeetOf(rs, t) \subseteq Halts(s)
    /\ \A d \in Halts(s) : d <= Foot(Innermost(rs)) => d \in FeetOf(rs, t)
Junk(s, n) == \A d \in Halts(s), e \in 1 .. Len(s) : n < d /\ d < e => s[e].kind \notin ProtKind
Bare(s, n) == \A e \in 1 .. Len(s) : n < e => s[e].kind \notin ProtKind

Here(m, s, rs, t) ==
    /\ m = "run" => Exact(s, rs, t)
    /\ m = "raise" => UpTo(s, rs, t) /\ Junk(s, Foot(Innermost(rs)))
    /\ m = "fail" => /\ UpTo(s, rs, t)
                     /\ Innermost(rs).kind \in {"meta", "handler"}
                            => Bare(s, Foot(Innermost(rs)))

\* The stacks of the threads that wait for one they resumed.
ParkedInv ==
    \A t \in Thread : t # current /\ (t \in Co => cos[t].status = "normal")
                        => Exact(threads[t], runs, t)

WholeInv == \A i \in Co : cos[i].status = "suspended" /\ cos[i].started => Halts(threads[i]) = {1}

Owners ==
    /\ OwnedBy(flat, Self)
    /\ current # 0 => OwnedBy(threads[0], 0)
    /\ \A i \in Co : i # current /\ cos[i].status # "dead" => OwnedBy(threads[i], cos[i].serial)

Marked == Paired(flat) /\ \A t \in Thread : Paired(threads[t])

FrameInv ==
    /\ ChainInv
    /\ Owners
    /\ Rising(runs)
    /\ Here(mode, flat, runs, current)
    /\ ParkedInv
    /\ WholeInv
    /\ Marked
-----------------------------------------------------------------------------
(* The innermost run's foot is the highest of its thread. *)
LEMMA TopFoot ==
    ASSUME NEW rs \in Seq(RunRecord), Len(rs) >= 1, Rising(rs)
    PROVE  LET r == Innermost(rs) IN
           /\ r \in RunRecord /\ Foot(r) \in Nat /\ Foot(r) >= 1
           /\ Foot(r) \in FeetOf(rs, r.th)
           /\ \A f \in FeetOf(rs, r.th) : f \in Nat /\ 1 <= f /\ f <= Foot(r)
<1> DEFINE n == Len(rs)
<1>1. n \in Nat /\ n \in 1 .. n /\ rs[n] \in RunRecord
  OBVIOUS
<1>2. \A k \in 1 .. n : k < n \/ k = n
  BY <1>1
<1>3. Foot(rs[n]) \in Nat /\ Foot(rs[n]) >= 1 /\ Foot(rs[n]) \in FeetOf(rs, rs[n].th)
  BY <1>1, FootType DEF Rising, FeetOf
<1>4. ASSUME NEW f \in FeetOf(rs, rs[n].th) PROVE f \in Nat /\ 1 <= f /\ f <= Foot(rs[n])
  <2>1. PICK k \in 1 .. n : rs[k].th = rs[n].th /\ f = Foot(rs[k])
    BY <1>4 DEF FeetOf
  <2>2. f \in Nat /\ f >= 1
    BY <2>1, FootType DEF Rising
  <2>3. k < n => f < Foot(rs[n])
    BY <1>1, <2>1 DEF Rising
  <2> QED  BY <1>2, <1>3, <2>1, <2>2, <2>3
<1> QED  BY <1>1, <1>3, <1>4 DEF Innermost

(* An exact stack has what is left after an error, too. *)
LEMMA ExactHere ==
    ASSUME NEW s \in Seq(Frame), NEW rs \in Seq(RunRecord), Len(rs) >= 1, Rising(rs),
           NEW t, Innermost(rs).th = t, Exact(s, rs, t), NEW m \in {"run", "raise"}
    PROVE  Here(m, s, rs, t)
<1>1. UpTo(s, rs, t)
  BY DEF UpTo, Exact
<1>2. Junk(s, Foot(Innermost(rs)))
  <2>1. \A d \in Halts(s) : d \in Nat /\ d <= Foot(Innermost(rs))
    BY TopFoot DEF Exact
  <2>2. Foot(Innermost(rs)) \in Nat
    BY TopFoot
  <2>3. \A d \in Halts(s) : ~(Foot(Innermost(rs)) < d)
    BY <2>1, <2>2
  <2> QED  BY <2>3 DEF Junk
<1> QED  BY <1>1, <1>2 DEF Here

(* What the invariant says of the running thread, in the form the steps use. *)
LEMMA Facts ==
    ASSUME FrameInv
    PROVE  /\ flat \in Seq(Frame) /\ Len(flat) \in Nat /\ Depth = Len(flat) /\ Depth <= MAX_FRAMES
           /\ runs \in Seq(RunRecord) /\ Len(runs) \in Nat /\ Len(runs) >= 1
           /\ TopRun = Innermost(runs) /\ TopRun = runs[Len(runs)]
           /\ TopRun \in RunRecord /\ TopRun.th = current
           /\ Foot(TopRun) \in Nat /\ Foot(TopRun) >= 1 /\ Foot(TopRun) \in FeetOf(runs, current)
           /\ \A f \in FeetOf(runs, current) : f \in Nat /\ 1 <= f /\ f <= Foot(TopRun)
           /\ current \in Thread /\ threads \in [Thread -> Seq(Frame)]
           /\ cos \in [Co -> CoRecord]
<1>1. TypeInv /\ ResumeHandsBack
  BY DEF FrameInv, ChainInv, ResumeChain, RunsNest, ResumeHandsBack
<1>2. /\ flat \in Seq(Frame) /\ Len(flat) \in Nat /\ Depth = Len(flat) /\ Depth <= MAX_FRAMES
      /\ current \in Thread /\ threads \in [Thread -> Seq(Frame)] /\ cos \in [Co -> CoRecord]
  BY <1>1 DEF TypeInv, TypeOK, Depth
<1>3. runs \in Seq(RunRecord) /\ Len(runs) \in Nat /\ Len(runs) >= 1
  BY <1>1, RunsType
<1>4. TopRun = Innermost(runs) /\ TopRun = runs[Len(runs)] /\ TopRun.th = current
  BY <1>1 DEF TopRun, Innermost, ResumeHandsBack
<1> QED  BY <1>2, <1>3, <1>4, TopFoot DEF FrameInv

(* Dropping all but n frames. *)
LEMMA CutN ==
    ASSUME FrameInv, NEW n \in Nat, n <= Depth
    PROVE  Cut(n) = SubSeq(flat, 1, n) /\ n \in 0 .. Len(flat)
<1>1. Depth = Len(flat) /\ Len(flat) \in Nat
  BY Facts
<1>2. (IF n < Depth THEN n ELSE Depth) = n
  BY <1>1
<1> QED  BY <1>1, <1>2 DEF Cut

(* A new frame is the running coroutine's. *)
LEMMA NewFrameIs ==
    ASSUME FrameInv, NEW k \in FrameKind
    PROVE  NewFrame(k) \in Frame /\ NewFrame(k).kind = k /\ NewFrame(k).co = Self
BY NewFrameType DEF FrameInv, ChainInv, NewFrame

-----------------------------------------------------------------------------
(* Steps that stay in the running thread. *)
LEMMA Stay ==
    ASSUME FrameInv, ChainInv', UNCHANGED <<current, threads, cos>>,
           OwnedBy(flat', Self), Paired(flat'), Rising(runs'),
           \A t : t # current => FeetOf(runs', t) = FeetOf(runs, t),
           Here(mode', flat', runs', current)
    PROVE  FrameInv'
<1>1. Self' = Self
  BY DEF Self
<1>2. Owners' /\ Marked' /\ WholeInv'
  BY <1>1 DEF FrameInv, Owners, Marked, WholeInv
<1>3. ParkedInv'
  BY DEF FrameInv, ParkedInv, Exact
<1> QED  BY <1>2, <1>3 DEF FrameInv

(* Steps inside the innermost run. *)
LEMMA StayRun ==
    ASSUME FrameInv, ChainInv', UNCHANGED <<current, threads, cos, runs>>,
           OwnedBy(flat', Self), Paired(flat'), Here(mode', flat', runs, current)
    PROVE  FrameInv'
BY Stay DEF FrameInv

(* An instruction fails; an error is not caught; the script fails. *)
LEMMA FlatStays ==
    ASSUME FrameInv, ChainInv', Error \/ Propagate \/ FailRoot
    PROVE  FrameInv'
<1>1. /\ UNCHANGED <<current, threads, cos, runs, flat>>
      /\ OwnedBy(flat, Self) /\ Paired(flat)
  BY DEF Error, Propagate, FailRoot, FrameInv, Owners, Marked
<1>2. Here(mode', flat, runs, current)
  <2>1. CASE Error
    <3>1. Exact(flat, runs, current) /\ mode' = "raise" /\ Rising(runs)
      BY <2>1 DEF Error, FrameInv, Here
    <3> QED  BY <3>1, Facts, ExactHere
  <2>2. CASE Propagate
    <3>1. UpTo(flat, runs, current) /\ mode' = "fail" /\ Catchers = {}
      BY <2>2 DEF Propagate, FrameInv, Here
    <3>2. Innermost(runs).kind \in {"meta", "handler"} => Bare(flat, Foot(Innermost(runs)))
      <4> SUFFICES ASSUME TopRun.kind \in {"meta", "handler"},
                          NEW e \in 1 .. Len(flat), Foot(TopRun) < e
                   PROVE  flat[e].kind \notin ProtKind
        BY Facts DEF Bare
      <4>1. Foot(TopRun) = TopRun.floor
        BY DEF Foot
      <4>2. e \in TopRun.floor + 1 .. Depth
        BY <4>1, Facts
      <4> QED  BY <3>1, <4>2 DEF Catchers
    <3> QED  BY <3>1, <3>2 DEF Here
  <2>3. CASE FailRoot
    BY <2>3 DEF FailRoot, Here
  <2> QED  BY <2>1, <2>2, <2>3
<1> QED  BY <1>1, <1>2, StayRun

(* A frame that ends no run is pushed. *)
LEMMA Pushed ==
    ASSUME FrameInv, NEW s \in Seq(Frame), OwnedBy(s, Self), Paired(s), Exact(s, runs, current),
           NEW k \in FrameKind \ HaltKind,
           k = "callee" => Len(s) > 0 /\ s[Len(s)].kind \in ProtKind
    PROVE  LET t == Append(s, NewFrame(k)) IN
           /\ t \in Seq(Frame) /\ OwnedBy(t, Self) /\ Paired(t) /\ Exact(t, runs, current)
           /\ Len(t) > 0 /\ t[Len(t)].kind = k
<1>1. NewFrame(k) \in Frame /\ NewFrame(k).kind = k /\ NewFrame(k).co = Self
  BY NewFrameIs
<1> DEFINE f == NewFrame(k)
<1> HIDE DEF f
<1>2. f \in Frame /\ f.kind = k /\ f.co = Self
  BY <1>1 DEF f
<1>3. /\ Append(s, f) \in Seq(Frame) /\ Len(Append(s, f)) = Len(s) + 1
      /\ Append(s, f)[Len(s) + 1] = f
      /\ Halts(Append(s, f)) = Halts(s)
      /\ Paired(Append(s, f)) /\ OwnedBy(Append(s, f), Self)
  <2>1. /\ Append(s, f) \in Seq(Frame) /\ Len(Append(s, f)) = Len(s) + 1
        /\ Append(s, f)[Len(s) + 1] = f
        /\ Halts(Append(s, f)) = Halts(s) \cup (IF f.kind \in HaltKind THEN {Len(s) + 1} ELSE {})
        /\ Paired(s) /\ (f.kind = "callee" => Len(s) > 0 /\ s[Len(s)].kind \in ProtKind)
             => Paired(Append(s, f))
        /\ \A c : OwnedBy(s, c) /\ f.co = c => OwnedBy(Append(s, f), c)
    BY <1>2, PushIs
  <2>2. Halts(Append(s, f)) = Halts(s)
    BY <1>2, <2>1
  <2>3. Paired(Append(s, f))
    BY <1>2, <2>1
  <2> QED  BY <1>2, <2>1, <2>2, <2>3
<1>4. Len(s) + 1 > 0
  OBVIOUS
<1> QED  BY <1>2, <1>3, <1>4 DEF Exact, f

LEMMA Pushes ==
    ASSUME FrameInv, ChainInv', Call \/ Protect \/ ProtectNative
    PROVE  FrameInv'
<1>1. /\ UNCHANGED <<current, threads, cos, runs>> /\ mode = "run" /\ Rising(runs)
      /\ OwnedBy(flat, Self) /\ Paired(flat) /\ Exact(flat, runs, current)
  BY DEF Call, Protect, ProtectNative, FrameInv, Owners, Marked, Here
<1>2. \A k \in ProtKind \cup {"func"} : k \in FrameKind \ HaltKind /\ k # "callee"
  BY DEF FrameKind, ProtKind, HaltKind
<1>3. PICK k \in ProtKind \cup {"func"} :
        \/ flat' = Append(flat, NewFrame(k))
        \/ k \in ProtKind /\ flat' = Append(Append(flat, NewFrame(k)), NewFrame("callee"))
  <2>1. \A a, b \in Frame : flat \o <<a, b>> = Append(Append(flat, a), b)
    BY Facts
  <2>2. CASE Call \/ ProtectNative
    BY <2>2 DEF Call, ProtectNative
  <2>3. CASE Protect
    <3>1. PICK k \in ProtKind : \/ flat' = Append(flat, NewFrame(k))
                                \/ flat' = flat \o <<NewFrame(k), NewFrame("callee")>>
      BY <2>3 DEF Protect
    <3>2. NewFrame(k) \in Frame /\ NewFrame("callee") \in Frame
      BY NewFrameIs DEF FrameKind
    <3> QED  BY <2>1, <3>1, <3>2
  <2> QED  BY <2>2, <2>3
<1> DEFINE s == Append(flat, NewFrame(k))
<1>4. /\ s \in Seq(Frame) /\ OwnedBy(s, Self) /\ Paired(s) /\ Exact(s, runs, current)
      /\ Len(s) > 0 /\ s[Len(s)].kind = k
  BY <1>1, <1>2, Facts, Pushed
<1> HIDE DEF s
<1>5. /\ flat' \in Seq(Frame) /\ OwnedBy(flat', Self) /\ Paired(flat') /\ Exact(flat', runs, current)
  <2>1. CASE flat' = s
    BY <1>4, <2>1
  <2>2. CASE k \in ProtKind /\ flat' = Append(s, NewFrame("callee"))
    <3>1. "callee" \in FrameKind \ HaltKind
      BY DEF FrameKind, HaltKind
    <3> QED  BY <1>4, <2>2, <3>1, Pushed
  <2> QED  BY <1>3, <2>1, <2>2 DEF s
<1>6. mode' \in {"run", "raise"}
  BY DEF Call, Protect, ProtectNative
<1>7. Here(mode', flat', runs, current)
  BY <1>1, <1>5, <1>6, Facts, ExactHere
<1> QED  BY <1>1, <1>5, <1>7, StayRun

(* Frames that end no run are popped. *)
LEMMA Pops ==
    ASSUME FrameInv, ChainInv', FinishProtect \/ ReturnCall \/ ReturnProtected
    PROVE  FrameInv'
<1>1. /\ UNCHANGED <<current, threads, cos, runs, mode>> /\ mode = "run" /\ Rising(runs)
      /\ OwnedBy(flat, Self) /\ Paired(flat) /\ Exact(flat, runs, current)
  BY DEF FinishProtect, ReturnCall, ReturnProtected, FrameInv, Owners, Marked, Here
<1>2. Depth > 0 /\ flat[Depth].kind = TopKind /\ Depth \in 1 .. Len(flat) /\ Depth = Len(flat)
  BY Facts DEF FinishProtect, ReturnCall, ReturnProtected, TopKind, ProtKind
<1>3. PICK n \in Nat : n <= Depth /\ flat' = Cut(n)
                       /\ \A d \in 1 .. Len(flat) : n < d => flat[d].kind \notin HaltKind
  <2>1. CASE FinishProtect \/ ReturnCall
    <3>1. Depth - 1 \in Nat /\ Depth - 1 <= Depth /\ flat' = Cut(Depth - 1)
      BY <1>2, <2>1, Facts DEF FinishProtect, ReturnCall
    <3>2. \A d \in 1 .. Len(flat) : Depth - 1 < d => d = Depth
      BY <1>2
    <3>3. flat[Depth].kind \notin HaltKind
      BY <1>2, <2>1 DEF FinishProtect, ReturnCall, HaltKind, ProtKind
    <3> QED  BY <3>1, <3>2, <3>3
  <2>2. CASE ReturnProtected
    <3>1. flat[Depth].kind = "callee" /\ flat' = Cut(Depth - 2)
      BY <1>2, <2>2 DEF ReturnProtected
    <3>2. Depth > 1 /\ flat[Depth - 1].kind \in ProtKind
      BY <1>1, <1>2, <3>1 DEF Paired
    <3>3. Depth - 2 \in Nat /\ Depth - 2 <= Depth
      BY <1>2, <3>2
    <3>4. \A d \in 1 .. Len(flat) : Depth - 2 < d => d = Depth \/ d = Depth - 1
      BY <1>2
    <3>5. flat[Depth].kind \notin HaltKind /\ flat[Depth - 1].kind \notin HaltKind
      BY <3>1, <3>2 DEF HaltKind, ProtKind
    <3> QED  BY <3>1, <3>3, <3>4, <3>5
  <2> QED  BY <2>1, <2>2
<1>4. flat' = SubSeq(flat, 1, n) /\ n \in 0 .. Len(flat)
  BY <1>3, CutN
<1>5. /\ flat' \in Seq(Frame) /\ OwnedBy(flat', Self) /\ Paired(flat')
      /\ Halts(flat') = {d \in Halts(flat) : d <= n}
  BY <1>1, <1>4, Facts, CutIs
<1>6. Halts(flat') = Halts(flat)
  <2>1. \A d \in Halts(flat) : d <= n
    BY <1>3, <1>4, Facts DEF Halts
  <2> QED  BY <1>5, <2>1
<1>7. Exact(flat', runs, current)
  BY <1>1, <1>6 DEF Exact
<1>8. Here(mode', flat', runs, current)
  BY <1>1, <1>5, <1>7, Facts, ExactHere
<1> QED  BY <1>1, <1>5, <1>8, StayRun
-----------------------------------------------------------------------------
(* A nested run is entered on an exact stack. *)
LEMMA Nests ==
    ASSUME FrameInv, NEW s \in Seq(Frame), OwnedBy(s, Self), Paired(s), Exact(s, runs, current),
           NEW r \in RunRecord, r.kind \in {"meta", "handler"}, r.th = current,
           r.floor = Len(s) + 1,
           ChainInv', UNCHANGED <<current, threads, cos>>, mode' = "run",
           flat' = Append(s, NewFrame("nested")), runs' = Append(runs, r)
    PROVE  FrameInv'
<1> DEFINE f == NewFrame("nested")
<1>1. f \in Frame /\ f.kind = "nested" /\ f.co = Self
  BY NewFrameIs DEF FrameKind, HaltKind
<1>2. f.kind \in HaltKind /\ f.kind # "callee"
  BY <1>1 DEF HaltKind
<1> HIDE DEF f
<1>3. flat' = Append(s, f)
  BY DEF f
<1>4. /\ flat' \in Seq(Frame) /\ Halts(flat') = Halts(s) \cup {Len(s) + 1}
      /\ Paired(flat') /\ OwnedBy(flat', Self)
  BY <1>1, <1>2, <1>3, PushIs
<1>5. Foot(r) = Len(s) + 1 /\ Len(s) \in Nat
  BY DEF Foot
<1>6. \A g \in FeetOf(runs, r.th) : g < Foot(r)
  <2>1. \A g \in Halts(s) : g < Len(s) + 1
    BY DEF Halts
  <2> QED  BY <1>5, <2>1 DEF Exact
<1>7. /\ FeetOf(runs', current) = FeetOf(runs, current) \cup {Foot(r)}
      /\ \A t : t # current => FeetOf(runs', t) = FeetOf(runs, t)
      /\ Rising(runs')
  <2>1. runs \in Seq(RunRecord) /\ Rising(runs) /\ Foot(r) >= 1
    BY <1>5, Facts DEF FrameInv
  <2>2. /\ FeetOf(runs', r.th) = FeetOf(runs, r.th) \cup {Foot(r)}
        /\ \A t : t # r.th => FeetOf(runs', t) = FeetOf(runs, t)
        /\ Rising(runs) /\ Foot(r) >= 1 /\ (\A g \in FeetOf(runs, r.th) : g < Foot(r))
             => Rising(runs')
    BY <2>1, FeetEnter
  <2> QED  BY <1>6, <2>1, <2>2
<1>8. Exact(flat', runs', current)
  BY <1>4, <1>5, <1>7 DEF Exact
<1>9. runs' \in Seq(RunRecord) /\ Len(runs') >= 1 /\ Innermost(runs').th = current
  <2>1. Len(runs') = Len(runs) + 1 /\ runs' \in Seq(RunRecord) /\ runs'[Len(runs) + 1] = r
    BY Facts, Longer
  <2> QED  BY <2>1, Facts DEF Innermost
<1>10. Here(mode', flat', runs', current)
  BY <1>4, <1>7, <1>8, <1>9, ExactHere
<1> QED  BY <1>4, <1>7, <1>10, Stay

LEMMA MetaCalled == ASSUME FrameInv, ChainInv', CallMeta PROVE FrameInv'
<1> DEFINE r == Run("meta", current, current, Depth + 1, FALSE)
<1>1. /\ UNCHANGED <<current, threads, cos>> /\ mode' = "run" /\ mode = "run"
      /\ flat' = Append(flat, NewFrame("nested")) /\ runs' = Append(runs, r)
  BY DEF CallMeta
<1>2. r \in RunRecord /\ r.kind = "meta" /\ r.th = current /\ r.floor = Depth + 1
  <2>1. Depth \in Nat /\ Depth <= MAX_FRAMES /\ Depth # MAX_FRAMES /\ current \in Thread
    BY Facts DEF CallMeta, Full
  <2>2. Depth + 1 \in 0 .. MAX_FRAMES
    BY <2>1, PoolAssumption
  <2> QED  BY <2>1, <2>2 DEF Run, RunRecord
<1> HIDE DEF r
<1>3. OwnedBy(flat, Self) /\ Paired(flat) /\ Exact(flat, runs, current)
  BY <1>1 DEF FrameInv, Owners, Marked, Here
<1>4. Depth = Len(flat) /\ flat \in Seq(Frame)
  BY Facts
<1> QED  BY <1>1, <1>2, <1>3, <1>4, Nests

(* Where an error is caught, nothing is left of the runs that are gone. *)
LEMMA Caught ==
    ASSUME FrameInv, mode = "raise", NEW d \in Catchers
    PROVE  /\ d \in 1 .. Len(flat) /\ d - 1 \in Nat /\ d <= MAX_FRAMES
           /\ Cut(d - 1) \in Seq(Frame) /\ Len(Cut(d - 1)) = d - 1
           /\ OwnedBy(Cut(d - 1), Self) /\ Paired(Cut(d - 1))
           /\ Exact(Cut(d - 1), runs, current)
<1>1. /\ UpTo(flat, runs, current) /\ Junk(flat, Foot(TopRun))
      /\ OwnedBy(flat, Self) /\ Paired(flat)
  BY Facts DEF FrameInv, Here, Owners, Marked
<1>2. TopRun.floor \in Nat
  BY Facts DEF RunRecord
<1>3. d \in 1 .. Len(flat) /\ d > TopRun.floor /\ flat[d].kind \in ProtKind
  BY <1>2, Facts DEF Catchers
<1>4. d > Foot(TopRun)
  <2>1. CASE TopRun.kind = "resume"
    <3>1. Foot(TopRun) = 1
      BY <2>1 DEF Foot
    <3>2. 1 \in Halts(flat)
      BY <1>1, <3>1, Facts DEF UpTo
    <3>3. d # 1
      BY <1>3, <3>2 DEF Halts, HaltKind, ProtKind
    <3> QED  BY <1>3, <3>1, <3>3
  <2>2. CASE TopRun.kind # "resume"
    BY <1>3, <2>2 DEF Foot
  <2> QED  BY <2>1, <2>2
<1>5. d - 1 \in Nat /\ d - 1 <= Depth /\ d <= MAX_FRAMES
  BY <1>3, Facts, PoolAssumption
<1>6. Cut(d - 1) = SubSeq(flat, 1, d - 1) /\ d - 1 \in 0 .. Len(flat)
  BY <1>5, CutN
<1>7. /\ Cut(d - 1) \in Seq(Frame) /\ Len(Cut(d - 1)) = d - 1
      /\ Halts(Cut(d - 1)) = {h \in Halts(flat) : h <= d - 1}
      /\ Paired(Cut(d - 1)) /\ OwnedBy(Cut(d - 1), Self)
  BY <1>1, <1>6, Facts, CutIs
<1>8. \A f \in FeetOf(runs, current) : f \in Halts(flat) /\ f <= d - 1
  BY <1>1, <1>3, <1>4, Facts DEF UpTo
<1>9. ASSUME NEW h \in Halts(flat), h <= d - 1 PROVE h \in FeetOf(runs, current)
  <2>1. h < d /\ h \in Nat
    BY <1>3, <1>9 DEF Halts
  <2>2. ~(Foot(TopRun) < h)
    BY <1>1, <1>3, <2>1 DEF Junk
  <2>3. h <= Foot(TopRun)
    BY <2>1, <2>2, Facts
  <2> QED  BY <1>1, <2>3, Facts DEF UpTo
<1>10. Exact(Cut(d - 1), runs, current)
  BY <1>7, <1>8, <1>9 DEF Exact
<1> QED  BY <1>3, <1>5, <1>7, <1>10

LEMMA Catches == ASSUME FrameInv, ChainInv', Catch \/ CatchNative PROVE FrameInv'
<1>1. /\ UNCHANGED <<current, threads, cos>> /\ mode = "raise" /\ mode' = "run"
      /\ Rising(runs)
  BY DEF Catch, CatchNative, FrameInv
<1>2. PICK d \in Catchers :
        \/ flat' = Cut(d - 1) /\ UNCHANGED runs
        \/ /\ flat' = Append(Cut(d - 1), NewFrame("nested"))
           /\ runs' = Append(runs, Run("handler", current, current, d, FALSE))
  BY DEF Catch, CatchNative
<1>3. /\ d \in 1 .. Len(flat) /\ d - 1 \in Nat /\ d <= MAX_FRAMES
      /\ Cut(d - 1) \in Seq(Frame) /\ Len(Cut(d - 1)) = d - 1
      /\ OwnedBy(Cut(d - 1), Self) /\ Paired(Cut(d - 1))
      /\ Exact(Cut(d - 1), runs, current)
  BY <1>1, Caught
<1>4. CASE flat' = Cut(d - 1) /\ UNCHANGED runs
  <2>1. Here(mode', flat', runs, current)
    BY <1>1, <1>3, <1>4, Facts, ExactHere
  <2> QED  BY <1>1, <1>3, <1>4, <2>1, StayRun
<1>5. CASE /\ flat' = Append(Cut(d - 1), NewFrame("nested"))
           /\ runs' = Append(runs, Run("handler", current, current, d, FALSE))
  <2> DEFINE r == Run("handler", current, current, d, FALSE)
  <2>1. r \in RunRecord /\ r.kind = "handler" /\ r.th = current /\ r.floor = d
    <3>1. d \in 0 .. MAX_FRAMES /\ current \in Thread
      BY <1>3, PoolAssumption, Facts
    <3> QED  BY <3>1 DEF Run, RunRecord
  <2>2. runs' = Append(runs, r)
    BY <1>5
  <2> HIDE DEF r
  <2>3. d = Len(Cut(d - 1)) + 1
    BY <1>3
  <2> QED  BY <1>1, <1>3, <1>5, <2>1, <2>2, <2>3, Nests
<1> QED  BY <1>2, <1>4, <1>5

-----------------------------------------------------------------------------
(* The innermost run is left; if it was nested, its thread goes on. *)
LEMMA Below ==
    ASSUME FrameInv, TopRun.kind # "root"
    PROVE  /\ BelowTop \in Seq(RunRecord) /\ Len(BelowTop) >= 1 /\ Rising(BelowTop)
           /\ FeetOf(BelowTop, current) = FeetOf(runs, current) \ {Foot(TopRun)}
           /\ \A f \in FeetOf(BelowTop, current) : f < Foot(TopRun)
           /\ \A t : t # current => FeetOf(BelowTop, t) = FeetOf(runs, t)
           /\ Innermost(BelowTop) = runs[Len(runs) - 1] /\ Len(runs) - 1 \in 1 .. Len(runs)
           /\ Innermost(BelowTop).th = TopRun.parent
           /\ TopRun.kind \in {"meta", "handler"} => Innermost(BelowTop).th = current
<1>1. TypeInv /\ RunsNest /\ Rising(runs)
  BY DEF FrameInv, ChainInv, ResumeChain
<1>2. /\ Len(runs) >= 2 /\ BelowTop \in Seq(RunRecord) /\ Len(BelowTop) = Len(runs) - 1
      /\ \A k \in 1 .. Len(runs) - 1 : BelowTop[k] = runs[k]
  BY <1>1, BelowType
<1>3. Len(runs) \in Nat /\ TopRun = runs[Len(runs)] /\ TopRun.th = current /\ runs \in Seq(RunRecord)
  BY Facts
<1>4. Len(runs) = Len(BelowTop) + 1 /\ Len(BelowTop) >= 1
      /\ \A k \in 1 .. Len(BelowTop) : BelowTop[k] = runs[k]
  BY <1>2, <1>3
<1>5. /\ FeetOf(BelowTop, current) = FeetOf(runs, current) \ {Foot(TopRun)}
      /\ \A f \in FeetOf(BelowTop, current) : f < Foot(TopRun)
      /\ \A t : t # current => FeetOf(BelowTop, t) = FeetOf(runs, t)
      /\ Rising(BelowTop)
  <2> DEFINE q == BelowTop
             r == TopRun
  <2> HIDE DEF q, r
  <2>1. /\ q \in Seq(RunRecord) /\ AllButLast(q, runs)
        /\ runs \in Seq(RunRecord) /\ Rising(runs) /\ runs[Len(runs)] = r /\ r \in RunRecord
    BY <1>1, <1>2, <1>3, <1>4, Facts DEF q, r, AllButLast
  <2>2. /\ FeetOf(q, r.th) = FeetOf(runs, r.th) \ {Foot(r)}
        /\ \A f \in FeetOf(q, r.th) : f < Foot(r)
        /\ \A t : t # r.th => FeetOf(q, t) = FeetOf(runs, t)
        /\ Rising(q)
    <3>1. FeetOf(q, r.th) = FeetOf(runs, r.th) \ {Foot(r)}
      BY <2>1, FeetLeave
    <3>2. \A f \in FeetOf(q, r.th) : f < Foot(r)
      BY <2>1, FeetLeave
    <3>3. \A t : t # r.th => FeetOf(q, t) = FeetOf(runs, t)
      BY <2>1, FeetLeave
    <3>4. Rising(q)
      BY <2>1, FeetLeave
    <3> QED  BY <3>1, <3>2, <3>3, <3>4
  <2> QED  BY <1>3, <2>2 DEF q, r
<1>6. Innermost(BelowTop) = runs[Len(runs) - 1] /\ Len(runs) - 1 \in 1 .. Len(runs)
  BY <1>2, <1>3 DEF Innermost
<1>7. Len(runs) \in 2 .. Len(runs)
  BY <1>2, <1>3
<1>8. /\ TopRun.parent = runs[Len(runs) - 1].th
      /\ TopRun.kind \in {"meta", "handler"} => runs[Len(runs) - 1].th = TopRun.th
  BY <1>1, <1>3, <1>7 DEF RunsNest
<1> QED  BY <1>2, <1>3, <1>4, <1>5, <1>6, <1>8

(* A nested run is left with its frames where they were. *)
LEMMA Leaves ==
    ASSUME FrameInv, ChainInv', YieldMeta \/ YieldHandler \/ FailMeta
    PROVE  FrameInv'
<1>1. /\ UNCHANGED <<current, threads, cos, flat>> /\ runs' = BelowTop
      /\ TopRun.kind \in {"meta", "handler"}
      /\ OwnedBy(flat, Self) /\ Paired(flat)
  BY DEF YieldMeta, YieldHandler, FailMeta, FrameInv, Owners, Marked
<1> DEFINE n == Foot(TopRun)
           m == Foot(Innermost(runs'))
<1>2. /\ runs' \in Seq(RunRecord) /\ Len(runs') >= 1 /\ Rising(runs')
      /\ FeetOf(runs', current) = FeetOf(runs, current) \ {n}
      /\ \A f \in FeetOf(runs', current) : f < n
      /\ \A t : t # current => FeetOf(runs', t) = FeetOf(runs, t)
      /\ Innermost(runs') = runs[Len(runs) - 1]
      /\ Innermost(runs').th = current
  BY <1>1, Below
<1>3. m \in Nat /\ m \in FeetOf(runs', current) /\ n \in Nat /\ m < n
  BY <1>2, TopFoot, Facts
<1>4. UpTo(flat, runs, current)
  <2>1. CASE mode = "fail"
    BY <2>1 DEF FrameInv, Here
  <2>2. CASE mode = "run"
    BY <2>2 DEF FrameInv, Here, Exact, UpTo
  <2> QED  BY <2>1, <2>2 DEF YieldMeta, YieldHandler, FailMeta
<1>5. UpTo(flat, runs', current)
  <2>1. \A d \in Halts(flat) : d \in Nat
    BY DEF Halts
  <2>2. \A d \in Halts(flat) : d <= m => d <= n /\ d # n
    BY <1>3, <2>1
  <2> QED  BY <1>2, <1>4, <2>2, Facts DEF UpTo
<1>6. CASE YieldMeta \/ FailMeta
  <2>1. Bare(flat, n)
    <3>1. CASE YieldMeta
      <4> SUFFICES ASSUME NEW e \in 1 .. Len(flat), n < e PROVE flat[e].kind \notin ProtKind
        BY DEF Bare
      <4>1. n = TopRun.floor
        BY <3>1 DEF YieldMeta, Foot
      <4>2. e \in TopRun.floor + 1 .. Depth
        BY <1>3, <4>1, Facts
      <4> QED  BY <3>1, <4>2 DEF YieldMeta, ProtectedInRun
    <3>2. CASE FailMeta
      BY <3>2, Facts DEF FailMeta, FrameInv, Here
    <3> QED  BY <1>6, <3>1, <3>2
  <2>2. Junk(flat, m)
    <3> SUFFICES ASSUME NEW d \in Halts(flat), NEW e \in 1 .. Len(flat), m < d, d < e
                 PROVE  flat[e].kind \notin ProtKind
      BY DEF Junk
    <3>1. d \in Nat
      BY DEF Halts
    <3>2. ~(d < n)
      <4> SUFFICES ASSUME d < n PROVE FALSE
        OBVIOUS
      <4>1. d \in FeetOf(runs', current)
        BY <1>2, <1>3, <1>4, <3>1, Facts DEF UpTo
      <4>2. d <= m
        BY <1>2, <4>1, TopFoot
      <4> QED  BY <1>3, <3>1, <4>2
    <3>3. n < e
      BY <1>3, <3>1, <3>2
    <3> QED  BY <2>1, <3>3 DEF Bare
  <2>3. mode' = "raise"
    BY <1>6 DEF YieldMeta, FailMeta
  <2>4. Here(mode', flat', runs', current)
    BY <1>1, <1>5, <2>2, <2>3 DEF Here
  <2> QED  BY <1>1, <1>2, <2>4, Stay
<1>7. CASE YieldHandler
  <2>1. mode' = "fail" /\ Innermost(runs').kind = "resume"
    BY <1>2, <1>7 DEF YieldHandler
  <2>2. Here(mode', flat', runs', current)
    BY <1>1, <1>5, <2>1 DEF Here
  <2> QED  BY <1>1, <1>2, <2>2, Stay
<1> QED  BY <1>6, <1>7

(* A nested run is left and its frames are dropped. *)
LEMMA Drops ==
    ASSUME FrameInv, ChainInv', UNCHANGED <<current, threads, cos>>,
           TopRun.kind \in {"meta", "handler"}, runs' = BelowTop,
           mode' \in {"run", "raise"}, UpTo(flat, runs, current),
           flat' = Cut(Foot(TopRun) - 1)
    PROVE  FrameInv'
<1> DEFINE n == Foot(TopRun)
<1>1. n \in Nat /\ n >= 1 /\ n \in Halts(flat) /\ n \in FeetOf(runs, current)
  BY Facts DEF UpTo
<1>2. n - 1 \in Nat /\ n - 1 <= Depth
  BY <1>1, Facts DEF Halts
<1>3. flat' = SubSeq(flat, 1, n - 1) /\ n - 1 \in 0 .. Len(flat)
  BY <1>2, CutN
<1>4. OwnedBy(flat, Self) /\ Paired(flat)
  BY DEF FrameInv, Owners, Marked
<1>5. /\ flat' \in Seq(Frame) /\ OwnedBy(flat', Self) /\ Paired(flat')
      /\ Halts(flat') = {d \in Halts(flat) : d <= n - 1}
  <2> DEFINE k == n - 1
  <2> HIDE DEF k
  <2>1. flat \in Seq(Frame) /\ k \in 0 .. Len(flat) /\ flat' = SubSeq(flat, 1, k)
    BY <1>3, Facts DEF k
  <2>2. /\ SubSeq(flat, 1, k) \in Seq(Frame)
        /\ Halts(SubSeq(flat, 1, k)) = {d \in Halts(flat) : d <= k}
        /\ Paired(flat) => Paired(SubSeq(flat, 1, k))
        /\ \A c : OwnedBy(flat, c) => OwnedBy(SubSeq(flat, 1, k), c)
    BY <2>1, CutIs
  <2> QED  BY <1>4, <2>1, <2>2 DEF k
<1>6. /\ runs' \in Seq(RunRecord) /\ Len(runs') >= 1 /\ Rising(runs')
      /\ FeetOf(runs', current) = FeetOf(runs, current) \ {n}
      /\ \A f \in FeetOf(runs', current) : f < n
      /\ \A t : t # current => FeetOf(runs', t) = FeetOf(runs, t)
      /\ Innermost(runs').th = current
  BY Below
<1>7. Exact(flat', runs', current)
  <2>1. \A d \in Halts(flat) : d \in Nat
    BY DEF Halts
  <2>2. \A d \in Halts(flat) : d <= n - 1 => d <= n /\ d # n
    BY <1>1, <2>1
  <2>3. \A d \in Halts(flat) : d <= n - 1 => d \in FeetOf(runs', current)
    BY <1>6, <2>2, Facts DEF UpTo
  <2>4. \A f \in FeetOf(runs', current) : f \in Halts(flat) /\ f <= n - 1
    <3> SUFFICES ASSUME NEW f \in FeetOf(runs', current) PROVE f \in Halts(flat) /\ f <= n - 1
      OBVIOUS
    <3>1. f \in Halts(flat) /\ f < n
      BY <1>6 DEF UpTo
    <3>2. f \in Nat
      BY <2>1, <3>1
    <3> QED  BY <1>1, <3>1, <3>2
  <2> QED  BY <1>5, <2>3, <2>4 DEF Exact
<1>8. Here(mode', flat', runs', current)
  BY <1>5, <1>6, <1>7, ExactHere
<1> QED  BY <1>5, <1>6, <1>8, Stay

LEMMA HandlerFails == ASSUME FrameInv, ChainInv', FailHandler PROVE FrameInv'
<1>1. /\ UNCHANGED <<current, threads, cos>> /\ mode = "fail" /\ mode' = "raise"
      /\ TopRun.kind = "handler" /\ runs' = BelowTop /\ flat' = Cut(TopRun.floor - 1)
  BY DEF FailHandler
<1>2. Foot(TopRun) = TopRun.floor
  BY <1>1 DEF Foot
<1>3. UpTo(flat, runs, current)
  BY <1>1 DEF FrameInv, Here
<1> QED  BY <1>1, <1>2, <1>3, Drops
-----------------------------------------------------------------------------
(* A coroutine that runs has a resumer, which waits for it. *)
LEMMA Resumer ==
    ASSUME FrameInv, TopRun.kind = "resume"
    PROVE  /\ current \in Co /\ TopRun.parent \in Thread /\ TopRun.parent # current
           /\ TopRun.parent \in Co => cos[TopRun.parent].status = "normal"
<1> DEFINE n == Len(runs)
           p == TopRun.parent
<1>1. /\ ChainInv /\ RunsNest /\ StatusAgrees /\ OncePerResume /\ Underway
  BY DEF FrameInv, ChainInv, ResumeChain
<1>2. TopRun = runs[n] /\ TopRun.th = current /\ n \in Nat /\ n \in 1 .. n /\ TopRun \in RunRecord
  BY Facts
<1>3. runs[n - 1].th = p /\ n - 1 \in 1 .. n /\ n - 1 < n
  BY <1>2, Facts, Below
<1>4. n \in Resumes
  BY <1>2 DEF Resumes
<1>5. current \in Co /\ p \in Thread /\ 0 \notin Co /\ Thread = Co \cup {0}
  <2>1. current # 0
    BY <1>1, <1>2, <1>4 DEF Underway
  <2>2. current \in Thread /\ p \in Thread
    BY <1>2, Facts DEF RunRecord
  <2> QED  BY <2>1, <2>2, CoThread
<1>6. p # current
  <2> SUFFICES ASSUME p = current PROVE FALSE
    OBVIOUS
  <2>1. PICK j \in Resumes : j <= n - 1 /\ runs[j].th = runs[n - 1].th
    BY <1>1, <1>3, <1>5 DEF Underway
  <2>2. j = n
    BY <1>1, <1>2, <1>3, <1>4, <2>1 DEF OncePerResume
  <2> QED  BY <1>2, <1>3, <2>1, <2>2
<1>7. p \in Co => cos[p].status = "normal"
  <2> SUFFICES ASSUME p \in Co PROVE cos[p].status = "normal"
    OBVIOUS
  <2>1. PICK j \in Resumes : runs[j].th = runs[n - 1].th
    BY <1>1, <1>3, <1>5 DEF Underway
  <2> QED  BY <1>1, <1>3, <1>6, <2>1 DEF StatusAgrees
<1> QED  BY <1>5, <1>6, <1>7

(* Control goes back to the resumer, on the stack it had. *)
LEMMA Departs ==
    ASSUME FrameInv, ChainInv', TopRun.kind = "resume",
           NEW frames \in Seq(Frame), OwnedBy(frames, Self), Paired(frames),
           NEW status \in {"dead", "suspended"}, status = "suspended" => Halts(frames) = {1},
           NEW then \in {"run", "raise"}, SwitchBack(frames, status, then)
    PROVE  FrameInv'
<1> DEFINE p == TopRun.parent
<1>1. /\ current \in Co /\ p \in Thread /\ p # current
      /\ p \in Co => cos[p].status = "normal"
      /\ 0 \notin Co /\ Thread = Co \cup {0}
  BY Resumer, CoThread
<1>2. /\ TopRun.th = current /\ threads \in [Thread -> Seq(Frame)] /\ cos \in [Co -> CoRecord]
      /\ current \in Thread
  BY Facts
<1> HIDE DEF p
<1>3. /\ current' = p /\ flat' = threads[p] /\ runs' = BelowTop /\ mode' = then
      /\ threads' = [threads EXCEPT ![current] = frames, ![p] = threads[current]]
      /\ cos' = Left(current, p, status)
  BY <1>2 DEF SwitchBack, p
<1>4. /\ threads'[current] = frames /\ threads'[p] = threads[current]
      /\ \A t \in Thread : t # current /\ t # p => threads'[t] = threads[t]
  BY <1>1, <1>2, <1>3
<1>5. /\ cos'[current].status = status
      /\ p \in Co => cos'[p].status = "running"
      /\ \A j \in Co : j # current /\ j # p => cos'[j] = cos[j]
      /\ \A j \in Co : cos'[j].serial = cos[j].serial
  BY <1>1, <1>2, <1>3 DEF Left, CoRecord
<1>6. /\ runs' \in Seq(RunRecord) /\ Len(runs') >= 1 /\ Rising(runs')
      /\ \A t : t # current => FeetOf(runs', t) = FeetOf(runs, t)
      /\ Innermost(runs').th = p
  BY <1>3, Below DEF p
<1>7. Owners /\ ParkedInv /\ WholeInv /\ Marked
  BY DEF FrameInv
<1>8. Here(mode', flat', runs', current')
  <2>1. Exact(threads[p], runs, p)
    BY <1>1, <1>7 DEF ParkedInv
  <2>2. Exact(flat', runs', current') /\ flat' \in Seq(Frame)
    BY <1>1, <1>2, <1>3, <1>6, <2>1 DEF Exact
  <2> QED  BY <1>3, <1>6, <2>2, ExactHere
<1>9. Owners'
  <2>1. OwnedBy(flat', Self')
    <3>1. CASE p = 0
      <4>1. Self' = 0 /\ flat' = threads[0]
        BY <1>3, <3>1 DEF Self
      <4> QED  BY <1>1, <1>7, <4>1 DEF Owners
    <3>2. CASE p # 0
      <4>1. p \in Co /\ Self' = cos[p].serial
        BY <1>1, <1>3, <1>5, <3>2 DEF Self
      <4> QED  BY <1>1, <1>3, <1>7, <4>1 DEF Owners
    <3> QED  BY <3>1, <3>2
  <2>2. current' # 0 => OwnedBy(threads'[0], 0)
    BY <1>1, <1>3, <1>4, <1>7 DEF Owners
  <2>3. ASSUME NEW i \in Co, i # current', cos'[i].status # "dead"
        PROVE  OwnedBy(threads'[i], cos'[i].serial)
    <3>1. CASE i = current
      <4>1. Self = cos[i].serial
        BY <1>1, <3>1 DEF Self
      <4> QED  BY <1>4, <1>5, <3>1, <4>1
    <3>2. CASE i # current
      <4>1. cos'[i] = cos[i] /\ threads'[i] = threads[i]
        BY <1>1, <1>3, <1>4, <1>5, <2>3, <3>2
      <4> QED  BY <1>7, <2>3, <3>2, <4>1 DEF Owners
    <3> QED  BY <3>1, <3>2
  <2> QED  BY <2>1, <2>2, <2>3 DEF Owners
<1>10. ParkedInv'
  <2> SUFFICES ASSUME NEW t \in Thread, t # p, t \in Co => cos'[t].status = "normal"
               PROVE  Exact(threads'[t], runs', t)
    BY <1>3 DEF ParkedInv
  <2>1. t # current
    BY <1>1, <1>5
  <2>2. threads'[t] = threads[t] /\ (t \in Co => cos[t].status = "normal")
    BY <1>4, <1>5, <2>1
  <2> QED  BY <1>6, <1>7, <2>1, <2>2 DEF ParkedInv, Exact
<1>11. WholeInv'
  <2> SUFFICES ASSUME NEW i \in Co, cos'[i].status = "suspended", cos'[i].started
               PROVE  Halts(threads'[i]) = {1}
    BY DEF WholeInv
  <2>1. CASE i = current
    BY <1>4, <1>5, <2>1
  <2>2. CASE i # current
    <3>1. i # p /\ i \in Thread
      BY <1>1, <1>5
    <3>2. cos'[i] = cos[i] /\ threads'[i] = threads[i]
      BY <1>4, <1>5, <2>2, <3>1
    <3> QED  BY <1>7, <3>2 DEF WholeInv
  <2> QED  BY <2>1, <2>2
<1>12. Marked'
  <2>1. \A t \in Thread : Paired(threads'[t])
    BY <1>2, <1>4, <1>7 DEF Marked
  <2> QED  BY <1>1, <1>3, <1>7, <2>1 DEF Marked
<1> QED  BY <1>6, <1>8, <1>9, <1>10, <1>11, <1>12 DEF FrameInv

(* A yield: only the coroutine's own run is on its stack. *)
LEMMA Yields == ASSUME FrameInv, ChainInv', Yield PROVE FrameInv'
<1>1. /\ TopRun.kind = "resume" /\ SwitchBack(flat, "suspended", "run") /\ mode = "run"
  BY DEF Yield, Suspend
<1>2. OwnedBy(flat, Self) /\ Paired(flat) /\ Exact(flat, runs, current)
  BY <1>1 DEF FrameInv, Owners, Marked, Here
<1>3. Halts(flat) = {1}
  <2>1. Foot(TopRun) = 1
    BY <1>1 DEF Foot
  <2>2. \A f \in FeetOf(runs, current) : f = 1
    BY <2>1, Facts
  <2> QED  BY <1>2, <2>1, <2>2, Facts DEF Exact
<1> QED  BY <1>1, <1>2, <1>3, Facts, Departs

LEMMA ResumeFails == ASSUME FrameInv, ChainInv', FailResume PROVE FrameInv'
<1>1. PICK then \in {"run", "raise"} : SwitchBack(flat, "dead", then)
  BY DEF FailResume
<1>2. TopRun.kind = "resume" /\ OwnedBy(flat, Self) /\ Paired(flat)
  BY DEF FailResume, FrameInv, Owners, Marked
<1> QED  BY <1>1, <1>2, Facts, Departs

(* A run returns: the frame that ends it is its foot. *)
LEMMA Returns == ASSUME FrameInv, ChainInv', ReturnHalt PROVE FrameInv'
<1>1. /\ mode = "run" /\ TopKind \in HaltKind /\ Exact(flat, runs, current)
      /\ OwnedBy(flat, Self) /\ Paired(flat)
  BY DEF ReturnHalt, FrameInv, Here, Owners, Marked
<1>2. Depth \in 1 .. Len(flat) /\ Depth \in Halts(flat) /\ Depth - 1 \in Nat /\ Depth - 1 <= Depth
  <2>1. Depth > 0 /\ flat[Depth].kind \in HaltKind
    BY <1>1, Facts DEF TopKind, HaltKind
  <2>2. Depth \in 1 .. Len(flat) /\ Depth - 1 \in Nat /\ Depth - 1 <= Depth
    BY <2>1, Facts
  <2> QED  BY <2>1, <2>2 DEF Halts
<1>3. Depth = Foot(TopRun)
  <2>1. Depth <= Foot(TopRun)
    BY <1>1, <1>2, Facts DEF Exact
  <2>2. Foot(TopRun) <= Depth
    BY <1>1, Facts DEF Exact, Halts
  <2> QED  BY <2>1, <2>2, Facts
<1>4. UpTo(flat, runs, current)
  BY <1>1 DEF UpTo, Exact
<1>5. Cut(Depth - 1) \in Seq(Frame) /\ OwnedBy(Cut(Depth - 1), Self) /\ Paired(Cut(Depth - 1))
  <2> DEFINE k == Depth - 1
  <2> HIDE DEF k
  <2>1. Cut(k) = SubSeq(flat, 1, k) /\ k \in 0 .. Len(flat)
    BY <1>2, CutN DEF k
  <2>2. Cut(k) \in Seq(Frame) /\ OwnedBy(Cut(k), Self) /\ Paired(Cut(k))
    BY <1>1, <2>1, Facts, CutIs
  <2> QED  BY <2>2 DEF k
<1>6. CASE TopRun.kind = "root"
  <2>1. /\ UNCHANGED <<current, threads, cos, runs>> /\ mode' = "done" /\ flat' = Cut(Depth - 1)
    BY <1>6 DEF ReturnHalt
  <2>2. Here(mode', flat', runs, current)
    BY <2>1 DEF Here
  <2> QED  BY <1>5, <2>1, <2>2, StayRun
<1>7. CASE TopRun.kind = "resume"
  <2>1. SwitchBack(Cut(Depth - 1), "dead", "run")
    BY <1>7 DEF ReturnHalt
  <2> QED  BY <1>5, <1>7, <2>1, Departs
<1>8. CASE TopRun.kind \notin {"root", "resume"}
  <2>1. /\ UNCHANGED <<current, threads, cos, mode>> /\ runs' = BelowTop /\ flat' = Cut(Depth - 1)
    BY <1>8 DEF ReturnHalt
  <2>2. TopRun.kind \in {"meta", "handler"}
    BY <1>8, Facts DEF RunRecord
  <2> QED  BY <1>1, <1>3, <1>4, <2>1, <2>2, Drops
<1> QED  BY <1>6, <1>7, <1>8
-----------------------------------------------------------------------------
(* A coroutine is entered: no run is on it, and its stack is its body's. *)
LEMMA Arrives ==
    ASSUME FrameInv, ChainInv', NEW w \in BOOLEAN, Resume(w)
    PROVE  FrameInv'
<1>1. PICK i \in Co :
        /\ cos[i].status = "suspended"
        /\ cos' = Entered(i)
        /\ IF cos[i].started
           THEN /\ Swap(i, threads[i])
                /\ runs' = Append(runs, Run("resume", i, current, 0, w))
           ELSE /\ Swap(i, Body(i))
                /\ runs' = Append(runs, Run("resume", i, current, 1, w))
  BY DEF Resume
<1>2. PICK floor \in {0, 1} : runs' = Append(runs, Run("resume", i, current, floor, w))
  BY <1>1
<1> DEFINE s == IF cos[i].started THEN threads[i] ELSE Body(i)
           r == Run("resume", i, current, floor, w)
<1>3. /\ current \in Thread /\ threads \in [Thread -> Seq(Frame)] /\ cos \in [Co -> CoRecord]
      /\ i \in Thread /\ 0 \notin Co /\ Thread = Co \cup {0} /\ i # 0
  BY Facts, CoThread
<1>4. /\ StatusAgrees /\ Underway /\ Owners /\ ParkedInv /\ WholeInv /\ Marked /\ Rising(runs)
      /\ mode = "run" /\ mode' = "run" /\ Exact(flat, runs, current)
  BY DEF FrameInv, ChainInv, ResumeChain, Resume, Here
<1>5. i # current
  BY <1>1, <1>4 DEF StatusAgrees
<1>6. /\ current' = i /\ flat' = s /\ runs' = Append(runs, r)
      /\ threads' = [threads EXCEPT ![current] = flat, ![i] = threads[current]]
  BY <1>1, <1>2 DEF Swap
<1>7. /\ r \in RunRecord /\ Foot(r) = 1 /\ r.th = i
  <2>1. floor \in 0 .. MAX_FRAMES
    BY PoolAssumption
  <2> QED  BY <1>3, <2>1 DEF Run, RunRecord, Foot
<1>8. /\ s \in Seq(Frame) /\ Halts(s) = {1} /\ Paired(s) /\ OwnedBy(s, cos[i].serial)
  <2>1. CASE cos[i].started
    BY <1>1, <1>3, <1>4, <1>5, <2>1 DEF WholeInv, Marked, Owners
  <2>2. CASE ~cos[i].started
    <3> DEFINE f == [kind |-> "body", co |-> cos[i].serial]
    <3>1. cos[i] \in CoRecord
      BY <1>3
    <3>2. f \in Frame /\ f.kind \in HaltKind /\ f.co = cos[i].serial
      BY <3>1 DEF Frame, FrameKind, HaltKind, CoRecord
    <3> HIDE DEF f
    <3>3. <<f>> \in Seq(Frame) /\ Halts(<<f>>) = {1} /\ Paired(<<f>>) /\ OwnedBy(<<f>>, f.co)
      BY <3>2, OneFrame
    <3>4. s = <<f>>
      BY <2>2 DEF Body, f
    <3> QED  BY <3>2, <3>3, <3>4
  <2> QED  BY <2>1, <2>2
<1> HIDE DEF s, r
<1>9. FeetOf(runs, i) = {}
  <2> SUFFICES ASSUME NEW k \in 1 .. Len(runs), runs[k].th = i PROVE FALSE
    BY DEF FeetOf
  <2>1. PICK j \in Resumes : runs[j].th = i
    BY <1>3, <1>4 DEF Underway
  <2> QED  BY <1>1, <1>4, <1>5, <2>1 DEF StatusAgrees
<1>10. /\ FeetOf(runs', i) = {1} /\ Rising(runs')
       /\ \A t : t # i => FeetOf(runs', t) = FeetOf(runs, t)
  <2>1. runs \in Seq(RunRecord)
    BY Facts
  <2>2. /\ FeetOf(runs', i) = FeetOf(runs, i) \cup {Foot(r)}
        /\ \A t : t # i => FeetOf(runs', t) = FeetOf(runs, t)
        /\ Rising(runs) /\ Foot(r) >= 1 /\ (\A f \in FeetOf(runs, i) : f < Foot(r))
             => Rising(runs')
    BY <1>6, <1>7, <2>1, FeetEnter
  <2>3. Foot(r) >= 1 /\ \A f \in FeetOf(runs, i) : f < Foot(r)
    BY <1>7, <1>9
  <2> QED  BY <1>4, <1>7, <1>9, <2>2, <2>3
<1>11. Here(mode', flat', runs', current')
  <2>1. runs' \in Seq(RunRecord) /\ Len(runs') >= 1 /\ Innermost(runs').th = i
    <3>1. Len(runs') = Len(runs) + 1 /\ runs' \in Seq(RunRecord) /\ runs'[Len(runs) + 1] = r
      BY <1>6, <1>7, Facts, Longer
    <3> QED  BY <1>7, <3>1, Facts DEF Innermost
  <2>2. Exact(flat', runs', current') /\ flat' \in Seq(Frame)
    BY <1>6, <1>8, <1>10 DEF Exact
  <2> QED  BY <1>4, <1>6, <1>10, <2>1, <2>2, ExactHere
<1>12. /\ threads'[current] = flat /\ threads'[i] = threads[current]
       /\ \A t \in Thread : t # current /\ t # i => threads'[t] = threads[t]
  BY <1>3, <1>5, <1>6
<1>13. /\ cos'[i].status = "running"
       /\ current \in Co => cos'[current].status = "normal"
       /\ \A j \in Co : j # current /\ j # i => cos'[j] = cos[j]
       /\ \A j \in Co : cos'[j].serial = cos[j].serial
  BY <1>1, <1>3, <1>5 DEF Entered, CoRecord
<1>14. Owners'
  <2>1. OwnedBy(flat', Self')
    <3>1. Self' = cos[i].serial
      BY <1>3, <1>6, <1>13 DEF Self
    <3> QED  BY <1>6, <1>8, <3>1
  <2>2. OwnedBy(threads'[0], 0)
    <3>1. CASE current = 0
      <4>1. Self = 0
        BY <3>1 DEF Self
      <4> QED  BY <1>4, <1>12, <3>1, <4>1 DEF Owners
    <3>2. CASE current # 0
      BY <1>3, <1>4, <1>12, <3>2 DEF Owners
    <3> QED  BY <3>1, <3>2
  <2>3. ASSUME NEW j \in Co, j # i, cos'[j].status # "dead"
        PROVE  OwnedBy(threads'[j], cos'[j].serial)
    <3>1. CASE j = current
      <4>1. Self = cos[j].serial
        BY <1>3, <3>1 DEF Self
      <4> QED  BY <1>4, <1>12, <1>13, <3>1, <4>1 DEF Owners
    <3>2. CASE j # current
      <4>1. cos'[j] = cos[j] /\ threads'[j] = threads[j]
        BY <1>3, <1>12, <1>13, <2>3, <3>2
      <4> QED  BY <1>4, <2>3, <3>2, <4>1 DEF Owners
    <3> QED  BY <3>1, <3>2
  <2> QED  BY <1>6, <2>1, <2>2, <2>3 DEF Owners
<1>15. ParkedInv'
  <2> SUFFICES ASSUME NEW t \in Thread, t # i, t \in Co => cos'[t].status = "normal"
               PROVE  Exact(threads'[t], runs', t)
    BY <1>6 DEF ParkedInv
  <2>1. CASE t = current
    BY <1>4, <1>10, <1>12, <2>1 DEF Exact
  <2>2. CASE t # current
    <3>1. threads'[t] = threads[t] /\ (t \in Co => cos[t].status = "normal")
      BY <1>12, <1>13, <2>2
    <3> QED  BY <1>4, <1>10, <2>2, <3>1 DEF ParkedInv, Exact
  <2> QED  BY <2>1, <2>2
<1>16. WholeInv'
  <2> SUFFICES ASSUME NEW j \in Co, cos'[j].status = "suspended", cos'[j].started
               PROVE  Halts(threads'[j]) = {1}
    BY DEF WholeInv
  <2>1. j # i /\ j # current /\ j \in Thread
    BY <1>3, <1>13
  <2>2. cos'[j] = cos[j] /\ threads'[j] = threads[j]
    BY <1>12, <1>13, <2>1
  <2> QED  BY <1>4, <2>2 DEF WholeInv
<1>17. Marked'
  <2>1. \A t \in Thread : Paired(threads'[t])
    BY <1>3, <1>4, <1>12 DEF Marked
  <2> QED  BY <1>6, <1>8, <2>1 DEF Marked
<1> QED  BY <1>10, <1>11, <1>14, <1>15, <1>16, <1>17 DEF FrameInv

-----------------------------------------------------------------------------
(* A coroutine that is not under way is made, or ends. *)
LEMMA Records ==
    ASSUME FrameInv, ChainInv', Create \/ ResumeNative \/ Close
    PROVE  FrameInv'
<1>1. /\ current \in Thread /\ threads \in [Thread -> Seq(Frame)] /\ cos \in [Co -> CoRecord]
      /\ 0 \notin Co /\ Thread = Co \cup {0}
  BY Facts, CoThread
<1>2. /\ StatusAgrees /\ Owners /\ ParkedInv /\ WholeInv /\ Marked /\ Rising(runs)
      /\ Here(mode, flat, runs, current)
  BY DEF FrameInv, ChainInv, ResumeChain
<1>3. UNCHANGED <<current, flat, runs, mode>>
  BY DEF Create, ResumeNative, Close
<1>4. PICK i \in Co :
        /\ cos[i].status \in {"dead", "suspended"}
        /\ \A j \in Co : j # i => cos'[j] = cos[j]
        /\ \/ cos'[i].status = "dead" /\ threads' = threads
           \/ /\ cos'[i].status = "suspended" /\ ~cos'[i].started
              /\ threads' = [threads EXCEPT ![i] = <<>>]
  <2>1. CASE Create
    <3>1. PICK i \in Co :
            /\ cos[i].status = "dead"
            /\ cos' = [cos EXCEPT ![i] =
                        [status |-> "suspended", started |-> FALSE, serial |-> serials + 1]]
            /\ threads' = [threads EXCEPT ![i] = <<>>]
      BY <2>1 DEF Create
    <3>2. /\ cos'[i] = [status |-> "suspended", started |-> FALSE, serial |-> serials + 1]
          /\ \A j \in Co : j # i => cos'[j] = cos[j]
      BY <1>1, <3>1
    <3>3. cos'[i].status = "suspended" /\ ~cos'[i].started
      BY <3>2
    <3> QED  BY <3>1, <3>2, <3>3
  <2>2. CASE ResumeNative
    BY <1>1, <2>2 DEF ResumeNative, CoRecord
  <2>3. CASE Close
    BY <1>1, <2>3 DEF Close, CoRecord
  <2> QED  BY <2>1, <2>2, <2>3
<1>5. i # current /\ i # 0 /\ i \in Thread
  BY <1>1, <1>2, <1>4 DEF StatusAgrees
<1>6. /\ \A t \in Thread : t # i => threads'[t] = threads[t]
      /\ threads'[i] = threads[i] \/ threads'[i] = <<>>
      /\ cos'[i].status = "suspended" => threads'[i] = <<>>
  BY <1>1, <1>4, <1>5
<1>7. Self' = Self
  BY <1>1, <1>3, <1>4, <1>5 DEF Self
<1>8. Owners'
  <2>1. OwnedBy(flat', Self') /\ (current' # 0 => OwnedBy(threads'[0], 0))
    BY <1>1, <1>2, <1>3, <1>5, <1>6, <1>7 DEF Owners
  <2>2. ASSUME NEW j \in Co, j # current', cos'[j].status # "dead"
        PROVE  OwnedBy(threads'[j], cos'[j].serial)
    <3>1. CASE j = i
      BY <1>4, <1>6, <2>2, <3>1, NoFrame
    <3>2. CASE j # i
      <4>1. cos'[j] = cos[j] /\ threads'[j] = threads[j]
        BY <1>1, <1>4, <1>6, <3>2
      <4> QED  BY <1>2, <1>3, <2>2, <4>1 DEF Owners
    <3> QED  BY <3>1, <3>2
  <2> QED  BY <2>1, <2>2 DEF Owners
<1>9. ParkedInv'
  <2> SUFFICES ASSUME NEW t \in Thread, t # current, t \in Co => cos'[t].status = "normal"
               PROVE  Exact(threads'[t], runs, t)
    BY <1>3 DEF ParkedInv
  <2>1. t # i
    BY <1>4
  <2>2. threads'[t] = threads[t] /\ (t \in Co => cos[t].status = "normal")
    BY <1>4, <1>6, <2>1
  <2> QED  BY <1>2, <2>2 DEF ParkedInv
<1>10. WholeInv'
  <2> SUFFICES ASSUME NEW j \in Co, cos'[j].status = "suspended", cos'[j].started
               PROVE  Halts(threads'[j]) = {1}
    BY DEF WholeInv
  <2>1. j # i
    BY <1>4
  <2>2. cos'[j] = cos[j] /\ threads'[j] = threads[j]
    BY <1>1, <1>4, <1>6, <2>1
  <2> QED  BY <1>2, <2>2 DEF WholeInv
<1>11. Marked'
  <2>1. \A t \in Thread : Paired(threads'[t])
    BY <1>2, <1>6, NoFrame DEF Marked
  <2> QED  BY <1>2, <1>3, <2>1 DEF Marked
<1>12. Here(mode', flat', runs', current') /\ Rising(runs')
  BY <1>2, <1>3
<1> QED  BY <1>8, <1>9, <1>10, <1>11, <1>12 DEF FrameInv

-----------------------------------------------------------------------------
(* A script starts on a stack of its own. *)
LEMMA MainAlone ==
    ASSUME flat \in Seq(Frame), flat = <<[kind |-> "root", co |-> 0]>>,
           runs = <<MainRun>>, current = 0
    PROVE  /\ OwnedBy(flat, Self) /\ Paired(flat) /\ Rising(runs)
           /\ Exact(flat, runs, current) /\ \A t : t # 0 => FeetOf(runs, t) = {}
<1> DEFINE f == [kind |-> "root", co |-> 0]
<1>1. f \in Frame /\ f.kind \in HaltKind /\ f.co = 0
  BY BoundAssumption DEF Frame, FrameKind, HaltKind, Serial
<1> HIDE DEF f
<1>2. flat = <<f>>
  BY DEF f
<1>3. Halts(flat) = {1} /\ Paired(flat) /\ OwnedBy(flat, 0)
  BY <1>1, <1>2, OneFrame
<1>4. Self = 0
  BY DEF Self
<1> QED  BY <1>3, <1>4, FeetStart DEF Exact

LEMMA FirstFrames == Init => FrameInv
<1> SUFFICES ASSUME Init PROVE FrameInv
  OBVIOUS
<1>1. ChainInv /\ flat \in Seq(Frame)
  BY StartChain DEF ChainInv, TypeInv, TypeOK
<1>2. /\ flat = <<[kind |-> "root", co |-> 0]>> /\ runs = <<MainRun>> /\ current = 0
      /\ mode = "run" /\ threads = [t \in Thread |-> <<>>]
      /\ \A i \in Co : cos[i].status = "dead"
  BY DEF Init, DeadCo
<1>3. /\ OwnedBy(flat, Self) /\ Paired(flat) /\ Rising(runs)
      /\ Exact(flat, runs, current) /\ \A t : t # 0 => FeetOf(runs, t) = {}
  BY <1>1, <1>2, MainAlone
<1>4. Here(mode, flat, runs, current)
  BY <1>2, <1>3 DEF Here
<1>5. Owners
  BY <1>2, <1>3 DEF Owners
<1>6. ParkedInv
  BY <1>2, CoThread DEF ParkedInv
<1>7. WholeInv
  BY <1>2 DEF WholeInv
<1>8. Marked
  BY <1>2, <1>3, NoFrame DEF Marked
<1> QED  BY <1>1, <1>3, <1>4, <1>5, <1>6, <1>7, <1>8 DEF FrameInv

LEMMA NextFrames == ASSUME FrameInv, ChainInv', NextLine \/ NextScript PROVE FrameInv'
<1> DEFINE f == [kind |-> "root", co |-> 0]
<1>1. Len(runs) = 1 /\ runs[1] = MainRun /\ TopRun.th = current /\ StatusAgrees
  BY DEF NextLine, NextScript, FrameInv, ChainInv, Ended, ResumeChain, RunsNest
<1>2. current = 0 /\ Resumes = {}
  BY <1>1 DEF TopRun, Resumes, MainRun, Run
<1>3. \A i \in Co : cos[i].status \notin {"running", "normal"}
  BY <1>1, <1>2, CoThread DEF StatusAgrees
<1>4. Self = 0
  BY <1>2 DEF Self
<1>5. /\ current' = 0 /\ flat' = <<f>> /\ runs' = <<MainRun>> /\ mode' = "run"
      /\ threads' = threads
  BY <1>2, <1>4 DEF NextLine, NextScript
<1>6. \A i \in Co : /\ cos'[i].serial = cos[i].serial /\ cos'[i].started = cos[i].started
                    /\ cos'[i].status \in {cos[i].status, "dead"}
  <2>1. cos \in [Co -> CoRecord]
    BY Facts
  <2>2. CASE NextLine
    BY <2>2 DEF NextLine
  <2>3. CASE NextScript
    BY <2>1, <2>3 DEF NextScript, CoRecord
  <2> QED  BY <2>2, <2>3
<1>7. f \in Frame /\ f.kind \in HaltKind /\ f.co = 0
  BY BoundAssumption DEF Frame, FrameKind, HaltKind, Serial
<1> HIDE DEF f
<1>8. flat' \in Seq(Frame) /\ Halts(flat') = {1} /\ Paired(flat') /\ OwnedBy(flat', 0)
  BY <1>5, <1>7, OneFrame
<1>9. Rising(runs') /\ Here(mode', flat', runs', current')
  BY <1>5, <1>8, FeetStart DEF Here, Exact
<1>10. Owners'
  <2>1. Self' = 0
    BY <1>5 DEF Self
  <2>2. ASSUME NEW i \in Co, cos'[i].status # "dead" PROVE OwnedBy(threads'[i], cos'[i].serial)
    <3>1. cos[i].status # "dead" /\ i # current
      BY <1>2, <1>6, <2>2, CoThread
    <3> QED  BY <1>5, <1>6, <3>1 DEF FrameInv, Owners
  <2> QED  BY <1>5, <1>8, <2>1, <2>2 DEF Owners
<1>11. ParkedInv'
  BY <1>3, <1>5, <1>6, CoThread DEF ParkedInv
<1>12. WholeInv'
  BY <1>5, <1>6 DEF FrameInv, WholeInv
<1>13. Marked'
  BY <1>5, <1>8 DEF FrameInv, Marked
<1> QED  BY <1>9, <1>10, <1>11, <1>12, <1>13 DEF FrameInv

-----------------------------------------------------------------------------
LEMMA StepFrames == FrameInv /\ [Next]_vars => FrameInv'
<1> SUFFICES ASSUME FrameInv, [Next]_vars PROVE FrameInv'
  OBVIOUS
<1>c. ChainInv'
  BY StepChain DEF FrameInv
<1>1. CASE UNCHANGED vars
  <2>1. /\ UNCHANGED <<current, threads, cos, runs, flat, mode>>
        /\ OwnedBy(flat, Self) /\ Paired(flat) /\ Here(mode, flat, runs, current)
    BY <1>1 DEF vars, FrameInv, Owners, Marked
  <2> QED  BY <1>c, <2>1, StayRun
<1>2. CASE Coroutines
  <2>1. CASE \E w \in BOOLEAN : Resume(w)
    BY <1>c, <2>1, Arrives
  <2> QED  BY <1>c, <1>2, <2>1, Records, Yields, Leaves DEF Coroutines
<1>3. CASE Calls
  BY <1>c, <1>3, FlatStays, Pushes, Pops, MetaCalled, Returns DEF Calls
<1>4. CASE Unwinding
  BY <1>c, <1>4, FlatStays, Catches, ResumeFails, Leaves, HandlerFails DEF Unwinding
<1>5. CASE NextLine \/ NextScript
  BY <1>c, <1>5, NextFrames
<1> QED  BY <1>1, <1>2, <1>3, <1>4, <1>5 DEF Next

LEMMA FramesHold == Spec => []FrameInv
BY FirstFrames, StepFrames, PTL DEF Spec

(***************************************************************************)
(* No coroutine ever runs on another one's frames, and none is parked in   *)
(* another one's slot: swap_threads, in whatever order coroutines resume   *)
(* one another, yield, fail and are made again.                            *)
(***************************************************************************)
THEOREM FramesStayOwn == Spec => []OwnFrames
<1>1. FrameInv => OwnFrames
  <2> SUFFICES ASSUME FrameInv PROVE OwnFrames
    OBVIOUS
  <2>1. Owners /\ Depth = Len(flat)
    BY DEF FrameInv, Depth
  <2> QED  BY <2>1 DEF Owners, OwnedBy, OwnFrames
<1> QED  BY <1>1, FramesHold, PTL

(***************************************************************************)
(* Every suspended coroutine can be resumed by entering run_at alone: of   *)
(* the frames that end a run, its stack has its body's at the bottom and   *)
(* no other, however it came to yield.                                     *)
(***************************************************************************)
THEOREM SuspendedAreWhole == Spec => []SuspendedWhole
<1>1. FrameInv => SuspendedWhole
  <2> SUFFICES ASSUME FrameInv, NEW i \in Co, cos[i].status = "suspended", cos[i].started
               PROVE  Resumable(i)
    BY DEF SuspendedWhole
  <2>1. Halts(threads[i]) = {1}
    BY DEF FrameInv, WholeInv
  <2>2. Len(threads[i]) \in Nat
    BY Facts, CoThread
  <2>3. 1 \in 1 .. Len(threads[i])
    BY <2>1 DEF Halts
  <2>4. \A d \in 1 .. Len(threads[i]) : threads[i][d].kind \in HaltKind <=> d = 1
    BY <2>1 DEF Halts
  <2> QED  BY <2>2, <2>3, <2>4 DEF Resumable
<1> QED  BY <1>1, FramesHold, PTL

(***************************************************************************)
(* While instructions execute, each run of the running thread has one      *)
(* frame that ends it: no run ends with another's frame, and no catch has  *)
(* unwound into the run around it.                                         *)
(***************************************************************************)
THEOREM RunsHaveRoots == Spec => []RootPerRun
<1>1. FrameInv => RootPerRun
  <2> SUFFICES ASSUME FrameInv, mode = "run"
               PROVE  Cardinality({d \in 1 .. Depth : flat[d].kind \in HaltKind})
                        = Cardinality(RunsHere)
    BY DEF RootPerRun
  <2>1. {d \in 1 .. Depth : flat[d].kind \in HaltKind} = FeetOf(runs, current)
    <3>1. {d \in 1 .. Depth : flat[d].kind \in HaltKind} = Halts(flat)
      BY DEF Depth, Halts
    <3> QED  BY <3>1 DEF FrameInv, Here, Exact
  <2> DEFINE F == [k \in RunsHere |-> Foot(runs[k])]
  <2>2. F \in Bijection(RunsHere, FeetOf(runs, current))
    <3>1. F \in Surjection(RunsHere, FeetOf(runs, current))
      BY DEF RunsHere, FeetOf, Surjection
    <3>2. ASSUME NEW j \in RunsHere, NEW k \in RunsHere, F[j] = F[k] PROVE j = k
      <4>1. /\ j \in 1 .. Len(runs) /\ k \in 1 .. Len(runs) /\ runs[j].th = runs[k].th
            /\ Foot(runs[j]) = Foot(runs[k])
        BY <3>2 DEF RunsHere
      <4>2. Foot(runs[j]) \in Nat /\ Foot(runs[k]) \in Nat
        BY <4>1, Facts, FootType
      <4>3. ~(j < k) /\ ~(k < j)
        BY <4>1, <4>2 DEF FrameInv, Rising
      <4> QED  BY <4>1, <4>3
    <3>3. F \in [RunsHere -> FeetOf(runs, current)]
      BY <3>1 DEF Surjection
    <3>4. F \in Injection(RunsHere, FeetOf(runs, current))
      BY <3>2, <3>3 DEF Injection, IsInjective
    <3> QED  BY <3>1, <3>4 DEF Bijection
  <2>3. IsFiniteSet(RunsHere)
    <3>1. IsFiniteSet(1 .. Len(runs))
      BY Facts, FS_Interval
    <3>2. RunsHere \in SUBSET (1 .. Len(runs))
      BY DEF RunsHere
    <3> QED  BY <3>1, <3>2, FS_Subset
  <2>4. ExistsBijection(RunsHere, FeetOf(runs, current))
    BY <2>2 DEF ExistsBijection
  <2>5. Cardinality(FeetOf(runs, current)) = Cardinality(RunsHere)
    BY <2>3, <2>4, FS_Bijection
  <2> QED  BY <2>1, <2>5
<1> QED  BY <1>1, FramesHold, PTL

(***************************************************************************)
(* A step leaves alone the frames of every coroutine that it neither       *)
(* enters nor leaves, unless that one is dead and made again.              *)
(***************************************************************************)
THEOREM ParkedStayPut == Spec => ParkedUntouched
<1>1. FrameInv /\ [Next]_vars =>
        [\A i \in Thread : i # current /\ i # current' =>
            \/ threads'[i] = threads[i]
            \/ i \in Co /\ cos[i].status = "dead"]_vars
  <2> SUFFICES ASSUME FrameInv, Next, NEW i \in Thread, i # current, i # current'
               PROVE  \/ threads'[i] = threads[i]
                      \/ i \in Co /\ cos[i].status = "dead"
    OBVIOUS
  <2>1. threads \in [Thread -> Seq(Frame)] /\ TopRun.th = current
    BY Facts
  <2>2. CASE Create
    BY <2>1, <2>2 DEF Create
  <2>3. CASE \E w \in BOOLEAN : Resume(w)
    <3>1. PICK j \in Co : \E s : Swap(j, s)
      BY <2>3 DEF Resume
    <3> QED  BY <2>1, <3>1 DEF Swap
  <2>4. CASE Yield \/ FailResume \/ (ReturnHalt /\ TopRun.kind = "resume")
    <3>1. PICK s, status, then : SwitchBack(s, status, then)
      BY <2>4 DEF Yield, Suspend, FailResume, ReturnHalt
    <3> QED  BY <2>1, <3>1 DEF SwitchBack
  <2>5. CASE \/ ResumeNative \/ Close \/ YieldMeta \/ YieldHandler \/ Error \/ Call \/ Protect
             \/ ProtectNative \/ FinishProtect \/ CallMeta \/ ReturnCall \/ ReturnProtected
             \/ (ReturnHalt /\ TopRun.kind # "resume")
             \/ Catch \/ CatchNative \/ Propagate \/ FailRoot \/ FailMeta \/ FailHandler
             \/ NextLine \/ NextScript
    <3>1. threads' = threads
      BY <2>5 DEF ResumeNative, Close, YieldMeta, YieldHandler, Error, Call, Protect,
                  ProtectNative, FinishProtect, CallMeta, ReturnCall, ReturnProtected, ReturnHalt,
                  Catch, CatchNative, Propagate, FailRoot, FailMeta, FailHandler,
                  NextLine, NextScript
    <3> QED  BY <3>1
  <2> QED  BY <2>2, <2>3, <2>4, <2>5 DEF Next, Coroutines, Calls, Unwinding
<1> QED  BY <1>1, FramesHold, PTL DEF Spec, ParkedUntouched
=============================================================================
