---------------------------- MODULE E1000Proofs ----------------------------
(***************************************************************************)
(* What holds of the driver's two rings for every ring size, every number  *)
(* of frames and every interleaving of the driver with the card.           *)
(***************************************************************************)
EXTENDS E1000, FiniteSetTheorems, TLAPS

(***************************************************************************)
(* TypeOK is not inductive: that held is a frame when it is returned       *)
(* depends on the DD bit having been set by the card, with a frame.        *)
(***************************************************************************)
TypeInv ==
    /\ TypeOK
    /\ \A d \in Desc : dd[d] => rxBuf[d] \in Frame
    /\ writing => rxBuf[rdh] \in Frame
    /\ pc \in {"copy", "clear"} => dd[idx]
    /\ pc \in {"clear", "advance"} => held \in Frame

(* The driver's index arithmetic stays inside the ring, for every ring size. *)
LEMMA NextDescInRing == \A d \in Desc : NextDesc(d) \in Desc
BY RingAssumption DEF Desc, NextDesc

(* TypeInv holds initially. *)
LEMMA TypeInit == Init => TypeInv
<1> SUFFICES ASSUME Init PROVE TypeInv
  OBVIOUS
<1>1. 0 \in Desc /\ 0 \in 0 .. NUM_RX_DESC
  BY RingAssumption DEF Desc
<1>2. 0 \in 0 .. MaxFrames /\ 0 \in 0 .. MaxInits
  BY BoundAssumption
<1>3. <<>> \in Seq(Frame)
  OBVIOUS
<1> QED
  BY <1>1, <1>2, <1>3 DEF Init, TypeInv, TypeOK, NoFrame

(* Every step of the driver and of the card preserves TypeInv. *)
LEMMA TypeStep == TypeInv /\ [Next]_vars => TypeInv'
<1> SUFFICES ASSUME TypeInv, [Next]_vars PROVE TypeInv'
  OBVIOUS
<1> USE RingAssumption, BoundAssumption DEF TypeInv, TypeOK
<1>1. CASE InitDevice
  <2>1. 0 \in Desc /\ NUM_RX_DESC - 1 \in Desc
    BY DEF Desc
  <2> QED
    BY <1>1, <2>1 DEF InitDevice
<1>2. CASE Poll
  BY <1>2 DEF Poll, nic
<1>3. CASE ScanEmpty
  BY <1>3 DEF ScanEmpty, nic
<1>4. CASE ScanAgain
  BY <1>4 DEF ScanAgain, nic
<1>5. CASE Timeout
  BY <1>5 DEF Timeout, nic
<1>6. CASE ScanHit
  <2>1. idx \in Desc
    BY <1>6 DEF ScanHit, Desc
  <2> QED
    BY <1>6, <2>1 DEF ScanHit, nic
<1>7. CASE Copy
  BY <1>7 DEF Copy, nic
<1>8. CASE ClearStatus
  BY <1>8 DEF ClearStatus
<1>9. CASE AdvanceTail
  BY <1>9 DEF AdvanceTail, nic
<1>10. CASE NicFill
  <2>1. arrived' \in Frame /\ arrived' \in 0 .. MaxFrames
    BY <1>10 DEF NicFill, Frame
  <2>2. overrun' \subseteq Frame
    BY <1>10, <2>1 DEF NicFill
  <2> QED
    BY <1>10, <2>1, <2>2 DEF NicFill
<1>11. CASE NicStatus
  <2>1. NextDesc(rdh) \in Desc
    BY NextDescInRing
  <2> QED
    BY <1>11, <2>1 DEF NicStatus
<1>12. CASE UNCHANGED vars
  BY <1>12 DEF vars
<1> QED
  BY <1>1, <1>2, <1>3, <1>4, <1>5, <1>6, <1>7, <1>8, <1>9, <1>10, <1>11, <1>12
  DEF Next, TryReceive, NicReceive

(* Type correctness, for every ring size: every index try_receive and the  *)
(* card use stays inside the ring, and what it returns is a frame.         *)
THEOREM TypeCorrect == Spec => []TypeOK
<1>1. TypeInv => TypeOK
  BY DEF TypeInv
<1> QED
  BY <1>1, TypeInit, TypeStep, PTL DEF Spec

-----------------------------------------------------------------------------
(***************************************************************************)
(* ReturnedOnce.  A frame is stored in one buffer.  As long as it may be   *)
(* read there, because the DD bit is set or is still to be set, it has not *)
(* been returned, unless it was written over an unread frame: then the old *)
(* DD bit may have been read and cleared before its own is set.  Between   *)
(* the copy and the clearing of the DD bit a frame is in two places, the   *)
(* copy and the buffer it came from; a frame the card stores there in      *)
(* between is lost, but nothing is duplicated.                             *)
(***************************************************************************)
Live(d) == dd[d] \/ (writing /\ d = rdh)

Fresh ==
    /\ held <= arrived
    /\ \A d \in Desc : rxBuf[d] <= arrived
    /\ \A i \in 1 .. Len(got) : got[i] <= arrived

Apart ==
    /\ \A d, e \in Desc : rxBuf[d] = rxBuf[e] => d = e \/ rxBuf[d] = NoFrame
    /\ writing /\ dd[rdh] => rxBuf[rdh] \in overrun
    /\ \A d \in Desc : \A i \in 1 .. Len(got) :
            Live(d) /\ got[i] = rxBuf[d] => got[i] \in overrun
    /\ pc \in {"clear", "advance"} =>
            \A i \in 1 .. Len(got) : got[i] = held => held \in overrun
    /\ \A d \in Desc : pc \in {"clear", "advance"} /\ rxBuf[d] = held => d = idx
    /\ \A d \in Desc : pc = "advance" /\ Live(d) /\ rxBuf[d] = held => held \in overrun

DupInv == TypeInv /\ Fresh /\ Apart /\ ReturnedOnce

(* Every step preserves DupInv. *)
LEMMA DupStep == DupInv /\ [Next]_vars => DupInv'
<1> SUFFICES ASSUME DupInv, [Next]_vars PROVE DupInv'
  OBVIOUS
<1>t. TypeInv'
  BY TypeStep DEF DupInv
<1> USE DEF DupInv, TypeInv, TypeOK, Fresh, Apart, Live, ReturnedOnce
<1>1. CASE InitDevice
  BY <1>t, <1>1 DEF InitDevice
<1>2. CASE Poll
  BY <1>t, <1>2 DEF Poll, nic
<1>3. CASE ScanEmpty
  BY <1>t, <1>3 DEF ScanEmpty, nic
<1>4. CASE ScanAgain
  BY <1>t, <1>4 DEF ScanAgain, nic
<1>5. CASE Timeout
  BY <1>t, <1>5 DEF Timeout, nic
<1>6. CASE ScanHit
  BY <1>t, <1>6 DEF ScanHit, nic
<1>7. CASE Copy
  <2>1. /\ idx \in Desc /\ Live(idx) /\ held' = rxBuf[idx] /\ rxBuf[idx] \in Frame
        /\ pc' = "clear"
        /\ UNCHANGED <<dd, rxBuf, rdh, writing, arrived, overrun, idx, got>>
    BY <1>7 DEF Copy, nic
  <2>2. rxBuf[idx] # NoFrame
    BY <2>1 DEF Frame, NoFrame
  <2>3. Fresh'
    BY <2>1
  <2>5. ReturnedOnce'
    BY <2>1
  <2>6. \A d \in Desc : Live(d)' <=> Live(d)
    BY <2>1
  <2> HIDE DEF TypeInv, TypeOK, Fresh, Live, ReturnedOnce
  <2>7. \A i \in 1 .. Len(got') : got'[i] = held' => held' \in overrun'
    BY <2>1
  <2>8. \A d \in Desc : rxBuf'[d] = held' => d = idx'
    BY <2>1, <2>2
  <2>4. Apart'
    BY <2>1, <2>6, <2>7, <2>8
  <2> QED
    BY <1>t, <2>3, <2>4, <2>5
<1>8. CASE ClearStatus
  BY <1>t, <1>8 DEF ClearStatus
<1>9. CASE AdvanceTail
  <2>1. held \in Frame /\ got' = Append(got, held) /\ arrived \in Nat
    BY <1>9 DEF AdvanceTail, nic
  <2>2. /\ Len(got') = Len(got) + 1
        /\ Len(got) \in Nat
        /\ got'[Len(got) + 1] = held
        /\ \A i \in 1 .. Len(got) : got'[i] = got[i]
    BY <2>1
  <2>3. \A i \in 1 .. Len(got') : i \in 1 .. Len(got) \/ i = Len(got) + 1
    BY <2>2
  <2>4. /\ pc = "advance" /\ pc' = "idle" /\ held' = 0
        /\ UNCHANGED <<dd, rxBuf, rdh, writing, arrived, overrun>>
    BY <1>9 DEF AdvanceTail, nic, NoFrame
  <2>5. Fresh'
    BY <2>1, <2>2, <2>3, <2>4
  <2>6. Apart'
    BY <2>2, <2>3, <2>4
  <2>7. ReturnedOnce'
    BY <2>2, <2>3, <2>4
  <2> QED
    BY <1>t, <2>5, <2>6, <2>7
<1>10. CASE NicFill
  <2>1. /\ arrived \in Nat /\ arrived' = arrived + 1
        /\ rxBuf'[rdh] = arrived' /\ writing'
        /\ \A d \in Desc : d # rdh => rxBuf'[d] = rxBuf[d]
        /\ overrun \subseteq overrun' /\ (dd[rdh] => arrived' \in overrun') /\ ~writing
        /\ UNCHANGED <<dd, rdh, pc, idx, held, got>>
    BY <1>10 DEF NicFill
  <2>2. /\ \A d \in Desc : rxBuf[d] \in Nat /\ rxBuf[d] < arrived'
        /\ held \in Nat /\ held < arrived'
        /\ \A i \in 1 .. Len(got) : got[i] \in Nat /\ got[i] < arrived'
    <3>1. \A i \in 1 .. Len(got) : got[i] \in Frame
      OBVIOUS
    <3> QED
      BY <2>1, <3>1 DEF Frame, NoFrame
  <2>3. Fresh'
    BY <2>1, <2>2
  <2>x. rdh \in Desc
    OBVIOUS
  <2>i. ReturnedOnce'
    BY <2>1
  <2>4. \A d, e \in Desc : rxBuf'[d] = rxBuf'[e] => d = e \/ rxBuf'[d] = NoFrame
    BY <2>1, <2>2, <2>x
  <2>5. writing' /\ dd'[rdh'] => rxBuf'[rdh'] \in overrun'
    BY <2>1
  <2>6. ASSUME NEW d \in Desc, NEW i \in 1 .. Len(got'), Live(d)', got'[i] = rxBuf'[d]
        PROVE  got'[i] \in overrun'
    <3>1. d # rdh
      BY <2>1, <2>2, <2>6
    <3>2. Live(d) /\ got[i] = rxBuf[d]
      BY <2>1, <2>6, <3>1
    <3> QED
      BY <2>1, <3>2
  <2>7. pc' \in {"clear", "advance"} =>
            \A i \in 1 .. Len(got') : got'[i] = held' => held' \in overrun'
    BY <2>1
  <2>8. ASSUME NEW d \in Desc, pc' \in {"clear", "advance"}, rxBuf'[d] = held'
        PROVE  d = idx' /\ (pc' = "advance" /\ Live(d)' => held' \in overrun')
    <3>1. d # rdh
      BY <2>1, <2>2, <2>8
    <3>2. rxBuf[d] = held /\ (Live(d)' => Live(d))
      BY <2>1, <2>8, <3>1
    <3> QED
      BY <2>1, <2>8, <3>2
  <2>9. Apart'
    BY <2>4, <2>5, <2>6, <2>7, <2>8
  <2> QED
    BY <1>t, <2>3, <2>9, <2>i
<1>11. CASE NicStatus
  <2>1. \A d \in Desc : Live(d)' => Live(d)
    BY <1>11 DEF NicStatus
  <2>2. ~writing' /\ UNCHANGED <<rxBuf, pc, idx, held, got, arrived, overrun>>
    BY <1>11 DEF NicStatus
  <2> HIDE DEF Live
  <2> QED
    BY <1>t, <2>1, <2>2
<1>12. CASE UNCHANGED vars
  BY <1>t, <1>12 DEF vars
<1> QED
  BY <1>1, <1>2, <1>3, <1>4, <1>5, <1>6, <1>7, <1>8, <1>9, <1>10, <1>11, <1>12
  DEF Next, TryReceive, NicReceive

(* DupInv holds initially. *)
LEMMA DupStart == Init => DupInv
<1> SUFFICES ASSUME Init PROVE DupInv
  OBVIOUS
<1>1. TypeInv
  BY TypeInit
<1> QED
  BY <1>1 DEF Init, DupInv, Fresh, Apart, Live, ReturnedOnce, NoFrame

(* try_receive returns a frame that was stored in an emptied descriptor at *)
(* most once, however many frames are unread, wherever the tail is moved   *)
(* and whenever the card's two writes come.                                *)
THEOREM ReceivesOnce == Spec => []ReturnedOnce
<1>1. DupInv => ReturnedOnce
  BY DEF DupInv
<1> QED
  BY <1>1, DupStart, DupStep, PTL DEF Spec

-----------------------------------------------------------------------------
(***************************************************************************)
(* Request and response in turn.  When the network sends its next frame    *)
(* only after the previous one was read (MaxUnread = 1), at most one DD    *)
(* bit is set, the scan from descriptor 0 finds that one, and it holds the *)
(* latest frame.  While the card is writing one, no DD bit is set.  (A     *)
(* second init may come between the card's two writes: that frame is lost, *)
(* so the card is set up once.)                                            *)
(***************************************************************************)
Returned == Len(got) + (IF pc = "advance" THEN 1 ELSE 0)

LockInv ==
    /\ TypeInv
    /\ InOrder
    /\ \A d, e \in Desc : dd[d] /\ dd[e] => d = e
    /\ \A d \in Desc : dd[d] => rxBuf[d] = arrived /\ arrived = Returned + 1
    /\ writing => /\ up /\ \A d \in Desc : ~dd[d]
                  /\ rxBuf[rdh] = arrived /\ arrived = Returned + 1
    /\ ~writing /\ (\A d \in Desc : ~dd[d]) => arrived = Returned
    /\ up => inits = 1
    /\ pc = "clear" => held = arrived
    /\ pc = "advance" => held = Returned

(* In lock step the card only writes when no DD bit is set. *)
LEMMA LockGuard ==
    ASSUME TypeOK, MaxUnread = 1, NicFill
    PROVE  \A d \in Desc : ~dd[d]
<1>1. IsFiniteSet(Desc)
  BY RingAssumption, FS_Interval DEF Desc
<1>2. IsFiniteSet(Unread) /\ Cardinality(Unread) \in Nat
  BY <1>1, FS_Subset, FS_CardinalityType DEF Unread
<1>3. Cardinality(Unread) = 0
  BY <1>2 DEF NicFill
<1>4. Unread = {}
  BY <1>2, <1>3, FS_EmptySet
<1> QED
  BY <1>4 DEF Unread

(* Every step preserves LockInv: the network in lock step, the card set up once. *)
LEMMA LockStep == MaxUnread = 1 /\ MaxInits = 1 /\ LockInv /\ [Next]_vars => LockInv'
<1> SUFFICES ASSUME MaxUnread = 1, MaxInits = 1, LockInv, [Next]_vars PROVE LockInv'
  OBVIOUS
<1>t. TypeInv'
  BY TypeStep DEF LockInv
<1> USE DEF LockInv, TypeInv, TypeOK, InOrder, Returned
<1>1. CASE InitDevice
  BY <1>t, <1>1 DEF InitDevice
<1>2. CASE Poll
  BY <1>t, <1>2 DEF Poll, nic
<1>3. CASE ScanEmpty
  BY <1>t, <1>3 DEF ScanEmpty, nic
<1>4. CASE ScanAgain
  BY <1>t, <1>4 DEF ScanAgain, nic
<1>5. CASE Timeout
  BY <1>t, <1>5 DEF Timeout, nic
<1>6. CASE ScanHit
  BY <1>t, <1>6 DEF ScanHit, nic
<1>7. CASE Copy
  BY <1>t, <1>7 DEF Copy, nic
<1>8. CASE ClearStatus
  <2>1. dd[idx] /\ idx \in Desc /\ pc' = "advance" /\ pc = "clear"
    BY <1>8 DEF ClearStatus
  <2>2. \A d \in Desc : ~dd'[d]
    BY <1>8, <2>1 DEF ClearStatus
  <2> QED
    BY <1>t, <1>8, <2>1, <2>2 DEF ClearStatus
<1>9. CASE AdvanceTail
  <2>1. held = Len(got) + 1 /\ held \in Frame /\ got' = Append(got, held)
    BY <1>9 DEF AdvanceTail
  <2>2. /\ Len(got') = Len(got) + 1
        /\ Len(got) \in Nat
        /\ got'[Len(got) + 1] = held
        /\ \A i \in 1 .. Len(got) : got'[i] = got[i]
    BY <2>1
  <2>3. InOrder'
    BY <2>1, <2>2
  <2>4. Returned' = Returned
    BY <1>9, <2>2 DEF AdvanceTail
  <2> QED
    BY <1>t, <1>9, <2>3, <2>4 DEF AdvanceTail, nic
<1>10. CASE NicFill
  <2>1. \A d \in Desc : ~dd[d]
    BY <1>10, LockGuard
  <2>2. /\ arrived \in Nat /\ arrived' = arrived + 1
        /\ rxBuf'[rdh] = arrived' /\ writing' /\ ~writing /\ up
        /\ UNCHANGED <<dd, rdh, up, inits, pc, idx, held, got>>
    BY <1>10 DEF NicFill
  <2>3. pc # "clear"
    BY <2>1
  <2> QED
    BY <1>t, <2>1, <2>2, <2>3
<1>11. CASE NicStatus
  <2>1. writing /\ \A d \in Desc : ~dd[d]
    BY <1>11 DEF NicStatus
  <2>2. /\ dd'[rdh] /\ ~writing'
        /\ \A d \in Desc : d # rdh => ~dd'[d]
        /\ UNCHANGED <<rxBuf, up, inits, pc, idx, held, got, arrived>>
    BY <1>11, <2>1 DEF NicStatus
  <2>3. pc # "clear"
    BY <2>1
  <2> QED
    BY <1>t, <2>1, <2>2, <2>3
<1>12. CASE UNCHANGED vars
  BY <1>t, <1>12 DEF vars
<1> QED
  BY <1>1, <1>2, <1>3, <1>4, <1>5, <1>6, <1>7, <1>8, <1>9, <1>10, <1>11, <1>12
  DEF Next, TryReceive, NicReceive

(* LockInv holds initially. *)
LEMMA LockInit == Init => LockInv
<1> SUFFICES ASSUME Init PROVE LockInv
  OBVIOUS
<1>1. TypeInv
  BY TypeInit
<1> QED
  BY <1>1 DEF Init, LockInv, InOrder, Returned, NoFrame

(* A network that waits for each frame to be read is received completely   *)
(* and in order by a card that is set up once, for every ring size and     *)
(* wherever the card's two writes fall.                                    *)
THEOREM LockStepInOrder == MaxUnread = 1 /\ MaxInits = 1 /\ Spec => []InOrder
<1>1. LockInv => InOrder
  BY DEF LockInv
<1> SUFFICES ASSUME MaxUnread = 1, MaxInits = 1 PROVE Spec => []InOrder
  OBVIOUS
<1>2. LockInv /\ [Next]_vars => LockInv'
  BY LockStep
<1> QED
  BY <1>1, <1>2, LockInit, PTL DEF Spec

(***************************************************************************)
(* NoReceiveStall, of a card that is set up once and a network in lock     *)
(* step.  The tail the driver writes is the descriptor it has just read,   *)
(* one behind the head, so the card owns all the others.                   *)
(***************************************************************************)
OwnInv ==
    /\ LockInv
    /\ pc # "idle" => up
    /\ \A d \in Desc : dd[d] => up /\ rdh = NextDesc(d)
    /\ pc = "advance" /\ (\A d \in Desc : ~dd[d]) => rdh = NextDesc(idx)
    /\ up /\ pc # "advance" /\ (\A d \in Desc : ~dd[d]) => rdh # rdt

LEMMA NextDescMoves == \A d \in Desc : NextDesc(d) # d
<1> SUFFICES ASSUME NEW d \in Desc PROVE (d + 1) % NUM_RX_DESC # d
  BY DEF NextDesc
<1>1. CASE d = NUM_RX_DESC - 1
  BY <1>1, RingAssumption
<1>2. CASE d # NUM_RX_DESC - 1
  <2>1. d + 1 \in 0 .. NUM_RX_DESC - 1 /\ d \in Nat
    BY <1>2, RingAssumption DEF Desc
  <2>2. (d + 1) % NUM_RX_DESC = d + 1
    BY <2>1, RingAssumption
  <2> QED
    BY <2>1, <2>2
<1> QED
  BY <1>1, <1>2

LEMMA OwnStep == MaxUnread = 1 /\ MaxInits = 1 /\ OwnInv /\ [Next]_vars => OwnInv'
<1> SUFFICES ASSUME MaxUnread = 1, MaxInits = 1, OwnInv, [Next]_vars PROVE OwnInv'
  OBVIOUS
<1>l. LockInv'
  BY LockStep DEF OwnInv
<1>y. /\ dd \in [Desc -> BOOLEAN] /\ rdh \in Desc /\ inits \in 0 .. 1
      /\ pc \in {"copy", "clear"} => dd[idx]
      /\ pc \in {"copy", "clear", "advance"} => idx \in Desc
      /\ \A d, e \in Desc : dd[d] /\ dd[e] => d = e
      /\ up => inits = 1
      /\ writing => up /\ \A d \in Desc : ~dd[d]
  BY DEF OwnInv, LockInv, TypeInv, TypeOK
<1>1. CASE InitDevice
  <2>1. ~up /\ (\A d \in Desc : ~dd[d]) /\ pc' = "idle" /\ dd' = dd
    BY <1>1, <1>y DEF InitDevice, OwnInv
  <2>2. inits' = 1
    BY <1>1, <1>y DEF InitDevice
  <2>3. up' => rdh' # rdt'
    BY <1>1, RingAssumption DEF InitDevice
  <2> QED
    BY <1>l, <2>1, <2>2, <2>3 DEF OwnInv
<1>2. CASE Poll \/ ScanEmpty \/ ScanAgain \/ Timeout \/ ScanHit \/ Copy
  <2>1. /\ UNCHANGED <<dd, rdh, rdt, up, inits>> /\ up
        /\ pc # "advance" /\ pc' # "advance"
    BY <1>2 DEF Poll, ScanEmpty, ScanAgain, Timeout, ScanHit, Copy, nic, OwnInv
  <2> QED
    BY <1>l, <2>1 DEF OwnInv
<1>3. CASE ClearStatus
  <2>1. /\ idx \in Desc /\ dd[idx] /\ up /\ rdh = NextDesc(idx) /\ pc' = "advance"
        /\ UNCHANGED <<rdh, rdt, up, idx, inits>>
    BY <1>3, <1>y DEF ClearStatus, OwnInv
  <2>2. \A d \in Desc : ~dd'[d]
    BY <1>3, <1>y, <2>1 DEF ClearStatus
  <2> QED
    BY <1>l, <2>1, <2>2 DEF OwnInv
<1>4. CASE AdvanceTail
  <2>1. /\ idx \in Desc /\ rdt' = idx /\ pc' = "idle" /\ up
        /\ UNCHANGED <<dd, rdh, up, inits>>
        /\ (\A d \in Desc : ~dd[d]) => rdh = NextDesc(idx)
    BY <1>4, <1>y DEF AdvanceTail, nic, OwnInv
  <2> QED
    BY <1>l, <2>1, NextDescMoves DEF OwnInv
<1>5. CASE NicFill
  <2>1. UNCHANGED <<dd, rdh, rdt, up, pc, idx>>
    BY <1>5 DEF NicFill
  <2> QED
    BY <1>l, <2>1 DEF OwnInv
<1>6. CASE NicStatus
  <2>1. /\ dd' = [dd EXCEPT ![rdh] = TRUE] /\ rdh' = NextDesc(rdh) /\ up
        /\ \A d \in Desc : ~dd[d]
        /\ UNCHANGED <<rdt, up, pc, idx>>
    BY <1>6, <1>y DEF NicStatus
  <2>2. dd'[rdh] /\ \A d \in Desc : dd'[d] => d = rdh
    BY <1>y, <2>1
  <2> QED
    BY <1>l, <1>y, <2>1, <2>2 DEF OwnInv
<1>7. CASE UNCHANGED vars
  BY <1>l, <1>7 DEF vars, OwnInv
<1> QED
  BY <1>1, <1>2, <1>3, <1>4, <1>5, <1>6, <1>7 DEF Next, TryReceive, NicReceive

(* A card set up once always owns a descriptor when nothing is left to     *)
(* read: receiving never comes to a stop, for every ring size.             *)
THEOREM LockStepNeverStalls == MaxUnread = 1 /\ MaxInits = 1 /\ Spec => []NoReceiveStall
<1> SUFFICES ASSUME MaxUnread = 1, MaxInits = 1 PROVE Spec => []NoReceiveStall
  OBVIOUS
<1>1. Init => OwnInv
  <2> SUFFICES ASSUME Init PROVE OwnInv
    OBVIOUS
  <2> QED
    BY LockInit DEF Init, OwnInv
<1>2. OwnInv /\ [Next]_vars => OwnInv'
  BY OwnStep
<1>3. OwnInv => NoReceiveStall
  BY DEF OwnInv, NoReceiveStall, Unread
<1> QED
  BY <1>1, <1>2, <1>3, PTL DEF Spec

-----------------------------------------------------------------------------
(***************************************************************************)
(* The whole driver.  Its receive half takes no step E1000Rx does not      *)
(* describe, so the theorems above hold of it.                             *)
(***************************************************************************)

(* Every step of the whole driver is one of the receive ring, or leaves it. *)
LEMMA RxStep == [DriverNext]_driverVars => [Next]_vars
BY DEF DriverNext, driverVars, DriverInitDevice, DriverReceive, DriverSend,
       CardReceive, CardTransmit, Next

(* So it preserves what holds of the receive ring. *)
LEMMA DriverDup == DupInv /\ [DriverNext]_driverVars => DupInv'
BY RxStep, DupStep

(* Every behaviour of the whole driver is one of the receive ring. *)
THEOREM DriverImplementsRx == DriverSpec => Spec
<1>1. DriverInit => Init
  BY DEF DriverInit
<1> QED
  BY <1>1, RxStep, PTL DEF DriverSpec, Spec

(* So it is in the whole driver, whatever send and init do in between. *)
THEOREM DriverReceivesOnce == DriverSpec => []ReturnedOnce
BY DriverImplementsRx, ReceivesOnce

(***************************************************************************)
(* ReportedSent.  send is the only one to write TX_BUF, so from the end of *)
(* the copy until it returns the buffer holds its frame; its descriptor is *)
(* not the card's until Kick, so the DD bit it clears stays clear till     *)
(* then; and when the card sets it, the bytes are those of the frame.      *)
(***************************************************************************)
SendInv ==
    /\ Tx!TxTypeOK
    /\ txPc \in {"fill", "desc", "kick", "wait"} => sends \in Tx!TxFrame
    /\ txPc \in {"fill", "desc", "kick"} => slot = tdt
    /\ txPc \in {"desc", "kick", "wait"} => txBuf = sends
    /\ txPc \in {"kick", "wait"} => txFrame[slot] = sends
    /\ txPc = "kick" => ~txDone[slot]
    /\ (txPc = "wait" /\ txDone[slot]) =>
            \E i \in 1 .. Len(wire) : wire[i] = [queued |-> sends, bytes |-> sends]
    /\ ReportedSent

(* A step of send preserves SendInv. *)
LEMMA SendStep == SendInv /\ Tx!Send => SendInv'
<1> SUFFICES ASSUME SendInv, Tx!Send PROVE SendInv'
  OBVIOUS
<1> USE DEF SendInv, ReportedSent, Tx!ReportedSent, Tx!TxTypeOK, Tx!txCard, Tx!TxFrame, Tx!NoBytes
<1>n. \A d \in Tx!TxDesc : (d + 1) % NUM_TX_DESC \in Tx!TxDesc
  BY TxRing DEF Tx!TxDesc
<1>1. CASE Tx!SendStart
  BY <1>1, TxBound DEF Tx!SendStart
<1>2. CASE Tx!Fill
  BY <1>2 DEF Tx!Fill
<1>3. CASE Tx!WriteDesc
  BY <1>3 DEF Tx!WriteDesc
<1>4. CASE Tx!Kick
  BY <1>4, <1>n DEF Tx!Kick
<1>5. CASE Tx!SendDone
  BY <1>5 DEF Tx!SendDone
<1>6. CASE Tx!SendGivesUp
  BY <1>6, TxBound DEF Tx!SendGivesUp
<1> QED
  BY <1>1, <1>2, <1>3, <1>4, <1>5, <1>6 DEF Tx!Send

(* A descriptor the card transmits while send waits for it carries its frame. *)
LEMMA TransmitStep == SendInv /\ Tx!NicTransmit => SendInv'
<1> SUFFICES ASSUME SendInv, Tx!NicTransmit PROVE SendInv'
  OBVIOUS
<1> DEFINE rec == [queued |-> txFrame[tdh], bytes |-> txBuf]
<1>1. /\ wire' = Append(wire, rec)
      /\ Len(wire') = Len(wire) + 1 /\ Len(wire) \in Nat
      /\ wire'[Len(wire) + 1] = rec
      /\ \A i \in 1 .. Len(wire) : wire'[i] = wire[i]
  BY DEF Tx!NicTransmit, SendInv, Tx!TxTypeOK
<1>2. tdh \in Tx!TxDesc /\ (tdh + 1) % NUM_TX_DESC \in Tx!TxDesc
  BY TxRing DEF SendInv, Tx!TxTypeOK, Tx!TxDesc
<1>3. Tx!TxTypeOK'
  BY <1>1, <1>2 DEF SendInv, Tx!TxTypeOK, Tx!NicTransmit
<1>4. ReportedSent'
  BY <1>1 DEF SendInv, ReportedSent, Tx!ReportedSent, Tx!NicTransmit
<1>5. /\ UNCHANGED <<txBuf, txFrame, tdt, txPc, slot, sends>>
      /\ tdh # tdt
      /\ txDone' = [txDone EXCEPT ![tdh] = TRUE]
      /\ txDone \in [Tx!TxDesc -> BOOLEAN] /\ slot \in Tx!TxDesc
  BY DEF SendInv, Tx!TxTypeOK, Tx!NicTransmit
<1>6. (txPc' = "wait" /\ txDone'[slot']) =>
        \E i \in 1 .. Len(wire') : wire'[i] = [queued |-> sends', bytes |-> sends']
  <2> SUFFICES ASSUME txPc = "wait", txDone'[slot]
               PROVE  \E i \in 1 .. Len(wire') : wire'[i] = [queued |-> sends, bytes |-> sends]
    BY <1>5
  <2>1. CASE slot = tdh
    <3>1. rec = [queued |-> sends, bytes |-> sends]
      BY <2>1 DEF SendInv
    <3> QED
      BY <1>1, <3>1
  <2>2. CASE slot # tdh
    BY <1>1, <1>5, <2>2 DEF SendInv
  <2> QED
    BY <2>1, <2>2
<1>7. txPc' = "kick" => ~txDone'[slot']
  BY <1>5 DEF SendInv
<1> QED
  BY <1>3, <1>4, <1>5, <1>6, <1>7 DEF SendInv

(* init keeps what was already reported. *)
LEMMA InitDeviceStep == SendInv /\ Tx!TxInitDevice => SendInv'
<1> SUFFICES ASSUME SendInv, Tx!TxInitDevice PROVE SendInv'
  OBVIOUS
<1>1. 0 \in Tx!TxDesc
  BY TxRing DEF Tx!TxDesc
<1> QED
  BY <1>1 DEF SendInv, Tx!TxInitDevice, Tx!TxTypeOK, ReportedSent, Tx!ReportedSent

(* SendInv holds initially. *)
LEMMA SendInit == DriverInit => SendInv
<1> SUFFICES ASSUME DriverInit PROVE SendInv
  OBVIOUS
<1>1. 0 \in Tx!TxDesc /\ 0 \in 0 .. MaxSends /\ 0 \in 0 .. MaxGiveUps
  BY TxRing, TxBound DEF Tx!TxDesc
<1>2. <<>> \in Seq([queued : Tx!TxFrame \cup {Tx!NoBytes}, bytes : Tx!TxFrame \cup {Tx!NoBytes}])
  OBVIOUS
<1> QED
  BY <1>1, <1>2 DEF DriverInit, Init, Tx!TxInit, SendInv, Tx!TxTypeOK, ReportedSent, Tx!ReportedSent, Tx!NoBytes

(* Every step of the whole driver preserves SendInv. *)
LEMMA DriverSent == SendInv /\ [DriverNext]_driverVars => SendInv'
<1> SUFFICES ASSUME SendInv, [DriverNext]_driverVars PROVE SendInv'
  OBVIOUS
<1>1. CASE DriverInitDevice
  BY <1>1, InitDeviceStep DEF DriverInitDevice
<1>2. CASE DriverSend
  BY <1>2, SendStep DEF DriverSend
<1>3. CASE CardTransmit
  BY <1>3, TransmitStep DEF CardTransmit
<1>4. CASE UNCHANGED <<up, ring>>
  BY <1>4 DEF ring, SendInv, Tx!TxTypeOK, ReportedSent, Tx!ReportedSent
<1>5. CASE DriverReceive \/ CardReceive
  BY <1>5, <1>4 DEF DriverReceive, CardReceive, TryReceive, NicReceive, NicFill, NicStatus, Poll, ScanEmpty,
                    ScanAgain, Timeout, ScanHit, Copy, ClearStatus, AdvanceTail, nic
<1>6. CASE UNCHANGED driverVars
  BY <1>6, <1>4 DEF driverVars, vars
<1> QED
  BY <1>1, <1>2, <1>3, <1>5, <1>6 DEF DriverNext

(***************************************************************************)
(* A send that returns true has put its frame on the wire, for every ring  *)
(* size and however many earlier sends gave up.                            *)
(***************************************************************************)
THEOREM ReportedMeansSent == DriverSpec => []ReportedSent
<1>1. SendInv => ReportedSent
  BY DEF SendInv
<1> QED
  BY <1>1, SendInit, DriverSent, PTL DEF DriverSpec

(***************************************************************************)
(* SentIntact, while no send gives up.  The ring is then empty between     *)
(* sends, and holds one descriptor at most while send waits: the one it    *)
(* queued, with its frame in TX_BUF, until the card has transmitted it.    *)
(***************************************************************************)
InHand == txPc \in {"fill", "desc", "kick"} \/ (txPc = "wait" /\ tdh # tdt)

PatientInv ==
    /\ SendInv
    /\ giveUps = 0
    /\ txPc # "wait" => tdh = tdt
    /\ txPc = "wait" /\ tdh # tdt =>
            tdh = slot /\ tdt = (slot + 1) % NUM_TX_DESC /\ ~txDone[slot]
    /\ \A i \in 1 .. Len(wire) : /\ wire[i].bytes \in Nat /\ wire[i].bytes <= sends
                                 /\ wire[i].bytes = sends => ~InHand
    /\ SentIntact

LEMMA PatientSend == MaxGiveUps = 0 /\ PatientInv /\ Tx!Send => PatientInv'
<1> SUFFICES ASSUME MaxGiveUps = 0, PatientInv, Tx!Send PROVE PatientInv'
  OBVIOUS
<1>s. SendInv'
  BY SendStep DEF PatientInv
<1>w. /\ wire' = wire /\ sends \in Nat
      /\ SentIntact'
  BY DEF Tx!Send, Tx!SendStart, Tx!Fill, Tx!WriteDesc, Tx!Kick, Tx!SendDone, Tx!SendGivesUp,
         Tx!txCard, PatientInv, SentIntact, Tx!SentIntact, SendInv, Tx!TxTypeOK
<1>1. CASE Tx!SendStart
  <2>1. sends' = sends + 1 /\ UNCHANGED <<tdh, tdt, giveUps>> /\ tdh = tdt /\ txPc' = "fill"
    BY <1>1 DEF Tx!SendStart, Tx!txCard, PatientInv
  <2>2. \A i \in 1 .. Len(wire) : /\ wire[i].bytes \in Nat /\ wire[i].bytes <= sends'
                                  /\ wire[i].bytes # sends'
    BY <1>w, <2>1 DEF PatientInv
  <2> QED
    BY <1>s, <1>w, <2>1, <2>2 DEF PatientInv
<1>2. CASE Tx!Fill \/ Tx!WriteDesc
  <2>1. /\ UNCHANGED <<tdh, tdt, giveUps, sends>> /\ InHand
        /\ txPc # "wait" /\ txPc' # "wait"
    BY <1>2 DEF Tx!Fill, Tx!WriteDesc, Tx!txCard, InHand
  <2> QED
    BY <1>s, <1>w, <2>1 DEF PatientInv
<1>3. CASE Tx!Kick
  <2>1. /\ UNCHANGED <<tdh, giveUps, sends, slot, txDone>> /\ InHand
        /\ slot = tdt /\ tdh = tdt /\ ~txDone[slot]
        /\ tdt' = (slot + 1) % NUM_TX_DESC /\ txPc' = "wait"
    BY <1>3 DEF Tx!Kick, Tx!txCard, InHand, PatientInv, SendInv
  <2> QED
    BY <1>s, <1>w, <2>1 DEF PatientInv
<1>4. CASE Tx!SendDone
  <2>1. /\ UNCHANGED <<tdh, tdt, giveUps, sends>> /\ txPc' = "idle" /\ tdh = tdt
    BY <1>4 DEF Tx!SendDone, Tx!txCard, PatientInv
  <2> QED
    BY <1>s, <1>w, <2>1 DEF PatientInv, InHand
<1>5. CASE Tx!SendGivesUp
  BY <1>5 DEF Tx!SendGivesUp, PatientInv
<1> QED
  BY <1>1, <1>2, <1>3, <1>4, <1>5 DEF Tx!Send

LEMMA PatientTransmit == PatientInv /\ Tx!NicTransmit => PatientInv'
<1> SUFFICES ASSUME PatientInv, Tx!NicTransmit PROVE PatientInv'
  OBVIOUS
<1>s. SendInv'
  BY TransmitStep DEF PatientInv
<1> DEFINE rec == [queued |-> txFrame[tdh], bytes |-> txBuf]
           n == Len(wire) + 1
<1>1. /\ Len(wire') = n /\ Len(wire) \in Nat /\ wire'[n] = rec
      /\ \A i \in 1 .. Len(wire) : wire'[i] = wire[i]
  BY DEF Tx!NicTransmit, PatientInv, SendInv, Tx!TxTypeOK
<1>2. /\ UNCHANGED <<tdt, txPc, sends, giveUps, slot>>
      /\ tdh # tdt /\ tdh' = (tdh + 1) % NUM_TX_DESC
  BY DEF Tx!NicTransmit
<1>3. /\ txPc = "wait" /\ tdh = slot /\ tdh' = tdt' /\ InHand
      /\ rec.bytes = sends /\ rec.queued = sends /\ sends \in Nat
  BY <1>2 DEF PatientInv, SendInv, InHand, Tx!TxTypeOK
<1> HIDE DEF rec
<1>4. \A i \in 1 .. n : i \in 1 .. Len(wire) \/ i = n
  BY <1>1
<1>5. \A i \in 1 .. Len(wire) : wire'[i].bytes \in Nat /\ wire'[i].bytes < sends
  BY <1>1, <1>3 DEF PatientInv
<1>6. SentIntact'
  <2>1. \A i \in 1 .. n : wire'[i].bytes = wire'[i].queued
    BY <1>1, <1>3, <1>4 DEF PatientInv, SentIntact, Tx!SentIntact
  <2>2. ASSUME NEW i \in 1 .. n, NEW j \in 1 .. n, wire'[i].bytes = wire'[j].bytes PROVE i = j
    <3>1. CASE i \in 1 .. Len(wire) /\ j \in 1 .. Len(wire)
      BY <1>1, <2>2, <3>1 DEF PatientInv, SentIntact, Tx!SentIntact
    <3>2. CASE i = n \/ j = n
      BY <1>1, <1>3, <1>4, <1>5, <2>2, <3>2
    <3> QED
      BY <1>4, <3>1, <3>2
  <2> QED
    BY <1>1, <2>1, <2>2 DEF SentIntact, Tx!SentIntact
<1>7. ~InHand'
  BY <1>2, <1>3 DEF InHand
<1>8. \A i \in 1 .. n : wire'[i].bytes \in Nat /\ wire'[i].bytes <= sends
  BY <1>1, <1>3, <1>4, <1>5
<1> QED
  BY <1>s, <1>1, <1>2, <1>3, <1>6, <1>7, <1>8 DEF PatientInv

(***************************************************************************)
(* Each frame goes out once and as it was queued, for every ring size and  *)
(* across re-initialisations, as long as every send waits for its DD bit.  *)
(***************************************************************************)
THEOREM PatientSendsIntact == MaxGiveUps = 0 /\ DriverSpec => []SentIntact
<1> SUFFICES ASSUME MaxGiveUps = 0 PROVE DriverSpec => []SentIntact
  OBVIOUS
<1>1. DriverInit => PatientInv
  <2> SUFFICES ASSUME DriverInit PROVE PatientInv
    OBVIOUS
  <2>1. SendInv
    BY SendInit
  <2> QED
    BY <2>1 DEF DriverInit, Tx!TxInit, PatientInv, SentIntact, Tx!SentIntact
<1>2. PatientInv /\ [DriverNext]_driverVars => PatientInv'
  <2> SUFFICES ASSUME PatientInv, [DriverNext]_driverVars PROVE PatientInv'
    OBVIOUS
  <2>1. CASE DriverInitDevice
    <3>1. SendInv'
      BY <2>1, InitDeviceStep DEF DriverInitDevice, PatientInv
    <3>2. /\ UNCHANGED <<txPc, slot, txDone, wire, sends, giveUps>> /\ txPc = "idle"
          /\ tdh' = tdt'
      BY <2>1 DEF DriverInitDevice, Tx!TxInitDevice, PatientInv
    <3> QED
      BY <3>1, <3>2 DEF PatientInv, InHand, SentIntact, Tx!SentIntact
  <2>2. CASE DriverSend
    BY <2>2, PatientSend DEF DriverSend
  <2>3. CASE CardTransmit
    BY <2>3, PatientTransmit DEF CardTransmit
  <2>4. CASE UNCHANGED <<up, ring>>
    BY <2>4 DEF ring, PatientInv, InHand, SentIntact, Tx!SentIntact, SendInv, Tx!TxTypeOK,
                ReportedSent, Tx!ReportedSent
  <2>5. CASE DriverReceive \/ CardReceive
    BY <2>5, <2>4 DEF DriverReceive, CardReceive, TryReceive, NicReceive, NicFill, NicStatus, Poll, ScanEmpty,
                      ScanAgain, Timeout, ScanHit, Copy, ClearStatus, AdvanceTail, nic
  <2>6. CASE UNCHANGED driverVars
    BY <2>6, <2>4 DEF driverVars, vars
  <2> QED
    BY <2>1, <2>2, <2>3, <2>5, <2>6 DEF DriverNext
<1>3. PatientInv => SentIntact
  BY DEF PatientInv
<1> QED
  BY <1>1, <1>2, <1>3, PTL DEF DriverSpec
=============================================================================
