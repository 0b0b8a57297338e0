-------------------------- MODULE FetchSlotsProofs --------------------------
(***************************************************************************)
(* Theorems about FetchSlots, for any number of slots, names, downloads,   *)
(* handles and resets: the types, and the three properties that the run    *)
(* checks on two slots.                                                    *)
(***************************************************************************)
EXTENDS FetchSlots, WellFoundedInduction, TLAPS

-----------------------------------------------------------------------------
(***************************************************************************)
(* What find_fetched_slot and the search for a free slot return: the least *)
(* number of a set of slots, which is one of them.                         *)
(***************************************************************************)
LEMMA FirstOfIsOne ==
    ASSUME NEW S, S \subseteq Slot, S # {}
    PROVE  FirstOf(S) \in S
<1> DEFINE Less == {p \in Nat \X Nat : p[1] < p[2]}
<1>1. IsWellFoundedOn(Less, Nat)
  BY NatLessThanWellFounded DEF OpToRel
<1>2. S \subseteq Nat
  BY SlotAssumption DEF Slot
<1>3. PICK m \in S : \A j \in S : ~(<<j, m>> \in Less)
  <2> HIDE DEF Less
  <2> QED  BY <1>1, <1>2, WFMin
<1>4. ASSUME NEW j \in S
      PROVE  m <= j
  <2>1. <<j, m>> \in Nat \X Nat /\ <<j, m>>[1] = j /\ <<j, m>>[2] = m
    BY <1>2
  <2>2. ~(j < m)
    BY <1>3, <2>1
  <2> QED
    BY <1>2, <2>2
<1> QED
  BY <1>4 DEF FirstOf

(* A slot that is found is in use and has the name; a slot that is free is not in use. *)
LEMMA FoundHasName ==
    ASSUME NEW name, Find(name) # NoSlot
    PROVE  Find(name) \in Slot /\ slots[Find(name)].used /\ slots[Find(name)].name = name
BY FirstOfIsOne DEF Find, Named, FirstOf

LEMMA FreeIsUnused ==
    ASSUME FreeSlot # NoSlot
    PROVE  FreeSlot \in Slot /\ ~slots[FreeSlot].used
BY FirstOfIsOne DEF FreeSlot, FirstOf

(* The list of names keeps its type and its limit. *)
LEMMA RecordedType ==
    ASSUME NEW name \in Name,
           list \in Seq(Name \cup {Disks}), Len(list) <= MAX_FETCHED
    PROVE  Recorded(name) \in Seq(Name \cup {Disks}) /\ Len(Recorded(name)) <= MAX_FETCHED
BY SlotAssumption DEF Recorded, Listed

(* A name that is listed is not listed again. *)
LEMMA RecordedOnce ==
    ASSUME NEW name \in Name, list \in Seq(Name \cup {Disks}), ListedOnce,
           NEW j \in 1 .. Len(Recorded(name)), NEW k \in 1 .. Len(Recorded(name)),
           Recorded(name)[j] = Recorded(name)[k]
    PROVE  j = k
<1>1. CASE Recorded(name) = list
  BY <1>1 DEF ListedOnce
<1>2. CASE Recorded(name) # list
  <2>1. Recorded(name) = Append(list, name) /\ ~Listed(name)
    BY <1>2 DEF Recorded
  <2>2. /\ Len(Append(list, name)) = Len(list) + 1
        /\ Append(list, name)[Len(list) + 1] = name
        /\ \A i \in 1 .. Len(list) : Append(list, name)[i] = list[i] /\ list[i] # name
    BY <2>1 DEF Listed
  <2> QED
    BY <2>1, <2>2 DEF ListedOnce
<1> QED
  BY <1>1, <1>2

-----------------------------------------------------------------------------
LEMMA TypesAtStart == Init => TypeOK
BY SlotAssumption, BoundAssumption
   DEF Init, TypeOK, SlotFile, Slot, Region, Length, Serial, NoFile

LEMMA TypesStay == TypeOK /\ [Next]_vars => TypeOK'
<1> SUFFICES ASSUME TypeOK, [Next]_vars PROVE TypeOK'
  OBVIOUS
<1> USE SlotAssumption, BoundAssumption DEF TypeOK
<1>1. CASE Fetch
  <2>1. FreeSlot \in Slot
    BY <1>1, FreeIsUnused DEF Fetch
  <2>2. PICK http \in BOOLEAN, save \in Name :
          /\ http => serials < MaxHttp
          /\ serials < MaxFetches /\ serials' = serials + 1
          /\ \/ \E len \in Length :
                  /\ memory' = [memory EXCEPT ![Window(http)] = serials + 1]
                  /\ slots' = [slots EXCEPT ![FreeSlot] =
                          [used |-> TRUE, name |-> save, base |-> Window(http),
                           len |-> len, serial |-> serials + 1]]
                  /\ list' = Recorded(save)
             \/ /\ memory' = [memory EXCEPT ![Window(http)] = 0]
                /\ UNCHANGED <<slots, list>>
          /\ UNCHANGED <<io, handles, resets>>
    BY <1>1 DEF Fetch
  <2>3. serials' \in Serial /\ serials + 1 \in Serial /\ 0 \in Serial
    BY <2>2 DEF Serial
  <2>4. Window(http) \in Region
    BY <2>1, <2>2, <2>3 DEF Window, Region, Slot, Serial
  <2>5. memory' \in [Region -> Serial]
    BY <2>2, <2>3
  <2>6. slots' \in [Slot -> SlotFile]
    <3>1. \A len \in Length : [used |-> TRUE, name |-> save, base |-> Window(http),
                                len |-> len, serial |-> serials + 1] \in SlotFile
      BY <2>3, <2>4 DEF SlotFile
    <3> QED
      BY <2>1, <2>2, <3>1
  <2>7. list' \in Seq(Name \cup {Disks}) /\ Len(list') <= MAX_FETCHED
    BY <2>2, RecordedType
  <2> QED
    BY <2>2, <2>3, <2>5, <2>6, <2>7
<1>2. CASE Open
  <2>1. PICK name \in Name, plus \in BOOLEAN :
          /\ Find(name) # NoSlot
          /\ io' = Opened(Find(name))
          /\ handles' = handles \cup {[id |-> Find(name), name |-> name,
                                       serial |-> slots[Find(name)].serial]}
          /\ list' = IF plus THEN Recorded(name) ELSE list
          /\ UNCHANGED <<slots, memory, serials, resets>>
    BY <1>2 DEF Open
  <2>2. Find(name) \in Slot
    BY <2>1, FoundHasName
  <2>3. io' \in [Slot -> [open : BOOLEAN, pos : Length]]
    BY <2>1, <2>2 DEF Opened, Length
  <2>4. slots[Find(name)].serial \in Serial
    BY <2>2 DEF SlotFile
  <2>5. handles' \subseteq [id : Slot, name : Name, serial : Serial]
    BY <2>1, <2>2, <2>4
  <2>6. list' \in Seq(Name \cup {Disks}) /\ Len(list') <= MAX_FETCHED
    BY <2>1, RecordedType
  <2> QED
    BY <2>1, <2>3, <2>5, <2>6
<1>3. CASE Close
  <2>1. PICK h \in handles :
          /\ io' = [io EXCEPT ![h.id].open = FALSE]
          /\ list' = Recorded(h.name)
          /\ UNCHANGED <<slots, memory, handles, serials, resets>>
    BY <1>3 DEF Close
  <2>2. io' \in [Slot -> [open : BOOLEAN, pos : Length]]
    BY <2>1
  <2>3. list' \in Seq(Name \cup {Disks}) /\ Len(list') <= MAX_FETCHED
    BY <2>1, RecordedType
  <2> QED
    BY <2>1, <2>2, <2>3
<1>4. CASE Read
  <2>1. PICK h \in handles : \E n \in 1 .. slots[h.id].len - io[h.id].pos :
          io' = [io EXCEPT ![h.id].pos = @ + n]
    BY <1>4 DEF Read
  <2>2. h.id \in Slot
    OBVIOUS
  <2>3. PICK n \in 1 .. slots[h.id].len - io[h.id].pos :
          io' = [io EXCEPT ![h.id].pos = io[h.id].pos + n]
    BY <2>1
  <2>4. slots[h.id].len \in Length /\ io[h.id].pos \in Length
    BY <2>2 DEF SlotFile
  <2>5. io[h.id].pos + n \in Length
    BY <2>3, <2>4 DEF Length
  <2>6. io' \in [Slot -> [open : BOOLEAN, pos : Length]]
    BY <2>2, <2>3, <2>5
  <2> QED
    BY <1>4, <2>6 DEF Read
<1>5. CASE Remove
  <2>1. PICK name \in Name : /\ Find(name) # NoSlot
                            /\ slots' = [slots EXCEPT ![Find(name)].used = FALSE]
    BY <1>5 DEF Remove
  <2>2. slots' \in [Slot -> SlotFile]
    <3>1. [slots[Find(name)] EXCEPT !.used = FALSE] \in SlotFile
      <4>1. Find(name) \in Slot
        BY <2>1, FoundHasName
      <4> QED
        BY <4>1 DEF SlotFile
    <3> QED
      BY <2>1, <3>1
  <2> QED
    BY <1>5, <2>2 DEF Remove
<1>6. CASE Rename
  <2>1. PICK old \in Name, new \in Name : /\ Find(old) # NoSlot
                                        /\ slots' = [slots EXCEPT ![Find(old)].name = new]
    BY <1>6 DEF Rename
  <2>2. slots' \in [Slot -> SlotFile]
    <3>1. [slots[Find(old)] EXCEPT !.name = new] \in SlotFile
      <4>1. Find(old) \in Slot
        BY <2>1, FoundHasName
      <4> QED
        BY <4>1 DEF SlotFile
    <3> QED
      BY <2>1, <3>1
  <2> QED
    BY <1>6, <2>2 DEF Rename
<1>7. CASE SetContext
  <2>1. slots' \in [Slot -> SlotFile]
    BY <1>7 DEF SetContext, SlotFile
  <2>2. resets' \in 0 .. MaxResets
    BY <1>7 DEF SetContext
  <2> QED
    BY <1>7, <2>1, <2>2 DEF SetContext
<1>8. CASE NewScript
  BY <1>8 DEF NewScript
<1>9. CASE UNCHANGED vars
  BY <1>9 DEF vars
<1> QED
  BY <1>1, <1>2, <1>3, <1>4, <1>5, <1>6, <1>7, <1>8, <1>9 DEF Next

(***************************************************************************)
(* Every variable has its type, for any pool of slots and any list.        *)
(***************************************************************************)
THEOREM TypeCorrect == Spec => []TypeOK
BY TypesAtStart, TypesStay, PTL DEF Spec

-----------------------------------------------------------------------------
(***************************************************************************)
(* What keeps the files apart: a file in use lies in its slot's window or  *)
(* in the pool buffer of its own download, and its bytes are there.  Each  *)
(* of the next downloads therefore writes where no file in use lies.       *)
(***************************************************************************)
OwnWindow(i) ==
    /\ slots[i].serial \in 1 .. serials
    /\ slots[i].base \in {i, MAX_FETCH_FILES + slots[i].serial} \cap Region
    /\ memory[slots[i].base] = slots[i].serial

(***************************************************************************)
(* The inductive invariant.  A handle is of a download that has begun, and *)
(* as long as its file is there the position is inside the file: the next  *)
(* file in the slot has another number, so that a position which is behind *)
(* its end is no longer one of a file that is there.                       *)
(***************************************************************************)
SlotInv ==
    /\ TypeOK
    /\ \A i \in Slot : slots[i].used => OwnWindow(i)
    /\ \A h \in handles :
        /\ h.serial <= serials
        /\ StillThere(h) => io[h.id].pos <= slots[h.id].len
    /\ ListedOnce

LEMMA InvAtStart == Init => SlotInv
<1> SUFFICES ASSUME Init PROVE SlotInv
  OBVIOUS
<1>1. TypeOK
  BY TypesAtStart
<1>2. ASSUME NEW i \in Slot PROVE ~slots[i].used
  BY DEF Init, NoFile
<1>3. ListedOnce
  BY DEF Init, ListedOnce
<1>4. handles = {}
  BY DEF Init
<1> QED
  BY <1>1, <1>2, <1>3, <1>4 DEF SlotInv

(***************************************************************************)
(* A step that writes no memory and brings no file: it may take files      *)
(* away, rename them and add handles of files that are there.              *)
(***************************************************************************)
LEMMA WindowsStay ==
    ASSUME SlotInv, UNCHANGED <<memory, serials>>,
           \A i \in Slot : slots'[i].used =>
                /\ slots[i].used
                /\ slots'[i].base = slots[i].base /\ slots'[i].serial = slots[i].serial
    PROVE  \A i \in Slot : slots'[i].used => OwnWindow(i)'
BY DEF SlotInv, OwnWindow, Region, Slot

LEMMA FetchKeepsInv == SlotInv /\ TypeOK' /\ Fetch => SlotInv'
<1> SUFFICES ASSUME SlotInv, TypeOK', Fetch PROVE SlotInv'
  OBVIOUS
<1> USE SlotAssumption, BoundAssumption
<1>1. TypeOK /\ FreeSlot \in Slot /\ ~slots[FreeSlot].used
  BY FreeIsUnused DEF Fetch, SlotInv
<1>2. PICK http \in BOOLEAN, save \in Name :
        /\ http => serials < MaxHttp
        /\ serials < MaxFetches /\ serials' = serials + 1
        /\ \/ \E len \in Length :
                /\ memory' = [memory EXCEPT ![Window(http)] = serials + 1]
                /\ slots' = [slots EXCEPT ![FreeSlot] =
                        [used |-> TRUE, name |-> save, base |-> Window(http),
                         len |-> len, serial |-> serials + 1]]
                /\ list' = Recorded(save)
           \/ /\ memory' = [memory EXCEPT ![Window(http)] = 0]
              /\ UNCHANGED <<slots, list>>
        /\ UNCHANGED <<io, handles, resets>>
  BY DEF Fetch
<1>3. serials \in Nat /\ MAX_FETCH_FILES \in Nat
  BY <1>1 DEF TypeOK, Serial
<1>4. /\ Window(http) \in Region
      /\ Window(http) \in {FreeSlot, MAX_FETCH_FILES + serials + 1}
  BY <1>1, <1>2, <1>3 DEF Window, Region, Slot
<1>5. ASSUME NEW i \in Slot, slots[i].used
      PROVE  slots[i].base # Window(http)
  BY <1>1, <1>3, <1>4, <1>5 DEF SlotInv, OwnWindow, Slot
<1>6. \A i \in Slot : i # FreeSlot => slots'[i] = slots[i]
  BY <1>1, <1>2 DEF TypeOK
<1>7. \A r \in Region : r # Window(http) => memory'[r] = memory[r]
  BY <1>1, <1>2 DEF TypeOK
<1>8. \A i \in Slot : slots'[i].used => OwnWindow(i)'
  <2> SUFFICES ASSUME NEW i \in Slot, slots'[i].used PROVE OwnWindow(i)'
    OBVIOUS
  <2>1. CASE slots'[i] = slots[i] /\ slots[i].used
    <3>1. OwnWindow(i)
      BY <2>1 DEF SlotInv
    <3>2. memory'[slots[i].base] = memory[slots[i].base]
      BY <1>5, <1>7, <2>1, <3>1 DEF OwnWindow
    <3> QED
      BY <1>2, <1>3, <2>1, <3>1, <3>2 DEF OwnWindow, Region
  <2>2. CASE ~(slots'[i] = slots[i] /\ slots[i].used)
    <3>1. i = FreeSlot /\ slots' # slots
      BY <1>1, <1>6, <2>2
    <3>2. /\ memory' = [memory EXCEPT ![Window(http)] = serials + 1]
          /\ \E len \in Length : slots'[i] =
                [used |-> TRUE, name |-> save, base |-> Window(http),
                 len |-> len, serial |-> serials + 1]
      BY <1>1, <1>2, <3>1 DEF TypeOK
    <3>3. memory'[Window(http)] = serials + 1
      BY <1>1, <1>4, <3>2 DEF TypeOK
    <3> QED
      BY <1>2, <1>3, <1>4, <3>1, <3>2, <3>3 DEF OwnWindow, Region
  <2> QED
    BY <2>1, <2>2
<1>9. ASSUME NEW h \in handles'
      PROVE  /\ h.serial <= serials'
             /\ StillThere(h)' => io'[h.id].pos <= slots'[h.id].len
  <2>1. h \in handles /\ io' = io /\ h.id \in Slot /\ h.serial \in Nat
    BY <1>1, <1>2 DEF TypeOK, Serial
  <2>2. h.serial <= serials
    BY <2>1 DEF SlotInv
  <2>3. ASSUME StillThere(h)'
        PROVE  slots'[h.id] = slots[h.id]
    <3>1. CASE h.id # FreeSlot
      BY <1>6, <2>1, <3>1
    <3>2. CASE slots' = slots
      BY <3>2
    <3>3. CASE h.id = FreeSlot /\ slots' # slots
      <4>1. slots'[h.id].serial = serials + 1
        BY <1>1, <1>2, <2>1, <3>3 DEF TypeOK
      <4> QED
        BY <1>3, <2>1, <2>2, <2>3, <4>1 DEF StillThere
    <3> QED
      BY <3>1, <3>2, <3>3
  <2> QED
    BY <1>2, <1>3, <2>1, <2>2, <2>3 DEF StillThere, SlotInv
<1>10. ListedOnce'
  <2>1. CASE list' = list
    BY <2>1 DEF SlotInv, ListedOnce
  <2>2. CASE list' = Recorded(save)
    BY <1>1, <2>2, RecordedOnce DEF SlotInv, TypeOK, ListedOnce
  <2> QED
    BY <1>2, <2>1, <2>2
<1> QED
  BY <1>8, <1>9, <1>10 DEF SlotInv

LEMMA OpenKeepsInv == SlotInv /\ TypeOK' /\ Open => SlotInv'
<1> SUFFICES ASSUME SlotInv, TypeOK', Open PROVE SlotInv'
  OBVIOUS
<1>1. PICK name \in Name, plus \in BOOLEAN :
        /\ Find(name) # NoSlot
        /\ io' = Opened(Find(name))
        /\ handles' = handles \cup {[id |-> Find(name), name |-> name,
                                     serial |-> slots[Find(name)].serial]}
        /\ list' = IF plus THEN Recorded(name) ELSE list
        /\ UNCHANGED <<slots, memory, serials, resets>>
  BY DEF Open
<1>2. Find(name) \in Slot /\ slots[Find(name)].used /\ TypeOK
  BY <1>1, FoundHasName DEF SlotInv
<1>3. slots[Find(name)] \in SlotFile /\ slots[Find(name)].serial \in 1 .. serials
  BY <1>2 DEF SlotInv, OwnWindow, TypeOK
<1>4. slots[Find(name)].len \in Nat
  BY <1>3, SlotAssumption DEF SlotFile, Length
<1>5. \A i \in Slot : slots'[i].used => OwnWindow(i)'
  BY <1>1, WindowsStay
<1>6. ASSUME NEW h \in handles'
      PROVE  /\ h.serial <= serials'
             /\ StillThere(h)' => io'[h.id].pos <= slots'[h.id].len
  <2>1. serials \in Nat
    BY <1>2, BoundAssumption DEF TypeOK, Serial
  <2>2. h.serial <= serials
    BY <1>1, <1>3, <2>1 DEF SlotInv
  <2>3. h.id \in Slot
    BY <1>1, <1>2 DEF TypeOK
  <2>4. CASE h.id = Find(name)
    <3>1. io'[h.id].pos = 0
      BY <1>1, <1>2, <2>4 DEF Opened, TypeOK
    <3> QED
      BY <1>1, <1>4, <2>2, <2>4, <3>1
  <2>5. CASE h.id # Find(name)
    <3>1. h \in handles /\ io'[h.id] = io[h.id]
      BY <1>1, <1>2, <2>3, <2>5 DEF Opened, TypeOK
    <3> QED
      BY <1>1, <2>2, <3>1 DEF SlotInv, StillThere
  <2> QED
    BY <2>4, <2>5
<1>7. ListedOnce'
  <2>1. CASE plus
    BY <1>1, <1>2, <2>1, RecordedOnce DEF SlotInv, TypeOK, ListedOnce
  <2>2. CASE ~plus
    BY <1>1, <2>2 DEF SlotInv, ListedOnce
  <2> QED
    BY <2>1, <2>2
<1> QED
  BY <1>5, <1>6, <1>7 DEF SlotInv

LEMMA CloseKeepsInv == SlotInv /\ TypeOK' /\ Close => SlotInv'
<1> SUFFICES ASSUME SlotInv, TypeOK', Close PROVE SlotInv'
  OBVIOUS
<1>1. PICK c \in handles :
        /\ io' = [io EXCEPT ![c.id].open = FALSE]
        /\ list' = Recorded(c.name)
        /\ UNCHANGED <<slots, memory, handles, serials, resets>>
  BY DEF Close
<1>2. TypeOK /\ c.name \in Name
  BY DEF SlotInv, TypeOK
<1>3. \A i \in Slot : slots'[i].used => OwnWindow(i)'
  BY <1>1, WindowsStay
<1>4. \A i \in Slot : io'[i].pos = io[i].pos
  BY <1>1, <1>2 DEF TypeOK
<1>5. ASSUME NEW h \in handles'
      PROVE  /\ h.serial <= serials'
             /\ StillThere(h)' => io'[h.id].pos <= slots'[h.id].len
  <2>1. h \in handles /\ h.id \in Slot
    BY <1>1, <1>2 DEF TypeOK
  <2> QED
    BY <1>1, <1>4, <2>1 DEF SlotInv, StillThere
<1>6. ListedOnce'
  BY <1>1, <1>2, RecordedOnce DEF SlotInv, TypeOK, ListedOnce
<1> QED
  BY <1>3, <1>5, <1>6 DEF SlotInv

LEMMA ReadKeepsInv == SlotInv /\ TypeOK' /\ Read => SlotInv'
<1> SUFFICES ASSUME SlotInv, TypeOK', Read PROVE SlotInv'
  OBVIOUS
<1>1. PICK r \in handles : \E n \in 1 .. slots[r.id].len - io[r.id].pos :
        io' = [io EXCEPT ![r.id].pos = @ + n]
  BY DEF Read
<1>2. PICK n \in 1 .. slots[r.id].len - io[r.id].pos :
        io' = [io EXCEPT ![r.id].pos = io[r.id].pos + n]
  BY <1>1
<1>3. UNCHANGED <<slots, memory, list, handles, serials, resets>>
  BY DEF Read
<1>4. TypeOK /\ r.id \in Slot
  BY DEF SlotInv, TypeOK
<1>5. slots[r.id].len \in Nat /\ io[r.id].pos \in Nat
  BY <1>4, SlotAssumption DEF TypeOK, SlotFile, Length
<1>6. io'[r.id].pos <= slots[r.id].len
  BY <1>2, <1>4, <1>5 DEF TypeOK
<1>7. \A i \in Slot : i # r.id => io'[i] = io[i]
  BY <1>2, <1>4 DEF TypeOK
<1>8. \A i \in Slot : slots'[i].used => OwnWindow(i)'
  BY <1>3, WindowsStay
<1>9. ASSUME NEW h \in handles'
      PROVE  /\ h.serial <= serials'
             /\ StillThere(h)' => io'[h.id].pos <= slots'[h.id].len
  <2>1. h \in handles /\ h.id \in Slot
    BY <1>3, <1>4 DEF TypeOK
  <2> QED
    BY <1>3, <1>6, <1>7, <2>1 DEF SlotInv, StillThere
<1> QED
  BY <1>3, <1>8, <1>9 DEF SlotInv, ListedOnce

(***************************************************************************)
(* os.remove, os.rename and set_context change flags and names only.       *)
(***************************************************************************)
LEMMA FewerFiles ==
    ASSUME SlotInv, TypeOK', UNCHANGED <<memory, io, list, handles, serials>>,
           \A i \in Slot :
                /\ slots'[i].used => slots[i].used
                /\ slots'[i].base = slots[i].base /\ slots'[i].serial = slots[i].serial
                /\ slots'[i].len = slots[i].len
    PROVE  SlotInv'
<1>1. \A i \in Slot : slots'[i].used => OwnWindow(i)'
  BY WindowsStay
<1>2. ASSUME NEW h \in handles'
      PROVE  /\ h.serial <= serials'
             /\ StillThere(h)' => io'[h.id].pos <= slots'[h.id].len
  <2>1. h \in handles /\ h.id \in Slot
    BY DEF SlotInv, TypeOK
  <2> QED
    BY <2>1 DEF SlotInv, StillThere
<1> QED
  BY <1>1, <1>2 DEF SlotInv, ListedOnce

LEMMA StepKeepsInv == SlotInv /\ [Next]_vars => SlotInv'
<1> SUFFICES ASSUME SlotInv, [Next]_vars PROVE SlotInv'
  OBVIOUS
<1>1. TypeOK /\ TypeOK'
  BY TypesStay DEF SlotInv
<1>2. CASE Fetch
  BY <1>1, <1>2, FetchKeepsInv
<1>3. CASE Open
  BY <1>1, <1>3, OpenKeepsInv
<1>4. CASE Close
  BY <1>1, <1>4, CloseKeepsInv
<1>5. CASE Read
  BY <1>1, <1>5, ReadKeepsInv
<1>6. CASE Remove
  <2>1. PICK name \in Name : /\ Find(name) # NoSlot
                             /\ slots' = [slots EXCEPT ![Find(name)].used = FALSE]
    BY <1>6 DEF Remove
  <2>2. \A i \in Slot :
            /\ slots'[i].used => slots[i].used
            /\ slots'[i].base = slots[i].base /\ slots'[i].serial = slots[i].serial
            /\ slots'[i].len = slots[i].len
    BY <1>1, <2>1 DEF TypeOK, SlotFile
  <2> QED
    BY <1>1, <1>6, <2>2, FewerFiles DEF Remove
<1>7. CASE Rename
  <2>1. PICK old \in Name, new \in Name : /\ Find(old) # NoSlot
                                          /\ slots' = [slots EXCEPT ![Find(old)].name = new]
    BY <1>7 DEF Rename
  <2>2. \A i \in Slot :
            /\ slots'[i].used => slots[i].used
            /\ slots'[i].base = slots[i].base /\ slots'[i].serial = slots[i].serial
            /\ slots'[i].len = slots[i].len
    BY <1>1, <2>1 DEF TypeOK, SlotFile
  <2> QED
    BY <1>1, <1>7, <2>2, FewerFiles DEF Rename
<1>8. CASE SetContext
  <2>1. \A i \in Slot :
            /\ slots'[i].used => slots[i].used
            /\ slots'[i].base = slots[i].base /\ slots'[i].serial = slots[i].serial
            /\ slots'[i].len = slots[i].len
    BY <1>1, <1>8 DEF SetContext, TypeOK, SlotFile
  <2> QED
    BY <1>1, <1>8, <2>1, FewerFiles DEF SetContext
<1>9. CASE NewScript
  <2>1. \A i \in Slot : slots'[i].used => OwnWindow(i)'
    BY <1>9, WindowsStay DEF NewScript
  <2>2. handles' = {} /\ ListedOnce'
    BY <1>9 DEF NewScript, ListedOnce
  <2> QED
    BY <1>1, <2>1, <2>2 DEF SlotInv
<1>10. CASE UNCHANGED vars
  BY <1>1, <1>10, FewerFiles DEF vars
<1> QED
  BY <1>2, <1>3, <1>4, <1>5, <1>6, <1>7, <1>8, <1>9, <1>10 DEF Next

(***************************************************************************)
(* The bytes of every file in use are in memory, whatever was fetched,     *)
(* removed, renamed or half downloaded in between (fetch.rs of the         *)
(* firmware targets).                                                      *)
(***************************************************************************)
THEOREM FilesStayIntact == Spec => []FilesIntact
<1>1. SlotInv => FilesIntact
  BY DEF SlotInv, OwnWindow, FilesIntact
<1> QED
  BY <1>1, InvAtStart, StepKeepsInv, PTL DEF Spec

(***************************************************************************)
(* A handle reads its own file, up to its end, as long as the file is      *)
(* there (io_read of the firmware targets).                                *)
(***************************************************************************)
THEOREM HandlesReadTheirFile == Spec => []ReadsItsFile
<1>1. SlotInv => ReadsItsFile
  BY DEF SlotInv, TypeOK, OwnWindow, ReadsItsFile, StillThere
<1> QED
  BY <1>1, InvAtStart, StepKeepsInv, PTL DEF Spec

(***************************************************************************)
(* No name is listed twice (record_fetch_ref of lua/src/lib.rs).           *)
(***************************************************************************)
THEOREM NamesListedOnce == Spec => []ListedOnce
<1>1. SlotInv => ListedOnce
  BY DEF SlotInv
<1> QED
  BY <1>1, InvAtStart, StepKeepsInv, PTL DEF Spec
=============================================================================
