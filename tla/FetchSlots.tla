----------------------------- MODULE FetchSlots -----------------------------
(***************************************************************************)
(* The files a Lua script fetches on the firmware targets                  *)
(* (bios/src/fetch.rs, arm64-bare/src/fetch.rs, uefi/src/fetch.rs), with   *)
(* the builtins that use them (lua/src/eval.rs) and the list that `ls'     *)
(* prints (lua/src/lib.rs).                                                *)
(*                                                                         *)
(* Four slots, each with a window of one memory region, hold the files; an *)
(* open file is the slot's number, so its position and whether it is open  *)
(* are kept per slot and shared by every handle of the file.  A download   *)
(* is one that module FileTransfer describes: it writes into the window    *)
(* of its slot, and its size is reported when the file is there.           *)
(*                                                                         *)
(* A file's content is the number of the download that brought it; its     *)
(* length is counted in pieces that a read may return.                     *)
(***************************************************************************)
EXTENDS Integers, Sequences, FiniteSets

CONSTANTS
    Name,               \* names of files
    Disks,              \* the entry "/disks", listed from the start
    MAX_FETCH_FILES,    \* slots (4)
    MAX_FETCHED,        \* entries of the list (16)
    PER_FILE_CAP,       \* pieces a window holds
    MaxFetches,         \* bound: downloads
    MaxHttp,            \* bound: of these, the first that may be over HTTP (uefi)
    MaxHandles,         \* bound: handles a script holds
    MaxResets           \* bound: dhcp calls and scripts after the first

ASSUME SlotAssumption ==
    /\ MAX_FETCH_FILES \in Nat \ {0} /\ MAX_FETCHED \in Nat \ {0} /\ PER_FILE_CAP \in Nat
    /\ Disks \notin Name
ASSUME BoundAssumption == MaxFetches \in Nat /\ MaxHttp \in 0 .. MaxFetches /\ MaxHandles \in Nat /\ MaxResets \in Nat

Slot == 1 .. MAX_FETCH_FILES
Serial == 0 .. MaxFetches           \* 0: nothing, or bytes of no file
Length == 0 .. PER_FILE_CAP
\* The windows, and what AllocatePool gives for each file over HTTP.
Region == 1 .. MAX_FETCH_FILES + MaxHttp

VARIABLES
    slots,      \* FETCH_FILES
    memory,     \* region -> the download whose file is in it
    io,         \* IO_OPEN and IO_POS (IO_CLOSED is set where IO_OPEN is cleared)
    list,       \* fetched_names, for `ls'
    handles,    \* the handles the script holds, each with the file it is of
    serials,    \* downloads begun
    resets

vars == <<slots, memory, io, list, handles, serials, resets>>

NoSlot == 0
NoFile == [used |-> FALSE, name |-> Disks, base |-> 0, len |-> 0, serial |-> 0]

Init ==
    /\ slots = [i \in Slot |-> NoFile]
    /\ memory = [r \in Region |-> 0]
    /\ io = [i \in Slot |-> [open |-> FALSE, pos |-> 0]]
    /\ list = <<Disks>>
    /\ handles = {}
    /\ serials = 0 /\ resets = 0

\* find_fetched_slot: the first used slot of that name.
Named(table, name) == {i \in Slot : table[i].used /\ table[i].name = name}
FirstOf(S) == IF S = {} THEN NoSlot ELSE CHOOSE i \in S : \A j \in S : i <= j
Find(name) == FirstOf(Named(slots, name))

\* Mutant: the slots are taken in turn.
FreeSlot_InTurn == (serials % MAX_FETCH_FILES) + 1

FreeSlot == FirstOf({i \in Slot : ~slots[i].used})

(***************************************************************************)
(* record_fetch_ref: a name is listed once; a full list is an error.  The  *)
(* sizes that are listed with the names are left out.                      *)
(***************************************************************************)
Listed(name) == \E k \in 1 .. Len(list) : list[k] = name

\* Mutants: the list grows past its end; a name is listed for every download.
Recorded_NoLimit(name) == IF Listed(name) THEN list ELSE Append(list, name)

Recorded_Appends(name) == IF Len(list) < MAX_FETCHED THEN Append(list, name) ELSE list

Recorded(name) ==
    IF Listed(name) \/ Len(list) >= MAX_FETCHED THEN list ELSE Append(list, name)

(***************************************************************************)
(* fetch(name, save): what goes wrong before the download changes nothing. *)
(* Then the free slot's window, or a new buffer, is written; a failed      *)
(* download leaves it half written.                                        *)
(***************************************************************************)
Window(http) == IF http THEN MAX_FETCH_FILES + serials + 1 ELSE FreeSlot

Fetch ==
    /\ serials < MaxFetches /\ FreeSlot # NoSlot
    /\ \E http \in BOOLEAN, save \in Name :
        /\ http => serials < MaxHttp
        /\ serials' = serials + 1
        /\ \/ \E len \in Length :
                /\ memory' = [memory EXCEPT ![Window(http)] = serials + 1]
                /\ slots' = [slots EXCEPT ![FreeSlot] =
                        [used |-> TRUE, name |-> save, base |-> Window(http),
                         len |-> len, serial |-> serials + 1]]
                \* the file stays when the list is full and the script gets an error
                /\ list' = Recorded(save)
           \/ /\ memory' = [memory EXCEPT ![Window(http)] = 0]
              /\ UNCHANGED <<slots, list>>
    /\ UNCHANGED <<io, handles, resets>>

\* Mutant: the position is the last handle's.
Opened_KeepPos(i) == [io EXCEPT ![i].open = TRUE]

Opened(i) == [io EXCEPT ![i] = [open |-> TRUE, pos |-> 0]]

\* io.open with a mode that has an "r"; "r+" also lists the file.
Open ==
    /\ \E name \in Name, plus \in BOOLEAN :
        LET i == Find(name) IN
        /\ i # NoSlot /\ Cardinality(handles) < MaxHandles
        /\ io' = Opened(i)
        /\ handles' = handles \cup {[id |-> i, name |-> name, serial |-> slots[i].serial]}
        /\ list' = IF plus THEN Recorded(name) ELSE list
    /\ UNCHANGED <<slots, memory, serials, resets>>

\* io.close lists the file, under the name it was opened with.
Close ==
    /\ \E h \in handles :
        /\ io[h.id].open
        /\ io' = [io EXCEPT ![h.id].open = FALSE]
        /\ list' = Recorded(h.name)
    /\ UNCHANGED <<slots, memory, handles, serials, resets>>

CanRead(i) == io[i].open /\ io[i].pos < slots[i].len

\* Any of the three formats: a part of what is left, or all of it.  An empty
\* line, which is reported as the end of the file, moves the position too.
Read ==
    /\ \E h \in handles :
        /\ CanRead(h.id)
        /\ \E n \in 1 .. slots[h.id].len - io[h.id].pos :
            io' = [io EXCEPT ![h.id].pos = @ + n]
    /\ UNCHANGED <<slots, memory, list, handles, serials, resets>>

\* os.remove: the first file of that name.
Remove ==
    /\ \E name \in Name :
        /\ Find(name) # NoSlot
        /\ slots' = [slots EXCEPT ![Find(name)].used = FALSE]
    /\ UNCHANGED <<memory, io, list, handles, serials, resets>>

\* os.rename: whether there is a file of the new name is not looked at.
Rename ==
    /\ \E old, new \in Name :
        /\ Find(old) # NoSlot
        /\ slots' = [slots EXCEPT ![Find(old)].name = new]
    /\ UNCHANGED <<memory, io, list, handles, serials, resets>>

\* set_context, by `dhcp' or before a script: every slot is free; what is
\* open stays open.
SetContext ==
    /\ resets < MaxResets /\ resets' = resets + 1
    /\ slots' = [i \in Slot |-> [slots[i] EXCEPT !.used = FALSE]]
    /\ UNCHANGED <<memory, io, list, handles, serials>>

\* A new script: LuaState::reset and the list of a new state.
NewScript ==
    /\ resets < MaxResets /\ resets' = resets + 1
    /\ list' = <<Disks>>
    /\ handles' = {}
    /\ UNCHANGED <<slots, memory, io, serials>>

Next ==
    \/ Fetch \/ Open \/ Close \/ Read \/ Remove \/ Rename
    \/ SetContext \/ NewScript

Spec == Init /\ [][Next]_vars

-----------------------------------------------------------------------------
SlotFile == [used : BOOLEAN, name : Name \cup {Disks}, base : {0} \cup Region,
             len : Length, serial : Serial]

(* Every variable has its type. *)
TypeOK ==
    /\ slots \in [Slot -> SlotFile]
    /\ memory \in [Region -> Serial]
    /\ io \in [Slot -> [open : BOOLEAN, pos : Length]]
    /\ list \in Seq(Name \cup {Disks}) /\ Len(list) <= MAX_FETCHED
    /\ handles \subseteq [id : Slot, name : Name, serial : Serial]
    /\ serials \in Serial /\ resets \in 0 .. MaxResets

(***************************************************************************)
(* The bytes of every file the script was told it has are still in memory, *)
(* whatever was fetched, removed, renamed or half downloaded after it: the *)
(* script hands kernels and initrds on from there.                         *)
(***************************************************************************)
FilesIntact == \A i \in Slot : slots[i].used => memory[slots[i].base] = slots[i].serial

(***************************************************************************)
(* Reading an open file ends at its end, and reads that file, as long as   *)
(* it is there: only a removed file's handle may show another file's       *)
(* bytes.                                                                  *)
(***************************************************************************)
StillThere(h) == slots[h.id].used /\ slots[h.id].serial = h.serial

ReadsItsFile ==
    \A h \in handles : StillThere(h) =>
        /\ io[h.id].pos <= slots[h.id].len
        /\ CanRead(h.id) => memory[slots[h.id].base] = h.serial

(***************************************************************************)
(* `ls' lists no name twice, in whatever order files were fetched, opened, *)
(* closed, removed and renamed.                                            *)
(***************************************************************************)
ListedOnce == \A j, k \in 1 .. Len(list) : list[j] = list[k] => j = k
=============================================================================
