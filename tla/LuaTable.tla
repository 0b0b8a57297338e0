------------------------------- MODULE LuaTable -------------------------------
(***************************************************************************)
(* A Lua table: its slots, the raw operations and the list functions of    *)
(* the table library on them (lua/src/eval.rs), and a `for in' loop over   *)
(* it whose body changes it (lua/src/vm.rs).                               *)
(*                                                                         *)
(* The abstract table is `map', a partial function from keys to values.    *)
(* The list functions work on slot numbers and number the keys anew, which *)
(* is what they should do to the map as long as the table is a list: slot  *)
(* k holds key k.  `proper' says that this was so each time.               *)
(***************************************************************************)
EXTENDS Integers, Sequences, SequencesExt

CONSTANTS
    Name,           \* keys that are not numbers
    Value,          \* values, numbers
    Nil,
    TABLE_SLOTS

VARIABLES
    slots,      \* the table's slots in use
    map,        \* what the table should be
    proper,     \* the list functions were applied to lists only
    loop,       \* the for-in loop: its phase and the frame's control values
    met,        \* the keys the loop has given to its body, in order
    gone,       \* how many entries this round of the body removed; -1 once it was too many
    added       \* a key was added during the loop

vars == <<slots, map, proper, loop, met, gone, added>>

Index == 1 .. TABLE_SLOTS
Key == Index \cup Name
Slot(k, v) == [key |-> k, value |-> v]
Empty == [k \in {} |-> Nil]
Idle == [phase |-> "idle", i |-> 0, key |-> Nil]
FirstOf(S) == CHOOSE i \in S : \A j \in S : i <= j

-----------------------------------------------------------------------------
(* Raw operations. *)
At(s, k) == {i \in DOMAIN s : s[i].key = k}
RawGet(s, k) == IF At(s, k) = {} THEN Nil ELSE s[FirstOf(At(s, k))].value

\* raw_set: update, remove and close the gap, or append.
RawSet(s, k, v) ==
    IF v # Nil THEN IF At(s, k) # {} THEN [s EXCEPT ![FirstOf(At(s, k))].value = v]
                    ELSE Append(s, Slot(k, v))
    ELSE IF At(s, k) = {} THEN s ELSE RemoveAt(s, FirstOf(At(s, k)))

Updated(m, k, v) == [j \in IF v = Nil THEN DOMAIN m \ {k} ELSE DOMAIN m \cup {k} |->
                        IF j = k THEN v ELSE m[j]]

\* rawlen: the run of keys from 1.
RawLen(s) == CHOOSE n \in 0 .. TABLE_SLOTS :
    /\ \A k \in 1 .. n : RawGet(s, k) # Nil
    /\ n < TABLE_SLOTS => RawGet(s, n + 1) = Nil

\* next(t, k): the slot after k's, the first one for nil; Nil at the end.
NextKey(s, k) ==
    LET i == IF k = Nil THEN 1 ELSE FirstOf(At(s, k)) + 1 IN
    IF i > Len(s) THEN Nil ELSE s[i].key

-----------------------------------------------------------------------------
Init ==
    /\ slots = <<>> /\ map = Empty /\ proper = TRUE
    /\ loop = Idle /\ met = <<>> /\ gone = 0 /\ added = FALSE

\* The script acts outside the loop or in its body; once it has used a list
\* function on something else than a list it is not followed further.
Outside == proper /\ loop.phase = "idle"
Acts == proper /\ loop.phase \in {"idle", "body"}
InLoop == loop.phase = "body"

\* t[k] = v; a new key in a full table is an error.
Set ==
    /\ Acts
    /\ \E k \in Key, v \in Value \cup {Nil} :
        /\ v # Nil /\ At(slots, k) = {} => Len(slots) < TABLE_SLOTS
        /\ slots' = RawSet(slots, k, v)
        /\ map' = Updated(map, k, v)
        /\ added' = (added \/ (InLoop /\ v # Nil /\ At(slots, k) = {}))
        /\ gone' = IF ~InLoop \/ v # Nil \/ At(slots, k) = {} THEN gone
                   ELSE IF gone = 0 THEN 1 ELSE -1
    /\ UNCHANGED <<proper, loop, met>>

-----------------------------------------------------------------------------
(* The list functions; a loop's body does not use them here. *)
IsList(s) == \A i \in DOMAIN s : s[i].key = i
Keyed(s) == [i \in DOMAIN s |-> Slot(i, s[i].value)]

\* Mutant: the slots behind the new one keep their keys.
Inserted_NoRekey(s, pos, v) == InsertAt(s, pos, Slot(pos, v))

\* table.insert numbers the slots from the new one on.
Inserted(s, pos, v) ==
    LET wide == InsertAt(s, pos, Slot(pos, v)) IN
    [i \in DOMAIN wide |-> IF i > pos THEN Slot(i, wide[i].value) ELSE wide[i]]

TableInsert ==
    /\ Outside /\ Len(slots) < TABLE_SLOTS
    /\ \E pos \in 1 .. Len(slots) + 1, v \in Value :
        /\ slots' = Inserted(slots, pos, v)
        /\ map' = [k \in DOMAIN map \cup {Len(slots) + 1} |->
                    IF k \notin Index \/ k < pos THEN map[k]
                    ELSE IF k = pos THEN v ELSE RawGet(slots, k - 1)]
    /\ proper' = (proper /\ IsList(slots))
    /\ UNCHANGED <<loop, met, gone, added>>

\* table.remove numbers the slots that move up.
Removed(s, pos) ==
    LET short == RemoveAt(s, pos) IN
    [i \in DOMAIN short |-> IF i >= pos THEN Slot(i, short[i].value) ELSE short[i]]

TableRemove ==
    /\ Outside /\ slots # <<>>
    /\ \E pos \in DOMAIN slots :
        /\ slots' = Removed(slots, pos)
        /\ map' = [k \in DOMAIN map \ {Len(slots)} |->
                    IF k \notin Index \/ k < pos THEN map[k] ELSE RawGet(slots, k + 1)]
    /\ proper' = (proper /\ IsList(slots))
    /\ UNCHANGED <<loop, met, gone, added>>

\* table.sort is an insertion sort of the values: each goes behind the last one
\* that is not larger; then all the slots are numbered.
Behind(sorted, v) == CHOOSE j \in 0 .. Len(sorted) :
    /\ j > 0 => sorted[j].value <= v
    /\ \A k \in j + 1 .. Len(sorted) : sorted[k].value > v

SortedOf[n \in 0 .. Len(slots)] ==
    IF n = 0 THEN <<>>
    ELSE InsertAt(SortedOf[n - 1], Behind(SortedOf[n - 1], slots[n].value) + 1, slots[n])

Sorted == Keyed(SortedOf[Len(slots)])

TableSort ==
    /\ Outside /\ Len(slots) > 1
    /\ slots' = Sorted
    /\ \E p \in [DOMAIN map -> DOMAIN map] :
        /\ \A j, k \in DOMAIN map : p[j] = p[k] => j = k
        /\ \A j, k \in DOMAIN map \cap Index : j < k => map[p[j]] <= map[p[k]]
        /\ map' = [k \in DOMAIN map |-> map[p[k]]]
    /\ proper' = (proper /\ IsList(slots))
    /\ UNCHANGED <<loop, met, gone, added>>

(***************************************************************************)
(* table.move(t, f, e, to): slot by slot, backwards when it moves up; a    *)
(* source slot behind the end is nil, a slot behind the end is added with  *)
(* its number as its key (and the slots before it, whatever they hold),    *)
(* one behind TABLE_SLOTS is dropped.                                      *)
(***************************************************************************)
MovedOne(s, from, to) ==
    LET v == IF from <= Len(s) THEN s[from].value ELSE Nil IN
    IF to <= Len(s) THEN [s EXCEPT ![to].value = v]
    ELSE IF to > TABLE_SLOTS THEN s
    ELSE [i \in 1 .. to |-> IF i <= Len(s) THEN s[i] ELSE IF i < to THEN Slot(Nil, Nil) ELSE Slot(to, v)]

Moved(s, f, e, to) ==
    LET n == e - f + 1
        offset(k) == IF to > f THEN n - k ELSE k - 1
        moved[k \in 0 .. n] ==
            IF k = 0 THEN s ELSE MovedOne(moved[k - 1], f + offset(k), to + offset(k))
    IN  moved[n]

TableMove ==
    /\ Outside /\ slots # <<>>
    /\ \E f \in Index, e \in Index, to \in Index :
        /\ f <= e
        /\ slots' = Moved(slots, f, e, to)
        /\ proper' = (proper /\ IsList(slots) /\ e <= Len(slots) /\ to <= Len(slots) + 1
                        /\ to + e - f <= TABLE_SLOTS
                        /\ (to + e - f > Len(slots) + 1 => to <= f \/ f = e))
        /\ map' = [k \in (DOMAIN map \cup (to .. to + e - f)) |->
                    IF k \in to .. to + e - f THEN RawGet(slots, f + k - to) ELSE map[k]]
    /\ UNCHANGED <<loop, met, gone, added>>

\* table.pack(...): a new table, values first, then the field n.
TablePack ==
    /\ Outside
    /\ \E n \in 0 .. TABLE_SLOTS - 1 : \E vs \in [1 .. n -> Value], field \in Name :
        /\ slots' = [i \in 1 .. n + 1 |-> IF i <= n THEN Slot(i, vs[i]) ELSE Slot(field, CHOOSE v \in Value : TRUE)]
        /\ map' = [k \in (1 .. n) \cup {field} |-> IF k = field THEN CHOOSE v \in Value : TRUE ELSE vs[k]]
    /\ proper' = TRUE
    /\ UNCHANGED <<loop, met, gone, added>>

-----------------------------------------------------------------------------
(* for k, v in pairs(t) do body end *)
ForInPrep ==
    /\ Outside
    /\ loop' = [phase |-> "next", i |-> 0, key |-> Nil]
    /\ met' = <<>> /\ gone' = 0 /\ added' = FALSE
    /\ UNCHANGED <<slots, map, proper>>

ForInNext ==
    /\ loop.phase = "next"
    /\ IF loop.i >= Len(slots)
       THEN loop' = [loop EXCEPT !.phase = "done"] /\ UNCHANGED met
       ELSE /\ loop' = [loop EXCEPT !.phase = "body", !.key = slots[loop.i + 1].key]
            /\ met' = IF added \/ gone = -1 THEN <<>> ELSE Append(met, slots[loop.i + 1].key)
    /\ UNCHANGED <<slots, map, proper, gone, added>>

\* Mutant: the loop goes on by number.
Advanced_Always == loop.i + 1

\* When the entry is no longer in its slot, the next one has moved into it.
Advanced ==
    IF loop.i >= Len(slots) \/ slots[loop.i + 1].key # loop.key THEN loop.i ELSE loop.i + 1

ForInAdvance ==
    /\ loop.phase = "body"
    /\ loop' = [loop EXCEPT !.phase = "next", !.i = Advanced]
    /\ gone' = IF gone = 1 THEN 0 ELSE gone
    /\ UNCHANGED <<slots, map, proper, met, added>>

\* The loop is left: at its end, or by a break.
Leave ==
    /\ loop.phase \in {"done", "body"}
    /\ loop' = Idle /\ met' = <<>> /\ gone' = 0 /\ added' = FALSE
    /\ UNCHANGED <<slots, map, proper>>

Next == Set \/ TableInsert \/ TableRemove \/ TableSort \/ TableMove \/ TablePack
        \/ ForInPrep \/ ForInNext \/ ForInAdvance \/ Leave

Spec == Init /\ [][Next]_vars

-----------------------------------------------------------------------------
(***************************************************************************)
(* The slots are the map: every key reads as it should, no key is in two   *)
(* slots (the second would reappear when the first is removed), none is    *)
(* nil, rawlen is a border, and next reaches every key -- after any        *)
(* sequence of assignments, removals and list functions on lists.          *)
(* (eval.rs raw_get, raw_set, next and the table library.)                 *)
(***************************************************************************)
SlotsAreTheMap ==
    proper =>
        /\ \A k \in Key : RawGet(slots, k) = IF k \in DOMAIN map THEN map[k] ELSE Nil
        /\ \A i, j \in DOMAIN slots : slots[i].key = slots[j].key => i = j
        /\ {slots[i].key : i \in DOMAIN slots} = DOMAIN map
        /\ \A k \in DOMAIN map : k \in {NextKey(slots, j) : j \in {Nil} \cup DOMAIN map}
        /\ \A k \in 1 .. RawLen(slots) : k \in DOMAIN map

(***************************************************************************)
(* A loop whose body removes at most one entry a round, and adds none,     *)
(* meets every entry that is left at its end exactly once, though removals *)
(* move the slots under it.  (vm.rs ForInAdvance.)  A round that removes   *)
(* the current entry and an earlier one does make it miss an entry.        *)
(***************************************************************************)
MeetsEachOnce ==
    proper /\ ~added /\ gone # -1 =>
        /\ \A i, j \in DOMAIN met : met[i] = met[j] => i = j
        /\ loop.phase = "done" => DOMAIN map \subseteq {met[i] : i \in DOMAIN met}
=============================================================================
