------------------------------- MODULE MCLoader -------------------------------
(***************************************************************************)
(* The parts of the loader for TLC: which paths, maps and images there     *)
(* are.  Names of files and bytes of them are interchangeable; "/disks",   *)
(* which is listed from the start, is not one of them.                     *)
(***************************************************************************)
EXTENDS LoaderParts, TLC

(* Paths: whole, without an end, with a file, of two instances. *)
DevicePaths == {<<>>, <<"dev", "end">>, <<"dev">>, <<"dev", "file", "end">>,
                <<"dev", "bad">>, <<"dev", "end", "dev", "file", "end">>}

(* Maps of up to two entries, which may overlap; images of up to two       *)
(* segments, in any order, that end in the file, behind it, or so far      *)
(* behind it that the sum wraps.                                           *)
Entry == [base : {0, 4, 8}, length : {4, 8}, usable : BOOLEAN]
E820 == {<<>>} \cup {<<e>> : e \in [base : 0 .. 8, length : {2, 4}, usable : {TRUE}]}
        \cup {<<e, f>> : e, f \in Entry}
Segment(off, filesz, memsz, paddr) ==
    [off |-> off, filesz |-> filesz, memsz |-> memsz, paddr |-> paddr, load |-> TRUE]
Segment1 == {Segment(o, n, m, p) : o \in {0, 2, 31}, n \in {0, 1, 2}, m \in {0, 2}, p \in {1, 4, 9}}
Segment2 == {Segment(2, 1, m, p) : m \in {1, 2}, p \in {4, 5, 8}}
Note == [Segment(0, 1, 1, 2) EXCEPT !.load = FALSE]
SegmentLists == {<<>>} \cup {<<s>> : s \in Segment1} \cup {<<s, t>> : s \in Segment2 \cup {Note}, t \in Segment2}
BootFile(k, n, s) == [kind |-> k, size |-> n, table |-> 2, segs |-> s]
BootFiles == {BootFile(k, n, <<>>) : k \in {"lua", "text"}, n \in {3, 4}}
             \cup {BootFile(k, 3, s) : k \in {"Elf32", "Elf64"}, s \in SegmentLists}

Interchangeable == Permutations(Name) \cup Permutations(FileName)
=============================================================================
