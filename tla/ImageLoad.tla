------------------------------ MODULE ImageLoad ------------------------------
(***************************************************************************)
(* Where the BIOS and the bare ARM64 loader put the boot file, and what    *)
(* they do with it there (mem.rs and loader.rs of bios/src and             *)
(* arm64-bare/src, execute_pxe of their net.rs, the windows of             *)
(* bios/src/fetch.rs).  One memory holds the loader, the boot file, the    *)
(* segments of an ELF image and the files a script fetches.                *)
(*                                                                         *)
(* An address stands for a range of bytes, so that a few of them show      *)
(* every way in which ranges can lie.  A byte of the boot file is its      *)
(* number in the file.                                                     *)
(***************************************************************************)
EXTENDS Integers, Sequences, FiniteSetsExt

CONSTANTS
    Maps,           \* E820 maps: sequences of [base, length, usable]
    Images,         \* boot files: [kind, size, table, segs]
    Top,            \* last address
    BOOT_END,       \* bootloader_end: the first address behind the loader
    FOUR_GB,        \* the first address that 32 bits do not reach
    WORD,           \* 2^w for the w bits of a usize on the machine
    FALLBACK,       \* where the boot file goes without a map (2 MB)
    ARM_BASE,       \* where it goes on bare ARM64
    SIZE_HINT,      \* room for a boot file (16 MB)
    FETCH_BASE, FETCH_TOTAL_CAP     \* the windows of fetched files on BIOS

VARIABLES
    target, map, image,
    memory,
    base, capacity,     \* of the sink
    pc,                 \* "place", "segments", "script", "entered", "shown", "failed", "lost"
    seg                 \* the program header that is next

vars == <<target, map, image, memory, base, capacity, pc, seg>>

Addr == 0 .. Top
Nothing == -1
Loader == -2
Fetched == -3
Zero == 0

Init ==
    /\ target \in {"bios", "arm64"} /\ map \in Maps /\ image \in Images
    /\ memory = [a \in Addr |-> IF a < BOOT_END THEN Loader ELSE Nothing]
    /\ base = 0 /\ capacity = 0 /\ pc = "place" /\ seg = 1

-----------------------------------------------------------------------------
\* What of an entry is behind the loader and within reach.
\* Mutant: the region starts where the entry does.
From_Entry(e) == e.base

From(e) == Max({e.base, BOOT_END})
To(e) == Min({e.base + e.length, FOUR_GB})
Room(e) == To(e) - From(e)

\* choose_region: the largest, the first of those as large.
Regions == {i \in DOMAIN map : map[i].usable /\ From(map[i]) < To(map[i]) /\ Room(map[i]) >= SIZE_HINT}
Best == CHOOSE i \in Regions : \A j \in Regions :
            Room(map[i]) > Room(map[j]) \/ (Room(map[i]) = Room(map[j]) /\ i <= j)

\* allocate, and the fixed place on bare ARM64.
Base == IF target = "arm64" THEN ARM_BASE
        ELSE IF Regions # {} THEN From(map[Best]) ELSE Max({BOOT_END, FALLBACK})

Cells(first, n) == first .. first + n - 1

(***************************************************************************)
(* The download: a file that has no room fails, and what came before is    *)
(* left in the memory.                                                     *)
(***************************************************************************)
Place ==
    /\ pc = "place"
    /\ base' = Base /\ capacity' = SIZE_HINT
    /\ LET n == Min({image.size, SIZE_HINT}) IN
       memory' = [a \in Addr |-> IF a \in Cells(Base, n) THEN a - Base + 1 ELSE memory[a]]
    /\ pc' = IF image.size > SIZE_HINT THEN "failed"
             ELSE IF image.kind = "lua" THEN "script"
             ELSE IF image.kind = [bios |-> "Elf32", arm64 |-> "Elf64"][target] THEN "segments"
             ELSE "shown"
    /\ UNCHANGED <<target, map, image, seg>>

-----------------------------------------------------------------------------
\* The program header is read where the file is, as it is by now.
HeaderByte == image.table + seg - 1
HeaderAt == base + HeaderByte - 1
MoreHeaders == seg <= Len(image.segs) /\ HeaderByte <= image.size

\* The sum is computed in a usize.
InFile(s) == (s.off + s.filesz) % WORD <= image.size
Wrapped(s) == s.off + s.filesz >= WORD
Source(s) == Cells(base + s.off, s.filesz)
Target(s) == Cells(s.paddr, s.filesz)

\* Mutant: the rest of a segment is cleared from its start.
Bss_FromStart(s) == Cells(s.paddr, s.memsz - s.filesz)

Bss(s) == Cells(s.paddr + s.filesz, s.memsz - s.filesz)

\* The bytes of the segment are copied, then the rest of it is cleared.
Copied(s) ==
    [a \in Addr |-> IF s.memsz > s.filesz /\ a \in Bss(s) THEN Zero
                    ELSE IF a \in Target(s) THEN memory[base + s.off + a - s.paddr] ELSE memory[a]]

\* Nothing can be said once the copied ranges overlap, the header is
\* overwritten or the loader itself is, or the end of a segment has wrapped, so
\* that what is copied starts in front of the file.
Lost(s) ==
    \/ memory[HeaderAt] # HeaderByte
    \/ s.load /\ InFile(s) /\ (Wrapped(s) \/ Source(s) \cap Target(s) # {} \/ s.paddr < BOOT_END)

LoadSegment ==
    /\ pc = "segments" /\ MoreHeaders
    /\ LET s == image.segs[seg] IN
       IF Lost(s) THEN pc' = "lost" /\ UNCHANGED <<memory, seg>>
       ELSE /\ memory' = IF s.load /\ InFile(s) THEN Copied(s) ELSE memory
            /\ seg' = seg + 1 /\ UNCHANGED pc
    /\ UNCHANGED <<target, map, image, base, capacity>>

\* The image's entry is called; a kernel does not come back.
Enter ==
    /\ pc = "segments" /\ ~MoreHeaders /\ pc' = "entered"
    /\ UNCHANGED <<target, map, image, memory, base, capacity, seg>>

\* fetch_file on BIOS: bytes of a window are written.
FetchByte ==
    /\ pc = "script" /\ target = "bios"
    /\ \E a \in Cells(FETCH_BASE, FETCH_TOTAL_CAP) : memory' = [memory EXCEPT ![a] = Fetched]
    /\ UNCHANGED <<target, map, image, base, capacity, pc, seg>>

Next == Place \/ LoadSegment \/ Enter \/ FetchByte

Spec == Init /\ [][Next]_vars

-----------------------------------------------------------------------------
(***************************************************************************)
(* A download goes into memory that the map calls usable and that no other *)
(* entry claims, behind the loader and below 4 GB, when one usable entry   *)
(* has room for it: whichever usable entries overlap, are cut by these     *)
(* limits, or come in another order.  The firmware must keep its reserved  *)
(* entries off the usable ones, since choose_region looks at those alone;  *)
(* without that, KeepsOffReserved alone does not hold.                     *)
(* (choose_region and allocate of bios/src/mem.rs.)                        *)
(***************************************************************************)
Covers(i, a) == a \in Cells(map[i].base, map[i].length)
Usable(a) ==
    /\ \E i \in DOMAIN map : Covers(i, a)
    /\ \A i \in DOMAIN map : Covers(i, a) => map[i].usable

HasRoom == \E i \in DOMAIN map, a \in BOOT_END .. FOUR_GB - SIZE_HINT :
              \A c \in Cells(a, SIZE_HINT) : Covers(i, c) /\ Usable(c)
ReservedApart == \A i, j \in DOMAIN map : map[i].usable /\ ~map[j].usable =>
                    ~\E a \in Cells(map[i].base, map[i].length) : Covers(j, a)

KeepsOffReserved ==
    target = "bios" /\ pc # "place" /\ HasRoom =>
        \A a \in Cells(base, capacity) : Usable(a) /\ a >= BOOT_END /\ a < FOUR_GB

InUsableMemory == ReservedApart => KeepsOffReserved

(***************************************************************************)
(* When an ELF image is entered its segments are in memory as its headers  *)
(* say, the rest of each cleared, and nothing else has changed -- for an   *)
(* image whose segments keep clear of each other and of the file they are  *)
(* copied from, whatever order they come in and wherever the file is.      *)
(* (execute_elf32 and execute_elf64.)                                      *)
(***************************************************************************)
Span(s) == Cells(s.paddr, s.memsz)
Segments == {i \in DOMAIN image.segs : image.table + i - 1 <= image.size
                                       /\ image.segs[i].load /\ InFile(image.segs[i])}
Apart ==
    /\ \A i, j \in Segments : i # j => Span(image.segs[i]) \cap Span(image.segs[j]) = {}
    /\ \A i \in Segments : /\ image.segs[i].filesz <= image.segs[i].memsz
                           /\ Span(image.segs[i]) \cap Cells(base, image.size) = {}

LoadedAsLinked ==
    pc = "entered" /\ Apart =>
        /\ \A i \in Segments : LET s == image.segs[i] IN \A k \in 0 .. s.memsz - 1 :
                memory[s.paddr + k] = IF k < s.filesz THEN s.off + k + 1 ELSE Zero
        /\ \A c \in 1 .. image.size : memory[base + c - 1] = c
        /\ \A a \in 0 .. BOOT_END - 1 : memory[a] = Loader

(***************************************************************************)
(* The files a script fetches do not overwrite the boot file: their        *)
(* windows are "well above the bootfile sink (2 MB) and its 16 MB window"  *)
(* (bios/src/fetch.rs 18-19).                                              *)
(***************************************************************************)
WindowsApart ==
    pc = "script" => \A c \in 1 .. image.size : memory[base + c - 1] = c
=============================================================================
