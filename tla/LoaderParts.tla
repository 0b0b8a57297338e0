----------------------------- MODULE LoaderParts ------------------------------
(***************************************************************************)
(* The parts of the loader side by side: the network card under bursts of  *)
(* frames, the files of the native program and of the firmware, HTTP, boot *)
(* options and image loading have no state in common, so that each         *)
(* behaviour follows one of them (`part') and the variables of the others  *)
(* rest.  Every part's constants are constants here.                       *)
(***************************************************************************)
EXTENDS FetchSlots

CONSTANTS
    NUM_RX_DESC, MaxFrames, MaxUnread, MaxInits, NUM_TX_DESC, MaxSends, MaxGiveUps,
    FileName, NoName, Absent, Char, EndOfLine, MAX_OPEN, STR_CAP, MaxData, MaxFetched,
    HTTP_FILE_CAP, MaxDownloads,
    Number, Paths, MAX_BOOT_OPTIONS, Keys, None, MaxBoots,
    Maps, Images, Top, BOOT_END, FOUR_GB, WORD, FALLBACK, ARM_BASE, SIZE_HINT, FETCH_BASE, FETCH_TOTAL_CAP

VARIABLES
    part,
    pc,                                                         \* card, HTTP, boot options, images
    dd, rxBuf, rdh, writing, rdt, up, idx, held, arrived, overrun, got, inits,  \* card
    txBuf, txFrame, txDone, tdh, tdt, txPc, slot, sends, giveUps, wire, reported,
    files, open_files, downloads, meant, odd,                   \* native; downloads: HTTP too
    lists, children, pool, body, sizes,                         \* HTTP
    nvram, options, picked, path, boot_next, boots,             \* boot options
    target, map, image, ram, base, capacity, seg                \* images

card == <<dd, rxBuf, rdh, writing, rdt, up, idx, held, arrived, overrun, got, inits,
          txBuf, txFrame, txDone, tdh, tdt, txPc, slot, sends, giveUps, wire, reported>>
native == <<files, open_files, meant, odd>>
http == <<lists, children, pool, body, sizes>>
option == <<nvram, options, picked, path, boot_next, boots>>
loading == <<target, map, image, ram, base, capacity, seg>>
allVars == <<part, pc, downloads, card, native, http, option, loading, vars>>

-----------------------------------------------------------------------------
Card == INSTANCE E1000
Native == INSTANCE NativeFiles WITH handles <- open_files
Http == INSTANCE HttpDownload WITH PER_FILE_CAP <- HTTP_FILE_CAP
Options == INSTANCE BootOptions
Loading == INSTANCE ImageLoad WITH memory <- ram

ASSUME CardAssumption ==
    /\ {NUM_RX_DESC, NUM_TX_DESC} \subseteq Nat /\ NUM_RX_DESC >= 2 /\ NUM_TX_DESC >= 2
    /\ {MaxFrames, MaxUnread, MaxInits, MaxSends, MaxGiveUps} \subseteq Nat
ASSUME NativeAssumption ==
    {STR_CAP, MAX_OPEN} \subseteq Nat /\ NoName \notin FileName /\ Absent \notin Seq(Native!Byte)
ASSUME HttpAssumption == HTTP_FILE_CAP \in Nat
ASSUME PathAssumption == Paths \subseteq Seq(Options!PathNode)

\* Where a boot file may go lies behind the loader and within the memory, and so
\* do the segments of an image.
ASSUME PlaceAssumption ==
    /\ {SIZE_HINT, WORD} \subseteq Nat \ {0}
    /\ {Top, BOOT_END, FOUR_GB, FALLBACK, ARM_BASE} \subseteq Nat
    /\ ARM_BASE >= BOOT_END
    /\ FOUR_GB <= Top + 1
    /\ \A b \in {BOOT_END, FALLBACK, ARM_BASE} : b + SIZE_HINT <= Top + 1
MapEntry == [base : Nat, length : Nat, usable : BOOLEAN]
ProgramHeader == [off : Nat, filesz : Nat, memsz : Nat, paddr : Nat, load : BOOLEAN]
ASSUME ImageAssumption ==
    /\ Maps \subseteq Seq(MapEntry)
    /\ \A m \in Images :
        /\ m.size \in Nat /\ m.table \in Nat \ {0} /\ m.segs \in Seq(ProgramHeader)
        /\ \A i \in DOMAIN m.segs : m.segs[i].paddr + m.segs[i].memsz <= Top + 1

NoCard == dd = 0 /\ rxBuf = 0 /\ rdh = 0 /\ writing = 0 /\ rdt = 0 /\ up = 0 /\ idx = 0 /\ held = 0
          /\ arrived = 0 /\ overrun = 0 /\ got = 0 /\ inits = 0 /\ txBuf = 0 /\ txFrame = 0 /\ txDone = 0 /\ tdh = 0 /\ tdt = 0
          /\ txPc = 0 /\ slot = 0 /\ sends = 0 /\ giveUps = 0 /\ wire = 0 /\ reported = 0
NoNative == files = 0 /\ open_files = 0 /\ meant = 0 /\ odd = 0
NoHttp == lists = 0 /\ children = 0 /\ pool = 0 /\ body = 0 /\ sizes = 0
NoOption == nvram = 0 /\ options = 0 /\ picked = 0 /\ path = 0 /\ boot_next = 0 /\ boots = 0
NoImage == target = 0 /\ map = 0 /\ image = 0 /\ ram = 0 /\ base = 0 /\ capacity = 0 /\ seg = 0

PartsInit ==
    /\ Init
    /\ \/ /\ part = "card" /\ Card!DriverInit /\ downloads = 0
          /\ NoNative /\ NoHttp /\ NoOption /\ NoImage
       \/ /\ part = "native" /\ Native!Init /\ pc = 0
          /\ NoCard /\ NoHttp /\ NoOption /\ NoImage
       \/ /\ part = "http" /\ Http!Init
          /\ NoCard /\ NoNative /\ NoOption /\ NoImage
       \/ /\ part = "option" /\ Options!Init /\ downloads = 0
          /\ NoCard /\ NoNative /\ NoHttp /\ NoImage
       \/ /\ part = "image" /\ Loading!Init /\ downloads = 0
          /\ NoCard /\ NoNative /\ NoHttp /\ NoOption
       \/ /\ part = "fetched" /\ pc = 0 /\ downloads = 0
          /\ NoCard /\ NoNative /\ NoHttp /\ NoOption /\ NoImage

PartsNext ==
    \/ /\ part = "card" /\ Card!DriverNext
       /\ UNCHANGED <<part, downloads, native, http, option, loading, vars>>
    \/ /\ part = "native" /\ Native!Next
       /\ UNCHANGED <<part, pc, card, http, option, loading, vars>>
    \/ /\ part = "http" /\ Http!Next
       /\ UNCHANGED <<part, card, native, option, loading, vars>>
    \/ /\ part = "option" /\ Options!Next
       /\ UNCHANGED <<part, downloads, card, native, http, loading, vars>>
    \/ /\ part = "image" /\ Loading!Next
       /\ UNCHANGED <<part, downloads, card, native, http, option, vars>>
    \/ /\ part = "fetched" /\ Next
       /\ UNCHANGED <<part, pc, downloads, card, native, http, option, loading>>

PartsSpec == PartsInit /\ [][PartsNext]_allVars

-----------------------------------------------------------------------------
\* The parts' properties, each of its part's behaviours; those of FetchSlots
\* hold as they are, since its variables rest in the state they start in.
\* E1000Rx: a frame stored in an emptied descriptor is returned once.
ReturnedOnce == part = "card" => Card!ReturnedOnce
\* E1000Tx: what was reported as sent is on the wire.
ReportedSent == part = "card" => Card!ReportedSent
\* NativeFiles: under every name is what was written there.
FilesAsWritten == part = "native" => Native!FilesAsWritten
\* NativeFiles: reading in pieces reads the whole.
ReadsWhole == part = "native" => Native!ReadsWhole
\* HttpDownload: nothing is held after a download, and sizes are of bytes.
LeavesNothing == part = "http" => Http!LeavesNothing
\* BootOptions: the option under the key is booted.
BootsThePicked == part = "option" => Options!BootsThePicked
\* ImageLoad: the boot file is in usable memory.
InUsableMemory == part = "image" => Loading!InUsableMemory
\* ImageLoad: the segments are where the headers say.
LoadedAsLinked == part = "image" => Loading!LoadedAsLinked
=============================================================================
