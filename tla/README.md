# Rustrapper in TLA+

TLA+ modules, TLC configurations and TLAPS proofs for Rustrapper, a network boot
loader for BIOS, UEFI and bare ARM64 machines (and, for development, Linux) with
a Lua interpreter as its shell. Everything is written from the Rust sources;
`PROJECT.json` names, for each definition, the lines it stands for.

## 1. The system

One thread of Rust code without an allocator, in four targets that share the
crates `common` and `lua`. What runs beside it is the network card, the servers,
the network and, on UEFI, the firmware.

| Component | State | Operations | Talks to |
|---|---|---|---|
| e1000 driver, `common/src/e1000.rs` | two descriptor rings in static memory, one TX buffer; RDH, RDT, TDH, TDT in the card | `init`, `send`, `try_receive` | the card, through memory, at any time; DHCP, ARP, DNS and TFTP call it |
| DHCP client, `common/src/dhcp.rs`, `*/net.rs` | none kept but the lease | `dhcp_run`, `parse_response` | driver or UEFI's SNP; network boot and the Lua builtin `dhcp` call it |
| ARP, DNS, routing, `common/src/{arp,dns,netio}.rs` | none kept | `resolve`, `arp_resolve` | driver |
| TFTP client, `*/net.rs`, `common/src/tftp.rs` | server port, block size, the caller's sink | `tftp_download` (5 forms) | driver, UEFI SNP or a socket; PXE boot, `fetch`, `dofile` call it |
| HTTP client, `uefi/src/http.rs` | handles of UEFI protocols | `http_download_uefi` | firmware |
| Fetched files, `*/fetch.rs` | 4 slots with windows of memory, open flag and position per slot | `fetch`, `io_open/close/read/write`, `os_remove/rename`, `set_context` | TFTP, HTTP; Lua's `io`, `os`, `ls`, `boot` |
| Native files, `native/src/fetch.rs` | vectors of open files behind a mutex | the same, on the host's disk | sockets, disk |
| Lua machine, `lua/src/{vm,eval,lib}.rs` | frames, operands, locals of the running thread; parked threads; coroutine records; arenas of values | `run_at`, `co_create`, `co_resume_value`, `unwind_protected`, builtins | the host's callbacks (fetch, dhcp, boot) |
| Lua front end, `lua/src/{lex,parse}.rs`, `vm.rs` | node pool, function table | `parse`, `compile` | the machine |
| Shell, `lua/src/repl.rs` | line, accumulated chunk, history ring, draft | key handlers, `run_repl_once` | the machine, consoles |
| Boot flow, `*/main.rs`, `common/src/menu.rs`, `*/net.rs` | who has the card; `FETCH_CTX` | menu, scan, network boot and its fallbacks, shell | all of the above |
| UEFI boot options, `uefi/src/boot.rs` | firmware variables | list the options, start the one that was picked | firmware |
| Loaders, `*/loader.rs`; memory maps, `*/mem.rs` | memory | detect a format, place segments, jump | boot flow, `boot` builtin |
| Scan, PCI, consoles, boot assembly, UEFI bindings, ROM wrapper | devices | enumeration, printing | |

The behaviours that are hard here:

* the card works on the rings between any two instructions of the driver;
* the rings have no software index: the driver finds its place by DD bits, and the
  tail it writes decides what the card may overwrite;
* packets are lost, repeated by the server, and mixed with the packets of others,
  while the client keeps no block number and repeats nothing;
* one Lua machine holds the stacks of the running thread and swaps them with
  those of the parked ones; the interpreter is entered again for resumes,
  metamethods and handlers, and each entry must end with its own frame, whatever
  is thrown, caught, yielded or resumed in between;
* the answer to a DISCOVER is found among the frames of others within a few polls, is
  never confirmed, and leads to a chain of fallbacks over one card that two drivers share;
* fixed tables (slots, names, coroutines, frames) that run full in the middle of
  an operation, and are used again while something still refers to the old use.

What makes each component correct, in a sentence: the driver returns each frame once,
in order, and reports as sent what was sent; a download that reports success has
stored the file; no two machines take one address; a network boot ends, and runs one file;
a fetched file stays what it was until it is removed; coroutines
keep their own stacks and their statuses are true. The hazards behind
these, with their lines, are in `PROJECT.json`.

## 2. The modules

| Module | What it is |
|---|---|
| `E1000Rx` | receive ring: `init`, `try_receive`, the card's receive side |
| `E1000Tx` | transmit ring: `init`, `send`, the card's transmit side |
| `E1000` | the driver: both rings, one thread, one `init` |
| `E1000Proofs` | theorems about the three |
| `LuaCoroutines` | frames, coroutines, protected calls, nested runs |
| `LuaCoroutinesProofs` | theorems: types and the chain of resumes; whose frames a thread has |
| `FileTransfer` | what a download promises, abstractly |
| `TftpDownload` | the TFTP client with a server and a network; implements `FileTransfer` |
| `TftpProofs` | theorems about it, the refinement among them |
| `Dhcp` | machines, a server and the frames between them: the exchange that gives a lease |
| `NetworkBoot` | the boot flow of one of these machines, from the menu to a file or the shell |
| `NetworkBootProofs` | theorems about the two |
| `FetchSlots`, `FetchSlotsProofs` | slots, handles and the listed names of the firmware targets, over transfers that succeed or leave a half-written window; theorems |
| `NativeFiles` | the same libraries on the native program's memory files and handles |
| `HttpDownload` | the UEFI HTTP client, call by call |
| `BootOptions` | the firmware's boot options: list, choice, load, BootNext |
| `ImageLoad` | where the boot file goes in memory, and the ELF loaders |
| `LuaCompiler` | goto, blocks, loops: from the source's blocks to jumps and back |
| `LuaScopes` | locals, captures, cells, globals |
| `LuaTable` | tables, the list functions, the `for in` loop |
| `LuaPattern`, `LuaPack` | string patterns; `string.pack` and `unpack` |
| `LineEditor` | the interactive line, its history and chunk |
| `LoaderParts`, `LoaderProofs` | card, native files, HTTP, boot options, images and fetched files side by side; theorems about the first five |
| `ShellParts`, `ShellProofs`, `StringProofs` | tables, the line editor, patterns and packed data side by side; theorems about the first two; about the strings |
| `MCLoader`, `MCLuaShell` | the instances of these that TLC checks, the second one with the other parts of the language |
| `MCImageLoad`, `MCLineEditor` | instances for two counterexamples |

### The network card (`E1000Rx`, `E1000Tx`, `E1000`)

`dd` and `rxBuf` are the status bits and buffers of `RX_DESCS`/`RX_BUFS`, `rdh`
and `rdt` the registers. `try_receive` is cut where the card can see or change
something: the status read (`ScanEmpty`, `ScanHit`), the copy (`Copy`), the status
write (`ClearStatus`), the register write (`AdvanceTail`). The card receives in two steps, each of which may come
between any two of the driver's: `NicFill` writes the frame to the buffer of the descriptor at RDH, without looking at DD,
and `NicStatus` sets DD and moves RDH on. It owns the descriptors from RDH up to RDT, none when they are equal.
Frames are numbered in wire order, and `got` is the history of what was returned. `overrun` remembers the frames that
were written over one still unread: the driver may take such a frame under the old DD bit, and again under its
own. A copy that races the card's write counts as a copy of the one frame or of the other.

`send` is cut likewise: fill TX_BUF, write the descriptor, write TDT, poll. The
card transmits what TX_BUF holds at that moment (`NicTransmit`: its fetch, transmission and write-back are one
step, since the driver looks at DD alone, which the last of them sets); `wire` records for which frame a
descriptor was queued and which bytes went out. A call that gives up leaves its
descriptor with the card.

`init` puts both rings back to their start and leaves the DD bits as
they are: a frame that was not read before it is found after it, and one that the card was about to report is lost.

Both halves are modules of their own; `E1000` takes the receive half by EXTENDS,
the transmit half by INSTANCE with `txUp <- up` (one `init` enables both), and
interleaves them under the one-thread rule (`DriverReceive`, `DriverSend`).

### Coroutines (`LuaCoroutines`)

`flat` is the frame stack of the running thread (`s.frames[..s.fsp]`), `threads` the
saved ones, `cos` the records of `CoState`, `current` is `s.current`. The Rust
stack is modelled too, as `runs`: each activation of `run_at`, with its floor, and
with the thread it was entered from when it is a resume. `mode` says whether the
innermost run executes, has an error to unwind, or is returning one.

A frame is its kind - what its return address makes of it: `func` goes on in the
caller, `callee` ends a `pcall`, `body`, `root` and `nested` end a run - and
the serial number of the coroutine that pushed it, a history by which
`OwnFrames` notices a frame on another's stack.

`Resume` is `co_resume_value` up to the entry of `run_at`, `SwitchBack` what it does
after: results or error, status, swap. `Protect`, `Catch`, `FinishProtect` are
`pcall`, `unwind_protected` and `finish_pcall`; `CallMeta` stands for every
call from a builtin back into Lua. `NextLine` and `NextScript` are what the shell
does to the machine between two programs.

Four paths of the code are kept out of `Next`, because each breaks the machine by itself:
a resume whose setup fails between the swaps (`ResumeSetupFails`), a yield under
`__call`/`__pairs` (`YieldCallable`), under `table.sort` (`YieldSort`), and under a `pcall`
inside a metamethod (`YieldMetaProtected`). The runs `lua_resume_setup` and
`lua_yield_call` add them and show how; the passing run and the theorems speak of
programs that take none of them.

### Downloads (`FileTransfer`, `TftpDownload`)

`FileTransfer`: the sink grows, then either it is the file and the caller gets its
size, or the caller gets `None`; after that the sink is not written.

`TftpDownload` is the loop of `tftp_download`, one action for each kind of frame,
for a `target` out of five. They differ in what `LearnPort` takes for the server's
port, in ERROR (native has no case for it) and in the timeout
(one budget of polls for SNP). The server is RFC 1350's, external to the
repository: it answers the request with OACK, DATA or ERROR, takes an ACK only on
its own port and for its own block, and may send its block again when nothing is
under way. It has to know the client's MAC address and asks for it by ARP, which
the client answers in the middle of the loop. Frames of others (`Stray`) come without end: `MaxStrays` bounds those
in flight at one time, not their number.

### Leases and the boot flow (`Dhcp`, `NetworkBoot`)

`Dhcp` is `dhcp_run` on every machine of a network. A machine sends a DISCOVER, then looks
at frames: `Receive` takes one that `parse_response` accepts and discards any other, `Timeout`
finds none, and either way `NextTry` decides whether to poll again, to send again (SNP only,
on ARM64 after a `Restart` of the firmware's driver) or to give up. `owner` says whose
rings the card uses, this program's or the firmware's; the other driver is deaf. `unread`
holds what is in those rings, also from before the call. OFFERs are broadcast, as the DISCOVER
asks, so each card gets everyone's. The server is external: it reserves an address, and
may give up a reservation that nobody requested (`Forget`) - and nobody ever does, since the
OFFER is taken as final. `lease` is the address of the last OFFER taken.

`NetworkBoot` extends `Dhcp` with the flow of one machine, `Me`, on three targets. `pc` is where
it stands: `ScanNetwork` starts with SNP if there is any, else with the ways to find an e1000
(`Tiers`); `Direct` takes the card from the firmware to download over it; `DownloadFails` falls
back to SNP, which may be deaf by then. A download is what `FileTransfer` promises. `SetContext`
writes `FETCH_CTX`; `ShellDhcp` is `setup_fetch_context`. The choices of the hardware (an init that
fails, a handle that does not open) and of the file are left open. Only the last of
the UEFI ways goes on to the file: the others return the lease, and the flow is back at the menu.

### Fetched files (`FetchSlots`)

`slots` is `FETCH_FILES`, `io` the pair `IO_OPEN`/`IO_POS`, `list` the Lua state's
`fetched_names`. A file's content is the number of the download that brought it,
`memory` says whose content a window holds; so a property can tell whether
a file, or a handle of it, still leads to the bytes that were fetched. `Fetch` is
the whole builtin: the slot is looked for, the download fails or succeeds
(`FileTransfer` is what is assumed of it), the slot is taken, the name listed - or
not listed, when the list is full, which the script sees as an error
although the file stays.

### Native files (`NativeFiles`)

`files` is the vector `FILES` with the files of the disk behind it (the first entry of a name
is the one found), `handles` the vector `OPEN_FILES`, in which closed handles stay. A handle
has its own copy of the bytes; `Close` puts the copy of a writing handle back. `Read` covers
the formats of `io.read` and the lines of `io.lines`, with the buffer of `STR_CAP` bytes whose
rest is skipped; `got` is what the script saw. `meant` is what a script would expect under each
name. Where the code itself does not keep two uses of a name apart (two writers, a rename under
an open handle, a handle closed twice ...) the name becomes `odd` and is no longer followed.

### HTTP (`HttpDownload`)

`pc` is the next firmware call of `http_download_uefi` under `fetch_file`: locate the handles,
open the binding, create a child, open HTTP on it, configure, request, response; then the child
is destroyed and the list freed. Each may fail and then takes the early exit that the code takes.
`lists` and `children` count what is not given back, `pool` the buffers with the bytes in them,
`sizes` what a script was told.

### Boot options, images (`BootOptions`, `ImageLoad`)

`BootOptions`: `nvram` is BootOrder with the Boot#### variables, any of which may be unreadable,
`options` what was listed. `Choose` takes a key, `Load`, `Again` and `Start` are
`boot_from_device_path` with its default path, `SetNext` is BootNext and the reset. An image that
ran and came back may have changed `nvram` before the next listing.

`ImageLoad`: `memory` maps each address to what is in it: the loader, a byte of the boot file,
zero, or a fetched file. `Place` is `choose_region` and `allocate` over an E820 map, or the fixed
address of bare ARM64, `LoadSegment` one round of the ELF loops, `Enter` the jump; `FetchByte`
is a script's download into the fetch windows. `InFile` adds in a `usize`, as the code does; a sum that wraps would
make the code copy from in front of the file, and there the model stops (`Lost`). The place of a program
header, `phoff + i * phentsize`, is taken not to wrap.

### The language (`LuaCompiler`, `LuaScopes`, `LuaTable`, `LuaPattern`, `LuaPack`)

Each has the code's structure on one side and what it stands for on the other.

* `LuaCompiler`: `code` is what the parser and the compiler make of `prog`, with labels resolved block by
  block and jumps patched, and the machine's actions execute it; `due` walks through the program
  itself. `InStep` compares them. Conditions are free choices, so that every path is run.
* `LuaScopes`: `frames`, `cells`, `closures`, `globals` are those of the machine; `env` in a frame and
  `store` are lexical scoping. Its programs hold the declarations, assignments, uses, blocks, loops, closures and
  calls of one variable.
* `LuaTable`: `slots` is a table's array as `raw_set` keeps it (a removal moves the later
  entries down by one), `map` the function it stands for. The list functions work on slot numbers, as the code does.
  The loop's phases are the instructions `ForInPrep`, `ForInNext` and `ForInAdvance`; its body is any of the
  other operations in between.
* `LuaPattern`: the operators `StringFind`, `GmFind` and `Gsub` are the code's two matchers and `gsub`'s loop. A matcher
  is a function of the elements and offsets, filled from the last element to the first (the code calls itself for the
  rest of the pattern); the end anchor is the last element, since nothing behind it is looked at. `Meant` is the
  first offset with a reading of the subject, and there the one that is preferred to all others; it knows
  nothing of trying. The state is that of the `gmatch` iterator, begun at any `init`: also past the end of the subject, where
  the code's loops still try once and slice out of range.
* `LuaPack`: one action packs or unpacks a field; the bytes, alignment and order are computed
  as the code computes them, for bytes of `Byte` values (four in the run): shifts and masks are divisions and `And`.
  `PackSize` is the loop of `packsize`, `Kept` what a value becomes in its field, by arithmetic. The shifts past a word of
  `read_int` (`Digit`) are those of a release build; with overflow checks they panic. The padding of `X` is not checked
  against the buffer, so a format may end past it, where the slice of the result panics (`PackDone`).

### The interactive shell (`LineEditor`)

`line`, `pos`, `acc`, `hist`, `draft` are the variables of `repl_loop`; `row` and `col` are the terminal, changed by
exactly the characters and backspaces that each key prints. A `local` that is rewritten to `global`
grows by one character, a chunk is full at `CHUNK_CAP`, the history is a ring. `base` is the width of the prompt that was drawn
last, and `uniform` says that the row has had no other: the first prompt of a row shows the directory,
`redraw_line` and `prompt` know only `> ` and `>> `.

### The composed runs

`LoaderParts`, `ShellParts` and `MCLuaShell` are unions of parts that share no state in the code: a
behaviour picks a `part` in its initial state and follows that module's `Next`; the variables of
the others keep a fixed value. A property is that part's own, under `part = ...`. Nothing is added to or
taken from a module this way; it lets one run of TLC check several of them, and one module of proofs
be about several. `LoaderParts` and `ShellParts` have all the parts' constants as their own, with the assumptions
on them; `MCLoader` says which paths, maps and images TLC tries, and `MCLuaShell` puts the compiler and scopes
beside the four parts of `ShellParts`. These two are not among the parts that are proved about, since
their operators are recursive.

## 3. The runs

| Run | Modules and bounds | Shows |
|---|---|---|
| `loader` | card: ring of 3 and 2, 4 frames, 3 unread, 2 inits, 3 sends, all may give up | `ReturnedOnce`, `ReportedSent` under bursts, second inits and abandoned sends |
| | native files: 2 names, 2 handles, 2 bytes, lines of 1, 1 download | `FilesAsWritten`, `ReadsWhole` |
| | HTTP: files up to 2 bytes, 3 downloads | `LeavesNothing` |
| | boot options: 3 numbers, 2 listed, 2 boots, 6 kinds of path | `BootsThePicked` |
| | images: 17 addresses, maps of up to 2 entries, images of up to 2 segments | `InUsableMemory`, `LoadedAsLinked` |
| | fetched files: 3 names, 2 slots, a list of 3, 3 downloads (1 by HTTP), 2 handles, 1 reset | `FilesIntact`, `ReadsItsFile`, `ListedOnce` |
| `e1000_lockstep` | ring of 3 and 2, 7 frames, 1 unread, 4 sends, fair | `InOrder`, `NoReceiveStall`, `SentIntact`, `EventuallyReturned`: both rings wrap twice |
| `e1000_overwrite` | 2 unread | counterexample to `NoOverwrite` |
| `lua_coroutines` | 2 coroutines, 3 frames, 3 created, 1 nested run | the six properties of the machine |
| `lua_resume_setup` | the same, 2 created | counterexample to `ResumeHandsBack` |
| `lua_yield_call` | 4 frames | counterexample to `SuspendedWhole` |
| `lua_shell` | compiler: programs up to two blocks deep, with every simple statement beside, in and behind a block | `InStep` |
| | scopes: one variable at three depths, 5 frames, 4 cells, 4 closures, 3 locals, 2 globals, 2 rounds | `LexicalScoping` |
| | tables: 3 slots, 1 name, 2 values | `SlotsAreTheMap`, `MeetsEachOnce` |
| | patterns of up to 3 elements on subjects of up to 3 of 2 characters, from 3 places on | `FindsTheMatch`, `GsubKeepsTheRest`, `GmatchMovesOn` |
| | formats of up to 3 options behind an alignment and a byte order | `RoundTrip` |
| | editor: line of 2, chunk of 3, history of 2 entries of up to 4, 2 runs, 1 other key | `LineOnScreen`, `RecallIsWhole` |
| `tftp` | block 2, sink 6, files of 0, 1, 2, 5, 6, 7, numbers wrap at 3, 2 losses, 2 strays in flight, 2 resends | safety, termination, refinement of `FileTransfer` |
| `tftp_lost_ack` | the same, ACKs may be lost | counterexample to `CompleteIsFile` |
| `network_boot` | 2 machines, 2 addresses, 3 tries, 2 SNP sends, 1 trouble, 2 attempts, fair | `OwnAddress`, `RunsOnce`, `FetchContext`, `MeConfigured`, `AttemptEnds` on every target |
| `image_windows` | addresses of 8 MB, one hole in memory | counterexample to `WindowsApart` |
| `editor_stale` | line of 3, the first prompt shows a directory, 2 other keys | counterexample to `NoTextLeftBehind` |

Why these bounds. A ring of three is the smallest in which a descriptor can
be before, at and after the tail at once; seven frames take it around twice, and four under bursts are a full ring, whose
first descriptor is written again. Records
are used again when 3 coroutines are created over 2 of them; 2 coroutines
form a chain with the main thread, so a resume can meet dead, suspended, running and
normal ones; 3 frames hold a body, a protected frame and its callee, and overflow in each
position. Files of 0, 1, block - 1 ..., sink and sink + 1 bytes are the boundary sizes;
numbers that wrap at 3 wrap within the 4 blocks of the largest. Two slots and three
downloads force one slot to be used again while a handle is open on it. The list of `ls`
holds three names (`/disks` is one) so that it is full after two files. File names are symmetric
(`Interchangeable`) since no property orders them. In `network_boot` three tries are one more
than the network can waste: one on the OFFER for the other machine, one on trouble, which is
a stray frame, an early poll, a lost DISCOVER or a reservation given up. Two SNP sends
are a first and a second one. The second attempt finds the context, the unread frames and the
card as the first one left them.

Two native handles are one that writes and one that reads beside it; with lines of one byte, two bytes
make a line that fits, one that does not, and an empty one. Three numbers of options with two listed are one
that does not fit; any of them may be unreadable, so that keys and numbers differ. Entries of the memory map
overlap (the usable ones; see below), meet or leave gaps around the loader's end and the 4 GB line; images have their
segments in either order, longer in memory than in the file, without bytes, and beyond the file's
end. Three slots show a removal in front of, at and behind the loop's place. Patterns of
three elements hold a repetition, another that competes with it, and something after both that makes one give
back. A line of two characters fits a rewritten declaration and not one more; a history of two entries
wraps on the third chunk.

Deadlock is checked for Lua's coroutines, whose machine always has a next step, and for the boot flow, whose
menu is always there. The others may really stop: a loader whose bounds (frames, sends, downloads, resets) are
used up waits, a script that ended or a download that is over takes no step, and so do an image that was entered
and a shell that was left.

Environment bounds that are assumptions, not only bounds:

* `MaxUnread = 1` in `e1000_lockstep`: the network sends the next frame only when the last was
  read. TFTP and DHCP are lock-step protocols, but a network with other traffic is not:
  with 2 the counterexamples to `NoOverwrite`, `InOrder` and `NoReceiveStall` appear.
* `MaxInits = 1` there: a frame that is unread when `init` runs again is
  found later, out of order, and can leave RDT at RDH.
* `MaxGiveUps = 0` there: every send is completed. With an abandoned send `SentIntact` is false.
* `LoseAcks = FALSE` in `tftp`: without it see `tftp_lost_ack`.
* For `Terminates`, other hosts fall silent sooner or later. The receive loops start their wait anew for each frame that
  arrives, whoever sent it (`bios/src/net.rs:302-313`), so beside a dead server, traffic without end
  keeps a download waiting without end. Only SNP has a budget for the whole download, and there the property asks for
  no silence. `AttemptEnds` of the boot flow takes it as given that a transfer ends.

Conditions in the properties, each for something the code does not do:

* `ReturnedOnce` leaves out a frame written over an unread one (`NoOverwrite` shows that this happens): data and DD bit are
  two writes of the card, and the driver may come between them.
* `InUsableMemory` speaks of maps whose reserved entries are apart from the usable ones (`ReservedApart`);
  `KeepsOffReserved` is the same without that; with one usable entry over all memory and a reserved one inside it, it fails at the first placement.
* `OwnAddress` holds as long as the server keeps what it has reserved (no `Forget`).
* `InStep` leaves out programs with a function literal between a goto and its block's labels, and two labels
  of one name in one function. `LexicalScoping` leaves out a block that declares a name twice
  (below), and `{ x }`: the parser takes the bare name of a table constructor for a key first,
  and does not record it as captured.
* `SlotsAreTheMap` speaks of list functions applied to lists: on other tables they number the slots anew.
  `MeetsEachOnce` speaks of bodies that add nothing and remove at most one entry a round; a round that removes the
  current entry and an earlier one makes the loop miss an entry.
* `FindsTheMatch` asks the capturing matcher for the right match only where no group holds a quantified item,
  and for the right captures only where no quantified item precedes a group: groups are not tried a second time.
* `RoundTrip` asks that a `z` text holds no zero and that the prefix of an `s` text can say its length: `pack` checks neither.
* `FindsTheMatch` and `GsubKeepsTheRest` speak of matching that begins in the subject, its end included; past it, `GmatchMovesOn` says only that the iterator ends, and
  `GmatchStaysInside` that its one match is the empty one where it was begun. `string.match` takes its `init` likewise.
* `ReadsWhole` says what the calls of an iterator return. A loop over `io.lines` ends at the first empty line, for there the
  iterator's answer is the one of the end of the file.
* `LoadedAsLinked` asks that the segments keep clear of each other and of the file. They are copied in place, in file order.
* `LineOnScreen` asks that nothing is left behind the line only where the row has had prompts of one width (`uniform`);
  `NoTextLeftBehind` is that without the condition, and fails.
* `RecallIsWhole` leaves out an entry whose last line outgrew the line buffer when it was rewritten.

Fairness. The driver's instructions follow one another and its callers poll again
after a timeout (weak fairness of `DriverReceive`, `DriverSend`); the card transmits what it
owns (`CardTransmit`) and reports what it received (`CardWriteBack`). The client takes what arrives, and when nothing does its wait for one frame
is a count of polls (`Client`); over SNP the polls of the whole download share one budget (`SpendBudget`); a packet
that is not lost reaches the server, which answers it (`Server`); nothing makes the server
send again, nothing makes the network lose a packet or not. In the boot flow the polls
go on (`Poll`), each place of the flow is left (`Progress`), and the server answers a DISCOVER that
reached it (`Answer(Me)`); nothing makes the user choose or an image return. `Spec` without fairness
is what the safety properties and the proofs use.

### Disagreements between code and text

1. `e1000_overwrite`: "Each descriptor gets its own buffer so concurrent packets (e.g. the
   DHCP OFFER plus dnsmasq's ARP probes) can't overwrite each other"
   (`e1000.rs:202`). Frame 1 is read from descriptor 0
   and RDT = 0. Frames 2 and 3 arrive in 1 and 2. The driver's scan, already past 1 when frame 2
   came, finds descriptor 2 first and writes RDT = 2: the card now owns 0 and 1, and 1 is unread.
   Frame 4 goes to 0, and frame 5 overwrites frame 2.
2. `lua_resume_setup`: a resume "Returns `true` plus the results, or `false` plus the error
   value" (`vm.rs:1605`); the `?` at 1645, 1651, 1658, 1669 and 1673 returns between the swaps.
3. `lua_yield_call`: "`yield` works at any call depth" (`lib.rs:100`); under `__call` the coroutine is
   suspended with a frame of a run that is gone.
4. `tftp_lost_ack`: "Maximum retries per packet" (`tftp.rs:22`), which nothing uses; after a lost ACK the
   block that comes again is stored again and the download succeeds with another file.
5. `image_windows`: the fetch windows are "32 MB, well above the bootfile sink (2 MB)" (`bios/src/fetch.rs:18`),
   but the sink is at 2 MB only when the largest region starts below it; when memory has a hole and the largest
   region starts between 16 and 48 MB, the first `fetch` of a script overwrites the boot file.
6. `editor_stale`: "erasing always covers the old text" (`repl.rs:493`), and a test demands that "no stale character is left
   on screen" (`repl.rs:1849`); after `/ > abc` and Backspace the row is `> ab bc`. The test does not see it, since
   it looks for the erasing of the redraw's own five columns.

## 4. The proofs

Checked by TLAPS for all values of the constants that the modules' ASSUMEs allow; a theorem that needs
more names it.

| Theorem | Statement | Inductive invariant |
|---|---|---|
| `E1000Proofs!TypeCorrect` | `Spec => []TypeOK` | `TypeInv` |
| `ReceivesOnce` | `Spec => []ReturnedOnce` | `DupInv`: types; the frame being copied, those in descriptors with a DD bit and the one that is being written were not returned, and differ from each other, or were written over an unread one |
| `LockStepInOrder` | `MaxUnread = 1 /\ MaxInits = 1 /\ Spec => []InOrder` | `LockInv`: at most one DD bit is set, and the frame there is the last to arrive and the next to return; with none set, all were returned; between the copy and the tail write the frame held is that one |
| `LockStepNeverStalls` | `MaxUnread = 1 /\ MaxInits = 1 /\ Spec => []NoReceiveStall` | `OwnInv`: `LockInv`; RDH is behind the filled descriptor, or behind the one whose tail write is due, and else it is not RDT |
| `DriverImplementsRx` | `DriverSpec => Spec` | none: each step of the driver is a receive step or a stutter |
| `DriverReceivesOnce` | `DriverSpec => []ReturnedOnce` | by the last and `ReceivesOnce` |
| `ReportedMeansSent` | `DriverSpec => []ReportedSent` | `SendInv`: types; while a call runs, its slot is TDT (until the kick), the buffer and then the descriptor hold its frame, and a DD bit on the slot after the kick means that the frame is on the wire |
| `PatientSendsIntact` | `MaxGiveUps = 0 /\ DriverSpec => []SentIntact` | `PatientInv`: `SendInv`; the card owns nothing except between a kick and its DD bit, and then that one descriptor |
| `LuaCoroutinesProofs!TypeCorrect` | `Spec => []TypeOK` | `TypeInv`, with lemmas on `Cut` and `Append` |
| `StatusesAreTheResumes` | `Spec => []ResumeChain` | `ChainInv`: types, `ResumeChain`; no resume runs the main thread and each run on a coroutine's thread lies at or above a resume of it (`Underway`); a finished chunk leaves one run (`Ended`) |
| `FramesStayOwn`, `SuspendedAreWhole`, `RunsHaveRoots`, `ParkedStayPut` | `Spec => []OwnFrames`, `[]SuspendedWhole`, `[]RootPerRun`, `ParkedUntouched` | `FrameInv`, below |
| `NetworkBootProofs!DhcpOwnAddress` | `DhcpSpec => []OwnAddress` | `OfferInv`: each unread OFFER, and each lease taken from one, is backed by the server's reservation, or that was given up |
| `FlowIsDhcp` | `Spec => DhcpSpec` | none: each step of the flow is one of the exchange or a stutter |
| `FlowOwnAddress` | `Spec => []OwnAddress` | by the last two |
| `FlowRunsOnce`, `FlowFetchContext` | `Spec => []RunsOnce`, `Spec => []FetchContext` | `FlowInv`: a file is run only where none was; a machine waits only where its flow does; from init to the download the direct driver has the card; the shell's context is the last lease until the next one arrives |
| `TftpProofs!TypeCorrect` | `Spec => []TypeOK` | `Base`: types, what the two queues hold, one request, strays counted |
| `CompletesWithFile`, `WholeUntilLoss`, `FailsOnlyForCause` | `~LoseAcks /\ Spec => []CompleteIsFile`; `Spec => [](losses = 0 => CompleteIsFile)`; `Spec => []FailsForCause` | `DownloadInv`, below |
| `ImplementsTransfer` | `~LoseAcks /\ Spec => TransfersFile`, the refinement of `FileTransfer` | by `DownloadInv` |
| `FetchSlotsProofs!TypeCorrect` | `Spec => []TypeOK` | itself |
| `FilesStayIntact`, `HandlesReadTheirFile`, `NamesListedOnce` | `Spec => []FilesIntact`, `[]ReadsItsFile`, `[]ListedOnce` | `SlotInv`: a used slot's window is its own and holds the content it was taken for; the position of a handle whose file is still there is within it |
| `LoaderProofs!CardReceivesOnce`, `CardReportsSent` | `PartsSpec => []ReturnedOnce`, `[]ReportedSent` | `DupInv` and `SendInv` of `E1000Proofs`, see below |
| `NamesKeepTheirFiles`, `PiecesMakeTheWhole` | `PartsSpec => []FilesAsWritten`, `[]ReadsWhole` | `NativeInv`, below |
| `DownloadsLeaveNothing` | `PartsSpec => []LeavesNothing` | `HeldInv`: what is held is a function of the call that is next; a body that counts is in this download's buffer |
| `PickedIsBooted` | `PartsSpec => []BootsThePicked` | `OptionInv`: each row that is listed is what the variables hold under its number; from the choice on `path` is that row's, or its default |
| `PlacedInUsable` | `PartsSpec => []InUsableMemory` | `PlacedInv`: the file was put where the map says; a map that has room for it has a region with room |
| `SegmentsAsLinked` | `PartsSpec => []LoadedAsLinked` | `CopyInv`: `PlacedInv`; while segments are copied those done are in place, and the file and the loader are whole |
| `ShellProofs!TableIsItsMap` | `ShellSpec => []SlotsAreTheMap` | `TableInv`: the slots hold each key of the map once, with its value, and nothing else |
| `LoopMeetsEach` | `ShellSpec => []MeetsEachOnce` | `LoopAll`, below |
| `StringProofs!GmatchStaysInside`, `GmatchAlwaysMovesOn` | `ShellSpec => [](part = "pattern" => PatternInv)`, `ShellSpec => GmatchMovesOn` | `PatternInv`: the last match is one in the subject, or, for an iterator begun past its end, the empty one where it was begun, and then it is done |
| `MatchersFindTheMatch` | `ShellSpec => []FindsTheMatch` | `PatternInv`, and `SolvedIsRight`, below |
| `GsubReplacesMatches` | `ShellSpec => []GsubKeepsTheRest` | `PatternInv`, and `InPace`, below |
| `PackedIsUnpacked` | `ShellSpec => []RoundTrip` | `PackInv`, below |
| `ShellProofs!RowShowsLine`, `RecallsAreWhole` | `ShellSpec => []LineOnScreen`, `[]RecallIsWhole` | `EditInv`: places and entries within their buffers; the cursor stands at `base + pos` and the row has the line from `base` on; off the bottom of the history the draft is what was left there |

Why the strengthenings. A frame that was returned
and is still in a descriptor with its DD bit would be returned again: `DupInv` excludes it, but for the frames of `overrun`.
A return takes the innermost run away, and only when one is left does
its thread run: `ChainInv` says one is left.

`FrameInv` relates the Rust stack to the frame stacks. Every run of a thread has a *foot*, the frame
that ends it. While instructions execute, the frames of the running thread that end a run
are exactly the feet of its runs (`Exact`); a thread that waits for one it resumed stays so (`ParkedInv`);
a suspended one has its body's frame and no other (`WholeInv`). An error is the hard case: a run
that does not catch it returns and leaves its frames above the innermost foot. They can do no harm because no protected
frame lies above them (`Junk`), so whatever catches the error drops them too, and `FrameInv` says
so. The four properties follow. The four paths kept out of `Next` are just the steps that do not
preserve it.

`DownloadInv` says that client and server pass one token: the request, a block, its ACK, a question for the
address, its answer. Each place of the token determines what the sink holds and which block the server
has in hand, as a sum over whole blocks (`Prefix`, `Run`), for any block size and size of file. A lost token comes
again from the server, never from the client, and what comes again is what was lost -- unless it
is an ACK that was lost, where the argument stops and `tftp_lost_ack` begins.

`LockStepInOrder` and `LockStepNeverStalls` need one `init`: a second one puts RDH to 0 while a descriptor further on has its DD bit set,
and reading that one sets RDT where RDH may come to stand.

`NativeInv` says of each name that is followed (not `odd`): there is one file of it at most; if a handle writes it,
that handle is the only one and has the bytes that were meant, and else the file has them. `FilesAsWritten` alone is not
inductive: a handle that is closed puts back what it has. A handle that reads has got all before its cursor, whether by lines,
counts or the rest, as long as the lines fit the buffer.

The card of `LoaderParts` is the driver of `E1000Proofs`: `Driver == INSTANCE E1000Proofs` makes its lemmas
statements about these variables, `SameDriver` says that the steps are the same, and the two invariants carry over.

`SegmentsAsLinked` takes the segments in file order, as the code does: the next one is clear of those
before it and of the file that it is copied from (`Apart`), so it disturbs neither. A segment that would go onto the loader itself
ends what can be said (`Lost`). That the search for a region ends at one with room rests on `Least`: a set of
numbers has a least one.

`LoopAll` describes a `for in` loop by a place: the entries met are those up to it, the ones to come are behind it
(`Split`). In the body the current entry is in its slot (`Here`), or, when it or an earlier one was removed and the others
moved down, the next one is there and is met next, for the loop does not advance then (`Moved`). After a second removal in
the same round that slot may hold the entry after the next, and the next one is missed: hence the condition
of one a round.
`TableInv` must survive `table.sort`: the slots are what the code's insertion makes of them, the map any
arrangement of its values in order. Both hold each value as often as before and in order, and there is only one such
arrangement: were they different at a first place, one of them would have too few of the smaller values
(`OneToOne`, by the pigeonhole principle).

The assumptions on constants are the ASSUMEs of the modules, and TLC evaluates them on every run. Those of `LoaderParts`
and `ShellParts` say: sizes and bounds are numbers, rings have at least two descriptors (the code: 8); "no file" and "no name" are
not a file's bytes or a name; the loader ends below ARM64's fixed address, and each address where a boot file may be put
leaves room for it below the end of memory, as do segments (`PlaceAssumption`, `ImageAssumption`: the code checks neither,
it relies on machines and images being so); a name is no number, `nil` neither key nor value, and a value
is a number, which `table.sort` compares; `global` is one character longer than `local`; subjects are sequences of characters,
and a pattern is what `IsPattern` says: groups hold no groups, and an end anchor is last; a byte has two values at least,
integers have eight bytes, with a sign, and a format is what `IsFormat` says: its integers have 1 to 16 bytes.

The matchers are compared with all *readings* of the subject: how far it has come behind each element. Of two readings
that differ first behind some item, the one is preferred that takes more of it, or less for `-`. `CountsAre` says that
an item's tries are what it may take, in the order of preference. So, from the last element to the first, the first
try whose rest ends gives the preferred reading of all elements from there on (`RightStep`, `SolvedIsRight`), and none
ends only where there is no reading; the first offset that has an end is then the one that is meant (`FirstStart`).
A group of plain characters has one reading (`FixedIs`), and without a quantified item before a group what failed tries captured
is nothing (`CapsAre`). The bounds of a match hold for every pattern (`GmFindFrom`), hence `GmatchAlwaysMovesOn` too.
That the functions the matchers and loops fill exist at all, which a definition by CHOOSE leaves open, is
`StepsUp` and `StepsDown`, and the induction over their indices is a least counterexample (`Up`, `Down`).

`InPace` takes the rounds of `gsub` and those of `gmatch` together: as long as a replacement is left both come to the same match;
what is copied is what the matches so far leave of the subject up to the offset (`Left`), whatever comes behind
it is still to be copied, and the count is that of the matches. One round for each offset is enough (`WalkEnds`): each
match starts behind the one before it.

`PackInv` says that what is packed is the trace of the format (`Trace`): each option was taken at a place, with a byte
order, an alignment, a size and a number of values in front of it, and its field is in the bytes behind that place
(`Took`). What is packed later goes behind it (`TookStays`). Unpacking never leaves this trace as long as each value fits its
field, since an option reads at its place what it wrote there, no more and no less (`ReadsBack`); and packsize goes along it
too (`SizeIsPacked`). For integers that rests on `ValueIs`: the bytes that are written are the rests of divisions
by `Byte`, and putting the low eight together again gives the value modulo the power of its width -- also for the widths past
eight, where the code's shifts start from the low end again and meet zeros (in a release build).

Only model-checked: `InStep` and `LexicalScoping`, whose modules walk over programs with RECURSIVE operators; to
prove them is induction over the structure of programs; and the types of the boot flow. Out of the prover's
reach: liveness (`EventuallyReturned`, `Terminates`, `MeConfigured`, `AttemptEnds`).

## 5. What is not modelled

`PROJECT.json` lists each component with its status. Left out entirely:

* ARP, DNS and frame routing: a request with a bounded wait like those of `Dhcp`, and byte decoding.
* The scan of disks and PCI functions, consoles and printing, UEFI bindings, the ROM wrapper, the boot sector and
  mode switches, the native command line and build scripts: device input and output, layout, or the
  processor's rules.

Left out of what is modelled:

* Lua: tokens, expressions and operator precedence, metatables (but for the calls they make), numbers and their
  formatting, the arenas of strings and tables and their limits. `exit()` and `shell()` as results of a run (a
  metamethod takes the exit of a nested run for a result of nothing, `eval.rs:4182`). The budget of statements,
  which is counted for each thread, so that a script with many coroutines gets more (`lib.rs:1017`). A 65th
  global is dropped without an error (`lib.rs:1964`): `LuaScopes` has the step, no property calls it wrong.
* DHCP: the walk through the options (`dhcp.rs:210`). TFTP: an OACK may announce a block size of 0 (`tftp.rs:129`), with
  which no block is ever short; the server of `TftpDownload` does not.
* Fetched files: the sizes that `ls` prints; `io.close` records 0 for the file it closes. A name fetched
  twice keeps both files, and the older one is found; so does `FetchSlots`, and no property speaks of it. On UEFI
  the pool buffers of failed HTTP fetches are never freed: `HttpDownload` has them in `pool`.
* Loaders: format detection, Linux, multiboot and PE entries, and the memory of UEFI, which the firmware allocates.
* The boot flow: two cards on one pair of rings, two downloads in sequence on one port.

Six texts of the repository that the code does not bear out, and that no run shows. Three are met by a condition of
a property, without which TLC finds it false:

* the sink is "placed in an E820-usable region" (`bios/src/mem.rs:133`), but `choose_region` looks at the
  usable entries alone: where the map has a reserved entry inside one of them, the file may be put over it (`ReservedApart`);
* a variable is looked up in "the current function's locals, then the running closure's upvalues, then globals (lexical
  scoping)" (`lib.rs:1795`); after a second `local x` in one block the first one goes on being found, read and
  assigned (`OnceEach`);
* the matches of `gmatch` are those "of `pattern` in `s`, starting at `init`" (`eval.rs:1577`); for an `init` two
  or more past the last character, a pattern that matches nothing gives a match outside `s`, and taking its text
  (`eval.rs:722`) panics (`pos <= Len(subject)` in `MovesOn`).

The others: `README.md:254` promises DHCP's REQUEST and ACK (the model of `Dhcp` ends with the OFFER, as the code does); `README.md:262`
an automatic download, which three of the four UEFI ways to a card leave out; `README.md:272`
that scripts can call `fetch`, which a script that came over SNP cannot.
