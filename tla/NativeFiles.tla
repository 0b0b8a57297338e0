----------------------------- MODULE NativeFiles -----------------------------
(***************************************************************************)
(* The files of the native program (native/src/fetch.rs) and the io and os *)
(* libraries on them (lua/src/eval.rs).  A handle has a copy of its file's *)
(* bytes, which closing a handle for writing puts back.  Whether a call    *)
(* names its handle or means the default one makes no difference here; the *)
(* sizes that `ls' lists are left out.                                     *)
(*                                                                         *)
(* Beside the files runs what the script means them to be: `meant', the    *)
(* contents written under each name.  A script is followed until it does   *)
(* with a name what the files do not keep apart (the name is `odd'): two   *)
(* handles for writing at once, a file moved or fetched under an open one, *)
(* a handle closed twice, a fetch of a name that is taken, and "r+", which *)
(* empties the file.                                                       *)
(***************************************************************************)
EXTENDS Integers, Sequences, FiniteSets

CONSTANTS
    FileName,           \* names of files
    NoName,             \* the name of a temporary file
    Absent,
    Char, EndOfLine,    \* bytes; EndOfLine ends a line
    MAX_OPEN,           \* handles ever opened (255)
    STR_CAP,            \* bytes a read returns
    MaxData, MaxFetched \* bounds: bytes of a file, downloads

VARIABLES
    files,          \* FILES
    handles,        \* OPEN_FILES: closed handles stay in it
    downloads,
    meant, odd

vars == <<files, handles, downloads, meant, odd>>

Byte == Char \cup {EndOfLine}
At(fl, name) == {i \in DOMAIN fl : fl[i].name = name}
FirstOf(S) == CHOOSE i \in S : \A j \in S : i <= j
Find(fl, name) == IF At(fl, name) = {} THEN Absent ELSE fl[FirstOf(At(fl, name))].data
Or(data, other) == IF data = Absent THEN other ELSE data

\* An entry gets new bytes, or is added.
Put(fl, name, data) ==
    IF At(fl, name) = {} THEN Append(fl, [name |-> name, data |-> data])
    ELSE [fl EXCEPT ![FirstOf(At(fl, name))].data = data]

\* Handles that will put their bytes under the name.
Writers(name) == {h \in DOMAIN handles : handles[h].name = name /\ handles[h].writable /\ ~handles[h].closed}

\* init_embedded: one file may be there from the start.
Init ==
    /\ \E name \in FileName, data \in {Absent, <<EndOfLine>>} :
        /\ files = IF data = Absent THEN <<>> ELSE <<[name |-> name, data |-> data]>>
        /\ meant = [n \in FileName |-> IF n = name THEN data ELSE Absent]
    /\ handles = <<>> /\ downloads = 0 /\ odd = {}

-----------------------------------------------------------------------------
(***************************************************************************)
(* io_open.  A handle for reading needs the file; one for appending starts *)
(* with its bytes, any other with none.  A name written to is registered,  *)
(* also when there is no handle left.                                      *)
(***************************************************************************)
Mode == {"r", "w", "a", "r+"}
Writes(mode) == mode # "r"
Opened(name, mode) ==
    [name |-> name, data |-> IF mode \in {"r", "a"} THEN Or(Find(files, name), <<>>) ELSE <<>>,
     pos |-> 0, closed |-> FALSE, writable |-> Writes(mode), got |-> <<>>]
CanOpen(name, mode) == Writes(mode) \/ Find(files, name) # Absent

\* What opening does to the names, and whether there is a handle.
IoOpen(name, mode) ==
    /\ CanOpen(name, mode)
    /\ files' = IF Writes(mode) /\ name # NoName /\ At(files, name) = {}
                THEN Put(files, name, Opened(name, mode).data) ELSE files
    /\ handles' = IF Len(handles) < MAX_OPEN THEN Append(handles, Opened(name, mode)) ELSE handles
    /\ meant' = IF Writes(mode) /\ name # NoName
                THEN [meant EXCEPT ![name] = IF mode = "a" \/ Len(handles) >= MAX_OPEN THEN Or(@, <<>>) ELSE <<>>]
                ELSE meant
    /\ odd' = IF name # NoName /\ (mode = "r+" \/ (Writes(mode) /\ Writers(name) # {}))
              THEN odd \cup {name} ELSE odd

\* io.open; io.output with a name; io.input and io.lines with one; io.tmpfile.
Open ==
    /\ \/ \E name \in FileName, mode \in Mode : IoOpen(name, mode)
       \/ IoOpen(NoName, "w")
    /\ UNCHANGED downloads

\* Mutant: the handle's bytes stay in the handle.
PutBack_Never(h) == files

\* A handle for writing puts its bytes back, also when it is closed again.
PutBack(h) == IF handles[h].writable /\ handles[h].name # NoName
              THEN Put(files, handles[h].name, handles[h].data) ELSE files

\* io.close of a handle or of the default output.
Close ==
    /\ \E h \in DOMAIN handles :
        /\ files' = PutBack(h)
        /\ handles' = [handles EXCEPT ![h].closed = TRUE]
        /\ odd' = IF handles[h].closed /\ handles[h].writable THEN odd \cup {handles[h].name} ELSE odd
    /\ UNCHANGED <<downloads, meant>>

\* io.write, file:write: at the end, wherever the handle reads.
Write ==
    /\ \E h \in DOMAIN handles, c \in Byte :
        /\ handles[h].writable /\ ~handles[h].closed /\ Len(handles[h].data) < MaxData
        /\ handles' = [handles EXCEPT ![h].data = Append(@, c)]
        /\ meant' = IF handles[h].name = NoName THEN meant
                    ELSE [meant EXCEPT ![handles[h].name] = Append(Or(@, <<>>), c)]
    /\ UNCHANGED <<files, downloads, odd>>

-----------------------------------------------------------------------------
Rest(f) == SubSeq(f.data, f.pos + 1, Len(f.data))
Part(bytes, n) == SubSeq(bytes, 1, IF n < Len(bytes) THEN n ELSE Len(bytes))
Line(f) == LET ends == {k \in DOMAIN Rest(f) : Rest(f)[k] = EndOfLine} IN
           IF ends = {} THEN Rest(f) ELSE SubSeq(Rest(f), 1, FirstOf(ends) - 1)

\* Mutant: the end of the line is left for the next read.
LineEnd_Left(f) == f.pos + Len(Line(f))

\* A line's end is skipped, and with it what the buffer did not hold.
LineEnd(f) == LET end == f.pos + Len(Line(f)) IN IF end < Len(f.data) THEN end + 1 ELSE end

\* io.read, file:read, an io.lines iterator: the rest, a number of bytes, or a line.
\* `got' keeps what was read: a line is followed by its end, except for the last
\* one of a file without one.  (A loop over io.lines takes an empty line for the end
\* of the file; what comes behind it is then not read.)
Took(f, bytes, to) ==
    [f EXCEPT !.pos = to,
              !.got = @ \o bytes \o IF f.pos + Len(Line(f)) < Len(f.data) THEN <<EndOfLine>> ELSE <<>>]
Read ==
    /\ \E h \in DOMAIN handles :
        LET f == handles[h] IN
        /\ ~f.closed /\ f.pos < Len(f.data)
        /\ \/ \E n \in 1 .. STR_CAP :
                LET bytes == Part(Rest(f), n) IN
                handles' = [handles EXCEPT ![h].pos = @ + Len(bytes), ![h].got = @ \o bytes]
           \/ handles' = [handles EXCEPT ![h] = Took(f, Part(Line(f), STR_CAP), LineEnd(f))]
    /\ UNCHANGED <<files, downloads, meant, odd>>

\* file:seek: a place in the bytes, from where the script reads on.
Seek ==
    /\ \E h \in DOMAIN handles : \E p \in 0 .. Len(handles[h].data) :
        /\ ~handles[h].closed
        /\ handles' = [handles EXCEPT ![h].pos = p, ![h].got = SubSeq(handles[h].data, 1, p)]
    /\ UNCHANGED <<files, downloads, meant, odd>>

-----------------------------------------------------------------------------
\* fetch: a download that works adds an entry, also under a name there is.
Fetch ==
    /\ downloads < MaxFetched /\ downloads' = downloads + 1
    /\ \E save \in FileName, data \in {<<>>, <<EndOfLine>>} :
        /\ files' = Append(files, [name |-> save, data |-> data])
        /\ odd' = IF At(files, save) # {} \/ Writers(save) # {} THEN odd \cup {save} ELSE odd
        /\ meant' = [meant EXCEPT ![save] = data]
    /\ UNCHANGED handles

Without(name) == LET i == FirstOf(At(files, name)) IN
                 SubSeq(files, 1, i - 1) \o SubSeq(files, i + 1, Len(files))

\* os.remove
Remove ==
    /\ \E name \in FileName :
        /\ At(files, name) # {}
        /\ files' = Without(name)
        /\ meant' = [meant EXCEPT ![name] = Absent]
        /\ odd' = IF Writers(name) # {} THEN odd \cup {name} ELSE odd
    /\ UNCHANGED <<handles, downloads>>

\* os.rename: the bytes of a file there was under the new name are replaced.
Rename ==
    /\ \E old, new \in FileName :
        /\ At(files, old) # {}
        /\ files' = Put(Without(old), new, Find(files, old))
        /\ meant' = [meant EXCEPT ![old] = IF old = new THEN @ ELSE Absent, ![new] = meant[old]]
        /\ odd' = IF Writers(old) \cup Writers(new) # {}
                  THEN odd \cup {old, new} ELSE odd
    /\ UNCHANGED <<handles, downloads>>

\* set_context, by `dhcp': all the files are gone; what is open stays open.
SetContext ==
    /\ files # <<>> /\ files' = <<>>
    /\ meant' = [n \in FileName |-> Absent]
    /\ odd' = odd \cup {n \in FileName : Writers(n) # {}}
    /\ UNCHANGED <<handles, downloads>>

Next == /\ odd = {}
        /\ Open \/ Close \/ Write \/ Read \/ Seek \/ Fetch \/ Remove \/ Rename \/ SetContext

Spec == Init /\ [][Next]_vars

-----------------------------------------------------------------------------
(***************************************************************************)
(* Under every name is what the script last wrote, fetched or moved there, *)
(* once the handle it was written with is closed; until then a file that   *)
(* was there is as it was.  (io_open, io_close, os_rename and fetch_file   *)
(* of native/src/fetch.rs.)                                                *)
(***************************************************************************)
FilesAsWritten ==
    \A name \in FileName \ odd :
        Writers(name) = {} => Find(files, name) = meant[name]

(***************************************************************************)
(* A script that reads a handle to its end, in whatever pieces, has seen   *)
(* its bytes, the ends of the lines included -- for lines that fit the     *)
(* buffer: the rest of a longer one is skipped.  (io_read, LINE of         *)
(* io.lines.)                                                              *)
(***************************************************************************)
LinesFit(data) == \A i \in DOMAIN data : i + STR_CAP > Len(data) \/ \E k \in 0 .. STR_CAP : data[i + k] = EndOfLine
ReadsWhole ==
    \A h \in DOMAIN handles : LinesFit(handles[h].data) =>
        handles[h].got = SubSeq(handles[h].data, 1, handles[h].pos)
=============================================================================
