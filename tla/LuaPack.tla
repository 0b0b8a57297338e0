-------------------------------- MODULE LuaPack --------------------------------
(***************************************************************************)
(* string.pack, string.unpack and string.packsize (lua/src/eval.rs), which *)
(* walk through a format each on their own: a format is packed, option by  *)
(* option, and the result is unpacked with the same format.                *)
(*                                                                         *)
(* An option is [k, n, signed].  "int" stands for b B h H i I l L j J T    *)
(* (n bytes), "num" for f d n, a value that is its own n bytes; "X" aligns *)
(* for an option of n bytes; "!" sets the maximal alignment; c, z and s    *)
(* are the strings.  A byte has Byte values, so that the 8 bytes of an     *)
(* integer stay in reach.                                                  *)
(***************************************************************************)
EXTENDS Integers, Sequences

CONSTANTS
    Formats,            \* the formats, sequences of options
    Ints, Strings, FloatByte,  \* values to pack
    Byte,               \* values of a byte, a power of 2
    OUT_CAP             \* bytes of the result

VARIABLES
    fmt, phase, i,      \* the format, "pack" or "unpack" or how it ended, the next option
    little, align_max,
    packed, pos,        \* the bytes, the place in them
    vals, got           \* values packed and unpacked

vars == <<fmt, phase, i, little, align_max, packed, pos, vals, got>>

WORD == 8
Opt == fmt[i]
Smaller(a, b) == IF a < b THEN a ELSE b

\* What a format is made of.
Option == [k : {"<", ">", "!", "x", "X", "int", "num", "c", "z", "s"}, n : Nat, signed : BOOLEAN]
IsFormat(f) == f \in Seq(Option) /\ \A j \in DOMAIN f : f[j].k \in {"int", "num", "s"} => f[j].n \in 1 .. 2 * WORD

-----------------------------------------------------------------------------
\* The bits two numbers share.
And(x, m) ==
    LET and[k \in 0 .. m] == [a \in 0 .. x |->
            IF k = 0 THEN 0
            ELSE 2 * and[k \div 2][a \div 2] + (IF a % 2 = 1 /\ k % 2 = 1 THEN 1 ELSE 0)]
    IN and[m][x]
Or(x, y) == x + y - And(x, y)

Power[n \in 0 .. WORD] == IF n = 0 THEN 1 ELSE Byte * Power[n - 1]

\* align_pos: the mask is of use for powers of two only.
AlignPos(p, size, max) ==
    LET a == Smaller(size, max) IN
    IF a <= 1 \/ And(p, a - 1) = 0 THEN p ELSE (p + a - 1) - And(p + a - 1, a - 1)

InOrder(bytes, le) == IF le THEN bytes ELSE [k \in DOMAIN bytes |-> bytes[Len(bytes) + 1 - k]]

\* write_int: n times the low byte of what is left of the 64-bit value.
WriteInt(v, n, le) ==
    LET rest[k \in 0 .. n] == IF k = 0 THEN v % Power[WORD] ELSE rest[k - 1] \div Byte
    IN InOrder([k \in 1 .. n |-> rest[k - 1] % Byte], le)

\* A shift past the word starts from its low end again, as in a release build;
\* one with overflow checks panics.
Digit(bytes, k) ==
    IF k > Len(bytes) THEN 0
    ELSE IF k + WORD > Len(bytes) THEN bytes[k] ELSE Or(bytes[k], bytes[k + WORD])
Word(bytes) ==
    LET high[k \in 0 .. WORD] == IF k = 0 THEN 0 ELSE Byte * high[k - 1] + Digit(bytes, WORD + 1 - k)
    IN high[WORD]

Signed(v) == IF 2 * v >= Power[WORD] THEN v - Power[WORD] ELSE v

\* Mutant: the sign of a short integer is lost.
ReadInt_NoSign(bytes, signed) == Signed(Word(bytes))

ReadInt(bytes, signed) ==
    LET n == Len(bytes)
        v == Word(bytes)
    IN  IF signed /\ n < WORD /\ 2 * v >= Power[n] THEN v - Power[n] ELSE Signed(v)

-----------------------------------------------------------------------------
Init ==
    /\ fmt \in Formats /\ phase = "pack" /\ i = 1
    /\ little = TRUE /\ align_max = 1
    /\ packed = <<>> /\ pos = 0 /\ vals = <<>> /\ got = <<>>

More(p) == phase = p /\ i <= Len(fmt)
IsSetting(o) == o.k \in {"<", ">", "!"}
Ends(how) == phase' = how /\ UNCHANGED <<fmt, i, little, align_max, packed, pos, vals, got>>

\* Byte order and alignment, in packing and unpacking.
Order(o, le) == IF o.k = "!" THEN le ELSE o.k = "<"
MaxAlign(o, max) == IF o.k # "!" THEN max ELSE IF o.n > 0 THEN o.n ELSE 16

Setting ==
    /\ i <= Len(fmt) /\ phase \in {"pack", "unpack"} /\ IsSetting(Opt)
    /\ little' = Order(Opt, little)
    /\ align_max' = MaxAlign(Opt, align_max)
    /\ i' = i + 1
    /\ UNCHANGED <<fmt, phase, packed, pos, vals, got>>

\* The result is zero where nothing was written.
Zeros(n) == [k \in 1 .. n |-> 0]
Padded(p) == packed \o Zeros(p - Len(packed))

\* What an option adds for a value, behind the padding; aligned ones by their size.
Field(o, v, le) ==
    CASE o.k = "x" -> Zeros(1)
      [] o.k = "X" -> <<>>
      [] o.k = "int" -> WriteInt(v, o.n, le)
      [] o.k = "num" -> InOrder(v, le)
      [] o.k = "c" -> SubSeq(v, 1, Smaller(Len(v), o.n)) \o Zeros(o.n - Smaller(Len(v), o.n))
      [] o.k = "z" -> v \o Zeros(1)
      [] o.k = "s" -> WriteInt(Len(v), o.n, le) \o v
Start(o, p, max) == IF o.k \in {"int", "num", "s", "X"} THEN AlignPos(p, o.n, max) ELSE p

TakesValue(o) == o.k \in {"int", "num", "c", "z", "s"}
ValuesFor(o) == CASE o.k = "int" -> Ints
                  [] o.k = "num" -> [1 .. o.n -> FloatByte]
                  [] OTHER -> Strings

\* The padding of X is not checked: the next option is too long, or the program
\* panics on the result (eval.rs:2375).
Add(field) ==
    LET p == Start(Opt, Len(packed), align_max) IN
    IF Opt.k # "X" /\ p + Len(field) > OUT_CAP THEN Ends("too long")
    ELSE packed' = Padded(p) \o field /\ i' = i + 1 /\ UNCHANGED <<fmt, phase, little, align_max, pos, got>>

PackField ==
    /\ More("pack") /\ ~IsSetting(Opt)
    /\ \/ ~TakesValue(Opt) /\ Add(Field(Opt, 0, little)) /\ vals' = vals
       \/ TakesValue(Opt) /\ \E v \in ValuesFor(Opt) :
            Add(Field(Opt, v, little)) /\ vals' = IF phase' = "pack" THEN Append(vals, v) ELSE vals

PackDone ==
    /\ phase = "pack" /\ i > Len(fmt)
    /\ IF Len(packed) > OUT_CAP THEN Ends("panic")
       ELSE /\ phase' = "unpack" /\ i' = 1 /\ little' = TRUE /\ align_max' = 1
            /\ UNCHANGED <<fmt, packed, pos, vals, got>>

-----------------------------------------------------------------------------
Bytes(from, n) == SubSeq(packed, from + 1, from + n)

\* The text of a z string at p, up to the zero or the end.
ZText(p) == LET rest == SubSeq(packed, p + 1, Len(packed)) IN
            SubSeq(rest, 1, CHOOSE n \in 0 .. Len(rest) :
                /\ \A k \in 1 .. n : rest[k] # 0
                /\ n < Len(rest) => rest[n + 1] = 0)

\* The length in front of an s string.
Prefix(o, p, le) == Word(InOrder(Bytes(p, o.n), le))

\* The bytes an option reads at p: too many for the packed string is an error.
Extent(o, p, le) ==
    CASE o.k \in {"int", "num", "c"} -> o.n
      [] o.k = "x" -> 1
      [] o.k = "X" -> 0
      [] o.k = "z" -> Smaller(Len(ZText(p)) + 1, Len(packed) - p)
      [] o.k = "s" -> o.n + IF p + o.n > Len(packed) THEN 0 ELSE Prefix(o, p, le)

Unpacked(o, p, le) ==
    CASE o.k = "int" -> ReadInt(InOrder(Bytes(p, o.n), le), o.signed)
      [] o.k = "num" -> InOrder(Bytes(p, o.n), le)
      [] o.k = "c" -> Bytes(p, o.n)
      [] o.k = "z" -> ZText(p)
      [] o.k = "s" -> Bytes(p + o.n, Prefix(o, p, le))

UnpackField ==
    /\ More("unpack") /\ ~IsSetting(Opt)
    /\ LET p == Start(Opt, pos, align_max)
           e == Extent(Opt, p, little)
       IN
       IF p + e > Len(packed) THEN Ends("out of string")
       ELSE /\ pos' = p + e /\ i' = i + 1
            /\ got' = IF TakesValue(Opt) THEN Append(got, Unpacked(Opt, p, little)) ELSE got
            /\ UNCHANGED <<fmt, phase, little, align_max, packed, vals>>

UnpackDone == phase = "unpack" /\ i > Len(fmt) /\ Ends("done")

Next == Setting \/ PackField \/ PackDone \/ UnpackField \/ UnpackDone

Spec == Init /\ [][Next]_vars

-----------------------------------------------------------------------------
\* string.packsize, which has a loop of its own; strings of no fixed size are an error.
Fixed == \A j \in DOMAIN fmt : fmt[j].k \notin {"z", "s"}
Sized(at, o) ==
    CASE o.k = "!" -> [at EXCEPT !.align = MaxAlign(o, @)]
      [] o.k = "X" -> [at EXCEPT !.size = AlignPos(@, o.n, at.align)]
      [] o.k \in {"int", "num"} -> [at EXCEPT !.size = AlignPos(@, o.n, at.align) + o.n]
      [] o.k = "c" -> [at EXCEPT !.size = @ + o.n]
      [] o.k = "x" -> [at EXCEPT !.size = @ + 1]
      [] OTHER -> at
PackSize ==
    LET at[j \in 0 .. Len(fmt)] == IF j = 0 THEN [size |-> 0, align |-> 1] ELSE Sized(at[j - 1], fmt[j])
    IN at[Len(fmt)].size

\* The options that take a value, and what a value becomes in its field.
Fields ==
    LET of[j \in 0 .. Len(fmt)] ==
            IF j = 0 THEN <<>> ELSE IF TakesValue(fmt[j]) THEN Append(of[j - 1], fmt[j]) ELSE of[j - 1]
    IN of[Len(fmt)]
Kept(o, v) ==
    CASE o.k = "int" /\ o.n < WORD ->
            LET low == v % Power[o.n] IN IF o.signed /\ 2 * low >= Power[o.n] THEN low - Power[o.n] ELSE low
      [] o.k = "c" -> [k \in 1 .. o.n |-> IF k <= Len(v) THEN v[k] ELSE 0]
      [] OTHER -> v

\* A text of z has no zero in it, and the prefix of s can say the length.
Fits(o, v) ==
    /\ o.k = "z" => \A k \in DOMAIN v : v[k] # 0
    /\ o.k = "s" => Len(v) < Power[Smaller(o.n, WORD)]

(***************************************************************************)
(* What was packed is unpacked: with the same format unpack finds every    *)
(* field where pack put it, whatever the padding, the alignment and the    *)
(* byte order, gives the values back -- integers cut to their width -- and *)
(* ends at the end; and packsize is the size.  For texts a z or s field    *)
(* can hold: the others are packed all the same, and the fields behind     *)
(* them are lost.  (eval.rs string.pack, string.unpack, string.packsize.)  *)
(***************************************************************************)
RoundTrip ==
    (\A j \in DOMAIN vals : Fits(Fields[j], vals[j])) =>
        /\ phase # "out of string"
        /\ phase = "done" => /\ got = [j \in DOMAIN vals |-> Kept(Fields[j], vals[j])]
                             /\ pos = Len(packed)
                             /\ Fixed => PackSize = Len(packed)
=============================================================================
