----------------------------- MODULE TftpProofs -----------------------------
(***************************************************************************)
(* Theorems about TftpDownload, for files of any size, any block size and  *)
(* any number of losses, strays and repeated blocks: a download that       *)
(* succeeds holds the file as long as no ACK is lost, and one that fails   *)
(* has a cause.                                                            *)
(*                                                                         *)
(* The argument: the client and the server pass one token to each other,   *)
(* the request, a block, its ACK, an ARP question or its answer, and what  *)
(* the sink holds is known from where the token is (Phase).  A token that  *)
(* is lost comes again from the server, never from the client.             *)
(***************************************************************************)
EXTENDS TftpDownload, SequenceTheorems, TLAPS

-----------------------------------------------------------------------------
(***************************************************************************)
(* Blocks.  Block n of a file f cut into blocks of b bytes, what n blocks  *)
(* of it make, and the number of its last block.                           *)
(***************************************************************************)
Run(f, b, n) == SubSeq(f, (n - 1) * b + 1, LeastOf(n * b, Len(f)))
Piece(f, b, n) ==
    IF n = 0 THEN Packet("oack", 0, <<>>) ELSE Packet("data", n % BlockNumbers, Run(f, b, n))
Prefix(f, b, n) == SubSeq(f, 1, LeastOf(n * b, Len(f)))
Last(f, b) == Len(f) \div b + 1

LEMMA ProductMonotone ==
    ASSUME NEW b \in Nat, NEW m \in Nat, NEW n \in Nat, m <= n
    PROVE  m * b <= n * b
<1>1. (n - m) * b >= 0
  OBVIOUS
<1>2. (n - m) * b = n * b - m * b
  OBVIOUS
<1> QED  BY <1>1, <1>2

LEMMA Edges ==
    ASSUME NEW b \in Nat \ {0}, NEW size \in Nat, NEW n \in 1 .. size \div b + 1
    PROVE  /\ (n - 1) * b \in Nat /\ n * b = (n - 1) * b + b
           /\ (n - 1) * b <= size
           /\ n * b <= size <=> n < size \div b + 1
<1> DEFINE q == size \div b
<1>1. q \in Nat /\ q * b <= size /\ size < q * b + b
  OBVIOUS
<1>2. n - 1 \in Nat /\ n \in Nat /\ n - 1 <= q
  BY <1>1
<1>3. (n - 1) * b <= q * b
  BY <1>1, <1>2, ProductMonotone
<1>4. (n - 1) * b \in Nat /\ n * b = (n - 1) * b + b
  BY <1>2
<1>5. CASE n <= q
  <2>1. n * b <= q * b
    BY <1>1, <1>2, <1>5, ProductMonotone
  <2> QED  BY <1>1, <1>2, <1>3, <1>4, <1>5, <2>1
<1>6. CASE n = q + 1
  <2>1. (n - 1) * b = q * b
    BY <1>1, <1>6
  <2> QED  BY <1>1, <1>2, <1>3, <1>4, <1>6, <2>1
<1> QED  BY <1>1, <1>2, <1>5, <1>6

(* The blocks before one, and that one: what it adds, and when it is short. *)
LEMMA RunFollows ==
    ASSUME NEW f \in Seq(Nat), NEW b \in Nat \ {0}, NEW n \in 1 .. Last(f, b)
    PROVE  /\ Run(f, b, n) \in Seq(Nat)
           /\ Prefix(f, b, n - 1) \o Run(f, b, n) = Prefix(f, b, n)
           /\ Len(Run(f, b, n)) <= b
           /\ Len(Run(f, b, n)) < b <=> n = Last(f, b)
           /\ Len(Prefix(f, b, n - 1)) + Len(Run(f, b, n)) <= Len(f)
<1> DEFINE from == (n - 1) * b
           top == n * b
           upTo == LeastOf(top, Len(f))
<1>1. Len(f) \in Nat
  OBVIOUS
<1>2. /\ from \in Nat /\ top = from + b
      /\ from <= Len(f)
      /\ top <= Len(f) <=> n < Last(f, b)
  BY <1>1, Edges DEF Last
<1>3. upTo \in from .. Len(f) /\ upTo - from <= b /\ (upTo - from < b <=> n = Last(f, b))
  <2>1. n \in Nat /\ Last(f, b) \in Nat /\ n <= Last(f, b)
    BY <1>1 DEF Last
  <2> HIDE DEF from, top
  <2> QED  BY <1>1, <1>2, <2>1 DEF LeastOf
<1>4. LeastOf((n - 1) * b, Len(f)) = from
  BY <1>1, <1>2 DEF LeastOf
<1> HIDE DEF from, top, upTo
<1>5. /\ Run(f, b, n) = SubSeq(f, from + 1, upTo)
      /\ Prefix(f, b, n - 1) = SubSeq(f, 1, from)
      /\ Prefix(f, b, n) = SubSeq(f, 1, upTo)
  BY <1>4 DEF Run, Prefix, from, top, upTo
<1>6. SubSeq(f, 1, from) \o SubSeq(f, from + 1, upTo) = SubSeq(f, 1, upTo)
  BY <1>1, <1>2, <1>3, ConcatAdjacentSubSeq
<1>7. SubSeq(f, from + 1, upTo) \in Seq(Nat) /\ Len(SubSeq(f, from + 1, upTo)) = upTo - from
  <2>1. from + 1 \in 1 .. Len(f) + 1 /\ upTo \in (from + 1) - 1 .. Len(f) /\ upTo \in Nat
    BY <1>1, <1>2, <1>3
  <2> QED  BY <1>1, <1>2, <2>1, SubSeqProperties
<1>8. Len(SubSeq(f, 1, from)) = from
  BY <1>1, <1>2, <1>3, SubSeqProperties
<1>9. upTo \in Nat /\ Last(f, b) \in Nat /\ n \in Nat
  BY <1>1, <1>2, <1>3 DEF Last
<1>10. Len(Run(f, b, n)) = upTo - from /\ Len(Prefix(f, b, n - 1)) = from
  BY <1>5, <1>7, <1>8
<1>11. Run(f, b, n) \in Seq(Nat) /\ Prefix(f, b, n - 1) \o Run(f, b, n) = Prefix(f, b, n)
  BY <1>5, <1>6, <1>7
<1>12. from + (upTo - from) <= Len(f)
  BY <1>1, <1>2, <1>3, <1>9
<1> QED  BY <1>3, <1>10, <1>11, <1>12

(* No block makes nothing, and all blocks make the file. *)
LEMMA PrefixEnds ==
    ASSUME NEW f \in Seq(Nat), NEW b \in Nat \ {0}
    PROVE  Prefix(f, b, 0) = <<>> /\ Prefix(f, b, Last(f, b)) = f /\ Last(f, b) \in Nat \ {0}
<1>1. Len(f) \in Nat /\ Last(f, b) \in 1 .. Len(f) \div b + 1 /\ Last(f, b) \in Nat \ {0}
  BY DEF Last
<1>2. LeastOf(0 * b, Len(f)) = 0
  BY <1>1 DEF LeastOf
<1>3. LeastOf(Last(f, b) * b, Len(f)) = Len(f)
  <2>1. ~(Last(f, b) * b <= Len(f)) /\ Last(f, b) * b \in Nat
    BY <1>1, Edges DEF Last
  <2> QED  BY <1>1, <2>1, SMTT(30) DEF LeastOf
<1> QED  BY <1>1, <1>2, <1>3, SubSeqEmpty, SubSeqFull DEF Prefix

-----------------------------------------------------------------------------
(***************************************************************************)
(* What is in flight.  Frames of others aside, a direction holds nothing   *)
(* (Quiet), or one packet of a set (Lone).                                 *)
(***************************************************************************)
Packets == [kind : {"data", "oack", "error", "udp", "arp_me", "arp_other"},
            block : Nat, data : Seq(Nat)]
Replies == [kind : {"rrq", "ack", "arp"}, block : Nat, to : {"none", "tid", "other"}]

Aside(m) == m.kind \in {"arp_other", "udp"}
Quiet(q) == \A i \in 1 .. Len(q) : Aside(q[i])
Lone(q, m) ==
    /\ \A i \in 1 .. Len(q) : ~Aside(q[i]) => q[i] = m
    /\ \A i, j \in 1 .. Len(q) : ~Aside(q[i]) /\ ~Aside(q[j]) => i = j

(* A packet that is received or lost. *)
LEMMA TailOf ==
    ASSUME NEW T, NEW q \in Seq(T), q # <<>>
    PROVE  /\ Head(q) \in T /\ Tail(q) \in Seq(T)
           /\ Quiet(q) <=> Aside(Head(q)) /\ Quiet(Tail(q))
           /\ \A m : Lone(q, m) => Lone(Tail(q), m)
           /\ \A m : Lone(q, m) /\ ~Aside(Head(q)) => Head(q) = m /\ Quiet(Tail(q))
<1>1. /\ Len(q) \in Nat \ {0} /\ Len(Tail(q)) = Len(q) - 1
      /\ Head(q) = q[1] /\ Head(q) \in T /\ Tail(q) \in Seq(T)
      /\ \A i \in 1 .. Len(Tail(q)) : Tail(q)[i] = q[i + 1]
  BY HeadTailProperties
<1>2. \A i \in 1 .. Len(Tail(q)) : i + 1 \in 1 .. Len(q) /\ i + 1 # 1 /\ 1 \in 1 .. Len(q)
  BY <1>1
<1>3. 1 \in 1 .. Len(q)
  BY <1>1
<1>4. Quiet(q) <=> Aside(Head(q)) /\ Quiet(Tail(q))
  <2>1. Quiet(q) => Aside(Head(q)) /\ Quiet(Tail(q))
    BY <1>1, <1>2, <1>3 DEF Quiet
  <2>2. ASSUME Aside(Head(q)), Quiet(Tail(q))
        PROVE  Quiet(q)
    <3>1. \A i \in 1 .. Len(q) : i = 1 \/ (i - 1 \in 1 .. Len(Tail(q)) /\ (i - 1) + 1 = i)
      BY <1>1
    <3> QED  BY <1>1, <2>2, <3>1 DEF Quiet
  <2> QED  BY <2>1, <2>2
<1>5. ASSUME NEW m, Lone(q, m)
      PROVE  /\ Lone(Tail(q), m)
             /\ ~Aside(Head(q)) => Head(q) = m /\ Quiet(Tail(q))
  <2>1. \A i \in 1 .. Len(Tail(q)) : ~Aside(Tail(q)[i]) => Tail(q)[i] = m
    BY <1>1, <1>2, <1>5 DEF Lone
  <2>2. ASSUME NEW i \in 1 .. Len(Tail(q)), NEW j \in 1 .. Len(Tail(q)),
               ~Aside(Tail(q)[i]), ~Aside(Tail(q)[j])
        PROVE  i = j
    <3>1. i + 1 = j + 1
      BY <1>1, <1>2, <1>5, <2>2 DEF Lone
    <3> QED  BY <3>1
  <2>3. ~Aside(Head(q)) => Head(q) = m /\ Quiet(Tail(q))
    BY <1>1, <1>2, <1>3, <1>5 DEF Lone, Quiet
  <2> QED  BY <2>1, <2>2, <2>3 DEF Lone
<1> QED  BY <1>1, <1>4, <1>5

(* A packet that is sent. *)
LEMMA AppendTo ==
    ASSUME NEW T, NEW q \in Seq(T), NEW m \in T
    PROVE  /\ Append(q, m) \in Seq(T) /\ Append(q, m) # <<>>
           /\ Quiet(q) /\ Aside(m) => Quiet(Append(q, m))
           /\ \A k : Lone(q, k) /\ Aside(m) => Lone(Append(q, m), k)
           /\ Quiet(q) => Lone(Append(q, m), m)
           /\ ~Aside(m) => ~Quiet(Append(q, m))
<1>1. /\ Append(q, m) \in Seq(T) /\ Append(q, m) # <<>>
      /\ Len(q) \in Nat /\ Len(Append(q, m)) = Len(q) + 1
      /\ \A i \in 1 .. Len(q) : Append(q, m)[i] = q[i]
      /\ Append(q, m)[Len(q) + 1] = m
  BY AppendProperties
<1>2. \A i \in 1 .. Len(Append(q, m)) : i \in 1 .. Len(q) \/ i = Len(q) + 1
  BY <1>1
<1>3. Len(q) + 1 \in 1 .. Len(Append(q, m))
  BY <1>1
<1>4. Quiet(q) /\ Aside(m) => Quiet(Append(q, m))
  BY <1>1, <1>2 DEF Quiet
<1>5. \A k : Lone(q, k) /\ Aside(m) => Lone(Append(q, m), k)
  BY <1>1, <1>2 DEF Lone
<1>6. Quiet(q) => Lone(Append(q, m), m)
  BY <1>1, <1>2 DEF Lone, Quiet
<1>7. ~Aside(m) => ~Quiet(Append(q, m))
  BY <1>1, <1>3 DEF Quiet
<1> QED  BY <1>1, <1>4, <1>5, <1>6, <1>7

LEMMA EmptyIsQuiet == Quiet(<<>>)
BY DEF Quiet

LEMMA QuietIsLone == ASSUME NEW q, NEW m, Quiet(q) PROVE Lone(q, m)
BY DEF Quiet, Lone

-----------------------------------------------------------------------------
(***************************************************************************)
(* What holds of every state, whatever is lost: the types, the one         *)
(* request, and where frames of others come from.                          *)
(***************************************************************************)
RRQ == Reply("rrq", 0, "other")
ARP == Reply("arp", 0, "tid")
MacAsk == Packet("arp_me", 0, <<>>)
Refusal == Packet("error", 0, <<>>)

OneRequest ==
    /\ serving = -1 => Quiet(toClient) /\ toServer \in {<<>>, <<RRQ>>}
    /\ serving # -1 => \A i \in 1 .. Len(toServer) : toServer[i].kind # "rrq"
    /\ outcome = "start" => serving = -1 /\ toServer = <<>>

StraysKnown ==
    /\ ~strayed => port # "other" /\ \A i \in 1 .. Len(toClient) : ~Aside(toClient[i])
    /\ target = "native" => port # "other"

Base ==
    /\ TypeOK
    /\ toServer \in Seq(Replies) /\ toClient \in Seq(Packets)
    /\ serving >= -1
    /\ OneRequest
    /\ StraysKnown

(* The file, its blocks, and what the server sends of them. *)
LEMMA GivenIs ==
    ASSUME TypeOK
    PROVE  /\ file \in Seq(Nat)
           /\ ServerBlock \in Nat \ {0}
           /\ LastBlock = Last(file, ServerBlock)
           /\ LastBlock \in Nat \ {0}
           /\ \A n : Block(n) = Piece(file, ServerBlock, n)
<1>1. file \in Seq(Nat)
  <2>1. PICK n \in FileSizes : file = [i \in 1 .. n |-> i]
    BY DEF TypeOK
  <2>2. n \in Nat
    BY SizeAssumption
  <2> QED  BY <2>1, <2>2
<1>2. ServerBlock \in Nat \ {0}
  BY SizeAssumption DEF TypeOK, ServerBlock
<1>3. LastBlock = Last(file, ServerBlock)
  BY DEF LastBlock, Last
<1>4. LastBlock \in Nat \ {0}
  BY <1>1, <1>2, <1>3, PrefixEnds
<1>5. \A n : Block(n) = Piece(file, ServerBlock, n)
  BY DEF Block, Piece, Run
<1> QED  BY <1>1, <1>2, <1>3, <1>4, <1>5

LEMMA PieceType ==
    ASSUME NEW f \in Seq(Nat), NEW b \in Nat \ {0}, NEW n \in Nat
    PROVE  Piece(f, b, n) \in Packets /\ ~Aside(Piece(f, b, n))
<1>1. CASE n = 0
  BY <1>1 DEF Piece, Packet, Packets, Aside
<1>2. CASE n # 0
  <2> DEFINE from == (n - 1) * b + 1
             top == n * b
             upTo == LeastOf(top, Len(f))
  <2>1. n - 1 \in Nat /\ Len(f) \in Nat
    BY <1>2
  <2>2. from \in Nat \ {0} /\ top \in Nat
    BY <2>1
  <2> HIDE DEF from, top
  <2>3. upTo \in Int /\ upTo <= Len(f)
    BY <2>1, <2>2 DEF LeastOf
  <2> HIDE DEF upTo
  <2>4. \A i \in from .. upTo : f[i] \in Nat
    BY <2>1, <2>2, <2>3
  <2>5. SubSeq(f, from, upTo) \in Seq(Nat)
    BY <2>2, <2>3, <2>4, SubSeqProperties
  <2>6. n % BlockNumbers \in Nat
    BY SizeAssumption
  <2> QED  BY <1>2, <2>5, <2>6 DEF Piece, Packet, Packets, Aside, Run, from, top, upTo
<1> QED  BY <1>1, <1>2

LEMMA MarkersType ==
    /\ MacAsk \in Packets /\ ~Aside(MacAsk)
    /\ Refusal \in Packets /\ ~Aside(Refusal)
    /\ RRQ \in Replies /\ ARP \in Replies
BY DEF MacAsk, Refusal, RRQ, ARP, Packet, Packets, Reply, Replies, Aside

LEMMA SentType == \A q \in Seq(Packets), m \in Packets : Append(q, m) \in Seq(Packets)
OBVIOUS

(* What the server emits for the block it serves. *)
LEMMA EmitIs ==
    ASSUME TypeOK, toClient \in Seq(Packets), NEW n \in Nat, NEW mac
    PROVE  \E m \in Packets : /\ m = IF mac THEN Piece(file, ServerBlock, n) ELSE MacAsk
                              /\ ~Aside(m) /\ Emit(n, mac) = Append(toClient, m)
BY GivenIs, PieceType, MarkersType DEF Emit, MacAsk

(* The first port counts, and only a frame of another host misleads. *)
LEMMA LearnPortIs ==
    ASSUME NEW m, m.kind \in {"data", "oack", "error", "arp_other", "udp"},
           port \in {"none", "tid", "other"}
    PROVE  /\ LearnPort(m) \in {"none", "tid", "other"}
           /\ ~Aside(m) => LearnPort(m) =
                IF target = "native" \/ port = "none" THEN "tid" ELSE port
           /\ target # "native" /\ port # "none" => LearnPort(m) = port
           /\ target = "native" /\ Aside(m) => LearnPort(m) = port
BY DEF LearnPort, FromServer, Aside

LEMMA BaseInit == Init => Base
<1> SUFFICES ASSUME Init PROVE Base
  OBVIOUS
<1>0. strayed \in BOOLEAN
  BY DEF Init
<1>1. TypeOK
  BY <1>0, SizeAssumption DEF Init, TypeOK
<1> QED  BY <1>1, EmptyIsQuiet DEF Init, Base, OneRequest, StraysKnown

(* A reply the client sends, the request aside, never is the request. *)
LEMMA NoRequestAppended ==
    ASSUME NEW q \in Seq(Replies), \A i \in 1 .. Len(q) : q[i].kind # "rrq",
           NEW m \in Replies, m.kind # "rrq"
    PROVE  \A i \in 1 .. Len(Append(q, m)) : Append(q, m)[i].kind # "rrq"
<1>1. /\ Len(q) \in Nat /\ Len(Append(q, m)) = Len(q) + 1
      /\ \A i \in 1 .. Len(q) : Append(q, m)[i] = q[i]
      /\ Append(q, m)[Len(q) + 1] = m
  BY AppendProperties
<1> QED  BY <1>1

LEMMA OnlyOne ==
    ASSUME NEW T, NEW m \in T
    PROVE  /\ <<m>> # <<>> /\ Head(<<m>>) = m /\ Tail(<<m>>) = <<>>
           /\ <<m>> \in Seq(T) /\ Append(<<>>, m) = <<m>>
<1>1. <<m>> \in Seq(T) /\ Len(<<m>>) = 1 /\ Head(<<m>>) = m /\ Append(<<>>, m) = <<m>>
  OBVIOUS
<1>2. Tail(<<m>>) \in Seq(T) /\ Len(Tail(<<m>>)) = 0
  BY <1>1, HeadTailProperties
<1>3. Tail(<<m>>) = <<>>
  BY <1>2
<1> QED  BY <1>1, <1>3

(* What a direction loses at its head, or delivers, leaves the rest as it was. *)
LEMMA TailKeeps ==
    ASSUME Base
    PROVE  /\ toClient # <<>> =>
                /\ Tail(toClient) \in Seq(Packets)
                /\ serving = -1 => Quiet(Tail(toClient))
                /\ ~strayed => \A i \in 1 .. Len(Tail(toClient)) : ~Aside(Tail(toClient)[i])
                /\ ~strayed => ~Aside(Head(toClient))
           /\ toServer # <<>> =>
                /\ Tail(toServer) \in Seq(Replies)
                /\ serving = -1 => Tail(toServer) = <<>> /\ Head(toServer) = RRQ
                /\ \A i \in 1 .. Len(Tail(toServer)) : Tail(toServer)[i].kind # "rrq"
                /\ serving # -1 => Head(toServer).kind # "rrq"
<1>1. ASSUME toClient # <<>>
      PROVE  /\ Tail(toClient) \in Seq(Packets)
             /\ serving = -1 => Quiet(Tail(toClient))
             /\ ~strayed => \A i \in 1 .. Len(Tail(toClient)) : ~Aside(Tail(toClient)[i])
             /\ ~strayed => ~Aside(Head(toClient))
  <2>1. /\ Len(toClient) \in Nat \ {0} /\ Len(Tail(toClient)) = Len(toClient) - 1
        /\ Head(toClient) = toClient[1]
        /\ \A i \in 1 .. Len(Tail(toClient)) : Tail(toClient)[i] = toClient[i + 1]
    BY <1>1, HeadTailProperties DEF Base
  <2>2. \A i \in 1 .. Len(Tail(toClient)) : i + 1 \in 1 .. Len(toClient)
    BY <2>1
  <2>3. 1 \in 1 .. Len(toClient)
    BY <2>1
  <2> QED  BY <1>1, <2>1, <2>2, <2>3, TailOf DEF Base, OneRequest, StraysKnown
<1>2. ASSUME toServer # <<>>
      PROVE  /\ Tail(toServer) \in Seq(Replies)
             /\ serving = -1 => Tail(toServer) = <<>> /\ Head(toServer) = RRQ
             /\ \A i \in 1 .. Len(Tail(toServer)) : Tail(toServer)[i].kind # "rrq"
             /\ serving # -1 => Head(toServer).kind # "rrq"
  <2>1. /\ Len(toServer) \in Nat \ {0} /\ Len(Tail(toServer)) = Len(toServer) - 1
        /\ Head(toServer) = toServer[1] /\ Tail(toServer) \in Seq(Replies)
        /\ \A i \in 1 .. Len(Tail(toServer)) : Tail(toServer)[i] = toServer[i + 1]
    BY <1>2, HeadTailProperties DEF Base
  <2>2. \A i \in 1 .. Len(Tail(toServer)) : i + 1 \in 1 .. Len(toServer)
    BY <2>1
  <2>3. serving = -1 => Tail(toServer) = <<>> /\ Head(toServer) = RRQ
    BY <1>2, OnlyOne, MarkersType DEF Base, OneRequest
  <2>4. serving # -1 => Head(toServer).kind # "rrq"
    BY <2>1 DEF Base, OneRequest
  <2>5. \A i \in 1 .. Len(Tail(toServer)) : Tail(toServer)[i].kind # "rrq"
    <3>1. CASE serving = -1
      BY <2>3, <3>1
    <3>2. CASE serving # -1
      BY <2>1, <2>2, <3>2 DEF Base, OneRequest
    <3> QED  BY <3>1, <3>2
  <2> QED  BY <2>1, <2>3, <2>4, <2>5
<1> QED  BY <1>1, <1>2

(* A packet of the server's, appended, is no frame of another host. *)
LEMMA SentIsNoStray ==
    ASSUME NEW q \in Seq(Packets), \A i \in 1 .. Len(q) : ~Aside(q[i]),
           NEW m \in Packets, ~Aside(m)
    PROVE  \A i \in 1 .. Len(Append(q, m)) : ~Aside(Append(q, m)[i])
<1>1. /\ Len(q) \in Nat /\ Len(Append(q, m)) = Len(q) + 1
      /\ \A i \in 1 .. Len(q) : Append(q, m)[i] = q[i]
      /\ Append(q, m)[Len(q) + 1] = m
  BY AppendProperties
<1> QED  BY <1>1

(* A packet that arrives is one of those there are. *)
LEMMA ArrivalType ==
    ASSUME Base, NEW kinds, Arrives(kinds)
    PROVE  /\ toClient # <<>> /\ outcome = "pending"
           /\ Packet1 \in Packets /\ Packet1 = Head(toClient)
           /\ Packet1.kind \in kinds
           /\ Packet1.block \in Nat /\ Packet1.data \in Seq(Nat)
           /\ serving = -1 => Aside(Packet1)
           /\ ~strayed => ~Aside(Packet1)
           /\ port \in {"none", "tid", "other"}
<1>1. toClient # <<>> /\ outcome = "pending" /\ Packet1.kind \in kinds
  BY DEF Arrives, Packet1
<1>2. Packet1 = Head(toClient) /\ Packet1 \in Packets
  BY <1>1, TailOf DEF Packet1, Base
<1>3. serving = -1 => Aside(Packet1)
  BY <1>1, <1>2, TailOf DEF Base, OneRequest
<1>4. ~strayed => ~Aside(Packet1)
  BY <1>1, <1>2, TailKeeps
<1> QED  BY <1>1, <1>2, <1>3, <1>4 DEF Packets, Base, TypeOK

(* Every step keeps the base facts. *)
LEMMA BaseStep == Base /\ [Next]_vars => Base'
<1> SUFFICES ASSUME Base, [Next]_vars PROVE Base'
  OBVIOUS
<1>s. /\ TypeOK /\ OneRequest /\ StraysKnown /\ serving >= -1 /\ serving \in Int
      /\ toServer \in Seq(Replies) /\ toClient \in Seq(Packets)
  BY DEF Base, TypeOK
<1>1. CASE SendRequest
  <2>1. toServer = <<>> /\ serving = -1
    BY <1>1 DEF SendRequest, Base, OneRequest
  <2>2. toServer' \in {<<>>, <<RRQ>>} /\ outcome' # "start"
    BY <1>1, <2>1, MarkersType, OnlyOne DEF SendRequest, RRQ
  <2>3. toServer' \in Seq(Replies)
    <3>1. <<>> \in Seq(Replies)
      OBVIOUS
    <3>2. <<RRQ>> \in Seq(Replies)
      BY MarkersType
    <3> QED  BY <2>2, <3>1, <3>2
  <2>4. TypeOK'
    BY <1>1, <1>s, FaultAssumption DEF SendRequest, TypeOK, givenVars, serverVars
  <2>5. OneRequest' /\ StraysKnown'
    BY <1>1, <1>s, <2>1, <2>2 DEF SendRequest, OneRequest, StraysKnown, givenVars, serverVars
  <2> QED  BY <1>1, <1>s, <2>3, <2>4, <2>5 DEF SendRequest, Base, serverVars
<1>2. CASE AnswerArp
  <2>1. Packet1 \in Packets /\ toClient # <<>> /\ ~Aside(Packet1) /\ serving # -1
        /\ outcome = "pending"
    BY <1>2, ArrivalType DEF AnswerArp, Aside
  <2>2. toServer' = Append(toServer, ARP) /\ ARP \in Replies /\ ARP.kind # "rrq"
    BY <1>2, MarkersType DEF AnswerArp, ARP, Reply
  <2>3. /\ toServer' \in Seq(Replies)
        /\ \A i \in 1 .. Len(toServer') : toServer'[i].kind # "rrq"
    BY <1>s, <2>1, <2>2, AppendTo, NoRequestAppended DEF OneRequest
  <2>4. TypeOK'
    BY <1>2, <1>s DEF AnswerArp, TypeOK, givenVars, clientVars, serverVars
  <2>5. OneRequest' /\ StraysKnown'
    BY <1>2, <1>s, <2>1, <2>3, TailKeeps
       DEF AnswerArp, OneRequest, StraysKnown, givenVars, clientVars, serverVars
  <2> QED  BY <1>2, <1>s, <2>1, <2>3, <2>4, <2>5, TailKeeps DEF AnswerArp, Base, serverVars
<1>3. CASE SkipFrame
  <2>1. /\ Packet1 \in Packets /\ toClient # <<>> /\ outcome = "pending" /\ strayed
        /\ LearnPort(Packet1) \in {"none", "tid", "other"}
        /\ target = "native" => LearnPort(Packet1) = port
    BY <1>3, ArrivalType, LearnPortIs DEF SkipFrame, Aside
  <2>2. TypeOK'
    BY <1>3, <1>s, <2>1 DEF SkipFrame, TypeOK, givenVars, serverVars
  <2>3. OneRequest' /\ StraysKnown'
    BY <1>3, <1>s, <2>1, TailKeeps DEF SkipFrame, OneRequest, StraysKnown, givenVars, serverVars
  <2> QED  BY <1>3, <1>s, <2>1, <2>2, <2>3, TailKeeps DEF SkipFrame, Base, serverVars
<1>4. CASE ReceiveError
  <2>1. /\ Packet1 \in Packets /\ toClient # <<>> /\ outcome = "pending"
        /\ LearnPort(Packet1) \in {"none", "tid", "other"}
        /\ port # "other" => LearnPort(Packet1) # "other"
    BY <1>4, ArrivalType, LearnPortIs DEF ReceiveError, Aside
  <2>2. TypeOK'
    BY <1>4, <1>s, <2>1 DEF ReceiveError, TypeOK, givenVars, serverVars
  <2>3. OneRequest' /\ StraysKnown'
    BY <1>4, <1>s, <2>1, TailKeeps
       DEF ReceiveError, OneRequest, StraysKnown, givenVars, serverVars
  <2> QED  BY <1>4, <1>s, <2>1, <2>2, <2>3, TailKeeps DEF ReceiveError, Base, serverVars
<1>5. CASE ReceiveOack
  <2>1. /\ Packet1 \in Packets /\ toClient # <<>> /\ outcome = "pending" /\ serving # -1
        /\ LearnPort(Packet1) \in {"none", "tid", "other"}
        /\ port # "other" => LearnPort(Packet1) # "other"
    BY <1>5, ArrivalType, LearnPortIs DEF ReceiveOack, Aside
  <2>2. PICK m \in Replies : toServer' = Append(toServer, m) /\ m.kind # "rrq"
    <3>1. Reply("ack", 0, port') \in Replies /\ Reply("ack", 0, port').kind # "rrq"
      BY <1>5, <2>1 DEF ReceiveOack, Reply, Replies
    <3> QED  BY <1>5, <3>1 DEF ReceiveOack
  <2>3. /\ toServer' \in Seq(Replies)
        /\ \A i \in 1 .. Len(toServer') : toServer'[i].kind # "rrq"
    BY <1>s, <2>1, <2>2, AppendTo, NoRequestAppended DEF OneRequest
  <2>4. TypeOK'
    <3>1. oack \in Nat
      BY <1>s, SizeAssumption DEF TypeOK
    <3> QED  BY <1>5, <1>s, <2>1, <3>1 DEF ReceiveOack, TypeOK, givenVars, serverVars
  <2>5. OneRequest' /\ StraysKnown'
    BY <1>5, <1>s, <2>1, <2>3, TailKeeps
       DEF ReceiveOack, OneRequest, StraysKnown, givenVars, serverVars
  <2> QED  BY <1>5, <1>s, <2>1, <2>3, <2>4, <2>5, TailKeeps DEF ReceiveOack, Base, serverVars
<1>6. CASE ReceiveData
  <2>1. /\ Packet1 \in Packets /\ toClient # <<>> /\ outcome = "pending" /\ serving # -1
        /\ LearnPort(Packet1) \in {"none", "tid", "other"}
        /\ port # "other" => LearnPort(Packet1) # "other"
        /\ Packet1.block \in Nat /\ Packet1.data \in Seq(Nat)
    BY <1>6, ArrivalType, LearnPortIs, SMTT(30) DEF ReceiveData, Aside
  <2>2. \/ toServer' = toServer
        \/ \E m \in Replies : toServer' = Append(toServer, m) /\ m.kind # "rrq"
    <3>1. /\ Reply("ack", Packet1.block, port') \in Replies
          /\ Reply("ack", Packet1.block, port').kind # "rrq"
      BY <1>6, <2>1 DEF ReceiveData, Reply, Replies
    <3> QED  BY <1>6, <3>1 DEF ReceiveData
  <2>3. /\ toServer' \in Seq(Replies)
        /\ \A i \in 1 .. Len(toServer') : toServer'[i].kind # "rrq"
    <3>1. \A i \in 1 .. Len(toServer) : toServer[i].kind # "rrq"
      BY <1>s, <2>1 DEF OneRequest
    <3>2. CASE toServer' = toServer
      BY <1>s, <3>1, <3>2
    <3>3. ASSUME NEW m \in Replies, toServer' = Append(toServer, m), m.kind # "rrq"
          PROVE  /\ toServer' \in Seq(Replies)
                 /\ \A i \in 1 .. Len(toServer') : toServer'[i].kind # "rrq"
      BY <1>s, <3>1, <3>3, NoRequestAppended
    <3> QED  BY <2>2, <3>2, <3>3
  <2>4. sink' \in Seq(Nat) /\ Len(sink') <= SinkSize
    <3>1. CASE Fits(Packet1.data)
      <4>1. sink' = sink \o Packet1.data /\ Len(sink) + Len(Packet1.data) <= SinkSize
        BY <1>6, <3>1 DEF ReceiveData, Fits
      <4>2. sink \in Seq(Nat)
        BY <1>s DEF TypeOK
      <4> QED  BY <2>1, <4>1, <4>2
    <3>2. CASE ~Fits(Packet1.data)
      BY <1>6, <1>s, <3>2 DEF ReceiveData, TypeOK
    <3> QED  BY <3>1, <3>2
  <2>5. outcome' \in {"some", "none", "pending"}
    BY <1>6 DEF ReceiveData
  <2>6. TypeOK'
    BY <1>6, <1>s, <2>1, <2>4, <2>5 DEF ReceiveData, TypeOK, givenVars, serverVars
  <2>7. OneRequest' /\ StraysKnown'
    BY <1>6, <1>s, <2>1, <2>3, <2>5, TailKeeps
       DEF ReceiveData, OneRequest, StraysKnown, givenVars, serverVars
  <2> QED  BY <1>6, <1>s, <2>1, <2>3, <2>6, <2>7, TailKeeps DEF ReceiveData, Base, serverVars
<1>7. CASE Timeout \/ SpendBudget
  BY <1>7, <1>s DEF Timeout, SpendBudget, Base, TypeOK, OneRequest, StraysKnown,
                    givenVars, serverVars
<1>8. CASE Serve
  <2>1. /\ toServer # <<>> /\ Head(toServer).kind = "rrq" /\ toServer' = Tail(toServer)
        /\ UNCHANGED <<target, file, oack, outcome, port, blksize, sink, known, losses, strayed, resends>>
    BY <1>8 DEF Serve, ServerGets, givenVars, clientVars
  <2>2. serving = -1 /\ toServer' = <<>>
    BY <1>s, <2>1, TailKeeps
  <2>3. serving' \in Nat /\ \E m \in Packets : ~Aside(m) /\ toClient' = Append(toClient, m)
    <3>1. CASE serving' = (IF oack = 0 THEN 1 ELSE 0) /\ toClient' = Emit(serving', known)
      BY <1>s, <3>1, EmitIs
    <3>2. CASE serving' = LastBlock + 1 /\ toClient' = Append(toClient, Packet("error", 0, <<>>))
      BY <1>s, <3>2, GivenIs, MarkersType DEF Refusal
    <3> QED  BY <1>8, <3>1, <3>2 DEF Serve
  <2>4. TypeOK'
    BY <1>s, <2>1, <2>3 DEF TypeOK
  <2>5. toServer' \in Seq(Replies) /\ toClient' \in Seq(Packets)
    BY <1>s, <2>2, <2>3, AppendTo
  <2>6. OneRequest'
    BY <1>s, <2>1, <2>2, <2>3 DEF OneRequest
  <2>7. StraysKnown'
    BY <1>s, <2>1, <2>3, SentIsNoStray DEF StraysKnown
  <2> QED  BY <2>3, <2>4, <2>5, <2>6, <2>7 DEF Base
<1>9. CASE ServerLearnsMac
  <2>1. /\ toServer # <<>> /\ Head(toServer).kind = "arp" /\ toServer' = Tail(toServer)
        /\ toClient' = IF known THEN toClient ELSE Emit(serving, TRUE)
        /\ known' = TRUE
        /\ UNCHANGED <<target, file, oack, outcome, port, blksize, sink, serving, losses, strayed, resends>>
    BY <1>9 DEF ServerLearnsMac, ServerGets, givenVars, clientVars
  <2>2. serving # -1 /\ serving \in Nat
    BY <1>s, <2>1, TailKeeps, MarkersType DEF RRQ, Reply
  <2>3. \/ toClient' = toClient
        \/ \E m \in Packets : ~Aside(m) /\ toClient' = Append(toClient, m)
    BY <1>s, <2>1, <2>2, EmitIs
  <2>4. TypeOK'
    BY <1>s, <2>1, <2>3 DEF TypeOK
  <2>5. toServer' \in Seq(Replies) /\ toClient' \in Seq(Packets)
    BY <1>s, <2>1, <2>3, TailKeeps, SentType
  <2>6. OneRequest'
    BY <1>s, <2>1, <2>2, TailKeeps DEF OneRequest
  <2>7. StraysKnown'
    BY <1>s, <2>1, <2>3, SentIsNoStray DEF StraysKnown
  <2> QED  BY <1>s, <2>1, <2>4, <2>5, <2>6, <2>7 DEF Base
<1>10. CASE Acknowledged
  <2>1. /\ toServer # <<>> /\ Head(toServer).kind = "ack" /\ toServer' = Tail(toServer)
        /\ UNCHANGED <<target, file, oack, outcome, port, blksize, sink, known, losses, strayed, resends>>
    BY <1>10 DEF Acknowledged, ServerGets, givenVars, clientVars
  <2>2. serving # -1 /\ serving \in Nat
    BY <1>s, <2>1, TailKeeps, MarkersType DEF RRQ, Reply
  <2>3. /\ serving' \in Nat
        /\ \/ toClient' = toClient
           \/ \E m \in Packets : ~Aside(m) /\ toClient' = Append(toClient, m)
    <3>1. \/ serving' = serving /\ toClient' = toClient
          \/ serving' = serving + 1 /\ toClient' = toClient
          \/ serving' = serving + 1 /\ toClient' = Emit(serving + 1, known)
      BY <1>10 DEF Acknowledged
    <3> QED  BY <1>s, <2>2, <3>1, EmitIs, SMTT(30)
  <2>4. TypeOK'
    BY <1>s, <2>1, <2>3 DEF TypeOK
  <2>5. toServer' \in Seq(Replies) /\ toClient' \in Seq(Packets)
    BY <1>s, <2>1, <2>3, TailKeeps, SentType
  <2>6. OneRequest'
    BY <1>s, <2>1, <2>2, <2>3, TailKeeps DEF OneRequest
  <2>7. StraysKnown'
    BY <1>s, <2>1, <2>3, SentIsNoStray DEF StraysKnown
  <2> QED  BY <2>3, <2>4, <2>5, <2>6, <2>7 DEF Base
<1>11. CASE Resend
  <2>1. /\ serving \in Nat /\ toServer' = toServer /\ toServer = <<>>
        /\ toClient' = Emit(serving, known) /\ resends' = resends + 1
        /\ UNCHANGED <<target, file, oack, outcome, port, blksize, sink, serving, known, losses, strayed>>
    BY <1>11, GivenIs, <1>s DEF Resend, givenVars, clientVars
  <2>2. \E m \in Packets : ~Aside(m) /\ toClient' = Append(toClient, m)
    BY <1>s, <2>1, EmitIs
  <2>3. TypeOK'
    BY <1>s, <2>1 DEF TypeOK
  <2>4. toServer' \in Seq(Replies) /\ toClient' \in Seq(Packets)
    BY <1>s, <2>1, <2>2, AppendTo
  <2>5. OneRequest'
    BY <1>s, <2>1 DEF OneRequest
  <2>6. StraysKnown'
    BY <1>s, <2>1, <2>2, SentIsNoStray DEF StraysKnown
  <2> QED  BY <1>s, <2>1, <2>3, <2>4, <2>5, <2>6 DEF Base
<1>12. CASE Lose
  <2>1. /\ losses' = losses + 1
        /\ UNCHANGED <<target, file, oack, outcome, port, blksize, sink, serving, known, strayed, resends>>
        /\ \/ toClient # <<>> /\ toClient' = Tail(toClient) /\ toServer' = toServer
           \/ toServer # <<>> /\ toServer' = Tail(toServer) /\ toClient' = toClient
    BY <1>12 DEF Lose, givenVars, clientVars, serverVars
  <2>2. TypeOK'
    BY <1>s, <2>1 DEF TypeOK
  <2>3. toServer' \in Seq(Replies) /\ toClient' \in Seq(Packets)
    BY <1>s, <2>1, TailKeeps
  <2>4. OneRequest'
    BY <1>s, <2>1, TailKeeps DEF OneRequest
  <2>5. StraysKnown'
    BY <1>s, <2>1, TailKeeps DEF StraysKnown
  <2> QED  BY <1>s, <2>1, <2>2, <2>3, <2>4, <2>5 DEF Base
<1>13. CASE Stray
  <2>1. /\ strayed' = TRUE /\ toServer' = toServer
        /\ UNCHANGED <<target, file, oack, outcome, port, blksize, sink, serving, known, losses, resends>>
    BY <1>13, <1>s DEF Stray, givenVars, clientVars, serverVars, TypeOK
  <2>2. \E m \in Packets : Aside(m) /\ toClient' = Append(toClient, m)
    <3>1. PICK kind \in {"arp_other", "udp"} : toClient' = Append(toClient, Packet(kind, 0, <<>>))
      BY <1>13 DEF Stray, StrayKinds
    <3>2. Packet(kind, 0, <<>>) \in Packets /\ Aside(Packet(kind, 0, <<>>))
      BY DEF Packet, Packets, Aside
    <3> QED  BY <3>1, <3>2
  <2>3. TypeOK'
    BY <1>s, <2>1 DEF TypeOK
  <2>4. OneRequest' /\ toClient' \in Seq(Packets)
    BY <1>s, <2>1, <2>2, AppendTo DEF OneRequest
  <2>5. StraysKnown'
    BY <1>s, <2>1 DEF StraysKnown
  <2> QED  BY <1>s, <2>1, <2>3, <2>4, <2>5 DEF Base
<1>14. CASE UNCHANGED vars
  BY <1>14, <1>s DEF vars, Base, TypeOK, OneRequest, StraysKnown, givenVars, clientVars, serverVars
<1> QED
  BY <1>1, <1>2, <1>3, <1>4, <1>5, <1>6, <1>7, <1>8, <1>9, <1>10, <1>11, <1>12, <1>13, <1>14
     DEF Next, Client, Receive, Server

(***************************************************************************)
(* The types of TftpDownload, whatever the network does: the sink never    *)
(* takes more than the room its caller has.                                *)
(***************************************************************************)
THEOREM TypeCorrect == Spec => []TypeOK
<1>1. Spec => []Base
  BY BaseInit, BaseStep, PTL DEF Spec
<1>2. Base => TypeOK
  BY DEF Base
<1> QED  BY <1>1, <1>2, PTL

-----------------------------------------------------------------------------
(***************************************************************************)
(* While a download runs and no ACK was lost, it is in one of five phases. *)
(*   Before  the request is on its way, or lost                            *)
(*   Under   the server has sent, or sends again, the block after those    *)
(*           the sink holds, or asks for the client's address first        *)
(*   Acked   the block is in the sink, and its ACK on the way              *)
(*   Astray  the ACKs go to the port of another host: the first block, or  *)
(*           the OACK, comes again and again                               *)
(*   Failed  the server has refused                                        *)
(***************************************************************************)
Sound == LoseAcks => losses = 0
Running == outcome \in {"start", "pending"}

Due == IF known THEN Piece(file, ServerBlock, serving) ELSE MacAsk
Written == IF serving = 0 THEN 0 ELSE serving - 1

Before ==
    /\ serving = -1 /\ sink = <<>> /\ blksize = DEFAULT_BLKSIZE
    /\ outcome = "pending" /\ losses = 0 => toServer = <<RRQ>>

Under ==
    /\ serving \in 0 .. LastBlock
    /\ sink = Prefix(file, ServerBlock, Written)
    /\ IF serving = 0 THEN oack # 0 ELSE blksize = ServerBlock
    /\ port # "tid" => serving <= 1
    /\ Lone(toClient, Due)
    /\ toServer # <<>> => toServer = <<ARP>> /\ ~known /\ Quiet(toClient)
    /\ losses = 0 => toServer # <<>> \/ ~Quiet(toClient)

Acked ==
    /\ serving \in 0 .. LastBlock - 1
    /\ sink = Prefix(file, ServerBlock, serving)
    /\ blksize = ServerBlock /\ port = "tid"
    /\ Quiet(toClient)
    /\ toServer = <<Reply("ack", serving % BlockNumbers, "tid")>>

Astray ==
    /\ port = "other"
    /\ serving \in 0 .. 1
    /\ serving = 1 => blksize = ServerBlock /\ LastBlock > 1
    /\ Lone(toClient, Due)
    /\ toServer # <<>> =>
        /\ Quiet(toClient)
        /\ \/ toServer = <<ARP>> /\ ~known
           \/ toServer = <<Reply("ack", serving % BlockNumbers, "other")>>

Failed ==
    /\ serving = LastBlock + 1 /\ sink = <<>>
    /\ toServer = <<>> /\ Lone(toClient, Refusal)

Phase == Before \/ Under \/ Acked \/ Astray \/ Failed

DownloadInv ==
    /\ Base
    /\ Running /\ Sound => Phase
    /\ Sound => CompleteIsFile
    /\ FailsForCause

(* What is due is an OACK, a block or a question for the address. *)
LEMMA DueIs ==
    ASSUME Base, serving # -1
    PROVE  /\ serving \in Nat
           /\ Due \in Packets /\ ~Aside(Due)
           /\ Due.kind = IF ~known THEN "arp_me" ELSE IF serving = 0 THEN "oack" ELSE "data"
           /\ Due.kind = "data" => /\ Due.data = Run(file, ServerBlock, serving)
                                   /\ Due.block = serving % BlockNumbers
<1>1. serving \in Nat
  BY DEF Base, TypeOK
<1>2. file \in Seq(Nat) /\ ServerBlock \in Nat \ {0}
  BY GivenIs DEF Base
<1> QED  BY <1>1, <1>2, PieceType, MarkersType DEF Due, Piece, MacAsk, Packet

(* A packet that is none of another host's is the one that is due. *)
LEMMA ArrivalIsDue ==
    ASSUME Base, Phase, toClient # <<>>, ~Aside(Packet1)
    PROVE  /\ Quiet(Tail(toClient)) /\ toServer = <<>>
           /\ \/ Under /\ Packet1 = Due
              \/ Astray /\ Packet1 = Due
              \/ Failed /\ Packet1 = Refusal
<1>1. toClient \in Seq(Packets) /\ Packet1 = Head(toClient)
  BY DEF Base, Packet1
<1>2. ~Quiet(toClient)
  BY <1>1, TailOf
<1>3. serving # -1
  BY <1>2 DEF Base, OneRequest
<1>4. \A m : Lone(toClient, m) => Packet1 = m /\ Quiet(Tail(toClient))
  BY <1>1, TailOf
<1> QED  BY <1>2, <1>3, <1>4 DEF Phase, Before, Under, Acked, Astray, Failed

-----------------------------------------------------------------------------
(***************************************************************************)
(* A block arrives: it is the next one, unless the ACKs go astray.         *)
(***************************************************************************)
LEMMA DataStep ==
    ASSUME DownloadInv, ReceiveData, Sound
    PROVE  /\ outcome' = "pending" => Phase'
           /\ CompleteIsFile' /\ FailsForCause'
<1> DEFINE data == Packet1.data
           B == ServerBlock
<1>1. /\ Base /\ Phase
      /\ outcome = "pending" /\ toClient # <<>> /\ Packet1.kind = "data" /\ ~Aside(Packet1)
  BY ArrivalType DEF DownloadInv, Running, ReceiveData, Aside
<1>2. /\ UNCHANGED <<target, file, oack, blksize, serving, known, resends, losses, strayed>>
      /\ port' = LearnPort(Packet1) /\ toClient' = Tail(toClient)
      /\ IF Fits(data)
         THEN /\ sink' = sink \o data
              /\ toServer' = Append(toServer, Reply("ack", Packet1.block, port'))
              /\ outcome' = IF IsLast(data) THEN "some" ELSE "pending"
         ELSE outcome' = "none" /\ sink' = sink
  BY DEF ReceiveData, givenVars, serverVars
<1>3. serving # -1
  BY <1>1, ArrivalType DEF ReceiveData
<1>4. /\ Packet1 = Due /\ toServer = <<>> /\ Quiet(toClient') /\ (Under \/ Astray)
  BY <1>1, <1>2, ArrivalIsDue DEF Refusal, Packet
<1>5. /\ serving \in Nat \ {0} /\ known
      /\ data = Run(file, B, serving) /\ Packet1.block = serving % BlockNumbers
  BY <1>1, <1>3, <1>4, DueIs
<1>6. /\ file \in Seq(Nat) /\ B \in Nat \ {0} /\ LastBlock = Last(file, B) /\ LastBlock \in Nat \ {0}
      /\ port \in {"none", "tid", "other"} /\ sink \in Seq(Nat) /\ Len(sink) \in Nat
  BY <1>1, GivenIs DEF Base, TypeOK
<1>7. serving \in 1 .. LastBlock /\ blksize = B
  BY <1>4, <1>5, <1>6 DEF Under, Astray
<1>8. /\ Prefix(file, B, serving - 1) \o data = Prefix(file, B, serving)
      /\ Len(data) <= B
      /\ Len(data) < B <=> serving = LastBlock
      /\ Len(Prefix(file, B, serving - 1)) + Len(data) <= Len(file)
      /\ Prefix(file, B, LastBlock) = file
      /\ Len(data) \in Nat
  <2>1. serving \in 1 .. Last(file, B)
    BY <1>6, <1>7
  <2>2. /\ Run(file, B, serving) \in Seq(Nat)
        /\ Prefix(file, B, serving - 1) \o Run(file, B, serving) = Prefix(file, B, serving)
        /\ Len(Run(file, B, serving)) <= B
        /\ Len(Run(file, B, serving)) < B <=> serving = Last(file, B)
        /\ Len(Prefix(file, B, serving - 1)) + Len(Run(file, B, serving)) <= Len(file)
    BY <1>6, <2>1, RunFollows
  <2>3. Prefix(file, B, LastBlock) = file
    BY <1>6, PrefixEnds
  <2>4. Len(Run(file, B, serving)) \in Nat
    BY <2>2
  <2> HIDE DEF data
  <2>5. data = Run(file, B, serving) /\ LastBlock = Last(file, B)
    BY <1>5, <1>6
  <2> QED  BY <2>2, <2>3, <2>4, <2>5
<1>9. IsLast(data) <=> serving = LastBlock
  BY <1>7, <1>8 DEF IsLast
<1>10. /\ LastBlock' = LastBlock /\ ServerBlock' = ServerBlock /\ Due' = Due
  BY <1>2 DEF LastBlock, ServerBlock, Due
<1>11. /\ port' \in {"none", "tid", "other"} /\ port' # "none"
       /\ port' = "other" => port = "other"
       /\ port = "other" => port' = "other"
       /\ port = "other" => strayed /\ target # "native"
  BY <1>1, <1>2, <1>6, LearnPortIs DEF Base, StraysKnown
<1>12. Fits(data) => toServer' = <<Reply("ack", serving % BlockNumbers, port')>>
  BY <1>2, <1>4, <1>5
<1>13. CASE Under
  <2>1. sink = Prefix(file, B, serving - 1) /\ (port # "tid" => serving <= 1)
    BY <1>5, <1>13 DEF Under, Written
  <2>2. CASE ~Fits(data)
    <3>1. Len(file) > SinkSize
      <4>1. Len(file) \in Nat /\ SinkSize \in Nat
        BY <1>6, SizeAssumption
      <4>2. ~(Len(sink) + Len(data) <= SinkSize)
        BY <2>2 DEF Fits
      <4>3. Len(sink) + Len(data) <= Len(file)
        BY <1>8, <2>1
      <4> QED  BY <1>6, <1>8, <4>1, <4>2, <4>3
    <3> QED  BY <1>2, <2>2, <3>1 DEF FailsForCause, CompleteIsFile
  <2>3. CASE Fits(data)
    <3>1. sink' = Prefix(file, B, serving)
      BY <1>2, <1>8, <2>1, <2>3
    <3>2. CASE serving = LastBlock
      BY <1>2, <1>8, <1>9, <2>3, <3>1, <3>2 DEF FailsForCause, CompleteIsFile
    <3>3. CASE serving # LastBlock
      <4>1. outcome' = "pending"
        BY <1>2, <1>9, <2>3, <3>3
      <4>2. CASE port' = "tid"
        <5>1. serving \in 0 .. LastBlock - 1
          BY <1>6, <1>7, <3>3
        <5> QED  BY <1>2, <1>4, <1>7, <1>10, <1>12, <2>3, <3>1, <4>1, <4>2, <5>1
                 DEF FailsForCause, CompleteIsFile, Phase, Acked
      <4>3. CASE port' = "other"
        <5>1. serving = 1 /\ LastBlock > 1 /\ serving \in 0 .. 1
          BY <1>6, <1>7, <1>11, <2>1, <3>3, <4>3
        <5> QED  BY <1>2, <1>4, <1>7, <1>10, <1>12, <2>3, <4>1, <4>3, <5>1, QuietIsLone
                 DEF FailsForCause, CompleteIsFile, Phase, Astray
      <4> QED  BY <1>11, <4>2, <4>3
    <3> QED  BY <3>2, <3>3
  <2> QED  BY <2>2, <2>3
<1>14. CASE Astray
  <2>1. serving = 1 /\ LastBlock > 1 /\ serving \in 0 .. 1 /\ port = "other" /\ strayed /\ target # "native"
    BY <1>5, <1>11, <1>14 DEF Astray
  <2>2. strayed' /\ target' # "native"
    BY <1>2, <2>1
  <2>3. outcome' # "some" /\ FailsForCause' /\ CompleteIsFile'
    BY <1>2, <1>9, <2>1, <2>2 DEF FailsForCause, CompleteIsFile
  <2>4. outcome' = "pending" => Phase'
    BY <1>2, <1>4, <1>7, <1>10, <1>11, <1>12, <2>1, QuietIsLone DEF Phase, Astray
  <2> QED  BY <2>3, <2>4
<1> QED  BY <1>4, <1>13, <1>14

(* The OACK arrives: the block size is the server's. *)
LEMMA OackStep ==
    ASSUME DownloadInv, ReceiveOack, Sound
    PROVE  Phase' /\ CompleteIsFile' /\ FailsForCause'
<1>1. /\ Base /\ Phase
      /\ outcome = "pending" /\ toClient # <<>> /\ Packet1.kind = "oack" /\ ~Aside(Packet1)
  BY ArrivalType DEF DownloadInv, Running, ReceiveOack, Aside
<1>2. /\ UNCHANGED <<target, file, oack, outcome, sink, serving, known, resends, losses, strayed>>
      /\ port' = LearnPort(Packet1) /\ toClient' = Tail(toClient) /\ blksize' = oack
      /\ toServer' = Append(toServer, Reply("ack", 0, port'))
  BY DEF ReceiveOack, givenVars, serverVars
<1>3. serving # -1
  BY <1>1, ArrivalType DEF ReceiveOack
<1>4. /\ Packet1 = Due /\ toServer = <<>> /\ Quiet(toClient') /\ (Under \/ Astray)
  BY <1>1, <1>2, ArrivalIsDue DEF Refusal, Packet
<1>5. serving = 0 /\ known
  BY <1>1, <1>3, <1>4, DueIs
<1>6. /\ file \in Seq(Nat) /\ LastBlock \in Nat \ {0} /\ port \in {"none", "tid", "other"}
  BY <1>1, GivenIs DEF Base, TypeOK
<1>7. /\ LastBlock' = LastBlock /\ ServerBlock' = ServerBlock /\ Due' = Due
  BY <1>2 DEF LastBlock, ServerBlock, Due
<1>8. /\ port' \in {"tid", "other"} /\ (port = "other" => port' = "other")
      /\ toServer' = <<Reply("ack", 0, port')>>
  <2>1. port = "other" => target # "native"
    BY <1>1 DEF Base, StraysKnown
  <2> QED  BY <1>1, <1>2, <1>4, <1>6, <2>1, LearnPortIs
<1>9. 0 % BlockNumbers = 0
  BY SizeAssumption
<1>10. outcome' = "pending" /\ CompleteIsFile' /\ FailsForCause'
  BY <1>1, <1>2 DEF CompleteIsFile, FailsForCause
<1>11. CASE port' = "tid"
  <2>1. Under
    BY <1>4, <1>8, <1>11 DEF Astray
  <2>2. sink = Prefix(file, ServerBlock, 0) /\ oack = ServerBlock
    BY <1>5, <2>1 DEF Under, Written, ServerBlock
  <2>3. 0 \in 0 .. LastBlock - 1
    BY <1>6
  <2> QED  BY <1>2, <1>4, <1>5, <1>7, <1>8, <1>9, <1>10, <1>11, <2>2, <2>3 DEF Phase, Acked
<1>12. CASE port' = "other"
  <2>1. 0 \in 0 .. 1
    OBVIOUS
  <2> QED  BY <1>2, <1>4, <1>5, <1>7, <1>8, <1>9, <1>10, <1>12, <2>1, QuietIsLone
           DEF Phase, Astray
<1> QED  BY <1>8, <1>11, <1>12

(* A question for the address is answered. *)
LEMMA ArpStep ==
    ASSUME DownloadInv, AnswerArp, Sound
    PROVE  Phase' /\ CompleteIsFile' /\ FailsForCause'
<1>1. /\ Base /\ Phase
      /\ outcome = "pending" /\ toClient # <<>> /\ Packet1.kind = "arp_me" /\ ~Aside(Packet1)
  BY ArrivalType DEF DownloadInv, Running, AnswerArp, Aside
<1>2. /\ UNCHANGED <<target, file, oack, outcome, port, blksize, sink, serving, known, resends, losses, strayed>>
      /\ toClient' = Tail(toClient)
      /\ toServer' = Append(toServer, ARP)
  BY DEF AnswerArp, ARP, givenVars, clientVars, serverVars
<1>3. serving # -1
  BY <1>1, ArrivalType DEF AnswerArp
<1>4. /\ Packet1 = Due /\ toServer = <<>> /\ Quiet(toClient') /\ (Under \/ Astray)
  BY <1>1, <1>2, ArrivalIsDue DEF Refusal, Packet
<1>5. ~known
  BY <1>1, <1>3, <1>4, DueIs
<1>6. /\ LastBlock' = LastBlock /\ ServerBlock' = ServerBlock /\ Due' = Due /\ Written' = Written
  BY <1>2 DEF LastBlock, ServerBlock, Due, Written
<1>7. toServer' = <<ARP>> /\ toServer' # <<>>
  BY <1>2, <1>4
<1>8. outcome' = "pending" /\ CompleteIsFile' /\ FailsForCause'
  BY <1>1, <1>2 DEF CompleteIsFile, FailsForCause
<1>9. Lone(toClient', Due')
  BY <1>4, QuietIsLone
<1>10. Under => Under'
  BY <1>2, <1>4, <1>5, <1>6, <1>7, <1>9 DEF Under
<1>11. Astray => Astray'
  BY <1>2, <1>4, <1>5, <1>6, <1>7, <1>9 DEF Astray
<1> QED  BY <1>4, <1>8, <1>10, <1>11 DEF Phase

(* A frame of another host may decide the port, before the second block. *)
LEMMA SkipStep ==
    ASSUME DownloadInv, SkipFrame, Sound
    PROVE  Phase' /\ CompleteIsFile' /\ FailsForCause'
<1>1. /\ Base /\ Phase /\ toClient \in Seq(Packets)
      /\ outcome = "pending" /\ toClient # <<>> /\ Aside(Packet1) /\ Packet1 = Head(toClient)
  BY ArrivalType DEF DownloadInv, Running, SkipFrame, Aside, Base
<1>2. /\ UNCHANGED <<target, file, oack, outcome, blksize, sink, serving, known, toServer, resends, losses, strayed>>
      /\ port' = LearnPort(Packet1) /\ toClient' = Tail(toClient)
  BY DEF SkipFrame, givenVars, serverVars
<1>3. Packet1.kind \in {"arp_other", "udp"} /\ port \in {"none", "tid", "other"}
  BY <1>1 DEF Aside, Base, TypeOK
<1>4. port # "none" => port' = port
  BY <1>1, <1>2, <1>3, LearnPortIs
<1>5. /\ Quiet(toClient) <=> Quiet(toClient')
      /\ \A m : Lone(toClient, m) => Lone(toClient', m)
  BY <1>1, <1>2, TailOf
<1>6. /\ LastBlock' = LastBlock /\ ServerBlock' = ServerBlock /\ Due' = Due /\ Written' = Written
  BY <1>2 DEF LastBlock, ServerBlock, Due, Written
<1>7. outcome' = "pending" /\ CompleteIsFile' /\ FailsForCause'
  BY <1>1, <1>2 DEF CompleteIsFile, FailsForCause
<1>8. Before => Before'
  BY <1>1, <1>2 DEF Before
<1>9. Under => Under'
  BY <1>2, <1>4, <1>5, <1>6 DEF Under
<1>10. Acked => Acked'
  BY <1>2, <1>4, <1>5, <1>6 DEF Acked
<1>11. Astray => Astray'
  BY <1>2, <1>4, <1>5, <1>6 DEF Astray
<1>12. Failed => Failed'
  BY <1>2, <1>5, <1>6 DEF Failed
<1> QED  BY <1>1, <1>7, <1>8, <1>9, <1>10, <1>11, <1>12 DEF Phase

(* An ERROR arrives: there was a refusal. *)
LEMMA ErrorStep ==
    ASSUME DownloadInv, ReceiveError, Sound
    PROVE  (outcome' = "pending" => Phase') /\ CompleteIsFile' /\ FailsForCause'
<1>1. /\ Base /\ Phase
      /\ outcome = "pending" /\ toClient # <<>> /\ Packet1.kind = "error" /\ ~Aside(Packet1)
  BY ArrivalType DEF DownloadInv, Running, ReceiveError, Aside
<1>2. /\ UNCHANGED <<target, file, oack, blksize, sink, serving, known, toServer, resends, losses, strayed>>
      /\ toClient' = Tail(toClient) /\ outcome' \in {"pending", "none"}
  BY <1>1 DEF ReceiveError, givenVars, serverVars
<1>3. serving # -1
  BY <1>1, ArrivalType DEF ReceiveError
<1>4. Quiet(toClient') /\ Failed
  BY <1>1, <1>2, <1>3, ArrivalIsDue, DueIs
<1>5. LastBlock' = LastBlock /\ LastBlock \in Nat
  BY <1>1, <1>2, GivenIs DEF Base, LastBlock, ServerBlock
<1>6. Failed'
  BY <1>2, <1>4, <1>5, QuietIsLone DEF Failed
<1>7. serving' > LastBlock' /\ sink' = <<>>
  BY <1>5, <1>6 DEF Failed
<1> QED  BY <1>2, <1>6, <1>7 DEF Phase, CompleteIsFile, FailsForCause

(* The request is sent, or is not; the client gives up. *)
LEMMA RequestStep ==
    ASSUME DownloadInv, SendRequest
    PROVE  (Sound' /\ Running' => Phase') /\ CompleteIsFile' /\ FailsForCause'
<1>1. /\ Base /\ outcome = "start" /\ serving = -1 /\ toServer = <<>> /\ losses \in Nat
  BY DEF DownloadInv, SendRequest, Base, OneRequest, TypeOK
<1>2. /\ UNCHANGED <<target, file, oack, blksize, sink, serving, known, toClient, resends, strayed>>
      /\ \/ outcome' = "pending" /\ toServer' = Append(toServer, RRQ) /\ losses' = losses
         \/ outcome' = "none" /\ losses' = losses + 1
  BY DEF SendRequest, RRQ, givenVars, serverVars
<1>3. Append(toServer, RRQ) = <<RRQ>>
  BY <1>1
<1>4. Sound' => Sound
  BY <1>1, <1>2 DEF Sound
<1>5. Sound => Before
  BY <1>1, GivenIs DEF DownloadInv, Running, Phase, Before, Under, Acked, Astray, Failed, Base
<1>6. Sound' /\ Running' => Phase'
  BY <1>2, <1>3, <1>4, <1>5 DEF Phase, Before, Running
<1>7. CompleteIsFile' /\ FailsForCause'
  BY <1>1, <1>2 DEF CompleteIsFile, FailsForCause
<1> QED  BY <1>6, <1>7

LEMMA GiveUpStep ==
    ASSUME DownloadInv, Timeout \/ SpendBudget
    PROVE  ~Running' /\ CompleteIsFile' /\ FailsForCause'
<1>1. /\ UNCHANGED <<target, file, oack, sink, serving, losses, strayed>>
      /\ outcome = "pending" /\ outcome' = "none"
  BY DEF Timeout, SpendBudget, givenVars, serverVars
<1>2. CompleteIsFile' /\ ~Running'
  BY <1>1 DEF CompleteIsFile, Running
<1>3. CASE SpendBudget
  BY <1>1, <1>2, <1>3 DEF FailsForCause, SpendBudget
<1>4. CASE Timeout
  <2>1. toServer = <<>> /\ toClient = <<>> /\ Base /\ LastBlock' = LastBlock
        /\ losses \in Nat /\ strayed \in BOOLEAN /\ LastBlock \in Nat
    BY <1>1, <1>4, GivenIs DEF Timeout, DownloadInv, Base, TypeOK, LastBlock, ServerBlock
  <2>2. CASE losses = 0 /\ ~(strayed /\ target # "native")
    <3>1. Phase
      BY <1>1, <2>2 DEF DownloadInv, Running, Sound
    <3>2. Failed
      BY <1>1, <2>1, <2>2, <3>1, EmptyIsQuiet
         DEF Phase, Before, Under, Acked, Astray, Base, StraysKnown
    <3> QED  BY <1>1, <1>2, <2>1, <3>2 DEF Failed, FailsForCause
  <2>3. CASE losses # 0 \/ (strayed /\ target # "native")
    BY <1>1, <1>2, <2>1, <2>3 DEF FailsForCause
  <2> QED  BY <2>2, <2>3
<1> QED  BY <1>3, <1>4

(* The server and the network change neither the outcome nor the sink. *)
LEMMA CauseStays ==
    ASSUME DownloadInv, UNCHANGED <<target, file, oack, outcome, sink>>,
           losses' \in Nat, strayed' \in BOOLEAN, losses' >= losses, strayed => strayed',
           serving > LastBlock => serving' > LastBlock
    PROVE  /\ FailsForCause' /\ (Sound' => Sound /\ CompleteIsFile')
           /\ Sound' /\ Running' => Phase
<1>1. losses \in Nat /\ strayed \in BOOLEAN /\ LastBlock' = LastBlock
  BY DEF DownloadInv, Base, TypeOK, LastBlock, ServerBlock
<1>2. FailsForCause'
  BY <1>1 DEF DownloadInv, FailsForCause
<1>3. Sound' => Sound
  BY <1>1 DEF Sound
<1>4. Sound' => CompleteIsFile'
  BY <1>3 DEF DownloadInv, CompleteIsFile
<1>5. Sound' /\ Running' => Phase
  BY <1>3 DEF DownloadInv, Running
<1> QED  BY <1>2, <1>3, <1>4, <1>5

(* The request is served, or refused. *)
LEMMA ServeStep ==
    ASSUME DownloadInv, Serve
    PROVE  (Sound' /\ Running' => Phase') /\ (Sound' => CompleteIsFile') /\ FailsForCause'
<1>1. /\ Base /\ TypeOK /\ toClient \in Seq(Packets) /\ LastBlock \in Nat \ {0}
      /\ losses \in Nat /\ strayed \in BOOLEAN
  BY GivenIs DEF DownloadInv, Base, TypeOK
<1>2. /\ UNCHANGED <<target, file, oack, outcome, port, blksize, sink, known, losses, strayed, resends>>
      /\ toServer # <<>> /\ Head(toServer).kind = "rrq" /\ toServer' = Tail(toServer)
      /\ \/ /\ serving' = IF oack = 0 THEN 1 ELSE 0
            /\ toClient' = Emit(serving', known)
         \/ serving' = LastBlock + 1 /\ toClient' = Append(toClient, Refusal)
  BY DEF Serve, ServerGets, Refusal, givenVars, clientVars
<1>3. serving = -1 /\ toServer' = <<>>
  BY <1>1, <1>2, TailKeeps
<1>4. Quiet(toClient)
  BY <1>1, <1>3 DEF Base, OneRequest
<1>5. FailsForCause' /\ (Sound' => CompleteIsFile') /\ (Sound' /\ Running' => Phase)
  BY <1>1, <1>2, <1>3, CauseStays
<1>6. Phase => Before
  BY <1>1, <1>3 DEF Phase, Under, Acked, Astray, Failed
<1>7. /\ LastBlock' = LastBlock /\ ServerBlock' = ServerBlock
  BY <1>2 DEF LastBlock, ServerBlock
<1>8. ASSUME serving' = (IF oack = 0 THEN 1 ELSE 0), toClient' = Emit(serving', known), Before
      PROVE  Under'
  <2>1. serving' \in Nat /\ serving' \in 0 .. LastBlock /\ serving' <= 1
    BY <1>1, <1>8
  <2>2. PICK m \in Packets : m = Due' /\ ~Aside(m) /\ toClient' = Append(toClient, m)
    BY <1>1, <1>2, <1>7, <1>8, <2>1, EmitIs DEF Due
  <2>3. Lone(toClient', Due') /\ ~Quiet(toClient')
    BY <1>1, <1>4, <2>2, AppendTo
  <2>4. Written' = 0
    BY <1>8 DEF Written
  <2>5. sink' = Prefix(file', ServerBlock', Written')
    BY <1>1, <1>2, <1>7, <1>8, <2>4, GivenIs, PrefixEnds DEF Before
  <2>6. IF serving' = 0 THEN oack' # 0 ELSE blksize' = ServerBlock'
    BY <1>2, <1>7, <1>8 DEF Before, ServerBlock
  <2> QED  BY <1>2, <1>3, <1>7, <2>1, <2>3, <2>5, <2>6 DEF Under
<1>9. ASSUME serving' = LastBlock + 1, toClient' = Append(toClient, Refusal), Before
      PROVE  Failed'
  BY <1>1, <1>2, <1>3, <1>4, <1>7, <1>9, AppendTo, MarkersType DEF Failed, Before
<1> QED  BY <1>2, <1>5, <1>6, <1>8, <1>9 DEF Phase

(* The address is known: what was due is sent. *)
LEMMA MacStep ==
    ASSUME DownloadInv, ServerLearnsMac
    PROVE  (Sound' /\ Running' => Phase') /\ (Sound' => CompleteIsFile') /\ FailsForCause'
<1>1. /\ Base /\ TypeOK /\ toClient \in Seq(Packets)
      /\ losses \in Nat /\ strayed \in BOOLEAN /\ serving \in Int
  BY DEF DownloadInv, Base, TypeOK
<1>2. /\ UNCHANGED <<target, file, oack, outcome, port, blksize, sink, serving, losses, strayed, resends>>
      /\ toServer # <<>> /\ Head(toServer).kind = "arp" /\ toServer' = Tail(toServer)
      /\ known' = TRUE
      /\ toClient' = IF known THEN toClient ELSE Emit(serving, TRUE)
  BY DEF ServerLearnsMac, ServerGets, givenVars, clientVars
<1>3. serving # -1 /\ serving \in Nat
  BY <1>1, <1>2, TailKeeps DEF Base, RRQ, Reply
<1>4. FailsForCause' /\ (Sound' => CompleteIsFile') /\ (Sound' /\ Running' => Phase)
  BY <1>1, <1>2, CauseStays
<1>5. /\ LastBlock' = LastBlock /\ ServerBlock' = ServerBlock /\ Written' = Written
      /\ Due' = Piece(file, ServerBlock, serving)
  BY <1>2 DEF LastBlock, ServerBlock, Written, Due
<1>6. ASSUME Quiet(toClient), ~known, toServer = <<ARP>>
      PROVE  Lone(toClient', Due') /\ ~Quiet(toClient') /\ toServer' = <<>>
  <2>1. PICK m \in Packets : m = Due' /\ ~Aside(m) /\ toClient' = Append(toClient, m)
    BY <1>1, <1>2, <1>3, <1>5, <1>6, EmitIs
  <2> QED  BY <1>1, <1>2, <1>6, <2>1, AppendTo, OnlyOne, MarkersType
<1>7. ASSUME Under PROVE Under'
  BY <1>2, <1>5, <1>6, <1>7 DEF Under
<1>8. ASSUME Astray PROVE Astray'
  <2>1. toServer # <<Reply("ack", serving % BlockNumbers, "other")>>
    BY <1>2 DEF Reply
  <2> QED  BY <1>2, <1>5, <1>6, <1>8, <2>1 DEF Astray
<1>9. ~Acked
  BY <1>2 DEF Acked, Reply
<1>10. ~Before /\ ~Failed
  BY <1>2, <1>3 DEF Before, Failed
<1> QED  BY <1>4, <1>7, <1>8, <1>9, <1>10 DEF Phase

(* An ACK arrives: the next block follows, unless it came to another host. *)
LEMMA AckStep ==
    ASSUME DownloadInv, Acknowledged
    PROVE  (Sound' /\ Running' => Phase') /\ (Sound' => CompleteIsFile') /\ FailsForCause'
<1>1. /\ Base /\ TypeOK /\ toClient \in Seq(Packets)
      /\ losses \in Nat /\ strayed \in BOOLEAN /\ serving \in Int
      /\ LastBlock \in Nat \ {0}
  BY GivenIs DEF DownloadInv, Base, TypeOK
<1>2. /\ UNCHANGED <<target, file, oack, outcome, port, blksize, sink, known, losses, strayed, resends>>
      /\ toServer # <<>> /\ Head(toServer).kind = "ack" /\ toServer' = Tail(toServer)
      /\ IF /\ Head(toServer).to = "tid" /\ serving <= LastBlock
            /\ Head(toServer).block = serving % BlockNumbers
         THEN /\ serving' = serving + 1
              /\ toClient' = IF serving < LastBlock THEN Emit(serving + 1, known) ELSE toClient
         ELSE serving' = serving /\ toClient' = toClient
  BY DEF Acknowledged, ServerGets, givenVars, clientVars
<1>3. serving # -1 /\ serving \in Nat
  BY <1>1, <1>2, TailKeeps DEF Base, RRQ, Reply
<1>4. FailsForCause' /\ (Sound' => CompleteIsFile') /\ (Sound' /\ Running' => Phase)
  BY <1>1, <1>2, CauseStays
<1>5. /\ LastBlock' = LastBlock /\ ServerBlock' = ServerBlock
  BY <1>2 DEF LastBlock, ServerBlock
<1>6. ASSUME Acked PROVE Under'
  <2>1. /\ toServer' = <<>> /\ serving < LastBlock
        /\ serving' = serving + 1 /\ toClient' = Emit(serving + 1, known)
    BY <1>1, <1>2, <1>3, <1>6 DEF Acked, Reply
  <2>2. Due' = (IF known THEN Piece(file, ServerBlock, serving + 1) ELSE MacAsk)
    BY <1>2, <1>5, <2>1 DEF Due
  <2>3. PICK m \in Packets : m = Due' /\ ~Aside(m) /\ toClient' = Append(toClient, m)
    BY <1>1, <1>3, <2>1, <2>2, EmitIs
  <2>4. Lone(toClient', Due') /\ ~Quiet(toClient')
    BY <1>1, <1>6, <2>3, AppendTo DEF Acked
  <2>5. serving' # 0 /\ Written' = serving /\ serving' \in 0 .. LastBlock
    BY <1>1, <1>3, <2>1 DEF Written
  <2> QED  BY <1>2, <1>5, <1>6, <2>1, <2>4, <2>5 DEF Under, Acked
<1>7. ASSUME Astray PROVE Astray'
  <2>1. toServer = <<Reply("ack", serving % BlockNumbers, "other")>>
    BY <1>2, <1>7 DEF Astray, ARP, Reply
  <2>2. toServer' = <<>> /\ serving' = serving /\ toClient' = toClient
    BY <1>2, <2>1 DEF Reply
  <2>3. Due' = Due
    BY <1>2, <1>5, <2>2 DEF Due
  <2> QED  BY <1>2, <1>5, <1>7, <2>2, <2>3 DEF Astray
<1>8. ~Under
  BY <1>2 DEF Under, ARP, Reply
<1>9. ~Before /\ ~Failed
  BY <1>2, <1>3 DEF Before, Failed
<1> QED  BY <1>4, <1>6, <1>7, <1>8, <1>9 DEF Phase

(* The server sends again what is due. *)
LEMMA ResendStep ==
    ASSUME DownloadInv, Resend
    PROVE  (Sound' /\ Running' => Phase') /\ (Sound' => CompleteIsFile') /\ FailsForCause'
<1>1. /\ Base /\ TypeOK /\ toClient \in Seq(Packets)
      /\ losses \in Nat /\ strayed \in BOOLEAN /\ serving \in Int
      /\ LastBlock \in Nat \ {0}
  BY GivenIs DEF DownloadInv, Base, TypeOK
<1>2. /\ UNCHANGED <<target, file, oack, outcome, port, blksize, sink, serving, known, losses, strayed, toServer>>
      /\ serving \in 0 .. LastBlock /\ toServer = <<>> /\ toClient = <<>>
      /\ toClient' = Emit(serving, known)
  BY DEF Resend, givenVars, clientVars
<1>3. FailsForCause' /\ (Sound' => CompleteIsFile') /\ (Sound' /\ Running' => Phase)
  BY <1>1, <1>2, CauseStays
<1>4. /\ LastBlock' = LastBlock /\ ServerBlock' = ServerBlock /\ Due' = Due /\ Written' = Written
  BY <1>2 DEF LastBlock, ServerBlock, Due, Written
<1>5. PICK m \in Packets : m = Due /\ ~Aside(m) /\ toClient' = Append(toClient, m)
  BY <1>1, <1>2, EmitIs DEF Due
<1>6. Lone(toClient', Due') /\ ~Quiet(toClient')
  BY <1>1, <1>2, <1>4, <1>5, AppendTo, EmptyIsQuiet
<1>7. Under => Under'
  BY <1>2, <1>4, <1>6 DEF Under
<1>8. Astray => Astray'
  BY <1>2, <1>4, <1>6 DEF Astray
<1>9. ~Before /\ ~Acked /\ ~Failed
  BY <1>1, <1>2 DEF Before, Acked, Failed
<1> QED  BY <1>3, <1>7, <1>8, <1>9 DEF Phase

(***************************************************************************)
(* The network loses a packet: of those in flight only the ACK is missed,  *)
(* for then the server sends again what the sink already holds.            *)
(***************************************************************************)
LEMMA LoseStep ==
    ASSUME DownloadInv, Lose
    PROVE  (Sound' /\ Running' => Phase') /\ (Sound' => CompleteIsFile') /\ FailsForCause'
<1>1. /\ Base /\ TypeOK /\ toClient \in Seq(Packets) /\ toServer \in Seq(Replies)
      /\ losses \in Nat /\ strayed \in BOOLEAN /\ serving \in Int
  BY DEF DownloadInv, Base, TypeOK
<1>2. /\ UNCHANGED <<target, file, oack, outcome, port, blksize, sink, serving, known, strayed, resends>>
      /\ losses' = losses + 1
      /\ \/ toClient # <<>> /\ toClient' = Tail(toClient) /\ toServer' = toServer
         \/ /\ toServer # <<>> /\ (Head(toServer).kind = "ack" => LoseAcks)
            /\ toServer' = Tail(toServer) /\ toClient' = toClient
  BY DEF Lose, givenVars, clientVars, serverVars
<1>3. FailsForCause' /\ (Sound' => CompleteIsFile') /\ (Sound' /\ Running' => Phase)
  BY <1>1, <1>2, CauseStays
<1>4. /\ LastBlock' = LastBlock /\ ServerBlock' = ServerBlock /\ Due' = Due /\ Written' = Written
  BY <1>2 DEF LastBlock, ServerBlock, Due, Written
<1>5. losses' # 0 /\ (Sound' => ~LoseAcks)
  BY <1>1, <1>2 DEF Sound
<1>6. /\ Quiet(toClient) => Quiet(toClient')
      /\ \A m : Lone(toClient, m) => Lone(toClient', m)
  BY <1>1, <1>2, TailOf
<1>7. Before => Before'
  BY <1>2, <1>5 DEF Before
<1>8. Failed => Failed'
  BY <1>2, <1>4, <1>6 DEF Failed
<1>9. toServer = <<ARP>> => toServer' = toServer \/ toServer' = <<>>
  BY <1>2, OnlyOne, MarkersType
<1>10. Under => Under'
  BY <1>2, <1>4, <1>5, <1>6, <1>9 DEF Under
<1>11. ASSUME ~LoseAcks, Head(toServer).kind = "ack" PROVE toServer' = toServer
  BY <1>2, <1>11
<1>12. Sound' /\ Acked => Acked'
  BY <1>2, <1>4, <1>5, <1>6, <1>11 DEF Acked, Reply
<1>13. Sound' /\ Astray => Astray'
  BY <1>2, <1>4, <1>5, <1>6, <1>9, <1>11 DEF Astray, Reply
<1> QED  BY <1>3, <1>7, <1>8, <1>10, <1>12, <1>13 DEF Phase

LEMMA StrayStep ==
    ASSUME DownloadInv, Stray
    PROVE  (Sound' /\ Running' => Phase') /\ (Sound' => CompleteIsFile') /\ FailsForCause'
<1>1. /\ Base /\ TypeOK /\ toClient \in Seq(Packets)
      /\ losses \in Nat /\ strayed \in BOOLEAN /\ serving \in Int
  BY DEF DownloadInv, Base, TypeOK
<1>2. /\ UNCHANGED <<target, file, oack, outcome, port, blksize, sink, serving, known, losses, resends, toServer>>
      /\ strayed'
      /\ \E kind \in {"arp_other", "udp"} : toClient' = Append(toClient, Packet(kind, 0, <<>>))
  BY DEF Stray, StrayKinds, givenVars, clientVars, serverVars
<1>3. PICK kind \in {"arp_other", "udp"} : toClient' = Append(toClient, Packet(kind, 0, <<>>))
  BY <1>2
<1>4. Packet(kind, 0, <<>>) \in Packets /\ Aside(Packet(kind, 0, <<>>))
  BY DEF Packet, Packets, Aside
<1>5. FailsForCause' /\ (Sound' => CompleteIsFile') /\ (Sound' /\ Running' => Phase)
  BY <1>1, <1>2, CauseStays
<1>6. /\ LastBlock' = LastBlock /\ ServerBlock' = ServerBlock /\ Due' = Due /\ Written' = Written
  BY <1>2 DEF LastBlock, ServerBlock, Due, Written
<1>7. /\ Quiet(toClient) => Quiet(toClient')
      /\ \A m : Lone(toClient, m) => Lone(toClient', m)
  BY <1>1, <1>3, <1>4, AppendTo
<1>8. ~Quiet(toClient) => ~Quiet(toClient')
  <2>1. /\ Len(toClient) \in Nat /\ Len(toClient') = Len(toClient) + 1
        /\ \A i \in 1 .. Len(toClient) : toClient'[i] = toClient[i]
    BY <1>1, <1>3, <1>4, AppendProperties
  <2> QED  BY <2>1 DEF Quiet
<1>9. (Before => Before') /\ (Failed => Failed')
  BY <1>2, <1>6, <1>7 DEF Before, Failed
<1>10. Under => Under'
  BY <1>2, <1>6, <1>7, <1>8 DEF Under
<1>11. (Acked => Acked') /\ (Astray => Astray')
  BY <1>2, <1>6, <1>7 DEF Acked, Astray
<1> QED  BY <1>5, <1>9, <1>10, <1>11 DEF Phase

-----------------------------------------------------------------------------
LEMMA DownloadInit == Init => DownloadInv
<1> SUFFICES ASSUME Init PROVE DownloadInv
  OBVIOUS
<1>1. Base /\ Before
  BY BaseInit DEF Init, Before, Base
<1> QED  BY <1>1 DEF Init, DownloadInv, Phase, CompleteIsFile, FailsForCause

LEMMA DownloadStep == DownloadInv /\ [Next]_vars => DownloadInv'
<1> SUFFICES ASSUME DownloadInv, [Next]_vars PROVE DownloadInv'
  OBVIOUS
<1>1. Base' /\ losses \in Nat /\ losses' \in Nat
  BY BaseStep DEF DownloadInv, Base, TypeOK
<1>2. losses' >= losses
  <2>1. CASE SendRequest \/ Lose
    BY <1>1, <2>1 DEF SendRequest, Lose
  <2>2. CASE Receive \/ Timeout \/ SpendBudget
    BY <1>1, <2>2 DEF Receive, AnswerArp, SkipFrame, ReceiveError, ReceiveOack, ReceiveData,
                      Timeout, SpendBudget
  <2>3. CASE Server \/ Resend \/ Stray \/ UNCHANGED vars
    <3>1. Serve => losses' = losses
      BY DEF Serve
    <3>2. ServerLearnsMac => losses' = losses
      BY DEF ServerLearnsMac
    <3>3. Acknowledged => losses' = losses
      BY DEF Acknowledged
    <3>4. Resend \/ Stray \/ UNCHANGED vars => losses' = losses
      BY DEF Resend, Stray, vars
    <3> QED  BY <1>1, <2>3, <3>1, <3>2, <3>3, <3>4 DEF Server
  <2> QED  BY <2>1, <2>2, <2>3 DEF Next, Client
<1>3. CASE ~Sound
  <2>1. losses' > 0 /\ ~Sound'
    BY <1>1, <1>2, <1>3 DEF Sound
  <2> QED  BY <1>1, <2>1 DEF DownloadInv, FailsForCause
<1>4. CASE Sound /\ Receive
  <2>1. /\ outcome' \in {"pending", "none", "some"}
        /\ outcome' = "pending" => Phase'
        /\ CompleteIsFile' /\ FailsForCause'
    <3>1. CASE AnswerArp
      <4>1. outcome' = "pending"
        BY <3>1 DEF AnswerArp, Arrives, clientVars
      <4> QED  BY <1>4, <3>1, <4>1, ArpStep
    <3>2. CASE SkipFrame
      <4>1. outcome' = "pending"
        BY <3>2 DEF SkipFrame, Arrives
      <4> QED  BY <1>4, <3>2, <4>1, SkipStep
    <3>3. CASE ReceiveError
      <4>1. outcome' \in {"pending", "none"}
        BY <3>3 DEF ReceiveError, Arrives
      <4> QED  BY <1>4, <3>3, <4>1, ErrorStep
    <3>4. CASE ReceiveOack
      <4>1. outcome' = "pending"
        BY <3>4 DEF ReceiveOack, Arrives
      <4> QED  BY <1>4, <3>4, <4>1, OackStep
    <3>5. CASE ReceiveData
      <4>1. outcome' \in {"pending", "none", "some"}
        BY <3>5 DEF ReceiveData
      <4> QED  BY <1>4, <3>5, <4>1, DataStep
    <3> QED  BY <1>4, <3>1, <3>2, <3>3, <3>4, <3>5 DEF Receive
  <2> QED  BY <1>1, <2>1 DEF DownloadInv, Running
<1>5. CASE SendRequest
  BY <1>1, <1>5, RequestStep DEF DownloadInv
<1>6. CASE Timeout \/ SpendBudget
  BY <1>1, <1>6, GiveUpStep DEF DownloadInv
<1>7. CASE Serve
  BY <1>1, <1>7, ServeStep DEF DownloadInv
<1>8. CASE ServerLearnsMac
  BY <1>1, <1>8, MacStep DEF DownloadInv
<1>9. CASE Acknowledged
  BY <1>1, <1>9, AckStep DEF DownloadInv
<1>10. CASE Resend
  BY <1>1, <1>10, ResendStep DEF DownloadInv
<1>11. CASE Lose
  BY <1>1, <1>11, LoseStep DEF DownloadInv
<1>12. CASE Stray
  BY <1>1, <1>12, StrayStep DEF DownloadInv
<1>13. CASE UNCHANGED vars
  BY <1>1, <1>13
     DEF vars, givenVars, clientVars, serverVars, DownloadInv, Running, Sound, Phase, Before,
         Under, Acked, Astray, Failed, Due, Written, CompleteIsFile, FailsForCause,
         LastBlock, ServerBlock
<1> QED
  BY <1>3, <1>4, <1>5, <1>6, <1>7, <1>8, <1>9, <1>10, <1>11, <1>12, <1>13
     DEF Next, Client, Server

(* In every state client and server agree on the place of the one packet *)
(* that is under way, and on the blocks that it leaves stored.           *)
THEOREM Downloads == Spec => []DownloadInv
BY DownloadInit, DownloadStep, PTL DEF Spec

(***************************************************************************)
(* A download that reports its size has stored the file byte for byte, if  *)
(* no ACK of the client is lost: for a file of any size, any block size,   *)
(* block numbers that wrap, an OACK or none, and however many blocks,      *)
(* requests and ARP answers are lost and sent again.                       *)
(***************************************************************************)
THEOREM CompletesWithFile == ~LoseAcks /\ Spec => []CompleteIsFile
<1>1. ~LoseAcks /\ DownloadInv => CompleteIsFile
  BY DEF DownloadInv, Sound
<1>2. CASE ~LoseAcks
  <2>1. DownloadInv => CompleteIsFile
    BY <1>1, <1>2
  <2> QED  BY <2>1, Downloads, PTL
<1> QED  BY <1>2

(***************************************************************************)
(* And if an ACK is lost, it is only after that loss that the sink may     *)
(* hold something else than the file.                                      *)
(***************************************************************************)
THEOREM WholeUntilLoss == Spec => [](losses = 0 => CompleteIsFile)
<1>1. DownloadInv => (losses = 0 => CompleteIsFile)
  BY DEF DownloadInv, Sound
<1> QED  BY <1>1, Downloads, PTL

(***************************************************************************)
(* A download that fails has a cause: on a quiet network that loses        *)
(* nothing every file that fits the sink comes through.                    *)
(***************************************************************************)
THEOREM FailsOnlyForCause == Spec => []FailsForCause
<1>1. DownloadInv => FailsForCause
  BY DEF DownloadInv
<1> QED  BY <1>1, Downloads, PTL

-----------------------------------------------------------------------------
(***************************************************************************)
(* The refinement: a download is the abstract transfer.                    *)
(***************************************************************************)
LEMMA GrowsBy ==
    ASSUME NEW s \in Seq(Nat), NEW t \in Seq(Nat)
    PROVE  /\ Len(s \o t) >= Len(s)
           /\ SubSeq(s \o t, 1, Len(s)) = s
<1>1. Len(s) \in Nat /\ Len(t) \in Nat /\ Len(s \o t) = Len(s) + Len(t) /\ s \o t \in Seq(Nat)
  OBVIOUS
<1>2. SubSeq(s \o t, 1, Len(s)) = SubSeq(s, 1, Len(s))
  BY <1>1, SubSeqOfConcat1
<1>3. SubSeq(s, 1, Len(s)) = s
  BY SubSeqFull
<1> QED  BY <1>1, <1>2, <1>3

(* Only a block that arrives changes the sink; all else ends the download or is a stutter. *)
LEMMA AbstractStep ==
    ASSUME DownloadInv, CompleteIsFile', [Next]_vars
    PROVE  [Abstract!Next]_(Abstract!vars)
<1>1. CASE ReceiveData
  <2>1. /\ outcome = "pending" /\ file' = file
        /\ sink \in Seq(Nat) /\ Packet1.data \in Seq(Nat)
    BY <1>1, ArrivalType DEF ReceiveData, DownloadInv, Base, TypeOK, givenVars
  <2>2. CASE Fits(Packet1.data)
    <3>1. sink' = sink \o Packet1.data /\ outcome' \in {"some", "pending"}
      BY <1>1, <2>2 DEF ReceiveData
    <3>2. Abstract!Grows
      BY <2>1, <3>1, GrowsBy DEF Abstract!Grows
    <3>3. outcome' = "some" => sink' = file
      BY <2>1 DEF CompleteIsFile
    <3> QED  BY <2>1, <3>1, <3>2, <3>3 DEF Abstract!Next, Abstract!Receive, Abstract!Succeed
  <2>3. CASE ~Fits(Packet1.data)
    BY <1>1, <2>1, <2>3 DEF ReceiveData, Abstract!Next, Abstract!Fail
  <2> QED  BY <2>2, <2>3
<1>2. CASE SendRequest \/ ReceiveError \/ Timeout \/ SpendBudget
  BY <1>2 DEF SendRequest, ReceiveError, Timeout, SpendBudget, Arrives, givenVars,
              Abstract!Next, Abstract!Fail, Abstract!vars
<1>3. CASE AnswerArp \/ SkipFrame \/ ReceiveOack \/ Server \/ Resend \/ Lose \/ Stray \/ UNCHANGED vars
  BY <1>3 DEF AnswerArp, SkipFrame, ReceiveOack, Server, Serve, ServerLearnsMac, Acknowledged,
              Resend, Lose, Stray, vars, givenVars, clientVars, Abstract!vars
<1> QED  BY <1>1, <1>2, <1>3 DEF Next, Client, Receive

(***************************************************************************)
(* If no ACK is lost, a download implements FileTransfer: the sink only    *)
(* grows, the download ends once, with the file or with None, and nothing  *)
(* is written after that.                                                  *)
(***************************************************************************)
THEOREM ImplementsTransfer == ~LoseAcks /\ Spec => TransfersFile
<1>1. Init => Abstract!Init
  BY DEF Init, Abstract!Init
<1>2. CASE ~LoseAcks
  <2>1. Spec => []CompleteIsFile
    BY <1>2, CompletesWithFile, PTL
  <2>2. DownloadInv /\ CompleteIsFile' /\ [Next]_vars => [Abstract!Next]_(Abstract!vars)
    BY AbstractStep
  <2> QED  BY <1>1, <2>1, <2>2, Downloads, PTL DEF Spec, TransfersFile, Abstract!Spec
<1> QED  BY <1>2
=============================================================================
