---------------------------- MODULE TftpDownload ----------------------------
(***************************************************************************)
(* tftp_download, in the five forms the targets have (bios/src/net.rs,     *)
(* arm64-bare/src/net.rs, uefi/src/net.rs for e1000 and for SNP,           *)
(* native/src/net.rs), against a server and a network that loses packets.  *)
(*                                                                         *)
(* The client keeps nothing but the port it answers to, the block size and *)
(* what the sink holds: it sends one request, then writes down and         *)
(* acknowledges every DATA packet that arrives.  It never sends a packet   *)
(* twice and does not look at block numbers.  Whether the file arrives     *)
(* whole depends on the server's retransmissions and on which packets the  *)
(* network loses, so both are modelled, from what the client needs of      *)
(* them: the server is the one RFC 1350 describes.                         *)
(*                                                                         *)
(* Bytes of the file are numbered; a packet carries a run of them.         *)
(***************************************************************************)
EXTENDS Integers, Sequences, FiniteSets

CONSTANTS
    DEFAULT_BLKSIZE,    \* 512 in the code
    SinkSize,           \* bytes the caller's sink takes
    BlockNumbers,       \* block numbers wrap here (2^16)
    FileSizes,          \* sizes of the file asked for
    OackSizes,          \* block sizes a server may announce; 0: it sends no OACK
    MaxLosses,          \* bound: packets the network loses
    MaxStrays,          \* frames of others that may wait to be received
    MaxResends,         \* the server gives up after so many
    LoseAcks            \* may the client's ACKs be among the lost?

ASSUME SizeAssumption ==
    /\ DEFAULT_BLKSIZE \in Nat \ {0} /\ SinkSize \in Nat /\ BlockNumbers \in Nat \ {0, 1}
    /\ FileSizes \subseteq Nat
    /\ OackSizes \subseteq 0 .. DEFAULT_BLKSIZE
ASSUME FaultAssumption ==
    /\ MaxLosses \in Nat /\ MaxStrays \in Nat /\ MaxResends \in Nat
    /\ LoseAcks \in BOOLEAN

\* bios, arm64, uefi: e1000, a timeout for each packet.  snp: one budget of
\* polls for the whole download.  native: a UDP socket.
Target == {"bios", "arm64", "uefi", "snp", "native"}

VARIABLES
    target, file, oack, \* who downloads what, from a server of which kind
    outcome,            \* "start", then "pending", then "some" or "none"
    port,               \* where ACKs go: "none" yet, the server's "tid", "other"
    blksize, sink,
    toServer, toClient, \* packets in flight, in order
    serving,            \* the server's block in progress, -1 before the request
    known,              \* the server has the client's MAC address
    losses, strayed, resends

clientVars == <<outcome, port, blksize, sink>>
serverVars == <<serving, known, resends>>
givenVars == <<target, file, oack>>
vars == <<givenVars, clientVars, serverVars, toServer, toClient, losses, strayed>>

Packet(kind, block, data) == [kind |-> kind, block |-> block, data |-> data]
Reply(kind, block, to) == [kind |-> kind, block |-> block, to |-> to]

Init ==
    /\ target \in Target
    /\ \E n \in FileSizes : file = [i \in 1 .. n |-> i]
    /\ oack \in OackSizes
    /\ outcome = "start" /\ port = "none" /\ blksize = DEFAULT_BLKSIZE /\ sink = <<>>
    /\ toServer = <<>> /\ toClient = <<>>
    /\ serving = -1 /\ known \in BOOLEAN
    /\ losses = 0 /\ strayed = FALSE /\ resends = 0

(***************************************************************************)
(* The client.                                                             *)
(***************************************************************************)
\* The one request; without it sent there is no download.
SendRequest ==
    /\ outcome = "start"
    /\ \/ /\ outcome' = "pending"
          /\ toServer' = Append(toServer, Reply("rrq", 0, "other"))
          /\ UNCHANGED losses
       \/ /\ losses < MaxLosses
          /\ outcome' = "none" /\ losses' = losses + 1
          /\ UNCHANGED toServer
    /\ UNCHANGED <<givenVars, port, blksize, sink, serverVars, toClient, strayed>>

\* Mutant: the loop goes on after the last block.
Arrives_Always(kinds) == outcome # "start" /\ toClient # <<>> /\ Head(toClient).kind \in kinds

Arrives(kinds) == outcome = "pending" /\ toClient # <<>> /\ Head(toClient).kind \in kinds
Packet1 == Head(toClient)

FromServer(m) == m.kind \in {"data", "oack", "error"}

\* The port the first frame seems to come from; of an ARP request for another
\* host, whatever its bytes say.  bios does not leave out what is not IPv4.
\* native answers each packet of the server's address where it came from.
LearnPort(m) ==
    CASE target = "native" -> IF FromServer(m) THEN "tid" ELSE port
      [] target # "native" /\ port # "none" -> port
      [] target # "native" /\ port = "none" ->
            IF FromServer(m) THEN "tid"
            ELSE IF m.kind = "udp" \/ target = "bios" THEN "other" ELSE "none"

\* Mutant: it is not.
AnswerArp_Never ==
    /\ Arrives({"arp_me"})
    /\ toClient' = Tail(toClient)
    /\ UNCHANGED <<givenVars, clientVars, serverVars, toServer, losses, strayed>>

\* An ARP request for this address is answered.
AnswerArp ==
    /\ Arrives({"arp_me"})
    /\ toServer' = Append(toServer, Reply("arp", 0, "tid"))
    /\ toClient' = Tail(toClient)
    /\ UNCHANGED <<givenVars, clientVars, serverVars, losses, strayed>>

\* Other frames have no TFTP payload, or none of a known opcode.  Each of them
\* still starts the wait of the next receive anew.
SkipFrame ==
    /\ Arrives({"arp_other", "udp"})
    /\ port' = LearnPort(Packet1)
    /\ toClient' = Tail(toClient)
    /\ UNCHANGED <<givenVars, outcome, blksize, sink, serverVars, toServer, losses, strayed>>

\* Native has no case for ERROR: it waits for the next packet.
ReceiveError ==
    /\ Arrives({"error"})
    /\ port' = LearnPort(Packet1)
    /\ outcome' = IF target = "native" THEN outcome ELSE "none"
    /\ toClient' = Tail(toClient)
    /\ UNCHANGED <<givenVars, blksize, sink, serverVars, toServer, losses, strayed>>

ReceiveOack ==
    /\ Arrives({"oack"})
    /\ port' = LearnPort(Packet1)
    /\ blksize' = oack
    /\ toServer' = Append(toServer, Reply("ack", 0, port'))
    /\ toClient' = Tail(toClient)
    /\ UNCHANGED <<givenVars, outcome, sink, serverVars, losses, strayed>>

\* Mutant: a block that fills the block size ends the file.
IsLast_Full(data) == Len(data) <= blksize

IsLast(data) == Len(data) < blksize

\* Mutant: the capacity is not checked.
Fits_Always(data) == TRUE

Fits(data) == Len(sink) + Len(data) <= SinkSize

ReceiveData ==
    /\ Arrives({"data"})
    /\ port' = LearnPort(Packet1)
    /\ toClient' = Tail(toClient)
    /\ IF Fits(Packet1.data)
       THEN /\ sink' = sink \o Packet1.data
            /\ toServer' = Append(toServer, Reply("ack", Packet1.block, port'))
            /\ outcome' = IF IsLast(Packet1.data) THEN "some" ELSE "pending"
       ELSE /\ outcome' = "none"
            /\ UNCHANGED <<sink, toServer>>
    /\ UNCHANGED <<givenVars, blksize, serverVars, losses, strayed>>

\* Mutant: a timeout is reported, and the loop goes on.
Timeout_GoesOn ==
    /\ outcome = "pending" /\ toClient = <<>> /\ toServer = <<>>
    /\ UNCHANGED vars

\* Nothing has come for as long as the client waits for one frame, whoever sent
\* it, and nothing is under way.  Nothing bounds the whole download.
Timeout ==
    /\ outcome = "pending" /\ toClient = <<>> /\ toServer = <<>>
    /\ outcome' = "none"
    /\ UNCHANGED <<givenVars, port, blksize, sink, serverVars, toServer, toClient, losses, strayed>>

\* SNP's bound: 50 million polls, whatever they brought.
SpendBudget ==
    /\ outcome = "pending" /\ target = "snp"
    /\ outcome' = "none"
    /\ UNCHANGED <<givenVars, port, blksize, sink, serverVars, toServer, toClient, losses, strayed>>

Receive == AnswerArp \/ SkipFrame \/ ReceiveError \/ ReceiveOack \/ ReceiveData
Client == SendRequest \/ Receive \/ Timeout

(***************************************************************************)
(* The server.  Block 0 stands for its OACK.                               *)
(***************************************************************************)
ServerBlock == IF oack = 0 THEN DEFAULT_BLKSIZE ELSE oack
LeastOf(a, b) == IF a < b THEN a ELSE b

Block(n) ==
    IF n = 0 THEN Packet("oack", 0, <<>>)
    ELSE Packet("data", n % BlockNumbers,
                SubSeq(file, (n - 1) * ServerBlock + 1, LeastOf(n * ServerBlock, Len(file))))

LastBlock == Len(file) \div ServerBlock + 1

\* Its packets need the client's MAC address.
Emit(n, mac) == Append(toClient, IF mac THEN Block(n) ELSE Packet("arp_me", 0, <<>>))

ServerGets(kind) == toServer # <<>> /\ Head(toServer).kind = kind /\ toServer' = Tail(toServer)

\* The file is there, or it is not; then one ERROR is all that comes.
Serve ==
    /\ ServerGets("rrq")
    /\ UNCHANGED known
    /\ \/ /\ serving' = IF oack = 0 THEN 1 ELSE 0
          /\ toClient' = Emit(serving', known)
       \/ /\ known
          /\ serving' = LastBlock + 1
          /\ toClient' = Append(toClient, Packet("error", 0, <<>>))
    /\ UNCHANGED <<givenVars, clientVars, losses, strayed, resends>>

ServerLearnsMac ==
    /\ ServerGets("arp")
    /\ known' = TRUE
    /\ toClient' = IF known THEN toClient ELSE Emit(serving, TRUE)
    /\ UNCHANGED <<givenVars, clientVars, serving, losses, strayed, resends>>

\* An ACK that came to another port, or of another block, is dropped.
Acknowledged ==
    /\ ServerGets("ack")
    /\ LET ack == Head(toServer) IN
       IF ack.to = "tid" /\ serving <= LastBlock /\ ack.block = serving % BlockNumbers
       THEN /\ serving' = serving + 1
            /\ toClient' = IF serving < LastBlock THEN Emit(serving + 1, known) ELSE toClient
       ELSE UNCHANGED <<serving, toClient>>
    /\ UNCHANGED <<givenVars, clientVars, known, losses, strayed, resends>>

\* The server's timer is longer than a round trip: it sends again only when
\* nothing is under way any more.
Resend ==
    /\ serving \in 0 .. LastBlock /\ resends < MaxResends
    /\ toServer = <<>> /\ toClient = <<>>
    /\ toClient' = Emit(serving, known)
    /\ resends' = resends + 1
    /\ UNCHANGED <<givenVars, clientVars, serving, known, toServer, losses, strayed>>

Server == Serve \/ ServerLearnsMac \/ Acknowledged

(***************************************************************************)
(* The network.                                                            *)
(***************************************************************************)
Lose ==
    /\ losses < MaxLosses
    /\ \/ /\ toClient # <<>>
          /\ toClient' = Tail(toClient)
          /\ UNCHANGED toServer
       \/ /\ toServer # <<>> /\ (Head(toServer).kind = "ack" => LoseAcks)
          /\ toServer' = Tail(toServer)
          /\ UNCHANGED toClient
    /\ losses' = losses + 1
    /\ UNCHANGED <<givenVars, clientVars, serverVars, strayed>>

\* An ARP request for another host, or a UDP packet such as the offer of a
\* second DHCP server, which the client left in the receive ring; to a socket
\* only a packet of another host to its port.  There is no end to them, but only
\* so many wait to be received (the card's ring).
StrayKinds == IF target = "native" THEN {"udp"} ELSE {"arp_other", "udp"}

Stray ==
    /\ Cardinality({i \in DOMAIN toClient : toClient[i].kind \in StrayKinds}) < MaxStrays
    /\ \E kind \in StrayKinds : toClient' = Append(toClient, Packet(kind, 0, <<>>))
    /\ strayed' = TRUE
    /\ UNCHANGED <<givenVars, clientVars, serverVars, toServer, losses>>

Next == Client \/ SpendBudget \/ Server \/ Resend \/ Lose \/ Stray

Spec == Init /\ [][Next]_vars

\* The client receives, and gives up after a bounded wait for one frame, SNP
\* after its budget; what is in flight arrives.  Nothing forces the server to
\* send again.
Fairness == WF_vars(Client) /\ WF_vars(SpendBudget) /\ WF_vars(Server)
FairSpec == Spec /\ Fairness

-----------------------------------------------------------------------------
(* Every variable has its type. *)
TypeOK ==
    /\ target \in Target /\ oack \in OackSizes
    /\ \E n \in FileSizes : file = [i \in 1 .. n |-> i]
    /\ outcome \in {"start", "pending", "some", "none"}
    /\ port \in {"none", "tid", "other"}
    /\ blksize \in Nat
    /\ sink \in Seq(Nat) /\ Len(sink) <= SinkSize
    /\ serving \in Int /\ known \in BOOLEAN
    /\ losses \in Nat /\ strayed \in BOOLEAN /\ resends \in Nat

(***************************************************************************)
(* A download that reports its size has stored the file, byte for byte:    *)
(* the sink is then booted (pxe_boot), or kept as a fetched file.  Without *)
(* block numbers this depends on every ACK arriving: then the server never *)
(* sends a block again that the client has.                                *)
(***************************************************************************)
CompleteIsFile == outcome = "some" => sink = file

(***************************************************************************)
(* A download fails for a cause: a lost packet, a frame of another host    *)
(* (which a socket leaves out), an ERROR, a sink that is too small, or,    *)
(* with SNP, a spent budget.                                               *)
(* Whatever its size, a file on a quiet network that loses nothing comes   *)
(* through, also when the block numbers wrap and when its size is a        *)
(* multiple of the block size.                                             *)
(***************************************************************************)
FailsForCause ==
    outcome = "none" =>
        \/ losses > 0
        \/ strayed /\ target # "native"
        \/ Len(file) > SinkSize
        \/ serving > LastBlock /\ sink = <<>>
        \/ target = "snp"

(***************************************************************************)
(* Every download ends, whatever the network loses and the server does, if *)
(* other hosts fall silent sooner or later: each of their frames starts    *)
(* the client's wait anew, so that without the server they could keep it   *)
(* waiting for ever.  Over SNP it ends even then, by its budget.           *)
(***************************************************************************)
Terminates ==
    \/ <>(outcome \in {"some", "none"})
    \/ target # "snp" /\ []<><<Stray>>_vars

(***************************************************************************)
(* A download is the abstract transfer: it ends once, with the file or with *)
(* None, and the sink the caller then reads is written no more.            *)
(***************************************************************************)
Abstract == INSTANCE FileTransfer
    WITH received <- sink, outcome <- IF outcome = "start" THEN "pending" ELSE outcome

TransfersFile == Abstract!Spec
=============================================================================
