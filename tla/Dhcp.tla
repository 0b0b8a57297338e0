-------------------------------- MODULE Dhcp --------------------------------
(***************************************************************************)
(* The DHCP exchange of the loader: one DISCOVER (over UEFI's SNP: four),  *)
(* then frames are looked at until one is an OFFER for this machine.  The  *)
(* OFFER is taken as final: no REQUEST is ever sent, so nothing confirms   *)
(* the server's reservation.  The transaction number is a constant, so an  *)
(* answer is told apart by the machine's MAC address alone.                *)
(*                                                                         *)
(* Several machines share one network and one server.  The DISCOVER asks   *)
(* for broadcast answers: every card receives every OFFER.                 *)
(***************************************************************************)
EXTENDS Naturals, FiniteSets

CONSTANTS
    Machine,        \* machines that boot, known by their MAC addresses
    Address,        \* the server's pool
    None,           \* no machine, no address
    Tries,          \* polls of the card after one DISCOVER (4, 100 or 500000)
    SnpSends,       \* DISCOVERs of one call over SNP (4)
    MaxUnread,      \* bound: copies of one frame unread in a card
    MaxTrouble      \* bound: noise, lost DISCOVERs, reservations given up, together

ASSUME DhcpAssumption ==
    /\ None \notin Machine /\ None \notin Address
    /\ Tries \in Nat \ {0} /\ SnpSends \in Nat \ {0} /\ MaxUnread \in Nat
    /\ MaxTrouble \in Nat

Trouble(n, l, s) == n + l + Cardinality(s) <= MaxTrouble

Driver == {"e1000", "snp"}     \* this program's driver, the firmware's

Offer(m, a) == [to |-> m, addr |-> a]
Other == [to |-> None, addr |-> None]      \* ARP and everything else
Frame == [to : Machine, addr : Address] \cup {Other}
NoFrames == [f \in Frame |-> 0]

VARIABLES
    phase,      \* of each machine: "off", "wait", "bound" or "failed"
    how,        \* driver its dhcp_run uses
    tries,      \* polls since the last DISCOVER
    sends,      \* DISCOVERs sent in this call
    lease,      \* address of the last OFFER taken
    owner,      \* driver whose rings the card uses; None after a failed init
    unread,     \* frames in those rings: how many of each
    asks,       \* machines whose DISCOVER is on its way
    binding,    \* the server's reservations
    forgotten,  \* history: reservations given up
    noise,      \* stray frames, and polls that ended too soon for the answer
    lost        \* DISCOVERs that never reached the server

client == <<phase, how, tries, sends, lease>>
budget == <<noise, lost>>
dhcpVars == <<client, owner, unread, asks, binding, forgotten, budget>>

DhcpInit ==
    /\ phase = [m \in Machine |-> "off"]
    /\ how \in [Machine -> {"e1000"}]
    /\ tries = [m \in Machine |-> 0]
    /\ sends = [m \in Machine |-> 0]
    /\ lease = [m \in Machine |-> None]
    /\ owner \in [Machine -> Driver \cup {None}]
    /\ unread = [m \in Machine |-> NoFrames]
    /\ asks = {}
    /\ binding = [a \in Address |-> None]
    /\ forgotten = {}
    /\ noise = 0 /\ lost = 0

(***************************************************************************)
(* What a card sends and receives passes through the rings of its owner;   *)
(* the other driver sends into the void and hears nothing.                 *)
(***************************************************************************)
Hears(m) == how[m] = owner[m]
Silence(m) == ~Hears(m) \/ \A f \in Frame : unread[m][f] = 0

\* The counters are locals of dhcp_run.
Done(m, p) ==
    /\ phase' = [phase EXCEPT ![m] = p]
    /\ tries' = [tries EXCEPT ![m] = 0]
    /\ sends' = [sends EXCEPT ![m] = 0]

Sent(m, d) == asks' = IF d = owner'[m] THEN asks \cup {m} ELSE asks

\* dhcp_run: the first DISCOVER.  A send that fails ends the call.
Discover(m, d) ==
    /\ phase[m] # "wait"
    /\ how' = [how EXCEPT ![m] = d]
    /\ UNCHANGED owner
    /\ \/ /\ phase' = [phase EXCEPT ![m] = "wait"]
          /\ sends' = [sends EXCEPT ![m] = 1]
          /\ UNCHANGED tries
          /\ Sent(m, d)
       \/ Done(m, "failed") /\ UNCHANGED asks
    /\ UNCHANGED <<lease, unread, binding, forgotten, budget>>

(***************************************************************************)
(* A poll has brought nothing and left these frames unread: poll again,    *)
(* send again, or give up.  Before it sends again the ARM64 loader         *)
(* restarts the firmware's driver, which may win the card back.            *)
(***************************************************************************)
Keep(m, left) ==
    /\ unread' = [unread EXCEPT ![m] = left]
    /\ UNCHANGED owner

Restart(m) ==
    /\ unread' = [unread EXCEPT ![m] = NoFrames]
    /\ owner' = [owner EXCEPT ![m] = "snp"]

\* Mutant: one poll too many.
PollAgain_OffByOne(m, left) ==
    /\ tries[m] < Tries
    /\ tries' = [tries EXCEPT ![m] = @ + 1]
    /\ Keep(m, left)
    /\ UNCHANGED <<phase, sends, asks, lost>>

PollAgain(m, left) ==
    /\ tries[m] + 1 < Tries
    /\ tries' = [tries EXCEPT ![m] = @ + 1]
    /\ Keep(m, left)
    /\ UNCHANGED <<phase, sends, asks, lost>>

SendAgain(m, left) ==
    /\ tries[m] + 1 >= Tries
    /\ how[m] = "snp" /\ sends[m] < SnpSends
    /\ Keep(m, left) \/ Restart(m)
    /\ \/ /\ tries' = [tries EXCEPT ![m] = 0]
          /\ sends' = [sends EXCEPT ![m] = @ + 1]
          /\ Sent(m, "snp")
          /\ UNCHANGED <<phase, lost>>
       \/ /\ Trouble(noise', lost + 1, forgotten)
          /\ lost' = lost + 1
          /\ Done(m, "failed")
          /\ UNCHANGED asks

GiveUp(m, left) ==
    /\ tries[m] + 1 >= Tries
    /\ how[m] = "snp" => sends[m] >= SnpSends
    /\ Done(m, "failed")
    /\ Keep(m, left)
    /\ UNCHANGED <<asks, lost>>

NextTry(m, left) == PollAgain(m, left) \/ SendAgain(m, left) \/ GiveUp(m, left)

\* Mutant: any OFFER will do.
Accepts_AnyMac(m, f) == f # Other

\* parse_response: an OFFER (or ACK) with this machine's MAC address.
Accepts(m, f) == f.to = m

\* Mutant: the first frame that is no OFFER ends the wait.
Skip_Aborts(m, left) ==
    /\ Done(m, "failed")
    /\ Keep(m, left)
    /\ UNCHANGED <<asks, lost>>

\* A frame that parse_response discards uses up a poll.
Skip(m, left) == NextTry(m, left)

(* A poll that finds a frame; which one, when several are there, is the driver's choice. *)
Receive(m) ==
    /\ phase[m] = "wait" /\ Hears(m)
    /\ UNCHANGED <<how, binding, forgotten, noise>>
    /\ \E f \in Frame :
        /\ unread[m][f] > 0
        /\ LET left == [unread[m] EXCEPT ![f] = @ - 1] IN
           \/ /\ Accepts(m, f)
              /\ Done(m, "bound")
              /\ lease' = [lease EXCEPT ![m] = f.addr]
              /\ Keep(m, left)
              /\ UNCHANGED <<asks, lost>>
           \/ ~Accepts(m, f) /\ Skip(m, left) /\ UNCHANGED lease

(* A poll that finds nothing. *)
Timeout(m) ==
    /\ phase[m] = "wait" /\ Silence(m)
    /\ \/ Hears(m) /\ m \in asks /\ Trouble(noise + 1, lost, forgotten) /\ noise' = noise + 1
       \/ ~(Hears(m) /\ m \in asks) /\ UNCHANGED noise
    /\ NextTry(m, unread[m])
    /\ UNCHANGED <<how, lease, binding, forgotten>>

Client(m) == Receive(m) \/ Timeout(m)

(***************************************************************************)
(* e1000::init: resets the card and, if that succeeds, gives it this       *)
(* program's rings.  Frames unread there from an earlier time stay; those  *)
(* in the firmware's rings are out of reach.                               *)
(***************************************************************************)
InitCard(m, ok) ==
    /\ phase[m] # "wait"
    /\ owner' = [owner EXCEPT ![m] = IF ok THEN "e1000" ELSE None]
    /\ unread' = IF owner[m] = "snp"
                 THEN [unread EXCEPT ![m] = NoFrames]
                 ELSE unread
    /\ UNCHANGED <<client, asks, binding, forgotten, budget>>

\* TFTP, ARP and DNS read the frames that are there and pass them over.
Drain(m) ==
    /\ phase[m] # "wait"
    /\ unread' = [unread EXCEPT ![m] = NoFrames]
    /\ UNCHANGED <<client, owner, asks, binding, forgotten, budget>>

(***************************************************************************)
(* The server and the network.                                             *)
(***************************************************************************)
Mine(m) == {a \in Address : binding[a] = m}
Free == {a \in Address : binding[a] = None}

\* What the cards hold after frame f was broadcast.
Broadcast(f) ==
    [m \in Machine |->
        IF owner[m] # None /\ unread[m][f] < MaxUnread
        THEN [unread[m] EXCEPT ![f] = @ + 1] ELSE unread[m]]

\* The address reserved for this machine, or else a free one.
Answer(m) ==
    /\ m \in asks
    /\ asks' = asks \ {m}
    /\ \E a \in IF Mine(m) # {} THEN Mine(m) ELSE Free :
        /\ binding' = [binding EXCEPT ![a] = m]
        /\ unread' = Broadcast(Offer(m, a))
    /\ UNCHANGED <<client, owner, forgotten, budget>>

\* Nothing has confirmed the reservation, so the server may give the address away.
Forget ==
    /\ \E a \in Address \ Free :
        /\ Trouble(noise, lost, forgotten \cup {a})
        /\ binding' = [binding EXCEPT ![a] = None]
        /\ forgotten' = forgotten \cup {a}
    /\ UNCHANGED <<client, owner, unread, asks, budget>>

Stray ==
    /\ Trouble(noise + 1, lost, forgotten)
    /\ noise' = noise + 1
    /\ unread' = Broadcast(Other)
    /\ UNCHANGED <<client, owner, asks, binding, forgotten, lost>>

Lose(m) ==
    /\ m \in asks /\ Trouble(noise, lost + 1, forgotten)
    /\ lost' = lost + 1
    /\ asks' = asks \ {m}
    /\ UNCHANGED <<client, owner, unread, binding, forgotten, noise>>

Server == \E m \in Machine : Answer(m)
Network == Forget \/ Stray \/ \E m \in Machine : Lose(m)

DhcpStep(m) ==
    \/ \E d \in Driver : Discover(m, d)
    \/ Client(m)
    \/ \E ok \in BOOLEAN : InitCard(m, ok)
    \/ Drain(m)

DhcpNext == Server \/ Network \/ \E m \in Machine : DhcpStep(m)

DhcpSpec == DhcpInit /\ [][DhcpNext]_dhcpVars

-----------------------------------------------------------------------------
(* Every variable has its type. *)
DhcpTypeOK ==
    /\ phase \in [Machine -> {"off", "wait", "bound", "failed"}]
    /\ how \in [Machine -> Driver]
    /\ tries \in [Machine -> 0 .. Tries - 1]
    /\ sends \in [Machine -> 0 .. SnpSends]
    /\ lease \in [Machine -> Address \cup {None}]
    /\ owner \in [Machine -> Driver \cup {None}]
    /\ unread \in [Machine -> [Frame -> 0 .. MaxUnread]]
    /\ asks \subseteq Machine
    /\ binding \in [Address -> Machine \cup {None}]
    /\ forgotten \subseteq Address
    /\ noise \in Nat /\ lost \in Nat /\ Trouble(noise, lost, forgotten)

(***************************************************************************)
(* Two machines that boot side by side and see each other's OFFERs never   *)
(* take the same address, unless the server gave up its reservation, which *)
(* it may because no REQUEST ever confirms one (parse_response lines       *)
(* 244-248).  Also with OFFERs left unread since an earlier call.          *)
(***************************************************************************)
OwnAddress ==
    \A m, n \in Machine : (m # n /\ lease[m] = lease[n] /\ lease[m] # None) => lease[m] \in forgotten

(***************************************************************************)
(* "tolerate timeouts instead of aborting on the first one and keep going  *)
(* past ARP/other traffic" (bios/src/net.rs:178-180): a machine whose      *)
(* driver has the card from its first DISCOVER on gets its lease, though   *)
(* other frames come first.                                                *)
(* The direct drivers send one DISCOVER and have no second chance when it  *)
(* is lost; SNP has one.                                                   *)
(***************************************************************************)
Configured(m) ==
    (phase[m] = "wait" /\ Hears(m) /\ sends[m] = 1)
        ~> (phase[m] = "bound" \/ lost > (IF how[m] = "e1000" THEN 0 ELSE 1))
=============================================================================
