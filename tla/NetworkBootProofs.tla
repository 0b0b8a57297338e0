-------------------------- MODULE NetworkBootProofs --------------------------
(***************************************************************************)
(* Proofs about Dhcp and NetworkBoot: the boot flow takes only the steps   *)
(* that the exchange allows, no two machines take one address, and a       *)
(* network boot runs at most one file.                                     *)
(***************************************************************************)
EXTENDS NetworkBoot, TLAPS

(***************************************************************************)
(* An OFFER of address a to machine m is backed by a reservation, as long  *)
(* as the server has not given it up; so is the lease taken from it.       *)
(***************************************************************************)
Reserved(m, a) == binding[a] = m \/ a \in forgotten

OfferInv ==
    /\ unread \in [Machine -> [Frame -> Nat]]
    /\ binding \in [Address -> Machine \cup {None}]
    /\ lease \in [Machine -> Address \cup {None}]
    /\ \A m, n \in Machine, a \in Address : unread[n][Offer(m, a)] > 0 => Reserved(m, a)
    /\ \A m \in Machine, a \in Address : lease[m] = a => Reserved(m, a)

(* Nothing is unread or leased when the machines are switched on. *)
LEMMA OfferInvInit == DhcpInit => OfferInv
<1> SUFFICES ASSUME DhcpInit PROVE OfferInv
  OBVIOUS
<1>1. \A m \in Machine, a \in Address : Offer(m, a) \in Frame
  BY DEF Offer, Frame
<1> QED
  BY <1>1, DhcpAssumption DEF DhcpInit, OfferInv, NoFrames

(* A frame is taken out of a machine's rings, or they are emptied: no OFFER is new. *)
LEMMA OfferInvLess ==
    ASSUME OfferInv, NEW m \in Machine, NEW left \in [Frame -> Nat],
           unread' = [unread EXCEPT ![m] = left],
           \A f \in Frame : left[f] <= unread[m][f],
           UNCHANGED <<lease, binding, forgotten>>
    PROVE  OfferInv'
<1>1. \A n \in Machine, a \in Address : Offer(n, a) \in Frame
  BY DEF Offer, Frame
<1>2. unread' \in [Machine -> [Frame -> Nat]]
  BY DEF OfferInv
<1>3. ASSUME NEW p \in Machine, NEW n \in Machine, NEW a \in Address, unread'[n][Offer(p, a)] > 0
      PROVE  Reserved(p, a)'
  <2>1. unread[n][Offer(p, a)] > 0
    <3>1. CASE n = m
      <4>1. unread'[n] = left
        BY <3>1 DEF OfferInv
      <4>2. left[Offer(p, a)] \in Nat /\ unread[m][Offer(p, a)] \in Nat
        BY <1>1 DEF OfferInv
      <4> QED
        BY <1>1, <1>3, <3>1, <4>1, <4>2
    <3>2. CASE n # m
      BY <1>3, <3>2 DEF OfferInv
    <3> QED
      BY <3>1, <3>2
  <2> QED
    BY <2>1 DEF OfferInv, Reserved
<1> QED
  BY <1>2, <1>3 DEF OfferInv, Reserved

(* Frames that only go away, whatever else the client does, keep the invariant. *)
LEMMA KeepOffers ==
    ASSUME OfferInv, NEW m \in Machine, NEW left \in [Frame -> Nat],
           \A f \in Frame : left[f] <= unread[m][f],
           Keep(m, left) \/ Restart(m),
           UNCHANGED <<lease, binding, forgotten>>
    PROVE  OfferInv'
<1>1. CASE Keep(m, left)
  BY <1>1, OfferInvLess DEF Keep
<1>2. CASE Restart(m)
  <2>1. NoFrames \in [Frame -> Nat] /\ \A f \in Frame : NoFrames[f] <= unread[m][f]
    BY DEF NoFrames, OfferInv
  <2> QED
    BY <1>2, <2>1, OfferInvLess DEF Restart
<1> QED
  BY <1>1, <1>2

(* A poll that brings nothing. *)
LEMMA NextTryOffers ==
    ASSUME OfferInv, NEW m \in Machine, NEW left \in [Frame -> Nat],
           \A f \in Frame : left[f] <= unread[m][f],
           NextTry(m, left),
           UNCHANGED <<lease, binding, forgotten>>
    PROVE  OfferInv'
<1>1. Keep(m, left) \/ Restart(m)
  BY DEF NextTry, PollAgain, SendAgain, GiveUp
<1> QED
  BY <1>1, KeepOffers

(* A frame that is discarded, or an OFFER that is taken: it was backed, so the lease is. *)
LEMMA ReceiveOffers ==
    ASSUME OfferInv, NEW m \in Machine, Receive(m)
    PROVE  OfferInv'
<1>1. PICK f \in Frame :
        /\ unread[m][f] > 0
        /\ LET left == [unread[m] EXCEPT ![f] = @ - 1] IN
           \/ /\ Accepts(m, f)
              /\ lease' = [lease EXCEPT ![m] = f.addr]
              /\ Keep(m, left)
           \/ Skip(m, left) /\ UNCHANGED lease
  BY DEF Receive
<1> DEFINE left == [unread[m] EXCEPT ![f] = @ - 1]
<1>2. unread[m] \in [Frame -> Nat]
  BY DEF OfferInv
<1>3. left \in [Frame -> Nat] /\ \A g \in Frame : left[g] <= unread[m][g]
  BY <1>1, <1>2
<1>4. UNCHANGED <<binding, forgotten>>
  BY DEF Receive
<1>5. CASE Skip(m, left) /\ UNCHANGED lease
  BY <1>3, <1>4, <1>5, NextTryOffers DEF Skip
<1>6. CASE Accepts(m, f) /\ lease' = [lease EXCEPT ![m] = f.addr] /\ Keep(m, left)
  <2>1. f.addr \in Address /\ f = Offer(m, f.addr)
    BY <1>6, DhcpAssumption DEF Accepts, Frame, Other, Offer
  <2>2. Reserved(m, f.addr)
    BY <1>1, <2>1 DEF OfferInv
  <2>3. \A p, n \in Machine, a \in Address : unread'[n][Offer(p, a)] > 0 => Reserved(p, a)'
    <3> SUFFICES ASSUME NEW p \in Machine, NEW n \in Machine, NEW a \in Address,
                        unread'[n][Offer(p, a)] > 0
                 PROVE  Reserved(p, a)'
      OBVIOUS
    <3>1. Offer(p, a) \in Frame
      BY DEF Offer, Frame
    <3>2. unread[n][Offer(p, a)] > 0
      <4>1. CASE n = m
        <5>1. unread'[n] = left
          BY <1>6, <4>1 DEF Keep, OfferInv
        <5>2. left[Offer(p, a)] \in Nat /\ unread[m][Offer(p, a)] \in Nat
          BY <1>2, <1>3, <3>1
        <5> QED
          BY <1>3, <3>1, <4>1, <5>1, <5>2
      <4>2. CASE n # m
        BY <1>6, <4>2 DEF Keep, OfferInv
      <4> QED
        BY <4>1, <4>2
    <3> QED
      BY <1>4, <3>2 DEF OfferInv, Reserved
  <2>4. \A p \in Machine, a \in Address : lease'[p] = a => Reserved(p, a)'
    BY <1>4, <1>6, <2>2 DEF OfferInv, Reserved
  <2>5. unread' \in [Machine -> [Frame -> Nat]]
    BY <1>3, <1>6 DEF Keep, OfferInv
  <2>6. lease' \in [Machine -> Address \cup {None}]
    BY <1>6, <2>1 DEF OfferInv
  <2> QED
    BY <1>4, <2>3, <2>4, <2>5, <2>6 DEF OfferInv
<1> QED
  BY <1>1, <1>5, <1>6

(* Every step of the machines, the server and the network preserves the invariant. *)
LEMMA OfferInvStep == OfferInv /\ [DhcpNext]_dhcpVars => OfferInv'
<1> SUFFICES ASSUME OfferInv, [DhcpNext]_dhcpVars PROVE OfferInv'
  OBVIOUS
<1>1. CASE UNCHANGED dhcpVars
  BY <1>1 DEF OfferInv, Reserved, dhcpVars, client
<1>2. ASSUME NEW m \in Machine, NEW d \in Driver, Discover(m, d) PROVE OfferInv'
  BY <1>2 DEF Discover, OfferInv, Reserved
<1>3. ASSUME NEW m \in Machine, Client(m) PROVE OfferInv'
  <2>1. CASE Receive(m)
    BY <2>1, ReceiveOffers
  <2>2. CASE Timeout(m)
    <3>1. unread[m] \in [Frame -> Nat] /\ \A f \in Frame : unread[m][f] <= unread[m][f]
      BY DEF OfferInv
    <3> QED
      BY <2>2, <3>1, NextTryOffers DEF Timeout
  <2> QED
    BY <1>3, <2>1, <2>2 DEF Client
<1>4. NoFrames \in [Frame -> Nat] /\ \A m \in Machine, f \in Frame : NoFrames[f] <= unread[m][f]
  BY DEF NoFrames, OfferInv
<1>5. ASSUME NEW m \in Machine, NEW ok \in BOOLEAN, InitCard(m, ok) PROVE OfferInv'
  <2>1. CASE UNCHANGED unread
    BY <1>5, <2>1 DEF InitCard, client, OfferInv, Reserved
  <2>2. CASE unread' = [unread EXCEPT ![m] = NoFrames]
    BY <1>4, <1>5, <2>2, OfferInvLess DEF InitCard, client
  <2> QED
    BY <1>5, <2>1, <2>2 DEF InitCard
<1>6. ASSUME NEW m \in Machine, Drain(m) PROVE OfferInv'
  BY <1>4, <1>6, OfferInvLess DEF Drain, client
<1>7. ASSUME NEW f \in Frame
      PROVE  /\ Broadcast(f) \in [Machine -> [Frame -> Nat]]
             /\ \A n \in Machine, g \in Frame : g # f => Broadcast(f)[n][g] = unread[n][g]
  BY DEF Broadcast, OfferInv
<1>8. \A m \in Machine, a \in Address : Offer(m, a) \in Frame /\ Offer(m, a) # Other
  BY DhcpAssumption DEF Offer, Frame, Other
<1>9. ASSUME NEW m \in Machine, Answer(m) PROVE OfferInv'
  <2>1. PICK a \in IF Mine(m) # {} THEN Mine(m) ELSE Free :
          /\ binding' = [binding EXCEPT ![a] = m]
          /\ unread' = Broadcast(Offer(m, a))
    BY <1>9 DEF Answer
  <2>2. a \in Address /\ binding[a] \in {m, None}
    BY <2>1 DEF Mine, Free
  <2>3. \A p \in Machine, b \in Address : Reserved(p, b) => Reserved(p, b)'
    BY <1>9, <2>1, <2>2, DhcpAssumption DEF Answer, Reserved, OfferInv
  <2>4. Reserved(m, a)'
    BY <2>1, <2>2 DEF Reserved, OfferInv
  <2>5. ASSUME NEW p \in Machine, NEW n \in Machine, NEW b \in Address, unread'[n][Offer(p, b)] > 0
        PROVE  Reserved(p, b)'
    <3>1. CASE p = m /\ b = a
      BY <2>4, <3>1
    <3>2. CASE ~(p = m /\ b = a)
      <4>1. Offer(p, b) # Offer(m, a)
        BY <3>2 DEF Offer
      <4>2. unread[n][Offer(p, b)] > 0
        BY <1>7, <1>8, <2>1, <2>2, <2>5, <4>1
      <4> QED
        BY <2>3, <4>2 DEF OfferInv
    <3> QED
      BY <3>1, <3>2
  <2>6. unread' \in [Machine -> [Frame -> Nat]]
    BY <1>7, <1>8, <2>1, <2>2
  <2> QED
    BY <1>9, <2>1, <2>2, <2>3, <2>5, <2>6 DEF Answer, client, OfferInv
<1>10. CASE Forget
  BY <1>10, DhcpAssumption DEF Forget, Free, client, OfferInv, Reserved
<1>11. CASE Stray
  <2>1. Other \in Frame /\ unread' = Broadcast(Other)
    BY <1>11 DEF Stray, Frame
  <2>2. unread' \in [Machine -> [Frame -> Nat]]
    BY <1>7, <2>1
  <2>3. \A m, n \in Machine, a \in Address : unread'[n][Offer(m, a)] = unread[n][Offer(m, a)]
    BY <1>7, <1>8, <2>1
  <2> QED
    BY <1>11, <2>2, <2>3 DEF Stray, client, OfferInv, Reserved
<1>12. ASSUME NEW m \in Machine, Lose(m) PROVE OfferInv'
  BY <1>12 DEF Lose, client, OfferInv, Reserved
<1> QED
  BY <1>1, <1>2, <1>3, <1>5, <1>6, <1>9, <1>10, <1>11, <1>12 DEF DhcpNext, Server, Network, DhcpStep

(* The invariant leaves two machines with one address only one way out. *)
LEMMA OfferInvOwn == OfferInv => OwnAddress
<1> SUFFICES ASSUME OfferInv, NEW m \in Machine, NEW n \in Machine,
                    m # n, lease[m] = lease[n], lease[m] # None
             PROVE  lease[m] \in forgotten
  BY DEF OwnAddress
<1>1. lease[m] \in Address
  BY DEF OfferInv
<1> QED
  BY <1>1 DEF OfferInv, Reserved

(***************************************************************************)
(* parse_response (common/src/dhcp.rs 119-258) tells an OFFER apart by the *)
(* MAC address alone: that is enough for any number of machines, addresses *)
(* and tries, over either driver, with OFFERs left unread for any time.    *)
(***************************************************************************)
THEOREM DhcpOwnAddress == DhcpSpec => []OwnAddress
BY OfferInvInit, OfferInvStep, OfferInvOwn, PTL DEF DhcpSpec

-----------------------------------------------------------------------------
(* Every step of the boot flow is one of the exchange, or leaves it alone. *)
LEMMA FlowStep == [Next]_vars => [DhcpNext]_dhcpVars
<1> SUFFICES ASSUME Next PROVE DhcpNext \/ UNCHANGED dhcpVars
  BY DEF vars
<1> USE MeAssumption DEF DhcpNext, DhcpStep, Driver
<1>1. CASE Progress
  BY <1>1 DEF Progress, SnpLease, SnpNoLease, Direct, NextTier, NoTierLeft, UseTier, RunDhcp,
     TierLease, TierNoLease, Download, DownloadFails, SnpDownload, SnpDownloadFails, ShellLease,
     ShellNoLease, Reads
<1>2. CASE User
  BY <1>2 DEF User, Reads, ScanNetwork, OpenShell, ShellDhcp, Fetch, CloseShell, ChainLoad
<1>3. CASE Returns
  BY <1>3 DEF Returns
<1>4. CASE Poll
  BY <1>4 DEF Poll
<1>5. CASE Others
  BY <1>5 DEF Others
<1>6. CASE Outside
  BY <1>6 DEF Outside
<1> QED
  BY <1>1, <1>2, <1>3, <1>4, <1>5, <1>6 DEF Next

(* The boot flow is an exchange among others: what holds of Dhcp holds of it. *)
THEOREM FlowIsDhcp == Spec => DhcpSpec
BY FlowStep, PTL DEF Spec, Init, DhcpSpec

(***************************************************************************)
(* Nor does the boot flow (scan_network_devices, scan_network,             *)
(* setup_fetch_context), in whatever order its ways are taken, lead to two *)
(* machines with one address.                                              *)
(***************************************************************************)
THEOREM FlowOwnAddress == Spec => []OwnAddress
BY FlowIsDhcp, DhcpOwnAddress, PTL

-----------------------------------------------------------------------------
(***************************************************************************)
(* For the flow's own properties: a file is run only by an attempt that    *)
(* has run none; a machine waits for an OFFER only where the flow does;    *)
(* the direct driver keeps the card from init to the download; and the     *)
(* shell's context is the last lease until the next one arrives.           *)
(***************************************************************************)
Clients ==
    /\ phase \in [Machine -> {"off", "wait", "bound", "failed"}]
    /\ how \in [Machine -> Driver]
    /\ lease \in [Machine -> Address \cup {None}]
    /\ owner \in [Machine -> Driver \cup {None}]

RunInv ==
    /\ ran = 0 \/ (ran = 1 /\ pc \in File)
    /\ pc \in {"direct", "download", "snpdownload"} => file \in File

CardInv ==
    /\ phase[Me] = "wait" => pc \in {"snp", "dhcp", "shelldhcp"}
    /\ pc \in {"dhcp", "shelldhcp"} => how[Me] = "e1000"
    /\ pc \in {"ready", "dhcp", "download"} => owner[Me] = "e1000"

ContextInv ==
    /\ pc = "script" =>
        /\ ctx.attempt = attempts /\ ctx.addr = lease[Me]
        /\ ctx.via = owner[Me]
    /\ net => pc \in {"shell", "shellready", "shelldhcp"}
    /\ (net /\ (pc = "shelldhcp" => phase[Me] # "bound")) =>
        ctx.via = "e1000" /\ ctx.addr = lease[Me]

FlowInv == Clients /\ RunInv /\ CardInv /\ ContextInv

(* FlowInv holds when the menu first appears. *)
LEMMA FlowInvInit == Init => FlowInv
<1> SUFFICES ASSUME Init PROVE FlowInv
  OBVIOUS
<1> QED
  BY MeAssumption DEF Init, DhcpInit, FlowInv, Clients, RunInv, CardInv, ContextInv, Driver, File

(* What one machine's step leaves of another machine's part of the state. *)
LEMMA ClientsStep ==
    ASSUME Clients, NEW m \in Machine, DhcpStep(m)
    PROVE  /\ Clients'
           /\ \A n \in Machine \ {m} :
                UNCHANGED <<phase[n], how[n], lease[n], owner[n]>>
<1> USE DEF Clients
<1>1. ASSUME NEW d \in Driver, Discover(m, d)
      PROVE  /\ Clients'
             /\ \A n \in Machine \ {m} : UNCHANGED <<phase[n], how[n], lease[n], owner[n]>>
  BY <1>1 DEF Discover, Done
<1>2. ASSUME NEW left, NextTry(m, left), UNCHANGED <<how, lease>>
      PROVE  /\ Clients'
             /\ \A n \in Machine \ {m} : UNCHANGED <<phase[n], how[n], lease[n], owner[n]>>
  BY <1>2 DEF NextTry, PollAgain, SendAgain, GiveUp, Done, Keep, Restart, Driver
<1>3. CASE Timeout(m)
  BY <1>2, <1>3 DEF Timeout
<1>4. CASE Receive(m)
  <2>1. PICK f \in Frame :
          \/ /\ Done(m, "bound")
             /\ lease' = [lease EXCEPT ![m] = f.addr]
             /\ UNCHANGED owner
          \/ /\ Skip(m, [unread[m] EXCEPT ![f] = @ - 1])
             /\ UNCHANGED lease
    BY <1>4 DEF Receive, Keep
  <2>2. f.addr \in Address \cup {None}
    BY DEF Frame, Other
  <2>3. UNCHANGED how
    BY <1>4 DEF Receive
  <2>4. CASE Done(m, "bound") /\ lease' = [lease EXCEPT ![m] = f.addr] /\ UNCHANGED owner
    BY <2>2, <2>3, <2>4 DEF Done
  <2>5. CASE Skip(m, [unread[m] EXCEPT ![f] = @ - 1]) /\ UNCHANGED lease
    BY <1>2, <2>3, <2>5 DEF Skip
  <2> QED
    BY <2>1, <2>4, <2>5
<1>5. ASSUME NEW ok \in BOOLEAN, InitCard(m, ok)
      PROVE  /\ Clients'
             /\ \A n \in Machine \ {m} : UNCHANGED <<phase[n], how[n], lease[n], owner[n]>>
  BY <1>5 DEF InitCard, client, Driver
<1>6. CASE Drain(m)
  BY <1>6 DEF Drain, client
<1> QED
  BY <1>1, <1>3, <1>4, <1>5, <1>6 DEF DhcpStep, Client

(* A poll answers a wait; it changes the lease only to end it, the owner only over SNP. *)
LEMMA ClientEffect ==
    ASSUME Clients, NEW m \in Machine, Client(m)
    PROVE  /\ phase[m] = "wait"
           /\ UNCHANGED how
           /\ lease'[m] = lease[m] \/ phase'[m] = "bound"
           /\ how[m] = "e1000" => UNCHANGED owner
<1> USE DEF Clients
<1>1. ASSUME NEW left, NextTry(m, left)
      PROVE  how[m] = "e1000" => UNCHANGED owner
  BY <1>1 DEF NextTry, PollAgain, SendAgain, GiveUp, Keep
<1>2. CASE Timeout(m)
  BY <1>1, <1>2 DEF Timeout
<1>3. CASE Receive(m)
  BY <1>1, <1>3 DEF Receive, Skip, Keep, Done
<1> QED
  BY <1>2, <1>3 DEF Client

(* What the calls that the flow makes do to its own machine's part of the state. *)
LEMMA CallEffects ==
    ASSUME Clients, NEW m \in Machine
    PROVE  /\ \A d \in Driver : Discover(m, d) =>
                /\ Clients' /\ phase[m] # "wait" /\ phase'[m] \in {"wait", "failed"}
                /\ how'[m] = d /\ UNCHANGED <<lease, owner>>
           /\ \A ok \in BOOLEAN : InitCard(m, ok) =>
                /\ Clients' /\ phase[m] # "wait" /\ UNCHANGED client
                /\ owner'[m] = IF ok THEN "e1000" ELSE None
           /\ Drain(m) => Clients' /\ phase[m] # "wait" /\ UNCHANGED <<client, owner>>
<1> USE DEF Clients
<1>1. ASSUME NEW d \in Driver, Discover(m, d)
      PROVE  /\ phase[m] # "wait" /\ phase'[m] \in {"wait", "failed"}
             /\ how'[m] = d /\ UNCHANGED <<lease, owner>>
  BY <1>1 DEF Discover, Done
<1>2. ASSUME NEW ok \in BOOLEAN, InitCard(m, ok)
      PROVE  /\ phase[m] # "wait" /\ UNCHANGED client
             /\ owner'[m] = IF ok THEN "e1000" ELSE None
  BY <1>2 DEF InitCard
<1>3. Drain(m) => phase[m] # "wait" /\ UNCHANGED <<client, owner>>
  BY DEF Drain
<1>4. DhcpStep(m) => Clients'
  BY ClientsStep
<1> QED
  BY <1>1, <1>2, <1>3, <1>4 DEF DhcpStep

(* Every step of the flow, of the other machines and of the network preserves FlowInv. *)
LEMMA FlowInvStep == FlowInv /\ [Next]_vars => FlowInv'
<1> SUFFICES ASSUME FlowInv, [Next]_vars PROVE FlowInv'
  OBVIOUS
<1> USE MeAssumption DEF FlowInv, RunInv, CardInv, ContextInv, File
<1>c. /\ \A d \in Driver : Discover(Me, d) =>
            /\ Clients' /\ phase[Me] # "wait" /\ phase'[Me] \in {"wait", "failed"}
            /\ how'[Me] = d /\ UNCHANGED <<lease, owner>>
      /\ \A ok \in BOOLEAN : InitCard(Me, ok) =>
            /\ Clients' /\ phase[Me] # "wait" /\ UNCHANGED client
            /\ owner'[Me] = IF ok THEN "e1000" ELSE None
      /\ Drain(Me) => Clients' /\ phase[Me] # "wait" /\ UNCHANGED <<client, owner>>
  BY CallEffects
<1>u. UNCHANGED dhcpVars => UNCHANGED <<client, owner>> /\ Clients'
  BY DEF dhcpVars, Clients, client
<1>1. CASE UNCHANGED vars
  BY <1>u, <1>1 DEF vars, flow, machine, client
<1>2. CASE ScanNetwork
  BY <1>c, <1>u, <1>2 DEF ScanNetwork, machine, Driver, client
<1>3. CASE SnpLease
  BY <1>c, <1>u, <1>3 DEF SnpLease, Reads, Offered, Goto, client
<1>4. CASE SnpNoLease
  BY <1>u, <1>4 DEF SnpNoLease, Goto, client
<1>5. CASE Direct
  BY <1>c, <1>u, <1>5 DEF Direct, Goto, client
<1>6. CASE NextTier
  BY <1>c, <1>u, <1>6 DEF NextTier, PassOver, client
<1>7. CASE NoTierLeft
  BY <1>u, <1>7 DEF NoTierLeft, Goto, client
<1>8. CASE UseTier
  BY <1>c, <1>8 DEF UseTier, Goto, client
<1>9. CASE RunDhcp
  BY <1>c, <1>9 DEF RunDhcp, Goto, Driver
<1>10. CASE TierLease
  BY <1>u, <1>10 DEF TierLease, Offered, Goto, client
<1>11. CASE TierNoLease
  BY <1>u, <1>11 DEF TierNoLease, PassOver, Goto, client
<1>12. CASE Download
  BY <1>c, <1>u, <1>12 DEF Download, Reads, Run, SetContext, Context, client
<1>13. CASE DownloadFails
  BY <1>c, <1>u, <1>13 DEF DownloadFails, Reads, Goto, client
<1>14. CASE SnpDownload
  BY <1>c, <1>u, <1>14 DEF SnpDownload, Reads, Run, SetContext, Context, client
<1>15. CASE SnpDownloadFails
  BY <1>c, <1>u, <1>15 DEF SnpDownloadFails, Reads, Goto, client
<1>16. CASE Returns
  BY <1>u, <1>16 DEF Returns, Goto, client
<1>17. CASE OpenShell
  BY <1>u, <1>17 DEF OpenShell, Goto, client
<1>18. CASE ShellDhcp
  BY <1>c, <1>18 DEF ShellDhcp, machine, client
<1>19. CASE ShellLease
  BY <1>u, <1>19 DEF ShellLease, Context, machine, client
<1>20. CASE ShellNoLease
  BY <1>u, <1>20 DEF ShellNoLease, Goto, client
<1>21. CASE Fetch
  BY <1>c, <1>u, <1>21 DEF Fetch, Reads, flow, client
<1>22. CASE CloseShell
  BY <1>u, <1>22 DEF CloseShell, Goto, client
<1>23. CASE ChainLoad
  BY <1>u, <1>23 DEF ChainLoad, Goto, client
<1>24. CASE Poll
  <2>1. Clients'
    BY <1>24, ClientsStep DEF Poll, DhcpStep
  <2>2. /\ phase[Me] = "wait" /\ UNCHANGED how
        /\ lease'[Me] = lease[Me] \/ phase'[Me] = "bound"
        /\ how[Me] = "e1000" => UNCHANGED owner
    BY <1>24, ClientEffect DEF Poll
  <2> QED
    BY <1>24, <2>1, <2>2 DEF Poll, flow
<1>25. CASE Others
  <2>1. PICK m \in Machine \ {Me} : DhcpStep(m) /\ UNCHANGED flow
    BY <1>25 DEF Others, DhcpStep, Driver
  <2>2. Clients' /\ UNCHANGED <<phase[Me], how[Me], lease[Me], owner[Me]>>
    BY <2>1, ClientsStep
  <2> QED
    BY <2>1, <2>2 DEF flow
<1>26. CASE Outside
  <2>1. UNCHANGED <<client, owner, flow>>
    BY <1>26 DEF Outside, Server, Network, Answer, Forget, Stray, Lose
  <2> QED
    BY <2>1 DEF client, flow, Clients
<1> QED
  BY <1>1, <1>2, <1>3, <1>4, <1>5, <1>6, <1>7, <1>8, <1>9, <1>10, <1>11, <1>12, <1>13, <1>14,
     <1>15, <1>16, <1>17, <1>18, <1>19, <1>20, <1>21, <1>22, <1>23, <1>24, <1>25, <1>26
     DEF Next, Progress, User

(* What the invariant is for. *)
LEMMA FlowInvUse == FlowInv => RunsOnce /\ FetchContext
BY DEF FlowInv, RunInv, CardInv, ContextInv, RunsOnce, FetchContext

(***************************************************************************)
(* On every target, with whatever hardware and after any number of         *)
(* attempts, a network boot runs at most one file: no image that comes     *)
(* back is followed by the next way of booting (uefi/src/net.rs 1412, 550, *)
(* 1768).                                                                  *)
(***************************************************************************)
THEOREM FlowRunsOnce == Spec => []RunsOnce
BY FlowInvInit, FlowInvStep, FlowInvUse, PTL DEF Spec

(***************************************************************************)
(* A booted script's fetch() uses the lease and the driver of its own      *)
(* boot, and the shell's the last lease (set_context,                      *)
(* setup_fetch_context): no earlier attempt's context is ever left over.   *)
(***************************************************************************)
THEOREM FlowFetchContext == Spec => []FetchContext
BY FlowInvInit, FlowInvStep, FlowInvUse, PTL DEF Spec
=============================================================================
