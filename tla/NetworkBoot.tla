---------------------------- MODULE NetworkBoot ----------------------------
(***************************************************************************)
(* The boot flow of one machine, Me: menu, network boot, shell.  Network   *)
(* boot runs DHCP over the UEFI Simple Network Protocol (SNP) or over the  *)
(* direct e1000 driver, downloads the file that the OFFER names and runs   *)
(* it; what fails leads to the next way of doing it.  A download is what   *)
(* FileTransfer promises: the whole file or a failure.                     *)
(*                                                                         *)
(* Other machines boot on the same network: Dhcp has their steps.          *)
(***************************************************************************)
EXTENDS Dhcp, Sequences

CONSTANTS
    Me,             \* the machine whose flow is followed
    MaxAttempts     \* bound: network boots and `dhcp' commands

ASSUME MeAssumption == Me \in Machine /\ MaxAttempts \in Nat

(* Ways in which a target looks for an e1000, in turn. *)
Tiers == [bios |-> <<"pci">>,                               \* and ARM64 without firmware
          uefi |-> <<"path", "pciio", "image", "pci">>,
          uefi_arm |-> <<"pci">>]

(* Files that an OFFER names: a Lua script, or what execute_file starts or shows. *)
File == {"script", "image"}

VARIABLES
    target,     \* "bios", "uefi" or "uefi_arm"
    hasSnp,     \* the firmware has an SNP handle
    hasCard,    \* there is an e1000; SNP, if any, drives it
    pc,
    tier,       \* index in Tiers[target]
    file,       \* the file named by the lease of this attempt, or None
    ctx,        \* FETCH_CTX
    net,        \* the shell's fetch() is enabled
    attempts,
    ran         \* history: files run in this attempt

flow == <<pc, tier, file, ctx, net, attempts, ran>>
machine == <<target, hasSnp, hasCard>>
vars == <<dhcpVars, flow, machine>>

NoContext == [via |-> None, addr |-> None, attempt |-> 0]

Init ==
    /\ DhcpInit
    /\ target \in DOMAIN Tiers
    /\ hasSnp \in BOOLEAN /\ hasCard \in BOOLEAN
    /\ target = "bios" => ~hasSnp
    /\ owner = [m \in Machine |-> IF m # Me THEN "e1000" ELSE IF hasSnp THEN "snp" ELSE None]
    /\ pc = "menu" /\ tier = 1
    /\ file = None
    /\ ctx = NoContext /\ net = FALSE
    /\ attempts = 0 /\ ran = 0

\* tier and file are locals of the attempt, fetch() one of the shell's Lua state.
Goto(l) ==
    /\ pc' = l
    /\ IF l = "menu"
       THEN tier' = 1 /\ file' = None /\ ran' = 0 /\ net' = FALSE
       ELSE UNCHANGED <<tier, file, ran, net>>
    /\ UNCHANGED <<ctx, attempts, machine>>

(***************************************************************************)
(* Network boot.  scan_network_devices takes the first SNP handle, unless  *)
(* it cannot be opened or started; scan_network has none.                  *)
(***************************************************************************)
ScanNetwork ==
    /\ pc = "menu" /\ attempts < MaxAttempts
    /\ attempts' = attempts + 1
    /\ \/ hasSnp /\ Discover(Me, "snp") /\ pc' = "snp"
       \/ pc' = "tier" /\ UNCHANGED dhcpVars
    /\ UNCHANGED <<tier, file, ctx, net, ran, machine>>

\* A transfer by driver d reads the frames that are there, if d has the card.
Reads(d) == IF owner[Me] = d THEN Drain(Me) ELSE UNCHANGED dhcpVars

\* The OFFER names a server and a file.
Offered(f, l) ==
    /\ file' = f
    /\ pc' = l
    /\ UNCHANGED <<tier, ctx, net, attempts, ran, machine>>

\* After the lease: a DNS lookup that nothing depends on, then the file.
SnpLease ==
    /\ pc = "snp" /\ phase[Me] = "bound"
    /\ UNCHANGED dhcpVars \/ Reads("snp")
    /\ \/ \E f \in File : Offered(f, "direct")
       \/ Goto("menu")

SnpNoLease == pc = "snp" /\ phase[Me] = "failed" /\ Goto("tier") /\ UNCHANGED dhcpVars

\* pxe_boot_snp takes the card from the firmware to download over it.
Direct ==
    /\ pc = "direct"
    /\ \/ ~hasCard /\ Goto("snpdownload") /\ UNCHANGED dhcpVars
       \/ hasCard /\ InitCard(Me, FALSE) /\ Goto("snpdownload")
       \/ hasCard /\ InitCard(Me, TRUE) /\ Goto("download")

\* Mutant: the way that failed is tried again.
PassOver_Stays ==
    /\ pc' = "tier"
    /\ UNCHANGED <<tier, file, ctx, net, attempts, ran, machine>>

PassOver ==
    /\ pc' = "tier" /\ tier' = tier + 1
    /\ UNCHANGED <<file, ctx, net, attempts, ran, machine>>

\* No card on this way in, or none that can be initialised: the next way.
NextTier ==
    /\ pc = "tier" /\ tier <= Len(Tiers[target])
    /\ \/ (Tiers[target][tier] = "pci" => ~hasCard) /\ UNCHANGED dhcpVars
       \/ hasCard /\ InitCard(Me, FALSE)
    /\ PassOver

NoTierLeft == pc = "tier" /\ tier > Len(Tiers[target]) /\ Goto("menu") /\ UNCHANGED dhcpVars

UseTier ==
    /\ pc = "tier" /\ tier <= Len(Tiers[target]) /\ hasCard
    /\ InitCard(Me, TRUE)
    /\ Goto("ready")

RunDhcp ==
    /\ Discover(Me, "e1000")
    /\ \/ pc = "ready" /\ Goto("dhcp")
       \/ pc = "shellready" /\ Goto("shelldhcp")

\* Only the direct PCI scan goes on to the file; the other ways return the lease.
TierLease ==
    /\ pc = "dhcp" /\ phase[Me] = "bound"
    /\ \/ Tiers[target][tier] = "pci" /\ \E f \in File : Offered(f, "download")
       \/ Goto("menu")
    /\ UNCHANGED dhcpVars

\* scan_network stops at the first card; the UEFI scan tries its next way.
TierNoLease ==
    /\ pc = "dhcp" /\ phase[Me] = "failed"
    /\ \/ target = "bios" /\ Goto("menu")
       \/ target # "bios" /\ PassOver
    /\ UNCHANGED dhcpVars

(***************************************************************************)
(* The download and what follows it.  set_context records where fetch()    *)
(* will go; on BIOS and bare ARM64 for scripts only, on UEFI always.       *)
(***************************************************************************)
Context(d) == [via |-> d, addr |-> lease[Me], attempt |-> attempts]

\* Mutant: a context that is there is kept.
SetContext_Once(d) ==
    ctx' = IF (target = "bios" /\ file # "script") \/ ctx # NoContext THEN ctx ELSE Context(d)

SetContext(d) == ctx' = IF target = "bios" /\ file # "script" THEN ctx ELSE Context(d)

Run(d) ==
    /\ SetContext(d)
    /\ ran' = ran + 1
    /\ pc' = file
    /\ tier' = 1 /\ file' = None
    /\ UNCHANGED <<net, attempts, machine>>

Download == pc = "download" /\ Reads("e1000") /\ Run("e1000")

\* The fall back to SNP, for a lease that came over it.
DownloadFails ==
    /\ pc = "download" /\ Reads("e1000")
    /\ Goto(IF how[Me] = "snp" THEN "snpdownload" ELSE "menu")

SnpDownload == pc = "snpdownload" /\ owner[Me] = "snp" /\ Reads("snp") /\ Run("snp")

SnpDownloadFails == pc = "snpdownload" /\ Reads("snp") /\ Goto("menu")

\* Mutant: an image that comes back is followed by the fall back to SNP.
Returns_FallsThrough ==
    /\ pc \in File
    /\ IF how[Me] = "snp"
       THEN /\ pc' = "snpdownload" /\ file' = pc
            /\ UNCHANGED <<tier, ctx, net, attempts, ran, machine>>
       ELSE Goto("menu")
    /\ UNCHANGED dhcpVars

Returns == pc \in File /\ Goto("menu") /\ UNCHANGED dhcpVars

(***************************************************************************)
(* The shell: a new Lua state, without fetch() until `dhcp' has succeeded. *)
(***************************************************************************)
OpenShell == pc = "menu" /\ Goto("shell") /\ UNCHANGED dhcpVars

\* setup_fetch_context: no card and a failed init are all the same to the shell.
ShellDhcp ==
    /\ pc = "shell" /\ attempts < MaxAttempts
    /\ attempts' = attempts + 1
    /\ \/ hasCard /\ InitCard(Me, TRUE) /\ pc' = "shellready"
       \/ hasCard /\ InitCard(Me, FALSE) /\ UNCHANGED pc
    /\ UNCHANGED <<tier, file, ctx, net, ran, machine>>

ShellLease ==
    /\ pc = "shelldhcp" /\ phase[Me] = "bound"
    /\ ctx' = Context("e1000")
    /\ net' = TRUE
    /\ pc' = "shell"
    /\ UNCHANGED <<dhcpVars, tier, file, attempts, ran, machine>>

ShellNoLease == pc = "shelldhcp" /\ phase[Me] = "failed" /\ Goto("shell") /\ UNCHANGED dhcpVars

\* fetch() and dofile(): without a card (base 0) they return at once.  dofile() goes
\* where FETCH_CTX leads, also in a shell without fetch().
Fetch ==
    /\ pc \in {"script", "shell"} /\ ctx.via = "e1000"
    /\ Reads("e1000")
    /\ UNCHANGED <<flow, machine>>

CloseShell == pc = "shell" /\ Goto("menu") /\ UNCHANGED dhcpVars

\* Chain to another boot loader, if there is one to be started.
ChainLoad == pc = "menu" /\ Goto("image") /\ UNCHANGED dhcpVars

-----------------------------------------------------------------------------
Progress ==
    \/ SnpLease \/ SnpNoLease \/ Direct
    \/ NextTier \/ NoTierLeft \/ UseTier \/ RunDhcp \/ TierLease \/ TierNoLease
    \/ Download \/ DownloadFails \/ SnpDownload \/ SnpDownloadFails
    \/ ShellLease \/ ShellNoLease

User == ScanNetwork \/ OpenShell \/ ShellDhcp \/ Fetch \/ CloseShell \/ ChainLoad

\* Only on ARM64 is the firmware's driver restarted.
Poll ==
    /\ Client(Me)
    /\ owner'[Me] # owner[Me] => target = "uefi_arm"
    /\ UNCHANGED <<flow, machine>>

Others == \E m \in Machine \ {Me} :
    /\ (phase[m] = "off" /\ Discover(m, "e1000")) \/ Client(m)
    /\ UNCHANGED <<flow, machine>>

Outside == (Server \/ Network) /\ UNCHANGED <<flow, machine>>

Next == Progress \/ User \/ Returns \/ Poll \/ Others \/ Outside

Spec == Init /\ [][Next]_vars

(***************************************************************************)
(* The loader's loops count their polls and come to an end; the server     *)
(* answers.  Nothing makes an image or a script return, the user choose,   *)
(* or the network lose a packet.                                           *)
(***************************************************************************)
FairSpec ==
    /\ Spec
    /\ WF_vars(Progress) /\ WF_vars(Poll)
    /\ WF_vars(Answer(Me) /\ UNCHANGED <<flow, machine>>)

-----------------------------------------------------------------------------
(* Every variable has its type. *)
TypeOK ==
    /\ DhcpTypeOK
    /\ target \in DOMAIN Tiers /\ hasSnp \in BOOLEAN /\ hasCard \in BOOLEAN
    /\ pc \in {"menu", "snp", "direct", "tier", "ready", "dhcp", "download", "snpdownload",
               "script", "image", "shell", "shellready", "shelldhcp"}
    /\ tier \in 1 .. Len(Tiers[target]) + 1
    /\ file \in File \cup {None}
    /\ ctx \in [via : Driver \cup {None}, addr : Address \cup {None}, attempt : 0 .. MaxAttempts]
    /\ net \in BOOLEAN
    /\ attempts \in 0 .. MaxAttempts
    /\ ran \in Nat

(***************************************************************************)
(* A network boot runs at most one file, also when the image comes back:   *)
(* none of the ways that are left is tried after one has worked            *)
(* (uefi/src/net.rs 1412, 550, 1768).                                      *)
(***************************************************************************)
RunsOnce == ran <= 1

(***************************************************************************)
(* fetch() goes where the running program came from: a booted script's     *)
(* context is of its own boot, and names the direct driver only when that  *)
(* driver has the card; the shell's holds the address of the last lease.   *)
(***************************************************************************)
FetchContext ==
    /\ pc = "script" =>
        /\ ctx.attempt = attempts /\ ctx.addr = lease[Me]
        /\ ctx.via = owner[Me]
    /\ (pc = "shell" /\ net) => ctx.via = "e1000" /\ ctx.addr = lease[Me]

\* A machine that has the card gets its lease in spite of other traffic.
MeConfigured == Configured(Me)

(***************************************************************************)
(* Every attempt comes to an end: the menu or the shell again, or a file   *)
(* that has been given control; also over a card taken from the firmware,  *)
(* on which SNP hears nothing any more.  That a transfer ends is taken as  *)
(* given (it does once other hosts fall silent, TftpDownload.Terminates).  *)
(***************************************************************************)
Resting == {"menu", "shell", "script", "image"}
AttemptEnds == (pc \notin Resting) ~> (pc \in Resting)
=============================================================================
