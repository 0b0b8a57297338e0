------------------------------ MODULE E1000Rx ------------------------------
(***************************************************************************)
(* The receive half of the polled Intel e1000 driver that the BIOS, UEFI   *)
(* and ARM64 loaders share (common/src/e1000.rs), together with the part   *)
(* of the network card it talks to.                                        *)
(*                                                                         *)
(* The descriptor ring lives in static memory.  The card owns the          *)
(* descriptors from its head register RDH up to, and not including, the    *)
(* tail register RDT.  It writes a frame to the buffer of the descriptor   *)
(* at RDH, and later, in a second write, sets that descriptor's DD bit and *)
(* moves RDH on; each of the two comes at any time, also between two       *)
(* instructions of the driver.  The driver does not remember where it      *)
(* stopped: each poll looks for a DD bit from descriptor 0 upwards, and    *)
(* whatever descriptor it empties becomes the new RDT.                     *)
(*                                                                         *)
(* Frames are numbered in the order in which they arrive on the wire.      *)
(***************************************************************************)
EXTENDS Integers, FiniteSets, Sequences

CONSTANTS
    NUM_RX_DESC,    \* descriptors in the ring (8 in the code)
    MaxFrames,      \* bound: frames the network sends in a behaviour
    MaxUnread,      \* environment: unread frames at which the network falls silent
    MaxInits        \* bound: calls of init in a behaviour

ASSUME RingAssumption == NUM_RX_DESC \in Nat /\ NUM_RX_DESC >= 2
ASSUME BoundAssumption == MaxFrames \in Nat /\ MaxUnread \in Nat /\ MaxInits \in Nat

Desc == 0 .. NUM_RX_DESC - 1
Frame == 1 .. MaxFrames
NoFrame == 0

VARIABLES
    dd,         \* DD bit of each descriptor
    rxBuf,      \* frame in each descriptor's buffer
    rdh,        \* RDH, moved by the card
    writing,    \* the card has written a frame at RDH, and not yet its status
    rdt,        \* RDT, written by the driver
    up,         \* the last init succeeded and enabled the receiver
    pc,         \* where the driver is: idle, or inside try_receive
    idx,        \* descriptor try_receive looks at
    held,       \* frame copied out of rxBuf[idx], not yet returned
    arrived,    \* frames received from the wire so far
    overrun,    \* history: frames written over one that was still unread
    got,        \* history: frames returned by try_receive, in order
    inits       \* history: calls of init

nic == <<dd, rxBuf, rdh, writing, arrived, overrun>>
vars == <<dd, rxBuf, rdh, writing, rdt, up, pc, idx, held, arrived, overrun, got, inits>>

Unread == {d \in Desc : dd[d]}

NextDesc(d) == (d + 1) % NUM_RX_DESC

Init ==
    /\ dd = [d \in Desc |-> FALSE]
    /\ rxBuf = [d \in Desc |-> NoFrame]
    /\ rdh = 0
    /\ writing = FALSE
    /\ rdt = 0
    /\ up = FALSE
    /\ pc = "idle"
    /\ idx = 0
    /\ held = NoFrame
    /\ arrived = 0
    /\ overrun = {}
    /\ got = <<>>
    /\ inits = 0

(***************************************************************************)
(* init: reset the card, read the MAC, hand over the ring.  The head is 0, *)
(* the tail the last descriptor.  The descriptors' addresses are written;  *)
(* their status bytes are not, so a DD bit survives the reset, while the   *)
(* status write of a frame the card was busy with never comes.  A card     *)
(* whose EEPROM holds no address stays disabled and its caller gives up.   *)
(***************************************************************************)
InitDevice ==
    /\ pc = "idle"
    /\ inits < MaxInits
    /\ inits' = inits + 1
    /\ \/ /\ up' = TRUE
          /\ rdh' = 0
          /\ rdt' = NUM_RX_DESC - 1
       \/ /\ up' = FALSE
          /\ UNCHANGED <<rdh, rdt>>
    /\ writing' = FALSE
    /\ UNCHANGED <<dd, rxBuf, pc, idx, held, arrived, overrun, got>>

(***************************************************************************)
(* try_receive.                                                            *)
(***************************************************************************)
Poll ==
    /\ pc = "idle" /\ up
    /\ pc' = "scan"
    /\ idx' = 0
    /\ UNCHANGED <<nic, rdt, up, held, got, inits>>

\* The DD bit of idx is clear: look at the next descriptor.
ScanEmpty ==
    /\ pc = "scan" /\ idx < NUM_RX_DESC /\ ~dd[idx]
    /\ idx' = idx + 1
    /\ UNCHANGED <<nic, rdt, up, pc, held, got, inits>>

\* Mutant: the last descriptor is never looked at.
ScanAgain_Short ==
    /\ pc = "scan" /\ idx >= NUM_RX_DESC - 1
    /\ idx' = 0
    /\ UNCHANGED <<nic, rdt, up, pc, held, got, inits>>

\* The ring was empty: start over, or give up after timeout_iters rounds.
ScanAgain ==
    /\ pc = "scan" /\ idx = NUM_RX_DESC
    /\ idx' = 0
    /\ UNCHANGED <<nic, rdt, up, pc, held, got, inits>>

Timeout ==
    /\ pc = "scan" /\ idx = NUM_RX_DESC
    /\ pc' = "idle"
    /\ UNCHANGED <<nic, rdt, up, idx, held, got, inits>>

ScanHit ==
    /\ pc = "scan" /\ idx < NUM_RX_DESC /\ dd[idx]
    /\ pc' = "copy"
    /\ UNCHANGED <<nic, rdt, up, idx, held, got, inits>>

Copy ==
    /\ pc = "copy"
    /\ held' = rxBuf[idx]
    /\ pc' = "clear"
    /\ UNCHANGED <<nic, rdt, up, idx, got, inits>>

\* Mutant: the DD bit of the emptied descriptor stays set.
ClearStatus_Kept ==
    /\ pc = "clear"
    /\ pc' = "advance"
    /\ UNCHANGED <<nic, rdt, up, idx, held, got, inits>>

ClearStatus ==
    /\ pc = "clear"
    /\ dd' = [dd EXCEPT ![idx] = FALSE]
    /\ pc' = "advance"
    /\ UNCHANGED <<rxBuf, rdh, writing, rdt, up, idx, held, arrived, overrun, got, inits>>

\* Mutant: the tail is moved past the emptied descriptor.
AdvanceTail_Past ==
    /\ pc = "advance"
    /\ rdt' = NextDesc(idx)
    /\ got' = Append(got, held)
    /\ held' = NoFrame
    /\ pc' = "idle"
    /\ UNCHANGED <<nic, up, idx, inits>>

AdvanceTail ==
    /\ pc = "advance"
    /\ rdt' = idx
    /\ got' = Append(got, held)
    /\ held' = NoFrame
    /\ pc' = "idle"
    /\ UNCHANGED <<nic, up, idx, inits>>

(***************************************************************************)
(* The card: a frame from the wire goes to the buffer of the descriptor at *)
(* RDH, if the card owns it.  The card does not look at the DD bit there;  *)
(* when it is still set, from a frame nobody has read, the driver may read *)
(* the new frame under the old bit.  (A copy that races this write counts  *)
(* as a copy of the one frame or of the other.)                            *)
(***************************************************************************)
NicFill ==
    /\ up /\ rdh # rdt /\ ~writing
    /\ arrived < MaxFrames
    /\ Cardinality(Unread) < MaxUnread
    /\ writing' = TRUE
    /\ arrived' = arrived + 1
    /\ rxBuf' = [rxBuf EXCEPT ![rdh] = arrived']
    /\ overrun' = IF dd[rdh] THEN overrun \cup {arrived'} ELSE overrun
    /\ UNCHANGED <<dd, rdh, rdt, up, pc, idx, held, got, inits>>

\* The write-back: DD is set, whatever it was, and the head moves on.
NicStatus ==
    /\ writing
    /\ writing' = FALSE
    /\ dd' = [dd EXCEPT ![rdh] = TRUE]
    /\ rdh' = NextDesc(rdh)
    /\ UNCHANGED <<rxBuf, rdt, up, pc, idx, held, arrived, overrun, got, inits>>

NicReceive == NicFill \/ NicStatus

TryReceive ==
    \/ Poll \/ ScanEmpty \/ ScanAgain \/ Timeout
    \/ ScanHit \/ Copy \/ ClearStatus \/ AdvanceTail

Next == InitDevice \/ TryReceive \/ NicReceive

Spec == Init /\ [][Next]_vars

-----------------------------------------------------------------------------
(* Every variable has its type. *)
TypeOK ==
    /\ dd \in [Desc -> BOOLEAN]
    /\ rxBuf \in [Desc -> Frame \cup {NoFrame}]
    /\ rdh \in Desc
    /\ writing \in BOOLEAN
    /\ rdt \in Desc
    /\ up \in BOOLEAN
    /\ pc \in {"idle", "scan", "copy", "clear", "advance"}
    /\ idx \in 0 .. NUM_RX_DESC
    /\ pc \in {"copy", "clear", "advance"} => idx \in Desc
    /\ held \in Frame \cup {NoFrame}
    /\ arrived \in 0 .. MaxFrames
    /\ overrun \subseteq Frame
    /\ got \in Seq(Frame)
    /\ inits \in 0 .. MaxInits

(***************************************************************************)
(* try_receive returns a frame the card wrote to an emptied descriptor     *)
(* once, however the card's two writes fall between its instructions and   *)
(* whatever the tail it writes hands back to the card: a caller counts a   *)
(* TFTP block once per copy on the wire.  It says nothing of a frame       *)
(* written over an unread one (see NoOverwrite), which may be read under   *)
(* the old DD bit and again under its own.                                 *)
(***************************************************************************)
ReturnedOnce ==
    \A i, j \in 1 .. Len(got) : got[i] = got[j] => i = j \/ got[i] \in overrun

(***************************************************************************)
(* What try_receive has returned is exactly the first frames of the wire,  *)
(* in their order: none lost, none overtaken.                              *)
(***************************************************************************)
InOrder == \A i \in 1 .. Len(got) : got[i] = i

(***************************************************************************)
(* The buffer of a descriptor whose DD bit is set is not written again     *)
(* before the driver has read it.  This is the comment of init, lines      *)
(* 202-203: "Each descriptor gets its own buffer so concurrent packets     *)
(* ... can't overwrite each other."                                        *)
(***************************************************************************)
NoOverwrite ==
    [][\A d \in Desc : dd[d] => rxBuf'[d] = rxBuf[d]]_vars

(***************************************************************************)
(* With nothing left to read, an enabled card owns a descriptor: otherwise *)
(* try_receive finds no DD bit, never writes RDT again, and the card never *)
(* receives another frame.                                                 *)
(***************************************************************************)
NoReceiveStall ==
    up /\ pc \in {"idle", "scan"} /\ Unread = {} => rdh # rdt

(***************************************************************************)
(* Every frame the card took from the wire is returned by try_receive      *)
(* sooner or later while its caller keeps polling.                         *)
(***************************************************************************)
EventuallyReturned ==
    \A f \in Frame : (arrived >= f) ~> (\E i \in 1 .. Len(got) : got[i] = f)
=============================================================================
