------------------------------ MODULE E1000Tx ------------------------------
(***************************************************************************)
(* The transmit half of the polled Intel e1000 driver                      *)
(* (common/src/e1000.rs): a ring of descriptors that all point at the one  *)
(* buffer TX_BUF.  send fills the buffer, queues one descriptor and polls  *)
(* its DD bit; when the poll gives up, the descriptor still belongs to the *)
(* card, which transmits whatever TX_BUF holds when it gets there.         *)
(***************************************************************************)
EXTENDS Integers, Sequences

CONSTANTS
    NUM_TX_DESC,    \* descriptors in the ring (8 in the code)
    MaxSends,       \* bound: calls of send in a behaviour
    MaxGiveUps      \* environment: calls of send the card lets run out of polls

TxDesc == 0 .. NUM_TX_DESC - 1
TxFrame == 1 .. MaxSends       \* the frame of the n-th call of send
NoBytes == 0                   \* TX_BUF holds no complete frame

VARIABLES
    txUp,       \* the last init enabled the transmitter
    txBuf,      \* frame in TX_BUF
    txFrame,    \* frame a descriptor was queued for (its length field)
    txDone,     \* DD bit of each descriptor
    tdh,        \* TDH, moved by the card
    tdt,        \* TDT, written by send
    txPc,       \* where send is
    slot,       \* descriptor this call of send uses
    sends,      \* calls of send so far; the current frame
    giveUps,    \* history: calls that ran out of polls
    wire,       \* history: what the card transmitted
    reported    \* history: frames for which send returned true

txCard == <<txDone, tdh, wire>>
txVars == <<txUp, txBuf, txFrame, txDone, tdh, tdt, txPc, slot, sends, giveUps, wire, reported>>

TxInit ==
    /\ txUp = FALSE
    /\ txBuf = NoBytes
    /\ txFrame = [d \in TxDesc |-> NoBytes]
    /\ txDone = [d \in TxDesc |-> FALSE]
    /\ tdh = 0
    /\ tdt = 0
    /\ txPc = "idle"
    /\ slot = 0
    /\ sends = 0
    /\ giveUps = 0
    /\ wire = <<>>
    /\ reported = {}

(***************************************************************************)
(* init, transmit half: empty ring, DD bits as they were.                  *)
(***************************************************************************)
TxInitDevice ==
    /\ txPc = "idle"
    /\ \/ txUp' = TRUE /\ tdh' = 0 /\ tdt' = 0
       \/ txUp' = FALSE /\ UNCHANGED <<tdh, tdt>>
    /\ UNCHANGED <<txBuf, txFrame, txDone, txPc, slot, sends, giveUps, wire, reported>>

(***************************************************************************)
(* send.  The copy into TX_BUF is byte by byte: while it runs the buffer   *)
(* holds no frame at all.                                                  *)
(***************************************************************************)
SendStart ==
    /\ txPc = "idle" /\ txUp /\ sends < MaxSends
    /\ sends' = sends + 1
    /\ slot' = tdt
    /\ txBuf' = NoBytes
    /\ txPc' = "fill"
    /\ UNCHANGED <<txUp, txCard, txFrame, tdt, giveUps, reported>>

Fill ==
    /\ txPc = "fill"
    /\ txBuf' = sends
    /\ txPc' = "desc"
    /\ UNCHANGED <<txUp, txCard, txFrame, tdt, slot, sends, giveUps, reported>>

\* Mutant: the descriptor's old status byte is left in place.
WriteDesc_KeepStatus ==
    /\ txPc = "desc"
    /\ txFrame' = [txFrame EXCEPT ![slot] = sends]
    /\ txPc' = "kick"
    /\ UNCHANGED <<txUp, txBuf, txCard, tdt, slot, sends, giveUps, reported>>

WriteDesc ==
    /\ txPc = "desc"
    /\ txFrame' = [txFrame EXCEPT ![slot] = sends]
    /\ txDone' = [txDone EXCEPT ![slot] = FALSE]
    /\ txPc' = "kick"
    /\ UNCHANGED <<txUp, txBuf, tdh, wire, tdt, slot, sends, giveUps, reported>>

\* Mutant: the ring does not wrap.
Kick_NoWrap ==
    /\ txPc = "kick"
    /\ tdt' = slot + 1
    /\ txPc' = "wait"
    /\ UNCHANGED <<txUp, txBuf, txCard, txFrame, slot, sends, giveUps, reported>>

Kick ==
    /\ txPc = "kick"
    /\ tdt' = (slot + 1) % NUM_TX_DESC
    /\ txPc' = "wait"
    /\ UNCHANGED <<txUp, txBuf, txCard, txFrame, slot, sends, giveUps, reported>>

SendDone ==
    /\ txPc = "wait" /\ txDone[slot]
    /\ reported' = reported \cup {sends}
    /\ txPc' = "idle"
    /\ UNCHANGED <<txUp, txBuf, txCard, txFrame, tdt, slot, sends, giveUps>>

\* The poll loop ends and the status read after it still shows no DD bit.
SendGivesUp ==
    /\ txPc = "wait" /\ ~txDone[slot]
    /\ giveUps < MaxGiveUps
    /\ giveUps' = giveUps + 1
    /\ txPc' = "idle"
    /\ UNCHANGED <<txUp, txBuf, txCard, txFrame, tdt, slot, sends, reported>>

Send == SendStart \/ Fill \/ WriteDesc \/ Kick \/ SendDone \/ SendGivesUp

(***************************************************************************)
(* The card transmits the descriptor at TDH, with the bytes in TX_BUF now, *)
(* and sets DD: fetch, transmission and write-back are one step, since the *)
(* driver looks at DD alone, and the last of them is the one that sets it. *)
(***************************************************************************)
NicTransmit ==
    /\ txUp /\ tdh # tdt
    /\ wire' = Append(wire, [queued |-> txFrame[tdh], bytes |-> txBuf])
    /\ txDone' = [txDone EXCEPT ![tdh] = TRUE]
    /\ tdh' = (tdh + 1) % NUM_TX_DESC
    /\ UNCHANGED <<txUp, txBuf, txFrame, tdt, txPc, slot, sends, giveUps, reported>>

TxNext == TxInitDevice \/ Send \/ NicTransmit

TxSpec == TxInit /\ [][TxNext]_txVars

-----------------------------------------------------------------------------
(* Every variable has its type. *)
TxTypeOK ==
    /\ txUp \in BOOLEAN
    /\ txBuf \in TxFrame \cup {NoBytes}
    /\ txFrame \in [TxDesc -> TxFrame \cup {NoBytes}]
    /\ txDone \in [TxDesc -> BOOLEAN]
    /\ tdh \in TxDesc
    /\ tdt \in TxDesc
    /\ txPc \in {"idle", "fill", "desc", "kick", "wait"}
    /\ slot \in TxDesc
    /\ sends \in 0 .. MaxSends
    /\ giveUps \in 0 .. MaxGiveUps
    /\ wire \in Seq([queued : TxFrame \cup {NoBytes}, bytes : TxFrame \cup {NoBytes}])
    /\ reported \subseteq TxFrame

(***************************************************************************)
(* When send returns true its frame has gone out, whole, in a descriptor   *)
(* queued for it: also after earlier calls gave up with descriptors still  *)
(* in the card's hands, and after the ring wrapped over them.              *)
(***************************************************************************)
ReportedSent ==
    \A f \in reported : \E i \in 1 .. Len(wire) : wire[i] = [queued |-> f, bytes |-> f]

(***************************************************************************)
(* Every transmitted frame is the frame its descriptor was queued for and  *)
(* each goes out once: "multiple sequential sends work correctly" (lines   *)
(* 257-259).  True while no call gives up; a call that does leaves a       *)
(* descriptor behind that goes out with the bytes of a later frame.        *)
(***************************************************************************)
SentIntact ==
    /\ \A i \in 1 .. Len(wire) : wire[i].bytes = wire[i].queued
    /\ \A i, j \in 1 .. Len(wire) : wire[i].bytes = wire[j].bytes => i = j
=============================================================================
