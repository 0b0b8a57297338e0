------------------------------- MODULE E1000 -------------------------------
(***************************************************************************)
(* The whole e1000 driver: the receive ring, the transmit ring and the     *)
(* init that resets both.  The loader is one thread: it is inside send or  *)
(* inside try_receive, never both, while the card works on either ring at  *)
(* any time.                                                               *)
(***************************************************************************)
EXTENDS E1000Rx

CONSTANTS NUM_TX_DESC, MaxSends, MaxGiveUps

ASSUME TxRing == NUM_TX_DESC \in Nat /\ NUM_TX_DESC >= 2
ASSUME TxBound == MaxSends \in Nat /\ MaxGiveUps \in Nat

VARIABLES txBuf, txFrame, txDone, tdh, tdt, txPc, slot, sends, giveUps, wire, reported

Tx == INSTANCE E1000Tx WITH txUp <- up

ring == <<txBuf, txFrame, txDone, tdh, tdt, txPc, slot, sends, giveUps, wire, reported>>
driverVars == <<vars, ring>>

DriverInit == Init /\ Tx!TxInit

\* One call of init programs both rings; up says which way it ended.
DriverInitDevice == InitDevice /\ Tx!TxInitDevice

DriverReceive == txPc = "idle" /\ TryReceive /\ UNCHANGED ring
DriverSend == pc = "idle" /\ Tx!Send /\ UNCHANGED vars
CardReceive == NicReceive /\ UNCHANGED ring
CardWriteBack == NicStatus /\ UNCHANGED ring
CardTransmit == Tx!NicTransmit /\ UNCHANGED vars

DriverNext ==
    \/ DriverInitDevice \/ DriverReceive \/ DriverSend
    \/ CardReceive \/ CardTransmit

DriverSpec == DriverInit /\ [][DriverNext]_driverVars

(***************************************************************************)
(* The loader's code runs on, a caller that waits for a frame calls        *)
(* try_receive again, and the card transmits what it owns and sets the DD  *)
(* bit of a frame it has stored.                                           *)
(***************************************************************************)
FairDriverSpec ==
    /\ DriverSpec
    /\ WF_driverVars(DriverReceive)
    /\ WF_driverVars(DriverSend)
    /\ WF_driverVars(CardTransmit)
    /\ WF_driverVars(CardWriteBack)

-----------------------------------------------------------------------------
(* Every variable of both rings has its type. *)
DriverTypeOK == TypeOK /\ Tx!TxTypeOK

(* The transmit ring's promises (E1000Tx), under the whole driver. *)
ReportedSent == Tx!ReportedSent
SentIntact == Tx!SentIntact
=============================================================================
