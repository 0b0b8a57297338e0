---------------------------- MODULE FileTransfer ----------------------------
(***************************************************************************)
(* What a download promises to its caller: Some(size) once the sink holds  *)
(* the whole file, None otherwise, and nothing is written after that.      *)
(* While it runs the sink only grows; what a failed download leaves in it  *)
(* is not promised.                                                        *)
(***************************************************************************)
EXTENDS Sequences, Naturals

VARIABLES
    file,       \* what the server has, a sequence of bytes
    received,   \* what the sink holds
    outcome     \* "pending", then "some" or "none"

vars == <<file, received, outcome>>

Init == received = <<>> /\ outcome = "pending"

\* The sink's content, with more after it.
Grows ==
    /\ Len(received') >= Len(received)
    /\ SubSeq(received', 1, Len(received)) = received

Receive == Grows /\ outcome' = "pending"

Succeed == Grows /\ received' = file /\ outcome' = "some"

Fail == outcome' = "none" /\ UNCHANGED received

Next == outcome = "pending" /\ (Receive \/ Succeed \/ Fail) /\ UNCHANGED file

Spec == Init /\ [][Next]_vars
=============================================================================
