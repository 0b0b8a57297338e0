----------------------------- MODULE MCImageLoad -----------------------------
(***************************************************************************)
(* Image loading for TLC with the distances of the BIOS loader: an address *)
(* is 8 MB, so that the boot file has two of them and the fetch windows    *)
(* are the two behind 32 MB.  The memory of the machine has a hole         *)
(* anywhere, which the map says is reserved.                               *)
(***************************************************************************)
EXTENDS ImageLoad

Part(first, last, usable) == [base |-> first, length |-> last - first, usable |-> usable]
MCMaps == {<<Part(0, hole, TRUE), Part(hole, hole + n, FALSE), Part(hole + n, 16, TRUE)>> :
              hole \in 1 .. 12, n \in 1 .. 3}
MCImages == {[kind |-> k, size |-> n, table |-> 1, segs |-> <<>>] : k \in {"lua", "text"}, n \in 1 .. 2}
=============================================================================
