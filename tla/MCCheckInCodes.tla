------------------------- MODULE MCCheckInCodes -------------------------
(* Instances of CheckInCodes for TLC. *)
EXTENDS CheckInCodes, TLC

Moved == {<<[from |-> 1, to |-> 2]>>, <<[from |-> 1, to |-> 3]>>}
TwoDays == {<<[from |-> 0, to |-> 1], [from |-> 2, to |-> 3]>>}
Interchangeable == Permutations(Host)
=========================================================================
