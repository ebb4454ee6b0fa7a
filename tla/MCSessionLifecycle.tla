------------------------ MODULE MCSessionLifecycle ------------------------
(* Instances of SessionLifecycle for TLC. *)
EXTENDS SessionLifecycle, TLC

OneWindow == {[starts |-> 1, ends |-> 2]}
TwoWindows == {[starts |-> 1, ends |-> 2], [starts |-> 2, ends |-> 3]}
Interchangeable == Permutations(Admin)
===========================================================================
