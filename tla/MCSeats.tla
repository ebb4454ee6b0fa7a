------------------------------ MODULE MCSeats ------------------------------
(* Small instances of Seats. *)
EXTENDS Seats, TLC

CONSTANTS a, b, c, d

\* A session in the middle of the clock's range, and one beyond it.
OneWindow == {[starts |-> 2, ends |-> 3, deadline |-> 1, cutoff |-> 0]}
FarWindow == {[starts |-> 3, ends |-> 4, deadline |-> 2, cutoff |-> 1]}

\* Bound: two calls meet each other, an edit and the deadline; a sweep, a
\* deactivated member and the session's end meet one call in flight.
OneCallBeside ==
    sweeping \/ active # Member \/ now > 2 => Cardinality(calls) <= 1

\* The members who are interchangeable: those without the perk.
Interchangeable == Permutations(Member \ Holders)
=============================================================================
