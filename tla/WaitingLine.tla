---------------------------- MODULE WaitingLine ----------------------------
(***************************************************************************)
(* What a session promises about its seats (REQ-RSV-002, -003, -006, -009, *)
(* src/docs/plan/01-prd.md): a set of seated members, a waiting line       *)
(* ordered by the moment each member joined it, and a capacity an          *)
(* administrator may change.  No row, no position number, no call and no   *)
(* clock: Seats is shown to implement this.                                *)
(*                                                                         *)
(* ahead is the strict order of the line: <<m, n>> \in ahead when m joined *)
(* before n.  It is a relation and not a sequence so that leaving the line *)
(* from the middle needs no renumbering, which is also true of the rows.   *)
(***************************************************************************)
EXTENDS Naturals, FiniteSets

CONSTANT Member

VARIABLES
    seated,     \* who holds a seat
    line,       \* who waits for one
    ahead,      \* the order of the line
    room        \* the session's capacity

wlVars == <<seated, line, ahead, room>>

TypeOK ==
    /\ seated \in SUBSET Member
    /\ line \in SUBSET Member
    /\ ahead \in SUBSET (Member \X Member)
    /\ room \in Nat

Init ==
    /\ seated = {}
    /\ line = {}
    /\ ahead = {}
    /\ room \in Nat

Full == Cardinality(seated) >= room

\* The members with nobody ahead of them: one, when anybody waits.
First == {m \in line : \A n \in line : <<n, m>> \notin ahead}

Without(m) == {pair \in ahead : pair[1] # m /\ pair[2] # m}

TakeSeat(m) ==
    /\ m \notin seated \cup line
    /\ ~Full
    /\ seated' = seated \cup {m}
    /\ UNCHANGED <<line, ahead, room>>

Join(m) ==
    /\ m \notin seated \cup line
    /\ Full
    /\ line' = line \cup {m}
    /\ ahead' = ahead \cup (line \X {m})
    /\ UNCHANGED <<seated, room>>

Leave(m) ==
    /\ m \in line
    /\ line' = line \ {m}
    /\ ahead' = Without(m)
    /\ UNCHANGED <<seated, room>>

\* A seat is given up and there is nobody, or no room, to hand it to.
GiveUp(m) ==
    /\ m \in seated
    /\ line = {} \/ Cardinality(seated \ {m}) >= room
    /\ seated' = seated \ {m}
    /\ UNCHANGED <<line, ahead, room>>

\* A seat is given up and the first in the line has it in the same step.
HandOver(m) ==
    /\ m \in seated
    /\ Cardinality(seated \ {m}) < room
    /\ \E next \in First :
         /\ seated' = (seated \ {m}) \cup {next}
         /\ line' = line \ {next}
         /\ ahead' = Without(next)
    /\ UNCHANGED room

\* A seat that came free in another way is offered to the first in the line.
Offer ==
    /\ ~Full
    /\ \E next \in First :
         /\ seated' = seated \cup {next}
         /\ line' = line \ {next}
         /\ ahead' = Without(next)
    /\ UNCHANGED room

Resize ==
    /\ room' \in Nat
    /\ UNCHANGED <<seated, line, ahead>>

Next ==
    \/ \E m \in Member :
         TakeSeat(m) \/ Join(m) \/ Leave(m) \/ GiveUp(m) \/ HandOver(m)
    \/ Offer
    \/ Resize

Spec == Init /\ [][Next]_wlVars
=============================================================================
