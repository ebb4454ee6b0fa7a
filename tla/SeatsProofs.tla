---------------------------- MODULE SeatsProofs ----------------------------
(***************************************************************************)
(* Theorems about Seats, for every set of members, every capacity and      *)
(* every bound.                                                            *)
(***************************************************************************)
EXTENDS Seats, FiniteSetTheorems, WellFoundedInduction, TLAPS

USE DEF NoTime

\* Every variable has its type, the waitlisted rows are those with a position.
THEOREM TypeCorrect == Spec => []TypeOK
<1>1. Init => TypeOK
  <2> SUFFICES ASSUME Init PROVE TypeOK
    OBVIOUS
  <2>1. [status |-> "none", position |-> 0] \in Row
    BY SeatsAssumption DEF SeatsAssumption, Row, Status
  <2>2. rsvp \in [Member -> Row]
    BY <2>1 DEF Init
  <2>3. window \in Schedule /\ capacity \in Nat \ {0}
    BY SeatsAssumption DEF SeatsAssumption, Init
  <2>4. now \in Time
    BY SeatsAssumption DEF SeatsAssumption, Init, Time
  <2> QED
    BY <2>2, <2>3, <2>4 DEF Init, TypeOK, SessionState
<1>2. TypeOK /\ [Next]_vars => TypeOK'
  <2> SUFFICES ASSUME TypeOK, [Next]_vars PROVE TypeOK'
    OBVIOUS
  <2> USE SeatsAssumption DEF SeatsAssumption
  <2>0. Seat \in Row
    BY DEF Seat, Row, Status
  <2>1. ASSUME NEW m \in Member, Press(m) PROVE TypeOK'
    <3> DEFINE press == [who |-> m,
                         op |-> IF Live(m) THEN "cancel" ELSE "reserve",
                         waiting |-> m \in Waiting, at |-> NoTime]
    <3>1. (m \in Waiting) \in BOOLEAN
      BY DEF Waiting
    <3>2. press \in Call
      BY <3>1 DEF Call
    <3>3. calls' = calls \cup {press}
      BY <2>1 DEF Press
    <3> HIDE DEF press
    <3> QED
      BY <2>1, <3>2, <3>3 DEF Press, TypeOK, sessionVars
  <2>2. ASSUME NEW c \in calls, Send(c) PROVE TypeOK'
    <3>1. [c EXCEPT !.at = now] \in Call
      BY DEF TypeOK, Call
    <3>2. calls' \in SUBSET Call
      BY <2>2, <3>1 DEF Send, TypeOK
    <3> QED
      BY <2>2, <3>2 DEF Send, TypeOK, sessionVars
  <2>3. ASSUME NEW c \in calls, ReserveSeat(c) PROVE TypeOK'
    <3>1. \A p \in NextPosition :
            [status |-> "waitlisted", position |-> p] \in Row
      BY DEF NextPosition, Row, Status
    <3>2. rsvp' \in [Member -> Row]
      BY <2>0, <2>3, <3>1 DEF ReserveSeat, TypeOK
    <3> QED
      BY <2>3, <3>2 DEF ReserveSeat, TypeOK, sessionVars
  <2>4. ASSUME NEW c \in calls, CancelRsvp(c) PROVE TypeOK'
    <3>1. Cancelled(c) \in Row
      BY DEF Cancelled, Row, Status
    <3>2. [rsvp EXCEPT ![c.who] = Cancelled(c)] \in [Member -> Row]
      BY <3>1 DEF TypeOK
    <3>3. AfterCancel(c) \subseteq [Member -> Row]
      BY <2>0, <3>2 DEF AfterCancel, Promoted
    <3>4. rsvp' \in [Member -> Row]
      BY <2>4, <3>3 DEF CancelRsvp, TypeOK
    <3> QED
      BY <2>4, <3>4 DEF CancelRsvp, TypeOK, sessionVars
  <2>5. CASE Publish
    BY <2>5 DEF Publish, TypeOK, SessionState
  <2>6. CASE BeginSchedule
    BY <2>6 DEF BeginSchedule, TypeOK, sessionVars
  <2>7. CASE WriteSchedule
    BY <2>7 DEF WriteSchedule, TypeOK
  <2>8. ASSUME NEW to \in SessionState, TransitionSession(to) PROVE TypeOK'
    BY <2>8 DEF TransitionSession, TypeOK
  <2>9. CASE ClockStart \/ ClockComplete
    BY <2>9 DEF ClockStart, ClockComplete, TypeOK, SessionState
  <2>10. ASSUME NEW m \in Member, DeactivateMember(m) \/ ReactivateMember(m)
         PROVE TypeOK'
    BY <2>10 DEF DeactivateMember, ReactivateMember, TypeOK, sessionVars
  <2>11. CASE Tick
    BY <2>11 DEF Tick, TypeOK, Time, sessionVars
  <2>12. CASE SweepBegins \/ SweepEnds
    BY <2>12 DEF SweepBegins, SweepEnds, TypeOK, sessionVars
  <2>13. CASE SweepPromotes
    <3>1. rsvp' \in [Member -> Row]
      BY <2>0, <2>13 DEF SweepPromotes, Promoted, TypeOK
    <3> QED
      BY <2>13, <3>1 DEF SweepPromotes, TypeOK, sessionVars
  <2>14. CASE UNCHANGED vars
    BY <2>14 DEF vars, TypeOK
  <2> QED
    BY <2>1, <2>2, <2>3, <2>4, <2>5, <2>6, <2>7, <2>8, <2>9, <2>10, <2>11,
       <2>12, <2>13, <2>14 DEF Next, Serve, Sweep
<1> QED
  BY <1>1, <1>2, PTL DEF Spec

-----------------------------------------------------------------------------
(* The rows and the line.  Each way a row changes is one action of         *)
(* WaitingLine; everything else leaves the line alone.                     *)

Ahead == {pair \in Waiting \X Waiting :
            rsvp[pair[1]].position < rsvp[pair[2]].position}

LEMMA RowTypes ==
  ASSUME TypeOK, NEW m \in Member
  PROVE  /\ rsvp[m].status \in Status
         /\ rsvp[m].position \in 0..MaxPosition
         /\ rsvp[m].status = "waitlisted" <=> rsvp[m].position # 0
BY DEF TypeOK, Row

LEMMA LiveIsSeatedOrWaiting ==
  ASSUME NEW m \in Member
  PROVE  Live(m) <=> m \in Confirmed \cup Waiting
BY DEF Live, Confirmed, Waiting

\* The line counts seats as the rows do (its Cardinality is an instance).
LEMMA SameCount == \A S : Line!Cardinality(S) = Cardinality(S)
BY Zenon DEF Cardinality, Line!Cardinality

\* The seats can be counted.
LEMMA SeatsAreCounted ==
  ASSUME TypeOK
  PROVE  Cardinality(Confirmed) \in Nat /\ capacity \in Nat
<1>1. IsFiniteSet(Confirmed)
  BY SeatsAssumption, FS_Subset DEF SeatsAssumption, Confirmed
<1> QED
  BY <1>1, FS_CardinalityType DEF TypeOK

\* A free member gets a seat.
LEMMA RowTakesSeat ==
  ASSUME TypeOK, NEW m \in Member, ~Live(m), HasRoom, capacity' = capacity,
         rsvp' = [rsvp EXCEPT ![m] = Seat]
  PROVE  Line!TakeSeat(m)
<1>1. m \notin Confirmed \cup Waiting
  BY LiveIsSeatedOrWaiting
<1>2. \A n \in Member : rsvp'[n] = IF n = m THEN Seat ELSE rsvp[n]
  BY DEF TypeOK
<1>3. Confirmed' = Confirmed \cup {m} /\ Waiting' = Waiting
  BY <1>1, <1>2 DEF Confirmed, Waiting, Seat
<1>4. Ahead' = Ahead
  BY <1>1, <1>2, <1>3 DEF Ahead, Waiting
<1>5. ~Line!Full
  BY SeatsAreCounted, SameCount DEF HasRoom, Line!Full
<1> QED
  BY <1>1, <1>3, <1>4, <1>5 DEF Line!TakeSeat, Ahead

\* A free member gets the next place in the line.
LEMMA RowJoins ==
  ASSUME TypeOK, NEW m \in Member, ~Live(m), ~HasRoom, capacity' = capacity,
         NEW p \in NextPosition,
         rsvp' = [rsvp EXCEPT ![m] = [status |-> "waitlisted", position |-> p]]
  PROVE  Line!Join(m)
<1>1. m \notin Confirmed \cup Waiting
  BY LiveIsSeatedOrWaiting
<1>2. \A n \in Member : rsvp'[n] =
        IF n = m THEN [status |-> "waitlisted", position |-> p] ELSE rsvp[n]
  BY DEF TypeOK
<1>3. Confirmed' = Confirmed /\ Waiting' = Waiting \cup {m}
  BY <1>1, <1>2 DEF Confirmed, Waiting
<1>4. \A n \in Waiting : n \in Member /\ rsvp[n].position < p
  BY DEF NextPosition, Waiting
<1>5. \A n \in Waiting : rsvp'[n] = rsvp[n] /\ rsvp'[m].position = p
  BY <1>1, <1>2, <1>4
<1>6. p \in Nat /\ \A n \in Waiting : rsvp[n].position \in Nat
  BY <1>4, RowTypes, SeatsAssumption DEF NextPosition, SeatsAssumption
<1>7. Ahead' = Ahead \cup (Waiting \X {m})
  <2>1. Ahead' = {pair \in Waiting' \X Waiting' :
                    rsvp'[pair[1]].position < rsvp'[pair[2]].position}
    BY DEF Ahead
  <2>2. ASSUME NEW x \in Waiting \cup {m}, NEW y \in Waiting \cup {m}
        PROVE  rsvp'[x].position < rsvp'[y].position <=>
                 \/ x \in Waiting /\ y = m
                 \/ /\ x \in Waiting /\ y \in Waiting
                    /\ rsvp[x].position < rsvp[y].position
    <3>1. m \notin Waiting
      BY <1>1
    <3>2. CASE x = m /\ y = m
      BY <1>5, <1>6, <3>1, <3>2, <1>2
    <3>3. CASE x = m /\ y \in Waiting
      BY <1>2, <1>4, <1>5, <1>6, <3>1, <3>3
    <3>4. CASE x \in Waiting /\ y = m
      BY <1>2, <1>4, <1>5, <1>6, <3>1, <3>4
    <3>5. CASE x \in Waiting /\ y \in Waiting
      BY <1>5, <3>1, <3>5
    <3> QED
      BY <3>2, <3>3, <3>4, <3>5
  <2> QED
    BY <1>3, <2>1, <2>2 DEF Ahead
<1>8. Line!Full
  BY SeatsAreCounted, SameCount DEF HasRoom, Line!Full
<1> QED
  BY <1>1, <1>3, <1>7, <1>8 DEF Line!Join, Ahead

\* A waiting member leaves.
LEMMA RowLeaves ==
  ASSUME TypeOK, NEW m \in Waiting, capacity' = capacity, NEW s \in Status,
         s \notin {"confirmed", "waitlisted"},
         rsvp' = [rsvp EXCEPT ![m] = [status |-> s, position |-> 0]]
  PROVE  Line!Leave(m)
<1>1. m \in Member /\ m \notin Confirmed
  BY DEF Waiting, Confirmed
<1>2. \A n \in Member : rsvp'[n] =
        IF n = m THEN [status |-> s, position |-> 0] ELSE rsvp[n]
  BY <1>1 DEF TypeOK
<1>3. Confirmed' = Confirmed /\ Waiting' = Waiting \ {m}
  BY <1>1, <1>2 DEF Confirmed, Waiting
<1>4. \A n \in Waiting' : rsvp'[n] = rsvp[n]
  BY <1>2, <1>3 DEF Waiting
<1>5. Ahead' = Line!Without(m)
  BY <1>3, <1>4 DEF Ahead, Line!Without
<1> QED
  BY <1>3, <1>5 DEF Line!Leave, Ahead

\* The first in the waitlist has nobody ahead.
LEMMA FirstIsFirst ==
  ASSUME TypeOK, NEW m \in FirstWaiting
  PROVE  m \in Line!First
<1>1. m \in Waiting /\ \A n \in Waiting : rsvp[m].position <= rsvp[n].position
  BY DEF FirstWaiting
<1>2. \A n \in Waiting : rsvp[n].position \in Nat
  BY RowTypes, SeatsAssumption DEF SeatsAssumption, Waiting
<1> QED
  BY <1>1, <1>2 DEF Line!First

\* The first in the waitlist is promoted: on its own ...
LEMMA RowIsPromoted ==
  ASSUME TypeOK, NEW m \in FirstWaiting, HasRoom, capacity' = capacity,
         rsvp' = [rsvp EXCEPT ![m] = Seat]
  PROVE  Line!Offer
<1>1. m \in Member /\ m \in Waiting /\ m \notin Confirmed
  BY DEF FirstWaiting, Waiting, Confirmed
<1>2. \A n \in Member : rsvp'[n] = IF n = m THEN Seat ELSE rsvp[n]
  BY <1>1 DEF TypeOK
<1>3. Confirmed' = Confirmed \cup {m} /\ Waiting' = Waiting \ {m}
  BY <1>1, <1>2 DEF Confirmed, Waiting, Seat
<1>4. \A n \in Waiting' : rsvp'[n] = rsvp[n]
  BY <1>2, <1>3 DEF Waiting
<1>5. Ahead' = Line!Without(m)
  BY <1>3, <1>4 DEF Ahead, Line!Without
<1>6. ~Line!Full
  BY SeatsAreCounted, SameCount DEF HasRoom, Line!Full
<1> QED
  BY <1>3, <1>5, <1>6, FirstIsFirst DEF Line!Offer, Ahead

\* ... or in the place of a confirmed member who cancels.
LEMMA RowIsHandedOver ==
  ASSUME TypeOK, NEW q \in Confirmed, NEW m \in FirstWaiting,
         Cardinality(Confirmed \ {q}) < capacity, capacity' = capacity,
         NEW s \in Status, s \notin {"confirmed", "waitlisted"},
         rsvp' = [[rsvp EXCEPT ![q] = [status |-> s, position |-> 0]]
                    EXCEPT ![m] = Seat]
  PROVE  Line!HandOver(q)
<1>1. /\ m \in Member /\ m \in Waiting /\ m \notin Confirmed
      /\ q \in Member /\ q \notin Waiting /\ q # m
  BY DEF FirstWaiting, Waiting, Confirmed
<1>2. \A n \in Member : rsvp'[n] =
        IF n = m THEN Seat
        ELSE IF n = q THEN [status |-> s, position |-> 0] ELSE rsvp[n]
  BY <1>1 DEF TypeOK
<1>3. /\ Confirmed' = (Confirmed \ {q}) \cup {m}
      /\ Waiting' = Waiting \ {m}
  <2>1. /\ rsvp'[m].status = "confirmed"
        /\ rsvp'[q].status \notin {"confirmed", "waitlisted"}
        /\ \A n \in Member \ {m, q} : rsvp'[n] = rsvp[n]
    <3>1. rsvp'[m] = Seat /\ rsvp'[q] = [status |-> s, position |-> 0]
      BY <1>1, <1>2
    <3>2. \A n \in Member \ {m, q} : rsvp'[n] = rsvp[n]
      BY <1>2
    <3>3. Seat.status = "confirmed"
      BY DEF Seat
    <3>4. rsvp'[q].status = s
      BY <3>1
    <3> QED
      BY <3>1, <3>2, <3>3, <3>4
  <2>2. Confirmed' = (Confirmed \ {q}) \cup {m}
    BY <1>1, <2>1 DEF Confirmed
  <2>3. Waiting' = Waiting \ {m}
    BY <1>1, <2>1 DEF Waiting
  <2> QED
    BY <2>2, <2>3
<1>4. \A n \in Waiting' : rsvp'[n] = rsvp[n]
  BY <1>1, <1>2, <1>3 DEF Waiting
<1>5. Ahead' = Line!Without(m)
  BY <1>3, <1>4 DEF Ahead, Line!Without
<1> QED
  BY <1>3, <1>5, FirstIsFirst, SameCount DEF Line!HandOver, Ahead

\* A confirmed member cancels and nobody can have the seat.
LEMMA RowGivesUp ==
  ASSUME TypeOK, NEW q \in Confirmed, capacity' = capacity,
         Cardinality(Confirmed \ {q}) >= capacity \/ Waiting = {},
         NEW s \in Status, s \notin {"confirmed", "waitlisted"},
         rsvp' = [rsvp EXCEPT ![q] = [status |-> s, position |-> 0]]
  PROVE  Line!GiveUp(q)
<1>1. q \in Member /\ q \notin Waiting
  BY DEF Waiting, Confirmed
<1>2. \A n \in Member : rsvp'[n] =
        IF n = q THEN [status |-> s, position |-> 0] ELSE rsvp[n]
  BY <1>1 DEF TypeOK
<1>3. Confirmed' = Confirmed \ {q} /\ Waiting' = Waiting
  BY <1>1, <1>2 DEF Confirmed, Waiting
<1>4. \A n \in Waiting : rsvp'[n] = rsvp[n]
  BY <1>1, <1>2 DEF Waiting
<1>5. Ahead' = Ahead
  BY <1>3, <1>4 DEF Ahead
<1> QED
  BY <1>3, <1>5, SameCount DEF Line!GiveUp, Ahead

\* Somebody is first when anybody waits.
LEMMA SomebodyIsFirst ==
  ASSUME TypeOK, Waiting # {}
  PROVE  FirstWaiting # {}
<1> DEFINE P == {rsvp[n].position : n \in Waiting}
<1>1. P \subseteq Nat /\ P # {}
  BY RowTypes, SeatsAssumption DEF SeatsAssumption, Waiting
<1> DEFINE R == OpToRel(<, Nat)
<1>2. \A x, y \in Nat : <<x, y>> \in R <=> x < y
  BY DEF OpToRel
<1>3. \E p \in P : \A q \in P : <<q, p>> \notin R
  <2> HIDE DEF P
  <2> QED
    BY <1>1, NatLessThanWellFounded, WFMin
<1>4. \E p \in P : \A q \in P : p <= q
  <2> HIDE DEF P, R
  <2>1. PICK p \in P : \A q \in P : <<q, p>> \notin R
    BY <1>3
  <2>2. \A q \in P : ~(q < p)
    BY <1>1, <1>2, <2>1
  <2>3. \A q \in P : p <= q
    BY <1>1, <2>2
  <2> QED
    BY <2>3
<1> QED
  BY <1>4 DEF FirstWaiting

\* The rows a cancellation may leave.
LEMMA CancellationIsLineStep ==
  ASSUME TypeOK, NEW c \in calls, CancelRsvp(c)
  PROVE  \/ \E m \in Member : Line!Leave(m) \/ Line!GiveUp(m) \/ Line!HandOver(m)
         \/ rsvp' = rsvp /\ capacity' = capacity
<1> DEFINE q == c.who
           rows == [rsvp EXCEPT ![q] = Cancelled(c)]
<1>1. q \in Member /\ capacity' = capacity
  BY DEF CancelRsvp, sessionVars, TypeOK, Call
<1>2. PICK s \in Status : /\ s \notin {"confirmed", "waitlisted"}
                          /\ Cancelled(c) = [status |-> s, position |-> 0]
  BY DEF Cancelled, Status
<1>3. CASE ~Live(q)
  BY <1>1, <1>3 DEF CancelRsvp
<1>4. CASE q \in Waiting
  <2>1. q \notin Confirmed /\ Live(q)
    BY <1>4 DEF Waiting, Confirmed, Live
  <2>2. rsvp' = rows
    BY <2>1 DEF CancelRsvp, AfterCancel
  <2> QED
    BY <1>1, <1>2, <1>4, <2>2, RowLeaves
<1>5. CASE q \in Confirmed
  <2>1. rsvp' \in Promoted(rows, Cardinality(Confirmed \ {q}), FirstWaiting)
    BY <1>5 DEF CancelRsvp, AfterCancel, Live, Confirmed
  <2>2. Cardinality(Confirmed \ {q}) \in Nat /\ capacity \in Nat
    <3>1. IsFiniteSet(Confirmed \ {q})
      BY SeatsAssumption, FS_Subset DEF SeatsAssumption, Confirmed
    <3> QED
      BY <3>1, FS_CardinalityType, SeatsAreCounted
  <2>3. CASE Cardinality(Confirmed \ {q}) >= capacity
    <3>1. rsvp' = rows
      BY <2>1, <2>3 DEF Promoted
    <3> QED
      BY <1>1, <1>2, <1>5, <2>3, <3>1, RowGivesUp
  <2>4. CASE FirstWaiting = {}
    <3>1. rsvp' = rows
      BY <2>1, <2>4 DEF Promoted
    <3>2. Waiting = {}
      BY <2>4, SomebodyIsFirst
    <3> QED
      BY <1>1, <1>2, <1>5, <3>1, <3>2, RowGivesUp
  <2>5. CASE Cardinality(Confirmed \ {q}) < capacity /\ FirstWaiting # {}
    <3>1. PICK m \in FirstWaiting : rsvp' = [rows EXCEPT ![m] = Seat]
      BY <2>1, <2>2, <2>5 DEF Promoted
    <3>2. rsvp' = [[rsvp EXCEPT ![q] = [status |-> s, position |-> 0]]
                     EXCEPT ![m] = Seat]
      BY <1>2, <3>1
    <3>3. Line!HandOver(q)
      BY <1>1, <1>2, <1>5, <2>5, <3>2, RowIsHandedOver
    <3> QED
      BY <1>1, <3>3
  <2> QED
    BY <2>2, <2>3, <2>4, <2>5
<1> QED
  BY <1>1, <1>3, <1>4, <1>5, LiveIsSeatedOrWaiting

\* The rows a reservation may leave.
LEMMA ReservationIsLineStep ==
  ASSUME TypeOK, NEW c \in calls, ReserveSeat(c)
  PROVE  \/ \E m \in Member : Line!TakeSeat(m) \/ Line!Join(m)
         \/ rsvp' = rsvp /\ capacity' = capacity
<1>1. c.who \in Member /\ capacity' = capacity
  BY DEF ReserveSeat, sessionVars, TypeOK, Call
<1>2. CASE ~ReserveAccepted(c) \/ Live(c.who)
  BY <1>1, <1>2 DEF ReserveSeat
<1>3. CASE ~Live(c.who) /\ HasRoom /\ ReserveAccepted(c)
  <2>1. rsvp' = [rsvp EXCEPT ![c.who] = Seat]
    BY <1>3 DEF ReserveSeat
  <2> QED
    BY <1>1, <1>3, <2>1, RowTakesSeat
<1>4. CASE ~Live(c.who) /\ ~HasRoom /\ ReserveAccepted(c)
  <2>1. PICK p \in NextPosition : rsvp' = [rsvp EXCEPT ![c.who] =
                                   [status |-> "waitlisted", position |-> p]]
    BY <1>4 DEF ReserveSeat
  <2> QED
    BY <1>1, <1>4, <2>1, RowJoins
<1> QED
  BY <1>2, <1>3, <1>4

\* Every step of the seats is a step of the line or leaves it alone.
LEMMA StepIsLineStep ==
  ASSUME TypeOK, [Next]_vars
  PROVE  [Line!Next]_(Line!wlVars)
<1>1. ASSUME NEW c \in calls, ReserveSeat(c) PROVE [Line!Next]_(Line!wlVars)
  <2>1. CASE \E m \in Member : Line!TakeSeat(m) \/ Line!Join(m)
    BY <2>1 DEF Line!Next
  <2>2. CASE rsvp' = rsvp /\ capacity' = capacity
    BY <2>2 DEF Line!wlVars, Confirmed, Waiting
  <2> QED
    BY <1>1, <2>1, <2>2, ReservationIsLineStep
<1>2. ASSUME NEW c \in calls, CancelRsvp(c) PROVE [Line!Next]_(Line!wlVars)
  <2>1. CASE \E m \in Member :
               Line!Leave(m) \/ Line!GiveUp(m) \/ Line!HandOver(m)
    BY <2>1 DEF Line!Next
  <2>2. CASE rsvp' = rsvp /\ capacity' = capacity
    BY <2>2 DEF Line!wlVars, Confirmed, Waiting
  <2> QED
    BY <1>2, <2>1, <2>2, CancellationIsLineStep
<1>3. CASE SweepPromotes
  <2>1. capacity' = capacity
    BY <1>3 DEF SweepPromotes, sessionVars
  <2>2. FirstWaiting # {}
    BY <1>3, SomebodyIsFirst DEF SweepPromotes
  <2>3. PICK m \in FirstWaiting : rsvp' = [rsvp EXCEPT ![m] = Seat]
    BY <1>3, <2>2, SeatsAreCounted DEF SweepPromotes, Promoted, HasRoom
  <2>4. Line!Offer
    BY <1>3, <2>1, <2>3, RowIsPromoted DEF SweepPromotes
  <2> QED
    BY <2>4 DEF Line!Next
<1>4. CASE WriteSchedule
  <2>1. rsvp' = rsvp /\ capacity' \in Nat
    BY <1>4, SeatsAssumption DEF WriteSchedule, SeatsAssumption
  <2>2. Line!Resize
    BY <2>1 DEF Line!Resize, Confirmed, Waiting
  <2> QED
    BY <2>2 DEF Line!Next
<1>5. CASE rsvp' = rsvp /\ capacity' = capacity
  BY <1>5 DEF Line!wlVars, Confirmed, Waiting
<1>6. CASE UNCHANGED vars
  BY <1>5, <1>6 DEF vars
<1>7. ASSUME NEW m \in Member, Press(m) \/ DeactivateMember(m) \/ ReactivateMember(m)
      PROVE rsvp' = rsvp /\ capacity' = capacity
  BY <1>7 DEF Press, DeactivateMember, ReactivateMember, sessionVars
<1>8. ASSUME NEW c \in calls, Send(c) PROVE rsvp' = rsvp /\ capacity' = capacity
  BY <1>8 DEF Send, sessionVars
<1>9. ASSUME Publish \/ BeginSchedule \/ ClockStart \/ ClockComplete \/ Tick
             \/ SweepBegins \/ SweepEnds
      PROVE rsvp' = rsvp /\ capacity' = capacity
  BY <1>9 DEF Publish, BeginSchedule, ClockStart, ClockComplete, Tick,
              SweepBegins, SweepEnds, sessionVars
<1>10. ASSUME NEW to \in SessionState, TransitionSession(to)
       PROVE rsvp' = rsvp /\ capacity' = capacity
  BY <1>10 DEF TransitionSession
<1> QED
  BY <1>1, <1>2, <1>3, <1>4, <1>5, <1>6, <1>7, <1>8, <1>9, <1>10
     DEF Next, Serve, Sweep

\* REQ-RSV-003: the rows of rsvps, with their position numbers, implement a
\* first-come first-served waiting line in which a seat given up is handed
\* over in the same step.
THEOREM SeatsImplementWaitingLine == Spec => ImplementsWaitingLine
<1>1. Init => Line!Init
  <2> SUFFICES ASSUME Init PROVE Line!Init
    OBVIOUS
  <2>1. Confirmed = {} /\ Waiting = {}
    BY DEF Init, Confirmed, Waiting
  <2> QED
    BY <2>1, SeatsAssumption DEF Line!Init, Init, SeatsAssumption
<1>2. TypeOK /\ [Next]_vars => [Line!Next]_(Line!wlVars)
  BY StepIsLineStep
<1> QED
  BY <1>1, <1>2, TypeCorrect, PTL DEF Spec, Line!Spec, ImplementsWaitingLine

-----------------------------------------------------------------------------
(* What the line's steps do to the number of seats taken. *)

LEMMA CountAfter ==
  ASSUME TypeOK
  PROVE  /\ \A m : m \notin Confirmed =>
              Cardinality(Confirmed \cup {m}) = Cardinality(Confirmed) + 1
         /\ \A q \in Confirmed :
              /\ Cardinality(Confirmed \ {q}) \in Nat
              /\ Cardinality(Confirmed \ {q}) = Cardinality(Confirmed) - 1
              /\ \A n : n \notin Confirmed =>
                   Cardinality((Confirmed \ {q}) \cup {n}) = Cardinality(Confirmed)
<1>1. IsFiniteSet(Confirmed)
  BY SeatsAssumption, FS_Subset DEF SeatsAssumption, Confirmed
<1>2. \A m : m \notin Confirmed =>
        Cardinality(Confirmed \cup {m}) = Cardinality(Confirmed) + 1
  BY <1>1, FS_AddElement
<1>3. ASSUME NEW q \in Confirmed
      PROVE  /\ Cardinality(Confirmed \ {q}) \in Nat
             /\ Cardinality(Confirmed \ {q}) = Cardinality(Confirmed) - 1
             /\ \A n : n \notin Confirmed =>
                  Cardinality((Confirmed \ {q}) \cup {n}) = Cardinality(Confirmed)
  <2>1. /\ IsFiniteSet(Confirmed \ {q})
        /\ Cardinality(Confirmed \ {q}) = Cardinality(Confirmed) - 1
    BY <1>1, FS_RemoveElement
  <2>2. Cardinality(Confirmed \ {q}) \in Nat
    BY <2>1, FS_CardinalityType
  <2>3. ASSUME NEW n, n \notin Confirmed
        PROVE  Cardinality((Confirmed \ {q}) \cup {n}) = Cardinality(Confirmed)
    <3>1. n \notin Confirmed \ {q}
      BY <2>3
    <3>2. Cardinality((Confirmed \ {q}) \cup {n}) = Cardinality(Confirmed \ {q}) + 1
      BY <2>1, <3>1, FS_AddElement
    <3> QED
      BY <2>1, <3>2, SeatsAreCounted
  <2> QED
    BY <2>1, <2>2, <2>3
<1> QED
  BY <1>2, <1>3

LEMMA StepCounts ==
  ASSUME TypeOK, TypeOK', [Next]_vars
  PROVE  /\ Cardinality(Confirmed') > Cardinality(Confirmed)
              => Cardinality(Confirmed') <= capacity'
         /\ ~Stranded /\ Stranded' => capacity' > capacity
<1> DEFINE old == Cardinality(Confirmed)
           new == Cardinality(Confirmed')
<1>1. old \in Nat /\ new \in Nat /\ capacity \in Nat /\ capacity' \in Nat
  <2>1. IsFiniteSet(Confirmed')
    <3>1. Confirmed' \subseteq Member
      BY DEF Confirmed
    <3> QED
      BY <3>1, SeatsAssumption, FS_Subset DEF SeatsAssumption
  <2> QED
    BY <2>1, FS_CardinalityType, SeatsAreCounted DEF TypeOK
<1>2. /\ HasRoom <=> old < capacity
      /\ HasRoom' <=> new < capacity'
      /\ Line!Full <=> old >= capacity
  BY SameCount DEF HasRoom, Line!Full
<1>3. Confirmed \cap Waiting = {} /\ Line!First \subseteq Waiting
  BY DEF Confirmed, Waiting, Line!First
<1> HIDE DEF old, new
<1>4. CASE Line!Resize
  <2>1. Confirmed' = Confirmed /\ Waiting' = Waiting
    BY <1>4 DEF Line!Resize
  <2>2. new = old
    BY <2>1 DEF old, new
  <2> QED
    BY <1>1, <1>2, <2>1, <2>2 DEF Stranded, old, new
<1>5. ASSUME NEW m \in Member, Line!TakeSeat(m)
      PROVE  new = old + 1 /\ old < capacity /\ capacity' = capacity
             /\ Waiting' = Waiting
  BY <1>1, <1>2, <1>5, CountAfter DEF Line!TakeSeat, old, new
<1>6. ASSUME NEW m \in Member, Line!Join(m)
      PROVE  new = old /\ old >= capacity /\ capacity' = capacity
  BY <1>2, <1>6 DEF Line!Join, old, new
<1>7. ASSUME NEW m \in Member, Line!Leave(m)
      PROVE  new = old /\ capacity' = capacity /\ Waiting # {}
  BY <1>7 DEF Line!Leave, old, new
<1>8. ASSUME NEW m \in Member, Line!GiveUp(m)
      PROVE  /\ new = old - 1 /\ capacity' = capacity
             /\ Waiting' = Waiting
             /\ Waiting = {} \/ new >= capacity
  BY <1>8, CountAfter, SameCount DEF Line!GiveUp, old, new
<1>9. ASSUME NEW m \in Member, Line!HandOver(m)
      PROVE  new = old /\ capacity' = capacity /\ Waiting # {}
  <2>1. PICK n \in Line!First : Confirmed' = (Confirmed \ {m}) \cup {n}
    BY <1>9 DEF Line!HandOver
  <2>2. n \notin Confirmed /\ n \in Waiting
    BY <1>3
  <2>3. m \in Confirmed /\ capacity' = capacity
    BY <1>9 DEF Line!HandOver
  <2>4. Cardinality((Confirmed \ {m}) \cup {n}) = Cardinality(Confirmed)
    BY <2>2, <2>3, CountAfter
  <2> QED
    BY <2>1, <2>2, <2>3, <2>4 DEF old, new
<1>10. CASE Line!Offer
  <2>1. PICK n \in Line!First : Confirmed' = Confirmed \cup {n}
    BY <1>10 DEF Line!Offer
  <2>2. n \notin Confirmed /\ n \in Waiting
    BY <1>3
  <2>3. new = old + 1
    BY <2>1, <2>2, CountAfter DEF old, new
  <2>4. capacity' = capacity /\ old < capacity
    BY <1>1, <1>2, <1>10 DEF Line!Offer
  <2> QED
    BY <1>1, <1>2, <2>2, <2>3, <2>4 DEF Stranded, old, new
<1>11. CASE UNCHANGED Line!wlVars
  BY <1>1, <1>2, <1>11 DEF Line!wlVars, Stranded, HasRoom, old, new
<1>12. \A m \in Member :
         Line!TakeSeat(m) \/ Line!Join(m) \/ Line!Leave(m) \/ Line!GiveUp(m)
           \/ Line!HandOver(m) =>
         /\ new > old => new <= capacity'
         /\ ~Stranded /\ Stranded' => capacity' > capacity
  BY <1>1, <1>2, <1>5, <1>6, <1>7, <1>8, <1>9 DEF Stranded
<1> QED
  BY <1>4, <1>10, <1>11, <1>12, StepIsLineStep DEF Line!Next, old, new

\* REQ-RSV-002: no step confirms a member beyond the capacity, whatever calls
\* are in flight and however the capacity was changed before.
THEOREM NoStepOverbooks == Spec => NoOverbooking
<1>1. TypeOK /\ TypeOK' /\ [Next]_vars =>
        [Cardinality(Confirmed') > Cardinality(Confirmed)
           => Cardinality(Confirmed') <= capacity']_vars
  BY StepCounts
<1> QED
  BY <1>1, TypeCorrect, PTL DEF Spec, NoOverbooking

\* REQ-RSV-003: a free seat beside a waiting member can only come from a
\* larger capacity: every cancellation promotes in its own step.
THEOREM NoCancellationStrands == Spec => FreeSeatOnlyByResize
<1>1. TypeOK /\ TypeOK' /\ [Next]_vars =>
        [~Stranded /\ Stranded' => capacity' > capacity]_vars
  BY StepCounts
<1> QED
  BY <1>1, TypeCorrect, PTL DEF Spec, FreeSeatOnlyByResize

-----------------------------------------------------------------------------
(* Rows one by one. *)

\* The steps that leave every row as it is.
LEMMA OnlyThreeActionsWriteRows ==
  ASSUME [Next]_vars
  PROVE  \/ rsvp' = rsvp
         \/ \E c \in calls : ReserveSeat(c) \/ CancelRsvp(c)
         \/ SweepPromotes
BY DEF Next, Serve, Sweep, vars, sessionVars, Press, Send, DeactivateMember,
       ReactivateMember, Publish, BeginSchedule, WriteSchedule,
       TransitionSession, ClockStart, ClockComplete, Tick, SweepBegins,
       SweepEnds

LEMMA PromotedRows ==
  ASSUME NEW rows \in [Member -> Row], NEW taken,
         NEW r \in Promoted(rows, taken, FirstWaiting)
  PROVE  \/ r = rows
         \/ \E m \in FirstWaiting : r = [rows EXCEPT ![m] = Seat]
BY DEF Promoted

\* REQ-RSV-009: a member stops being confirmed only in a step that serves a
\* cancellation of that same member.
THEOREM NobodyIsDisplaced == Spec => NoDisplacement
<1>1. ASSUME TypeOK, [Next]_vars, NEW m \in Confirmed \ Confirmed'
      PROVE  \E c \in calls \ calls' : c.who = m /\ c.op = "cancel"
  <2>1. m \in Member /\ rsvp[m].status = "confirmed" /\ rsvp'[m].status # "confirmed"
    BY <1>1 DEF Confirmed
  <2>2. Seat.status = "confirmed"
    BY DEF Seat
  <2>3. CASE rsvp' = rsvp
    BY <2>1, <2>3
  <2>4. ASSUME NEW c \in calls, ReserveSeat(c) PROVE FALSE
    <3>1. CASE Live(c.who)
      BY <2>1, <2>4, <3>1 DEF ReserveSeat
    <3>2. CASE ~Live(c.who)
      <4>1. m # c.who
        BY <2>1, <3>2 DEF Live
      <4>2. rsvp'[m] = rsvp[m]
        BY <1>1, <2>1, <2>4, <4>1 DEF ReserveSeat, TypeOK
      <4> QED
        BY <2>1, <4>2
    <3> QED
      BY <3>1, <3>2
  <2>5. CASE SweepPromotes
    <3>1. rsvp \in [Member -> Row]
      BY <1>1 DEF TypeOK
    <3>2. \/ rsvp' = rsvp
          \/ \E n \in FirstWaiting : rsvp' = [rsvp EXCEPT ![n] = Seat]
      BY <2>5, <3>1, PromotedRows DEF SweepPromotes
    <3> QED
      BY <2>1, <2>2, <3>1, <3>2
  <2>6. ASSUME NEW c \in calls, CancelRsvp(c)
        PROVE  c.who = m /\ c.op = "cancel" /\ c \notin calls'
    <3>1. c.op = "cancel" /\ c \notin calls'
      BY <2>6 DEF CancelRsvp
    <3>2. ASSUME c.who # m PROVE FALSE
      <4> DEFINE rows == [rsvp EXCEPT ![c.who] = Cancelled(c)]
      <4>1. rows[m] = rsvp[m] /\ DOMAIN rows = Member
        BY <1>1, <2>1, <3>2 DEF TypeOK
      <4>2. \/ rsvp' = rsvp
            \/ rsvp' = rows
            \/ \E n \in FirstWaiting : rsvp' = [rows EXCEPT ![n] = Seat]
        BY <2>6 DEF CancelRsvp, AfterCancel, Promoted
      <4> QED
        BY <2>1, <2>2, <4>1, <4>2
    <3> QED
      BY <3>1, <3>2
  <2> QED
    BY <1>1, <2>3, <2>4, <2>5, <2>6, OnlyThreeActionsWriteRows
<1>2. TypeOK /\ [Next]_vars =>
        [\A m \in Confirmed \ Confirmed' :
           \E c \in calls \ calls' : c.who = m /\ c.op = "cancel"]_vars
  BY <1>1
<1> QED
  BY <1>2, TypeCorrect, PTL DEF Spec, NoDisplacement

\* No two members are ever given one place in the line.
THEOREM PositionsAreDistinct == Spec => []DistinctPositions
<1>1. Init => DistinctPositions
  BY DEF Init, DistinctPositions, Waiting
<1>2. TypeOK /\ DistinctPositions /\ [Next]_vars => DistinctPositions'
  <2> SUFFICES ASSUME TypeOK, DistinctPositions, [Next]_vars
               PROVE  DistinctPositions'
    OBVIOUS
  <2>1. \A m, n \in Member :
          rsvp[m].status = "waitlisted" /\ rsvp[n].status = "waitlisted"
            /\ rsvp[m].position = rsvp[n].position => m = n
    BY DEF DistinctPositions, Waiting
  <2>2. Seat.status = "confirmed"
    BY DEF Seat
  <2>3. ASSUME \A m \in Member : rsvp'[m].status = "waitlisted" => rsvp'[m] = rsvp[m]
        PROVE  DistinctPositions'
    BY <2>1, <2>3 DEF DistinctPositions, Waiting
  <2>4. CASE rsvp' = rsvp
    BY <2>3, <2>4
  <2>5. ASSUME NEW c \in calls, ReserveSeat(c) PROVE DistinctPositions'
    <3>1. CASE rsvp' = rsvp \/ rsvp' = [rsvp EXCEPT ![c.who] = Seat]
      BY <2>2, <2>3, <3>1 DEF TypeOK
    <3>2. ASSUME NEW p \in NextPosition,
                 rsvp' = [rsvp EXCEPT ![c.who] =
                            [status |-> "waitlisted", position |-> p]]
          PROVE  DistinctPositions'
      <4>1. \A n \in Waiting : rsvp[n].position < p /\ rsvp[n].position \in Nat
        BY RowTypes, SeatsAssumption DEF NextPosition, SeatsAssumption, Waiting
      <4>2. p \in Nat
        BY SeatsAssumption DEF NextPosition, SeatsAssumption
      <4>3. \A n \in Member : rsvp'[n] =
              IF n = c.who THEN [status |-> "waitlisted", position |-> p]
              ELSE rsvp[n]
        BY <3>2 DEF TypeOK
      <4>4. \A n \in Member \ {c.who} : rsvp'[n].status = "waitlisted" =>
              n \in Waiting /\ rsvp'[n] = rsvp[n] /\ rsvp'[n].position # p
        BY <4>1, <4>2, <4>3 DEF Waiting
      <4>5. c.who \in Member => rsvp'[c.who].position = p
        BY <4>3
      <4> QED
        BY <2>1, <4>4, <4>5 DEF DistinctPositions, Waiting
    <3> QED
      BY <2>5, <3>1, <3>2 DEF ReserveSeat
  <2>6. ASSUME NEW c \in calls, CancelRsvp(c) PROVE DistinctPositions'
    <3> DEFINE rows == [rsvp EXCEPT ![c.who] = Cancelled(c)]
    <3>1. Cancelled(c).status # "waitlisted"
      BY DEF Cancelled
    <3>2. /\ rows \in [Member -> {rsvp[n] : n \in Member} \cup {Cancelled(c)}]
          /\ \A n \in Member : rows[n].status = "waitlisted" => rows[n] = rsvp[n]
      BY <3>1 DEF TypeOK
    <3>3. \/ rsvp' = rsvp
          \/ rsvp' = rows
          \/ \E n \in FirstWaiting : rsvp' = [rows EXCEPT ![n] = Seat]
      BY <2>6 DEF CancelRsvp, AfterCancel, Promoted
    <3> HIDE DEF rows
    <3> QED
      BY <2>2, <2>3, <3>2, <3>3
  <2>7. CASE SweepPromotes
    <3>1. rsvp \in [Member -> Row]
      BY DEF TypeOK
    <3>2. \/ rsvp' = rsvp
          \/ \E n \in FirstWaiting : rsvp' = [rsvp EXCEPT ![n] = Seat]
      BY <2>7, <3>1, PromotedRows DEF SweepPromotes
    <3> QED
      BY <2>2, <2>3, <3>1, <3>2
  <2> QED
    BY <2>4, <2>5, <2>6, <2>7, OnlyThreeActionsWriteRows
<1> QED
  BY <1>1, <1>2, TypeCorrect, PTL DEF Spec

\* REQ-RSV-005: once the deadline is past and the reservations that beat it are
\* served, no step gives a member a row who had none (reserve_seat,
\* cancel_rsvp, promote_next_waitlisted).
THEOREM DeadlineFreezes == Spec => DeadlineFreezesTotal
<1> DEFINE Frozen == (window.deadline < now /\ InTime = {} /\ window' = window)
                       => \A m \in Member : Live(m)' => Live(m)
<1>1. ASSUME TypeOK, [Next]_vars, window.deadline < now, InTime = {}, NEW m \in Member,
             Live(m)'
      PROVE  Live(m)
  <2>1. rsvp \in [Member -> Row]
    BY <1>1 DEF TypeOK
  <2>2. CASE rsvp' = rsvp
    BY <1>1, <2>2 DEF Live
  <2>3. ASSUME NEW n \in FirstWaiting PROVE Live(n)
    BY DEF FirstWaiting, Waiting, Live
  <2>4. ASSUME NEW c \in calls, ReserveSeat(c) PROVE Live(m)
    <3>1. ~(c.at <= window.deadline)
      BY <1>1, <2>4 DEF ReserveSeat, InTime
    <3>2. rsvp' = rsvp
      BY <2>4, <3>1 DEF ReserveSeat, ReserveAccepted
    <3> QED BY <2>2, <3>2
  <2>5. CASE SweepPromotes
    <3>1. \/ rsvp' = rsvp
          \/ \E n \in FirstWaiting : rsvp' = [rsvp EXCEPT ![n] = Seat]
      BY <2>1, <2>5, PromotedRows DEF SweepPromotes
    <3> QED BY <1>1, <2>1, <2>2, <2>3, <3>1 DEF Live
  <2>6. ASSUME NEW c \in calls, CancelRsvp(c) PROVE Live(m)
    <3> DEFINE rows == [rsvp EXCEPT ![c.who] = Cancelled(c)]
    <3>1. \/ rsvp' = rsvp
          \/ Live(c.who) /\ rsvp' = rows
          \/ Live(c.who) /\ \E n \in FirstWaiting : rsvp' = [rows EXCEPT ![n] = Seat]
      BY <2>6 DEF CancelRsvp, AfterCancel, Promoted
    <3>2. CASE m = c.who
      BY <2>2, <3>1, <3>2
    <3>3. CASE m # c.who
      <4>1. rows[m] = rsvp[m] /\ DOMAIN rows = Member
        BY <2>1, <3>3
      <4> HIDE DEF rows
      <4> QED BY <1>1, <2>1, <2>2, <2>3, <3>1, <4>1 DEF Live
    <3> QED BY <3>2, <3>3
  <2> QED
    BY <1>1, <2>2, <2>4, <2>5, <2>6, OnlyThreeActionsWriteRows
<1>2. TypeOK /\ [Next]_vars => [Frozen]_vars
  BY <1>1
<1>3. Spec => [][Frozen]_vars
  BY <1>2, TypeCorrect, PTL DEF Spec
<1> QED
  BY <1>3 DEF DeadlineFreezesTotal
=============================================================================
