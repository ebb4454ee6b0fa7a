------------------------- MODULE AttendanceProofs -------------------------
(***************************************************************************)
(* What Attendance keeps for any members, any number of days and of jobs   *)
(* at once, and any number of check-ins, calls and crashes: types, that    *)
(* nothing is written before the end, that an award is taken back only     *)
(* from incomplete attendance, and that with one job at a time a member is *)
(* paid once.                                                              *)
(***************************************************************************)
EXTENDS Attendance, FiniteSetTheorems, TLAPS

USE AttendanceAssumption DEF AttendanceAssumption

---------------------------------------------------------------------------
(* Rows, awards and tasks.                                                 *)

LEMMA Element ==
    ASSUME NEW S, NEW s \in Seq(S)
    PROVE  /\ Len(s) \in Nat /\ DOMAIN s = 1..Len(s)
           /\ \A i \in DOMAIN s : s[i] \in S
  OBVIOUS

LEMMA Appended ==
    ASSUME NEW S, NEW s \in Seq(S), NEW e \in S
    PROVE  /\ Append(s, e) \in Seq(S) /\ Len(Append(s, e)) = Len(s) + 1
           /\ DOMAIN Append(s, e) = 1..(Len(s) + 1)
           /\ Append(s, e)[Len(s) + 1] = e
           /\ \A i \in DOMAIN s : Append(s, e)[i] = s[i]
  OBVIOUS

\* One standing check-in per member and day.
OnePerDay(cs) ==
    \A i, j \in DOMAIN cs :
        (/\ cs[i].member = cs[j].member
         /\ cs[i].day = cs[j].day
         /\ ~cs[i].removed /\ ~cs[j].removed) => i = j

\* The rows a call works on: those there are, and perhaps one more.
Continues(cs) ==
    /\ cs \in Seq(CheckIn)
    /\ DOMAIN checkIns \subseteq DOMAIN cs
    /\ \A i \in DOMAIN checkIns : cs[i].member = checkIns[i].member

LEMMA RowsContinue ==
    ASSUME TypeOK
    PROVE  Continues(checkIns)
  BY DEF TypeOK, Continues

\* A new row of a day that is not taken.
LEMMA RowAdded ==
    ASSUME TypeOK, NEW m \in Member, NEW d \in Day, NEW l \in BOOLEAN,
           ~DayTaken(m, d),
           checkIns' = Append(checkIns,
               [member |-> m, day |-> d, removed |-> FALSE, late |-> l])
    PROVE  Continues(checkIns') /\ OnePerDay(checkIns')
  <1> DEFINE e == [member |-> m, day |-> d, removed |-> FALSE, late |-> l]
             n == Len(checkIns) + 1
  <1>1. e \in CheckIn /\ e.member = m /\ e.day = d /\ e.removed = FALSE
    BY DEF CheckIn
  <1>2. checkIns \in Seq(CheckIn)
    BY DEF TypeOK
  <1> HIDE DEF e
  <1>3. checkIns' = Append(checkIns, e)
    BY DEF e
  <1>4. /\ checkIns' \in Seq(CheckIn) /\ DOMAIN checkIns' = 1..n /\ checkIns'[n] = e
        /\ \A i \in DOMAIN checkIns : checkIns'[i] = checkIns[i]
    BY ONLY <1>1, <1>2, <1>3, Appended
  <1>5. Len(checkIns) \in Nat /\ DOMAIN checkIns = 1..Len(checkIns)
    BY ONLY <1>2, Element
  <1>6. DOMAIN checkIns' = DOMAIN checkIns \cup {n}
    BY ONLY <1>4, <1>5
  <1>7. Continues(checkIns')
    BY <1>4, <1>6 DEF Continues
  <1>8. OnePerDay(checkIns)
    BY DEF TypeOK, OnePerDay
  <1>9. \A i \in DOMAIN checkIns :
            ~(checkIns[i].member = m /\ checkIns[i].day = d /\ ~checkIns[i].removed)
    BY DEF DayTaken, Active
  <1>10. OnePerDay(checkIns')
    BY ONLY <1>1, <1>4, <1>6, <1>8, <1>9 DEF OnePerDay
  <1> QED BY <1>7, <1>10

\* A row taken back.
LEMMA RowRemoved ==
    ASSUME TypeOK, NEW k \in DOMAIN checkIns
    PROVE  LET cs == [checkIns EXCEPT ![k].removed = TRUE]
           IN Continues(cs) /\ OnePerDay(cs) /\ DOMAIN cs = DOMAIN checkIns
  <1> DEFINE cs == [checkIns EXCEPT ![k].removed = TRUE]
             row == [checkIns[k] EXCEPT !.removed = TRUE]
  <1>1. checkIns \in Seq(CheckIn) /\ checkIns[k] \in CheckIn
    BY Element DEF TypeOK
  <1>2. /\ row \in CheckIn /\ row.removed = TRUE
        /\ row.member = checkIns[k].member /\ row.day = checkIns[k].day
    BY <1>1 DEF CheckIn
  <1>3. DOMAIN cs = DOMAIN checkIns /\ cs[k] = row
    OBVIOUS
  <1>4. \A i \in DOMAIN checkIns : i # k => cs[i] = checkIns[i]
    OBVIOUS
  <1>5. cs \in Seq(CheckIn)
    BY <1>1, <1>2
  <1> HIDE DEF cs, row
  <1>6. Continues(cs)
    BY <1>2, <1>3, <1>4, <1>5 DEF Continues
  <1>7. OnePerDay(checkIns)
    BY DEF TypeOK, OnePerDay
  <1>8. OnePerDay(cs)
    BY ONLY <1>2, <1>3, <1>4, <1>7 DEF OnePerDay
  <1> QED BY <1>3, <1>6, <1>8 DEF cs

\* Reversing awards keeps their types and their check-ins.
LEMMA ReversalTypes ==
    ASSUME TypeOK, NEW taken
    PROVE  /\ Reversal(taken) \subseteq Award /\ IsFiniteSet(Reversal(taken))
           /\ \A x \in Reversal(taken) : x.checkIn \in DOMAIN checkIns
  <1> DEFINE rev(x) == IF x \in taken THEN [x EXCEPT !.reversed = TRUE] ELSE x
  <1>1. ledger \subseteq Award /\ IsFiniteSet(ledger)
    BY DEF TypeOK
  <1>2. \A x \in ledger : x.checkIn \in DOMAIN checkIns
    BY DEF TypeOK
  <1>3. \A x \in Award : rev(x) \in Award /\ rev(x).checkIn = x.checkIn
    BY DEF Award
  <1>4. Reversal(taken) = {rev(x) : x \in ledger}
    BY DEF Reversal
  <1> HIDE DEF rev
  <1>5. IsFiniteSet({rev(x) : x \in ledger})
    <2> DEFINE T == {rev(x) : x \in ledger}
               f == [x \in ledger |-> rev(x)]
    <2>1. f \in Surjection(ledger, T)
      BY DEF Surjection
    <2> HIDE DEF f, T
    <2>2. IsFiniteSet(T)
      BY ONLY <1>1, <2>1, FS_Surjection
    <2> QED BY <2>2 DEF T
  <1> QED BY <1>1, <1>2, <1>3, <1>4, <1>5

LEMMA EvaluateTypes ==
    ASSUME TypeOK, NEW cs, Continues(cs), NEW ms, NEW ended, Evaluate(cs, ms, ended)
    PROVE  /\ ledger' \subseteq Award /\ IsFiniteSet(ledger')
           /\ \A x \in ledger' : x.checkIn \in DOMAIN checkIns
           /\ jobs' \subseteq DOMAIN cs
  <1>1. PICK taken : ledger' = Reversal(taken)
    BY DEF Evaluate
  <1>2. \A m : EpochCheckIn(cs, m) \subseteq DOMAIN cs
    BY DEF EpochCheckIn, Active
  <1>3. jobs \subseteq DOMAIN cs
    BY DEF TypeOK, Continues
  <1>4. jobs' \subseteq DOMAIN cs
    BY <1>2, <1>3 DEF Evaluate
  <1> QED BY <1>1, <1>4, ReversalTypes

LEMMA EpochIsNat ==
    ASSUME TypeOK, NEW m
    PROVE  AwardEpoch(m) \in Nat
  <1>1. IsFiniteSet({x \in AwardsOf(checkIns, m) : x.reversed})
    BY FS_Subset DEF TypeOK, AwardsOf
  <1>2. Cardinality({x \in AwardsOf(checkIns, m) : x.reversed}) \in Nat
    BY <1>1, FS_CardinalityType
  <1> QED BY <1>2 DEF AwardEpoch

---------------------------------------------------------------------------
(* Types.                                                                  *)

\* What points at a row still does when rows are added or marked.
LEMMA PointersKept ==
    ASSUME TypeOK, NEW cs, DOMAIN checkIns \subseteq DOMAIN cs,
           NEW rs, rs \subseteq removing
    PROVE  /\ rs \subseteq [checkIn : DOMAIN cs, ended : BOOLEAN]
           /\ \A t \in running : t.task = "award_points" => t.checkIn \in DOMAIN cs
           /\ \A x \in ledger : x.checkIn \in DOMAIN cs
           /\ jobs \subseteq DOMAIN cs
  BY DEF TypeOK

\* A call that writes its rows, and evaluates them or not.
LEMMA RowsWritten ==
    ASSUME TypeOK, Continues(checkIns'), OnePerDay(checkIns'), NEW ms, NEW ended,
           Evaluate(checkIns', ms, ended) \/ UNCHANGED <<ledger, jobs>>,
           removing' \subseteq removing, entering' \subseteq entering,
           noShows' \subseteq Member,
           UNCHANGED <<session, passQueued, running, failures>>
    PROVE  TypeOK'
  <1>1. checkIns' \in Seq(CheckIn) /\ DOMAIN checkIns \subseteq DOMAIN checkIns'
    BY DEF Continues
  <1>2. /\ removing' \subseteq [checkIn : DOMAIN checkIns', ended : BOOLEAN]
        /\ \A t \in running : t.task = "award_points" => t.checkIn \in DOMAIN checkIns'
        /\ \A x \in ledger : x.checkIn \in DOMAIN checkIns'
        /\ jobs \subseteq DOMAIN checkIns'
    BY ONLY TypeOK, <1>1, removing' \subseteq removing, PointersKept
  <1>3. /\ ledger' \subseteq Award /\ IsFiniteSet(ledger')
        /\ \A x \in ledger' : x.checkIn \in DOMAIN checkIns'
        /\ jobs' \subseteq DOMAIN checkIns'
    <2>1. CASE Evaluate(checkIns', ms, ended)
      BY <1>1, <2>1, EvaluateTypes
    <2>2. CASE UNCHANGED <<ledger, jobs>>
      BY <1>2, <2>2 DEF TypeOK
    <2> QED BY <2>1, <2>2
  <1>4. entering' \subseteq [member : Member, day : Day, ended : BOOLEAN]
    BY DEF TypeOK
  <1>5. /\ running' \subseteq Task
        /\ \A t \in running' : t.task = "award_points" => t.checkIn \in DOMAIN checkIns'
    BY <1>2 DEF TypeOK
  <1>6. /\ state' \in SessionState /\ completedAt' \in BOOLEAN
        /\ deleted' \in BOOLEAN /\ requireAll' \in BOOLEAN
        /\ passQueued' \in BOOLEAN /\ failures' \in 0..MaxFailures
    BY DEF TypeOK, session
  <1> QED BY <1>1, <1>2, <1>3, <1>4, <1>5, <1>6 DEF TypeOK, OnePerDay

\* A step that leaves the rows and the calls alone.
LEMMA RowsUntouched ==
    ASSUME TypeOK, UNCHANGED <<requireAll, checkIns, entering, removing>>,
           state' \in SessionState, completedAt' \in BOOLEAN, deleted' \in BOOLEAN,
           ledger' \subseteq Award, IsFiniteSet(ledger'),
           \A x \in ledger' : x.checkIn \in DOMAIN checkIns,
           noShows' \subseteq Member, jobs' \subseteq DOMAIN checkIns,
           passQueued' \in BOOLEAN, failures' \in 0..MaxFailures,
           running' \subseteq Task,
           \A t \in running' : t.task = "award_points" => t.checkIn \in DOMAIN checkIns
    PROVE  TypeOK'
  BY DEF TypeOK

LEMMA AttendanceTypeInit == Init => TypeOK
  <1> SUFFICES ASSUME Init PROVE TypeOK
    OBVIOUS
  <1>1. DOMAIN checkIns = {} /\ checkIns \in Seq(CheckIn)
    BY DEF Init
  <1>2. IsFiniteSet(ledger)
    BY FS_EmptySet DEF Init
  <1>3. state \in SessionState /\ failures \in 0..MaxFailures
    BY DEF Init, SessionState
  <1>4. completedAt \in BOOLEAN /\ deleted \in BOOLEAN /\ requireAll \in BOOLEAN /\ passQueued \in BOOLEAN
    BY Zenon DEF Init
  <1> QED BY <1>1, <1>2, <1>3, <1>4 DEF Init, TypeOK

\* Every step keeps the types.
LEMMA AttendanceTypeStep == TypeOK /\ [Next]_vars => TypeOK'
  <1> SUFFICES ASSUME TypeOK, [Next]_vars PROVE TypeOK'
    OBVIOUS
  <1> USE DEF session, people, work
  <1>1. ASSUME NEW m \in Member, NEW d \in Day, BeginCheckIn(m, d) PROVE TypeOK'
    <2>1. [member |-> m, day |-> d, ended |-> Ended]
              \in [member : Member, day : Day, ended : BOOLEAN]
      BY DEF Ended
    <2> QED BY <1>1, <2>1 DEF BeginCheckIn, TypeOK
  <1>2. ASSUME NEW m \in Member, NEW d \in Day, MarkCheckedInManually(m, d) PROVE TypeOK'
    <2>1. Continues(checkIns') /\ OnePerDay(checkIns')
      BY <1>2, RowAdded DEF MarkCheckedInManually
    <2>2. Evaluate(checkIns', {m}, TRUE) \/ UNCHANGED <<ledger, jobs>>
      BY <1>2 DEF MarkCheckedInManually
    <2> QED BY <1>2, <2>1, <2>2, RowsWritten DEF MarkCheckedInManually, TypeOK
  <1>3. ASSUME NEW e \in entering, FinishCheckIn(e) PROVE TypeOK'
    <2>1. CASE UNCHANGED <<checkIns, ledger, jobs>>
      BY <1>3, <2>1 DEF FinishCheckIn, TypeOK
    <2>2. CASE /\ ~DayTaken(e.member, e.day)
               /\ checkIns' = Append(checkIns,
                      [member |-> e.member, day |-> e.day, removed |-> FALSE,
                       late |-> Ended /\ ~e.ended /\ ~passQueued])
               /\ \/ Evaluate(checkIns', {e.member}, TRUE)
                  \/ UNCHANGED <<ledger, jobs>>
      <3>1. e.member \in Member /\ e.day \in Day
        BY DEF TypeOK
      <3>2. (Ended /\ ~e.ended /\ ~passQueued) \in BOOLEAN
        BY Zenon
      <3>3. Continues(checkIns') /\ OnePerDay(checkIns')
        BY <2>2, <3>1, <3>2, RowAdded
      <3> QED BY <1>3, <2>2, <3>3, RowsWritten DEF FinishCheckIn, TypeOK
    <2> QED BY <1>3, <2>1, <2>2 DEF FinishCheckIn
  <1>4. ASSUME NEW e \in entering, AbandonCheckIn(e) PROVE TypeOK'
    BY <1>4 DEF AbandonCheckIn, TypeOK
  <1>5. ASSUME NEW i \in DOMAIN checkIns, BeginRemoveCheckIn(i) PROVE TypeOK'
    <2>1. [checkIn |-> i, ended |-> Ended] \in [checkIn : DOMAIN checkIns, ended : BOOLEAN]
      BY DEF Ended
    <2> QED BY <1>5, <2>1 DEF BeginRemoveCheckIn, TypeOK
  <1>6. ASSUME NEW r \in removing, FinishRemoveCheckIn(r) PROVE TypeOK'
    <2>1. r.checkIn \in DOMAIN checkIns /\ checkIns[r.checkIn].member \in Member
      <3>1. r.checkIn \in DOMAIN checkIns
        BY DEF TypeOK
      <3>2. checkIns[r.checkIn] \in CheckIn
        BY <3>1, Element DEF TypeOK
      <3> QED BY <3>1, <3>2 DEF CheckIn
    <2>2. Continues(checkIns') /\ OnePerDay(checkIns')
      BY <1>6, <2>1, RowRemoved DEF FinishRemoveCheckIn
    <2>3. Evaluate(checkIns', {checkIns[r.checkIn].member}, r.ended)
      BY <1>6 DEF FinishRemoveCheckIn
    <2>4. noShows' \subseteq Member
      BY <1>6, <2>1 DEF FinishRemoveCheckIn, TypeOK
    <2> QED BY <1>6, <2>2, <2>3, <2>4, RowsWritten DEF FinishRemoveCheckIn
  <1>7. ASSUME CompleteSession \/ ArchiveSession \/ ReopenSession \/ CancelSession
        PROVE  TypeOK'
    <2>1. state' \in SessionState
      BY <1>7 DEF CompleteSession, ArchiveSession, ReopenSession, CancelSession, Move,
                  SessionState
    <2>2. passQueued' \in BOOLEAN /\ completedAt' \in BOOLEAN
      BY <1>7, Zenon DEF CompleteSession, ArchiveSession, ReopenSession, CancelSession, Move
    <2> QED BY <1>7, <2>1, <2>2
          DEF CompleteSession, ArchiveSession, ReopenSession, CancelSession, Move, TypeOK
  <1>8. CASE DeleteSession
    <2>1. /\ ledger' \subseteq Award /\ IsFiniteSet(ledger')
          /\ \A x \in ledger' : x.checkIn \in DOMAIN checkIns
      BY <1>8, ReversalTypes DEF DeleteSession
    <2>2. state' \in SessionState /\ deleted' \in BOOLEAN
      BY <1>8 DEF DeleteSession, SessionState, TypeOK
    <2> QED BY <1>8, <2>1, <2>2 DEF DeleteSession, TypeOK
  <1>9. ASSUME NEW i \in jobs, BeginAward(i) PROVE TypeOK'
    <2> DEFINE t == [task |-> "award_points", checkIn |-> i,
                     epoch |-> AwardEpoch(checkIns[i].member)]
    <2>1. i \in DOMAIN checkIns /\ i \in Nat
      BY Element DEF TypeOK
    <2>2. AwardEpoch(checkIns[i].member) \in Nat
      BY EpochIsNat
    <2>3. t \in Task /\ t.checkIn \in DOMAIN checkIns
      BY <2>1, <2>2 DEF Task
    <2>4. running' = running \cup {t} \/ UNCHANGED running
      BY <1>9 DEF BeginAward, Begins
    <2> HIDE DEF t
    <2>5. /\ running' \subseteq Task
          /\ \A x \in running' : x.task = "award_points" => x.checkIn \in DOMAIN checkIns
      BY <2>3, <2>4 DEF TypeOK
    <2>6. jobs' \subseteq DOMAIN checkIns
      BY <1>9 DEF BeginAward, TypeOK
    <2> QED BY <1>9, <2>5, <2>6, RowsUntouched DEF BeginAward, TypeOK
  <1>10. CASE EvaluateSession
    <2>1. /\ ledger' \subseteq Award /\ IsFiniteSet(ledger')
          /\ \A x \in ledger' : x.checkIn \in DOMAIN checkIns
          /\ jobs' \subseteq DOMAIN checkIns
      BY <1>10, RowsContinue, EvaluateTypes DEF EvaluateSession
    <2>2. /\ running' \subseteq Task
          /\ \A x \in running' : x.task = "award_points" => x.checkIn \in DOMAIN checkIns
      BY <1>10 DEF EvaluateSession, Begins, Evaluated, Task, TypeOK
    <2>3. passQueued' \in BOOLEAN
      BY <1>10 DEF EvaluateSession
    <2> QED BY <1>10, <2>1, <2>2, <2>3, RowsUntouched DEF EvaluateSession, TypeOK
  <1>11. ASSUME NEW t \in running, FinishAward(t) PROVE TypeOK'
    <2> DEFINE x == [checkIn |-> t.checkIn, epoch |-> t.epoch, reversed |-> FALSE]
    <2>1. t \in Task /\ t.task = "award_points" /\ t.checkIn \in DOMAIN checkIns
      BY <1>11 DEF FinishAward, TypeOK
    <2>2. x \in Award /\ x.checkIn \in DOMAIN checkIns
      BY <2>1 DEF Task, Award
    <2>3. IsFiniteSet(ledger \cup {x})
      BY FS_AddElement DEF TypeOK
    <2>4. ledger' = ledger \/ ledger' = ledger \cup {x}
      BY <1>11 DEF FinishAward
    <2> HIDE DEF x
    <2>5. /\ ledger' \subseteq Award /\ IsFiniteSet(ledger')
          /\ \A y \in ledger' : y.checkIn \in DOMAIN checkIns
      BY <2>2, <2>3, <2>4 DEF TypeOK
    <2> QED BY <1>11, <2>5, RowsUntouched DEF FinishAward, Ends, TypeOK
  <1>12. ASSUME NEW t \in running, SelectNoShows(t) PROVE TypeOK'
    <2>1. {m \in Confirmed : Active(checkIns, m) = {}} \subseteq Member
      OBVIOUS
    <2>2. \A ms \in SUBSET Member : Recording(ms) \in Task /\ Recording(ms).task = "no_show"
      BY DEF Recording, Task
    <2>3. /\ running' \subseteq Task
          /\ \A x \in running' : x.task = "award_points" => x.checkIn \in DOMAIN checkIns
      BY <1>12, <2>1, <2>2 DEF SelectNoShows, Records, TypeOK
    <2> QED BY <1>12, <2>3 DEF SelectNoShows, TypeOK
  <1>13. ASSUME NEW t \in running, WriteNoShow(t) PROVE TypeOK'
    <2>1. t \in Task /\ t.task = "no_show"
      BY <1>13 DEF WriteNoShow, TypeOK
    <2>2. t.absent \subseteq Member
      BY <2>1 DEF Task
    <2>3. PICK m \in t.absent : noShows' = noShows \cup {m} /\ Records(t, t.absent \ {m})
      BY <1>13 DEF WriteNoShow
    <2>4. \A ms \in SUBSET Member : Recording(ms) \in Task /\ Recording(ms).task = "no_show"
      BY DEF Recording, Task
    <2>5. /\ running' \subseteq Task
          /\ \A x \in running' : x.task = "award_points" => x.checkIn \in DOMAIN checkIns
      BY <2>2, <2>3, <2>4 DEF Records, TypeOK
    <2>6. noShows' \subseteq Member
      BY <2>2, <2>3 DEF TypeOK
    <2> QED BY <1>13, <2>5, <2>6 DEF WriteNoShow, TypeOK
  <1>14. ASSUME NEW t \in running, Fail(t) PROVE TypeOK'
    <2>1. jobs' \subseteq DOMAIN checkIns
      BY <1>14 DEF Fail, TypeOK
    <2>2. failures' \in 0..MaxFailures
      <3>1. failures \in 0..MaxFailures /\ failures < MaxFailures /\ failures' = failures + 1
        BY <1>14 DEF Fail, TypeOK
      <3> QED BY ONLY <3>1, AttendanceAssumption DEF AttendanceAssumption
    <2>3. passQueued' \in BOOLEAN
      BY <1>14, Zenon DEF Fail
    <2> QED BY <1>14, <2>1, <2>2, <2>3 DEF Fail, Ends, TypeOK
  <1>15. CASE UNCHANGED vars
    BY <1>15 DEF vars, TypeOK
  <1> QED BY <1>1, <1>2, <1>3, <1>4, <1>5, <1>6, <1>7, <1>8, <1>9, <1>10, <1>11,
             <1>12, <1>13, <1>14, <1>15 DEF Next

\* Every reachable state is well typed, and the unique index holds in it.
THEOREM AttendanceTypeCorrect == Spec => []TypeOK
  BY AttendanceTypeInit, AttendanceTypeStep, PTL DEF Spec

---------------------------------------------------------------------------
(* Before the end.                                                         *)

\* Before the session has ended there is no work either, no call believes that
\* it has, and the row tells that it had when it is cancelled afterwards.
EndInv ==
    /\ TypeOK
    /\ Ended => completedAt
    /\ \/ completedAt
       \/ ledger = {} /\ noShows = {} /\ jobs = {} /\ running = {} /\ ~passQueued
    /\ \A e \in entering : e.ended => completedAt
    /\ \A r \in removing : r.ended => completedAt

LEMMA ReversalOfNothing ==
    ASSUME ledger = {}, NEW taken
    PROVE  Reversal(taken) = {}
  BY DEF Reversal

\* Evaluated before the end, attendance changes nothing.
LEMMA EvaluateBeforeTheEnd ==
    ASSUME ledger = {}, jobs = {}, NEW cs, NEW ms, NEW ended, ~ended,
           Evaluate(cs, ms, ended)
    PROVE  ledger' = {} /\ jobs' = {}
  <1>1. ledger' = {}
    BY ReversalOfNothing DEF Evaluate
  <1>2. jobs' = {}
    BY DEF Evaluate
  <1> QED BY <1>1, <1>2

\* The moment of the end stays on the row, and whoever is completed or archived
\* has one.
LEMMA EndIsKept ==
    ASSUME TypeOK, Ended => completedAt, [Next]_vars
    PROVE  (completedAt => completedAt') /\ (Ended' => completedAt')
  <1> USE DEF session, people, work, Ended
  <1>1. CASE UNCHANGED <<state, completedAt>>
    BY <1>1
  <1>2. CASE CompleteSession \/ ArchiveSession \/ ReopenSession \/ CancelSession
    BY <1>2 DEF CompleteSession, ArchiveSession, ReopenSession, CancelSession, Move
  <1>3. CASE DeleteSession
    BY <1>3 DEF DeleteSession
  <1>4. \/ UNCHANGED <<state, completedAt>>
        \/ CompleteSession \/ ArchiveSession \/ ReopenSession \/ CancelSession
        \/ DeleteSession
    BY DEF Next, vars, BeginCheckIn, MarkCheckedInManually, FinishCheckIn, AbandonCheckIn,
           BeginRemoveCheckIn, FinishRemoveCheckIn, BeginAward, EvaluateSession,
           FinishAward, SelectNoShows, WriteNoShow, Fail
  <1> QED BY <1>1, <1>2, <1>3, <1>4

\* What a call remembers of the session stays true.
LEMMA CallsRemember ==
    ASSUME EndInv, [Next]_vars
    PROVE  /\ \A e \in entering' : e.ended => completedAt'
           /\ \A r \in removing' : r.ended => completedAt'
  <1> USE DEF session, people, work
  <1>0. (completedAt => completedAt') /\ (Ended => completedAt)
    BY EndIsKept DEF EndInv
  <1>1. /\ \A e \in entering : e.ended => completedAt'
        /\ \A r \in removing : r.ended => completedAt'
    BY <1>0 DEF EndInv
  <1>2. CASE entering' \subseteq entering /\ removing' \subseteq removing
    BY <1>1, <1>2
  <1>3. ASSUME NEW m \in Member, NEW d \in Day, BeginCheckIn(m, d)
        PROVE  /\ \A e \in entering' : e.ended => completedAt'
               /\ \A r \in removing' : r.ended => completedAt'
    BY <1>0, <1>1, <1>3 DEF BeginCheckIn
  <1>4. ASSUME NEW i \in DOMAIN checkIns, BeginRemoveCheckIn(i)
        PROVE  /\ \A e \in entering' : e.ended => completedAt'
               /\ \A r \in removing' : r.ended => completedAt'
    BY <1>0, <1>1, <1>4 DEF BeginRemoveCheckIn
  <1>5. \/ entering' \subseteq entering /\ removing' \subseteq removing
        \/ \E m \in Member, d \in Day : BeginCheckIn(m, d)
        \/ \E i \in DOMAIN checkIns : BeginRemoveCheckIn(i)
    BY DEF Next, vars, MarkCheckedInManually, FinishCheckIn, AbandonCheckIn,
           FinishRemoveCheckIn, BeginAward, EvaluateSession,
           FinishAward, SelectNoShows, WriteNoShow, Fail, DeleteSession,
           CompleteSession, ArchiveSession, ReopenSession, CancelSession, Move
  <1> QED BY <1>2, <1>3, <1>4, <1>5

\* Until it ends, no step makes work or writes a row of points.
LEMMA NoWorkBeforeTheEnd ==
    ASSUME EndInv, [Next]_vars, ~completedAt'
    PROVE  ledger' = {} /\ noShows' = {} /\ jobs' = {} /\ running' = {} /\ ~passQueued'
  <1> USE DEF session, people, work
  <1>1. ~completedAt /\ ~Ended
    BY EndIsKept DEF EndInv
  <1>2. ledger = {} /\ noShows = {} /\ jobs = {} /\ running = {} /\ ~passQueued
    BY <1>1 DEF EndInv
  <1> DEFINE Nothing == /\ ledger' = {} /\ noShows' = {} /\ jobs' = {}
                        /\ running' = {} /\ ~passQueued'
  <1>3. CASE UNCHANGED <<ledger, noShows, work>>
    BY <1>2, <1>3
  <1>4. ASSUME NEW m \in Member, NEW d \in Day, MarkCheckedInManually(m, d) PROVE Nothing
    BY <1>1, <1>2, <1>4 DEF MarkCheckedInManually
  <1>5. ASSUME NEW e \in entering, FinishCheckIn(e) PROVE Nothing
    <2>1. ~e.ended
      BY <1>1 DEF EndInv
    <2> QED BY <1>2, <1>5, <2>1 DEF FinishCheckIn
  <1>6. ASSUME NEW r \in removing, FinishRemoveCheckIn(r) PROVE Nothing
    <2>1. ~r.ended
      BY <1>1 DEF EndInv
    <2>2. ledger' = {} /\ jobs' = {}
      BY <1>2, <1>6, <2>1, EvaluateBeforeTheEnd DEF FinishRemoveCheckIn
    <2> QED BY <1>2, <1>6, <2>1, <2>2 DEF FinishRemoveCheckIn
  <1>7. CASE CompleteSession \/ ArchiveSession \/ ReopenSession
    BY <1>1, <1>7 DEF CompleteSession, ArchiveSession, ReopenSession, Move, Ended
  <1>8. CASE CancelSession
    BY <1>2, <1>8 DEF CancelSession, Move
  <1>9. CASE DeleteSession
    BY <1>2, <1>9, ReversalOfNothing DEF DeleteSession, Reversal
  <1>10. ~EvaluateSession
    BY <1>2 DEF EvaluateSession
  <1>11. \/ UNCHANGED <<ledger, noShows, work>>
         \/ \E m \in Member, d \in Day : MarkCheckedInManually(m, d)
         \/ \E e \in entering : FinishCheckIn(e)
         \/ \E r \in removing : FinishRemoveCheckIn(r)
         \/ CompleteSession \/ ArchiveSession \/ ReopenSession
         \/ CancelSession \/ DeleteSession
    BY <1>2, <1>10 DEF Next, vars, BeginCheckIn, AbandonCheckIn, BeginRemoveCheckIn
  <1> QED BY <1>3, <1>4, <1>5, <1>6, <1>7, <1>8, <1>9, <1>11

\* Nothing is paid and no no-show recorded before the end, whatever calls and
\* jobs are in flight when it comes, and nothing at all by a session that is
\* cancelled without having ended.
THEOREM NothingBeforeTheEndHolds == Spec => []NothingBeforeTheEnd
  <1>1. Init => EndInv
    BY AttendanceTypeInit DEF Init, EndInv, Ended
  <1>2. EndInv /\ [Next]_vars => EndInv'
    <2> SUFFICES ASSUME EndInv, [Next]_vars PROVE EndInv'
      OBVIOUS
    <2>1. TypeOK'
      BY AttendanceTypeStep DEF EndInv
    <2>2. \/ completedAt'
          \/ ledger' = {} /\ noShows' = {} /\ jobs' = {} /\ running' = {} /\ ~passQueued'
      BY NoWorkBeforeTheEnd
    <2>3. Ended' => completedAt'
      BY EndIsKept DEF EndInv
    <2> QED BY <2>1, <2>2, <2>3, CallsRemember DEF EndInv
  <1>3. EndInv => NothingBeforeTheEnd
    BY DEF EndInv, NothingBeforeTheEnd
  <1> QED BY <1>1, <1>2, <1>3, PTL DEF Spec

---------------------------------------------------------------------------
(* Awards that are taken back.                                             *)

\* Evaluating attendance leaves the awards of a member whose attendance is
\* complete.
LEMMA CompleteIsLeft ==
    ASSUME TypeOK, NEW ms, NEW ended, Continues(checkIns'),
           Evaluate(checkIns', ms, ended), UNCHANGED requireAll,
           NEW m \in Member, Complete(checkIns, m)', NEW x \in Standing(checkIns, m)
    PROVE  x \in Standing(checkIns, m)'
  <1> DEFINE taken == UNION {Standing(checkIns', n) : n \in {k \in ms : ~Complete(checkIns', k)}}
  <1>1. x \in ledger /\ x.checkIn \in DOMAIN checkIns /\ ~x.reversed
        /\ checkIns[x.checkIn].member = m
    BY DEF Standing, AwardsOf, TypeOK
  <1>2. checkIns'[x.checkIn].member = m
    BY <1>1 DEF Continues
  <1>3. Complete(checkIns', m)
    BY DEF Complete, DaysOf, Active
  <1>4. x \notin taken
    BY <1>2, <1>3 DEF Standing, AwardsOf
  <1>5. ledger' = Reversal(taken)
    BY DEF Evaluate
  <1> HIDE DEF taken
  <1>6. x \in ledger'
    BY <1>1, <1>4, <1>5 DEF Reversal
  <1> QED BY <1>1, <1>2, <1>6 DEF Standing, AwardsOf

\* A step that keeps the members of the rows and every award.
LEMMA AwardsKept ==
    ASSUME TypeOK, Continues(checkIns'), ledger \subseteq ledger',
           NEW m \in Member, NEW x \in Standing(checkIns, m)
    PROVE  x \in Standing(checkIns, m)'
  BY DEF TypeOK, Continues, Standing, AwardsOf

LEMMA AwardStep ==
    ASSUME TypeOK, TypeOK', Next, NEW m \in Member, Complete(checkIns, m)', ~deleted',
           NEW x \in Standing(checkIns, m)
    PROVE  x \in Standing(checkIns, m)'
  <1> USE DEF session, people, work
  <1>1. CASE checkIns' = checkIns /\ ledger \subseteq ledger'
    BY <1>1, RowsContinue, AwardsKept DEF Continues
  <1>2. ASSUME NEW n \in Member, NEW d \in Day, MarkCheckedInManually(n, d)
        PROVE  x \in Standing(checkIns, m)'
    <2>1. Continues(checkIns')
      BY <1>2, RowAdded DEF MarkCheckedInManually
    <2>2. CASE Evaluate(checkIns', {n}, TRUE)
      BY <1>2, <2>1, <2>2, CompleteIsLeft DEF MarkCheckedInManually
    <2>3. CASE UNCHANGED ledger
      BY <2>1, <2>3, AwardsKept
    <2> QED BY <1>2, <2>2, <2>3 DEF MarkCheckedInManually
  <1>3. ASSUME NEW e \in entering, FinishCheckIn(e) PROVE x \in Standing(checkIns, m)'
    <2> DEFINE l == Ended /\ ~e.ended /\ ~passQueued
    <2>1. CASE UNCHANGED <<checkIns, ledger, jobs>>
      BY <1>1, <2>1
    <2>2. CASE /\ ~DayTaken(e.member, e.day)
               /\ checkIns' = Append(checkIns,
                      [member |-> e.member, day |-> e.day, removed |-> FALSE, late |-> l])
               /\ \/ Evaluate(checkIns', {e.member}, TRUE)
                  \/ UNCHANGED <<ledger, jobs>>
      <3>1. e.member \in Member /\ e.day \in Day
        BY DEF TypeOK
      <3>2. l \in BOOLEAN
        BY Zenon
      <3>3. Continues(checkIns')
        BY <2>2, <3>1, <3>2, RowAdded
      <3>4. CASE Evaluate(checkIns', {e.member}, TRUE)
        BY <1>3, <3>3, <3>4, CompleteIsLeft DEF FinishCheckIn
      <3>5. CASE UNCHANGED ledger
        BY <3>3, <3>5, AwardsKept
      <3> QED BY <2>2, <3>4, <3>5
    <2> QED BY <1>3, <2>1, <2>2 DEF FinishCheckIn
  <1>4. ASSUME NEW r \in removing, FinishRemoveCheckIn(r) PROVE x \in Standing(checkIns, m)'
    <2>1. r.checkIn \in DOMAIN checkIns
      BY DEF TypeOK
    <2>2. Continues(checkIns')
      BY <1>4, <2>1, RowRemoved DEF FinishRemoveCheckIn
    <2>3. Evaluate(checkIns', {checkIns[r.checkIn].member}, r.ended)
      BY <1>4 DEF FinishRemoveCheckIn
    <2> QED BY <1>4, <2>2, <2>3, CompleteIsLeft DEF FinishRemoveCheckIn
  <1>5. CASE EvaluateSession
    <2>1. Continues(checkIns')
      BY <1>5, RowsContinue DEF EvaluateSession
    <2>2. Evaluate(checkIns', Attended, Ended)
      BY <1>5 DEF EvaluateSession
    <2> QED BY <1>5, <2>1, <2>2, CompleteIsLeft DEF EvaluateSession
  <1>6. ~DeleteSession
    BY DEF DeleteSession
  <1>7. \/ checkIns' = checkIns /\ ledger \subseteq ledger'
        \/ \E n \in Member, d \in Day : MarkCheckedInManually(n, d)
        \/ \E e \in entering : FinishCheckIn(e)
        \/ \E r \in removing : FinishRemoveCheckIn(r)
        \/ EvaluateSession
    BY <1>6 DEF Next, BeginCheckIn, AbandonCheckIn, BeginRemoveCheckIn, CompleteSession,
           ArchiveSession, ReopenSession, CancelSession, Move, BeginAward, FinishAward,
           SelectNoShows, WriteNoShow, Fail
  <1> QED BY <1>1, <1>2, <1>3, <1>4, <1>5, <1>7

\* An award goes only with complete attendance or with the session.
THEOREM TakenBackWithReasonHolds == Spec => TakenBackWithReason
  <1> DEFINE Justified == \A m \in Member :
          (Standing(checkIns, m) # {} /\ Standing(checkIns, m)' = {}) =>
              (~Complete(checkIns, m)' \/ deleted')
  <1>1. TypeOK /\ TypeOK' /\ [Next]_vars => [Justified]_vars
    BY AwardStep
  <1>2. Spec => []TypeOK
    BY AttendanceTypeCorrect
  <1>3. Spec => [][Justified]_vars
    BY <1>1, <1>2, PTL DEF Spec
  <1> QED BY <1>3 DEF TakenBackWithReason

---------------------------------------------------------------------------
(* One job at a time.                                                      *)

\* The awards that stand, over all members.
Pays(x, m) == ~x.reversed /\ checkIns[x.checkIn].member = m

\* The worker runs one job, a member has one standing award, and while an
\* award_points job runs its member has none.
OneJobInv ==
    /\ \A s, t \in running : s = t
    /\ \A x, y \in ledger :
           (~x.reversed /\ Pays(y, checkIns[x.checkIn].member)) => x = y
    /\ \A t \in running : t.task = "award_points" =>
           \A x \in ledger : ~Pays(x, checkIns[t.checkIn].member)

\* A set with one element at most.
LEMMA OneAtMost ==
    ASSUME NEW S, \A x, y \in S : x = y
    PROVE  IsFiniteSet(S) /\ Cardinality(S) <= 1 /\ (Cardinality(S) < 1 => S = {})
  <1>1. CASE S = {}
    <2>1. IsFiniteSet({}) /\ Cardinality({}) = 0
      BY FS_EmptySet
    <2> QED BY <1>1, <2>1
  <1>2. CASE S # {}
    <2>1. PICK x \in S : TRUE
      BY <1>2
    <2>2. S = {x}
      BY <2>1
    <2>3. IsFiniteSet({x}) /\ Cardinality({x}) = 1
      BY FS_Singleton
    <2> QED BY <2>2, <2>3
  <1> QED BY <1>1, <1>2

\* An evaluation makes no award stand that did not.
LEMMA ReversalAddsNothing ==
    ASSUME TypeOK, NEW taken, NEW x \in Reversal(taken), ~x.reversed
    PROVE  x \in ledger
  <1>1. PICK y \in ledger : x = (IF y \in taken THEN [y EXCEPT !.reversed = TRUE] ELSE y)
    BY DEF Reversal
  <1>2. y \in Award
    BY DEF TypeOK
  <1>3. [y EXCEPT !.reversed = TRUE].reversed = TRUE
    BY <1>2 DEF Award
  <1> QED BY <1>1, <1>3

\* A step that pays nobody and begins no award_points job.
LEMMA NothingPaid ==
    ASSUME TypeOK, OneJobInv, Continues(checkIns'),
           \A x \in ledger' : ~x.reversed => x \in ledger,
           \A s, t \in running' : s = t,
           \A t \in running' : t.task = "award_points" => t \in running
    PROVE  OneJobInv'
  <1>1. \A x \in ledger : x.checkIn \in DOMAIN checkIns
                          /\ checkIns'[x.checkIn].member = checkIns[x.checkIn].member
    BY DEF TypeOK, Continues
  <1>2. \A t \in running : t.task = "award_points" =>
            checkIns'[t.checkIn].member = checkIns[t.checkIn].member
    BY DEF TypeOK, Continues
  <1> QED BY <1>1, <1>2 DEF OneJobInv, Pays

\* The rows after a call continue those before it.
LEMMA RowsGoOn == ASSUME TypeOK, [Next]_vars PROVE Continues(checkIns')
  <1> USE DEF session, people, work
  <1>1. CASE checkIns' = checkIns
    BY <1>1, RowsContinue DEF Continues
  <1>2. ASSUME NEW n \in Member, NEW d \in Day, MarkCheckedInManually(n, d)
        PROVE  Continues(checkIns')
    BY <1>2, RowAdded DEF MarkCheckedInManually
  <1>3. ASSUME NEW e \in entering, FinishCheckIn(e) PROVE Continues(checkIns')
    <2> DEFINE l == Ended /\ ~e.ended /\ ~passQueued
    <2>1. \/ checkIns' = checkIns
          \/ /\ ~DayTaken(e.member, e.day)
             /\ checkIns' = Append(checkIns,
                    [member |-> e.member, day |-> e.day, removed |-> FALSE, late |-> l])
      BY <1>3 DEF FinishCheckIn
    <2>2. e.member \in Member /\ e.day \in Day
      BY DEF TypeOK
    <2>3. l \in BOOLEAN
      BY Zenon
    <2> HIDE DEF l
    <2> QED BY <1>1, <2>1, <2>2, <2>3, RowAdded
  <1>4. ASSUME NEW r \in removing, FinishRemoveCheckIn(r) PROVE Continues(checkIns')
    <2>1. r.checkIn \in DOMAIN checkIns
      BY DEF TypeOK
    <2> QED BY <1>4, <2>1, RowRemoved DEF FinishRemoveCheckIn
  <1>5. \/ checkIns' = checkIns
        \/ \E n \in Member, d \in Day : MarkCheckedInManually(n, d)
        \/ \E e \in entering : FinishCheckIn(e)
        \/ \E r \in removing : FinishRemoveCheckIn(r)
    BY DEF Next, BeginCheckIn, AbandonCheckIn, BeginRemoveCheckIn, CompleteSession,
           ArchiveSession, ReopenSession, CancelSession, Move, DeleteSession, BeginAward,
           FinishAward, EvaluateSession, SelectNoShows, WriteNoShow, Fail, vars
  <1> QED BY <1>1, <1>2, <1>3, <1>4, <1>5

\* No step but the insert of award_points makes an award stand.
LEMMA OnlyAwardPays ==
    ASSUME TypeOK, [Next]_vars, ~\E t \in running : FinishAward(t),
           NEW x \in ledger', ~x.reversed
    PROVE  x \in ledger
  <1> USE DEF session, people, work
  <1>1. \/ ledger' = ledger
        \/ \E taken : ledger' = Reversal(taken)
    BY DEF Next, BeginCheckIn, MarkCheckedInManually, FinishCheckIn, AbandonCheckIn,
           BeginRemoveCheckIn, FinishRemoveCheckIn, CompleteSession,
           ArchiveSession, ReopenSession, CancelSession, Move, DeleteSession, BeginAward,
           EvaluateSession, SelectNoShows, WriteNoShow, Fail, Evaluate, vars
  <1> QED BY <1>1, ReversalAddsNothing

\* The job that is begun finds the worker idle, and an award_points job finds no
\* award standing.
LEMMA OneJobAwardBegins ==
    ASSUME TypeOK, OneJobInv, Slots = 1, NEW i \in jobs, BeginAward(i)
    PROVE  OneJobInv'
  <1> USE DEF session, people, work
  <1> DEFINE m == checkIns[i].member
             t == [task |-> "award_points", checkIn |-> i, epoch |-> AwardEpoch(m)]
  <1>1. UNCHANGED <<checkIns, ledger>>
    BY DEF BeginAward
  <1>2. CASE UNCHANGED running
    BY <1>1, <1>2 DEF OneJobInv, Pays
  <1>3. CASE Standing(checkIns, m) = {} /\ Begins(t)
    <2>1. running = {}
      BY <1>3, OneAtMost DEF Begins, OneJobInv
    <2>2. running' = {t} /\ t.checkIn = i
      BY <1>3, <2>1 DEF Begins
    <2>3. \A x \in ledger : ~Pays(x, m)
      BY <1>3 DEF Standing, AwardsOf, Pays
    <2> HIDE DEF t
    <2> QED BY <1>1, <2>2, <2>3 DEF OneJobInv, Pays
  <1> QED BY <1>2, <1>3 DEF BeginAward

\* The award it writes is the one that stands; the worker is idle again.
LEMMA OneJobAwardEnds ==
    ASSUME TypeOK, OneJobInv, NEW t \in running, FinishAward(t)
    PROVE  OneJobInv'
  <1> USE DEF session, people, work
  <1> DEFINE e == [checkIn |-> t.checkIn, epoch |-> t.epoch, reversed |-> FALSE]
  <1>1. /\ t.task = "award_points" /\ UNCHANGED checkIns
        /\ ledger' = ledger \/ ledger' = ledger \cup {e}
        /\ running' = running \ {t}
    BY DEF FinishAward, Ends
  <1>2. running' = {}
    BY <1>1 DEF OneJobInv
  <1>3. e.checkIn = t.checkIn
    OBVIOUS
  <1>4. \A x \in ledger : ~Pays(x, checkIns[t.checkIn].member)
    BY <1>1 DEF OneJobInv
  <1> HIDE DEF e
  <1> QED BY <1>1, <1>2, <1>3, <1>4 DEF OneJobInv, Pays

LEMMA OneJobStep ==
    ASSUME TypeOK, OneJobInv, Slots = 1, [Next]_vars
    PROVE  OneJobInv'
  <1> USE DEF session, people, work
  <1>1. ASSUME ~\E t \in running : FinishAward(t),
               \A s, t \in running' : s = t,
               \A t \in running' : t.task = "award_points" => t \in running
        PROVE  OneJobInv'
    BY <1>1, NothingPaid, RowsGoOn, OnlyAwardPays
  <1>2. ASSUME NEW t \in running, FinishAward(t) PROVE OneJobInv'
    BY <1>2, OneJobAwardEnds
  <1>3. ASSUME NEW i \in jobs, BeginAward(i) PROVE OneJobInv'
    BY <1>3, OneJobAwardBegins
  <1>4. CASE EvaluateSession
    <2>1. Begins(Evaluated)
      BY <1>4 DEF EvaluateSession
    <2>2. running = {}
      BY <2>1, OneAtMost DEF Begins, OneJobInv
    <2>3. running' = {Evaluated} /\ Evaluated.task # "award_points"
      BY <2>1, <2>2 DEF Begins, Evaluated
    <2> QED BY <1>1, <2>2, <2>3
  <1>5. ASSUME NEW t \in running, SelectNoShows(t) \/ WriteNoShow(t) PROVE OneJobInv'
    <2>1. PICK ms : Records(t, ms)
      BY <1>5 DEF SelectNoShows, WriteNoShow
    <2>2. t.task # "award_points"
      BY <1>5 DEF SelectNoShows, WriteNoShow, Evaluated
    <2>3. running = {t}
      BY DEF OneJobInv
    <2>4. running' = {} \/ running' = {Recording(ms)}
      BY <2>1, <2>3 DEF Records
    <2>5. Recording(ms).task # "award_points"
      BY DEF Recording
    <2>6. ~\E s \in running : FinishAward(s)
      BY <2>2, <2>3 DEF FinishAward
    <2> QED BY <1>1, <2>4, <2>5, <2>6
  <1>6. CASE running' \subseteq running
    BY <1>1, <1>2, <1>6 DEF OneJobInv
  <1>7. \/ running' \subseteq running
        \/ \E i \in jobs : BeginAward(i)
        \/ EvaluateSession
        \/ \E t \in running : SelectNoShows(t) \/ WriteNoShow(t)
    BY DEF Next, BeginCheckIn, MarkCheckedInManually, FinishCheckIn, AbandonCheckIn,
           BeginRemoveCheckIn, FinishRemoveCheckIn, CompleteSession,
           ArchiveSession, ReopenSession, CancelSession, Move, DeleteSession,
           FinishAward, Fail, Ends, vars
  <1> QED BY <1>3, <1>4, <1>5, <1>6, <1>7

\* A worker that runs one job at a time pays a member once, whatever is removed,
\* added again, evaluated and tried again: two jobs at once are what it takes to
\* pay twice (award_points).
THEOREM OneJobPaysOnce == Slots = 1 => (Spec => []PaidAtMostOnce)
  <1>1. SUFFICES ASSUME Slots = 1 PROVE Spec => []PaidAtMostOnce
    OBVIOUS
  <1>2. Init => OneJobInv
    BY DEF Init, OneJobInv
  <1>3. OneJobInv /\ TypeOK /\ [Next]_vars => OneJobInv'
    BY <1>1, OneJobStep
  <1>4. ASSUME OneJobInv, NEW m \in Member PROVE Cardinality(Standing(checkIns, m)) <= 1
    <2>1. \A x, y \in Standing(checkIns, m) : x = y
      BY <1>4 DEF OneJobInv, Pays, Standing, AwardsOf
    <2> QED BY <2>1, OneAtMost
  <1>5. OneJobInv => PaidAtMostOnce
    BY <1>4 DEF PaidAtMostOnce
  <1> QED BY <1>2, <1>3, <1>5, AttendanceTypeCorrect, PTL DEF Spec

===========================================================================
