---------------------------- MODULE Attendance ----------------------------
(***************************************************************************)
(* Check-ins of one session and the points they earn: check_in,            *)
(* mark_checked_in_manually and remove_check_in, the hook that follows     *)
(* each of them, the completion pass, and the award_points jobs.           *)
(*                                                                         *)
(* mark_checked_in_manually holds the session's row, so it is one step.    *)
(* check_in and remove_check_in read the session without a lock, and the   *)
(* session may complete before they commit: they are two steps, and the    *)
(* second one is the commit.  The award routine takes an advisory lock     *)
(* per member that is held to the commit.  award_points takes no lock: it  *)
(* reads in one statement and inserts in a later one, so a job is two      *)
(* steps, and up to ten jobs run at once.                                  *)
(*                                                                         *)
(* "open" stands for published and in_progress.  The members are not       *)
(* presenters of the session and the check_in rule is enabled, uncapped.   *)
(* Refusals that write no check-in are left out.                           *)
(*                                                                         *)
(* MaxRows bounds the check-ins ever written, MaxCalls the calls in flight *)
(* at once, MaxFailures the crashed jobs.                                  *)
(***************************************************************************)
EXTENDS Integers, Sequences, FiniteSets

CONSTANTS
    Member,
    Confirmed,    \* members who hold a confirmed seat
    Days,         \* the number of the session's days
    Slots,        \* how many jobs the worker process runs at once
    RequireAll,   \* the values of require_all_days it may be published with
    MaxRows, MaxCalls, MaxFailures

ASSUME AttendanceAssumption ==
    /\ Confirmed \subseteq Member
    /\ Days \in Nat \ {0} /\ Slots \in Nat
    /\ RequireAll \subseteq BOOLEAN
    /\ MaxRows \in Nat /\ MaxCalls \in Nat /\ MaxFailures \in Nat

VARIABLES
    state,       \* sessions.state
    completedAt, \* sessions.completed_at is set
    deleted,     \* sessions.deleted_at is set
    requireAll,  \* sessions.require_all_days
    checkIns,    \* check_ins, in the order they were inserted
    ledger,      \* points_ledger: the check_in awards of this session
    noShows,     \* members with a no_show row
    jobs,        \* check-ins with a queued award_points job
    passQueued,  \* evaluate_no_shows is queued
    running,     \* the jobs that were begun and how far they are
    entering,    \* check_in calls that have read the session
    removing,    \* remove_check_in calls that hold the check-in's row
    failures

session == <<state, completedAt, deleted, requireAll>>
people == <<checkIns, entering, removing>>
work == <<jobs, passQueued, running, failures>>
vars == <<session, people, ledger, noShows, work>>

Day == 1..Days
SessionState == {"open", "completed", "archived", "cancelled"}

\* late: the session ended, and its pass with it, between the call's read of
\* the session and its commit.  The code keeps no such column.
CheckIn == [member : Member, day : Day, removed : BOOLEAN, late : BOOLEAN]
Award == [checkIn : Nat, epoch : Nat, reversed : BOOLEAN]
Task ==
    [task : {"award_points"}, checkIn : Nat, epoch : Nat]
    \cup [task : {"evaluate_no_shows"}]
    \cup [task : {"no_show"}, absent : SUBSET Member]

\* Types, and that a member has one standing check-in per day.
TypeOK ==
    /\ state \in SessionState
    /\ completedAt \in BOOLEAN /\ deleted \in BOOLEAN /\ requireAll \in BOOLEAN
    /\ checkIns \in Seq(CheckIn)
    /\ \A i, j \in DOMAIN checkIns :
           (/\ checkIns[i].member = checkIns[j].member
            /\ checkIns[i].day = checkIns[j].day
            /\ ~checkIns[i].removed /\ ~checkIns[j].removed) => i = j
    /\ ledger \subseteq Award /\ IsFiniteSet(ledger)
    /\ \A a \in ledger : a.checkIn \in DOMAIN checkIns
    /\ noShows \subseteq Member
    /\ jobs \subseteq DOMAIN checkIns
    /\ passQueued \in BOOLEAN
    /\ running \subseteq Task
    /\ \A t \in running : t.task = "award_points" => t.checkIn \in DOMAIN checkIns
    /\ entering \subseteq [member : Member, day : Day, ended : BOOLEAN]
    /\ removing \subseteq [checkIn : DOMAIN checkIns, ended : BOOLEAN]
    /\ failures \in 0..MaxFailures

Init ==
    /\ state = "open" /\ completedAt = FALSE /\ deleted = FALSE
    /\ requireAll \in RequireAll
    /\ checkIns = <<>> /\ ledger = {} /\ noShows = {}
    /\ jobs = {} /\ passQueued = FALSE
    /\ running = {}
    /\ entering = {} /\ removing = {}
    /\ failures = 0

---------------------------------------------------------------------------
(* Attendance and what is owed for it, over the rows cs.                   *)

\* Wrong on purpose: takes a session that is still open for one that ended.
EndedOrOpen == state # "cancelled"

Ended == state \in {"completed", "archived"}

Active(cs, m) == {i \in DOMAIN cs : cs[i].member = m /\ ~cs[i].removed}
DaysOf(cs, m) == {cs[i].day : i \in Active(cs, m)}

\* session_attendance_complete
Complete(cs, m) ==
    IF requireAll THEN DaysOf(cs, m) = Day ELSE DaysOf(cs, m) # {}

AwardsOf(cs, m) == {a \in ledger : cs[a.checkIn].member = m}
Standing(cs, m) == {a \in AwardsOf(cs, m) : ~a.reversed}

\* attendance_epoch_check_in: the check-in of the last day attended.
EpochCheckIn(cs, m) ==
    {i \in Active(cs, m) : \A d \in DaysOf(cs, m) : d <= cs[i].day}

\* Wrong on purpose: every award of a check-in has the same key.
AwardEpochFirst(m) == 1

\* attendance_award_epoch
AwardEpoch(m) == 1 + Cardinality({a \in AwardsOf(checkIns, m) : a.reversed})

Reversal(taken) ==
    {IF a \in taken THEN [a EXCEPT !.reversed = TRUE] ELSE a : a \in ledger}

\* evaluate_member_attendance, for each of the members ms: what stands without
\* complete attendance is reversed, what is owed after the end is queued.
Evaluate(cs, ms, ended) ==
    /\ ledger' = Reversal(UNION {Standing(cs, m) : m \in {n \in ms : ~Complete(cs, n)}})
    /\ jobs' = jobs \cup UNION {EpochCheckIn(cs, m) : m \in
                   {n \in ms : ended /\ Complete(cs, n) /\ Standing(cs, n) = {}}}

\* The members whose advisory lock a removal holds.
Locked == {checkIns[r.checkIn].member : r \in removing}

---------------------------------------------------------------------------
(* The door and the list.                                                  *)

CallsInFlight == Cardinality(entering) + Cardinality(removing)

\* Wrong on purpose: as if the unique index were not there.
DayTakenNever(m, d) == FALSE

DayTaken(m, d) == \E i \in Active(checkIns, m) : checkIns[i].day = d
BeingRemoved(m, d) ==
    \E r \in removing : checkIns[r.checkIn].member = m /\ checkIns[r.checkIn].day = d

\* check_in up to its read of the session in attendance_recorded.
BeginCheckIn(m, d) ==
    /\ state \in {"open", "completed"}
    /\ ~DayTaken(m, d)
    /\ ~\E e \in entering : e.member = m
    /\ CallsInFlight < MaxCalls
    /\ entering' = entering \cup {[member |-> m, day |-> d, ended |-> Ended]}
    /\ UNCHANGED <<session, checkIns, removing, ledger, noShows, work>>

\* Its commit.  The unique index refuses a second row of the day, and waits
\* for one that is being removed.
FinishCheckIn(e) ==
    /\ ~BeingRemoved(e.member, e.day)
    /\ entering' = entering \ {e}
    /\ \/ /\ DayTaken(e.member, e.day)
          /\ UNCHANGED <<checkIns, ledger, jobs>>
       \/ /\ ~DayTaken(e.member, e.day) /\ Len(checkIns) < MaxRows
          /\ checkIns' = Append(checkIns,
                 [member |-> e.member, day |-> e.day, removed |-> FALSE,
                  late |-> Ended /\ ~e.ended /\ ~passQueued])
          /\ IF e.ended
             THEN e.member \notin Locked /\ Evaluate(checkIns', {e.member}, TRUE)
             ELSE UNCHANGED <<ledger, jobs>>
    /\ UNCHANGED <<session, removing, noShows, passQueued, running, failures>>

\* Its refusal: a wrong code, a closed switch, an overlap.
AbandonCheckIn(e) ==
    /\ entering' = entering \ {e}
    /\ UNCHANGED <<session, checkIns, removing, ledger, noShows, work>>

\* mark_checked_in_manually, by an administrator.
MarkCheckedInManually(m, d) ==
    /\ state # "cancelled"
    /\ ~DayTaken(m, d) /\ Len(checkIns) < MaxRows
    /\ checkIns' = Append(checkIns,
           [member |-> m, day |-> d, removed |-> FALSE, late |-> FALSE])
    /\ IF Ended
       THEN m \notin Locked /\ Evaluate(checkIns', {m}, TRUE)
       ELSE UNCHANGED <<ledger, jobs>>
    /\ UNCHANGED <<session, entering, removing, noShows, passQueued, running, failures>>

\* remove_check_in up to its read of the session in attendance_removed.
BeginRemoveCheckIn(i) ==
    /\ ~checkIns[i].removed
    /\ checkIns[i].member \notin Locked
    /\ CallsInFlight < MaxCalls
    /\ removing' = removing \cup {[checkIn |-> i, ended |-> Ended]}
    /\ UNCHANGED <<session, checkIns, entering, ledger, noShows, work>>

\* Its commit: the row, the awards, and the no-show of a member who is left
\* without a check-in after the end.
FinishRemoveCheckIn(r) ==
    LET m == checkIns[r.checkIn].member
        cs == [checkIns EXCEPT ![r.checkIn].removed = TRUE]
    IN /\ checkIns' = cs
       /\ removing' = removing \ {r}
       /\ Evaluate(cs, {m}, r.ended)
       /\ noShows' = IF r.ended /\ m \in Confirmed /\ Active(cs, m) = {}
                     THEN noShows \cup {m} ELSE noShows
       /\ UNCHANGED <<session, entering, passQueued, running, failures>>

---------------------------------------------------------------------------
(* The session.                                                            *)

\* sessions_completion_fanout, on becoming completed.  The moment of the first
\* completion stays on the row, through archive, reopening and cancellation.
Move(from, to) ==
    /\ state \in from /\ state' = to
    /\ completedAt' = (completedAt \/ to = "completed")
    /\ passQueued' = (passQueued \/ to = "completed")
    /\ UNCHANGED <<deleted, requireAll, people, ledger, noShows, jobs, running, failures>>

CompleteSession == Move({"open"}, "completed")
ArchiveSession == Move({"completed"}, "archived")
ReopenSession == Move({"archived"}, "completed")
\* The guard lets a session that has ended be cancelled too, and nothing that
\* was paid or recorded is taken back then.
CancelSession == Move({"open", "completed", "archived"}, "cancelled")

\* delete_session: cancels what has not ended and reverses every award.
DeleteSession ==
    /\ ~deleted /\ deleted' = TRUE
    /\ state' = IF state = "open" THEN "cancelled" ELSE state
    /\ ledger' = Reversal(ledger)
    /\ UNCHANGED <<completedAt, requireAll, people, noShows, work>>

---------------------------------------------------------------------------
(* The worker.  running is a set: a second copy of a job that is as far as  *)
(* the first one could only do what that does.                             *)

Begins(t) == Cardinality(running) < Slots /\ running' = running \cup {t}
Ends(t) == running' = running \ {t}

\* award_points: everything it checks, and the epoch of its key.
BeginAward(i) ==
    /\ jobs' = jobs \ {i}
    /\ LET m == checkIns[i].member
       IN IF /\ ~checkIns[i].removed
             /\ Ended
             /\ Complete(checkIns, m)
             /\ Standing(checkIns, m) = {}
          THEN Begins([task |-> "award_points", checkIn |-> i, epoch |-> AwardEpoch(m)])
          ELSE UNCHANGED running
    /\ UNCHANGED <<session, people, ledger, noShows, passQueued, failures>>

\* Its insert, on conflict (idempotency_key) do nothing.
FinishAward(t) ==
    /\ t.task = "award_points"
    /\ ledger' = IF \E a \in ledger : a.checkIn = t.checkIn /\ a.epoch = t.epoch
                 THEN ledger
                 ELSE ledger \cup {[checkIn |-> t.checkIn, epoch |-> t.epoch,
                                    reversed |-> FALSE]}
    /\ Ends(t)
    /\ UNCHANGED <<session, people, noShows, jobs, passQueued, failures>>

Attended == {checkIns[i].member : i \in DOMAIN checkIns}
Evaluated == [task |-> "evaluate_no_shows"]
Recording(ms) == [task |-> "no_show", absent |-> ms]
Records(t, ms) ==
    running' = (running \ {t}) \cup (IF ms = {} THEN {} ELSE {Recording(ms)})

\* Wrong on purpose: does not wait for a member's advisory lock.
EvaluateSessionUnlocked ==
    /\ passQueued /\ passQueued' = FALSE
    /\ Evaluate(checkIns, Attended, Ended)
    /\ Begins(Evaluated)
    /\ UNCHANGED <<session, people, noShows, failures>>

\* evaluate_no_shows, its first statement: evaluate_session_attendance.
EvaluateSession ==
    /\ passQueued /\ passQueued' = FALSE
    /\ Attended \cap Locked = {}
    /\ Evaluate(checkIns, Attended, Ended)
    /\ Begins(Evaluated)
    /\ UNCHANGED <<session, people, noShows, failures>>

\* Its query, and then a row for each absentee the query found.
SelectNoShows(t) ==
    /\ t = Evaluated
    /\ Records(t, {m \in Confirmed : Active(checkIns, m) = {}})
    /\ UNCHANGED <<session, people, ledger, noShows, jobs, passQueued, failures>>

WriteNoShow(t) ==
    /\ t.task = "no_show"
    /\ \E m \in t.absent :
           /\ noShows' = noShows \cup {m}
           /\ Records(t, t.absent \ {m})
    /\ UNCHANGED <<session, people, ledger, jobs, passQueued, failures>>

\* The task fails or the process dies: the job is tried again.
Fail(t) ==
    /\ failures < MaxFailures /\ failures' = failures + 1
    /\ jobs' = IF t.task = "award_points" THEN jobs \cup {t.checkIn} ELSE jobs
    /\ passQueued' = (passQueued \/ t.task # "award_points")
    /\ Ends(t)
    /\ UNCHANGED <<session, people, ledger, noShows>>

Next ==
    \/ \E m \in Member, d \in Day :
           BeginCheckIn(m, d) \/ MarkCheckedInManually(m, d)
    \/ \E e \in entering : FinishCheckIn(e) \/ AbandonCheckIn(e)
    \/ \E i \in DOMAIN checkIns : BeginRemoveCheckIn(i)
    \/ \E r \in removing : FinishRemoveCheckIn(r)
    \/ CompleteSession \/ ArchiveSession \/ ReopenSession
    \/ CancelSession \/ DeleteSession
    \/ \E i \in jobs : BeginAward(i)
    \/ EvaluateSession
    \/ \E t \in running : FinishAward(t) \/ SelectNoShows(t) \/ WriteNoShow(t) \/ Fail(t)

Spec == Init /\ [][Next]_vars

\* Every call commits, a job that was begun goes on, and the queue is served in
\* order, so that a queued job is begun in the end.
Fairness ==
    /\ WF_vars(\E r \in removing : FinishRemoveCheckIn(r))
    /\ WF_vars(\E t \in running : SelectNoShows(t))
    /\ \A s \in SUBSET Confirmed :
           WF_vars(\E t \in running : t = Recording(s) /\ WriteNoShow(t))
    /\ SF_vars(EvaluateSession)
    /\ \A i \in 1..MaxRows :
           /\ SF_vars(i \in jobs /\ BeginAward(i))
           /\ WF_vars(\E t \in running : t.task = "award_points" /\ t.checkIn = i /\ FinishAward(t))

FairSpec == Spec /\ Fairness

---------------------------------------------------------------------------
(* What holds.                                                             *)

\* REQ-PTS-015: nothing is paid, and no no-show recorded, before the session
\* has ended, although every hook runs from the first check-in on; so a session
\* that was cancelled without having ended never pays, whatever was in flight.
NothingBeforeTheEnd == completedAt \/ (ledger = {} /\ noShows = {})

Owed(m) == Ended /\ ~deleted /\ Complete(checkIns, m) /\ Standing(checkIns, m) = {}
Late(m) == \E i \in Active(checkIns, m) : checkIns[i].late

\* Once the session has ended, a member whose attendance is complete is paid,
\* whatever was paid, removed and added again before, and whatever crashes.
\* The one exception is a check-in that straddles the end (see Late).
AttendeesArePaid == \A m \in Member : [](Owed(m) /\ ~Late(m) => <>~(Owed(m) /\ ~Late(m)))

Absent(m) == Ended /\ ~deleted /\ m \in Confirmed /\ Active(checkIns, m) = {}

\* A seat holder without a check-in gets a no-show, even if the check-in is
\* removed while the session completes.
AbsenteesAreRecorded == \A m \in Member : Absent(m) ~> (m \in noShows \/ ~Absent(m))

\* An award is taken back only from a member whose attendance is not complete,
\* or with the whole session.
TakenBackWithReason ==
    [][\A m \in Member :
          (Standing(checkIns, m) # {} /\ Standing(checkIns, m)' = {}) =>
              (~Complete(checkIns, m)' \/ deleted')]_vars

---------------------------------------------------------------------------
(* What the documents say and the code does not keep.                      *)

\* REQ-SES-017: «The idempotency key is per member per session, so re-running
\* the job cannot double-pay».
PaidAtMostOnce == \A m \in Member : Cardinality(Standing(checkIns, m)) <= 1

\* The same without the exception: every attendee is paid.
EveryAttendeeIsPaid == \A m \in Member : Owed(m) ~> ~Owed(m)

\* REQ-CHK-017: a removal does not leave the award standing.
Settled ==
    jobs = {} /\ ~passQueued /\ running = {} /\ entering = {} /\ removing = {}
AwardNeedsAttendance ==
    Settled => \A m \in Member : Standing(checkIns, m) # {} => Complete(checkIns, m)

\* REQ-SES-023: every points row a deleted event earned is reversed.
DeletedPaysNothing == deleted /\ Settled => \A a \in ledger : a.reversed
===========================================================================
