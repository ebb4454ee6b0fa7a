------------------------------- MODULE Seats -------------------------------
(***************************************************************************)
(* The reservations of one session: reserve_seat, cancel_rsvp and          *)
(* promote_next_waitlisted, the calls members have in flight, the          *)
(* administrator's schedule_session, the two clocks and the                *)
(* promote_waitlist task.                                                  *)
(*                                                                         *)
(* A member's call is three steps, because the system reads at three       *)
(* moments.  The page is drawn from rows read then (Press keeps what it    *)
(* told the member).  The call's transaction begins, which fixes now() and *)
(* is where assert_active_member reads the member (Send).  The transaction *)
(* gets the session's row lock and reads and writes the rest (ReserveSeat, *)
(* CancelRsvp): the lock makes that last part one step.                    *)
(*                                                                         *)
(* Nothing in the repository enqueues promote_waitlist: the crontab of the *)
(* worker does not name it and no function or page adds the job.           *)
(* SweepScheduled says whether an operator does.                           *)
(*                                                                         *)
(* MaxTime bounds the clock, MaxPosition the waitlist positions and        *)
(* MaxCalls the calls in flight.                                           *)
(***************************************************************************)
EXTENDS Integers, FiniteSets

CONSTANTS
    Member,          \* the organisation's members
    Holders,         \* those who hold the priority_rsvp perk
    PriorityOn,      \* whether the organisation enabled that perk
    PriorityHours,   \* org_settings.priority_rsvp_hours
    Capacities,      \* the capacities the administrator picks from
    Schedules,       \* the windows the administrator picks from
    Removable,       \* the members an administrator may deactivate
    SweepScheduled,  \* whether somebody enqueues promote_waitlist by hand
    MaxTime, MaxPosition, MaxCalls

Time == 0..MaxTime
NoTime == -1
Schedule == [starts : Nat, ends : Nat, deadline : Nat, cutoff : Nat]

ASSUME SeatsAssumption ==
    /\ IsFiniteSet(Member)
    /\ Holders \subseteq Member /\ Removable \subseteq Member
    /\ PriorityOn \in BOOLEAN /\ SweepScheduled \in BOOLEAN
    /\ PriorityHours \in Nat
    /\ Capacities \subseteq Nat \ {0}
    /\ Schedules \subseteq Schedule
    /\ MaxTime \in Nat /\ MaxPosition \in Nat /\ MaxCalls \in Nat
    /\ \A s \in Schedules :
         s.starts < s.ends /\ s.deadline <= s.starts /\ s.cutoff <= s.starts

VARIABLES
    state,        \* sessions.state
    window,       \* sessions.starts_at .. cancellation_cutoff_at
    capacity,     \* sessions.capacity
    publishedAt,  \* sessions.published_at
    rsvp,         \* the member's row of rsvps, "none" when there is no row
    active,       \* the members whose status is active
    calls,        \* members' calls between the page and the commit
    edit,         \* schedule_session between its read and its write
    sweeping,     \* promote_waitlist is looping over this session
    now

sessionVars == <<state, window, capacity, publishedAt>>
vars == <<state, window, capacity, publishedAt, rsvp, active, calls, edit,
          sweeping, now>>

SessionState == {"draft", "published", "in_progress", "completed",
                 "archived", "cancelled"}
Status == {"none", "confirmed", "waitlisted", "cancelled", "late_cancelled"}
\* The table's check: the waitlisted rows are those with a position.
Row == {r \in [status : Status, position : 0..MaxPosition] :
          r.status = "waitlisted" <=> r.position # 0}
\* waiting: the page offered to leave the waitlist, with no late warning.
Call == [who : Member, op : {"reserve", "cancel"}, waiting : BOOLEAN,
         at : Time \cup {NoTime}]

TypeOK ==
    /\ state \in SessionState
    /\ window \in Schedule
    /\ capacity \in Nat \ {0}
    /\ publishedAt \in Time \cup {NoTime}
    /\ rsvp \in [Member -> Row]
    /\ active \in SUBSET Member
    /\ calls \in SUBSET Call
    /\ edit \in BOOLEAN
    /\ sweeping \in BOOLEAN
    /\ now \in Time

Confirmed == {m \in Member : rsvp[m].status = "confirmed"}
Waiting == {m \in Member : rsvp[m].status = "waitlisted"}
Live(m) == rsvp[m].status \in {"confirmed", "waitlisted"}

Init ==
    /\ state = "draft"
    /\ window \in Schedules
    /\ capacity \in Capacities
    /\ publishedAt = NoTime
    /\ rsvp = [m \in Member |-> [status |-> "none", position |-> 0]]
    /\ active = Member
    /\ calls = {}
    /\ edit = FALSE
    /\ sweeping = FALSE
    /\ now = 0

-----------------------------------------------------------------------------
(* Seats and positions. *)

\* Mutant: the comparison is off by one.
HasRoomOffByOne == Cardinality(Confirmed) <= capacity
HasRoom == Cardinality(Confirmed) < capacity

\* Mutant: count(*) + 1, as if nobody ever left the middle of the line.
NextPositionByCount == {p \in 1..MaxPosition : p = Cardinality(Waiting) + 1}
\* coalesce(max(waitlist_position), 0) + 1
NextPosition == {p \in 1..MaxPosition :
    /\ \A n \in Waiting : rsvp[n].position < p
    /\ p = 1 \/ \E n \in Waiting : rsvp[n].position = p - 1}

\* Mutant: order by waitlist_position desc.
LastWaiting == {m \in Waiting :
    \A n \in Waiting : rsvp[n].position <= rsvp[m].position}
\* order by waitlist_position asc limit 1
FirstWaiting == {m \in Waiting :
    \A n \in Waiting : rsvp[m].position <= rsvp[n].position}

Seat == [status |-> "confirmed", position |-> 0]

\* One call of promote_next_waitlisted on the rows as they are: the seats
\* are recounted, and one member at most is promoted.
Promoted(rows, taken, first) ==
    IF taken >= capacity \/ first = {}
      THEN {rows}
      ELSE {[rows EXCEPT ![m] = Seat] : m \in first}

-----------------------------------------------------------------------------
(* A member's call, from the page to the commit. *)

\* The page offers to reserve or to cancel while the session is open, and
\* the member acts on it.
Press(m) ==
    /\ Cardinality(calls) < MaxCalls
    /\ state = "published" /\ now < window.starts
    /\ calls' = calls \cup
         {[who |-> m, op |-> IF Live(m) THEN "cancel" ELSE "reserve",
           waiting |-> m \in Waiting, at |-> NoTime]}
    /\ UNCHANGED <<sessionVars, rsvp, active, edit, sweeping, now>>

\* The transaction begins: now() is fixed, and assert_active_member refuses
\* a member who is no longer active.
Send(c) ==
    /\ c.at = NoTime
    /\ calls' = (calls \ {c}) \cup
         (IF c.who \in active THEN {[c EXCEPT !.at = now]} ELSE {})
    /\ UNCHANGED <<sessionVars, rsvp, active, edit, sweeping, now>>

\* The priority window is open and this member is not in it.
PriorityRefuses(c) ==
    /\ PriorityOn
    /\ c.at < publishedAt + PriorityHours
    /\ c.who \notin Holders

\* Mutant: the deadline is not asked.
ReserveAcceptedLate(c) == state = "published" /\ ~PriorityRefuses(c)
\* The session is published, its deadline is not past, the perk allows it.
ReserveAccepted(c) ==
    /\ state = "published"
    /\ c.at <= window.deadline
    /\ ~PriorityRefuses(c)

\* reserve_seat under the lock.  A live row is left as it is; a refusal
\* writes nothing.
ReserveSeat(c) ==
    /\ c.op = "reserve" /\ c.at # NoTime
    /\ calls' = calls \ {c}
    /\ IF ~ReserveAccepted(c) \/ Live(c.who)
         THEN rsvp' = rsvp
         ELSE IF HasRoom
                THEN rsvp' = [rsvp EXCEPT ![c.who] = Seat]
                ELSE \E p \in NextPosition :
                       rsvp' = [rsvp EXCEPT ![c.who] =
                                  [status |-> "waitlisted", position |-> p]]
    /\ UNCHANGED <<sessionVars, active, edit, sweeping, now>>

\* Only a confirmed seat can be cancelled late.
IsLate(c) == c.who \in Confirmed /\ window.cutoff < c.at

\* Mutant: the position is not reset.
CancelledInPlace(c) == [rsvp[c.who] EXCEPT !.status = "cancelled"]
\* The row of a member who cancels.
Cancelled(c) ==
    [status |-> IF IsLate(c) THEN "late_cancelled" ELSE "cancelled",
     position |-> 0]

\* Mutant: the promotion is left to a job.
AfterCancelLater(c) == {[rsvp EXCEPT ![c.who] = Cancelled(c)]}
\* The rows after a cancellation: a freed seat goes to the first in the
\* waitlist in the same transaction, whatever the session's state is.
AfterCancel(c) ==
    LET rows == [rsvp EXCEPT ![c.who] = Cancelled(c)]
    IN  IF c.who \in Confirmed
          THEN Promoted(rows, Cardinality(Confirmed \ {c.who}), FirstWaiting)
          ELSE {rows}

\* cancel_rsvp under the lock.  It asks nothing of the session's state.
CancelRsvp(c) ==
    /\ c.op = "cancel" /\ c.at # NoTime
    /\ calls' = calls \ {c}
    /\ IF Live(c.who) THEN rsvp' \in AfterCancel(c) ELSE rsvp' = rsvp
    /\ UNCHANGED <<sessionVars, active, edit, sweeping, now>>

-----------------------------------------------------------------------------
(* The administrator and the clocks. *)

Publish ==
    /\ state = "draft"
    /\ state' = "published"
    /\ publishedAt' = now
    /\ UNCHANGED <<window, capacity, rsvp, active, calls, edit, sweeping, now>>

\* schedule_session reads the session without a lock and refuses a finished
\* one ...
BeginSchedule ==
    /\ ~edit
    /\ state \notin {"completed", "archived", "cancelled"}
    /\ edit' = TRUE
    /\ UNCHANGED <<sessionVars, rsvp, active, calls, sweeping, now>>

\* ... and writes the window and the capacity of whatever it is by then.
\* The capacity is compared with nothing and nobody is promoted.
WriteSchedule ==
    /\ edit
    /\ edit' = FALSE
    /\ window' \in Schedules
    /\ capacity' \in Capacities
    /\ UNCHANGED <<state, publishedAt, rsvp, active, calls, sweeping, now>>

Edge == {<<"published", "in_progress">>, <<"in_progress", "completed">>,
         <<"completed", "archived">>, <<"archived", "completed">>}
        \cup {<<s, "cancelled">> : s \in SessionState \ {"cancelled"}}

\* transition_session moves the session along an edge the guard allows.
TransitionSession(to) ==
    /\ <<state, to>> \in Edge
    /\ state' = to
    /\ UNCHANGED <<window, capacity, publishedAt, rsvp, active, calls, edit,
                   sweeping, now>>

ClockStart ==
    /\ state = "published" /\ window.starts <= now
    /\ state' = "in_progress"
    /\ UNCHANGED <<window, capacity, publishedAt, rsvp, active, calls, edit,
                   sweeping, now>>

ClockComplete ==
    /\ state = "in_progress" /\ window.ends <= now
    /\ state' = "completed"
    /\ UNCHANGED <<window, capacity, publishedAt, rsvp, active, calls, edit,
                   sweeping, now>>

\* deactivate_member and reactivate_member write the member's row only.
DeactivateMember(m) ==
    /\ m \in active \cap Removable
    /\ active' = active \ {m}
    /\ UNCHANGED <<sessionVars, rsvp, calls, edit, sweeping, now>>

ReactivateMember(m) ==
    /\ m \notin active
    /\ active' = active \cup {m}
    /\ UNCHANGED <<sessionVars, rsvp, calls, edit, sweeping, now>>

Tick ==
    /\ now < MaxTime
    /\ now' = now + 1
    /\ UNCHANGED <<sessionVars, rsvp, active, calls, edit, sweeping>>

-----------------------------------------------------------------------------
(* The promote_waitlist task: it lists the open sessions, then calls       *)
(* promote_next_waitlisted until that returns null.                        *)

SweepBegins ==
    /\ SweepScheduled
    /\ ~sweeping
    /\ state \in {"published", "in_progress"}
    /\ sweeping' = TRUE
    /\ UNCHANGED <<sessionVars, rsvp, active, calls, edit, now>>

SweepPromotes ==
    /\ sweeping
    /\ HasRoom /\ Waiting # {}
    /\ rsvp' \in Promoted(rsvp, Cardinality(Confirmed), FirstWaiting)
    /\ UNCHANGED <<sessionVars, active, calls, edit, sweeping, now>>

SweepEnds ==
    /\ sweeping
    /\ ~HasRoom \/ Waiting = {}
    /\ sweeping' = FALSE
    /\ UNCHANGED <<sessionVars, rsvp, active, calls, edit, now>>

Sweep == SweepBegins \/ SweepPromotes \/ SweepEnds

-----------------------------------------------------------------------------
Serve == \E c \in calls : Send(c) \/ ReserveSeat(c) \/ CancelRsvp(c)

Next ==
    \/ \E m \in Member : Press(m) \/ DeactivateMember(m) \/ ReactivateMember(m)
    \/ Serve
    \/ Publish \/ BeginSchedule \/ WriteSchedule
    \/ \E to \in SessionState : TransitionSession(to)
    \/ ClockStart \/ ClockComplete \/ Tick
    \/ Sweep

Spec == Init /\ [][Next]_vars

\* Postgres serves every call, time passes, the clocks run every minute and the
\* worker runs what is enqueued; no member and no administrator has to act.
FairSpec ==
    /\ Spec
    /\ WF_vars(Serve) /\ WF_vars(Tick) /\ WF_vars(ClockStart \/ ClockComplete)
    /\ WF_vars(Sweep)

-----------------------------------------------------------------------------
(* Properties. *)

\* No two members share a place in the line (rsvps_waitlist_position_key): a
\* clash would make reserve_seat raise.  Members leave from the middle of the
\* line and its numbers start again from 1 when it empties.
DistinctPositions ==
    \A m, n \in Waiting : rsvp[m].position = rsvp[n].position => m = n

\* REQ-RSV-002: whatever calls meet at the lock, no step gives one seat more
\* than the capacity.  (Lowering the capacity afterwards is another matter:
\* see ConfirmedWithinCapacity.)
NoOverbooking ==
    [][Cardinality(Confirmed') > Cardinality(Confirmed)
         => Cardinality(Confirmed') <= capacity']_vars

\* A seat is free while members wait for one.
Stranded == HasRoom /\ Waiting # {}

\* REQ-RSV-003: a cancellation and the promotion it causes are one step, so
\* the only way to a free seat with somebody waiting is a larger capacity.
FreeSeatOnlyByResize ==
    [][~Stranded /\ Stranded' => capacity' > capacity]_vars

\* REQ-RSV-009: a seat is lost to nobody.  A member stops being confirmed
\* only by the member's own cancellation.
NoDisplacement ==
    [][\A m \in Confirmed \ Confirmed' :
         \E c \in calls \ calls' : c.who = m /\ c.op = "cancel"]_vars

\* The calls whose transaction began by the deadline.
InTime == {c \in calls :
    c.op = "reserve" /\ c.at # NoTime /\ c.at <= window.deadline}

\* REQ-RSV-005 and 11-background-jobs.md 2.2: the deadline freezes the
\* planning numbers.  Once it is past and the calls that beat it are served,
\* promotions and departures move members about but nobody is added.
DeadlineFreezesTotal ==
    [][(window.deadline < now /\ InTime = {} /\ window' = window)
         => \A m \in Member : Live(m)' => Live(m)]_vars

\* REQ-RSV-003: the rows and their position numbers are a first-come
\* first-served line.
Line == INSTANCE WaitingLine WITH
          seated <- Confirmed, line <- Waiting, room <- capacity,
          ahead <- {pair \in Waiting \X Waiting :
                      rsvp[pair[1]].position < rsvp[pair[2]].position}

\* Every step of the seats is a step of the waiting line, or leaves it alone.
ImplementsWaitingLine == Line!Spec

-----------------------------------------------------------------------------
(* What the documents say and the code does not do. *)


\* REQ-RSV-002 calls the capacity a hard limit on confirmed reservations.
\* schedule_session may set it below them.
ConfirmedWithinCapacity == Cardinality(Confirmed) <= capacity

\* REQ-RSV-009 and 0045: nobody jumps an existing waitlist.
NobodyJumpsTheLine ==
    [][\A m \in Member : ~Live(m) /\ m \in Confirmed' => Waiting = {}]_vars

\* REQ-RSV-005: promotions continue until the session starts.
NoPromotionAfterStart ==
    [][\A m \in Waiting : m \in Confirmed' => state = "published"]_vars

\* REQ-RSV-008: leaving the waitlist is never a late cancellation.
LeavingTheWaitlistIsFree ==
    [][\A c \in calls \ calls' :
         c.waiting => ~(rsvp[c.who].status # "late_cancelled"
                        /\ rsvp'[c.who].status = "late_cancelled")]_vars

\* REQ-AUT-008: a deactivated member holds no seat reservations.
DeactivatedHoldNoSeat ==
    \A m \in Member \ active : m \notin Confirmed
=============================================================================
