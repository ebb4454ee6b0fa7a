--------------------------- MODULE CalendarSync ---------------------------
(***************************************************************************)
(* One reservation and the entries it has in its member's Google calendar, *)
(* one per day of the session: the calls that queue calendar_upsert and    *)
(* calendar_delete, the two jobs, the token refresh, and the calendar.     *)
(*                                                                         *)
(* A job reads the database once, then calls Google and writes one row     *)
(* for each item of its list.  The call and the write are two steps, and   *)
(* jobs of one reservation overlap when a new one is queued while the old  *)
(* one runs: job keys replace only what is not running.  A call to Google  *)
(* may be refused, or carried out while its answer is lost.                *)
(*                                                                         *)
(* A day's window and venue are a version number, the same for all days.   *)
(* MaxCalls bounds the calls of the members and admins, MaxFaults the      *)
(* refusals, lost answers, crashes and expired tokens.                     *)
(***************************************************************************)
EXTENDS Integers, FiniteSets

CONSTANTS
    FirstDays,   \* the days of the session at the start
    DaySets,     \* the day sets a save of the schedule may ask for
    Attempts,    \* how often a job is tried
    Slots,       \* how many jobs the worker process runs at once
    MayRebook,   \* whether a member who gave the seat up may take it again
    MaxCalls, MaxFaults

Day == FirstDays \cup UNION DaySets

CalendarAssumption ==
    /\ Day \subseteq Nat /\ FirstDays # {} /\ {} \notin DaySets
    /\ IsFiniteSet(Day)
    /\ Attempts \in Nat \ {0} /\ Slots \in Nat
    /\ MayRebook \in BOOLEAN
    /\ MaxCalls \in Nat /\ MaxFaults \in Nat

VARIABLES
    seat,       \* rsvps.status: "none", "confirmed" or "cancelled"
    open,       \* the session is published or in progress, not cancelled
    days,       \* session_days
    version,    \* what the days say now
    connected,  \* the member has a calendar_connections row
    token,      \* its access token, as Google sees it
    rows,       \* calendar_events, by the day they were written for
    events,     \* the entries Google knows, the deleted ones included
    queue,      \* jobs waiting, and those whose attempts are used up
    running,    \* jobs begun, each with what is left of its list
    calls, faults

database == <<seat, open, days, version, connected, rows>>
google == <<token, events>>
vars == <<database, google, queue, running, calls, faults>>

NoId == <<>>
NoRow == [state |-> "none", id |-> NoId]
EventId == {NoId} \cup (Day \X Nat)
Row == [state : {"none", "pending", "synced", "failed", "removed"}, id : EventId]
Item == [day : Day, id : EventId, orphan : BOOLEAN]
Job == [n : Nat, task : {"upsert", "delete"}, keyed : BOOLEAN, attempts : 0..Attempts]
Task == [job : Job, todo : SUBSET Item, body : Nat, calls : BOOLEAN,
         answer : {"none", "ok", "error"}, id : EventId]

TypeOK ==
    /\ seat \in {"none", "confirmed", "cancelled"}
    /\ open \in BOOLEAN /\ connected \in BOOLEAN
    /\ days \subseteq Day /\ days # {}
    /\ version \in 0..MaxCalls
    /\ token \in {"good", "expired", "revoked"}
    /\ rows \in [Day -> Row]
    /\ \A e \in events : e.id \in Day \X Nat /\ e.version \in Nat /\ e.live \in BOOLEAN
    /\ queue \subseteq Job
    /\ running \subseteq Task /\ Cardinality(running) <= Slots
    /\ \A t \in {"upsert", "delete"} :
           Cardinality({j \in queue \cup {r.job : r \in running} : j.task = t /\ j.keyed}) <= 1
    /\ calls \in 0..MaxCalls /\ faults \in 0..MaxFaults

Init ==
    /\ seat = "none" /\ open = TRUE
    /\ days = FirstDays /\ version = 0
    /\ connected \in BOOLEAN /\ token = "good"
    /\ rows = [d \in Day |-> NoRow]
    /\ events = {} /\ queue = {} /\ running = {}
    /\ calls = 0 /\ faults = 0

---------------------------------------------------------------------------
(* graphile-worker, as enqueue_job and cancel_job use it.                  *)

Jobs == queue \cup {r.job : r \in running}

\* The number of a new job: the least that no other job has.
Number == CHOOSE n \in 1..Cardinality(Jobs) + 1 : \A j \in Jobs : j.n # n

Waiting(task) == {j \in queue : j.task = task /\ j.keyed}

\* Wrong on purpose: a job that runs keeps its key.
KeyKept(task, attempts) == running

\* A job that runs loses its key, so that its retry does not meet the new one.
Unkeyed(task, attempts) ==
    {IF r.job.task = task /\ r.job.keyed
     THEN [r EXCEPT !.job.keyed = FALSE,
                    !.job.attempts = IF attempts = 0 THEN @ ELSE attempts]
     ELSE r : r \in running}

\* Replaces the job of the same key, unless it runs: that one loses its key.
enqueue_job(task) ==
    /\ queue' = (queue \ Waiting(task))
                \cup {[n |-> Number, task |-> task, keyed |-> TRUE, attempts |-> 0]}
    /\ running' = Unkeyed(task, 0)

\* Removes a waiting upsert; one that runs has had its last attempt.  The
\* calendar_delete that follows is queued in the same transaction.
CancelThenDelete ==
    /\ queue' = (queue \ (Waiting("upsert") \cup Waiting("delete")))
                \cup {[n |-> Number, task |-> "delete", keyed |-> TRUE, attempts |-> 0]}
    /\ running' = {IF r.job.task = "delete" THEN [r EXCEPT !.job.keyed = FALSE] ELSE r :
                   r \in Unkeyed("upsert", Attempts)}

Call == calls < MaxCalls /\ calls' = calls + 1

---------------------------------------------------------------------------
(* The calls that change what the calendar should say.                     *)

\* rsvps_notify: the seat is confirmed, by the reservation or a promotion.
ConfirmSeat ==
    /\ Call
    /\ open /\ seat # "confirmed"
    /\ seat = "cancelled" => MayRebook
    /\ seat' = "confirmed"
    /\ enqueue_job("upsert")
    /\ UNCHANGED <<open, days, version, connected, rows, google, faults>>

\* rsvps_notify: the seat is given up.
CancelSeat ==
    /\ Call
    /\ open /\ seat = "confirmed"
    /\ seat' = "cancelled"
    /\ CancelThenDelete
    /\ UNCHANGED <<open, days, version, connected, rows, google, faults>>

\* sessions_notify: every confirmed seat's entries go.  The reservation's row
\* stays as it is.
CancelSession ==
    /\ Call
    /\ open /\ open' = FALSE
    /\ IF seat = "confirmed" THEN CancelThenDelete ELSE UNCHANGED <<queue, running>>
    /\ UNCHANGED <<seat, days, version, connected, rows, google, faults>>

\* session_days_changed looks at the days that stay and at their number.
Announced(new, moved) ==
    \/ moved /\ days \cap new # {}
    \/ Cardinality(days) # Cardinality(new)

\* A day that nothing remembers: a day added to the session is a new one.
Unused(d) ==
    /\ rows[d] = NoRow
    /\ \A e \in events : e.id[1] # d
    /\ \A t \in running : \A i \in t.todo : i.day # d

\* schedule_session: the whole day set is saved at once.  A day that is not
\* named is deleted, and a day added has an id of its own.
ScheduleSession(new, moved) ==
    /\ Call
    /\ open
    /\ new # days \/ moved
    /\ \A d \in new \ days : Unused(d) /\ \A e \in days : e < d
    /\ days' = new
    /\ version' = IF moved THEN version + 1 ELSE version
    /\ IF seat = "confirmed" /\ Announced(new, moved)
       THEN enqueue_job("upsert") ELSE UNCHANGED <<queue, running>>
    /\ UNCHANGED <<seat, open, connected, rows, google, faults>>

\* Wrong on purpose: the seats held before are forgotten.
ConnectWithoutBackfill ==
    /\ Call
    /\ ~connected \/ token = "revoked"
    /\ connected' = TRUE /\ token' = "good"
    /\ UNCHANGED <<seat, open, days, version, rows, events, queue, running, faults>>

\* store_calendar_connection: with the backfill of the seats already held.
ConnectCalendar ==
    /\ Call
    /\ ~connected \/ token = "revoked"
    /\ connected' = TRUE /\ token' = "good"
    /\ IF seat = "confirmed" /\ open
       THEN enqueue_job("upsert") ELSE UNCHANGED <<queue, running>>
    /\ UNCHANGED <<seat, open, days, version, rows, events, faults>>

\* disconnectCalendar and the trigger calendar_disconnected: the entries stay
\* in the calendar, and the rows stop meaning anything.
disconnectCalendar ==
    /\ Call
    /\ connected /\ connected' = FALSE
    /\ rows' = [d \in Day |-> IF rows[d] = NoRow THEN NoRow
                              ELSE [rows[d] EXCEPT !.state = "removed"]]
    /\ UNCHANGED <<seat, open, days, version, google, queue, running, faults>>

\* What listCalendarFailures shows the member: the failed days.
Failures == IF open THEN {d \in Day : rows[d].state = "failed"} ELSE {}

\* retryCalendarSync, for a failure the member is shown.
retryCalendarSync ==
    /\ Call
    /\ Failures # {} /\ connected /\ seat = "confirmed"
    /\ rows' = [d \in Day |-> IF rows[d].state = "failed"
                              THEN [rows[d] EXCEPT !.state = "pending"] ELSE rows[d]]
    /\ enqueue_job("upsert")
    /\ UNCHANGED <<seat, open, days, version, connected, google, faults>>

---------------------------------------------------------------------------
(* The jobs.                                                               *)

\* calendar_sync_target: the days with their entries, and the rows whose day
\* is gone.
DayItems == {[day |-> d, id |-> rows[d].id, orphan |-> FALSE] : d \in days}
Orphans == {[day |-> d, id |-> rows[d].id, orphan |-> TRUE] :
            d \in {x \in Day \ days : rows[x].id # NoId /\ rows[x].state # "removed"}}

\* What a job that starts now has to do; with nothing to do it ends at once.
UpsertList == IF connected /\ seat = "confirmed" /\ open THEN DayItems \cup Orphans ELSE {}
DeleteList == {i \in DayItems : i.id # NoId} \cup Orphans
List(task) == IF task = "upsert" THEN UpsertList ELSE DeleteList

\* The next item: the days in order, then what is left over.
Before(i, k) == IF i.orphan = k.orphan THEN i.day < k.day ELSE k.orphan
First(todo) == CHOOSE i \in todo : \A k \in todo \ {i} : Before(i, k)

\* Reads the target and the tokens.  A calendar_delete of a member who has
\* disconnected marks the rows and leaves the calendar alone.
Begin(j) ==
    /\ j \in queue /\ j.attempts < Attempts
    /\ Cardinality(running) < Slots
    /\ queue' = queue \ {j}
    /\ running' = IF List(j.task) = {} THEN running
                  ELSE running \cup
                       {[job |-> [j EXCEPT !.attempts = @ + 1],
                         todo |-> List(j.task), body |-> version, calls |-> connected,
                         answer |-> IF connected THEN "none" ELSE "ok", id |-> NoId]}
    /\ UNCHANGED <<database, google, calls, faults>>

Live(id) == \E e \in events : e.id = id /\ e.live

\* Wrong on purpose: Google chooses the id, as without a client id.
FreshEventId(d) == <<d, Cardinality(events)>>

\* The id the entry of a day is created under.
clientEventId(d) == <<d, 0>>

\* updateEvent when the entry's id is known and it is there, otherwise
\* createEvent: an id that is taken is updated, which restores a deleted one.
Target(i) == IF i.id # NoId /\ Live(i.id) THEN i.id ELSE clientEventId(i.day)
Written(t, id) ==
    {e \in events : e.id # id} \cup {[id |-> id, version |-> t.body, live |-> TRUE]}

\* deleteEvent; an entry that is not there is a success.
Deleted(id) == {IF e.id = id THEN [e EXCEPT !.live = FALSE] ELSE e : e \in events}

Answer(t, answer, id) ==
    running' = (running \ {t}) \cup {[t EXCEPT !.answer = answer, !.id = id]}

Fault == faults < MaxFaults /\ faults' = faults + 1

\* One call to Google for the next item, and what the job learns of it.
CallGoogle(t, outcome) ==
    LET i == First(t.todo)
        writes == t.job.task = "upsert" /\ ~i.orphan
        id == IF writes THEN Target(i) ELSE NoId
        done == IF writes THEN Written(t, id) ELSE Deleted(i.id)
    IN  /\ t \in running /\ t.answer = "none"
        /\ token # "good" => outcome = "refused"
        /\ events' = IF outcome = "refused" THEN events ELSE done
        /\ IF outcome = "ok" THEN Answer(t, "ok", id) ELSE Answer(t, "error", NoId)
        /\ IF outcome = "ok" \/ token # "good" THEN UNCHANGED faults ELSE Fault
        /\ UNCHANGED <<database, token, queue, calls>>

\* The job goes back to the queue, or has used up its attempts there.
Retry(t) == running' = running \ {t} /\ queue' = queue \cup {t.job}

Continue(t, i) ==
    LET rest == t.todo \ {i}
        next == [t EXCEPT !.todo = rest, !.id = NoId,
                          !.answer = IF t.calls THEN "none" ELSE "ok"]
    IN  /\ running' = (running \ {t}) \cup IF rest = {} THEN {} ELSE {next}
        /\ UNCHANGED queue

\* record_calendar_sync keeps the id it had when it is given none.
Recorded(d, state, id) ==
    rows' = [rows EXCEPT ![d] = [state |-> state, id |-> IF id = NoId THEN @.id ELSE id]]

\* The write after the call.  A day deleted meanwhile fails its foreign key,
\* and so does the attempt to say so; an orphan's failure writes nothing.
Record(t) ==
    LET i == First(t.todo)
        synced == IF t.job.task = "upsert" /\ ~i.orphan THEN "synced" ELSE "removed"
    IN  /\ t \in running /\ t.answer # "none"
        /\ IF i.day \notin days /\ ~i.orphan
           THEN Retry(t) /\ UNCHANGED rows
           ELSE IF t.answer = "ok"
           THEN Recorded(i.day, synced, t.id) /\ Continue(t, i)
           ELSE /\ IF i.orphan THEN UNCHANGED rows ELSE Recorded(i.day, "failed", NoId)
                /\ Retry(t)
        /\ UNCHANGED <<seat, open, days, version, connected, google, calls, faults>>

\* The process dies, or the database does not answer.
Crash(t) ==
    /\ t \in running
    /\ Fault
    /\ Retry(t)
    /\ UNCHANGED <<database, google, calls>>

---------------------------------------------------------------------------
(* The calendar's side, and the hourly refresh.                            *)

TokenExpires ==
    /\ connected /\ token = "good" /\ token' = "expired"
    /\ Fault
    /\ UNCHANGED <<database, events, queue, running, calls>>

\* The member withdraws the grant at Google.
RevokeGrant ==
    /\ Call
    /\ connected /\ token # "revoked" /\ token' = "revoked"
    /\ UNCHANGED <<database, events, queue, running, faults>>

\* refresh_calendar_tokens: a revoked grant is skipped.
RefreshTokens ==
    /\ connected /\ token = "expired" /\ token' = "good"
    /\ UNCHANGED <<database, events, queue, running, calls, faults>>

Next ==
    \/ ConfirmSeat \/ CancelSeat \/ CancelSession
    \/ \E new \in DaySets, moved \in BOOLEAN : ScheduleSession(new, moved)
    \/ ConnectCalendar \/ disconnectCalendar \/ retryCalendarSync
    \/ \E j \in queue : Begin(j)
    \/ \E t \in running, o \in {"ok", "lost", "refused"} : CallGoogle(t, o)
    \/ \E t \in running : Record(t) \/ Crash(t)
    \/ TokenExpires \/ RevokeGrant \/ RefreshTokens

Spec == Init /\ [][Next]_vars

---------------------------------------------------------------------------
Settled == running = {} /\ \A j \in queue : j.attempts = Attempts
Wanted == seat = "confirmed" /\ open /\ connected
UpsertGaveUp == \E j \in queue : j.task = "upsert"
EntriesOf(d) == {e \in events : e.id[1] = d /\ e.live}

\* However often a create is retried after a lost answer, a crash or by a
\* second job, a day has one entry in the calendar.
OneEventPerDay == \A d \in Day : Cardinality(EntriesOf(d)) <= 1

(***************************************************************************)
(* When the jobs have ended, a held seat is in the calendar on every day   *)
(* it has, or the member is shown the failure, and no row of a deleted day *)
(* is left with an entry nobody took out; or an upsert with no attempts    *)
(* left is there for the operator's alert.                                 *)
(* (calendar_upsert, calendar_sync_target)                                 *)
(***************************************************************************)
SeatReachesCalendar ==
    Settled /\ Wanted =>
        \/ /\ \A d \in days : EntriesOf(d) # {} \/ rows[d].state = "failed"
           /\ Orphans = {}
        \/ UpsertGaveUp

===========================================================================
