-------------------------- MODULE SessionLifecycle --------------------------
(***************************************************************************)
(* One session from draft to archive: the administrators' calls, the two   *)
(* clocks, and the triggers the session's row fires.                       *)
(*                                                                         *)
(* transition_session, publish_session and schedule_session read the row   *)
(* without a lock, decide, and write later by id, so each is two steps     *)
(* (Begin..., then the write) and call[a] is what administrator a's call   *)
(* read.  The guard trigger judges the row as it is at the write.  The     *)
(* functions that take the row's lock first are one step.                  *)
(*                                                                         *)
(* publish_session walks draft to published in one transaction: the four   *)
(* rows it logs are one row here.  The days of a session are a count and   *)
(* how many of them have their check-in switch open; certificate_mode is   *)
(* "off" or "automatic" ("review" fans out the same jobs).                 *)
(*                                                                         *)
(* MaxTime bounds the clock, MaxDays the days, MaxRows the calls begun: no *)
(* call begins once the log has that many rows.                            *)
(***************************************************************************)
EXTENDS Integers, Sequences

CONSTANTS
    Admin,          \* administrators with a call that may be in flight
    Windows,        \* the (starts_at, ends_at) pairs they schedule
    Retrospective,  \* sessions.logged_retrospectively
    CheckInHours,   \* how long after ends_at a day may still be opened
    MaxTime, MaxDays, MaxRows

Time == 0..MaxTime
NoTime == -1
Window == [starts : Nat, ends : Nat]
NoWindow == [starts |-> NoTime, ends |-> NoTime]

ASSUME LifecycleAssumption ==
    /\ Windows \subseteq Window
    /\ \A w \in Windows : w.starts < w.ends
    /\ Retrospective \in BOOLEAN
    /\ CheckInHours \in Nat
    /\ MaxTime \in Nat /\ MaxDays \in Nat \ {0} /\ MaxRows \in Nat

VARIABLES
    state,         \* sessions.state
    window,        \* starts_at and ends_at, NoWindow while unscheduled
    publishedAt,   \* sessions.published_at
    completedAt,   \* sessions.completed_at
    days,          \* how many rows of session_days
    openDays,      \* how many of them have check_in_open
    allowWalkIns,  \* sessions.allow_walk_ins
    certMode,      \* sessions.certificate_mode
    fannedOut,     \* fan_out_certificates has run with the mode on
    deleted,       \* sessions.deleted_at is set
    log,           \* session_state_transitions, oldest first
    call,          \* each administrator's call between read and write
    now

stamps == <<publishedAt, completedAt>>
settings == <<window, days, allowWalkIns, certMode>>
vars == <<state, window, publishedAt, completedAt, days, openDays,
          allowWalkIns, certMode, fannedOut, deleted, log, call, now>>

SessionState == {"draft", "submitted", "in_review", "changes_requested",
                 "approved", "published", "in_progress", "completed",
                 "archived", "cancelled"}
Mode == {"off", "automatic"}
Idle == [op |-> "idle"]
MoveCall == [op : {"move"}, from : SessionState, to : SessionState, at : Time]
PublishCall == [op : {"publish"}, from : SessionState, at : Time]
\* named: the walk-in setting the form names, none when it is left as it is.
ScheduleCall == [op : {"schedule"}, window : Windows, days : 1..MaxDays,
                 named : SUBSET BOOLEAN, walkIns : BOOLEAN, mode : Mode]
Call == {Idle} \cup MoveCall \cup PublishCall \cup ScheduleCall

TypeOK ==
    /\ state \in SessionState
    /\ window \in Windows \cup {NoWindow}
    /\ publishedAt \in Time \cup {NoTime}
    /\ completedAt \in Int
    /\ days \in 0..MaxDays
    /\ openDays \in 0..days
    /\ allowWalkIns \in BOOLEAN
    /\ certMode \in Mode
    /\ fannedOut \in BOOLEAN
    /\ deleted \in BOOLEAN
    /\ log \in Seq(SessionState \X SessionState)
    /\ call \in [Admin -> Call]
    /\ now \in Time

Init ==
    /\ state = "draft" /\ window = NoWindow
    /\ publishedAt = NoTime /\ completedAt = NoTime
    /\ days = 0 /\ openDays = 0
    /\ allowWalkIns = FALSE /\ certMode = "off" /\ fannedOut = FALSE
    /\ deleted = FALSE
    /\ log = << >>
    /\ call = [a \in Admin |-> Idle]
    /\ now = 0

-----------------------------------------------------------------------------
\* The guard trigger: a move along an edge, or no move at all.
Edge ==
    {<<"draft", "submitted">>, <<"submitted", "in_review">>,
     <<"in_review", "changes_requested">>, <<"in_review", "approved">>,
     <<"changes_requested", "submitted">>, <<"approved", "published">>,
     <<"published", "in_progress">>, <<"in_progress", "completed">>,
     <<"completed", "archived">>, <<"archived", "completed">>}
    \cup ({"approved", "published", "in_progress", "completed", "archived"}
            \X {"cancelled"})
    \cup ({"submitted", "in_review", "changes_requested", "approved"}
            \X {"draft"})

Allows(from, to) == from = to \/ <<from, to>> \in Edge

\* The completion trigger, on the edge into completed only.
FanOut(to) ==
    fannedOut' = (fannedOut \/ (/\ to = "completed" /\ state # "completed"
                                /\ certMode # "off"))

\* One row changes state: the row itself, its triggers and its log row.
Move(from, to) ==
    /\ state' = to
    /\ FanOut(to)
    /\ log' = Append(log, <<from, to>>)

Free(a) == call[a] = Idle
MayBegin(a) == Free(a) /\ Len(log) < MaxRows
Returns(a) == call' = [call EXCEPT ![a] = Idle]

\* The state an action leads to, where 02 par. 6.2 draws it.
ActionEdge ==
    [start |-> {<<"published", "in_progress">>},
     complete |-> {<<"in_progress", "completed">>},
     archive |-> {<<"completed", "archived">>},
     reopen |-> {<<"archived", "completed">>},
     cancel |-> {"approved", "published", "in_progress", "completed",
                 "archived"} \X {"cancelled"}]

\* Mutant: a reopened session is stamped again.
StampMoveAgain(to, at) ==
    /\ completedAt' = IF to = "completed" THEN at ELSE completedAt
    /\ openDays' = IF to = "cancelled" THEN 0 ELSE openDays

\* Mutant: the switches are closed on early completion only.
StampMoveLeavesOpen(to, at) ==
    /\ completedAt' = IF to = "completed" /\ completedAt = NoTime
                      THEN at ELSE completedAt
    /\ openDays' = IF to = "completed" /\ at < window.ends THEN 0 ELSE openDays

\* completed_at is written when null; completing before ends_at, and any
\* cancellation, closes every day's switch.
StampMove(to, at) ==
    /\ completedAt' = IF to = "completed" /\ completedAt = NoTime
                      THEN at ELSE completedAt
    /\ openDays' = IF \/ to = "cancelled"
                      \/ /\ to = "completed" /\ window # NoWindow
                         /\ at < window.ends
                   THEN 0 ELSE openDays

BeginTransition(a) ==
    /\ MayBegin(a)
    /\ \E action \in DOMAIN ActionEdge : \E e \in ActionEdge[action] :
         /\ e[1] = state
         /\ call' = [call EXCEPT ![a] = [op |-> "move", from |-> e[1],
                                         to |-> e[2], at |-> now]]
    /\ UNCHANGED <<state, stamps, settings, openDays, fannedOut, deleted,
                   log, now>>

TransitionSession(a) ==
    LET c == call[a] IN
    /\ c.op = "move"
    /\ Allows(state, c.to)
    /\ Move(c.from, c.to)
    /\ StampMove(c.to, c.at)
    /\ Returns(a)
    /\ UNCHANGED <<publishedAt, settings, deleted, now>>

-----------------------------------------------------------------------------
BeforePublication == {"draft", "submitted", "in_review",
                      "changes_requested", "approved"}
\* Where the walk from each state begins.
FirstStep(from) == CASE from = "draft" -> "submitted"
                     [] from = "submitted" -> "in_review"
                     [] from = "in_review" -> "approved"
                     [] from = "changes_requested" -> "submitted"
                     [] from = "approved" -> "published"

BeginPublish(a) ==
    /\ MayBegin(a)
    /\ state \in BeforePublication
    /\ window # NoWindow /\ days > 0
    /\ call' = [call EXCEPT ![a] = [op |-> "publish", from |-> state,
                                    at |-> now]]
    /\ UNCHANGED <<state, stamps, settings, openDays, fannedOut, deleted,
                   log, now>>

\* The first update meets the row as it is; the rest of the walk has its lock.
PublishSession(a) ==
    LET c == call[a] IN
    /\ c.op = "publish"
    /\ Allows(state, FirstStep(c.from))
    /\ Move(c.from, "published")
    /\ publishedAt' = c.at
    /\ Returns(a)
    /\ UNCHANGED <<completedAt, settings, openDays, deleted, now>>

\* The row's lock, then publish_session and both clock steps in one call.
PublishPastSession(a) ==
    /\ MayBegin(a)
    /\ Retrospective
    /\ state \in BeforePublication \cup {"published"}
    /\ window # NoWindow /\ days > 0
    /\ window.ends <= now
    /\ publishedAt' = IF state = "published" THEN publishedAt ELSE now
    /\ Move(state, "completed")
    /\ completedAt' = window.ends
    /\ openDays' = 0
    /\ UNCHANGED <<settings, deleted, call, now>>

-----------------------------------------------------------------------------
BeginSchedule(a) ==
    /\ MayBegin(a)
    /\ state \notin {"completed", "archived", "cancelled"}
    /\ \E w \in Windows, n \in 1..MaxDays, named \in {{}, {TRUE}, {FALSE}} :
         call' = [call EXCEPT ![a] =
                    [op |-> "schedule", window |-> w, days |-> n,
                     named |-> named, walkIns |-> allowWalkIns,
                     mode |-> certMode]]
    /\ UNCHANGED <<state, stamps, settings, openDays, fannedOut, deleted,
                   log, now>>

\* Mutant: a dropped day's switch is still counted.
OpenAfterDrop(n) == {openDays}

\* Dropped days may be open or closed; a new day is born open.
OpenAfter(n) ==
    IF n >= days THEN {openDays + (n - days)}
    ELSE {k \in 0..n : k <= openDays /\ openDays - k <= days - n}

\* What the call does not name it writes back as it read it.
ScheduleSession(a) ==
    LET c == call[a] IN
    /\ c.op = "schedule"
    /\ window' = c.window
    /\ days' = c.days
    /\ openDays' \in OpenAfter(c.days)
    /\ allowWalkIns' = IF c.named = {} THEN c.walkIns ELSE TRUE \in c.named
    /\ certMode' = c.mode
    /\ Returns(a)
    /\ UNCHANGED <<state, stamps, fannedOut, deleted, log, now>>

\* A moderator's call as well as an administrator's.
SetSessionWalkIns ==
    /\ allowWalkIns' = ~allowWalkIns
    /\ UNCHANGED <<state, window, stamps, days, openDays, certMode, fannedOut,
                   deleted, log, call, now>>

\* Mutant: no late switch, the completion alone fans out.
SetCertificateModeOnly(a) ==
    /\ Free(a)
    /\ state # "cancelled"
    /\ \E m \in Mode \ {certMode} : certMode' = m
    /\ UNCHANGED <<state, window, stamps, days, openDays, allowWalkIns,
                   fannedOut, deleted, log, call, now>>

\* Switched on late, the fan-out the completion would have made runs now.
SetCertificateMode(a) ==
    /\ Free(a)
    /\ state # "cancelled"
    /\ \E m \in Mode \ {certMode} :
         /\ certMode' = m
         /\ fannedOut' = (fannedOut \/ (/\ m # "off"
                                        /\ state \in {"completed", "archived"}))
    /\ UNCHANGED <<state, window, stamps, days, openDays, allowWalkIns,
                   deleted, log, call, now>>

\* One day's switch, opened only before the ceiling of the last day.
SetCheckInOpen ==
    /\ state \in {"published", "in_progress", "completed"}
    /\ \/ openDays > 0 /\ openDays' = openDays - 1
       \/ openDays < days /\ now < window.ends + CheckInHours
          /\ openDays' = openDays + 1
    /\ UNCHANGED <<state, stamps, settings, fannedOut, deleted, log, call,
                   now>>

\* The row's lock; what has not happened yet is cancelled first.
DeleteSession(a) ==
    /\ MayBegin(a)
    /\ ~deleted
    /\ deleted' = TRUE
    /\ IF state \in {"approved", "published", "in_progress"}
       THEN Move(state, "cancelled") /\ StampMove("cancelled", now)
       ELSE UNCHANGED <<state, fannedOut, log, completedAt, openDays>>
    /\ UNCHANGED <<publishedAt, settings, call, now>>

\* A call rolls back: the guard raised, or its connection was lost.
Abandon(a) ==
    /\ ~Free(a)
    /\ Returns(a)
    /\ UNCHANGED <<state, stamps, settings, openDays, fannedOut, deleted,
                   log, now>>

-----------------------------------------------------------------------------

\* Mutant: a session is due only after its starting instant.
ClockStartLate ==
    /\ state = "published"
    /\ window # NoWindow /\ window.starts < now
    /\ Move("published", "in_progress")
    /\ UNCHANGED <<stamps, settings, openDays, deleted, call, now>>

ClockStart ==
    /\ state = "published"
    /\ window # NoWindow /\ window.starts <= now
    /\ Move("published", "in_progress")
    /\ UNCHANGED <<stamps, settings, openDays, deleted, call, now>>

ClockComplete ==
    /\ state = "in_progress"
    /\ window # NoWindow /\ window.ends <= now
    /\ Move("in_progress", "completed")
    /\ completedAt' = now
    /\ UNCHANGED <<publishedAt, settings, openDays, deleted, call, now>>

Tick ==
    /\ now < MaxTime
    /\ now' = now + 1
    /\ UNCHANGED <<state, stamps, settings, openDays, fannedOut, deleted,
                   log, call>>

Next ==
    \/ \E a \in Admin :
         \/ BeginTransition(a) \/ TransitionSession(a)
         \/ BeginPublish(a) \/ PublishSession(a) \/ PublishPastSession(a)
         \/ BeginSchedule(a) \/ ScheduleSession(a) \/ SetCertificateMode(a)
         \/ DeleteSession(a) \/ Abandon(a)
    \/ SetSessionWalkIns \/ SetCheckInOpen
    \/ ClockStart \/ ClockComplete \/ Tick

Spec == Init /\ [][Next]_vars

\* The worker runs start_session and complete_session every minute.
FairSpec == Spec /\ WF_vars(ClockStart) /\ WF_vars(ClockComplete)

-----------------------------------------------------------------------------
\* The moves the diagram of 02 par. 6.2 draws between states that are
\* committed, publish and publish-past being one move each.
DrawnMoves ==
    {<<"draft", "published">>, <<"published", "in_progress">>,
     <<"in_progress", "completed">>, <<"completed", "archived">>,
     <<"archived", "completed">>}
    \cup ({"published", "in_progress", "completed", "archived"}
            \X {"cancelled"})
    \cup (IF Retrospective THEN {"draft", "published"} \X {"completed"} ELSE {})

\* Whatever the calls in flight had read, a session only moves along the
\* diagram: it is never unpublished, and a cancellation is never undone.
OnlyDrawnMoves ==
    [][state' = state \/ <<state, state'>> \in DrawnMoves]_vars

\* published_at and completed_at are written once, however many times the
\* session is completed, archived and reopened and by whom.
StampsAreWrittenOnce ==
    [][/\ publishedAt # NoTime => publishedAt' = publishedAt
       /\ completedAt # NoTime => completedAt' = completedAt]_vars

\* The last row of the transition log names the state the session is in.
LogEndsInState ==
    state = IF log = << >> THEN "draft" ELSE log[Len(log)][2]

\* Nobody is checked in to a cancelled session: no day's switch is open.
CancelledIsClosed == state = "cancelled" => openDays = 0

\* A finished session whose certificates are switched on has had its fan-out:
\* from completion, or from the late switch.
SwitchedOnMeansFannedOut ==
    state \in {"completed", "archived"} /\ certMode # "off" => fannedOut

\* A session that is due is moved by the clock, unless someone moves it, or
\* its window, first.
DueSessionsMove ==
    /\ (state = "published" /\ window.starts <= now)
         ~> (state # "published" \/ now < window.starts)
    /\ (state = "in_progress" /\ window.ends <= now)
         ~> (state # "in_progress" \/ now < window.ends)

-----------------------------------------------------------------------------
\* Each row of the log starts where the row before it ended.
LogIsAPath ==
    \A i \in 1..(Len(log) - 1) : log[i][2] = log[i + 1][1]

\* A finished, archived or cancelled session is history: its window stays.
HistoryIsNotRescheduled ==
    [][(state \in {"completed", "archived", "cancelled"}) =>
         (window' = window /\ days' = days)]_vars

\* A schedule that names no walk-in setting leaves it, and certificate_mode,
\* as they are.
UnnamedSettingsUnchanged ==
    [][\A a \in Admin : call[a].op = "schedule" /\ call'[a] = Idle =>
         /\ certMode' = certMode
         /\ call[a].named = {} => allowWalkIns' = allowWalkIns]_vars

\* An archived session is completed again by a reopen and by nothing else.
OnlyReopenUnarchives ==
    [][state = "archived" /\ state' = "completed" =>
         \E a \in Admin : /\ call[a].op = "move" /\ call[a].from = "archived"
                          /\ call'[a] = Idle]_vars

\* A deleted session is not one that is about to happen, or happening.
DeletedIsNotLive == deleted => state \notin {"published", "in_progress"}
=============================================================================
