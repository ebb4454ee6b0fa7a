--------------------------- MODULE CheckInCodes ---------------------------
(***************************************************************************)
(* The codes a room is shown to check in with: how they are issued,        *)
(* rotated, revoked and closed.                                            *)
(*                                                                         *)
(* now() is the start of a transaction, and every issuing call waits for   *)
(* the session's row lock after it has taken its now() and passed its      *)
(* gate.  So a call is two steps (three for a revoke, which takes the      *)
(* code's row before the session's), call[c].at is its now(), and Lag      *)
(* bounds how long it waits.  A write to a row a revoke holds does not     *)
(* happen: PostgreSQL aborts one of the two, which is Abandon.             *)
(* A code is a row; its six characters are its place in the sequence.      *)
(* NULL rotation is 0.  "over" stands for archived and cancelled.          *)
(*                                                                         *)
(* MaxTime bounds the clock, MaxRevokes the revoked codes.                 *)
(***************************************************************************)
EXTENDS Integers, Sequences, FiniteSets

CONSTANTS
    Host,       \* host pages and consoles with a call that may be in flight
    Plans,      \* the day plans the session may be given
    Rotations,  \* the values of check_in_rotation_seconds
    Grace,      \* check_in_grace_seconds
    After,      \* how long after its end a day still takes attendance
    Lag, MaxTime, MaxRevokes

Job == {"rotate_codes", "complete_session"}
Caller == Host \cup Job
Time == 0..MaxTime
Never == -1
SessionState == {"published", "in_progress", "completed", "over"}
Kind == {"none", "issue", "revoke", "holding", "complete"}

ASSUME CodesAssumption ==
    /\ \A p \in Plans : /\ p \in Seq([from : Nat, to : Nat]) /\ p # <<>>
                        /\ \A d \in DOMAIN p : p[d].from < p[d].to
                        /\ \A d, e \in DOMAIN p : d < e => p[d].to <= p[e].from
    /\ \A p, q \in Plans : Len(p) = Len(q)
    /\ Rotations \subseteq Nat
    /\ Grace \in Nat /\ After \in Nat /\ Lag \in Nat
    /\ MaxTime \in Nat /\ MaxRevokes \in Nat
    /\ Host \cap Job = {}

VARIABLES
    state,        \* sessions.state
    completedAt,  \* sessions.completed_at as the clock wrote it, or Never
    plan,         \* the session's days, in order of starts_at
    rotation,     \* org_settings.check_in_rotation_seconds
    codes,        \* check_in_codes, in the order they were inserted
    shown,        \* per code, the latest now() it was handed out at
    firstJob,     \* the rotate_codes job start_session queued
    call,         \* calls between their now() and their commit
    now

vars == <<state, completedAt, plan, rotation, codes, shown, firstJob, call, now>>

Day == DOMAIN plan
Code == [day : Day, from : Int, until : Int, revoked : BOOLEAN]
NoCall == [kind |-> "none", at |-> 0, day |-> 1, code |-> 0]

TypeOK ==
    /\ state \in SessionState
    /\ completedAt \in Time \cup {Never}
    /\ plan \in Plans
    /\ rotation \in Rotations
    /\ codes \in Seq(Code)
    /\ shown \in Seq(Time) /\ Len(shown) = Len(codes)
    /\ \A i \in DOMAIN codes : codes[i].from \in 0..now /\ shown[i] \in 0..now
    /\ firstJob \in BOOLEAN
    /\ call \in [Caller -> [kind : Kind, at : Time, day : Day, code : Nat]]
    /\ \A c \in Caller : call[c].at <= now /\ call[c].code <= Len(codes)
    /\ now \in Time

Init ==
    /\ state = "published" /\ completedAt = Never
    /\ plan \in Plans
    /\ rotation \in Rotations
    /\ codes = <<>>
    /\ shown = <<>>
    /\ firstJob = FALSE
    /\ call = [c \in Caller |-> NoCall]
    /\ now = 0

---------------------------------------------------------------------------
(* Days and codes.                                                         *)

Least(a, b) == IF a < b THEN a ELSE b
Greatest(a, b) == IF a < b THEN b ELSE a

\* check_in_ceiling: the day's end and After, or the next day's start.
Ceiling(d) ==
    IF d = Len(plan) THEN plan[d].to + After
    ELSE Least(plan[d].to + After, plan[d + 1].from)

TakesAttendance(d, t) == plan[d].from <= t /\ t < Ceiling(d)

OfDay(cs, d) == {i \in DOMAIN cs : cs[i].day = d}
Unrevoked(cs, d) == {i \in OfDay(cs, d) : ~cs[i].revoked}
Newest(cs, S) == {i \in S : \A j \in S : cs[j].from <= cs[i].from}
Live(c, t) == ~c.revoked /\ c.until > t

\* The rows a revoke holds locked, other than caller c's own.
HeldBy(others) == {call[c].code : c \in {x \in others : call[x].kind = "holding"}}
Held(c) == HeldBy(Caller \ {c})

---------------------------------------------------------------------------
(* _issue_check_in_code, for day d at time t over the rows cs.             *)

HandOut(i, t) == shown' = [shown EXCEPT ![i] = Greatest(@, t)]

\* The newest of the day, and of two with one valid_from the unrevoked one.
FixedCurrent(cs, d) ==
    LET top == Newest(cs, OfDay(cs, d))
    IN IF \E i \in top : ~cs[i].revoked
       THEN {i \in top : ~cs[i].revoked} ELSE top

\* Wrong on purpose: stamps the code with the next window's start.
MintAhead(cs, d, t, until) ==
    /\ codes' = Append(cs, [day |-> d, from |-> t + rotation, until |-> until,
                            revoked |-> FALSE])
    /\ shown' = Append(shown, t)

Mint(cs, d, t, until) ==
    /\ codes' = Append(cs, [day |-> d, from |-> t, until |-> until,
                            revoked |-> FALSE])
    /\ shown' = Append(shown, t)

KeepFixed(c, cs, d, t) ==
    \E i \in FixedCurrent(cs, d) :
        /\ Live(cs[i], t)
        /\ cs[i].until < Ceiling(d) => i \notin Held(c)
        /\ codes' = [cs EXCEPT ![i].until = Greatest(@, Ceiling(d))]
        /\ HandOut(i, t)

IssueFixed(c, cs, d, t) ==
    \/ KeepFixed(c, cs, d, t)
    \/ /\ \A i \in FixedCurrent(cs, d) : ~Live(cs[i], t)
       /\ IF t >= Ceiling(d)
          THEN codes' = cs /\ UNCHANGED shown
          ELSE Mint(cs, d, t, Ceiling(d))

KeepRotating(cs, d, t) ==
    \E i \in Newest(cs, Unrevoked(cs, d)) :
        /\ cs[i].from > t - rotation
        /\ codes' = cs /\ HandOut(i, t)

\* Wrong on purpose: the predecessor ends when its successor begins.
ShortenedToNow(cs, d, t, prev) == [cs EXCEPT ![prev].until = Least(@, t)]

\* D1: a whole-day code that has a successor keeps the grace.
Shortened(cs, d, t, prev) ==
    IF cs[prev].until >= Ceiling(d)
    THEN [cs EXCEPT ![prev].until = Least(@, t + Grace)] ELSE cs

\* Wrong on purpose: mints as if the day had no code yet.
SucceedAlways(c, cs, d, t) ==
    Mint(cs, d, t, t + rotation + Grace)

Succeed(c, cs, d, t) ==
    \E prev \in Newest(cs, Unrevoked(cs, d)) :
        /\ cs[prev].from <= t - rotation
        /\ cs[prev].until >= Ceiling(d) => prev \notin Held(c)
        /\ Mint(Shortened(cs, d, t, prev), d, t, t + rotation + Grace)

IssueRotating(c, cs, d, t) ==
    \/ KeepRotating(cs, d, t)
    \/ Succeed(c, cs, d, t)
    \/ Unrevoked(cs, d) = {} /\ Mint(cs, d, t, t + rotation + Grace)

Issue(c, cs, d, t) ==
    IF rotation = 0 THEN IssueFixed(c, cs, d, t) ELSE IssueRotating(c, cs, d, t)

---------------------------------------------------------------------------
(* The calls.                                                              *)

Idle(c) == call[c].kind = "none"
Begin(c, kind, d, i) ==
    call' = [call EXCEPT ![c] = [kind |-> kind, at |-> now, day |-> d, code |-> i]]
End(c) == call' = [call EXCEPT ![c] = NoCall]

session == <<state, completedAt, plan, rotation>>

\* ensure_check_in_code up to the lock: the host page's read.
BeginEnsure(h, d) ==
    /\ Idle(h)
    /\ state \in {"published", "in_progress", "completed"}
    /\ TakesAttendance(d, now)
    /\ Begin(h, "issue", d, 0)
    /\ UNCHANGED <<session, codes, shown, firstJob, now>>

\* The rest of it, and of rotate_check_in_code, once the lock is held.
FinishIssue(c) ==
    /\ call[c].kind = "issue"
    /\ Issue(c, codes, call[c].day, call[c].at)
    /\ End(c)
    /\ UNCHANGED <<session, firstJob, now>>

\* rotate_codes: the one day that takes attendance, if there is one.
RotateCodes ==
    /\ firstJob /\ Idle("rotate_codes")
    /\ firstJob' = FALSE
    /\ LET due == {d \in Day : TakesAttendance(d, now)}
       IN IF state # "in_progress" \/ due = {}
          THEN UNCHANGED call
          ELSE \E d \in due : Begin("rotate_codes", "issue", d, 0)
    /\ UNCHANGED <<session, codes, shown, now>>

\* revoke_check_in_code: its now() and its day, then the newest live code's
\* row, then the session's row and the replacement.
BeginRevoke(h, d) ==
    /\ Idle(h)
    /\ Cardinality({i \in DOMAIN codes : codes[i].revoked}) < MaxRevokes
    /\ Begin(h, "revoke", d, 0)
    /\ UNCHANGED <<session, codes, shown, firstJob, now>>

HoldCode(h) ==
    /\ call[h].kind = "revoke"
    /\ \E i \in Newest(codes, {j \in OfDay(codes, call[h].day) :
                                   Live(codes[j], call[h].at)}) :
           /\ i \notin Held(h)
           /\ call' = [call EXCEPT ![h] = [kind |-> "holding", at |-> @.at,
                                           day |-> @.day, code |-> i]]
    /\ UNCHANGED <<session, codes, shown, firstJob, now>>

FinishRevoke(h) ==
    /\ call[h].kind = "holding"
    /\ Issue(h, [codes EXCEPT ![call[h].code].revoked = TRUE],
             call[h].day, call[h].at)
    /\ End(h)
    /\ UNCHANGED <<session, firstJob, now>>

\* Nothing to revoke, a refusal, a deadlock victim, a lost connection.
Abandon(c) ==
    /\ ~Idle(c)
    /\ End(c)
    /\ UNCHANGED <<session, codes, shown, firstJob, now>>

---------------------------------------------------------------------------
(* The session and the settings around them.                               *)

\* The clock's start, and the job it queues; the process may die between.
ClockStart ==
    /\ state = "published" /\ plan[1].from <= now
    /\ state' = "in_progress"
    /\ firstJob' \in BOOLEAN
    /\ UNCHANGED <<completedAt, plan, rotation, codes, shown, call, now>>

\* clock_complete_sessions: its snapshot, then its writes.  Codes inserted
\* after the snapshot are not among the rows it updates.
BeginComplete ==
    /\ Idle("complete_session")
    /\ state = "in_progress" /\ plan[Len(plan)].to <= now
    /\ Begin("complete_session", "complete", 1, Len(codes))
    /\ UNCHANGED <<session, codes, shown, firstJob, now>>

Closes(i) ==
    LET c == call["complete_session"]
    IN i <= c.code /\ Live(codes[i], c.at)

FinishComplete ==
    LET t == call["complete_session"].at
    IN /\ call["complete_session"].kind = "complete"
       /\ state = "in_progress" /\ plan[Len(plan)].to <= t
       /\ \A i \in DOMAIN codes : Closes(i) => i \notin Held("complete_session")
       /\ state' = "completed" /\ completedAt' = t
       /\ codes' = [i \in DOMAIN codes |->
                       IF Closes(i) THEN [codes[i] EXCEPT !.until = t]
                       ELSE codes[i]]
       /\ End("complete_session")
       /\ UNCHANGED <<plan, rotation, shown, firstJob, now>>

\* transition_session: start, complete, archive or cancel by hand.
MoveByHand ==
    /\ \/ state = "published" /\ state' \in {"in_progress", "over"}
       \/ state = "in_progress" /\ state' \in {"completed", "over"}
       \/ state = "completed" /\ state' = "over"
    /\ UNCHANGED <<completedAt, plan, rotation, codes, shown, firstJob, call, now>>

\* save_org_settings.
SetRotation ==
    /\ rotation' \in Rotations \ {rotation}
    /\ UNCHANGED <<state, completedAt, plan, codes, shown, firstJob, call, now>>

\* schedule_session, of a session that has not been completed.
Reschedule ==
    /\ state \in {"published", "in_progress"}
    /\ plan' \in Plans \ {plan}
    /\ UNCHANGED <<state, completedAt, rotation, codes, shown, firstJob, call, now>>

Tick ==
    /\ now < MaxTime
    /\ \A c \in Caller : Idle(c) \/ now - call[c].at < Lag
    /\ now' = now + 1
    /\ UNCHANGED <<session, codes, shown, firstJob, call>>

Next ==
    \/ \E h \in Host : \/ \E d \in Day : BeginEnsure(h, d) \/ BeginRevoke(h, d)
                       \/ HoldCode(h) \/ FinishRevoke(h)
    \/ \E c \in Caller : FinishIssue(c) \/ Abandon(c)
    \/ RotateCodes
    \/ ClockStart \/ BeginComplete \/ FinishComplete \/ MoveByHand
    \/ SetRotation \/ Reschedule
    \/ Tick

Spec == Init /\ [][Next]_vars

---------------------------------------------------------------------------
(* Properties.                                                             *)

LiveCodes(d) == {i \in OfDay(codes, d) : Live(codes[i], now)}

\* One code of a day is current and at most one other is still accepted,
\* for no longer than the grace after its successor was issued.
OneCurrentOneInGrace ==
    \A d \in Day :
        /\ Cardinality(LiveCodes(d)) <= 2
        /\ \A i, j \in LiveCodes(d) :
               codes[i].from < codes[j].from =>
                   codes[i].until <= codes[j].from + Grace

\* In an organisation that never changes the setting, no code's end is ever
\* rewritten but by the clock's completion: the whole-day rules of issuing
\* never touch a rotating code, nor do stale calls.
IssuedCodesStand ==
    [][(state = state') =>
          \A i \in DOMAIN codes : codes'[i].until = codes[i].until]_vars

\* A code handed to a host and not revoked is accepted for the grace that
\* follows, or to the day's ceiling, unless the completion closed it.
ShownIsHonoured ==
    \A i \in DOMAIN codes :
        (~codes[i].revoked /\ codes[i].until # completedAt) =>
            codes[i].until >= Least(shown[i] + Grace - Lag, Ceiling(codes[i].day))

\* Every code handed to a host is one that still checks members in.
HandedOutIsLive ==
    [][\A i \in DOMAIN shown' :
          (i \notin DOMAIN shown \/ shown'[i] # shown[i]) =>
              codes'[i].until > shown'[i]]_vars

\* With rotation off a day has one code, besides those that were revoked and
\* one that the clock's completion may have closed.
OneFixedCode ==
    \A d \in Day :
        Cardinality({i \in Unrevoked(codes, d) : codes[i].until # completedAt}) <= 1

\* With rotation off the code shown at a day's start is the one shown at
\* its end: nothing but a revoke gives the day a second one.
OneCodeForTheDay == \A d \in Day : Cardinality(Unrevoked(codes, d)) <= 1

===========================================================================
