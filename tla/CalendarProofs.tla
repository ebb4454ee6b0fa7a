-------------------------- MODULE CalendarProofs --------------------------
(***************************************************************************)
(* What the calendar's jobs keep, whatever the constants: a day has one    *)
(* entry, and a seat that is held reaches the calendar on all its days.    *)
(*                                                                         *)
(* CalendarInv says what a row, an entry, a job and a list may be: ids     *)
(* name their own day, jobs have numbers of their own and one of a task    *)
(* has the key.  ReachInv says where each day of a held seat is on its way *)
(* to the calendar; it needs that a seat that was given up is not taken    *)
(* again, and that a save never puts in as many days as it takes out,      *)
(* without which SeatReachesCalendar is false.                             *)
(***************************************************************************)
EXTENDS WorkerProofs

\* The module's own Cardinality is that of FiniteSets.
LEMMA CalendarCountIs == \A S : Calendar!Cardinality(S) = Cardinality(S)
  BY DEF Cardinality, Calendar!Cardinality

\* Google's id of a day's entry, where it has one.
OwnId(d) == {Calendar!NoId, <<d, 0>>}
Entry == [id : Calendar!Day \X {0}, version : Nat, live : BOOLEAN]

CallTypes ==
    /\ seat \in {"none", "confirmed", "cancelled"}
    /\ open \in BOOLEAN /\ connected \in BOOLEAN
    /\ days \subseteq Calendar!Day /\ days # {}
    /\ token \in {"good", "expired", "revoked"}
    /\ calls \in 0..MaxCalls /\ faults \in 0..MaxFaults
    /\ version \in 0..calls

\* A row names its own day's entry or none.
RowsNameTheirDay == rows \in [Calendar!Day -> Calendar!Row]
      /\ \A d \in Calendar!Day : rows[d].id \in OwnId(d)

\* No two entries have one id.
EntriesApart == events \subseteq Entry /\ \A e, f \in events : e.id = f.id => e = f

\* A job is waiting or running, once; of each task one has the key.
JobsApart ==
    /\ queue \subseteq Calendar!Job /\ IsFiniteSet(queue)
    /\ running \subseteq Calendar!Task /\ IsFiniteSet(running) /\ Cardinality(running) <= Slots
    /\ \A j, k \in queue : j.n = k.n => j = k
    /\ \A r, s \in running : r.job.n = s.job.n => r = s
    /\ \A j \in queue, r \in running : j.n # r.job.n

KeysApart == \A j, k \in Calendar!Jobs : j.task = k.task /\ j.keyed /\ k.keyed => j = k

\* A list has items left, one for a day, and they name their own day's entry.
ListIsOwn(todo) ==
    /\ todo # {}
    /\ \A i \in todo : i.id \in OwnId(i.day)
    /\ \A i, k \in todo : i.day = k.day /\ i.orphan = k.orphan => i = k

ListsAreOwn == \A t \in running : ListIsOwn(t.todo)
      /\ t.id \in OwnId(Calendar!First(t.todo).day)

CalendarInv ==
    /\ CallTypes /\ RowsNameTheirDay /\ EntriesApart /\ JobsApart /\ KeysApart /\ ListsAreOwn

---------------------------------------------------------------------------
\* A member who gave the seat up does not take it again, and no save of the
\* schedule puts as many days in as it takes out.
HeldOnce == ~MayRebook
Saved == DaySets \cup {FirstDays}
NoDaySwapped == \A D, E \in Saved : Cardinality(D) = Cardinality(E) => D = E

Held == open /\ seat # "cancelled"

\* Nothing is taken out of the calendar of a seat that may still be held.
NoDeleteYet ==
    Held => /\ \A j \in queue : j.task = "upsert"
            /\ \A t \in running : t.job.task = "upsert"

UpsertsCall == \A t \in running : t.job.task = "upsert" => t.calls

\* A day that was left over when a job began is never a day again.
LeftOverStays ==
    \A t \in running : \A i \in t.todo : i.orphan => i.day \notin days
          /\ rows[i.day] # Calendar!NoRow

\* What Google said is done is in the calendar.
OkStands ==
    Held => \A t \in running :
        t.answer = "ok" /\ ~Calendar!First(t.todo).orphan /\ Calendar!First(t.todo).day \in days
            => Calendar!EntriesOf(Calendar!First(t.todo).day) # {}

UpsertWaits == \E j \in queue : j.task = "upsert"
Covers(d, orphan) ==
    \E t \in running : t.job.task = "upsert" /\ \E i \in t.todo : i.day = d /\ i.orphan = orphan
Shown(d) == Calendar!EntriesOf(d) # {} \/ rows[d].state = "failed"
LeftOver(d) == d \notin days /\ rows[d].id # Calendar!NoId /\ rows[d].state # "removed"

\* Until an upsert is queued again, each day is in the calendar, shown as
\* failed, or an item of a job that runs; and so is what is left over.
DaysAreReached ==
    Calendar!Wanted => \/ UpsertWaits
              \/ /\ \A d \in days : Shown(d) \/ Covers(d, FALSE)
                 /\ \A d \in Calendar!Day : LeftOver(d) => Covers(d, TRUE)

ReachInv ==
    /\ days \in Saved
    /\ NoDeleteYet /\ UpsertsCall /\ LeftOverStays /\ OkStands /\ DaysAreReached

---------------------------------------------------------------------------

\* A list that has items has a first one.
LEMMA FirstIs ==
    ASSUME Calendar!CalendarAssumption, NEW todo \in SUBSET Calendar!Item, ListIsOwn(todo)
    PROVE  Calendar!First(todo) \in todo
<1> DEFINE DaysOf(orphan) == {i.day : i \in {k \in todo : k.orphan = orphan}}
           Leads(i) == \A k \in todo \ {i} : Calendar!Before(i, k)
<1>1. \A i \in todo : i.day \in Nat /\ i.orphan \in BOOLEAN
  BY DEF Calendar!Item, Calendar!CalendarAssumption
<1>2. ASSUME NEW orphan \in BOOLEAN, \E i \in todo : i.orphan = orphan
      PROVE  \E i \in todo : i.orphan = orphan
                 /\ \A k \in todo : k.orphan = orphan => i.day <= k.day
  <2>1. DaysOf(orphan) \in SUBSET Nat /\ DaysOf(orphan) # {}
    BY <1>1, <1>2
  <2> HIDE DEF DaysOf
  <2>2. PICK d \in DaysOf(orphan) : \A e \in DaysOf(orphan) : d <= e
    BY <2>1, NatLeast
  <2> QED
    BY <2>2 DEF DaysOf
<1>3. \E i \in todo : Leads(i)
  <2>1. ASSUME NEW i \in todo, NEW k \in todo \ {i}, i.orphan = k.orphan, i.day <= k.day
        PROVE  i.day < k.day
    BY <1>1, <2>1 DEF ListIsOwn
  <2>2. CASE \E i \in todo : i.orphan = FALSE
    <3>1. PICK i \in todo : i.orphan = FALSE
                 /\ \A k \in todo : k.orphan = FALSE => i.day <= k.day
      BY <1>2, <2>2
    <3> QED
      BY <1>1, <2>1, <3>1 DEF Calendar!Before
  <2>3. CASE \A i \in todo : i.orphan = TRUE
    <3>1. PICK i \in todo : i.orphan = TRUE
                 /\ \A k \in todo : k.orphan = TRUE => i.day <= k.day
      BY <1>2, <2>3 DEF ListIsOwn
    <3> QED
      BY <1>1, <2>1, <2>3, <3>1 DEF Calendar!Before
  <2> QED
    BY <1>1, <2>2, <2>3
<1> QED
  BY <1>3 DEF Calendar!First

\* An image is no larger than what it is the image of.
LEMMA ImageIs ==
    ASSUME NEW S, IsFiniteSet(S), NEW T, NEW f \in [S -> T]
    PROVE  LET I == {f[x] : x \in S}
           IN  /\ IsFiniteSet(I) /\ Cardinality(I) <= Cardinality(S)
               /\ Cardinality(I) \in Nat
<1> DEFINE I == {f[x] : x \in S}
<1>1. f \in Surjection(S, I)
  BY DEF Surjection
<1> HIDE DEF I
<1> QED
  BY <1>1, FS_Surjection, FS_CardinalityType DEF I

LEMMA JobsAreFinite ==
    ASSUME JobsApart
    PROVE  IsFiniteSet(Calendar!Jobs) /\ Calendar!Jobs \subseteq Calendar!Job
<1> DEFINE f == [r \in running |-> r.job]
<1>1. f \in [running -> Calendar!Job]
  BY DEF JobsApart, Calendar!Task
<1>2. {f[r] : r \in running} = {r.job : r \in running}
  OBVIOUS
<1>3. {r.job : r \in running} \subseteq Calendar!Job
  BY DEF JobsApart, Calendar!Task
<1>4. IsFiniteSet(queue) /\ IsFiniteSet(running) /\ queue \subseteq Calendar!Job
  BY DEF JobsApart
<1> HIDE DEF f
<1>5. IsFiniteSet({f[r] : r \in running})
  BY <1>1, <1>4, ImageIs
<1>6. IsFiniteSet(queue \cup {r.job : r \in running})
  BY <1>2, <1>4, <1>5, FS_Union
<1> QED
  BY <1>3, <1>4, <1>6 DEF Calendar!Jobs

\* The number of a new job is nobody's.
LEMMA NumberIsFree ==
    ASSUME JobsApart
    PROVE  Calendar!Number \in Nat /\ \A j \in Calendar!Jobs : j.n # Calendar!Number
<1> DEFINE N == Cardinality(Calendar!Jobs)
           f == [j \in Calendar!Jobs |-> j.n]
           I == {f[j] : j \in Calendar!Jobs}
<1>1. N \in Nat /\ f \in [Calendar!Jobs -> Nat]
  BY JobsAreFinite, FS_CardinalityType DEF Calendar!Job
<1>2. IsFiniteSet(I) /\ Cardinality(I) <= N /\ Cardinality(I) \in Nat
  BY <1>1, JobsAreFinite, ImageIs
<1>3. IsFiniteSet(1..N + 1) /\ Cardinality(1..N + 1) = N + 1
  BY <1>1, FS_Interval
<1>4. \E n \in 1..N + 1 : n \notin I
  <2> SUFFICES ASSUME 1..N + 1 \in SUBSET I PROVE FALSE
    OBVIOUS
  <2> HIDE DEF I, N
  <2>1. Cardinality(1..N + 1) <= Cardinality(I)
    BY <1>2, FS_Subset
  <2> QED
    BY <1>1, <1>2, <1>3, <2>1
<1>5. \E n \in 1..N + 1 : \A j \in Calendar!Jobs : j.n # n
  BY <1>4
<1>6. Calendar!Number \in 1..N + 1 /\ \A j \in Calendar!Jobs : j.n # Calendar!Number
  BY <1>5, CalendarCountIs DEF Calendar!Number
<1> QED
  BY <1>1, <1>6

\* A job that loses its key, and may have its attempts set, is the job it was.
WithoutKey(r, s) ==
    /\ s \in Calendar!Task /\ s.todo = r.todo /\ s.id = r.id
    /\ s.calls = r.calls /\ s.answer = r.answer
    /\ s.job.n = r.job.n /\ s.job.task = r.job.task /\ s.job.keyed = FALSE

\* The two ways a key is lost.
LEMMA KeyLost ==
    ASSUME NEW r \in Calendar!Task, NEW a \in 0..Attempts
    PROVE  WithoutKey(r, [r EXCEPT !.job.keyed = FALSE, !.job.attempts = a])
<1> DEFINE q == [[r.job EXCEPT !.keyed = FALSE] EXCEPT !.attempts = a]
<1>1. r.job \in Calendar!Job /\ r = [r EXCEPT !.job = r.job]
  BY DEF Calendar!Task
<1>2. q \in Calendar!Job /\ q.n = r.job.n /\ q.task = r.job.task /\ q.keyed = FALSE
  BY <1>1 DEF Calendar!Job
<1>3. [r EXCEPT !.job.keyed = FALSE, !.job.attempts = a] = [r EXCEPT !.job = q]
  BY DEF Calendar!Task, Calendar!Job
<1> HIDE DEF q
<1>4. WithoutKey(r, [r EXCEPT !.job = q])
  BY <1>2 DEF WithoutKey, Calendar!Task
<1> QED
  BY <1>3, <1>4

LEMMA KeyTaken ==
    ASSUME NEW r \in Calendar!Task
    PROVE  WithoutKey(r, [r EXCEPT !.job.keyed = FALSE])
<1> DEFINE q == [r.job EXCEPT !.keyed = FALSE]
<1>1. r.job \in Calendar!Job
  BY DEF Calendar!Task
<1>2. q \in Calendar!Job /\ q.n = r.job.n /\ q.task = r.job.task /\ q.keyed = FALSE
  BY <1>1 DEF Calendar!Job
<1>3. [r EXCEPT !.job.keyed = FALSE] = [r EXCEPT !.job = q]
  BY DEF Calendar!Task, Calendar!Job
<1> HIDE DEF q
<1>4. WithoutKey(r, [r EXCEPT !.job = q])
  BY <1>2 DEF WithoutKey, Calendar!Task
<1> QED
  BY <1>3, <1>4

\* A job of the task is queued in the place of those that waited, and the jobs
\* that run go on, without the key.
NewJob(task) == [n |-> Calendar!Number, task |-> task, keyed |-> TRUE, attempts |-> 0]
Runs(f, task) ==
    /\ f \in [running -> Calendar!Task] /\ running' = {f[r] : r \in running}
    /\ \A r \in running :
        /\ f[r].todo = r.todo /\ f[r].id = r.id
        /\ f[r].calls = r.calls /\ f[r].answer = r.answer
        /\ f[r].job.n = r.job.n /\ f[r].job.task = r.job.task
        /\ f[r].job.keyed => (r.job.keyed /\ r.job.task # task)
Requeued(task) ==
    /\ \E replaced : Calendar!Waiting(task) \subseteq replaced
                     /\ queue' = (queue \ replaced) \cup {NewJob(task)}
    /\ \E f : Runs(f, task)

Tasks == {"upsert", "delete"}

\* Both ways to queue a job are of this form.
LEMMA EnqueueIs ==
    ASSUME CalendarInv, NEW task \in Tasks, Calendar!enqueue_job(task)
    PROVE  Requeued(task)
<1> DEFINE lost(r) == r.job.task = task /\ r.job.keyed
           f == [r \in running |->
                   IF lost(r)
                   THEN [r EXCEPT !.job.keyed = FALSE, !.job.attempts = r.job.attempts]
                   ELSE r]
<1>0. running \subseteq Calendar!Task
  BY DEF CalendarInv, JobsApart
<1>1. ASSUME NEW r \in running
      PROVE  IF lost(r) THEN WithoutKey(r, f[r]) ELSE f[r] = r
  <2>1. r.job.attempts \in 0..Attempts
    BY <1>0 DEF Calendar!Task, Calendar!Job
  <2> QED
    BY <1>0, <2>1, KeyLost
<1>2. running' = {f[r] : r \in running}
  <2>1. running' = Calendar!Unkeyed(task, 0)
    BY DEF Calendar!enqueue_job
  <2> QED
    BY <2>1 DEF Calendar!Unkeyed
<1>3. f \in [running -> Calendar!Task]
  BY <1>0, <1>1 DEF WithoutKey
<1> HIDE DEF f
<1>4. Runs(f, task)
  BY <1>0, <1>1, <1>2, <1>3 DEF Runs, WithoutKey
<1> QED
  BY <1>4 DEF Requeued, Calendar!enqueue_job, NewJob

LEMMA CancelIs ==
    ASSUME Calendar!CalendarAssumption, CalendarInv, Calendar!CancelThenDelete
    PROVE  Requeued("delete")
<1> DEFINE lost(r) == r.job.task = "upsert" /\ r.job.keyed
           g(r) == IF lost(r)
                   THEN [r EXCEPT !.job.keyed = FALSE, !.job.attempts = Attempts]
                   ELSE r
           h(r) == IF r.job.task = "delete" THEN [r EXCEPT !.job.keyed = FALSE] ELSE r
           f == [r \in running |-> h(g(r))]
<1>0. running \subseteq Calendar!Task /\ Attempts \in 0..Attempts /\ Attempts # 0
  BY DEF CalendarInv, JobsApart, Calendar!CalendarAssumption
<1>1. ASSUME NEW r \in running PROVE IF lost(r) THEN WithoutKey(r, g(r)) ELSE g(r) = r
  BY <1>0, KeyLost
<1>2. ASSUME NEW r \in Calendar!Task
      PROVE  IF r.job.task = "delete" THEN WithoutKey(r, h(r)) ELSE h(r) = r
  BY KeyTaken
<1>3. running' = {f[r] : r \in running}
  <2>1. Calendar!Unkeyed("upsert", Attempts) = {g(r) : r \in running}
    BY <1>0 DEF Calendar!Unkeyed
  <2>2. running' = {h(r) : r \in Calendar!Unkeyed("upsert", Attempts)}
    BY DEF Calendar!CancelThenDelete
  <2> HIDE DEF g, h
  <2> QED
    BY <2>1, <2>2
<1> HIDE DEF g, h
<1>4. ASSUME NEW r \in running
      PROVE  IF lost(r) \/ r.job.task = "delete" THEN WithoutKey(r, f[r]) ELSE f[r] = r
  BY <1>0, <1>1, <1>2 DEF WithoutKey
<1>5. f \in [running -> Calendar!Task]
  BY <1>0, <1>4 DEF WithoutKey
<1> HIDE DEF f
<1>6. Runs(f, "delete")
  BY <1>0, <1>3, <1>4, <1>5 DEF Runs, WithoutKey
<1> QED
  BY <1>6 DEF Requeued, Calendar!CancelThenDelete, NewJob

\* What queueing a job keeps.
LEMMA RequeuedKeeps ==
    ASSUME CalendarInv, NEW task \in Tasks, Requeued(task)
    PROVE  JobsApart' /\ KeysApart' /\ ListsAreOwn'
<1> DEFINE new == NewJob(task)
<1>1. PICK replaced : Calendar!Waiting(task) \subseteq replaced
                      /\ queue' = (queue \ replaced) \cup {new}
  BY DEF Requeued
<1>2. PICK f : Runs(f, task)
  BY DEF Requeued
<1>3. JobsApart /\ KeysApart /\ ListsAreOwn /\ CallTypes
  BY DEF CalendarInv
<1>4. new \in Calendar!Job /\ new.task = task /\ new.keyed = TRUE
      /\ \A j \in Calendar!Jobs : j.n # new.n
  <2>1. Calendar!Number \in Nat /\ \A j \in Calendar!Jobs : j.n # Calendar!Number
    BY <1>3, NumberIsFree
  <2>2. 0 \in 0..Attempts
    BY WorkerAssumption DEF Calendar!CalendarAssumption
  <2> QED
    BY <2>1, <2>2 DEF NewJob, Calendar!Job, Tasks
<1> HIDE DEF new
<1>5. IsFiniteSet(queue') /\ queue' \subseteq Calendar!Job
  <2>1. IsFiniteSet(queue) /\ queue \subseteq Calendar!Job
    BY <1>3 DEF JobsApart
  <2>2. IsFiniteSet(queue \ replaced)
    BY <2>1, FS_Subset
  <2> QED
    BY <1>1, <1>4, <2>1, <2>2, FS_AddElement
<1>6. IsFiniteSet(running') /\ Cardinality(running') <= Slots
      /\ running' \subseteq Calendar!Task
  <2>1. IsFiniteSet(running) /\ Cardinality(running) <= Slots /\ Cardinality(running) \in Nat
    BY <1>3, FS_CardinalityType DEF JobsApart
  <2>2. f \in [running -> Calendar!Task] /\ running' = {f[r] : r \in running}
    BY <1>2 DEF Runs
  <2>3. IsFiniteSet(running') /\ Cardinality(running') <= Cardinality(running)
        /\ Cardinality(running') \in Nat
    BY <2>1, <2>2, ImageIs
  <2>4. Slots \in Nat
    BY WorkerAssumption DEF Calendar!CalendarAssumption
  <2> QED
    BY <2>1, <2>2, <2>3, <2>4
<1>7. \A r \in running' : \E s \in running :
        /\ r = f[s] /\ r.todo = s.todo /\ r.id = s.id
        /\ r.job.n = s.job.n /\ r.job.task = s.job.task
        /\ r.job.keyed => s.job.keyed /\ s.job.task # task
  BY <1>2 DEF Runs
<1>8. \A j \in queue' : j = new \/ (j \in queue /\ j \notin Calendar!Waiting(task))
  BY <1>1
<1>9. \A r \in running : r.job \in Calendar!Jobs /\ r.job.n # new.n
  BY <1>4 DEF Calendar!Jobs
<1>10. \A j \in queue : j \in Calendar!Jobs /\ j.n # new.n
  BY <1>4 DEF Calendar!Jobs
<1>11. JobsApart'
  <2>1. \A j, k \in queue' : j.n = k.n => j = k
    BY <1>3, <1>8, <1>10 DEF JobsApart
  <2>2. \A r, s \in running' : r.job.n = s.job.n => r = s
    BY <1>3, <1>7 DEF JobsApart
  <2>3. \A j \in queue', r \in running' : j.n # r.job.n
    BY <1>3, <1>7, <1>8, <1>9 DEF JobsApart
  <2> QED
    BY <1>5, <1>6, <2>1, <2>2, <2>3 DEF JobsApart
<1>12. KeysApart'
  <2> SUFFICES ASSUME NEW j \in Calendar!Jobs', NEW k \in Calendar!Jobs',
                      j.task = k.task, j.keyed, k.keyed
               PROVE  j = k
    BY DEF KeysApart
  <2>1. ASSUME NEW i \in Calendar!Jobs', i.keyed, i # new
        PROVE  i.task # task /\ \E s \in Calendar!Jobs : s.task = i.task /\ s.keyed /\ s.n = i.n
    <3>1. CASE i \in queue'
      BY <1>8, <1>10, <2>1, <3>1 DEF Calendar!Waiting
    <3>2. CASE i \in {r.job : r \in running'}
      BY <1>7, <1>9, <2>1, <3>2
    <3> QED
      BY <2>1, <3>1, <3>2 DEF Calendar!Jobs
  <2>2. CASE j = new \/ k = new
    BY <1>4, <2>1, <2>2
  <2>3. CASE j # new /\ k # new
    <3>1. j.n = k.n
      BY <1>3, <2>1, <2>3 DEF KeysApart
    <3> QED
      BY <1>11, <3>1 DEF JobsApart, Calendar!Jobs
  <2> QED
    BY <2>2, <2>3
<1>13. ListsAreOwn'
  BY <1>3, <1>7 DEF ListsAreOwn
<1> QED
  BY <1>11, <1>12, <1>13

LEMMA CalendarStart == ASSUME Calendar!CalendarAssumption, Calendar!Init PROVE CalendarInv
<1>1. IsFiniteSet({}) /\ Cardinality({}) = 0
  BY FS_EmptySet
<1>2. CallTypes /\ EntriesApart
  BY DEF Calendar!Init, Calendar!CalendarAssumption, CallTypes, EntriesApart, Calendar!Day
<1>3. RowsNameTheirDay
  BY DEF Calendar!Init, RowsNameTheirDay, Calendar!NoRow, Calendar!Row, Calendar!EventId, OwnId
<1>4. JobsApart /\ KeysApart /\ ListsAreOwn
  BY <1>1 DEF Calendar!Init, JobsApart, KeysApart, ListsAreOwn, Calendar!Jobs,
       Calendar!CalendarAssumption
<1> QED
  BY <1>2, <1>3, <1>4 DEF CalendarInv

\* A call may queue a job, and counts.
Queues == UNCHANGED <<queue, running>> \/ \E task \in Tasks : Requeued(task)

\* What a call keeps of the jobs, whether it queues one or not.
LEMMA QueuesKeeps ==
    ASSUME CalendarInv, Queues
    PROVE  JobsApart' /\ KeysApart' /\ ListsAreOwn'
<1>1. CASE UNCHANGED <<queue, running>>
  BY <1>1 DEF CalendarInv, JobsApart, KeysApart, ListsAreOwn, Calendar!Jobs
<1>2. CASE \E task \in Tasks : Requeued(task)
  BY <1>2, RequeuedKeeps
<1> QED
  BY <1>1, <1>2 DEF Queues

LEMMA CountCall ==
    ASSUME Calendar!CalendarAssumption, CallTypes, Calendar!Call
    PROVE  calls' \in 0..MaxCalls /\ version \in 0..calls' /\ version + 1 \in 0..calls'
  BY DEF CallTypes, Calendar!Call, Calendar!CalendarAssumption

LEMMA CountFault ==
    ASSUME Calendar!CalendarAssumption, CallTypes, Calendar!Fault PROVE faults' \in 0..MaxFaults
  BY DEF CallTypes, Calendar!Fault, Calendar!CalendarAssumption

\* The calls of members and administrators, and the tokens.
LEMMA SeatCallKeeps ==
    ASSUME Calendar!CalendarAssumption, CalendarInv, Calendar!ConfirmSeat
          \/ Calendar!CancelSeat \/ Calendar!CancelSession
    PROVE  CalendarInv' /\ Queues
<1>1. Queues
  BY EnqueueIs, CancelIs DEF Queues, Tasks, Calendar!ConfirmSeat, Calendar!CancelSeat,
       Calendar!CancelSession
<1>2. CallTypes'
  BY CountCall DEF CalendarInv, CallTypes, Calendar!ConfirmSeat, Calendar!CancelSeat,
       Calendar!CancelSession, Calendar!google
<1>3. rows' = rows /\ events' = events
  BY DEF Calendar!ConfirmSeat, Calendar!CancelSeat, Calendar!CancelSession, Calendar!google
<1> QED
  BY <1>1, <1>2, <1>3, QueuesKeeps DEF CalendarInv, RowsNameTheirDay, EntriesApart

LEMMA ScheduleKeeps ==
    ASSUME Calendar!CalendarAssumption, CalendarInv,
           NEW new \in DaySets, NEW moved \in BOOLEAN, Calendar!ScheduleSession(new, moved)
    PROVE  CalendarInv' /\ Queues
<1>1. Queues
  BY EnqueueIs DEF Queues, Tasks, Calendar!ScheduleSession
<1>2. new \subseteq Calendar!Day /\ new # {}
  BY DEF Calendar!Day, Calendar!CalendarAssumption
<1>3. CallTypes'
  BY <1>2, CountCall DEF CalendarInv, CallTypes, Calendar!ScheduleSession, Calendar!google
<1>4. rows' = rows /\ events' = events
  BY DEF Calendar!ScheduleSession, Calendar!google
<1> QED
  BY <1>1, <1>3, <1>4, QueuesKeeps DEF CalendarInv, RowsNameTheirDay, EntriesApart

LEMMA ConnectKeeps ==
    ASSUME Calendar!CalendarAssumption, CalendarInv,
           Calendar!ConnectCalendar \/ Calendar!RevokeGrant \/ Calendar!TokenExpires
                 \/ Calendar!RefreshTokens
    PROVE  CalendarInv' /\ Queues
<1>1. Queues
  BY EnqueueIs DEF Queues, Tasks, Calendar!ConnectCalendar, Calendar!RevokeGrant,
       Calendar!TokenExpires, Calendar!RefreshTokens
<1>2. CallTypes'
  <2>1. CASE Calendar!ConnectCalendar \/ Calendar!RevokeGrant
    BY <2>1, CountCall DEF CalendarInv, CallTypes, Calendar!ConnectCalendar,
         Calendar!RevokeGrant, Calendar!database
  <2>2. CASE Calendar!TokenExpires \/ Calendar!RefreshTokens
    BY <2>2, CountFault DEF CalendarInv, CallTypes, Calendar!TokenExpires,
         Calendar!RefreshTokens, Calendar!database
  <2> QED
    BY <2>1, <2>2
<1>3. rows' = rows /\ events' = events
  BY DEF Calendar!ConnectCalendar, Calendar!RevokeGrant, Calendar!TokenExpires,
       Calendar!RefreshTokens, Calendar!database
<1> QED
  BY <1>1, <1>2, <1>3, QueuesKeeps DEF CalendarInv, RowsNameTheirDay, EntriesApart

LEMMA RowCallKeeps ==
    ASSUME Calendar!CalendarAssumption, CalendarInv, Calendar!disconnectCalendar
          \/ Calendar!retryCalendarSync
    PROVE  CalendarInv' /\ Queues
<1>1. Queues
  BY EnqueueIs DEF Queues, Tasks, Calendar!disconnectCalendar, Calendar!retryCalendarSync
<1>2. CallTypes'
  BY CountCall DEF CalendarInv, CallTypes, Calendar!disconnectCalendar,
       Calendar!retryCalendarSync, Calendar!google
<1>3. RowsNameTheirDay'
  <2>1. rows \in [Calendar!Day -> Calendar!Row] /\ Calendar!NoRow \in Calendar!Row
        /\ \A d \in Calendar!Day : rows[d].id \in OwnId(d)
    BY DEF CalendarInv, RowsNameTheirDay, Calendar!NoRow, Calendar!Row, Calendar!EventId
  <2>2. \A d \in Calendar!Day : rows'[d] \in Calendar!Row /\ rows'[d].id = rows[d].id
    BY <2>1 DEF Calendar!disconnectCalendar, Calendar!retryCalendarSync, Calendar!Row
  <2>3. rows' \in [Calendar!Day -> Calendar!Row]
    BY <2>2 DEF Calendar!disconnectCalendar, Calendar!retryCalendarSync
  <2> QED
    BY <2>1, <2>2, <2>3 DEF RowsNameTheirDay
<1>4. events' = events
  BY DEF Calendar!disconnectCalendar, Calendar!retryCalendarSync, Calendar!google
<1> QED
  BY <1>1, <1>2, <1>3, <1>4, QueuesKeeps DEF CalendarInv, EntriesApart

\* A task begun on a list is one, and its list names its own days.
LEMMA ListsStart ==
    ASSUME Calendar!CalendarAssumption, CalendarInv, NEW task \in Tasks
    PROVE  /\ Calendar!List(task) \in SUBSET Calendar!Item
           /\ Calendar!List(task) # {} => ListIsOwn(Calendar!List(task))
<1>1. rows \in [Calendar!Day -> Calendar!Row] /\ days \subseteq Calendar!Day
      /\ \A d \in Calendar!Day : rows[d].id \in OwnId(d)
  BY DEF CalendarInv, RowsNameTheirDay, CallTypes
<1>2. \A i \in Calendar!DayItems \cup Calendar!Orphans :
          i \in Calendar!Item /\ i.id \in OwnId(i.day) /\ i.id = rows[i.day].id
  <2>1. \A d \in Calendar!Day : rows[d].id \in Calendar!EventId
    BY <1>1 DEF Calendar!Row
  <2>2. ASSUME NEW i \in Calendar!DayItems \cup Calendar!Orphans
        PROVE  \E d \in Calendar!Day, orphan \in BOOLEAN :
                   i = [day |-> d, id |-> rows[d].id, orphan |-> orphan]
    BY <1>1 DEF Calendar!DayItems, Calendar!Orphans
  <2>3. ASSUME NEW d \in Calendar!Day, NEW orphan \in BOOLEAN
        PROVE  [day |-> d, id |-> rows[d].id, orphan |-> orphan] \in Calendar!Item
    BY <2>1 DEF Calendar!Item
  <2> QED
    BY <1>1, <2>2, <2>3
<1>3. \A i, k \in Calendar!DayItems \cup Calendar!Orphans : i.day = k.day
      /\ i.orphan = k.orphan => i = k
  BY DEF Calendar!DayItems, Calendar!Orphans
<1>4. Calendar!List(task) \subseteq Calendar!DayItems \cup Calendar!Orphans
  BY DEF Calendar!List, Calendar!UpsertList, Calendar!DeleteList
<1> QED
  BY <1>2, <1>3, <1>4 DEF ListIsOwn

\* Two tasks of one job, or a task and a waiting job, are one.
LEMMA ReplacedKeeps ==
    ASSUME Calendar!CalendarAssumption, CalendarInv, NEW t \in running, NEW s \in Calendar!Task,
           s.job = t.job, ListIsOwn(s.todo), s.id \in OwnId(Calendar!First(s.todo).day),
           running' = (running \ {t}) \cup {s}, queue' = queue
    PROVE  JobsApart' /\ KeysApart' /\ ListsAreOwn'
<1>1. IsFiniteSet(running) /\ Cardinality(running) <= Slots /\ Slots \in Nat
  BY DEF CalendarInv, JobsApart, Calendar!CalendarAssumption
<1>2. IsFiniteSet(running') /\ Cardinality(running') <= Slots
  <2>1. IsFiniteSet(running \ {t}) /\ Cardinality(running \ {t}) = Cardinality(running) - 1
    BY <1>1, FS_RemoveElement
  <2>2. Cardinality(running) \in Nat
    BY <1>1, FS_CardinalityType
  <2>3. IsFiniteSet(running') /\ Cardinality(running') <= Cardinality(running \ {t}) + 1
    <3> DEFINE others == running \ {t}
    <3>1. IsFiniteSet(others) /\ Cardinality(others) \in Int
      BY <2>1, <2>2
    <3> HIDE DEF others
    <3>2. IsFiniteSet(others \cup {s})
      BY <3>1, FS_AddElement
    <3>3. Cardinality(others \cup {s})
            = IF s \in others THEN Cardinality(others) ELSE Cardinality(others) + 1
      BY <3>1, FS_AddElement
    <3> QED
      BY <3>1, <3>2, <3>3 DEF others
  <2> QED
    BY <1>1, <2>1, <2>2, <2>3, FS_CardinalityType
<1>3. JobsApart'
  BY <1>2 DEF CalendarInv, JobsApart
<1>4. Calendar!Jobs' = Calendar!Jobs
  BY DEF Calendar!Jobs
<1> QED
  BY <1>3, <1>4 DEF CalendarInv, KeysApart, ListsAreOwn

\* A job that ends is gone, or waits again.
LEMMA EndedKeeps ==
    ASSUME Calendar!CalendarAssumption, CalendarInv, NEW t \in running,
           running' = running \ {t}, queue' = queue \/ queue' = queue \cup {t.job}
    PROVE  JobsApart' /\ KeysApart' /\ ListsAreOwn'
<1>1. IsFiniteSet(running) /\ Cardinality(running) <= Slots /\ Slots \in Nat
      /\ Cardinality(running) \in Nat
  BY FS_CardinalityType DEF CalendarInv, JobsApart, Calendar!CalendarAssumption
<1>2. IsFiniteSet(running') /\ Cardinality(running') <= Slots
  BY <1>1, FS_RemoveElement
<1>3. IsFiniteSet(queue') /\ queue' \subseteq Calendar!Job
  BY FS_AddElement DEF CalendarInv, JobsApart, Calendar!Task
<1>4. JobsApart'
  BY <1>2, <1>3 DEF CalendarInv, JobsApart
<1>5. Calendar!Jobs' \subseteq Calendar!Jobs
  BY DEF Calendar!Jobs
<1> QED
  BY <1>4, <1>5 DEF CalendarInv, KeysApart, ListsAreOwn

LEMMA SyncBeginKeeps ==
    ASSUME Calendar!CalendarAssumption, CalendarInv, NEW j \in queue, Calendar!Begin(j)
    PROVE  CalendarInv'
<1> DEFINE task == [job |-> [j EXCEPT !.attempts = @ + 1],
                    todo |-> Calendar!List(j.task), body |-> version, calls |-> connected,
                    answer |-> IF connected THEN "none" ELSE "ok", id |-> Calendar!NoId]
<1>1. j \in Calendar!Job /\ j.attempts + 1 \in 0..Attempts /\ j.task \in Tasks
  BY DEF CalendarInv, JobsApart, Calendar!Job, Calendar!Begin, Calendar!CalendarAssumption,
       Tasks
<1>2. UNCHANGED <<rows, events, seat, open, connected, days, token, calls, faults, version>>
  BY DEF Calendar!Begin, Calendar!database, Calendar!google
<1>3. CallTypes' /\ RowsNameTheirDay' /\ EntriesApart'
  BY <1>2 DEF CalendarInv, CallTypes, RowsNameTheirDay, EntriesApart
<1>4. IsFiniteSet(queue') /\ queue' \subseteq queue
  BY FS_RemoveElement DEF Calendar!Begin, CalendarInv, JobsApart
<1>5. IsFiniteSet(running) /\ Cardinality(running) < Slots /\ Cardinality(running) \in Nat
      /\ Slots \in Nat
  BY FS_CardinalityType, CalendarCountIs DEF CalendarInv, JobsApart, Calendar!Begin,
       Calendar!CalendarAssumption
<1>6. CASE Calendar!List(j.task) = {}
  <2>1. running' = running /\ queue' = queue \ {j}
    BY <1>6 DEF Calendar!Begin
  <2>2. JobsApart'
    BY <1>4, <2>1 DEF CalendarInv, JobsApart
  <2> QED
    BY <1>3, <2>1, <2>2 DEF CalendarInv, KeysApart, Calendar!Jobs, ListsAreOwn
<1>7. CASE Calendar!List(j.task) # {}
  <2>1. running' = running \cup {task} /\ queue' = queue \ {j}
    BY <1>7 DEF Calendar!Begin
  <2>2. task.job \in Calendar!Job /\ task.job.n = j.n /\ task.job.task = j.task
        /\ task.job.keyed = j.keyed
    BY <1>1 DEF Calendar!Job
  <2>3. task \in Calendar!Task
    <3>1. version \in Nat /\ connected \in BOOLEAN
      BY DEF CalendarInv, CallTypes, Calendar!CalendarAssumption
    <3> QED
      BY <1>1, <2>2, <3>1, ListsStart DEF Calendar!Task, Calendar!EventId
  <2>4. ListIsOwn(task.todo) /\ task.id = Calendar!NoId
    BY <1>1, <1>7, ListsStart
  <2> HIDE DEF task
  <2>5. IsFiniteSet(running') /\ Cardinality(running') <= Slots
    BY <1>5, <2>1, FS_AddElement
  <2>6. JobsApart'
    BY <1>4, <2>1, <2>2, <2>3, <2>5 DEF CalendarInv, JobsApart
  <2>7. ListsAreOwn'
    BY <2>1, <2>4 DEF CalendarInv, ListsAreOwn, OwnId
  <2>8. KeysApart'
    <3>1. \A k \in Calendar!Jobs' : k = task.job \/ (k \in Calendar!Jobs /\ k.n # j.n)
      BY <2>1 DEF Calendar!Jobs, CalendarInv, JobsApart
    <3>2. j \in Calendar!Jobs
      BY DEF Calendar!Jobs
    <3> QED
      BY <2>2, <3>1, <3>2 DEF CalendarInv, KeysApart
  <2> QED
    BY <1>3, <2>6, <2>7, <2>8 DEF CalendarInv
<1> QED
  BY <1>6, <1>7

\* What a running task has in hand.
LEMMA ListIs ==
    ASSUME Calendar!CalendarAssumption, CalendarInv, NEW t \in running
    PROVE  /\ t \in Calendar!Task /\ t.job \in Calendar!Job /\ ListIsOwn(t.todo)
           /\ t.todo \in SUBSET Calendar!Item
           /\ Calendar!First(t.todo) \in t.todo /\ Calendar!First(t.todo) \in Calendar!Item
           /\ Calendar!First(t.todo).id \in OwnId(Calendar!First(t.todo).day)
           /\ t.id \in OwnId(Calendar!First(t.todo).day)
<1>1. t \in Calendar!Task /\ ListIsOwn(t.todo) /\ t.id \in OwnId(Calendar!First(t.todo).day)
  BY DEF CalendarInv, JobsApart, ListsAreOwn
<1>2. t.todo \in SUBSET Calendar!Item /\ t.job \in Calendar!Job
  BY <1>1 DEF Calendar!Task
<1>3. Calendar!First(t.todo) \in t.todo
  BY <1>1, <1>2, FirstIs
<1> QED
  BY <1>1, <1>2, <1>3 DEF ListIsOwn

\* What a call to Google does to the calendar.
LEMMA TargetIs ==
    ASSUME Calendar!CalendarAssumption, CalendarInv, NEW t \in running
    PROVE  Calendar!Target(Calendar!First(t.todo)) = <<Calendar!First(t.todo).day, 0>>
  BY ListIs DEF Calendar!Target, Calendar!clientEventId, OwnId

LEMMA WrittenKeeps ==
    ASSUME Calendar!CalendarAssumption, CalendarInv, NEW t \in running,
           events' = Calendar!Written(t, <<Calendar!First(t.todo).day, 0>>)
    PROVE  EntriesApart'
<1>1. Calendar!First(t.todo).day \in Calendar!Day /\ t.body \in Nat
  BY ListIs DEF Calendar!Item, Calendar!Task
<1>2. [id |-> <<Calendar!First(t.todo).day, 0>>, version |-> t.body, live |-> TRUE] \in Entry
  BY <1>1 DEF Entry
<1>3. EntriesApart
  BY DEF CalendarInv
<1> DEFINE new == [id |-> <<Calendar!First(t.todo).day, 0>>, version |-> t.body, live |-> TRUE]
<1>4. events' = {e \in events : e.id # new.id} \cup {new}
  BY DEF Calendar!Written
<1> HIDE DEF new
<1> QED
  BY <1>2, <1>3, <1>4 DEF EntriesApart, new

LEMMA DeletedKeeps == ASSUME CalendarInv, NEW id, events' = Calendar!Deleted(id)
PROVE EntriesApart'
<1>1. \A e \in events : [e EXCEPT !.live = FALSE] \in Entry
          /\ [e EXCEPT !.live = FALSE].id = e.id
  BY DEF CalendarInv, EntriesApart, Entry
<1>2. \A e \in events' : e \in events \/ \E f \in events : e = [f EXCEPT !.live = FALSE]
  BY DEF Calendar!Deleted
<1>3. \A e \in events' : e \in Entry
  BY <1>1, <1>2 DEF CalendarInv, EntriesApart
<1>4. \A e \in events' : \E f \in events :
          f.id = e.id /\ e = IF f.id = id THEN [f EXCEPT !.live = FALSE] ELSE f
  BY <1>1 DEF Calendar!Deleted
<1>5. \A e, f \in events' : e.id = f.id => e = f
  <2> SUFFICES ASSUME NEW e \in events', NEW f \in events', e.id = f.id PROVE e = f
    OBVIOUS
  <2>1. PICK e1 \in events :
          e1.id = e.id /\ e = IF e1.id = id THEN [e1 EXCEPT !.live = FALSE] ELSE e1
    BY <1>4
  <2>2. PICK f1 \in events :
          f1.id = f.id /\ f = IF f1.id = id THEN [f1 EXCEPT !.live = FALSE] ELSE f1
    BY <1>4
  <2>3. e1 = f1
    BY <2>1, <2>2 DEF CalendarInv, EntriesApart
  <2> QED
    BY <2>1, <2>2, <2>3
<1> QED
  BY <1>3, <1>5 DEF EntriesApart

LEMMA CallGoogleKeeps ==
    ASSUME Calendar!CalendarAssumption, CalendarInv, NEW t \in running,
           NEW o \in {"ok", "lost", "refused"}, Calendar!CallGoogle(t, o)
    PROVE  CalendarInv'
<1> DEFINE i == Calendar!First(t.todo)
           writes == t.job.task = "upsert" /\ ~i.orphan
           own == <<i.day, 0>>
<1>1. UNCHANGED <<Calendar!database, token, queue, calls>>
  BY DEF Calendar!CallGoogle
<1>2. faults' \in 0..MaxFaults
  BY CountFault DEF Calendar!CallGoogle, CalendarInv, CallTypes
<1>3. CallTypes' /\ RowsNameTheirDay'
  BY <1>1, <1>2 DEF CalendarInv, CallTypes, RowsNameTheirDay, Calendar!database
<1>4. EntriesApart'
  <2>1. events' \in {events, Calendar!Written(t, own), Calendar!Deleted(i.id)}
    BY TargetIs DEF Calendar!CallGoogle
  <2> QED
    BY <2>1, WrittenKeeps, DeletedKeeps DEF CalendarInv, EntriesApart
<1>5. \E answer \in {"ok", "error"}, id \in OwnId(i.day) : Calendar!Answer(t, answer, id)
  BY TargetIs DEF Calendar!CallGoogle, OwnId
<1>6. JobsApart' /\ KeysApart' /\ ListsAreOwn'
  <2>1. PICK answer \in {"ok", "error"}, id \in OwnId(i.day) : Calendar!Answer(t, answer, id)
    BY <1>5
  <2> DEFINE s == [t EXCEPT !.answer = answer, !.id = id]
  <2>2. i.day \in Calendar!Day
    BY ListIs DEF Calendar!Item
  <2>3. id \in Calendar!EventId
    BY <2>2 DEF OwnId, Calendar!EventId
  <2>4. s \in Calendar!Task /\ s.job = t.job /\ s.todo = t.todo /\ s.id = id
    BY <2>3, ListIs DEF Calendar!Task
  <2>5. running' = (running \ {t}) \cup {s}
    BY <2>1 DEF Calendar!Answer
  <2>6. ListIsOwn(s.todo) /\ s.id \in OwnId(Calendar!First(s.todo).day)
    BY <2>4, ListIs
  <2> HIDE DEF s
  <2> QED
    BY <1>1, <2>4, <2>5, <2>6, ReplacedKeeps
<1> QED
  BY <1>3, <1>4, <1>6 DEF CalendarInv

\* A job that goes on has one item less.
LEMMA ContinueKeeps ==
    ASSUME Calendar!CalendarAssumption, CalendarInv, NEW t \in running,
           Calendar!Continue(t, Calendar!First(t.todo))
    PROVE  JobsApart' /\ KeysApart' /\ ListsAreOwn'
<1> DEFINE rest == t.todo \ {Calendar!First(t.todo)}
           next == [t EXCEPT !.todo = rest, !.id = Calendar!NoId,
                             !.answer = IF t.calls THEN "none" ELSE "ok"]
<1>1. next \in Calendar!Task /\ next.job = t.job /\ next.todo = rest /\ next.id = Calendar!NoId
  BY ListIs DEF Calendar!Task, Calendar!EventId
<1>2. running' = (running \ {t}) \cup (IF rest = {} THEN {} ELSE {next}) /\ queue' = queue
  BY DEF Calendar!Continue
<1>3. rest # {} => ListIsOwn(rest)
  BY ListIs DEF ListIsOwn
<1> HIDE DEF rest, next
<1>4. CASE rest = {}
  <2>1. running' = running \ {t}
    BY <1>2, <1>4
  <2> QED
    BY <1>2, <2>1, EndedKeeps
<1>5. CASE rest # {}
  <2>1. running' = (running \ {t}) \cup {next}
    BY <1>2, <1>5
  <2>2. ListIsOwn(next.todo) /\ next.id \in OwnId(Calendar!First(next.todo).day)
    BY <1>1, <1>3, <1>5 DEF OwnId
  <2> QED
    BY <1>1, <1>2, <2>1, <2>2, ReplacedKeeps
<1> QED
  BY <1>4, <1>5

\* The row a job writes names its own day.
LEMMA RecordedKeeps ==
    ASSUME CalendarInv, NEW d \in Calendar!Day, NEW state \in {"synced", "failed", "removed"},
           NEW id \in OwnId(d), Calendar!Recorded(d, state, id)
    PROVE  RowsNameTheirDay'
<1> DEFINE new == [state |-> state, id |-> IF id = Calendar!NoId THEN rows[d].id ELSE id]
<1>1. rows \in [Calendar!Day -> Calendar!Row] /\ \A e \in Calendar!Day : rows[e].id \in OwnId(e)
  BY DEF CalendarInv, RowsNameTheirDay
<1>2. new.id \in OwnId(d)
  BY <1>1 DEF OwnId
<1>3. new \in Calendar!Row
  BY <1>2 DEF Calendar!Row, OwnId, Calendar!EventId
<1>4. rows' = [rows EXCEPT ![d] = new]
  BY DEF Calendar!Recorded
<1> HIDE DEF new
<1> QED
  BY <1>1, <1>2, <1>3, <1>4 DEF RowsNameTheirDay

LEMMA SyncRecordKeeps ==
    ASSUME Calendar!CalendarAssumption, CalendarInv, NEW t \in running, Calendar!Record(t)
    PROVE  CalendarInv'
<1> DEFINE i == Calendar!First(t.todo)
           synced == IF t.job.task = "upsert" /\ ~i.orphan THEN "synced" ELSE "removed"
<1>1. UNCHANGED <<seat, open, days, version, connected, Calendar!google, calls, faults>>
  BY DEF Calendar!Record
<1>2. CallTypes' /\ EntriesApart'
  BY <1>1 DEF CalendarInv, CallTypes, EntriesApart, Calendar!google
<1>3. Calendar!Retry(t) \/ Calendar!Continue(t, i)
  BY DEF Calendar!Record
<1>4. JobsApart' /\ KeysApart' /\ ListsAreOwn'
  BY <1>3, EndedKeeps, ContinueKeeps DEF Calendar!Retry
<1>5. RowsNameTheirDay'
  <2>1. \/ UNCHANGED rows
        \/ Calendar!Recorded(i.day, synced, t.id)
        \/ Calendar!Recorded(i.day, "failed", Calendar!NoId)
    BY DEF Calendar!Record
  <2>2. i.day \in Calendar!Day /\ t.id \in OwnId(i.day) /\ Calendar!NoId \in OwnId(i.day)
    BY ListIs DEF Calendar!Item, OwnId
  <2>3. UNCHANGED rows => RowsNameTheirDay'
    BY DEF CalendarInv, RowsNameTheirDay
  <2> QED
    BY <2>1, <2>2, <2>3, RecordedKeeps
<1> QED
  BY <1>2, <1>4, <1>5 DEF CalendarInv

LEMMA CrashKeeps ==
    ASSUME Calendar!CalendarAssumption, CalendarInv, NEW t \in running, Calendar!Crash(t)
    PROVE  CalendarInv'
<1>1. CallTypes' /\ RowsNameTheirDay' /\ EntriesApart'
  BY CountFault DEF CalendarInv, CallTypes, RowsNameTheirDay, EntriesApart, Calendar!Crash,
     Calendar!database, Calendar!google
<1>2. JobsApart' /\ KeysApart' /\ ListsAreOwn'
  BY EndedKeeps DEF Calendar!Crash, Calendar!Retry
<1> QED
  BY <1>1, <1>2 DEF CalendarInv

\* The invariant is inductive.
LEMMA CalendarNext ==
    ASSUME Calendar!CalendarAssumption, CalendarInv, [Calendar!Next]_(Calendar!vars)
    PROVE  CalendarInv'
<1>1. CASE UNCHANGED Calendar!vars
  BY <1>1 DEF Calendar!vars, Calendar!database, Calendar!google, CalendarInv, CallTypes,
       RowsNameTheirDay, EntriesApart,
              JobsApart, KeysApart, Calendar!Jobs, ListsAreOwn
<1>2. CASE Calendar!ConfirmSeat \/ Calendar!CancelSeat \/ Calendar!CancelSession
  BY <1>2, SeatCallKeeps
<1>3. CASE \E new \in DaySets, moved \in BOOLEAN : Calendar!ScheduleSession(new, moved)
  BY <1>3, ScheduleKeeps
<1>4. CASE Calendar!ConnectCalendar \/ Calendar!RevokeGrant \/ Calendar!TokenExpires
      \/ Calendar!RefreshTokens
  BY <1>4, ConnectKeeps
<1>5. CASE Calendar!disconnectCalendar \/ Calendar!retryCalendarSync
  BY <1>5, RowCallKeeps
<1>6. CASE \E j \in queue : Calendar!Begin(j)
  BY <1>6, SyncBeginKeeps
<1>7. CASE \E t \in running, o \in {"ok", "lost", "refused"} : Calendar!CallGoogle(t, o)
  BY <1>7, CallGoogleKeeps
<1>8. CASE \E t \in running : Calendar!Record(t) \/ Calendar!Crash(t)
  BY <1>8, SyncRecordKeeps, CrashKeeps
<1> QED
  BY <1>1, <1>2, <1>3, <1>4, <1>5, <1>6, <1>7, <1>8 DEF Calendar!Next

LEMMA AtMostOne ==
    ASSUME NEW S, S = {} \/ \E e : S = {e}
    PROVE  Cardinality(S) <= 1
<1>1. CASE S = {}
  BY <1>1, FS_EmptySet
<1>2. CASE \E e : S = {e}
  <2>1. PICK e : S = {e}
    BY <1>2
  <2>2. Cardinality({e}) = 1
    BY FS_Singleton
  <2> QED
    BY <2>1, <2>2
<1> QED
  BY <1>1, <1>2

\* A day has one entry.
LEMMA EntriesHold == ASSUME CalendarInv PROVE Calendar!OneEventPerDay
<1> SUFFICES ASSUME NEW d \in Calendar!Day PROVE Cardinality(Calendar!EntriesOf(d)) <= 1
  BY CalendarCountIs DEF Calendar!OneEventPerDay
<1>1. \A e, f \in Calendar!EntriesOf(d) : e = f
  BY DEF Calendar!EntriesOf, CalendarInv, EntriesApart, Entry
<1>2. Calendar!EntriesOf(d) = {} \/ \E e : Calendar!EntriesOf(d) = {e}
  BY <1>1
<1> QED
  BY <1>2, AtMostOne

LEMMA CalendarTypesAre == ASSUME Calendar!CalendarAssumption, CalendarInv PROVE Calendar!TypeOK
<1>1. version \in 0..MaxCalls
  BY DEF CalendarInv, CallTypes, Calendar!CalendarAssumption
<1>2. \A e \in events : e.id \in Calendar!Day \X Nat /\ e.version \in Nat /\ e.live \in BOOLEAN
  BY DEF CalendarInv, EntriesApart, Entry
<1>3. ASSUME NEW task \in Tasks
      PROVE  Cardinality({j \in Calendar!Jobs : j.task = task /\ j.keyed}) <= 1
  <2> DEFINE S == {j \in Calendar!Jobs : j.task = task /\ j.keyed}
  <2>1. \A j, k \in S : j = k
    BY DEF CalendarInv, KeysApart
  <2>2. S = {} \/ \E j : S = {j}
    BY <2>1
  <2> HIDE DEF S
  <2> QED
    BY <2>2, AtMostOne DEF S
<1> QED
  BY <1>1, <1>2, <1>3, CalendarCountIs DEF CalendarInv, CallTypes, RowsNameTheirDay, JobsApart,
       Calendar!TypeOK, Calendar!Jobs,
     Tasks

---------------------------------------------------------------------------

LEMMA ReachStart == ASSUME Calendar!Init PROVE ReachInv
<1>1. days \in Saved /\ queue = {} /\ running = {} /\ seat = "none"
  BY DEF Calendar!Init, Saved
<1> QED
  BY <1>1 DEF ReachInv, NoDeleteYet, UpsertsCall, LeftOverStays, OkStands, DaysAreReached,
       Calendar!Wanted

\* A call that takes no seat away: the jobs that run keep their lists, a day
\* they name does not come back, and what the calendar should say now is left
\* to an upsert that waits.
SteadyCall ==
    /\ UNCHANGED <<queue, running>> \/ Requeued("upsert")
    /\ Held' => Held
    /\ events' = events /\ days' \in Saved
    /\ \A t \in running : \A i \in t.todo :
           /\ i.day \in days' => i.day \in days
           /\ rows[i.day] # Calendar!NoRow => rows'[i.day] # Calendar!NoRow
    /\ Calendar!Wanted' => \/ UpsertWaits'
                  \/ UNCHANGED <<seat, open, connected, days, rows, queue, running>>

\* After such a call an upsert waits.
LEMMA RequeuedWaits ==
    ASSUME Requeued("upsert")
    PROVE  /\ UpsertWaits'
           /\ \A j \in queue' : j.task = "upsert" \/ j \in queue
<1>1. PICK replaced : queue' = (queue \ replaced) \cup {NewJob("upsert")}
  BY DEF Requeued
<1>2. NewJob("upsert").task = "upsert"
  BY DEF NewJob
<1> QED
  BY <1>1, <1>2 DEF UpsertWaits

\* The jobs that run go on with their lists.
LEMMA RequeuedRuns ==
    ASSUME UNCHANGED <<queue, running>> \/ \E task \in Tasks : Requeued(task)
    PROVE  \A r \in running' : \E s \in running :
               /\ r.todo = s.todo /\ r.calls = s.calls /\ r.answer = s.answer
               /\ r.job.task = s.job.task
  BY DEF Requeued, Runs

LEMMA SteadyReaches ==
    ASSUME Calendar!CalendarAssumption, CalendarInv, ReachInv, SteadyCall
    PROVE  ReachInv'
<1>1. /\ days \in Saved /\ NoDeleteYet /\ UpsertsCall /\ LeftOverStays /\ OkStands
      /\ DaysAreReached
  BY DEF ReachInv
<1>2. \A r \in running' : \E s \in running :
          /\ r.todo = s.todo /\ r.calls = s.calls /\ r.answer = s.answer
          /\ r.job.task = s.job.task
  BY RequeuedRuns DEF SteadyCall, Tasks
<1>3. \A j \in queue' : j.task = "upsert" \/ j \in queue
  BY RequeuedWaits DEF SteadyCall
<1>4. NoDeleteYet' /\ UpsertsCall'
  BY <1>1, <1>2, <1>3 DEF SteadyCall, NoDeleteYet, UpsertsCall
<1>5. LeftOverStays'
  BY <1>1, <1>2 DEF SteadyCall, LeftOverStays
<1>6. OkStands'
  <2> SUFFICES ASSUME Held', NEW r \in running', r.answer = "ok", ~Calendar!First(r.todo).orphan,
                      Calendar!First(r.todo).day \in days'
               PROVE  Calendar!EntriesOf(Calendar!First(r.todo).day)' # {}
    BY DEF OkStands
  <2>1. PICK s \in running : r.todo = s.todo /\ r.answer = s.answer
    BY <1>2
  <2>2. Calendar!First(s.todo).day \in days
    BY <2>1, ListIs DEF SteadyCall
  <2>3. Calendar!EntriesOf(Calendar!First(s.todo).day) # {}
    BY <1>1, <2>1, <2>2 DEF OkStands, SteadyCall
  <2> QED
    BY <2>1, <2>3 DEF Calendar!EntriesOf, SteadyCall
<1>7. DaysAreReached'
  <2>1. CASE ~Calendar!Wanted' \/ UpsertWaits'
    BY <2>1 DEF DaysAreReached
  <2>2. CASE UNCHANGED <<seat, open, connected, days, rows, queue, running>>
    BY <1>1, <2>2 DEF DaysAreReached, Calendar!Wanted, UpsertWaits, Shown, Calendar!EntriesOf,
         Covers, LeftOver,
                      SteadyCall
  <2> QED
    BY <2>1, <2>2 DEF SteadyCall
<1> QED
  BY <1>4, <1>5, <1>6, <1>7 DEF ReachInv, SteadyCall

LEMMA SeatCallReaches ==
    ASSUME HeldOnce, Calendar!CalendarAssumption, CalendarInv, ReachInv,
           Calendar!ConfirmSeat \/ Calendar!ConnectCalendar \/ Calendar!RevokeGrant
                 \/ Calendar!TokenExpires \/ Calendar!RefreshTokens
    PROVE  ReachInv'
<1>1. UNCHANGED <<queue, running>> \/ Requeued("upsert")
  BY EnqueueIs DEF Calendar!ConfirmSeat, Calendar!ConnectCalendar, Calendar!RevokeGrant,
       Calendar!TokenExpires, Calendar!RefreshTokens,
     Tasks
<1>2. events' = events /\ days' = days /\ rows' = rows /\ (Held' => Held)
  BY DEF Calendar!ConfirmSeat, Calendar!ConnectCalendar, Calendar!RevokeGrant,
       Calendar!TokenExpires, Calendar!RefreshTokens, Held,
     HeldOnce, Calendar!google, Calendar!database
<1>3. Calendar!Wanted' => \/ Requeued("upsert")
                 \/ UNCHANGED <<seat, open, connected, days, rows, queue, running>>
  BY EnqueueIs DEF Calendar!ConfirmSeat, Calendar!ConnectCalendar, Calendar!RevokeGrant,
       Calendar!TokenExpires, Calendar!RefreshTokens,
     Calendar!Wanted, Tasks, Calendar!database
<1>4. SteadyCall
  BY <1>1, <1>2, <1>3, RequeuedWaits DEF SteadyCall, ReachInv
<1> QED
  BY <1>4, SteadyReaches

LEMMA RowCallReaches ==
    ASSUME Calendar!CalendarAssumption, CalendarInv, ReachInv, Calendar!disconnectCalendar
          \/ Calendar!retryCalendarSync
    PROVE  ReachInv'
<1>1. UNCHANGED <<queue, running>> \/ Requeued("upsert")
  BY EnqueueIs DEF Calendar!disconnectCalendar, Calendar!retryCalendarSync, Tasks
<1>2. events' = events /\ days' = days /\ (Held' => Held)
  BY DEF Calendar!disconnectCalendar, Calendar!retryCalendarSync, Held, Calendar!google
<1>3. Calendar!Wanted' => Requeued("upsert")
  BY EnqueueIs DEF Calendar!disconnectCalendar, Calendar!retryCalendarSync, Calendar!Wanted,
       Tasks
<1>4. \A d \in Calendar!Day : rows[d] # Calendar!NoRow => rows'[d] # Calendar!NoRow
  <2>1. rows \in [Calendar!Day -> Calendar!Row] /\ Calendar!NoRow.state = "none"
    BY DEF CalendarInv, RowsNameTheirDay, Calendar!NoRow
  <2>2. ASSUME NEW d \in Calendar!Day, NEW state \in {"removed", "pending"},
               rows'[d] = [rows[d] EXCEPT !.state = state]
        PROVE  rows'[d] # Calendar!NoRow
    BY <2>1, <2>2 DEF Calendar!Row
  <2>3. CASE Calendar!disconnectCalendar
    BY <2>2, <2>3 DEF Calendar!disconnectCalendar
  <2>4. CASE Calendar!retryCalendarSync
    BY <2>2, <2>4 DEF Calendar!retryCalendarSync
  <2> QED
    BY <2>3, <2>4
<1>5. \A t \in running : \A i \in t.todo : i.day \in Calendar!Day
  BY ListIs DEF Calendar!Item
<1>6. SteadyCall
  BY <1>1, <1>2, <1>3, <1>4, <1>5, RequeuedWaits DEF SteadyCall, ReachInv
<1> QED
  BY <1>6, SteadyReaches

LEMMA ScheduleReaches ==
    ASSUME NoDaySwapped, Calendar!CalendarAssumption, CalendarInv, ReachInv,
           NEW new \in DaySets, NEW moved \in BOOLEAN, Calendar!ScheduleSession(new, moved)
    PROVE  ReachInv'
<1>1. days' = new /\ UNCHANGED <<rows, events, seat, open, connected>>
  BY DEF Calendar!ScheduleSession, Calendar!google
<1>2. new \in Saved /\ days \in Saved /\ days # {}
  BY DEF Saved, ReachInv, CalendarInv, CallTypes
<1>3. Calendar!Announced(new, moved)
  BY <1>2, CalendarCountIs DEF NoDaySwapped, Calendar!Announced, Calendar!ScheduleSession
<1>4. IF seat = "confirmed" THEN Requeued("upsert") ELSE UNCHANGED <<queue, running>>
  BY <1>3, EnqueueIs DEF Calendar!ScheduleSession, Tasks
<1>5. \A t \in running : \A i \in t.todo : i.day \in new => i.day \in days
  BY DEF Calendar!ScheduleSession, Calendar!Unused
<1>6. SteadyCall
  BY <1>1, <1>2, <1>4, <1>5, RequeuedWaits DEF SteadyCall, Held, Calendar!Wanted
<1> QED
  BY <1>6, SteadyReaches

\* Of a seat that is gone nothing is claimed.
LEMMA CancelReaches ==
    ASSUME Calendar!CalendarAssumption, CalendarInv, ReachInv, Calendar!CancelSeat
          \/ Calendar!CancelSession
    PROVE  ReachInv'
<1>1. ~Held' /\ ~Calendar!Wanted' /\ UNCHANGED <<days, rows>>
  BY DEF Calendar!CancelSeat, Calendar!CancelSession, Held, Calendar!Wanted
<1>2. UNCHANGED <<queue, running>> \/ \E task \in Tasks : Requeued(task)
  BY CancelIs DEF Calendar!CancelSeat, Calendar!CancelSession, Tasks
<1>3. \A r \in running' : \E s \in running :
          /\ r.todo = s.todo /\ r.calls = s.calls /\ r.job.task = s.job.task
  BY <1>2, RequeuedRuns
<1>4. UpsertsCall' /\ LeftOverStays'
  BY <1>1, <1>3 DEF ReachInv, UpsertsCall, LeftOverStays
<1> QED
  BY <1>1, <1>4 DEF ReachInv, NoDeleteYet, OkStands, DaysAreReached

\* A job that begins on a seat that is held has every day on its list.
LEMMA SyncBeginReaches ==
    ASSUME Calendar!CalendarAssumption, CalendarInv, ReachInv, NEW j \in queue, Calendar!Begin(j)
    PROVE  ReachInv'
<1> DEFINE task == [job |-> [j EXCEPT !.attempts = @ + 1],
                    todo |-> Calendar!List(j.task), body |-> version, calls |-> connected,
                    answer |-> IF connected THEN "none" ELSE "ok", id |-> Calendar!NoId]
<1>1. UNCHANGED <<rows, events, seat, open, connected, days>> /\ queue' \subseteq queue
  BY DEF Calendar!Begin, Calendar!database, Calendar!google
<1>2. task.job.task = j.task /\ task.todo = Calendar!List(j.task) /\ task.calls = connected
      /\ (task.answer = "ok" => ~connected)
  BY DEF CalendarInv, JobsApart, Calendar!Job
<1>3. IF Calendar!List(j.task) = {} THEN running' = running ELSE running' = running \cup {task}
  BY DEF Calendar!Begin
<1> HIDE DEF task
<1>4. /\ days \in Saved /\ NoDeleteYet /\ UpsertsCall /\ LeftOverStays /\ OkStands
      /\ DaysAreReached
  BY DEF ReachInv
<1>5. Calendar!List(j.task) # {} /\ j.task = "upsert" => Calendar!Wanted
      /\ Calendar!List(j.task) = Calendar!DayItems \cup Calendar!Orphans
  BY DEF Calendar!List, Calendar!UpsertList, Calendar!Wanted
<1>6. NoDeleteYet' /\ UpsertsCall'
  BY <1>1, <1>2, <1>3, <1>4, <1>5 DEF NoDeleteYet, UpsertsCall, Held, Calendar!Wanted
<1>7. LeftOverStays'
  <2>1. \A i \in Calendar!List(j.task) : i.orphan => i.day \notin days
        /\ rows[i.day] # Calendar!NoRow
    BY DEF Calendar!List, Calendar!UpsertList, Calendar!DeleteList, Calendar!DayItems,
         Calendar!Orphans, Calendar!NoRow
  <2> QED
    BY <1>1, <1>2, <1>3, <1>4, <2>1 DEF LeftOverStays
<1>8. OkStands'
  <2>1. Held /\ Calendar!List(j.task) # {} => task.answer # "ok"
    BY <1>2, <1>4, <1>5 DEF NoDeleteYet, Calendar!Wanted
  <2> QED
    BY <1>1, <1>2, <1>3, <1>4, <2>1 DEF OkStands, Held, Calendar!EntriesOf
<1>9. DaysAreReached'
  <2> SUFFICES ASSUME Calendar!Wanted PROVE /\ \A d \in days' : Covers(d, FALSE)'
                                   /\ \A d \in Calendar!Day : LeftOver(d)' => Covers(d, TRUE)'
    BY <1>1 DEF DaysAreReached, Calendar!Wanted
  <2>1. j.task = "upsert"
    BY <1>4 DEF NoDeleteYet, Held, Calendar!Wanted
  <2>2. Calendar!List(j.task) = Calendar!DayItems \cup Calendar!Orphans
        /\ Calendar!List(j.task) # {}
    BY <2>1 DEF Calendar!List, Calendar!UpsertList, Calendar!Wanted, Calendar!DayItems,
         CalendarInv, CallTypes
  <2>3. running' = running \cup {task}
    BY <1>3, <2>2
  <2>4. ASSUME NEW d \in days PROVE Covers(d, FALSE)'
    <3> DEFINE k == [day |-> d, id |-> rows[d].id, orphan |-> FALSE]
    <3>1. k \in task.todo /\ k.day = d /\ k.orphan = FALSE
      BY <1>2, <2>2 DEF Calendar!DayItems
    <3> HIDE DEF k
    <3> QED
      BY <1>2, <2>1, <2>3, <3>1 DEF Covers
  <2>5. ASSUME NEW d \in Calendar!Day, LeftOver(d) PROVE Covers(d, TRUE)'
    <3> DEFINE k == [day |-> d, id |-> rows[d].id, orphan |-> TRUE]
    <3>1. k \in task.todo /\ k.day = d /\ k.orphan = TRUE
      BY <1>2, <2>2, <2>5 DEF Calendar!Orphans, LeftOver
    <3> HIDE DEF k
    <3> QED
      BY <1>2, <2>1, <2>3, <3>1 DEF Covers
  <2> QED
    BY <1>1, <2>4, <2>5 DEF LeftOver
<1> QED
  BY <1>1, <1>4, <1>6, <1>7, <1>8, <1>9 DEF ReachInv

\* A call to Google leaves the days' entries where they are, and one that is

\* answered has written its own.
LEMMA EntriesStay ==
    ASSUME Calendar!CalendarAssumption, CalendarInv, ReachInv, Held, NEW t \in running,
           NEW o \in {"ok", "lost", "refused"}, Calendar!CallGoogle(t, o)
    PROVE  /\ \A d \in days : Calendar!EntriesOf(d) # {} => Calendar!EntriesOf(d)' # {}
           /\ o = "ok" /\ ~Calendar!First(t.todo).orphan =>
                     Calendar!EntriesOf(Calendar!First(t.todo).day)' # {}
<1> DEFINE i == Calendar!First(t.todo)
           new == [id |-> <<i.day, 0>>, version |-> t.body, live |-> TRUE]
<1>1. t.job.task = "upsert"
  BY DEF ReachInv, NoDeleteYet
<1>2. Calendar!Written(t, <<i.day, 0>>) = {e \in events : e.id # new.id} \cup {new}
  BY DEF Calendar!Written
<1>3. events \subseteq Entry
  BY DEF CalendarInv, EntriesApart
<1>4. i \in t.todo /\ i.id \in OwnId(i.day)
  BY ListIs
<1>5. CASE o = "refused"
  BY <1>5 DEF Calendar!CallGoogle, Calendar!EntriesOf
<1>6. CASE o # "refused" /\ ~i.orphan
  <2>1. events' = {e \in events : e.id # new.id} \cup {new}
    BY <1>1, <1>2, <1>6, TargetIs DEF Calendar!CallGoogle
  <2>2. new.id[1] = i.day /\ new.live
    OBVIOUS
  <2> HIDE DEF new
  <2>3. new \in Calendar!EntriesOf(i.day)'
    BY <2>1, <2>2 DEF Calendar!EntriesOf
  <2>4. ASSUME NEW d \in days, d # i.day, NEW e \in Calendar!EntriesOf(d)
        PROVE e \in Calendar!EntriesOf(d)'
    BY <2>1, <2>2, <2>4 DEF Calendar!EntriesOf
  <2> QED
    BY <2>3, <2>4
<1>7. CASE o # "refused" /\ i.orphan
  <2>1. events' = Calendar!Deleted(i.id)
    BY <1>7 DEF Calendar!CallGoogle
  <2>2. i.day \notin days
    BY <1>4, <1>7 DEF ReachInv, LeftOverStays
  <2>3. ASSUME NEW d \in days, NEW e \in Calendar!EntriesOf(d)
        PROVE e \in Calendar!EntriesOf(d)'
    <3>1. e \in events /\ e.id[1] = d /\ e.id = <<d, 0>>
      BY <1>3 DEF Calendar!EntriesOf, Entry
    <3>2. e.id # i.id
      <4>1. <<d, 0>> # Calendar!NoId /\ (d # i.day => <<d, 0>> # <<i.day, 0>>)
        BY DEF Calendar!NoId
      <4> QED
        BY <1>4, <2>2, <3>1, <4>1 DEF OwnId
    <3> QED
      BY <2>1, <3>1, <3>2 DEF Calendar!Deleted, Calendar!EntriesOf
  <2> QED
    BY <1>7, <2>3
<1> QED
  BY <1>5, <1>6, <1>7

LEMMA CallGoogleReaches ==
    ASSUME Calendar!CalendarAssumption, CalendarInv, ReachInv, NEW t \in running,
           NEW o \in {"ok", "lost", "refused"}, Calendar!CallGoogle(t, o)
    PROVE  ReachInv'
<1>1. UNCHANGED <<rows, seat, open, connected, days, queue>>
  BY DEF Calendar!CallGoogle, Calendar!database
<1>2. PICK s : /\ running' = (running \ {t}) \cup {s}
               /\ s.job = t.job /\ s.todo = t.todo /\ s.calls = t.calls
               /\ s.answer = "ok" => o = "ok"
  <2>1. \E answer \in {"ok", "error"}, id \in OwnId(Calendar!First(t.todo).day) :
            Calendar!Answer(t, answer, id) /\ (answer = "ok" => o = "ok")
    BY TargetIs DEF Calendar!CallGoogle, OwnId
  <2>2. PICK answer \in {"ok", "error"}, id \in OwnId(Calendar!First(t.todo).day) :
            Calendar!Answer(t, answer, id) /\ (answer = "ok" => o = "ok")
    BY <2>1
  <2> DEFINE s == [t EXCEPT !.answer = answer, !.id = id]
  <2>3. s.job = t.job /\ s.todo = t.todo /\ s.calls = t.calls /\ s.answer = answer
    BY ListIs DEF Calendar!Task
  <2>4. running' = (running \ {t}) \cup {s}
    BY <2>2 DEF Calendar!Answer
  <2> HIDE DEF s
  <2> QED
    BY <2>2, <2>3, <2>4
<1>3. /\ days \in Saved /\ NoDeleteYet /\ UpsertsCall /\ LeftOverStays /\ OkStands
      /\ DaysAreReached
  BY DEF ReachInv
<1>4. NoDeleteYet' /\ UpsertsCall' /\ LeftOverStays'
  BY <1>1, <1>2, <1>3 DEF NoDeleteYet, UpsertsCall, LeftOverStays, Held
<1>5. OkStands'
  <2> SUFFICES ASSUME Held, NEW r \in running', r.answer = "ok", ~Calendar!First(r.todo).orphan,
                      Calendar!First(r.todo).day \in days
               PROVE  Calendar!EntriesOf(Calendar!First(r.todo).day)' # {}
    BY <1>1 DEF OkStands, Held
  <2>1. CASE r = s
    BY <1>2, <2>1, EntriesStay
  <2>2. CASE r # s
    <3>1. Calendar!EntriesOf(Calendar!First(r.todo).day) # {}
      BY <1>2, <1>3, <2>2 DEF OkStands
    <3> QED
      BY <3>1, EntriesStay
  <2> QED
    BY <2>1, <2>2
<1>6. DaysAreReached'
  <2> SUFFICES ASSUME Calendar!Wanted, ~UpsertWaits
               PROVE  /\ \A d \in days : Shown(d)' \/ Covers(d, FALSE)'
                      /\ \A d \in Calendar!Day : LeftOver(d) => Covers(d, TRUE)'
    BY <1>1 DEF DaysAreReached, Calendar!Wanted, UpsertWaits, LeftOver
  <2>1. /\ \A d \in days : Shown(d) \/ Covers(d, FALSE)
        /\ \A d \in Calendar!Day : LeftOver(d) => Covers(d, TRUE)
    BY <1>3 DEF DaysAreReached
  <2>2. ASSUME NEW d, NEW orphan, Covers(d, orphan) PROVE Covers(d, orphan)'
    BY <1>2, <2>2 DEF Covers
  <2>3. ASSUME NEW d \in days, Shown(d) PROVE Shown(d)'
    BY <1>1, <2>3, EntriesStay DEF Shown, Held, Calendar!Wanted
  <2> QED
    BY <2>1, <2>2, <2>3
<1> QED
  BY <1>1, <1>3, <1>4, <1>5, <1>6 DEF ReachInv

\* An upsert that goes back to the queue waits there, tried out or not.
LEMMA RetryReaches ==
    ASSUME Calendar!CalendarAssumption, CalendarInv, ReachInv, NEW t \in running, Calendar!Retry(t),
           UNCHANGED <<seat, open, connected, days, events>>,
           \A d \in Calendar!Day : rows[d] # Calendar!NoRow => rows'[d] # Calendar!NoRow
    PROVE  ReachInv'
<1>1. /\ days \in Saved /\ NoDeleteYet /\ UpsertsCall /\ LeftOverStays /\ OkStands
      /\ DaysAreReached
  BY DEF ReachInv
<1>2. running' = running \ {t} /\ queue' = queue \cup {t.job}
  BY DEF Calendar!Retry
<1>3. NoDeleteYet' /\ UpsertsCall'
  BY <1>1, <1>2 DEF NoDeleteYet, UpsertsCall, Held
<1>4. \A r \in running : \A i \in r.todo : i.day \in Calendar!Day
  BY ListIs DEF Calendar!Item
<1>5. LeftOverStays'
  BY <1>1, <1>2, <1>4 DEF LeftOverStays
<1>6. OkStands'
  BY <1>1, <1>2 DEF OkStands, Held, Calendar!EntriesOf
<1>7. Calendar!Wanted' => UpsertWaits'
  BY <1>1, <1>2 DEF NoDeleteYet, Held, Calendar!Wanted, UpsertWaits
<1> QED
  BY <1>1, <1>3, <1>5, <1>6, <1>7 DEF ReachInv, DaysAreReached

\* A row that was written is one from then on.
LEMMA RecordedStays ==
    ASSUME CalendarInv, NEW d \in Calendar!Day, NEW state \in {"synced", "failed", "removed"},
           NEW id, Calendar!Recorded(d, state, id)
    PROVE  /\ \A e \in Calendar!Day \ {d} : rows'[e] = rows[e]
           /\ rows'[d].state = state /\ rows'[d] # Calendar!NoRow
  BY DEF Calendar!Recorded, Calendar!NoRow, CalendarInv, RowsNameTheirDay

\* An item done leaves its day in the calendar; one that failed goes back with its job.
LEMMA SyncRecordReaches ==
    ASSUME Calendar!CalendarAssumption, CalendarInv, ReachInv, NEW t \in running, Calendar!Record(t)
    PROVE  ReachInv'
<1> DEFINE i == Calendar!First(t.todo)
           synced == IF t.job.task = "upsert" /\ ~i.orphan THEN "synced" ELSE "removed"
           rest == t.todo \ {i}
           next == [t EXCEPT !.todo = rest, !.id = Calendar!NoId,
                             !.answer = IF t.calls THEN "none" ELSE "ok"]
<1>1. UNCHANGED <<seat, open, connected, days, events>>
  BY DEF Calendar!Record, Calendar!google
<1>2. i \in t.todo /\ i.day \in Calendar!Day
  BY ListIs DEF Calendar!Item
<1>3. CASE Calendar!Retry(t)
  <2>1. UNCHANGED rows \/ Calendar!Recorded(i.day, "failed", Calendar!NoId)
        \/ Calendar!Recorded(i.day, synced, t.id)
    BY DEF Calendar!Record
  <2>2. \A d \in Calendar!Day : rows[d] # Calendar!NoRow => rows'[d] # Calendar!NoRow
    BY <1>2, <2>1, RecordedStays
  <2> QED
    BY <1>1, <1>3, <2>2, RetryReaches
<1>4. CASE ~Calendar!Retry(t)
  <2>1. /\ t.answer = "ok" /\ (i.day \in days \/ i.orphan)
        /\ Calendar!Recorded(i.day, synced, t.id) /\ Calendar!Continue(t, i)
    BY <1>4 DEF Calendar!Record
  <2>2. running' = (running \ {t}) \cup (IF rest = {} THEN {} ELSE {next}) /\ queue' = queue
    BY <2>1 DEF Calendar!Continue
  <2>3. next.job = t.job /\ next.todo = rest /\ next.calls = t.calls
        /\ (t.calls => next.answer = "none")
    BY ListIs DEF Calendar!Task
  <2> HIDE DEF next, rest
  <2>4. \A r \in running' : r \in running \/ (r = next /\ rest # {})
    BY <2>2
  <2>5. \A d \in Calendar!Day \ {i.day} : rows'[d] = rows[d]
    BY <1>2, <2>1, RecordedStays
  <2>6. rows'[i.day].state = synced /\ rows'[i.day] # Calendar!NoRow
    BY <1>2, <2>1, RecordedStays
  <2>7. /\ days \in Saved /\ NoDeleteYet /\ UpsertsCall /\ LeftOverStays /\ OkStands
        /\ DaysAreReached
    BY DEF ReachInv
  <2>8. NoDeleteYet' /\ UpsertsCall'
    BY <1>1, <2>2, <2>3, <2>4, <2>7 DEF NoDeleteYet, UpsertsCall, Held
  <2>9. LeftOverStays'
    <3>1. \A r \in running : \A k \in r.todo : k.day \in Calendar!Day
      BY ListIs DEF Calendar!Item
    <3>2. \A r \in running' : \E s \in running : r.todo \subseteq s.todo
      BY <2>3, <2>4 DEF rest
    <3> QED
      BY <1>1, <2>5, <2>6, <2>7, <3>1, <3>2 DEF LeftOverStays
  <2>10. OkStands'
    <3>1. Held => next.answer # "ok"
      BY <2>3, <2>7 DEF NoDeleteYet, UpsertsCall
    <3> QED
      BY <1>1, <2>4, <2>7, <3>1 DEF OkStands, Held, Calendar!EntriesOf
  <2>11. DaysAreReached'
    <3> SUFFICES ASSUME Calendar!Wanted, ~UpsertWaits
                 PROVE  /\ \A d \in days : Shown(d)' \/ Covers(d, FALSE)'
                        /\ \A d \in Calendar!Day : LeftOver(d)' => Covers(d, TRUE)'
      BY <1>1, <2>2 DEF DaysAreReached, Calendar!Wanted, UpsertWaits
    <3>1. /\ \A d \in days : Shown(d) \/ Covers(d, FALSE)
          /\ \A d \in Calendar!Day : LeftOver(d) => Covers(d, TRUE)
      BY <2>7 DEF DaysAreReached
    <3>2. Held /\ t.job.task = "upsert" /\ days \subseteq Calendar!Day
      BY <2>7 DEF Held, Calendar!Wanted, NoDeleteYet, CalendarInv, CallTypes
    <3>3. i.orphan => i.day \notin days
      BY <1>2, <2>7 DEF LeftOverStays
    <3>4. ASSUME NEW d, NEW orphan, Covers(d, orphan), d # i.day PROVE Covers(d, orphan)'
      <4>1. PICK r \in running : r.job.task = "upsert"
                                 /\ \E k \in r.todo : k.day = d /\ k.orphan = orphan
        BY <3>4 DEF Covers
      <4>2. CASE r # t
        BY <2>2, <4>1, <4>2 DEF Covers
      <4>3. CASE r = t
        <5>1. \E k \in rest : k.day = d /\ k.orphan = orphan
          BY <3>4, <4>1, <4>3 DEF rest
        <5>2. next \in running'
          BY <2>2, <5>1
        <5> QED
          BY <2>3, <3>2, <5>1, <5>2 DEF Covers
      <4> QED
        BY <4>2, <4>3
    <3>5. ASSUME NEW d \in days PROVE Shown(d)' \/ Covers(d, FALSE)'
      <4>1. CASE d = i.day
        <5>1. Calendar!EntriesOf(d) # {}
          BY <2>1, <2>7, <3>2, <3>3, <4>1 DEF OkStands
        <5> QED
          BY <1>1, <5>1 DEF Shown, Calendar!EntriesOf
      <4>2. CASE d # i.day
        <5>1. Shown(d) => Shown(d)'
          BY <1>1, <2>5, <3>2, <4>2 DEF Shown, Calendar!EntriesOf
        <5> QED
          BY <3>1, <3>4, <4>2, <5>1
      <4> QED
        BY <4>1, <4>2
    <3>6. ASSUME NEW d \in Calendar!Day, LeftOver(d)' PROVE Covers(d, TRUE)'
      <4>1. d # i.day
        BY <1>1, <2>1, <2>6, <3>6 DEF LeftOver
      <4>2. LeftOver(d)
        BY <1>1, <2>5, <3>6, <4>1 DEF LeftOver
      <4> QED
        BY <3>1, <3>4, <4>1, <4>2
    <3> QED
      BY <3>5, <3>6
  <2> QED
    BY <1>1, <2>7, <2>8, <2>9, <2>10, <2>11 DEF ReachInv
<1> QED
  BY <1>3, <1>4

LEMMA CrashReaches ==
    ASSUME Calendar!CalendarAssumption, CalendarInv, ReachInv, NEW t \in running, Calendar!Crash(t)
    PROVE  ReachInv'
<1>1. Calendar!Retry(t) /\ UNCHANGED <<seat, open, connected, days, events, rows>>
  BY DEF Calendar!Crash, Calendar!database, Calendar!google
<1> QED
  BY <1>1, RetryReaches

\* The invariant of a held seat is inductive.
LEMMA ReachNext ==
    ASSUME HeldOnce, NoDaySwapped, Calendar!CalendarAssumption, CalendarInv, ReachInv,
           [Calendar!Next]_(Calendar!vars)
    PROVE  ReachInv'
<1>1. CASE UNCHANGED Calendar!vars
  <2>1. SteadyCall
    BY <1>1 DEF SteadyCall, Calendar!vars, Calendar!database, Calendar!google, Held, ReachInv
  <2> QED
    BY <2>1, SteadyReaches
<1>2. CASE Calendar!ConfirmSeat \/ Calendar!ConnectCalendar \/ Calendar!RevokeGrant
      \/ Calendar!TokenExpires \/ Calendar!RefreshTokens
  BY <1>2, SeatCallReaches
<1>3. CASE Calendar!CancelSeat \/ Calendar!CancelSession
  BY <1>3, CancelReaches
<1>4. CASE \E new \in DaySets, moved \in BOOLEAN : Calendar!ScheduleSession(new, moved)
  BY <1>4, ScheduleReaches
<1>5. CASE Calendar!disconnectCalendar \/ Calendar!retryCalendarSync
  BY <1>5, RowCallReaches
<1>6. CASE \E j \in queue : Calendar!Begin(j)
  BY <1>6, SyncBeginReaches
<1>7. CASE \E t \in running, o \in {"ok", "lost", "refused"} : Calendar!CallGoogle(t, o)
  BY <1>7, CallGoogleReaches
<1>8. CASE \E t \in running : Calendar!Record(t) \/ Calendar!Crash(t)
  BY <1>8, SyncRecordReaches, CrashReaches
<1> QED
  BY <1>1, <1>2, <1>3, <1>4, <1>5, <1>6, <1>7, <1>8 DEF Calendar!Next

LEMMA ReachHolds == ASSUME CalendarInv, ReachInv PROVE Calendar!SeatReachesCalendar
<1> SUFFICES ASSUME Calendar!Settled, Calendar!Wanted, ~Calendar!UpsertGaveUp
             PROVE  /\ \A d \in days : Calendar!EntriesOf(d) # {} \/ rows[d].state = "failed"
                    /\ Calendar!Orphans = {}
  BY DEF Calendar!SeatReachesCalendar
<1>1. ~UpsertWaits /\ \A d, orphan : ~Covers(d, orphan)
  BY DEF Calendar!Settled, Calendar!UpsertGaveUp, UpsertWaits, Covers
<1>2. /\ \A d \in days : Shown(d)
      /\ \A d \in Calendar!Day : ~LeftOver(d)
  BY <1>1 DEF ReachInv, DaysAreReached
<1> QED
  BY <1>2 DEF Shown, LeftOver, Calendar!Orphans
---------------------------------------------------------------------------
(***************************************************************************)
(* Beside the other families (MCWorker).                                   *)
(***************************************************************************)

\* A step of the worker is a step of the calendar, or leaves it alone.
LEMMA CalendarSteps == ASSUME [Next]_worker PROVE [Calendar!Next]_(Calendar!vars)
<1>1. UNCHANGED calendar => UNCHANGED Calendar!vars
  BY DEF calendar, Calendar!vars, Calendar!database, Calendar!google
<1> QED
  BY <1>1, WorkerSteps

LEMMA CalendarAlways == Spec => []CalendarInv
<1>1. Init => CalendarInv
  BY WorkerAssumption, WorkerStart, CalendarStart
<1>2. CalendarInv /\ [Next]_worker => CalendarInv'
  BY WorkerAssumption, CalendarSteps, CalendarNext
<1> QED
  BY <1>1, <1>2, PTL DEF Spec, worker

\* However often a create is retried after a lost answer, a crash or by a

\* second job, for any days, tries and jobs at once, a day has one entry in the
\* calendar (calendar_upsert, clientEventId, record_calendar_sync).
THEOREM OneEntryPerDay == Spec => []OneEventPerDay
<1>1. CalendarInv => OneEventPerDay
  BY EntriesHold DEF OneEventPerDay
<1> QED
  BY <1>1, CalendarAlways, PTL

\* The types of the four families, and that a job is waiting or running once,

\* no more jobs run than there are slots, and of each task one job has the key
\* (enqueue_job, cancel_job).
THEOREM WorkerTypeCorrect == Spec => []TypeOK
<1>1. CalendarInv /\ MailInv /\ MailTypes /\ PictureInv /\ CertificatesInv /\ CertificateTypes
        => TypeOK
  BY WorkerAssumption, CalendarTypesAre, MailTypesAre, PictureTypesAre, CertificateTypesAre
     DEF TypeOK
<1> QED
  BY <1>1, CalendarAlways, MailAlways, PictureAlways, CertificatesInductive, PTL

\* Where a seat is held once and no save swaps days one for one, a seat that is

\* held when the jobs have ended is in the calendar on every day it has, or the
\* member is shown the failure, and nothing of a deleted day is left; or an
\* upsert has used up its attempts.  For any days, tries, jobs at once, faults
\* and calls (calendar_upsert, calendar_sync_target, session_days_changed).
THEOREM HeldSeatReachesCalendar ==
    ASSUME HeldOnce, NoDaySwapped
    PROVE  Spec => []SeatReachesCalendar
<1>1. Init => ReachInv
  BY WorkerStart, ReachStart
<1>2. CalendarInv /\ ReachInv /\ [Next]_worker => ReachInv'
  BY WorkerAssumption, HeldOnce, NoDaySwapped, CalendarSteps, ReachNext
<1>3. CalendarInv /\ ReachInv => SeatReachesCalendar
  BY ReachHolds DEF SeatReachesCalendar
<1> QED
  BY <1>1, <1>2, <1>3, CalendarAlways, PTL DEF Spec, worker
===========================================================================
