# Kareem Marefa: a TLA+ model of the platform

Kareem Marefa is a knowledge-sharing platform for organisations: members propose and present sessions, other
members reserve seats, check in, rate and comment, and earn points, badges and certificates. The program is a
Next.js application over a Postgres database, a worker process and a few shared packages. Almost every decision is
taken in the database, by the `security definer` functions and triggers of `src/supabase/migrations`; the
application's data layer (`src/src/lib/dal`) calls them and the worker (`src/worker/src`) runs them on a clock or
from a queue. A function is often redefined by a later migration; the definition that counts is the last one, and
it is the one the map of `PROJECT.json` names.

This directory holds the model: modules, the TLC configurations that check them, and theorems that TLAPS proves.

## 1. The system

### 1.1 Processes and what they share

| Process | What it does | Where |
|---|---|---|
| Browser and Next.js server | draws a page from rows, then calls one database function per user action | `src/src` |
| Postgres | runs each call as one transaction at READ COMMITTED; triggers run inside it | `src/supabase/migrations` |
| graphile-worker | one process, up to ten tasks at a time: cron lines and queued jobs, retried on failure | `src/worker/src/index.ts` |
| Outside services | Google Calendar, Resend (mail and its webhook), object storage | called by worker tasks |

They share only the database. Three facts shape every module of the database and the worker:

- A call is not one instant. The page was drawn earlier, the transaction's `now()` and the caller's own member row
  are read when it begins, and the rows it changes are read when it has their locks, if it locks them at all.
  Where a function takes `for update` the model makes the part after the lock one step; where it does not, the
  read and the write are two steps and anything may happen in between.
- A trigger is part of the statement that fires it, so it is part of the same action.
- A job is enqueued by the transaction that needs it (`enqueue_job`, `0025`), with a key whose mode is replace;
  it is delivered at least once, later, in its own transaction, and reads the rows again.

A page of its own is a small concurrent program too: what it shows, what it has sent and what the server holds are
three things, and timers, answers, undo, hidden tabs and killed tabs come between them. Four such pages are modelled.

### 1.2 Components

State, operations and correctness of each component. The status column says where this project stands;
`PROJECT.json` lists the same components with their sources.

| Component | State | Operations | What makes it correct | Status |
|---|---|---|---|---|
| Seats and waitlist | `rsvps`, `sessions.capacity`, deadline, cutoff | `reserve_seat`, `cancel_rsvp`, `promote_next_waitlisted`, `promote_waitlist`, `schedule_session` | first come first served; no overbooking; a seat that a cancellation frees is handed on in the same step; nobody is displaced; the deadline freezes the total | modelled and proved: `Seats` |
| Session lifecycle | `sessions.state` and its log, `completed_at`, `check_in_open`, `allow_walk_ins` | create, publish, publish past, start, complete, cancel, archive, reopen, decline, clocks, schedule | moves only along the guard's edges; the log tells what happened; completion has its consequences once; nothing undoes a cancellation | modelled and proved: `SessionLifecycle` |
| Check-in codes | `check_in_codes` per day | `ensure_check_in_code`, `rotate_check_in_code`, `revoke_check_in_code`, the rotation task, settings | one current code, at most one other in grace; nothing valid after the day's end | modelled and proved: `CheckInCodes` |
| Check-in and attendance awards | `check_ins`, `check_in_attempts`, the attendance ledger entries | `check_in`, `mark_checked_in_manually`, `remove_check_in`, the award jobs | one live check-in per member and day; the award matches the attendance that stands, once, across removal and return | partly, proved: `Attendance` |
| Points ledger | `points_ledger`, balances, rules, caps | `award_points`, reversal, manual adjustment, rollup, nightly audit | append-only, idempotent by key, capped, balances are sums | planned; the attendance awards are in `Attendance` |
| Streaks, badges, levels | derived rows | nightly evaluators, manual award | re-running changes nothing | planned |
| Leaderboards | snapshots | nightly snapshot, weekly mail | a snapshot never changes; ranks are a total order | planned |
| Certificates | `certificates`, serial counters | issue, revoke, sync with attendance, hold and release, render | a serial is never reused or skipped; whoever attended has one, and is told once | partly, proved: `Certificates`, those of attendance |
| Notifications and mail | `notifications`, `notification_deliveries`, webhook events; the mail's design in the builder | `notify`, `send_notification`, Resend webhook; place, move, undo, save, restore | one mail of a message; the rows tell what happened; a design is what was edited and is sent as saved | partly, proved: `Mail`, `EmailBuilder` |
| Reminders | scheduled jobs per session | schedule, cancel, send | nobody without a seat is reminded; a moved session moves its reminders | planned |
| Calendar sync | `calendar_events`, `calendar_connections` | upsert and delete tasks, connect, disconnect, token refresh | a held seat is in the calendar once on each of its days | modelled and proved: `CalendarSync` |
| Proposals | `proposals`, presenters | submit, review, resubmit | one session per approved proposal | planned |
| Days and venues | `session_days` | `schedule_session` with days, triggers that derive the session window | the window is the hull of the days; no day with attendance is removed | partly: in `SessionLifecycle` by its guard |
| Materials, photos, albums, stories | upload rows and storage objects | request, finalise, process, purge | an object without a row is collected; a row never shows an unfinished object | planned |
| Avatars | `members.avatar_*`, uploads, two buckets | choose, upload, process, import, anonymise | the last choice wins over a late job; nothing stays after anonymisation | modelled and proved: `Avatar` |
| Surveys, ratings, comments, moderation | rows with windows and states | submit, hide, restore | a hidden item pays nothing back | planned |
| Reactions | the row of a member and a target, and the page's queue of taps | tap, flush, adopt a paint | the last tap stands | modelled and proved: `ReactionQueue` |
| Views | the page's tracker, `story_views`, `content_views` | observe, dwell, flush, record | a second on screen is a view, and none that the server accepts is forgotten | modelled and proved: `ViewTracker` |
| Members, companies, domains, invitations | `members`, `companies` | add, deactivate, reactivate, role change | a write by a stale role fails | partly: deactivation in `Seats` |
| Platform console, impersonation, organisation deletion | console rows | start, expire, delete in phases | a deletion resumes after a crash; an impersonation ends | planned |
| Retention, anonymisation, export | rows past their age | nightly jobs | re-running is harmless | planned |
| Designer's editor | the document, its history, the save, the draft in the browser | edit, undo, save, leave, offer | no work is lost on leaving; the draft is what is on screen | partly, proved: `DesignerEditor`, without publishing and drawing |
| Rendering | template versions, render jobs | render, regenerate | the poster shown is of the last published version | planned |
| Worker process | job queue, watchdog | cron, retries, exhaustion alerts | every job is run or reported | partly: its delivery in each module |
| Other pages and components | no state of their own | render | checked by the repository's own tests | not modelled |

### 1.3 What is hard here

- **Reads before locks.** `transition_session`, `schedule_session`, `publish_session` and the decline trigger read
  the session without a lock, decide, and write by id. The guard trigger sees the row as it is at the write.
- **Clocks against people.** Two cron functions move sessions every minute while administrators do the same.
- **Stale pages.** A member acts on what the page said, and the database on what is true when the call is served.
- **Jobs that arrive late, twice or never.** Awards, calendar writes, mails and reminders all run after the fact.
- **Services that answer late, twice or not at all.** A calendar entry or a mail may exist although its answer was
  lost; the provider's events come in any order.
- **Pages that outlive what they read.** A tap, an edit or a scroll goes on while an answer is on its way, and the
  page may be hidden, left, killed, restored or drawn again.
- **Settings that change under running state.** Rotation and grace seconds, capacity, windows and rules.

The hazards are listed at their lines in `PROJECT.json`.

## 2. The modules

Each component has a module with its state, one action per operation and its properties; an `MC...` module that
names the small sets TLC needs; and a `...Proofs` module with the theorems (`WorkerProofs` and `CalendarProofs` for
the families of `MCWorker`, `BrowserProofs` for the pages of `MCBrowser` and, over it, `EmailProofs` for the mail
builder). `map` in `PROJECT.json` gives the lines
every definition stands for. Operators marked «Mutant» or «Wrong on purpose» change one definition the way a slip in
the code would; they are used to show that each property can fail, and by nothing else.

| Module | Models | Kind |
|---|---|---|
| `WaitingLine` | the promise: seats, a line in the order of joining, a capacity | abstract |
| `Seats` | the rows of `rsvps` and every function that writes them | implements `WaitingLine` |
| `SessionLifecycle` | one session's row, its guard trigger, its clocks and its log | |
| `CheckInCodes` | the rows of `check_in_codes` of one session | |
| `Attendance` | check-ins of one session, the attendance awards and no-shows, the jobs | |
| `CalendarSync` | one seat and its entries in the member's calendar, the two jobs, the connection | worker |
| `Mail` | one message: its jobs, delivery rows, preference, and the provider's events | worker |
| `Avatar` | one member's picture: choices, row, staged and stored objects, the two jobs | worker |
| `Certificates` | the attendance certificates of one session | worker |
| `DesignerEditor` | one design document in one member's editor, others saving it too | browser |
| `ReactionQueue` | one member's reaction on one target | browser |
| `EmailBuilder` | the builder of a message's mail | browser |
| `ViewTracker` | the view tracker of one page | browser |
| `MCWorker`, `MCBrowser` | the four of each kind in one run: a behaviour is one family's or one page's | |

The first four components share the session's state machine and are kept apart on purpose: each one repeats only the
moves its rows depend on, so that each stays small enough to check with two concurrent callers. What one assumes of
another is a theorem there: `Seats`, `CheckInCodes` and `Attendance` let the session move only along edges that
`SessionOnlyMovesAsDrawn` proves to be all there are.

### 2.1 `Seats` and `WaitingLine`

A member's call is three steps, because the system reads at three moments: `Press` draws the page and remembers what
it offered, `Send` begins the transaction (it fixes `now()` and runs `assert_active_member`), and `ReserveSeat` or
`CancelRsvp` is everything from the row lock on the session to the commit. `schedule_session` takes no lock before
its write, so it is `BeginSchedule` and `WriteSchedule`. `promote_next_waitlisted` is an operator, `Promoted`, used
where the code calls it: inside a cancellation, and by the sweep of `promote_waitlist`. Nothing in the repository
enqueues that task, so a sweep happens only when somebody adds the job by hand (`SweepScheduled`), and no property
that passes relies on one. A row is a status and a
position; the position is the waitlist number, not an abstract place, because uniqueness and order of those numbers
is what could go wrong: members leave the middle of the line and the numbers start again at 1 when it empties.

`ImplementsWaitingLine` is refinement: `seated` is the set of confirmed rows, `line` the waitlisted ones, and `ahead`
compares positions. Every operation on the rows is one step of the line or none.

### 2.2 `SessionLifecycle`

`transition_session`, `publish_session` and `schedule_session` read without a lock and write by id: each is a
`Begin...` action that records what was read in `call[a]` and a second action that writes. The guard trigger (`Edge`,
`Allows`) judges the row as it is at the write, and lets an update to the same state pass, which is how a late call
can log a move that did not happen. `Move` is the update with everything that fires on it: the guard, the log row and
the certificate fan-out. The functions that lock first (`publish_past_session`, `delete_session`, the two switches,
the late certificate mode) are one action. Days are a count and the number of them with an open switch:
`schedule_session` may drop days, and completing or cancelling closes them.

`session_presenter_declined` is not modelled: it acts on sessions in `submitted`, `in_review`, `changes_requested`
or `approved`, states that no function commits; only the development seed writes one.

### 2.3 `CheckInCodes`

`now()` is the start of the transaction, and an issuing call waits for the session's lock after it. So a call has a
time of its own, `call[c].at`, and `Lag` bounds how far behind the clock it may be when it writes. The rows are a
sequence in the order of insertion; `_issue_check_in_code` is `Issue`, with its two branches for rotation on and off
and the tie-break between a revoked code and its replacement. `shown` records when a code was last handed to a host,
which the code does not store and the room remembers. `clock_complete_sessions` is a snapshot and a write, and does
not touch codes inserted in between. `rotate_codes` runs once for each session that starts, as DEC-158
(`src/docs/plan/DECISIONS.md`) says, and the codes after it are minted by the host page's reads.

### 2.4 `Attendance`

`check_in` and `remove_check_in` read the session's state in their hook without a lock, so the session may complete
between that read and the commit: two steps each, with the state read kept in the call's record.
`mark_checked_in_manually` holds the session's row and is one step. The unique index on a member and a day is the
guard of the commit (`DayTaken`, `BeingRemoved`), and the advisory lock per member is `Locked`. `Evaluate` is
`evaluate_member_attendance`: it reverses what stands without complete attendance and queues what is owed.
`award_points` reads in one statement and inserts in a later one, without a lock, so a job is `BeginAward` and
`FinishAward`, and up to `Slots` tasks run at once. The completion pass evaluates everybody, then selects the
absentees, then writes one row each: three kinds of step, and it may crash after each (`Fail`) and start over.

A session may be cancelled before its end and after it: the guard has the edges from completed and archived
(`0089:84`), nothing that was paid is taken back then, and `completedAt` (`sessions.completed_at`, which stays on the
row) is what tells a cancelled session that has ended from one that has not. `NothingBeforeTheEnd` is about it.

Abstractions: `open` is published and in progress; `late` in a check-in is a history field, set when the session
completed and was passed over between the call's read and its commit; `running` is a set, so two copies of a job that
have read the same are one, which can only do the same insert; a no-show is a member, and its reversal by a
deletion is not tracked. The rule for a check-in has no cap and no cool-down (`src/docs/plan/05-scoring-engine.md:26`).
The members are not presenters of the session, whose attendance pays nothing.

### 2.5 `CalendarSync`

The state is the reservation's status, the session's days with a version of their window, the rows of
`calendar_events` (a state and Google's id for each day), the connection and its token, the calendar itself
(`events`), and the two jobs: `queue` and `running`. The calls of members and administrators are one action each,
with the trigger that enqueues (`rsvps_notify`, `sessions_notify`, `session_days_changed`). `enqueue_job` and
`CancelThenDelete` are what graphile-worker makes of a key: a waiting job is replaced, a running one only loses its
key, so two jobs of one seat may overlap. A job reads its list once (`Begin`), and then for each item calls Google
(`CallGoogle`, which may be refused, or carried out while the answer is lost) and writes one row (`Record`); it may
die in between (`Crash`). `clientEventId` is the id the program chooses for an entry, on which a create after a lost
answer lands again.

### 2.6 `Mail`

`Notify` fixes whether the job mails at all; `Begin` is an attempt's reads and its delivery row, `Send` the call to
Resend under the message's idempotency key, `RecordOutcome` the update of the row and `Finish` the end of the job or
the throw that queues it again. `Die` falls between any two of them. A row is its status, whether it has the
provider's id, and which times are set. `Happens` is the provider's, `Hook` the webhook, which may be delivered again
and in any order. Texts, templates and the address are three outcomes of `recipient`.

### 2.7 `Avatar`

The row is `photo` (version, source, the answer to «may we use Google's picture?») and `upload` (the row of an
upload); the buckets are `staged` and `copies`; `route` is how far each request of `uploadAvatar` has come, because
the object is stored before the row is written. `LeavePhoto`, `Decline`, `Accept`, `RequestGoogle` and `Anonymise` are
the database functions, each with the job it enqueues. The two jobs share a named queue, so one runs at a time; its
steps are a read of the target, the copy, the record with its conditions (`RecordsCopy`, `RecordsUpload`), and the
purges, and the member's calls come between any two. `Fails` is a step that throws; on the last attempt of an upload it
tells the sheet, and empties the staging bucket if that works. `Silenced` is an attempt that says nothing: the process
dies without running its `catch`, the read of the target, which is outside the `try`, fails
(`process_avatar_upload.ts:69`), or `fail_avatar_upload` fails too and its error is swallowed (`:148`). Google's
picture is taken to be the same at every sign-in, so `avatar_url is not distinct from p_source` (`0223:136`) is always
so and the trigger for a changed one (`0223:186`) never fires; the other order, a picture that changes while it is
copied, is left out. `good` is the set of sources that decode,
fixed at the start, and a member is anonymised when no job of theirs runs, long after deactivation. `choice`, what
the member asked for last, is not stored by the program; the properties compare the row with it.

### 2.8 `Certificates`

The functions of the database are one action each, save `check_in`. It reads the session without a lock and so does
`attendance_certificate_sync` inside it (`0120:83`, `0127:332`), so it is two: `BeginCheckIn` is everything up to the
sync's read, with what the sync decided, and `FinishCheckIn` the commit, with the job if one was asked for. Between the
two the session may complete and fan out. A check-in in flight has inserted its row, whose foreign key holds a key share
of the session's row: `set_session_certificate_mode` and `mark_checked_in_manually` take that row `for update` and wait
(`NoEntry`), the completion's update does not. `missed` is a history: who was seen by neither the fan-out nor the sync,
until a later fan-out finds them. Left out: a check-in that is refused or rolled back, and two check-ins of one member
on two days at once, of which each sync would not see the other's day.

The job is one transaction, and a long one: `Begin` is what it reads and `Commit` what it writes, with the unique
index's last word; the completion, a check-in or a revocation may commit in between. `RollBack` undoes everything, the
serial included, since `allocate_serial` is part of the transaction. `Enqueued` replaces a waiting job of the same
member, and `rerun` remembers a job whose key was taken while it ran. A certificate is its member, its serial, its
state, the cause of a revocation and the notices sent.

### 2.9 `DesignerEditor`

A document is the number of the edit that made it, so that two documents are equal exactly when the editor's
canonical texts are. `tab` is the page: the document on screen, the last saved one and the base it was read at,
`past` and `future`, what a save in flight is for, and whether the offer of a draft is unanswered. `saveDocument`
posts; the server's `Check` and `Write` are two statements, and the answer (`Answered`) or its loss (`AnswerLost`)
comes later, while edits go on. `Mirror` is the effect that writes the draft, later than the change it is about;
`Leave` flushes it, `Crash` does not. `AnotherSaves` is another member's editor. `left` is the unsaved work a page
was left with: the program does not store it, and `LeftWorkIsKept` compares the draft with it.

### 2.10 `ReactionQueue`

`entry` is the queue's entry for the target (the state to be sent, its timer, whether a write is in flight and
whether a newer state waits), `baseline` what the button drew before a run of taps. `Fire` sends or marks; `Answered`
is the rest of `fire`, with its three ways on. `Hide` sends what waits with `keepalive` and takes the entry out, which
leaves a write nobody waits for (`AnsweredLate`) and, when the page returns, timers of entries that are gone
(`LooseTimerFires`). A paint is read at one moment and arrives at another.

### 2.11 `EmailBuilder`

The document is kept as the builder keeps it, in rows with columns of block ids, and stored flat: `toDocument`,
`fromDocument` and `readRows` are those functions, `place` is the three `Place...` actions, and `moveStep`,
`duplicate`, `remove`, `undo`, `redo` and `commit` have their names. The canvas offers `Slots` counted over the rows
it draws (`Measured`), and the handle bars offer the targets of a list with their neighbours (`Bars`). `posted` is
what the save on its way carries and `stored` what the page takes as stored. A save that lands changes the builder's
React key, so that the page, when it is read again, opens anew (`Opened`); both outcomes are in `SaveLands`.
`SaveUnheard` is the save whose row is written and whose answer is «failed» or lost: `saveEmailDesign` reads the row
back after the write (`actions.ts:77`), and when that throws the page is told that nothing was saved. A restore may go
unheard in the same way. `own` is the row the message is sent with, `known` the one the page was opened on, whose id
`restore` deletes, and `unheard` a history: the page missed an answer, and has neither been opened again nor had a
save answered since. The frame is taken to show the document on screen; words, styles, the subject and the selection
move nothing and are left out.

An id the program draws at random is a number no one has yet: a block is a number from 1, the row made for block `n`
is `-n`, and a duplicate's blocks are `CopyOf(id)`, all above those in use. `Filter` stands for `SelectSeq`, whose
recursion the provers do not know. `Platform` is assumed to be `Written`: a document as the program itself writes it.

### 2.12 `ViewTracker`

`onScreen` is the world and `crossed` what the browser has not reported yet; `visibleSince` and `timers` are the
tracker's maps, `waiting` its queue, `sends` the batches on their way. `armed` is `arm` over a set of elements, `Hide`
and `Show` are the two branches of `onVisibility`. A send that failed goes once more unless the page is gone;
`dropped` is a history of what was tried as often as it is tried. `Recorded` is the route with `record_views`: a row
per subject, and a video's end set once; a subject that is gone or that the viewer may not see, which `record_views`
passes over and answers 204 all the same, is left out, so «recorded» means what a visible subject gets. The browser
reports to a visible page only, in the next frame, and a frame is far shorter than a dwell: `DwellEnds` waits for the
report.

### 2.13 `MCWorker` and `MCBrowser`

The four worker families share no row and no object, and neither do the four pages; a product of them would say
nothing more than each alone. So a behaviour of `MCWorker` is one family's, chosen in `Init`, and one of `MCBrowser`
one page's, and the variables of the others stay as they were. A property of one family holds in the others'
behaviours because their initial states satisfy it.

## 3. What is checked

Nine runs pass, three show a disagreement. TLC explores every state of each within its bounds; each finishes in about
two minutes or less.

| Run | Question | Distinct states |
|---|---|---|
| `Seats` | do the rows implement the line, without overbooking, stranding or a changed total after the deadline, with two calls in flight, a sweep and a deactivated member? | 837,584 |
| `Lifecycle` | with two administrators whose reads are stale, are the stamps written once? | 1,013,012 |
| `LifecycleOneAdmin` | with one administrator against clocks and switches: is a cancelled session closed, are certificates fanned out, do due sessions move? | 193,432 |
| `CodesRotating` | with one period, stale calls, revokes, completion and a moved day: one code current and one in grace? | 1,063,858 |
| `CodesSwitched` | with rotation switched at any moment over two days: is every code shown honoured for its grace? | 1,042,138 |
| `Attendance` | with calls, completion, archive, reopening, cancellation, deletion and crashes: nothing before the end, whenever the session is cancelled, and every absentee recorded? | 310,174 |
| `AttendanceReturn` | removed and added again over two days, two jobs at once: is complete attendance paid in the end? | 312,369 |
| `Worker` | four families of jobs under lost answers, crashes and calls that overtake them: one calendar entry a day and a seat that reaches the calendar; delivery rows that tell the mail, and a message that is decided; a picture that follows the last choice, an upload that is answered, no picture left after anonymisation; serials without gaps and a certificate for whoever attended, but across the completion? | 550,710 |
| `Browser` | four pages: a draft that follows the screen and work that is not lost; a last tap that stands and settles; blocks that stand, slots that are honoured, a design that reopens as it was and is sent as the page says, unless its answer was lost; dwells that run for what is looked at, and views that are not forgotten? | 294,340 |
| `RaisedCapacity` | is a seat added by a raised capacity offered to who waits? (no: section 5) | |
| `AttendanceTwice` | is a member paid once? (no: section 5) | |
| `EditorLostUpdate` | does a save replace only the version its page had read? (no: section 5) | |

Why the bounds are enough for these questions. Two calls in flight give every order of two reads and two writes, and
each function touches the rows of one session, so a third adds queueing and no new overlap; `Seats` still has three
members, so that there is somebody ahead, somebody behind and somebody who arrives. Its constraint `OneCallBeside`
keeps two calls in flight for what two calls can do to each other, an edit and the deadline, and one while a sweep
runs, a member is deactivated or the session is over; states beyond it are checked and not explored further. Two
capacities are a raise and a lowering. Two days are the least for which «all days» and «any day» differ, and a ceiling
cut short by the next day. The clocks reach one step past the last instant that any guard compares with. `MaxRows`,
`MaxPosition`, `MaxRevokes`, `MaxCalls` and `MaxFailures` only stop new calls; each run reaches states where a bound
is met after the hazard it aims at (a removed and re-added check-in and a third row; three positions; a revoke in
flight while another commits). In `Worker`, three calls are a seat, a second day and a connection or its loss; one
fault is one lost answer, crash, refusal or expired token at any point; two attempts give a retry that fails too;
three attempts of a mail let one die and another lose its answer; two choices and one upload let a job be overtaken by
a choice and by an upload, and one silence let the last attempt say nothing; two members and four acts let one be
revoked, removed and given attendance again while the other's job runs, and let two check-ins straddle the completion.
In `Browser`, one undo step makes the cut happen with two edits, three versions let another member save between a read
and a write, four taps go past a write in flight, its answer and a hidden page; a design of one block in a row of two
columns with two changes reaches every pair of operations; one element, one post and one frame with two misses reach
the retry and its failure. Larger instances were explored apart and pass: `CalendarSync` with two faults (1,061,313
states), `Mail` with two deaths (147,909), `Avatar` with three choices (800,535) and with two uploads (7,436,926),
`Certificates` with two losses (215,019), `ViewTracker` with two elements (1,018,104), `EmailBuilder` with two blocks
(211,437) and with three changes, one layout and no save (115,111).

Symmetry is used only in runs without liveness, over members or callers that no constant tells apart. Deadlock is
not checked: nobody has to act, and a finished session at the end of the clock, an empty queue or a page at rest may
stop.

**Fairness.** `Seats` (`RaisedCapacity` only): a call that was made is served, time passes, the clocks run every
minute, and a sweep that has begun goes on; a sweep nobody enqueues does not begin. `SessionLifecycle`: the two cron
lines run every minute (`src/worker/src/index.ts:148`), so a due session is weakly fair to be moved. `Attendance`: a
removal that began commits, a job that began goes on, an absentee of a running pass is written; the queue is served in
order and a lock is released with its transaction, so a queued job or pass is begun in the end although it may have to
wait again and again (strong fairness). `Mail` and `Avatar`: the worker takes a job that is ready and goes on with
what it has begun (weak fairness of the worker's steps, failures included). `ReactionQueue`: a timer of a visible page
fires, a request reaches the server, and its answer reaches a visible page. No member, host or administrator is ever
assumed to act, no check-in call is assumed to commit, no provider's event is assumed to arrive, and failures are
finite, as graphile-worker's attempts are.

## 4. What is proved

TLAPS proves, for every value of the constants that the named assumptions allow:

| Theorem | Module | Argument |
|---|---|---|
| `TypeCorrect`, `PositionsAreDistinct` | `SeatsProofs` | types say that exactly the waitlisted rows have a position; distinctness is inductive with them, since a new position exceeds all others |
| `SeatsImplementWaitingLine` | `SeatsProofs` | each action is mapped to a step of the line; needs distinct positions (the first in the line is one member) and that a non-empty finite line has a first |
| `NoStepOverbooks`, `NoCancellationStrands` | `SeatsProofs` | how each step changes the count of confirmed rows (`StepCounts`) |
| `NobodyIsDisplaced` | `SeatsProofs` | only three actions write rows |
| `DeadlineFreezes` | `SeatsProofs` | a row can only be given by a reservation in flight, and one served later than the deadline is refused; the others move rows that exist |
| `LifecycleTypeCorrect`, `SessionOnlyMovesAsDrawn`, `StampsNeverChange`, `LogEndsInTheState` | `SessionLifecycleProofs` | `LifecycleInv`: only committed states occur, what a call read is an edge or a stay, stamps follow the state |
| `CancelledStaysClosed`, `FanOutNotMissed` | `SessionLifecycleProofs` | with one administrator (`OneAdmin`), `OneAdminInv`: a schedule in flight was begun before any cancellation and carries the certificate mode that stands, since its author is the only one who could have cancelled or changed it meanwhile |
| `CodesTypeCorrect` | `CheckInCodesProofs` | nothing is dated in the future, although calls are late |
| `OneCodeAndOneInGrace`, `IssuedCodesKeepTheirEnd` | `CheckInCodesProofs` | with one period not shorter than the grace (`OnePeriod`): `PeriodInv`, that unrevoked codes of a day are a period apart and bounded by period and grace |
| `ShownStaysHonoured` | `CheckInCodesProofs` | with one period switched on and off (`OnOrOff`) and days that stand (`DaysStand`), `HonourInv`: revoked or not, a row ends no earlier than its period and the grace from its start, or at the ceiling, so a hand-out in its period is covered; a successor shortens only a row that is a period old, and no call is older than the lag |
| `AttendanceTypeCorrect` | `AttendanceProofs` | one standing check-in per member and day, with the finiteness of the ledger that the epoch's count needs |
| `NothingBeforeTheEndHolds` | `AttendanceProofs` | `EndInv`: before the first completion there is no work either, no call believes that the session has ended, and a session that is completed or archived has `completed_at`, which nothing takes back; no part is inductive without the others |
| `TakenBackWithReasonHolds` | `AttendanceProofs` | an evaluation reverses only the awards of members it finds incomplete, and no other step but a deletion takes an award away |
| `OneJobPaysOnce` | `AttendanceProofs` | with one job at a time (`Slots = 1`), what a job read of the ledger is still so when it inserts |
| `RowsTellTheMail` | `WorkerProofs` | `MailInv`: a row that is queued is that of the attempt in flight or of one that died, one that has the provider's id tells of a mail that was taken, and all attempts share one idempotency key |
| `PictureFollowsChoice`, `NoPictureIsLeft` | `WorkerProofs` | `PictureInv`: the version the row names is stored and its source agrees with the last choice; what a running job made is stored until it purges, and what it purges for is still named or a later call left a job; no copy exists that no row, upload or job would lead to; a task has one keyed job. With `StagedAreFound`, once an upload has had its row, a staged object is found too: the row or a job leads to it, and an anonymised member's job wipes both buckets |
| `CertificatesInductive`, `SerialsWithoutGaps`, `NobodyForgotten` | `WorkerProofs` | `CertificatesInv`: a live row is a member's only one and stands beside none revoked for cause; serials are the rows' places, and notices follow the state; whoever is owed a certificate and was not `missed` has a row or a job, and a running job that will write nothing leaves nobody without or is run again. `EntryInv` is its part about check-ins in flight: what each read is still good for what it will commit, or its member will be `missed`, since a mode that is switched or a hand-mark waits for it and only the completion passes by |
| `OneEntryPerDay`, `WorkerTypeCorrect` | `CalendarProofs` | `CalendarInv`: rows, lists and running items name their own day's entry, of which Google has one an id; a job waits or runs, once, and of each task one has the key |
| `HeldSeatReachesCalendar` | `CalendarProofs` | `ReachInv`: while the seat is held nothing deletes; until an upsert waits, each day is in the calendar, shown as failed, or an item of an upsert that runs, and so is each entry of a day that is gone; a day that was left over when a job began is never a day again |
| `DraftIsTheScreen`, `WorkOutlivesThePage` | `BrowserProofs` | `EditorInv`: the page of an unanswered offer has not mirrored yet, and whoever waits for the answer to a save is an open page |
| `TheLastTapStands` | `BrowserProofs` | `ReactionInv`: the entry holds what was asked for and is drawn; unless one overtook another, requests are served in order; with nothing left to send the last request on its way, or else the row, is what was asked for; one request is the entry's; no more timers run loose than the page was hidden |
| `DwellsRunForTheWatched`, `NothingSeenIsForgotten` | `BrowserProofs` | `ViewsInv`: what the browser reported of a mounted element is so until it crosses again, and no entry leaves the queue but in a batch, and no batch but for the server or after its last try |
| `NoBlockIsLost`, `BrowserTypeCorrect` | `EmailProofs` | `EmailInv`: every document of the history is a `Sheet`, whose rows have the columns of their layout, hold each block once, are told apart by id and by block, and are numbered below the next id, a row with a block's number being that block's; each operation takes a sheet to a sheet |
| `SavedMailReopens` | `EmailProofs` | what a sheet is stored as opens on the sheet without its empty rows, whether the rows are written or not |
| `SavedMailIsSent` | `EmailProofs` | `StoredIsSent`: what the page takes as stored is what the server holds, or that read once, unless the page was not told of a write; and a document that is read once more is as it was (`ReadsOnce`), since every stored document opens on a sheet |

The behaviours of `MCWorker` and `MCBrowser` are those of eight components side by side, each of which leaves the
others' variables alone; so each invariant is proved of its component's `Next` and then lifted (`PageStep` and the
like), and the families' theorems are about the same `Spec` that the runs check.

The assumptions are those on the constants: `SeatsAssumption`, `LifecycleAssumption`, `CodesAssumption`,
`AttendanceAssumption`, and `WorkerAssumption` and `BrowserAssumption`, which collect those of the eight components.
TLC evaluates them in every run. Some theorems have a premise more, which a run satisfies and without which they are
false or out of reach:

- `OneCodeAndOneInGrace` and `IssuedCodesKeepTheirEnd` have `OnePeriod` (run `CodesRotating`; section 6);
- `ShownStaysHonoured` has `OnOrOff` and `DaysStand` (run `CodesSwitched`): a day that is lengthened has a later ceiling
  before its whole-day code is read again, and a period that is shortened ends codes sooner than they promised;
- `CancelledStaysClosed` and `FanOutNotMissed` have `OneAdmin` (run `LifecycleOneAdmin`): with two, a schedule read
  before completion writes the other's setting back (section 6);
- `OneJobPaysOnce` has `Slots = 1`; with two jobs at once it is what `AttendanceTwice` refutes;
- `HeldSeatReachesCalendar` has `HeldOnce` (`MayRebook` FALSE) and `NoDaySwapped`, as the run `Worker` does: a seat
  cancelled and taken again may lose its entry to the first cancellation's job, and a day replaced by another in one
  save is announced by no trigger (section 6.2).

The mail builder's proofs are about `FlattenSeq`, a recursion over a sequence, and induction takes an operator no
installed prover can instantiate. `SeqInduct` goes around it for a *set* of sequences, by a least counterexample
(`WFMin`): a set with the empty sequence that is closed under `Append` holds all. From it follow what `FlattenSeq` makes
of an appended element, of two sequences one after the other and of a sequence of single elements, and with them what
`Order`, `Filter`, `Flattened` and `tidy` do to a document of any length.

`NobodyIsDisplaced`, `SessionOnlyMovesAsDrawn`, `LogEndsInTheState`, `IssuedCodesKeepTheirEnd`,
`TakenBackWithReasonHolds` and `OneJobPaysOnce` state properties that no passing run checks: the theorem says more than
a run could.

The inductive invariants were checked by TLC as invariants, most of them on larger instances than those of the runs:
`CalendarInv` and `ReachInv` over 5,030,468 states, `CalendarInv` with a seat that may be taken again, three sets of
days and two faults over 5,272,812, `PictureInv` with `StagedAreFound` over 7,436,926, `CertificatesInv` over 215,019,
the invariants of the four pages over 294,340, `EmailInv` over 89,060 and `ReactionInv` with two kinds and two hidden
pages over 2,676,276. `ReachInv` is where that mattered most: that a deletion waiting beside a held seat is
impossible, and that a job working through an old list of days has a successor, are both false without the premises.

Only model-checked: everything that says something must happen (`DueSessionsMove`,
`AttendeesArePaid`, `AbsenteesAreRecorded`, `MessageIsDecided`, `UploadIsAnswered`, `TapsSettle`), which is out of the
prover's reach, and `SlotIsHonoured`, the action property of the email builder: it compares a list cut at the slot, with
what moves taken out of both parts, with the list after the step, for each of the ways to place, and its proof needs the
equations of `Remove` and `SubSeq` around an index, which the lemmas of `EmailProofs` do not have yet.

## 5. Disagreements that a run shows

- `RaisedCapacity`: `promote_waitlist.ts:10` says the job exists for «the OTHER way a seat frees: an admin raising a
  session's capacity», and `:17` that it sweeps every open session. Nothing enqueues it, and `schedule_session` writes
  the capacity and promotes nobody: the added seat stays free beside a member who waits, until a cancellation hands it
  on or a caller takes it. The run assumes that calls are served, that time passes and that the clocks run.
- `AttendanceTwice`: two award jobs of one member for check-ins on two days both find nothing standing, and both
  pay. With one job at a time `PaidAtMostOnce` holds (`Days` 2, `Slots` 1, `MaxRows` 3).
- `EditorLostUpdate`: `saveDesignDocument` compares `updated_at` in one statement and updates by id in the next. Two
  saves of one base that overlap both pass, and the first is replaced by the second although «silently discarding one
  of them is not recoverable».

## 6. Disagreements that no run keeps

### 6.1 Definitions that TLC refutes

Each of these is a definition of its module that states what a document says, and that TLC refutes on the instance
given. They are not among the runs.

| Definition | What happens | Instance |
|---|---|---|
| `Seats!ConfirmedWithinCapacity` | the capacity is lowered below the confirmed rows | that of `Seats` |
| `Seats!NobodyJumpsTheLine` | after a raise, the next caller takes the seat before those who wait | that of `Seats` |
| `Seats!NoPromotionAfterStart` | a cancellation served after the start still promotes | that of `Seats` |
| `Seats!LeavingTheWaitlistIsFree` | a member leaving the waitlist, promoted before the call is served, is late | that of `Seats` |
| `Seats!DeactivatedHoldNoSeat` | a deactivated member keeps the seat | `Removable` not empty |
| `SessionLifecycle!LogIsAPath` | a late completion logs a move from a state the session had left | one administrator |
| `SessionLifecycle!HistoryIsNotRescheduled` | a schedule read before completion is written after it | one administrator, two windows |
| `SessionLifecycle!OnlyReopenUnarchives` | a late completion takes an archived session back to completed | two administrators |
| `SessionLifecycle!SwitchedOnMeansFannedOut` | a schedule writes the certificate mode back after completion, and no job is made | two administrators |
| `SessionLifecycle!DeletedIsNotLive` | a deleted draft is published by a call from another page | one administrator |
| `CheckInCodes!OneCurrentOneInGrace` | a grace longer than the period leaves three codes alive | `Rotations` {1}, `Grace` 2 |
| `CheckInCodes!OneCurrentOneInGrace` | a whole-day code of a day that was lengthened is not ended when rotation is switched on | the day [0, 4] made [0, 5], `After` 0, `Rotations` {0, 2} |
| `SessionLifecycle!UnnamedSettingsUnchanged` | `schedule_session` writes back the walk-in setting and certificate mode it read, over a value saved since | one administrator, two windows |
| `CheckInCodes!HandedOutIsLive` | completion by the clock closes the live codes, and the host's next reads return the closed code | `Rotations` {2} |
| `CheckInCodes!HandedOutIsLive` | after the period is lengthened the room is shown an expired code | `Rotations` {1, 3} |
| `CheckInCodes!OneCodeForTheDay` | with rotation off, completion ends the day's code and a read mints another | `Rotations` {0} |
| `CheckInCodes!OneFixedCode` | a revoke with an older `now()` leaves two whole-day codes; with `Lag` 0 it holds | `Rotations` {0}, `Lag` 1 |
| `Attendance!DeletedPaysNothing` | a job that began before a deletion writes its award after it | one member, `Days` 1, `MaxRows` 2 |
| `Attendance!AwardNeedsAttendance` | a removal between a job's check and its insert leaves the award standing | one member, `Days` 1, `MaxRows` 2 |
| `Attendance!EveryAttendeeIsPaid` | a check-in that straddles completion and the pass is evaluated by nobody | one member, `Days` 1, `MaxRows` 2 |
| `Certificates!EveryAttendeeHasCertificate` | a check-in whose sync finds the session running commits after the completion's fan-out: it gets no job, although `0127:360` says that the fan-out will find this member | that of `Worker` |
| `Avatar!NoObjectRemains` | an object staged by a request that never wrote its row is not found at anonymisation (REQ-PRF-011: no object remains) | that of `Worker` |
| `EmailBuilder!AlwaysSavedIsSent` | the row is written, the answer is lost, the admin undoes to what was stored before: the page does not say «not saved» and the new mail is sent (`builder.tsx:66`) | that of `Browser` |

Shortening the period while codes are alive sets two acceptance lines of REQ-CHK-002 against each other (a code
handed out keeps its time; one other code at most is in grace), so it is not counted as a disagreement.

### 6.2 Met while modelling the worker

- **Calendar.** A create whose answer was lost leaves an entry without an id; if the seat is cancelled then,
  `calendar_delete` finds nothing to delete and the entry stays (REQ-CAL-006). A seat cancelled and taken again
  (`MayRebook` TRUE) may lose its entry to the first cancellation's job: `calendar_delete` does not look at the
  reservation, and the confirmed branch of `rsvps_notify` does not cancel it. Two upserts that overlap may leave the
  older window in the calendar (REQ-CAL-005). A day removed while its entry is being created fails the row's foreign
  key, and the entry is known to nobody. A day replaced by another in one save is announced by no trigger
  (`0111`), which `0112`'s comment expects. `SeatReachesCalendar` says what is promised beside these: it is about
  seats that are held when the jobs have ended.
- **Mail.** A late «sent» after «bounced» moves the status back (`0030:171`). An event that arrives before the row
  has the provider's id is answered 200 and lost. A mail that was accepted with its answer lost, followed by an
  opt-out or a refusal on the retry, leaves only a row that says «failed»; so does an update of the row that fails
  after the send.
- **Avatar.** `purgeStaging` lists the member's prefix, so the clean-up of one job may delete an upload staged
  meanwhile, which then fails; the header of `process_avatar_upload.ts` says such an upload loses nothing. A refused
  Google picture returns without purging the upload it replaced. An object staged by a request that never wrote its
  row is not found at anonymisation when no upload of the member ever got one (`import_avatar.ts` says no object
  remains); `AnonymisedLeavesNoPicture` excepts this and checks both buckets. A process that dies on the last attempt,
  or a database error there, leaves the sheet polling: `fail_avatar_upload`'s own failure is swallowed.
- **Certificates.** A removal of the check-in that commits between `issue_certificate`'s check and its commit leaves
  a live certificate of somebody who did not attend (`0209:227`). A check-in that straddles the completion is forgotten
  until the mode is switched off and on (6.1); two check-ins of one member on the two days a session needs, committed at
  once after it, would not see each other, and neither would ask.

### 6.3 Met while modelling the pages

- **Designer's editor.** The callback of «publish» sees the document of the render it was made in. Edits made while
  the navigation after «save and leave» is pending are neither guarded nor drafted. A refused save of a live poster
  is shown as a conflict.
- **Reactions.** A write that failed does not always put back what the server held: the baseline is what the page
  drew before the run of taps, and a write answered within the run may have changed the row
  (`like-button.tsx:15` says otherwise).
- **Email builder.** The library offers the one-column layout; its row is neither drawn nor stored while it is empty,
  but `place` counts it, so a slot after it puts the block one place too high, and an arrow may swap with it with
  nothing to see. `SlotIsHonoured` is about documents without such a row. A save that lands reads the page again under
  a new key: the undo history, and edits made since the click, go without a question. A save that is answered «failed»
  may have been written, and a restore too; the page then shows as saved what is no longer sent, until it is opened
  again (6.1).
- **Views.** Closing the story viewer flushes without waiting and refreshes the page, so the refresh may be read
  before the views are written. A batch answered 401 is dropped, and a subject `record_views` passes over is answered as
  recorded.

## 7. What is not modelled

`components` in `PROJECT.json` lists every part with its status and the reason. Left out of the modelled parts: the
texts and recipients of notices, audit rows, the authorisation of a caller by role (except that a member is active,
and is read when the transaction begins), event types that never take seats, the overlap rule and the rate limit of
check-in (they only refuse), the presenters' awards and certificates, publishing in the designer, the words and styles
of a mail, a stored design the builder itself would not write (with an id twice, or a row short of a column), the
image work of an avatar, and Google's and Resend's own rules beyond their answers. Other pages, rendering and layout
have no state of their own: most of the TypeScript of the repository draws rows, shapes input or compiles a mail to
HTML, and there is nothing in it that interleaves.

## 8. The plan

In order of importance to a member:

1. `PointsLedger`: caps and cool-downs read without a lock (`0177:235`), reversal that frees a place, presenters'
   awards, the nightly audit.
2. `Reminders`, composed with the rows of `Seats`: keyed jobs, a moved session, a cancellation that misses a running
   job.
3. `Stories`, materials and photos: two-phase uploads and late results, after `Avatar`.
4. `Leaderboards` and `WeeklyDigest`: final snapshots, ranks as pure operators against a reference.
5. `Deletion` and `Impersonation`: phases that resume after a crash (`delete_org`: objects first, rows second).
6. Publishing in the designer, over `DesignerEditor`.

Hazards that are known and not in `PROJECT.json`: a deactivation that leaves reservations (`0005:251`), a reservation
that overtakes the line after a raise (`0045:84`), a job that runs after `delete_session` (`0215:180`), a late «sent»
(`0030:171`). Section 6 describes them.

Theorems worth having next: `SlotIsHonoured`, from `EmailInv` and equations of `SubSeq` and `Remove` by `SeqInduct`;
with the modules to come, that a final snapshot never changes and that balances are sums.
