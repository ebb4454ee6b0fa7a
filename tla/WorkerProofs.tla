--------------------------- MODULE WorkerProofs ---------------------------
(***************************************************************************)
(* What the worker's jobs keep, whatever the constants: however often a    *)
(* mail is tried, dies or is reported again, the member has one and the    *)
(* rows tell of it truly; no picture comes back over the member's choice   *)
(* or stays behind the member's upload rows; serials have no gap and       *)
(* nobody who attended, but over the completion, is forgotten.             *)
(*                                                                         *)
(* A section for each family of jobs proves that its invariant holds at    *)
(* the start and after every step of its own module; the last one carries  *)
(* the invariants over to MCWorker, whose steps are those of one family    *)
(* while the others stand still.                                           *)
(***************************************************************************)
EXTENDS MCWorker, FiniteSetTheorems, WellFoundedInduction, TLAPS

\* Each family's module brings its own Cardinality, which is this one.
LEMMA CountIs ==
    /\ \A S : Mailing!Cardinality(S) = Cardinality(S)
    /\ \A S : Picture!Cardinality(S) = Cardinality(S)
    /\ \A S : Issuing!Cardinality(S) = Cardinality(S)
  BY DEF Cardinality, Mailing!Cardinality, Picture!Cardinality, Issuing!Cardinality

(***************************************************************************)
(* One message to one member (Mail).                                       *)
(***************************************************************************)

Step == {"none", "send", "answer", "end"}
Answer == {"none", "ok", "error", "permanent"}
Job == [state : {"none", "ready", "running", "gone", "dead"}, email : BOOLEAN, tries : Nat]

\* Rows of ds, given the keys the provider took, the attempt and the deaths.
RowsTrue(ds, keys, att, dead) ==
    /\ ds \in Seq(Mailing!Delivery)
    /\ \A i \in DOMAIN ds :
        /\ ds[i].status \in {"sent", "delivered", "complained"} \/ ds[i].sentAt => ds[i].id
        /\ ds[i].id => keys # {}
        /\ ds[i].status = "queued" =>
               i \in dead \/ (att.step \in {"send", "answer"} /\ i = Len(ds))

\* One key at most; an attempt that was told "ok" told of a mail that was
\* taken, and one that runs has its row.
AttemptTrue ==
    /\ accepted \subseteq {0}
    /\ job \in Job /\ attempt \in [step : Step, answer : Answer]
    /\ attempt.step # "none" => job.state = "running" /\ Len(deliveries) >= 1
    /\ attempt.step \in {"answer", "end"} /\ attempt.answer = "ok" => accepted # {}

MailInv == RowsTrue(deliveries, accepted, attempt, died) /\ AttemptTrue

---------------------------------------------------------------------------
(* Rows.                                                                   *)

LEMMA Written ==
    ASSUME MailInv
    PROVE  /\ deliveries \in Seq(Mailing!Delivery) /\ Len(deliveries) \in Nat
           /\ DOMAIN deliveries = 1..Len(deliveries)
           /\ \A i \in DOMAIN deliveries : deliveries[i] \in Mailing!Delivery
<1>1. deliveries \in Seq(Mailing!Delivery)
  BY DEF MailInv, RowsTrue
<1> QED
  BY <1>1

LEMMA MovedIs ==
    ASSUME NEW row \in Mailing!Delivery, NEW status \in Mailing!Status
    PROVE  /\ Mailing!Moved(row, status) \in Mailing!Delivery
           /\ Mailing!Moved(row, status).status = status
           /\ Mailing!Moved(row, status).id = row.id
           /\ Mailing!Moved(row, status).sentAt <=> row.sentAt
                 \/ status \in {"sent", "delivered"}
  BY DEF Mailing!Moved, Mailing!Delivery

\* A job whose state moves is a job.
LEMMA JobMoves ==
    ASSUME job \in Job, NEW s \in {"ready", "gone", "dead"}, job' = [job EXCEPT !.state = s]
    PROVE  job' \in Job
  BY DEF Job

LEMMA NoAttemptIs == Mailing!NoAttempt \in [step : Step, answer : Answer]
      /\ Mailing!NoAttempt.step = "none"
  BY DEF Mailing!NoAttempt, Step, Answer

---------------------------------------------------------------------------
(* One lemma per action.                                                   *)

LEMMA MailStart == ASSUME Mailing!Init PROVE MailInv
<1>1. RowsTrue(deliveries, accepted, attempt, died)
  <2>1. deliveries = <<>>
    BY DEF Mailing!Init
  <2>2. deliveries \in Seq(Mailing!Delivery) /\ Len(deliveries) = 0
    BY <2>1
  <2>3. DOMAIN deliveries = 1..0
    BY <2>2
  <2> QED
    BY <2>2, <2>3 DEF RowsTrue
<1>2. AttemptTrue
  BY NoAttemptIs DEF Mailing!Init, AttemptTrue, Job
<1> QED
  BY <1>1, <1>2 DEF MailInv

\* The job mails when its message must or the member wants it: both are Boolean.
MailChoices ==
    /\ optional \in BOOLEAN /\ wants \in BOOLEAN
    /\ recipient \in {"ok", "no address", "no template"}

LEMMA NotifyKeeps == ASSUME MailInv, MailChoices, Mailing!Notify PROVE MailInv'
<1>1. /\ job.state = "none" /\ UNCHANGED <<attempt, deliveries, accepted, died>>
      /\ job' = [state |-> "ready", email |-> ~optional \/ wants, tries |-> 0]
  BY DEF Mailing!Notify, Mailing!provider
<1>2. job' \in Job
  BY <1>1 DEF Job, MailChoices
<1>3. attempt.step = "none"
  BY <1>1 DEF MailInv, AttemptTrue
<1> QED
  BY <1>1, <1>2, <1>3 DEF MailInv, AttemptTrue, RowsTrue

LEMMA MailBeginKeeps == ASSUME MailInv, Mailing!Begin PROVE MailInv'
<1>1. job.state = "ready" /\ UNCHANGED <<accepted, died>>
  BY DEF Mailing!Begin, Mailing!provider
<1>2. attempt.step = "none"
  BY <1>1 DEF MailInv, AttemptTrue
<1>3. RowsTrue(deliveries, accepted, attempt, died) /\ AttemptTrue /\ job \in Job
  BY DEF MailInv, AttemptTrue
<1>4. CASE Mailing!Reason # ""
  <2>1. /\ job' = [job EXCEPT !.state = "gone", !.tries = @ + 1]
        /\ UNCHANGED <<attempt, deliveries>>
    BY <1>4 DEF Mailing!Begin
  <2>2. job' \in Job
    <3>1. job.tries + 1 \in Nat
      BY <1>3 DEF Job
    <3> QED
      BY <1>3, <2>1, <3>1 DEF Job
  <2> QED
    BY <1>1, <1>2, <1>3, <2>1, <2>2 DEF MailInv, AttemptTrue, RowsTrue
<1>5. CASE Mailing!Reason = ""
  <2>1. /\ job' = [job EXCEPT !.state = "running", !.tries = @ + 1]
        /\ attempt' = [step |-> "send", answer |-> "none"]
        /\ deliveries' = Append(deliveries, Mailing!NewDelivery)
    BY <1>5 DEF Mailing!Begin
  <2>2. job' \in Job /\ job'.state = "running"
    <3>1. job.tries + 1 \in Nat
      BY <1>3 DEF Job
    <3> QED
      BY <1>3, <2>1, <3>1 DEF Job
  <2>3. Mailing!NewDelivery \in Mailing!Delivery /\ Mailing!NewDelivery.status = "queued"
        /\ ~Mailing!NewDelivery.sentAt /\ ~Mailing!NewDelivery.id
    BY DEF Mailing!NewDelivery, Mailing!Delivery, Mailing!Status
  <2>4. deliveries \in Seq(Mailing!Delivery) /\ Len(deliveries) \in Nat
        /\ DOMAIN deliveries = 1..Len(deliveries)
    BY Written
  <2>5. /\ deliveries' \in Seq(Mailing!Delivery) /\ Len(deliveries') = Len(deliveries) + 1
        /\ DOMAIN deliveries' = DOMAIN deliveries \cup {Len(deliveries')}
        /\ deliveries'[Len(deliveries')] = Mailing!NewDelivery
        /\ \A i \in DOMAIN deliveries : deliveries'[i] = deliveries[i]
    BY <2>1, <2>3, <2>4
  <2>6. attempt' \in [step : Step, answer : Answer] /\ attempt'.step = "send"
    BY <2>1 DEF Step, Answer
  <2>7. RowsTrue(deliveries, accepted, attempt, died)'
    BY <1>1, <1>2, <1>3, <2>3, <2>5, <2>6 DEF RowsTrue
  <2>8. AttemptTrue'
    BY <1>1, <1>3, <2>2, <2>4, <2>5, <2>6 DEF AttemptTrue
  <2> QED
    BY <2>7, <2>8 DEF MailInv
<1> QED
  BY <1>4, <1>5

LEMMA SendKeeps ==
    ASSUME MailInv, NEW o \in {"ok", "lost", "busy", "refused"}, Mailing!Send(o) PROVE MailInv'
<1>1. attempt.step = "send" /\ UNCHANGED <<job, deliveries, died>>
  BY DEF Mailing!Send
<1>2. RowsTrue(deliveries, accepted, attempt, died) /\ AttemptTrue
  BY DEF MailInv
<1>3. /\ accepted \subseteq accepted' /\ accepted' \subseteq {0}
      /\ o \in {"ok", "lost"} => accepted' # {}
  BY <1>2 DEF Mailing!Send, Mailing!Accept, Mailing!provider, AttemptTrue,
       Mailing!idempotencyKey
<1> DEFINE a == CASE o = "ok" -> "ok" [] o = "refused" -> "permanent" [] OTHER -> "error"
<1>4. a \in Answer /\ (a = "ok" => o = "ok")
  BY DEF Answer
<1>5. attempt' = [attempt EXCEPT !.step = "answer", !.answer = a]
  BY DEF Mailing!Send, Mailing!Answered
<1> HIDE DEF a
<1>6. attempt' \in [step : Step, answer : Answer] /\ attempt'.step = "answer"
      /\ attempt'.answer = a
  BY <1>2, <1>4, <1>5 DEF AttemptTrue, Step
<1>7. RowsTrue(deliveries, accepted, attempt, died)'
  BY <1>1, <1>2, <1>3, <1>6 DEF RowsTrue
<1>8. AttemptTrue'
  BY <1>1, <1>2, <1>3, <1>4, <1>6 DEF AttemptTrue
<1> QED
  BY <1>7, <1>8 DEF MailInv

\* The row of the attempt is said to be sent only when it was.
LEMMA OutcomeIs ==
    ASSUME MailInv, attempt.step = "answer"
    PROVE  /\ Mailing!Outcome \in Mailing!Delivery
           /\ Mailing!Outcome.status \in {"sent", "failed"}
           /\ Mailing!Outcome.status = "sent" \/ Mailing!Outcome.sentAt => Mailing!Outcome.id
           /\ Mailing!Outcome.id => accepted # {}
<1> DEFINE n == Len(deliveries)
           r == deliveries[n]
<1>1. n \in DOMAIN deliveries /\ r \in Mailing!Delivery
  <2>1. n >= 1
    BY DEF MailInv, AttemptTrue
  <2> QED
    BY <2>1, Written
<1>2. (r.sentAt => r.id) /\ (r.id => accepted # {})
  BY <1>1 DEF MailInv, RowsTrue
<1>3. attempt.answer = "ok" => accepted # {}
  BY DEF MailInv, AttemptTrue
<1>4. Mailing!Outcome = IF attempt.answer = "ok" THEN [Mailing!Moved(r, "sent") EXCEPT !.id = TRUE]
                ELSE Mailing!Moved(r, "failed")
  BY DEF Mailing!Outcome
<1> HIDE DEF r
<1>5. CASE attempt.answer = "ok"
  <2>1. Mailing!Moved(r, "sent") \in Mailing!Delivery
        /\ Mailing!Moved(r, "sent").status = "sent"
    BY <1>1, MovedIs DEF Mailing!Status
  <2>2. Mailing!Outcome \in Mailing!Delivery /\ Mailing!Outcome.status = "sent"
        /\ Mailing!Outcome.id
    BY <1>4, <1>5, <2>1 DEF Mailing!Delivery
  <2> QED
    BY <1>3, <1>5, <2>2
<1>6. CASE attempt.answer # "ok"
  <2>1. /\ Mailing!Outcome \in Mailing!Delivery /\ Mailing!Outcome.status = "failed"
        /\ Mailing!Outcome.id = r.id
        /\ Mailing!Outcome.sentAt <=> r.sentAt
    BY <1>1, <1>4, <1>6, MovedIs DEF Mailing!Status
  <2> QED
    BY <1>2, <2>1
<1> QED
  BY <1>5, <1>6

LEMMA MailRecordKeeps == ASSUME MailInv, Mailing!RecordOutcome PROVE MailInv'
<1>1. /\ attempt.step = "answer" /\ UNCHANGED <<job, accepted, died>>
      /\ deliveries' = [deliveries EXCEPT ![Len(deliveries)] = Mailing!Outcome]
      /\ attempt' = [attempt EXCEPT !.step = "end"]
  BY DEF Mailing!RecordOutcome, Mailing!provider
<1>2. RowsTrue(deliveries, accepted, attempt, died) /\ AttemptTrue
  BY DEF MailInv
<1>3. Len(deliveries) >= 1
  BY <1>1, <1>2 DEF AttemptTrue
<1>4. deliveries \in Seq(Mailing!Delivery) /\ Len(deliveries) \in Nat
      /\ DOMAIN deliveries = 1..Len(deliveries)
  BY Written
<1>5. /\ Mailing!Outcome \in Mailing!Delivery /\ Mailing!Outcome.status \in {"sent", "failed"}
      /\ Mailing!Outcome.status = "sent" \/ Mailing!Outcome.sentAt => Mailing!Outcome.id
      /\ Mailing!Outcome.id => accepted # {}
  BY <1>1, OutcomeIs
<1>6. /\ deliveries' \in Seq(Mailing!Delivery) /\ Len(deliveries') = Len(deliveries)
      /\ DOMAIN deliveries' = DOMAIN deliveries
      /\ deliveries'[Len(deliveries)] = Mailing!Outcome
      /\ \A i \in DOMAIN deliveries : i # Len(deliveries) => deliveries'[i] = deliveries[i]
  BY <1>1, <1>3, <1>4, <1>5
<1>7. /\ attempt' \in [step : Step, answer : Answer] /\ attempt'.step = "end"
      /\ attempt'.answer = attempt.answer
  BY <1>1, <1>2 DEF AttemptTrue, Step
<1>8. RowsTrue(deliveries, accepted, attempt, died)'
  BY <1>1, <1>2, <1>5, <1>6, <1>7 DEF RowsTrue
<1>9. AttemptTrue'
  BY <1>1, <1>2, <1>6, <1>7 DEF AttemptTrue
<1> QED
  BY <1>8, <1>9 DEF MailInv

\* An attempt that ends leaves no row that only it explained.
LEMMA EndKeeps ==
    ASSUME MailInv, NEW s \in {"ready", "gone", "dead"}, job' = [job EXCEPT !.state = s],
           attempt' = Mailing!NoAttempt, UNCHANGED <<deliveries, accepted>>, died \subseteq died',
           attempt.step \in {"send", "answer"} => Len(deliveries) \in died'
    PROVE  MailInv'
<1>1. RowsTrue(deliveries, accepted, attempt, died) /\ AttemptTrue
  BY DEF MailInv
<1>2. job' \in Job
  BY <1>1, JobMoves DEF AttemptTrue
<1>3. attempt'.step = "none" /\ attempt' \in [step : Step, answer : Answer]
  BY NoAttemptIs
<1>4. RowsTrue(deliveries, accepted, attempt, died)'
  BY <1>1, <1>3 DEF RowsTrue
<1>5. AttemptTrue'
  BY <1>1, <1>2, <1>3 DEF AttemptTrue
<1> QED
  BY <1>4, <1>5 DEF MailInv

LEMMA FinishKeeps == ASSUME MailInv, Mailing!Finish PROVE MailInv'
<1>1. /\ attempt.step = "end" /\ UNCHANGED <<deliveries, accepted, died>>
      /\ attempt' = Mailing!NoAttempt
      /\ \E s \in {"ready", "gone", "dead"} : job' = [job EXCEPT !.state = s]
  BY DEF Mailing!Finish, Mailing!End, Mailing!Throw, Mailing!provider
<1> QED
  BY <1>1, EndKeeps

LEMMA DieKeeps == ASSUME MailInv, Mailing!Die PROVE MailInv'
<1>1. /\ UNCHANGED <<deliveries, accepted>> /\ died' = died \cup {Len(deliveries)}
      /\ attempt' = Mailing!NoAttempt
      /\ \E s \in {"ready", "gone", "dead"} : job' = [job EXCEPT !.state = s]
  BY DEF Mailing!Die, Mailing!Throw, Mailing!provider
<1> QED
  BY <1>1, EndKeeps

\* The provider's event moves only rows that carry the mail's id.
LEMMA HookKeeps ==
    ASSUME MailInv, NEW e \in Mailing!Event, NEW again \in BOOLEAN, Mailing!Hook(e, again) PROVE MailInv'
<1>1. deliveries' = Mailing!MovedByProvider(e) /\ UNCHANGED <<job, attempt, accepted, died>>
  BY DEF Mailing!Hook
<1>2. RowsTrue(deliveries, accepted, attempt, died) /\ AttemptTrue
  BY DEF MailInv
<1>3. /\ deliveries \in Seq(Mailing!Delivery) /\ Len(deliveries) \in Nat
      /\ DOMAIN deliveries = 1..Len(deliveries)
      /\ \A i \in DOMAIN deliveries : deliveries[i] \in Mailing!Delivery
  BY Written
<1>4. e \in Mailing!Status /\ e # "queued"
  BY DEF Mailing!Event
<1> DEFINE row(i) == IF deliveries[i].id THEN Mailing!Moved(deliveries[i], e) ELSE deliveries[i]
<1>5. \A i \in DOMAIN deliveries :
        /\ row(i) \in Mailing!Delivery /\ row(i).id = deliveries[i].id
        /\ deliveries[i].id => row(i).status # "queued"
        /\ ~deliveries[i].id => row(i) = deliveries[i]
  BY <1>3, <1>4, MovedIs
<1>6. deliveries' = [i \in 1..Len(deliveries) |-> row(i)]
  BY <1>1, <1>3 DEF Mailing!MovedByProvider
<1> HIDE DEF row
<1>7. /\ deliveries' \in Seq(Mailing!Delivery) /\ Len(deliveries') = Len(deliveries)
      /\ DOMAIN deliveries' = DOMAIN deliveries
      /\ \A i \in DOMAIN deliveries : deliveries'[i] = row(i)
  BY <1>3, <1>5, <1>6
<1>8. RowsTrue(deliveries, accepted, attempt, died)'
  <2>1. ASSUME NEW i \in DOMAIN deliveries
        PROVE  /\ row(i).status \in {"sent", "delivered", "complained"} \/ row(i).sentAt =>
                  row(i).id
               /\ row(i).id => accepted # {}
               /\ row(i).status = "queued" =>
                    i \in died \/ (attempt.step \in {"send", "answer"} /\ i = Len(deliveries))
    <3>1. CASE deliveries[i].id
      <4>1. row(i).id = deliveries[i].id /\ row(i).status # "queued"
        BY <1>5, <3>1
      <4>2. deliveries[i].id => accepted # {}
        BY <1>2 DEF RowsTrue
      <4> QED
        BY <3>1, <4>1, <4>2
    <3>2. CASE ~deliveries[i].id
      <4>1. row(i) = deliveries[i]
        BY <1>5, <3>2
      <4> QED
        BY <1>2, <4>1 DEF RowsTrue
    <3> QED
      BY <3>1, <3>2
  <2> QED
    BY <1>1, <1>7, <2>1 DEF RowsTrue
<1>9. AttemptTrue'
  BY <1>1, <1>2, <1>7 DEF AttemptTrue
<1> QED
  BY <1>8, <1>9 DEF MailInv

LEMMA MailNext == ASSUME MailInv, MailChoices, [Mailing!Next]_(Mailing!vars) PROVE MailInv'
<1>1. CASE Mailing!Notify
  BY <1>1, NotifyKeeps
<1>2. CASE Mailing!SetPreference \/ (\E e \in Mailing!Event : Mailing!Happens(e))
      \/ UNCHANGED Mailing!vars
  <2>1. UNCHANGED <<job, attempt, deliveries, accepted, died>>
    BY <1>2 DEF Mailing!SetPreference, Mailing!Happens, Mailing!vars, Mailing!provider
  <2> QED
    BY <2>1 DEF MailInv, RowsTrue, AttemptTrue
<1>3. CASE Mailing!Works
  BY <1>3, MailBeginKeeps, SendKeeps, MailRecordKeeps, FinishKeeps DEF Mailing!Works
<1>4. CASE Mailing!Die
  BY <1>4, DieKeeps
<1>5. CASE \E e \in Mailing!Event, again \in BOOLEAN : Mailing!Hook(e, again)
  BY <1>5, HookKeeps
<1> QED
  BY <1>1, <1>2, <1>3, <1>4, <1>5 DEF Mailing!Next

LEMMA MailHolds == ASSUME MailInv PROVE Mailing!DeliveriesTellTheMail
<1>1. Cardinality(accepted) <= 1
  <2>1. accepted = {} \/ accepted = {0}
    BY DEF MailInv, AttemptTrue
  <2>2. Cardinality({}) = 0
    BY FS_EmptySet
  <2>3. Cardinality({0}) = 1
    BY FS_Singleton
  <2>4. 0 <= 1 /\ 1 <= 1
    OBVIOUS
  <2> QED
    BY <2>1, <2>2, <2>3, <2>4
<1>2. ASSUME NEW i \in DOMAIN deliveries
      PROVE  /\ deliveries[i].status \in {"sent", "delivered", "complained"}
                   \/ deliveries[i].sentAt =>
                     deliveries[i].id /\ accepted # {}
             /\ deliveries[i].status = "queued" =>
                     i \in died \/ (attempt.step \in {"send", "answer"} /\ i = Len(deliveries))
  BY DEF MailInv, RowsTrue
<1> QED
  BY <1>1, <1>2, CountIs DEF Mailing!DeliveriesTellTheMail

---------------------------------------------------------------------------
(* The types.                                                              *)

\* An attempt has a row at most; a job that waits for an attempt has one left.
MailTries ==
    /\ job.tries <= SendAttempts /\ Len(deliveries) <= job.tries
    /\ job.state = "none" => job.tries = 0
    /\ job.state = "ready" => job.tries < SendAttempts
    /\ died \subseteq 1..SendAttempts

MailEnds ==
    /\ ended \in {"", "sent", "in app", "off", "no address", "no template", "refused"}
    /\ ended # "" <=> job.state = "gone"
    /\ attempt.step # "none" <=> job.state = "running"

MailEvents == fate \subseteq Mailing!Event /\ hooks \subseteq fate

MailTypes == MailChoices /\ MailTries /\ MailEnds /\ MailEvents

LEMMA MailTypesStart == ASSUME Mailing!Init PROVE MailTypes
<1>1. SendAttempts \in Nat \ {0}
  BY WorkerAssumption DEF Mailing!MailAssumption
<1>2. deliveries = <<>> /\ Len(deliveries) = 0
  BY DEF Mailing!Init
<1>3. job.state = "none" /\ job.tries = 0 /\ attempt.step = "none"
  BY DEF Mailing!Init, Mailing!NoAttempt
<1>4. MailTries
  <2>1. died = {}
    BY DEF Mailing!Init
  <2>2. job.tries <= SendAttempts /\ Len(deliveries) <= job.tries
    BY <1>1, <1>2, <1>3
  <2> QED BY <1>3, <2>1, <2>2 DEF MailTries
<1> QED
  BY <1>3, <1>4 DEF Mailing!Init, MailTypes, MailChoices, MailEnds, MailEvents

LEMMA MailChoicesKept == ASSUME MailChoices, [Mailing!Next]_(Mailing!vars) PROVE MailChoices'
  BY DEF Mailing!Next, Mailing!Works, MailChoices, Mailing!vars, Mailing!member,
       Mailing!Notify, Mailing!SetPreference, Mailing!Begin, Mailing!Send,
         Mailing!RecordOutcome, Mailing!Finish, Mailing!Die, Mailing!Happens, Mailing!Hook

LEMMA MailEventsKept == ASSUME MailEvents, [Mailing!Next]_(Mailing!vars) PROVE MailEvents'
<1>1. CASE UNCHANGED <<fate, hooks>>
  BY <1>1 DEF MailEvents
<1>2. CASE \E e \in Mailing!Event : Mailing!Happens(e)
  BY <1>2 DEF MailEvents, Mailing!Happens
<1>3. CASE \E e \in Mailing!Event, again \in BOOLEAN : Mailing!Hook(e, again)
  BY <1>3 DEF MailEvents, Mailing!Hook
<1>4. CASE \E o \in {"ok", "lost", "busy", "refused"} : Mailing!Send(o)
  <2>1. UNCHANGED Mailing!provider \/ Mailing!Accept
    BY <1>4 DEF Mailing!Send
  <2> QED
    BY <2>1 DEF MailEvents, Mailing!Accept, Mailing!provider, Mailing!Event, Mailing!Status
<1> QED
  BY <1>1, <1>2, <1>3, <1>4 DEF Mailing!Next, Mailing!Works, Mailing!vars, Mailing!provider,
       Mailing!Notify, Mailing!SetPreference, Mailing!Begin,
     Mailing!RecordOutcome, Mailing!Finish, Mailing!Die

\* How far an attempt's end moves the job.
LEMMA EndMoves ==
    ASSUME job \in Job, NEW why, Mailing!End(why)
    PROVE  /\ job'.state = "gone" /\ job'.tries = job.tries /\ attempt'.step = "none"
           /\ ended' = why
  BY DEF Mailing!End, Job, Mailing!NoAttempt

LEMMA ThrowMoves ==
    ASSUME job \in Job, Mailing!Throw
    PROVE  /\ \/ job'.state = "ready" /\ job.tries < SendAttempts
              \/ job'.state = "dead"
           /\ job'.tries = job.tries /\ attempt'.step = "none" /\ ended' = ended
  BY DEF Mailing!Throw, Job, Mailing!NoAttempt

LEMMA MailTypesKept ==
    ASSUME MailInv, MailInv', MailTypes, [Mailing!Next]_(Mailing!vars) PROVE MailTypes'
<1>1. SendAttempts \in Nat \ {0}
  BY WorkerAssumption DEF Mailing!MailAssumption
<1>2. deliveries \in Seq(Mailing!Delivery) /\ deliveries' \in Seq(Mailing!Delivery)
      /\ Len(deliveries) \in Nat
  BY Written DEF MailInv, RowsTrue
<1>3. job \in Job /\ job' \in Job /\ attempt \in [step : Step, answer : Answer]
  BY DEF MailInv, AttemptTrue
<1>4. MailTries /\ MailEnds /\ job.tries \in Nat
  BY <1>3 DEF MailTypes, Job
<1> SUFFICES MailTries' /\ MailEnds'
  BY MailChoicesKept, MailEventsKept DEF MailTypes
<1>5. CASE Mailing!Notify
  <2>1. /\ job'.state = "ready" /\ job'.tries = 0 /\ job.state = "none"
        /\ UNCHANGED <<attempt, deliveries, ended, died>>
    BY <1>5 DEF Mailing!Notify
  <2>tries. MailTries'
    BY <1>1, <1>2, <1>4, <2>1 DEF MailTries
  <2>ends. MailEnds'
    BY <1>1, <1>2, <1>4, <2>1 DEF MailEnds
  <2> QED
    BY <2>tries, <2>ends
<1>6. CASE UNCHANGED <<job, attempt, deliveries, ended, died>>
  BY <1>4, <1>6 DEF MailTries, MailEnds
<1>7. CASE Mailing!Begin
  <2>1. job.state = "ready" /\ died' = died
    BY <1>7 DEF Mailing!Begin
  <2>2. CASE Mailing!Reason # ""
    <3>1. /\ job' = [job EXCEPT !.state = "gone", !.tries = @ + 1]
          /\ ended' = Mailing!Reason /\ UNCHANGED <<attempt, deliveries>>
      BY <1>7, <2>2 DEF Mailing!Begin
    <3>2. job'.state = "gone" /\ job'.tries = job.tries + 1
      BY <1>3, <3>1 DEF Job
    <3>3. Mailing!Reason \in {"in app", "off", "no address", "no template"}
      BY <2>2 DEF Mailing!Reason, MailTypes, MailChoices
    <3>4. Len(deliveries') = Len(deliveries) /\ died' = died
      BY <2>1, <3>1
    <3>tries. MailTries'
      BY <1>1, <1>2, <1>4, <2>1, <3>2, <3>4 DEF MailTries
    <3>ends. MailEnds'
      BY <1>1, <1>2, <1>4, <2>1, <3>1, <3>2, <3>3 DEF MailEnds
    <3> QED
      BY <3>tries, <3>ends
  <2>3. CASE Mailing!Reason = ""
    <3>1. /\ job' = [job EXCEPT !.state = "running", !.tries = @ + 1]
          /\ attempt' = [step |-> "send", answer |-> "none"]
          /\ deliveries' = Append(deliveries, Mailing!NewDelivery) /\ ended' = ended
      BY <1>7, <2>3 DEF Mailing!Begin
    <3>2. job'.state = "running" /\ job'.tries = job.tries + 1 /\ attempt'.step = "send"
      BY <1>3, <3>1 DEF Job
    <3>3. Len(deliveries') = Len(deliveries) + 1
      BY <1>2, <3>1
    <3>tries. MailTries'
      BY <1>1, <1>2, <1>4, <2>1, <3>1, <3>2, <3>3 DEF MailTries
    <3>ends. MailEnds'
      BY <1>1, <1>2, <1>4, <2>1, <3>1, <3>2, <3>3 DEF MailEnds
    <3> QED
      BY <3>tries, <3>ends
  <2> QED
    BY <2>2, <2>3
<1>8. CASE \E o \in {"ok", "lost", "busy", "refused"} : Mailing!Send(o)
  <2>1. /\ attempt.step = "send" /\ UNCHANGED <<job, deliveries, ended, died>>
        /\ attempt'.step = "answer"
    BY <1>3, <1>8 DEF Mailing!Send, Mailing!Answered
  <2>tries. MailTries'
    BY <1>4, <2>1 DEF MailTries
  <2>ends. MailEnds'
    BY <1>4, <2>1 DEF MailEnds
  <2> QED
    BY <2>tries, <2>ends
<1>9. CASE Mailing!RecordOutcome
  <2>1. /\ attempt.step = "answer" /\ UNCHANGED <<job, ended, died>>
        /\ attempt'.step = "end"
        /\ deliveries' = [deliveries EXCEPT ![Len(deliveries)] = Mailing!Outcome]
    BY <1>3, <1>9 DEF Mailing!RecordOutcome
  <2>2. Len(deliveries') = Len(deliveries)
    BY <1>2, <2>1
  <2>tries. MailTries'
    BY <1>4, <2>1, <2>2 DEF MailTries
  <2>ends. MailEnds'
    BY <1>4, <2>1, <2>2 DEF MailEnds
  <2> QED
    BY <2>tries, <2>ends
<1>10. CASE Mailing!Finish
  <2>1. attempt.step = "end" /\ UNCHANGED <<deliveries, died>>
    BY <1>10 DEF Mailing!Finish
  <2>2. Mailing!End("sent") \/ Mailing!End("refused") \/ Mailing!Throw
    BY <1>10 DEF Mailing!Finish
  <2>3. /\ job'.tries = job.tries /\ attempt'.step = "none"
        /\ \/ job'.state = "gone" /\ ended' \in {"sent", "refused"}
           \/ job'.state = "ready" /\ job.tries < SendAttempts /\ ended' = ended
           \/ job'.state = "dead" /\ ended' = ended
    BY <1>3, <2>2, EndMoves, ThrowMoves
  <2>tries. MailTries'
    BY <1>4, <2>1, <2>3 DEF MailTries
  <2>ends. MailEnds'
    BY <1>4, <2>1, <2>3 DEF MailEnds
  <2> QED
    BY <2>tries, <2>ends
<1>11. CASE Mailing!Die
  <2>1. /\ attempt.step # "none" /\ UNCHANGED deliveries
        /\ died' = died \cup {Len(deliveries)} /\ Mailing!Throw
    BY <1>11 DEF Mailing!Die
  <2>2. Len(deliveries) \in 1..SendAttempts
    BY <1>1, <1>2, <1>4, <2>1 DEF MailInv, AttemptTrue, MailTries
  <2>3. died' \subseteq 1..SendAttempts
    BY <1>4, <2>1, <2>2 DEF MailTries
  <2>4. /\ job'.tries = job.tries /\ attempt'.step = "none" /\ ended' = ended
        /\ \/ job'.state = "ready" /\ job.tries < SendAttempts
           \/ job'.state = "dead"
    BY <1>3, <2>1, ThrowMoves
  <2>tries. MailTries'
    BY <1>4, <2>1, <2>3, <2>4 DEF MailTries
  <2>ends. MailEnds'
    BY <1>4, <2>1, <2>3, <2>4 DEF MailEnds
  <2> QED
    BY <2>tries, <2>ends
<1>12. CASE \E e \in Mailing!Event, again \in BOOLEAN : Mailing!Hook(e, again)
  <2>1. /\ UNCHANGED <<job, attempt, ended, died>>
        /\ deliveries' = [i \in DOMAIN deliveries |-> deliveries'[i]]
    BY <1>12 DEF Mailing!Hook, Mailing!MovedByProvider
  <2>2. DOMAIN deliveries' = DOMAIN deliveries
    BY <2>1
  <2>3. Len(deliveries') = Len(deliveries)
    BY <1>2, <2>2
  <2>tries. MailTries'
    BY <1>4, <2>1, <2>3 DEF MailTries
  <2>ends. MailEnds'
    BY <1>4, <2>1, <2>3 DEF MailEnds
  <2> QED
    BY <2>tries, <2>ends
<1> QED
  BY <1>5, <1>6, <1>7, <1>8, <1>9, <1>10, <1>11, <1>12 DEF Mailing!Next, Mailing!Works,
       Mailing!vars, Mailing!SetPreference,
     Mailing!Happens

LEMMA MailTypesAre == ASSUME MailInv, MailTypes PROVE Mailing!TypeOK
<1>1. SendAttempts \in Nat \ {0}
  BY WorkerAssumption DEF Mailing!MailAssumption
<1>2. /\ deliveries \in Seq(Mailing!Delivery) /\ job \in Job
      /\ attempt \in [step : Step, answer : Answer]
  BY DEF MailInv, RowsTrue, AttemptTrue
<1>3. /\ job.tries \in 0..SendAttempts /\ job.email \in BOOLEAN
      /\ job.state \in {"none", "ready", "running", "gone", "dead"}
  BY <1>1, <1>2 DEF Job, MailTypes, MailTries
<1>4. attempt.step \in {"none", "send", "answer", "end"}
  BY <1>2 DEF Step
<1>5. attempt.answer \in {"none", "ok", "error", "permanent"}
  BY <1>2 DEF Answer
<1> QED
  BY <1>2, <1>3, <1>4, <1>5 DEF Mailing!TypeOK, MailTypes, MailChoices, MailTries, MailEnds,
       MailEvents

(***************************************************************************)
(* One member's picture (Avatar).                                          *)
(***************************************************************************)

Photo == [version : Nat, source : Picture!Source \cup {"none"},
          answer : {"none", "accepted", "declined"}]
UploadRow == [id : 0..MaxUploads,
              state : {"none", "pending", "done", "refused", "failed", "cancelled"}]
RunningJob == [job : Picture!AvatarJob, step : {"copy", "record", "purge", "clear", "wipe"},
               current : Nat, pending : 0..MaxUploads, made : Nat, keep : Nat]

RowTypes ==
    /\ photo \in Photo /\ upload \in UploadRow
    /\ good \subseteq 0..MaxUploads /\ gone \in BOOLEAN
    /\ choice \in {"none", "google", "upload", "library"}
    /\ photo.version = Picture!NoVersion <=> photo.source = "none"

\* The versions have a largest: the next is the clock's, after all of them.
BucketTypes ==
    /\ staged \subseteq Picture!Upload
    /\ route \in [Picture!Upload -> {"new", "stored", "begun"}]
    /\ copies \subseteq Picture!Copy
    /\ \E m \in Nat : \A c \in copies : c.version <= m

\* A task has one keyed job at most, a running one that kept its key included.
QueueTypes ==
    /\ waiting \subseteq Picture!AvatarJob
    /\ run # <<>> => run = <<run[1]>> /\ run[1] \in RunningJob
    /\ \A i, j \in waiting : i.keyed /\ j.keyed /\ i.task = j.task => i = j
    /\ run # <<>> /\ run[1].job.keyed =>
          \A j \in waiting : ~(j.keyed /\ j.task = run[1].job.task)

\* The row names a copy that is there, and agrees with the last choice.
RowStands ==
    /\ photo.version # Picture!NoVersion =>
              [version |-> photo.version, of |-> photo.source] \in copies
    /\ choice = "library" /\ ~gone => photo.answer # "accepted"
    /\ upload.state = "pending" => choice = "upload"
    /\ photo.source = "upload" => choice = "upload"
    /\ photo.source = "google" => photo.answer = "accepted"
    /\ choice = "upload" /\ upload.state = "done" => photo.source = "upload"

\* What a running job made is there until it purges; what it purges for is what
\* the row still names, or a later call has cleared the row and left a job.
RunStands ==
    run # <<>> =>
        /\ run[1].step = "record" =>
              [version |-> run[1].made,
               of |-> IF run[1].job.task = "import" THEN "google" ELSE "upload"] \in copies
        /\ run[1].step = "purge" => photo.version \in {Picture!NoVersion, run[1].keep}
        /\ gone <=> run[1].step = "wipe"
        /\ run[1].step = "purge" /\ photo.version = Picture!NoVersion =>
              run[1].keep = Picture!NoVersion \/ waiting # {}
        /\ run[1].step = "clear" => run[1].job.task = "upload"
        /\ ~gone /\ run[1].job.task = "upload" => upload # Picture!NoUpload

\* A copy that no row, upload or job would lead anyone to does not exist.
CopiesAreFound ==
    /\ gone => photo.version = Picture!NoVersion /\ (copies = {} \/ waiting # {} \/ run # <<>>)
    /\ ~gone /\ copies # {} =>
          photo.version # Picture!NoVersion \/ upload # Picture!NoUpload \/ waiting # {}
                \/ run # <<>>
    /\ ~gone /\ 0 \notin good /\ upload = Picture!NoUpload => copies = {}
    /\ ~gone /\ (\E j \in waiting : j.task = "upload") => upload # Picture!NoUpload

PictureInv ==
    RowTypes /\ BucketTypes /\ QueueTypes /\ RowStands /\ RunStands /\ CopiesAreFound

---------------------------------------------------------------------------
(* Versions and the queue.                                                 *)

LEMMA NatLeast ==
    ASSUME NEW S \in SUBSET Nat, S # {}
    PROVE  \E m \in S : \A n \in S : m <= n
<1>1. PICK m \in S : \A n \in S : ~(<<n, m>> \in OpToRel(<, Nat))
  BY NatLessThanWellFounded, WFMin
<1>2. \A n \in S : ~(n < m)
  BY <1>1, Zenon DEF OpToRel
<1> QED
  BY <1>2

LEMMA NatLargest ==
    ASSUME NEW S \in SUBSET Nat, S # {}, NEW b \in Nat, \A n \in S : n <= b
    PROVE  Picture!Max(S) \in S /\ \A n \in S : n <= Picture!Max(S)
<1> DEFINE Bounds == {m \in Nat : \A n \in S : n <= m}
<1>1. PICK m \in Bounds : \A n \in Bounds : m <= n
  <2>1. Bounds \in SUBSET Nat /\ b \in Bounds
    OBVIOUS
  <2> HIDE DEF Bounds
  <2> QED BY <2>1, NatLeast
<1>2. m \in S
  <2> SUFFICES ASSUME m \notin S PROVE FALSE
    OBVIOUS
  <2>0. m \in Nat /\ \A n \in S : n \in Nat /\ n <= m /\ n # m
    BY <1>1
  <2>1. \A n \in S : n <= m - 1
    BY <2>0
  <2>2. m - 1 \in Nat
    <3>1. PICK n \in S : n \in Nat /\ n <= m /\ n # m
      BY <2>0
    <3> QED BY <2>0, <3>1
  <2>3. m - 1 \in Bounds
    BY <2>1, <2>2
  <2> QED BY <1>1, <2>0, <2>3
<1>3. \E x \in S : \A y \in S : x >= y
  BY <1>1, <1>2
<1> QED
  BY <1>3 DEF Picture!Max

LEMMA NextVersionIs ==
    ASSUME PictureInv, run # <<>>
    PROVE  /\ Picture!NextVersion \in Nat \ {0}
           /\ \A c \in copies : c.version <= Picture!NextVersion
<1> DEFINE S == {c.version : c \in copies} \cup {run[1].current}
<1>1. PICK m \in Nat : \A c \in copies : c.version <= m
  BY DEF PictureInv, BucketTypes
<1>2. run[1].current \in Nat
  BY DEF PictureInv, QueueTypes, RunningJob
<1>3. PICK b \in Nat : m <= b /\ run[1].current <= b
  <2>1. m <= m + run[1].current /\ run[1].current <= m + run[1].current
    BY <1>1, <1>2
  <2> QED BY <1>1, <1>2, <2>1
<1>4. \A c \in copies : c.version \in Nat
  BY DEF PictureInv, BucketTypes, Picture!Copy
<1>5. S \in SUBSET Nat /\ S # {} /\ \A n \in S : n <= b
  BY <1>1, <1>2, <1>3, <1>4
<1>6. Picture!Max(S) \in S /\ \A n \in S : n <= Picture!Max(S)
  <2> HIDE DEF S
  <2> QED BY <1>3, <1>5, NatLargest
<1>7. Picture!Max(S) \in Nat /\ \A c \in copies : c.version <= Picture!Max(S)
  BY <1>5, <1>6
<1>8. Picture!NextVersion = Picture!Max(S) + 1
  BY DEF Picture!NextVersion
<1> HIDE DEF S
<1>9. \A c \in copies : c.version <= Picture!Max(S) + 1
  BY <1>4, <1>7
<1> QED
  BY <1>7, <1>8, <1>9

\* What a call does to the queue: at most a job under the key of its task.
LEMMA QueueMoves ==
    ASSUME PictureInv, NEW task \in Picture!Jobs,
           Picture!Enqueue(task) \/ UNCHANGED <<waiting, run>>
    PROVE  /\ QueueTypes'
           /\ run' = <<>> <=> run = <<>>
           /\ run # <<>> =>
                 /\ run'[1].step = run[1].step /\ run'[1].made = run[1].made
                 /\ run'[1].keep = run[1].keep /\ run'[1].job.task = run[1].job.task
           /\ waiting # {} \/ Picture!Enqueue(task) => waiting' # {}
           /\ \A j \in waiting' : j \in waiting \/ (j.task = task /\ Picture!Enqueue(task))
<1>1. CASE ~Picture!Enqueue(task)
  BY <1>1 DEF PictureInv, QueueTypes
<1>2. CASE Picture!Enqueue(task)
  <2> DEFINE new == [task |-> task, keyed |-> TRUE, tries |-> 0]
  <2>1. waiting' = {j \in waiting : ~(j.task = task /\ j.keyed)} \cup {new}
    BY <1>2 DEF Picture!Enqueue
  <2>2. new \in Picture!AvatarJob /\ new.task = task /\ new.keyed
    BY WorkerAssumption DEF Picture!AvatarAssumption, Picture!AvatarJob
  <2> HIDE DEF new
  <2>3. waiting' \subseteq Picture!AvatarJob
    BY <2>1, <2>2 DEF PictureInv, QueueTypes
  <2>4. \A i, j \in waiting' : i.keyed /\ j.keyed /\ i.task = j.task => i = j
    BY <2>1, <2>2 DEF PictureInv, QueueTypes
  <2>5. ASSUME run # <<>>, run[1].job.task = task
        PROVE  /\ run' = <<run'[1]>> /\ run'[1] \in RunningJob /\ ~run'[1].job.keyed
               /\ run'[1].step = run[1].step /\ run'[1].made = run[1].made
               /\ run'[1].keep = run[1].keep /\ run'[1].job.task = run[1].job.task
    <3>1. run' = <<[run[1] EXCEPT !.job.keyed = FALSE]>>
      BY <1>2, <2>5 DEF Picture!Enqueue
    <3>2. run[1] \in RunningJob
      BY <2>5 DEF PictureInv, QueueTypes
    <3> QED BY <3>1, <3>2 DEF RunningJob, Picture!AvatarJob
  <2>6. ASSUME run # <<>>, run[1].job.task # task
        PROVE  run' = run
    BY <1>2, <2>6 DEF Picture!Enqueue
  <2>7. ASSUME run = <<>> PROVE run' = <<>>
    BY <1>2, <2>7 DEF Picture!Enqueue
  <2>8. ASSUME run' # <<>>, run'[1].job.keyed
        PROVE  \A j \in waiting' : ~(j.keyed /\ j.task = run'[1].job.task)
    <3>1. run # <<>> /\ run' = run /\ run[1].job.task # task
      BY <2>5, <2>6, <2>7, <2>8
    <3> QED BY <2>1, <2>2, <2>8, <3>1 DEF PictureInv, QueueTypes
  <2>9. run' # <<>> => run' = <<run'[1]>> /\ run'[1] \in RunningJob
    BY <2>5, <2>6, <2>7 DEF PictureInv, QueueTypes
  <2>10. QueueTypes'
    BY <2>3, <2>4, <2>8, <2>9 DEF QueueTypes
  <2>11. run' = <<>> <=> run = <<>>
    BY <2>5, <2>6, <2>7
  <2> QED BY <1>2, <2>1, <2>2, <2>5, <2>6, <2>7, <2>10, <2>11
<1> QED BY <1>1, <1>2

---------------------------------------------------------------------------
(* One lemma per action.                                                   *)

LEMMA PictureStart == ASSUME Picture!Init PROVE PictureInv
<1>1. RowTypes
  <2>1. MaxUploads \in Nat
    BY WorkerAssumption DEF Picture!AvatarAssumption
  <2>2. photo \in Photo /\ (photo.version = Picture!NoVersion <=> photo.source = "none")
    BY DEF Picture!Init, Photo, Picture!NoVersion, Picture!Source
  <2>3. upload \in UploadRow
    BY <2>1 DEF Picture!Init, UploadRow, Picture!NoUpload
  <2>4. good \subseteq 0..MaxUploads /\ gone \in BOOLEAN /\ choice \in {"none"}
    BY DEF Picture!Init
  <2> QED BY <2>2, <2>3, <2>4 DEF RowTypes
<1>2. BucketTypes
  BY DEF Picture!Init, BucketTypes
<1>3. QueueTypes
  BY DEF Picture!Init, QueueTypes
<1>4. RowStands /\ RunStands /\ CopiesAreFound
  BY DEF Picture!Init, RowStands, RunStands, CopiesAreFound, Picture!NoVersion, Picture!NoUpload
<1> QED BY <1>1, <1>2, <1>3, <1>4 DEF PictureInv
LEMMA CancelledIs ==
    ASSUME upload \in UploadRow
    PROVE  /\ Picture!Cancelled \in UploadRow /\ Picture!Cancelled.state # "pending"
           /\ Picture!Cancelled = Picture!NoUpload <=> upload = Picture!NoUpload
           /\ Picture!Cancelled.state = "done" <=> upload.state = "done"
<1>1. CASE upload.state = "pending"
  <2>1. /\ Picture!Cancelled = [upload EXCEPT !.state = "cancelled"]
        /\ upload # Picture!NoUpload
    BY <1>1 DEF Picture!Cancelled, Picture!NoUpload
  <2>2. Picture!Cancelled \in UploadRow /\ Picture!Cancelled.state = "cancelled"
    BY <2>1 DEF UploadRow
  <2> QED BY <1>1, <2>1, <2>2 DEF Picture!NoUpload
<1>2. CASE upload.state # "pending"
  BY <1>2 DEF Picture!Cancelled
<1> QED BY <1>1, <1>2

LEMMA ClearedIs ==
    ASSUME NEW p \in Photo
    PROVE  /\ Picture!Cleared(p) \in Photo /\ Picture!Cleared(p).version = Picture!NoVersion
           /\ Picture!Cleared(p).source = "none" /\ Picture!Cleared(p).answer = p.answer
  BY DEF Picture!Cleared, Photo, Picture!NoVersion

\* A call that may clear the row, may touch the upload, and may enqueue; it
\* enqueues when it clears.
LEMMA PictureCallKeeps ==
    ASSUME PictureInv, ~gone, UNCHANGED <<gone, good, copies>>, NEW task \in Picture!Jobs,
           Picture!Enqueue(task) \/ UNCHANGED <<waiting, run>>,
           photo'.version \in {Picture!NoVersion, photo.version},
           photo.version # Picture!NoVersion /\ photo'.version = Picture!NoVersion =>
                     Picture!Enqueue(task),
           upload' = Picture!NoUpload => upload = Picture!NoUpload,
           task = "upload" => upload' # Picture!NoUpload
    PROVE  QueueTypes' /\ RunStands' /\ CopiesAreFound'
<1>1. /\ QueueTypes'
      /\ run' = <<>> <=> run = <<>>
      /\ run # <<>> =>
            /\ run'[1].step = run[1].step /\ run'[1].made = run[1].made
            /\ run'[1].keep = run[1].keep /\ run'[1].job.task = run[1].job.task
      /\ waiting # {} \/ Picture!Enqueue(task) => waiting' # {}
      /\ \A j \in waiting' : j \in waiting \/ (j.task = task /\ Picture!Enqueue(task))
  BY QueueMoves
<1>2. RunStands'
  <2> SUFFICES ASSUME run' # <<>> PROVE RunStands'
    BY DEF RunStands
  <2>1. RunStands /\ run # <<>>
    BY <1>1 DEF PictureInv
  <2> QED BY <1>1, <2>1 DEF RunStands
<1>3. CopiesAreFound'
  <2>1. CopiesAreFound
    BY DEF PictureInv
  <2>2. copies' # {} =>
          photo'.version # Picture!NoVersion \/ upload' # Picture!NoUpload \/ waiting' # {}
                \/ run' # <<>>
    BY <1>1, <2>1 DEF CopiesAreFound
  <2> QED BY <1>1, <2>1, <2>2 DEF CopiesAreFound
<1> QED BY <1>1, <1>2, <1>3

LEMMA LeavePhotoKeeps == ASSUME PictureInv, Picture!LeavePhoto PROVE PictureInv'
<1>1. /\ ~gone /\ choice' = "library" /\ UNCHANGED <<good, gone, copies, staged, route>>
      /\ upload' = Picture!Cancelled
      /\ photo' = [Picture!Cleared(photo) EXCEPT !.answer = IF @ = "accepted" THEN "declined" ELSE @]
      /\ IF photo.version # Picture!NoVersion \/ upload.state = "pending"
         THEN Picture!Enqueue("import") ELSE UNCHANGED <<waiting, run>>
  BY DEF Picture!LeavePhoto, Picture!Choose, Picture!buckets
<1>2. RowTypes /\ photo \in Photo /\ upload \in UploadRow
  BY DEF PictureInv, RowTypes
<1>3. /\ photo' \in Photo /\ photo'.version = Picture!NoVersion /\ photo'.source = "none"
      /\ photo'.answer # "accepted"
  BY <1>1, <1>2, ClearedIs DEF Photo
<1>4. QueueTypes' /\ RunStands' /\ CopiesAreFound'
  BY <1>1, <1>2, <1>3, PictureCallKeeps, CancelledIs DEF Picture!Jobs
<1>5. RowTypes'
  BY <1>1, <1>2, <1>3, CancelledIs DEF RowTypes
<1>6. RowStands'
  BY <1>1, <1>2, <1>3, CancelledIs DEF RowStands, Picture!NoVersion
<1>7. BucketTypes'
  BY <1>1 DEF PictureInv, BucketTypes
<1> QED BY <1>4, <1>5, <1>6, <1>7 DEF PictureInv

LEMMA DeclineKeeps == ASSUME PictureInv, Picture!Decline PROVE PictureInv'
<1>1. /\ ~gone /\ choice' = IF choice = "upload" THEN "upload" ELSE "library"
      /\ UNCHANGED <<good, gone, copies, staged, route, upload>>
      /\ photo' = [IF photo.source = "google" THEN Picture!Cleared(photo) ELSE photo
                   EXCEPT !.answer = "declined"]
      /\ IF photo.source = "google" \/ (photo.answer = "accepted"
            /\ photo.version = Picture!NoVersion)
         THEN Picture!Enqueue("import") ELSE UNCHANGED <<waiting, run>>
  BY DEF Picture!Decline, Picture!Choose, Picture!buckets
<1>2. RowTypes /\ photo \in Photo /\ upload \in UploadRow /\ RowStands
  BY DEF PictureInv, RowTypes
<1>3. CASE photo.source = "google"
  <2>1. /\ photo' \in Photo /\ photo'.version = Picture!NoVersion /\ photo'.source = "none"
        /\ photo'.answer = "declined"
    BY <1>1, <1>2, <1>3, ClearedIs DEF Photo
  <2>2. QueueTypes' /\ RunStands' /\ CopiesAreFound'
    BY <1>1, <1>2, <1>3, <2>1, PictureCallKeeps DEF Picture!Jobs
  <2>3. RowTypes' /\ RowStands'
    BY <1>1, <1>2, <1>3, <2>1 DEF RowTypes, RowStands, Picture!NoVersion
  <2> QED BY <1>1, <2>2, <2>3 DEF PictureInv, BucketTypes
<1>4. CASE photo.source # "google"
  <2>1. /\ photo' \in Photo /\ photo'.version = photo.version /\ photo'.source = photo.source
        /\ photo'.answer = "declined"
    BY <1>1, <1>2, <1>4 DEF Photo
  <2>2. QueueTypes' /\ RunStands' /\ CopiesAreFound'
    BY <1>1, <1>2, <1>4, <2>1, PictureCallKeeps DEF Picture!Jobs
  <2>3. RowTypes' /\ RowStands'
    BY <1>1, <1>2, <1>4, <2>1 DEF RowTypes, RowStands, Picture!NoVersion
  <2> QED BY <1>1, <2>2, <2>3 DEF PictureInv, BucketTypes
<1> QED BY <1>3, <1>4

LEMMA AcceptKeeps == ASSUME PictureInv, Picture!Accept PROVE PictureInv'
<1>1. /\ ~gone /\ choice' = IF choice = "upload" THEN "upload" ELSE "google"
      /\ UNCHANGED <<good, gone, copies, staged, route, upload>>
      /\ photo' = [photo EXCEPT !.answer = "accepted"]
      /\ IF photo.source # "upload" THEN Picture!Enqueue("import") ELSE UNCHANGED <<waiting, run>>
  BY DEF Picture!Accept, Picture!Choose, Picture!buckets
<1>2. RowTypes /\ photo \in Photo /\ upload \in UploadRow /\ RowStands
  BY DEF PictureInv, RowTypes
<1>3. /\ photo' \in Photo /\ photo'.version = photo.version /\ photo'.source = photo.source
      /\ photo'.answer = "accepted"
  BY <1>1, <1>2 DEF Photo
<1>4. QueueTypes' /\ RunStands' /\ CopiesAreFound'
  BY <1>1, <1>2, <1>3, PictureCallKeeps DEF Picture!Jobs
<1>5. RowTypes' /\ RowStands'
  BY <1>1, <1>2, <1>3 DEF RowTypes, RowStands, Picture!NoVersion
<1> QED BY <1>1, <1>4, <1>5 DEF PictureInv, BucketTypes

LEMMA RequestGoogleKeeps == ASSUME PictureInv, Picture!RequestGoogle PROVE PictureInv'
<1>1. /\ ~gone /\ choice' = "google"
      /\ UNCHANGED <<good, gone, copies, staged, route>>
      /\ upload' = Picture!Cancelled
      /\ photo' = [IF photo.source = "upload" THEN Picture!Cleared(photo) ELSE photo
                   EXCEPT !.answer = "accepted"]
      /\ Picture!Enqueue("import")
  BY DEF Picture!RequestGoogle, Picture!Choose, Picture!buckets
<1>2. RowTypes /\ photo \in Photo /\ upload \in UploadRow /\ RowStands
  BY DEF PictureInv, RowTypes
<1>3. /\ photo' \in Photo /\ photo'.source # "upload" /\ photo'.answer = "accepted"
      /\ \/ photo'.version = Picture!NoVersion /\ photo'.source = "none"
         \/ photo'.version = photo.version /\ photo'.source = photo.source
  <2>1. CASE photo.source = "upload"
    BY <1>1, <1>2, <2>1, ClearedIs DEF Photo
  <2>2. CASE photo.source # "upload"
    BY <1>1, <1>2, <2>2 DEF Photo
  <2> QED BY <2>1, <2>2
<1>4. QueueTypes' /\ RunStands' /\ CopiesAreFound'
  BY <1>1, <1>2, <1>3, PictureCallKeeps, CancelledIs DEF Picture!Jobs
<1>5. RowTypes'
  BY <1>1, <1>2, <1>3, CancelledIs DEF RowTypes, Picture!NoVersion
<1>6. RowStands'
  BY <1>1, <1>2, <1>3, CancelledIs DEF RowTypes, RowStands, Picture!NoVersion
<1> QED BY <1>1, <1>4, <1>5, <1>6 DEF PictureInv, BucketTypes

LEMMA StageKeeps == ASSUME PictureInv, NEW u \in Picture!Upload, Picture!Stage(u)
PROVE PictureInv'
<1>1. /\ UNCHANGED <<photo, gone, upload, copies, waiting, run, choice, good>>
      /\ route' = [route EXCEPT ![u] = "stored"] /\ staged' = staged \cup {u}
  BY DEF Picture!Stage, Picture!avatarbounds
<1>2. BucketTypes'
  BY <1>1 DEF PictureInv, BucketTypes
<1> QED
  BY <1>1, <1>2 DEF PictureInv, RowTypes, QueueTypes, RowStands, RunStands, CopiesAreFound

LEMMA BeginUploadKeeps ==
    ASSUME PictureInv, NEW u \in Picture!Upload, Picture!BeginUpload(u) PROVE PictureInv'
<1>1. /\ ~gone /\ choice' = "upload" /\ UNCHANGED <<photo, gone, staged, copies, good>>
      /\ route' = [route EXCEPT ![u] = "begun"] /\ upload' = [id |-> u, state |-> "pending"]
      /\ Picture!Enqueue("upload")
  BY DEF Picture!BeginUpload, Picture!avatarbounds, Picture!buckets
<1>2. RowTypes /\ RowStands
  BY DEF PictureInv
<1>3. upload' \in UploadRow /\ upload' # Picture!NoUpload /\ upload'.state = "pending"
  <2>1. MaxUploads \in Nat
    BY WorkerAssumption DEF Picture!AvatarAssumption
  <2> QED BY <1>1, <2>1 DEF UploadRow, Picture!NoUpload, Picture!Upload
<1>4. QueueTypes' /\ RunStands' /\ CopiesAreFound'
  BY <1>1, <1>2, <1>3, PictureCallKeeps DEF Picture!Jobs
<1>5. RowTypes' /\ RowStands'
  BY <1>1, <1>2, <1>3 DEF RowTypes, RowStands
<1>6. BucketTypes'
  BY <1>1 DEF PictureInv, BucketTypes
<1> QED BY <1>4, <1>5, <1>6 DEF PictureInv

LEMMA AnonymiseKeeps == ASSUME PictureInv, Picture!Anonymise PROVE PictureInv'
<1>1. /\ run = <<>> /\ ~gone /\ gone' = TRUE
      /\ photo' = [Picture!Cleared(photo) EXCEPT !.answer = "none"]
      /\ upload' = Picture!NoUpload
      /\ IF Picture!Reconciled THEN Picture!Enqueue("import") ELSE UNCHANGED <<waiting, run>>
      /\ UNCHANGED <<staged, copies, route, choice, good>>
  BY DEF Picture!Anonymise, Picture!avatarbounds, Picture!buckets
<1>2. RowTypes /\ RowStands /\ CopiesAreFound
  BY DEF PictureInv
<1>3. /\ photo' \in Photo /\ photo'.version = Picture!NoVersion /\ photo'.source = "none"
      /\ photo'.answer = "none"
  BY <1>1, <1>2, ClearedIs DEF RowTypes, Photo
<1>4. QueueTypes' /\ run' = <<>> /\ (waiting # {} \/ Picture!Enqueue("import") => waiting' # {})
  BY <1>1, QueueMoves DEF Picture!Jobs
<1>5. RowTypes' /\ RowStands'
  <2>1. MaxUploads \in Nat
    BY WorkerAssumption DEF Picture!AvatarAssumption
  <2>2. upload' \in UploadRow /\ upload'.state = "none"
    BY <1>1, <2>1 DEF Picture!NoUpload, UploadRow
  <2> QED BY <1>1, <1>2, <1>3, <2>2 DEF RowTypes, RowStands, Picture!NoVersion
<1>6. CopiesAreFound'
  <2>1. copies = {} \/ waiting' # {}
    BY <1>1, <1>2, <1>4 DEF CopiesAreFound, Picture!Reconciled
  <2> QED BY <1>1, <1>3, <2>1 DEF CopiesAreFound
<1>7. RunStands' /\ BucketTypes'
  BY <1>1, <1>4 DEF PictureInv, RunStands, BucketTypes
<1> QED BY <1>4, <1>5, <1>6, <1>7 DEF PictureInv

\* The facts of a job that runs.
LEMMA RunIs ==
    ASSUME PictureInv, run # <<>>
    PROVE  /\ run = <<run[1]>> /\ run[1] \in RunningJob /\ run[1].job \in Picture!AvatarJob
           /\ \A r : run' = <<r>> => run'[1] = r /\ run' # <<>>
<1>1. run = <<run[1]>> /\ run[1] \in RunningJob
  BY DEF PictureInv, QueueTypes
<1> QED BY <1>1 DEF RunningJob

\* A running job goes on to another step, and stays the same job.
LEMMA GoesOn ==
    ASSUME PictureInv, run # <<>>, waiting' = waiting,
           NEW s \in {"copy", "record", "purge", "clear", "wipe"},
           NEW m \in Nat, NEW k \in Nat,
           \/ run' = <<[run[1] EXCEPT !.step = s, !.made = m]>> /\ k = run[1].keep
           \/ run' = <<[run[1] EXCEPT !.step = s, !.keep = k]>> /\ m = run[1].made
           \/ run' = <<[run[1] EXCEPT !.step = s]>> /\ m = run[1].made /\ k = run[1].keep
    PROVE  /\ QueueTypes' /\ run' # <<>> /\ run'[1].step = s
           /\ run'[1].made = m /\ run'[1].keep = k /\ run'[1].job = run[1].job
<1>1. run[1] \in RunningJob
  BY RunIs
<1>2. PICK r : /\ run' = <<r>> /\ r \in RunningJob /\ r.step = s
               /\ r.made = m /\ r.keep = k /\ r.job = run[1].job
  <2>1. CASE run' = <<[run[1] EXCEPT !.step = s, !.made = m]>> /\ k = run[1].keep
    <3> DEFINE q == [run[1] EXCEPT !.step = s, !.made = m]
    <3>1. /\ q \in RunningJob /\ q.step = s /\ q.made = m /\ q.keep = k
          /\ q.job = run[1].job
      BY <1>1, <2>1 DEF RunningJob
    <3>2. run' = <<q>>
      BY <2>1
    <3> HIDE DEF q
    <3> QED BY <3>1, <3>2
  <2>2. CASE run' = <<[run[1] EXCEPT !.step = s, !.keep = k]>> /\ m = run[1].made
    <3> DEFINE q == [run[1] EXCEPT !.step = s, !.keep = k]
    <3>1. /\ q \in RunningJob /\ q.step = s /\ q.made = m /\ q.keep = k
          /\ q.job = run[1].job
      BY <1>1, <2>2 DEF RunningJob
    <3>2. run' = <<q>>
      BY <2>2
    <3> HIDE DEF q
    <3> QED BY <3>1, <3>2
  <2>3. CASE /\ run' = <<[run[1] EXCEPT !.step = s]>> /\ m = run[1].made
             /\ k = run[1].keep
    BY <1>1, <2>3 DEF RunningJob
  <2> QED BY <2>1, <2>2, <2>3
<1>3. run' # <<>> /\ run'[1] = r
  BY <1>2
<1>4. QueueTypes'
  BY <1>2, <1>3 DEF PictureInv, QueueTypes
<1> QED BY <1>2, <1>3, <1>4

LEMMA PictureTakeKeeps ==
    ASSUME PictureInv, NEW j \in waiting, Picture!Start(j) PROVE PictureInv'
<1> DEFINE r == [job |-> [j EXCEPT !.tries = @ + 1], step |-> Picture!FirstStep(j.task),
                 current |-> photo.version, pending |-> upload.id, made |-> Picture!NoVersion,
                 keep |-> photo.version]
<1>1. /\ run = <<>> /\ j.tries < AvatarAttempts /\ waiting' = waiting \ {j} /\ run' = <<r>>
      /\ UNCHANGED <<photo, gone, upload, staged, copies, route, choice, good>>
  BY DEF Picture!Start, Picture!avatarbounds, Picture!buckets
<1>2. RowTypes /\ QueueTypes /\ CopiesAreFound
  BY DEF PictureInv
<1>3. j \in Picture!AvatarJob
  BY <1>2 DEF QueueTypes
<1>4. /\ r.job \in Picture!AvatarJob /\ r.job.task = j.task /\ r.job.keyed = j.keyed
  <2>1. AvatarAttempts \in Nat
    BY WorkerAssumption DEF Picture!AvatarAssumption
  <2>2. r.job = [j EXCEPT !.tries = j.tries + 1]
    OBVIOUS
  <2>3. j.tries + 1 \in 0..AvatarAttempts
    BY <1>1, <1>3, <2>1 DEF Picture!AvatarJob
  <2> QED BY <1>3, <2>2, <2>3 DEF Picture!AvatarJob
<1>5. Picture!FirstStep(j.task) \in {"copy", "purge", "clear", "wipe"}
  BY DEF Picture!FirstStep
<1>6. r \in RunningJob
  BY <1>2, <1>4, <1>5 DEF RunningJob, RowTypes, Photo, UploadRow, Picture!NoVersion
<1>7. /\ r.step = Picture!FirstStep(j.task) /\ r.keep = photo.version
  OBVIOUS
<1> HIDE DEF r
<1>8. run'[1] = r /\ run' # <<>>
  BY <1>1
<1>9. QueueTypes'
  BY <1>1, <1>2, <1>4, <1>6, <1>8 DEF QueueTypes
<1>10. RunStands'
  <2>1. Picture!FirstStep(j.task) # "record"
    BY <1>5
  <2>2. gone <=> Picture!FirstStep(j.task) = "wipe"
    BY DEF Picture!FirstStep
  <2>3. Picture!FirstStep(j.task) = "clear" => j.task = "upload"
    BY <1>3 DEF Picture!FirstStep, Picture!AvatarJob, Picture!Jobs
  <2>4. ~gone /\ j.task = "upload" => upload # Picture!NoUpload
    BY <1>2 DEF CopiesAreFound
  <2> QED BY <1>1, <1>4, <1>7, <1>8, <2>1, <2>2, <2>3, <2>4 DEF RunStands, Picture!NoVersion
<1>11. CopiesAreFound'
  BY <1>1, <1>2, <1>8 DEF CopiesAreFound
<1> QED
  BY <1>1, <1>9, <1>10, <1>11 DEF PictureInv, RowTypes, BucketTypes, RowStands

\* A copy is made: it is a new version, and the job goes on to record it.
LEMMA CopyMade ==
    ASSUME PictureInv, run # <<>>, run[1].step = "copy",
           NEW s \in Picture!Source, s = IF run[1].job.task = "import" THEN "google" ELSE "upload",
           copies' = copies \cup {[version |-> Picture!NextVersion, of |-> s]},
           run' = <<[run[1] EXCEPT !.step = "record", !.made = Picture!NextVersion]>>,
           UNCHANGED <<photo, gone, upload, staged, route, waiting, choice, good>>,
           0 \notin good => upload # Picture!NoUpload
    PROVE  PictureInv'
<1>1. Picture!NextVersion \in Nat \ {0} /\ \A c \in copies : c.version <= Picture!NextVersion
  BY NextVersionIs
<1> DEFINE new == [version |-> Picture!NextVersion, of |-> s]
<1>2. new \in Picture!Copy /\ new.version = Picture!NextVersion
  BY <1>1 DEF Picture!Copy
<1>3. RowTypes /\ BucketTypes /\ RowStands /\ RunStands /\ CopiesAreFound
  BY DEF PictureInv
<1>4. run[1].keep \in Nat
  BY RunIs DEF RunningJob
<1>5. /\ QueueTypes' /\ run' # <<>> /\ run'[1].step = "record"
      /\ run'[1].made = Picture!NextVersion /\ run'[1].keep = run[1].keep
      /\ run'[1].job = run[1].job
  BY <1>1, <1>4, GoesOn
<1>6. copies' = copies \cup {new}
  OBVIOUS
<1>7. BucketTypes'
  <2>1. copies' \subseteq Picture!Copy
    BY <1>2, <1>3, <1>6 DEF BucketTypes
  <2>2. \A c \in copies' : c.version <= Picture!NextVersion
    BY <1>1, <1>2, <1>6
  <2> HIDE DEF new
  <2> QED BY <1>1, <1>3, <2>1, <2>2 DEF BucketTypes
<1>8. RunStands'
  BY <1>3, <1>5, <1>6 DEF RunStands
<1>9. RowStands'
  BY <1>3, <1>6 DEF RowStands
<1>10. CopiesAreFound'
  <2>1. ~gone
    BY <1>3 DEF RunStands
  <2> QED BY <1>3, <1>5, <2>1 DEF CopiesAreFound
<1> QED
  BY <1>3, <1>5, <1>7, <1>8, <1>9, <1>10 DEF PictureInv, RowTypes

LEMMA CopyGoogleKeeps == ASSUME PictureInv, Picture!CopyGoogle PROVE PictureInv'
<1>1. /\ run # <<>> /\ run[1].job.task = "import" /\ run[1].step = "copy" /\ 0 \in good
      /\ copies' = copies \cup {[version |-> Picture!NextVersion, of |-> "google"]}
      /\ run' = <<[run[1] EXCEPT !.step = "record", !.made = Picture!NextVersion]>>
      /\ UNCHANGED <<photo, gone, upload, staged, route, waiting, choice, good>>
  BY DEF Picture!CopyGoogle, Picture!At, Picture!Task, Picture!avatarbounds
<1> QED BY <1>1, CopyMade DEF Picture!Source

LEMMA CopyUploadKeeps == ASSUME PictureInv, Picture!CopyUpload PROVE PictureInv'
<1>1. /\ run # <<>> /\ run[1].job.task = "upload" /\ run[1].step = "copy"
      /\ copies' = copies \cup {[version |-> Picture!NextVersion, of |-> "upload"]}
      /\ run' = <<[run[1] EXCEPT !.step = "record", !.made = Picture!NextVersion]>>
      /\ UNCHANGED <<photo, gone, upload, staged, route, waiting, choice, good>>
  BY DEF Picture!CopyUpload, Picture!At, Picture!Task, Picture!avatarbounds
<1>2. upload # Picture!NoUpload
  BY <1>1 DEF PictureInv, RunStands
<1> QED BY <1>1, <1>2, CopyMade DEF Picture!Source

\* A job that ends, its purge done or nothing to purge.
LEMMA GoogleRefusedKeeps == ASSUME PictureInv, Picture!GoogleRefused PROVE PictureInv'
<1>1. /\ run # <<>> /\ run[1].job.task = "import" /\ run[1].step = "copy" /\ 0 \notin good
      /\ run' = <<>>
      /\ UNCHANGED <<photo, gone, upload, staged, copies, route, waiting, choice, good>>
  BY DEF Picture!GoogleRefused, Picture!At, Picture!Task, Picture!Done, Picture!avatarbounds,
       Picture!buckets
<1>2. RunStands /\ CopiesAreFound /\ ~gone
  BY <1>1 DEF PictureInv, RunStands
<1>3. CopiesAreFound'
  BY <1>1, <1>2 DEF CopiesAreFound
<1> QED
  BY <1>1, <1>3 DEF PictureInv, RowTypes, BucketTypes, QueueTypes, RowStands, RunStands

LEMMA FailedRowIs ==
    ASSUME upload \in UploadRow, NEW state \in {"refused", "failed"}
    PROVE  /\ Picture!FailedRow(state) \in UploadRow
           /\ Picture!FailedRow(state) = Picture!NoUpload <=> upload = Picture!NoUpload
           /\ Picture!FailedRow(state).state \in {"pending", "done"} =>
                     Picture!FailedRow(state) = upload
<1>1. CASE Picture!FailedRow(state) = upload
  BY <1>1
<1>2. CASE upload.state = "pending"
      /\ Picture!FailedRow(state) = [upload EXCEPT !.state = state]
  <2>1. Picture!FailedRow(state) \in UploadRow /\ Picture!FailedRow(state).state = state
    BY <1>2 DEF UploadRow
  <2> QED BY <1>2, <2>1 DEF Picture!NoUpload
<1> QED BY <1>1, <1>2 DEF Picture!FailedRow

LEMMA UploadRefusedKeeps ==
    ASSUME PictureInv, NEW s \in {"refused", "failed"}, Picture!UploadRefused(s)
    PROVE PictureInv'
<1>1. /\ run # <<>> /\ run[1].job.task = "upload" /\ run[1].step = "copy"
      /\ upload' = Picture!FailedRow(s) /\ run' = <<[run[1] EXCEPT !.step = "clear"]>>
      /\ UNCHANGED <<photo, gone, staged, copies, route, waiting, choice, good>>
  BY DEF Picture!UploadRefused, Picture!At, Picture!Task, Picture!Goes, Picture!avatarbounds,
       Picture!buckets
<1>2. RowTypes /\ RowStands /\ RunStands /\ CopiesAreFound
  BY DEF PictureInv
<1>3. /\ upload' \in UploadRow /\ (upload' = Picture!NoUpload <=> upload = Picture!NoUpload)
      /\ upload'.state \in {"pending", "done"} => upload' = upload
  BY <1>1, <1>2, FailedRowIs DEF RowTypes
<1>4. run[1].keep \in Nat /\ run[1].made \in Nat
  BY <1>1, RunIs DEF RunningJob
<1>5. /\ QueueTypes' /\ run' # <<>> /\ run'[1].step = "clear" /\ run'[1].job = run[1].job
  BY <1>1, <1>4, GoesOn
<1>6. RunStands'
  BY <1>1, <1>2, <1>3, <1>5 DEF RunStands
<1>7. CopiesAreFound'
  BY <1>1, <1>2, <1>3, <1>5 DEF CopiesAreFound
<1>8. RowTypes' /\ RowStands'
  BY <1>1, <1>2, <1>3 DEF RowTypes, RowStands
<1> QED
  BY <1>1, <1>5, <1>6, <1>7, <1>8 DEF PictureInv, BucketTypes

LEMMA PictureRecordKeeps == ASSUME PictureInv, Picture!Record PROVE PictureInv'
<1>1. /\ run # <<>> /\ run[1].step = "record" /\ photo.version < run[1].made
      /\ photo' = IF Picture!Records
                  THEN [photo EXCEPT !.version = run[1].made,
                                     !.source = IF Picture!Task = "import" THEN "google" ELSE "upload"]
                  ELSE photo
      /\ upload' = IF Picture!Records
            /\ Picture!Task = "upload" THEN [upload EXCEPT !.state = "done"] ELSE upload
      /\ run' = <<[run[1] EXCEPT !.step = "purge", !.keep = photo'.version]>>
      /\ UNCHANGED <<gone, staged, copies, route, waiting, choice, good>>
  BY DEF Picture!Record, Picture!At, Picture!Task, Picture!avatarbounds, Picture!buckets
<1>2. RowTypes /\ RowStands /\ RunStands /\ CopiesAreFound
  BY DEF PictureInv
<1>3. /\ run[1].made \in Nat /\ run[1].made # 0 /\ Picture!Task \in Picture!Jobs
  BY <1>1, <1>2, RunIs DEF RunningJob, Picture!AvatarJob, RowTypes, Photo, Picture!Task
<1>4. ~gone
  BY <1>1, <1>2 DEF RunStands
<1>5. /\ photo' \in Photo /\ photo'.version \in Nat
      /\ (photo'.version = Picture!NoVersion <=> photo'.source = "none")
      /\ photo'.answer = photo.answer
      /\ \/ photo' = photo /\ upload' = upload
         \/ /\ Picture!RecordsCopy /\ Picture!Task = "import" /\ upload' = upload
            /\ photo'.version = run[1].made /\ photo'.source = "google"
         \/ /\ Picture!RecordsUpload /\ Picture!Task = "upload" /\ photo'.version = run[1].made
            /\ photo'.source = "upload"
            /\ upload' = [upload EXCEPT !.state = "done"]
  <2>1. CASE ~Picture!Records
    BY <1>1, <1>2, <2>1 DEF RowTypes, Photo
  <2>2. CASE Picture!Records /\ Picture!Task = "import"
    BY <1>1, <1>2, <1>3, <2>2 DEF RowTypes, Photo, Picture!Records, Picture!NoVersion,
         Picture!Source
  <2>3. CASE Picture!Records /\ Picture!Task = "upload"
    BY <1>1, <1>2, <1>3, <2>3 DEF RowTypes, Photo, Picture!Records, Picture!NoVersion,
         Picture!Source
  <2> QED BY <1>3, <2>1, <2>2, <2>3 DEF Picture!Jobs
<1>6. /\ upload' \in UploadRow /\ (upload' = Picture!NoUpload <=> upload = Picture!NoUpload)
      /\ upload' = upload \/ upload'.state = "done"
  <2>1. CASE upload' = upload
    BY <1>2, <2>1 DEF RowTypes
  <2>2. CASE upload' = [upload EXCEPT !.state = "done"] /\ Picture!RecordsUpload
    <3>1. upload' \in UploadRow /\ upload'.state = "done" /\ upload.state = "pending"
      BY <1>2, <2>2 DEF RowTypes, UploadRow, Picture!RecordsUpload
    <3> QED BY <3>1 DEF Picture!NoUpload
  <2> QED BY <1>5, <2>1, <2>2
<1>7. /\ QueueTypes' /\ run' # <<>> /\ run'[1].step = "purge"
      /\ run'[1].keep = photo'.version /\ run'[1].job = run[1].job
  <2>1. PICK k \in Nat : k = photo'.version
    BY <1>5
  <2>2. run' = <<[run[1] EXCEPT !.step = "purge", !.keep = k]>>
    BY <1>1, <2>1
  <2>3. run # <<>> /\ waiting' = waiting /\ run[1].made \in Nat
    BY <1>1, <1>3
  <2>4. /\ QueueTypes' /\ run' # <<>> /\ run'[1].step = "purge"
        /\ run'[1].keep = k /\ run'[1].job = run[1].job
    BY <2>2, <2>3, GoesOn
  <2> QED BY <2>1, <2>4
<1>8. RunStands'
  BY <1>1, <1>2, <1>4, <1>6, <1>7 DEF RunStands
<1>9. RowTypes'
  BY <1>1, <1>2, <1>5, <1>6 DEF RowTypes
<1>10. RowStands'
  <2>1. CASE photo' = photo /\ upload' = upload
    BY <1>1, <1>2, <2>1 DEF RowStands
  <2>2. CASE /\ Picture!RecordsCopy /\ Picture!Task = "import" /\ upload' = upload
             /\ photo'.version = run[1].made /\ photo'.source = "google"
    <3>1. [version |-> photo'.version, of |-> photo'.source] \in copies'
      BY <1>1, <1>2, <2>2 DEF RunStands, Picture!Task
    <3> QED BY <1>1, <1>2, <1>5, <2>2, <3>1 DEF RowStands, Picture!RecordsCopy
  <2>3. CASE /\ Picture!RecordsUpload /\ Picture!Task = "upload" /\ photo'.version = run[1].made
             /\ photo'.source = "upload"
             /\ upload' = [upload EXCEPT !.state = "done"]
    <3>1. [version |-> photo'.version, of |-> photo'.source] \in copies'
      BY <1>1, <1>2, <2>3 DEF RunStands, Picture!Task
    <3>2. choice' = "upload" /\ upload'.state = "done"
      BY <1>1, <1>2, <2>3 DEF RowStands, Picture!RecordsUpload, RowTypes, UploadRow
    <3> QED BY <1>1, <1>2, <1>5, <2>3, <3>1, <3>2 DEF RowStands
  <2> QED BY <1>5, <2>1, <2>2, <2>3
<1>11. CopiesAreFound'
  BY <1>1, <1>2, <1>4, <1>6, <1>7 DEF CopiesAreFound
<1> QED
  BY <1>1, <1>7, <1>8, <1>9, <1>10, <1>11 DEF PictureInv, BucketTypes

LEMMA PurgeKeeps == ASSUME PictureInv, Picture!Purge PROVE PictureInv'
<1>1. /\ run # <<>> /\ run[1].step = "purge" /\ copies' = Picture!Keep
      /\ Picture!Task \in Picture!Jobs
      /\ IF Picture!Task = "upload" THEN run' = <<[run[1] EXCEPT !.step = "clear"]>> ELSE run' = <<>>
      /\ UNCHANGED <<photo, gone, upload, staged, route, waiting, choice, good>>
  BY DEF Picture!Purge, Picture!At, Picture!Goes, Picture!Done, Picture!avatarbounds
<1>2. RowTypes /\ BucketTypes /\ QueueTypes /\ RowStands /\ RunStands /\ CopiesAreFound
  BY DEF PictureInv
<1>3. ~gone
  BY <1>1, <1>2 DEF RunStands
<1>4. copies' \subseteq copies /\ \A c \in copies : c.version = run[1].keep => c \in copies'
  BY <1>1 DEF Picture!Keep
<1>5. run[1].keep \in Nat /\ run[1].made \in Nat
  BY <1>1, RunIs DEF RunningJob
<1>6. /\ QueueTypes'
      /\ Picture!Task = "upload" => /\ run' # <<>> /\ run'[1].step = "clear"
                            /\ run'[1].job = run[1].job
      /\ Picture!Task # "upload" => run' = <<>>
  <2>1. CASE Picture!Task = "upload"
    BY <1>1, <1>5, <2>1, GoesOn
  <2>2. CASE Picture!Task # "upload"
    BY <1>1, <1>2, <2>2 DEF QueueTypes
  <2> QED BY <2>1, <2>2
<1>7. RunStands'
  BY <1>1, <1>2, <1>3, <1>6 DEF RunStands, Picture!Task
<1>8. BucketTypes'
  BY <1>1, <1>2, <1>4 DEF BucketTypes
<1>9. RowStands'
  <2>1. photo.version # Picture!NoVersion =>
          [version |-> photo.version, of |-> photo.source] \in copies'
    BY <1>1, <1>2, <1>4 DEF RowStands, RunStands
  <2> QED BY <1>1, <1>2, <2>1 DEF RowStands
<1>10. CopiesAreFound'
  <2>1. ASSUME copies' # {}, Picture!Task # "upload"
        PROVE  photo.version # Picture!NoVersion \/ waiting # {}
    <3>1. PICK c \in copies : c.version = run[1].keep
      BY <1>1, <2>1 DEF Picture!Keep
    <3>2. run[1].keep # Picture!NoVersion
      BY <1>2, <3>1 DEF BucketTypes, Picture!Copy, Picture!NoVersion
    <3> QED BY <1>1, <1>2, <3>2 DEF RunStands
  <2>2. Picture!Task = "upload" => run' # <<>>
    BY <1>6
  <2>3. copies' # {} => copies # {}
    BY <1>4
  <2> QED BY <1>1, <1>2, <1>3, <2>1, <2>2, <2>3 DEF CopiesAreFound
<1> QED
  BY <1>1, <1>2, <1>6, <1>7, <1>8, <1>9, <1>10 DEF PictureInv, RowTypes

LEMMA ClearStagingKeeps == ASSUME PictureInv, Picture!ClearStaging PROVE PictureInv'
<1>1. /\ run # <<>> /\ run[1].step = "clear" /\ run[1].job.task = "upload"
      /\ staged' = {} /\ run' = <<>>
      /\ UNCHANGED <<photo, gone, upload, route, copies, waiting, choice, good>>
  BY DEF Picture!ClearStaging, Picture!At, Picture!Task, Picture!Done, Picture!avatarbounds
<1>2. RunStands /\ CopiesAreFound /\ ~gone /\ upload # Picture!NoUpload
  BY <1>1 DEF PictureInv, RunStands
<1>3. CopiesAreFound'
  BY <1>1, <1>2 DEF CopiesAreFound
<1> QED
  BY <1>1, <1>3 DEF PictureInv, RowTypes, BucketTypes, QueueTypes, RowStands, RunStands

LEMMA WipeKeeps == ASSUME PictureInv, Picture!Wipe PROVE PictureInv'
<1>1. /\ run # <<>> /\ run[1].step = "wipe" /\ copies' = {} /\ staged' = {} /\ run' = <<>>
      /\ UNCHANGED <<photo, gone, upload, route, waiting, choice, good>>
  BY DEF Picture!Wipe, Picture!At, Picture!Done, Picture!avatarbounds
<1>2. gone /\ photo.version = Picture!NoVersion
  BY <1>1 DEF PictureInv, RunStands, CopiesAreFound
<1> QED
  BY <1>1, <1>2 DEF PictureInv, RowTypes, BucketTypes, QueueTypes, RowStands, RunStands,
     CopiesAreFound

\* A job goes back to those that wait, and is keyed still if no other took its key.
LEMMA BackKeeps ==
    ASSUME PictureInv, run # <<>>, Picture!Back,
           UNCHANGED <<photo, gone, copies, route, choice, good>>, staged' \subseteq staged,
           upload' = upload \/ \E s \in {"refused", "failed"} : upload' = Picture!FailedRow(s)
    PROVE  PictureInv'
<1>1. run' = <<>> /\ waiting' = waiting \cup {run[1].job}
  BY DEF Picture!Back
<1>2. RowTypes /\ QueueTypes /\ RowStands /\ RunStands /\ CopiesAreFound
  BY DEF PictureInv
<1>3. /\ upload' \in UploadRow /\ (upload' = Picture!NoUpload <=> upload = Picture!NoUpload)
      /\ upload'.state \in {"pending", "done"} => upload' = upload
  BY <1>2, FailedRowIs DEF RowTypes
<1>4. run[1].job \in Picture!AvatarJob /\ run[1].job \in waiting'
  BY <1>1, RunIs
<1>5. QueueTypes'
  BY <1>1, <1>2, <1>4 DEF QueueTypes
<1>6. CopiesAreFound'
  <2>1. ~gone /\ (\E j \in waiting' : j.task = "upload") => upload # Picture!NoUpload
    BY <1>1, <1>2 DEF CopiesAreFound, RunStands
  <2>2. waiting' # {}
    BY <1>4
  <2> QED BY <1>2, <1>3, <2>1, <2>2 DEF CopiesAreFound
<1>7. RowTypes' /\ RowStands' /\ RunStands'
  BY <1>1, <1>2, <1>3 DEF RowTypes, RowStands, RunStands
<1> QED
  BY <1>5, <1>6, <1>7 DEF PictureInv, BucketTypes

LEMMA PictureNext == ASSUME PictureInv, Picture!Next PROVE PictureInv'
<1>1. CASE Picture!LeavePhoto \/ Picture!Decline \/ Picture!Accept \/ Picture!RequestGoogle
      \/ Picture!Anonymise
  BY <1>1, LeavePhotoKeeps, DeclineKeeps, AcceptKeeps, RequestGoogleKeeps, AnonymiseKeeps
<1>2. CASE \E u \in Picture!Upload : Picture!Stage(u) \/ Picture!BeginUpload(u)
  BY <1>2, StageKeeps, BeginUploadKeeps
<1>3. CASE \E j \in waiting : Picture!Start(j)
  BY <1>3, PictureTakeKeeps
<1>4. CASE Picture!CopyGoogle \/ Picture!GoogleRefused \/ Picture!CopyUpload
  BY <1>4, CopyGoogleKeeps, GoogleRefusedKeeps, CopyUploadKeeps
<1>5. CASE \E s \in {"refused", "failed"} : Picture!UploadRefused(s)
  BY <1>5, UploadRefusedKeeps
<1>6. CASE Picture!Record \/ Picture!Purge \/ Picture!ClearStaging \/ Picture!Wipe
  BY <1>6, PictureRecordKeeps, PurgeKeeps, ClearStagingKeeps, WipeKeeps
<1>7. CASE Picture!Fails
  BY <1>7, BackKeeps DEF Picture!Fails, Picture!LastWord, Picture!avatarbounds
<1>8. CASE Picture!Silenced
  BY <1>8, BackKeeps DEF Picture!Silenced, Picture!buckets
<1> QED
  BY <1>1, <1>2, <1>3, <1>4, <1>5, <1>6, <1>7, <1>8 DEF Picture!Next, Picture!Steps

LEMMA PictureStutters == ASSUME PictureInv, UNCHANGED picture PROVE PictureInv'
  BY DEF picture, PictureInv, RowTypes, BucketTypes, QueueTypes, RowStands, RunStands,
     CopiesAreFound

LEMMA PictureStandsHolds == ASSUME PictureInv PROVE Picture!ChoiceStands
<1>1. RowTypes /\ RowStands
  BY DEF PictureInv
<1>2. choice = "library" /\ ~gone => photo.version = Picture!NoVersion
  BY <1>1 DEF RowTypes, RowStands, Photo, Picture!Source
<1> QED BY <1>1, <1>2 DEF Picture!ChoiceStands, RowStands

---------------------------------------------------------------------------
(* The staging bucket.                                                     *)

\* An upload that ever had a row is led to by the row, and once the member is
\* anonymised by a job, as long as an object is staged.
StagedAreFound ==
    (\E u \in Picture!Upload : route[u] = "begun") =>
        /\ ~gone => upload # Picture!NoUpload
        /\ gone => staged = {} \/ waiting # {} \/ run # <<>>

LEMMA StagedStart == ASSUME Picture!Init PROVE StagedAreFound
  BY DEF Picture!Init, StagedAreFound

\* A step of a member who is not anonymised, and that keeps the upload's row.
LEMMA RowLeads ==
    ASSUME StagedAreFound, ~gone, gone' = gone, route' = route,
           upload' = Picture!NoUpload => upload = Picture!NoUpload
    PROVE  StagedAreFound'
  BY DEF StagedAreFound

LEMMA StagedKept ==
    ASSUME PictureInv, StagedAreFound, Picture!Next PROVE StagedAreFound'
<1>1. /\ upload \in UploadRow /\ (run # <<>> => (gone <=> run[1].step = "wipe"))
      /\ photo.version = Picture!NoVersion <=> photo.source = "none"
  BY DEF PictureInv, RowTypes, RunStands
<1>2. CASE Picture!LeavePhoto \/ Picture!RequestGoogle
  <2>1. /\ ~gone /\ gone' = gone /\ route' = route /\ upload' = Picture!Cancelled
    BY <1>2 DEF Picture!LeavePhoto, Picture!RequestGoogle, Picture!Choose
  <2> QED BY <1>1, <2>1, CancelledIs, RowLeads
<1>3. CASE Picture!Decline \/ Picture!Accept
  <2>1. ~gone /\ gone' = gone /\ route' = route /\ upload' = upload
    BY <1>3 DEF Picture!Decline, Picture!Accept, Picture!Choose
  <2> QED BY <2>1, RowLeads
<1>4. CASE Picture!Anonymise
  <2>1. /\ ~gone /\ gone' /\ route' = route
        /\ upload # Picture!NoUpload => Picture!Enqueue("import")
    BY <1>4 DEF Picture!Anonymise, Picture!Reconciled
  <2>2. Picture!Enqueue("import") => waiting' # {}
    BY DEF Picture!Enqueue
  <2> QED BY <2>1, <2>2 DEF StagedAreFound
<1>5. CASE \E u \in Picture!Upload : Picture!Stage(u)
  <2>1. PICK u \in Picture!Upload : Picture!Stage(u)
    BY <1>5
  <2>2. /\ ~gone /\ gone' = gone /\ upload' = upload
        /\ route' = [route EXCEPT ![u] = "stored"]
    BY <2>1 DEF Picture!Stage
  <2>3. \A x \in Picture!Upload : route'[x] = "begun" => route[x] = "begun"
    BY <2>2 DEF PictureInv, BucketTypes
  <2> QED BY <2>2, <2>3 DEF StagedAreFound
<1>6. CASE \E u \in Picture!Upload : Picture!BeginUpload(u)
  <2>1. PICK u \in Picture!Upload : Picture!BeginUpload(u)
    BY <1>6
  <2>2. ~gone /\ gone' = gone /\ upload' = [id |-> u, state |-> "pending"]
    BY <2>1 DEF Picture!BeginUpload
  <2>3. upload' # Picture!NoUpload
    BY <2>2 DEF Picture!NoUpload
  <2> QED BY <2>2, <2>3 DEF StagedAreFound
<1>7. CASE \E j \in waiting : Picture!Start(j)
  <2>1. UNCHANGED <<gone, upload, route>> /\ run' # <<>>
    BY <1>7 DEF Picture!Start
  <2> QED BY <2>1 DEF StagedAreFound
<1>8. CASE Picture!CopyGoogle \/ Picture!GoogleRefused \/ Picture!CopyUpload
           \/ Picture!Purge \/ Picture!ClearStaging
  <2>1. run # <<>> /\ run[1].step # "wipe" /\ UNCHANGED <<gone, upload, route>>
    BY <1>8 DEF Picture!CopyGoogle, Picture!GoogleRefused, Picture!CopyUpload,
         Picture!Purge, Picture!ClearStaging, Picture!At
  <2> QED BY <1>1, <2>1, RowLeads
<1>9. CASE \E s \in {"refused", "failed"} : Picture!UploadRefused(s)
  <2>1. PICK s \in {"refused", "failed"} : Picture!UploadRefused(s)
    BY <1>9
  <2>2. /\ run # <<>> /\ run[1].step # "wipe" /\ UNCHANGED <<gone, route>>
        /\ upload' = Picture!FailedRow(s)
    BY <2>1 DEF Picture!UploadRefused, Picture!At
  <2> QED BY <1>1, <2>2, FailedRowIs, RowLeads
<1>10. CASE Picture!Record
  <2>1. /\ run # <<>> /\ run[1].step # "wipe" /\ UNCHANGED <<gone, route>>
        /\ upload' = upload \/ upload' = [upload EXCEPT !.state = "done"]
    BY <1>10 DEF Picture!Record, Picture!At
  <2>2. upload' = Picture!NoUpload => upload = Picture!NoUpload
    BY <1>1, <2>1 DEF UploadRow, Picture!NoUpload
  <2> QED BY <1>1, <2>1, <2>2, RowLeads
<1>11. CASE Picture!Wipe
  <2>1. run # <<>> /\ run[1].step = "wipe" /\ UNCHANGED <<gone, route>> /\ staged' = {}
    BY <1>11 DEF Picture!Wipe, Picture!At
  <2> QED BY <1>1, <2>1 DEF StagedAreFound
<1>12. CASE Picture!Fails \/ Picture!Silenced
  <2>1. UNCHANGED <<gone, route>> /\ waiting' = waiting \cup {run[1].job}
    BY <1>12 DEF Picture!Fails, Picture!Silenced, Picture!Back
  <2>2. upload' = upload \/ upload' = Picture!FailedRow("failed")
    BY <1>12 DEF Picture!Fails, Picture!Silenced, Picture!LastWord
  <2>3. upload' = Picture!NoUpload => upload = Picture!NoUpload
    BY <1>1, <2>2, FailedRowIs
  <2> QED BY <2>1, <2>3 DEF StagedAreFound
<1> QED
  BY <1>2, <1>3, <1>4, <1>5, <1>6, <1>7, <1>8, <1>9, <1>10, <1>11, <1>12
  DEF Picture!Next, Picture!Steps

LEMMA PictureGoneHolds ==
    ASSUME PictureInv, StagedAreFound PROVE Picture!AnonymisedLeavesNoPicture
  BY DEF PictureInv, CopiesAreFound, StagedAreFound, Picture!AnonymisedLeavesNoPicture,
     Picture!AvatarSettled

LEMMA PictureTypesAre == ASSUME PictureInv PROVE Picture!TypeOK
<1>1. ASSUME NEW t \in Picture!Jobs
      PROVE  Cardinality({j \in waiting : j.task = t /\ j.keyed}) <= 1
  <2> DEFINE S == {j \in waiting : j.task = t /\ j.keyed}
  <2>1. \A i, j \in S : i = j
    BY DEF PictureInv, QueueTypes
  <2>2. S = {} \/ \E i : S = {i}
    BY <2>1
  <2> HIDE DEF S
  <2>3. Cardinality(S) = 0 \/ Cardinality(S) = 1
    BY <2>2, FS_EmptySet, FS_Singleton
  <2>4. Cardinality(S) <= 1
    BY <2>3
  <2> QED BY <2>4 DEF S
<1>2. /\ photo.version \in Nat /\ photo.source \in Picture!Source \cup {"none"}
      /\ photo.answer \in {"none", "accepted", "declined"}
      /\ upload.id \in 0..MaxUploads
      /\ upload.state \in {"none", "pending", "done", "refused", "failed", "cancelled"}
  BY DEF PictureInv, RowTypes, Photo, UploadRow
<1> QED
  BY <1>1, <1>2, CountIs DEF PictureInv, RowTypes, BucketTypes, QueueTypes, Picture!TypeOK

(***************************************************************************)
(* The certificates of one session (Certificates).                         *)
(***************************************************************************)

---------------------------------------------------------------------------
(* Rows.                                                                   *)

LEMMA Element ==
    ASSUME NEW S, NEW s \in Seq(S)
    PROVE  /\ Len(s) \in Nat /\ DOMAIN s = 1..Len(s)
           /\ \A i \in DOMAIN s : s[i] \in S
  OBVIOUS

LEMMA Appended ==
    ASSUME NEW S, NEW s \in Seq(S), NEW e \in S
    PROVE  /\ Append(s, e) \in Seq(S) /\ Len(Append(s, e)) = Len(s) + 1
           /\ DOMAIN Append(s, e) = DOMAIN s \cup {Len(s) + 1}
           /\ Append(s, e)[Len(s) + 1] = e
           /\ \A i \in DOMAIN s : Append(s, e)[i] = s[i]
  OBVIOUS

Mode == {"off", "automatic", "review"}
Issue == [member : Holders, mode : Mode, does : {"nothing", "finds", "writes"}]

\* The rows, and the counter that goes with them.
RowsInv(cs, next) ==
    /\ cs \in Seq(Issuing!Certificate)
    /\ next = Len(cs) + 1
    /\ \A i \in DOMAIN cs :
        /\ cs[i].serial = i /\ cs[i].notices <= 1
        /\ cs[i].state = "held" => cs[i].notices = 0
        /\ cs[i].state = "issued" => cs[i].notices = 1
        /\ cs[i].cause = "for_cause" => cs[i].state = "revoked"

\* A member has one live row, and none beside one revoked for cause.
OneLive(cs) ==
    \A i, j \in DOMAIN cs :
        /\ cs[i].member = cs[j].member
        /\ cs[i].state # "revoked"
        /\ cs[j].state # "revoked" \/ cs[j].cause = "for_cause"
        => i = j

\* The job that runs has its row, and one that is to write found nothing that
\* forbids it; nothing has come to forbid it since.
RunInv ==
    /\ issuing \in {<<>>} \cup {<<r>> : r \in Issue}
    /\ issuing # <<>> =>
        /\ jobs[issuing[1].member] # Issuing!NoJob
        /\ issuing[1].does = "writes" =>
               Issuing!LiveRows(issuing[1].member) = {} /\ ~Issuing!Final(issuing[1].member)

Owed(m) == completed /\ mode # "off" /\ m \in complete \ missed
Served(m) == Issuing!LiveRows(m) # {} \/ Issuing!Final(m)

\* Whoever is owed a certificate has it or a job; and a job that will write
\* nothing was overtaken, or leaves nobody without.
OwedInv ==
    /\ \A m \in Holders : Owed(m) => Served(m) \/ jobs[m] # Issuing!NoJob
    /\ issuing # <<>> /\ issuing[1].does # "writes" /\ issuing[1].member \notin rerun =>
           (Owed(issuing[1].member) => Served(issuing[1].member))

\* A call that read the session after its end asks, or its member is served; the
\* mode is what it read, and nobody can take what the member has.
EntryInv ==
    \A e \in entering : e.ended /\ mode # "off" /\ ~e.asks => Served(e.member)

\* A member has one call, and none beside a complete attendance.
People ==
    /\ complete \subseteq Holders /\ missed \subseteq complete
    /\ entering \subseteq Issuing!Entry
    /\ \A e \in entering : e.member \notin complete
    /\ \A e, f \in entering : e.member = f.member => e = f

Types ==
    /\ mode \in Mode /\ completed \in BOOLEAN /\ People
    /\ jobs \in [Holders -> Issuing!NoJob..IssueTries]

CertificatesInv ==
    Types /\ RowsInv(certs, counter) /\ OneLive(certs) /\ RunInv /\ OwedInv /\ EntryInv

---------------------------------------------------------------------------
(* The beginning.                                                          *)

LEMMA CertificatesStart == ASSUME Issuing!Init PROVE CertificatesInv
<1>1. Types
  <2>1. IssueTries \in Nat \ {0}
    BY WorkerAssumption DEF Issuing!CertificatesAssumption
  <2>2. jobs \in [Holders -> Issuing!NoJob..IssueTries]
    BY <2>1 DEF Issuing!Init, Issuing!NoJob
  <2> QED
    BY <2>2 DEF Issuing!Init, Types, People, Mode
<1>2. RowsInv(certs, counter) /\ OneLive(certs)
  BY DEF Issuing!Init, RowsInv, OneLive
<1>3. RunInv
  BY DEF Issuing!Init, RunInv
<1>4. OwedInv /\ EntryInv
  BY DEF Issuing!Init, OwedInv, Owed, EntryInv
<1> QED
  BY <1>1, <1>2, <1>3, <1>4 DEF CertificatesInv

---------------------------------------------------------------------------
(* Steps that write no row.                                                *)

\* What is said of the rows alone stays.
LEMMA SameRows ==
    ASSUME CertificatesInv, certs' = certs, counter' = counter
    PROVE  /\ RowsInv(certs, counter)' /\ OneLive(certs)'
           /\ \A m : /\ Issuing!LiveRows(m)' = Issuing!LiveRows(m)
                 /\ Issuing!Final(m)' = Issuing!Final(m)
                     /\ Served(m)' = Served(m)
<1>1. RowsInv(certs, counter)' /\ OneLive(certs)'
  BY DEF CertificatesInv, RowsInv, OneLive
<1>2. ASSUME NEW m PROVE Issuing!LiveRows(m)' = Issuing!LiveRows(m)
      /\ Issuing!Final(m)' = Issuing!Final(m)
  BY DEF Issuing!LiveRows, Issuing!Rows, Issuing!Final
<1> QED
  BY <1>1, <1>2 DEF Served

\* Who is queued has a job of the full number of tries; a job that runs meanwhile
\* is to be run again; the others stay as they are.
LEMMA Queued ==
    ASSUME CertificatesInv, NEW M, Issuing!Queue(M)
    PROVE  /\ jobs' \in [Holders -> Issuing!NoJob..IssueTries]
           /\ \A m \in Holders : jobs[m] # Issuing!NoJob \/ m \in M => jobs'[m] # Issuing!NoJob
           /\ rerun \subseteq rerun'
           /\ issuing # <<>> /\ issuing[1].member \in M => issuing[1].member \in rerun'
<1>1. jobs \in [Holders -> Issuing!NoJob..IssueTries] /\ IssueTries \in Nat \ {0}
  BY WorkerAssumption DEF CertificatesInv, Types, Issuing!CertificatesAssumption
<1>2. jobs' = [m \in Holders |-> IF m \in M THEN IssueTries ELSE jobs[m]]
  BY DEF Issuing!Queue, Issuing!Enqueued
<1>3. \A m \in Holders : jobs[m] # Issuing!NoJob \/ m \in M => jobs'[m] # Issuing!NoJob
  BY <1>1, <1>2 DEF Issuing!NoJob
<1>4. jobs' \in [Holders -> Issuing!NoJob..IssueTries]
  BY <1>1, <1>2 DEF Issuing!NoJob
<1>5. rerun \subseteq rerun' /\ (issuing # <<>> /\ issuing[1].member \in M =>
          issuing[1].member \in rerun')
  BY DEF Issuing!Queue
<1> QED
  BY <1>3, <1>4, <1>5

\* The job that runs is one of Issue's.
LEMMA Running ==
    ASSUME CertificatesInv, issuing # <<>>
    PROVE  issuing[1] \in Issue /\ issuing[1].member \in Holders
  BY DEF CertificatesInv, RunInv, Issue

\* What is said of the calls stays, when who is not yet recorded stays served.
LEMMA EntriesKept ==
    ASSUME CertificatesInv, mode' = mode, entering' \subseteq entering,
           \A m : Served(m) /\ m \notin complete => Served(m)'
    PROVE  EntryInv'
<1>1. ASSUME NEW e \in entering', e.ended, mode' # "off", ~e.asks PROVE Served(e.member)'
  <2>1. Served(e.member) /\ e.member \notin complete
    BY <1>1 DEF CertificatesInv, EntryInv, Types, People
  <2> QED
    BY <2>1
<1> QED
  BY <1>1 DEF EntryInv, Served, Issuing!LiveRows, Issuing!Rows, Issuing!Final

\* A call that writes no row, and queues at least those it makes owed, keeps
\* the invariant.
LEMMA CertificateCallKeeps ==
    ASSUME CertificatesInv, NEW M, Issuing!Queue(M),
           mode' \in Mode, completed' \in BOOLEAN, People', EntryInv',
           UNCHANGED <<certs, counter, issuing>>,
           \A m \in Holders : Owed(m)' => Owed(m) \/ m \in M \/ Served(m)
    PROVE  CertificatesInv'
<1>1. Types'
  BY Queued DEF Types
<1>2. RowsInv(certs, counter)' /\ OneLive(certs)'
  BY SameRows
<1>3. \A m : Issuing!LiveRows(m)' = Issuing!LiveRows(m)
      /\ Issuing!Final(m)' = Issuing!Final(m) /\ Served(m)' = Served(m)
  BY SameRows
<1>4. RunInv'
  <2>1. issuing' = issuing /\ RunInv
    BY DEF CertificatesInv
  <2>2. ASSUME issuing # <<>>
        PROVE  /\ jobs'[issuing[1].member] # Issuing!NoJob
               /\ issuing[1].does = "writes" =>
                    Issuing!LiveRows(issuing[1].member)' = {}
                          /\ ~Issuing!Final(issuing[1].member)'
    BY <2>1, <2>2, <1>3, Queued, Running DEF RunInv
  <2> QED
    BY <2>1, <2>2, <1>3 DEF RunInv, Issuing!LiveRows, Issuing!Final, Issuing!Rows
<1>5. OwedInv'
  <2>1. ASSUME NEW m \in Holders, Owed(m)' PROVE Served(m)' \/ jobs'[m] # Issuing!NoJob
    BY <2>1, <1>3, Queued DEF CertificatesInv, OwedInv
  <2>2. ASSUME issuing # <<>>, issuing[1].does # "writes", issuing[1].member \notin rerun',
               Owed(issuing[1].member)'
        PROVE  Served(issuing[1].member)'
    BY <2>2, <1>3, Queued, Running DEF CertificatesInv, OwedInv
  <2> QED
    BY <2>1, <2>2 DEF OwedInv, Owed, Served, Issuing!LiveRows, Issuing!Rows, Issuing!Final
<1> QED
  BY <1>1, <1>2, <1>4, <1>5 DEF CertificatesInv

LEMMA CompleteKeeps ==
    ASSUME CertificatesInv, Issuing!CompleteSession PROVE CertificatesInv'
<1>1. mode' = mode /\ completed' = TRUE /\ UNCHANGED <<complete, entering, missed>>
  BY DEF Issuing!CompleteSession, Issuing!people
<1>2. Issuing!Queue(Issuing!FanOut) /\ UNCHANGED <<certs, counter, issuing>>
  BY DEF Issuing!CompleteSession
<1>3. \A m \in Holders : Owed(m)' => m \in Issuing!FanOut
  BY <1>1 DEF Owed, Issuing!FanOut
<1>4. mode' \in Mode /\ People'
  BY <1>1 DEF CertificatesInv, Types, People
<1>5. EntryInv'
  BY <1>1, <1>2, SameRows, EntriesKept
<1> QED
  BY <1>1, <1>2, <1>3, <1>4, <1>5, CertificateCallKeeps

LEMMA ModeKeeps ==
    ASSUME CertificatesInv, NEW new \in Mode,
           Issuing!set_session_certificate_mode(new)
    PROVE  CertificatesInv'
<1>1. /\ mode' = new /\ completed' = completed /\ complete' = complete
      /\ entering = {} /\ entering' = {}
      /\ missed' = IF completed THEN missed \ Issuing!FanOut ELSE missed
  BY DEF Issuing!set_session_certificate_mode, Issuing!NoEntry
<1> DEFINE M == IF completed THEN Issuing!FanOut ELSE {}
<1>2. Issuing!Queue(M) /\ UNCHANGED <<certs, counter, issuing>>
  BY DEF Issuing!set_session_certificate_mode
<1>3. \A m \in Holders : Owed(m)' => m \in M
  BY <1>1 DEF Owed, Issuing!FanOut
<1>4. completed' \in BOOLEAN /\ People'
  BY <1>1 DEF CertificatesInv, Types, People
<1>5. EntryInv'
  BY <1>1 DEF EntryInv
<1> HIDE DEF M
<1> QED
  BY <1>1, <1>2, <1>3, <1>4, <1>5, CertificateCallKeeps

LEMMA MarkKeeps ==
    ASSUME CertificatesInv, NEW h \in Holders, Issuing!MarkCheckedIn(h)
    PROVE  CertificatesInv'
<1>1. /\ mode' = mode /\ completed' = completed /\ complete' = complete \cup {h}
      /\ entering = {} /\ entering' = {} /\ missed' = missed
  BY DEF Issuing!MarkCheckedIn, Issuing!NoEntry
<1> DEFINE M == IF Issuing!Asks(h) THEN {h} ELSE {}
<1>2. Issuing!Queue(M) /\ UNCHANGED <<certs, counter, issuing>>
  BY DEF Issuing!MarkCheckedIn
<1>3. \A m \in Holders : Owed(m)' => Owed(m) \/ m \in M \/ Served(m)
  BY <1>1 DEF Owed, Issuing!Asks, Issuing!MayIssueAgain, Served
<1>4. mode' \in Mode /\ completed' \in BOOLEAN /\ People'
  BY <1>1 DEF CertificatesInv, Types, People
<1>5. EntryInv'
  BY <1>1 DEF EntryInv
<1> HIDE DEF M
<1> QED
  BY <1>1, <1>2, <1>3, <1>4, <1>5, CertificateCallKeeps

\* The call that has read the session asks for what its read showed to be owed.
LEMMA BeginCheckInKeeps ==
    ASSUME CertificatesInv, NEW h \in Holders, Issuing!BeginCheckIn(h)
    PROVE  CertificatesInv'
<1> DEFINE e == [member |-> h, ended |-> completed, asks |-> Issuing!Asks(h)]
<1>1. /\ UNCHANGED <<mode, completed, complete, missed, certs, counter, jobs, issuing, rerun>>
      /\ h \notin complete /\ \A f \in entering : f.member # h
      /\ entering' = entering \cup {e}
  BY DEF Issuing!BeginCheckIn
<1>2. Types /\ RunInv /\ OwedInv /\ EntryInv
  BY DEF CertificatesInv
<1>3. e \in Issuing!Entry /\ e.member = h
  <2>1. Issuing!Asks(h) \in BOOLEAN
    BY DEF Issuing!Asks
  <2> QED
    BY <1>2, <2>1 DEF Types, Issuing!Entry
<1>4. e.ended /\ mode # "off" /\ ~e.asks => Served(e.member)
  BY DEF Issuing!Asks, Issuing!MayIssueAgain, Served
<1> HIDE DEF e
<1>5. Types'
  BY <1>1, <1>2, <1>3 DEF Types, People
<1>6. RowsInv(certs, counter)' /\ OneLive(certs)' /\ (\A m : Served(m)' = Served(m))
  BY <1>1, SameRows
<1>7. EntryInv'
  <2>1. ASSUME NEW f \in entering', f.ended, mode' # "off", ~f.asks PROVE Served(f.member)
    BY <1>1, <1>2, <1>4, <2>1 DEF EntryInv
  <2> QED
    BY <1>6, <2>1 DEF EntryInv, Served, Issuing!LiveRows, Issuing!Rows, Issuing!Final
<1>8. RunInv' /\ OwedInv'
  BY <1>1, <1>2 DEF RunInv, OwedInv, Owed, Served, Issuing!LiveRows, Issuing!Rows,
     Issuing!Final
<1> QED
  BY <1>5, <1>6, <1>7, <1>8 DEF CertificatesInv

\* Who becomes owed asks, or is served, or is missed.
LEMMA FinishCheckInKeeps ==
    ASSUME CertificatesInv, NEW e \in entering, Issuing!FinishCheckIn(e)
    PROVE  CertificatesInv'
<1>1. /\ mode' = mode /\ completed' = completed /\ complete' = complete \cup {e.member}
      /\ entering' = entering \ {e}
      /\ missed' = IF completed /\ mode # "off" /\ ~e.ended THEN missed \cup {e.member}
                                                            ELSE missed
  BY DEF Issuing!FinishCheckIn
<1> DEFINE M == IF e.asks THEN {e.member} ELSE {}
<1>2. Issuing!Queue(M) /\ UNCHANGED <<certs, counter, issuing>>
  BY DEF Issuing!FinishCheckIn
<1>3. Types /\ EntryInv
  BY DEF CertificatesInv
<1>4. \A m \in Holders : Owed(m)' => Owed(m) \/ m \in M \/ Served(m)
  BY <1>1, <1>3 DEF Owed, EntryInv
<1>5. mode' \in Mode /\ completed' \in BOOLEAN /\ People'
  <2>1. e.member \in Holders
    BY <1>3 DEF Types, People, Issuing!Entry
  <2>2. \A f \in entering' : f.member \notin complete'
    BY <1>1, <1>3 DEF Types, People
  <2> QED
    BY <1>1, <1>3, <2>1, <2>2 DEF Types, People
<1>6. EntryInv'
  BY <1>1, <1>2, SameRows, EntriesKept
<1> HIDE DEF M
<1> QED
  BY <1>1, <1>2, <1>4, <1>5, <1>6, CertificateCallKeeps

---------------------------------------------------------------------------
(* Steps that change a row.                                                *)

\* A row is a certificate.
LEMMA Row ==
    ASSUME CertificatesInv
    PROVE  /\ certs \in Seq(Issuing!Certificate) /\ Len(certs) \in Nat
           /\ DOMAIN certs = 1..Len(certs)
           /\ \A i \in DOMAIN certs : certs[i] \in Issuing!Certificate
           /\ counter = Len(certs) + 1
<1>1. certs \in Seq(Issuing!Certificate) /\ counter = Len(certs) + 1
  BY DEF CertificatesInv, RowsInv
<1>2. Len(certs) \in Nat /\ DOMAIN certs = 1..Len(certs)
      /\ \A i \in DOMAIN certs : certs[i] \in Issuing!Certificate
  BY <1>1, Element
<1> QED
  BY <1>1, <1>2

\* A sequence with one element replaced.
LEMMA Replaced ==
    ASSUME NEW S, NEW s \in Seq(S), NEW k \in DOMAIN s, NEW e \in S
    PROVE  /\ [s EXCEPT ![k] = e] \in Seq(S) /\ Len([s EXCEPT ![k] = e]) = Len(s)
           /\ DOMAIN [s EXCEPT ![k] = e] = DOMAIN s
           /\ [s EXCEPT ![k] = e][k] = e
           /\ \A i \in DOMAIN s : i # k => [s EXCEPT ![k] = e][i] = s[i]
  OBVIOUS

\* What a revocation does to the row.
LEMMA RevokedRow ==
    ASSUME CertificatesInv, NEW k \in DOMAIN certs,
           NEW why \in {"attendance_removed", "for_cause"}, certs' = Issuing!Revoked(k, why)
    PROVE  /\ certs' \in Seq(Issuing!Certificate) /\ Len(certs') = Len(certs)
           /\ DOMAIN certs' = DOMAIN certs
           /\ certs'[k].state = "revoked" /\ certs'[k].cause = why
           /\ certs'[k].member = certs[k].member /\ certs'[k].serial = certs[k].serial
           /\ certs'[k].notices = certs[k].notices
           /\ \A i \in DOMAIN certs : i # k => certs'[i] = certs[i]
<1> DEFINE e == [certs[k] EXCEPT !.state = "revoked", !.cause = why]
<1>1. certs \in Seq(Issuing!Certificate) /\ certs[k] \in Issuing!Certificate
  BY Row
<1>2. /\ e \in Issuing!Certificate /\ e.state = "revoked" /\ e.cause = why
      /\ e.member = certs[k].member /\ e.serial = certs[k].serial
      /\ e.notices = certs[k].notices
  BY <1>1 DEF Issuing!Certificate
<1>3. certs' = [certs EXCEPT ![k] = e]
  BY <1>1 DEF Issuing!Revoked
<1> HIDE DEF e
<1> QED
  BY <1>1, <1>2, <1>3, Replaced

\* A revocation leaves the rows in order, and the member without a live one.
LEMMA RevokedKeepsRows ==
    ASSUME CertificatesInv, NEW k \in DOMAIN certs, certs[k].state # "revoked",
           NEW why \in {"attendance_removed", "for_cause"}, certs' = Issuing!Revoked(k, why),
           counter' = counter
    PROVE  /\ RowsInv(certs, counter)' /\ OneLive(certs)'
           /\ \A m : /\ Issuing!LiveRows(m)' \subseteq Issuing!LiveRows(m)
                     /\ m # certs[k].member => Served(m)' = Served(m)
                     /\ Issuing!Final(m) => Issuing!Final(m)'
                     /\ Issuing!LiveRows(m) = {} => Issuing!Final(m)' = Issuing!Final(m)
                     /\ why = "for_cause" /\ m = certs[k].member => Issuing!Final(m)'
<1>1. /\ certs' \in Seq(Issuing!Certificate) /\ Len(certs') = Len(certs)
      /\ DOMAIN certs' = DOMAIN certs
      /\ certs'[k].state = "revoked" /\ certs'[k].cause = why
      /\ certs'[k].member = certs[k].member /\ certs'[k].serial = certs[k].serial
      /\ certs'[k].notices = certs[k].notices
      /\ \A i \in DOMAIN certs : i # k => certs'[i] = certs[i]
  BY RevokedRow
<1>2. RowsInv(certs, counter) /\ OneLive(certs)
  BY DEF CertificatesInv
<1>3. RowsInv(certs, counter)'
  BY <1>1, <1>2 DEF RowsInv
<1>4. OneLive(certs)'
  BY <1>1, <1>2 DEF OneLive
<1>5. certs[k].cause # "for_cause"
  BY <1>2 DEF RowsInv
<1>6. ASSUME NEW m PROVE Issuing!LiveRows(m)' \subseteq Issuing!LiveRows(m)
  BY <1>1 DEF Issuing!LiveRows, Issuing!Rows
<1>7. ASSUME NEW m, m # certs[k].member PROVE Issuing!LiveRows(m)' = Issuing!LiveRows(m)
      /\ Issuing!Final(m)' = Issuing!Final(m)
  BY <1>1, <1>7 DEF Issuing!LiveRows, Issuing!Rows, Issuing!Final
<1>8. ASSUME NEW m, Issuing!Final(m) PROVE Issuing!Final(m)'
  BY <1>1, <1>5, <1>8 DEF Issuing!Final, Issuing!Rows
<1>9. ASSUME NEW m, Issuing!LiveRows(m) = {} PROVE Issuing!Final(m)' = Issuing!Final(m)
  <2>1. m # certs[k].member
    BY <1>9 DEF Issuing!LiveRows, Issuing!Rows
  <2> QED
    BY <1>7, <2>1
<1>10. ASSUME why = "for_cause", NEW m, m = certs[k].member PROVE Issuing!Final(m)'
  BY <1>1, <1>10 DEF Issuing!Final, Issuing!Rows
<1> QED
  BY <1>3, <1>4, <1>6, <1>7, <1>8, <1>9, <1>10 DEF Served

\* A step that leaves the jobs alone and the rows in order, and takes a
\* certificate only from who is not owed one, keeps the invariant.
LEMMA RowStepKeeps ==
    ASSUME CertificatesInv, RowsInv(certs, counter)', OneLive(certs)',
           mode' = mode, completed' = completed, entering' = entering, People',
           UNCHANGED <<jobs, issuing, rerun>>,
           \A m : /\ Issuing!LiveRows(m)' \subseteq Issuing!LiveRows(m)
                  /\ Issuing!LiveRows(m) = {} => Issuing!Final(m)' = Issuing!Final(m)
                  /\ Owed(m)' => Owed(m)
                  /\ (Owed(m)' \/ m \notin complete) /\ Served(m) => Served(m)'
    PROVE  CertificatesInv'
<1>1. Types'
  BY DEF CertificatesInv, Types
<1>2. \A m : Owed(m)' => Owed(m)
  OBVIOUS
<1>3. RunInv'
  <2>1. RunInv
    BY DEF CertificatesInv
  <2>2. ASSUME issuing # <<>>, issuing[1].does = "writes"
        PROVE  Issuing!LiveRows(issuing[1].member)' = {} /\ ~Issuing!Final(issuing[1].member)'
    BY <2>1, <2>2 DEF RunInv
  <2>3. issuing # <<>> => jobs'[issuing[1].member] # Issuing!NoJob
    BY <2>1 DEF RunInv
  <2> QED
    BY <2>1, <2>2, <2>3 DEF RunInv, Issuing!LiveRows, Issuing!Rows, Issuing!Final
<1>4. OwedInv'
  <2>1. OwedInv
    BY DEF CertificatesInv
  <2>2. ASSUME NEW m \in Holders, Owed(m)' PROVE Served(m)' \/ jobs'[m] # Issuing!NoJob
    BY <2>1, <2>2, <1>2 DEF OwedInv
  <2>3. ASSUME issuing # <<>>, issuing[1].does # "writes", issuing[1].member \notin rerun,
               Owed(issuing[1].member)'
        PROVE  Served(issuing[1].member)'
    BY <2>1, <2>3, <1>2 DEF OwedInv
  <2> QED
    BY <2>2, <2>3 DEF OwedInv, Owed, Served, Issuing!LiveRows, Issuing!Rows, Issuing!Final
<1>5. EntryInv'
  BY EntriesKept
<1> QED
  BY <1>1, <1>3, <1>4, <1>5 DEF CertificatesInv

LEMMA RemoveKeeps ==
    ASSUME CertificatesInv, NEW h \in Holders, Issuing!RemoveCheckIn(h) PROVE CertificatesInv'
<1>1. /\ mode' = mode /\ completed' = completed /\ complete' = complete \ {h}
      /\ missed' = missed \ {h} /\ entering' = entering /\ h \in complete
      /\ UNCHANGED <<counter, jobs, issuing, rerun>>
  BY DEF Issuing!RemoveCheckIn
<1>2. ~Owed(h)' /\ (\A m : Owed(m)' => Owed(m)) /\ People'
  BY <1>1 DEF Owed, CertificatesInv, Types, People
<1>3. CASE Issuing!LiveRows(h) = {}
  <2>1. certs' = certs
    BY <1>3 DEF Issuing!RemoveCheckIn
  <2> QED
    BY <2>1, <1>1, <1>2, SameRows, RowStepKeeps
<1>4. CASE Issuing!LiveRows(h) # {}
  <2> DEFINE k == CHOOSE i \in Issuing!LiveRows(h) : TRUE
  <2>1. k \in Issuing!LiveRows(h)
    BY <1>4
  <2>2. certs' = Issuing!Revoked(k, "attendance_removed")
    BY <1>4 DEF Issuing!RemoveCheckIn
  <2> HIDE DEF k
  <2>3. k \in DOMAIN certs /\ certs[k].member = h /\ certs[k].state # "revoked"
    BY <2>1 DEF Issuing!LiveRows, Issuing!Rows
  <2>4. /\ RowsInv(certs, counter)' /\ OneLive(certs)'
        /\ \A m : /\ Issuing!LiveRows(m)' \subseteq Issuing!LiveRows(m)
                  /\ m # h => Served(m)' = Served(m)
                  /\ Issuing!LiveRows(m) = {} => Issuing!Final(m)' = Issuing!Final(m)
    BY <2>2, <2>3, <1>1, RevokedKeepsRows
  <2> QED
    BY <2>4, <1>1, <1>2, RowStepKeeps
<1> QED
  BY <1>3, <1>4

\* A call about a row leaves the members as they are.
LEMMA SamePeople ==
    ASSUME CertificatesInv, UNCHANGED <<mode, completed, complete, entering, missed>>
    PROVE  People' /\ \A m : Owed(m)' = Owed(m)
  BY DEF CertificatesInv, Types, People, Owed

LEMMA RevokeKeeps ==
    ASSUME CertificatesInv, NEW k \in DOMAIN certs, Issuing!revoke_certificate(k)
    PROVE CertificatesInv'
<1>1. /\ UNCHANGED <<mode, completed, complete, entering, missed>>
      /\ UNCHANGED <<counter, jobs, issuing, rerun>>
      /\ certs[k].state # "revoked" /\ certs' = Issuing!Revoked(k, "for_cause")
  BY DEF Issuing!revoke_certificate, Issuing!session, Issuing!people
<1>2. /\ RowsInv(certs, counter)' /\ OneLive(certs)'
      /\ \A m : /\ Issuing!LiveRows(m)' \subseteq Issuing!LiveRows(m)
                /\ m # certs[k].member => Served(m)' = Served(m)
                /\ Issuing!LiveRows(m) = {} => Issuing!Final(m)' = Issuing!Final(m)
                /\ m = certs[k].member => Issuing!Final(m)'
  BY <1>1, RevokedKeepsRows
<1>3. ASSUME NEW m, Served(m) PROVE Served(m)'
  <2>1. CASE m = certs[k].member
    BY <1>2, <2>1 DEF Served
  <2>2. CASE m # certs[k].member
    BY <1>2, <1>3, <2>2
  <2> QED
    BY <2>1, <2>2
<1> QED
  BY <1>1, <1>2, <1>3, SamePeople, RowStepKeeps

LEMMA ReleaseKeeps ==
    ASSUME CertificatesInv, NEW k \in DOMAIN certs, Issuing!release_certificates(k)
    PROVE CertificatesInv'
<1>1. /\ UNCHANGED <<mode, completed, complete, entering, missed>>
      /\ UNCHANGED <<counter, jobs, issuing, rerun>>
      /\ certs[k].state = "held"
      /\ certs' = [certs EXCEPT ![k].state = "issued", ![k].notices = @ + 1]
  BY DEF Issuing!release_certificates, Issuing!session, Issuing!people
<1> DEFINE e == [certs[k] EXCEPT !.state = "issued", !.notices = @ + 1]
<1>2. certs \in Seq(Issuing!Certificate) /\ certs[k] \in Issuing!Certificate
  BY Row
<1>3. /\ e \in Issuing!Certificate /\ e.state = "issued" /\ e.notices = certs[k].notices + 1
      /\ e.member = certs[k].member /\ e.serial = certs[k].serial /\ e.cause = certs[k].cause
  <2>1. certs[k].notices \in Nat
    BY <1>2 DEF Issuing!Certificate
  <2>2. certs[k].notices + 1 \in Nat
    BY <2>1
  <2> QED
    BY <1>2, <2>2 DEF Issuing!Certificate
<1>4. certs' = [certs EXCEPT ![k] = e]
  BY <1>1, <1>2
<1> HIDE DEF e
<1>5. /\ certs' \in Seq(Issuing!Certificate) /\ Len(certs') = Len(certs)
      /\ DOMAIN certs' = DOMAIN certs
      /\ certs'[k] = e
      /\ \A i \in DOMAIN certs : i # k => certs'[i] = certs[i]
  BY <1>2, <1>3, <1>4, Replaced
<1>6. RowsInv(certs, counter) /\ OneLive(certs)
  BY DEF CertificatesInv
<1>7. RowsInv(certs, counter)'
  BY <1>1, <1>3, <1>5, <1>6 DEF RowsInv
<1>8. OneLive(certs)'
  BY <1>1, <1>3, <1>5, <1>6 DEF OneLive
<1>9. ASSUME NEW m PROVE Issuing!LiveRows(m)' = Issuing!LiveRows(m)
      /\ Issuing!Final(m)' = Issuing!Final(m)
  BY <1>1, <1>3, <1>5 DEF Issuing!LiveRows, Issuing!Rows, Issuing!Final
<1> QED
  BY <1>1, <1>7, <1>8, <1>9, SamePeople, RowStepKeeps DEF Served

---------------------------------------------------------------------------
(* The job.                                                                *)

LEMMA IssueBeginKeeps ==
    ASSUME CertificatesInv, NEW h \in Holders, Issuing!Begin(h)
    PROVE  CertificatesInv'
<1> DEFINE does == IF mode = "off" THEN "nothing"
                   ELSE IF Issuing!LiveRows(h) # {} THEN "finds"
                   ELSE IF Issuing!Refused(h) THEN "nothing" ELSE "writes"
           r == [member |-> h, mode |-> mode, does |-> does]
<1>1. /\ UNCHANGED <<mode, completed, complete, entering, missed, certs, counter, rerun>>
      /\ jobs[h] > 0 /\ jobs' = [jobs EXCEPT ![h] = @ - 1] /\ issuing' = <<r>>
  BY DEF Issuing!Begin, Issuing!session, Issuing!people
<1>2. Types
  BY DEF CertificatesInv
<1>3. /\ jobs' \in [Holders -> Issuing!NoJob..IssueTries]
      /\ \A m \in Holders : jobs[m] # Issuing!NoJob => jobs'[m] # Issuing!NoJob
      /\ jobs'[h] # Issuing!NoJob
  <2>1. jobs \in [Holders -> Issuing!NoJob..IssueTries] /\ IssueTries \in Nat \ {0}
    BY WorkerAssumption, <1>2 DEF Types, Issuing!CertificatesAssumption
  <2>2. jobs[h] - 1 \in Issuing!NoJob..IssueTries /\ jobs[h] - 1 # Issuing!NoJob
    BY <1>1, <2>1 DEF Issuing!NoJob
  <2> QED
    BY <1>1, <2>1, <2>2
<1>4. \A m : Issuing!LiveRows(m)' = Issuing!LiveRows(m)
      /\ Issuing!Final(m)' = Issuing!Final(m) /\ Served(m)' = Served(m)
  BY <1>1, SameRows
<1>5. RowsInv(certs, counter)' /\ OneLive(certs)'
  BY <1>1, SameRows
<1>6. r \in Issue /\ r.member = h /\ r.does = does
  BY <1>2 DEF Types, Issue
<1>7. does = "writes" => Issuing!LiveRows(h) = {} /\ ~Issuing!Final(h)
  BY DEF Issuing!Refused
<1>8. does # "writes" => (Owed(h) => Served(h))
  BY DEF Issuing!Refused, Owed, Served
<1>9. \A m : Owed(m)' <=> Owed(m)
  BY <1>1 DEF Owed
<1> HIDE DEF does, r
<1>10. issuing' # <<>> /\ issuing'[1] = r
  BY <1>1
<1>11. Types' /\ EntryInv'
  BY <1>1, <1>2, <1>3, <1>4, SamePeople, EntriesKept DEF Types
<1>12. RunInv'
  <2>1. issuing' \in {<<>>} \cup {<<q>> : q \in Issue}
    BY <1>1, <1>6
  <2>2. jobs'[issuing'[1].member] # Issuing!NoJob
    BY <1>3, <1>6, <1>10
  <2>3. \A m : m = h /\ does = "writes" => Issuing!LiveRows(m)' = {} /\ ~Issuing!Final(m)'
    BY <1>4, <1>7
  <2> QED
    BY <2>1, <2>2, <2>3, <1>6, <1>10 DEF RunInv, Issuing!LiveRows, Issuing!Rows, Issuing!Final
<1>13. OwedInv'
  <2>1. OwedInv
    BY DEF CertificatesInv
  <2>2. ASSUME NEW m \in Holders, Owed(m)' PROVE Served(m)' \/ jobs'[m] # Issuing!NoJob
    BY <2>1, <2>2, <1>3, <1>4, <1>9 DEF OwedInv
  <2>3. \A m : m = h /\ does # "writes" /\ Owed(m)' => Served(m)'
    BY <1>4, <1>8, <1>9
  <2>4. issuing'[1].does # "writes" =>
            \A m : m = issuing'[1].member /\ Owed(m)' => Served(m)'
    BY <2>3, <1>6, <1>10
  <2> QED
    BY <2>2, <2>4 DEF OwedInv, Owed, Served, Issuing!LiveRows, Issuing!Rows, Issuing!Final
<1> QED
  BY <1>5, <1>11, <1>12, <1>13 DEF CertificatesInv

\* A row is written under the next number, and its member had none that lives
\* and none revoked for cause.
LEMMA WrittenKeepsRows ==
    ASSUME CertificatesInv, issuing # <<>>, NEW h, h = issuing[1].member,
           issuing[1].does = "writes", Issuing!LiveRows(h) = {},
           certs' = Append(certs, Issuing!NewRow), counter' = Issuing!Allocated
    PROVE  /\ RowsInv(certs, counter)' /\ OneLive(certs)'
           /\ \A m : (Served(m) \/ m = h) => Served(m)'
<1>1. /\ certs \in Seq(Issuing!Certificate) /\ Len(certs) \in Nat
      /\ DOMAIN certs = 1..Len(certs)
      /\ counter = Len(certs) + 1
  BY Row
<1>2. h \in Holders
  BY Running
<1>3. /\ Issuing!NewRow \in Issuing!Certificate /\ Issuing!NewRow.member = h
      /\ Issuing!NewRow.serial = counter
      /\ Issuing!NewRow.cause = "none" /\ Issuing!NewRow.state \in {"held", "issued"}
      /\ Issuing!NewRow.notices = (IF Issuing!NewRow.state = "held" THEN 0 ELSE 1)
  BY <1>1, <1>2 DEF Issuing!NewRow, Issuing!Certificate
<1>4. /\ certs' \in Seq(Issuing!Certificate) /\ Len(certs') = Len(certs) + 1
      /\ DOMAIN certs' = DOMAIN certs \cup {counter}
      /\ certs'[counter] = Issuing!NewRow
      /\ \A i \in DOMAIN certs : certs'[i] = certs[i]
  BY <1>1, <1>3, Appended
<1>5. counter \notin DOMAIN certs /\ counter' = Len(certs') + 1
  BY <1>1, <1>4 DEF Issuing!Allocated
<1>6. RowsInv(certs, counter) /\ OneLive(certs) /\ RunInv
  BY DEF CertificatesInv
<1>7. RowsInv(certs, counter)'
  BY <1>3, <1>4, <1>5, <1>6 DEF RowsInv
<1>8. ~Issuing!Final(h)
  BY <1>6 DEF RunInv
<1>9. \A i \in DOMAIN certs : certs[i].member = h =>
          certs[i].state = "revoked" /\ certs[i].cause # "for_cause"
  BY <1>8 DEF Issuing!LiveRows, Issuing!Rows, Issuing!Final
<1>10. OneLive(certs)'
  BY <1>3, <1>4, <1>5, <1>6, <1>9 DEF OneLive
<1>11. ASSUME NEW m, Served(m) \/ m = h PROVE Served(m)'
  <2>1. CASE m = h
    BY <1>3, <1>4, <2>1 DEF Served, Issuing!LiveRows, Issuing!Rows
  <2>2. CASE Served(m)
    BY <1>4, <2>2 DEF Served, Issuing!LiveRows, Issuing!Rows, Issuing!Final
  <2> QED
    BY <1>11, <2>1, <2>2
<1> QED
  BY <1>7, <1>10, <1>11

LEMMA CommitKeeps ==
    ASSUME CertificatesInv, NEW finished \in BOOLEAN, Issuing!Commit(finished)
    PROVE  CertificatesInv'
<1> DEFINE h == issuing[1].member
           writes == issuing[1].does = "writes" /\ Issuing!LiveRows(h) = {}
<1>1. /\ issuing # <<>> /\ issuing' = <<>>
      /\ UNCHANGED <<mode, completed, complete, entering, missed>>
      /\ certs' = (IF writes THEN Append(certs, Issuing!NewRow) ELSE certs)
      /\ counter' = (IF writes THEN Issuing!Allocated ELSE counter)
      /\ jobs' = (IF finished THEN Issuing!Ended(h) ELSE jobs)
  BY DEF Issuing!Commit, Issuing!session, Issuing!people, Issuing!FoundRow
<1>2. h \in Holders
  BY <1>1, Running
<1>3. Types /\ RunInv /\ OwedInv
  BY DEF CertificatesInv
<1>4. /\ RowsInv(certs, counter)' /\ OneLive(certs)'
      /\ \A m : Served(m) \/ (writes /\ m = h) => Served(m)'
  <2>1. CASE writes
    BY <1>1, <2>1, WrittenKeepsRows
  <2>2. CASE ~writes
    BY <1>1, <2>2, SameRows
  <2> QED
    BY <2>1, <2>2
<1>5. /\ jobs' \in [Holders -> Issuing!NoJob..IssueTries]
      /\ \A m \in Holders : jobs'[m] # jobs[m] => m = h /\ h \notin rerun
  <2>1. jobs \in [Holders -> Issuing!NoJob..IssueTries] /\ IssueTries \in Nat \ {0}
    BY WorkerAssumption, <1>3 DEF Types, Issuing!CertificatesAssumption
  <2>2. Issuing!NoJob \in Issuing!NoJob..IssueTries
    BY <2>1 DEF Issuing!NoJob
  <2>3. jobs' = jobs \/ (h \notin rerun /\ jobs' = [jobs EXCEPT ![h] = Issuing!NoJob])
    BY <1>1 DEF Issuing!Ended
  <2> HIDE DEF h
  <2> QED
    BY <1>2, <2>1, <2>2, <2>3
<1>6. \A m : Owed(m)' <=> Owed(m)
  BY <1>1 DEF Owed
<1>7. ~writes /\ h \notin rerun => (Owed(h) => Served(h))
  <2>1. CASE issuing[1].does = "writes"
    BY <1>1, <1>3, <2>1 DEF RunInv
  <2>2. CASE issuing[1].does # "writes"
    BY <1>1, <1>3, <2>2 DEF OwedInv
  <2> QED
    BY <2>1, <2>2
<1>8. Types' /\ EntryInv'
  BY <1>1, <1>3, <1>4, <1>5, SamePeople, EntriesKept DEF Types
<1>9. RunInv'
  BY <1>1 DEF RunInv
<1>10. OwedInv'
  <2>1. ASSUME NEW m \in Holders, Owed(m)' PROVE Served(m)' \/ jobs'[m] # Issuing!NoJob
    <3>1. Owed(m)
      BY <2>1, <1>6
    <3>2. CASE m = h /\ h \notin rerun
      BY <3>1, <3>2, <1>4, <1>7
    <3>3. CASE ~(m = h /\ h \notin rerun)
      <4>1. jobs'[m] = jobs[m]
        BY <3>3, <1>5
      <4>2. Served(m) \/ jobs[m] # Issuing!NoJob
        BY <3>1, <1>3 DEF OwedInv
      <4> QED
        BY <4>1, <4>2, <1>4
    <3> QED
      BY <3>2, <3>3
  <2> QED
    BY <2>1, <1>1 DEF OwedInv, Owed, Served, Issuing!LiveRows, Issuing!Rows, Issuing!Final
<1> QED
  BY <1>4, <1>8, <1>9, <1>10 DEF CertificatesInv

LEMMA RollBackKeeps == ASSUME CertificatesInv, Issuing!RollBack PROVE CertificatesInv'
<1>1. /\ issuing' = <<>> /\ UNCHANGED <<mode, completed, complete, entering, missed, certs, jobs>>
      /\ counter' = counter
  BY DEF Issuing!RollBack, Issuing!session, Issuing!people, Issuing!RolledBack
<1>2. /\ RowsInv(certs, counter)' /\ OneLive(certs)'
      /\ \A m : Served(m)' = Served(m)
  BY <1>1, SameRows
<1>3. Types' /\ EntryInv'
  BY <1>1, <1>2, SamePeople, EntriesKept DEF CertificatesInv, Types
<1>4. RunInv'
  BY <1>1 DEF RunInv
<1>5. OwedInv'
  <2>1. \A m \in Holders : Owed(m)' => Served(m)' \/ jobs'[m] # Issuing!NoJob
    BY <1>1, <1>2 DEF CertificatesInv, OwedInv, Owed
  <2> QED
    BY <2>1, <1>1 DEF OwedInv, Owed, Served, Issuing!LiveRows, Issuing!Rows, Issuing!Final
<1> QED
  BY <1>2, <1>3, <1>4, <1>5 DEF CertificatesInv

---------------------------------------------------------------------------
(* The theorems.                                                           *)

---------------------------------------------------------------------------
(* All the steps, and what the invariant says.                             *)

LEMMA CertificatesNext ==
    ASSUME CertificatesInv, [Issuing!Next]_(Issuing!vars) PROVE CertificatesInv'
<1>1. CASE Issuing!CompleteSession
  BY <1>1, CompleteKeeps
<1>2. CASE \E new \in Mode : Issuing!set_session_certificate_mode(new)
  BY <1>2, ModeKeeps
<1>3. CASE \/ \E m \in Holders : Issuing!BeginCheckIn(m) \/ Issuing!MarkCheckedIn(m)
                                  \/ Issuing!RemoveCheckIn(m)
           \/ \E e \in entering : Issuing!FinishCheckIn(e)
  BY <1>3, BeginCheckInKeeps, MarkKeeps, RemoveKeeps, FinishCheckInKeeps
<1>4. CASE \E i \in DOMAIN certs : Issuing!release_certificates(i)
      \/ Issuing!revoke_certificate(i)
  BY <1>4, ReleaseKeeps, RevokeKeeps
<1>5. CASE Issuing!IssueWork
  BY <1>5, IssueBeginKeeps, CommitKeeps DEF Issuing!IssueWork
<1>6. CASE Issuing!RollBack
  BY <1>6, RollBackKeeps
<1>7. CASE UNCHANGED Issuing!vars
  <2>1. UNCHANGED <<mode, completed, complete, entering, missed, certs, counter, jobs,
                    issuing, rerun>>
    BY <1>7 DEF Issuing!vars, Issuing!session, Issuing!people
  <2> QED
    BY <2>1 DEF CertificatesInv, Types, People, EntryInv, RowsInv, OneLive, RunInv, OwedInv, Owed,
                      Served, Issuing!LiveRows, Issuing!Rows, Issuing!Final
<1> QED
  BY <1>1, <1>2, <1>3, <1>4, <1>5, <1>6, <1>7 DEF Issuing!Next, Mode

LEMMA SerialsHold == ASSUME CertificatesInv PROVE Issuing!RetriesLeaveNoTrace
  BY DEF CertificatesInv, RowsInv, Issuing!RetriesLeaveNoTrace

LEMMA AttendedHold == ASSUME CertificatesInv PROVE Issuing!AttendedHasCertificate
<1>1. ASSUME completed, mode # "off", NEW m \in complete \ missed
      PROVE  Issuing!LiveRows(m) # {} \/ Issuing!Final(m) \/ ~Issuing!NoJobLeft(m)
  <2>1. m \in Holders
    BY DEF CertificatesInv, Types, People
  <2> QED
    BY <1>1, <2>1 DEF CertificatesInv, OwedInv, Owed, Served, Issuing!NoJobLeft
<1>2. ASSUME NEW m \in Holders, Issuing!Final(m), Issuing!LiveRows(m) # {} PROVE FALSE
  <2>1. PICK j \in DOMAIN certs : certs[j].member = m /\ certs[j].cause = "for_cause"
    BY <1>2 DEF Issuing!Final, Issuing!Rows
  <2>2. PICK i \in DOMAIN certs : certs[i].member = m /\ certs[i].state # "revoked"
    BY <1>2 DEF Issuing!LiveRows, Issuing!Rows
  <2>3. i = j
    BY <2>1, <2>2 DEF CertificatesInv, OneLive
  <2> QED
    BY <2>1, <2>2, <2>3 DEF CertificatesInv, RowsInv
<1> QED
  BY <1>1, <1>2 DEF Issuing!AttendedHasCertificate

---------------------------------------------------------------------------
(* The types.                                                              *)

CertificateTypes ==
    /\ rerun \subseteq Holders
    /\ \A i \in DOMAIN certs : certs[i].state = "revoked" <=> certs[i].cause # "none"

LEMMA CertificateTypesStart == ASSUME Issuing!Init PROVE CertificateTypes
  BY DEF Issuing!Init, CertificateTypes

LEMMA CertificateTypesKept ==
    ASSUME CertificatesInv, CertificateTypes, [Issuing!Next]_(Issuing!vars)
    PROVE CertificateTypes'
<1>1. /\ certs \in Seq(Issuing!Certificate) /\ rerun \subseteq Holders
      /\ \A i \in DOMAIN certs : certs[i] \in Issuing!Certificate
      /\ \A i \in DOMAIN certs : certs[i].state = "revoked" <=> certs[i].cause # "none"
      /\ \A i \in DOMAIN certs : certs[i].cause = "for_cause" => certs[i].state = "revoked"
  BY Element DEF CertificatesInv, RowsInv, CertificateTypes
<1>2. issuing # <<>> => issuing[1].member \in Holders
  BY DEF CertificatesInv, RunInv, Issue
<1>3. rerun' \subseteq Holders
  BY <1>1, <1>2 DEF Issuing!Next, Issuing!vars, Issuing!session, Issuing!CompleteSession,
       Issuing!set_session_certificate_mode, Issuing!Queue,
     Issuing!BeginCheckIn, Issuing!FinishCheckIn, Issuing!MarkCheckedIn,
     Issuing!RemoveCheckIn, Issuing!release_certificates,
     Issuing!revoke_certificate, Issuing!IssueWork, Issuing!Begin,
     Issuing!Commit, Issuing!RollBack
<1> DEFINE Tell(cs) == \A i \in DOMAIN cs : cs[i].state = "revoked" <=> cs[i].cause # "none"
<1>4. ASSUME NEW i \in DOMAIN certs, NEW why \in {"attendance_removed", "for_cause"},
             certs' = Issuing!Revoked(i, why)
      PROVE  Tell(certs')
  <2>1. /\ DOMAIN certs' = DOMAIN certs
        /\ certs'[i].state = "revoked" /\ certs'[i].cause = why
        /\ \A k \in DOMAIN certs : k # i => certs'[k] = certs[k]
    BY <1>4, RevokedRow
  <2> QED BY <1>1, <2>1
<1>5. CASE \E i \in DOMAIN certs : Issuing!release_certificates(i)
  <2>1. PICK i \in DOMAIN certs : Issuing!release_certificates(i)
    BY <1>5
  <2> DEFINE e == [certs[i] EXCEPT !.state = "issued", !.notices = @ + 1]
  <2>2. certs[i].state = "held" /\ certs' = [certs EXCEPT ![i] = e]
    BY <1>1, <2>1 DEF Issuing!release_certificates
  <2>3. e.state = "issued" /\ e.cause = certs[i].cause
    BY <1>1 DEF Issuing!Certificate
  <2> HIDE DEF e
  <2>4. /\ DOMAIN certs' = DOMAIN certs /\ certs'[i] = e
        /\ \A k \in DOMAIN certs : k # i => certs'[k] = certs[k]
    BY <1>1, <2>2
  <2>5. Tell(certs')
    BY <1>1, <2>2, <2>3, <2>4
  <2> QED BY <1>3, <2>5 DEF CertificateTypes
<1>6. CASE \E i \in DOMAIN certs : Issuing!revoke_certificate(i)
  BY <1>3, <1>4, <1>6 DEF Issuing!revoke_certificate, CertificateTypes
<1>7. CASE \E m \in Holders : Issuing!RemoveCheckIn(m)
  <2>1. PICK m \in Holders : Issuing!RemoveCheckIn(m)
    BY <1>7
  <2>2. CASE Issuing!LiveRows(m) = {}
    BY <1>1, <1>3, <2>1, <2>2 DEF Issuing!RemoveCheckIn, CertificateTypes
  <2>3. CASE Issuing!LiveRows(m) # {}
    <3>1. PICK i \in DOMAIN certs : certs' = Issuing!Revoked(i, "attendance_removed")
      BY <2>1, <2>3 DEF Issuing!RemoveCheckIn, Issuing!LiveRows, Issuing!Rows
    <3> QED BY <1>3, <1>4, <3>1 DEF CertificateTypes
  <2> QED BY <2>2, <2>3
<1>8. CASE \E finished \in BOOLEAN : Issuing!Commit(finished)
  <2>1. certs' = certs \/ (certs' = Append(certs, Issuing!NewRow) /\ issuing # <<>>)
    BY <1>8 DEF Issuing!Commit, Issuing!FoundRow
  <2>2. CASE certs' = certs
    BY <1>1, <1>3, <2>2 DEF CertificateTypes
  <2>3. CASE certs' = Append(certs, Issuing!NewRow)
    <3>1. Issuing!NewRow.state # "revoked" /\ Issuing!NewRow.cause = "none"
      BY DEF Issuing!NewRow
    <3>2. Len(certs) \in Nat /\ DOMAIN certs = 1..Len(certs)
      BY <1>1, Element
    <3>3. /\ DOMAIN certs' = DOMAIN certs \cup {Len(certs) + 1}
          /\ certs'[Len(certs) + 1] = Issuing!NewRow
          /\ \A k \in DOMAIN certs : certs'[k] = certs[k]
      BY <1>1, <2>3, <3>2
    <3>4. Tell(certs')
      BY <1>1, <3>1, <3>3
    <3> QED BY <1>3, <3>4 DEF CertificateTypes
  <2> QED BY <2>1, <2>2, <2>3
<1>9. CASE UNCHANGED certs
  BY <1>1, <1>3, <1>9 DEF CertificateTypes
<1> QED
  BY <1>5, <1>6, <1>7, <1>8, <1>9 DEF Issuing!Next, Issuing!vars, Issuing!CompleteSession,
       Issuing!Queue,
     Issuing!set_session_certificate_mode, Issuing!BeginCheckIn, Issuing!FinishCheckIn,
     Issuing!MarkCheckedIn, Issuing!IssueWork,
     Issuing!Begin, Issuing!RollBack

LEMMA CertificateTypesAre == ASSUME CertificatesInv, CertificateTypes PROVE Issuing!TypeOK
<1>1. ASSUME NEW m \in Holders
      PROVE  Cardinality({i \in DOMAIN certs :
                            certs[i].member = m /\ certs[i].state # "revoked"}) <= 1
  <2> DEFINE S == {i \in DOMAIN certs : certs[i].member = m /\ certs[i].state # "revoked"}
  <2>1. \A i, j \in S : i = j
    BY DEF CertificatesInv, OneLive
  <2>2. S = {} \/ \E i : S = {i}
    BY <2>1
  <2> HIDE DEF S
  <2>3. Cardinality(S) = 0 \/ Cardinality(S) = 1
    BY <2>2, FS_EmptySet, FS_Singleton
  <2>4. Cardinality(S) <= 1
    BY <2>3
  <2> QED BY <2>4 DEF S
<1>2. counter \in Nat \ {0}
  BY Element DEF CertificatesInv, RowsInv
<1> QED
  BY <1>1, <1>2, CountIs DEF CertificatesInv, CertificateTypes, Types, People, RowsInv, Mode,
     Issuing!TypeOK

(***************************************************************************)
(* The families together (MCWorker).                                       *)
(***************************************************************************)

worker == <<family, calendar, mail, picture, certificates>>

\* A step of the worker is a step of each family, or leaves the family alone.
LEMMA WorkerSteps ==
    ASSUME [Next]_worker
    PROVE  /\ [Calendar!Next]_calendar /\ [Mailing!Next]_(Mailing!vars)
           /\ [Picture!Next]_picture /\ [Issuing!Next]_(Issuing!vars)
<1>1. mail' = mail => UNCHANGED Mailing!vars
  BY DEF mail, Mailing!vars, Mailing!member, Mailing!provider, Mailing!mailbounds
<1>2. certificates' = certificates => UNCHANGED Issuing!vars
  BY DEF certificates, Issuing!vars, Issuing!session, Issuing!people, Issuing!certbounds
<1>3. CASE UNCHANGED worker
  BY <1>1, <1>2, <1>3 DEF worker
<1>4. CASE Next
  BY <1>1, <1>2, <1>4 DEF Next
<1> QED
  BY <1>3, <1>4

LEMMA WorkerStart ==
    ASSUME Init
    PROVE  Calendar!Init /\ Mailing!Init /\ Picture!Init /\ Issuing!Init
  BY DEF Init

LEMMA MailAlways == Spec => [](MailInv /\ MailTypes)
<1>1. Init => MailInv /\ MailTypes
  BY WorkerStart, MailStart, MailTypesStart
<1>2. ASSUME MailInv, MailTypes, [Next]_worker PROVE MailInv' /\ MailTypes'
  <2>1. [Mailing!Next]_(Mailing!vars)
    BY <1>2, WorkerSteps
  <2>2. MailInv'
    BY <1>2, <2>1, MailNext DEF MailTypes
  <2> QED
    BY <1>2, <2>1, <2>2, MailTypesKept
<1> QED
  BY <1>1, <1>2, PTL DEF Spec, worker

LEMMA PictureAlways == Spec => [](PictureInv /\ StagedAreFound)
<1>1. Init => PictureInv /\ StagedAreFound
  BY WorkerStart, PictureStart, StagedStart
<1>2. ASSUME PictureInv, StagedAreFound, [Next]_worker PROVE PictureInv' /\ StagedAreFound'
  <2>1. [Picture!Next]_picture
    BY <1>2, WorkerSteps
  <2>2. UNCHANGED picture => StagedAreFound'
    BY <1>2 DEF picture, StagedAreFound
  <2> QED
    BY <1>2, <2>1, <2>2, PictureNext, PictureStutters, StagedKept
<1> QED
  BY <1>1, <1>2, PTL DEF Spec, worker

\* For any members, tries, calls and lost transactions: one live row for a
\* member and none beside one revoked for cause, serials that are the rows'
\* places, and a row or a job for everyone owed one but who checked in over the
\* completion; a check_in call that read the session after its end asks for the
\* certificate unless its member has one, or had one revoked for cause
\* (issue_certificate, attendance_certificate_sync, fan_out_certificates).
THEOREM CertificatesInductive == Spec => [](CertificatesInv /\ CertificateTypes)
<1>1. Init => CertificatesInv /\ CertificateTypes
  BY WorkerAssumption, WorkerStart, CertificatesStart, CertificateTypesStart
<1>2. ASSUME CertificatesInv, CertificateTypes, [Next]_worker
      PROVE  CertificatesInv' /\ CertificateTypes'
  <2>1. [Issuing!Next]_(Issuing!vars)
    BY <1>2, WorkerSteps
  <2> QED
    BY <1>2, <2>1, WorkerAssumption, CertificatesNext, CertificateTypesKept
<1> QED
  BY <1>1, <1>2, PTL DEF Spec, worker

---------------------------------------------------------------------------
(* The theorems.                                                           *)

\* For any number of attempts, deaths and repeated events, a message is mailed
\* at most once and its rows tell truly what became of it (send_notification,
\* record_email_delivery, update_email_delivery_by_provider).
THEOREM RowsTellTheMail == Spec => []DeliveriesTellTheMail
<1>1. MailInv => DeliveriesTellTheMail
  BY MailHolds DEF DeliveriesTellTheMail
<1> QED
  BY <1>1, MailAlways, PTL

\* For any number of choices, uploads, failures and silences, no job that the
\* member's choice overtook undoes it, and the version the row names is stored
\* (import_avatar, process_avatar_upload, record_avatar_copy,
\* record_avatar_upload).
THEOREM PictureFollowsChoice == Spec => []ChoiceStands
<1>1. PictureInv => ChoiceStands
  BY PictureStandsHolds DEF ChoiceStands
<1> QED
  BY <1>1, PictureAlways, PTL

\* For any number of uploads, failures and silences, nothing is stored of an
\* anonymised member once the jobs have ended with tries to spare, in neither
\* bucket; only a member whose uploads never got a row may leave a staged object
\* (anonymise_members, import_avatar, process_avatar_upload).
THEOREM NoPictureIsLeft == Spec => []AnonymisedLeavesNoPicture
<1>1. PictureInv /\ StagedAreFound => AnonymisedLeavesNoPicture
  BY PictureGoneHolds DEF AnonymisedLeavesNoPicture
<1> QED
  BY <1>1, PictureAlways, PTL

\* No failure, retry or second fan-out leaves a trace: for any members, tries
\* and calls, serials have no gap and no repeat and a member is told once
\* (issue_certificate, allocate_serial, release_certificates).
THEOREM SerialsWithoutGaps == Spec => []RetriesLeaveNoTrace
<1>1. CertificatesInv => RetriesLeaveNoTrace
  BY SerialsHold DEF RetriesLeaveNoTrace
<1> QED
  BY <1>1, CertificatesInductive, PTL

\* For any members, whoever attended a completed session whose certificates are
\* on, and did not check in over its completion, has one, or a job for it, or had
\* one revoked for cause and gets no other (complete_session,
\* fan_out_certificates, attendance_certificate_sync).
THEOREM NobodyForgotten == Spec => []AttendedHasCertificate
<1>1. CertificatesInv => AttendedHasCertificate
  BY AttendedHold DEF AttendedHasCertificate
<1> QED
  BY <1>1, CertificatesInductive, PTL
===========================================================================
