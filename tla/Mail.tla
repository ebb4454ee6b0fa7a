------------------------------- MODULE Mail -------------------------------
(***************************************************************************)
(* One message to one member: notify queues it, send_notification mails it *)
(* over the provider, and the provider's events come back through the      *)
(* webhook.                                                                *)
(*                                                                         *)
(* An attempt records a delivery row, sends under the message's own        *)
(* idempotency key, and writes what came of it; the process may die        *)
(* between any two of these.  A send may be accepted while its answer is   *)
(* lost.  Events arrive in any order and, when the database did not        *)
(* answer, again.                                                          *)
(*                                                                         *)
(* MaxToggles bounds the changes of the member's preference, MaxDeaths the *)
(* attempts that die, MaxRepeats the events that come twice.               *)
(***************************************************************************)
EXTENDS Integers, Sequences, FiniteSets

CONSTANTS
    SendAttempts,  \* how often a send is tried
    MaxToggles, MaxDeaths, MaxRepeats

MailAssumption ==
    /\ SendAttempts \in Nat \ {0}
    /\ {MaxToggles, MaxDeaths, MaxRepeats} \subseteq Nat

VARIABLES
    optional,    \* the matrix lets a member switch the message off
    recipient,   \* "ok", or what no retry would change
    wants,       \* the member's preference for mail of its category
    job,         \* the send_notification job
    attempt,     \* what a running attempt has come to
    deliveries,  \* email_deliveries, a row for each attempt
    accepted,    \* the idempotency keys under which the provider took a mail
    fate,        \* the events the provider has had of that mail
    hooks,       \* the events on their way to the webhook
    ended,       \* why the job ended, "" while it has not
    died,        \* the attempts whose process died
    toggles, repeats

member == <<optional, recipient, wants>>
provider == <<accepted, fate, hooks>>
mailbounds == <<toggles, repeats>>
vars == <<member, job, attempt, deliveries, provider, ended, died, mailbounds>>

Status == {"queued", "sent", "delivered", "bounced", "failed", "complained"}
Event == Status \ {"queued"}
Delivery == [status : Status, id : BOOLEAN, sentAt : BOOLEAN, deliveredAt : BOOLEAN]

NoAttempt == [step |-> "none", answer |-> "none"]

TypeOK ==
    /\ optional \in BOOLEAN /\ wants \in BOOLEAN
    /\ recipient \in {"ok", "no address", "no template"}
    /\ job.state \in {"none", "ready", "running", "gone", "dead"}
    /\ job.email \in BOOLEAN /\ job.tries \in 0..SendAttempts
    /\ attempt.step \in {"none", "send", "answer", "end"}
    /\ attempt.answer \in {"none", "ok", "error", "permanent"}
    /\ (attempt.step # "none") <=> (job.state = "running")
    /\ deliveries \in Seq(Delivery) /\ Len(deliveries) <= job.tries
    /\ fate \subseteq Event /\ hooks \subseteq fate
    /\ ended \in {"", "sent", "in app", "off", "no address", "no template", "refused"}
    /\ (ended # "") <=> (job.state = "gone")
    /\ died \subseteq 1..SendAttempts

Init ==
    /\ optional \in BOOLEAN /\ wants \in BOOLEAN
    /\ recipient \in {"ok", "no address", "no template"}
    /\ job = [state |-> "none", email |-> FALSE, tries |-> 0]
    /\ attempt = NoAttempt
    /\ deliveries = <<>> /\ accepted = {} /\ fate = {} /\ hooks = {}
    /\ ended = "" /\ died = {}
    /\ toggles = 0 /\ repeats = 0

---------------------------------------------------------------------------
(* The member's side and the queue.                                        *)

\* notify: the preference decides whether the job mails at all.
Notify ==
    /\ job.state = "none"
    /\ job' = [state |-> "ready", email |-> ~optional \/ wants, tries |-> 0]
    /\ UNCHANGED <<member, attempt, deliveries, provider, ended, died, mailbounds>>

\* The settings page, or the link in a mail.
SetPreference ==
    /\ toggles < MaxToggles /\ toggles' = toggles + 1
    /\ optional
    /\ wants' = ~wants
    /\ UNCHANGED <<optional, recipient, job, attempt, deliveries, provider, ended, died, repeats>>

\* Why an attempt that begins now sends nothing, "" when it sends.
Reason ==
    IF ~job.email THEN "in app"
    ELSE IF optional /\ ~wants THEN "off"
    ELSE IF recipient # "ok" THEN recipient
    ELSE ""

End(why) == ended' = why /\ job' = [job EXCEPT !.state = "gone"] /\ attempt' = NoAttempt

\* Wrong on purpose: every failure is the last.
ThrowNothing == End("sent")

\* A job that throws is tried again, until its attempts are used up.
Throw ==
    /\ job' = [job EXCEPT !.state = IF job.tries < SendAttempts THEN "ready" ELSE "dead"]
    /\ attempt' = NoAttempt
    /\ UNCHANGED ended

\* record_email_delivery.
NewDelivery == [status |-> "queued", id |-> FALSE, sentAt |-> FALSE, deliveredAt |-> FALSE]

\* The first part of an attempt: what it reads, and the row it writes.
Begin ==
    /\ job.state = "ready"
    /\ IF Reason # ""
       THEN /\ ended' = Reason
            /\ job' = [job EXCEPT !.state = "gone", !.tries = @ + 1]
            /\ UNCHANGED <<attempt, deliveries>>
       ELSE /\ job' = [job EXCEPT !.state = "running", !.tries = @ + 1]
            /\ attempt' = [step |-> "send", answer |-> "none"]
            /\ deliveries' = Append(deliveries, NewDelivery)
            /\ UNCHANGED ended
    /\ UNCHANGED <<member, provider, died, mailbounds>>

---------------------------------------------------------------------------
(* The send.                                                               *)

\* Wrong on purpose: a key for each row.
KeyPerRow == Len(deliveries)

\* notify:{message_id}, whatever the attempt.
idempotencyKey == 0

Answered(answer) == attempt' = [attempt EXCEPT !.step = "answer", !.answer = answer]

\* The provider takes the mail, unless it has taken one under this key.
Accept ==
    /\ accepted' = accepted \cup {idempotencyKey}
    /\ IF idempotencyKey \in accepted THEN UNCHANGED <<fate, hooks>>
       ELSE fate' = fate \cup {"sent"} /\ hooks' = hooks \cup {"sent"}

\* ResendTransport.send: taken, taken with the answer lost, put off by a 429 or
\* a 5xx, or refused by another 4xx.
Send(outcome) ==
    /\ attempt.step = "send"
    /\ IF outcome \in {"ok", "lost"} THEN Accept ELSE UNCHANGED provider
    /\ Answered(CASE outcome = "ok" -> "ok"
                  [] outcome = "refused" -> "permanent"
                  [] OTHER -> "error")
    /\ UNCHANGED <<member, job, deliveries, ended, died, mailbounds>>

\* A row's state after an update; the times are set once.
Moved(row, status) ==
    [row EXCEPT !.status = status,
                !.sentAt = @ \/ status \in {"sent", "delivered"},
                !.deliveredAt = @ \/ status = "delivered"]

\* update_email_delivery, for the attempt's own row.
Outcome ==
    LET r == deliveries[Len(deliveries)]
    IN  IF attempt.answer = "ok" THEN [Moved(r, "sent") EXCEPT !.id = TRUE]
        ELSE Moved(r, "failed")

RecordOutcome ==
    /\ attempt.step = "answer"
    /\ deliveries' = [deliveries EXCEPT ![Len(deliveries)] = Outcome]
    /\ attempt' = [attempt EXCEPT !.step = "end"]
    /\ UNCHANGED <<member, job, provider, ended, died, mailbounds>>

\* A refusal the provider would repeat ends the job; another failure throws.
Finish ==
    /\ attempt.step = "end"
    /\ CASE attempt.answer = "ok" -> End("sent")
         [] attempt.answer = "permanent" -> End("refused")
         [] OTHER -> Throw
    /\ UNCHANGED <<member, deliveries, provider, died, mailbounds>>

\* The process dies, or the database does not answer.
Die ==
    /\ attempt.step # "none"
    /\ Cardinality(died) < MaxDeaths
    /\ died' = died \cup {Len(deliveries)}
    /\ Throw
    /\ UNCHANGED <<member, deliveries, provider, mailbounds>>

---------------------------------------------------------------------------
(* The provider's events.                                                  *)

\* What the provider may come to next with a mail.
After ==
    CASE accepted = {} -> {}
      [] fate = {"sent"} -> {"delivered", "bounced", "failed"}
      [] fate = {"sent", "delivered"} -> {"complained"}
      [] OTHER -> {}

Happens(e) ==
    /\ e \in After
    /\ fate' = fate \cup {e} /\ hooks' = hooks \cup {e}
    /\ UNCHANGED <<member, job, attempt, deliveries, accepted, ended, died, mailbounds>>

\* update_email_delivery_by_provider moves the rows that carry the mail's id,
\* and no other.  An event that finds none is answered like one that does.
MovedByProvider(status) ==
    [i \in DOMAIN deliveries |->
        IF deliveries[i].id THEN Moved(deliveries[i], status) ELSE deliveries[i]]

\* The route answers 200, or 503 and the provider sends the event again.
Hook(e, again) ==
    /\ e \in hooks
    /\ again => repeats < MaxRepeats
    /\ repeats' = IF again THEN repeats + 1 ELSE repeats
    /\ hooks' = IF again THEN hooks ELSE hooks \ {e}
    /\ deliveries' = MovedByProvider(e)
    /\ UNCHANGED <<member, job, attempt, accepted, fate, ended, died, toggles>>

Works == Begin \/ (\E o \in {"ok", "lost", "busy", "refused"} : Send(o)) \/ RecordOutcome \/ Finish

Next ==
    \/ Notify \/ SetPreference \/ Works \/ Die
    \/ \E e \in Event : Happens(e)
    \/ \E e \in Event, again \in BOOLEAN : Hook(e, again)

Spec == Init /\ [][Next]_vars

\* The worker takes the jobs that are ready, and runs what it has begun.
MailFairness == WF_<<job, attempt, deliveries, accepted, ended>>(Works)

---------------------------------------------------------------------------
(***************************************************************************)
(* However many attempts die or lose their answer, the member has one mail *)
(* of a message: every attempt sends under one idempotency key.  The rows  *)
(* an admin reads tell it truly: one says that the mail left only when the *)
(* provider has taken it, whatever event arrives twice or late, and one is *)
(* still "queued" only while its attempt runs or because its process died. *)
(* (record_email_delivery, send_notification, resend_webhook)              *)
(***************************************************************************)
DeliveriesTellTheMail ==
    /\ Cardinality(accepted) <= 1
    /\ \A i \in DOMAIN deliveries :
        LET row == deliveries[i]
        IN  /\ row.status \in {"sent", "delivered", "complained"} \/ row.sentAt =>
                   row.id /\ accepted # {}
            /\ row.status = "queued" =>
                   i \in died \/ (attempt.step \in {"send", "answer"} /\ i = Len(deliveries))

\* A message is mailed, or ends for a reason that no retry would change, or
\* has used up its attempts and stays for the operator to see.
MessageIsDecided ==
    (job.state = "ready") ~> \/ ended = "sent" /\ accepted # {}
                             \/ ended \notin {"", "sent"}
                             \/ job.state = "dead"
===========================================================================
