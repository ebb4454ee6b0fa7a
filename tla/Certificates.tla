--------------------------- MODULE Certificates ---------------------------
(***************************************************************************)
(* The attendance certificates of one session: the mode, the attendance    *)
(* that earns one, the job issue_certificates, and the admin's release and *)
(* revocation.                                                             *)
(*                                                                         *)
(* The calls are transactions of their own and are one step each, save the *)
(* member's check_in, which reads the session without a lock: the session  *)
(* may be completed between that read and its commit.  It holds a key      *)
(* share of the session's row (its check-in refers to it), which a         *)
(* completion does not wait for and every `for update` does.  The job is a *)
(* long transaction: what it has read may be out of date when it writes,   *)
(* and nobody sees what it writes until it commits.  The jobs are in one   *)
(* named queue and run one at a time.                                      *)
(*                                                                         *)
(* A check-in that does not complete the attendance asks for nothing and   *)
(* is left out, and so is one that is refused or rolled back.              *)
(*                                                                         *)
(* MaxActs bounds the admin's calls, MaxLosses the jobs that fail.         *)
(***************************************************************************)
EXTENDS Integers, Sequences, FiniteSets

CONSTANTS
    Holders,     \* the members who may attend
    IssueTries,  \* how often a job is tried
    MaxActs, MaxLosses

CertificatesAssumption ==
    /\ IsFiniteSet(Holders)
    /\ IssueTries \in Nat \ {0}
    /\ {MaxActs, MaxLosses} \subseteq Nat

VARIABLES
    mode,        \* sessions.certificate_mode
    completed,   \* the session is completed
    complete,    \* the members whose attendance is complete
    entering,    \* check_in calls that have read the session and not committed
    missed,      \* history: who checked in over the completion, seen by neither
    certs,       \* certificates, in the order they were written
    counter,     \* certificate_serial_counters.next_value
    jobs,        \* each member's job: waiting, with the tries it has left
    issuing,     \* the job that runs, <<>> when none does
    rerun,       \* the members whose running job has been replaced
    acts, losses

people == <<complete, entering, missed>>
session == <<mode, completed, people>>
certbounds == <<acts, losses>>
vars == <<session, certs, counter, jobs, issuing, rerun, certbounds>>

NoJob == -1
Entry == [member : Holders, ended : BOOLEAN, asks : BOOLEAN]
Certificate == [member : Holders, serial : Nat, state : {"held", "issued", "revoked"},
                cause : {"none", "attendance_removed", "for_cause"}, notices : Nat]

TypeOK ==
    /\ mode \in {"off", "automatic", "review"} /\ completed \in BOOLEAN
    /\ complete \subseteq Holders /\ entering \subseteq Entry /\ missed \subseteq complete
    /\ certs \in Seq(Certificate)
    /\ \A i \in DOMAIN certs : (certs[i].state = "revoked") <=> (certs[i].cause # "none")
    /\ counter \in Nat \ {0}
    /\ jobs \in [Holders -> NoJob..IssueTries]
    /\ rerun \subseteq Holders
    /\ \A m \in Holders : Cardinality({i \in DOMAIN certs : certs[i].member = m /\ certs[i].state # "revoked"}) <= 1

Init ==
    /\ mode \in {"off", "automatic", "review"} /\ completed = FALSE
    /\ complete \in SUBSET Holders /\ entering = {} /\ missed = {}
    /\ certs = <<>> /\ counter = 1
    /\ jobs = [m \in Holders |-> NoJob]
    /\ issuing = <<>> /\ rerun = {}
    /\ acts = 0 /\ losses = 0

---------------------------------------------------------------------------
Rows(m) == {i \in DOMAIN certs : certs[i].member = m}
LiveRows(m) == {i \in Rows(m) : certs[i].state # "revoked"}
Final(m) == \E i \in Rows(m) : certs[i].cause = "for_cause"

\* enqueue_job under cert:{session}:{member}:{kind}.  A job that runs loses
\* its key to the new one.
Enqueued(M) == jobs' = [m \in Holders |-> IF m \in M THEN IssueTries ELSE jobs[m]]
Queue(M) ==
    /\ Enqueued(M)
    /\ rerun' = IF issuing # <<>> /\ issuing[1].member \in M
                THEN rerun \cup {issuing[1].member} ELSE rerun

\* fan_out_certificates.
FanOut == IF mode' = "off" THEN {} ELSE complete

Act == acts < MaxActs /\ acts' = acts + 1

\* The session's row can be taken `for update`.
NoEntry == entering = {}

\* complete_session, and the jobs for everyone who attended.
CompleteSession ==
    /\ ~completed /\ completed' = TRUE
    /\ UNCHANGED <<mode, people>>
    /\ Queue(FanOut)
    /\ UNCHANGED <<certs, counter, issuing, certbounds>>

\* set_session_certificate_mode: switched on after completion, it fans out.
set_session_certificate_mode(new) ==
    /\ Act /\ NoEntry
    /\ new # mode /\ mode' = new
    /\ missed' = IF completed THEN missed \ FanOut ELSE missed
    /\ UNCHANGED <<completed, complete, entering>>
    /\ Queue(IF completed THEN FanOut ELSE {})
    /\ UNCHANGED <<certs, counter, issuing, losses>>

\* Wrong on purpose: any revoked row stops the issue.
NeverAgain(m) == Rows(m) = {}

\* A row revoked for cause, or one that is live, leaves nothing to issue.
MayIssueAgain(m) == LiveRows(m) = {} /\ ~Final(m)

\* attendance_certificate_sync asks for the certificate of an attendance that
\* has become complete.
Asks(m) == completed /\ mode # "off" /\ MayIssueAgain(m)

\* check_in, its row inserted, up to the sync's read of the session.  The
\* unique index lets one call through.
BeginCheckIn(m) ==
    /\ Act
    /\ m \notin complete /\ \A e \in entering : e.member # m
    /\ entering' = entering \cup {[member |-> m, ended |-> completed, asks |-> Asks(m)]}
    /\ UNCHANGED <<mode, completed, complete, missed, certs, counter, jobs, issuing, rerun, losses>>

\* Its commit, of the check-in and of the job.
FinishCheckIn(e) ==
    /\ entering' = entering \ {e} /\ complete' = complete \cup {e.member}
    /\ missed' = IF completed /\ mode # "off" /\ ~e.ended THEN missed \cup {e.member}
                                                       ELSE missed
    /\ Queue(IF e.asks THEN {e.member} ELSE {})
    /\ UNCHANGED <<mode, completed, certs, counter, issuing, certbounds>>

\* mark_checked_in_manually, which takes the session's row.
MarkCheckedIn(m) ==
    /\ Act /\ NoEntry
    /\ m \notin complete /\ complete' = complete \cup {m}
    /\ Queue(IF Asks(m) THEN {m} ELSE {})
    /\ UNCHANGED <<mode, completed, entering, missed, certs, counter, issuing, losses>>

Revoked(i, why) == [certs EXCEPT ![i].state = "revoked", ![i].cause = why]

\* remove_check_in, and the sync that revokes a live certificate.
RemoveCheckIn(m) ==
    /\ Act
    /\ m \in complete /\ complete' = complete \ {m} /\ missed' = missed \ {m}
    /\ certs' = IF LiveRows(m) = {} THEN certs
                ELSE Revoked(CHOOSE i \in LiveRows(m) : TRUE, "attendance_removed")
    /\ UNCHANGED <<mode, completed, entering, counter, jobs, issuing, rerun, losses>>

\* release_certificates, with the notice.
release_certificates(i) ==
    /\ Act
    /\ certs[i].state = "held"
    /\ certs' = [certs EXCEPT ![i].state = "issued", ![i].notices = @ + 1]
    /\ UNCHANGED <<session, counter, jobs, issuing, rerun, losses>>

\* revoke_certificate, by an admin and for cause.
revoke_certificate(i) ==
    /\ Act
    /\ certs[i].state # "revoked"
    /\ certs' = Revoked(i, "for_cause")
    /\ UNCHANGED <<session, counter, jobs, issuing, rerun, losses>>

---------------------------------------------------------------------------
(* The job.                                                                *)

\* issue_certificate's refusals, all of them the end of the job.
Refused(m) == mode = "off" \/ Final(m) \/ m \notin complete

\* What the transaction reads: the live row it will return, or that it may
\* write one, with the mode of that moment.
Begin(m) ==
    /\ issuing = <<>> /\ jobs[m] > 0
    /\ jobs' = [jobs EXCEPT ![m] = @ - 1]
    /\ issuing' = <<[member |-> m, mode |-> mode,
                     does |-> IF mode = "off" THEN "nothing"
                              ELSE IF LiveRows(m) # {} THEN "finds"
                              ELSE IF Refused(m) THEN "nothing" ELSE "writes"]>>
    /\ UNCHANGED <<session, certs, counter, rerun, certbounds>>

\* The job's row is deleted, unless it has been replaced meanwhile.
Ended(m) == IF m \in rerun THEN jobs ELSE [jobs EXCEPT ![m] = NoJob]

\* allocate_serial: the number is part of the transaction that uses it.
Allocated == counter + 1

\* The new row, with its notice when it is issued outright.
NewRow ==
    [member |-> issuing[1].member, serial |-> counter, cause |-> "none",
     state |-> IF issuing[1].mode = "review" THEN "held" ELSE "issued",
     notices |-> IF issuing[1].mode = "review" THEN 0 ELSE 1]

\* What the commit does to a row the job found: nothing, it was announced.
FoundRow(i) == certs

\* The transaction commits; the process may die before the job's row is
\* deleted, and the job is tried again while it has tries.  The unique index
\* has the last word: a live row written meanwhile would be returned instead.
Commit(ended) ==
    LET m == issuing[1].member
        writes == issuing[1].does = "writes" /\ LiveRows(m) = {}
    IN  /\ issuing # <<>>
        /\ certs' = IF writes THEN Append(certs, NewRow)
                    ELSE IF LiveRows(m) # {} THEN FoundRow(CHOOSE i \in LiveRows(m) : TRUE)
                    ELSE certs
        /\ counter' = IF writes THEN Allocated ELSE counter
        /\ jobs' = IF ended THEN Ended(m) ELSE jobs
        /\ losses' = IF ended THEN losses ELSE losses + 1
        /\ losses' <= MaxLosses
        /\ rerun' = rerun \ {m} /\ issuing' = <<>>
        /\ UNCHANGED <<session, acts>>

\* Wrong on purpose: a sequence, which does not give the number back.
Burned == IF issuing[1].does = "writes" THEN counter + 1 ELSE counter

\* What a rolled-back transaction leaves of the counter.
RolledBack == counter

\* The template is invalid, the database or the process fails: everything the
\* transaction did is undone, and the job is tried again while it has tries.
RollBack ==
    /\ issuing # <<>>
    /\ losses < MaxLosses /\ losses' = losses + 1
    /\ counter' = RolledBack
    /\ issuing' = <<>> /\ rerun' = rerun \ {issuing[1].member}
    /\ UNCHANGED <<session, certs, jobs, acts>>

IssueWork == (\E m \in Holders : Begin(m)) \/ (\E ended \in BOOLEAN : Commit(ended))

Next ==
    \/ CompleteSession
    \/ \E new \in {"off", "automatic", "review"} : set_session_certificate_mode(new)
    \/ \E m \in Holders : BeginCheckIn(m) \/ MarkCheckedIn(m) \/ RemoveCheckIn(m)
    \/ \E e \in entering : FinishCheckIn(e)
    \/ \E i \in DOMAIN certs : release_certificates(i) \/ revoke_certificate(i)
    \/ IssueWork \/ RollBack

Spec == Init /\ [][Next]_vars

---------------------------------------------------------------------------
\* No job of the member waits, runs, or has used up its tries.
NoJobLeft(m) == jobs[m] = NoJob /\ (issuing = <<>> \/ issuing[1].member # m)

\* Nothing that fails, is rolled back or run again leaves a trace: the serials
\* have no gap and no repeat, and a member is told once of a certificate, when it
\* is issued and not before, by a retry, a new fan-out or a second release.
RetriesLeaveNoTrace ==
    /\ counter = Len(certs) + 1
    /\ \A i \in DOMAIN certs :
        /\ certs[i].serial = i /\ certs[i].notices <= 1
        /\ certs[i].state = "held" => certs[i].notices = 0
        /\ certs[i].state = "issued" => certs[i].notices = 1

\* After the session, whoever attended has a certificate, or a job for it (if
\* only one that has no tries left), or had one revoked for cause, but for who
\* checked in over the completion: nobody else is forgotten between the fan-out,
\* the mode, the door and the list, and nobody whose certificate was revoked for
\* cause is given another.
AttendedHasCertificate ==
    /\ completed /\ mode # "off" =>
          \A m \in complete \ missed : LiveRows(m) # {} \/ Final(m) \/ ~NoJobLeft(m)
    /\ \A m \in Holders : Final(m) => LiveRows(m) = {}

\* The same of everyone who attended.  Not so: a check-in whose sync finds the
\* session running and that commits after the completion's fan-out gets no job
\* from either, until the mode is switched off and on.
EveryAttendeeHasCertificate ==
    completed /\ mode # "off" =>
        \A m \in complete : LiveRows(m) # {} \/ Final(m) \/ ~NoJobLeft(m)
===========================================================================
