----------------------------- MODULE MCWorker -----------------------------
(***************************************************************************)
(* Four of the worker's job families in one run: a behaviour is one of a   *)
(* member's calendar, of a mail, of a picture or of a session's            *)
(* certificates, chosen at the start.  They share no row and no object.    *)
(***************************************************************************)
EXTENDS Integers, Sequences, FiniteSets

CONSTANTS
    FirstDays, DaySets, Attempts, Slots, MayRebook, MaxCalls, MaxFaults,
    SendAttempts, MaxToggles, MaxDeaths, MaxRepeats,
    AvatarAttempts, MaxChoices, MaxUploads, MaxSilences,
    Holders, IssueTries, MaxActs, MaxLosses

VARIABLES
    family,
    seat, open, days, version, connected, token, rows, events, queue, running, calls, faults,
    optional, recipient, wants, job, attempt, deliveries, accepted, fate, hooks, ended, died,
    toggles, repeats,
    photo, good, gone, upload, staged, route, copies, waiting, run, choice, choices, silences,
    mode, completed, complete, entering, missed, certs, counter, jobs, issuing, rerun,
    acts, losses

Calendar == INSTANCE CalendarSync
Mailing == INSTANCE Mail
Picture == INSTANCE Avatar
Issuing == INSTANCE Certificates

ASSUME WorkerAssumption ==
    /\ Calendar!CalendarAssumption /\ Mailing!MailAssumption
    /\ Picture!AvatarAssumption /\ Issuing!CertificatesAssumption

calendar == <<seat, open, days, version, connected, token, rows, events, queue, running,
              calls, faults>>
mail == <<optional, recipient, wants, job, attempt, deliveries, accepted, fate, hooks,
          ended, died, toggles, repeats>>
picture == <<photo, good, gone, upload, staged, route, copies, waiting, run, choice,
             choices, silences>>
certificates == <<mode, completed, complete, entering, missed, certs, counter, jobs,
                  issuing, rerun, acts, losses>>

TwoDays == {1, 2}
AddOrRemove == {{1}, {1, 2}}

\* A family that is not the behaviour's own starts in one way.
Init ==
    /\ family \in {"calendar", "mail", "picture", "certificates"}
    /\ Calendar!Init /\ Mailing!Init /\ Picture!Init /\ Issuing!Init
    /\ family # "calendar" => connected
    /\ family # "mail" => optional /\ wants /\ recipient = "ok"
    /\ family # "picture" => good = {}
    /\ family # "certificates" => mode = "off" /\ complete = {}

Next ==
    /\ UNCHANGED family
    /\ \/ family = "calendar" /\ Calendar!Next /\ UNCHANGED <<mail, picture, certificates>>
       \/ family = "mail" /\ Mailing!Next /\ UNCHANGED <<calendar, picture, certificates>>
       \/ family = "picture" /\ Picture!Next /\ UNCHANGED <<calendar, mail, certificates>>
       \/ family = "certificates" /\ Issuing!Next /\ UNCHANGED <<calendar, mail, picture>>

Spec ==
    /\ Init /\ [][Next]_<<family, calendar, mail, picture, certificates>>
    /\ Mailing!MailFairness /\ Picture!AvatarFairness

TypeOK ==
    /\ Calendar!TypeOK /\ Mailing!TypeOK /\ Picture!TypeOK /\ Issuing!TypeOK

OneEventPerDay == Calendar!OneEventPerDay
SeatReachesCalendar == Calendar!SeatReachesCalendar
DeliveriesTellTheMail == Mailing!DeliveriesTellTheMail
MessageIsDecided == Mailing!MessageIsDecided
ChoiceStands == Picture!ChoiceStands
AnonymisedLeavesNoPicture == Picture!AnonymisedLeavesNoPicture
UploadIsAnswered == Picture!UploadIsAnswered
RetriesLeaveNoTrace == Issuing!RetriesLeaveNoTrace
AttendedHasCertificate == Issuing!AttendedHasCertificate
===========================================================================
