------------------------------ MODULE Avatar ------------------------------
(***************************************************************************)
(* One member's picture: the member's choices, the row, the two buckets,   *)
(* and the jobs import_avatar and process_avatar_upload that make storage  *)
(* follow the row.                                                         *)
(*                                                                         *)
(* The two jobs share a named queue, so they run one at a time; the        *)
(* member's calls come between any two of their steps.  An upload is an    *)
(* object first and a row second, written by the route in that order.      *)
(* A version's two sizes are one copy, and Google's picture is the same at *)
(* every sign-in.                                                          *)
(*                                                                         *)
(* MaxChoices bounds the calls, MaxUploads the uploads, MaxSilences the    *)
(* attempts that end without a last word; a step may fail transiently as   *)
(* often as there are attempts.                                            *)
(***************************************************************************)
EXTENDS Integers, FiniteSets, FiniteSetsExt

CONSTANTS
    AvatarAttempts,  \* how often a job is tried
    MaxChoices, MaxUploads, MaxSilences

AvatarAssumption ==
    /\ AvatarAttempts \in Nat \ {0}
    /\ {MaxChoices, MaxUploads, MaxSilences} \subseteq Nat

VARIABLES
    photo,    \* members.avatar_version, avatar_source, avatar_import
    good,     \* the uploads, and Google's picture as 0, that are a PNG or a JPEG
    gone,     \* the member is anonymised
    upload,   \* the avatar_uploads row
    staged,   \* bucket avatar-staging: the uploads there
    route,    \* how far the upload route has come with each upload
    copies,   \* bucket avatars: the versions there, with what each is of
    waiting,  \* the jobs that wait, and those whose attempts are used up
    run,      \* the job that runs, <<>> when none does
    choice,   \* the member's last choice of a picture
    choices, silences

buckets == <<staged, copies>>
avatarbounds == <<good, choices, silences>>

Source == {"google", "upload"}
Upload == 1..MaxUploads
Jobs == {"import", "upload"}
NoVersion == 0
NoUpload == [id |-> 0, state |-> "none"]

Copy == [version : Nat \ {0}, of : Source]
AvatarJob == [task : Jobs, keyed : BOOLEAN, tries : 0..AvatarAttempts]

TypeOK ==
    /\ photo.version \in Nat /\ photo.source \in Source \cup {"none"}
    /\ photo.answer \in {"none", "accepted", "declined"}
    /\ (photo.version = NoVersion) <=> (photo.source = "none")
    /\ good \subseteq 0..MaxUploads /\ gone \in BOOLEAN
    /\ upload.id \in 0..MaxUploads
    /\ upload.state \in {"none", "pending", "done", "refused", "failed", "cancelled"}
    /\ staged \subseteq Upload /\ route \in [Upload -> {"new", "stored", "begun"}]
    /\ copies \subseteq Copy
    /\ waiting \subseteq AvatarJob
    /\ \A t \in Jobs : Cardinality({j \in waiting : j.task = t /\ j.keyed}) <= 1
    /\ choice \in {"none", "google", "upload", "library"}

Init ==
    /\ photo = [version |-> NoVersion, source |-> "none", answer |-> "none"]
    /\ good \in SUBSET (0..MaxUploads) /\ gone = FALSE /\ upload = NoUpload
    /\ staged = {} /\ route = [u \in Upload |-> "new"] /\ copies = {}
    /\ waiting = {} /\ run = <<>>
    /\ choice = "none"
    /\ choices = 0 /\ silences = 0

---------------------------------------------------------------------------
(* The calls.                                                              *)

\* enqueue_job under the member's key for the task; a job that runs loses it.
\* Two jobs without a key that have been tried as often are one here: they would
\* do the same, one after the other.
Enqueue(task) ==
    /\ waiting' = {j \in waiting : ~(j.task = task /\ j.keyed)}
                  \cup {[task |-> task, keyed |-> TRUE, tries |-> 0]}
    /\ run' = IF run # <<>> /\ run[1].job.task = task
              THEN <<[run[1] EXCEPT !.job.keyed = FALSE]>> ELSE run

Choose(c) ==
    /\ ~gone
    /\ choices < MaxChoices /\ choices' = choices + 1
    /\ choice' = c
    /\ UNCHANGED <<good, gone, buckets, route, silences>>

\* The trigger members_avatar: a row without a version has no source.
Cleared(p) == [p EXCEPT !.version = NoVersion, !.source = "none"]

Cancelled == IF upload.state = "pending" THEN [upload EXCEPT !.state = "cancelled"] ELSE upload

\* avatar_leave_photo: a library avatar is picked, or the photo is removed, by
\* the member or by an admin who takes it down.
LeavePhoto ==
    /\ Choose("library")
    /\ upload' = Cancelled
    /\ photo' = [Cleared(photo) EXCEPT !.answer = IF @ = "accepted" THEN "declined" ELSE @]
    /\ IF photo.version # NoVersion \/ upload.state = "pending"
       THEN Enqueue("import") ELSE UNCHANGED <<waiting, run>>

\* set_avatar_import: no to Google's picture leaves an upload alone.
Decline ==
    /\ Choose(IF choice = "upload" THEN "upload" ELSE "library")
    /\ photo' = [IF photo.source = "google" THEN Cleared(photo) ELSE photo
                 EXCEPT !.answer = "declined"]
    /\ IF photo.source = "google" \/ (photo.answer = "accepted" /\ photo.version = NoVersion)
       THEN Enqueue("import") ELSE UNCHANGED <<waiting, run>>
    /\ UNCHANGED upload

\* set_avatar_import: yes, for a member Google gave a picture.
Accept ==
    /\ Choose(IF choice = "upload" THEN "upload" ELSE "google")
    /\ photo' = [photo EXCEPT !.answer = "accepted"]
    /\ IF photo.source # "upload" THEN Enqueue("import") ELSE UNCHANGED <<waiting, run>>
    /\ UNCHANGED upload

\* request_avatar_google: from the sheet, over an upload too.
RequestGoogle ==
    /\ Choose("google")
    /\ upload' = Cancelled
    /\ photo' = [IF photo.source = "upload" THEN Cleared(photo) ELSE photo
                 EXCEPT !.answer = "accepted"]
    /\ Enqueue("import")

\* uploadAvatar, its first half: the object.
Stage(u) ==
    /\ ~gone
    /\ route[u] = "new" /\ \A x \in 1..u - 1 : route[x] # "new"
    /\ route' = [route EXCEPT ![u] = "stored"]
    /\ staged' = staged \cup {u}
    /\ UNCHANGED <<photo, gone, upload, copies, waiting, run, choice, avatarbounds>>

\* Its second half, begin_avatar_upload: the row and the job.
BeginUpload(u) ==
    /\ ~gone
    /\ route[u] = "stored"
    /\ route' = [route EXCEPT ![u] = "begun"]
    /\ upload' = [id |-> u, state |-> "pending"]
    /\ choice' = "upload"
    /\ Enqueue("upload")
    /\ UNCHANGED <<photo, gone, buckets, avatarbounds>>

\* Wrong on purpose: only of a member whose photo shows.
ReconciledIfShown == photo.version # NoVersion

\* Whether storage may hold something of a member who is anonymised.
Reconciled == photo.answer = "accepted" \/ photo.version # NoVersion \/ upload # NoUpload

\* anonymise_members, so long after the member was deactivated that no job of
\* theirs still runs.
Anonymise ==
    /\ run = <<>>
    /\ ~gone /\ gone' = TRUE
    /\ photo' = [Cleared(photo) EXCEPT !.answer = "none"]
    /\ upload' = NoUpload
    /\ IF Reconciled THEN Enqueue("import") ELSE UNCHANGED <<waiting, run>>
    /\ UNCHANGED <<buckets, route, choice, avatarbounds>>

---------------------------------------------------------------------------
(* The jobs.                                                               *)

\* A job takes its target in one read.  What it does at once, it does here:
\* an import with nothing to fetch and an upload with nothing pending only
\* tidy up.
Fetches(p) == ~gone /\ p.source # "upload" /\ p.answer = "accepted"
Pending == ~gone /\ upload.state = "pending"

FirstStep(task) ==
    IF gone THEN "wipe"
    ELSE IF task = "import" THEN (IF Fetches(photo) THEN "copy" ELSE "purge")
    ELSE IF Pending THEN "copy" ELSE "clear"

Start(j) ==
    /\ run = <<>> /\ j \in waiting /\ j.tries < AvatarAttempts
    /\ waiting' = waiting \ {j}
    /\ run' = <<[job |-> [j EXCEPT !.tries = @ + 1], step |-> FirstStep(j.task),
                 current |-> photo.version, pending |-> upload.id, made |-> NoVersion,
                 keep |-> photo.version]>>
    /\ UNCHANGED <<photo, gone, upload, buckets, route, choice, avatarbounds>>

Task == run[1].job.task
At(task, step) == run # <<>> /\ Task \in task /\ run[1].step = step
Goes(step) == run' = <<[run[1] EXCEPT !.step = step]>>
Done == run' = <<>>

\* The clock in milliseconds has passed every version there was.
NextVersion == Max({c.version : c \in copies} \cup {run[1].current}) + 1

\* import_avatar: the source is fetched, rendered and uploaded.
CopyGoogle ==
    /\ At({"import"}, "copy") /\ 0 \in good
    /\ copies' = copies \cup {[version |-> NextVersion, of |-> "google"]}
    /\ run' = <<[run[1] EXCEPT !.step = "record", !.made = NextVersion]>>
    /\ UNCHANGED <<photo, gone, upload, staged, route, waiting, choice, avatarbounds>>

\* AvatarRefused: the same bytes would be refused again, and the job ends.
GoogleRefused ==
    /\ At({"import"}, "copy") /\ 0 \notin good
    /\ Done
    /\ UNCHANGED <<photo, gone, upload, buckets, route, waiting, choice, avatarbounds>>

\* process_avatar_upload: the staged object becomes a copy.
CopyUpload ==
    /\ At({"upload"}, "copy") /\ run[1].pending \in staged \cap good
    /\ copies' = copies \cup {[version |-> NextVersion, of |-> "upload"]}
    /\ run' = <<[run[1] EXCEPT !.step = "record", !.made = NextVersion]>>
    /\ UNCHANGED <<photo, gone, upload, staged, route, waiting, choice, avatarbounds>>

\* fail_avatar_upload.
FailedRow(state) ==
    IF upload.id = run[1].pending /\ upload.state = "pending"
    THEN [upload EXCEPT !.state = state] ELSE upload

\* The object is not there, or its bytes are no picture: the sheet is told.
UploadRefused(state) ==
    /\ At({"upload"}, "copy") /\ run[1].pending \notin staged \cap good
    /\ run[1].pending \notin staged => state = "failed"
    /\ upload' = FailedRow(state)
    /\ Goes("clear")
    /\ UNCHANGED <<photo, gone, buckets, route, waiting, choice, avatarbounds>>

\* record_avatar_copy's conditions.
RecordsCopy == photo.answer = "accepted" /\ ~gone /\ photo.source # "upload"

\* Wrong on purpose: whatever became of the upload meanwhile.
RecordsUploadAlways == ~gone

\* record_avatar_upload's conditions.
RecordsUpload == ~gone /\ upload.id = run[1].pending /\ upload.state = "pending"

Records == IF Task = "import" THEN RecordsCopy ELSE RecordsUpload

\* The version is recorded, or what the row now says is kept.
Record ==
    /\ At(Jobs, "record")
    /\ photo.version < run[1].made
    /\ photo' = IF Records
                THEN [photo EXCEPT !.version = run[1].made,
                                   !.source = IF Task = "import" THEN "google" ELSE "upload"]
                ELSE photo
    /\ upload' = IF Records /\ Task = "upload" THEN [upload EXCEPT !.state = "done"] ELSE upload
    /\ run' = <<[run[1] EXCEPT !.step = "purge", !.keep = photo'.version]>>
    /\ UNCHANGED <<gone, buckets, route, waiting, choice, avatarbounds>>

Keep == {c \in copies : c.version = run[1].keep}

\* Deletes every copy but the one to keep.
Purge ==
    /\ At(Jobs, "purge")
    /\ copies' = Keep
    /\ IF Task = "upload" THEN Goes("clear") ELSE Done
    /\ UNCHANGED <<photo, gone, upload, staged, route, waiting, choice, avatarbounds>>

\* purgeStaging lists the member's prefix, so it takes every upload there, one
\* whose row is not written or whose job has not run included.
ClearStaging ==
    /\ At({"upload"}, "clear")
    /\ staged' = {}
    /\ Done
    /\ UNCHANGED <<photo, gone, upload, route, copies, waiting, choice, avatarbounds>>

\* Either job, for an anonymised member: both buckets.
Wipe ==
    /\ At(Jobs, "wipe")
    /\ copies' = {} /\ staged' = {}
    /\ Done
    /\ UNCHANGED <<photo, gone, upload, route, waiting, choice, avatarbounds>>

Back == run' = <<>> /\ waiting' = waiting \cup {run[1].job}

\* Wrong on purpose: the sheet goes on waiting.
NoLastWord == upload

LastAttempt == Task = "upload" /\ run[1].job.tries = AvatarAttempts /\ run[1].step # "wipe"

\* The last attempt of an upload tells the sheet.
LastWord == IF LastAttempt THEN FailedRow("failed") ELSE upload

\* Storage, a binary or the database fails, and the job throws; with the last
\* word the staging bucket is emptied, if that works.
Fails ==
    /\ run # <<>>
    /\ upload' = LastWord
    /\ staged' \in IF LastAttempt THEN {staged, {}} ELSE {staged}
    /\ Back
    /\ UNCHANGED <<photo, gone, copies, route, choice, avatarbounds>>

\* The attempt says nothing: the process dies, the read of the target fails, or
\* fail_avatar_upload fails too and the catch swallows it.
Silenced ==
    /\ run # <<>>
    /\ silences < MaxSilences /\ silences' = silences + 1
    /\ Back
    /\ UNCHANGED <<photo, good, gone, upload, buckets, route, choice, choices>>

Steps ==
    \/ \E j \in waiting : Start(j)
    \/ CopyGoogle \/ GoogleRefused \/ CopyUpload
    \/ \E s \in {"refused", "failed"} : UploadRefused(s)
    \/ Record \/ Purge \/ ClearStaging \/ Wipe \/ Fails

Next ==
    \/ LeavePhoto \/ Decline \/ Accept \/ RequestGoogle \/ Anonymise
    \/ \E u \in Upload : Stage(u) \/ BeginUpload(u)
    \/ Steps \/ Silenced

\* The worker takes what waits and goes on with what it has taken.
AvatarFairness == WF_<<photo, upload, buckets, waiting, run>>(Steps)

---------------------------------------------------------------------------
AvatarSettled == run = <<>> /\ \A j \in waiting : j.tries = AvatarAttempts

\* A job that was overtaken by the member's choice does not undo it: no photo
\* comes back over a library avatar, no upload over Google's picture, and an
\* upload that is done stands against Google's.  Nor does its purge take the
\* picture that shows: the version the row names is stored, and is of its source.
ChoiceStands ==
    /\ photo.version # NoVersion =>
          [version |-> photo.version, of |-> photo.source] \in copies
    /\ choice = "library" /\ ~gone => photo.version = NoVersion
    /\ choice = "google" => photo.source # "upload"
    /\ choice = "upload" /\ upload.state = "done" => photo.source = "upload"

\* When the jobs have ended, nothing is stored of an anonymised member, neither a
\* copy nor a staged object, unless a job ran out of attempts; but an object whose
\* request never wrote its row may stay when no upload of theirs ever got a row.
AnonymisedLeavesNoPicture ==
    gone /\ AvatarSettled =>
        \/ waiting # {}
        \/ copies = {} /\ (staged = {} \/ \A u \in Upload : route[u] # "begun")

\* The sheet's poll of an upload comes to an end: done, refused, failed or
\* cancelled, unless the attempts are used up and one of them said nothing.
UploadIsAnswered ==
    (upload.state = "pending") ~>
        \/ upload.state # "pending"
        \/ silences > 0 /\ \E j \in waiting : j.task = "upload" /\ j.tries = AvatarAttempts

---------------------------------------------------------------------------
(* What the documents say and the code does not do.                        *)

\* REQ-PRF-011: no storage object of an anonymised member remains.  Not so of the
\* object of a request that ended between its two halves.
NoObjectRemains == gone /\ AvatarSettled => waiting # {} \/ (copies = {} /\ staged = {})
===========================================================================
