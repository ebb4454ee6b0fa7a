---------------------------- MODULE ViewTracker ----------------------------
(***************************************************************************)
(* The view tracker of a page (components/views/tracker.ts) and the route  *)
(* that records what it sends.                                             *)
(*                                                                         *)
(* An element of the feed is watched for a subject.  Half of it on screen  *)
(* for a second, with the page visible, is a view; a story's frame is seen *)
(* when it is shown.  A subject is queued once per page life, once more    *)
(* when a video reaches its end; the queue leaves on a timer, or through a *)
(* beacon when the page is hidden.  The browser reports what crossed the   *)
(* half only to a visible page, in the next frame, and a frame is far      *)
(* shorter than the second a view takes.                                   *)
(*                                                                         *)
(* MaxMisses bounds the sends that fail, MaxTurns the times the page is    *)
(* hidden.  A batch of a page holds all that waits: fifty are never        *)
(* reached.                                                                *)
(***************************************************************************)
EXTENDS Integers, Sequences, SequencesExt

CONSTANTS
    Elements,   \* the feed's elements
    Posts,      \* the subjects they are watched for
    Frames,     \* the stories' video frames
    MaxMisses, MaxTurns

Subjects == Posts \cup Frames
Nothing == "nothing"

ViewsAssumption ==
    /\ Posts \cap Frames = {} /\ Nothing \notin Subjects
    /\ {MaxMisses, MaxTurns} \subseteq Nat

VARIABLES
    subjects,     \* what each element is watched for
    visibleSince, \* the elements reported half on screen
    timers,       \* the elements whose dwell runs
    seen, ended,  \* the subjects queued, and those queued as watched to the end
    waiting,      \* the queue
    flushTimer,   \* whether a flush is due
    visible,      \* the page's visibility
    away,         \* whether the member has left the page
    onScreen,     \* the elements half on screen
    crossed,      \* those the browser has not reported yet
    sends,        \* the batches on their way
    recorded,     \* what the server holds of each subject
    dropped,      \* the entries nobody sends any more
    misses, turns

watching == <<subjects, visibleSince, timers>>
queueing == <<seen, ended, waiting, flushTimer>>
outside == <<visible, away, onScreen, crossed>>
sending == <<sends, recorded, dropped, misses>>
vars == <<watching, queueing, outside, sending, turns>>

Entry == [subject : Subjects, completed : BOOLEAN]

\* Who waits for the answer: nobody, the first send, or its one retry.
Send == [batch : SUBSET Entry, waits : {"beacon", "send", "retry"}]

TypeOK ==
    /\ subjects \in [Elements -> Posts \cup {Nothing}]
    /\ {visibleSince, timers, onScreen, crossed} \subseteq SUBSET Elements
    /\ seen \subseteq Subjects /\ ended \subseteq Frames
    /\ waiting \subseteq Entry /\ dropped \subseteq Entry
    /\ {flushTimer, visible, away} \subseteq BOOLEAN
    /\ sends \subseteq Send
    /\ recorded \in [Subjects -> {"no", "seen", "completed"}]
    /\ misses \in 0..MaxMisses /\ turns \in 0..MaxTurns

Init ==
    /\ subjects = [e \in Elements |-> Nothing]
    /\ visibleSince = {} /\ timers = {}
    /\ seen = {} /\ ended = {} /\ waiting = {} /\ flushTimer = FALSE
    /\ visible = TRUE /\ away = FALSE
    /\ onScreen = {} /\ crossed = {}
    /\ sends = {} /\ recorded = [s \in Subjects |-> "no"] /\ dropped = {}
    /\ misses = 0 /\ turns = 0

---------------------------------------------------------------------------
(***************************************************************************)
(* The queue.                                                              *)
(***************************************************************************)
\* Wrong on purpose: the entry waits for the next page that is hidden.
EnqueueUntimed(entry) ==
    waiting' = waiting \cup {entry} /\ UNCHANGED flushTimer

enqueue(entry) ==
    waiting' = waiting \cup {entry} /\ flushTimer' = TRUE

see(s) ==
    IF s \in seen THEN UNCHANGED queueing
    ELSE seen' = seen \cup {s} /\ enqueue([subject |-> s, completed |-> FALSE])
         /\ UNCHANGED ended

\* What is queued leaves in one batch, through a beacon or a fetch.
flush(by) ==
    /\ waiting' = {} /\ flushTimer' = FALSE
    /\ sends' = sends \cup (IF waiting = {} THEN {} ELSE {[batch |-> waiting, waits |-> by]})

(***************************************************************************)
(* The elements.                                                           *)
(***************************************************************************)
Live == ~away /\ UNCHANGED away

\* arm, for each of a set of elements.
armed(E) ==
    {e \in E : /\ subjects[e] # Nothing /\ subjects[e] \notin seen
               /\ visible'}

\* The element is mounted, or its subject changed: its effect runs.
Observe(e, s) ==
    /\ Live /\ subjects[e] = Nothing
    /\ subjects' = [subjects EXCEPT ![e] = s]
    /\ crossed' = crossed \cup {e}
    /\ UNCHANGED <<visibleSince, timers, queueing, visible, onScreen, sending, turns>>

\* The effect's cleanup.  What was reported of the element stays.
Unobserve(e) ==
    /\ Live /\ subjects[e] # Nothing
    /\ subjects' = [subjects EXCEPT ![e] = Nothing]
    /\ timers' = timers \ {e}
    /\ UNCHANGED <<visibleSince, queueing, visible, onScreen, crossed, sending, turns>>

\* The page scrolls: an element crosses the half.
Scroll(e) ==
    /\ Live /\ visible
    /\ onScreen' = (onScreen \ {e}) \cup ({e} \ onScreen)
    /\ crossed' = IF subjects[e] = Nothing THEN crossed ELSE crossed \cup {e}
    /\ UNCHANGED <<watching, queueing, visible, sending, turns>>

onIntersect(e) ==
    /\ Live /\ visible /\ UNCHANGED visible
    /\ e \in crossed /\ crossed' = crossed \ {e}
    /\ \/ /\ e \in onScreen
          /\ visibleSince' = visibleSince \cup {e}
          /\ timers' = timers \cup armed({e})
       \/ /\ e \notin onScreen
          /\ visibleSince' = visibleSince \ {e}
          /\ timers' = timers \ {e}
    /\ UNCHANGED <<subjects, queueing, onScreen, sending, turns>>

\* A second has passed: the browser has long reported what crossed.
DwellEnds(e) ==
    /\ Live /\ e \in timers \ crossed
    /\ timers' = timers \ {e}
    /\ IF e \in visibleSince /\ visible THEN see(subjects[e]) ELSE UNCHANGED queueing
    /\ UNCHANGED <<subjects, visibleSince, visible, onScreen, crossed, sending, turns>>

---------------------------------------------------------------------------
(***************************************************************************)
(* The stories, the flush and the page.                                    *)
(***************************************************************************)
markShown(s) ==
    /\ Live /\ s \notin seen /\ see(s)
    /\ UNCHANGED <<watching, visible, onScreen, crossed, sending, turns>>

markCompleted(s) ==
    /\ Live /\ s \notin ended
    /\ ended' = ended \cup {s} /\ seen' = seen \cup {s}
    /\ enqueue([subject |-> s, completed |-> TRUE])
    /\ UNCHANGED <<watching, visible, onScreen, crossed, sending, turns>>

\* The timer, and the story viewer when it closes.
FlushDue ==
    /\ Live /\ flushTimer /\ flush("send")
    /\ UNCHANGED <<watching, seen, ended, visible, onScreen, crossed, recorded, dropped,
                   misses, turns>>

\* A browser that takes no beacon sends a fetch.
ByBeacon == \E by \in {"beacon", "send"} : flush(by)

\* Wrong on purpose: a dwell goes on in a hidden page.
KeptDwelling == timers

\* The timers that outlive a page that hides.
DwellingHidden == {}

Hide ==
    /\ Live /\ visible /\ turns < MaxTurns
    /\ visible' = FALSE /\ turns' = turns + 1
    /\ timers' = DwellingHidden /\ ByBeacon
    /\ UNCHANGED <<subjects, visibleSince, seen, ended, onScreen, crossed, recorded, dropped,
                   misses>>

Show ==
    /\ Live /\ ~visible /\ visible' = TRUE
    /\ timers' = timers \cup armed(visibleSince)
    /\ UNCHANGED <<subjects, visibleSince, queueing, onScreen, crossed, sending, turns>>

\* The page is left: onHide runs, then nothing of the page does.
Leave ==
    /\ ~away /\ away' = TRUE /\ ByBeacon
    /\ UNCHANGED <<watching, seen, ended, visible, onScreen, crossed, recorded, dropped,
                   misses, turns>>

---------------------------------------------------------------------------
(***************************************************************************)
(* The sends.                                                              *)
(***************************************************************************)
\* record_views: a row per subject, its end set once.
Recorded(batch) ==
    [s \in Subjects |->
        IF [subject |-> s, completed |-> TRUE] \in batch THEN "completed"
        ELSE IF recorded[s] = "no" /\ [subject |-> s, completed |-> FALSE] \in batch THEN "seen"
        ELSE recorded[s]]

Landed(x) ==
    /\ sends' = sends \ {x} /\ recorded' = Recorded(x.batch)
    /\ UNCHANGED <<dropped, misses>>

\* An answer between 400 and 499, a session that ended: never retried.
Refused(x) ==
    /\ misses < MaxMisses /\ misses' = misses + 1
    /\ sends' = sends \ {x} /\ dropped' = dropped \cup x.batch
    /\ UNCHANGED recorded

\* No answer, or a 500: the batch may have been recorded.  A send goes once
\* more, from a page that is still there.
Failed(x) ==
    /\ misses < MaxMisses /\ misses' = misses + 1
    /\ recorded' \in {recorded, Recorded(x.batch)}
    /\ IF x.waits = "send" /\ ~away
       THEN sends' = (sends \ {x}) \cup {[x EXCEPT !.waits = "retry"]} /\ UNCHANGED dropped
       ELSE sends' = sends \ {x} /\ dropped' = dropped \cup x.batch

Answered(x) ==
    /\ x \in sends
    /\ Landed(x) \/ Refused(x) \/ Failed(x)
    /\ UNCHANGED <<watching, queueing, outside, turns>>

---------------------------------------------------------------------------
Next ==
    \/ \E e \in Elements :
         \/ \E s \in Posts : Observe(e, s)
         \/ Unobserve(e) \/ Scroll(e) \/ onIntersect(e) \/ DwellEnds(e)
    \/ \E s \in Frames : markShown(s) \/ markCompleted(s)
    \/ FlushDue \/ Hide \/ Show \/ Leave
    \/ \E x \in sends : Answered(x)

Spec == Init /\ [][Next]_vars

---------------------------------------------------------------------------
(***************************************************************************)
(* A dwell runs for exactly what is being looked at: an element whose      *)
(* timer runs is mounted, on screen and in a visible page, and an element  *)
(* on screen in a visible page has its timer until its subject is seen,    *)
(* whatever order mounting, scrolling, hiding and coming back take.        *)
(* (arm, cancel, onVisibility)                                             *)
(***************************************************************************)
WatchedIsTimed ==
    ~away =>
        /\ timers # {} => visible
        /\ \A e \in timers : subjects[e] # Nothing /\ e \in onScreen \cup crossed
        /\ visible => \A e \in onScreen \ crossed :
              subjects[e] \in seen \cup {Nothing} \/ e \in timers

(***************************************************************************)
(* Nothing seen is forgotten: in a page that is still there, what waits    *)
(* has a timer to send it; what was seen waits, is on its way, is recorded *)
(* or was tried as often as it is tried; and a video watched to its end is *)
(* not left as merely seen.  (enqueue, flushNow, send, beacon)             *)
(***************************************************************************)
Somewhere(s, done) ==
    \E entry \in waiting \cup dropped \cup UNION {x.batch : x \in sends} :
        entry.subject = s /\ (done => entry.completed)

SeenIsSent ==
    /\ waiting # {} => flushTimer /\ ~away
    /\ \A s \in seen : Somewhere(s, FALSE) \/ recorded[s] # "no"
    /\ \A s \in ended : Somewhere(s, TRUE) \/ recorded[s] = "completed"
===========================================================================
