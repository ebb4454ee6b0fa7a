----------------------------- MODULE MCBrowser -----------------------------
(***************************************************************************)
(* The pages whose state lives in the browser, in one run: a behaviour is  *)
(* one of the editor, of a reaction, of the mail builder or of the view    *)
(* tracker, chosen at the start.                                           *)
(***************************************************************************)
EXTENDS Integers, Sequences

CONSTANTS
    UndoSteps, MaxEdits, MaxSaves, MaxOpens, MaxFaults,
    Kind, MaxTaps, MaxFailures, MaxHides, MaxPaints,
    Layouts, HistoryLimit, Platform, MaxCommits, MaxPosts,
    Elements, Posts, Frames, MaxMisses, MaxTurns

\* One block in the first column of a row of two.
OneBlock ==
    [blocks |-> <<1>>,
     rows |-> <<[id |-> -2, layout |-> "1/1", columns |-> <<<<1>>, <<>>>>]>>]

VARIABLES
    page,
    tab, draft, versions, puts, left, edits, opens, faults,
    held, shown, baseline, entry, loose, requests, paint, lastTap, failed,
    overtaken, hidden, taps, failures, hides, paints,
    past, present, future, armed, stored, posted, server, own, known, unheard,
    fresh, commits, posts,
    subjects, visibleSince, timers, seen, ended, waiting, flushTimer, visible, away,
    onScreen, crossed, sends, recorded, dropped, misses, turns

Editor == INSTANCE DesignerEditor
Reaction == INSTANCE ReactionQueue
Email == INSTANCE EmailBuilder
Views == INSTANCE ViewTracker

ASSUME BrowserAssumption ==
    /\ Editor!EditorAssumption /\ Reaction!ReactionAssumption
    /\ Email!EmailAssumption /\ Views!ViewsAssumption

editor == <<tab, draft, versions, puts, left, edits, opens, faults>>
reaction == <<held, shown, baseline, entry, loose, requests, paint, lastTap, failed,
              overtaken, hidden, taps, failures, hides, paints>>
email == <<past, present, future, armed, stored, posted, server, own, known, unheard,
           fresh, commits, posts>>
views == <<subjects, visibleSince, timers, seen, ended, waiting, flushTimer, visible, away,
           onScreen, crossed, sends, recorded, dropped, misses, turns>>

Init ==
    /\ page \in {"editor", "reaction", "email", "views"}
    /\ Editor!Init /\ Reaction!Init /\ Email!Init /\ Views!Init
    /\ page # "reaction" => held = Reaction!NoKind

Next ==
    /\ UNCHANGED page
    /\ \/ page = "editor" /\ Editor!Next /\ UNCHANGED <<reaction, email, views>>
       \/ page = "reaction" /\ Reaction!Next /\ UNCHANGED <<editor, email, views>>
       \/ page = "email" /\ Email!Next /\ UNCHANGED <<editor, reaction, views>>
       \/ page = "views" /\ Views!Next /\ UNCHANGED <<editor, reaction, email>>

Spec == Init /\ [][Next]_<<page, editor, reaction, email, views>> /\ Reaction!Fairness

TypeOK == Editor!TypeOK /\ Reaction!TypeOK /\ Email!TypeOK /\ Views!TypeOK
DraftFollowsScreen == Editor!DraftFollowsScreen
LeftWorkIsKept == Editor!LeftWorkIsKept
LastTapStands == Reaction!LastTapStands
TapsSettle == Reaction!TapsSettle
BlocksStand == Email!BlocksStand
ReopensAsSaved == Email!ReopensAsSaved
SlotIsHonoured == Email!SlotIsHonoured
SavedIsSent == Email!SavedIsSent
WatchedIsTimed == Views!WatchedIsTimed
SeenIsSent == Views!SeenIsSent
===========================================================================
