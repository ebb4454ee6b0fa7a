--------------------------- MODULE DesignerEditor ---------------------------
(***************************************************************************)
(* One design document in a member's editor: the document on screen and    *)
(* its undo history, the save with the base it was read at, the draft kept *)
(* in the browser, leaving and coming back.  Other members, in editors of  *)
(* their own, save the same document.  Publishing, which saves first as    *)
(* the bar does, is left out.                                              *)
(*                                                                         *)
(* A document is the number of the edit that made it, 0 the one before all *)
(* edits.  The server's row is the sequence of what was saved to it; its   *)
(* updated_at is the length of that sequence.  The PUT checks the base and *)
(* writes in two statements.                                               *)
(*                                                                         *)
(* MaxEdits bounds the edits, MaxSaves the versions, MaxOpens the times    *)
(* the editor is opened, MaxFaults the pages that die and the answers that *)
(* are lost.                                                               *)
(***************************************************************************)
EXTENDS Integers, Sequences, SequencesExt

CONSTANTS
    UndoSteps,   \* how many undo steps are kept
    MaxEdits, MaxSaves, MaxOpens, MaxFaults

EditorAssumption ==
    /\ UndoSteps \in Nat \ {0} /\ MaxSaves \in Nat \ {0}
    /\ {MaxEdits, MaxOpens, MaxFaults} \subseteq Nat

VARIABLES
    tab,        \* what the editor's page holds
    draft,      \* the member's draft in the browser's storage
    versions,   \* design_documents: what was saved
    puts,       \* the saves the server has not answered, or not been heard
    left,       \* the unsaved work the page was left with, until it is asked about
    edits, opens, faults

bounds == <<edits, opens, faults>>
vars == <<tab, draft, versions, puts, left, bounds>>

Document == 0..MaxEdits
Base == 1..MaxSaves
Maybe(S) == {<<>>} \cup {<<x>> : x \in S}
Draft == Document \* its base, which only the offer's words tell, is left out

\* after: what a save in flight is for; going: the leave was answered, nothing
\* asks or writes a draft any more; mirror: the effect of useDraftMirror is due.
TabState ==
    [page : {"closed", "offer", "open"}, doc : Document, saved : Document,
     base : Base, past : Seq(Document), future : Seq(Document), burst : BOOLEAN,
     after : {"stay", "leave"}, offer : Maybe(Draft), going : BOOLEAN, mirror : BOOLEAN]
Final == {"saved", "conflict", "refused"}
Put == [doc : Document, base : Base, heard : BOOLEAN,
        stage : {"sent", "checked"} \cup Final, at : Base]

TypeOK ==
    /\ tab \in TabState
    /\ Len(tab.past) <= UndoSteps /\ Len(tab.future) <= UndoSteps
    /\ draft \in Maybe(Draft)
    /\ versions \in Seq(Document)
    /\ Len(versions) \in Base
    /\ puts \subseteq Put
    /\ left \in Maybe(Document)
    /\ edits \in 0..MaxEdits
    /\ opens \in 0..MaxOpens /\ faults \in 0..MaxFaults

Closed ==
    [page |-> "closed", doc |-> 0, saved |-> 0, base |-> 1, past |-> <<>>,
     future |-> <<>>, burst |-> FALSE, after |-> "stay",
     offer |-> <<>>, going |-> FALSE, mirror |-> FALSE]

Init ==
    /\ tab = Closed /\ draft = <<>>
    /\ versions = <<0>>
    /\ puts = {}
    /\ left = <<>>
    /\ edits = 0 /\ opens = 0 /\ faults = 0

---------------------------------------------------------------------------
(* The document on screen and its history.                                 *)

\* Derived, never flagged: the document on screen against the saved one.
dirty(t) == t.doc # t.saved

InFlight == {p \in puts : p.heard}
CanChange == tab.page = "open"

Kept(s) == IF Len(s) > UndoSteps THEN Tail(s) ELSE s

\* Wrong on purpose: the undo steps are not cut.
MutateUnbounded(t, next, joins) ==
    [t EXCEPT !.doc = next, !.mirror = TRUE, !.future = <<>>,
              !.past = IF joins THEN @ ELSE Append(@, t.doc)]

\* The next document, one undo step further unless it continues a burst.
mutate(t, next, joins) ==
    [t EXCEPT !.doc = next, !.mirror = TRUE, !.future = <<>>,
              !.past = IF joins THEN @ ELSE Kept(Append(@, t.doc))]

\* An edit.  The edits of one burst are one undo step, and any edit but the
\* first may be of the burst of the one before it, undone or not.
Edit(joins) ==
    /\ CanChange
    /\ joins => tab.burst
    /\ edits < MaxEdits /\ edits' = edits + 1
    /\ tab' = [mutate(tab, edits + 1, joins) EXCEPT !.burst = TRUE]
    /\ UNCHANGED <<draft, versions, puts, left, opens, faults>>

undo ==
    /\ CanChange /\ tab.past # <<>>
    /\ tab' = [tab EXCEPT !.doc = Last(tab.past), !.past = Front(@), !.mirror = TRUE,
                          !.future = Kept(Append(@, tab.doc))]
    /\ UNCHANGED <<draft, versions, puts, left, bounds>>

redo ==
    /\ CanChange /\ tab.future # <<>>
    /\ tab' = [tab EXCEPT !.doc = Last(tab.future), !.future = Front(@), !.mirror = TRUE,
                          !.past = Kept(Append(@, tab.doc))]
    /\ UNCHANGED <<draft, versions, puts, left, bounds>>

---------------------------------------------------------------------------
(* Saving.                                                                 *)

\* Never two at once.
MaySave == CanChange /\ dirty(tab) /\ InFlight = {}

\* What is left of saves whose answer nobody waits for any more.
Unheard(ps) == {[p EXCEPT !.heard = FALSE] : p \in {q \in ps : q.stage \notin Final}}

\* saveDocument and push: what is in flight is aborted, and the document goes
\* with its base.  Pressed on the bar or in the leave dialog.
saveDocument(after) ==
    /\ MaySave
    /\ Len(versions) < MaxSaves
    /\ puts' = (puts \ InFlight) \cup Unheard(InFlight) \cup
           {[doc |-> tab.doc, base |-> tab.base, heard |-> TRUE, stage |-> "sent", at |-> 1]}
    /\ tab' = [tab EXCEPT !.after = after]
    /\ UNCHANGED <<draft, versions, left, bounds>>

Advance(p, stage, at) ==
    puts' = (puts \ {p}) \cup IF p.heard \/ stage \notin Final
                              THEN {[p EXCEPT !.stage = stage, !.at = at]} ELSE {}

\* saveDesignDocument, the first statement: the row is where the page read it.
\* An invalid document, a locked layer or a live poster is refused.
Check(p) ==
    /\ p \in puts /\ p.stage = "sent"
    /\ \E s \in {IF Len(versions) = p.base THEN "checked" ELSE "conflict", "refused"} :
           Advance(p, s, p.at)
    /\ UNCHANGED <<tab, draft, versions, left, bounds>>

\* The second: the update names the row, and nothing else.
Write(p) ==
    /\ p \in puts /\ p.stage = "checked"
    /\ Len(versions) < MaxSaves
    /\ versions' = Append(versions, p.doc)
    /\ Advance(p, "saved", Len(versions) + 1)
    /\ UNCHANGED <<tab, draft, left, bounds>>

\* Another member saves from an editor of their own.
AnotherSaves ==
    /\ Len(versions) < MaxSaves
    /\ edits < MaxEdits /\ edits' = edits + 1
    /\ versions' = Append(versions, edits + 1)
    /\ UNCHANGED <<tab, draft, puts, left, opens, faults>>

\* Wrong on purpose: the effect is not run for a document that became clean.
LandedQuietly(t, p) == [t EXCEPT !.base = p.at, !.saved = p.doc, !.after = "stay"]

\* A save that landed: the base moves, and what was sent is what is saved.  The
\* mirror runs again when the document has become clean or dirty by it.
Landed(t, p) ==
    [t EXCEPT !.base = p.at, !.saved = p.doc, !.after = "stay",
              !.mirror = @ \/ dirty(t) # (t.doc # p.doc)]

\* The leave was answered: the draft goes, and nothing writes or asks again.
Going(t) == [t EXCEPT !.going = TRUE, !.mirror = FALSE]

\* The answer to a save.  After one that landed, leaveAndSave goes on.
Answered(p) ==
    /\ p \in puts /\ p.heard /\ p.stage \in Final
    /\ puts' = puts \ {p}
    /\ \/ /\ p.stage = "saved" /\ tab.after = "leave"
          /\ tab' = Going(Landed(tab, p)) /\ draft' = <<>>
       \/ /\ p.stage = "saved" /\ tab.after # "leave"
          /\ tab' = Landed(tab, p) /\ UNCHANGED draft
       \/ /\ p.stage # "saved"
          /\ tab' = [tab EXCEPT !.after = "stay"]
          /\ UNCHANGED draft
    /\ UNCHANGED <<versions, left, bounds>>

\* The answer never comes: the page sees an error, the request goes on.
AnswerLost(p) ==
    /\ p \in puts /\ p.heard
    /\ faults < MaxFaults /\ faults' = faults + 1
    /\ puts' = (puts \ {p}) \cup Unheard({p})
    /\ tab' = [tab EXCEPT !.after = "stay"]
    /\ UNCHANGED <<draft, versions, left, edits, opens>>

---------------------------------------------------------------------------
(* Opening, the draft, and leaving.                                        *)

\* The page is read from the server, and a draft that is there is offered.
Open ==
    LET now == Last(versions)
    IN  /\ tab.page = "closed"
        /\ opens < MaxOpens /\ opens' = opens + 1
        /\ tab' = [Closed EXCEPT !.page = IF draft = <<>> THEN "open" ELSE "offer",
                                 !.doc = now, !.saved = now, !.base = Len(versions),
                                 !.offer = draft, !.mirror = TRUE]
        /\ UNCHANGED <<draft, versions, puts, left, edits, faults>>

\* The offer is answered: the draft goes on screen, or away.
AnswerOffer(restore) ==
    LET t == [tab EXCEPT !.page = "open", !.offer = <<>>]
    IN  /\ tab.page = "offer"
        /\ tab' = IF restore THEN mutate(t, tab.offer[1], FALSE) ELSE t
        /\ draft' = IF restore THEN draft ELSE <<>>
        /\ left' = <<>>
        /\ UNCHANGED <<versions, puts, bounds>>

Mirrored == IF dirty(tab) THEN <<tab.doc>> ELSE <<>>

\* Wrong on purpose: the mirror does not wait for the offer's answer.
MirrorActiveAlways == tab.page # "closed" /\ ~tab.going

\* Off while an offer is unanswered, and once the leave was answered.
MirrorActive == tab.page = "open" /\ ~tab.going

\* The effect of useDraftMirror: the draft follows the document on screen.
Mirror ==
    /\ MirrorActive /\ tab.mirror
    /\ draft' = Mirrored
    /\ tab' = [tab EXCEPT !.mirror = FALSE]
    /\ UNCHANGED <<versions, puts, left, bounds>>

\* The page goes: its save is aborted, and may land all the same.
Gone ==
    /\ tab' = Closed
    /\ puts' = (puts \ InFlight) \cup Unheard(InFlight)

\* What leaving makes of the draft: what is unsaved is written, and the draft of
\* a clean document is gone already.
Flushed == IF ~MirrorActive THEN draft
           ELSE IF tab.mirror \/ dirty(tab) THEN Mirrored ELSE draft

\* Left by Back, a closed tab or a navigation.
Leave ==
    /\ tab.page # "closed"
    /\ draft' = Flushed
    /\ left' = IF tab.page = "offer" THEN left
               ELSE IF dirty(tab) /\ ~tab.going THEN <<tab.doc>> ELSE <<>>
    /\ Gone
    /\ UNCHANGED <<versions, bounds>>

\* leaveAndDiscard.
Discard ==
    /\ CanChange /\ dirty(tab) /\ ~tab.going
    /\ draft' = <<>>
    /\ tab' = Going(tab)
    /\ UNCHANGED <<versions, puts, left, bounds>>

\* The page dies: nothing more is written.
Crash ==
    /\ tab.page # "closed"
    /\ faults < MaxFaults /\ faults' = faults + 1
    /\ left' = IF tab.page = "offer" THEN left
               ELSE IF dirty(tab) /\ ~tab.going /\ ~tab.mirror THEN <<tab.doc>> ELSE <<>>
    /\ Gone
    /\ UNCHANGED <<draft, versions, edits, opens>>

Next ==
    \/ \E b \in BOOLEAN : Edit(b) \/ AnswerOffer(b)
    \/ undo \/ redo
    \/ \E a \in {"stay", "leave"} : saveDocument(a)
    \/ \E p \in puts : Check(p) \/ Write(p) \/ Answered(p) \/ AnswerLost(p)
    \/ AnotherSaves
    \/ Open \/ Mirror \/ Leave \/ Discard \/ Crash

Spec == Init /\ [][Next]_vars

---------------------------------------------------------------------------

\* The draft is the document on screen while that is unsaved, and there is none
\* while it is saved.
DraftFollowsScreen ==
    MirrorActive /\ ~tab.mirror =>
        IF dirty(tab) THEN draft # <<>> /\ draft[1] = tab.doc ELSE draft = <<>>

\* Unsaved work the page was left with, or died with, stays in the draft until
\* the member has answered the offer.
LeftWorkIsKept ==
    left # <<>> /\ tab.page # "open" => draft # <<>> /\ draft[1] = left[1]

\* A save replaces the version its page had read.
NoSilentOverwrite ==
    [][\A p \in puts : Write(p) => Len(versions) = p.base]_vars
===========================================================================
