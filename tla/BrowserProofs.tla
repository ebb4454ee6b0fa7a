--------------------------- MODULE BrowserProofs ---------------------------
(***************************************************************************)
(* Proofs about the pages whose state lives in the browser: the editor's   *)
(* draft, a reaction's last tap and the view tracker's queue, each with    *)
(* the invariant that carries it, and what the mail builder's page holds   *)
(* to be stored.  EmailProofs goes on with the mail itself.                *)
(***************************************************************************)
EXTENDS MCBrowser, FiniteSetTheorems, SequenceTheorems, TLAPS

(***************************************************************************)
(* The editor.  A page that dies leaves its draft, because the draft       *)
(* follows the screen whenever the mirror is not due, and a page that      *)
(* offers a draft has not mirrored yet.                                    *)
(***************************************************************************)
\* The page of an unanswered offer has one, and its mirror has not run.
OfferWaits == tab.page = "offer" => tab.mirror /\ tab.offer # <<>>

\* Who waits for a save's answer is an open page.
HeardIsOpen == (\E p \in puts : p.heard) => tab.page = "open"

EditorInv ==
    /\ Editor!TypeOK /\ OfferWaits /\ HeardIsOpen
    /\ Editor!DraftFollowsScreen /\ Editor!LeftWorkIsKept

LEMMA FirstDocuments == 0 \in Editor!Document /\ 1 \in Editor!Base
  BY BrowserAssumption DEF Editor!Document, Editor!Base, Editor!EditorAssumption

LEMMA ClosedIsState == Editor!Closed \in Editor!TabState
<1>1. <<>> \in Seq(Editor!Document)
  BY EmptySeq
<1> QED
  BY <1>1, FirstDocuments DEF Editor!Closed, Editor!TabState, Editor!Maybe

LEMMA EditorStart == ASSUME Editor!Init PROVE EditorInv
<1>1. Len(Editor!Closed.past) = 0 /\ Len(Editor!Closed.future) = 0
  BY EmptySeq DEF Editor!Closed
<1>2. <<0>> \in Seq(Editor!Document) /\ Len(<<0>>) = 1
  BY FirstDocuments
<1>3. Editor!TypeOK
  BY <1>1, <1>2, FirstDocuments, ClosedIsState, BrowserAssumption
  DEF Editor!Init, Editor!TypeOK, Editor!EditorAssumption, Editor!Maybe
<1>4. OfferWaits /\ HeardIsOpen /\ Editor!DraftFollowsScreen /\ Editor!LeftWorkIsKept
  BY DEF Editor!Init, Editor!Closed, OfferWaits, HeardIsOpen, Editor!DraftFollowsScreen,
    Editor!LeftWorkIsKept, Editor!MirrorActive
<1> QED
  BY <1>3, <1>4 DEF EditorInv

\* One undo step further: of as many as are kept, and of documents.
LEMMA OneStepFurther ==
    ASSUME NEW steps \in Seq(Editor!Document), Len(steps) <= UndoSteps,
           NEW d \in Editor!Document
    PROVE  /\ Editor!Kept(Append(steps, d)) \in Seq(Editor!Document)
           /\ Len(Editor!Kept(Append(steps, d))) <= UndoSteps
<1> DEFINE more == Append(steps, d)
<1>1. /\ more \in Seq(Editor!Document) /\ Len(more) = Len(steps) + 1 /\ more # <<>>
      /\ Len(steps) \in Nat
  BY AppendProperties, LenProperties
<1> HIDE DEF more
<1>2. Tail(more) \in Seq(Editor!Document) /\ Len(Tail(more)) = Len(more) - 1
  BY <1>1, HeadTailProperties
<1>3. UndoSteps \in Nat
  BY BrowserAssumption DEF Editor!EditorAssumption
<1>4. Editor!Kept(more) \in Seq(Editor!Document) /\ Len(Editor!Kept(more)) <= UndoSteps
  BY <1>1, <1>2, <1>3 DEF Editor!Kept
<1> QED
  BY <1>4 DEF more

\* One back.
LEMMA OneStepBack ==
    ASSUME NEW steps \in Seq(Editor!Document), Len(steps) <= UndoSteps, steps # <<>>
    PROVE  /\ Editor!Last(steps) \in Editor!Document
           /\ Editor!Front(steps) \in Seq(Editor!Document)
           /\ Len(Editor!Front(steps)) <= UndoSteps
<1>1. UndoSteps \in Nat
  BY BrowserAssumption DEF Editor!EditorAssumption
<1>2. Len(steps) \in Nat \ {0} /\ steps \in [1..Len(steps) -> Editor!Document]
  BY EmptySeq, LenProperties
<1>3. Editor!Last(steps) \in Editor!Document
  BY <1>2 DEF Editor!Last
<1>4. Editor!Front(steps) \in Seq(Editor!Document) /\ Len(Editor!Front(steps)) = Len(steps) - 1
  BY <1>2, SubSeqProperties DEF Editor!Front
<1> QED
  BY <1>1, <1>2, <1>3, <1>4

\* The page after an edit, or a draft that was restored.
LEMMA Mutated ==
    ASSUME NEW t \in Editor!TabState, Len(t.past) <= UndoSteps, NEW d \in Editor!Document,
           NEW j \in BOOLEAN
    PROVE  /\ Editor!mutate(t, d, j) \in Editor!TabState
           /\ Len(Editor!mutate(t, d, j).past) <= UndoSteps
           /\ Len(Editor!mutate(t, d, j).future) <= UndoSteps
           /\ Editor!mutate(t, d, j).mirror
           /\ Editor!mutate(t, d, j).page = t.page /\ Editor!mutate(t, d, j).offer = t.offer
<1>1. t.past \in Seq(Editor!Document) /\ t.doc \in Editor!Document
  BY DEF Editor!TabState
<1>2. /\ Editor!Kept(Append(t.past, t.doc)) \in Seq(Editor!Document)
      /\ Len(Editor!Kept(Append(t.past, t.doc))) <= UndoSteps
  BY <1>1, OneStepFurther
<1>3. <<>> \in Seq(Editor!Document) /\ Len(<<>>) = 0 /\ UndoSteps \in Nat
  BY EmptySeq, BrowserAssumption DEF Editor!EditorAssumption
<1> DEFINE steps == IF j THEN t.past ELSE Editor!Kept(Append(t.past, t.doc))
<1>4. steps \in Seq(Editor!Document) /\ Len(steps) <= UndoSteps
  BY <1>1, <1>2
<1>5. Editor!mutate(t, d, j) = [t EXCEPT !.doc = d, !.mirror = TRUE, !.future = <<>>, !.past = steps]
  BY DEF Editor!mutate
<1> DEFINE m == Editor!mutate(t, d, j)
<1> HIDE DEF steps
<1>6. /\ m.past = steps /\ m.future = <<>> /\ m.mirror = TRUE
      /\ m.page = t.page /\ m.offer = t.offer
  BY <1>5 DEF Editor!TabState
<1>7. m \in Editor!TabState
  BY <1>3, <1>4, <1>5 DEF Editor!TabState
<1> QED
  BY <1>3, <1>4, <1>6, <1>7

LEMMA Typed ==
    ASSUME Editor!TypeOK
    PROVE  /\ edits \in Nat /\ edits <= MaxEdits /\ MaxEdits \in Nat
           /\ Len(versions) \in Nat /\ Len(versions) >= 1 /\ Len(versions) <= MaxSaves
           /\ MaxSaves \in Nat
           /\ edits < MaxEdits => edits + 1 \in Editor!Document /\ edits + 1 \in 0..MaxEdits
           /\ Len(versions) < MaxSaves => Len(versions) + 1 \in Editor!Base
  BY BrowserAssumption DEF Editor!TypeOK, Editor!Base, Editor!Document,
    Editor!EditorAssumption

\* What leaves the page alone but for its document, its history and its mirror,
\* which has to run: an edit and a step of the history.
LEMMA Redrawn ==
    ASSUME EditorInv, Editor!CanChange,
           UNCHANGED <<draft, versions, puts, left, opens, faults>>,
           edits' \in 0..MaxEdits, tab' \in Editor!TabState,
           Len(tab'.past) <= UndoSteps, Len(tab'.future) <= UndoSteps,
           tab'.page = "open", tab'.mirror
    PROVE  EditorInv'
<1>1. Editor!TypeOK'
  BY DEF EditorInv, Editor!TypeOK
<1> QED
  BY <1>1 DEF EditorInv, OfferWaits, HeardIsOpen, Editor!DraftFollowsScreen,
    Editor!LeftWorkIsKept

LEMMA EditStep ==
    ASSUME EditorInv, NEW joins \in BOOLEAN, Editor!Edit(joins) PROVE EditorInv'
<1> DEFINE t == Editor!mutate(tab, edits + 1, joins)
<1>1. tab \in Editor!TabState /\ Len(tab.past) <= UndoSteps /\ tab.page = "open"
  BY DEF EditorInv, Editor!TypeOK, Editor!Edit, Editor!CanChange
<1>2. edits + 1 \in Editor!Document /\ edits + 1 \in 0..MaxEdits
  BY Typed DEF EditorInv, Editor!Edit
<1>3. /\ t \in Editor!TabState /\ Len(t.past) <= UndoSteps /\ Len(t.future) <= UndoSteps
      /\ t.mirror /\ t.page = "open"
  BY <1>1, <1>2, Mutated
<1>4. tab' = [t EXCEPT !.burst = TRUE]
  BY DEF Editor!Edit
<1> HIDE DEF t
<1>5. /\ tab' \in Editor!TabState /\ Len(tab'.past) <= UndoSteps
      /\ Len(tab'.future) <= UndoSteps
      /\ tab'.mirror /\ tab'.page = "open"
  BY <1>3, <1>4 DEF Editor!TabState
<1> QED
  BY <1>2, <1>5, Redrawn DEF Editor!Edit

LEMMA HistoryStep ==
    ASSUME EditorInv, Editor!undo \/ Editor!redo PROVE EditorInv'
<1>1. tab \in Editor!TabState /\ Len(tab.past) <= UndoSteps /\ Len(tab.future) <= UndoSteps
      /\ tab.page = "open" /\ Editor!CanChange
      /\ tab.doc \in Editor!Document /\ tab.past \in Seq(Editor!Document)
      /\ tab.future \in Seq(Editor!Document)
  BY DEF EditorInv, Editor!TypeOK, Editor!TabState, Editor!undo, Editor!redo,
    Editor!CanChange
<1>2. CASE Editor!undo
  <2>1. /\ Editor!Last(tab.past) \in Editor!Document
        /\ Editor!Front(tab.past) \in Seq(Editor!Document)
        /\ Len(Editor!Front(tab.past)) <= UndoSteps
    BY <1>1, <1>2, OneStepBack DEF Editor!undo
  <2>2. /\ Editor!Kept(Append(tab.future, tab.doc)) \in Seq(Editor!Document)
        /\ Len(Editor!Kept(Append(tab.future, tab.doc))) <= UndoSteps
    BY <1>1, OneStepFurther
  <2>3. tab' = [tab EXCEPT !.doc = Editor!Last(tab.past), !.past = Editor!Front(tab.past),
                           !.mirror = TRUE,
                           !.future = Editor!Kept(Append(tab.future, tab.doc))]
    BY <1>2 DEF Editor!undo
  <2>4. /\ tab' \in Editor!TabState /\ Len(tab'.past) <= UndoSteps
        /\ Len(tab'.future) <= UndoSteps
        /\ tab'.mirror /\ tab'.page = "open"
    BY <1>1, <2>1, <2>2, <2>3 DEF Editor!TabState
  <2> QED
    BY <1>1, <1>2, <2>4, Redrawn DEF Editor!undo, Editor!bounds, EditorInv, Editor!TypeOK
<1>3. CASE Editor!redo
  <2>1. /\ Editor!Last(tab.future) \in Editor!Document
        /\ Editor!Front(tab.future) \in Seq(Editor!Document)
        /\ Len(Editor!Front(tab.future)) <= UndoSteps
    BY <1>1, <1>3, OneStepBack DEF Editor!redo
  <2>2. /\ Editor!Kept(Append(tab.past, tab.doc)) \in Seq(Editor!Document)
        /\ Len(Editor!Kept(Append(tab.past, tab.doc))) <= UndoSteps
    BY <1>1, OneStepFurther
  <2>3. tab' = [tab EXCEPT !.doc = Editor!Last(tab.future), !.future = Editor!Front(tab.future),
                           !.mirror = TRUE,
                           !.past = Editor!Kept(Append(tab.past, tab.doc))]
    BY <1>3 DEF Editor!redo
  <2>4. /\ tab' \in Editor!TabState /\ Len(tab'.past) <= UndoSteps
        /\ Len(tab'.future) <= UndoSteps
        /\ tab'.mirror /\ tab'.page = "open"
    BY <1>1, <2>1, <2>2, <2>3 DEF Editor!TabState
  <2> QED
    BY <1>1, <1>3, <2>4, Redrawn DEF Editor!redo, Editor!bounds, EditorInv, Editor!TypeOK
<1> QED
  BY <1>2, <1>3

---------------------------------------------------------------------------
(* Saving.                                                                 *)

LEMMA UnheardArePuts ==
    ASSUME NEW ps \in SUBSET Editor!Put
    PROVE  Editor!Unheard(ps) \subseteq Editor!Put /\ \A p \in Editor!Unheard(ps) : ~p.heard
<1>1. ASSUME NEW q \in ps
      PROVE  [q EXCEPT !.heard = FALSE] \in Editor!Put /\ ~[q EXCEPT !.heard = FALSE].heard
  BY DEF Editor!Put
<1> QED
  BY <1>1 DEF Editor!Unheard

\* What keeps the page's document and its draft as they are.
LEMMA Undisturbed ==
    ASSUME EditorInv, NEW a \in {"stay", "leave"}, tab' = [tab EXCEPT !.after = a],
           UNCHANGED <<draft, versions, left, edits, opens>>, faults' \in 0..MaxFaults,
           puts' \subseteq Editor!Put, (\E p \in puts' : p.heard) => tab.page = "open"
    PROVE  EditorInv'
<1>1. /\ tab' \in Editor!TabState /\ tab'.page = tab.page /\ tab'.mirror = tab.mirror
      /\ tab'.offer = tab.offer /\ tab'.doc = tab.doc /\ tab'.saved = tab.saved
      /\ tab'.going = tab.going /\ tab'.past = tab.past /\ tab'.future = tab.future
  BY DEF EditorInv, Editor!TypeOK, Editor!TabState
<1>2. Editor!TypeOK'
  BY <1>1 DEF EditorInv, Editor!TypeOK
<1> QED
  BY <1>1, <1>2
  DEF EditorInv, OfferWaits, HeardIsOpen, Editor!DraftFollowsScreen, Editor!LeftWorkIsKept,
    Editor!MirrorActive, Editor!dirty

LEMMA SaveStep ==
    ASSUME EditorInv, NEW after \in {"stay", "leave"}, Editor!saveDocument(after)
    PROVE  EditorInv'
<1> DEFINE p == [doc |-> tab.doc, base |-> tab.base, heard |-> TRUE, stage |-> "sent", at |-> 1]
<1>1. p \in Editor!Put
  BY FirstDocuments DEF EditorInv, Editor!TypeOK, Editor!TabState, Editor!Put
<1>2. Editor!InFlight \subseteq Editor!Put /\ puts \subseteq Editor!Put
  BY DEF EditorInv, Editor!TypeOK, Editor!InFlight
<1>3. puts' = (puts \ Editor!InFlight) \cup Editor!Unheard(Editor!InFlight) \cup {p}
  BY DEF Editor!saveDocument
<1> HIDE DEF p
<1>4. puts' \subseteq Editor!Put
  BY <1>1, <1>2, <1>3, UnheardArePuts
<1>5. tab.page = "open" /\ faults' \in 0..MaxFaults
  BY DEF Editor!saveDocument, Editor!MaySave, Editor!CanChange, Editor!bounds, EditorInv,
    Editor!TypeOK
<1> QED
  BY <1>4, <1>5, Undisturbed DEF Editor!saveDocument, Editor!bounds

\* The server's two statements on a save.
LEMMA Advanced ==
    ASSUME EditorInv, NEW p \in puts, NEW stage \in {"sent", "checked"} \cup Editor!Final,
           NEW at \in Editor!Base, Editor!Advance(p, stage, at)
    PROVE  puts' \subseteq Editor!Put /\ ((\E q \in puts' : q.heard) => tab.page = "open")
<1> DEFINE q == [p EXCEPT !.stage = stage, !.at = at]
<1>1. p \in Editor!Put /\ puts \subseteq Editor!Put
  BY DEF EditorInv, Editor!TypeOK
<1>2. q \in Editor!Put /\ q.heard = p.heard
  BY <1>1 DEF Editor!Put
<1>3. puts' \subseteq puts \cup {q}
  BY DEF Editor!Advance
<1> HIDE DEF q
<1> QED
  BY <1>1, <1>2, <1>3 DEF EditorInv, HeardIsOpen

LEMMA Unmoved ==
    ASSUME EditorInv, UNCHANGED <<tab, draft, left, opens, faults>>,
           versions' \in Seq(Editor!Document), Len(versions') \in Editor!Base, edits' \in 0..MaxEdits,
           puts' \subseteq Editor!Put, (\E q \in puts' : q.heard) => tab.page = "open"
    PROVE  EditorInv'
<1>1. Editor!TypeOK'
  BY DEF EditorInv, Editor!TypeOK
<1> QED
  BY <1>1 DEF EditorInv, OfferWaits, HeardIsOpen, Editor!DraftFollowsScreen,
    Editor!LeftWorkIsKept,
    Editor!MirrorActive, Editor!dirty

LEMMA ServerStep ==
    ASSUME EditorInv,
           (\E p \in puts : Editor!Check(p) \/ Editor!Write(p)) \/ Editor!AnotherSaves
    PROVE  EditorInv'
<1>1. ASSUME NEW p \in puts, Editor!Check(p) PROVE EditorInv'
  <2>1. PICK s \in {"checked", "conflict", "refused"} : Editor!Advance(p, s, p.at)
    BY <1>1 DEF Editor!Check
  <2>2. s \in {"sent", "checked"} \cup Editor!Final /\ p.at \in Editor!Base
    BY DEF Editor!Final, EditorInv, Editor!TypeOK, Editor!Put
  <2>3. puts' \subseteq Editor!Put /\ ((\E q \in puts' : q.heard) => tab.page = "open")
    BY <2>1, <2>2, Advanced
  <2> QED
    BY <1>1, <2>3, Unmoved DEF Editor!Check, Editor!bounds, EditorInv, Editor!TypeOK
<1>2. ASSUME NEW p \in puts, Editor!Write(p) PROVE EditorInv'
  <2>1. "saved" \in {"sent", "checked"} \cup Editor!Final /\ Len(versions) + 1 \in Editor!Base
    BY <1>2, Typed DEF Editor!Final, EditorInv, Editor!Write
  <2>2. puts' \subseteq Editor!Put /\ ((\E q \in puts' : q.heard) => tab.page = "open")
    BY <1>2, <2>1, Advanced DEF Editor!Write
  <2>3. versions' \in Seq(Editor!Document) /\ Len(versions') = Len(versions) + 1
    BY <1>2, AppendProperties DEF Editor!Write, EditorInv, Editor!TypeOK, Editor!Put
  <2> QED
    BY <1>2, <2>1, <2>2, <2>3, Unmoved DEF Editor!Write, Editor!bounds, EditorInv,
      Editor!TypeOK
<1>3. CASE Editor!AnotherSaves
  <2>1. /\ edits + 1 \in Editor!Document /\ edits' \in 0..MaxEdits
        /\ Len(versions) + 1 \in Editor!Base
    BY <1>3, Typed DEF Editor!AnotherSaves, EditorInv
  <2>2. versions' \in Seq(Editor!Document) /\ Len(versions') = Len(versions) + 1
    BY <1>3, <2>1, AppendProperties DEF Editor!AnotherSaves, EditorInv, Editor!TypeOK
  <2> QED
    BY <1>3, <2>1, <2>2, Unmoved DEF Editor!AnotherSaves, EditorInv, Editor!TypeOK,
      HeardIsOpen
<1> QED
  BY <1>1, <1>2, <1>3

LEMMA LostStep ==
    ASSUME EditorInv, NEW p \in puts, Editor!AnswerLost(p) PROVE EditorInv'
<1>1. p \in Editor!Put /\ puts \subseteq Editor!Put
  BY DEF EditorInv, Editor!TypeOK
<1>2. Editor!Unheard({p}) \subseteq Editor!Put /\ \A q \in Editor!Unheard({p}) : ~q.heard
  BY <1>1, UnheardArePuts
<1>3. puts' = (puts \ {p}) \cup Editor!Unheard({p})
  BY DEF Editor!AnswerLost
<1>4. puts' \subseteq Editor!Put /\ ((\E q \in puts' : q.heard) => tab.page = "open")
  BY <1>1, <1>2, <1>3 DEF EditorInv, HeardIsOpen
<1>5. faults' \in 0..MaxFaults
  BY BrowserAssumption DEF Editor!AnswerLost, EditorInv, Editor!TypeOK,
    Editor!EditorAssumption
<1> QED
  BY <1>4, <1>5, Undisturbed DEF Editor!AnswerLost

LEMMA SaveAnsweredStep ==
    ASSUME EditorInv, NEW p \in puts, Editor!Answered(p) PROVE EditorInv'
<1> DEFINE t == Editor!Landed(tab, p)
<1>1. tab \in Editor!TabState /\ p \in Editor!Put /\ tab.page = "open"
  BY DEF EditorInv, Editor!TypeOK, HeardIsOpen, Editor!Answered
<1>2. /\ t \in Editor!TabState /\ t.page = "open" /\ t.doc = tab.doc /\ t.saved = p.doc
      /\ t.past = tab.past /\ t.future = tab.future /\ t.offer = tab.offer
      /\ t.going = tab.going
      /\ t.mirror = (tab.mirror \/ Editor!dirty(tab) # (tab.doc # p.doc))
  BY <1>1 DEF Editor!Landed, Editor!TabState, Editor!Put, Editor!dirty
<1> HIDE DEF t
<1>3. puts' \subseteq puts /\ puts' \subseteq Editor!Put
  BY DEF Editor!Answered, EditorInv, Editor!TypeOK
<1>4. CASE p.stage = "saved" /\ tab.after = "leave"
  <2>1. tab' = [t EXCEPT !.going = TRUE, !.mirror = FALSE] /\ draft' = <<>>
    BY <1>4 DEF Editor!Answered, Editor!Going, t
  <2>2. /\ tab' \in Editor!TabState /\ tab'.page = "open" /\ tab'.past = tab.past
        /\ tab'.future = tab.future /\ tab'.going
    BY <1>2, <2>1 DEF Editor!TabState
  <2>3. Editor!TypeOK'
    BY <1>3, <2>1, <2>2 DEF EditorInv, Editor!TypeOK, Editor!Answered, Editor!bounds,
      Editor!Maybe
  <2> QED
    BY <2>2, <2>3 DEF EditorInv, OfferWaits, HeardIsOpen, Editor!DraftFollowsScreen,
      Editor!LeftWorkIsKept,
      Editor!MirrorActive
<1>5. CASE p.stage = "saved" /\ tab.after # "leave"
  <2>1. tab' = t /\ draft' = draft
    BY <1>5 DEF Editor!Answered, t
  <2>2. Editor!TypeOK'
    BY <1>2, <1>3, <2>1 DEF EditorInv, Editor!TypeOK, Editor!Answered, Editor!bounds
  <2>3. Editor!DraftFollowsScreen'
    <3> SUFFICES ASSUME Editor!MirrorActive', ~tab'.mirror
                 PROVE  IF Editor!dirty(tab)' THEN draft' # <<>> /\ draft'[1] = tab'.doc
                        ELSE draft' = <<>>
      BY DEF Editor!DraftFollowsScreen
    <3>1. Editor!MirrorActive
      BY <1>1, <1>2, <2>1 DEF Editor!MirrorActive
    <3>2. ~tab.mirror
      BY <1>2, <2>1, Zenon
    <3>3. Editor!dirty(tab)' <=> tab.doc # p.doc
      BY <1>2, <2>1 DEF Editor!dirty
    <3>4. Editor!dirty(tab) <=> tab.doc # p.doc
      BY <1>2, <2>1, Zenon DEF Editor!dirty
    <3> QED
      BY <1>2, <2>1, <3>1, <3>2, <3>3, <3>4 DEF EditorInv, Editor!DraftFollowsScreen
  <2> QED
    BY <1>2, <2>1, <2>2, <2>3 DEF EditorInv, OfferWaits, HeardIsOpen, Editor!LeftWorkIsKept
<1>6. CASE p.stage # "saved"
  <2>1. tab' = [tab EXCEPT !.after = "stay"] /\ UNCHANGED <<draft, versions, left, edits, opens>>
        /\ faults' \in 0..MaxFaults
    BY <1>6 DEF Editor!Answered, Editor!bounds, EditorInv, Editor!TypeOK
  <2> QED
    BY <1>1, <1>3, <2>1, Undisturbed
<1> QED
  BY <1>4, <1>5, <1>6

---------------------------------------------------------------------------
(* Opening, the draft and leaving.                                         *)

LEMMA OpenStep == ASSUME EditorInv, Editor!Open PROVE EditorInv'
<1> DEFINE now == Editor!Last(versions)
           pageNext == IF draft = <<>> THEN "open" ELSE "offer"
<1>1. now \in Editor!Document
  BY Typed DEF EditorInv, Editor!TypeOK, Editor!Last
<1>2. tab' = [Editor!Closed EXCEPT !.page = pageNext,
                            !.doc = now, !.saved = now, !.base = Len(versions),
                            !.offer = draft, !.mirror = TRUE]
  BY DEF Editor!Open
<1>3. /\ draft \in Editor!Maybe(Editor!Document) /\ Len(versions) \in Editor!Base
      /\ opens' \in 0..MaxOpens
  BY BrowserAssumption DEF EditorInv, Editor!TypeOK, Editor!Open, Editor!Draft,
    Editor!EditorAssumption
<1> HIDE DEF now
<1>4. tab' \in Editor!TabState
  BY <1>1, <1>2, <1>3, ClosedIsState DEF Editor!TabState, Editor!Draft
<1>5. /\ tab'.page = pageNext /\ tab'.offer = draft /\ tab'.mirror
      /\ tab'.past = <<>> /\ tab'.future = <<>>
  BY <1>2 DEF Editor!Closed
<1>6. Len(tab'.past) <= UndoSteps /\ Len(tab'.future) <= UndoSteps
  BY <1>5, EmptySeq, BrowserAssumption DEF Editor!EditorAssumption
<1>7. Editor!TypeOK'
  BY <1>3, <1>4, <1>6 DEF EditorInv, Editor!TypeOK, Editor!Open
<1>8. HeardIsOpen'
  BY DEF EditorInv, HeardIsOpen, Editor!Open
<1> QED
  BY <1>5, <1>7, <1>8 DEF EditorInv, Editor!Open, OfferWaits, Editor!DraftFollowsScreen,
    Editor!LeftWorkIsKept

LEMMA OfferStep ==
    ASSUME EditorInv, NEW restore \in BOOLEAN, Editor!AnswerOffer(restore) PROVE EditorInv'
<1> DEFINE t == [tab EXCEPT !.page = "open", !.offer = <<>>]
<1>1. tab \in Editor!TabState /\ tab.mirror /\ tab.offer # <<>>
  BY DEF EditorInv, Editor!TypeOK, OfferWaits, Editor!AnswerOffer
<1>2. /\ t \in Editor!TabState /\ t.page = "open" /\ t.mirror
      /\ t.past = tab.past /\ t.future = tab.future
  BY <1>1 DEF Editor!TabState, Editor!Maybe
<1>3. Len(t.past) <= UndoSteps /\ Len(t.future) <= UndoSteps
  BY <1>2 DEF EditorInv, Editor!TypeOK
<1>4. tab.offer[1] \in Editor!Document
  BY <1>1 DEF Editor!TabState, Editor!Maybe, Editor!Draft
<1>5. /\ tab' = IF restore THEN Editor!mutate(t, tab.offer[1], FALSE) ELSE t
      /\ draft' = IF restore THEN draft ELSE <<>>
      /\ left' = <<>> /\ UNCHANGED <<versions, puts, Editor!bounds>>
  BY DEF Editor!AnswerOffer
<1> HIDE DEF t
<1>6. /\ tab' \in Editor!TabState /\ tab'.page = "open" /\ tab'.mirror
      /\ Len(tab'.past) <= UndoSteps /\ Len(tab'.future) <= UndoSteps
  <2>1. CASE restore
    BY <1>2, <1>3, <1>4, <1>5, <2>1, Mutated
  <2>2. CASE ~restore
    BY <1>2, <1>3, <1>5, <2>2
  <2> QED
    BY <2>1, <2>2
<1>7. Editor!TypeOK'
  BY <1>5, <1>6 DEF EditorInv, Editor!TypeOK, Editor!bounds, Editor!Maybe
<1> QED
  BY <1>5, <1>6, <1>7
  DEF EditorInv, OfferWaits, HeardIsOpen, Editor!DraftFollowsScreen, Editor!LeftWorkIsKept

LEMMA MirroredIsDraft ==
    ASSUME Editor!TypeOK PROVE Editor!Mirrored \in Editor!Maybe(Editor!Draft)
  BY DEF Editor!TypeOK, Editor!Mirrored, Editor!Maybe, Editor!Draft, Editor!TabState

LEMMA DraftStep == ASSUME EditorInv, Editor!Mirror \/ Editor!Discard PROVE EditorInv'
<1>1. tab \in Editor!TabState /\ tab.page = "open"
  BY DEF EditorInv, Editor!TypeOK, Editor!Mirror, Editor!MirrorActive, Editor!Discard,
    Editor!CanChange
<1>2. CASE Editor!Mirror
  <2>1. tab' = [tab EXCEPT !.mirror = FALSE] /\ draft' = Editor!Mirrored
    BY <1>2 DEF Editor!Mirror
  <2>2. /\ tab' \in Editor!TabState /\ tab'.page = "open" /\ tab'.past = tab.past
        /\ tab'.future = tab.future /\ tab'.doc = tab.doc /\ tab'.saved = tab.saved
    BY <1>1, <2>1 DEF Editor!TabState
  <2>3. Editor!TypeOK'
    BY <1>2, <2>1, <2>2, MirroredIsDraft DEF EditorInv, Editor!TypeOK, Editor!Mirror,
      Editor!bounds
  <2> QED
    BY <1>2, <2>1, <2>2, <2>3
    DEF Editor!Mirror, EditorInv, OfferWaits, HeardIsOpen, Editor!DraftFollowsScreen,
      Editor!LeftWorkIsKept,
      Editor!Mirrored, Editor!dirty
<1>3. CASE Editor!Discard
  <2>1. tab' = [tab EXCEPT !.going = TRUE, !.mirror = FALSE] /\ draft' = <<>>
    BY <1>3 DEF Editor!Discard, Editor!Going
  <2>2. /\ tab' \in Editor!TabState /\ tab'.page = "open" /\ tab'.past = tab.past
        /\ tab'.future = tab.future /\ tab'.going
    BY <1>1, <2>1 DEF Editor!TabState
  <2>3. Editor!TypeOK'
    BY <1>3, <2>1, <2>2 DEF EditorInv, Editor!TypeOK, Editor!Discard, Editor!bounds,
      Editor!Maybe
  <2> QED
    BY <1>3, <2>2, <2>3
    DEF Editor!Discard, EditorInv, OfferWaits, HeardIsOpen, Editor!DraftFollowsScreen,
      Editor!LeftWorkIsKept,
      Editor!MirrorActive
<1> QED
  BY <1>2, <1>3

LEMMA GoneStep == ASSUME EditorInv, Editor!Leave \/ Editor!Crash PROVE EditorInv'
<1>1. /\ tab' = Editor!Closed
      /\ puts' = (puts \ Editor!InFlight) \cup Editor!Unheard(Editor!InFlight)
  BY DEF Editor!Leave, Editor!Crash, Editor!Gone
<1>2. Editor!InFlight \subseteq Editor!Put /\ puts \subseteq Editor!Put
  BY DEF EditorInv, Editor!TypeOK, Editor!InFlight
<1>3. puts' \subseteq Editor!Put /\ ~\E p \in puts' : p.heard
  BY <1>1, <1>2, UnheardArePuts DEF Editor!InFlight
<1>4. draft' \in Editor!Maybe(Editor!Draft)
  BY MirroredIsDraft DEF Editor!Leave, Editor!Crash, Editor!Flushed, EditorInv,
    Editor!TypeOK
<1>5. left' \in Editor!Maybe(Editor!Document)
  BY DEF Editor!Leave, Editor!Crash, EditorInv, Editor!TypeOK, Editor!TabState, Editor!Maybe
<1>6. faults' \in 0..MaxFaults
  BY BrowserAssumption DEF Editor!Leave, Editor!Crash, Editor!bounds, EditorInv,
    Editor!TypeOK, Editor!EditorAssumption
<1>7. Editor!Closed.past = <<>> /\ Editor!Closed.future = <<>> /\ Editor!Closed.page = "closed"
  BY DEF Editor!Closed
<1>8. Len(tab'.past) <= UndoSteps /\ Len(tab'.future) <= UndoSteps
  BY <1>1, <1>7, EmptySeq, BrowserAssumption DEF Editor!EditorAssumption
<1>9. Editor!TypeOK'
  BY <1>1, <1>3, <1>4, <1>5, <1>6, <1>8, ClosedIsState
  DEF Editor!Leave, Editor!Crash, EditorInv, Editor!TypeOK, Editor!bounds
<1>10. OfferWaits' /\ HeardIsOpen' /\ Editor!DraftFollowsScreen'
  BY <1>1, <1>3, <1>7 DEF OfferWaits, HeardIsOpen, Editor!DraftFollowsScreen,
    Editor!MirrorActive
<1>11. Editor!LeftWorkIsKept'
  <2>1. CASE tab.page = "offer"
    BY <2>1 DEF Editor!Leave, Editor!Crash, Editor!Flushed, Editor!MirrorActive, EditorInv,
      Editor!LeftWorkIsKept
  <2>2. CASE tab.page # "offer"
    <3>1. tab.page = "open"
      BY <2>2 DEF Editor!Leave, Editor!Crash, EditorInv, Editor!TypeOK, Editor!TabState
    <3>2. ASSUME left' # <<>>
          PROVE  draft' # <<>> /\ draft'[1] = left'[1]
      <4>1. left' = <<tab.doc>> /\ Editor!dirty(tab) /\ ~tab.going /\ (Editor!Crash => ~tab.mirror)
        BY <2>2, <3>2 DEF Editor!Leave, Editor!Crash
      <4>2. CASE Editor!Leave
        BY <3>1, <4>1, <4>2 DEF Editor!Leave, Editor!Flushed, Editor!MirrorActive,
          Editor!Mirrored
      <4>3. CASE Editor!Crash
        <5>1. Editor!MirrorActive /\ ~tab.mirror /\ draft' = draft
          BY <3>1, <4>1, <4>3 DEF Editor!Crash, Editor!MirrorActive
        <5>2. draft # <<>> /\ draft[1] = tab.doc
          BY <4>1, <5>1 DEF EditorInv, Editor!DraftFollowsScreen
        <5> QED
          BY <4>1, <5>1, <5>2
      <4> QED
        BY <4>2, <4>3
    <3> QED
      BY <3>2 DEF Editor!LeftWorkIsKept
  <2> QED
    BY <2>1, <2>2
<1> QED
  BY <1>9, <1>10, <1>11 DEF EditorInv

LEMMA EditorStep == ASSUME EditorInv, Editor!Next PROVE EditorInv'
  BY EditStep, HistoryStep, SaveStep, ServerStep, LostStep, SaveAnsweredStep, OpenStep,
    OfferStep,
     DraftStep, GoneStep
  DEF Editor!Next

LEMMA EditorStays == ASSUME EditorInv, UNCHANGED Editor!vars PROVE EditorInv'
<1>1. Editor!TypeOK'
  BY DEF Editor!vars, Editor!bounds, EditorInv, Editor!TypeOK
<1> QED
  BY <1>1 DEF Editor!vars, Editor!bounds, EditorInv, OfferWaits, HeardIsOpen,
    Editor!DraftFollowsScreen,
    Editor!LeftWorkIsKept, Editor!MirrorActive, Editor!dirty

---------------------------------------------------------------------------
(***************************************************************************)
(* A reaction.  What is asked for is what the last request says, as long   *)
(* as nothing newer waits; the requests are served as they were sent       *)
(* unless one overtakes another, and an answer that is taken says nothing  *)
(* of the others.                                                          *)
(***************************************************************************)
\* The requests the server has not seen.
Sent(rs) == {k \in DOMAIN rs : rs[k].status = "sent"}

\* The answers that fire the entry there is when they are back.
Refires(rs) == {k \in DOMAIN rs : rs[k].waiter = "refire"}

\* The state an entry holds is the one asked for, and drawn.
ShownIsAsked == Reaction!isPending => shown = lastTap /\ entry[1].body = lastTap

\* Unless one overtook another, the requests were served as they were sent.
InOrder(rs) == \A i, k \in DOMAIN rs : i < k /\ i \in Sent(rs) => k \in Sent(rs)
ServedInOrder == ~overtaken => InOrder(requests)

\* With nothing left to send, the last request on its way, or else the row,
\* is what was asked for.
Stands(rs) ==
    IF Sent(rs) # {} THEN Len(rs) \in Sent(rs) /\ rs[Len(rs)].body = lastTap
    ELSE held = lastTap \/ failed

LastIsAsked ==
    ~overtaken /\ (~Reaction!isPending \/ (~entry[1].timer /\ ~entry[1].dirty)) => Stands(requests)

\* One request at most is the entry's, and the entry has it in flight.
OneInFlight ==
    \A i \in DOMAIN requests : requests[i].waiter = "entry" =>
        /\ Reaction!isPending /\ entry[1].inFlight
        /\ \A k \in DOMAIN requests : requests[k].waiter = "entry" => k = i

\* A hidden page leaves one timer running that no entry remembers, at most.
LooseAreHides == loose + Cardinality(Refires(requests)) <= hides

ReactionInv ==
    Reaction!TypeOK /\ ShownIsAsked /\ ServedInOrder /\ LastIsAsked /\ OneInFlight /\ LooseAreHides

LEMMA RefiresCount ==
    ASSUME NEW rs \in Seq(Reaction!Request)
    PROVE  IsFiniteSet(Refires(rs)) /\ Cardinality(Refires(rs)) \in Nat
<1>1. IsFiniteSet(1..Len(rs)) /\ DOMAIN rs = 1..Len(rs)
  BY LenProperties, FS_Interval
<1>2. Refires(rs) \in SUBSET (1..Len(rs))
  BY <1>1 DEF Refires
<1> QED
  BY <1>1, <1>2, FS_Subset, FS_CardinalityType

LEMMA ReactionStart == ASSUME Reaction!Init PROVE ReactionInv
<1>1. <<>> \in Seq(Reaction!Request) /\ DOMAIN requests = {}
  BY EmptySeq DEF Reaction!Init
<1>2. Refires(requests) = {} /\ Sent(requests) = {}
  BY <1>1 DEF Refires, Sent
<1>3. Cardinality(Refires(requests)) = 0
  BY <1>2, FS_EmptySet
<1>4. 0 \in 0..MaxTaps /\ 0 \in 0..MaxFailures /\ 0 \in 0..MaxHides /\ 0 \in 0..MaxPaints
  BY BrowserAssumption DEF Reaction!ReactionAssumption
<1>5. Reaction!TypeOK
  BY <1>1, <1>4 DEF Reaction!Init, Reaction!TypeOK, Reaction!Maybe
<1>6. LooseAreHides
  BY <1>3 DEF Reaction!Init, LooseAreHides
<1>7. ShownIsAsked /\ ServedInOrder /\ LastIsAsked /\ OneInFlight
  BY <1>1, <1>2 DEF Reaction!Init, ShownIsAsked, ServedInOrder, InOrder, LastIsAsked,
    Stands, OneInFlight,
    Reaction!isPending
<1> QED
  BY <1>5, <1>6, <1>7 DEF ReactionInv

---------------------------------------------------------------------------
(* The requests: one more that is sent, and one less that is answered.     *)

LEMMA OneMore ==
    ASSUME NEW rs \in Seq(Reaction!Request), NEW q \in Reaction!Request
    PROVE  /\ Append(rs, q) \in Seq(Reaction!Request)
           /\ DOMAIN Append(rs, q) = DOMAIN rs \cup {Len(rs) + 1}
           /\ Len(rs) \in Nat /\ Len(Append(rs, q)) = Len(rs) + 1 /\ DOMAIN rs = 1..Len(rs)
           /\ \A i \in DOMAIN rs : Append(rs, q)[i] = rs[i]
           /\ Append(rs, q)[Len(rs) + 1] = q
  BY AppendProperties, LenProperties

LEMMA OneMoreSent ==
    ASSUME NEW rs \in Seq(Reaction!Request), NEW q \in Reaction!Request, q.status = "sent",
           q.waiter # "refire"
    PROVE  /\ InOrder(rs) => InOrder(Append(rs, q))
           /\ q.body = lastTap => Stands(Append(rs, q))
           /\ Refires(Append(rs, q)) = Refires(rs)
<1> DEFINE more == Append(rs, q)
<1>1. /\ DOMAIN more = DOMAIN rs \cup {Len(rs) + 1} /\ DOMAIN rs = 1..Len(rs)
      /\ Len(rs) \in Nat /\ Len(more) = Len(rs) + 1
      /\ \A i \in DOMAIN rs : more[i] = rs[i]
      /\ more[Len(rs) + 1] = q
  BY OneMore
<1> HIDE DEF more
<1>2. Sent(more) = Sent(rs) \cup {Len(rs) + 1}
  BY <1>1 DEF Sent
<1>3. Refires(more) = Refires(rs)
  BY <1>1 DEF Refires
<1>4. InOrder(rs) => InOrder(more)
  BY <1>1, <1>2 DEF InOrder, Sent
<1>5. q.body = lastTap => Stands(more)
  BY <1>1, <1>2 DEF Stands
<1> QED
  BY <1>3, <1>4, <1>5 DEF more

LEMMA OneLess ==
    ASSUME NEW rs \in Seq(Reaction!Request), NEW k \in DOMAIN rs
    PROVE  /\ Reaction!Without(rs, k) \in Seq(Reaction!Request)
           /\ Len(rs) \in Nat \ {0} /\ k \in 1..Len(rs) /\ DOMAIN rs = 1..Len(rs)
           /\ Len(Reaction!Without(rs, k)) = Len(rs) - 1
           /\ DOMAIN Reaction!Without(rs, k) = 1..(Len(rs) - 1)
           /\ \A i \in 1..(Len(rs) - 1) : Reaction!Without(rs, k)[i] = rs[IF i < k THEN i ELSE i + 1]
<1> DEFINE n == Len(rs)
           first == SubSeq(rs, 1, k - 1)
           rest == SubSeq(rs, k + 1, n)
<1>1. /\ n \in Nat \ {0} /\ k \in 1..n /\ DOMAIN rs = 1..n
      /\ \A i \in 1..n : rs[i] \in Reaction!Request
  BY LenProperties
<1>2. \A i \in 1..(k - 1) : rs[i] \in Reaction!Request
  BY <1>1
<1>3. \A i \in (k + 1)..n : rs[i] \in Reaction!Request
  BY <1>1
<1>4. /\ first \in Seq(Reaction!Request) /\ Len(first) = k - 1
      /\ \A i \in 1..(k - 1) : first[i] = rs[i]
  BY <1>1, <1>2, SubSeqProperties
<1>5. /\ rest \in Seq(Reaction!Request) /\ Len(rest) = n - k
      /\ \A i \in 1..(n - k) : rest[i] = rs[k + i]
  BY <1>1, <1>3, SubSeqProperties
<1> HIDE DEF first, rest
<1>6. /\ first \o rest \in Seq(Reaction!Request) /\ Len(first \o rest) = n - 1
      /\ \A i \in 1..(n - 1) :
            (first \o rest)[i] = IF i <= k - 1 THEN first[i] ELSE rest[i - (k - 1)]
  <2>1. /\ first \o rest \in Seq(Reaction!Request)
        /\ Len(first \o rest) = Len(first) + Len(rest)
        /\ \A i \in 1..(Len(first) + Len(rest)) : (first \o rest)[i] =
              IF i <= Len(first) THEN first[i] ELSE rest[i - Len(first)]
    BY <1>4, <1>5, ConcatProperties
  <2>2. Len(first) + Len(rest) = n - 1
    BY <1>1, <1>4, <1>5
  <2> QED
    BY <1>4, <2>1, <2>2
<1>7. \A i \in 1..(n - 1) : (first \o rest)[i] = rs[IF i < k THEN i ELSE i + 1]
  <2> TAKE i \in 1..(n - 1)
  <2>1. CASE i < k
    BY <1>1, <1>4, <1>6, <2>1
  <2>2. CASE ~(i < k)
    <3>1. i - (k - 1) \in 1..(n - k) /\ k + (i - (k - 1)) = i + 1 /\ ~(i <= k - 1)
      BY <1>1, <2>2
    <3> QED
      BY <1>5, <1>6, <2>2, <3>1
  <2> QED
    BY <2>1, <2>2
<1>8. Reaction!Without(rs, k) = first \o rest
  BY DEF Reaction!Without, first, rest
<1> QED
  BY <1>1, <1>6, <1>7, <1>8, LenProperties

LEMMA OneLessAnswered ==
    ASSUME NEW rs \in Seq(Reaction!Request), NEW k \in DOMAIN rs, rs[k].status # "sent"
    PROVE  /\ InOrder(rs) => InOrder(Reaction!Without(rs, k))
           /\ Stands(rs) => Stands(Reaction!Without(rs, k))
<1> DEFINE less == Reaction!Without(rs, k)
           n == Len(rs)
<1>1. /\ n \in Nat \ {0} /\ k \in 1..n /\ DOMAIN rs = 1..n
      /\ Len(less) = n - 1 /\ DOMAIN less = 1..(n - 1)
      /\ \A i \in 1..(n - 1) : less[i] = rs[IF i < k THEN i ELSE i + 1]
  BY OneLess
<1> HIDE DEF less, n
<1>2. \A i \in 1..(n - 1) : i \in Sent(less) <=> (IF i < k THEN i ELSE i + 1) \in Sent(rs)
  BY <1>1 DEF Sent
<1>3. InOrder(rs) => InOrder(less)
  <2> SUFFICES ASSUME InOrder(rs), NEW i \in 1..(n - 1), NEW j \in 1..(n - 1), i < j,
                      i \in Sent(less)
               PROVE  j \in Sent(less)
    BY <1>1 DEF InOrder
  <2> DEFINE i0 == IF i < k THEN i ELSE i + 1
             j0 == IF j < k THEN j ELSE j + 1
  <2>1. i0 \in 1..n /\ j0 \in 1..n /\ i0 < j0
    BY <1>1
  <2>2. i0 \in Sent(rs)
    BY <1>2
  <2>3. j0 \in Sent(rs)
    BY <1>1, <2>1, <2>2 DEF InOrder
  <2> QED
    BY <1>2, <2>3
<1>4. ASSUME Stands(rs) PROVE Stands(less)
  <2>1. CASE Sent(rs) = {}
    <3>1. Sent(less) = {}
      BY <1>1, <1>2, <2>1 DEF Sent
    <3> QED
      BY <1>4, <2>1, <3>1 DEF Stands
  <2>2. CASE Sent(rs) # {}
    <3>1. n \in Sent(rs) /\ rs[n].body = lastTap
      BY <1>4, <2>2 DEF Stands, n
    <3>2. k < n
      BY <1>1, <3>1 DEF Sent
    <3>3. n - 1 \in 1..(n - 1) /\ ~(n - 1 < k) /\ n - 1 + 1 = n
      BY <1>1, <3>2
    <3>4. n - 1 \in Sent(less) /\ less[n - 1].body = lastTap
      BY <1>1, <1>2, <3>1, <3>3
    <3> QED
      BY <1>1, <3>4 DEF Stands
  <2> QED
    BY <2>1, <2>2
<1> QED
  BY <1>3, <1>4 DEF less

\* The answer that is taken is no longer counted.
LEMMA OneLessRefire ==
    ASSUME NEW rs \in Seq(Reaction!Request), NEW k \in DOMAIN rs
    PROVE  Cardinality(Refires(Reaction!Without(rs, k))) <=
               IF rs[k].waiter = "refire" THEN Cardinality(Refires(rs)) - 1
               ELSE Cardinality(Refires(rs))
<1> DEFINE less == Reaction!Without(rs, k)
           n == Len(rs)
           f == [i \in Refires(less) |-> IF i < k THEN i ELSE i + 1]
           T == Refires(rs) \ {k}
<1>1. /\ n \in Nat \ {0} /\ k \in 1..n /\ DOMAIN rs = 1..n
      /\ DOMAIN less = 1..(n - 1)
      /\ \A i \in 1..(n - 1) : less[i] = rs[IF i < k THEN i ELSE i + 1]
  BY OneLess
<1>2. IsFiniteSet(Refires(rs)) /\ Cardinality(Refires(rs)) \in Nat
  BY RefiresCount
<1>3. /\ IsFiniteSet(T)
      /\ Cardinality(T) = IF k \in Refires(rs) THEN Cardinality(Refires(rs)) - 1
                          ELSE Cardinality(Refires(rs))
  BY <1>2, FS_RemoveElement
<1> HIDE DEF less, n
<1>4. \A i \in Refires(less) : i \in 1..(n - 1) /\ (IF i < k THEN i ELSE i + 1) \in T
  BY <1>1 DEF Refires
<1>5. \A i, j \in Refires(less) : f[i] = f[j] => i = j
  BY <1>1, <1>4
<1>6. f \in [Refires(less) -> T]
  BY <1>4
<1> HIDE DEF f, T
<1>7. f \in Injection(Refires(less), T)
  BY <1>5, <1>6 DEF Injection, IsInjective
<1>8. Cardinality(Refires(less)) <= Cardinality(T)
  BY <1>3, <1>7, FS_Injection
<1> QED
  BY <1>3, <1>8 DEF less, Refires

---------------------------------------------------------------------------
(* The steps.                                                              *)

LEMMA Pending ==
    ASSUME Reaction!TypeOK, Reaction!isPending
    PROVE  entry = <<entry[1]>> /\ entry[1] \in Reaction!Entry
  BY DEF Reaction!TypeOK, Reaction!isPending, Reaction!Maybe

LEMMA MaybeOf ==
    ASSUME NEW S, NEW x \in S
    PROVE  <<x>> \in Reaction!Maybe(S) /\ <<x>> # <<>> /\ <<x>>[1] = x
  BY DEF Reaction!Maybe

\* fire sends what the entry holds, or leaves it to the write in flight.
LEMMA FireStep ==
    ASSUME ReactionInv, Reaction!isPending, Reaction!Fire(entry[1]),
           UNCHANGED <<held, shown, lastTap, failed, overtaken, hides>>,
           loose' \in 0..MaxHides, loose' <= loose
    PROVE  /\ entry' \in Reaction!Maybe(Reaction!Entry) /\ requests' \in Seq(Reaction!Request)
           /\ ShownIsAsked' /\ ServedInOrder' /\ LastIsAsked' /\ OneInFlight'
           /\ LooseAreHides'
<1> DEFINE e == entry[1]
<1>1. e \in Reaction!Entry /\ requests \in Seq(Reaction!Request)
  BY Pending DEF ReactionInv, Reaction!TypeOK
<1>2. shown = lastTap /\ e.body = lastTap
  BY DEF ReactionInv, ShownIsAsked
<1>3. Cardinality(Refires(requests)) \in Nat /\ loose \in Nat /\ hides \in Nat
  BY <1>1, RefiresCount, BrowserAssumption DEF ReactionInv, Reaction!TypeOK,
    Reaction!ReactionAssumption
<1>4. CASE e.inFlight
  <2> DEFINE next == [e EXCEPT !.timer = FALSE, !.dirty = TRUE]
  <2>1. /\ next \in Reaction!Entry /\ next.body = e.body /\ next.dirty /\ next.inFlight
    BY <1>1, <1>4 DEF Reaction!Entry
  <2>2. entry' = <<next>> /\ requests' = requests
    BY <1>1, <1>4 DEF Reaction!Fire, Reaction!MarkDirty, Reaction!Entry
  <2> HIDE DEF next
  <2>3. entry' \in Reaction!Maybe(Reaction!Entry) /\ entry'[1] = next /\ Reaction!isPending'
    BY <2>1, <2>2, MaybeOf DEF Reaction!isPending
  <2>4. LooseAreHides'
    BY <1>3, <2>2 DEF ReactionInv, LooseAreHides
  <2> QED
    BY <1>1, <1>2, <2>1, <2>2, <2>3, <2>4
    DEF ReactionInv, ShownIsAsked, ServedInOrder, LastIsAsked, OneInFlight
<1>5. CASE ~e.inFlight
  <2> DEFINE next == [e EXCEPT !.timer = FALSE, !.inFlight = TRUE, !.dirty = FALSE]
             q == [body |-> e.body, waiter |-> "entry", status |-> "sent"]
  <2>1. /\ next \in Reaction!Entry /\ next.body = e.body /\ ~next.dirty /\ ~next.timer
        /\ next.inFlight
    BY <1>1 DEF Reaction!Entry
  <2>2. entry' = <<next>> /\ requests' = Append(requests, q)
    BY <1>1, <1>5 DEF Reaction!Fire, Reaction!Entry
  <2>3. q \in Reaction!Request /\ q.status = "sent" /\ q.waiter = "entry" /\ q.body = lastTap
    BY <1>1, <1>2 DEF Reaction!Entry, Reaction!Request, Reaction!Waiter
  <2> HIDE DEF next, q
  <2>4. entry' \in Reaction!Maybe(Reaction!Entry) /\ entry'[1] = next /\ Reaction!isPending'
    BY <2>1, <2>2, MaybeOf DEF Reaction!isPending
  <2>5. /\ requests' \in Seq(Reaction!Request) /\ Stands(requests')
        /\ Refires(requests') = Refires(requests)
        /\ InOrder(requests) => InOrder(requests')
    BY <1>1, <2>2, <2>3, OneMore, OneMoreSent
  <2>6. \A i \in DOMAIN requests : requests[i].waiter # "entry"
    BY <1>5 DEF ReactionInv, OneInFlight
  <2>7. OneInFlight'
    <3>1. /\ DOMAIN requests' = DOMAIN requests \cup {Len(requests) + 1}
          /\ \A i \in DOMAIN requests : requests'[i] = requests[i]
      BY <1>1, <2>2, <2>3, OneMore
    <3> QED
      BY <2>1, <2>4, <2>6, <3>1 DEF OneInFlight
  <2>8. LooseAreHides'
    BY <1>3, <2>5 DEF ReactionInv, LooseAreHides
  <2>9. Stands(requests)'
    BY <2>5 DEF Stands
  <2> QED
    BY <1>1, <1>2, <2>1, <2>2, <2>4, <2>5, <2>7, <2>8, <2>9
    DEF ReactionInv, ShownIsAsked, ServedInOrder, LastIsAsked
<1> QED
  BY <1>4, <1>5

LEMMA TimersStep ==
    ASSUME ReactionInv, Reaction!TimerFires \/ Reaction!LooseTimerFires
    PROVE  ReactionInv'
<1>1. /\ UNCHANGED <<held, shown, baseline, paint, lastTap, failed, overtaken, hidden,
                     Reaction!bounds>>
      /\ UNCHANGED <<held, shown, lastTap, failed, overtaken, hides>>
  BY DEF Reaction!TimerFires, Reaction!LooseTimerFires, Reaction!bounds
<1>2. loose' \in 0..MaxHides /\ loose' <= loose
  BY BrowserAssumption DEF Reaction!TimerFires, Reaction!LooseTimerFires, ReactionInv,
    Reaction!TypeOK, Reaction!ReactionAssumption
<1>3. CASE Reaction!isPending
  <2>1. Reaction!Fire(entry[1])
    BY <1>3 DEF Reaction!TimerFires, Reaction!LooseTimerFires
  <2>2. /\ entry' \in Reaction!Maybe(Reaction!Entry) /\ requests' \in Seq(Reaction!Request)
        /\ ShownIsAsked' /\ ServedInOrder' /\ LastIsAsked' /\ OneInFlight' /\ LooseAreHides'
    BY <1>1, <1>2, <1>3, <2>1, FireStep
  <2> QED
    BY <1>1, <1>2, <2>2 DEF ReactionInv, Reaction!TypeOK, Reaction!bounds
<1>4. CASE ~Reaction!isPending
  <2>1. UNCHANGED <<entry, requests>>
    BY <1>4 DEF Reaction!TimerFires, Reaction!LooseTimerFires
  <2>2. LooseAreHides'
    <3>1. Cardinality(Refires(requests)) \in Nat /\ loose \in Nat /\ hides \in Nat
      BY RefiresCount, BrowserAssumption DEF ReactionInv, Reaction!TypeOK,
        Reaction!ReactionAssumption
    <3> QED
      BY <1>1, <1>2, <2>1, <3>1 DEF ReactionInv, LooseAreHides
  <2> QED
    BY <1>1, <1>2, <2>1, <2>2 DEF ReactionInv, Reaction!TypeOK, Reaction!bounds,
      ShownIsAsked, ServedInOrder,
      LastIsAsked, Stands, OneInFlight, Reaction!isPending
<1> QED
  BY <1>3, <1>4

\* The queue and the row as they are: the page draws, or is hidden or back.
LEMMA QueueAlone ==
    ASSUME ReactionInv,
           UNCHANGED <<held, entry, loose, requests, lastTap, failed, overtaken, hides>>,
           Reaction!isPending => shown' = shown
    PROVE  ShownIsAsked' /\ ServedInOrder' /\ LastIsAsked' /\ OneInFlight' /\ LooseAreHides'
  BY DEF ReactionInv, ShownIsAsked, ServedInOrder, LastIsAsked, Stands, OneInFlight,
     LooseAreHides, Reaction!isPending

LEMMA TapStep ==
    ASSUME ReactionInv, NEW s \in Reaction!State, Reaction!Tap(s)
    PROVE  ReactionInv'
<1> DEFINE next == IF Reaction!isPending THEN [entry[1] EXCEPT !.body = s, !.timer = TRUE]
                   ELSE [body |-> s, timer |-> TRUE, inFlight |-> FALSE, dirty |-> FALSE]
<1>1. /\ next \in Reaction!Entry /\ next.body = s /\ next.timer
      /\ next.inFlight = (Reaction!isPending /\ entry[1].inFlight)
  BY Pending DEF ReactionInv, Reaction!Entry
<1>2. entry' = <<next>>
  BY DEF Reaction!Tap
<1> HIDE DEF next
<1>3. entry' \in Reaction!Maybe(Reaction!Entry) /\ entry'[1] = next /\ Reaction!isPending'
  BY <1>1, <1>2, MaybeOf DEF Reaction!isPending
<1>4. baseline' \in Reaction!Maybe(Reaction!State)
  BY MaybeOf DEF Reaction!Tap, ReactionInv, Reaction!TypeOK
<1>5. taps' \in 0..MaxTaps
  BY BrowserAssumption DEF Reaction!Tap, ReactionInv, Reaction!TypeOK,
    Reaction!ReactionAssumption
<1>6. Reaction!TypeOK'
  BY <1>3, <1>4, <1>5 DEF Reaction!Tap, ReactionInv, Reaction!TypeOK
<1>7. OneInFlight'
  BY <1>1, <1>3 DEF Reaction!Tap, ReactionInv, OneInFlight
<1>8. ShownIsAsked' /\ ServedInOrder' /\ LastIsAsked' /\ LooseAreHides'
  BY <1>1, <1>3 DEF Reaction!Tap, ReactionInv, ShownIsAsked, ServedInOrder, LastIsAsked,
    LooseAreHides
<1> QED
  BY <1>6, <1>7, <1>8 DEF ReactionInv

LEMMA ServeStep ==
    ASSUME ReactionInv, NEW k \in DOMAIN requests, NEW o \in {"ok", "lost", "refused"},
           Reaction!Serve(k, o)
    PROVE  ReactionInv'
<1> DEFINE stage == IF o = "ok" THEN "ok" ELSE "failed"
           n == Len(requests)
<1>1. requests \in Seq(Reaction!Request) /\ n \in Nat /\ DOMAIN requests = 1..n /\ k \in 1..n
  BY LenProperties DEF ReactionInv, Reaction!TypeOK
<1>2. requests' = [requests EXCEPT ![k].status = stage] /\ requests[k].status = "sent"
  BY DEF Reaction!Serve
<1>3. \A i \in 1..n : requests[i] \in Reaction!Request
  BY <1>1
<1>4. /\ DOMAIN requests' = 1..n
      /\ \A i \in 1..n : /\ requests'[i] \in Reaction!Request
                         /\ requests'[i].body = requests[i].body
                         /\ requests'[i].waiter = requests[i].waiter
                         /\ requests'[i].status = IF i = k THEN stage ELSE requests[i].status
  BY <1>1, <1>2, <1>3 DEF Reaction!Request
<1>5. requests' \in Seq(Reaction!Request) /\ Len(requests') = n
  <2>1. requests' \in [1..n -> Reaction!Request]
    BY <1>2, <1>1, <1>3, <1>4
  <2> QED
    BY <1>1, <2>1, LenProperties
<1> HIDE DEF n
<1>6. Sent(requests') = Sent(requests) \ {k}
  BY <1>1, <1>4 DEF Sent
<1>7. Refires(requests') = Refires(requests)
  BY <1>1, <1>4 DEF Refires
<1>8. /\ held' = IF o = "refused" THEN held ELSE requests[k].body
      /\ failed' = (o # "ok")
      /\ UNCHANGED <<shown, baseline, entry, loose, paint, lastTap, hidden, taps, hides, paints>>
  BY DEF Reaction!Serve, Reaction!queue
<1>9. Reaction!TypeOK'
  <2>1. failures' \in 0..MaxFailures
    BY BrowserAssumption DEF Reaction!Serve, ReactionInv, Reaction!TypeOK,
      Reaction!ReactionAssumption
  <2>2. held' \in Reaction!State /\ failed' \in BOOLEAN /\ overtaken' \in BOOLEAN
    BY <1>1, <1>3, <1>8 DEF Reaction!Serve, ReactionInv, Reaction!TypeOK, Reaction!Request
  <2> QED
    BY <1>5, <1>8, <2>1, <2>2 DEF ReactionInv, Reaction!TypeOK
<1>10. ASSUME ~overtaken'
       PROVE  ~overtaken /\ \A i \in Sent(requests) : i >= k
  <2>1. ~overtaken /\ ~\E i \in 1..k - 1 : requests[i].status = "sent"
    BY <1>10, Zenon DEF Reaction!Serve
  <2> QED
    BY <1>1, <2>1 DEF Sent
<1>11. ServedInOrder'
  <2> SUFFICES ASSUME ~overtaken', NEW i \in 1..n, NEW j \in 1..n, i < j, i \in Sent(requests')
               PROVE  j \in Sent(requests')
    BY <1>4 DEF ServedInOrder, InOrder, Sent
  <2>1. InOrder(requests) /\ i \in Sent(requests) /\ i > k
    BY <1>1, <1>6, <1>10 DEF ReactionInv, ServedInOrder
  <2>2. j \in Sent(requests) /\ j # k
    BY <1>1, <2>1 DEF InOrder
  <2> QED
    BY <1>6, <2>2
<1>12. LastIsAsked'
  <2> SUFFICES ASSUME ~overtaken', ~Reaction!isPending \/ (~entry[1].timer /\ ~entry[1].dirty)
               PROVE  Stands(requests)'
    BY <1>8 DEF LastIsAsked, Reaction!isPending
  <2>1. Stands(requests) /\ k \in Sent(requests)
    BY <1>2, <1>10 DEF ReactionInv, LastIsAsked, Sent
  <2>2. n \in Sent(requests) /\ requests[n].body = lastTap
    BY <2>1 DEF Stands, n
  <2>3. CASE k = n
    <3>1. \A i \in Sent(requests) : i = k
      BY <1>1, <1>10, <2>3 DEF Sent
    <3>2. Sent(requests') = {}
      BY <1>6, <3>1
    <3>3. held' = lastTap' \/ failed'
      BY <1>8, <2>2, <2>3
    <3> QED
      BY <3>2, <3>3 DEF Stands
  <2>4. CASE k # n
    <3>1. n \in Sent(requests') /\ requests'[n].body = lastTap'
      BY <1>1, <1>4, <1>6, <1>8, <2>2, <2>4
    <3> QED
      BY <1>5, <3>1 DEF Stands
  <2> QED
    BY <2>3, <2>4
<1>13. OneInFlight'
  BY <1>1, <1>4, <1>8 DEF ReactionInv, OneInFlight, Reaction!isPending
<1>14. ShownIsAsked' /\ LooseAreHides'
  BY <1>7, <1>8 DEF ReactionInv, ShownIsAsked, LooseAreHides, Reaction!isPending
<1> QED
  BY <1>9, <1>11, <1>12, <1>13, <1>14 DEF ReactionInv

\* What an answer that is taken leaves of the requests.
LEMMA Rest ==
    ASSUME ReactionInv, NEW k \in DOMAIN requests, requests[k].status # "sent"
    PROVE  /\ Reaction!Without(requests, k) \in Seq(Reaction!Request)
           /\ InOrder(requests) => InOrder(Reaction!Without(requests, k))
           /\ Stands(requests) => Stands(Reaction!Without(requests, k))
           /\ \A i \in DOMAIN Reaction!Without(requests, k) :
                \E j \in DOMAIN requests \ {k} : /\ Reaction!Without(requests, k)[i] = requests[j]
                                                 /\ j = IF i < k THEN i ELSE i + 1
           /\ Cardinality(Refires(Reaction!Without(requests, k))) <=
                IF requests[k].waiter = "refire" THEN Cardinality(Refires(requests)) - 1
                ELSE Cardinality(Refires(requests))
           /\ Cardinality(Refires(requests)) \in Nat
           /\ Cardinality(Refires(Reaction!Without(requests, k))) \in Nat
<1>1. requests \in Seq(Reaction!Request)
  BY DEF ReactionInv, Reaction!TypeOK
<1>2. /\ Reaction!Without(requests, k) \in Seq(Reaction!Request)
      /\ Len(requests) \in Nat \ {0} /\ k \in 1..Len(requests)
      /\ DOMAIN requests = 1..Len(requests)
      /\ DOMAIN Reaction!Without(requests, k) = 1..(Len(requests) - 1)
      /\ \A i \in 1..(Len(requests) - 1) :
            Reaction!Without(requests, k)[i] = requests[IF i < k THEN i ELSE i + 1]
  BY <1>1, OneLess
<1>3. ASSUME NEW i \in DOMAIN Reaction!Without(requests, k)
      PROVE  \E j \in DOMAIN requests \ {k} : /\ Reaction!Without(requests, k)[i] = requests[j]
                                              /\ j = IF i < k THEN i ELSE i + 1
  <2> DEFINE j == IF i < k THEN i ELSE i + 1
  <2>1. j \in DOMAIN requests \ {k} /\ Reaction!Without(requests, k)[i] = requests[j]
    BY <1>2
  <2> QED
    BY <2>1
<1> QED
  BY <1>1, <1>2, <1>3, OneLessAnswered, OneLessRefire, RefiresCount

\* Without the entry's own request no other is the entry's.
LEMMA NoneInFlight ==
    ASSUME ReactionInv, NEW k \in DOMAIN requests, requests[k].status # "sent",
           requests[k].waiter = "entry"
    PROVE  \A i \in DOMAIN Reaction!Without(requests, k) :
              Reaction!Without(requests, k)[i].waiter # "entry"
  BY Rest DEF ReactionInv, OneInFlight

LEMMA AnsweredStep ==
    ASSUME ReactionInv, NEW k \in DOMAIN requests, Reaction!Answered(k) PROVE ReactionInv'
<1> DEFINE e == [entry[1] EXCEPT !.inFlight = FALSE]
           rest == Reaction!Without(requests, k)
<1>1. requests[k].status # "sent" /\ requests[k].waiter = "entry"
  BY DEF Reaction!Answered
<1>2. Reaction!isPending
  BY <1>1 DEF ReactionInv, OneInFlight
<1>3. /\ e \in Reaction!Entry /\ e.body = entry[1].body /\ e.timer = entry[1].timer
      /\ e.dirty = entry[1].dirty /\ entry[1] \in Reaction!Entry
  BY <1>2, Pending DEF ReactionInv, Reaction!Entry
<1>4. shown = lastTap /\ e.body = lastTap
  BY <1>2, <1>3 DEF ReactionInv, ShownIsAsked
<1>5. /\ rest \in Seq(Reaction!Request)
      /\ InOrder(requests) => InOrder(rest)
      /\ Stands(requests) => Stands(rest)
      /\ Cardinality(Refires(rest)) <= Cardinality(Refires(requests))
      /\ Cardinality(Refires(requests)) \in Nat /\ Cardinality(Refires(rest)) \in Nat
      /\ \A i \in DOMAIN rest : rest[i].waiter # "entry"
  BY <1>1, Rest, NoneInFlight
<1>6. UNCHANGED <<held, loose, paint, lastTap, failed, overtaken, hidden,
                  taps, failures, hides, paints>>
  BY DEF Reaction!Answered, Reaction!bounds
<1>7. \/ /\ e.timer
         /\ entry' = <<e>> /\ requests' = rest /\ UNCHANGED <<shown, baseline>>
      \/ /\ ~e.timer /\ e.dirty
         /\ entry' = <<[e EXCEPT !.inFlight = TRUE, !.dirty = FALSE]>>
         /\ requests' = Append(rest, [body |-> e.body, waiter |-> "entry", status |-> "sent"])
         /\ UNCHANGED <<shown, baseline>>
      \/ /\ ~e.timer /\ ~e.dirty
         /\ entry' = <<>> /\ requests' = rest
         /\ Reaction!Settle(requests[k].status = "ok")
  BY DEF Reaction!Answered, Reaction!Back
<1> HIDE DEF e, rest
<1>8. loose \in Nat /\ hides \in Nat
  BY BrowserAssumption DEF ReactionInv, Reaction!TypeOK, Reaction!ReactionAssumption
<1>9. CASE e.timer /\ entry' = <<e>> /\ requests' = rest /\ UNCHANGED <<shown, baseline>>
  <2>1. entry' \in Reaction!Maybe(Reaction!Entry) /\ entry'[1] = e /\ Reaction!isPending'
    BY <1>3, <1>9, MaybeOf DEF Reaction!isPending
  <2>2. Reaction!TypeOK'
    BY <1>5, <1>6, <1>9, <2>1 DEF ReactionInv, Reaction!TypeOK
  <2>3. OneInFlight'
    BY <1>5, <1>9 DEF OneInFlight
  <2>4. LooseAreHides'
    BY <1>5, <1>6, <1>8, <1>9 DEF ReactionInv, LooseAreHides
  <2>5. ShownIsAsked' /\ ServedInOrder' /\ LastIsAsked'
    BY <1>4, <1>5, <1>6, <1>9, <2>1 DEF ReactionInv, ShownIsAsked, ServedInOrder,
      LastIsAsked
  <2> QED
    BY <2>2, <2>3, <2>4, <2>5 DEF ReactionInv
<1>10. CASE /\ ~e.timer /\ e.dirty
            /\ entry' = <<[e EXCEPT !.inFlight = TRUE, !.dirty = FALSE]>>
            /\ requests' = Append(rest, [body |-> e.body, waiter |-> "entry", status |-> "sent"])
            /\ UNCHANGED <<shown, baseline>>
  <2> DEFINE next == [e EXCEPT !.inFlight = TRUE, !.dirty = FALSE]
             q == [body |-> e.body, waiter |-> "entry", status |-> "sent"]
  <2>1. next \in Reaction!Entry /\ next.body = e.body /\ next.inFlight
    BY <1>3 DEF Reaction!Entry
  <2>2. q \in Reaction!Request /\ q.status = "sent" /\ q.waiter = "entry" /\ q.body = lastTap
    BY <1>3, <1>4 DEF Reaction!Request, Reaction!Waiter, Reaction!Entry
  <2>3. entry' = <<next>> /\ requests' = Append(rest, q)
    BY <1>10
  <2> HIDE DEF next, q
  <2>4. entry' \in Reaction!Maybe(Reaction!Entry) /\ entry'[1] = next /\ Reaction!isPending'
    BY <2>1, <2>3, MaybeOf DEF Reaction!isPending
  <2>5. /\ requests' \in Seq(Reaction!Request) /\ Stands(requests')
        /\ Refires(requests') = Refires(rest)
        /\ InOrder(rest) => InOrder(requests')
        /\ DOMAIN requests' = DOMAIN rest \cup {Len(rest) + 1}
        /\ \A i \in DOMAIN rest : requests'[i] = rest[i]
    BY <1>5, <2>2, <2>3, OneMore, OneMoreSent
  <2>6. Reaction!TypeOK'
    BY <1>6, <1>10, <2>4, <2>5 DEF ReactionInv, Reaction!TypeOK
  <2>7. OneInFlight'
    BY <1>5, <2>1, <2>4, <2>5 DEF OneInFlight
  <2>8. LooseAreHides'
    BY <1>5, <1>6, <1>8, <2>5 DEF ReactionInv, LooseAreHides
  <2>9. Stands(requests)'
    BY <1>6, <2>5 DEF Stands
  <2>10. ShownIsAsked' /\ ServedInOrder' /\ LastIsAsked'
    BY <1>4, <1>5, <1>6, <1>10, <2>1, <2>4, <2>5, <2>9
    DEF ReactionInv, ShownIsAsked, ServedInOrder, LastIsAsked
  <2> QED
    BY <2>6, <2>7, <2>8, <2>10 DEF ReactionInv
<1>11. CASE ~e.timer /\ ~e.dirty /\ entry' = <<>> /\ requests' = rest
            /\ Reaction!Settle(requests[k].status = "ok")
  <2>1. shown' \in Reaction!State /\ baseline' \in Reaction!Maybe(Reaction!State)
    BY <1>11 DEF Reaction!Settle, ReactionInv, Reaction!TypeOK, Reaction!Maybe
  <2>2. Reaction!TypeOK'
    BY <1>5, <1>6, <1>11, <2>1 DEF ReactionInv, Reaction!TypeOK, Reaction!Maybe
  <2>3. OneInFlight'
    BY <1>5, <1>11 DEF OneInFlight
  <2>4. LooseAreHides'
    BY <1>5, <1>6, <1>8, <1>11 DEF ReactionInv, LooseAreHides
  <2>5. ServedInOrder'
    BY <1>5, <1>6, <1>11 DEF ReactionInv, ServedInOrder
  <2>6. ~overtaken => Stands(rest)
    BY <1>2, <1>3, <1>5, <1>11 DEF ReactionInv, LastIsAsked
  <2>7. ShownIsAsked' /\ LastIsAsked'
    BY <1>6, <1>11, <2>6 DEF ShownIsAsked, LastIsAsked, Stands, Reaction!isPending
  <2> QED
    BY <2>2, <2>3, <2>4, <2>5, <2>7 DEF ReactionInv
<1> QED
  BY <1>7, <1>9, <1>10, <1>11

LEMMA Within ==
    ASSUME NEW l \in Nat, NEW a \in Nat, NEW h \in Nat, NEW m \in Nat, l + a <= h, h <= m
    PROVE  l \in 0..m
  OBVIOUS

\* A hidden page's write is answered: it fires the entry there is now.
LEMMA LateStep ==
    ASSUME ReactionInv, NEW k \in DOMAIN requests, Reaction!AnsweredLate(k) PROVE ReactionInv'
<1> DEFINE e == entry[1]
           rest == Reaction!Without(requests, k)
           before == Cardinality(Refires(requests))
           after == Cardinality(Refires(rest))
           fires == requests[k].waiter = "refire" /\ Reaction!isPending
<1>1. requests[k].status # "sent" /\ requests[k].waiter # "entry"
  BY DEF Reaction!AnsweredLate
<1>2. UNCHANGED <<held, shown, baseline, paint, lastTap, failed, overtaken, hidden,
                  taps, failures, hides, paints>>
  BY DEF Reaction!AnsweredLate, Reaction!bounds
<1>3. /\ rest \in Seq(Reaction!Request)
      /\ InOrder(requests) => InOrder(rest)
      /\ Stands(requests) => Stands(rest)
      /\ after <= IF requests[k].waiter = "refire" THEN before - 1 ELSE before
      /\ before \in Nat /\ after \in Nat
  BY <1>1, Rest
<1>4. \A i \in DOMAIN rest : \E j \in DOMAIN requests \ {k} : /\ rest[i] = requests[j]
                                                              /\ j = IF i < k THEN i ELSE i + 1
  BY <1>1, Rest
<1>5. /\ loose \in Nat /\ hides \in Nat /\ hides <= MaxHides /\ MaxHides \in Nat
      /\ loose + before <= hides
  BY BrowserAssumption DEF ReactionInv, Reaction!TypeOK, Reaction!ReactionAssumption,
    LooseAreHides
<1>6. fires =>
        /\ loose' = IF e.timer THEN loose + 1 ELSE loose
        /\ entry' = <<IF e.inFlight THEN [e EXCEPT !.timer = FALSE, !.dirty = TRUE]
                      ELSE [e EXCEPT !.timer = FALSE, !.inFlight = TRUE]>>
        /\ requests' = IF e.inFlight THEN rest
                       ELSE Append(rest, [body |-> e.body, waiter |-> "entry",
                                          status |-> "sent"])
  BY DEF Reaction!AnsweredLate
<1>7. ~fires => requests' = rest /\ UNCHANGED <<entry, loose>>
  BY DEF Reaction!AnsweredLate, Reaction!queue
<1>8. /\ requests \in Seq(Reaction!Request) /\ DOMAIN requests = 1..Len(requests)
      /\ Len(requests) \in Nat
  BY LenProperties DEF ReactionInv, Reaction!TypeOK
<1>9. DOMAIN rest = 1..Len(rest) /\ Len(rest) \in Nat
  BY <1>3, LenProperties
<1> HIDE DEF rest, before, after
<1>10. CASE ~fires
  <2>1. loose' + after <= hides
    BY <1>3, <1>5, <1>7, <1>10
  <2>2. LooseAreHides'
    BY <1>2, <1>7, <1>10, <2>1 DEF LooseAreHides, after
  <2>3. Reaction!TypeOK'
    BY <1>2, <1>3, <1>7, <1>10 DEF ReactionInv, Reaction!TypeOK
  <2>4. OneInFlight'
    <3> SUFFICES ASSUME NEW i \in DOMAIN rest, rest[i].waiter = "entry"
                 PROVE  /\ Reaction!isPending /\ entry[1].inFlight
                        /\ \A l \in DOMAIN rest : rest[l].waiter = "entry" => l = i
      BY <1>7, <1>10 DEF OneInFlight, Reaction!isPending
    <3>1. Reaction!isPending /\ entry[1].inFlight
      BY <1>4 DEF ReactionInv, OneInFlight
    <3>2. ASSUME NEW l \in DOMAIN rest, rest[l].waiter = "entry" PROVE l = i
      <4>1. PICK a \in DOMAIN requests \ {k} : rest[i] = requests[a] /\ a = IF i < k THEN i ELSE i + 1
        BY <1>4
      <4>2. PICK b \in DOMAIN requests \ {k} : rest[l] = requests[b] /\ b = IF l < k THEN l ELSE l + 1
        BY <1>4
      <4>3. a = b
        BY <3>2, <4>1, <4>2 DEF ReactionInv, OneInFlight
      <4> QED
        BY <1>8, <1>9, <4>1, <4>2, <4>3
    <3> QED
      BY <3>1, <3>2
  <2>5. Stands(requests) => Stands(requests)'
    BY <1>2, <1>3, <1>7, <1>10 DEF Stands
  <2>6. ShownIsAsked' /\ ServedInOrder' /\ LastIsAsked'
    BY <1>2, <1>3, <1>7, <1>10, <2>5
    DEF ReactionInv, ShownIsAsked, ServedInOrder, LastIsAsked, Reaction!isPending
  <2> QED
    BY <2>2, <2>3, <2>4, <2>6 DEF ReactionInv
<1>11. CASE fires
  <2>1. e \in Reaction!Entry /\ shown = lastTap /\ e.body = lastTap
    BY <1>11, Pending DEF ReactionInv, ShownIsAsked
  <2>2. loose' \in Nat /\ loose' + after <= hides
    BY <1>3, <1>5, <1>6, <1>11
  <2>3. loose' \in 0..MaxHides
    BY <1>3, <1>5, <2>2, Within
  <2>4. CASE e.inFlight
    <3> DEFINE next == [e EXCEPT !.timer = FALSE, !.dirty = TRUE]
    <3>1. next \in Reaction!Entry /\ next.body = e.body /\ next.dirty /\ next.inFlight
      BY <2>1, <2>4 DEF Reaction!Entry
    <3>2. entry' = <<next>> /\ requests' = rest
      BY <1>6, <1>11, <2>4
    <3> HIDE DEF next
    <3>3. entry' \in Reaction!Maybe(Reaction!Entry) /\ entry'[1] = next /\ Reaction!isPending'
      BY <3>1, <3>2, MaybeOf DEF Reaction!isPending
    <3>4. Reaction!TypeOK'
      BY <1>2, <1>3, <2>3, <3>2, <3>3 DEF ReactionInv, Reaction!TypeOK
    <3>5. \A i, l \in DOMAIN rest : rest[i].waiter = "entry" /\ rest[l].waiter = "entry" => l = i
      <4> SUFFICES ASSUME NEW i \in DOMAIN rest, NEW l \in DOMAIN rest,
                          rest[i].waiter = "entry", rest[l].waiter = "entry"
                   PROVE  l = i
        OBVIOUS
      <4>1. PICK a \in DOMAIN requests \ {k} : rest[i] = requests[a] /\ a = IF i < k THEN i ELSE i + 1
        BY <1>4
      <4>2. PICK b \in DOMAIN requests \ {k} : rest[l] = requests[b] /\ b = IF l < k THEN l ELSE l + 1
        BY <1>4
      <4>3. a = b
        BY <4>1, <4>2 DEF ReactionInv, OneInFlight
      <4> QED
        BY <1>8, <1>9, <4>1, <4>2, <4>3
    <3>6. OneInFlight'
      BY <3>1, <3>2, <3>3, <3>5 DEF OneInFlight
    <3>7. LooseAreHides'
      BY <1>2, <2>2, <3>2 DEF LooseAreHides, after
    <3>8. ShownIsAsked' /\ ServedInOrder' /\ LastIsAsked'
      BY <1>2, <1>3, <2>1, <3>1, <3>2, <3>3 DEF ReactionInv, ShownIsAsked, ServedInOrder,
        LastIsAsked
    <3> QED
      BY <3>4, <3>6, <3>7, <3>8 DEF ReactionInv
  <2>5. CASE ~e.inFlight
    <3> DEFINE next == [e EXCEPT !.timer = FALSE, !.inFlight = TRUE]
               q == [body |-> e.body, waiter |-> "entry", status |-> "sent"]
    <3>1. next \in Reaction!Entry /\ next.body = e.body /\ next.inFlight
      BY <2>1 DEF Reaction!Entry
    <3>2. q \in Reaction!Request /\ q.status = "sent" /\ q.waiter = "entry" /\ q.body = lastTap
      BY <2>1 DEF Reaction!Request, Reaction!Waiter, Reaction!Entry
    <3>3. entry' = <<next>> /\ requests' = Append(rest, q)
      BY <1>6, <1>11, <2>5
    <3> HIDE DEF next, q
    <3>4. entry' \in Reaction!Maybe(Reaction!Entry) /\ entry'[1] = next /\ Reaction!isPending'
      BY <3>1, <3>3, MaybeOf DEF Reaction!isPending
    <3>5. /\ requests' \in Seq(Reaction!Request) /\ Stands(requests')
          /\ Refires(requests') = Refires(rest)
          /\ InOrder(rest) => InOrder(requests')
          /\ DOMAIN requests' = DOMAIN rest \cup {Len(rest) + 1}
          /\ \A i \in DOMAIN rest : requests'[i] = rest[i]
      BY <1>3, <3>2, <3>3, OneMore, OneMoreSent
    <3>6. \A i \in DOMAIN rest : rest[i].waiter # "entry"
      BY <1>4, <2>5 DEF ReactionInv, OneInFlight
    <3>7. Reaction!TypeOK'
      BY <1>2, <2>3, <3>4, <3>5 DEF ReactionInv, Reaction!TypeOK
    <3>8. OneInFlight'
      BY <3>1, <3>4, <3>5, <3>6 DEF OneInFlight
    <3>9. LooseAreHides'
      BY <1>2, <2>2, <3>5 DEF LooseAreHides, after
    <3>10. Stands(requests)'
      BY <1>2, <3>5 DEF Stands
    <3>11. ShownIsAsked' /\ ServedInOrder' /\ LastIsAsked'
      BY <1>2, <1>3, <2>1, <3>1, <3>4, <3>5, <3>10
      DEF ReactionInv, ShownIsAsked, ServedInOrder, LastIsAsked
    <3> QED
      BY <3>7, <3>8, <3>9, <3>11 DEF ReactionInv
  <2> QED
    BY <2>4, <2>5
<1> QED
  BY <1>10, <1>11

LEMMA HideStep == ASSUME ReactionInv, Reaction!Hide PROVE ReactionInv'
<1> DEFINE waits == Reaction!isPending /\ (entry[1].timer \/ entry[1].dirty)
           who == IF entry[1].timer THEN "nobody" ELSE "refire"
           n == Len(requests)
           handed == [k \in DOMAIN requests |->
                         IF requests[k].waiter = "entry"
                         THEN [requests[k] EXCEPT !.waiter = who] ELSE requests[k]]
           q == [body |-> entry[1].body, waiter |-> "nobody", status |-> "sent"]
<1>1. /\ UNCHANGED <<held, shown, baseline, loose, paint, lastTap, failed, overtaken,
                     taps, failures, paints>>
      /\ hidden' = TRUE /\ hides < MaxHides /\ hides' = hides + 1
  BY DEF Reaction!Hide
<1>2. requests \in Seq(Reaction!Request) /\ n \in Nat /\ DOMAIN requests = 1..n
  BY LenProperties DEF ReactionInv, Reaction!TypeOK
<1>3. IsFiniteSet(Refires(requests)) /\ Cardinality(Refires(requests)) \in Nat
  BY <1>2, RefiresCount
<1>4. /\ loose \in Nat /\ hides \in Nat /\ hides' \in 0..MaxHides
      /\ loose + Cardinality(Refires(requests)) <= hides
  BY <1>1, BrowserAssumption DEF ReactionInv, Reaction!TypeOK, Reaction!ReactionAssumption,
    LooseAreHides
<1>5. waits => entry' = <<>> /\ requests' = Append(handed, q)
  BY DEF Reaction!Hide
<1>6. ~waits => UNCHANGED <<entry, requests>>
  BY DEF Reaction!Hide
<1>7. CASE ~waits
  <2>1. LooseAreHides'
    BY <1>1, <1>3, <1>4, <1>6, <1>7 DEF LooseAreHides
  <2>2. Reaction!TypeOK'
    BY <1>1, <1>4, <1>6, <1>7 DEF ReactionInv, Reaction!TypeOK
  <2> QED
    BY <1>1, <1>6, <1>7, <2>1, <2>2
    DEF ReactionInv, ShownIsAsked, ServedInOrder, LastIsAsked, Stands, OneInFlight,
      Reaction!isPending
<1>8. CASE waits
  <2>1. entry[1] \in Reaction!Entry /\ entry[1].body = lastTap
    BY <1>8, Pending DEF ReactionInv, ShownIsAsked
  <2>2. q \in Reaction!Request /\ q.status = "sent" /\ q.waiter = "nobody" /\ q.body = lastTap
    BY <2>1 DEF Reaction!Request, Reaction!Waiter, Reaction!Entry
  <2>3. \A k \in 1..n : requests[k] \in Reaction!Request
    BY <1>2
  <2>4. /\ DOMAIN handed = 1..n
        /\ \A k \in 1..n : /\ handed[k] \in Reaction!Request
                           /\ handed[k].status = requests[k].status
                           /\ handed[k].waiter =
                                IF requests[k].waiter = "entry" THEN who ELSE requests[k].waiter
    BY <1>2, <2>3 DEF Reaction!Request, Reaction!Waiter
  <2>5. handed \in Seq(Reaction!Request) /\ Len(handed) = n
    <3>1. handed \in [1..n -> Reaction!Request]
      BY <1>2, <2>4
    <3> QED
      BY <1>2, <3>1, LenProperties
  <2>6. entry' = <<>> /\ requests' = Append(handed, q)
    BY <1>5, <1>8
  <2> HIDE DEF handed, q, n
  <2>7. Sent(handed) = Sent(requests)
    BY <1>2, <2>4 DEF Sent
  <2>8. InOrder(requests) => InOrder(handed)
    BY <1>2, <2>4, <2>7 DEF InOrder
  <2>9. /\ requests' \in Seq(Reaction!Request) /\ Stands(requests')
        /\ Refires(requests') = Refires(handed)
        /\ InOrder(handed) => InOrder(requests')
        /\ DOMAIN requests' = DOMAIN handed \cup {Len(handed) + 1}
        /\ \A i \in DOMAIN handed : requests'[i] = handed[i]
        /\ requests'[Len(handed) + 1] = q
    BY <2>2, <2>5, <2>6, OneMore, OneMoreSent
  <2>10. Cardinality(Refires(handed)) <= Cardinality(Refires(requests)) + 1
    <3>1. \E x : Refires(handed) \subseteq Refires(requests) \cup {x}
      <4>1. CASE \E x \in 1..n : requests[x].waiter = "entry"
        <5>1. PICK x \in 1..n : requests[x].waiter = "entry"
          BY <4>1
        <5>2. \A k \in 1..n : requests[k].waiter = "entry" => k = x
          BY <1>2, <5>1 DEF ReactionInv, OneInFlight
        <5>3. Refires(handed) \subseteq Refires(requests) \cup {x}
          BY <1>2, <2>4, <5>2 DEF Refires
        <5> QED
          BY <5>3
      <4>2. CASE ~\E x \in 1..n : requests[x].waiter = "entry"
        <5>1. Refires(handed) \subseteq Refires(requests) \cup {0}
          BY <1>2, <2>4, <4>2 DEF Refires
        <5> QED
          BY <5>1
      <4> QED
        BY <4>1, <4>2
    <3>2. PICK x : Refires(handed) \subseteq Refires(requests) \cup {x}
      BY <3>1
    <3> DEFINE R == Refires(requests)
               H == Refires(handed)
    <3>3. IsFiniteSet(R) /\ H \in SUBSET (R \cup {x}) /\ Cardinality(R) \in Nat
      BY <1>3, <3>2
    <3> HIDE DEF R, H
    <3>4. IsFiniteSet(R \cup {x}) /\ Cardinality(R \cup {x}) <= Cardinality(R) + 1
          /\ Cardinality(R \cup {x}) \in Nat
      BY <3>3, FS_AddElement, FS_CardinalityType
    <3>5. Cardinality(H) <= Cardinality(R \cup {x}) /\ Cardinality(H) \in Nat
      BY <3>3, <3>4, FS_Subset, FS_CardinalityType
    <3>6. Cardinality(H) <= Cardinality(R) + 1
      BY <3>3, <3>4, <3>5
    <3> QED
      BY <3>6 DEF R, H
  <2>11. Cardinality(Refires(handed)) \in Nat
    BY <2>5, RefiresCount
  <2>12. LooseAreHides'
    BY <1>1, <1>3, <1>4, <2>9, <2>10, <2>11 DEF LooseAreHides
  <2>13. OneInFlight'
    BY <2>2, <2>4, <2>5, <2>9 DEF OneInFlight
  <2>14. Stands(requests)'
    BY <1>1, <2>9 DEF Stands
  <2>15. ShownIsAsked' /\ ServedInOrder' /\ LastIsAsked'
    BY <1>1, <2>6, <2>8, <2>9, <2>14
    DEF ReactionInv, ShownIsAsked, ServedInOrder, LastIsAsked, Reaction!isPending
  <2>16. Reaction!TypeOK'
    BY <1>1, <1>4, <2>6, <2>9 DEF ReactionInv, Reaction!TypeOK, Reaction!Maybe
  <2> QED
    BY <2>12, <2>13, <2>15, <2>16 DEF ReactionInv
<1> QED
  BY <1>7, <1>8

LEMMA PaintStep ==
    ASSUME ReactionInv, Reaction!Return \/ Reaction!ReadPaint \/ Reaction!PaintArrives
    PROVE  ReactionInv'
<1>1. UNCHANGED <<held, entry, loose, requests, lastTap, failed, overtaken, hides>>
  BY DEF Reaction!Return, Reaction!ReadPaint, Reaction!PaintArrives, Reaction!queue,
    Reaction!bounds
<1>2. Reaction!isPending => shown' = shown
  BY DEF Reaction!Return, Reaction!ReadPaint, Reaction!PaintArrives, Reaction!Drawn
<1>3. shown' \in Reaction!State /\ paint' \in Reaction!Maybe(Reaction!State)
  BY DEF Reaction!Return, Reaction!ReadPaint, Reaction!PaintArrives, Reaction!Drawn,
    ReactionInv, Reaction!TypeOK, Reaction!Maybe
<1>4. paints' \in 0..MaxPaints
  BY BrowserAssumption DEF Reaction!Return, Reaction!ReadPaint, Reaction!PaintArrives,
    Reaction!bounds, ReactionInv, Reaction!TypeOK,
    Reaction!ReactionAssumption
<1>5. Reaction!TypeOK'
  BY <1>1, <1>3, <1>4 DEF Reaction!Return, Reaction!ReadPaint, Reaction!PaintArrives,
    Reaction!bounds, ReactionInv, Reaction!TypeOK
<1> QED
  BY <1>1, <1>2, <1>5, QueueAlone DEF ReactionInv

LEMMA ReactionStep == ASSUME ReactionInv, Reaction!Next PROVE ReactionInv'
  BY TapStep, TimersStep, ServeStep, AnsweredStep, LateStep, HideStep, PaintStep
  DEF Reaction!Next

LEMMA ReactionStays == ASSUME ReactionInv, UNCHANGED Reaction!vars PROVE ReactionInv'
<1>1. Reaction!TypeOK'
  BY DEF Reaction!vars, Reaction!queue, Reaction!bounds, ReactionInv, Reaction!TypeOK
<1> QED
  BY <1>1, QueueAlone DEF Reaction!vars, Reaction!queue, Reaction!bounds, ReactionInv

LEMMA TapStands == ASSUME ReactionInv PROVE Reaction!LastTapStands
<1>1. requests = <<>> => Sent(requests) = {}
  BY DEF Sent
<1> QED
  BY <1>1 DEF ReactionInv, ShownIsAsked, LastIsAsked, Stands, Reaction!LastTapStands

---------------------------------------------------------------------------
(***************************************************************************)
(* The views.  What the browser reported of an element is so; no entry     *)
(* leaves the queue but in a batch, and no batch but for the server, or    *)
(* tried as often as it is tried.                                          *)
(***************************************************************************)
\* What the browser reported of a mounted element is so, until it crosses.
ReportedIsSo ==
    \A e \in Elements \ crossed :
        subjects[e] # Views!Nothing => (e \in visibleSince <=> e \in onScreen)

ViewsInv == Views!TypeOK /\ ReportedIsSo /\ Views!WatchedIsTimed /\ Views!SeenIsSent

LEMMA ViewsStart == ASSUME Views!Init PROVE ViewsInv
<1>1. subjects \in [Elements -> Posts \cup {Views!Nothing}]
  BY DEF Views!Init
<1>2. visibleSince = {} /\ timers = {} /\ onScreen = {} /\ crossed = {}
  BY DEF Views!Init
<1>3. {visibleSince, timers, onScreen, crossed} \subseteq SUBSET Elements
  BY <1>2
<1>4. /\ seen \subseteq Views!Subjects /\ ended \subseteq Frames
      /\ waiting \subseteq Views!Entry /\ dropped \subseteq Views!Entry
      /\ sends \subseteq Views!Send
      /\ {flushTimer, visible, away} \subseteq BOOLEAN
  BY DEF Views!Init
<1>5. recorded \in [Views!Subjects -> {"no", "seen", "completed"}]
  BY DEF Views!Init
<1>6. misses \in 0..MaxMisses /\ turns \in 0..MaxTurns
  BY BrowserAssumption DEF Views!Init, Views!ViewsAssumption
<1>7. Views!TypeOK
  BY <1>1, <1>3, <1>4, <1>5, <1>6 DEF Views!TypeOK
<1>8. ReportedIsSo /\ Views!WatchedIsTimed /\ Views!SeenIsSent
  BY DEF Views!Init, ReportedIsSo, Views!WatchedIsTimed, Views!SeenIsSent
<1> QED
  BY <1>7, <1>8 DEF ViewsInv

\* The queue of a page that is there takes an item, and keeps its timer.
Queued == waiting' # {} => flushTimer' /\ ~away'

\* What waits, what is on its way and what nobody sends any more.
Entries == waiting \cup dropped \cup UNION {x.batch : x \in sends}

\* While no item leaves them and no record is lost, what was seen is somewhere.
LEMMA StillSent ==
    ASSUME Views!TypeOK, Views!SeenIsSent, Entries \subseteq Entries',
           \A s \in Views!Subjects :
              /\ recorded[s] # "no" => recorded'[s] # "no"
              /\ recorded[s] = "completed" => recorded'[s] = "completed"
    PROVE  /\ \A s \in seen : Views!Somewhere(s, FALSE)' \/ recorded'[s] # "no"
           /\ \A s \in ended : Views!Somewhere(s, TRUE)' \/ recorded'[s] = "completed"
<1>1. seen \subseteq Views!Subjects /\ ended \subseteq Views!Subjects
  BY DEF Views!TypeOK, Views!Subjects
<1>2. \A s \in seen : Views!Somewhere(s, FALSE)' \/ recorded'[s] # "no"
  <2> TAKE s \in seen
  <2>1. Views!Somewhere(s, FALSE) \/ recorded[s] # "no"
    BY DEF Views!SeenIsSent
  <2>2. CASE Views!Somewhere(s, FALSE)
    BY <2>2 DEF Views!Somewhere, Entries
  <2>3. CASE recorded[s] # "no"
    BY <1>1, <2>3
  <2> QED
    BY <2>1, <2>2, <2>3
<1>3. \A s \in ended : Views!Somewhere(s, TRUE)' \/ recorded'[s] = "completed"
  <2> TAKE s \in ended
  <2>1. Views!Somewhere(s, TRUE) \/ recorded[s] = "completed"
    BY DEF Views!SeenIsSent
  <2>2. CASE Views!Somewhere(s, TRUE)
    BY <2>2 DEF Views!Somewhere, Entries
  <2>3. CASE recorded[s] = "completed"
    BY <1>1, <2>3
  <2> QED
    BY <2>1, <2>2, <2>3
<1> QED
  BY <1>2, <1>3

\* A step of the queue that loses no item and sets its timer.
LEMMA QueueStep ==
    ASSUME ViewsInv, Entries \subseteq Entries', Queued, UNCHANGED recorded,
           \A s \in seen' \ seen : Views!Somewhere(s, FALSE)',
           \A s \in ended' \ ended : Views!Somewhere(s, TRUE)'
    PROVE  Views!SeenIsSent'
  BY StillSent DEF ViewsInv, Views!SeenIsSent, Queued

LEMMA EnqueueStep ==
    ASSUME ViewsInv, Views!Live, NEW item \in Views!Entry, Views!enqueue(item),
           UNCHANGED Views!sending,
           seen' \subseteq seen \cup {item.subject},
           ended' \subseteq ended \cup IF item.completed THEN {item.subject} ELSE {}
    PROVE  Views!SeenIsSent' /\ waiting' \subseteq Views!Entry /\ flushTimer' \in BOOLEAN
<1>1. Entries \subseteq Entries' /\ Queued /\ item \in waiting'
  BY DEF Entries, Views!sending, Views!enqueue, Queued, Views!Live
<1>2. \A s \in seen' \ seen : Views!Somewhere(s, FALSE)'
  BY <1>1 DEF Views!Somewhere
<1>3. \A s \in ended' \ ended : Views!Somewhere(s, TRUE)'
  BY <1>1 DEF Views!Somewhere
<1> QED
  BY <1>1, <1>2, <1>3, QueueStep DEF Views!sending, Views!enqueue, ViewsInv, Views!TypeOK

LEMMA SeeStep ==
    ASSUME ViewsInv, Views!Live, NEW s \in Views!Subjects, Views!see(s), UNCHANGED Views!sending
    PROVE  /\ Views!SeenIsSent' /\ waiting' \subseteq Views!Entry /\ flushTimer' \in BOOLEAN
           /\ seen' = seen \cup {s} /\ ended' = ended
<1>1. CASE s \in seen
  <2>1. UNCHANGED <<Views!queueing, Views!sending>> /\ away' = away
    BY <1>1 DEF Views!see, Views!Live
  <2> QED
    BY <1>1, <2>1 DEF ViewsInv, Views!TypeOK, Views!SeenIsSent, Views!Somewhere,
      Views!queueing, Views!sending
<1>2. CASE s \notin seen
  <2> DEFINE item == [subject |-> s, completed |-> FALSE]
  <2>1. item \in Views!Entry /\ item.subject = s /\ ~item.completed
    BY DEF Views!Entry
  <2>2. Views!enqueue(item) /\ seen' = seen \cup {s} /\ ended' = ended
    BY <1>2 DEF Views!see
  <2> HIDE DEF item
  <2> QED
    BY <2>1, <2>2, EnqueueStep
<1> QED
  BY <1>1, <1>2

LEMMA FlushStep ==
    ASSUME ViewsInv, NEW by \in {"beacon", "send"}, Views!flush(by),
           UNCHANGED <<seen, ended, recorded, dropped>>
    PROVE  /\ Views!SeenIsSent' /\ waiting' \subseteq Views!Entry /\ flushTimer' \in BOOLEAN
           /\ sends' \subseteq Views!Send
<1>1. waiting \subseteq UNION {x.batch : x \in sends'}
  <2>1. CASE waiting = {}
    BY <2>1
  <2>2. CASE waiting # {}
    <3> DEFINE x == [batch |-> waiting, waits |-> by]
    <3>1. x \in sends' /\ x.batch = waiting
      BY <2>2 DEF Views!flush
    <3> QED
      BY <3>1
  <2> QED
    BY <2>1, <2>2
<1>2. UNION {x.batch : x \in sends} \subseteq UNION {x.batch : x \in sends'}
  BY DEF Views!flush
<1>3. Entries \subseteq Entries' /\ Queued
  BY <1>1, <1>2 DEF Entries, Queued, Views!flush
<1>4. Views!SeenIsSent'
  BY <1>3, QueueStep
<1>5. sends' \subseteq Views!Send
  BY DEF ViewsInv, Views!TypeOK, Views!Send, Views!flush
<1> QED
  BY <1>4, <1>5 DEF Views!flush

\* An answer: a batch that goes out is recorded, dropped or sent again.
LEMMA RecordedIs ==
    ASSUME Views!TypeOK, NEW batch \in SUBSET Views!Entry
    PROVE  /\ Views!Recorded(batch) \in [Views!Subjects -> {"no", "seen", "completed"}]
           /\ \A s \in Views!Subjects :
                /\ recorded[s] # "no" => Views!Recorded(batch)[s] # "no"
                /\ recorded[s] = "completed" => Views!Recorded(batch)[s] = "completed"
           /\ \A y \in batch :
                /\ Views!Recorded(batch)[y.subject] # "no"
                /\ y.completed => Views!Recorded(batch)[y.subject] = "completed"
<1>1. \A s \in Views!Subjects : Views!Recorded(batch)[s] =
        IF [subject |-> s, completed |-> TRUE] \in batch THEN "completed"
        ELSE IF recorded[s] = "no" /\ [subject |-> s, completed |-> FALSE] \in batch THEN "seen"
        ELSE recorded[s]
  BY DEF Views!Recorded
<1>2. ASSUME NEW y \in batch
      PROVE  /\ y.subject \in Views!Subjects
             /\ y.completed => y = [subject |-> y.subject, completed |-> TRUE]
             /\ ~y.completed => y = [subject |-> y.subject, completed |-> FALSE]
  BY <1>2 DEF Views!Entry
<1>3. Views!Recorded(batch) \in [Views!Subjects -> {"no", "seen", "completed"}]
  BY DEF Views!Recorded, Views!TypeOK
<1>4. ASSUME NEW y \in batch
      PROVE  /\ Views!Recorded(batch)[y.subject] # "no"
             /\ y.completed => Views!Recorded(batch)[y.subject] = "completed"
  BY <1>1, <1>2, <1>4
<1> QED
  BY <1>1, <1>3, <1>4

LEMMA AnswerStep ==
    ASSUME ViewsInv, NEW x \in sends, Views!Answered(x) PROVE ViewsInv'
<1> USE DEF ViewsInv
<1> DEFINE again == [x EXCEPT !.waits = "retry"]
           rest == UNION {y.batch : y \in sends \ {x}}
<1>1. x \in Views!Send /\ x.batch \in SUBSET Views!Entry
  BY DEF Views!TypeOK, Views!Send
<1>2. again \in Views!Send /\ again.batch = x.batch
  BY <1>1 DEF Views!Send
<1>3. /\ recorded' \in [Views!Subjects -> {"no", "seen", "completed"}]
      /\ \A s \in Views!Subjects :
           /\ recorded[s] # "no" => recorded'[s] # "no"
           /\ recorded[s] = "completed" => recorded'[s] = "completed"
  <2>1. recorded' = recorded \/ recorded' = Views!Recorded(x.batch)
    BY DEF Views!Answered, Views!Landed, Views!Refused, Views!Failed
  <2> QED
    BY <1>1, <2>1, RecordedIs DEF Views!TypeOK
<1>4. misses' \in 0..MaxMisses
  BY BrowserAssumption DEF Views!Answered, Views!Landed, Views!Refused, Views!Failed,
    Views!TypeOK, Views!ViewsAssumption
<1>5. /\ sends' \subseteq Views!Send /\ dropped' \subseteq Views!Entry
      /\ dropped \subseteq dropped' /\ sends \ {x} \subseteq sends'
  BY <1>1, <1>2 DEF Views!Answered, Views!Landed, Views!Refused, Views!Failed, Views!TypeOK
<1>6. Views!TypeOK'
  BY <1>3, <1>4, <1>5 DEF Views!TypeOK, Views!Answered, Views!watching, Views!queueing,
    Views!outside
<1>7. ReportedIsSo' /\ Views!WatchedIsTimed'
  BY DEF Views!Answered, Views!watching, Views!queueing, Views!outside, ReportedIsSo,
    Views!WatchedIsTimed
<1>8. UNCHANGED <<waiting, flushTimer, away, seen, ended>>
  BY DEF Views!Answered, Views!queueing, Views!outside
<1>9. Entries \subseteq rest \cup waiting \cup dropped \cup x.batch
  BY DEF Entries
<1>10. rest \cup waiting \cup dropped \subseteq Entries'
  BY <1>5, <1>8 DEF Entries
<1>11. CASE Views!Refused(x) \/ Views!Failed(x)
  <2>1. x.batch \subseteq dropped' \/ again \in sends'
    BY <1>11 DEF Views!Refused, Views!Failed
  <2>2. x.batch \subseteq Entries'
    BY <2>1, <1>2 DEF Entries
  <2>3. Entries \subseteq Entries'
    BY <1>9, <1>10, <2>2
  <2> QED
    BY <1>3, <1>6, <1>7, <1>8, <2>3, StillSent DEF Views!SeenIsSent
<1>12. CASE Views!Landed(x)
  <2>1. recorded' = Views!Recorded(x.batch)
    BY <1>12 DEF Views!Landed
  <2>2. \A y \in x.batch : /\ recorded'[y.subject] # "no"
                           /\ y.completed => recorded'[y.subject] = "completed"
    BY <1>1, <2>1, RecordedIs
  <2>3. seen \subseteq Views!Subjects /\ ended \subseteq Views!Subjects
    BY DEF Views!TypeOK, Views!Subjects
  <2>4. ASSUME NEW s, NEW y \in Entries, y.subject = s
        PROVE  /\ Views!Somewhere(s, FALSE)' \/ recorded'[s] # "no"
               /\ y.completed => Views!Somewhere(s, TRUE)' \/ recorded'[s] = "completed"
    <3>1. CASE y \in x.batch
      BY <2>2, <2>4, <3>1
    <3>2. CASE y \notin x.batch
      <4>1. y \in Entries'
        BY <1>9, <1>10, <3>2
      <4> QED
        BY <4>1, <2>4 DEF Entries, Views!Somewhere
    <3> QED
      BY <3>1, <3>2
  <2>5. \A s \in seen : Views!Somewhere(s, FALSE)' \/ recorded'[s] # "no"
    <3> TAKE s \in seen
    <3>1. Views!Somewhere(s, FALSE) \/ recorded[s] # "no"
      BY DEF Views!SeenIsSent
    <3>2. CASE Views!Somewhere(s, FALSE)
      BY <3>2, <2>4 DEF Views!Somewhere, Entries
    <3> QED
      BY <3>1, <3>2, <1>3, <2>3
  <2>6. \A s \in ended : Views!Somewhere(s, TRUE)' \/ recorded'[s] = "completed"
    <3> TAKE s \in ended
    <3>1. Views!Somewhere(s, TRUE) \/ recorded[s] = "completed"
      BY DEF Views!SeenIsSent
    <3>2. CASE Views!Somewhere(s, TRUE)
      BY <3>2, <2>4 DEF Views!Somewhere, Entries
    <3> QED
      BY <3>1, <3>2, <1>3, <2>3
  <2> QED
    BY <1>6, <1>7, <1>8, <2>5, <2>6 DEF Views!SeenIsSent
<1> QED
  BY <1>11, <1>12 DEF Views!Answered

\* An element is mounted, unmounted, crosses or is reported.
LEMMA ElementStep ==
    ASSUME ViewsInv, NEW e \in Elements,
           \/ \E s \in Posts : Views!Observe(e, s)
           \/ Views!Unobserve(e) \/ Views!Scroll(e) \/ Views!onIntersect(e)
    PROVE  ViewsInv'
<1> USE DEF ViewsInv
<1>1. UNCHANGED <<Views!queueing, Views!sending, turns, visible, away>>
  BY DEF Views!Observe, Views!Unobserve, Views!Scroll, Views!onIntersect, Views!Live,
    Views!watching
<1>2. subjects' \in [Elements -> Posts \cup {Views!Nothing}]
  BY DEF Views!Observe, Views!Unobserve, Views!Scroll, Views!onIntersect, Views!TypeOK,
    Views!watching
<1>3. /\ visibleSince \subseteq Elements /\ timers \subseteq Elements
      /\ onScreen \subseteq Elements /\ crossed \subseteq Elements
  BY DEF Views!TypeOK
<1>4. /\ visibleSince' \subseteq Elements /\ timers' \subseteq Elements
      /\ onScreen' \subseteq Elements /\ crossed' \subseteq Elements
  BY <1>3 DEF Views!Observe, Views!Unobserve, Views!Scroll, Views!onIntersect,
    Views!watching, Views!armed
<1>5. {visibleSince', timers', onScreen', crossed'} \subseteq SUBSET Elements
  BY <1>4
<1>6. Views!TypeOK'
  BY <1>1, <1>2, <1>5 DEF Views!TypeOK, Views!queueing, Views!sending
<1>7. Views!SeenIsSent'
  BY <1>1 DEF Views!SeenIsSent, Views!Somewhere, Views!queueing, Views!sending
<1>8. ASSUME NEW s \in Posts, Views!Observe(e, s) PROVE ReportedIsSo' /\ Views!WatchedIsTimed'
  <2>1. s # Views!Nothing
    BY BrowserAssumption DEF Views!ViewsAssumption, Views!Subjects
  <2> QED
    BY <1>3, <1>8, <2>1 DEF Views!Observe, Views!Live, ReportedIsSo, Views!WatchedIsTimed,
      Views!TypeOK, Views!queueing
<1>9. CASE Views!Unobserve(e)
  <2>1. ReportedIsSo'
    BY <1>9 DEF Views!Unobserve, ReportedIsSo, Views!TypeOK
  <2>2. Views!WatchedIsTimed'
    BY <1>3, <1>9 DEF Views!Unobserve, Views!Live, Views!WatchedIsTimed, Views!TypeOK,
      Views!queueing
  <2> QED
    BY <2>1, <2>2, <1>6, <1>7
<1>10. CASE Views!Scroll(e)
  BY <1>3, <1>6, <1>7, <1>10 DEF Views!Scroll, Views!Live, ReportedIsSo,
    Views!WatchedIsTimed, Views!watching, Views!queueing
<1>11. CASE Views!onIntersect(e)
  BY <1>3, <1>6, <1>7, <1>11 DEF Views!onIntersect, Views!Live, ReportedIsSo,
    Views!WatchedIsTimed, Views!queueing, Views!armed
<1> QED
  BY <1>6, <1>7, <1>8, <1>9, <1>10, <1>11

LEMMA DwellStep ==
    ASSUME ViewsInv, NEW e \in Elements, Views!DwellEnds(e) PROVE ViewsInv'
<1> USE DEF ViewsInv
<1>1. /\ e \in timers \ crossed /\ timers' = timers \ {e}
      /\ UNCHANGED <<subjects, visibleSince, visible, away, onScreen, crossed, Views!sending, turns>>
  BY DEF Views!DwellEnds, Views!Live
<1>2. visible /\ subjects[e] # Views!Nothing /\ e \in onScreen /\ e \in visibleSince
  BY <1>1 DEF Views!DwellEnds, Views!Live, Views!WatchedIsTimed, ReportedIsSo
<1>3. Views!see(subjects[e]) /\ subjects[e] \in Views!Subjects
  BY <1>2 DEF Views!DwellEnds, Views!TypeOK, Views!Subjects
<1>4. /\ Views!SeenIsSent' /\ waiting' \subseteq Views!Entry /\ flushTimer' \in BOOLEAN
      /\ seen' = seen \cup {subjects[e]} /\ ended' = ended
  BY <1>1, <1>3, SeeStep DEF Views!DwellEnds
<1>5. timers' \subseteq Elements
  BY <1>1 DEF Views!TypeOK
<1>6. Views!TypeOK'
  BY <1>1, <1>3, <1>4, <1>5 DEF Views!TypeOK, Views!sending
<1>7. ReportedIsSo'
  BY <1>1 DEF ReportedIsSo
<1>8. Views!WatchedIsTimed'
  BY <1>1, <1>4 DEF Views!WatchedIsTimed
<1> QED
  BY <1>4, <1>6, <1>7, <1>8

LEMMA StoryStep ==
    ASSUME ViewsInv, NEW s \in Frames, Views!markShown(s) \/ Views!markCompleted(s)
    PROVE  ViewsInv'
<1> USE DEF ViewsInv
<1>1. /\ s \in Views!Subjects /\ Views!Live
      /\ UNCHANGED <<Views!watching, visible, onScreen, crossed, Views!sending, turns>>
  BY DEF Views!Subjects, Views!markShown, Views!markCompleted
<1>2. CASE Views!markShown(s)
  <2>1. Views!SeenIsSent' /\ waiting' \subseteq Views!Entry /\ flushTimer' \in BOOLEAN
        /\ seen' = seen \cup {s} /\ ended' = ended
    BY <1>1, <1>2, SeeStep DEF Views!markShown
  <2> QED
    BY <1>1, <2>1 DEF Views!TypeOK, ReportedIsSo, Views!WatchedIsTimed, Views!watching,
      Views!sending, Views!Live
<1>3. CASE Views!markCompleted(s)
  <2> DEFINE item == [subject |-> s, completed |-> TRUE]
  <2>1. item \in Views!Entry /\ item.subject = s /\ item.completed = TRUE
    BY <1>1 DEF Views!Entry
  <2>2. Views!enqueue(item) /\ seen' = seen \cup {s} /\ ended' = ended \cup {s}
    BY <1>3 DEF Views!markCompleted
  <2> HIDE DEF item
  <2>3. Views!SeenIsSent' /\ waiting' \subseteq Views!Entry /\ flushTimer' \in BOOLEAN
    BY <1>1, <2>1, <2>2, EnqueueStep
  <2> QED
    BY <1>1, <2>2, <2>3 DEF Views!TypeOK, ReportedIsSo, Views!WatchedIsTimed,
      Views!watching, Views!sending, Views!Live
<1> QED
  BY <1>2, <1>3

LEMMA TrackerStep ==
    ASSUME ViewsInv, Views!FlushDue \/ Views!Hide \/ Views!Show \/ Views!Leave PROVE ViewsInv'
<1> USE DEF ViewsInv
<1>1. CASE Views!FlushDue
  <2>1. /\ Views!SeenIsSent' /\ waiting' \subseteq Views!Entry /\ flushTimer' \in BOOLEAN
        /\ sends' \subseteq Views!Send
    BY <1>1, FlushStep DEF Views!FlushDue
  <2> QED
    BY <1>1, <2>1 DEF Views!FlushDue, Views!Live, Views!TypeOK, ReportedIsSo,
      Views!WatchedIsTimed, Views!watching
<1>2. CASE Views!Hide
  <2>1. /\ Views!SeenIsSent' /\ waiting' \subseteq Views!Entry /\ flushTimer' \in BOOLEAN
        /\ sends' \subseteq Views!Send
    BY <1>2, FlushStep DEF Views!Hide, Views!ByBeacon
  <2>2. turns' \in 0..MaxTurns
    BY <1>2, BrowserAssumption DEF Views!Hide, Views!TypeOK, Views!ViewsAssumption
  <2>3. timers' = {} /\ visible' = FALSE /\ away' = away
    BY <1>2 DEF Views!Hide, Views!DwellingHidden, Views!Live
  <2>4. Views!TypeOK'
    BY <1>2, <2>1, <2>2, <2>3 DEF Views!Hide, Views!TypeOK
  <2> QED
    BY <1>2, <2>1, <2>3, <2>4 DEF Views!Hide, ReportedIsSo, Views!WatchedIsTimed
<1>3. CASE Views!Show
  <2>1. timers' \subseteq Elements
    BY <1>3 DEF Views!Show, Views!TypeOK, Views!armed
  <2>2. Views!TypeOK'
    BY <1>3, <2>1 DEF Views!Show, Views!TypeOK, Views!queueing, Views!sending, Views!Live
  <2>3. Views!SeenIsSent'
    BY <1>3 DEF Views!Show, Views!SeenIsSent, Views!Somewhere, Views!queueing,
      Views!sending, Views!Live
  <2>4. timers' = Views!armed(visibleSince) /\ ~away /\ visible'
    BY <1>3 DEF Views!Show, Views!Live, Views!WatchedIsTimed
  <2>5. onScreen \subseteq Elements /\ visibleSince \subseteq Elements
    BY DEF Views!TypeOK
  <2>6. Views!WatchedIsTimed'
    BY <1>3, <2>4, <2>5 DEF Views!Show, Views!WatchedIsTimed, ReportedIsSo, Views!armed,
      Views!queueing
  <2>7. ReportedIsSo'
    BY <1>3 DEF Views!Show, ReportedIsSo
  <2> QED
    BY <2>2, <2>3, <2>6, <2>7
<1>4. CASE Views!Leave
  <2>1. /\ Views!SeenIsSent' /\ waiting' \subseteq Views!Entry /\ flushTimer' \in BOOLEAN
        /\ sends' \subseteq Views!Send
    BY <1>4, FlushStep DEF Views!Leave, Views!ByBeacon
  <2> QED
    BY <1>4, <2>1 DEF Views!Leave, Views!TypeOK, ReportedIsSo, Views!WatchedIsTimed,
      Views!watching
<1> QED
  BY <1>1, <1>2, <1>3, <1>4

LEMMA ViewsStep == ASSUME ViewsInv, Views!Next PROVE ViewsInv'
  BY ElementStep, DwellStep, StoryStep, TrackerStep, AnswerStep DEF Views!Next

LEMMA ViewsStays == ASSUME ViewsInv, UNCHANGED Views!vars PROVE ViewsInv'
<1> USE DEF ViewsInv, Views!vars, Views!watching, Views!queueing, Views!outside, Views!sending
<1>1. Views!TypeOK'
  BY DEF Views!TypeOK
<1>2. ReportedIsSo' /\ Views!WatchedIsTimed'
  BY DEF ReportedIsSo, Views!WatchedIsTimed
<1>3. Views!SeenIsSent'
  BY DEF Views!SeenIsSent, Views!Somewhere
<1> QED
  BY <1>1, <1>2, <1>3

---------------------------------------------------------------------------
(***************************************************************************)
(* The mail's save.  What the page holds to be stored is what the message  *)
(* is sent with, as it was posted or as it is read back, unless the page   *)
(* was not told of a change it asked for.                                  *)
(***************************************************************************)
StoredIsSent == unheard \/ stored \in {server, Email!Read(server)}

LEMMA MailStep == ASSUME StoredIsSent, Email!Next PROVE StoredIsSent'
<1>1. CASE Email!Screen
  BY <1>1 DEF Email!Screen, Email!row, StoredIsSent
<1>2. Email!Arms \/ Email!Disarm => Email!Screen
  BY DEF Email!Arms, Email!Arm, Email!Disarm
<1>3. ASSUME NEW at \in Email!Slots, Email!placeAt(at) PROVE Email!Screen
  BY <1>3 DEF Email!placeAt
<1>4. ASSUME NEW bar, NEW i, NEW delta, Email!moveStep(bar, i, delta) PROVE Email!Screen
  BY <1>4 DEF Email!moveStep
<1>5. ASSUME NEW id, Email!duplicate(id) \/ Email!remove(id) PROVE Email!Screen
  BY <1>5 DEF Email!duplicate, Email!remove
<1>6. Email!undo \/ Email!redo => Email!Screen
  BY DEF Email!undo, Email!redo
<1>7. CASE Email!save \/ Email!SaveRefused
  BY <1>7 DEF Email!save, Email!SaveRefused, Email!row, StoredIsSent
<1>8. CASE Email!SaveLands \/ Email!SaveUnheard
  BY <1>8 DEF Email!SaveLands, Email!SaveUnheard, Email!Writes, Email!Opened, Email!StoredThen,
    StoredIsSent
<1>9. CASE Email!restore
  <2>1. CASE Email!Opened(server')
    BY <2>1 DEF Email!Opened, StoredIsSent
  <2>2. CASE unheard' = (unheard \/ own' # own) /\ stored' = stored
    <3>1. own' = own => server' = server
      BY <1>9 DEF Email!restore
    <3> QED
      BY <2>2, <3>1 DEF StoredIsSent
  <2> QED
    BY <1>9, <2>1, <2>2 DEF Email!restore, Email!page
<1>10. CASE Email!Reopens
  BY <1>10 DEF Email!Reopens, Email!Opened, StoredIsSent
<1> QED
  BY <1>1, <1>2, <1>3, <1>4, <1>5, <1>6, <1>7, <1>8, <1>9, <1>10 DEF Email!Next

---------------------------------------------------------------------------
(***************************************************************************)
(* The pages in one run.                                                   *)
(***************************************************************************)
browser == <<page, editor, reaction, email, views>>

BrowserInv == EditorInv /\ ReactionInv /\ ViewsInv /\ StoredIsSent

LEMMA BrowserStart == ASSUME Init PROVE BrowserInv
<1>1. EditorInv /\ ReactionInv /\ ViewsInv
  BY EditorStart, ReactionStart, ViewsStart DEF Init
<1>2. StoredIsSent
  BY DEF Init, Email!Init, StoredIsSent
<1> QED
  BY <1>1, <1>2 DEF BrowserInv

\* A step of one page leaves the others alone.
LEMMA BrowserSteps ==
    ASSUME [Next]_browser
    PROVE  /\ Editor!Next \/ UNCHANGED Editor!vars
           /\ Reaction!Next \/ UNCHANGED Reaction!vars
           /\ Email!Next \/ UNCHANGED <<server, stored, unheard>>
           /\ Views!Next \/ UNCHANGED Views!vars
<1>1. Editor!Next \/ UNCHANGED editor
  BY DEF Next, browser
<1>2. Reaction!Next \/ UNCHANGED reaction
  BY DEF Next, browser
<1>3. Email!Next \/ UNCHANGED email
  BY DEF Next, browser
<1>4. Views!Next \/ UNCHANGED views
  BY DEF Next, browser
<1>5. UNCHANGED editor => UNCHANGED Editor!vars
  BY DEF editor, Editor!vars, Editor!bounds
<1>6. UNCHANGED reaction => UNCHANGED Reaction!vars
  BY DEF reaction, Reaction!vars, Reaction!queue, Reaction!bounds
<1>7. UNCHANGED email => UNCHANGED <<server, stored, unheard>>
  BY DEF email
<1>8. UNCHANGED views => UNCHANGED Views!vars
  BY DEF views, Views!vars, Views!watching, Views!queueing, Views!outside, Views!sending
<1> QED
  BY <1>1, <1>2, <1>3, <1>4, <1>5, <1>6, <1>7, <1>8

LEMMA BrowserStep == ASSUME BrowserInv, [Next]_browser PROVE BrowserInv'
<1>1. EditorInv'
  BY BrowserSteps, EditorStep, EditorStays DEF BrowserInv
<1>2. ReactionInv'
  BY BrowserSteps, ReactionStep, ReactionStays DEF BrowserInv
<1>3. ViewsInv'
  BY BrowserSteps, ViewsStep, ViewsStays DEF BrowserInv
<1>4. StoredIsSent'
  <2>1. CASE Email!Next
    BY <2>1, MailStep DEF BrowserInv
  <2>2. CASE UNCHANGED <<server, stored, unheard>>
    BY <2>2 DEF BrowserInv, StoredIsSent
  <2> QED
    BY <2>1, <2>2, BrowserSteps
<1> QED
  BY <1>1, <1>2, <1>3, <1>4 DEF BrowserInv

LEMMA BrowserInductive == Spec => []BrowserInv
<1>1. Init => BrowserInv
  BY BrowserStart
<1>2. BrowserInv /\ [Next]_browser => BrowserInv'
  BY BrowserStep
<1> QED
  BY <1>1, <1>2, PTL DEF Spec, browser

(***************************************************************************)
(* While the mirror is on and not due, the draft in the browser is the     *)
(* document on screen, or there is none and the document is the saved one: *)
(* no edit, undo, answer to a save, lost answer or offer leaves a draft of *)
(* something else.  (useDraftMirror)                                       *)
(***************************************************************************)
THEOREM DraftIsTheScreen == Spec => []DraftFollowsScreen
<1>1. BrowserInv => DraftFollowsScreen
  BY DEF BrowserInv, EditorInv, DraftFollowsScreen
<1> QED
  BY <1>1, BrowserInductive, PTL

(***************************************************************************)
(* Unsaved work that a page was left with, or died with, is in the draft   *)
(* until the member has answered the offer of it.  (useDraftMirror,        *)
(* leaveAndSave, leaveAndDiscard)                                          *)
(***************************************************************************)
THEOREM WorkOutlivesThePage == Spec => []LeftWorkIsKept
<1>1. BrowserInv => LeftWorkIsKept
  BY DEF BrowserInv, EditorInv, LeftWorkIsKept
<1> QED
  BY <1>1, BrowserInductive, PTL

(***************************************************************************)
(* The last state a member asked for stands, whatever taps, answers, lost  *)
(* answers, hidden pages and late paints come between: it is drawn while   *)
(* it waits, and held by the server once nothing is on its way, unless the *)
(* last write failed or one overtook another.  (fire, flushOnHide)         *)
(***************************************************************************)
THEOREM TheLastTapStands == Spec => []LastTapStands
<1>1. BrowserInv => LastTapStands
  BY TapStands DEF BrowserInv, LastTapStands
<1> QED
  BY <1>1, BrowserInductive, PTL

(***************************************************************************)
(* A dwell runs for exactly what is being looked at, in whatever order     *)
(* elements are mounted and scrolled and the page hidden and shown.        *)
(* (arm, cancel, onVisibility)                                             *)
(***************************************************************************)
THEOREM DwellsRunForTheWatched == Spec => []WatchedIsTimed
<1>1. BrowserInv => WatchedIsTimed
  BY DEF BrowserInv, ViewsInv, WatchedIsTimed
<1> QED
  BY <1>1, BrowserInductive, PTL

(***************************************************************************)
(* Nothing seen is forgotten: it waits with a timer to send it, is on its  *)
(* way, is recorded or was tried as often as it is tried, a video watched  *)
(* to its end as one that was.  (enqueue, flushNow, send, beacon)          *)
(***************************************************************************)
THEOREM NothingSeenIsForgotten == Spec => []SeenIsSent
<1>1. BrowserInv => SeenIsSent
  BY DEF BrowserInv, ViewsInv, SeenIsSent
<1> QED
  BY <1>1, BrowserInductive, PTL
===========================================================================
