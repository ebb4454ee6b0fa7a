---------------------------- MODULE EmailBuilder ----------------------------
(***************************************************************************)
(* The builder of a message's mail: the document the admin edits in rows   *)
(* (components/email/builder-state.ts), the slots the canvas offers over   *)
(* the frame that renders it (email-canvas.tsx, block-canvas.tsx), and the *)
(* save (builder.tsx, the screen's actions.ts).                            *)
(*                                                                         *)
(* A block is its id.  The document is kept in rows and stored flat, with  *)
(* its rows when one has columns.  The canvas draws the rows it finds in   *)
(* the frame, taken to have loaded the document.  Words, styles, the       *)
(* subject and the selection are left out: a change of words is a commit   *)
(* that moves nothing.                                                     *)
(*                                                                         *)
(* MaxCommits bounds the changes, MaxPosts the saves.                      *)
(***************************************************************************)
EXTENDS Integers, Sequences, SequencesExt

CONSTANTS
    Layouts,      \* the layouts the library offers
    HistoryLimit, \* HISTORY_LIMIT
    Platform,     \* the platform's design of the message, as stored
    MaxCommits, MaxPosts

Columns == [l \in {"1", "1/1", "1/2", "1/1/1"} |->
              CASE l = "1" -> 1 [] l = "1/1/1" -> 3 [] OTHER -> 2]

Row == [id : Int, layout : DOMAIN Columns, columns : Seq(Seq(Nat))]

VARIABLES
    past, present, future, \* the history of documents
    armed,    \* what a tap picked up, or <<>>
    stored,   \* what the page holds to be stored
    posted,   \* what the save on its way posted, or <<>>
    server,   \* the document the message is sent with
    own,      \* the organisation's row it is in, or 0 for the platform's design
    known,    \* the row the page was opened on, or 0
    unheard,  \* what is sent changed, and the page was not told
    fresh,    \* the next id
    commits, posts

history == <<past, present, future>>
page == <<armed, stored, posted>>
row == <<server, own, known, unheard>>
vars == <<history, page, row, fresh, commits, posts>>

---------------------------------------------------------------------------
(***************************************************************************)
(* The document.  A block's id is a number; a row's is a number below 0,   *)
(* and the row made for block n is row -n.                                 *)
(***************************************************************************)
Single(id) == [id |-> -id, layout |-> "1", columns |-> <<<<id>>>>]
Singles(ids) == [i \in DOMAIN ids |-> Single(ids[i])]
Ids(r) == FlattenSeq(r.columns)
Order(rows) == FlattenSeq([i \in DOMAIN rows |-> Ids(rows[i])])

\* SelectSeq, which the provers do not know.
Filter(s, Test(_)) == FlattenSeq([i \in DOMAIN s |-> IF Test(s[i]) THEN <<s[i]>> ELSE <<>>])

\* A one-column row is known by its block.
targetIdOf(r) ==
    IF r.layout = "1" /\ Len(r.columns[1]) = 1 THEN r.columns[1][1] ELSE r.id
Targets(rows) == [i \in DOMAIN rows |-> targetIdOf(rows[i])]

Flattened(rows) ==
    FlattenSeq([i \in DOMAIN rows |->
        IF rows[i].layout = "1" THEN Singles(rows[i].columns[1]) ELSE <<rows[i]>>])

Filled(rows) == Filter(rows, LAMBDA r : Ids(r) # <<>>)

\* Wrong on purpose: rows are written when the first has columns.
WritesRowsOfFirst(rows) == rows # <<>> /\ rows[1].layout # "1"

WritesRows(rows) == \E i \in DOMAIN rows : rows[i].layout # "1"

\* The document as stored.
toDocument(doc) ==
    [blocks |-> Filter(Order(doc.rows), LAMBDA id : id \in doc.blocks),
     rows |-> IF WritesRows(doc.rows) THEN Flattened(doc.rows) ELSE <<>>]

\* readRows: a row with nothing in it is passed over, and a block no row names
\* gets a row of its own.
readRows(ids, rows) ==
    Flattened(Filled(rows)) \o Singles(Filter(ids, LAMBDA id : id \notin ToSet(Order(rows))))

fromDocument(document) ==
    [rows |-> readRows(document.blocks, document.rows), blocks |-> ToSet(document.blocks)]

\* The document as it would be stored again.
Read(document) == toDocument(fromDocument(document))

\* A document as the program writes it, its blocks and rows numbered from 1: a
\* one-column row is its block's, and a block is named once.
Written(document) ==
    /\ document.blocks \in Seq(Nat) /\ document.rows \in Seq(Row)
    /\ \A i \in DOMAIN document.rows :
         LET r == document.rows[i]
         IN  \/ \E id \in ToSet(document.blocks) : r = Single(id)
             \/ /\ r.layout # "1" /\ Len(r.columns) = Columns[r.layout]
                /\ -r.id \notin ToSet(document.blocks)
    /\ ToSet(document.blocks) \cup {-document.rows[i].id : i \in DOMAIN document.rows}
          \subseteq 1..(Len(document.blocks) + Len(document.rows))
    /\ ToSet(Order(document.rows)) \subseteq ToSet(document.blocks)
    /\ IsInjective(document.blocks) /\ IsInjective(Order(document.rows))
    /\ IsInjective([i \in DOMAIN document.rows |-> document.rows[i].id])

EmailAssumption ==
    /\ Layouts \subseteq DOMAIN Columns /\ Written(Platform)
    /\ HistoryLimit \in Nat \ {0} /\ {MaxCommits, MaxPosts} \subseteq Nat

---------------------------------------------------------------------------
(***************************************************************************)
(* Where things are: a row, or a place in a column.                        *)
(***************************************************************************)
RowOf(doc, id) == {r \in DOMAIN doc.rows : targetIdOf(doc.rows[r]) = id}

SpotOf(doc, id) ==
    UNION {UNION {{<<r, c, i>> : i \in {i \in DOMAIN doc.rows[r].columns[c] :
                                        doc.rows[r].columns[c][i] = id}} :
                  c \in DOMAIN doc.rows[r].columns} :
           r \in DOMAIN doc.rows}

The(S) == CHOOSE x \in S : TRUE
Clamp(i, n) == IF i > n THEN n ELSE i
PutAt(s, index, x) == InsertAt(s, Clamp(index, Len(s)) + 1, x)

\* Rows with nothing in them go.
tidy(rows) == Filter(rows, LAMBDA r : r.layout # "1" \/ r.columns[1] # <<>>)

Between(index) == [row |-> 0, column |-> 0, index |-> index]
InColumn(at) == at.row # 0

insertBlockId(rows, id, at) ==
    IF ~InColumn(at) THEN PutAt(rows, at.index, Single(id))
    ELSE LET r == CHOOSE r \in DOMAIN rows : rows[r].id = at.row
         IN  [rows EXCEPT ![r].columns[at.column] = PutAt(@, at.index, id)]

\* Wrong on purpose: the slot's index is taken as if the row were still there.
MoveRowUnshifted(rows, r, index) == PutAt(RemoveAt(rows, r), index, rows[r])

\* A row moves between rows: the slot was counted with it in its place.
MoveRow(rows, r, index) ==
    PutAt(RemoveAt(rows, r), IF index > r - 1 THEN index - 1 ELSE index, rows[r])

\* A block leaves its column for another place.
MoveBlock(rows, spot, id, at) ==
    LET r == spot[1]  c == spot[2]  i == spot[3]
        shifts == at.row = rows[r].id /\ at.column = c /\ at.index > i - 1
    IN  tidy(insertBlockId([rows EXCEPT ![r].columns[c] = RemoveAt(@, i)], id,
                           IF shifts THEN [at EXCEPT !.index = @ - 1] ELSE at))

MoveTo(doc, id, at) ==
    IF RowOf(doc, id) = {} THEN MoveBlock(doc.rows, The(SpotOf(doc, id)), id, at)
    ELSE LET r == The(RowOf(doc, id))
         IN  IF InColumn(at) THEN insertBlockId(RemoveAt(doc.rows, r), id, at)
             ELSE MoveRow(doc.rows, r, at.index)

emptyRow(layout) ==
    [id |-> -fresh, layout |-> layout, columns |-> [c \in 1..Columns[layout] |-> <<>>]]

Swap(s, i, j) == [s EXCEPT ![i] = s[j], ![j] = s[i]]

\* Wrong on purpose: the copies keep their originals' ids.
CopyKeepingId(id) == id

\* Each copied block takes an id of its own.
CopyOf(id) == fresh + id

Copied(r) ==
    [id |-> -fresh, layout |-> r.layout,
     columns |-> [c \in DOMAIN r.columns |->
        [i \in DOMAIN r.columns[c] |-> CopyOf(r.columns[c][i])]]]

---------------------------------------------------------------------------
(***************************************************************************)
(* The canvas: the rows of the document that the frame draws, all but an   *)
(* empty one-column row, and the slots between and inside them.            *)
(***************************************************************************)
Measured == tidy(present.rows)
WithCells == {r \in DOMAIN Measured : targetIdOf(Measured[r]) = Measured[r].id}

inCells ==
    \/ armed.kind = "block"
    \/ armed.kind = "move" /\ armed.id \in present.blocks

Slots ==
    {Between(index) : index \in 0..Len(Measured)} \cup
    (IF ~inCells THEN {}
     ELSE UNION {UNION {{[row |-> Measured[r].id, column |-> c, index |-> index] :
                            index \in 0..Len(Measured[r].columns[c])} :
                        c \in DOMAIN Measured[r].columns} :
                 r \in WithCells})

\* The lists whose targets have a handle bar: the rows, and each column.
Bars ==
    {Targets(Measured)} \cup
    UNION {{Measured[r].columns[c] : c \in DOMAIN Measured[r].columns} : r \in WithCells}

Handles == UNION {ToSet(bar) : bar \in Bars}

---------------------------------------------------------------------------
Documents == ToSet(past) \cup {present} \cup ToSet(future)

TypeOK ==
    /\ \A doc \in Documents :
         /\ doc.rows \in Seq(Row)
         /\ \A i \in DOMAIN doc.rows :
              /\ Len(doc.rows[i].columns) = Columns[doc.rows[i].layout]
              /\ -doc.rows[i].id \in 1..(fresh - 1)
         /\ doc.blocks \subseteq 1..(fresh - 1)
    /\ Len(past) <= HistoryLimit
    /\ Len(posted) <= 1
    /\ {own, known} \subseteq 0..MaxPosts /\ unheard \in BOOLEAN
    /\ commits \in 0..MaxCommits /\ posts \in 0..MaxPosts

\* The page opens on what the message is sent with.
Opened(document) ==
    /\ past' = <<>> /\ future' = <<>> /\ present' = fromDocument(document)
    /\ armed' = <<>> /\ stored' = Read(document) /\ posted' = <<>>
    /\ known' = own' /\ unheard' = FALSE

Init ==
    /\ past = <<>> /\ future = <<>> /\ present = fromDocument(Platform)
    /\ armed = <<>> /\ stored = Read(Platform) /\ posted = <<>>
    /\ server = Platform /\ own = 0 /\ known = 0 /\ unheard = FALSE
    /\ fresh = Len(Platform.blocks) + Len(Platform.rows) + 1
    /\ commits = 0 /\ posts = 0

json == toDocument(present)
unsaved == json # stored

commit(next) ==
    /\ commits < MaxCommits /\ commits' = commits + 1
    /\ past' = LET s == Append(past, present)
               IN  SubSeq(s, Len(s) - Clamp(HistoryLimit, Len(s)) + 1, Len(s))
    /\ present' = next /\ future' = <<>>

saving == posted # <<>>
Screen == UNCHANGED <<stored, posted, row, posts>>

Arm(thing) ==
    /\ armed' = thing
    /\ UNCHANGED <<history, fresh, commits>> /\ Screen

Disarm ==
    /\ armed # <<>> /\ armed' = <<>>
    /\ UNCHANGED <<history, fresh, commits>> /\ Screen

PlaceBlock(at) ==
    /\ armed.kind = "block"
    /\ commit([rows |-> insertBlockId(present.rows, fresh, at),
               blocks |-> present.blocks \cup {fresh}])
    /\ fresh' = fresh + 1

PlaceLayout(at) ==
    /\ armed.kind = "layout"
    /\ commit([present EXCEPT !.rows = PutAt(@, at.index, emptyRow(armed.layout))])
    /\ fresh' = fresh + 1

\* What was picked up may be gone by now: nothing is placed.
PlaceMoved(at) ==
    /\ armed.kind = "move" /\ UNCHANGED fresh
    /\ IF RowOf(present, armed.id) = {} /\ SpotOf(present, armed.id) = {}
       THEN UNCHANGED <<history, commits>>
       ELSE commit([present EXCEPT !.rows = MoveTo(present, armed.id, at)])

placeAt(at) ==
    /\ armed # <<>> /\ at \in Slots
    /\ PlaceBlock(at) \/ PlaceLayout(at) \/ PlaceMoved(at)
    /\ armed' = <<>> /\ Screen

\* The bar's arrow; the first of a list has none up, the last none down.
moveStep(bar, i, delta) ==
    /\ i \in DOMAIN bar /\ i + delta \in DOMAIN bar
    /\ LET id == bar[i]
       IN  IF RowOf(present, id) # {}
           THEN LET r == The(RowOf(present, id))
                IN  /\ r + delta \in DOMAIN present.rows
                    /\ commit([present EXCEPT !.rows = Swap(@, r, r + delta)])
           ELSE LET s == The(SpotOf(present, id))
                IN  /\ s[3] + delta \in DOMAIN present.rows[s[1]].columns[s[2]]
                    /\ commit([present EXCEPT !.rows[s[1]].columns[s[2]] =
                                   Swap(@, s[3], s[3] + delta)])
    /\ UNCHANGED <<armed, fresh>> /\ Screen

duplicate(id) ==
    /\ IF RowOf(present, id) # {}
       THEN LET r == The(RowOf(present, id))
                copy == Copied(present.rows[r])
            IN  commit([rows |-> InsertAt(present.rows, r + 1, copy),
                        blocks |-> present.blocks \cup ToSet(Ids(copy))])
       ELSE LET s == The(SpotOf(present, id))
            IN  commit([rows |-> [present.rows EXCEPT ![s[1]].columns[s[2]] =
                                     InsertAt(@, s[3] + 1, CopyOf(id))],
                        blocks |-> present.blocks \cup {CopyOf(id)}])
    /\ fresh' = fresh + fresh
    /\ UNCHANGED armed /\ Screen

remove(id) ==
    /\ LET gone == IF RowOf(present, id) # {}
                   THEN ToSet(Ids(present.rows[The(RowOf(present, id))])) ELSE {id}
           rows == IF RowOf(present, id) # {}
                   THEN RemoveAt(present.rows, The(RowOf(present, id)))
                   ELSE LET s == The(SpotOf(present, id))
                        IN  tidy([present.rows EXCEPT ![s[1]].columns[s[2]] =
                                     RemoveAt(@, s[3])])
       IN  commit([rows |-> rows,
                   blocks |-> present.blocks \ gone])
    /\ UNCHANGED <<armed, fresh>> /\ Screen

undo ==
    /\ past # <<>>
    /\ past' = Front(past) /\ present' = Last(past) /\ future' = <<present>> \o future
    /\ UNCHANGED <<armed, fresh, commits>> /\ Screen

redo ==
    /\ future # <<>>
    /\ past' = Append(past, present) /\ present' = Head(future) /\ future' = Tail(future)
    /\ UNCHANGED <<armed, fresh, commits>> /\ Screen

---------------------------------------------------------------------------
(***************************************************************************)
(* The save and the restore.  The page's actions run one at a time.        *)
(***************************************************************************)
save ==
    /\ ~saving /\ posted' = <<json>>
    /\ posts < MaxPosts /\ posts' = posts + 1
    /\ UNCHANGED <<history, armed, stored, row, fresh, commits>>

\* Wrong on purpose: what is on screen when the answer comes is taken as stored.
StoredNow == json

StoredThen == posted[1]

\* The row is written; a new one takes an id of its own.
Writes ==
    /\ saving /\ posted[1].blocks # <<>>
    /\ server' = posted[1] /\ own' = IF own = 0 THEN posts ELSE own
    /\ UNCHANGED <<fresh, commits, posts>>

\* The row's new time is the builder's key, so a page that is read again opens
\* anew; one that is not keeps its work.
SaveLands ==
    /\ Writes
    /\ \/ Opened(posted[1])
       \/ /\ stored' = StoredThen /\ posted' = <<>> /\ unheard' = FALSE
          /\ UNCHANGED <<history, armed, known>>

\* The row is written, but cannot be read back, or the answer is lost: the
\* page takes the save as failed.
SaveUnheard ==
    /\ Writes
    /\ posted' = <<>> /\ unheard' = TRUE
    /\ UNCHANGED <<history, armed, stored, known>>

\* Nothing to send, a binding it may not use, no right to: nothing is written.
SaveRefused ==
    /\ saving /\ posted' = <<>>
    /\ UNCHANGED <<history, armed, stored, row, fresh, commits, posts>>

\* The row the page was opened on is deleted, if it is still there; the page is
\* read again, unless the answer is lost.
restore ==
    /\ ~saving /\ known # 0
    /\ IF own = known THEN server' = Platform /\ own' = 0 ELSE UNCHANGED <<server, own>>
    /\ \/ Opened(server')
       \/ /\ unheard' = (unheard \/ own' # own)
          /\ UNCHANGED <<history, page, known>>
    /\ UNCHANGED <<fresh, commits, posts>>

\* A page that missed an answer is opened again.
Reopens ==
    /\ ~saving /\ unheard
    /\ UNCHANGED <<server, own>> /\ Opened(server)
    /\ UNCHANGED <<fresh, commits, posts>>

---------------------------------------------------------------------------
Arms ==
    \/ Arm([kind |-> "block"])
    \/ \E l \in Layouts : Arm([kind |-> "layout", layout |-> l])
    \/ \E id \in Handles : Arm([kind |-> "move", id |-> id])

Next ==
    \/ armed = <<>> /\ Arms
    \/ Disarm
    \/ armed # <<>> /\ \E at \in Slots : placeAt(at)
    \/ \E bar \in Bars, i \in 1..Len(Order(present.rows)) + Len(present.rows), delta \in {-1, 1} :
         moveStep(bar, i, delta)
    \/ \E id \in Handles : duplicate(id) \/ remove(id)
    \/ undo \/ redo
    \/ save \/ SaveLands \/ SaveUnheard \/ SaveRefused \/ restore \/ Reopens

Spec == Init /\ [][Next]_vars

---------------------------------------------------------------------------
(***************************************************************************)
(* No operation loses a block, draws one twice or leaves one behind: in    *)
(* the document and in every one undo or redo would bring back, each block *)
(* is in one place of one row, and every row can be told from the others.  *)
(* (place, duplicate, remove, tidy)                                        *)
(***************************************************************************)
BlocksStand ==
    \A doc \in Documents :
        /\ IsInjective(Order(doc.rows)) /\ ToSet(Order(doc.rows)) = doc.blocks
        /\ IsInjective([i \in DOMAIN doc.rows |-> doc.rows[i].id])

(***************************************************************************)
(* The mail that is saved is the one that is opened again: rows, columns   *)
(* and words, all but the rows nothing was put in.                         *)
(* (toDocument, fromDocument, readRows)                                    *)
(***************************************************************************)
ReopensAsSaved ==
    \A doc \in Documents :
        fromDocument(toDocument(doc)) =
            [doc EXCEPT !.rows = Flattened(Filled(@))]

(***************************************************************************)
(* What is armed lands in the slot that was pressed, after what is drawn   *)
(* before it and before what is drawn after it, a row or block that moves  *)
(* leaving its old place.  No empty one-column row is in the document: it  *)
(* would not be drawn, and the slot not count it.  (place)                 *)
(***************************************************************************)
Drawn(doc, at) ==
    IF InColumn(at)
    THEN doc.rows[CHOOSE r \in DOMAIN doc.rows : doc.rows[r].id = at.row].columns[at.column]
    ELSE Targets(doc.rows)

LandsAt(at) ==
    LET x == CASE armed.kind = "block" -> fresh
               [] armed.kind = "layout" -> -fresh
               [] OTHER -> armed.id
        old == Drawn(present, at)
    IN  Drawn(present, at)' =
            Remove(SubSeq(old, 1, at.index), x) \o <<x>>
                \o Remove(SubSeq(old, at.index + 1, Len(old)), x)

SlotIsHonoured ==
    [][/\ armed # <<>> /\ tidy(present.rows) = present.rows
       /\ commits' # commits /\ (armed.kind = "layout" => armed.layout # "1")
       => \A at \in Slots : placeAt(at) => LandsAt(at)]_vars

(***************************************************************************)
(* A page that does not say «not saved» shows what the message is sent     *)
(* with, whatever was edited or undone while a save was on its way, unless *)
(* it was not told of what it had the server do.                           *)
(* (stored, posted, onSubmit, saveEmailDesign)                             *)
(***************************************************************************)
SavedIsSent == ~saving /\ ~unsaved /\ ~unheard => Read(json) = Read(server)

(***************************************************************************)
(* The same without the exception, as builder.tsx says of the page (a      *)
(* saved row is live at once, «draft» means not saved): refuted, by a      *)
(* write whose answer is lost and an undo to what was stored before it.    *)
(***************************************************************************)
AlwaysSavedIsSent == ~saving /\ ~unsaved => Read(json) = Read(server)
===========================================================================
