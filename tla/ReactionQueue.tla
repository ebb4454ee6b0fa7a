--------------------------- MODULE ReactionQueue ---------------------------
(***************************************************************************)
(* A member's reaction on one target: what the page draws, the queue that  *)
(* writes it (lib/reactions/queue.ts), and the row the server holds.       *)
(*                                                                         *)
(* A tap changes the page at once and sets the desired state; a timer      *)
(* sends it.  A state asked for while a write is in flight goes when that  *)
(* write returns.  The page may be hidden, which sends what waits with     *)
(* keepalive, and may come back as it was: nothing runs in it meanwhile,   *)
(* and its requests go on.  The queue is keyed by target, so targets do    *)
(* not affect one another; a like is a reaction with one kind.             *)
(*                                                                         *)
(* MaxTaps bounds the taps, MaxFailures the writes that fail, MaxHides the *)
(* times the page is hidden, MaxPaints the fresh paints.                   *)
(***************************************************************************)
EXTENDS Integers, Sequences

CONSTANTS
    Kind,      \* the kinds of reaction
    MaxTaps, MaxFailures, MaxHides, MaxPaints

NoKind == "none"
State == Kind \cup {NoKind}

ReactionAssumption ==
    /\ NoKind \notin Kind
    /\ {MaxTaps, MaxFailures, MaxHides, MaxPaints} \subseteq Nat

VARIABLES
    held,      \* the member's reaction row, NoKind when there is none
    shown,     \* what the page draws
    baseline,  \* what it drew before a run of taps, or <<>>
    entry,     \* the target's entry in the queue, or <<>>
    loose,     \* timers that run although no entry remembers them
    requests,  \* the writes that have not come back, as they were sent
    paint,     \* a fresh paint on its way, or <<>>
    lastTap,   \* the last state asked for
    failed,    \* whether the last write the server saw failed
    overtaken, \* whether the network let a request overtake an earlier one
    hidden,
    taps, failures, hides, paints

queue == <<entry, loose>>
bounds == <<taps, failures, hides, paints>>
vars == <<held, shown, baseline, queue, requests, paint, lastTap, failed, overtaken, hidden, bounds>>

Entry == [body : State, timer : BOOLEAN, inFlight : BOOLEAN, dirty : BOOLEAN]

\* Who waits for the answer: the entry; nobody; or the call of an entry that a
\* hidden page took out, which looks for the entry there is now.
Waiter == {"entry", "nobody", "refire"}
Request == [body : State, waiter : Waiter, status : {"sent", "ok", "failed"}]

Maybe(S) == {<<>>} \cup {<<x>> : x \in S}

TypeOK ==
    /\ held \in State /\ shown \in State /\ lastTap \in State
    /\ baseline \in Maybe(State)
    /\ entry \in Maybe(Entry)
    /\ loose \in 0..MaxHides
    /\ requests \in Seq(Request)
    /\ paint \in Maybe(State)
    /\ failed \in BOOLEAN /\ overtaken \in BOOLEAN /\ hidden \in BOOLEAN
    /\ taps \in 0..MaxTaps /\ failures \in 0..MaxFailures
    /\ hides \in 0..MaxHides /\ paints \in 0..MaxPaints

Init ==
    /\ held \in State /\ shown = held /\ lastTap = held
    /\ baseline = <<>> /\ entry = <<>> /\ loose = 0
    /\ requests = <<>> /\ paint = <<>>
    /\ failed = FALSE /\ overtaken = FALSE /\ hidden = FALSE
    /\ taps = 0 /\ failures = 0 /\ hides = 0 /\ paints = 0

---------------------------------------------------------------------------
isPending == entry # <<>>

\* Wrong on purpose: an entry with a write in flight is not marked.
MarkNothing(e) == e

\* fire, when a write is in flight: the newer state waits for its return.
MarkDirty(e) == [e EXCEPT !.dirty = TRUE]

\* fire: sends the entry's state, unless a write of it is in flight.
Fire(e) ==
    LET timed == [e EXCEPT !.timer = FALSE]
    IN  IF e.inFlight
        THEN entry' = <<MarkDirty(timed)>> /\ UNCHANGED requests
        ELSE /\ entry' = <<[timed EXCEPT !.inFlight = TRUE, !.dirty = FALSE]>>
             /\ requests' = Append(requests,
                    [body |-> e.body, waiter |-> "entry", status |-> "sent"])

\* A tap: the page draws it, and queueReaction sets the entry's timer anew.
Tap(next) ==
    /\ ~hidden /\ taps < MaxTaps /\ taps' = taps + 1
    /\ next # shown
    /\ lastTap' = next /\ shown' = next
    /\ baseline' = IF baseline = <<>> THEN <<shown>> ELSE baseline
    /\ entry' = IF isPending THEN <<[entry[1] EXCEPT !.body = next, !.timer = TRUE]>>
                ELSE <<[body |-> next, timer |-> TRUE, inFlight |-> FALSE, dirty |-> FALSE]>>
    /\ UNCHANGED <<held, loose, requests, paint, failed, overtaken, hidden, failures, hides, paints>>

TimerFires ==
    /\ ~hidden /\ isPending /\ entry[1].timer
    /\ Fire(entry[1])
    /\ UNCHANGED <<held, shown, baseline, loose, paint, lastTap, failed, overtaken, hidden, bounds>>

LooseTimerFires ==
    /\ ~hidden /\ loose > 0 /\ loose' = loose - 1
    /\ IF isPending THEN Fire(entry[1]) ELSE UNCHANGED <<entry, requests>>
    /\ UNCHANGED <<held, shown, baseline, paint, lastTap, failed, overtaken, hidden, bounds>>

\* POST /api/reactions: the row is set to the desired state.  The write may be
\* refused, or done while its answer is lost.
Serve(k, outcome) ==
    /\ k \in DOMAIN requests /\ requests[k].status = "sent"
    /\ overtaken' = (overtaken \/ \E i \in 1..k - 1 : requests[i].status = "sent")
    /\ held' = IF outcome = "refused" THEN held ELSE requests[k].body
    /\ failed' = (outcome # "ok")
    /\ requests' = [requests EXCEPT ![k].status = IF outcome = "ok" THEN "ok" ELSE "failed"]
    /\ IF outcome = "ok" THEN UNCHANGED failures
       ELSE failures < MaxFailures /\ failures' = failures + 1
    /\ UNCHANGED <<shown, baseline, queue, paint, lastTap, hidden, taps, hides, paints>>

Without(s, k) == SubSeq(s, 1, k - 1) \o SubSeq(s, k + 1, Len(s))

\* onSettled: a failure puts the baseline back.
Settle(ok) ==
    /\ baseline' = <<>>
    /\ shown' = IF ok \/ baseline = <<>> THEN shown ELSE baseline[1]

\* Wrong on purpose: an entry is not free again when its write is back.
StillInFlight(e) == e

Back(e) == [e EXCEPT !.inFlight = FALSE]

\* The rest of fire, when the answer to the entry's write is back.
Answered(k) ==
    LET e == Back(entry[1])
    IN  /\ ~hidden
        /\ k \in DOMAIN requests /\ requests[k].waiter = "entry"
        /\ requests[k].status # "sent"
        /\ \/ /\ e.timer
              /\ entry' = <<e>> /\ requests' = Without(requests, k)
              /\ UNCHANGED <<shown, baseline>>
           \/ /\ ~e.timer /\ e.dirty
              /\ entry' = <<[e EXCEPT !.inFlight = TRUE, !.dirty = FALSE]>>
              /\ requests' = Append(Without(requests, k),
                     [body |-> e.body, waiter |-> "entry", status |-> "sent"])
              /\ UNCHANGED <<shown, baseline>>
           \/ /\ ~e.timer /\ ~e.dirty
              /\ entry' = <<>> /\ requests' = Without(requests, k)
              /\ Settle(requests[k].status = "ok")
        /\ UNCHANGED <<held, loose, paint, lastTap, failed, overtaken, hidden, bounds>>

\* The answer to a write whose entry was taken out: one that was marked dirty
\* fires the entry there is now, whose timer runs on.
AnsweredLate(k) ==
    LET rest == Without(requests, k)
        e == entry[1]
    IN  /\ ~hidden
        /\ k \in DOMAIN requests /\ requests[k].waiter # "entry"
        /\ requests[k].status # "sent"
        /\ IF requests[k].waiter = "refire" /\ isPending
           THEN /\ loose' = IF e.timer THEN loose + 1 ELSE loose
                /\ entry' = <<IF e.inFlight THEN [e EXCEPT !.timer = FALSE, !.dirty = TRUE]
                              ELSE [e EXCEPT !.timer = FALSE, !.inFlight = TRUE]>>
                /\ requests' = IF e.inFlight THEN rest
                               ELSE Append(rest, [body |-> e.body, waiter |-> "entry",
                                                  status |-> "sent"])
           ELSE requests' = rest /\ UNCHANGED queue
        /\ UNCHANGED <<held, shown, baseline, paint, lastTap, failed, overtaken, hidden, bounds>>

\* flushOnHide: what waits goes with keepalive, whatever is in flight.
Hide ==
    LET waits == isPending /\ (entry[1].timer \/ entry[1].dirty)
        waiter == IF entry[1].timer THEN "nobody" ELSE "refire"
    IN  /\ ~hidden /\ hidden' = TRUE
        /\ hides < MaxHides /\ hides' = hides + 1
        /\ IF waits
           THEN /\ entry' = <<>>
                /\ requests' = Append(
                       [k \in DOMAIN requests |->
                           IF requests[k].waiter = "entry"
                           THEN [requests[k] EXCEPT !.waiter = waiter] ELSE requests[k]],
                       [body |-> entry[1].body, waiter |-> "nobody", status |-> "sent"])
           ELSE UNCHANGED <<entry, requests>>
        /\ UNCHANGED <<held, shown, baseline, loose, paint, lastTap, failed, overtaken, taps, failures, paints>>

\* The page comes back from the browser's cache as it was.
Return ==
    /\ hidden /\ hidden' = FALSE
    /\ UNCHANGED <<held, shown, baseline, queue, requests, paint, lastTap, failed, overtaken, bounds>>

\* A fresh paint is read from the server, and arrives later.
ReadPaint ==
    /\ paint = <<>> /\ paint' = <<held>>
    /\ paints < MaxPaints /\ paints' = paints + 1
    /\ UNCHANGED <<held, shown, baseline, queue, requests, lastTap, failed, overtaken, hidden, taps, failures, hides>>

\* What a paint that arrives leaves on the page.
Drawn == IF isPending THEN shown ELSE paint[1]

PaintArrives ==
    /\ ~hidden /\ paint # <<>> /\ paint' = <<>>
    /\ shown' = Drawn
    /\ UNCHANGED <<held, baseline, queue, requests, lastTap, failed, overtaken, hidden, bounds>>

Next ==
    \/ \E s \in State : Tap(s)
    \/ TimerFires \/ LooseTimerFires
    \/ \E k \in DOMAIN requests, o \in {"ok", "lost", "refused"} : Serve(k, o)
    \/ \E k \in DOMAIN requests : Answered(k) \/ AnsweredLate(k)
    \/ Hide \/ Return \/ ReadPaint \/ PaintArrives

Spec == Init /\ [][Next]_vars

\* Timers fire, requests reach the server and their answers the page.
Fairness ==
    /\ WF_vars(TimerFires)
    /\ WF_vars(\E k \in DOMAIN requests : Serve(k, "ok"))
    /\ WF_vars(\E k \in DOMAIN requests : Answered(k))

FairSpec == Spec /\ Fairness

---------------------------------------------------------------------------
(***************************************************************************)
(* The last state asked for stands.  While it waits or is being written    *)
(* the page shows it: no paint read before the write and no earlier answer *)
(* draws over it.  Once nothing waits and nothing is on its way the server *)
(* holds it, unless the last write it saw failed or the write of a hidden  *)
(* page overtook the one in flight.                                        *)
(***************************************************************************)
LastTapStands ==
    IF isPending THEN shown = lastTap
    ELSE requests = <<>> => held = lastTap \/ failed \/ overtaken

\* Every state asked for is settled, unless the page stays hidden.
TapsSettle == isPending ~> ~isPending \/ hidden
============================================================================
