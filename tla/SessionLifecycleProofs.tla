----------------------- MODULE SessionLifecycleProofs -----------------------
(***************************************************************************)
(* Theorems about SessionLifecycle, for every set of administrators, every *)
(* set of windows and every bound; the last two for one administrator.     *)
(***************************************************************************)
EXTENDS SessionLifecycle, TLAPS

USE DEF NoTime

\* What an administrator's action can have read and be about to write.
LEMMA ActionEdges ==
    ASSUME NEW action \in DOMAIN ActionEdge, NEW e \in ActionEdge[action]
    PROVE  /\ e[1] \in SessionState
           /\ \/ e = <<"published", "in_progress">>
              \/ e = <<"in_progress", "completed">>
              \/ e = <<"completed", "archived">>
              \/ e = <<"archived", "completed">>
              \/ e[2] = "cancelled"
<1>1. DOMAIN ActionEdge = {"start", "complete", "archive", "reopen", "cancel"}
  BY DEF ActionEdge
<1>2. CASE action \in {"start", "complete", "archive", "reopen"}
  BY <1>2 DEF ActionEdge, SessionState
<1>3. CASE action = "cancel"
  BY <1>3 DEF ActionEdge, SessionState
<1> QED
  BY <1>1, <1>2, <1>3


LEMMA MoveTypes ==
    ASSUME TypeOK, NEW from \in SessionState, NEW to \in SessionState,
           Move(from, to)
    PROVE  /\ state' \in SessionState /\ fannedOut' \in BOOLEAN
           /\ log' \in Seq(SessionState \X SessionState)
<1>1. <<from, to>> \in SessionState \X SessionState
  OBVIOUS
<1>2. log' \in Seq(SessionState \X SessionState)
  BY <1>1 DEF Move, TypeOK
<1>3. fannedOut' \in BOOLEAN
  BY Zenon DEF Move, FanOut, TypeOK
<1> QED
  BY <1>2, <1>3 DEF Move

LEMMA StampTypes ==
    ASSUME TypeOK, NEW to \in SessionState, NEW at \in Time,
           StampMove(to, at), days' = days
    PROVE  completedAt' \in Int /\ openDays' \in 0..days'
BY LifecycleAssumption DEF StampMove, TypeOK, Time, LifecycleAssumption

LEMMA CallTypes ==
    ASSUME TypeOK, NEW a \in Admin, NEW c \in Call,
           call' = [call EXCEPT ![a] = c]
    PROVE  call' \in [Admin -> Call]
BY DEF TypeOK

LEMMA LifecycleTypeInit == Init => TypeOK
<1> SUFFICES ASSUME Init PROVE TypeOK
  OBVIOUS
<1>1. call \in [Admin -> Call]
  BY DEF Init, Call
<1>2. /\ days \in 0..MaxDays /\ openDays \in 0..days /\ now \in Time
      /\ completedAt \in Int /\ publishedAt \in Time \cup {NoTime}
  BY LifecycleAssumption DEF Init, LifecycleAssumption, Time
<1>3. log \in Seq(SessionState \X SessionState)
  BY DEF Init
<1> QED
  BY <1>1, <1>2, <1>3 DEF Init, TypeOK, SessionState, Mode

\* Every variable has its type; no more switches are open than there are days.
THEOREM LifecycleTypeCorrect == Spec => []TypeOK
<1>1. Init => TypeOK
  BY LifecycleTypeInit
<1>2. TypeOK /\ [Next]_vars => TypeOK'
  <2> SUFFICES ASSUME TypeOK, [Next]_vars PROVE TypeOK'
    OBVIOUS
  <2> USE LifecycleAssumption DEF LifecycleAssumption
  <2>0. Idle \in Call
    BY DEF Call
  <2>1. ASSUME NEW a \in Admin, BeginTransition(a) PROVE TypeOK'
    <3>1. PICK action \in DOMAIN ActionEdge :
            \E e \in ActionEdge[action] :
              /\ e[1] = state
              /\ call' = [call EXCEPT ![a] = [op |-> "move", from |-> e[1],
                                              to |-> e[2], at |-> now]]
      BY <2>1 DEF BeginTransition
    <3>2. PICK e \in ActionEdge[action] :
              /\ e[1] = state
              /\ call' = [call EXCEPT ![a] = [op |-> "move", from |-> e[1],
                                              to |-> e[2], at |-> now]]
      BY <3>1
    <3>3. e[1] \in SessionState /\ e[2] \in SessionState
      BY ActionEdges DEF SessionState
    <3>4. [op |-> "move", from |-> e[1], to |-> e[2], at |-> now] \in Call
      BY <3>3 DEF Call, MoveCall, TypeOK
    <3>5. call' \in [Admin -> Call]
      BY <3>2, <3>4, CallTypes
    <3> QED
      BY <2>1, <3>5 DEF BeginTransition, TypeOK, stamps, settings
  <2>2. ASSUME NEW a \in Admin, TransitionSession(a) PROVE TypeOK'
    <3>1. /\ call[a].from \in SessionState /\ call[a].to \in SessionState
          /\ call[a].at \in Time
      BY <2>2 DEF TransitionSession, TypeOK, Call, MoveCall, PublishCall,
                  ScheduleCall, Idle
    <3>2. /\ state' \in SessionState /\ fannedOut' \in BOOLEAN
          /\ log' \in Seq(SessionState \X SessionState)
      BY <2>2, <3>1, MoveTypes DEF TransitionSession
    <3>3. completedAt' \in Int /\ openDays' \in 0..days'
      BY <2>2, <3>1, StampTypes DEF TransitionSession, settings
    <3>4. call' \in [Admin -> Call]
      BY <2>0, <2>2, CallTypes DEF TransitionSession, Returns
    <3> QED
      BY <2>2, <3>2, <3>3, <3>4 DEF TransitionSession, TypeOK, settings
  <2>3. ASSUME NEW a \in Admin, BeginPublish(a) PROVE TypeOK'
    <3>1. [op |-> "publish", from |-> state, at |-> now] \in Call
      BY DEF Call, PublishCall, TypeOK
    <3>2. call' \in [Admin -> Call]
      BY <2>3, <3>1, CallTypes DEF BeginPublish
    <3> QED
      BY <2>3, <3>2 DEF BeginPublish, TypeOK, stamps, settings
  <2>4. ASSUME NEW a \in Admin, PublishSession(a) PROVE TypeOK'
    <3>1. call[a].from \in SessionState /\ call[a].at \in Time
      BY <2>4 DEF PublishSession, TypeOK, Call, MoveCall, PublishCall,
                  ScheduleCall, Idle
    <3>2. /\ state' \in SessionState /\ fannedOut' \in BOOLEAN
          /\ log' \in Seq(SessionState \X SessionState)
      BY <2>4, <3>1, MoveTypes DEF PublishSession, SessionState
    <3>3. call' \in [Admin -> Call]
      BY <2>0, <2>4, CallTypes DEF PublishSession, Returns
    <3> QED
      BY <2>4, <3>1, <3>2, <3>3 DEF PublishSession, TypeOK, settings
  <2>5. ASSUME NEW a \in Admin, PublishPastSession(a) PROVE TypeOK'
    <3>1. /\ state' \in SessionState /\ fannedOut' \in BOOLEAN
          /\ log' \in Seq(SessionState \X SessionState)
      BY <2>5, MoveTypes DEF PublishPastSession, SessionState, TypeOK
    <3>2. window.ends \in Nat
      BY <2>5 DEF PublishPastSession, TypeOK, Window
    <3> QED
      BY <2>5, <3>1, <3>2 DEF PublishPastSession, TypeOK, settings
  <2>6. ASSUME NEW a \in Admin, BeginSchedule(a) PROVE TypeOK'
    <3>1. PICK w \in Windows, n \in 1..MaxDays, named \in SUBSET BOOLEAN :
            call' = [call EXCEPT ![a] =
                       [op |-> "schedule", window |-> w, days |-> n,
                        named |-> named, walkIns |-> allowWalkIns,
                        mode |-> certMode]]
      BY <2>6 DEF BeginSchedule
    <3>2. [op |-> "schedule", window |-> w, days |-> n, named |-> named,
           walkIns |-> allowWalkIns, mode |-> certMode] \in Call
      BY DEF Call, ScheduleCall, TypeOK
    <3>3. call' \in [Admin -> Call]
      BY <3>1, <3>2, CallTypes
    <3> QED
      BY <2>6, <3>3 DEF BeginSchedule, TypeOK, stamps, settings
  <2>7. ASSUME NEW a \in Admin, ScheduleSession(a) PROVE TypeOK'
    <3>1. call[a] \in ScheduleCall
      BY <2>7 DEF ScheduleSession, TypeOK, Call, MoveCall, PublishCall, Idle
    <3>2. /\ call[a].window \in Windows /\ call[a].days \in 1..MaxDays
          /\ call[a].walkIns \in BOOLEAN /\ call[a].mode \in Mode
      BY <3>1 DEF ScheduleCall
    <3>3. openDays' \in 0..call[a].days
      BY <2>7, <3>2 DEF ScheduleSession, OpenAfter, TypeOK
    <3>4. allowWalkIns' \in BOOLEAN
      <4>1. CASE call[a].named = {}
        BY <2>7, <3>2, <4>1 DEF ScheduleSession
      <4>2. CASE call[a].named # {}
        <5>1. allowWalkIns' = (TRUE \in call[a].named)
          BY <2>7, <4>2 DEF ScheduleSession
        <5> QED
          BY <5>1
      <4> QED
        BY <4>1, <4>2
    <3>5. call' \in [Admin -> Call]
      BY <2>0, <2>7, CallTypes DEF ScheduleSession, Returns
    <3>6. days' \in 0..MaxDays /\ openDays' \in 0..days'
      BY <2>7, <3>2, <3>3 DEF ScheduleSession
    <3>7. window' \in Windows \cup {NoWindow} /\ certMode' \in Mode
      BY <2>7, <3>2 DEF ScheduleSession
    <3>8. UNCHANGED <<state, publishedAt, completedAt, fannedOut, deleted,
                      log, now>>
      BY <2>7 DEF ScheduleSession, stamps
    <3> QED
      BY <3>4, <3>5, <3>6, <3>7, <3>8 DEF TypeOK
  <2>8. CASE SetSessionWalkIns
    BY <2>8 DEF SetSessionWalkIns, TypeOK, stamps
  <2>9. ASSUME NEW a \in Admin, SetCertificateMode(a) PROVE TypeOK'
    <3>1. fannedOut' \in BOOLEAN
      BY <2>9, Zenon DEF SetCertificateMode, TypeOK
    <3> QED
      BY <2>9, <3>1 DEF SetCertificateMode, TypeOK, stamps
  <2>10. CASE SetCheckInOpen
    BY <2>10 DEF SetCheckInOpen, TypeOK, stamps, settings
  <2>11. ASSUME NEW a \in Admin, DeleteSession(a) PROVE TypeOK'
    <3>1. CASE Move(state, "cancelled") /\ StampMove("cancelled", now)
      <4>1. state \in SessionState /\ "cancelled" \in SessionState /\ now \in Time
        BY DEF TypeOK, SessionState
      <4>2. /\ state' \in SessionState /\ fannedOut' \in BOOLEAN
            /\ log' \in Seq(SessionState \X SessionState)
        BY <3>1, <4>1, MoveTypes
      <4>3. completedAt' \in Int /\ openDays' \in 0..days'
        BY <2>11, <3>1, <4>1, StampTypes DEF DeleteSession, settings
      <4> QED
        BY <2>11, <4>2, <4>3 DEF DeleteSession, TypeOK, settings
    <3>2. CASE UNCHANGED <<state, fannedOut, log, completedAt, openDays>>
      BY <2>11, <3>2 DEF DeleteSession, TypeOK, settings
    <3> QED
      BY <2>11, <3>1, <3>2 DEF DeleteSession
  <2>12. ASSUME NEW a \in Admin, Abandon(a) PROVE TypeOK'
    <3>1. call' \in [Admin -> Call]
      BY <2>0, <2>12, CallTypes DEF Abandon, Returns
    <3> QED
      BY <2>12, <3>1 DEF Abandon, TypeOK, stamps, settings
  <2>13. CASE ClockStart
    <3>1. /\ state' \in SessionState /\ fannedOut' \in BOOLEAN
          /\ log' \in Seq(SessionState \X SessionState)
      BY <2>13, MoveTypes DEF ClockStart, SessionState
    <3> QED
      BY <2>13, <3>1 DEF ClockStart, TypeOK, stamps, settings
  <2>14. CASE ClockComplete
    <3>1. /\ state' \in SessionState /\ fannedOut' \in BOOLEAN
          /\ log' \in Seq(SessionState \X SessionState)
      BY <2>14, MoveTypes DEF ClockComplete, SessionState
    <3> QED
      BY <2>14, <3>1 DEF ClockComplete, TypeOK, settings, Time
  <2>15. CASE Tick
    BY <2>15 DEF Tick, TypeOK, Time, stamps, settings
  <2>16. CASE UNCHANGED vars
    BY <2>16 DEF vars, TypeOK
  <2> QED
    BY <2>1, <2>2, <2>3, <2>4, <2>5, <2>6, <2>7, <2>8, <2>9, <2>10, <2>11,
       <2>12, <2>13, <2>14, <2>15, <2>16 DEF Next
<1> QED
  BY <1>1, <1>2, PTL DEF Spec

-----------------------------------------------------------------------------
(***************************************************************************)
(* The induction.  A call's read is stale at its write, so what must be    *)
(* known of a call is only which states it can have read at all: publish   *)
(* reads draft, because the states between draft and published are never   *)
(* committed, and an action's read and its target are an edge.             *)
(***************************************************************************)
Committed == {"draft", "published", "in_progress", "completed", "archived",
              "cancelled"}

MoveReads(c) ==
    c.op = "move" => c.to \in {"in_progress", "completed", "archived", "cancelled"}
PublishReads(c) == c.op = "publish" => c.from = "draft"

StampsFollowState ==
    /\ state = "draft" => publishedAt = NoTime
    /\ state \in {"draft", "published", "in_progress"} => completedAt = NoTime

LifecycleInv ==
    /\ TypeOK
    /\ state \in Committed
    /\ \A a \in Admin : MoveReads(call[a]) /\ PublishReads(call[a])
    /\ StampsFollowState

\* A step that changes the state, and what it does to the stamps.
Stamped ==
    /\ publishedAt' = publishedAt \/ (state = "draft" /\ state' # "draft")
    /\ completedAt' = completedAt
         \/ /\ completedAt = NoTime
            /\ state' \notin {"draft", "published", "in_progress"}

Drawn == state' = state \/ <<state, state'>> \in DrawnMoves

\* A step changes the state along the diagram, and each stamp at most once.
LEMMA StepIsDrawn ==
    ASSUME LifecycleInv, [Next]_vars
    PROVE  Drawn /\ Stamped /\ state' \in Committed
<1> USE DEF Drawn, Stamped, DrawnMoves, Committed
<1>1. ASSUME NEW a \in Admin, TransitionSession(a)
      PROVE  Drawn /\ Stamped /\ state' \in Committed
  <2>1. call[a].to \in {"in_progress", "completed", "archived", "cancelled"}
    BY <1>1 DEF TransitionSession, LifecycleInv, MoveReads
  <2>2. state' = call[a].to /\ Allows(state, state')
    BY <1>1 DEF TransitionSession, Move
  <2>3. Drawn /\ state' \in Committed
    BY <2>1, <2>2 DEF Allows, Edge, LifecycleInv
  <2>4. Stamped
    BY <1>1, <2>2 DEF TransitionSession, StampMove
  <2> QED
    BY <2>3, <2>4
<1>2. ASSUME NEW a \in Admin, PublishSession(a)
      PROVE  Drawn /\ Stamped /\ state' \in Committed
  <2>1. call[a].from = "draft"
    BY <1>2 DEF PublishSession, LifecycleInv, PublishReads
  <2>2. Allows(state, "submitted")
    BY <1>2, <2>1 DEF PublishSession, FirstStep
  <2>3. state = "draft"
    BY <2>2 DEF Allows, Edge, LifecycleInv
  <2> QED
    BY <1>2, <2>3 DEF PublishSession, Move
<1>3. ASSUME NEW a \in Admin, PublishPastSession(a)
      PROVE  Drawn /\ Stamped /\ state' \in Committed
  <2>1. Retrospective /\ state \in {"draft", "published"} /\ state' = "completed"
    BY <1>3 DEF PublishPastSession, Move, LifecycleInv, BeforePublication
  <2> QED
    BY <1>3, <2>1 DEF PublishPastSession, LifecycleInv, StampsFollowState
<1>4. ASSUME NEW a \in Admin, DeleteSession(a)
      PROVE  Drawn /\ Stamped /\ state' \in Committed
  BY <1>4 DEF DeleteSession, Move, StampMove, LifecycleInv
<1>5. CASE ClockStart
  BY <1>5 DEF ClockStart, Move, stamps
<1>6. CASE ClockComplete
  BY <1>6 DEF ClockComplete, Move, LifecycleInv, StampsFollowState
<1>7. CASE UNCHANGED <<state, publishedAt, completedAt>>
  BY <1>7 DEF LifecycleInv
<1>8. ASSUME NEW a \in Admin,
             BeginTransition(a) \/ BeginPublish(a) \/ BeginSchedule(a)
               \/ ScheduleSession(a) \/ SetCertificateMode(a) \/ Abandon(a)
      PROVE  UNCHANGED <<state, publishedAt, completedAt>>
  BY <1>8 DEF BeginTransition, BeginPublish, BeginSchedule, ScheduleSession,
              SetCertificateMode, Abandon, stamps
<1>9. CASE SetSessionWalkIns \/ SetCheckInOpen \/ Tick \/ UNCHANGED vars
  BY <1>7, <1>9 DEF SetSessionWalkIns, SetCheckInOpen, Tick, vars, stamps
<1> QED
  BY <1>1, <1>2, <1>3, <1>4, <1>5, <1>6, <1>7, <1>8, <1>9 DEF Next

\* A call in flight still carries what it read when it began.
LEMMA StepKeepsReads ==
    ASSUME LifecycleInv, [Next]_vars
    PROVE  \A a \in Admin : MoveReads(call'[a]) /\ PublishReads(call'[a])
<1> USE DEF MoveReads, PublishReads
<1> DEFINE Good(c) == MoveReads(c) /\ PublishReads(c)
<1>1. ASSUME NEW a \in Admin, NEW c, call' = [call EXCEPT ![a] = c], Good(c)
      PROVE  \A b \in Admin : Good(call'[b])
  BY <1>1 DEF LifecycleInv, TypeOK
<1>2. CASE call' = call
  BY <1>2 DEF LifecycleInv
<1>3. Good(Idle)
  BY DEF Idle
<1>4. ASSUME NEW a \in Admin, BeginTransition(a)
      PROVE  \A b \in Admin : Good(call'[b])
  <2>1. PICK action \in DOMAIN ActionEdge : \E e \in ActionEdge[action] :
          call' = [call EXCEPT ![a] = [op |-> "move", from |-> e[1],
                                       to |-> e[2], at |-> now]]
    BY <1>4 DEF BeginTransition
  <2>2. PICK e \in ActionEdge[action] :
          call' = [call EXCEPT ![a] = [op |-> "move", from |-> e[1],
                                       to |-> e[2], at |-> now]]
    BY <2>1
  <2>3. e[2] \in {"in_progress", "completed", "archived", "cancelled"}
    BY ActionEdges
  <2>4. Good([op |-> "move", from |-> e[1], to |-> e[2], at |-> now])
    BY <2>3
  <2> QED
    BY <1>1, <2>2, <2>4
<1>5. ASSUME NEW a \in Admin, BeginPublish(a)
      PROVE  \A b \in Admin : Good(call'[b])
  <2>1. state = "draft"
    BY <1>5 DEF BeginPublish, BeforePublication, LifecycleInv, Committed
  <2>2. Good([op |-> "publish", from |-> state, at |-> now])
    BY <2>1
  <2> QED
    BY <1>1, <1>5, <2>2 DEF BeginPublish
<1>6. ASSUME NEW a \in Admin, BeginSchedule(a)
      PROVE  \A b \in Admin : Good(call'[b])
  <2>1. PICK w \in Windows, n \in 1..MaxDays, named \in SUBSET BOOLEAN :
          call' = [call EXCEPT ![a] =
                     [op |-> "schedule", window |-> w, days |-> n,
                      named |-> named, walkIns |-> allowWalkIns,
                      mode |-> certMode]]
    BY <1>6 DEF BeginSchedule
  <2>2. Good([op |-> "schedule", window |-> w, days |-> n, named |-> named,
              walkIns |-> allowWalkIns, mode |-> certMode])
    OBVIOUS
  <2> QED
    BY <1>1, <2>1, <2>2
<1>7. ASSUME NEW a \in Admin,
             TransitionSession(a) \/ PublishSession(a) \/ ScheduleSession(a)
               \/ Abandon(a)
      PROVE  \A b \in Admin : Good(call'[b])
  <2>1. call' = [call EXCEPT ![a] = Idle]
    BY <1>7 DEF TransitionSession, PublishSession, ScheduleSession, Abandon,
                Returns
  <2> QED
    BY <1>1, <1>3, <2>1
<1>8. ASSUME NEW a \in Admin,
             PublishPastSession(a) \/ SetCertificateMode(a) \/ DeleteSession(a)
      PROVE  call' = call
  BY <1>8 DEF PublishPastSession, SetCertificateMode, DeleteSession
<1>9. CASE \/ SetSessionWalkIns \/ SetCheckInOpen \/ ClockStart
           \/ ClockComplete \/ Tick \/ UNCHANGED vars
  BY <1>2, <1>9 DEF SetSessionWalkIns, SetCheckInOpen, ClockStart,
                    ClockComplete, Tick, vars
<1> QED
  BY <1>2, <1>4, <1>5, <1>6, <1>7, <1>8, <1>9 DEF Next

LEMMA LifecycleInvariant == Spec => []LifecycleInv
<1>1. Init => LifecycleInv
  <2>1. Init => TypeOK
    BY LifecycleTypeInit
  <2>2. ASSUME Init PROVE \A a \in Admin : MoveReads(call[a]) /\ PublishReads(call[a])
    BY <2>2 DEF Init, MoveReads, PublishReads, Idle
  <2> QED
    BY <2>1, <2>2 DEF Init, LifecycleInv, Committed, StampsFollowState
<1>2. LifecycleInv /\ TypeOK' /\ [Next]_vars => LifecycleInv'
  <2> SUFFICES ASSUME LifecycleInv, TypeOK', [Next]_vars PROVE LifecycleInv'
    OBVIOUS
  <2>1. Drawn /\ Stamped /\ state' \in Committed
    BY StepIsDrawn
  <2>2. \A a \in Admin : MoveReads(call'[a]) /\ PublishReads(call'[a])
    BY StepKeepsReads
  <2>3. StampsFollowState'
    BY <2>1 DEF LifecycleInv, StampsFollowState, Stamped, Drawn, DrawnMoves
  <2> QED
    BY <2>1, <2>2, <2>3 DEF LifecycleInv
<1> QED
  BY <1>1, <1>2, LifecycleTypeCorrect, PTL DEF Spec

\* Whatever the calls in flight had read, the session moves along the diagram.
THEOREM SessionOnlyMovesAsDrawn == Spec => OnlyDrawnMoves
<1>1. LifecycleInv /\ [Next]_vars =>
        [state' = state \/ <<state, state'>> \in DrawnMoves]_vars
  BY StepIsDrawn DEF Drawn
<1> QED
  BY <1>1, LifecycleInvariant, PTL DEF Spec, OnlyDrawnMoves

\* published_at and completed_at never change once they are written.
THEOREM StampsNeverChange == Spec => StampsAreWrittenOnce
<1>1. LifecycleInv /\ [Next]_vars =>
        [/\ publishedAt # NoTime => publishedAt' = publishedAt
         /\ completedAt # NoTime => completedAt' = completedAt]_vars
  BY StepIsDrawn DEF Stamped, LifecycleInv, StampsFollowState
<1> QED
  BY <1>1, LifecycleInvariant, PTL DEF Spec, StampsAreWrittenOnce

\* The log's last row is the state, although a row's origin may be stale.
THEOREM LogEndsInTheState == Spec => []LogEndsInState
<1>1. Init => LogEndsInState
  BY DEF Init, LogEndsInState
<1>2. TypeOK /\ LogEndsInState /\ [Next]_vars => LogEndsInState'
  <2> SUFFICES ASSUME TypeOK, LogEndsInState, [Next]_vars PROVE LogEndsInState'
    OBVIOUS
  <2>1. ASSUME NEW from \in SessionState, NEW to \in SessionState, Move(from, to)
        PROVE  LogEndsInState'
    <3>1. <<from, to>> \in SessionState \X SessionState
      OBVIOUS
    <3>2. /\ log' # << >> /\ log'[Len(log')] = <<from, to>>
      BY <2>1, <3>1 DEF Move, TypeOK
    <3> QED
      BY <2>1, <3>2 DEF Move, LogEndsInState
  <2>2. CASE UNCHANGED <<state, log>>
    BY <2>2 DEF LogEndsInState
  <2>3. ASSUME NEW a \in Admin, TransitionSession(a) PROVE LogEndsInState'
    <3>1. call[a].from \in SessionState /\ call[a].to \in SessionState
      BY <2>3 DEF TransitionSession, TypeOK, Call, MoveCall, PublishCall,
                  ScheduleCall, Idle
    <3> QED
      BY <2>1, <2>3, <3>1 DEF TransitionSession
  <2>4. ASSUME NEW a \in Admin, PublishSession(a) PROVE LogEndsInState'
    <3>1. call[a].from \in SessionState
      BY <2>4 DEF PublishSession, TypeOK, Call, MoveCall, PublishCall,
                  ScheduleCall, Idle
    <3> QED
      BY <2>1, <2>4, <3>1 DEF PublishSession, SessionState
  <2>5. ASSUME NEW a \in Admin, PublishPastSession(a) PROVE LogEndsInState'
    BY <2>1, <2>5 DEF PublishPastSession, SessionState, TypeOK
  <2>6. ASSUME NEW a \in Admin, DeleteSession(a) PROVE LogEndsInState'
    BY <2>1, <2>2, <2>6 DEF DeleteSession, SessionState, TypeOK
  <2>7. CASE ClockStart \/ ClockComplete
    BY <2>1, <2>7 DEF ClockStart, ClockComplete, SessionState
  <2>8. ASSUME NEW a \in Admin,
               BeginTransition(a) \/ BeginPublish(a) \/ BeginSchedule(a)
                 \/ ScheduleSession(a) \/ SetCertificateMode(a) \/ Abandon(a)
        PROVE  UNCHANGED <<state, log>>
    BY <2>8 DEF BeginTransition, BeginPublish, BeginSchedule, ScheduleSession,
                SetCertificateMode, Abandon
  <2>9. CASE SetSessionWalkIns \/ SetCheckInOpen \/ Tick \/ UNCHANGED vars
    BY <2>2, <2>9 DEF SetSessionWalkIns, SetCheckInOpen, Tick, vars
  <2> QED
    BY <2>2, <2>3, <2>4, <2>5, <2>6, <2>7, <2>8, <2>9 DEF Next
<1> QED
  BY <1>1, <1>2, LifecycleTypeCorrect, PTL DEF Spec

-----------------------------------------------------------------------------
\* One administrator: no call of another comes between a read and its write.
OneAdmin == \A a, b \in Admin : a = b

\* A schedule in flight was begun before any cancellation, and would write the
\* certificate mode back as it is.
ScheduleReads(c) == c.op = "schedule" => state # "cancelled" /\ c.mode = certMode

OneAdminInv ==
    /\ CancelledIsClosed /\ SwitchedOnMeansFannedOut
    /\ \A a \in Admin : ScheduleReads(call[a])

\* A move closes what it cancels and fans out what it completes.
LEMMA MoveFansOut ==
    ASSUME TypeOK, SwitchedOnMeansFannedOut, NEW from, NEW to, Move(from, to),
           certMode' = certMode,
           to = "archived" => state \in {"completed", "archived"}
    PROVE  SwitchedOnMeansFannedOut'
<1>1. state' = to /\ fannedOut' = (fannedOut \/ (/\ to = "completed" /\ state # "completed"
                                               /\ certMode # "off"))
  BY DEF Move, FanOut
<1>2. ASSUME state' \in {"completed", "archived"}, certMode # "off" PROVE fannedOut'
  <2>1. CASE to = "completed" /\ state # "completed"
    BY Zenon, <1>1, <1>2, <2>1
  <2>2. CASE ~(to = "completed" /\ state # "completed")
    <3>1. state \in {"completed", "archived"}
      BY <1>1, <1>2, <2>2
    <3>2. fannedOut
      BY <1>2, <3>1 DEF SwitchedOnMeansFannedOut
    <3> QED
      BY Zenon, <1>1, <3>2
  <2> QED
    BY <2>1, <2>2
<1> QED
  BY <1>2 DEF SwitchedOnMeansFannedOut

LEMMA OneAdminStep ==
    ASSUME TypeOK, TypeOK', OneAdminInv, OneAdmin, [Next]_vars
    PROVE  OneAdminInv'
<1> USE DEF ScheduleReads
<1>1. ASSUME UNCHANGED <<state, openDays, certMode, fannedOut, call>> PROVE OneAdminInv'
  BY <1>1 DEF OneAdminInv, CancelledIsClosed, SwitchedOnMeansFannedOut
<1>2. ASSUME NEW a \in Admin, NEW c, call' = [call EXCEPT ![a] = c],
             c.op = "schedule" => state # "cancelled" /\ c.mode = certMode,
             UNCHANGED <<state, openDays, certMode, fannedOut>>
      PROVE  OneAdminInv'
  BY <1>2 DEF OneAdminInv, CancelledIsClosed, SwitchedOnMeansFannedOut, TypeOK
<1>3. ASSUME NEW a \in Admin, BeginTransition(a) PROVE OneAdminInv'
  <2>1. PICK action \in DOMAIN ActionEdge : \E e \in ActionEdge[action] :
          call' = [call EXCEPT ![a] = [op |-> "move", from |-> e[1],
                                       to |-> e[2], at |-> now]]
    BY <1>3 DEF BeginTransition
  <2>2. PICK e \in ActionEdge[action] :
          call' = [call EXCEPT ![a] = [op |-> "move", from |-> e[1],
                                       to |-> e[2], at |-> now]]
    BY <2>1
  <2> QED
    BY <1>2, <1>3, <2>2 DEF BeginTransition, settings
<1>4. ASSUME NEW a \in Admin, BeginPublish(a) PROVE OneAdminInv'
  BY <1>2, <1>4 DEF BeginPublish, settings
<1>5. ASSUME NEW a \in Admin, BeginSchedule(a) PROVE OneAdminInv'
  <2>1. PICK w \in Windows, n \in 1..MaxDays, named \in {{}, {TRUE}, {FALSE}} :
          call' = [call EXCEPT ![a] =
                     [op |-> "schedule", window |-> w, days |-> n,
                      named |-> named, walkIns |-> allowWalkIns,
                      mode |-> certMode]]
    BY <1>5 DEF BeginSchedule
  <2>2. state # "cancelled"
    BY <1>5 DEF BeginSchedule
  <2> QED
    BY <1>2, <1>5, <2>1, <2>2 DEF BeginSchedule, settings
<1>6. ASSUME NEW a \in Admin, Abandon(a) PROVE OneAdminInv'
  BY <1>2, <1>6 DEF Abandon, Returns, Idle, settings
<1>7. ASSUME NEW a \in Admin, TransitionSession(a) PROVE OneAdminInv'
  <2> DEFINE c == call[a]
  <2>1. /\ Allows(state, c.to) /\ Move(c.from, c.to) /\ StampMove(c.to, c.at)
        /\ call' = [call EXCEPT ![a] = Idle] /\ certMode' = certMode
    BY <1>7 DEF TransitionSession, Returns, settings
  <2>2. call'[a] = Idle
    BY <2>1 DEF TypeOK
  <2>3. \A b \in Admin : call'[b].op # "schedule"
    BY <2>2 DEF OneAdmin, Idle
  <2> HIDE DEF c
  <2>4. state' = c.to /\ (c.to = "cancelled" => openDays' = 0)
    BY <2>1 DEF Move, StampMove
  <2>5. c.to = "archived" => state \in {"completed", "archived"}
    BY <2>1 DEF Allows, Edge
  <2>6. SwitchedOnMeansFannedOut'
    BY <2>1, <2>5, MoveFansOut DEF OneAdminInv
  <2> QED
    BY <2>3, <2>4, <2>6 DEF OneAdminInv, CancelledIsClosed
<1>8. ASSUME NEW a \in Admin, PublishSession(a) PROVE OneAdminInv'
  <2>1. /\ Move(call[a].from, "published") /\ certMode' = certMode
        /\ call' = [call EXCEPT ![a] = Idle]
    BY <1>8 DEF PublishSession, Returns, settings
  <2>2. \A b \in Admin : call'[b].op # "schedule"
    BY <2>1 DEF OneAdmin, Idle, TypeOK
  <2>3. SwitchedOnMeansFannedOut'
    BY <2>1, MoveFansOut DEF OneAdminInv
  <2>4. state' = "published"
    BY <2>1 DEF Move
  <2> QED
    BY <2>2, <2>3, <2>4 DEF OneAdminInv, CancelledIsClosed
<1>9. ASSUME NEW a \in Admin, PublishPastSession(a) PROVE OneAdminInv'
  <2>1. /\ Move(state, "completed") /\ certMode' = certMode /\ call' = call
    BY <1>9 DEF PublishPastSession, settings
  <2>2. \A b \in Admin : call'[b].op # "schedule"
    BY <1>9, <2>1 DEF PublishPastSession, MayBegin, Free, OneAdmin, Idle
  <2>3. SwitchedOnMeansFannedOut'
    BY <2>1, MoveFansOut DEF OneAdminInv
  <2>4. state' = "completed"
    BY <2>1 DEF Move
  <2> QED
    BY <2>2, <2>3, <2>4 DEF OneAdminInv, CancelledIsClosed
<1>10. ASSUME NEW a \in Admin, ScheduleSession(a) PROVE OneAdminInv'
  <2>1. /\ call[a].op = "schedule" /\ certMode' = call[a].mode
        /\ call' = [call EXCEPT ![a] = Idle] /\ UNCHANGED <<state, fannedOut>>
    BY <1>10 DEF ScheduleSession, Returns
  <2>2. state # "cancelled" /\ certMode' = certMode
    BY <2>1 DEF OneAdminInv
  <2>3. \A b \in Admin : call'[b].op # "schedule"
    BY <2>1 DEF OneAdmin, Idle, TypeOK
  <2> QED
    BY <2>1, <2>2, <2>3 DEF OneAdminInv, CancelledIsClosed, SwitchedOnMeansFannedOut
<1>11. ASSUME NEW a \in Admin, SetCertificateMode(a) PROVE OneAdminInv'
  <2>1. UNCHANGED <<state, openDays, call>> /\ Free(a)
    BY <1>11 DEF SetCertificateMode
  <2>2. \A b \in Admin : call'[b].op # "schedule"
    BY <2>1 DEF Free, OneAdmin, Idle
  <2>3. PICK m \in Mode \ {certMode} :
          /\ certMode' = m
          /\ fannedOut' = (fannedOut \/ (/\ m # "off"
                                         /\ state \in {"completed", "archived"}))
    BY <1>11 DEF SetCertificateMode
  <2>4. ASSUME state' \in {"completed", "archived"}, certMode' # "off" PROVE fannedOut'
    BY Zenon, <2>1, <2>3, <2>4
  <2> QED
    BY <2>1, <2>2, <2>4 DEF OneAdminInv, CancelledIsClosed, SwitchedOnMeansFannedOut
<1>12. ASSUME NEW a \in Admin, DeleteSession(a) PROVE OneAdminInv'
  <2>1. call' = call /\ certMode' = certMode
    BY <1>12 DEF DeleteSession, settings
  <2>2. \A b \in Admin : call'[b].op # "schedule"
    BY <1>12, <2>1 DEF DeleteSession, MayBegin, Free, OneAdmin, Idle
  <2>3. CASE Move(state, "cancelled") /\ StampMove("cancelled", now)
    <3>1. state' = "cancelled" /\ openDays' = 0
      BY <2>3 DEF Move, StampMove
    <3>2. SwitchedOnMeansFannedOut'
      BY <3>1 DEF SwitchedOnMeansFannedOut
    <3> QED
      BY <2>2, <3>1, <3>2 DEF OneAdminInv, CancelledIsClosed
  <2>4. CASE UNCHANGED <<state, fannedOut, openDays>>
    BY <2>1, <2>2, <2>4 DEF OneAdminInv, CancelledIsClosed, SwitchedOnMeansFannedOut
  <2> QED
    BY <1>12, <2>3, <2>4 DEF DeleteSession
<1>13. CASE ClockStart \/ ClockComplete
  <2>1. PICK to \in {"in_progress", "completed"} : Move(state, to)
    BY <1>13 DEF ClockStart, ClockComplete
  <2>2. call' = call /\ certMode' = certMode
    BY <1>13 DEF ClockStart, ClockComplete, settings
  <2>3. SwitchedOnMeansFannedOut'
    BY <2>1, <2>2, MoveFansOut DEF OneAdminInv
  <2>4. state' = to
    BY <2>1 DEF Move
  <2> QED
    BY <2>2, <2>3, <2>4 DEF OneAdminInv, CancelledIsClosed
<1>14. CASE SetCheckInOpen
  BY <1>14 DEF SetCheckInOpen, settings, OneAdminInv, CancelledIsClosed,
               SwitchedOnMeansFannedOut
<1>15. CASE SetSessionWalkIns \/ Tick \/ UNCHANGED vars
  BY <1>1, <1>15 DEF SetSessionWalkIns, Tick, vars, settings
<1> QED
  BY <1>3, <1>4, <1>5, <1>6, <1>7, <1>8, <1>9, <1>10, <1>11, <1>12, <1>13, <1>14, <1>15
     DEF Next

LEMMA OneAdminInvariant == OneAdmin => (Spec => []OneAdminInv)
<1>1. SUFFICES ASSUME OneAdmin PROVE Spec => []OneAdminInv
  OBVIOUS
<1>2. Init => OneAdminInv
  BY DEF Init, OneAdminInv, CancelledIsClosed, SwitchedOnMeansFannedOut, ScheduleReads, Idle
<1>3. OneAdminInv /\ TypeOK /\ TypeOK' /\ [Next]_vars => OneAdminInv'
  BY <1>1, OneAdminStep
<1> QED
  BY <1>2, <1>3, LifecycleTypeCorrect, PTL DEF Spec

\* With one administrator, whatever the clock and the moderators do meanwhile,
\* a cancelled session has no day's switch open (transition_session,
\* schedule_session, delete_session).
THEOREM CancelledStaysClosed == OneAdmin => (Spec => []CancelledIsClosed)
<1>1. OneAdminInv => CancelledIsClosed
  BY DEF OneAdminInv
<1> QED
  BY <1>1, OneAdminInvariant, PTL

\* With one administrator, a finished session whose certificates are on has had
\* its fan-out, from completion by hand, by the clock, as past, or from the
\* late switch (set_session_certificate_mode, fan_out_certificates).
THEOREM FanOutNotMissed == OneAdmin => (Spec => []SwitchedOnMeansFannedOut)
<1>1. OneAdminInv => SwitchedOnMeansFannedOut
  BY DEF OneAdminInv
<1> QED
  BY <1>1, OneAdminInvariant, PTL
=============================================================================
