------------------------ MODULE CheckInCodesProofs ------------------------
(***************************************************************************)
(* What CheckInCodes keeps for every set of hosts, every lag between a     *)
(* call's now() and its commit, and any number of revokes: types first,    *)
(* then, for an organisation that never changes its period, the spacing of *)
(* the codes of a day, and last, for one that switches rotation on and     *)
(* off, that a code is accepted as long as it was shown for.               *)
(***************************************************************************)
EXTENDS CheckInCodes, FiniteSetTheorems, TLAPS

\* What CodesAssumption says of the numbers and the names, apart from the plans.
LEMMA NumberConstants ==
    /\ Rotations \subseteq Nat
    /\ Grace \in Nat /\ After \in Nat /\ Lag \in Nat
    /\ MaxTime \in Nat /\ MaxRevokes \in Nat
    /\ Host \cap Job = {}
  BY CodesAssumption DEF CodesAssumption

USE NumberConstants

(* Facts about the plan and about rows.                                    *)

LEMMA Element ==
    ASSUME NEW S, NEW s \in Seq(S)
    PROVE  /\ Len(s) \in Nat /\ DOMAIN s = 1..Len(s)
           /\ \A i \in DOMAIN s : s[i] \in S
  OBVIOUS

LEMMA Appended ==
    ASSUME NEW S, NEW s \in Seq(S), NEW e \in S
    PROVE  /\ Append(s, e) \in Seq(S) /\ Len(Append(s, e)) = Len(s) + 1
           /\ DOMAIN Append(s, e) = 1..(Len(s) + 1)
           /\ Append(s, e)[Len(s) + 1] = e
           /\ \A i \in DOMAIN s : Append(s, e)[i] = s[i]
  OBVIOUS

LEMMA PlanFacts ==
    ASSUME NEW p \in Plans, NEW q \in Plans
    PROVE  /\ DOMAIN p = 1..Len(p) /\ Len(p) \in Nat /\ Len(p) >= 1
           /\ DOMAIN p = DOMAIN q
           /\ \A d \in DOMAIN p : p[d].from \in Nat /\ p[d].to \in Nat
  <1>1. p \in Seq([from : Nat, to : Nat]) /\ q \in Seq([from : Nat, to : Nat])
    BY CodesAssumption DEF CodesAssumption
  <1>2. p # <<>> /\ Len(p) = Len(q)
    BY CodesAssumption DEF CodesAssumption
  <1>3. \A d \in DOMAIN p : p[d] \in [from : Nat, to : Nat]
    BY ONLY <1>1, Element
  <1> QED BY <1>1, <1>2, <1>3

\* The clock and the period that is set are natural numbers, and what has
\* passed is a time.
LEMMA NumberTypes ==
    ASSUME TypeOK
    PROVE  /\ now \in Nat /\ rotation \in Nat
           /\ Time \subseteq Nat /\ 0..now \subseteq Time
  <1>1. now \in Time /\ rotation \in Rotations
    BY DEF TypeOK
  <1>2. MaxTime \in Nat /\ Rotations \subseteq Nat
    OBVIOUS
  <1>3. Time = 0..MaxTime
    BY ONLY DEF Time
  <1> QED BY ONLY <1>1, <1>2, <1>3

LEMMA CeilingType ==
    ASSUME TypeOK, NEW d \in Day
    PROVE  Ceiling(d) \in Nat
  <1>1. plan \in Plans
    BY DEF TypeOK
  <1>2. d \in 1..Len(plan) /\ Len(plan) \in Nat
    BY <1>1, PlanFacts DEF Day
  <1>3. plan[d].to \in Nat
    BY <1>1, PlanFacts DEF Day
  <1>4. CASE d = Len(plan)
    BY <1>3, <1>4 DEF Ceiling
  <1>5. CASE d # Len(plan)
    <2>1. d + 1 \in DOMAIN plan
      BY <1>1, <1>2, <1>5, PlanFacts
    <2>2. plan[d + 1].from \in Nat
      BY <1>1, <2>1, PlanFacts
    <2> QED BY <1>3, <1>5, <2>2 DEF Ceiling, Least
  <1> QED BY <1>4, <1>5

\* The shape the rows of a call have while it works on them.
Rows(cs) ==
    /\ cs \in Seq(Code) /\ Len(cs) = Len(shown)
    /\ \A i \in DOMAIN cs : cs[i].from \in 0..now

\* The shape the rows have after it.
RowsAfter ==
    /\ codes' \in Seq(Code)
    /\ shown' \in Seq(Time) /\ Len(shown') = Len(codes')
    /\ Len(codes') >= Len(codes)
    /\ \A i \in DOMAIN codes' : codes'[i].from \in 0..now /\ shown'[i] \in 0..now

LEMMA RowFacts ==
    ASSUME NEW cs \in Seq(Code), NEW i \in DOMAIN cs
    PROVE  /\ cs[i] \in Code
           /\ cs[i].day \in Day /\ cs[i].from \in Int /\ cs[i].until \in Int
           /\ cs[i].revoked \in BOOLEAN
           /\ Len(cs) \in Nat /\ DOMAIN cs = 1..Len(cs)
  <1>1. cs[i] \in Code
    OBVIOUS
  <1> QED BY <1>1 DEF Code

LEMMA CodesAreRows ==
    ASSUME TypeOK
    PROVE  Rows(codes)
  BY DEF TypeOK, Rows

LEMMA TouchRows ==
    ASSUME NEW cs, Rows(cs), NEW i \in DOMAIN cs, NEW u \in Int
    PROVE  Rows([cs EXCEPT ![i].until = u])
  <1> DEFINE ds == [cs EXCEPT ![i].until = u]
  <1>1. cs \in Seq(Code)
    BY DEF Rows
  <1>2. [cs[i] EXCEPT !.until = u] \in Code
    BY <1>1, RowFacts DEF Code
  <1>3. ds = [cs EXCEPT ![i] = [cs[i] EXCEPT !.until = u]]
    OBVIOUS
  <1>4. ds \in Seq(Code) /\ Len(ds) = Len(cs) /\ DOMAIN ds = DOMAIN cs
    BY <1>1, <1>2, <1>3
  <1>5. \A j \in DOMAIN cs : ds[j].from = cs[j].from
    BY <1>1, <1>3, RowFacts DEF Code
  <1> QED BY <1>4, <1>5 DEF Rows

LEMMA RevokeRows ==
    ASSUME NEW cs, Rows(cs), NEW i
    PROVE  Rows([cs EXCEPT ![i].revoked = TRUE])
  <1> DEFINE ds == [cs EXCEPT ![i].revoked = TRUE]
  <1>1. cs \in Seq(Code) /\ Len(cs) \in Nat /\ DOMAIN cs = 1..Len(cs)
    BY Element DEF Rows
  <1>2. ASSUME NEW j \in DOMAIN cs
        PROVE  ds[j] \in Code /\ ds[j].from = cs[j].from
    <2>1. cs[j] \in Code /\ [cs[j] EXCEPT !.revoked = TRUE] \in Code
      BY <1>1, RowFacts DEF Code
    <2>2. ds[j] = IF j = i THEN [cs[j] EXCEPT !.revoked = TRUE] ELSE cs[j]
      OBVIOUS
    <2> QED BY <2>1, <2>2 DEF Code
  <1>3. ds = [j \in 1..Len(cs) |-> ds[j]]
    BY <1>1
  <1>4. ds \in Seq(Code) /\ Len(ds) = Len(cs) /\ DOMAIN ds = DOMAIN cs
    <2> HIDE DEF ds
    <2> QED BY <1>1, <1>2, <1>3
  <1> QED BY <1>2, <1>4 DEF Rows

LEMMA HandOutRows ==
    ASSUME TypeOK, NEW cs, Rows(cs), NEW i \in DOMAIN cs, NEW t \in 0..now,
           codes' = cs, HandOut(i, t)
    PROVE  RowsAfter
  <1>1. cs \in Seq(Code) /\ shown \in Seq(Time) /\ Len(cs) = Len(shown)
        /\ Len(codes) = Len(shown) /\ now \in Time /\ i \in DOMAIN shown
    BY DEF TypeOK, Rows
  <1>2. \A j \in DOMAIN shown : shown[j] \in 0..now
    <2>1. DOMAIN shown = DOMAIN codes
      BY <1>1 DEF TypeOK
    <2> QED BY <2>1 DEF TypeOK
  <1>3. Greatest(shown[i], t) \in 0..now
    BY <1>2, <1>1 DEF Greatest
  <1>4. 0..now \subseteq Time
    BY NumberTypes
  <1>5. shown' = [shown EXCEPT ![i] = Greatest(shown[i], t)]
    BY DEF HandOut
  <1>6. shown' \in Seq(Time) /\ Len(shown') = Len(shown)
    BY <1>1, <1>3, <1>4, <1>5
  <1>7. \A j \in DOMAIN cs : shown'[j] \in 0..now
    BY <1>1, <1>2, <1>3, <1>5
  <1> QED BY <1>1, <1>6, <1>7 DEF RowsAfter, Rows

LEMMA MintRows ==
    ASSUME TypeOK, NEW cs, Rows(cs), NEW d \in Day, NEW t \in 0..now,
           NEW u \in Int, Mint(cs, d, t, u)
    PROVE  RowsAfter
  <1> DEFINE new == [day |-> d, from |-> t, until |-> u, revoked |-> FALSE]
  <1>1. cs \in Seq(Code) /\ shown \in Seq(Time) /\ Len(cs) = Len(shown)
        /\ Len(codes) = Len(shown) /\ now \in Time
    BY DEF TypeOK, Rows
  <1>2. now \in Nat /\ 0..now \subseteq Time
    BY NumberTypes
  <1>3. new \in Code /\ new.from = t
    BY <1>2 DEF Code
  <1>4. codes' = Append(cs, new) /\ shown' = Append(shown, t)
    BY DEF Mint
  <1>5. codes' \in Seq(Code) /\ Len(codes') = Len(cs) + 1
    BY <1>1, <1>3, <1>4
  <1>6. shown' \in Seq(Time) /\ Len(shown') = Len(shown) + 1
    BY <1>1, <1>2, <1>4
  <1>7. ASSUME NEW j \in DOMAIN codes'
        PROVE  codes'[j].from \in 0..now /\ shown'[j] \in 0..now
    <2>1. CASE j = Len(cs) + 1
      <3>1. codes'[j] = new /\ shown'[j] = t
        BY <1>1, <1>2, <1>3, <1>4, <2>1, Appended
      <3> QED BY <1>3, <3>1
    <2>2. CASE j # Len(cs) + 1
      <3>1. j \in DOMAIN cs /\ j \in DOMAIN shown /\ j \in DOMAIN codes
        BY <1>1, <1>5, <2>2 DEF TypeOK
      <3>2. codes'[j] = cs[j] /\ shown'[j] = shown[j]
        BY <1>1, <1>2, <1>3, <1>4, <3>1, Appended
      <3> QED BY <3>1, <3>2 DEF TypeOK, Rows
    <2> QED BY <2>1, <2>2
  <1> QED BY <1>1, <1>5, <1>6, <1>7 DEF RowsAfter

LEMMA NewestRow ==
    ASSUME NEW cs, NEW S, NEW i \in Newest(cs, S)
    PROVE  i \in S /\ \A j \in S : cs[j].from <= cs[i].from
  BY DEF Newest

LEMMA IssueRows ==
    ASSUME TypeOK, NEW cs, Rows(cs), NEW c, NEW d \in Day, NEW t \in 0..now,
           Issue(c, cs, d, t)
    PROVE  RowsAfter
  <1>1. cs \in Seq(Code) /\ now \in Nat /\ rotation \in Nat
    BY NumberTypes DEF Rows
  <1>2. Ceiling(d) \in Nat
    BY CeilingType
  <1>3. t + rotation + Grace \in Int /\ t + Grace \in Int
    BY <1>1
  <1>4. CASE KeepFixed(c, cs, d, t)
    <2>1. PICK i \in FixedCurrent(cs, d) :
              /\ codes' = [cs EXCEPT ![i].until = Greatest(@, Ceiling(d))]
              /\ HandOut(i, t)
      BY <1>4 DEF KeepFixed
    <2>2. i \in DOMAIN cs
      BY <2>1, NewestRow DEF FixedCurrent, OfDay
    <2>3. Greatest(cs[i].until, Ceiling(d)) \in Int
      BY <1>1, <1>2, <2>2, RowFacts DEF Greatest
    <2> DEFINE ds == [cs EXCEPT ![i].until = Greatest(cs[i].until, Ceiling(d))]
    <2>4. codes' = ds /\ DOMAIN ds = DOMAIN cs
      BY <2>1
    <2>5. Rows(ds)
      BY <2>2, <2>3, TouchRows
    <2> HIDE DEF ds
    <2> QED BY <2>1, <2>2, <2>4, <2>5, HandOutRows
  <1>5. CASE codes' = cs /\ UNCHANGED shown
    <2>1. shown \in Seq(Time) /\ Len(shown) = Len(cs) /\ Len(codes) = Len(cs)
      BY DEF TypeOK, Rows
    <2>2. DOMAIN cs = DOMAIN codes /\ Len(cs) \in Nat
      BY <1>1, <2>1, Element DEF TypeOK
    <2>3. \A i \in DOMAIN cs : shown[i] \in 0..now /\ cs[i].from \in 0..now
      BY <2>2 DEF TypeOK, Rows
    <2> QED BY <1>1, <1>5, <2>1, <2>2, <2>3 DEF RowsAfter
  <1>6. CASE Mint(cs, d, t, Ceiling(d))
    BY <1>2, <1>6, MintRows
  <1>7. CASE KeepRotating(cs, d, t)
    <2>1. PICK i \in Newest(cs, Unrevoked(cs, d)) : codes' = cs /\ HandOut(i, t)
      BY <1>7 DEF KeepRotating
    <2>2. i \in DOMAIN cs
      BY <2>1, NewestRow DEF Unrevoked, OfDay
    <2> QED BY <2>1, <2>2, HandOutRows
  <1>8. CASE Succeed(c, cs, d, t)
    <2>1. PICK prev \in Newest(cs, Unrevoked(cs, d)) :
              Mint(Shortened(cs, d, t, prev), d, t, t + rotation + Grace)
      BY <1>8 DEF Succeed
    <2>2. prev \in DOMAIN cs
      BY <2>1, NewestRow DEF Unrevoked, OfDay
    <2>3. Least(cs[prev].until, t + Grace) \in Int
      BY <1>1, <1>3, <2>2, RowFacts DEF Least
    <2>4. Rows([cs EXCEPT ![prev].until = Least(cs[prev].until, t + Grace)])
      BY <2>2, <2>3, TouchRows
    <2>5. Rows(Shortened(cs, d, t, prev))
      BY <2>4 DEF Shortened
    <2> QED BY <1>3, <2>1, <2>5, MintRows
  <1>9. CASE Mint(cs, d, t, t + rotation + Grace)
    BY <1>3, <1>9, MintRows
  <1> QED BY <1>4, <1>5, <1>6, <1>7, <1>8, <1>9
          DEF Issue, IssueFixed, IssueRotating

---------------------------------------------------------------------------
(* Types.                                                                  *)

LEMMA IssueKeepsTypes ==
    ASSUME TypeOK, NEW c \in Caller, NEW cs, Rows(cs),
           Issue(c, cs, call[c].day, call[c].at), End(c),
           UNCHANGED <<session, firstJob, now>>
    PROVE  TypeOK'
  <1>1. call[c] \in [kind : Kind, at : Time, day : Day, code : Nat]
    BY DEF TypeOK
  <1>2. call[c].day \in Day /\ call[c].at \in 0..now
    BY <1>1 DEF TypeOK, Time
  <1>3. RowsAfter
    BY <1>2, IssueRows
  <1>4. Day' = Day /\ Code' = Code /\ now \in Nat /\ now' = now
    BY DEF Day, Code, session, TypeOK, Time
  <1>5. NoCall \in [kind : Kind, at : Time, day : Day, code : Nat]
    <2>1. 1 \in Day /\ 0 \in Time
      BY PlanFacts DEF TypeOK, Day, Time
    <2> QED BY <2>1 DEF NoCall, Kind
  <1>6. call' \in [Caller -> [kind : Kind, at : Time, day : Day, code : Nat]]
    BY <1>5 DEF End, TypeOK
  <1>7. ASSUME NEW e \in Caller
        PROVE  call'[e].at <= now' /\ call'[e].code <= Len(codes')
    <2>1. Len(codes) \in Nat /\ Len(codes') \in Nat /\ Len(codes') >= Len(codes)
      BY <1>3, Element DEF RowsAfter, TypeOK
    <2>2. CASE e = c
      <3>1. call'[e] = NoCall
        BY <2>2 DEF End, TypeOK
      <3> QED BY <1>4, <2>1, <3>1 DEF NoCall
    <2>3. CASE e # c
      <3>1. call'[e] = call[e]
        BY <2>3 DEF End, TypeOK
      <3>2. call[e] \in [kind : Kind, at : Time, day : Day, code : Nat]
        BY DEF TypeOK
      <3>3. call[e].at <= now /\ call[e].code <= Len(codes) /\ call[e].code \in Nat
        BY <3>2 DEF TypeOK
      <3> QED BY <1>4, <2>1, <3>1, <3>3
    <2> QED BY <2>2, <2>3
  <1>8. (codes \in Seq(Code))' /\ (shown \in Seq(Time))'
        /\ Len(shown') = Len(codes')
        /\ \A i \in DOMAIN codes' :
               codes'[i].from \in 0..now' /\ shown'[i] \in 0..now'
    BY <1>3, <1>4 DEF RowsAfter
  <1> QED BY <1>4, <1>6, <1>7, <1>8 DEF TypeOK, session

LEMMA CallStepTypes ==
    ASSUME TypeOK, NEW c \in Caller, NEW r,
           r \in [kind : Kind, at : Time, day : Day, code : Nat],
           r.at <= now, r.code <= Len(codes),
           call' = [call EXCEPT ![c] = r],
           UNCHANGED <<session, codes, shown, now>>, firstJob' \in BOOLEAN
    PROVE  TypeOK'
  <1>1. Day' = Day /\ Code' = Code
    BY DEF Day, Code, session
  <1>2. call' \in [Caller -> [kind : Kind, at : Time, day : Day, code : Nat]]
    BY DEF TypeOK
  <1>3. ASSUME NEW e \in Caller
        PROVE  call'[e].at <= now /\ call'[e].code <= Len(codes)
    <2>1. CASE e = c
      BY <2>1 DEF TypeOK
    <2>2. CASE e # c
      <3>1. call'[e] = call[e]
        BY <2>2 DEF TypeOK
      <3> QED BY <3>1 DEF TypeOK
    <2> QED BY <2>1, <2>2
  <1> QED BY <1>1, <1>2, <1>3 DEF TypeOK, session

LEMMA CodesTypeInit == Init => TypeOK
  <1> SUFFICES ASSUME Init PROVE TypeOK
    OBVIOUS
  <1>1. plan \in Plans
    BY DEF Init
  <1>2. 1 \in Day /\ 0 \in Time
    BY <1>1, PlanFacts DEF Day, Time
  <1>3. NoCall \in [kind : Kind, at : Time, day : Day, code : Nat]
    BY <1>2 DEF NoCall, Kind
  <1>4. call \in [Caller -> [kind : Kind, at : Time, day : Day, code : Nat]]
    BY <1>3 DEF Init
  <1>5. codes \in Seq(Code) /\ shown \in Seq(Time) /\ Len(shown) = Len(codes)
        /\ Len(codes) = 0 /\ DOMAIN codes = {}
    BY DEF Init
  <1>6. \A c \in Caller : call[c].at <= now /\ call[c].code <= Len(codes)
    BY <1>5 DEF Init, NoCall
  <1> QED BY <1>1, <1>2, <1>4, <1>5, <1>6 DEF Init, TypeOK, SessionState

LEMMA ClosedRows ==
    ASSUME TypeOK, NEW t \in Time, NEW S,
           codes' = [i \in DOMAIN codes |->
                        IF i \in S THEN [codes[i] EXCEPT !.until = t] ELSE codes[i]]
    PROVE  /\ codes' \in Seq(Code) /\ Len(codes') = Len(codes)
           /\ DOMAIN codes' = DOMAIN codes
           /\ \A i \in DOMAIN codes : codes'[i].from = codes[i].from
  <1>1. codes \in Seq(Code) /\ t \in Int
    BY DEF TypeOK, Time
  <1>2. Len(codes) \in Nat /\ DOMAIN codes = 1..Len(codes)
    BY <1>1, Element
  <1>3. ASSUME NEW i \in DOMAIN codes
        PROVE  codes'[i] \in Code /\ codes'[i].from = codes[i].from
    <2>1. codes[i] \in Code /\ [codes[i] EXCEPT !.until = t] \in Code
      BY <1>1, RowFacts DEF Code
    <2>2. codes'[i] = IF i \in S THEN [codes[i] EXCEPT !.until = t] ELSE codes[i]
      OBVIOUS
    <2> QED BY <2>1, <2>2 DEF Code
  <1> QED BY <1>1, <1>2, <1>3

LEMMA CodesTypeStep == TypeOK /\ [Next]_vars => TypeOK'
  <1> SUFFICES ASSUME TypeOK, [Next]_vars PROVE TypeOK'
    OBVIOUS
  <1> DEFINE R == [kind : Kind, at : Time, day : Day, code : Nat]
  <1>1. /\ now \in Nat /\ now <= now /\ now \in Time /\ Len(codes) \in Nat
        /\ 0 <= now /\ 0 <= Len(codes) /\ Len(codes) <= Len(codes)
    <2>1. codes \in Seq(Code) /\ now \in Time
      BY DEF TypeOK
    <2> QED BY <2>1, Element DEF Time
  <1>2. 1 \in Day /\ 0 \in Time
    BY PlanFacts DEF TypeOK, Day, Time
  <1>3. NoCall \in R /\ NoCall.at <= now /\ NoCall.code <= Len(codes)
    BY <1>1, <1>2 DEF NoCall, Kind
  <1>4. ASSUME NEW kind \in Kind, NEW d \in Day, NEW i \in {0, Len(codes)}
        PROVE  LET r == [kind |-> kind, at |-> now, day |-> d, code |-> i]
               IN r \in R /\ r.at <= now /\ r.code <= Len(codes)
    BY <1>1, <1>4
  <1>5. "rotate_codes" \in Caller /\ "complete_session" \in Caller
        /\ Host \subseteq Caller
    BY DEF Caller, Job
  <1>6. ASSUME NEW h \in Host, NEW d \in Day, BeginEnsure(h, d)
        PROVE  TypeOK'
    BY <1>4, <1>5, <1>6, CallStepTypes DEF BeginEnsure, Begin, Kind, TypeOK
  <1>7. ASSUME NEW h \in Host, NEW d \in Day, BeginRevoke(h, d)
        PROVE  TypeOK'
    BY <1>4, <1>5, <1>7, CallStepTypes DEF BeginRevoke, Begin, Kind, TypeOK
  <1>8. ASSUME NEW h \in Host, HoldCode(h)
        PROVE  TypeOK'
    <2>1. PICK i \in DOMAIN codes :
              call' = [call EXCEPT ![h] = [kind |-> "holding", at |-> call[h].at,
                                           day |-> call[h].day, code |-> i]]
      BY <1>8 DEF HoldCode, Newest, OfDay
    <2>2. call[h] \in R /\ call[h].at <= now
      BY <1>5 DEF TypeOK
    <2>3. i \in Nat /\ i <= Len(codes)
      BY <2>1, Element DEF TypeOK
    <2> DEFINE r == [kind |-> "holding", at |-> call[h].at,
                     day |-> call[h].day, code |-> i]
    <2>4. r \in R /\ r.at <= now /\ r.code <= Len(codes)
      BY <2>2, <2>3 DEF Kind
    <2> QED BY <1>5, <1>8, <2>1, <2>4, CallStepTypes DEF HoldCode, TypeOK
  <1>9. ASSUME NEW c \in Caller, FinishIssue(c)
        PROVE  TypeOK'
    BY <1>9, CodesAreRows, IssueKeepsTypes DEF FinishIssue
  <1>10. ASSUME NEW h \in Host, FinishRevoke(h)
         PROVE  TypeOK'
    <2>1. Rows([codes EXCEPT ![call[h].code].revoked = TRUE])
      BY CodesAreRows, RevokeRows
    <2> QED BY <1>5, <1>10, <2>1, IssueKeepsTypes DEF FinishRevoke
  <1>11. ASSUME NEW c \in Caller, Abandon(c)
         PROVE  TypeOK'
    BY <1>3, <1>11, CallStepTypes DEF Abandon, End, TypeOK
  <1>12. ASSUME RotateCodes
         PROVE  TypeOK'
    <2>1. CASE UNCHANGED call
      BY <1>12, <2>1 DEF RotateCodes, TypeOK, session, Day, Code
    <2>2. ASSUME NEW d \in Day, Begin("rotate_codes", "issue", d, 0)
          PROVE  TypeOK'
      BY <1>4, <1>5, <1>12, <2>2, CallStepTypes DEF RotateCodes, Begin, Kind
    <2> QED BY <1>12, <2>1, <2>2 DEF RotateCodes
  <1>13. ASSUME BeginComplete
         PROVE  TypeOK'
    BY <1>2, <1>4, <1>5, <1>13, CallStepTypes
       DEF BeginComplete, Begin, Kind, TypeOK
  <1>14. ASSUME FinishComplete
         PROVE  TypeOK'
    <2> DEFINE t == call["complete_session"].at
    <2>1. t \in Time /\ t \in 0..now
      BY <1>5, <1>1 DEF TypeOK, Time
    <2>2. codes' = [i \in DOMAIN codes |->
                       IF i \in {j \in DOMAIN codes : Closes(j)}
                       THEN [codes[i] EXCEPT !.until = t] ELSE codes[i]]
      BY <1>14, Zenon DEF FinishComplete
    <2>3. /\ codes' \in Seq(Code) /\ Len(codes') = Len(codes)
          /\ DOMAIN codes' = DOMAIN codes
          /\ \A i \in DOMAIN codes : codes'[i].from = codes[i].from
      BY <2>1, <2>2, ClosedRows
    <2>4. Day' = Day /\ Code' = Code /\ UNCHANGED <<plan, rotation, shown, firstJob, now>>
      BY <1>14 DEF FinishComplete, Day, Code
    <2>5. call' = [call EXCEPT !["complete_session"] = NoCall]
      BY <1>14 DEF FinishComplete, End
    <2>6. call' \in [Caller -> R]
      BY <1>3, <2>5 DEF TypeOK
    <2>7. \A e \in Caller : call'[e].at <= now /\ call'[e].code <= Len(codes)
      BY <1>3, <2>5 DEF TypeOK
    <2>8. state' \in SessionState /\ completedAt' \in Time \cup {Never}
      BY <1>14, <2>1 DEF FinishComplete, SessionState
    <2> QED BY <2>3, <2>4, <2>6, <2>7, <2>8 DEF TypeOK
  <1>15. ASSUME ClockStart \/ MoveByHand \/ SetRotation
         PROVE  TypeOK'
    <2>1. /\ state' \in SessionState /\ rotation' \in Rotations /\ firstJob' \in BOOLEAN
          /\ UNCHANGED <<completedAt, plan, codes, shown, call, now>>
      BY <1>15 DEF ClockStart, MoveByHand, SetRotation, TypeOK, SessionState
    <2> QED BY <2>1 DEF TypeOK, Day, Code
  <1>16. ASSUME Reschedule
         PROVE  TypeOK'
    <2>1. plan \in Plans /\ plan' \in Plans
      BY <1>16 DEF Reschedule, TypeOK
    <2>2. Day' = Day
      BY <2>1, PlanFacts DEF Day
    <2>3. Code' = Code
      BY <2>2 DEF Code
    <2> QED BY <1>16, <2>1, <2>2, <2>3 DEF Reschedule, TypeOK
  <1>17. ASSUME Tick
         PROVE  TypeOK'
    <2>1. now' = now + 1 /\ now' \in Time /\ now' \in Nat
      BY <1>1, <1>17 DEF Tick, Time
    <2>2. UNCHANGED <<state, completedAt, plan, rotation, codes, shown, firstJob, call>>
      BY <1>17 DEF Tick, session
    <2>3. \A i \in DOMAIN codes : codes[i].from \in 0..now' /\ shown[i] \in 0..now'
      BY <1>1, <2>1 DEF TypeOK
    <2>4. \A c \in Caller : call[c].at <= now'
      <3>1. \A c \in Caller : call[c].at \in Nat /\ call[c].at <= now
        BY DEF TypeOK, Time
      <3> QED BY <1>1, <2>1, <3>1
    <2> QED BY <2>1, <2>2, <2>3, <2>4 DEF TypeOK, Day, Code
  <1>18. CASE UNCHANGED vars
    BY <1>18 DEF vars, TypeOK, Day, Code
  <1> QED BY <1>6, <1>7, <1>8, <1>9, <1>10, <1>11, <1>12, <1>13, <1>14, <1>15,
             <1>16, <1>17, <1>18 DEF Next

\* Every variable has its type, and no call, row or hand-out is dated in the
\* future.
THEOREM CodesTypeCorrect == Spec => []TypeOK
  <1> QED BY CodesTypeInit, CodesTypeStep, PTL DEF Spec

---------------------------------------------------------------------------
(* An organisation that never changes its period, which is no shorter than *)
(* the grace.  The codes of a day that are not revoked are then a period   *)
(* apart in the order they were inserted, whatever the lag of the calls    *)
(* that inserted them, and none lives longer than a period and a grace.    *)

OnePeriod == \E p \in Nat \ {0} : Rotations = {p} /\ Grace <= p

Spaced(cs) ==
    \A i, j \in DOMAIN cs :
        (i < j /\ cs[i].day = cs[j].day /\ ~cs[i].revoked /\ ~cs[j].revoked) =>
            cs[i].from + rotation <= cs[j].from

Bounded(cs) ==
    \A i \in DOMAIN cs : cs[i].until <= cs[i].from + rotation + Grace

PeriodInv == TypeOK /\ Spaced(codes) /\ Bounded(codes)

\* Rows ds are the rows cs, perhaps with more of them revoked or shortened.
Within(ds, cs) ==
    /\ DOMAIN ds = DOMAIN cs
    /\ \A i \in DOMAIN cs :
           /\ ds[i].day = cs[i].day /\ ds[i].from = cs[i].from
           /\ ds[i].until <= cs[i].until
           /\ cs[i].revoked => ds[i].revoked

LEMMA PeriodFacts ==
    ASSUME OnePeriod, TypeOK
    PROVE  rotation \in Nat /\ rotation # 0 /\ Grace <= rotation /\ now \in Nat
  <1>1. rotation \in Rotations /\ now \in Time
    BY DEF TypeOK
  <1> QED BY <1>1 DEF OnePeriod, Time

LEMMA WithinKeeps ==
    ASSUME TypeOK, NEW cs \in Seq(Code), NEW ds \in Seq(Code), Within(ds, cs),
           Spaced(cs), Bounded(cs)
    PROVE  Spaced(ds) /\ Bounded(ds)
  <1>1. rotation \in Nat /\ DOMAIN ds = DOMAIN cs
    BY DEF TypeOK, Within
  <1>2. ASSUME NEW i \in DOMAIN ds
        PROVE  ds[i].until <= ds[i].from + rotation + Grace
    <2>1. cs[i].until \in Int /\ ds[i].until \in Int /\ cs[i].from \in Int
      BY <1>1, RowFacts
    <2>2. ds[i].until <= cs[i].until /\ ds[i].from = cs[i].from
      BY <1>1 DEF Within
    <2>3. cs[i].until <= cs[i].from + rotation + Grace
      BY <1>1 DEF Bounded
    <2> QED BY <1>1, <2>1, <2>2, <2>3
  <1>3. ASSUME NEW i \in DOMAIN ds, NEW j \in DOMAIN ds,
               i < j, ds[i].day = ds[j].day, ~ds[i].revoked, ~ds[j].revoked
        PROVE  ds[i].from + rotation <= ds[j].from
    BY <1>1, <1>3 DEF Within, Spaced
  <1> QED BY <1>2, <1>3 DEF Spaced, Bounded

LEMMA MintSpaced ==
    ASSUME TypeOK, NEW cs, Rows(cs), Spaced(cs), Bounded(cs),
           NEW d \in Day, NEW t \in 0..now,
           \A i \in Unrevoked(cs, d) : cs[i].from <= t - rotation,
           Mint(cs, d, t, t + rotation + Grace)
    PROVE  /\ Spaced(codes') /\ Bounded(codes')
           /\ \A i \in DOMAIN cs : codes'[i] = cs[i]
  <1> DEFINE new == [day |-> d, from |-> t, until |-> t + rotation + Grace,
                     revoked |-> FALSE]
  <1>1. cs \in Seq(Code) /\ rotation \in Nat /\ now \in Nat
    BY NumberTypes DEF Rows
  <1>2. new \in Code
    BY <1>1 DEF Code
  <1>3. /\ codes' = Append(cs, new) /\ DOMAIN codes' = 1..(Len(cs) + 1)
        /\ codes'[Len(cs) + 1] = new
        /\ \A i \in DOMAIN cs : codes'[i] = cs[i]
    BY <1>1, <1>2, Appended DEF Mint
  <1>4. Len(cs) \in Nat /\ DOMAIN cs = 1..Len(cs)
    BY <1>1, Element
  <1>5. ASSUME NEW i \in DOMAIN codes'
        PROVE  codes'[i].until <= codes'[i].from + rotation + Grace
    <2>1. CASE i = Len(cs) + 1
      <3>1. codes'[i].until = t + rotation + Grace /\ codes'[i].from = t
        BY <1>3, <2>1
      <3> QED BY <1>1, <3>1
    <2>2. CASE i # Len(cs) + 1
      <3>1. i \in DOMAIN cs
        BY <1>3, <1>4, <2>2
      <3> QED BY <1>3, <3>1 DEF Bounded
    <2> QED BY <2>1, <2>2
  <1>6. ASSUME NEW i \in DOMAIN codes', NEW j \in DOMAIN codes',
               i < j, codes'[i].day = codes'[j].day,
               ~codes'[i].revoked, ~codes'[j].revoked
        PROVE  codes'[i].from + rotation <= codes'[j].from
    <2>1. i \in DOMAIN cs /\ codes'[i] = cs[i]
      BY <1>3, <1>4, <1>6
    <2>2. CASE j = Len(cs) + 1
      <3>1. codes'[j].day = d /\ codes'[j].from = t
        BY <1>3, <2>2
      <3>2. i \in Unrevoked(cs, d)
        BY <1>6, <2>1, <3>1 DEF Unrevoked, OfDay
      <3>3. cs[i].from <= t - rotation /\ cs[i].from \in Int
        BY <1>1, <2>1, <3>2, RowFacts
      <3> QED BY <1>1, <2>1, <3>1, <3>3
    <2>3. CASE j # Len(cs) + 1
      <3>1. j \in DOMAIN cs /\ codes'[j] = cs[j]
        BY <1>3, <1>4, <2>3
      <3> QED BY <1>6, <2>1, <3>1 DEF Spaced
    <2> QED BY <2>2, <2>3
  <1> QED BY <1>3, <1>5, <1>6 DEF Spaced, Bounded

\* D1 leaves a rotating code as it is: its end is already within the grace
\* of any successor.
LEMMA ShortenedStands ==
    ASSUME TypeOK, NEW cs, Rows(cs), Bounded(cs), NEW d \in Day, NEW t \in 0..now,
           NEW prev \in DOMAIN cs, cs[prev].from <= t - rotation
    PROVE  LET ds == Shortened(cs, d, t, prev)
           IN  /\ Rows(ds) /\ Within(ds, cs)
               /\ Unrevoked(ds, d) = Unrevoked(cs, d)
               /\ \A i \in DOMAIN cs : ds[i].until = cs[i].until
  <1> DEFINE ds == [cs EXCEPT ![prev].until = Least(cs[prev].until, t + Grace)]
  <1>1. cs \in Seq(Code) /\ rotation \in Nat /\ now \in Nat
    BY NumberTypes DEF Rows
  <1>2. cs[prev].until \in Int /\ cs[prev].from \in Int
    BY <1>1, RowFacts
  <1>3. cs[prev].until <= cs[prev].from + rotation + Grace
    BY DEF Bounded
  <1>4. Least(cs[prev].until, t + Grace) = cs[prev].until
    BY <1>1, <1>2, <1>3 DEF Least
  <1>5. Rows(ds)
    BY <1>2, <1>4, TouchRows
  <1>6. ASSUME NEW i \in DOMAIN cs
        PROVE  /\ ds[i].day = cs[i].day /\ ds[i].from = cs[i].from
               /\ ds[i].until = cs[i].until /\ ds[i].revoked = cs[i].revoked
    <2>1. cs[i] \in Code
      BY <1>1, RowFacts
    <2>2. ds[i] = IF i = prev THEN [cs[i] EXCEPT !.until = cs[prev].until] ELSE cs[i]
      BY <1>4
    <2> QED BY <2>1, <2>2 DEF Code
  <1>7. DOMAIN ds = DOMAIN cs
    OBVIOUS
  <1>8. \A i \in DOMAIN cs : cs[i].until \in Int
    BY <1>1, RowFacts
  <1> HIDE DEF ds
  <1>9. Within(ds, cs) /\ Unrevoked(ds, d) = Unrevoked(cs, d)
    BY <1>6, <1>7, <1>8 DEF Within, Unrevoked, OfDay
  <1>10. Within(cs, cs)
    BY <1>8 DEF Within
  <1>11. Shortened(cs, d, t, prev) \in {ds, cs}
    BY DEF Shortened, ds
  <1> QED BY <1>5, <1>6, <1>9, <1>10, <1>11

LEMMA IssueSpaced ==
    ASSUME OnePeriod, TypeOK, NEW cs, Rows(cs), Spaced(cs), Bounded(cs),
           NEW c, NEW d \in Day, NEW t \in 0..now, Issue(c, cs, d, t)
    PROVE  /\ Spaced(codes') /\ Bounded(codes')
           /\ \A i \in DOMAIN cs : codes'[i].until = cs[i].until
  <1>1. IssueRotating(c, cs, d, t) /\ rotation \in Nat /\ now \in Nat
    BY PeriodFacts DEF Issue
  <1>2. CASE KeepRotating(cs, d, t)
    BY <1>2 DEF KeepRotating
  <1>3. CASE Succeed(c, cs, d, t)
    <2>1. PICK prev \in Newest(cs, Unrevoked(cs, d)) :
              /\ cs[prev].from <= t - rotation
              /\ Mint(Shortened(cs, d, t, prev), d, t, t + rotation + Grace)
      BY <1>3 DEF Succeed
    <2>2. prev \in DOMAIN cs
      BY <2>1, NewestRow DEF Unrevoked, OfDay
    <2> DEFINE ds == Shortened(cs, d, t, prev)
    <2>3. /\ Rows(ds) /\ Within(ds, cs) /\ Unrevoked(ds, d) = Unrevoked(cs, d)
          /\ \A i \in DOMAIN cs : ds[i].until = cs[i].until
      BY <2>1, <2>2, ShortenedStands
    <2> HIDE DEF ds
    <2>4. cs \in Seq(Code) /\ ds \in Seq(Code)
      BY <2>3 DEF Rows
    <2>5. Spaced(ds) /\ Bounded(ds)
      BY <2>3, <2>4, WithinKeeps
    <2>6. ASSUME NEW i \in Unrevoked(ds, d)
          PROVE  ds[i].from <= t - rotation
      <3>1. i \in Unrevoked(cs, d) /\ i \in DOMAIN cs
        BY <2>3 DEF Unrevoked, OfDay
      <3>2. cs[i].from <= cs[prev].from /\ ds[i].from = cs[i].from
        BY <2>1, <2>3, <3>1, NewestRow DEF Within
      <3>3. cs[i].from \in Int /\ cs[prev].from \in Int
        BY <2>2, <2>4, <3>1, RowFacts
      <3> QED BY <1>1, <2>1, <3>2, <3>3
    <2>7. Mint(ds, d, t, t + rotation + Grace)
      BY <2>1 DEF ds
    <2>8. /\ Spaced(codes') /\ Bounded(codes')
          /\ \A i \in DOMAIN ds : codes'[i] = ds[i]
      BY <2>3, <2>5, <2>6, <2>7, MintSpaced
    <2> QED BY <2>3, <2>8 DEF Within
  <1>4. CASE Unrevoked(cs, d) = {} /\ Mint(cs, d, t, t + rotation + Grace)
    BY <1>4, MintSpaced
  <1> QED BY <1>1, <1>2, <1>3, <1>4 DEF IssueRotating

\* What one step does to the rows, whichever action it is.
LEMMA PeriodStep ==
    ASSUME OnePeriod, PeriodInv, [Next]_vars
    PROVE  /\ PeriodInv'
           /\ state = state' =>
                  \A i \in DOMAIN codes : codes'[i].until = codes[i].until
  <1> USE DEF PeriodInv
  <1>1. TypeOK'
    BY CodesTypeStep
  <1>2. rotation' = rotation
    <2>1. rotation \in Rotations /\ rotation' \in Rotations
      BY <1>1 DEF TypeOK
    <2> QED BY <2>1 DEF OnePeriod
  <1>3. SUFFICES /\ Spaced(codes') /\ Bounded(codes')
                 /\ state = state' =>
                        \A i \in DOMAIN codes : codes'[i].until = codes[i].until
    BY <1>1, <1>2 DEF Spaced, Bounded
  <1>4. codes \in Seq(Code) /\ Rows(codes)
    BY CodesAreRows DEF TypeOK
  <1>5. \A c \in Caller : call[c].day \in Day /\ call[c].at \in 0..now
    <2>1. \A c \in Caller : call[c] \in [kind : Kind, at : Time, day : Day, code : Nat]
      BY DEF TypeOK
    <2>2. \A c \in Caller : call[c].at <= now /\ now \in Time
      BY DEF TypeOK
    <2> QED BY <2>1, <2>2, NumberTypes
  <1>6. CASE UNCHANGED codes
    BY <1>6
  <1>7. ASSUME NEW c \in Caller, FinishIssue(c)
        PROVE  /\ Spaced(codes') /\ Bounded(codes')
               /\ \A i \in DOMAIN codes : codes'[i].until = codes[i].until
    BY <1>4, <1>5, <1>7, IssueSpaced DEF FinishIssue
  <1>8. ASSUME NEW h \in Host, FinishRevoke(h)
        PROVE  /\ Spaced(codes') /\ Bounded(codes')
               /\ \A i \in DOMAIN codes : codes'[i].until = codes[i].until
    <2> DEFINE cs == [codes EXCEPT ![call[h].code].revoked = TRUE]
    <2>1. Rows(cs)
      BY <1>4, RevokeRows
    <2>2. ASSUME NEW i \in DOMAIN codes
          PROVE  /\ cs[i].day = codes[i].day /\ cs[i].from = codes[i].from
                 /\ cs[i].until = codes[i].until /\ cs[i].until <= codes[i].until
                 /\ codes[i].revoked => cs[i].revoked
      <3>1. codes[i] \in Code /\ codes[i].until \in Int
        BY <1>4, RowFacts
      <3>2. cs[i] = IF i = call[h].code THEN [codes[i] EXCEPT !.revoked = TRUE]
                    ELSE codes[i]
        OBVIOUS
      <3> QED BY <3>1, <3>2 DEF Code
    <2>3. DOMAIN cs = DOMAIN codes
      OBVIOUS
    <2>4. h \in Caller /\ Issue(h, cs, call[h].day, call[h].at)
      BY <1>8 DEF FinishRevoke, Caller
    <2> HIDE DEF cs
    <2>5. Within(cs, codes)
      BY <2>2, <2>3 DEF Within
    <2>6. Spaced(cs) /\ Bounded(cs)
      BY <1>4, <2>1, <2>5, WithinKeeps DEF Rows
    <2>7. /\ Spaced(codes') /\ Bounded(codes')
          /\ \A i \in DOMAIN cs : codes'[i].until = cs[i].until
      BY <1>5, <2>1, <2>4, <2>6, IssueSpaced
    <2> QED BY <2>2, <2>3, <2>7
  <1>9. ASSUME FinishComplete
        PROVE  Spaced(codes') /\ Bounded(codes') /\ state # state'
    <2> DEFINE t == call["complete_session"].at
               S == {j \in DOMAIN codes : Closes(j)}
    <2>1. t \in Time /\ t \in Int
      BY <1>5 DEF TypeOK, Caller, Job, Time
    <2>2. codes' = [i \in DOMAIN codes |->
                       IF i \in S THEN [codes[i] EXCEPT !.until = t] ELSE codes[i]]
      BY <1>9, Zenon DEF FinishComplete
    <2>3. codes' \in Seq(Code) /\ DOMAIN codes' = DOMAIN codes
      BY <2>1, <2>2, ClosedRows
    <2>4. ASSUME NEW i \in DOMAIN codes
          PROVE  /\ codes'[i].day = codes[i].day /\ codes'[i].from = codes[i].from
                 /\ codes'[i].until <= codes[i].until
                 /\ codes[i].revoked => codes'[i].revoked
      <3>1. codes[i] \in Code /\ codes[i].until \in Int
        BY <1>4, RowFacts
      <3>2. i \in S => codes[i].until > t
        BY DEF Closes, Live
      <3>3. codes'[i] = IF i \in S THEN [codes[i] EXCEPT !.until = t] ELSE codes[i]
        BY <2>2
      <3> HIDE DEF S
      <3> QED BY <2>1, <3>1, <3>2, <3>3 DEF Code
    <2>5. Within(codes', codes)
      BY <2>3, <2>4 DEF Within
    <2>6. Spaced(codes') /\ Bounded(codes')
      BY <1>4, <2>3, <2>5, WithinKeeps
    <2> QED BY <1>9, <2>6 DEF FinishComplete
  <1>10. \/ UNCHANGED codes \/ FinishComplete
         \/ \E c \in Caller : FinishIssue(c)
         \/ \E h \in Host : FinishRevoke(h)
    BY DEF Next, vars, BeginEnsure, BeginRevoke, HoldCode, Abandon, RotateCodes,
           ClockStart, BeginComplete, MoveByHand, SetRotation, Reschedule, Tick
  <1> QED BY <1>6, <1>7, <1>8, <1>9, <1>10

LEMMA PeriodInvariant ==
    ASSUME OnePeriod
    PROVE  Spec => []PeriodInv
  <1>1. Init => PeriodInv
    <2> SUFFICES ASSUME Init PROVE PeriodInv
      OBVIOUS
    <2>1. TypeOK /\ DOMAIN codes = {}
      BY CodesTypeInit DEF Init
    <2> QED BY <2>1 DEF PeriodInv, Spaced, Bounded
  <1>2. PeriodInv /\ [Next]_vars => PeriodInv'
    BY PeriodStep
  <1> QED BY <1>1, <1>2, PTL DEF Spec

\* A set of numbers without three in ascending order has at most two.
LEMMA AtMostTwo ==
    ASSUME NEW S, IsFiniteSet(S), S \subseteq Nat,
           \A i, j, k \in S : ~(i < j /\ j < k)
    PROVE  Cardinality(S) <= 2
  <1>1. CASE S = {}
    BY <1>1, FS_EmptySet
  <1>2. ASSUME NEW i \in S PROVE Cardinality(S) <= 2
    <2>1. CASE S = {i}
      <3>1. Cardinality(S) = 1
        BY ONLY <2>1, FS_Singleton
      <3> QED BY ONLY <3>1
    <2>2. ASSUME NEW j \in S, j # i PROVE Cardinality(S) <= 2
      <3>1. S = {i, j}
        <4>1. ASSUME NEW k \in S PROVE k = i \/ k = j
          BY <2>2
        <4> QED BY <4>1, <2>2
      <3>2. S = {i} \cup {j} /\ j \notin {i}
        BY <2>2, <3>1
      <3>3. IsFiniteSet({i}) /\ Cardinality({i}) = 1
        BY FS_Singleton
      <3>4. Cardinality({i} \cup {j}) = Cardinality({i}) + 1
        BY ONLY <3>2, <3>3, FS_AddElement
      <3>5. Cardinality(S) = 2
        BY ONLY <3>2, <3>3, <3>4
      <3> QED BY ONLY <3>5
    <2> QED BY <2>1, <2>2
  <1> QED BY <1>1, <1>2

\* One code is current and at most one other is in its grace: proved for an
\* organisation with one period, no shorter than its grace.
THEOREM OneCodeAndOneInGrace ==
    ASSUME OnePeriod
    PROVE  Spec => []OneCurrentOneInGrace
  <1>1. PeriodInv => OneCurrentOneInGrace
    <2> SUFFICES ASSUME PeriodInv, NEW d \in Day
                 PROVE  /\ Cardinality(LiveCodes(d)) <= 2
                        /\ \A i, j \in LiveCodes(d) :
                               codes[i].from < codes[j].from =>
                                   codes[i].until <= codes[j].from + Grace
      BY DEF OneCurrentOneInGrace
    <2> USE DEF PeriodInv
    <2>1. rotation \in Nat /\ rotation # 0 /\ Grace <= rotation /\ now \in Nat
      BY PeriodFacts
    <2>2. codes \in Seq(Code) /\ Len(codes) \in Nat /\ DOMAIN codes = 1..Len(codes)
      BY Element DEF TypeOK
    <2>3. ASSUME NEW i \in LiveCodes(d)
          PROVE  /\ i \in DOMAIN codes /\ i \in Nat /\ codes[i].day = d
                 /\ ~codes[i].revoked /\ codes[i].until > now
                 /\ codes[i].from \in 0..now /\ codes[i].until \in Int
                 /\ codes[i].until <= codes[i].from + rotation + Grace
      <3>1. i \in DOMAIN codes /\ i \in Nat
        BY <2>2 DEF LiveCodes, OfDay
      <3> QED BY <2>2, <3>1, RowFacts DEF LiveCodes, OfDay, Live, TypeOK, Bounded
    <2>4. ASSUME NEW i \in LiveCodes(d), NEW j \in LiveCodes(d), i < j
          PROVE  codes[i].from + rotation <= codes[j].from
      BY <2>3, <2>4 DEF Spaced
    <2>5. ASSUME NEW i \in LiveCodes(d), NEW j \in LiveCodes(d),
                 NEW k \in LiveCodes(d), i < j, j < k
          PROVE  FALSE
      <3>1. codes[i].from + rotation <= codes[j].from
            /\ codes[j].from + rotation <= codes[k].from
        BY <2>4, <2>5
      <3>2. /\ codes[i].from \in Int /\ codes[j].from \in Int
            /\ codes[i].until \in Int /\ codes[i].until > now
            /\ codes[i].until <= codes[i].from + rotation + Grace
            /\ codes[k].from \in 0..now
        BY <2>3
      <3> QED BY ONLY <2>1, <3>1, <3>2, Grace \in Nat
    <2>6. LiveCodes(d) \subseteq 1..Len(codes) /\ LiveCodes(d) \subseteq Nat
      BY <2>2, <2>3
    <2>7. IsFiniteSet(LiveCodes(d))
      <3>1. IsFiniteSet(1..Len(codes))
        BY <2>2, FS_Interval
      <3> QED BY <2>6, <3>1, FS_Subset
    <2>8. Cardinality(LiveCodes(d)) <= 2
      BY <2>5, <2>6, <2>7, AtMostTwo
    <2>9. ASSUME NEW i \in LiveCodes(d), NEW j \in LiveCodes(d),
                 codes[i].from < codes[j].from
          PROVE  codes[i].until <= codes[j].from + Grace
      <3>1. i < j
        <4>1. CASE j < i
          <5>1. codes[j].from + rotation <= codes[i].from
            BY <2>4, <4>1
          <5> QED BY <2>1, <2>3, <2>9, <5>1
        <4>2. CASE i = j
          BY <2>3, <2>9, <4>2
        <4> QED BY <2>3, <4>1, <4>2
      <3>2. codes[i].from + rotation <= codes[j].from
        BY <2>4, <3>1
      <3> QED BY <2>1, <2>3, <3>2
    <2> QED BY <2>8, <2>9
  <1> QED BY <1>1, PeriodInvariant, PTL

\* No issued code's end is rewritten but by the completion: the rules for
\* the whole-day code never touch a rotating one.
THEOREM IssuedCodesKeepTheirEnd ==
    ASSUME OnePeriod
    PROVE  Spec => IssuedCodesStand
  <1>1. PeriodInv /\ [Next]_vars =>
            [(state = state') =>
                \A i \in DOMAIN codes : codes'[i].until = codes[i].until]_vars
    BY PeriodStep
  <1> QED BY <1>1, PeriodInvariant, PTL DEF Spec, IssuedCodesStand

---------------------------------------------------------------------------
(* An organisation that switches rotation on and off, with one period, over *)
(* days that stand.  What a hand-out promised is kept because a row's end   *)
(* is never earlier than its period and the grace from its start, or the    *)
(* day's ceiling, and a successor shortens only rows that are a period old. *)

DaysStand == \A p, q \in Plans : p = q
OnOrOff == \E r \in Nat : Rotations \subseteq {0, r}

\* A row that was last handed out at s, with the period r.
Honoured(row, s, r) ==
    /\ row.until >= 0
    /\ row.until # completedAt =>
        /\ row.until >= Least(row.from + r + Grace, Ceiling(row.day))
        /\ ~row.revoked => row.until >= Least(s + Grace - Lag, Ceiling(row.day))

HonouredRows(cs, ss, r) == \A i \in DOMAIN cs : Honoured(cs[i], ss[i], r)

Promised(r) == HonouredRows(codes, shown, r)

\* No call is older than the lag.
InLag == \A c \in Caller : call[c].kind # "none" => now - call[c].at <= Lag

HonourInv(r) ==
    /\ TypeOK
    /\ Promised(r)
    /\ state \in {"published", "in_progress"} => completedAt = Never
    /\ InLag

LEMMA LeastIs ==
    ASSUME NEW x \in Int, NEW y \in Int
    PROVE  /\ Least(x, y) \in Int /\ Least(x, y) <= x /\ Least(x, y) <= y
           /\ Least(x, y) = x \/ Least(x, y) = y
           /\ Greatest(x, y) \in Int /\ Greatest(x, y) >= x /\ Greatest(x, y) >= y
           /\ Greatest(x, y) = x \/ Greatest(x, y) = y
  BY DEF Least, Greatest

\* What a row's promise needs of its numbers.
LEMMA RowNumbers ==
    ASSUME TypeOK, NEW cs, Rows(cs), NEW i \in DOMAIN cs
    PROVE  /\ cs[i] \in Code /\ cs[i].day \in Day /\ cs[i].from \in Nat /\ cs[i].until \in Int
           /\ cs[i].revoked \in BOOLEAN /\ Ceiling(cs[i].day) \in Nat
           /\ i \in DOMAIN shown /\ shown[i] \in 0..now /\ now \in Nat
           /\ completedAt \in Int /\ DOMAIN cs = DOMAIN shown
  <1>1. cs \in Seq(Code) /\ Len(cs) = Len(shown) /\ cs[i].from \in 0..now
    BY DEF Rows
  <1>2. now \in Nat
    BY NumberTypes
  <1>3. shown \in Seq(Time) /\ codes \in Seq(Code) /\ Len(shown) = Len(codes)
    BY DEF TypeOK
  <1>4. DOMAIN cs = DOMAIN shown /\ DOMAIN shown = DOMAIN codes
    BY <1>1, <1>3
  <1>5. shown[i] \in 0..now /\ completedAt \in Int
    BY <1>4 DEF TypeOK, Time, Never
  <1>6. cs[i] \in Code /\ cs[i].day \in Day /\ cs[i].until \in Int /\ cs[i].revoked \in BOOLEAN
    BY <1>1, RowFacts
  <1> QED BY <1>1, <1>2, <1>4, <1>5, <1>6, CeilingType

\* A new row keeps what it promises.
LEMMA MintHonours ==
    ASSUME TypeOK, NEW cs, Rows(cs), NEW r \in Nat, HonouredRows(cs, shown, r),
           NEW d \in Day, NEW t \in 0..now, NEW u \in Nat,
           u >= Least(t + r + Grace, Ceiling(d)), Mint(cs, d, t, u)
    PROVE  HonouredRows(codes', shown', r)
  <1> DEFINE new == [day |-> d, from |-> t, until |-> u, revoked |-> FALSE]
  <1>1. /\ cs \in Seq(Code) /\ shown \in Seq(Time) /\ Len(cs) = Len(shown) /\ Len(cs) \in Nat
        /\ now \in Nat /\ 0..now \subseteq Time
    BY NumberTypes, Element DEF Rows, TypeOK
  <1>2. new \in Code /\ new.day = d /\ new.from = t /\ new.until = u /\ new.revoked = FALSE
    BY <1>1 DEF Code
  <1> HIDE DEF new
  <1>3. codes' = Append(cs, new) /\ shown' = Append(shown, t)
    BY DEF Mint, new
  <1>4. /\ DOMAIN codes' = 1..(Len(cs) + 1) /\ DOMAIN cs = 1..Len(cs)
        /\ codes'[Len(cs) + 1] = new /\ shown'[Len(cs) + 1] = t
        /\ \A i \in DOMAIN cs : codes'[i] = cs[i] /\ shown'[i] = shown[i]
    <2>1. t \in Time
      BY <1>1
    <2>2. DOMAIN shown = DOMAIN cs /\ DOMAIN cs = 1..Len(cs)
      BY <1>1
    <2> QED BY <1>1, <1>2, <1>3, <2>1, <2>2, Appended
  <1>5. Honoured(new, t, r)
    <2>1. Ceiling(d) \in Nat
      BY CeilingType
    <2>2. t + r + Grace \in Int /\ t + Grace - Lag \in Int /\ t + Grace - Lag <= t + r + Grace
      BY <1>1
    <2>3. Least(t + Grace - Lag, Ceiling(d)) <= Least(t + r + Grace, Ceiling(d))
      BY <2>1, <2>2 DEF Least
    <2>4. Least(t + Grace - Lag, Ceiling(d)) \in Int /\ Least(t + r + Grace, Ceiling(d)) \in Int
      BY <2>1, <2>2, LeastIs
    <2> QED BY <1>2, <2>3, <2>4 DEF Honoured
  <1>6. ASSUME NEW i \in DOMAIN codes' PROVE Honoured(codes'[i], shown'[i], r)
    <2>1. CASE i = Len(cs) + 1
      BY <1>4, <1>5, <2>1
    <2>2. CASE i # Len(cs) + 1
      <3>1. i \in DOMAIN cs
        BY <1>1, <1>4, <2>2
      <3> QED BY <1>4, <3>1 DEF HonouredRows
    <2> QED BY <2>1, <2>2
  <1> QED BY <1>6 DEF HonouredRows

\* A row that is handed out, with its end put off or not.
LEMMA HandOutHonours ==
    ASSUME TypeOK, NEW cs, Rows(cs), NEW r \in Nat, HonouredRows(cs, shown, r),
           NEW k \in DOMAIN cs, NEW t \in 0..now, HandOut(k, t), DOMAIN codes' = DOMAIN cs,
           \A i \in DOMAIN cs : i # k => codes'[i] = cs[i],
           Honoured(codes'[k], shown'[k], r)
    PROVE  HonouredRows(codes', shown', r)
  <1>1. ASSUME NEW i \in DOMAIN cs, i # k PROVE shown'[i] = shown[i]
    <2>1. i \in DOMAIN shown
      BY RowNumbers
    <2> QED BY <1>1, <2>1 DEF HandOut
  <1> QED BY <1>1 DEF HonouredRows

\* The succeeded row is a period old: ending it after the grace takes nothing
\* from what it promised.
LEMMA ShortenedHonours ==
    ASSUME TypeOK, NEW cs, Rows(cs), NEW r \in Nat, HonouredRows(cs, shown, r),
           NEW d \in Day, NEW t \in 0..now, now - t <= Lag,
           NEW k \in DOMAIN cs, cs[k].from <= t - r
    PROVE  Rows(Shortened(cs, d, t, k)) /\ HonouredRows(Shortened(cs, d, t, k), shown, r)
  <1> DEFINE u == Least(cs[k].until, t + Grace)
             ds == [cs EXCEPT ![k].until = u]
  <1>1. /\ cs[k] \in Code /\ cs[k].from \in Nat /\ cs[k].until \in Int
        /\ Ceiling(cs[k].day) \in Nat /\ shown[k] \in 0..now /\ now \in Nat
    BY RowNumbers
  <1>2. t + Grace \in Nat
    BY <1>1
  <1>3. u \in Int /\ (u = cs[k].until \/ (u = t + Grace /\ u <= cs[k].until))
    BY <1>1, <1>2 DEF Least, Greatest
  <1> HIDE DEF u
  <1>4. Rows(ds)
    BY <1>3, TouchRows
  <1>5. /\ ds[k].until = u /\ ds[k].from = cs[k].from /\ ds[k].day = cs[k].day
        /\ ds[k].revoked = cs[k].revoked
    BY <1>1 DEF Code
  <1>6. \A i \in DOMAIN cs : i # k => ds[i] = cs[i]
    OBVIOUS
  <1>7. DOMAIN ds = DOMAIN cs
    OBVIOUS
  <1> HIDE DEF ds
  <1>8. Honoured(ds[k], shown[k], r)
    <2>1. Honoured(cs[k], shown[k], r)
      BY DEF HonouredRows
    <2>2. CASE u = cs[k].until
      BY <1>5, <2>1, <2>2 DEF Honoured
    <2>3. CASE u = t + Grace
      <3>1. cs[k].from + r + Grace <= t + Grace
        BY <1>1
      <3>2. shown[k] + Grace - Lag <= t + Grace
        BY <1>1
      <3>3. u >= Least(cs[k].from + r + Grace, Ceiling(cs[k].day))
        BY <1>1, <1>2, <2>3, <3>1 DEF Least
      <3>4. u >= Least(shown[k] + Grace - Lag, Ceiling(cs[k].day))
        BY <1>1, <1>2, <2>3, <3>2 DEF Least
      <3> QED BY <1>2, <1>5, <2>3, <3>3, <3>4 DEF Honoured
    <2> QED BY <1>3, <2>2, <2>3
  <1>9. HonouredRows(ds, shown, r)
    BY <1>6, <1>7, <1>8 DEF HonouredRows
  <1>10. Shortened(cs, d, t, k) \in {ds, cs}
    BY DEF Shortened, ds, u
  <1> QED BY <1>4, <1>9, <1>10

\* Issuing, on or off, early or late.
LEMMA IssueHonours ==
    ASSUME TypeOK, NEW cs, Rows(cs), NEW r \in Nat, rotation \in {0, r},
           HonouredRows(cs, shown, r), NEW c, NEW d \in Day, NEW t \in 0..now,
           now - t <= Lag, Issue(c, cs, d, t)
    PROVE  HonouredRows(codes', shown', r)
  <1>1. now \in Nat /\ Ceiling(d) \in Nat
    BY NumberTypes, CeilingType
  <1>2. CASE KeepFixed(c, cs, d, t)
    <2>1. PICK k \in FixedCurrent(cs, d) :
              /\ codes' = [cs EXCEPT ![k].until = Greatest(@, Ceiling(d))]
              /\ HandOut(k, t)
      BY <1>2 DEF KeepFixed
    <2>2. k \in DOMAIN cs /\ cs[k].day = d
      BY <2>1, NewestRow DEF FixedCurrent, OfDay
    <2>3. cs[k] \in Code /\ cs[k].from \in Nat /\ cs[k].until \in Int /\ shown[k] \in 0..now
          /\ k \in DOMAIN shown
      BY <2>2, RowNumbers
    <2> DEFINE u == Greatest(cs[k].until, Ceiling(d))
    <2>4. u \in Int /\ u >= Ceiling(d)
      BY <1>1, <2>3 DEF Least, Greatest
    <2> HIDE DEF u
    <2>5. codes' = [cs EXCEPT ![k].until = u]
      BY <2>1 DEF u
    <2>6. /\ DOMAIN codes' = DOMAIN cs /\ \A i \in DOMAIN cs : i # k => codes'[i] = cs[i]
          /\ codes'[k].until = u /\ codes'[k].from = cs[k].from /\ codes'[k].day = d
      BY <2>2, <2>3, <2>5 DEF Code
    <2>7. shown'[k] \in Int
      BY <2>1, <2>3, <1>1 DEF HandOut, Greatest
    <2>8. Honoured(codes'[k], shown'[k], r)
      <3>1. /\ Least(cs[k].from + r + Grace, Ceiling(d)) <= Ceiling(d)
            /\ Least(cs[k].from + r + Grace, Ceiling(d)) \in Int
        BY <1>1, <2>3 DEF Least, Greatest
      <3>2. /\ Least(shown'[k] + Grace - Lag, Ceiling(d)) <= Ceiling(d)
            /\ Least(shown'[k] + Grace - Lag, Ceiling(d)) \in Int
        BY <1>1, <2>7 DEF Least, Greatest
      <3> QED BY <1>1, <2>4, <2>6, <3>1, <3>2 DEF Honoured
    <2> QED BY <2>1, <2>2, <2>6, <2>8, HandOutHonours
  <1>3. CASE codes' = cs /\ UNCHANGED shown
    BY <1>3
  <1>4. CASE Mint(cs, d, t, Ceiling(d))
    <2>1. t + r + Grace \in Int
      BY <1>1
    <2>2. Ceiling(d) >= Least(t + r + Grace, Ceiling(d))
      BY <1>1, <2>1 DEF Least, Greatest
    <2> QED BY <1>1, <1>4, <2>2, MintHonours
  <1>5. ASSUME rotation = r, NEW ds, Rows(ds), HonouredRows(ds, shown, r),
               Mint(ds, d, t, t + rotation + Grace)
        PROVE  HonouredRows(codes', shown', r)
    <2>1. t + r + Grace \in Nat
      BY <1>1
    <2>2. t + r + Grace >= Least(t + r + Grace, Ceiling(d))
      BY <1>1, <2>1 DEF Least, Greatest
    <2> QED BY <1>5, <2>1, <2>2, MintHonours
  <1>6. CASE rotation = r /\ KeepRotating(cs, d, t)
    <2>1. PICK k \in Newest(cs, Unrevoked(cs, d)) :
              cs[k].from > t - r /\ codes' = cs /\ HandOut(k, t)
      BY <1>6 DEF KeepRotating
    <2>2. k \in DOMAIN cs
      BY <2>1, NewestRow DEF Unrevoked, OfDay
    <2>3. /\ cs[k].from \in Nat /\ cs[k].until \in Int /\ shown[k] \in 0..now
          /\ k \in DOMAIN shown /\ Ceiling(cs[k].day) \in Nat /\ completedAt \in Int
      BY <2>2, RowNumbers
    <2>4. shown'[k] = shown[k] \/ shown'[k] = t
      BY <2>1, <2>3, <1>1 DEF HandOut, Greatest
    <2>5. Honoured(cs[k], shown[k], r)
      BY <2>2 DEF HonouredRows
    <2>6. cs[k].until # completedAt =>
              cs[k].until >= Least(t + Grace - Lag, Ceiling(cs[k].day))
      <3>1. t + Grace - Lag <= cs[k].from + r + Grace
        BY <1>1, <2>1, <2>3
      <3>2. Least(t + Grace - Lag, Ceiling(cs[k].day))
              <= Least(cs[k].from + r + Grace, Ceiling(cs[k].day))
        BY <1>1, <2>3, <3>1 DEF Least
      <3>3. /\ Least(t + Grace - Lag, Ceiling(cs[k].day)) \in Int
            /\ Least(cs[k].from + r + Grace, Ceiling(cs[k].day)) \in Int
        BY <1>1, <2>3 DEF Least, Greatest
      <3> QED BY <2>3, <2>5, <3>2, <3>3 DEF Honoured
    <2>7. Honoured(codes'[k], shown'[k], r)
      BY <2>1, <2>4, <2>5, <2>6 DEF Honoured
    <2> QED BY <2>1, <2>2, <2>7, HandOutHonours
  <1>7. CASE rotation = r /\ Succeed(c, cs, d, t)
    <2>1. PICK k \in Newest(cs, Unrevoked(cs, d)) :
              /\ cs[k].from <= t - r
              /\ Mint(Shortened(cs, d, t, k), d, t, t + rotation + Grace)
      BY <1>7 DEF Succeed
    <2>2. k \in DOMAIN cs
      BY <2>1, NewestRow DEF Unrevoked, OfDay
    <2>3. Rows(Shortened(cs, d, t, k)) /\ HonouredRows(Shortened(cs, d, t, k), shown, r)
      BY <2>1, <2>2, ShortenedHonours
    <2> QED BY <1>5, <1>7, <2>1, <2>3
  <1>8. CASE rotation = r /\ Mint(cs, d, t, t + rotation + Grace)
    BY <1>5, <1>8
  <1> QED BY <1>2, <1>3, <1>4, <1>6, <1>7, <1>8 DEF Issue, IssueFixed, IssueRotating

\* A call's now() is not in the future.
LEMMA CallTimes ==
    ASSUME TypeOK, NEW c \in Caller
    PROVE  call[c].day \in Day /\ call[c].at \in 0..now /\ now \in Nat
  <1>1. call[c] \in [kind : Kind, at : Time, day : Day, code : Nat]
    BY DEF TypeOK
  <1> QED BY <1>1, NumberTypes DEF TypeOK, Time

\* Completing: the rows it ends say so, and no other promised that end.
LEMMA CompletionHonours ==
    ASSUME NEW r \in Nat, HonourInv(r), FinishComplete
    PROVE  Promised(r)'
  <1> DEFINE t == call["complete_session"].at
             S == {i \in DOMAIN codes : Closes(i)}
  <1>1. t \in Time /\ t \in Nat
    BY CallTimes, NumberTypes DEF HonourInv, Caller, Job
  <1>2. completedAt = Never /\ completedAt' = t /\ plan' = plan /\ shown' = shown
    BY DEF FinishComplete, HonourInv
  <1>3. codes' = [i \in DOMAIN codes |->
                     IF i \in S THEN [codes[i] EXCEPT !.until = t] ELSE codes[i]]
    BY DEF FinishComplete
  <1> HIDE DEF t, S
  <1>4. ASSUME NEW i \in DOMAIN codes
        PROVE  Honoured(codes[i], shown[i], r)'
    <2>1. Honoured(codes[i], shown[i], r)
      BY DEF HonourInv, Promised, HonouredRows
    <2>2. codes[i] \in Code /\ codes[i].until \in Int
      BY RowNumbers, CodesAreRows DEF HonourInv
    <2>3. CASE i \in S
      <3>1. codes'[i].until = t
        BY <1>3, <2>2, <2>3 DEF Code
      <3> QED BY <1>1, <1>2, <3>1 DEF Honoured
    <2>4. CASE i \notin S
      <3>1. codes'[i] = codes[i] /\ codes[i].until # completedAt
        BY <1>2, <1>3, <2>1, <2>4 DEF Honoured, Never
      <3> QED BY <1>2, <2>1, <3>1 DEF Honoured, Ceiling, Least
    <2> QED BY <2>3, <2>4
  <1> QED BY <1>3, <1>4 DEF Promised, HonouredRows

\* No call outlives the lag: the clock waits for it, and a new one is as old
\* as the clock.
LEMMA LagStep == TypeOK /\ InLag /\ [Next]_vars => InLag'
  <1> SUFFICES ASSUME TypeOK, InLag, [Next]_vars PROVE InLag'
    OBVIOUS
  <1>1. now \in Nat /\ \A c \in Caller : call[c].at \in 0..now
    BY NumberTypes, CallTimes
  <1>2. ASSUME NEW c \in Caller, NEW x,
               call' = [call EXCEPT ![c] = x], now' = now,
               x.kind # "none" => now - x.at <= Lag
        PROVE  InLag'
    BY <1>2 DEF InLag, TypeOK
  <1>3. ASSUME NEW c \in Caller, NEW k, NEW d, NEW i, Begin(c, k, d, i), now' = now
        PROVE  InLag'
    <2> DEFINE x == [kind |-> k, at |-> now, day |-> d, code |-> i]
    <2>1. call' = [call EXCEPT ![c] = x]
      BY <1>3 DEF Begin
    <2>2. now - x.at <= Lag
      BY <1>1
    <2> HIDE DEF x
    <2> QED BY <1>2, <1>3, <2>1, <2>2
  <1>4. ASSUME NEW c \in Caller, End(c), now' = now
        PROVE  InLag'
    BY <1>2, <1>4 DEF End, NoCall
  <1>5. CASE UNCHANGED <<call, now>>
    BY <1>5 DEF InLag
  <1>6. CASE Tick
    <2>1. now' = now + 1 /\ call' = call
          /\ \A c \in Caller : call[c].kind = "none" \/ now - call[c].at < Lag
      BY <1>6 DEF Tick, Idle
    <2> QED BY <1>1, <2>1 DEF InLag
  <1>7. ASSUME NEW h \in Host, HoldCode(h)
        PROVE  InLag'
    <2>1. h \in Caller /\ call[h].kind = "revoke" /\ now' = now
      BY <1>7 DEF HoldCode, Caller
    <2>2. PICK i : call' = [call EXCEPT ![h] = [kind |-> "holding", at |-> @.at,
                                                day |-> @.day, code |-> i]]
      BY <1>7 DEF HoldCode
    <2>3. now - call[h].at <= Lag
      BY <2>1 DEF InLag
    <2> QED BY <1>2, <2>1, <2>2, <2>3
  <1>8. \A h \in Host : h \in Caller
    BY DEF Caller
  <1>9. "rotate_codes" \in Caller /\ "complete_session" \in Caller
    BY DEF Caller, Job
  <1>10. CASE RotateCodes
    BY <1>3, <1>5, <1>9, <1>10 DEF RotateCodes
  <1> QED
    BY <1>3, <1>4, <1>5, <1>6, <1>7, <1>8, <1>9, <1>10
       DEF Next, vars, BeginEnsure, BeginRevoke, FinishRevoke, FinishIssue, Abandon,
           ClockStart, BeginComplete, FinishComplete, MoveByHand, SetRotation,
           Reschedule

LEMMA HonourStep ==
    ASSUME DaysStand, NEW r \in Nat, Rotations \subseteq {0, r}
    PROVE  HonourInv(r) /\ [Next]_vars => HonourInv(r)'
  <1> SUFFICES ASSUME HonourInv(r), [Next]_vars PROVE HonourInv(r)'
    OBVIOUS
  <1>1. TypeOK /\ TypeOK' /\ InLag'
    BY CodesTypeStep, LagStep DEF HonourInv
  <1>2. rotation \in {0, r} /\ plan' = plan
    BY <1>1 DEF TypeOK, DaysStand
  <1>3. Rows(codes) /\ HonouredRows(codes, shown, r)
    BY <1>1, CodesAreRows DEF HonourInv, Promised
  <1>4. (state \in {"published", "in_progress"} => completedAt = Never)'
    BY DEF HonourInv, Next, vars, session, BeginEnsure, BeginRevoke, HoldCode,
           FinishRevoke, FinishIssue, Abandon, RotateCodes, ClockStart,
           BeginComplete, FinishComplete, MoveByHand, SetRotation, Reschedule, Tick
  <1>5. ASSUME NEW c \in Caller, call[c].kind # "none", NEW cs, Rows(cs),
               HonouredRows(cs, shown, r), Issue(c, cs, call[c].day, call[c].at),
               UNCHANGED session
        PROVE  Promised(r)'
    <2>1. call[c].day \in Day /\ call[c].at \in 0..now /\ now - call[c].at <= Lag
      BY <1>1, <1>5, CallTimes DEF HonourInv, InLag
    <2>2. HonouredRows(codes', shown', r)
      BY <1>1, <1>2, <1>5, <2>1, IssueHonours
    <2>3. completedAt' = completedAt
      BY <1>5 DEF session
    <2> QED BY <1>2, <2>2, <2>3 DEF Promised, HonouredRows, Honoured, Ceiling, Least
  <1>6. ASSUME NEW c \in Caller, FinishIssue(c)
        PROVE  Promised(r)'
    BY <1>3, <1>5, <1>6 DEF FinishIssue
  <1>7. ASSUME NEW h \in Host, FinishRevoke(h)
        PROVE  Promised(r)'
    <2> DEFINE k == call[h].code
               ds == [codes EXCEPT ![k].revoked = TRUE]
    <2>1. h \in Caller /\ call[h].kind # "none" /\ UNCHANGED session
          /\ Issue(h, ds, call[h].day, call[h].at)
      BY <1>7 DEF FinishRevoke, Caller
    <2>2. Rows(ds)
      BY <1>3, RevokeRows
    <2>3. ASSUME NEW i \in DOMAIN codes
          PROVE  /\ ds[i].until = codes[i].until /\ ds[i].from = codes[i].from
                 /\ ds[i].day = codes[i].day
                 /\ ds[i].revoked = codes[i].revoked \/ ds[i].revoked = TRUE
      <3>1. codes[i] \in Code
        BY <1>1, <1>3, RowNumbers
      <3>2. ds[i] = IF i = k THEN [codes[i] EXCEPT !.revoked = TRUE] ELSE codes[i]
        OBVIOUS
      <3> QED BY <3>1, <3>2 DEF Code
    <2>4. DOMAIN ds = DOMAIN codes
      OBVIOUS
    <2> HIDE DEF ds
    <2>5. HonouredRows(ds, shown, r)
      BY <1>3, <2>3, <2>4 DEF HonouredRows, Honoured
    <2> QED BY <1>5, <2>1, <2>2, <2>5
  <1>8. ASSUME FinishComplete
        PROVE  Promised(r)'
    BY <1>8, CompletionHonours
  <1>9. ASSUME UNCHANGED <<codes, shown, completedAt>>
        PROVE  Promised(r)'
    BY <1>2, <1>3, <1>9 DEF Promised, HonouredRows, Honoured, Ceiling, Least
  <1>10. \/ \E c \in Caller : FinishIssue(c)
         \/ \E h \in Host : FinishRevoke(h)
         \/ FinishComplete
         \/ UNCHANGED <<codes, shown, completedAt>>
    BY DEF Next, vars, session, BeginEnsure, BeginRevoke, HoldCode, Abandon,
           RotateCodes, ClockStart, BeginComplete, MoveByHand, SetRotation,
           Reschedule, Tick
  <1>11. Promised(r)'
    BY <1>6, <1>7, <1>8, <1>9, <1>10
  <1> QED BY <1>1, <1>4, <1>11 DEF HonourInv

\* What a host was shown is honoured, switch rotation on or off as they may:
\* proved for an organisation with one period, over days that stand.
THEOREM ShownStaysHonoured ==
    ASSUME DaysStand, OnOrOff
    PROVE  Spec => []ShownIsHonoured
  <1>1. PICK r \in Nat : Rotations \subseteq {0, r}
    BY DEF OnOrOff
  <1>2. Init => HonourInv(r)
    <2> SUFFICES ASSUME Init PROVE HonourInv(r)
      OBVIOUS
    <2>1. TypeOK /\ DOMAIN codes = {} /\ completedAt = Never
      BY CodesTypeInit DEF Init
    <2>2. InLag
      BY DEF Init, InLag, NoCall
    <2> QED BY <2>1, <2>2 DEF HonourInv, Promised, HonouredRows
  <1>3. HonourInv(r) /\ [Next]_vars => HonourInv(r)'
    BY <1>1, HonourStep
  <1>4. HonourInv(r) => ShownIsHonoured
    BY DEF HonourInv, Promised, HonouredRows, Honoured, ShownIsHonoured
  <1> QED BY <1>2, <1>3, <1>4, PTL DEF Spec
=============================================================================
