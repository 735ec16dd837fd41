--------------------------- MODULE ActivityProofs ---------------------------
(***************************************************************************)
(* Proofs about Activity, for any number of associates, requests, days and *)
(* faults.                                                                 *)
(***************************************************************************)
EXTENDS Activity, FiniteSetTheorems, TLAPS

-----------------------------------------------------------------------------
(* The inductive invariant.                                                *)

\* Only the requests that may record a lead do, and only leads have an event to stamp
\* and insert.
Kind(r) ==
  /\ actPc[r] \in {"date", "stamp", "insert"} /\ IsLead(r) => r \in LeadReq
  /\ actPc[r] \in {"stamp", "insert"} => IsLead(r)

Kinds == \A r \in ActReq : Kind(r)

\* A request goes on only with a date that has come.
DatesHaveCome ==
  \A r \in ActReq : actPc[r] \in {"stamp", "insert", "rollup"} => actLoc[r].date <= today

Outcome == {"won", "dropped", "calls", "minutes"}

TypeOf(o) == IF o = "won" THEN "LEAD_WON" ELSE "LEAD_DROPPED"

LeadsOf(k, type) == {e \in events : <<e.bda, e.date>> = k /\ e.type = type}

\* So far finitely many requests have come, and made finitely many leads.
FinitelyMany ==
  /\ IsFiniteSet({r \in ActReq : actPc[r] # "idle"})
  /\ \A k \in BDA \X Day, o \in {"won", "dropped"} : IsFiniteSet(LeadsOf(k, TypeOf(o)))

\* A rollup counts every request past its increment that did not fail.
Acknowledged ==
  \A k \in BDA \X Day, o \in Outcome : At({"bump", "read", "ok"}, o, k) <= Counter(o, daily[k])

\* The ledger of a day holds the leads its rollup counts and those about to be counted,
\* and no more but for requests that failed.
Tracked ==
  \A k \in BDA \X Day, o \in {"won", "dropped"} :
    /\ Counter(o, daily[k]) + At({"rollup"}, o, k) <= Leads(k, TypeOf(o))
    /\ Leads(k, TypeOf(o)) <= Counter(o, daily[k]) + At({"rollup", "failed"}, o, k)

Sound == ActTypeOK /\ Kinds /\ DatesHaveCome /\ PointsAddUp /\ NothingAheadOfToday

ActInv == Sound /\ FinitelyMany /\ Acknowledged /\ Tracked

-----------------------------------------------------------------------------
(* Counting.                                                               *)

\* A finite set that changes at r alone changes its size by r's membership.
LEMMA SizeMoves ==
  ASSUME NEW S, NEW T, IsFiniteSet(S), NEW r, S \ {r} = T \ {r}
  PROVE  /\ IsFiniteSet(T) /\ Cardinality(S) \in Nat /\ Cardinality(T) \in Nat
         /\ Cardinality(T) = Cardinality(S) + (IF r \in T THEN 1 ELSE 0)
                                            - (IF r \in S THEN 1 ELSE 0)
<1> DEFINE R == S \ {r}
<1>1. /\ IsFiniteSet(R)
      /\ Cardinality(R) = IF r \in S THEN Cardinality(S) - 1 ELSE Cardinality(S)
  BY FS_RemoveElement
<1>2. /\ IsFiniteSet(R \cup {r}) /\ Cardinality(R \cup {r}) = Cardinality(R) + 1
  BY <1>1, FS_AddElement
<1>3. T = IF r \in T THEN R \cup {r} ELSE R  OBVIOUS
<1>4. IsFiniteSet(T) /\ Cardinality(T) = IF r \in T THEN Cardinality(R) + 1 ELSE Cardinality(R)
  BY <1>1, <1>2, <1>3
<1>5. Cardinality(S) \in Nat /\ Cardinality(T) \in Nat /\ Cardinality(R) \in Nat
  BY <1>1, <1>4, FS_CardinalityType
<1> HIDE DEF R
<1>6. QED  BY <1>1, <1>4, <1>5

\* Whether request r is one of those At counts.
Counts(r, labels, o, k) == actPc[r] \in labels /\ actLoc[r].outcome = o /\ RollupKey(r) = k

LEMMA AtMoves ==
  ASSUME FinitelyMany, NEW r \in ActReq,
         \A q \in ActReq \ {r} : actPc'[q] = actPc[q] /\ actLoc'[q] = actLoc[q],
         NEW labels, "idle" \notin labels, NEW o, NEW k
  PROVE  /\ At(labels, o, k) \in Nat /\ At(labels, o, k)' \in Nat
         /\ At(labels, o, k)' = At(labels, o, k) + (IF Counts(r, labels, o, k)' THEN 1 ELSE 0)
                                                 - (IF Counts(r, labels, o, k) THEN 1 ELSE 0)
<1> DEFINE S == {q \in ActReq : Counts(q, labels, o, k)}
           T == {q \in ActReq : Counts(q, labels, o, k)'}
<1>1. IsFiniteSet(S)
  <2>1. S \subseteq {q \in ActReq : actPc[q] # "idle"}  BY DEF Counts
  <2>2. QED  BY <2>1, FS_Subset DEF FinitelyMany
<1>2. S \ {r} = T \ {r}  BY DEF Counts, RollupKey
<1>3. At(labels, o, k) = Cardinality(S) /\ At(labels, o, k)' = Cardinality(T)
  BY DEF At, Counts
<1>4. (r \in S <=> Counts(r, labels, o, k)) /\ (r \in T <=> Counts(r, labels, o, k)')
  OBVIOUS
<1> HIDE DEF S, T
<1>5. /\ Cardinality(S) \in Nat /\ Cardinality(T) \in Nat
      /\ Cardinality(T) = Cardinality(S) + (IF r \in T THEN 1 ELSE 0)
                                         - (IF r \in S THEN 1 ELSE 0)
  BY <1>1, <1>2, SizeMoves
<1>6. /\ (IF r \in T THEN 1 ELSE 0) = IF Counts(r, labels, o, k)' THEN 1 ELSE 0
      /\ (IF r \in S THEN 1 ELSE 0) = IF Counts(r, labels, o, k) THEN 1 ELSE 0
  BY <1>4
<1>7. QED  BY <1>3, <1>5, <1>6

\* More requests are counted at more labels.
LEMMA AtGrows ==
  ASSUME FinitelyMany, NEW few, NEW many, few \subseteq many, "idle" \notin many, NEW o, NEW k
  PROVE  At(few, o, k) \in Nat /\ At(many, o, k) \in Nat /\ At(few, o, k) <= At(many, o, k)
<1> DEFINE S == {q \in ActReq : Counts(q, few, o, k)}
           T == {q \in ActReq : Counts(q, many, o, k)}
<1>1. IsFiniteSet(T)
  <2>1. T \subseteq {q \in ActReq : actPc[q] # "idle"}  BY DEF Counts
  <2>2. QED  BY <2>1, FS_Subset DEF FinitelyMany
<1>2. S \subseteq T  BY DEF Counts
<1>3. At(few, o, k) = Cardinality(S) /\ At(many, o, k) = Cardinality(T)
  BY DEF At, Counts
<1> HIDE DEF S, T
<1>4. QED  BY <1>1, <1>2, <1>3, FS_Subset, FS_CardinalityType

-----------------------------------------------------------------------------
(* Initially.                                                              *)

LEMMA InitActInv == ActInit => ActInv
<1> SUFFICES ASSUME ActInit PROVE ActInv  OBVIOUS
<1>1. PICK h \in [BDA -> SeedStreak \cup {0}] : SeededWith(h)  BY DEF ActInit, StoresInit
<1>2. \A b \in BDA : h[b] \in Nat
  <2>1. \A n \in SeedStreak \cup {0} : n \in Nat
    BY StoresAssumption DEF StoresAssumption
  <2>2. \A b \in BDA : h[b] \in SeedStreak \cup {0}  OBVIOUS
  <2>3. QED  BY <2>1, <2>2
<1>3. 0 \in Day /\ 1 \in Day /\ Day \subseteq Int
  BY StoresAssumption DEF StoresAssumption, Day
<1>4. EmptyDay \in Daily  BY DEF EmptyDay, Daily
<1>5. \A empty \in Daily : empty = EmptyDay => \A n \in Nat :
        LET doc == LoginDay(empty, n)
        IN  /\ doc \in Daily /\ doc.points = doc.loginPoints
            /\ doc.leadPoints = 0 /\ doc.penaltyPoints = 0
            /\ doc.leadsWon = 0 /\ doc.leadsDropped = 0 /\ doc.calls = 0
            /\ doc.callMinutes = 0
  <2> TAKE empty \in Daily
  <2> HAVE empty = EmptyDay
  <2> TAKE n \in Nat
  <2>1. LoginPoints(n) \in Nat
    BY DEF LoginPoints, LoginBase, StreakBonusPerDay, StreakBonusCap
  <2>2. /\ empty.points = 0 /\ empty.loginPoints = 0 /\ empty.leadPoints = 0
        /\ empty.penaltyPoints = 0 /\ empty.leadsWon = 0 /\ empty.leadsDropped = 0
        /\ empty.calls = 0 /\ empty.callMinutes = 0
    BY DEF EmptyDay
  <2>3. empty.loginPoints + LoginPoints(n) \in Nat /\ empty.points + LoginPoints(n) \in Int
    BY <2>1, <2>2
  <2>4. LoginDay(empty, n) \in Daily
    BY <2>3 DEF LoginDay, Daily
  <2>5. LET doc == LoginDay(empty, n)
        IN  /\ doc.points = empty.points + LoginPoints(n)
            /\ doc.loginPoints = empty.loginPoints + LoginPoints(n)
            /\ doc.leadPoints = 0 /\ doc.penaltyPoints = 0
            /\ doc.leadsWon = 0 /\ doc.leadsDropped = 0 /\ doc.calls = 0
            /\ doc.callMinutes = 0
    BY <2>2 DEF LoginDay, Daily
  <2>6. QED  BY <2>2, <2>4, <2>5
<1>6. \A k \in BDA \X Day :
        daily[k] = IF k[2] = 0 /\ h[k[1]] > 0 THEN LoginDay(EmptyDay, h[k[1]]) ELSE EmptyDay
  BY <1>1 DEF SeededWith
<1>7. \A k \in BDA \X Day :
        LET doc == daily[k]
        IN  /\ doc \in Daily /\ doc.points = doc.loginPoints
            /\ doc.leadPoints = 0 /\ doc.penaltyPoints = 0
            /\ doc.leadsWon = 0 /\ doc.leadsDropped = 0 /\ doc.calls = 0
            /\ doc.callMinutes = 0
  <2>1. EmptyDay.points = EmptyDay.loginPoints /\ EmptyDay.leadPoints = 0
        /\ EmptyDay.penaltyPoints = 0 /\ EmptyDay.leadsWon = 0
        /\ EmptyDay.leadsDropped = 0 /\ EmptyDay.calls = 0
        /\ EmptyDay.callMinutes = 0
    BY DEF EmptyDay
  <2> HIDE DEF LoginDay, EmptyDay
  <2>2. QED  BY <1>2, <1>4, <1>5, <1>6, <2>1
<1>8. /\ \A e \in events : e.type = "LOGIN" /\ e.date = 0
      /\ events \subseteq Event
  <2>1. \A b \in BDA : LoginEvent(b, 0, h[b]) \in Event
    <3> TAKE b \in BDA
    <3>1. h[b] \in Nat /\ LoginPoints(h[b]) \in Int
      BY <1>2 DEF LoginPoints, LoginBase, StreakBonusPerDay, StreakBonusCap
    <3>2. QED  BY <1>3, <3>1 DEF LoginEvent, Event, Stamp
  <2>2. QED  BY <1>1, <2>1 DEF SeededWith, LoginEvent
<1>9. actPc = [r \in ActReq |-> "idle"] /\ actLoc \in [ActReq -> ActLocal]
  BY <1>3 DEF ActInit, RequestsIdle, ActLocal, Stamp, CallOutcome
<1>10. ActTypeOK
  <2>1. users \in [Account -> User]
    BY <1>1, <1>2, <1>3 DEF SeededWith, Account, User
  <2>2. daily \in [BDA \X Day -> Daily]
    <3>1. daily = [k \in BDA \X Day |-> daily[k]]
      BY <1>1 DEF SeededWith
    <3>2. QED  BY <1>7, <3>1
  <2>3. ver \in Nat /\ today \in Day /\ faults \in 0 .. MaxFaults
    BY <1>3, StoresAssumption DEF ActInit, StoresInit, StoresAssumption
  <2>4. QED  BY <1>8, <1>9, <2>1, <2>2, <2>3 DEF ActTypeOK, StoresTypeOK, ActServing
<1>11. PointsAddUp
  <2>1. \A k \in BDA \X Day : daily[k].loginPoints \in Nat
    BY <1>7 DEF Daily
  <2>2. QED  BY <1>7, <2>1 DEF PointsAddUp, LeadWon, LeadDropped
<1>12. NothingAheadOfToday
  BY <1>3, <1>6, <1>8 DEF NothingAheadOfToday, ActInit, StoresInit
<1>13. FinitelyMany /\ \A k \in BDA \X Day, o \in {"won", "dropped"} : Leads(k, TypeOf(o)) = 0
  <2>1. {r \in ActReq : actPc[r] # "idle"} = {}  BY <1>9
  <2>2. \A k \in BDA \X Day, o \in {"won", "dropped"} : LeadsOf(k, TypeOf(o)) = {}
    BY <1>8 DEF LeadsOf, TypeOf
  <2>3. QED  BY <2>1, <2>2, FS_EmptySet DEF FinitelyMany, Leads, LeadsOf
<1>14. \A labels \in SUBSET {"bump", "read", "ok", "rollup", "failed"},
           k \in BDA \X Day, o \in Outcome :
         At(labels, o, k) = 0
  <2> TAKE labels \in SUBSET {"bump", "read", "ok", "rollup", "failed"},
            k \in BDA \X Day, o \in Outcome
  <2>1. {r \in ActReq : actPc[r] \in labels /\ actLoc[r].outcome = o /\ RollupKey(r) = k} = {}
    BY <1>9
  <2>2. QED  BY <2>1, FS_EmptySet DEF At
<1>15. \A k \in BDA \X Day, o \in Outcome : Counter(o, daily[k]) = 0
  BY <1>7 DEF Counter, Outcome
<1>16. Acknowledged /\ Tracked
  BY <1>13, <1>14, <1>15 DEF Acknowledged, Tracked, Outcome
<1>17. QED
  BY <1>9, <1>10, <1>11, <1>12, <1>13, <1>16
  DEF ActInv, Sound, Kinds, Kind, DatesHaveCome

-----------------------------------------------------------------------------
(* One step of one request.                                                *)

Step(r) == Submit(r) \/ ActServe(r) \/ ActDie(r)

\* It moves that request only, which stays well typed, of its kind and on a day that
\* has come.
LEMMA StepMoves ==
  ASSUME Sound, NEW r \in ActReq, Step(r)
  PROVE  /\ actPc'  \in [ActReq -> {"idle"} \cup ActServing \cup ActAnswered]
         /\ actLoc' \in [ActReq -> ActLocal]
         /\ \A q \in ActReq \ {r} : actPc'[q] = actPc[q] /\ actLoc'[q] = actLoc[q]
         /\ actPc'[r] \in ActServing => actLoc'[r].bda \in BDA
         /\ Kind(r)'
         /\ actPc'[r] \in {"stamp", "insert", "rollup"} => actLoc'[r].date <= today
         /\ users' = users /\ ver' \in Nat /\ today' = today /\ faults' \in 0 .. MaxFaults
<1> USE DEF ActGoto, ActFails, ActServing, ActAnswered, IsLead, LeadOutcome, CallOutcome
<1>1. /\ actPc  \in [ActReq -> {"idle"} \cup ActServing \cup ActAnswered]
      /\ actLoc \in [ActReq -> ActLocal] /\ actLoc[r] \in ActLocal
      /\ actPc[r] \in ActServing => actLoc[r].bda \in BDA
      /\ Kind(r)
      /\ actPc[r] \in {"stamp", "insert", "rollup"} => actLoc[r].date <= today
      /\ ver \in Nat /\ today \in Day /\ Day \subseteq Int
  BY DEF Sound, ActTypeOK, StoresTypeOK, Kinds, DatesHaveCome, Day
<1>2. faults \in 0 .. MaxFaults /\ (Answers \/ Errs => faults' \in 0 .. MaxFaults)
  BY StoresAssumption DEF StoresAssumption, Sound, ActTypeOK, StoresTypeOK, Answers, Errs
<1>3. CASE Submit(r)
  <2>1. actPc[r] = "idle" /\ UNCHANGED <<users, daily, events, ver, today>>
    BY <1>3 DEF Submit
  <2>2. CASE \/ ActGoto(r, "refused") /\ Answers /\ UNCHANGED actLoc
             \/ ActFails(r) /\ UNCHANGED actLoc
    BY <1>1, <1>2, <2>1, <2>2 DEF Kind
  <2>3. CASE /\ \E b \in BDA, d \in Day \cup {Blank}, o \in Outcomes(r) :
                  actLoc' = [actLoc EXCEPT
                               ![r] = [@ EXCEPT !.bda = b, !.asked = d, !.outcome = o]]
             /\ ActGoto(r, "date") /\ Answers
    <3>1. PICK b \in BDA, d \in Day \cup {Blank}, o \in Outcomes(r) :
            actLoc' = [actLoc EXCEPT ![r] = [@ EXCEPT !.bda = b, !.asked = d, !.outcome = o]]
      BY <2>3
    <3> DEFINE x == [actLoc[r] EXCEPT !.bda = b, !.asked = d, !.outcome = o]
    <3>2. o \in LeadOutcome \cup CallOutcome /\ (o \in LeadOutcome => r \in LeadReq)
      BY DEF Outcomes
    <3>3. x \in ActLocal /\ x.bda = b /\ (x.outcome \in LeadOutcome => r \in LeadReq)
      BY <1>1, <3>2 DEF ActLocal, Account
    <3>4. actLoc' = [actLoc EXCEPT ![r] = x]  BY <3>1
    <3> HIDE DEF x
    <3>5. /\ actLoc' \in [ActReq -> ActLocal] /\ actLoc'[r] = x
          /\ \A q \in ActReq \ {r} : actLoc'[q] = actLoc[q]
      BY <1>1, <3>3, <3>4
    <3>6. QED  BY <1>1, <1>2, <2>1, <2>3, <3>3, <3>5 DEF Kind
  <2>4. QED
    <3> HIDE DEF ActGoto, ActFails, IsLead, LeadOutcome, CallOutcome
    <3>1. \/ /\ \E b \in BDA, d \in Day \cup {Blank}, o \in Outcomes(r) :
                  actLoc' = [actLoc EXCEPT
                               ![r] = [@ EXCEPT !.bda = b, !.asked = d, !.outcome = o]]
             /\ ActGoto(r, "date") /\ Answers
          \/ ActGoto(r, "refused") /\ Answers /\ UNCHANGED actLoc
          \/ ActFails(r) /\ UNCHANGED actLoc
      BY <1>3 DEF Submit
    <3>2. QED  BY <2>2, <2>3, <3>1
<1>4. CASE NormalizeDate(r)
  <2> DEFINE x == [actLoc[r] EXCEPT !.date = DateFor(r), !.asked = Blank]
  <2>1. /\ x \in ActLocal /\ x.bda = actLoc[r].bda /\ x.outcome = actLoc[r].outcome
        /\ (actLoc[r].asked <= today => x.date <= today)
    <3>1. DateFor(r) \in Day /\ (actLoc[r].asked <= today => DateFor(r) <= today)
      BY <1>1 DEF ActLocal, DateFor
    <3>2. QED  BY <1>1, <3>1 DEF ActLocal
  <2>2. UNCHANGED actLoc \/ (actLoc[r].asked <= today /\ actLoc' = [actLoc EXCEPT ![r] = x])
    BY <1>4 DEF NormalizeDate
  <2> HIDE DEF x
  <2>3. /\ actLoc' \in [ActReq -> ActLocal]
        /\ \A q \in ActReq \ {r} : actLoc'[q] = actLoc[q]
        /\ UNCHANGED actLoc \/ (actLoc[r].asked <= today /\ actLoc'[r] = x)
    BY <1>1, <2>1, <2>2
  <2>4. /\ actPc[r] = "date" /\ UNCHANGED storeVars
        /\ \/ actPc' = [actPc EXCEPT ![r] = "refused"]
           \/ /\ actLoc[r].asked <= today /\ actLoc'[r] = x
              /\ actPc' = [actPc EXCEPT ![r] = IF IsLead(r) THEN "stamp" ELSE "rollup"]
    BY <1>1, <1>4, <2>2 DEF NormalizeDate, x
  <2>5. QED  BY <1>1, <1>2, <2>1, <2>3, <2>4 DEF storeVars, Kind
<1>5. CASE StampEvent(r)
  <2> DEFINE x == [actLoc[r] EXCEPT !.stamp = IF actLoc[r].date = today THEN r ELSE "noon"]
  <2>1. /\ x \in ActLocal /\ x.bda = actLoc[r].bda
        /\ x.outcome = actLoc[r].outcome /\ x.date = actLoc[r].date
    BY <1>1, <1>5 DEF StampEvent, ActLocal, Stamp, Kind
  <2>2. actLoc' = [actLoc EXCEPT ![r] = x]
    BY <1>5 DEF StampEvent
  <2> HIDE DEF x
  <2>3. QED  BY <1>1, <1>2, <1>5, <2>1, <2>2 DEF StampEvent, storeVars, Kind
<1>6. CASE InsertLeadEvent(r)
  BY <1>1, <1>2, <1>6 DEF InsertLeadEvent, Kind
<1>7. CASE UpsertActivity(r)
  BY <1>1, <1>2, <1>7 DEF UpsertActivity, Kind
<1>8. CASE ActInvalidateCache(r)
  BY <1>1, <1>2, <1>8 DEF ActInvalidateCache, Invalidate, Kind
<1>9. CASE ReadRollup(r)
  <2> DEFINE x == [actLoc[r] EXCEPT !.seen = Counter(actLoc[r].outcome, daily[RollupKey(r)])]
  <2>1. RollupKey(r) \in BDA \X Day /\ daily \in [BDA \X Day -> Daily]
    BY <1>1, <1>9 DEF ReadRollup, RollupKey, ActLocal, Sound, ActTypeOK, StoresTypeOK
  <2>2. Counter(actLoc[r].outcome, daily[RollupKey(r)]) \in Nat
    <3>1. daily[RollupKey(r)] \in Daily /\ actLoc[r].outcome \in LeadOutcome \cup CallOutcome
      BY <1>1, <2>1 DEF ActLocal
    <3>2. QED  BY <3>1 DEF Daily, Counter
  <2>3. /\ x \in ActLocal /\ x.bda = actLoc[r].bda
        /\ x.outcome = actLoc[r].outcome /\ x.date = actLoc[r].date
    BY <1>1, <2>2 DEF ActLocal
  <2>4. actLoc' = [actLoc EXCEPT ![r] = x] \/ UNCHANGED actLoc
    BY <1>9 DEF ReadRollup
  <2> HIDE DEF x
  <2>5. QED  BY <1>1, <1>2, <1>9, <2>3, <2>4 DEF ReadRollup, Kind
<1>10. CASE ActDie(r)
  BY <1>1, <1>2, <1>10 DEF ActDie, Kind
<1>11. QED
  BY <1>3, <1>4, <1>5, <1>6, <1>7, <1>8, <1>9, <1>10 DEF Step, ActServe

-----------------------------------------------------------------------------
(* What a step does to the ledger and the rollups.                         *)

\* Nothing: the request is not done with a rollup it was at, and is past one only if it was.
Quiet(r) ==
  /\ UNCHANGED <<events, daily>>
  /\ actPc'[r] = "rollup" => actLoc'[r].outcome \notin {"won", "dropped"}
  /\ actPc[r] = "rollup" => actPc'[r] = "failed" /\ actLoc'[r] = actLoc[r]
  /\ actPc'[r] \in {"bump", "read", "ok"} =>
       /\ actPc[r] \in {"bump", "read"}
       /\ actLoc'[r].outcome = actLoc[r].outcome /\ RollupKey(r)' = RollupKey(r)

Logs(r) ==
  /\ actPc[r] = "insert" /\ actPc'[r] \in {"rollup", "failed"}
  /\ InsertEvent(LeadEvent(r)) /\ UNCHANGED <<daily, actLoc>>

CountsIn(r) ==
  /\ actPc[r] = "rollup" /\ actPc'[r] \in {"bump", "failed"}
  /\ CountInRollup(r) /\ UNCHANGED <<events, actLoc>>

LEMMA StepEffect ==
  ASSUME Sound, NEW r \in ActReq, Step(r)
  PROVE  /\ actPc[r] \notin ActAnswered
         /\ Quiet(r) \/ Logs(r) \/ CountsIn(r)
<1> USE DEF ActGoto, ActFails, ActAnswered, IsLead, LeadOutcome
<1>1. /\ actPc  \in [ActReq -> {"idle"} \cup ActServing \cup ActAnswered]
      /\ actLoc \in [ActReq -> ActLocal] /\ actLoc[r] \in ActLocal
  BY StepMoves DEF Sound, ActTypeOK, StoresTypeOK
<1>2. CASE Submit(r)
  <2>1. /\ actPc[r] = "idle" /\ actPc'[r] \in {"date", "refused", "failed"}
        /\ UNCHANGED <<events, daily>>
    BY <1>1, <1>2 DEF Submit
  <2>2. QED  BY <2>1 DEF Quiet
<1>3. CASE NormalizeDate(r)
  <2>1. /\ actPc[r] = "date" /\ UNCHANGED <<events, daily>>
        /\ \/ actPc'[r] \in {"refused", "stamp"}
           \/ actPc'[r] = "rollup" /\ ~IsLead(r) /\ actLoc'[r].outcome = actLoc[r].outcome
    <3> DEFINE x == [actLoc[r] EXCEPT !.date = DateFor(r), !.asked = Blank]
    <3>1. x.outcome = actLoc[r].outcome  BY <1>1 DEF ActLocal
    <3> HIDE DEF x
    <3>2. /\ actPc[r] = "date" /\ UNCHANGED <<events, daily>>
          /\ \/ actPc'[r] = "refused"
             \/ /\ actPc'[r] = IF IsLead(r) THEN "stamp" ELSE "rollup"
                /\ actLoc' = [actLoc EXCEPT ![r] = x]
      BY <1>1, <1>3 DEF NormalizeDate, storeVars, x
    <3>3. QED  BY <1>1, <3>1, <3>2
  <2>2. QED  BY <1>1, <2>1 DEF Quiet
<1>4. CASE StampEvent(r)
  BY <1>1, <1>4 DEF StampEvent, storeVars, Quiet
<1>5. CASE InsertLeadEvent(r)
  BY <1>1, <1>5 DEF InsertLeadEvent, Quiet, Logs
<1>6. CASE UpsertActivity(r)
  BY <1>1, <1>6 DEF UpsertActivity, Quiet, CountsIn
<1>7. CASE ActInvalidateCache(r)
  BY <1>1, <1>7 DEF ActInvalidateCache, Quiet, RollupKey
<1>8. CASE ReadRollup(r)
  <2> DEFINE x == [actLoc[r] EXCEPT !.seen = Counter(actLoc[r].outcome, daily[RollupKey(r)])]
  <2>1. x.bda = actLoc[r].bda /\ x.outcome = actLoc[r].outcome /\ x.date = actLoc[r].date
    BY <1>1 DEF ActLocal
  <2>2. actLoc'[r] = x \/ actLoc'[r] = actLoc[r]
    BY <1>1, <1>8 DEF ReadRollup
  <2> HIDE DEF x
  <2>3. QED  BY <1>1, <1>8, <2>1, <2>2 DEF ReadRollup, Quiet, RollupKey
<1>9. CASE ActDie(r)
  BY <1>1, <1>9 DEF ActDie, ActServing, Quiet, RollupKey
<1>10. QED
  BY <1>2, <1>3, <1>4, <1>5, <1>6, <1>7, <1>8, <1>9 DEF Step, ActServe

\* What a request adds to a rollup: one to the count of its outcome, to the points what
\* it adds to a source of them, and nothing else.
LEMMA CountedType ==
  ASSUME Sound, NEW r \in ActReq, NEW doc \in Daily
  PROVE  /\ Counted(r, doc) \in Daily
         /\ \A o \in Outcome :
              Counter(o, Counted(r, doc)) = Counter(o, doc) + (IF actLoc[r].outcome = o THEN 1 ELSE 0)
         /\ (doc.points = doc.loginPoints + doc.leadPoints + doc.penaltyPoints
              /\ doc.leadPoints = LeadWon * doc.leadsWon
              /\ doc.penaltyPoints = LeadDropped * doc.leadsDropped) =>
            LET d == Counted(r, doc) IN
              /\ d.points = d.loginPoints + d.leadPoints + d.penaltyPoints
              /\ d.leadPoints = LeadWon * d.leadsWon
              /\ d.penaltyPoints = LeadDropped * d.leadsDropped
<1>1. actLoc[r].outcome \in Outcome
  BY DEF Sound, ActTypeOK, ActLocal, Outcome, LeadOutcome, CallOutcome
<1>2. CASE actLoc[r].outcome = "won"
  <2>1. Counted(r, doc) = [doc EXCEPT !.leadsWon = doc.leadsWon + 1,
                             !.points = doc.points + LeadWon,
                              !.leadPoints = doc.leadPoints + LeadWon]
    BY <1>2 DEF Counted, CallOutcome
  <2> DEFINE d == Counted(r, doc)
  <2>2. /\ doc.leadsWon + 1 \in Nat /\ doc.points + LeadWon \in Int
        /\ doc.leadPoints + LeadWon \in Nat
    BY DEF Daily, LeadWon, LeadDropped
  <2>3. d \in Daily
    BY <2>1, <2>2 DEF Daily
  <2>4. /\ d.leadsWon = doc.leadsWon + 1 /\ d.leadsDropped = doc.leadsDropped
        /\ d.points = doc.points + LeadWon /\ d.leadPoints = doc.leadPoints + LeadWon
        /\ d.penaltyPoints = doc.penaltyPoints
        /\ d.loginPoints = doc.loginPoints /\ d.calls = doc.calls
        /\ d.callMinutes = doc.callMinutes
    BY <2>1 DEF Daily
  <2>5. \A o \in Outcome :
          Counter(o, d) = Counter(o, doc) + (IF actLoc[r].outcome = o THEN 1 ELSE 0)
    BY <1>2, <2>4 DEF Daily, Counter, Outcome
  <2> HIDE DEF d
  <2>6. QED  BY <2>3, <2>4, <2>5 DEF d, Daily, LeadWon, LeadDropped
<1>3. CASE actLoc[r].outcome = "dropped"
  <2>1. Counted(r, doc) = [doc EXCEPT !.leadsDropped = doc.leadsDropped + 1,
                             !.points = doc.points + LeadDropped,
                             !.penaltyPoints = doc.penaltyPoints + LeadDropped]
    BY <1>3 DEF Counted, CallOutcome
  <2> DEFINE d == Counted(r, doc)
  <2>2. /\ doc.leadsDropped + 1 \in Nat /\ doc.points + LeadDropped \in Int
        /\ doc.penaltyPoints + LeadDropped \in Int
    BY DEF Daily, LeadWon, LeadDropped
  <2>3. d \in Daily
    BY <2>1, <2>2 DEF Daily
  <2>4. /\ d.leadsWon = doc.leadsWon /\ d.leadsDropped = doc.leadsDropped + 1
        /\ d.points = doc.points + LeadDropped /\ d.leadPoints = doc.leadPoints
        /\ d.penaltyPoints = doc.penaltyPoints + LeadDropped
        /\ d.loginPoints = doc.loginPoints /\ d.calls = doc.calls
        /\ d.callMinutes = doc.callMinutes
    BY <2>1 DEF Daily
  <2>5. \A o \in Outcome :
          Counter(o, d) = Counter(o, doc) + (IF actLoc[r].outcome = o THEN 1 ELSE 0)
    BY <1>3, <2>4 DEF Daily, Counter, Outcome
  <2> HIDE DEF d
  <2>6. QED  BY <2>3, <2>4, <2>5 DEF d, Daily, LeadWon, LeadDropped
<1>4. CASE actLoc[r].outcome = "calls"
  <2>1. Counted(r, doc) = [doc EXCEPT !.calls = doc.calls + 1]
    BY <1>4 DEF Counted, CallsCounted, CallOutcome
  <2>2. QED  BY <1>4, <2>1 DEF Daily, Counter, Outcome, LeadWon, LeadDropped
<1>5. CASE actLoc[r].outcome = "minutes"
  <2>1. Counted(r, doc) = [doc EXCEPT !.callMinutes = doc.callMinutes + 1]
    BY <1>5 DEF Counted, CallsCounted, CallOutcome
  <2>2. QED  BY <1>5, <2>1 DEF Daily, Counter, Outcome, LeadWon, LeadDropped
<1>6. QED  BY <1>1, <1>2, <1>3, <1>4, <1>5 DEF Outcome

-----------------------------------------------------------------------------
(* The invariant is preserved.                                             *)

LEMMA KeyType ==
  ASSUME Sound, NEW r \in ActReq, actPc[r] \in ActServing
  PROVE  RollupKey(r) \in BDA \X Day
BY DEF Sound, ActTypeOK, ActLocal, RollupKey

\* The event of a lead is well typed, of the lead's associate, day and outcome.
LEMMA LeadEventType ==
  ASSUME Sound, NEW r \in ActReq, actPc[r] = "insert"
  PROVE  /\ LeadEvent(r) \in Event
         /\ <<LeadEvent(r).bda, LeadEvent(r).date>> = RollupKey(r)
         /\ actLoc[r].outcome \in {"won", "dropped"}
         /\ LeadEvent(r).type = TypeOf(actLoc[r].outcome)
         /\ LeadEvent(r).date <= today
<1>1. actLoc[r] \in ActLocal /\ actLoc[r].bda \in BDA /\ actLoc[r].outcome \in {"won", "dropped"}
      /\ actLoc[r].date <= today
  BY DEF Sound, ActTypeOK, Kinds, Kind, IsLead, LeadOutcome, DatesHaveCome, ActServing, ActLocal
<1>2. (IF actLoc[r].outcome = "won" THEN LeadWon ELSE LeadDropped) \in Int
  BY DEF LeadWon, LeadDropped
<1>3. QED  BY <1>1, <1>2 DEF LeadEvent, Event, ActLocal, RollupKey, TypeOf

LEMMA StepSound ==
  ASSUME Sound, NEW r \in ActReq, Step(r)
  PROVE  Sound'
<1>1. /\ events \in SUBSET Event /\ daily \in [BDA \X Day -> Daily]
      /\ \A e \in events : e.date <= today
      /\ today' = today /\ today \in Day
  BY StepMoves DEF Sound, ActTypeOK, StoresTypeOK, NothingAheadOfToday
<1>2. Quiet(r) \/ Logs(r) \/ CountsIn(r)  BY StepEffect
<1>3. /\ events' \in SUBSET Event /\ \A e \in events' : e.date <= today
  <2>1. CASE UNCHANGED events  BY <1>1, <2>1
  <2>2. CASE Logs(r)
    BY <1>1, <2>2, LeadEventType DEF Logs, InsertEvent
  <2>3. QED  BY <1>2, <2>1, <2>2 DEF Quiet, CountsIn
<1>4. /\ daily' \in [BDA \X Day -> Daily]
      /\ PointsAddUp'
      /\ \A k \in BDA \X Day : daily'[k] # EmptyDay => k[2] <= today
  <2>1. CASE UNCHANGED daily
    BY <1>1, <2>1 DEF Sound, PointsAddUp, NothingAheadOfToday
  <2>2. CASE CountsIn(r)
    <3> DEFINE k0  == RollupKey(r)
               doc == daily[k0]
    <3>1. k0 \in BDA \X Day /\ doc \in Daily
      BY <1>1, <2>2, KeyType DEF CountsIn, ActServing
    <3>2. daily' = [daily EXCEPT ![k0] = Counted(r, doc)]
      BY <2>2 DEF CountsIn, CountInRollup, UpsertDaily, RollupKey
    <3>3. k0[2] <= today
      BY <2>2 DEF CountsIn, Sound, DatesHaveCome, RollupKey
    <3> HIDE DEF k0
    <3>4. /\ daily'[k0] = Counted(r, doc)
          /\ \A k \in BDA \X Day : k # k0 => daily'[k] = daily[k]
      BY <1>1, <3>1, <3>2
    <3>5. daily' \in [BDA \X Day -> Daily]
      BY <1>1, <3>1, <3>2, CountedType
    <3>6. PointsAddUp'
      <4> SUFFICES ASSUME NEW k \in BDA \X Day
                   PROVE  LET d == daily'[k] IN
                            /\ d.points = d.loginPoints + d.leadPoints + d.penaltyPoints
                            /\ d.leadPoints = LeadWon * d.leadsWon
                            /\ d.penaltyPoints = LeadDropped * d.leadsDropped
        BY DEF PointsAddUp
      <4>1. LET d == daily[k] IN
              /\ d.points = d.loginPoints + d.leadPoints + d.penaltyPoints
              /\ d.leadPoints = LeadWon * d.leadsWon
              /\ d.penaltyPoints = LeadDropped * d.leadsDropped
        BY DEF Sound, PointsAddUp
      <4>2. CASE k # k0  BY <3>4, <4>1, <4>2
      <4>3. CASE k = k0  BY <3>1, <3>4, <4>1, <4>3, CountedType
      <4>4. QED  BY <4>2, <4>3
    <3>7. QED  BY <3>3, <3>4, <3>5, <3>6 DEF Sound, NothingAheadOfToday
  <2>3. QED  BY <1>2, <2>1, <2>2 DEF Quiet, Logs
<1>5. ActTypeOK'
  <2>1. /\ actPc  \in [ActReq -> {"idle"} \cup ActServing \cup ActAnswered]
        /\ \A q \in ActReq : actPc[q] \in ActServing => actLoc[q].bda \in BDA
        /\ users \in [Account -> User]
    BY DEF Sound, ActTypeOK, StoresTypeOK
  <2>2. \A q \in ActReq : actPc'[q] \in ActServing => actLoc'[q].bda \in BDA
    BY <2>1, StepMoves
  <2>3. QED  BY <1>1, <1>3, <1>4, <2>1, <2>2, StepMoves DEF ActTypeOK, StoresTypeOK
<1>6. Kinds' /\ DatesHaveCome'
  <2>1. \A q \in ActReq : q = r \/ (actPc'[q] = actPc[q] /\ actLoc'[q] = actLoc[q])
    BY StepMoves
  <2>2. \A q \in ActReq \ {r} : Kind(q)' = Kind(q)
    BY <2>1 DEF Kind, IsLead
  <2>3. QED  BY <1>1, <2>1, <2>2, StepMoves DEF Sound, Kinds, DatesHaveCome
<1>7. QED  BY <1>1, <1>3, <1>4, <1>5, <1>6 DEF Sound, NothingAheadOfToday

\* The leads of a day change by the one that is logged.
LEMMA LeadsMove ==
  ASSUME Sound, FinitelyMany, NEW r \in ActReq, Step(r),
         NEW k \in BDA \X Day, NEW o \in {"won", "dropped"}
  PROVE  /\ IsFiniteSet(LeadsOf(k, TypeOf(o))')
         /\ Leads(k, TypeOf(o)) \in Nat /\ Leads(k, TypeOf(o))' \in Nat
         /\ Leads(k, TypeOf(o))' = Leads(k, TypeOf(o)) +
              (IF Logs(r) /\ RollupKey(r) = k /\ actLoc[r].outcome = o THEN 1 ELSE 0)
<1> DEFINE S == LeadsOf(k, TypeOf(o))
           T == LeadsOf(k, TypeOf(o))'
<1>1. IsFiniteSet(S) /\ Cardinality(S) \in Nat
  BY FS_CardinalityType DEF FinitelyMany
<1>2. Leads(k, TypeOf(o)) = Cardinality(S) /\ Leads(k, TypeOf(o))' = Cardinality(T)
  BY DEF Leads, LeadsOf
<1>3. CASE Logs(r)
  <2> DEFINE e == LeadEvent(r)
  <2>1. events' = events \cup {e} /\ e \notin events
    BY <1>3 DEF Logs, InsertEvent, EventTaken
  <2>2. /\ <<e.bda, e.date>> = RollupKey(r) /\ actLoc[r].outcome \in {"won", "dropped"}
        /\ e.type = TypeOf(actLoc[r].outcome)
    BY <1>3, LeadEventType DEF Logs
  <2> HIDE DEF e
  <2>3. CASE RollupKey(r) = k /\ actLoc[r].outcome = o
    <3>1. T = S \cup {e} /\ e \notin S  BY <2>1, <2>2, <2>3 DEF LeadsOf
    <3>2. QED  BY <1>1, <1>2, <1>3, <2>3, <3>1, FS_AddElement
  <2>4. CASE ~(RollupKey(r) = k /\ actLoc[r].outcome = o)
    <3>1. T = S  BY <2>1, <2>2, <2>4 DEF LeadsOf, TypeOf
    <3>2. QED  BY <1>1, <1>2, <2>4, <3>1
  <2>5. QED  BY <2>3, <2>4
<1>4. CASE ~Logs(r)
  <2>1. T = S  BY <1>4, StepEffect DEF Quiet, CountsIn, LeadsOf
  <2>2. QED  BY <1>1, <1>2, <1>4, <2>1
<1>5. QED  BY <1>3, <1>4

\* The counts of a rollup change by the one request that counts itself in.
LEMMA CountsMove ==
  ASSUME Sound, NEW r \in ActReq, Step(r), NEW k \in BDA \X Day, NEW o \in Outcome
  PROVE  /\ Counter(o, daily[k]) \in Nat
         /\ Counter(o, daily'[k]) = Counter(o, daily[k]) +
              (IF CountsIn(r) /\ RollupKey(r) = k /\ actLoc[r].outcome = o THEN 1 ELSE 0)
<1>1. daily \in [BDA \X Day -> Daily] /\ daily[k] \in Daily
  BY DEF Sound, ActTypeOK, StoresTypeOK
<1>2. Counter(o, daily[k]) \in Nat
  BY <1>1 DEF Counter, Outcome, Daily
<1>3. CASE CountsIn(r)
  <2> DEFINE k0 == RollupKey(r)
  <2>1. k0 \in BDA \X Day
    BY <1>3, KeyType DEF CountsIn, ActServing
  <2>2. daily' = [daily EXCEPT ![k0] = Counted(r, daily[k0])]
    BY <1>3 DEF CountsIn, CountInRollup, UpsertDaily, RollupKey
  <2>3. daily'[k] = IF k = k0 THEN Counted(r, daily[k]) ELSE daily[k]
    BY <1>1, <2>1, <2>2
  <2>4. Counter(o, Counted(r, daily[k]))
          = Counter(o, daily[k]) + (IF actLoc[r].outcome = o THEN 1 ELSE 0)
    BY <1>1, CountedType
  <2>5. QED  BY <1>2, <1>3, <2>3, <2>4
<1>4. CASE ~CountsIn(r)
  BY <1>2, <1>4, StepEffect DEF Quiet, Logs
<1>5. QED  BY <1>3, <1>4

\* Of a finite number, whatever one step of one request does.
LEMMA StepFinite ==
  ASSUME Sound, FinitelyMany, NEW r \in ActReq, Step(r)
  PROVE  FinitelyMany'
<1> DEFINE S == {q \in ActReq : actPc[q] # "idle"}
           T == {q \in ActReq : actPc'[q] # "idle"}
<1>1. IsFiniteSet(S \cup {r})
  BY FS_AddElement DEF FinitelyMany
<1>2. T \subseteq S \cup {r}
  BY StepMoves
<1>3. IsFiniteSet(T)  BY <1>1, <1>2, FS_Subset
<1>4. QED  BY <1>3, LeadsMove DEF FinitelyMany

LEMMA StepAcknowledged ==
  ASSUME Sound, FinitelyMany, Acknowledged, NEW r \in ActReq, Step(r)
  PROVE  Acknowledged'
<1> SUFFICES ASSUME NEW k \in BDA \X Day, NEW o \in Outcome
             PROVE  At({"bump", "read", "ok"}, o, k)' <= Counter(o, daily'[k])
  BY DEF Acknowledged
<1> DEFINE past == {"bump", "read", "ok"}
<1>0. /\ "idle" \notin past
      /\ \A q \in ActReq \ {r} : actPc'[q] = actPc[q] /\ actLoc'[q] = actLoc[q]
  BY StepMoves
<1> HIDE DEF past
<1>1. /\ At(past, o, k) \in Nat /\ At(past, o, k)' \in Nat
      /\ At(past, o, k)' = At(past, o, k) + (IF Counts(r, past, o, k)' THEN 1 ELSE 0)
                                          - (IF Counts(r, past, o, k) THEN 1 ELSE 0)
  BY <1>0, AtMoves
<1>2. /\ Counter(o, daily[k]) \in Nat
      /\ Counter(o, daily'[k]) = Counter(o, daily[k]) +
           (IF CountsIn(r) /\ RollupKey(r) = k /\ actLoc[r].outcome = o THEN 1 ELSE 0)
  BY CountsMove
<1>3. At(past, o, k) <= Counter(o, daily[k])
  BY DEF Acknowledged, past
<1>4. Counts(r, past, o, k)' =>
        \/ Counts(r, past, o, k)
        \/ CountsIn(r) /\ RollupKey(r) = k /\ actLoc[r].outcome = o
  BY StepEffect DEF Counts, Quiet, Logs, CountsIn, RollupKey, past
<1>5. At(past, o, k)' <= Counter(o, daily'[k])
  BY <1>1, <1>2, <1>3, <1>4
<1>6. QED  BY <1>5 DEF past

LEMMA StepTracked ==
  ASSUME Sound, FinitelyMany, Tracked, NEW r \in ActReq, Step(r)
  PROVE  Tracked'
<1> SUFFICES ASSUME NEW k \in BDA \X Day, NEW o \in {"won", "dropped"}
             PROVE  /\ Counter(o, daily'[k]) + At({"rollup"}, o, k)' <= Leads(k, TypeOf(o))'
                    /\ Leads(k, TypeOf(o))'
                         <= Counter(o, daily'[k]) + At({"rollup", "failed"}, o, k)'
  BY DEF Tracked
<1> DEFINE due  == {"rollup"}
           open == {"rollup", "failed"}
           logs   == Logs(r) /\ RollupKey(r) = k /\ actLoc[r].outcome = o
           counts == CountsIn(r) /\ RollupKey(r) = k /\ actLoc[r].outcome = o
<1>0. /\ "idle" \notin due /\ "idle" \notin open
      /\ \A q \in ActReq \ {r} : actPc'[q] = actPc[q] /\ actLoc'[q] = actLoc[q]
  BY StepMoves
<1> HIDE DEF due, open, logs, counts
<1>1. /\ At(due, o, k) \in Nat /\ At(due, o, k)' \in Nat
      /\ At(due, o, k)' = At(due, o, k) + (IF Counts(r, due, o, k)' THEN 1 ELSE 0)
                                        - (IF Counts(r, due, o, k) THEN 1 ELSE 0)
  BY <1>0, AtMoves
<1>2. /\ At(open, o, k) \in Nat /\ At(open, o, k)' \in Nat
      /\ At(open, o, k)' = At(open, o, k) + (IF Counts(r, open, o, k)' THEN 1 ELSE 0)
                                          - (IF Counts(r, open, o, k) THEN 1 ELSE 0)
  BY <1>0, AtMoves
<1>3. /\ Counter(o, daily[k]) \in Nat
      /\ Counter(o, daily'[k]) = Counter(o, daily[k]) + (IF counts THEN 1 ELSE 0)
  BY CountsMove DEF Outcome, counts
<1>4. /\ Leads(k, TypeOf(o)) \in Nat /\ Leads(k, TypeOf(o))' \in Nat
      /\ Leads(k, TypeOf(o))' = Leads(k, TypeOf(o)) + (IF logs THEN 1 ELSE 0)
  BY LeadsMove DEF logs
<1>5. /\ Counter(o, daily[k]) + At(due, o, k) <= Leads(k, TypeOf(o))
      /\ Leads(k, TypeOf(o)) <= Counter(o, daily[k]) + At(open, o, k)
  BY DEF Tracked, due, open
<1>6. /\ counts => Counts(r, due, o, k) /\ ~Counts(r, due, o, k)'
                   /\ Counts(r, open, o, k) /\ ~logs
      /\ logs => Counts(r, open, o, k)' /\ ~Counts(r, open, o, k)
      /\ Counts(r, due, o, k)' => logs \/ Counts(r, due, o, k)
      /\ Counts(r, open, o, k) => counts \/ Counts(r, open, o, k)'
  BY StepEffect DEF Counts, Quiet, Logs, CountsIn, RollupKey, ActAnswered,
     due, open, logs, counts
<1>7. /\ Counter(o, daily'[k]) + At(due, o, k)' <= Leads(k, TypeOf(o))'
      /\ Leads(k, TypeOf(o))' <= Counter(o, daily'[k]) + At(open, o, k)'
  BY <1>1, <1>2, <1>3, <1>4, <1>5, <1>6
<1>8. QED  BY <1>7 DEF due, open

\* While no request moves and no rollup or event changes, nothing of it does, unless a
\* day comes.
LEMMA FrameActInv ==
  ASSUME ActInv, UNCHANGED <<users, daily, events, ver, faults, actPc, actLoc>>,
         today' \in Day, today' >= today
  PROVE  ActInv'
<1>1. today \in Int /\ today' \in Int /\ \A d \in Day : d \in Int
  BY StoresAssumption DEF StoresAssumption, ActInv, Sound, ActTypeOK, StoresTypeOK, Day
<1>2. ActTypeOK' /\ Kinds' /\ PointsAddUp'
  BY DEF ActInv, Sound, ActTypeOK, StoresTypeOK, Kinds, Kind, IsLead, PointsAddUp
<1>3. DatesHaveCome'
  <2>1. \A r \in ActReq : actLoc[r].date \in Int
    BY <1>1 DEF ActInv, Sound, ActTypeOK, ActLocal
  <2>2. QED  BY <1>1, <2>1 DEF ActInv, Sound, DatesHaveCome
<1>4. NothingAheadOfToday'
  <2>1. \A e \in events : e.date \in Int
    BY <1>1 DEF ActInv, Sound, ActTypeOK, StoresTypeOK, Event
  <2>2. \A k \in BDA \X Day : k[2] \in Int
    BY <1>1
  <2>3. QED  BY <1>1, <2>1, <2>2 DEF ActInv, Sound, NothingAheadOfToday
<1>5. /\ \A labels, o, k : At(labels, o, k)' = At(labels, o, k)
      /\ \A k, type : Leads(k, type)' = Leads(k, type) /\ LeadsOf(k, type)' = LeadsOf(k, type)
  BY DEF At, RollupKey, Leads, LeadsOf
<1>6. FinitelyMany' /\ Acknowledged' /\ Tracked'
  BY <1>5 DEF ActInv, FinitelyMany, Acknowledged, Tracked
<1>7. QED  BY <1>2, <1>3, <1>4, <1>6 DEF ActInv, Sound

LEMMA NextActInv == ActInv /\ [ActNext]_actVars => ActInv'
<1> SUFFICES ASSUME ActInv, [ActNext]_actVars PROVE ActInv'  OBVIOUS
<1>1. ASSUME NEW r \in ActReq, Step(r) PROVE ActInv'
  BY <1>1, StepSound, StepFinite, StepAcknowledged, StepTracked DEF ActInv
<1>2. today \in Day /\ today >= today
  BY StoresAssumption DEF StoresAssumption, ActInv, Sound, ActTypeOK, StoresTypeOK, Day
<1>3. CASE ActMidnight
  <2>1. today' \in Day /\ today' >= today
    BY <1>2, <1>3, StoresAssumption DEF ActMidnight, Day, StoresAssumption
  <2>2. QED  BY <1>3, <2>1, FrameActInv DEF ActMidnight
<1>4. CASE UNCHANGED actVars
  BY <1>2, <1>4, FrameActInv DEF actVars, storeVars
<1>5. QED  BY <1>1, <1>3, <1>4 DEF ActNext, Step

\* The inductive invariant of RecordLead and RecordCalls: the counts of ledger, rollups and
\* requests stay together.
THEOREM ActivityInvariant == ActSpec => []ActInv
BY InitActInv, NextActInv, PTL DEF ActSpec

-----------------------------------------------------------------------------
(* What follows.                                                           *)

LEMMA ActInvImplies ==
  ActInv => ActTypeOK /\ PointsAddUp /\ NothingAheadOfToday
BY DEF ActInv, Sound

\* Whatever fails and whenever midnight falls, every document and local variable of the
\* activity path has its type.
THEOREM ActivityTypes == ActSpec => []ActTypeOK
BY ActivityInvariant, ActInvImplies, PTL

\* The net points of every rollup are the sum of their sources, lead by lead.
THEOREM PointsAlwaysAddUp == ActSpec => []PointsAddUp
BY ActivityInvariant, ActInvImplies, PTL

\* No event and no rollup is dated ahead of the calendar, though the date is decided at
\* one reading of the clock and the event stamped at another.
THEOREM NothingIsAhead == ActSpec => []NothingAheadOfToday
BY ActivityInvariant, ActInvImplies, PTL

LEMMA InvAcknowledged == ActInv => AcknowledgedIsCounted
<1> SUFFICES ASSUME ActInv, NEW k \in BDA \X Day
             PROVE  \A o \in Outcome : At({"ok"}, o, k) <= Counter(o, daily[k])
  BY DEF AcknowledgedIsCounted, Outcome, LeadOutcome, CallOutcome
<1> DEFINE past == {"bump", "read", "ok"}
           done == {"ok"}
<1>1. done \subseteq past /\ "idle" \notin past  OBVIOUS
<1>2. \A o \in Outcome : At(past, o, k) <= Counter(o, daily[k])
  BY DEF ActInv, Acknowledged
<1>3. \A o \in Outcome : Counter(o, daily[k]) \in Nat
  BY DEF ActInv, Sound, ActTypeOK, StoresTypeOK, Counter, Outcome, Daily
<1>4. FinitelyMany  BY DEF ActInv
<1> HIDE DEF past, done
<1>5. \A o \in Outcome :
        At(done, o, k) \in Nat /\ At(past, o, k) \in Nat /\ At(done, o, k) <= At(past, o, k)
  BY <1>1, <1>4, AtGrows
<1>6. \A o \in Outcome : At(done, o, k) <= Counter(o, daily[k])
  BY <1>2, <1>3, <1>5
<1>7. QED  BY <1>6 DEF done

\* However requests overlap and fail, whatever was acknowledged is counted: no increment
\* is lost.
THEOREM AcknowledgedStaysCounted == ActSpec => []AcknowledgedIsCounted
BY ActivityInvariant, InvAcknowledged, PTL

LEMMA InvTracks == ActInv => RollupTracksLedger
<1> SUFFICES ASSUME ActInv, NEW k \in BDA \X Day, NEW o \in {"won", "dropped"}
             PROVE  Tracks(Counter(o, daily[k]), TypeOf(o), o, k)
  BY DEF RollupTracksLedger, Counter, TypeOf
<1> DEFINE due == {"rollup"}
<1>1. due \subseteq {"rollup"} /\ "idle" \notin due  OBVIOUS
<1>2. /\ Counter(o, daily[k]) + At(due, o, k) <= Leads(k, TypeOf(o))
      /\ Leads(k, TypeOf(o)) <= Counter(o, daily[k]) + At({"rollup", "failed"}, o, k)
  BY DEF ActInv, Tracked
<1>3. Counter(o, daily[k]) \in Nat
  BY DEF ActInv, Sound, ActTypeOK, StoresTypeOK, Counter, Daily
<1>4. Leads(k, TypeOf(o)) \in Nat
  <2>1. IsFiniteSet(LeadsOf(k, TypeOf(o)))  BY DEF ActInv, FinitelyMany
  <2>2. Leads(k, TypeOf(o)) = Cardinality(LeadsOf(k, TypeOf(o)))  BY DEF Leads, LeadsOf
  <2>3. QED  BY <2>1, <2>2, FS_CardinalityType
<1>5. FinitelyMany  BY DEF ActInv
<1> HIDE DEF due
<1>6. At(due, o, k) \in Nat
  BY <1>1, <1>5, AtGrows
<1>7. Counter(o, daily[k]) <= Leads(k, TypeOf(o))
  BY <1>2, <1>3, <1>4, <1>6
<1>8. QED  BY <1>2, <1>7 DEF Tracks

\* The rollup of a day never counts a lead the ledger misses, and lags it by no more than
\* the requests between their two writes and those that failed.
THEOREM RollupsTrackTheLedger == ActSpec => []RollupTracksLedger
BY ActivityInvariant, InvTracks, PTL

LEMMA StepAnswers ==
  ASSUME ActInv, [ActNext]_actVars, NEW r \in CallReq, actPc[r] = "read", actPc'[r] = "ok"
  PROVE  actLoc'[r].seen >= At({"ok"}, actLoc[r].outcome, RollupKey(r)) + 1
<1> DEFINE past == {"bump", "read", "ok"}
           k    == RollupKey(r)
           o    == actLoc[r].outcome
<1>1. r \in ActReq /\ Sound /\ FinitelyMany
  BY DEF ActReq, ActInv
<1>2. ReadRollup(r)
  <2>1. PICK q \in ActReq : Step(q)
    BY DEF ActNext, Step, ActMidnight, actVars
  <2>2. q = r  BY <1>1, <2>1, StepMoves
  <2>3. actPc \in [ActReq -> {"idle"} \cup ActServing \cup ActAnswered]
    BY <1>1 DEF Sound, ActTypeOK
  <2>4. QED
    BY <2>1, <2>2, <2>3
    DEF Step, ActServe, Submit, NormalizeDate, StampEvent, InsertLeadEvent, UpsertActivity,
        ActInvalidateCache, ActDie, ActGoto, ActFails
<1>3. k \in BDA \X Day
  BY <1>1, <1>2, KeyType DEF ReadRollup, ActServing
<1>4. o \in Outcome
  BY <1>1 DEF Sound, ActTypeOK, ActLocal, Outcome, LeadOutcome, CallOutcome
<1>5. Counter(o, daily[k]) \in Nat /\ actLoc'[r].seen = Counter(o, daily[k])
  <2>1. daily[k] \in Daily  BY <1>1, <1>3 DEF Sound, ActTypeOK, StoresTypeOK
  <2>2. actLoc \in [ActReq -> ActLocal] /\ actLoc[r] \in ActLocal
        /\ actPc \in [ActReq -> {"idle"} \cup ActServing \cup ActAnswered]
    BY <1>1 DEF Sound, ActTypeOK
  <2>3. actLoc' = [actLoc EXCEPT ![r] = [actLoc[r] EXCEPT !.seen = Counter(o, daily[k])]]
    BY <1>1, <1>2, <2>2 DEF ReadRollup, ActFails, ActGoto
  <2>4. actLoc'[r] = [actLoc[r] EXCEPT !.seen = Counter(o, daily[k])]  BY <1>1, <2>2, <2>3
  <2>5. Counter(o, daily[k]) \in Nat
    BY <1>4, <2>1 DEF Daily, Counter, Outcome
  <2>6. QED  BY <2>2, <2>4, <2>5 DEF ActLocal
<1>6. At(past, o, k) <= Counter(o, daily[k])
  BY <1>3, <1>4 DEF ActInv, Acknowledged
<1>7. At({"ok"}, o, k) + 1 <= At(past, o, k) /\ At({"ok"}, o, k) \in Nat
      /\ At(past, o, k) \in Nat
  <2> DEFINE S == {q \in ActReq : Counts(q, {"ok"}, o, k)}
             T == {q \in ActReq : Counts(q, past, o, k)}
  <2>1. IsFiniteSet(T)
    <3>1. T \subseteq {q \in ActReq : actPc[q] # "idle"}  BY DEF Counts
    <3>2. QED  BY <1>1, <3>1, FS_Subset DEF FinitelyMany
  <2>2. S \cup {r} \subseteq T /\ r \notin S /\ S \subseteq T
    BY <1>1 DEF Counts
  <2>3. IsFiniteSet(S) /\ Cardinality(S) \in Nat /\ Cardinality(T) \in Nat
    BY <2>1, <2>2, FS_Subset, FS_CardinalityType
  <2>4. Cardinality(S \cup {r}) = Cardinality(S) + 1 /\ Cardinality(S \cup {r}) <= Cardinality(T)
    BY <2>1, <2>2, <2>3, FS_AddElement, FS_Subset
  <2>5. At({"ok"}, o, k) = Cardinality(S) /\ At(past, o, k) = Cardinality(T)
    BY DEF At, Counts
  <2> HIDE DEF S, T, past, k, o
  <2>6. QED  BY <2>3, <2>4, <2>5
<1> HIDE DEF past, k, o
<1>8. actLoc'[r].seen >= At({"ok"}, o, k) + 1
  BY <1>5, <1>6, <1>7
<1>9. QED  BY <1>8 DEF k, o

\* The rollup RecordCalls answers with shows its own record and all of its kind
\* acknowledged before.
THEOREM CallsAnswersAreCurrent == ActSpec => AnswerShowsAcknowledged
<1>1. ActInv /\ [ActNext]_actVars =>
        [\A r \in CallReq : actPc[r] = "read" /\ actPc'[r] = "ok" =>
           actLoc'[r].seen >= At({"ok"}, actLoc[r].outcome, RollupKey(r)) + 1]_actVars
  BY StepAnswers
<1>2. QED  BY <1>1, ActivityInvariant, PTL DEF ActSpec, AnswerShowsAcknowledged

=============================================================================
