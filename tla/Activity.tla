------------------------------ MODULE Activity ------------------------------
(***************************************************************************)
(* POST /api/bda/:id/leads and /calls: Service.RecordLead and              *)
(* Service.RecordCalls, run by any number of concurrent requests.          *)
(*                                                                         *)
(* A lead is two writes, the ledger event and the rollup of its day, with  *)
(* nothing that makes them one; calls are one write.  Both end with the    *)
(* invalidation of the read cache.  A client that retries a failed request *)
(* is another request with the same fields.                                *)
(***************************************************************************)
EXTENDS Stores, FiniteSets

CONSTANT CallReq    \* requests that may record calls; LeadReq of Stores may record leads

ASSUME ActivityAssumption == ({"none", "noon"} \cup SeedStamp) \cap LeadReq = {}

VARIABLES
  actPc,   \* where each request that records calls or a lead is
  actLoc   \* the body and the local variables of each request

actVars == <<storeVars, actPc, actLoc>>

ActReq   == LeadReq \cup CallReq
ActServing  == {"date", "stamp", "insert", "rollup", "bump", "read"}
ActAnswered == {"ok", "refused", "failed"}     \* 2xx, 4xx, 500 or no answer
Blank    == -1                              \* a body without a date

\* What a body records: a lead won or dropped, a call, or talk time without a call.
LeadOutcome == {"won", "dropped"}
CallOutcome == {"calls", "minutes"}

ActLocal == [bda : Account, outcome : LeadOutcome \cup CallOutcome, asked : Day \cup {Blank},
             date : Day, stamp : Stamp, seen : Nat]

ActTypeOK ==
  /\ StoresTypeOK
  /\ actPc  \in [ActReq -> {"idle"} \cup ActServing \cup ActAnswered]
  /\ actLoc \in [ActReq -> ActLocal]
  /\ \A r \in ActReq : actPc[r] \in ActServing => actLoc[r].bda \in BDA

-----------------------------------------------------------------------------

RollupKey(r) == <<actLoc[r].bda, actLoc[r].date>>
IsLead(r)    == actLoc[r].outcome \in LeadOutcome

ActGoto(r, label) == actPc' = [actPc EXCEPT ![r] = label]

ActFails(r) == ActGoto(r, "failed") /\ Errs

Outcomes(r) == (IF r \in LeadReq THEN LeadOutcome ELSE {})
                 \cup (IF r \in CallReq THEN CallOutcome ELSE {})

\* The body is valid and mustBDA finds an associate, or the request is refused.
Submit(r) ==
  /\ actPc[r] = "idle"
  /\ \/ /\ \E b \in BDA, d \in Day \cup {Blank}, o \in Outcomes(r) :
             actLoc' = [actLoc EXCEPT ![r] = [@ EXCEPT !.bda = b, !.asked = d, !.outcome = o]]
        /\ ActGoto(r, "date") /\ Answers
     \/ ActGoto(r, "refused") /\ Answers /\ UNCHANGED actLoc
     \/ ActFails(r) /\ UNCHANGED actLoc
  /\ UNCHANGED <<users, daily, events, ver, today>>

DateFor(r) == IF actLoc[r].asked = Blank THEN today ELSE actLoc[r].asked

\* A slip: any date that parses is taken.
NormalizeAnyDate(r) ==
  /\ actPc[r] = "date"
  /\ actLoc' = [actLoc EXCEPT ![r] = [@ EXCEPT !.date = DateFor(r), !.asked = Blank]]
  /\ ActGoto(r, IF IsLead(r) THEN "stamp" ELSE "rollup")
  /\ UNCHANGED storeVars

\* The date of the body is not needed after it.
NormalizeDate(r) ==
  /\ actPc[r] = "date"
  /\ \/ /\ actLoc[r].asked > today
        /\ ActGoto(r, "refused") /\ UNCHANGED actLoc
     \/ /\ actLoc[r].asked <= today
        /\ actLoc' = [actLoc EXCEPT ![r] = [@ EXCEPT !.date = DateFor(r), !.asked = Blank]]
        /\ ActGoto(r, IF IsLead(r) THEN "stamp" ELSE "rollup")
  /\ UNCHANGED storeVars

\* The clock is read again: the day may be over by now.
StampEvent(r) ==
  /\ actPc[r] = "stamp"
  /\ actLoc' = [actLoc EXCEPT ![r].stamp = IF actLoc[r].date = today THEN r ELSE "noon"]
  /\ ActGoto(r, "insert")
  /\ UNCHANGED storeVars

LeadEvent(r) ==
  [bda |-> actLoc[r].bda, date |-> actLoc[r].date, stamp |-> actLoc[r].stamp, streak |-> 0,
   type |-> IF actLoc[r].outcome = "won" THEN "LEAD_WON" ELSE "LEAD_DROPPED",
   points |-> IF actLoc[r].outcome = "won" THEN LeadWon ELSE LeadDropped]

\* A slip: a duplicate is taken for a retry of a lead that is logged but not
\* counted yet.
InsertLeadIdempotently(r) ==
  /\ actPc[r] = "insert"
  /\ \/ InsertEvent(LeadEvent(r)) /\ ActGoto(r, "rollup") /\ Answers
     \/ EventTaken(LeadEvent(r)) /\ ActGoto(r, "rollup") /\ Answers /\ UNCHANGED events
     \/ ActFails(r) /\ (InsertEvent(LeadEvent(r)) \/ UNCHANGED events)
  /\ UNCHANGED <<users, daily, ver, today, actLoc>>

InsertLeadEvent(r) ==
  /\ actPc[r] = "insert"
  /\ \/ InsertEvent(LeadEvent(r)) /\ ActGoto(r, "rollup") /\ Answers
     \/ EventTaken(LeadEvent(r)) /\ ActGoto(r, "failed") /\ Answers /\ UNCHANGED events
     \/ ActFails(r) /\ (InsertEvent(LeadEvent(r)) \/ UNCHANGED events)
  /\ UNCHANGED <<users, daily, ver, today, actLoc>>

\* A slip: a dropped lead is not taken off the points.
CountedGross(r, doc) ==
  CASE actLoc[r].outcome = "won" ->
         [doc EXCEPT !.leadsWon = @ + 1, !.points = @ + LeadWon, !.leadPoints = @ + LeadWon]
    [] actLoc[r].outcome = "dropped" ->
         [doc EXCEPT !.leadsDropped = @ + 1, !.penaltyPoints = @ + LeadDropped]
    [] actLoc[r].outcome = "calls"   -> [doc EXCEPT !.calls = @ + 1]
    [] actLoc[r].outcome = "minutes" -> [doc EXCEPT !.callMinutes = @ + 1]

\* A slip: a call record sets its counter where it should increment it.
CallsSet(r, doc) ==
  CASE actLoc[r].outcome = "calls"   -> [doc EXCEPT !.calls = 1]
    [] actLoc[r].outcome = "minutes" -> [doc EXCEPT !.callMinutes = 1]

\* What a call record adds to the rollup of its day.
CallsCounted(r, doc) ==
  CASE actLoc[r].outcome = "calls"   -> [doc EXCEPT !.calls = @ + 1]
    [] actLoc[r].outcome = "minutes" -> [doc EXCEPT !.callMinutes = @ + 1]

\* What the request adds to the rollup of its day.
Counted(r, doc) ==
  CASE actLoc[r].outcome = "won" ->
         [doc EXCEPT !.leadsWon = @ + 1, !.points = @ + LeadWon, !.leadPoints = @ + LeadWon]
    [] actLoc[r].outcome = "dropped" ->
         [doc EXCEPT !.leadsDropped = @ + 1, !.points = @ + LeadDropped,
                     !.penaltyPoints = @ + LeadDropped]
    [] actLoc[r].outcome \in CallOutcome -> CallsCounted(r, doc)

CountInRollup(r) ==
  UpsertDaily(actLoc[r].bda, actLoc[r].date, Counted(r, daily[RollupKey(r)]))

\* A slip: the error of UpsertDaily is dropped like that of Invalidate.
UpsertUnchecked(r) ==
  /\ actPc[r] = "rollup"
  /\ ActGoto(r, "bump")
  /\ \/ CountInRollup(r) /\ Answers
     \/ Errs /\ (CountInRollup(r) \/ UNCHANGED daily)
  /\ UNCHANGED <<users, events, ver, today, actLoc>>

UpsertActivity(r) ==
  /\ actPc[r] = "rollup"
  /\ \/ CountInRollup(r) /\ ActGoto(r, "bump") /\ Answers
     \/ ActFails(r) /\ (CountInRollup(r) \/ UNCHANGED daily)
  /\ UNCHANGED <<users, events, ver, today, actLoc>>

\* The error of the invalidation is dropped; RecordLead is done.
ActInvalidateCache(r) ==
  /\ actPc[r] = "bump"
  /\ ActGoto(r, IF IsLead(r) THEN "ok" ELSE "read")
  /\ \/ Invalidate /\ Answers
     \/ Errs /\ (Invalidate \/ UNCHANGED ver)
  /\ UNCHANGED <<users, daily, events, today, actLoc>>

\* The counter of a rollup that a record of that outcome increments.
Counter(outcome, doc) ==
  CASE outcome = "won"     -> doc.leadsWon
    [] outcome = "dropped" -> doc.leadsDropped
    [] outcome = "calls"   -> doc.calls
    [] outcome = "minutes" -> doc.callMinutes

\* RecordCalls answers with the rollup as it is by now.
ReadRollup(r) ==
  /\ actPc[r] = "read"
  /\ \/ /\ actLoc' = [actLoc EXCEPT ![r].seen = Counter(actLoc[r].outcome, daily[RollupKey(r)])]
        /\ ActGoto(r, "ok") /\ Answers
     \/ ActFails(r) /\ UNCHANGED actLoc
  /\ UNCHANGED <<users, daily, events, ver, today>>

\* The handler dies: the process is killed, or shut down past its timeout.
ActDie(r) ==
  /\ actPc[r] \in ActServing
  /\ ActFails(r)
  /\ UNCHANGED <<users, daily, events, ver, today, actLoc>>

ActMidnight ==
  /\ today < MaxDay
  /\ today' = today + 1
  /\ UNCHANGED <<users, daily, events, ver, faults, actPc, actLoc>>

-----------------------------------------------------------------------------

RequestsIdle ==
  /\ actPc = [r \in ActReq |-> "idle"]
  /\ \E a \in Account :
       actLoc = [r \in ActReq |-> [bda |-> a, outcome |-> "calls", asked |-> Blank, date |-> 0,
                                stamp |-> "none", seen |-> 0]]

ActInit == StoresInit /\ RequestsIdle

\* The steps of one request, once it is being served.
ActServe(r) ==
  \/ NormalizeDate(r) \/ StampEvent(r) \/ InsertLeadEvent(r)
  \/ UpsertActivity(r) \/ ActInvalidateCache(r) \/ ReadRollup(r)

ActNext ==
  \/ \E r \in ActReq : Submit(r) \/ ActServe(r) \/ ActDie(r)
  \/ ActMidnight

ActSpec == ActInit /\ [][ActNext]_actVars

\* A handler that is not killed goes on, since every store call returns.
ActFairSpec == ActSpec /\ \A r \in ActReq : WF_actVars(ActServe(r))

-----------------------------------------------------------------------------
(* Properties.                                                             *)

Leads(k, type) == Cardinality({e \in events : <<e.bda, e.date>> = k /\ e.type = type})

\* The requests for the rollup k with an outcome that are at one of labels.
At(labels, outcome, k) ==
  Cardinality({r \in ActReq :
    actPc[r] \in labels /\ actLoc[r].outcome = outcome /\ RollupKey(r) = k})

\* The rollup of a day never counts a lead the ledger does not hold, and lags it
\* only by requests that are between their two writes or broke off there.
Tracks(counted, type, outcome, k) ==
  /\ counted <= Leads(k, type)
  /\ Leads(k, type) <= counted + At({"rollup", "failed"}, outcome, k)

RollupTracksLedger ==
  \A k \in BDA \X Day :
    /\ Tracks(daily[k].leadsWon, "LEAD_WON", "won", k)
    /\ Tracks(daily[k].leadsDropped, "LEAD_DROPPED", "dropped", k)

\* A request that was answered is counted in the rollup of its day: concurrent
\* increments are not lost and no error is passed over.
AcknowledgedIsCounted ==
  \A k \in BDA \X Day, o \in LeadOutcome \cup CallOutcome :
    At({"ok"}, o, k) <= Counter(o, daily[k])

\* The net points a board ranks by are the sum of their three sources, and the
\* lead points those of the leads counted.
PointsAddUp ==
  \A k \in BDA \X Day :
    LET d == daily[k] IN
    /\ d.points = d.loginPoints + d.leadPoints + d.penaltyPoints
    /\ d.leadPoints = LeadWon * d.leadsWon
    /\ d.penaltyPoints = LeadDropped * d.leadsDropped

\* Nothing is recorded for a day that has not come, so no window that ends today
\* leaves points out.
NothingAheadOfToday ==
  /\ \A e \in events : e.date <= today
  /\ \A k \in BDA \X Day : daily[k] # EmptyDay => k[2] <= today

\* RecordCalls answers with a rollup that shows its own record and every one of its kind
\* acknowledged so far.
AnswerShowsAcknowledged ==
  [][\A r \in CallReq : actPc[r] = "read" /\ actPc'[r] = "ok" =>
       actLoc'[r].seen >= At({"ok"}, actLoc[r].outcome, RollupKey(r)) + 1]_actVars

\* "log a lead and its points": with the stores up, every lead of an associate
\* with a date that has come is logged.
LeadIsLogged == faults = 0 => \A r \in LeadReq : actPc[r] # "failed"

\* With the stores up the rollups catch up with the ledger, and stay with it.
RollupCatchesUp ==
  <>[](faults > 0 \/ \A k \in BDA \X Day :
         /\ daily[k].leadsWon = Leads(k, "LEAD_WON")
         /\ daily[k].leadsDropped = Leads(k, "LEAD_DROPPED"))

=============================================================================
