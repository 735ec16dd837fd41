------------------------------ MODULE Reports ------------------------------
(***************************************************************************)
(* The reads of internal/service that put a response together from several *)
(* collections: an associate's activity (the ledger by day), the overview  *)
(* and the daily report, over the seeded history, while logins, leads and  *)
(* calls are recorded and midnight comes.                                  *)
(*                                                                         *)
(* Each query of a read sees what the writers have done by then, and they  *)
(* write more than one collection too.  The rankings of the overview are   *)
(* in module Boards.                                                       *)
(***************************************************************************)
EXTENDS Login, Activity, Seed, Sequences, Functions

CONSTANTS
  HistoryDays, \* days of the seeded history, of which the last is that of the start
  RangeDays,   \* lengths of the ranges an overview is asked for, 0 for "all"
  ChartDays,   \* days of the overview's chart: 30
  FeedLimit,   \* events of the overview's feed: 12
  MaxSeeded    \* bound: calls and leads of an associate in the seeded history

ASSUME ReportsAssumption ==
  /\ HistoryDays \in 2 .. MaxDay + 1
  /\ RangeDays \subseteq Nat /\ ChartDays \in Nat \ {0} /\ FeedLimit \in Nat \ {0}

VARIABLES
  seeded,   \* the associates whose days the seeding inserted
  view,     \* the read under way, or the last response
  rows      \* the rollups it holds, by associate and day

readVars == <<seeded, view, rows>>
allVars  == <<vars, actPc, actLoc, readVars>>

-----------------------------------------------------------------------------
(* The queries.                                                            *)

\* The rollups that exist: seeding inserts one a day, with or without records.
Rollups == {k \in BDA \X Day : daily[k] # EmptyDay \/ (k[1] \in seeded /\ k[2] < HistoryDays)}

DailyRange(bs, from, to) ==
  [k \in {j \in Rollups : j[1] \in bs /\ from <= j[2] /\ j[2] <= to} |-> daily[k]]

\* AggregateByBDA, of which an overview keeps its associate's.
LeadsWonOver(b, from, to) ==
  LET totals == DailyRange({b}, from, to)
  IN  SumFunction([k \in DOMAIN totals |-> totals[k].leadsWon])

\* The last day an event's instant may be on: a login reads it once more, after its date.
InstantBy(e) == IF e.type = "LOGIN" THEN e.date + MaxLag ELSE e.date

\* EventsByBDA: the newest of b's events by their instants, or all of them.
Newest(b, limit) ==
  LET mine == {e \in events : e.bda = b}
  IN  {some \in SUBSET mine :
         /\ Cardinality(some) = Min({limit, Cardinality(mine)})
         /\ \A e \in some, f \in mine \ some : f.date <= InstantBy(e)}

EventsByBDA(b, limit) == IF limit = 0 THEN {{e \in events : e.bda = b}} ELSE Newest(b, limit)

-----------------------------------------------------------------------------
(* The reads.                                                              *)

\* A slip: the ledger is read before the rollups.
LedgerFirst(kind) ==
  CASE kind = "activity" -> <<"user", "events", "clock", "rollups">>
    [] kind = "overview" -> <<"user", "summary", "allTime", "events", "clock", "rollups", "streak">>
    [] kind = "report"   -> <<"minDate", "day">>

\* A slip: the user is read where the streak is worked out.
UserLast(kind) ==
  CASE kind = "activity" -> <<"user", "clock", "rollups", "events">>
    [] kind = "overview" -> <<"summary", "allTime", "clock", "rollups", "events", "user", "streak">>
    [] kind = "report"   -> <<"minDate", "day">>

\* What each read does, in order.  The totals of an overview are one step each with
\* the reading of the clock before them.
Queries(kind) ==
  CASE kind = "activity" -> <<"user", "clock", "rollups", "events">>
    [] kind = "overview" -> <<"user", "summary", "allTime", "clock", "rollups", "events", "streak">>
    [] kind = "report"   -> <<"minDate", "day">>

\* todo: the queries to come; began, acked: the day, and the records acknowledged, when
\* the read began; date: the last reading of the clock, or the day a report is asked for.
Idle == [kind |-> "none", todo |-> <<>>, bda |-> CHOOSE b \in BDA : TRUE, began |-> 0,
         acked |-> {}, date |-> 0, days |-> 0, entries |-> {}, available |-> TRUE,
         user |-> [current |-> 0, best |-> 0, last |-> Never],
         summary |-> 0, allTime |-> 0, streak |-> 0, loggedInToday |-> FALSE]

\* One read a behaviour: reads leave nothing behind that another could see.
Begin(kind, b, days, date) ==
  /\ view.kind = "none"
  /\ view' = [Idle EXCEPT !.kind = kind, !.todo = Queries(kind), !.bda = b, !.began = today,
                          !.acked = {r \in ActReq : actPc[r] = "ok"},
                          !.days = days, !.date = date]
  /\ rows' = <<>>
  /\ UNCHANGED <<vars, actPc, actLoc, seeded>>

AskActivity(b)       == Begin("activity", b, 0, today)
AskOverview(b, days) == Begin("overview", b, days, today)
AskReport(date)      == Begin("report", view.bda, 0, date)

\* The step q of the read, which finds the fields of found.
Query(q, found) ==
  /\ view.todo # <<>> /\ Head(view.todo) = q
  /\ view' = [found EXCEPT !.todo = Tail(@)]
  /\ UNCHANGED <<vars, actPc, actLoc, seeded>>

ReadUser == Query("user", [view EXCEPT !.user = users[view.bda]]) /\ UNCHANGED rows

ReadSummary ==
  /\ Query("summary", [view EXCEPT !.summary =
       LeadsWonOver(view.bda, FirstDay(view.days, today), today)])
  /\ UNCHANGED rows

ReadAllTime ==
  /\ Query("allTime", [view EXCEPT !.allTime = LeadsWonOver(view.bda, 0, today)])
  /\ UNCHANGED rows

ReadClock == Query("clock", [view EXCEPT !.date = today]) /\ UNCHANGED rows

ReadRollups ==
  /\ Query("rollups", view)
  /\ rows' = DailyRange({view.bda}, IF view.kind = "activity" THEN 0
                                    ELSE FirstDay(ChartDays, view.date), view.date)

ReadEvents ==
  /\ \E found \in EventsByBDA(view.bda, IF view.kind = "activity" THEN 0 ELSE FeedLimit) :
       Query("events", [view EXCEPT !.entries = found])
  /\ UNCHANGED rows

\* currentStreak reads the clock once more.
ReadStreak ==
  /\ Query("streak", [view EXCEPT !.date = today, !.streak = CurrentStreak(view.user),
                                  !.loggedInToday = (view.user.last = today)])
  /\ UNCHANGED rows

\* A day before the first rollup or after today has no report.
ReadMinDate ==
  /\ LET dates == {k[2] : k \in Rollups}
         known == dates # {} /\ Min(dates) <= view.date /\ view.date <= today
     IN  Query("minDate", [view EXCEPT !.available = known,
                                       !.todo = IF known THEN @ ELSE SubSeq(@, 1, 1)])
  /\ UNCHANGED rows

ReadDay == Query("day", view) /\ rows' = DailyRange(BDA, view.date, view.date)

Read ==
  \/ ReadUser \/ ReadSummary \/ ReadAllTime \/ ReadClock \/ ReadRollups
  \/ ReadEvents \/ ReadStreak \/ ReadMinDate \/ ReadDay

-----------------------------------------------------------------------------

\* The store after a start: the demo history of some of the associates.
StoresSeeded ==
  /\ \E raw \in [seeded -> Raw(HistoryDays, MaxSeeded)] : Seeded(raw)
  /\ ver = 0 /\ today = HistoryDays - 1 /\ faults = 0

ReportsInit ==
  /\ seeded \in SUBSET BDA
  /\ StoresSeeded
  /\ LoginsIdle /\ RequestsIdle
  /\ view = Idle /\ rows = <<>>

ReportsNext ==
  \/ (\E r \in LoginReq : Serve(r) \/ Die(r)) /\ UNCHANGED <<actPc, actLoc, readVars>>
  \/ (Midnight \/ \E k \in BDA \X Day : ExpireLock(k)) /\ UNCHANGED <<actPc, actLoc, readVars>>
  \/ \E r \in ActReq : /\ Submit(r) \/ ActServe(r) \/ ActDie(r)
                       /\ UNCHANGED <<redisVars, pc, loc, readVars>>
  \/ \E b \in BDA : AskActivity(b) \/ \E n \in RangeDays : AskOverview(b, n)
  \/ \E d \in Day : AskReport(d)
  \/ Read

ReportsSpec == ReportsInit /\ [][ReportsNext]_allVars

-----------------------------------------------------------------------------
(* Properties.                                                             *)

Shows(kind) == view.kind = kind /\ view.todo = <<>>

Entries(k, type) == Cardinality({e \in view.entries : <<e.bda, e.date>> = k /\ e.type = type})

\* fillDays, and the rows of a report: a day without a rollup is a row of zeros.
Row(k) == IF k \in DOMAIN rows THEN rows[k] ELSE EmptyDay

\* A feed that was cut off shows the whole of a day when it reaches an earlier one.
Reaches(d) ==
  \/ view.kind = "activity" \/ Cardinality(view.entries) < FeedLimit
  \/ \E e \in view.entries : InstantBy(e) < d

\* The ledger of a response explains its totals: no day counts a lead or a login of
\* which the response does not show the entry, whatever is written meanwhile.
LedgerExplainsTotals ==
  Shows("activity") \/ Shows("overview") =>
    \A k \in DOMAIN rows : Reaches(k[2]) =>
      /\ rows[k].leadsWon <= Entries(k, "LEAD_WON")
      /\ rows[k].leadsDropped <= Entries(k, "LEAD_DROPPED")
      /\ rows[k].loginPoints # 0 => Entries(k, "LOGIN") = 1

\* A slip: a day without calls is left out whatever happened on it.
DayWithCallsShown(k) == k \in DOMAIN rows /\ rows[k].calls > 0

\* The days of an activity response: those with events or calls.
DayShown(k) ==
  k \in DOMAIN rows /\ (rows[k].calls > 0 \/ \E e \in view.entries : <<e.bda, e.date>> = k)

\* A report has a row for every associate of a day that is available.
RowShown(k) == IF view.kind = "report" THEN view.available /\ k[2] = view.date ELSE DayShown(k)

\* The records of an outcome in k acknowledged before the read began.
AckedBefore(o, k) == {r \in view.acked : actLoc[r].outcome = o /\ RollupKey(r) = k}

\* "full points ledger grouped by day", "per-BDA report for one day": a lead or a call
\* acknowledged before the read began is shown on its day, and every record counted in the
\* rollup that was read.  (Talk time alone does not make an activity show the day.)
AcknowledgedIsShown ==
  \A k \in BDA \X Day :
    \/ Shows("activity") /\ view.bda = k[1]
    \/ Shows("report") /\ view.date = k[2]
    => /\ (\E o \in LeadOutcome \cup {"calls"} : AckedBefore(o, k) # {}) => RowShown(k)
       /\ \A o \in LeadOutcome \cup CallOutcome :
            Cardinality(AckedBefore(o, k)) <= Counter(o, Row(k))

SameDay == Shows("overview") /\ view.began = view.date

\* On one day the figures of an overview go together although each is of another
\* moment: the tile of a login shown has its streak, and later figures hold earlier ones.
OverviewIsCoherent ==
  SameDay =>
    /\ view.loggedInToday => LET tile == Row(<<view.bda, view.date>>)
                             IN  tile.loggedIn /\ tile.streakDay = view.streak
    /\ view.summary <= view.allTime
    /\ view.days \in 1 .. ChartDays =>
         view.summary <= SumFunction([k \in {j \in DOMAIN rows :
                           FirstDay(view.days, view.date) <= j[2]} |-> rows[k].leadsWon])

\* nextLoginPoints is what the next login of the day is credited, if there is one.
NextLoginIsAsPromised ==
  SameDay /\ ~view.loggedInToday =>
    daily[<<view.bda, view.date>>].loginPoints \in {0, LoginPoints(view.streak + 1)}

\* The best streak of a user is the longest in the ledger, seeded or not, but while a
\* login is between its event and the user document.
BestIsLongest ==
  faults = 0 => \A b \in BDA :
    \/ \E r \in LoginReq : pc[r] \in {"rollup", "streak"} /\ loc[r].account = b
    \/ users[b].best = Max({0} \cup {e.streak : e \in {f \in Logins : f.bda = b}})

PointsOf(ledger) == SumFunction([e \in ledger |-> e.points])

\* The events whose requests have yet to count them in the rollup of their day.
Uncounted ==
       {EventOf(r) : r \in {q \in LoginReq : pc[q] = "rollup"}}
  \cup {LeadEvent(r) : r \in {q \in ActReq : actPc[q] = "rollup" /\ IsLead(q)}}

\* The books balance, on seeded days and later ones: at every moment the points of a
\* rollup are those of its day's ledger, but for the events that are still to be counted.
BooksBalance ==
  faults = 0 => \A k \in BDA \X Day :
    daily[k].points = PointsOf({e \in events : <<e.bda, e.date>> = k} \ Uncounted)

=============================================================================
