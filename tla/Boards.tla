------------------------------- MODULE Boards -------------------------------
(***************************************************************************)
(* The rankings of internal/service: Service.board, which the leaderboard  *)
(* and both overviews show, and the answers of TeamOverview, with its      *)
(* quarterBoard, and of NoticeBoard, with its cycles.                      *)
(*                                                                         *)
(* An answer is computed from one list of the users, several readings of   *)
(* the clock and several queries; records of other requests, a new         *)
(* associate and midnight may fall between any two.  (The clock and the    *)
(* query up to it are one step where midnight between them could not be    *)
(* told from midnight after them: nothing is recorded ahead of a day.)     *)
(***************************************************************************)
EXTENDS Ranking, FiniteSetsExt, Functions

CONSTANTS
  NBda,        \* how many associates there may be
  RangeDays,   \* lengths of the ranges a board is asked for, 0 for "all"
  MonthDays,   \* days of a month
  MaxDay,      \* bound: the last day of the calendar
  MaxWrites    \* bound: records made

ASSUME BoardsAssumption ==
  /\ NBda \in Nat /\ RangeDays \subseteq Nat /\ MonthDays \in Nat \ {0}
  /\ MaxDay \in Nat /\ MaxWrites \in Nat

VARIABLES
  users,    \* associates registered
  sums,     \* daily_activity: the rollups, each the totals of <<associate, day>>
  today,    \* the calendar day of the server's clock
  writes,   \* records made so far
  pc,       \* where the request is
  board     \* its local variables, and its answer

vars == <<users, sums, today, writes, pc, board>>

BDA  == 1 .. NBda
Day  == 0 .. MaxDay
Zero == [points |-> 0, won |-> 0, dropped |-> 0, calls |-> 0]

NoDate == -1   \* MinDate "": nothing is recorded

\* began is the day it was then; shown and quarter sum what those listed have on the
\* board and on the quarter board.
Board == [kind : {"leaderboard", "team", "notice"}, listed : SUBSET BDA,
          days : RangeDays \cup {0}, began : Day, to : Day,
          rank : [BDA -> 0 .. NBda], prevTo : Int, change : [BDA -> Int],
          tile : Totals, period : Totals, shown : Totals, quarter : Totals,
          months : [0 .. MaxDay -> [BDA -> Totals]], minDate : Day \cup {NoDate}]

TypeOK ==
  /\ users  \in SUBSET BDA
  /\ DOMAIN sums \subseteq BDA \X Day /\ sums \in [DOMAIN sums -> Totals]
  /\ today  \in Day
  /\ writes \in 0 .. MaxWrites
  /\ pc     \in {"idle", "tile", "period", "window", "totals", "prevWindow", "prevTotals",
                 "quarter", "months", "minDate", "answer"}
  /\ board  \in Board

-----------------------------------------------------------------------------
(* Aggregation.                                                            *)

Plus(s, t) == [points |-> s.points + t.points, won |-> s.won + t.won,
               dropped |-> s.dropped + t.dropped, calls |-> s.calls + t.calls]

SumOf(f) ==
  LET sum(figure) == SumFunction([x \in DOMAIN f |-> f[x][figure]])
  IN  [points  |-> sum("points"),  won   |-> sum("won"),
       dropped |-> sum("dropped"), calls |-> sum("calls")]

\* A slip: $lt in the place of $lte.
TotalsBefore(from, to) ==
  [b \in BDA |-> SumOf(Restrict(sums, {k \in DOMAIN sums : k[1] = b /\ from <= k[2] /\ k[2] < to}))]

\* AggregateByBDA: the totals of every associate over the days from .. to.
TotalsOver(from, to) ==
  [b \in BDA |->
     SumOf(Restrict(sums, {k \in DOMAIN sums : k[1] = b /\ from <= k[2] /\ k[2] <= to}))]

\* AggregateByDate, all its days added up; it asks for no user.
SumByDate(from, to) == SumOf(Restrict(sums, {k \in DOMAIN sums : from <= k[2] /\ k[2] <= to}))

MinDate == IF sums = <<>> THEN NoDate ELSE Min({k[2] : k \in DOMAIN sums})

Ranks(days, to, us) ==
  LET totals == TotalsOver(FirstDay(days, to), to)
  IN  [b \in BDA |-> IF b \in us THEN RankOf(totals, us, b) ELSE 0]

-----------------------------------------------------------------------------
(* Quarters.                                                               *)

MonthOf(d)      == d \div MonthDays
QuarterStart(q) == 3 * MonthDays * q
QuarterEnd(q)   == QuarterStart(q + 1) - 1

\* A slip: months counted from 1 are divided by 3.
QuarterOfCountedMonth(m) == (m + 1) \div 3

QuarterOf(m) == m \div 3

\* AggregateByBDAMonth up to the day to.
MonthsTo(to) ==
  [m \in 0 .. MaxDay |-> TotalsOver(m * MonthDays, Min({(m + 1) * MonthDays - 1, to}))]

\* The fold of its months into quarters.
QuarterTotals(months, q) ==
  [b \in BDA |-> SumOf([m \in {n \in DOMAIN months : QuarterOf(n) = q} |-> months[m][b]])]

\* Those NoticeBoard ranks: whoever has calls or points to show.
Scored(totals, us) == {b \in us : totals[b].calls > 0 \/ totals[b].points # 0}

\* A slip: the places are not counted again.
PlacesAmongAll(us, totals) ==
  [b \in Scored(totals, us) |-> RankOf(totals, us, b)]

\* Everyone is ranked, those who have nothing to show are left out, and the rest are
\* numbered again: a place counts who is left of the list up to there.
NoticePlaces(us, totals) ==
  LET scored == Scored(totals, us)
  IN  [b \in scored |-> Cardinality({c \in scored : ~Before(totals, b, c)})]

\* NoticeBoard shows the running cycle, and of the closed ones those that do not start
\* before the first record.
CycleShown(us, months, to, minDate, q) ==
  /\ minDate # NoDate
  /\ q = QuarterOf(MonthOf(to)) \/ QuarterStart(q) >= minDate
  /\ Scored(QuarterTotals(months, q), us) # {}

\* Its cycles on the day to, each with its places.
NoticeCycles(us, months, to, minDate) ==
  [q \in {p \in 0 .. QuarterOf(MonthOf(to)) : CycleShown(us, months, to, minDate, p)} |->
     NoticePlaces(us, QuarterTotals(months, q))]

-----------------------------------------------------------------------------
(* Records made by other requests, each as the rollup shows it.            *)

Rollup(b, d) == IF <<b, d>> \in DOMAIN sums THEN sums[<<b, d>>] ELSE Zero

Record(b, d, inc) ==
  /\ b \in users /\ d <= today /\ writes < MaxWrites
  /\ sums' = [k \in DOMAIN sums \cup {<<b, d>>} |->
                IF k = <<b, d>> THEN Plus(Rollup(b, d), inc) ELSE sums[k]]
  /\ writes' = writes + 1
  /\ UNCHANGED <<users, today, pc, board>>

WinLead(b, d)  == Record(b, d, [Zero EXCEPT !.points = 50, !.won = 1])
DropLead(b, d) == Record(b, d, [Zero EXCEPT !.points = -50, !.dropped = 1])
Call(b, d)     == Record(b, d, [Zero EXCEPT !.calls = 1])
LogIn(b)       == Record(b, today, [Zero EXCEPT !.points = 10])

CreateBDA(b) ==
  /\ b \notin users
  /\ users' = users \cup {b}
  /\ UNCHANGED <<sums, today, writes, pc, board>>

Midnight ==
  /\ today < MaxDay
  /\ today' = today + 1
  /\ UNCHANGED <<users, sums, writes, pc, board>>

-----------------------------------------------------------------------------
(* The requests, step by step; ListBDAs is the first step of each.         *)

NoBoard == [kind |-> "leaderboard", listed |-> {}, days |-> 0, began |-> 0, to |-> 0,
            rank |-> [b \in BDA |-> 0], prevTo |-> 0, change |-> [b \in BDA |-> 0],
            tile |-> Zero, period |-> Zero, shown |-> Zero, quarter |-> Zero,
            months |-> [m \in 0 .. MaxDay |-> [b \in BDA |-> Zero]], minDate |-> NoDate]

Store == <<users, sums, today, writes>>

Begin(kind, first, n) ==
  /\ pc = "idle" /\ pc' = first
  /\ board' = [NoBoard EXCEPT !.kind = kind, !.listed = users, !.days = n,
                              !.began = today]
  /\ UNCHANGED Store

\* Leaderboard, and the board of Overview.
AskBoard(n)  == Begin("leaderboard", "window", n)
AskTeam(n)   == Begin("team", "tile", n)
AskNotice    == Begin("notice", "months", 0)

\* TeamOverview: the tile of today, the last of its 14 days, ...
ReadTile ==
  /\ pc = "tile" /\ pc' = "period"
  /\ board' = [board EXCEPT !.tile = SumByDate(today, today)]
  /\ UNCHANGED Store

\* ... and the sums of the period.
ReadPeriod ==
  /\ pc = "period" /\ pc' = "window"
  /\ board' = [board EXCEPT !.period = SumByDate(FirstDay(board.days, today), today)]
  /\ UNCHANGED Store

\* board: window(r, 0), ...
ReadWindow ==
  /\ pc = "window" /\ pc' = "totals"
  /\ board' = [board EXCEPT !.to = today]
  /\ UNCHANGED Store

AfterBoard == IF board.kind = "team" THEN "quarter" ELSE "answer"

SumListed(totals) == SumOf(Restrict(totals, board.listed))

\* ... the ranks in it, ...
RankWindow ==
  /\ pc = "totals"
  /\ pc' = IF board.days = 0 THEN AfterBoard ELSE "prevWindow"
  /\ board' = [board EXCEPT
       !.rank  = Ranks(board.days, board.to, board.listed),
       !.shown = SumListed(TotalsOver(FirstDay(board.days, board.to), board.to))]
  /\ UNCHANGED Store

\* ... window(r, 1), for which the clock is read again, ...
ReadPreviousWindow ==
  /\ pc = "prevWindow" /\ pc' = "prevTotals"
  /\ board' = [board EXCEPT !.prevTo = today - board.days]
  /\ UNCHANGED Store

\* A slip: the users are listed again, so a new associate pushes others down.
RankAgainstNow ==
  /\ pc = "prevTotals" /\ pc' = AfterBoard
  /\ board' = [board EXCEPT !.change =
       LET prev == Ranks(board.days, board.prevTo, users)
       IN  [b \in BDA |-> IF b \in board.listed THEN prev[b] - board.rank[b] ELSE 0]]
  /\ UNCHANGED Store

\* ... and the ranks in that.
RankPreviousWindow ==
  /\ pc = "prevTotals" /\ pc' = AfterBoard
  /\ board' = [board EXCEPT !.change =
       LET prev == Ranks(board.days, board.prevTo, board.listed)
       IN  [b \in BDA |-> IF b \in board.listed THEN prev[b] - board.rank[b] ELSE 0]]
  /\ UNCHANGED Store

\* quarterBoard: the running quarter up to today.
RankQuarter ==
  /\ pc = "quarter" /\ pc' = "answer"
  /\ board' = [board EXCEPT
       !.quarter = SumListed(TotalsOver(QuarterStart(QuarterOf(MonthOf(today))), today))]
  /\ UNCHANGED Store

\* NoticeBoard: the months up to today, ...
ReadMonths ==
  /\ pc = "months" /\ pc' = "minDate"
  /\ board' = [board EXCEPT !.to = today, !.months = MonthsTo(today)]
  /\ UNCHANGED Store

\* ... and the day of the first record.
ReadMinDate ==
  /\ pc = "minDate" /\ pc' = "answer"
  /\ board' = [board EXCEPT !.minDate = MinDate]
  /\ UNCHANGED Store

\* The answer, or the error of a query before it.
Answer ==
  /\ pc # "idle" /\ pc' = "idle" /\ board' = NoBoard
  /\ UNCHANGED Store

-----------------------------------------------------------------------------

Init ==
  /\ users \in SUBSET BDA
  /\ sums = <<>>
  /\ today = 0 /\ writes = 0
  /\ pc = "idle" /\ board = NoBoard

Next ==
  \/ \E b \in BDA : \/ CreateBDA(b) \/ LogIn(b)
                    \/ \E d \in Day : WinLead(b, d) \/ DropLead(b, d) \/ Call(b, d)
  \/ Midnight
  \/ \E n \in RangeDays : AskBoard(n) \/ AskTeam(n)
  \/ AskNotice
  \/ ReadTile \/ ReadPeriod
  \/ ReadWindow \/ RankWindow \/ ReadPreviousWindow \/ RankPreviousWindow
  \/ RankQuarter
  \/ ReadMonths \/ ReadMinDate
  \/ Answer

Spec == Init /\ [][Next]_vars

-----------------------------------------------------------------------------
(* Properties.                                                             *)

\* Both windows of a board rank the same associates, whatever is recorded and
\* whoever joins between the queries: the places won and lost add up to none.
RankChangesCancel ==
  pc = "answer" => SumFunction(Restrict(board.change, board.listed)) = 0

\* "rank change vs the previous window": on one day, the two windows are of one
\* length and meet without a gap or a day in common.
WindowsMeet ==
  pc = "answer" /\ board.days # 0 /\ board.began = today =>
    /\ board.prevTo = FirstDay(board.days, board.to) - 1
    /\ board.to - FirstDay(board.days, board.to)
         = board.prevTo - FirstDay(board.days, board.prevTo)
    /\ board.to - FirstDay(board.days, board.to) + 1 = board.days

\* Winning a lead, calling or logging in never costs an associate a place on any
\* board asked for next, and dropping a lead never gains one.
EffortNeverDemotes ==
  [][pc = "idle" => \A b \in users, d \in Day : Rollup(b, d)' # Rollup(b, d) =>
       \A n \in RangeDays :
         LET rank == Ranks(n, today, users)[b]
         IN  IF Rollup(b, d).dropped' > Rollup(b, d).dropped
             THEN rank' >= rank ELSE rank' <= rank]_sums

\* A cycle of the notice board, folded from months, ranks those it shows like the
\* direct query over the cycle's days, as quarterBoard makes it, when nothing was
\* recorded and nobody joined meanwhile.
CyclesMatchQuarters ==
  (pc = "answer" /\ board.kind = "notice" /\ board.listed = users
     /\ board.months = MonthsTo(board.to)) =>
    LET cycles == NoticeCycles(board.listed, board.months, board.to, board.minDate)
    IN  \A q \in DOMAIN cycles :
          LET totals == TotalsOver(QuarterStart(q), Min({QuarterEnd(q), board.to}))
              shown  == Scored(totals, users)
          IN  cycles[q] = [b \in shown |-> RankOf(totals, shown, b)]

\* A closed cycle is a record: who joins, a midnight or what is recorded of other days,
\* be they before the first record so far, neither takes it off the notice board nor
\* changes a place in it.
ClosedCyclesAreFinal ==
  [][\A q \in 0 .. QuarterOf(MonthOf(today)) :
       /\ pc = "idle" /\ QuarterEnd(q) < today
       /\ \A b \in BDA, d \in QuarterStart(q) .. QuarterEnd(q) : Rollup(b, d)' = Rollup(b, d)
       => LET shown  == CycleShown(users, MonthsTo(today), today, MinDate, q)
              places == NoticePlaces(users, QuarterTotals(MonthsTo(today), q))
          IN  shown => shown' /\ places' = places]_<<users, sums, today>>

Covers(s, t) == s.won >= t.won /\ s.dropped >= t.dropped /\ s.calls >= t.calls

\* The figures of a team overview are of different moments, but on one day and if nobody
\* joined each counts what those read before it count: the period the tile of its last
\* day, the board the period, and the quarter board the tile.
TeamFiguresGrow ==
  pc = "answer" /\ board.kind = "team" /\ board.began = today /\ board.listed = users =>
    /\ Covers(board.period, board.tile)
    /\ Covers(board.shown, board.period)
    /\ Covers(board.quarter, board.tile)

=============================================================================
