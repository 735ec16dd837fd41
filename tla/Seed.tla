-------------------------------- MODULE Seed --------------------------------
(***************************************************************************)
(* The demo history of internal/seed: what generateRaw may draw for the    *)
(* days of an associate, and the user, the rollups and the events that Run *)
(* makes of it.                                                            *)
(*                                                                         *)
(* The generator is left open: any history it may draw, up to a number of  *)
(* calls and leads.  Days are numbered from the first of the history; the  *)
(* last is "today", the day of the start.                                  *)
(***************************************************************************)
EXTENDS Stores, FiniteSetsExt, Functions

MostWon     == 5     \* leads the generator draws for a day, at most
MostDropped == 2

RawDay(most) ==
  {day \in [loggedIn : BOOLEAN, calls : 0 .. most, won : 0 .. MostWon, dropped : 0 .. MostDropped] :
     day.calls + day.won + day.dropped <= most}

\* An associate who calls or closes leads has logged in, but for today, when nobody has.
PastDay(most) == {day \in RawDay(most) : day.calls + day.won + day.dropped > 0 => day.loggedIn}
Today(most)   == {day \in RawDay(most) : ~day.loggedIn}

LoginsOf(raw)  == {d \in DOMAIN raw : raw[d].loggedIn}
RecordsOf(raw) ==
  SumFunction([d \in DOMAIN raw |-> raw[d].calls + raw[d].won + raw[d].dropped])

\* The draws for n days with at most so many calls and leads.
Raw(n, records) ==
  {raw \in {[d \in 0 .. n - 1 |-> IF d = n - 1 THEN last ELSE past[d]] :
              past \in [0 .. n - 2 -> PastDay(records)], last \in Today(records)} :
     RecordsOf(raw) <= records}

\* streak, after each day of the loop.
StreakThrough(raw) ==
  LET run[d \in DOMAIN raw] ==
        IF ~raw[d].loggedIn THEN 0 ELSE IF d = 0 THEN 1 ELSE run[d - 1] + 1
  IN  run

\* The rollup of a day; talk time comes with the calls, one for each here.
SeedDay(raw, d) ==
  LET streak == StreakThrough(raw)[d]
      leads  == [EmptyDay EXCEPT !.calls = raw[d].calls, !.callMinutes = raw[d].calls,
                   !.leadsWon = raw[d].won, !.leadPoints = raw[d].won * LeadWon,
                   !.leadsDropped = raw[d].dropped, !.penaltyPoints = raw[d].dropped * LeadDropped,
                   !.points = raw[d].won * LeadWon + raw[d].dropped * LeadDropped]
  IN  IF raw[d].loggedIn THEN LoginDay(leads, streak) ELSE leads

Nth == <<"seed1", "seed2", "seed3", "seed4", "seed5">>

\* The first n leads of an outcome on a day.
SeedLeads(b, d, type, points, n) ==
  {[bda |-> b, date |-> d, type |-> type, stamp |-> Nth[i], points |-> points, streak |-> 0] :
     i \in 1 .. n}

\* The events of a day, and of all.
SeedLedger(b, raw, d) ==
       (IF raw[d].loggedIn THEN {LoginEvent(b, d, StreakThrough(raw)[d])} ELSE {})
  \cup SeedLeads(b, d, "LEAD_WON", LeadWon, raw[d].won)
  \cup SeedLeads(b, d, "LEAD_DROPPED", LeadDropped, raw[d].dropped)

SeedEvents(b, raw) == UNION {SeedLedger(b, raw, d) : d \in DOMAIN raw}

\* The last login, the streak it reached, and the best one.
SeedUser(raw) ==
  LET last == Max(LoginsOf(raw) \cup {Never})
  IN  [current |-> IF last = Never THEN 0 ELSE StreakThrough(raw)[last],
       best    |-> Max({StreakThrough(raw)[d] : d \in DOMAIN raw}),
       last    |-> last]

\* What Run inserts for the associates of raw; others have registered since.
Seeded(raw) ==
  /\ users  = [a \in Account |->
                 IF a \in DOMAIN raw THEN SeedUser(raw[a])
                                     ELSE [current |-> 0, best |-> 0, last |-> Never]]
  /\ daily  = [k \in BDA \X Day |->
                 IF k[1] \in DOMAIN raw /\ k[2] \in DOMAIN raw[k[1]] THEN SeedDay(raw[k[1]], k[2])
                                                            ELSE EmptyDay]
  /\ events = UNION {SeedEvents(b, raw[b]) : b \in DOMAIN raw}

=============================================================================
