------------------------------- MODULE Ranking -------------------------------
(***************************************************************************)
(* How a board orders associates: rank of internal/service.  Associates    *)
(* are numbered in the order of ListBDAs, which sorts them by name; an     *)
(* associate's totals are what AggregateByBDA sums over a window.          *)
(***************************************************************************)
EXTENDS Rules, FiniteSets

Totals == [points : Int, won : Nat, dropped : Nat, calls : Nat]

\* A slip: fewer calls are better, like fewer dropped leads.
BetterWithFewerCalls(s, t) ==
  \/ s.points > t.points
  \/ s.points = t.points /\ s.won > t.won
  \/ s.points = t.points /\ s.won = t.won /\ s.dropped < t.dropped
  \/ s.points = t.points /\ s.won = t.won /\ s.dropped = t.dropped /\ s.calls < t.calls

\* "Net points desc, leads won desc, leads dropped asc, calls desc".
Better(s, t) ==
  \/ s.points > t.points
  \/ s.points = t.points /\ s.won > t.won
  \/ s.points = t.points /\ s.won = t.won /\ s.dropped < t.dropped
  \/ s.points = t.points /\ s.won = t.won /\ s.dropped = t.dropped /\ s.calls > t.calls

\* ... then name: the sort is stable, so ties stay in the order of ListBDAs.
Before(totals, b, c) ==
  Better(totals[b], totals[c]) \/ (~Better(totals[c], totals[b]) /\ b < c)

\* A slip: an associate is counted as before itself.
RankCountingSelf(totals, us, b) == 1 + Cardinality({c \in us : ~Before(totals, b, c)})

\* The place of b among the associates us, counted from 1.
RankOf(totals, us, b) == 1 + Cardinality({c \in us : Before(totals, c, b)})

==============================================================================
