---------------------------- MODULE BoardsProofs ----------------------------
(***************************************************************************)
(* Proofs about Boards and the order it ranks by, for any number of        *)
(* associates, any totals, any ranges and any calendar.                    *)
(***************************************************************************)
EXTENDS Boards, SumProofs

-----------------------------------------------------------------------------
(* The order of a board.                                                   *)

\* Before is a strict total order: the comparison of rank, with its ties left to
\* the stable sort, never contradicts itself.
LEMMA BeforeIsStrict ==
  ASSUME NEW us, us \subseteq Int, NEW totals, \A x \in us : totals[x] \in Totals, NEW b \in us
  PROVE  ~Before(totals, b, b)
BY DEF Before, Better, Totals

LEMMA BeforeIsTotal ==
  ASSUME NEW us, us \subseteq Int, NEW totals, \A x \in us : totals[x] \in Totals,
         NEW b \in us, NEW c \in us, b # c
  PROVE  Before(totals, b, c) \/ Before(totals, c, b)
BY DEF Before

LEMMA BeforeIsTransitive ==
  ASSUME NEW us, us \subseteq Int, NEW totals, \A x \in us : totals[x] \in Totals,
         NEW b \in us, NEW c \in us, NEW d \in us,
         Before(totals, b, c), Before(totals, c, d)
  PROVE  Before(totals, b, d)
BY DEF Before, Better, Totals

\* What is better than b's totals is better than any totals b's are not worse than.
LEMMA BetterIsTransitive ==
  ASSUME NEW s \in Totals, NEW t \in Totals, NEW u \in Totals, ~Better(t, s)
  PROVE  /\ Better(u, s) => Better(u, t)
         /\ Better(t, u) => Better(s, u)
BY DEF Better, Totals

\* The places follow the order: whoever comes before has the smaller rank.
THEOREM RankFollowsOrder ==
  ASSUME NEW us, us \subseteq Int, IsFiniteSet(us), NEW totals, \A x \in us : totals[x] \in Totals,
         NEW b \in us, NEW c \in us, Before(totals, b, c)
  PROVE  RankOf(totals, us, b) < RankOf(totals, us, c)
<1> DEFINE Ahead(x) == {d \in us : Before(totals, d, x)}
<1>1. Ahead(b) \subseteq Ahead(c)
  BY BeforeIsTransitive
<1>2. b \in Ahead(c) /\ b \notin Ahead(b)
  BY BeforeIsStrict
<1>3. IsFiniteSet(Ahead(c)) /\ IsFiniteSet(Ahead(b))
  BY FS_Subset
<1>4. Cardinality(Ahead(b)) \in Nat /\ Cardinality(Ahead(c)) \in Nat
  BY <1>3, FS_CardinalityType
<1>5. Cardinality(Ahead(b)) < Cardinality(Ahead(c))
  <2>1. Cardinality(Ahead(b)) <= Cardinality(Ahead(c))
        /\ (Cardinality(Ahead(b)) = Cardinality(Ahead(c)) => Ahead(b) = Ahead(c))
    BY <1>1, <1>3, FS_Subset
  <2> QED
    BY <2>1, <1>2, <1>4
<1> QED
  BY <1>4, <1>5 DEF RankOf

\* A place is a number.
LEMMA RankIsNat ==
  ASSUME NEW us, us \subseteq Int, IsFiniteSet(us), NEW totals, \A x \in us : totals[x] \in Totals,
         NEW b \in us
  PROVE  RankOf(totals, us, b) \in Nat
<1> DEFINE Ahead == {d \in us : Before(totals, d, b)}
<1>1. IsFiniteSet(Ahead)
  BY FS_Subset
<1>2. Cardinality(Ahead) \in Nat
  BY <1>1, FS_CardinalityType
<1> QED
  BY <1>2 DEF RankOf

\* No two associates of a board share a place.
THEOREM RanksAreDistinct ==
  ASSUME NEW us, us \subseteq Int, IsFiniteSet(us), NEW totals, \A x \in us : totals[x] \in Totals,
         NEW b \in us, NEW c \in us, b # c
  PROVE  RankOf(totals, us, b) # RankOf(totals, us, c)
<1>1. RankOf(totals, us, b) \in Nat /\ RankOf(totals, us, c) \in Nat
  BY RankIsNat
<1>2. CASE Before(totals, b, c)
  <2>1. RankOf(totals, us, b) < RankOf(totals, us, c)
    BY <1>2, RankFollowsOrder
  <2> QED
    BY <1>1, <2>1
<1>3. CASE Before(totals, c, b)
  <2>1. RankOf(totals, us, c) < RankOf(totals, us, b)
    BY <1>3, RankFollowsOrder
  <2> QED
    BY <1>1, <2>1
<1> QED
  BY <1>2, <1>3, BeforeIsTotal

\* Better totals never cost a place: if only b's totals change, and not for the
\* worse, b's rank does not grow.
THEOREM BetterNeverDemotes ==
  ASSUME NEW us, us \subseteq Int, IsFiniteSet(us),
         NEW totals, \A x \in us : totals[x] \in Totals, NEW totals1, \A x \in us : totals1[x] \in Totals, NEW b \in us,
         \A c \in us \ {b} : totals1[c] = totals[c],
         ~Better(totals[b], totals1[b])
  PROVE  RankOf(totals1, us, b) <= RankOf(totals, us, b)
<1> DEFINE Ahead  == {c \in us : Before(totals, c, b)}
           Ahead1 == {c \in us : Before(totals1, c, b)}
<1>1. ASSUME NEW c \in us, Before(totals1, c, b) PROVE Before(totals, c, b)
  <2>1. c # b
    BY <1>1, BeforeIsStrict
  <2>2. totals1[c] = totals[c] /\ totals[c] \in Totals
        /\ totals[b] \in Totals /\ totals1[b] \in Totals
    BY <2>1
  <2>3. /\ Better(totals[c], totals1[b]) => Better(totals[c], totals[b])
        /\ Better(totals[b], totals[c]) => Better(totals1[b], totals[c])
    BY <2>2, BetterIsTransitive
  <2> QED
    BY <1>1, <2>2, <2>3 DEF Before
<1>2. Ahead1 \subseteq Ahead /\ IsFiniteSet(Ahead)
  BY <1>1, FS_Subset
<1>3. IsFiniteSet(Ahead1) /\ Cardinality(Ahead1) <= Cardinality(Ahead)
  BY <1>2, FS_Subset
<1>4. Cardinality(Ahead1) \in Nat /\ Cardinality(Ahead) \in Nat
  BY <1>2, <1>3, FS_CardinalityType
<1> QED
  BY <1>3, <1>4 DEF RankOf

-----------------------------------------------------------------------------
(* The clock.                                                              *)

\* The fields of a board; what its queries returned does not matter here.
BoardShape ==
  DOMAIN board = {"kind", "listed", "days", "began", "to", "rank", "prevTo", "change",
                  "tile", "period", "shown", "quarter", "months", "minDate"}

\* Each reading of the clock falls between the one before it and now.
ClockOrder ==
  /\ today \in Nat
  /\ pc # "idle" => /\ board.days \in Nat /\ board.began \in Nat
                    /\ board.began <= today
  /\ pc \in {"totals", "prevWindow", "prevTotals", "quarter", "minDate", "answer"} =>
       board.to \in Nat /\ board.began <= board.to /\ board.to <= today
  /\ pc \in {"prevTotals", "quarter", "answer"} /\ board.days # 0 =>
       /\ board.prevTo \in Int
       /\ board.to <= board.prevTo + board.days /\ board.prevTo + board.days <= today

\* A request is idle or at one of its steps; one for "all" has no second window, and
\* the notice board has no range.
PcOK ==
  /\ pc \in {"idle", "tile", "period", "window", "totals", "prevWindow", "prevTotals",
             "quarter", "months", "minDate", "answer"}
  /\ pc \in {"prevWindow", "prevTotals"} => board.days # 0
  /\ pc \in {"months", "minDate"} => board.days = 0

WindowInv == BoardShape /\ ClockOrder /\ PcOK

-----------------------------------------------------------------------------

LEMMA WindowInit == Init => WindowInv
BY DEF Init, NoBoard, WindowInv, BoardShape, ClockOrder, PcOK

\* Steps of others change neither the board nor, but for midnight, the day.
LEMMA OthersKeepWindows ==
  ASSUME WindowInv, UNCHANGED <<pc, board>>, today' = today \/ today' = today + 1
  PROVE  WindowInv'
BY DEF WindowInv, BoardShape, ClockOrder, PcOK

\* A request begins on the day it lists the users.
LEMMA BeginStep ==
  ASSUME NEW kind, NEW n \in Nat, WindowInv,
         NEW first \in {"window", "tile", "months"}, first = "months" => n = 0,
         Begin(kind, first, n)
  PROVE  WindowInv'
<1>1. BoardShape' /\ board'.days = n /\ board'.began = today
  BY DEF Begin, NoBoard, BoardShape
<1>2. UNCHANGED today /\ pc' = first
  BY DEF Begin, Store
<1>3. QED
  BY <1>1, <1>2 DEF WindowInv, ClockOrder, PcOK

LEMMA WindowStep ==
  ASSUME BoardsAssumption, WindowInv, [Next]_vars
  PROVE  WindowInv'
<1> USE DEF WindowInv, BoardShape, ClockOrder, PcOK
<1>1. ASSUME NEW b \in BDA, CreateBDA(b) \/ LogIn(b) PROVE WindowInv'
  BY <1>1, OthersKeepWindows DEF CreateBDA, LogIn, Record
<1>2. ASSUME NEW b \in BDA, NEW d \in Day, WinLead(b, d) \/ DropLead(b, d) \/ Call(b, d)
      PROVE  WindowInv'
  BY <1>2, OthersKeepWindows DEF WinLead, DropLead, Call, Record
<1>3. CASE Midnight
  BY <1>3, OthersKeepWindows DEF Midnight
<1>4. ASSUME NEW n \in RangeDays, AskBoard(n) \/ AskTeam(n) PROVE WindowInv'
  <2>1. n \in Nat
    BY <1>4, BoardsAssumption DEF BoardsAssumption
  <2>2. QED
    BY <1>4, <2>1, BeginStep DEF AskBoard, AskTeam
<1>5. CASE AskNotice
  BY <1>5, BeginStep DEF AskNotice
<1>6. CASE ReadTile \/ ReadPeriod
  BY <1>6 DEF ReadTile, ReadPeriod, Store
<1>7. CASE ReadWindow
  BY <1>7 DEF ReadWindow, Store
<1>8. CASE RankWindow
  BY <1>8 DEF RankWindow, AfterBoard, Store
<1>9. CASE ReadPreviousWindow
  BY <1>9 DEF ReadPreviousWindow, Store
<1>10. CASE RankPreviousWindow
  BY <1>10 DEF RankPreviousWindow, AfterBoard, Store
<1>11. CASE RankQuarter
  BY <1>11 DEF RankQuarter, Store
<1>12. CASE ReadMonths
  BY <1>12 DEF ReadMonths, Store
<1>13. CASE ReadMinDate
  BY <1>13 DEF ReadMinDate, Store
<1>14. CASE Answer
  BY <1>14 DEF Answer, NoBoard, Store
<1>15. CASE UNCHANGED vars
  BY <1>15, OthersKeepWindows DEF vars
<1> QED
  BY <1>1, <1>2, <1>3, <1>4, <1>5, <1>6, <1>7, <1>8, <1>9, <1>10, <1>11, <1>12, <1>13,
     <1>14, <1>15 DEF Next

\* On one day all three readings of the clock agree, and the windows meet.
LEMMA ClocksAgree == WindowInv => WindowsMeet
BY DEF WindowInv, ClockOrder, WindowsMeet, FirstDay

\* The windows a board compares are of one length and adjoin each other, for every
\* range and any number of associates (board and window of internal/service).
THEOREM BoardWindowsMeet == Spec => []WindowsMeet
<1>1. Init => WindowInv
  BY WindowInit
<1>2. WindowInv /\ [Next]_vars => WindowInv'
  BY WindowStep, BoardsAssumption
<1>3. WindowInv => WindowsMeet
  BY ClocksAgree
<1> QED
  BY <1>1, <1>2, <1>3, PTL DEF Spec

-----------------------------------------------------------------------------
(* Places.                                                                 *)

\* A place is one of as many as there are associates.
LEMMA RankIsPlace ==
  ASSUME NEW us, us \subseteq Int, IsFiniteSet(us), NEW totals, \A x \in us : totals[x] \in Totals,
         NEW b \in us
  PROVE  RankOf(totals, us, b) \in 1 .. Cardinality(us)
<1> DEFINE Ahead == {d \in us : Before(totals, d, b)}
<1>1. Ahead \subseteq us /\ b \notin Ahead
  BY BeforeIsStrict
<1>2. IsFiniteSet(Ahead) /\ Cardinality(Ahead) < Cardinality(us)
  <2>1. Ahead # us  BY <1>1
  <2>2. /\ IsFiniteSet(Ahead) /\ Cardinality(Ahead) <= Cardinality(us)
        /\ Cardinality(Ahead) = Cardinality(us) => Ahead = us
    BY <1>1, FS_Subset
  <2>3. Cardinality(Ahead) \in Nat /\ Cardinality(us) \in Nat
    BY <2>2, FS_CardinalityType
  <2> HIDE DEF Ahead
  <2>4. QED  BY <2>1, <2>2, <2>3
<1>3. Cardinality(Ahead) \in Nat /\ Cardinality(us) \in Nat
  BY <1>2, FS_CardinalityType
<1>4. RankOf(totals, us, b) = 1 + Cardinality(Ahead)
  BY DEF RankOf
<1> HIDE DEF Ahead
<1>5. QED  BY <1>2, <1>3, <1>4

\* Every associate of us has a place of its own, from 1 on.
Placed(rank, us) ==
  /\ \A b \in us : rank[b] \in 1 .. Cardinality(us)
  /\ \A b, c \in us : rank[b] = rank[c] => b = c

\* Then the places are all there are.
LEMMA PlacesAreAll ==
  ASSUME NEW us, IsFiniteSet(us), NEW rank, Placed(rank, us)
  PROVE  {rank[b] : b \in us} = 1 .. Cardinality(us)
<1> DEFINE P == {rank[b] : b \in us}
           N == 1 .. Cardinality(us)
           r == [b \in us |-> rank[b]]
<1>1. Cardinality(us) \in Nat  BY FS_CardinalityType
<1>2. IsFiniteSet(N) /\ Cardinality(N) = Cardinality(us)
  BY <1>1, FS_Interval
<1>3. P \subseteq N  BY DEF Placed
<1>4. r \in Bijection(us, P)
  BY DEF Placed, Bijection, Injection, Surjection, IsInjective
<1>5. Cardinality(P) = Cardinality(us)
  <2>1. ExistsBijection(us, P)  BY <1>4 DEF ExistsBijection
  <2> HIDE DEF r, P
  <2>2. QED  BY <2>1, FS_Bijection
<1>6. P = N
  <2> HIDE DEF P, N
  <2>1. QED  BY <1>2, <1>3, <1>5, FS_Subset
<1>7. QED  BY <1>6

\* Two rankings of the same associates have the same sum.
LEMMA PlacesCancel ==
  ASSUME NEW us, IsFiniteSet(us), NEW prev, NEW rank, Placed(prev, us), Placed(rank, us)
  PROVE  SumFunctionOnSet([b \in us |-> prev[b] - rank[b]], us) = 0
<1> DEFINE Id == [n \in 1 .. Cardinality(us) |-> n]
           S(r) == SumFunctionOnSet(r, us)
<1>1. ASSUME NEW r, Placed(r, us)
      PROVE  S(r) = SumFunctionOnSet(Id, 1 .. Cardinality(us)) /\ S(r) \in Int
  <2>1. \A b \in us : r[b] \in 1 .. Cardinality(us)  BY <1>1 DEF Placed
  <2>2. \A b \in us : r[b] \in Int /\ Id[r[b]] = r[b]
    BY <2>1, FS_CardinalityType
  <2>3. \A b \in us : \A c \in us : r[b] = r[c] => b = c  BY <1>1 DEF Placed
  <2>4. {r[b] : b \in us} = 1 .. Cardinality(us)  BY <1>1, PlacesAreAll
  <2>5. SumFunctionOnSet(Id, {r[b] : b \in us}) = S(r)
    <3> HIDE DEF Id
    <3>1. QED  BY <2>2, <2>3, SumReindex
  <2>6. S(r) \in Int  BY <2>2, SumType
  <2>7. QED  BY <2>4, <2>5, <2>6
<1> DEFINE h == [b \in us |-> prev[b] - rank[b]]
<1>2. \A b \in us : prev[b] \in Int /\ rank[b] \in Int /\ h[b] = prev[b] - rank[b]
  BY FS_CardinalityType DEF Placed
<1> HIDE DEF h
<1>3. S(h) = S(prev) - S(rank)  BY <1>2, SumDifference
<1> HIDE DEF S, Id
<1>4. S(h) = 0  BY <1>1, <1>3
<1>5. QED  BY <1>4 DEF h, S

-----------------------------------------------------------------------------
(* Totals.                                                                 *)

Figures == {"points", "won", "dropped", "calls"}

Figure(s, figure) == [k \in DOMAIN s |-> s[k][figure]]

\* The rollups a total is made of: of one associate, and of all.
Keys(b, from, to) == {k \in DOMAIN sums : k[1] = b /\ from <= k[2] /\ k[2] <= to}
Window(from, to)  == {k \in DOMAIN sums : from <= k[2] /\ k[2] <= to}
WindowOf(us, from, to) == {k \in Window(from, to) : k[1] \in us}

SumsOK ==
  /\ users \subseteq BDA /\ today \in Day
  /\ DOMAIN sums \subseteq users \X Day /\ sums \in [DOMAIN sums -> Totals]

\* Associates and rollups are finitely many.
LEMMA FinitelyManyRollups ==
  ASSUME SumsOK
  PROVE  /\ IsFiniteSet(BDA)
         /\ \A us \in SUBSET BDA : IsFiniteSet(us)
         /\ \A K \in SUBSET DOMAIN sums : IsFiniteSet(K)
<1>1. IsFiniteSet(BDA) /\ IsFiniteSet(Day)
  BY BoardsAssumption, FS_Interval DEF BoardsAssumption, BDA, Day
<1>2. IsFiniteSet(BDA \X Day)
  BY <1>1, FS_Product
<1>3. DOMAIN sums \subseteq BDA \X Day
  BY DEF SumsOK
<1> HIDE DEF BDA, Day
<1>4. QED  BY <1>1, <1>2, <1>3, FS_Subset

\* The sum of totals is totals, figure by figure.
LEMMA SumOfType ==
  ASSUME NEW K, IsFiniteSet(K), NEW f \in [K -> Totals]
  PROVE  SumOf(f) \in Totals
<1> DEFINE sum(figure) == SumFunctionOnSet([x \in K |-> f[x][figure]], K)
<1>1. SumOf(f) = [points  |-> sum("points"),  won   |-> sum("won"),
                  dropped |-> sum("dropped"), calls |-> sum("calls")]
  BY DEF SumOf, SumFunction
<1>2. sum("points") \in Int
  <2> DEFINE g == [x \in K |-> f[x]["points"]]
  <2>1. \A x \in K : g[x] \in Int  BY DEF Totals
  <2> HIDE DEF g
  <2>2. SumFunctionOnSet(g, K) \in Int  BY <2>1, SumType
  <2>3. QED  BY <2>2 DEF g
<1>3. ASSUME NEW figure \in {"won", "dropped", "calls"} PROVE sum(figure) \in Nat
  <2> DEFINE g == [x \in K |-> f[x][figure]]
  <2>1. \A x \in K : g[x] \in Nat  BY DEF Totals
  <2> HIDE DEF g
  <2>2. SumFunctionOnSet(g, K) \in Nat  BY <2>1, SumOfNats
  <2>3. QED  BY <2>2 DEF g
<1> HIDE DEF sum
<1>4. QED  BY <1>1, <1>2, <1>3 DEF Totals

LEMMA FigureType ==
  ASSUME NEW s, s \in [DOMAIN s -> Totals], NEW figure \in Figures
  PROVE  \A k \in DOMAIN s : /\ Figure(s, figure)[k] = s[k][figure]
                             /\ Figure(s, figure)[k] \in Int
                             /\ figure # "points" => Figure(s, figure)[k] \in Nat
BY DEF Figures, Figure, Totals

\* A figure of the sum of some of them is the sum of their figures.
LEMMA FigureOfSum ==
  ASSUME NEW s, s \in [DOMAIN s -> Totals], NEW K, K \subseteq DOMAIN s, IsFiniteSet(K),
         NEW figure \in Figures
  PROVE  SumOf(Restrict(s, K))[figure] = SumFunctionOnSet(Figure(s, figure), K)
<1> DEFINE g == [x \in K |-> Restrict(s, K)[x][figure]]
<1>1. SumOf(Restrict(s, K))[figure] = SumFunctionOnSet(g, K)
  BY DEF SumOf, SumFunction, Restrict, Figures
<1>2. \A x \in K : Figure(s, figure)[x] \in Int /\ Figure(s, figure)[x] = g[x]
  BY FigureType DEF Restrict, Figure
<1> HIDE DEF g
<1>3. SumFunctionOnSet(Figure(s, figure), K) = SumFunctionOnSet(g, K)
  BY <1>2, SumIsSame
<1>4. QED  BY <1>1, <1>3

\* What the queries return is totals, of the figures of the rollups they match.
LEMMA TotalsOverType ==
  ASSUME SumsOK, NEW from \in Int, NEW to \in Int
  PROVE  /\ TotalsOver(from, to) \in [BDA -> Totals]
         /\ SumByDate(from, to) \in Totals
         /\ \A b \in BDA, figure \in Figures :
              TotalsOver(from, to)[b][figure]
                = SumFunctionOnSet(Figure(sums, figure), Keys(b, from, to))
         /\ \A figure \in Figures :
              SumByDate(from, to)[figure]
                = SumFunctionOnSet(Figure(sums, figure), Window(from, to))
<1>1. ASSUME NEW K, K \subseteq DOMAIN sums
      PROVE  /\ SumOf(Restrict(sums, K)) \in Totals
             /\ \A figure \in Figures :
                  SumOf(Restrict(sums, K))[figure] = SumFunctionOnSet(Figure(sums, figure), K)
  <2>1. IsFiniteSet(K)  BY <1>1, FinitelyManyRollups
  <2>2. Restrict(sums, K) \in [K -> Totals]  BY <1>1 DEF Restrict, SumsOK
  <2>3. SumOf(Restrict(sums, K)) \in Totals
    BY <2>1, <2>2, SumOfType
  <2>4. sums \in [DOMAIN sums -> Totals]  BY DEF SumsOK
  <2>5. QED  BY <1>1, <2>1, <2>3, <2>4, FigureOfSum
<1>2. /\ \A b \in BDA : TotalsOver(from, to)[b] = SumOf(Restrict(sums, Keys(b, from, to)))
      /\ TotalsOver(from, to) = [b \in BDA |-> SumOf(Restrict(sums, Keys(b, from, to)))]
      /\ SumByDate(from, to) = SumOf(Restrict(sums, Window(from, to)))
  BY DEF TotalsOver, SumByDate, Keys, Window
<1>3. /\ \A b \in BDA : Keys(b, from, to) \subseteq DOMAIN sums
      /\ Window(from, to) \subseteq DOMAIN sums
  BY DEF Keys, Window
<1>4. QED  BY <1>1, <1>2, <1>3

\* A record adds to the figures of its associate, in the windows its day is in.
LEMMA RecordAdds ==
  ASSUME SumsOK, NEW b \in BDA, NEW d \in Day, NEW inc \in Totals, Record(b, d, inc),
         NEW from \in Int, NEW to \in Int, NEW c \in BDA, NEW figure \in Figures, SumsOK'
  PROVE  TotalsOver(from, to)'[c][figure]
           = TotalsOver(from, to)[c][figure]
             + (IF c = b /\ from <= d /\ d <= to THEN inc[figure] ELSE 0)
<1> DEFINE k == <<b, d>>
           I == Keys(c, from, to)
           f == Figure(sums, figure)
           g == Figure(sums', figure)
           within == c = b /\ from <= d /\ d <= to
<1>1. /\ sums' = [j \in DOMAIN sums \cup {k} |->
                    IF j = k THEN Plus(Rollup(b, d), inc) ELSE sums[j]]
      /\ DOMAIN sums' = DOMAIN sums \cup {k}
  BY DEF Record
<1>2. /\ sums \in [DOMAIN sums -> Totals] /\ sums' \in [DOMAIN sums' -> Totals]
      /\ IsFiniteSet(I) /\ I \subseteq DOMAIN sums
  <2>1. I \subseteq DOMAIN sums  BY DEF Keys
  <2>2. QED  BY <2>1, FinitelyManyRollups DEF SumsOK
<1>3. Keys(c, from, to)' = IF within THEN I \cup {k} ELSE I
  <2>1. k[1] = b /\ k[2] = d /\ (k \in I => within)  BY DEF Keys
  <2> HIDE DEF k
  <2>2. QED  BY <1>1, <2>1 DEF Keys
<1>4. /\ \A x \in I : f[x] \in Int
      /\ \A x \in I \ {k} : g[x] = f[x]
      /\ g[k] \in Int /\ inc[figure] \in Int
      /\ k \in I => g[k] = f[k] + inc[figure]
      /\ k \notin DOMAIN sums => g[k] = inc[figure]
  <2>1. \A x \in DOMAIN sums : f[x] = sums[x][figure] /\ f[x] \in Int
    BY <1>2, FigureType
  <2>2. \A x \in DOMAIN sums' : g[x] = sums'[x][figure] /\ g[x] \in Int
    BY <1>2, FigureType
  <2>3. inc[figure] \in Int  BY DEF Totals, Figures
  <2>4. Plus(Rollup(b, d), inc)[figure] = Rollup(b, d)[figure] + inc[figure]
    BY DEF Plus, Figures
  <2>5. g[k] = Rollup(b, d)[figure] + inc[figure]  BY <1>1, <2>2, <2>4
  <2>6. k \in DOMAIN sums => Rollup(b, d)[figure] = f[k]  BY <2>1 DEF Rollup
  <2>7. k \notin DOMAIN sums => Rollup(b, d)[figure] = 0  BY DEF Rollup, Zero, Figures
  <2> HIDE DEF f, g, k
  <2>8. \A x \in I \ {k} : g[x] = f[x]  BY <1>1, <1>2, <2>1, <2>2
  <2>9. k \in DOMAIN sums'  BY <1>1
  <2>10. QED  BY <1>2, <2>1, <2>2, <2>3, <2>5, <2>6, <2>7, <2>8, <2>9
<1>5. /\ TotalsOver(from, to)[c][figure] = SumFunctionOnSet(f, I)
      /\ TotalsOver(from, to)'[c][figure] = SumFunctionOnSet(g, Keys(c, from, to)')
  <2>1. TotalsOver(from, to)[c][figure] = SumFunctionOnSet(f, I)  BY TotalsOverType
  <2>2. TotalsOver(from, to)'[c][figure] = SumFunctionOnSet(g, Keys(c, from, to)')
    <3>1. TotalsOver(from, to)'[c] = SumOf(Restrict(sums', Keys(c, from, to)'))
      BY DEF TotalsOver, Keys
    <3>2. Keys(c, from, to)' \subseteq DOMAIN sums'  BY DEF Keys
    <3>3. IsFiniteSet(Keys(c, from, to)')
      <4>1. IsFiniteSet(I \cup {k})  BY <1>2, FS_AddElement
      <4>2. QED  BY <1>2, <1>3, <4>1
    <3>4. QED  BY <1>2, <3>1, <3>2, <3>3, FigureOfSum
  <2>3. QED  BY <2>1, <2>2
<1>6. SumFunctionOnSet(f, I) \in Int  BY <1>2, <1>4, SumType
<1>7. CASE within
  <2>1. SumFunctionOnSet(g, I \cup {k})
          = SumFunctionOnSet(f, I) + g[k] - (IF k \in I THEN f[k] ELSE 0)
    <3>2. k \in I => f[k] \in Int  BY <1>4
    <3>3. IsFiniteSet(I) /\ g[k] \in Int  BY <1>2, <1>4
    <3>4. \A x \in I \ {k} : f[x] \in Int /\ g[x] = f[x]  BY <1>4
    <3> HIDE DEF f, g, I, k, within
    <3>5. QED  BY <3>2, <3>3, <3>4, SumMoves
  <2>2. k \notin I => k \notin DOMAIN sums  BY <1>7 DEF Keys
  <2> HIDE DEF f, g, I, k
  <2>3. (IF k \in I THEN f[k] ELSE 0) = g[k] - inc[figure]
    BY <1>4, <2>2
  <2>4. g[k] \in Int /\ inc[figure] \in Int  BY <1>4
  <2>5. SumFunctionOnSet(g, I \cup {k}) = SumFunctionOnSet(f, I) + inc[figure]
    BY <1>6, <2>1, <2>3, <2>4
  <2>6. QED  BY <1>3, <1>5, <1>7, <2>5
<1>8. CASE ~within
  <2>1. k \notin I  BY <1>8 DEF Keys
  <2> HIDE DEF f, g, I, k
  <2>2. \A x \in I : f[x] \in Int /\ f[x] = g[x]  BY <1>4, <2>1
  <2>3. SumFunctionOnSet(g, I) = SumFunctionOnSet(f, I)  BY <1>2, <2>2, SumIsSame
  <2>4. QED  BY <1>3, <1>5, <1>6, <1>8, <2>3
<1>9. QED  BY <1>7, <1>8

-----------------------------------------------------------------------------
(* The rankings.                                                           *)

\* A window of a range that ends on a day begins with a day no later.
LEMMA FirstDayIsEarlier ==
  ASSUME NEW n \in Nat, NEW to \in Nat
  PROVE  FirstDay(n, to) \in Int /\ FirstDay(n, to) <= to
BY DEF FirstDay

\* Every associate listed has its own place, the others have none.
LEMMA RanksType ==
  ASSUME SumsOK, NEW us, us \subseteq BDA, NEW n \in Nat, NEW to \in Int
  PROVE  Ranks(n, to, us) \in [BDA -> 0 .. NBda] /\ Placed(Ranks(n, to, us), us)
<1> DEFINE totals == TotalsOver(FirstDay(n, to), to)
<1>1. \A x \in us : totals[x] \in Totals
  <2>1. FirstDay(n, to) \in Int  BY DEF FirstDay
  <2>2. totals \in [BDA -> Totals]  BY <2>1, TotalsOverType
  <2> HIDE DEF totals
  <2>3. QED  BY <2>2
<1>2. IsFiniteSet(us) /\ us \subseteq Int
  BY FinitelyManyRollups, BoardsAssumption DEF BDA, BoardsAssumption
<1>3. Cardinality(us) \in 0 .. NBda
  <2>1. IsFiniteSet(BDA) /\ Cardinality(BDA) = NBda
    BY BoardsAssumption, FS_Interval DEF BDA, BoardsAssumption
  <2>2. Cardinality(us) <= NBda /\ Cardinality(us) \in Nat
    BY <1>2, <2>1, FS_Subset, FS_CardinalityType
  <2>3. QED  BY <2>2, BoardsAssumption DEF BoardsAssumption
<1>4. Ranks(n, to, us) = [b \in BDA |-> IF b \in us THEN RankOf(totals, us, b) ELSE 0]
  BY DEF Ranks
<1> HIDE DEF totals
<1>5. \A b \in us : RankOf(totals, us, b) \in 1 .. Cardinality(us)
  BY <1>1, <1>2, RankIsPlace
<1>6. Ranks(n, to, us) \in [BDA -> 0 .. NBda]
  <2>1. NBda \in Nat  BY BoardsAssumption DEF BoardsAssumption
  <2>2. \A b \in us : RankOf(totals, us, b) \in 0 .. NBda
    BY <1>3, <1>5, <2>1
  <2>3. QED  BY <1>4, <2>1, <2>2
<1>7. \A b, c \in us : RankOf(totals, us, b) = RankOf(totals, us, c) => b = c
  BY <1>1, <1>2, RanksAreDistinct
<1>8. Placed(Ranks(n, to, us), us)
  BY <1>4, <1>5, <1>7 DEF Placed
<1>9. QED  BY <1>6, <1>8

\* The totals of those listed are the figures of the rollups that are theirs.
LEMMA ListedFigures ==
  ASSUME SumsOK, NEW us, us \subseteq BDA, NEW from \in Int, NEW to \in Int
  PROVE  /\ SumOf(Restrict(TotalsOver(from, to), us)) \in Totals
         /\ \A figure \in Figures :
              SumOf(Restrict(TotalsOver(from, to), us))[figure]
                = SumFunctionOnSet(Figure(sums, figure), WindowOf(us, from, to))
<1> DEFINE totals == TotalsOver(from, to)
           W == Window(from, to)
<1>1. /\ totals \in [BDA -> Totals]
      /\ \A b \in BDA, figure \in Figures :
           totals[b][figure] = SumFunctionOnSet(Figure(sums, figure), Keys(b, from, to))
  BY TotalsOverType
<1>2. IsFiniteSet(us) /\ IsFiniteSet(W) /\ W \subseteq DOMAIN sums
      /\ sums \in [DOMAIN sums -> Totals]
  <2>1. W \subseteq DOMAIN sums  BY DEF Window
  <2>2. QED  BY <2>1, FinitelyManyRollups DEF SumsOK
<1>3. \A b \in BDA : Keys(b, from, to) = {k \in W : k[1] = b}
  BY DEF Keys, Window
<1> HIDE DEF totals, W
<1>4. SumOf(Restrict(totals, us)) \in Totals
  <2>1. Restrict(totals, us) \in [us -> Totals]  BY <1>1 DEF Restrict
  <2>2. QED  BY <1>2, <2>1, SumOfType
<1>5. ASSUME NEW figure \in Figures
      PROVE  SumOf(Restrict(totals, us))[figure]
               = SumFunctionOnSet(Figure(sums, figure), {k \in W : k[1] \in us})
  <2> DEFINE f == Figure(sums, figure)
             total == Figure(totals, figure)
             group == [k \in W |-> k[1]]
  <2>1. SumOf(Restrict(totals, us))[figure] = SumFunctionOnSet(total, us)
    <3>1. totals \in [DOMAIN totals -> Totals] /\ us \subseteq DOMAIN totals  BY <1>1
    <3>2. QED  BY <1>2, <3>1, FigureOfSum
  <2>2. \A x \in W : f[x] \in Int
    BY <1>2, FigureType
  <2>3. \A b \in us : total[b] = SumFunctionOnSet(f, GroupOf(group, W, b))
    <3>1. ASSUME NEW b \in us PROVE total[b] = SumFunctionOnSet(f, GroupOf(group, W, b))
      <4>1. GroupOf(group, W, b) = Keys(b, from, to)  BY <1>3 DEF GroupOf
      <4>2. total[b] = totals[b][figure]  BY <1>1 DEF Figure
      <4> HIDE DEF total, group, f
      <4>3. QED  BY <1>1, <4>1, <4>2 DEF f
    <3>2. QED  BY <3>1
  <2>4. GroupsOf(group, W, us) = {k \in W : k[1] \in us}  BY DEF GroupsOf
  <2> HIDE DEF f, total, group
  <2>5. SumFunctionOnSet(total, us) = SumFunctionOnSet(f, GroupsOf(group, W, us))
    <3>1. IsFiniteSet(us) /\ IsFiniteSet(W)  BY <1>2
    <3>2. QED  BY <2>2, <2>3, <3>1, SumOfGroups
  <2>6. QED  BY <2>1, <2>4, <2>5 DEF f
<1>6. QED  BY <1>4, <1>5 DEF totals, W, WindowOf

-----------------------------------------------------------------------------
(* The inductive invariant.                                                *)

\* The sums by date, for any rollups.
ByDate(s, from, to) == SumOf(Restrict(s, {k \in DOMAIN s : from <= k[2] /\ k[2] <= to}))

\* A team overview in one day, to which nobody joined.
OneDay == board.kind = "team" /\ board.began = today /\ board.listed = users

\* Each figure it has read is covered by what the same query would find now, and by the
\* figures read later.
Growing ==
  OneDay =>
    /\ pc \in {"period", "window", "totals", "prevWindow", "prevTotals", "quarter", "answer"} =>
         Covers(ByDate(sums, today, today), board.tile)
    /\ pc \in {"window", "totals", "prevWindow", "prevTotals", "quarter", "answer"} =>
         /\ Covers(ByDate(sums, FirstDay(board.days, today), today), board.period)
         /\ Covers(board.period, board.tile)
    /\ pc \in {"prevWindow", "prevTotals", "quarter", "answer"} =>
         Covers(board.shown, board.period)
    /\ pc = "answer" => Covers(board.quarter, board.tile)

ChangesCancel == SumFunction(Restrict(board.change, board.listed)) = 0

BoardInv ==
  /\ TypeOK /\ WindowInv
  /\ DOMAIN sums \subseteq users \X Day
  /\ board.listed \subseteq users
  /\ pc \in {"months", "minDate"} => board.kind = "notice"
  /\ pc \in {"prevWindow", "prevTotals"} => Placed(board.rank, board.listed)
  /\ ChangesCancel
  /\ Growing

LEMMA InvSums == BoardInv => SumsOK
BY DEF BoardInv, SumsOK, TypeOK

\* Nothing has changed on a board nobody asked for.
LEMMA NothingChanges ==
  ASSUME NEW us, us \subseteq BDA
  PROVE  SumFunction(Restrict([b \in BDA |-> 0], us)) = 0
<1> DEFINE f == Restrict([b \in BDA |-> 0], us)
<1>1. IsFiniteSet(us)
  <2>1. IsFiniteSet(BDA)
    BY BoardsAssumption, FS_Interval DEF BDA, BoardsAssumption
  <2>2. QED  BY <2>1, FS_Subset
<1>2. DOMAIN f = us /\ \A b \in us : f[b] = 0  BY DEF Restrict
<1> HIDE DEF f
<1>3. SumFunctionOnSet(f, us) = 0  BY <1>1, <1>2, SumOfZeros
<1>4. QED  BY <1>2, <1>3 DEF SumFunction, f

LEMMA NoBoardType == NoBoard \in Board /\ Zero \in Totals
<1>1. Zero \in Totals  BY DEF Zero, Totals
<1>2. NBda \in Nat /\ MaxDay \in Nat  BY BoardsAssumption DEF BoardsAssumption
<1>3. 0 \in 0 .. NBda /\ 0 \in Day  BY <1>2 DEF Day
<1> HIDE DEF Zero, Totals, Day, BDA
<1>4. QED  BY <1>1, <1>3 DEF NoBoard, Board, NoDate

LEMMA InitBoardInv == Init => BoardInv
<1> SUFFICES ASSUME Init PROVE BoardInv  OBVIOUS
<1>1. DOMAIN sums = {} /\ sums \in [DOMAIN sums -> Totals]
  BY DEF Init
<1>2. TypeOK
  <2>1. today \in Day /\ writes \in 0 .. MaxWrites
    BY BoardsAssumption DEF Init, BoardsAssumption, Day
  <2>2. QED  BY <1>1, <2>1, NoBoardType DEF Init, TypeOK
<1>3. /\ board.listed = {} /\ board.change = [b \in BDA |-> 0] /\ board.kind = "leaderboard"
      /\ pc = "idle"
  BY DEF Init, NoBoard
<1>4. ChangesCancel  BY <1>3, NothingChanges DEF ChangesCancel
<1>5. Growing  BY <1>3 DEF Growing, OneDay
<1>6. QED  BY <1>1, <1>2, <1>3, <1>4, <1>5, WindowInit DEF BoardInv

-----------------------------------------------------------------------------
(* Later sums cover earlier ones.                                          *)

Counted == {"won", "dropped", "calls"}

LEMMA CoversByFigure ==
  ASSUME NEW s, NEW t
  PROVE  Covers(s, t) <=> \A figure \in Counted : s[figure] >= t[figure]
BY DEF Covers, Counted

LEMMA CoversIsTransitive ==
  ASSUME NEW s \in Totals, NEW t \in Totals, NEW u \in Totals, Covers(s, t), Covers(t, u)
  PROVE  Covers(s, u)
BY DEF Covers, Totals

\* More rollups, none of them with less, have no less in sum.
LEMMA SumCovers ==
  ASSUME NEW s, NEW t, s \in [DOMAIN s -> Totals], t \in [DOMAIN t -> Totals],
         NEW I, NEW J, I \subseteq J, IsFiniteSet(J), I \subseteq DOMAIN s, J \subseteq DOMAIN t,
         \A k \in I : Covers(t[k], s[k])
  PROVE  Covers(SumOf(Restrict(t, J)), SumOf(Restrict(s, I)))
<1>1. IsFiniteSet(I)  BY FS_Subset
<1>2. ASSUME NEW figure \in Counted
      PROVE  SumOf(Restrict(t, J))[figure] >= SumOf(Restrict(s, I))[figure]
  <2> DEFINE f == Figure(s, figure)
             g == Figure(t, figure)
  <2>1. figure \in Figures /\ figure # "points"  BY DEF Counted, Figures
  <2>2. \A x \in I : f[x] \in Int /\ f[x] <= g[x]
    <3>1. \A x \in I : f[x] = s[x][figure] /\ g[x] = t[x][figure] /\ f[x] \in Int /\ g[x] \in Int
      BY <2>1, FigureType
    <3>2. \A x \in I : t[x][figure] >= s[x][figure]  BY CoversByFigure
    <3> HIDE DEF f, g
    <3>3. QED  BY <3>1, <3>2
  <2>3. \A x \in J : g[x] \in Int /\ (x \notin I => g[x] >= 0)
    <3>1. \A x \in J : g[x] \in Nat  BY <2>1, FigureType
    <3> HIDE DEF g
    <3>2. QED  BY <3>1
  <2>4. SumFunctionOnSet(f, I) <= SumFunctionOnSet(g, J)
    <3> HIDE DEF f, g
    <3>1. QED  BY <2>2, <2>3, SumGrows
  <2>5. SumFunctionOnSet(f, I) \in Int /\ SumFunctionOnSet(g, J) \in Int
    <3>1. (\A x \in I : f[x] \in Int) /\ \A x \in J : g[x] \in Int  BY <2>2, <2>3
    <3> HIDE DEF f, g
    <3>2. QED  BY <1>1, <3>1, SumType
  <2>6. /\ SumOf(Restrict(s, I))[figure] = SumFunctionOnSet(f, I)
        /\ SumOf(Restrict(t, J))[figure] = SumFunctionOnSet(g, J)
    BY <1>1, <2>1, FigureOfSum
  <2> HIDE DEF f, g
  <2>7. QED  BY <2>4, <2>5, <2>6
<1>3. QED  BY <1>2, CoversByFigure

\* A query over a window within another finds no more, and no more was found earlier.
LEMMA ByDateCovers ==
  ASSUME NEW s, NEW t, s \in [DOMAIN s -> Totals], t \in [DOMAIN t -> Totals],
         DOMAIN s \subseteq DOMAIN t, IsFiniteSet(DOMAIN t),
         \A k \in DOMAIN s : k[2] \in Int /\ Covers(t[k], s[k]),
         NEW from \in Int, NEW from1 \in Int, NEW to \in Int, from1 <= from
  PROVE  /\ Covers(ByDate(t, from1, to), ByDate(s, from, to))
         /\ ByDate(t, from1, to) \in Totals /\ ByDate(s, from, to) \in Totals
<1> DEFINE I == {k \in DOMAIN s : from <= k[2] /\ k[2] <= to}
           J == {k \in DOMAIN t : from1 <= k[2] /\ k[2] <= to}
<1>1. ByDate(s, from, to) = SumOf(Restrict(s, I)) /\ ByDate(t, from1, to) = SumOf(Restrict(t, J))
  BY DEF ByDate
<1>2. I \subseteq J /\ I \subseteq DOMAIN s /\ J \subseteq DOMAIN t /\ IsFiniteSet(J)
  <2>1. ASSUME NEW k \in I PROVE k \in J
    <3>1. k \in DOMAIN s /\ k \in DOMAIN t /\ k[2] \in Int /\ from <= k[2] /\ k[2] <= to
      OBVIOUS
    <3>2. from1 <= k[2]  BY <3>1
    <3>3. QED  BY <3>1, <3>2
  <2>2. I \subseteq DOMAIN s /\ J \subseteq DOMAIN t /\ IsFiniteSet(J)  BY FS_Subset
  <2> HIDE DEF I, J
  <2>3. QED  BY <2>1, <2>2
<1>3. IsFiniteSet(I)  BY <1>2, FS_Subset
<1> HIDE DEF I, J
<1>4. Covers(SumOf(Restrict(t, J)), SumOf(Restrict(s, I)))
  BY <1>2, SumCovers
<1>5. Restrict(s, I) \in [I -> Totals] /\ Restrict(t, J) \in [J -> Totals]
  BY <1>2 DEF Restrict
<1>6. SumOf(Restrict(s, I)) \in Totals /\ SumOf(Restrict(t, J)) \in Totals
  BY <1>2, <1>3, <1>5, SumOfType
<1>7. QED  BY <1>1, <1>4, <1>6

-----------------------------------------------------------------------------
(* The steps.                                                              *)

LEMMA PlusType ==
  ASSUME NEW s \in Totals, NEW t \in Totals
  PROVE  Plus(s, t) \in Totals /\ Covers(Plus(s, t), s)
BY DEF Plus, Totals, Covers

\* The rollups after a record.
LEMMA RecordType ==
  ASSUME SumsOK, NEW b \in BDA, NEW d \in Day, NEW inc \in Totals, Record(b, d, inc)
  PROVE  /\ sums' \in [DOMAIN sums' -> Totals] /\ SumsOK'
         /\ DOMAIN sums \subseteq DOMAIN sums' /\ IsFiniteSet(DOMAIN sums')
         /\ \A k \in DOMAIN sums : k[2] \in Int /\ Covers(sums'[k], sums[k])
<1>1. /\ sums' = [j \in DOMAIN sums \cup {<<b, d>>} |->
                    IF j = <<b, d>> THEN Plus(Rollup(b, d), inc) ELSE sums[j]]
      /\ b \in users /\ UNCHANGED <<users, today>>
  BY DEF Record
<1>2. Rollup(b, d) \in Totals
  BY NoBoardType DEF Rollup, SumsOK
<1>3. Plus(Rollup(b, d), inc) \in Totals /\ Covers(Plus(Rollup(b, d), inc), Rollup(b, d))
  BY <1>2, PlusType
<1>4. sums \in [DOMAIN sums -> Totals] /\ DOMAIN sums \subseteq users \X Day /\ Day \subseteq Int
  BY BoardsAssumption DEF SumsOK, Day, BoardsAssumption
<1>5. DOMAIN sums' = DOMAIN sums \cup {<<b, d>>} /\ IsFiniteSet(DOMAIN sums')
  <2>1. IsFiniteSet(DOMAIN sums)  BY FinitelyManyRollups
  <2>2. QED  BY <1>1, <2>1, FS_AddElement
<1> HIDE DEF Day, BDA
<1>6. sums' \in [DOMAIN sums' -> Totals]
  BY <1>1, <1>3, <1>4, <1>5
<1>7. ASSUME NEW k \in DOMAIN sums PROVE Covers(sums'[k], sums[k])
  <2>1. CASE k = <<b, d>>
    BY <1>1, <1>3, <2>1 DEF Rollup
  <2>2. CASE k # <<b, d>>
    <3>1. sums'[k] = sums[k] /\ sums[k] \in Totals  BY <1>1, <1>4, <2>2
    <3>2. QED  BY <3>1 DEF Covers, Totals
  <2>3. QED  BY <2>1, <2>2
<1>8. \A k \in DOMAIN sums : k[2] \in Int  BY <1>4
<1>9. SumsOK'
  <2>1. DOMAIN sums' \subseteq users \X Day  BY <1>1, <1>4, <1>5
  <2>2. QED  BY <1>1, <1>6, <2>1 DEF SumsOK
<1>10. QED  BY <1>5, <1>6, <1>7, <1>8, <1>9

\* What a record leaves of the figures read so far.
LEMMA RecordKeeps ==
  ASSUME BoardInv, WindowInv', NEW b \in BDA, NEW d \in Day, NEW inc \in Totals,
         Record(b, d, inc)
  PROVE  BoardInv'
<1>1. SumsOK  BY InvSums
<1>2. UNCHANGED <<users, today, pc, board>> /\ writes < MaxWrites /\ writes' = writes + 1
  BY DEF Record
<1>3. /\ sums' \in [DOMAIN sums' -> Totals] /\ SumsOK'
      /\ DOMAIN sums \subseteq DOMAIN sums' /\ IsFiniteSet(DOMAIN sums')
      /\ \A k \in DOMAIN sums : k[2] \in Int /\ Covers(sums'[k], sums[k])
  BY <1>1, RecordType
<1>4. TypeOK'
  <2>1. writes' \in 0 .. MaxWrites
    BY <1>2, BoardsAssumption DEF BoardInv, TypeOK, BoardsAssumption
  <2>2. DOMAIN sums' \subseteq BDA \X Day  BY <1>3 DEF SumsOK
  <2>3. QED  BY <1>2, <1>3, <2>1, <2>2 DEF BoardInv, TypeOK
<1>5. Growing'
  <2>1. ASSUME NEW from \in Int
        PROVE  /\ Covers(ByDate(sums', from, today), ByDate(sums, from, today))
               /\ ByDate(sums', from, today) \in Totals /\ ByDate(sums, from, today) \in Totals
    <3>1. today \in Int /\ from <= from  BY <1>1, BoardsAssumption DEF SumsOK, Day, BoardsAssumption
    <3>2. sums \in [DOMAIN sums -> Totals]  BY <1>1 DEF SumsOK
    <3>3. QED  BY <1>3, <3>1, <3>2, ByDateCovers
  <2>2. today \in Int /\ (pc # "idle" => FirstDay(board.days, today) \in Int)
    <3>1. today \in Nat  BY DEF BoardInv, WindowInv, ClockOrder
    <3>2. pc # "idle" => board.days \in Nat  BY DEF BoardInv, WindowInv, ClockOrder
    <3>3. QED  BY <3>1, <3>2, FirstDayIsEarlier
  <2>3. board.tile \in Totals /\ board.period \in Totals
    BY DEF BoardInv, TypeOK, Board
  <2>4. SUFFICES ASSUME OneDay, pc # "idle" PROVE Growing'
    BY <1>2 DEF Growing, OneDay
  <2>5. Covers(ByDate(sums, today, today), board.tile)
          => Covers(ByDate(sums', today, today), board.tile)
    BY <2>1, <2>2, <2>3, CoversIsTransitive
  <2>6. Covers(ByDate(sums, FirstDay(board.days, today), today), board.period)
          => Covers(ByDate(sums', FirstDay(board.days, today), today), board.period)
    BY <2>1, <2>2, <2>3, <2>4, CoversIsTransitive
  <2>7. Growing  BY DEF BoardInv
  <2>8. QED  BY <1>2, <2>4, <2>5, <2>6, <2>7 DEF Growing, OneDay
<1>6. QED
  BY <1>2, <1>3, <1>4, <1>5 DEF BoardInv, SumsOK, ChangesCancel

\* The increments of the records.
LEMMA RecordsAreTotals ==
  /\ LET i == [Zero EXCEPT !.points = 50, !.won = 1]
     IN  i \in Totals /\ i.points = 50 /\ i.won = 1 /\ i.dropped = 0 /\ i.calls = 0
  /\ LET i == [Zero EXCEPT !.points = -50, !.dropped = 1]
     IN  i \in Totals /\ i.points = -50 /\ i.won = 0 /\ i.dropped = 1 /\ i.calls = 0
  /\ LET i == [Zero EXCEPT !.calls = 1]
     IN  i \in Totals /\ i.points = 0 /\ i.won = 0 /\ i.dropped = 0 /\ i.calls = 1
  /\ LET i == [Zero EXCEPT !.points = 10]
     IN  i \in Totals /\ i.points = 10 /\ i.won = 0 /\ i.dropped = 0 /\ i.calls = 0
<1>1. /\ Zero \in Totals /\ Zero.points = 0 /\ Zero.won = 0 /\ Zero.dropped = 0
      /\ Zero.calls = 0
  BY DEF Zero, Totals
<1> HIDE DEF Zero
<1>2. LET i == [Zero EXCEPT !.points = 50, !.won = 1]
     IN  i \in Totals /\ i.points = 50 /\ i.won = 1 /\ i.dropped = 0 /\ i.calls = 0
  <2> DEFINE i == [Zero EXCEPT !.points = 50, !.won = 1]
  <2>1. i \in Totals
    <3>1. ASSUME NEW p \in Int, NEW n \in Nat
          PROVE  [Zero EXCEPT !.points = p, !.won = n] \in Totals
      BY <1>1 DEF Totals
    <3>2. 50 \in Int /\ 1 \in Nat  OBVIOUS
    <3>3. QED  BY <3>1, <3>2
  <2>2. i.points = 50 /\ i.won = 1 /\ i.dropped = 0 /\ i.calls = 0
    BY <1>1 DEF Totals
  <2>3. QED  BY <2>1, <2>2
<1>3. LET i == [Zero EXCEPT !.points = -50, !.dropped = 1]
     IN  i \in Totals /\ i.points = -50 /\ i.won = 0 /\ i.dropped = 1 /\ i.calls = 0
  <2> DEFINE i == [Zero EXCEPT !.points = -50, !.dropped = 1]
  <2>1. i \in Totals
    <3>1. ASSUME NEW p \in Int, NEW n \in Nat
          PROVE  [Zero EXCEPT !.points = p, !.dropped = n] \in Totals
      BY <1>1 DEF Totals
    <3>2. -50 \in Int /\ 1 \in Nat  OBVIOUS
    <3>3. QED  BY <3>1, <3>2
  <2>2. i.points = -50 /\ i.won = 0 /\ i.dropped = 1 /\ i.calls = 0
    BY <1>1 DEF Totals
  <2>3. QED  BY <2>1, <2>2
<1>4. LET i == [Zero EXCEPT !.calls = 1]
     IN  i \in Totals /\ i.points = 0 /\ i.won = 0 /\ i.dropped = 0 /\ i.calls = 1
  <2> DEFINE i == [Zero EXCEPT !.calls = 1]
  <2>1. i \in Totals  BY <1>1 DEF Totals
  <2>2. i.points = 0 /\ i.won = 0 /\ i.dropped = 0 /\ i.calls = 1
    BY <1>1 DEF Totals
  <2>3. QED  BY <2>1, <2>2
<1>5. LET i == [Zero EXCEPT !.points = 10]
     IN  i \in Totals /\ i.points = 10 /\ i.won = 0 /\ i.dropped = 0 /\ i.calls = 0
  <2> DEFINE i == [Zero EXCEPT !.points = 10]
  <2>1. i \in Totals  BY <1>1 DEF Totals
  <2>2. i.points = 10 /\ i.won = 0 /\ i.dropped = 0 /\ i.calls = 0
    BY <1>1 DEF Totals
  <2>3. QED  BY <2>1, <2>2
<1>6. QED  BY <1>2, <1>3, <1>4, <1>5

\* Who joins or a midnight ends what could be said of the figures.
LEMMA OthersKeep ==
  ASSUME BoardInv, WindowInv', Midnight \/ \E b \in BDA : CreateBDA(b)
  PROVE  BoardInv'
<1>1. UNCHANGED <<sums, writes, pc, board>>  BY DEF Midnight, CreateBDA
<1>2. users \subseteq users' /\ users' \subseteq BDA /\ today' \in Day
  <2>1. users \subseteq BDA /\ today \in Day /\ MaxDay \in Nat
    BY BoardsAssumption DEF BoardInv, TypeOK, BoardsAssumption
  <2>2. CASE Midnight  BY <2>1, <2>2 DEF Midnight, Day
  <2>3. ASSUME NEW b \in BDA, CreateBDA(b)
        PROVE  users \subseteq users' /\ users' \subseteq BDA /\ today' \in Day
    BY <2>1, <2>3 DEF CreateBDA
  <2>4. QED  BY <2>2, <2>3
<1>3. TypeOK'  BY <1>1, <1>2 DEF BoardInv, TypeOK
<1>4. pc # "idle" => ~OneDay'
  <2>1. CASE Midnight
    <3>1. pc # "idle" => board.began \in Nat /\ board.began <= today /\ today \in Nat
      BY DEF BoardInv, WindowInv, ClockOrder
    <3>2. QED  BY <1>1, <2>1, <3>1 DEF Midnight, OneDay
  <2>2. CASE \E b \in BDA : CreateBDA(b)
    BY <1>1, <2>2 DEF CreateBDA, OneDay, BoardInv
  <2>3. QED  BY <2>1, <2>2
<1>5. Growing'  BY <1>1, <1>4 DEF Growing
<1>6. QED  BY <1>1, <1>2, <1>3, <1>5 DEF BoardInv, ChangesCancel

LEMMA MinOfTwo ==
  ASSUME NEW a \in Int, NEW b \in Int
  PROVE  Min({a, b}) \in Int /\ Min({a, b}) <= a /\ Min({a, b}) <= b
<1>1. \E x \in {a, b} : \A y \in {a, b} : x <= y
  <2>1. CASE a <= b  BY <2>1
  <2>2. CASE b <= a  BY <2>2
  <2>3. QED  BY <2>1, <2>2
<1>2. Min({a, b}) \in {a, b} /\ \A y \in {a, b} : Min({a, b}) <= y
  BY <1>1 DEF Min
<1>3. QED  BY <1>2

LEMMA MinDateType == ASSUME SumsOK PROVE MinDate \in Day \cup {NoDate}
<1> DEFINE dates == {k[2] : k \in DOMAIN sums}
<1>1. CASE sums = <<>>  BY <1>1 DEF MinDate
<1>2. CASE sums # <<>>
  <2>1. DOMAIN sums # {}
    <3>1. sums \in [DOMAIN sums -> Totals]  BY DEF SumsOK
    <3>2. DOMAIN sums = {} => sums = <<>>  BY <3>1
    <3>3. QED  BY <1>2, <3>2
  <2>2. dates # {} /\ dates \subseteq Day  BY <2>1 DEF SumsOK
  <2>3. \A x \in dates : x \in Nat
    <3>1. Day \subseteq Nat  BY BoardsAssumption DEF Day, BoardsAssumption
    <3>2. QED  BY <2>2, <3>1
  <2> HIDE DEF dates
  <2>4. Min(dates) \in dates
    BY <2>2, <2>3, MinOfNats
  <2>5. QED  BY <1>2, <2>2, <2>4 DEF MinDate, dates
<1>3. QED  BY <1>1, <1>2

\* The months of the notice board.
LEMMA MonthsType ==
  ASSUME SumsOK, NEW to \in Int
  PROVE  MonthsTo(to) \in [0 .. MaxDay -> [BDA -> Totals]]
<1>1. ASSUME NEW m \in 0 .. MaxDay
      PROVE  TotalsOver(m * MonthDays, Min({(m + 1) * MonthDays - 1, to})) \in [BDA -> Totals]
  <2>1. m * MonthDays \in Int /\ (m + 1) * MonthDays - 1 \in Int
    BY BoardsAssumption DEF BoardsAssumption
  <2>2. Min({(m + 1) * MonthDays - 1, to}) \in Int
    BY <2>1, MinOfTwo
  <2>3. QED  BY <2>1, <2>2, TotalsOverType
<1> HIDE DEF BDA
<1>2. QED  BY <1>1 DEF MonthsTo

\* The queries of a team overview.
LEMMA TeamSums ==
  ASSUME BoardInv, NEW from \in Int, from <= today
  PROVE  /\ SumByDate(from, today) = ByDate(sums, from, today)
         /\ ByDate(sums, from, today) \in Totals
         /\ Covers(ByDate(sums, from, today), ByDate(sums, from, today))
         /\ Covers(ByDate(sums, from, today), ByDate(sums, today, today))
         /\ ByDate(sums, today, today) \in Totals
<1>1. SumsOK /\ today \in Int
  BY InvSums DEF BoardInv, WindowInv, ClockOrder
<1>2. SumByDate(from, today) = ByDate(sums, from, today)
  BY DEF SumByDate, ByDate
<1>3. sums \in [DOMAIN sums -> Totals] /\ IsFiniteSet(DOMAIN sums)
      /\ \A k \in DOMAIN sums : k[2] \in Int /\ sums[k] \in Totals
  <2>1. Day \subseteq Int  BY BoardsAssumption DEF Day, BoardsAssumption
  <2>2. QED  BY <1>1, <2>1, FinitelyManyRollups DEF SumsOK
<1>4. \A k \in DOMAIN sums : k[2] \in Int /\ Covers(sums[k], sums[k])
  BY <1>3 DEF Covers, Totals
<1>5. Covers(ByDate(sums, from, today), ByDate(sums, today, today))
      /\ ByDate(sums, from, today) \in Totals /\ ByDate(sums, today, today) \in Totals
  BY <1>1, <1>3, <1>4, ByDateCovers
<1>6. Covers(ByDate(sums, from, today), ByDate(sums, from, today))
  BY <1>5 DEF Covers, Totals
<1>7. QED  BY <1>2, <1>5, <1>6

\* What those listed have is what everybody has, if nobody joined.
LEMMA ListedSums ==
  ASSUME BoardInv, board.listed = users, NEW from \in Int
  PROVE  /\ SumListed(TotalsOver(from, today)) \in Totals
         /\ Covers(SumListed(TotalsOver(from, today)), ByDate(sums, from, today))
<1>1. SumsOK /\ today \in Int /\ users \subseteq BDA
  BY InvSums DEF BoardInv, WindowInv, ClockOrder, TypeOK
<1>2. WindowOf(users, from, today) = Window(from, today)
  BY DEF BoardInv, Window, WindowOf
<1>3. SumByDate(from, today) = ByDate(sums, from, today)
  BY DEF SumByDate, ByDate
<1>4. SumListed(TotalsOver(from, today)) = SumOf(Restrict(TotalsOver(from, today), users))
  BY DEF SumListed
<1>5. /\ SumOf(Restrict(TotalsOver(from, today), users)) \in Totals
      /\ \A figure \in Figures : SumOf(Restrict(TotalsOver(from, today), users))[figure]
                                   = SumFunctionOnSet(Figure(sums, figure), Window(from, today))
  BY <1>1, <1>2, ListedFigures
<1>6. /\ ByDate(sums, from, today) \in Totals
      /\ \A figure \in Figures : ByDate(sums, from, today)[figure]
                                   = SumFunctionOnSet(Figure(sums, figure), Window(from, today))
  BY <1>1, <1>3, TotalsOverType
<1>7. ASSUME NEW figure \in Counted
      PROVE  SumListed(TotalsOver(from, today))[figure] >= ByDate(sums, from, today)[figure]
  <2>1. figure \in Figures /\ ByDate(sums, from, today)[figure] \in Int
    BY <1>6 DEF Counted, Figures, Totals
  <2>2. SumListed(TotalsOver(from, today))[figure] = ByDate(sums, from, today)[figure]
    BY <1>4, <1>5, <1>6, <2>1
  <2>3. QED  BY <2>1, <2>2
<1>8. QED  BY <1>4, <1>5, <1>7, CoversByFigure

LEMMA BeginKeeps ==
  ASSUME BoardInv, WindowInv', NEW n \in RangeDays \cup {0},
         (AskNotice /\ n = 0) \/ (n \in RangeDays /\ (AskBoard(n) \/ AskTeam(n)))
  PROVE  BoardInv'
<1>1. PICK kind \in {"leaderboard", "team", "notice"}, first \in {"window", "tile", "months"} :
        /\ Begin(kind, first, n)
        /\ kind = "team" => first = "tile"
        /\ first \in {"months", "minDate"} => kind = "notice"
  BY DEF AskNotice, AskBoard, AskTeam
<1>2. /\ pc' = first /\ UNCHANGED <<users, sums, today, writes>>
      /\ board' = [NoBoard EXCEPT !.kind = kind, !.listed = users, !.days = n,
                                  !.began = today]
  BY <1>1 DEF Begin, Store
<1>3. /\ board'.kind = kind /\ board'.listed = users
      /\ board'.change = [b \in BDA |-> 0]
  BY <1>2 DEF NoBoard
<1>4. users \subseteq BDA /\ today \in Day  BY DEF BoardInv, TypeOK
<1>5. board' \in Board
  <2>1. NoBoard \in Board  BY NoBoardType
  <2> HIDE DEF NoBoard, BDA, Day
  <2>2. QED  BY <1>2, <1>4, <2>1 DEF Board
<1>6. TypeOK'  BY <1>1, <1>2, <1>5 DEF BoardInv, TypeOK
<1>7. ChangesCancel'  BY <1>3, <1>4, NothingChanges DEF ChangesCancel
<1>8. Growing'  BY <1>1, <1>2, <1>3 DEF Growing, OneDay
<1>9. QED  BY <1>1, <1>2, <1>3, <1>6, <1>7, <1>8 DEF BoardInv

\* A step that fills in the figures of a board.
LEMMA FillKeeps ==
  ASSUME BoardInv, WindowInv', UNCHANGED <<users, sums, today, writes>>,
         board' \in Board, pc' \in {"idle", "tile", "period", "window", "totals", "prevWindow",
                                    "prevTotals", "quarter", "months", "minDate", "answer"},
         board'.listed = board.listed, board'.change = board.change,
         pc' \in {"months", "minDate"} => board'.kind = "notice",
         pc' \in {"prevWindow", "prevTotals"} => Placed(board'.rank, board'.listed), Growing'
  PROVE  BoardInv'
<1>1. TypeOK'  BY DEF BoardInv, TypeOK
<1>2. ChangesCancel'  BY DEF BoardInv, ChangesCancel
<1>3. QED  BY <1>1, <1>2 DEF BoardInv

LEMMA ReadKeeps ==
  ASSUME BoardInv, WindowInv', ReadTile \/ ReadPeriod \/ ReadWindow
  PROVE  BoardInv'
<1>1. /\ UNCHANGED <<users, sums, today, writes>> /\ today \in Nat /\ today \in Day
      /\ board \in Board /\ SumsOK
  BY InvSums DEF ReadTile, ReadPeriod, ReadWindow, Store, BoardInv, WindowInv, ClockOrder, TypeOK
<1>2. board.days \in Nat /\ FirstDay(board.days, today) \in Int
      /\ FirstDay(board.days, today) <= today
  <2>1. board.days \in Nat
    BY DEF ReadTile, ReadPeriod, ReadWindow, BoardInv, WindowInv, ClockOrder
  <2>2. QED  BY <1>1, <2>1, FirstDayIsEarlier
<1>3. Growing  BY DEF BoardInv
<1>4. CASE ReadTile
  <2>1. SumByDate(today, today) \in Totals
        /\ Covers(ByDate(sums, today, today), SumByDate(today, today))
    BY <1>1, TeamSums
  <2>2. board' = [board EXCEPT !.tile = SumByDate(today, today)] /\ pc' = "period"
    BY <1>4 DEF ReadTile
  <2> DEFINE tile == SumByDate(today, today)
  <2> HIDE DEF tile
  <2>3. board' = [board EXCEPT !.tile = tile] /\ tile \in Totals
        /\ Covers(ByDate(sums, today, today), tile)
    BY <2>1, <2>2 DEF tile
  <2>4. board' \in Board /\ board'.tile = tile /\ board'.listed = board.listed
        /\ board'.change = board.change
    BY <1>1, <2>3 DEF Board
  <2>5. Growing'  BY <1>1, <2>2, <2>3, <2>4 DEF Growing
  <2>6. QED  BY <1>1, <2>2, <2>4, <2>5, FillKeeps
<1>5. CASE ReadPeriod
  <2> DEFINE period == SumByDate(FirstDay(board.days, today), today)
             tile == board.tile
  <2>1. /\ period = ByDate(sums, FirstDay(board.days, today), today)
        /\ period \in Totals /\ Covers(period, period)
        /\ Covers(period, ByDate(sums, today, today)) /\ ByDate(sums, today, today) \in Totals
    BY <1>2, TeamSums
  <2>2. board' = [board EXCEPT !.period = period] /\ pc' = "window" /\ pc = "period"
    BY <1>5 DEF ReadPeriod
  <2> HIDE DEF period
  <2>3. /\ board' \in Board /\ board'.period = period /\ board'.listed = board.listed
        /\ board'.change = board.change /\ board'.tile = tile /\ board'.days = board.days
        /\ board'.kind = board.kind /\ board'.began = board.began
        /\ tile \in Totals
    BY <1>1, <2>1, <2>2 DEF Board
  <2>4. Growing'
    <3>1. SUFFICES ASSUME OneDay' PROVE Growing'  BY DEF Growing
    <3>2. OneDay  BY <1>1, <2>3, <3>1 DEF OneDay
    <3>3. Covers(ByDate(sums, today, today), tile)  BY <1>3, <2>2, <3>2 DEF Growing
    <3>4. Covers(period, tile)  BY <2>1, <2>3, <3>3, CoversIsTransitive
    <3>5. QED  BY <1>1, <2>1, <2>2, <2>3, <3>3, <3>4 DEF Growing
  <2>5. QED  BY <1>1, <2>2, <2>3, <2>4, FillKeeps
<1>6. CASE ReadWindow
  <2>1. board' = [board EXCEPT !.to = today] /\ pc' = "totals" /\ pc = "window"
    BY <1>6 DEF ReadWindow
  <2>2. /\ board' \in Board /\ board'.period = board.period /\ board'.listed = board.listed
        /\ board'.change = board.change /\ board'.tile = board.tile /\ board'.days = board.days
        /\ board'.kind = board.kind /\ board'.began = board.began
    BY <1>1, <2>1 DEF Board
  <2>3. Growing'  BY <1>1, <1>3, <2>1, <2>2 DEF Growing, OneDay
  <2>4. QED  BY <1>1, <2>1, <2>2, <2>3, FillKeeps
<1>7. QED  BY <1>4, <1>5, <1>6

\* What is known of a board whose window is set.
LEMMA BoardFacts ==
  ASSUME BoardInv, pc # "idle"
  PROVE  /\ SumsOK /\ today \in Nat /\ today \in Day /\ board \in Board
         /\ board.days \in Nat /\ FirstDay(board.days, today) \in Int
         /\ FirstDay(board.days, today) <= today
         /\ board.listed \subseteq users /\ users \subseteq BDA /\ IsFiniteSet(board.listed)
         /\ (pc \in {"totals", "prevWindow", "prevTotals", "quarter", "answer"} =>
               board.to \in Nat /\ (OneDay => board.to = today))
<1>1. SumsOK /\ today \in Nat /\ today \in Day /\ board \in Board /\ board.days \in Nat
      /\ users \subseteq BDA /\ board.listed \subseteq users
  BY InvSums DEF BoardInv, WindowInv, ClockOrder, TypeOK
<1>2. FirstDay(board.days, today) \in Int /\ FirstDay(board.days, today) <= today
  BY <1>1, FirstDayIsEarlier
<1>3. IsFiniteSet(board.listed)  BY <1>1, FinitelyManyRollups
<1>4. pc \in {"totals", "prevWindow", "prevTotals", "quarter", "answer"} =>
        board.to \in Nat /\ (OneDay => board.to = today)
  BY DEF BoardInv, WindowInv, ClockOrder, OneDay
<1>5. QED  BY <1>1, <1>2, <1>3, <1>4

LEMMA RankWindowKeeps ==
  ASSUME BoardInv, WindowInv', RankWindow
  PROVE  BoardInv'
<1> DEFINE from  == FirstDay(board.days, board.to)
           rank  == Ranks(board.days, board.to, board.listed)
           shown == SumListed(TotalsOver(from, board.to))
<1>1. /\ pc = "totals" /\ UNCHANGED <<users, sums, today, writes>>
      /\ pc' \in {"prevWindow", "quarter", "answer"}
      /\ pc' = "answer" => board.kind # "team"
      /\ board' = [board EXCEPT !.rank = rank, !.shown = shown]
  BY DEF RankWindow, AfterBoard, Store
<1>2. /\ SumsOK /\ today \in Nat /\ board \in Board /\ board.days \in Nat /\ board.to \in Nat
      /\ board.listed \subseteq users /\ users \subseteq BDA
      /\ OneDay => board.to = today
      /\ FirstDay(board.days, today) \in Int /\ FirstDay(board.days, today) <= today
  BY <1>1, BoardFacts
<1>3. rank \in [BDA -> 0 .. NBda] /\ Placed(rank, board.listed)
  BY <1>2, RanksType
<1>4. shown \in Totals
  <2>1. from \in Int /\ board.to \in Int  BY <1>2, FirstDayIsEarlier
  <2>2. board.listed \subseteq BDA  BY <1>2
  <2> HIDE DEF from
  <2>3. SumOf(Restrict(TotalsOver(from, board.to), board.listed)) \in Totals
    BY <1>2, <2>1, <2>2, ListedFigures
  <2>4. QED  BY <2>3 DEF SumListed
<1>5. OneDay => Covers(shown, ByDate(sums, FirstDay(board.days, today), today))
  <2>1. SUFFICES ASSUME OneDay
                 PROVE  Covers(shown, ByDate(sums, FirstDay(board.days, today), today))
    OBVIOUS
  <2>2. board.to = today /\ board.listed = users  BY <1>2, <2>1 DEF OneDay
  <2>3. Covers(SumListed(TotalsOver(FirstDay(board.days, today), today)),
               ByDate(sums, FirstDay(board.days, today), today))
    BY <1>2, <2>2, ListedSums
  <2>4. QED  BY <2>2, <2>3
<1> HIDE DEF rank, shown, from
<1>6. /\ board' \in Board /\ board'.rank = rank /\ board'.shown = shown
      /\ board'.period = board.period /\ board'.listed = board.listed
      /\ board'.change = board.change /\ board'.tile = board.tile /\ board'.days = board.days
      /\ board'.kind = board.kind /\ board'.began = board.began
      /\ board.period \in Totals
  BY <1>1, <1>2, <1>3, <1>4 DEF Board
<1>7. Growing'
  <2>1. SUFFICES ASSUME OneDay' PROVE Growing'  BY DEF Growing
  <2>2. OneDay  BY <1>1, <1>6, <2>1 DEF OneDay
  <2>3. /\ Covers(ByDate(sums, FirstDay(board.days, today), today), board.period)
        /\ Covers(ByDate(sums, today, today), board.tile)
        /\ Covers(board.period, board.tile)
    BY <1>1, <2>2 DEF Growing, BoardInv
  <2>4. ByDate(sums, FirstDay(board.days, today), today) \in Totals  BY <1>2, TeamSums
  <2>5. Covers(shown, board.period)
    BY <1>4, <1>5, <1>6, <2>2, <2>3, <2>4, CoversIsTransitive
  <2>6. pc' # "answer"  BY <1>1, <2>2 DEF OneDay
  <2>7. QED  BY <1>1, <1>6, <2>3, <2>5, <2>6 DEF Growing
<1>8. QED  BY <1>1, <1>3, <1>6, <1>7, FillKeeps

LEMMA PreviousKeeps ==
  ASSUME BoardInv, WindowInv', ReadPreviousWindow \/ RankPreviousWindow
  PROVE  BoardInv'
<1>1. /\ pc \in {"prevWindow", "prevTotals"} /\ pc # "idle"
      /\ UNCHANGED <<users, sums, today, writes>>
  BY DEF ReadPreviousWindow, RankPreviousWindow, Store
<1>2. /\ SumsOK /\ today \in Nat /\ board \in Board /\ board.days \in Nat
      /\ board.listed \subseteq users /\ users \subseteq BDA /\ IsFiniteSet(board.listed)
  BY <1>1, BoardFacts
<1>3. Placed(board.rank, board.listed) /\ board.rank \in [BDA -> 0 .. NBda] /\ Growing
  BY <1>1, <1>2 DEF BoardInv, Board
<1>4. CASE ReadPreviousWindow
  <2>1. board' = [board EXCEPT !.prevTo = today - board.days] /\ pc' = "prevTotals"
        /\ today - board.days \in Int /\ pc = "prevWindow"
    BY <1>2, <1>4 DEF ReadPreviousWindow
  <2>2. /\ board' \in Board /\ board'.rank = board.rank /\ board'.shown = board.shown
        /\ board'.period = board.period /\ board'.listed = board.listed
        /\ board'.change = board.change /\ board'.tile = board.tile /\ board'.days = board.days
        /\ board'.kind = board.kind /\ board'.began = board.began
    BY <1>2, <2>1 DEF Board
  <2>3. Growing'  BY <1>1, <1>3, <2>1, <2>2 DEF Growing, OneDay
  <2>4. QED  BY <1>1, <1>3, <2>1, <2>2, <2>3, FillKeeps
<1>5. CASE RankPreviousWindow
  <2> DEFINE prev == Ranks(board.days, board.prevTo, board.listed)
             listed == board.listed
             change == [b \in BDA |-> IF b \in listed THEN prev[b] - board.rank[b] ELSE 0]
             h == [b \in listed |-> prev[b] - board.rank[b]]
  <2>1. /\ board' = [board EXCEPT !.change = change] /\ pc = "prevTotals"
        /\ pc' \in {"quarter", "answer"} /\ (pc' = "answer" => board.kind # "team")
    BY <1>5 DEF RankPreviousWindow, AfterBoard
  <2>2. prev \in [BDA -> 0 .. NBda] /\ Placed(prev, listed)
    <3>1. board.prevTo \in Int  BY <1>2 DEF Board
    <3>2. QED  BY <1>2, <3>1, RanksType
  <2> HIDE DEF prev
  <2>3. change \in [BDA -> Int]
    <3>1. \A b \in BDA : prev[b] \in Int /\ board.rank[b] \in Int  BY <1>3, <2>2
    <3>2. QED  BY <3>1
  <2>4. SumFunctionOnSet(h, listed) = 0  BY <1>2, <1>3, <2>2, PlacesCancel
  <2>5. Restrict(change, listed) = h
    <3>1. listed \subseteq BDA  BY <1>2
    <3>2. QED  BY <3>1 DEF Restrict
  <2>6. SumFunction(Restrict(change, listed)) = 0
    <3>1. DOMAIN h = listed  OBVIOUS
    <3> HIDE DEF h, change
    <3>2. QED  BY <2>4, <2>5, <3>1 DEF SumFunction
  <2> HIDE DEF change
  <2>7. /\ board' \in Board /\ board'.rank = board.rank /\ board'.shown = board.shown
        /\ board'.period = board.period /\ board'.listed = board.listed
        /\ board'.change = change /\ board'.tile = board.tile /\ board'.days = board.days
        /\ board'.kind = board.kind /\ board'.began = board.began
    BY <1>2, <2>1, <2>3 DEF Board
  <2>8. Growing'  BY <1>1, <1>3, <2>1, <2>7 DEF Growing, OneDay
  <2>9. TypeOK'  BY <1>1, <2>1, <2>7 DEF BoardInv, TypeOK
  <2>10. ChangesCancel'  BY <2>6, <2>7 DEF ChangesCancel
  <2>11. QED  BY <1>1, <2>1, <2>7, <2>8, <2>9, <2>10 DEF BoardInv
<1>6. QED  BY <1>4, <1>5

\* The running quarter has begun.
LEMMA QuarterHasBegun ==
  ASSUME NEW d \in Nat
  PROVE  QuarterStart(QuarterOf(MonthOf(d))) \in Nat /\ QuarterStart(QuarterOf(MonthOf(d))) <= d
<1> DEFINE m == d \div MonthDays
           q == m \div 3
<1>1. MonthDays \in Nat /\ MonthDays > 0  BY BoardsAssumption DEF BoardsAssumption
<1>2. m \in Nat /\ MonthDays * m <= d
  BY <1>1
<1> HIDE DEF m
<1>3. q \in Nat /\ 3 * q <= m
  BY <1>2
<1> HIDE DEF q
<1>4. MonthDays * (3 * q) <= MonthDays * m
  BY <1>1, <1>2, <1>3
<1>5. 3 * MonthDays * q = MonthDays * (3 * q) /\ MonthDays * (3 * q) \in Nat
      /\ MonthDays * m \in Nat
  BY <1>1, <1>2, <1>3
<1>6. 3 * MonthDays * q <= d /\ 3 * MonthDays * q \in Nat
  BY <1>2, <1>4, <1>5
<1>7. QED  BY <1>6 DEF QuarterStart, QuarterOf, MonthOf, m, q

LEMMA QuarterKeeps ==
  ASSUME BoardInv, WindowInv', RankQuarter
  PROVE  BoardInv'
<1> DEFINE from    == QuarterStart(QuarterOf(MonthOf(today)))
           quarter == SumListed(TotalsOver(from, today))
<1>1. /\ pc = "quarter" /\ UNCHANGED <<users, sums, today, writes>> /\ pc' = "answer"
      /\ board' = [board EXCEPT !.quarter = quarter]
  BY DEF RankQuarter, Store
<1>2. /\ SumsOK /\ today \in Nat /\ board \in Board
      /\ board.listed \subseteq users /\ users \subseteq BDA
  BY <1>1, BoardFacts
<1>3. from \in Int /\ from <= today  BY <1>2, QuarterHasBegun
<1> HIDE DEF from
<1>4. quarter \in Totals
  <2>1. today \in Int /\ board.listed \subseteq BDA  BY <1>2
  <2>2. SumOf(Restrict(TotalsOver(from, today), board.listed)) \in Totals
    BY <1>2, <1>3, <2>1, ListedFigures
  <2>3. QED  BY <2>2 DEF SumListed
<1>5. OneDay => Covers(quarter, board.tile)
  <2>1. SUFFICES ASSUME OneDay PROVE Covers(quarter, board.tile)  OBVIOUS
  <2>2. Covers(quarter, ByDate(sums, from, today))
    BY <1>3, <2>1, ListedSums DEF OneDay
  <2>3. /\ Covers(ByDate(sums, from, today), ByDate(sums, today, today))
        /\ ByDate(sums, from, today) \in Totals /\ ByDate(sums, today, today) \in Totals
    BY <1>3, TeamSums
  <2>4. Covers(ByDate(sums, today, today), board.tile) /\ board.tile \in Totals
    BY <1>1, <1>2, <2>1 DEF BoardInv, Growing, Board
  <2> HIDE DEF quarter
  <2>5. Covers(quarter, ByDate(sums, today, today))
    BY <1>4, <2>2, <2>3, CoversIsTransitive
  <2>6. QED  BY <1>4, <2>3, <2>4, <2>5, CoversIsTransitive
<1> HIDE DEF quarter
<1>6. /\ board' \in Board /\ board'.rank = board.rank /\ board'.shown = board.shown
      /\ board'.period = board.period /\ board'.listed = board.listed
      /\ board'.change = board.change /\ board'.tile = board.tile /\ board'.days = board.days
      /\ board'.kind = board.kind /\ board'.began = board.began /\ board'.quarter = quarter
  BY <1>1, <1>2, <1>4 DEF Board
<1>7. Growing'  BY <1>1, <1>5, <1>6 DEF BoardInv, Growing, OneDay
<1>8. QED  BY <1>1, <1>6, <1>7, FillKeeps

LEMMA NoticeKeeps ==
  ASSUME BoardInv, WindowInv', ReadMonths \/ ReadMinDate
  PROVE  BoardInv'
<1>1. /\ UNCHANGED <<users, sums, today, writes>> /\ pc \in {"months", "minDate"}
      /\ pc # "idle"
  BY DEF ReadMonths, ReadMinDate, Store
<1>2. /\ SumsOK /\ today \in Day /\ today \in Int /\ board \in Board /\ board.kind = "notice"
  BY <1>1, BoardFacts DEF BoardInv
<1>3. CASE ReadMonths
  <2> DEFINE months == MonthsTo(today)
  <2>1. board' = [board EXCEPT !.to = today, !.months = months] /\ pc' = "minDate"
    BY <1>3 DEF ReadMonths
  <2>2. months \in [0 .. MaxDay -> [BDA -> Totals]]  BY <1>2, MonthsType
  <2> HIDE DEF months, BDA, Day
  <2>3. /\ board' \in Board /\ board'.listed = board.listed /\ board'.change = board.change
        /\ board'.kind = "notice"
    BY <1>2, <2>1, <2>2 DEF Board
  <2>4. Growing'  BY <2>3 DEF Growing, OneDay
  <2>5. QED  BY <1>1, <2>1, <2>3, <2>4, FillKeeps
<1>4. CASE ReadMinDate
  <2>1. board' = [board EXCEPT !.minDate = MinDate] /\ pc' = "answer"
    BY <1>4 DEF ReadMinDate
  <2>2. MinDate \in Day \cup {NoDate}  BY <1>2, MinDateType
  <2> HIDE DEF BDA, Day, NoDate
  <2>3. /\ board' \in Board /\ board'.listed = board.listed /\ board'.change = board.change
        /\ board'.kind = "notice"
    BY <1>2, <2>1, <2>2 DEF Board
  <2>4. Growing'  BY <2>3 DEF Growing, OneDay
  <2>5. QED  BY <1>1, <2>1, <2>3, <2>4, FillKeeps
<1>5. QED  BY <1>3, <1>4

LEMMA AnswerKeeps ==
  ASSUME BoardInv, WindowInv', Answer
  PROVE  BoardInv'
<1>1. /\ UNCHANGED <<users, sums, today, writes>> /\ pc' = "idle" /\ board' = NoBoard
  BY DEF Answer, Store
<1>2. /\ board'.listed = {} /\ board'.change = [b \in BDA |-> 0]
      /\ board'.kind = "leaderboard"
  BY <1>1 DEF NoBoard
<1>3. TypeOK'  BY <1>1, NoBoardType DEF BoardInv, TypeOK
<1>4. ChangesCancel'  BY <1>2, NothingChanges DEF ChangesCancel
<1>5. Growing'  BY <1>2 DEF Growing, OneDay
<1>6. QED  BY <1>1, <1>2, <1>3, <1>4, <1>5 DEF BoardInv

LEMMA NextBoardInv == BoardInv /\ [Next]_vars => BoardInv'
<1> SUFFICES ASSUME BoardInv, [Next]_vars PROVE BoardInv'  OBVIOUS
<1>0. WindowInv'  BY WindowStep, BoardsAssumption DEF BoardInv
<1>a. today \in Day  BY DEF BoardInv, TypeOK
<1>1. ASSUME NEW b \in BDA, NEW d \in Day, WinLead(b, d) \/ DropLead(b, d) \/ Call(b, d)
      PROVE  BoardInv'
  BY <1>0, <1>1, RecordsAreTotals, RecordKeeps DEF WinLead, DropLead, Call
<1>2. ASSUME NEW b \in BDA, LogIn(b) PROVE BoardInv'
  BY <1>0, <1>a, <1>2, RecordsAreTotals, RecordKeeps DEF LogIn
<1>3. CASE Midnight \/ \E b \in BDA : CreateBDA(b)
  BY <1>0, <1>3, OthersKeep
<1>4. ASSUME NEW n \in RangeDays, AskBoard(n) \/ AskTeam(n) PROVE BoardInv'
  BY <1>0, <1>4, BeginKeeps
<1>5. CASE AskNotice  BY <1>0, <1>5, BeginKeeps
<1>6. CASE ReadTile \/ ReadPeriod \/ ReadWindow  BY <1>0, <1>6, ReadKeeps
<1>7. CASE RankWindow  BY <1>0, <1>7, RankWindowKeeps
<1>8. CASE ReadPreviousWindow \/ RankPreviousWindow  BY <1>0, <1>8, PreviousKeeps
<1>9. CASE RankQuarter  BY <1>0, <1>9, QuarterKeeps
<1>10. CASE ReadMonths \/ ReadMinDate  BY <1>0, <1>10, NoticeKeeps
<1>11. CASE Answer  BY <1>0, <1>11, AnswerKeeps
<1>12. CASE UNCHANGED vars
  BY <1>12 DEF vars, BoardInv, TypeOK, WindowInv, BoardShape, ClockOrder, PcOK, ChangesCancel,
               Growing, OneDay
<1>13. QED
  BY <1>1, <1>2, <1>3, <1>4, <1>5, <1>6, <1>7, <1>8, <1>9, <1>10, <1>11, <1>12 DEF Next

\* The inductive invariant, for any number of associates and records and any calendar.
THEOREM BoardInvariant == Spec => []BoardInv
<1>1. QED  BY InitBoardInv, NextBoardInv, PTL DEF Spec

\* Every answer has the type of its fields: each place is one of as many as there are
\* associates (rank), each total is made of counts (AggregateByBDA, AggregateByDate).
THEOREM BoardTypes == Spec => []TypeOK
<1>1. BoardInv => TypeOK  BY DEF BoardInv
<1>2. QED  BY <1>1, BoardInvariant, PTL

\* Both windows of a board rank the same associates, so the places won and lost cancel,
\* whoever joins and whatever is recorded between its queries (Service.board).
THEOREM ChangesAlwaysCancel == Spec => []RankChangesCancel
<1>1. BoardInv => RankChangesCancel  BY DEF BoardInv, ChangesCancel, RankChangesCancel
<1>2. QED  BY <1>1, BoardInvariant, PTL

\* The figures of a team overview cover one another in the order they are read, on one
\* day and if nobody joined (Service.TeamOverview).
THEOREM TeamFiguresAlwaysGrow == Spec => []TeamFiguresGrow
<1>1. BoardInv => TeamFiguresGrow  BY DEF BoardInv, Growing, OneDay, TeamFiguresGrow
<1>2. QED  BY <1>1, BoardInvariant, PTL

-----------------------------------------------------------------------------
(* Records and places.                                                     *)

\* A record moves the place of its associate alone, and the way it is better or worse.
LEMMA RecordRanks ==
  ASSUME SumsOK, NEW b \in BDA, NEW d \in Day, NEW inc \in Totals, Record(b, d, inc),
         NEW n \in Nat
  PROVE  /\ inc.points >= 0 /\ inc.dropped = 0 =>
              Ranks(n, today, users)'[b] <= Ranks(n, today, users)[b]
         /\ inc.points < 0 =>
              Ranks(n, today, users)'[b] >= Ranks(n, today, users)[b]
<1> DEFINE from == FirstDay(n, today)
           t    == TotalsOver(from, today)
           t1   == [c \in BDA |-> SumOf(Restrict(sums', {k \in DOMAIN sums' :
                                          k[1] = c /\ from <= k[2] /\ k[2] <= today}))]
           i    == IF from <= d /\ d <= today THEN inc ELSE Zero
<1>1. /\ b \in users /\ UNCHANGED <<users, today>> /\ SumsOK' /\ users \subseteq BDA
      /\ users \subseteq Int /\ IsFiniteSet(users) /\ today \in Nat
  <2>1. Day \subseteq Nat /\ BDA \subseteq Int
    BY BoardsAssumption DEF Day, BDA, BoardsAssumption
  <2>2. IsFiniteSet(users)  BY FinitelyManyRollups DEF SumsOK
  <2>3. QED  BY <2>1, <2>2, RecordType DEF Record, SumsOK
<1>2. from \in Int /\ today \in Int  BY <1>1, FirstDayIsEarlier
<1>3. t1 = TotalsOver(from, today)'
  <2>1. TotalsOver(from, today)'
          = [c \in BDA |-> SumOf(Restrict(sums', {k \in DOMAIN sums' :
                             k[1] = c /\ FirstDay(n, today') <= k[2] /\ k[2] <= today'}))]
    BY DEF TotalsOver
  <2>2. today' = today  BY <1>1
  <2>3. QED  BY <2>1, <2>2
<1>4. /\ Ranks(n, today, users)[b] = RankOf(t, users, b)
      /\ Ranks(n, today, users)'[b] = RankOf(t1, users, b)
  <2>1. Ranks(n, today, users)[b] = RankOf(t, users, b)
    BY <1>1 DEF Ranks
  <2>2. Ranks(n, today, users)'
          = [c \in BDA |-> IF c \in users' THEN RankOf(TotalsOver(from, today)', users', c) ELSE 0]
    BY DEF Ranks
  <2> HIDE DEF t1
  <2>3. QED  BY <1>1, <1>3, <2>1, <2>2
<1>5. t \in [BDA -> Totals]  BY <1>2, TotalsOverType
<1>6. t1 \in [BDA -> Totals]
  <2>1. ASSUME NEW c \in BDA
        PROVE  SumOf(Restrict(sums', {k \in DOMAIN sums' :
                                        k[1] = c /\ from <= k[2] /\ k[2] <= today})) \in Totals
    <3> DEFINE K == {k \in DOMAIN sums' : k[1] = c /\ from <= k[2] /\ k[2] <= today}
    <3>1. K \subseteq DOMAIN sums' /\ IsFiniteSet(DOMAIN sums')
          /\ sums' \in [DOMAIN sums' -> Totals]
      BY RecordType
    <3>2. IsFiniteSet(K)  BY <3>1, FS_Subset
    <3>3. Restrict(sums', K) \in [K -> Totals]  BY <3>1 DEF Restrict
    <3> HIDE DEF K
    <3>4. SumOf(Restrict(sums', K)) \in Totals  BY <3>2, <3>3, SumOfType
    <3>5. QED  BY <3>4 DEF K
  <2> HIDE DEF BDA
  <2>2. QED  BY <2>1
<1>7. \A c \in BDA, figure \in Figures :
        t1[c][figure] = t[c][figure]
                        + (IF c = b /\ from <= d /\ d <= today THEN inc[figure] ELSE 0)
  <2>1. ASSUME NEW c \in BDA, NEW figure \in Figures
        PROVE  TotalsOver(from, today)'[c][figure]
                 = t[c][figure] + (IF c = b /\ from <= d /\ d <= today THEN inc[figure] ELSE 0)
    <3>1. \A x \in Int, y \in Int : TotalsOver(x, y)'[c][figure]
            = TotalsOver(x, y)[c][figure] + (IF c = b /\ x <= d /\ d <= y THEN inc[figure] ELSE 0)
      BY <1>1, RecordAdds
    <3>2. QED  BY <1>1, <1>2, <3>1
  <2> HIDE DEF t1, t
  <2>2. QED  BY <1>3, <2>1
<1> HIDE DEF t, t1, from
<1>8. \A c \in users \ {b} : t1[c] = t[c]
  <2>1. ASSUME NEW c \in users \ {b} PROVE t1[c] = t[c]
    <3>1. c \in BDA /\ t1[c] \in Totals /\ t[c] \in Totals  BY <1>1, <1>5, <1>6
    <3>2. \A figure \in Figures : t1[c][figure] = t[c][figure] + 0  BY <1>7, <3>1
    <3>3. t1[c].points = t[c].points /\ t1[c].won = t[c].won
          /\ t1[c].dropped = t[c].dropped /\ t1[c].calls = t[c].calls
      BY <3>1, <3>2 DEF Figures, Totals
    <3>4. QED  BY <3>1, <3>3 DEF Totals
  <2>2. QED  BY <2>1
<1>9. /\ t[b] \in Totals /\ t1[b] \in Totals /\ i \in Totals
      /\ t1[b].points = t[b].points + i.points /\ t1[b].won = t[b].won + i.won
      /\ t1[b].dropped = t[b].dropped + i.dropped /\ t1[b].calls = t[b].calls + i.calls
  BY <1>5, <1>6, <1>7 DEF Figures, Zero, Totals
<1>10. /\ (\A x \in users : t[x] \in Totals) /\ (\A x \in users : t1[x] \in Totals)
       /\ \A c \in users \ {b} : t[c] = t1[c]
  BY <1>1, <1>5, <1>6, <1>8
<1>11. (i.points = 0 /\ i.won = 0 /\ i.dropped = 0 /\ i.calls = 0) \/ i = inc
  BY DEF Zero
<1> HIDE DEF i
<1>12. RankOf(t, users, b) \in Nat /\ RankOf(t1, users, b) \in Nat
  BY <1>1, <1>10, RankIsNat
<1>13. inc.points >= 0 /\ inc.dropped = 0 => RankOf(t1, users, b) <= RankOf(t, users, b)
  <2>1. inc.points >= 0 /\ inc.dropped = 0 => ~Better(t[b], t1[b])
    BY <1>9, <1>11 DEF Better, Totals
  <2>2. QED  BY <1>1, <1>8, <1>10, <2>1, BetterNeverDemotes
<1>14. inc.points < 0 => RankOf(t, users, b) <= RankOf(t1, users, b)
  <2>1. inc.points < 0 => ~Better(t1[b], t[b])
    BY <1>9, <1>11 DEF Better, Totals
  <2>2. QED  BY <1>1, <1>10, <2>1, BetterNeverDemotes
<1>15. QED  BY <1>4, <1>12, <1>13, <1>14

\* What the theorem says of one record.
Effort ==
  \A b \in users, d \in Day : Rollup(b, d)' # Rollup(b, d) =>
    \A n \in RangeDays :
      LET rank == Ranks(n, today, users)[b]
      IN  IF Rollup(b, d).dropped' > Rollup(b, d).dropped
          THEN rank' >= rank ELSE rank' <= rank

LEMMA RecordEffort ==
  ASSUME SumsOK, NEW b \in BDA, NEW d \in Day, NEW inc \in Totals, Record(b, d, inc),
         (inc.points >= 0 /\ inc.dropped = 0) \/ (inc.points < 0 /\ inc.dropped = 1)
  PROVE  Effort
<1> SUFFICES ASSUME NEW c \in users, NEW e \in Day, Rollup(c, e)' # Rollup(c, e),
                    NEW n \in RangeDays
             PROVE  IF Rollup(c, e).dropped' > Rollup(c, e).dropped
                    THEN Ranks(n, today, users)[c]' >= Ranks(n, today, users)[c]
                    ELSE Ranks(n, today, users)[c]' <= Ranks(n, today, users)[c]
  BY DEF Effort
<1>1. sums' = [j \in DOMAIN sums \cup {<<b, d>>} |->
                 IF j = <<b, d>> THEN Plus(Rollup(b, d), inc) ELSE sums[j]]
  BY DEF Record
<1>2. c = b /\ e = d
  <2>1. CASE <<c, e>> = <<b, d>>  BY <2>1
  <2>2. CASE <<c, e>> # <<b, d>>
    <3>1. <<c, e>> \in DOMAIN sums' <=> <<c, e>> \in DOMAIN sums
      BY <1>1, <2>2
    <3>2. <<c, e>> \in DOMAIN sums => sums'[<<c, e>>] = sums[<<c, e>>]
      BY <1>1, <2>2
    <3>3. QED  BY <3>1, <3>2 DEF Rollup
  <2>3. QED  BY <2>1, <2>2
<1>3. Rollup(c, e)' = Plus(Rollup(c, e), inc)
  <2>1. Rollup(c, e)' = sums'[<<b, d>>]  BY <1>1, <1>2 DEF Rollup
  <2>2. QED  BY <1>1, <1>2, <2>1
<1>4. Rollup(c, e) \in Totals
  BY NoBoardType DEF Rollup, SumsOK
<1>5. Rollup(c, e).dropped' > Rollup(c, e).dropped <=> inc.dropped = 1
  <2>1. Rollup(c, e)'.dropped = Rollup(c, e).dropped + inc.dropped  BY <1>3 DEF Plus
  <2>2. QED  BY <1>4, <2>1 DEF Totals
<1>6. n \in Nat  BY BoardsAssumption DEF BoardsAssumption
<1>7. /\ inc.points >= 0 /\ inc.dropped = 0 =>
           Ranks(n, today, users)'[c] <= Ranks(n, today, users)[c]
      /\ inc.points < 0 =>
           Ranks(n, today, users)'[c] >= Ranks(n, today, users)[c]
  BY <1>2, <1>6, RecordRanks
<1>8. QED  BY <1>5, <1>7 DEF Totals

LEMMA StepEffort == BoardInv /\ [Next]_vars => [pc = "idle" => Effort]_sums
<1> SUFFICES ASSUME BoardInv, [Next]_vars, sums' # sums PROVE Effort
  OBVIOUS
<1>1. SumsOK /\ today \in Day  BY InvSums DEF SumsOK
<1>2. ASSUME NEW b \in BDA, NEW d \in Day, WinLead(b, d) \/ DropLead(b, d) \/ Call(b, d)
      PROVE  Effort
  <2>1. CASE WinLead(b, d)
    <3> DEFINE i == [Zero EXCEPT !.points = 50, !.won = 1]
    <3>1. i \in Totals /\ i.points >= 0 /\ i.dropped = 0  BY RecordsAreTotals
    <3>2. Record(b, d, i)  BY <2>1 DEF WinLead
    <3> HIDE DEF i
    <3>3. QED  BY <1>1, <3>1, <3>2, RecordEffort
  <2>2. CASE DropLead(b, d)
    <3> DEFINE i == [Zero EXCEPT !.points = -50, !.dropped = 1]
    <3>1. i \in Totals /\ i.points < 0 /\ i.dropped = 1  BY RecordsAreTotals
    <3>2. Record(b, d, i)  BY <2>2 DEF DropLead
    <3> HIDE DEF i
    <3>3. QED  BY <1>1, <3>1, <3>2, RecordEffort
  <2>3. CASE Call(b, d)
    <3> DEFINE i == [Zero EXCEPT !.calls = 1]
    <3>1. i \in Totals /\ i.points >= 0 /\ i.dropped = 0  BY RecordsAreTotals
    <3>2. Record(b, d, i)  BY <2>3 DEF Call
    <3> HIDE DEF i
    <3>3. QED  BY <1>1, <3>1, <3>2, RecordEffort
  <2>4. QED  BY <1>2, <2>1, <2>2, <2>3
<1>3. ASSUME NEW b \in BDA, LogIn(b) PROVE Effort
  <2> DEFINE i == [Zero EXCEPT !.points = 10]
  <2>1. i \in Totals /\ i.points >= 0 /\ i.dropped = 0  BY RecordsAreTotals
  <2>2. Record(b, today, i)  BY <1>3 DEF LogIn
  <2> HIDE DEF i
  <2>3. QED  BY <1>1, <2>1, <2>2, RecordEffort
<1>4. CASE Midnight \/ \E b \in BDA : CreateBDA(b)
  BY <1>4 DEF Midnight, CreateBDA
<1>5. CASE AskNotice \/ \E n \in RangeDays : AskBoard(n) \/ AskTeam(n)
  BY <1>5 DEF AskNotice, AskBoard, AskTeam, Begin, Store
<1>6. CASE \/ ReadTile \/ ReadPeriod \/ ReadWindow \/ RankWindow \/ ReadPreviousWindow
           \/ RankPreviousWindow \/ RankQuarter \/ ReadMonths \/ ReadMinDate \/ Answer
  BY <1>6 DEF ReadTile, ReadPeriod, ReadWindow, RankWindow, ReadPreviousWindow,
              RankPreviousWindow, RankQuarter, ReadMonths, ReadMinDate, Answer, Store
<1>7. CASE UNCHANGED vars  BY <1>7 DEF vars
<1>8. QED  BY <1>2, <1>3, <1>4, <1>5, <1>6, <1>7 DEF Next

\* Winning a lead, calling or logging in never costs an associate a place on a board of
\* any range, and dropping a lead never gains one (the order of rank, the $inc of the
\* rollups).
THEOREM EffortIsNeverPunished == Spec => EffortNeverDemotes
<1>1. BoardInv /\ [Next]_vars => [pc = "idle" => Effort]_sums  BY StepEffort
<1>2. QED  BY <1>1, BoardInvariant, PTL DEF Spec, EffortNeverDemotes, Effort

-----------------------------------------------------------------------------
(* Months and quarters.                                                    *)

\* The days of a month, and those of the months of a quarter.
LEMMA DaysOfMonth ==
  ASSUME NEW d \in Nat, NEW m \in Nat
  PROVE  MonthOf(d) = m <=> m * MonthDays <= d /\ d <= (m + 1) * MonthDays - 1
<1> DEFINE n == d \div MonthDays
           r == d % MonthDays
<1>1. MonthDays \in Nat /\ MonthDays > 0  BY BoardsAssumption DEF BoardsAssumption
<1>2. n \in Nat /\ r \in Nat /\ r < MonthDays /\ d = MonthDays * n + r
  BY <1>1
<1>3. MonthOf(d) = n  BY DEF MonthOf
<1> HIDE DEF n, r
<1>4. CASE n = m
  <2>1. m * MonthDays = MonthDays * n /\ (m + 1) * MonthDays = MonthDays * n + MonthDays
        /\ MonthDays * n \in Nat
    BY <1>1, <1>2, <1>4
  <2>2. QED  BY <1>1, <1>2, <1>3, <1>4, <2>1
<1>5. CASE n < m
  <2>1. MonthDays * n + MonthDays <= m * MonthDays /\ MonthDays * n \in Nat
        /\ m * MonthDays \in Nat
    BY <1>1, <1>2, <1>5
  <2>2. QED  BY <1>1, <1>2, <1>3, <1>5, <2>1
<1>6. CASE n > m
  <2>1. (m + 1) * MonthDays <= MonthDays * n /\ MonthDays * n \in Nat
        /\ (m + 1) * MonthDays \in Nat
    BY <1>1, <1>2, <1>6
  <2>2. QED  BY <1>1, <1>2, <1>3, <1>6, <2>1
<1>7. QED  BY <1>2, <1>4, <1>5, <1>6

LEMMA DaysOfQuarter ==
  ASSUME NEW d \in Nat, NEW q \in Nat
  PROVE  /\ MonthOf(d) \in Nat /\ MonthOf(d) <= d
         /\ QuarterOf(MonthOf(d)) = q <=> QuarterStart(q) <= d /\ d <= QuarterEnd(q)
<1> DEFINE m == MonthOf(d)
<1>1. MonthDays \in Nat /\ MonthDays > 0  BY BoardsAssumption DEF BoardsAssumption
<1>2. m \in Nat  BY <1>1 DEF MonthOf
<1>3. m * MonthDays <= d /\ d <= (m + 1) * MonthDays - 1
  <2> HIDE DEF m
  <2>1. MonthOf(d) = m  BY DEF m
  <2>2. QED  BY <1>2, <2>1, DaysOfMonth
<1> HIDE DEF m
<1>4. m <= d
  <2>1. m <= m * MonthDays /\ m * MonthDays \in Nat  BY <1>1, <1>2
  <2>2. QED  BY <1>2, <1>3, <2>1
<1>5. QuarterOf(m) = q <=> 3 * q <= m /\ m <= 3 * q + 2
  BY <1>2 DEF QuarterOf
<1> DEFINE lo == 3 * q
           hi == 3 * q + 3
<1>6. lo \in Nat /\ hi \in Nat /\ (QuarterOf(m) = q <=> lo <= m /\ m + 1 <= hi)
  BY <1>2, <1>5
<1>7. QuarterStart(q) = lo * MonthDays /\ QuarterEnd(q) = hi * MonthDays - 1
  BY <1>1 DEF QuarterStart, QuarterEnd
<1> HIDE DEF lo, hi
<1>8. lo <= m => lo * MonthDays <= m * MonthDays
  BY <1>1, <1>2, <1>6
<1>9. m < lo => (m + 1) * MonthDays <= lo * MonthDays
  BY <1>1, <1>2, <1>6
<1>10. m + 1 <= hi => (m + 1) * MonthDays <= hi * MonthDays
  BY <1>1, <1>2, <1>6
<1>11. hi <= m => hi * MonthDays <= m * MonthDays
  BY <1>1, <1>2, <1>6
<1>12. /\ lo * MonthDays \in Nat /\ hi * MonthDays \in Nat
       /\ m * MonthDays \in Nat /\ (m + 1) * MonthDays \in Nat
  BY <1>1, <1>2, <1>6
<1>13. (lo <= m /\ m + 1 <= hi) <=> QuarterStart(q) <= d /\ d <= QuarterEnd(q)
  <2>1. CASE lo <= m /\ m + 1 <= hi
    BY <1>3, <1>7, <1>8, <1>10, <1>12, <2>1
  <2>2. CASE m < lo
    BY <1>2, <1>3, <1>6, <1>7, <1>9, <1>12, <2>2
  <2>3. CASE hi <= m
    BY <1>2, <1>3, <1>6, <1>7, <1>11, <1>12, <2>3
  <2>4. QED  BY <1>2, <1>6, <2>1, <2>2, <2>3
<1>14. QED  BY <1>2, <1>4, <1>6, <1>13 DEF m

\* The days of a query that ends on the last day of some and not after another.
LEMMA UpToBoth ==
  ASSUME NEW a \in Int, NEW b \in Int, NEW d \in Int
  PROVE  d <= Min({a, b}) <=> d <= a /\ d <= b
<1>1. Min({a, b}) \in {a, b}
  <2>1. \E x \in {a, b} : \A y \in {a, b} : x <= y
    <3>1. CASE a <= b  BY <3>1
    <3>2. CASE b <= a  BY <3>2
    <3>3. QED  BY <3>1, <3>2
  <2>2. QED  BY <2>1 DEF Min
<1>2. Min({a, b}) <= a /\ Min({a, b}) <= b  BY MinOfTwo
<1>3. QED  BY <1>1, <1>2

\* The months of a quarter, as NoticeBoard folds them.
MonthsOf(q) == {n \in 0 .. MaxDay : QuarterOf(n) = q}

\* A quarter folded from months is the direct query over its days.
LEMMA QuarterIsItsMonths ==
  ASSUME SumsOK, NEW q \in Nat, NEW to \in Day
  PROVE  QuarterTotals(MonthsTo(to), q)
           = TotalsOver(QuarterStart(q), Min({QuarterEnd(q), to}))
<1> DEFINE months == MonthsTo(to)
           last == Min({QuarterEnd(q), to})
           direct == TotalsOver(QuarterStart(q), last)
           folded(b) == [m \in MonthsOf(q) |-> months[m][b]]
<1>1. /\ MonthDays \in Nat /\ MonthDays > 0 /\ MaxDay \in Nat
      /\ to \in Nat /\ to <= MaxDay
      /\ QuarterStart(q) \in Int /\ QuarterEnd(q) \in Int
  <2>1. MonthDays \in Nat /\ MonthDays > 0 /\ MaxDay \in Nat
    BY BoardsAssumption DEF BoardsAssumption
  <2>2. QED  BY <2>1 DEF Day, QuarterStart, QuarterEnd
<1>2. last \in Int /\ \A d \in Nat : d <= last <=> d <= QuarterEnd(q) /\ d <= to
  <2> DEFINE end == QuarterEnd(q)
  <2>1. end \in Int /\ to \in Int  BY <1>1
  <2> HIDE DEF end
  <2>2. Min({end, to}) \in Int  BY <2>1, MinOfTwo
  <2>3. \A d \in Nat : d <= Min({end, to}) <=> d <= end /\ d <= to
    BY <2>1, UpToBoth
  <2>4. QED  BY <2>2, <2>3 DEF end
<1>3. \A d \in Nat, m \in Nat :
        d <= Min({(m + 1) * MonthDays - 1, to}) <=> d <= (m + 1) * MonthDays - 1 /\ d <= to
  BY <1>1, UpToBoth
<1>4. /\ months \in [0 .. MaxDay -> [BDA -> Totals]]
      /\ direct \in [BDA -> Totals]
      /\ IsFiniteSet(MonthsOf(q)) /\ MonthsOf(q) \subseteq 0 .. MaxDay
  <2>1. IsFiniteSet(0 .. MaxDay)  BY <1>1, FS_Interval
  <2>2. MonthsOf(q) \subseteq 0 .. MaxDay  BY DEF MonthsOf
  <2>3. months \in [0 .. MaxDay -> [BDA -> Totals]]  BY <1>1, MonthsType
  <2>4. direct \in [BDA -> Totals]
    <3> HIDE DEF last
    <3>1. QED  BY <1>1, <1>2, TotalsOverType
  <2>5. QED  BY <2>1, <2>2, <2>3, <2>4, FS_Subset
<1>5. ASSUME NEW b \in BDA
      PROVE  /\ SumOf(folded(b)) \in Totals
             /\ \A figure \in Figures : SumOf(folded(b))[figure] = direct[b][figure]
  <2>1. folded(b) \in [MonthsOf(q) -> Totals]
    <3> HIDE DEF months, BDA
    <3>1. QED  BY <1>4
  <2>2. SumOf(folded(b)) \in Totals
    <3> HIDE DEF folded
    <3>1. QED  BY <1>4, <2>1, SumOfType
  <2>3. ASSUME NEW figure \in Figures
        PROVE  SumOf(folded(b))[figure] = direct[b][figure]
    <3> DEFINE f == Figure(sums, figure)
               total == [m \in MonthsOf(q) |-> folded(b)[m][figure]]
               I == Keys(b, 0, to)
               group == [k \in I |-> MonthOf(k[2])]
    <3>1. SumOf(folded(b))[figure] = SumFunctionOnSet(total, MonthsOf(q))
      BY DEF SumOf, SumFunction, Figures
    <3>2. direct[b][figure] = SumFunctionOnSet(f, Keys(b, QuarterStart(q), last))
      <4> HIDE DEF last
      <4>1. QED  BY <1>1, <1>2, TotalsOverType
    <3>3. /\ IsFiniteSet(I) /\ I \subseteq DOMAIN sums
          /\ \A x \in I : f[x] \in Int /\ x[2] \in Nat /\ x[2] <= to
      <4>1. I \subseteq DOMAIN sums  BY DEF Keys
      <4>2. Day \subseteq Nat  BY <1>1 DEF Day
      <4>3. \A x \in I : x[2] \in Nat /\ x[2] <= to  BY <4>2 DEF Keys, SumsOK
      <4>4. \A x \in I : f[x] \in Int
        <5>1. sums \in [DOMAIN sums -> Totals]  BY DEF SumsOK
        <5> HIDE DEF I
        <5>2. QED  BY <4>1, <5>1, FigureType
      <4>5. QED  BY <4>1, <4>3, <4>4, FinitelyManyRollups
    <3>4. ASSUME NEW m \in MonthsOf(q)
          PROVE  total[m] = SumFunctionOnSet(f, GroupOf(group, I, m))
      <4> DEFINE first == m * MonthDays
                 end   == Min({(m + 1) * MonthDays - 1, to})
      <4>1. m \in Nat /\ m \in 0 .. MaxDay  BY <1>1, <1>4
      <4>2. first \in Int /\ end \in Int /\ first >= 0
        <5>1. first \in Int /\ first >= 0 /\ (m + 1) * MonthDays - 1 \in Int  BY <1>1, <4>1
        <5>2. end \in Int
          <6> DEFINE e == (m + 1) * MonthDays - 1
          <6>1. e \in Int /\ to \in Int  BY <1>1, <5>1
          <6> HIDE DEF e
          <6>2. Min({e, to}) \in Int  BY <6>1, MinOfTwo
          <6>3. QED  BY <6>2 DEF e
        <5>3. QED  BY <5>1, <5>2
      <4>3. total[m] = TotalsOver(first, end)[b][figure]
        <5>1. months[m] = TotalsOver(first, end)  BY <4>1 DEF MonthsTo
        <5> HIDE DEF months, first, end
        <5>2. QED  BY <5>1
      <4>4. TotalsOver(first, end)[b][figure] = SumFunctionOnSet(f, Keys(b, first, end))
        <5> HIDE DEF first, end
        <5>1. QED  BY <4>2, TotalsOverType
      <4>5. GroupOf(group, I, m) = Keys(b, first, end)
        <5>1. ASSUME NEW k \in DOMAIN sums
              PROVE  k \in I /\ MonthOf(k[2]) = m <=> k \in Keys(b, first, end)
          <6>1. k[2] \in Nat
            <7>1. Day \subseteq Nat  BY <1>1 DEF Day
            <7>2. QED  BY <7>1 DEF SumsOK
          <6>2. k[2] <= end <=> k[2] <= (m + 1) * MonthDays - 1 /\ k[2] <= to
            BY <1>3, <4>1, <6>1
          <6>3. MonthOf(k[2]) = m <=> first <= k[2] /\ k[2] <= (m + 1) * MonthDays - 1
            BY <4>1, <6>1, DaysOfMonth
          <6> HIDE DEF first, end
          <6>4. QED  BY <6>1, <6>2, <6>3 DEF Keys
        <5>2. Keys(b, first, end) \subseteq DOMAIN sums  BY DEF Keys
        <5>3. GroupOf(group, I, m) = {k \in I : MonthOf(k[2]) = m}  BY DEF GroupOf
        <5> HIDE DEF I, group, first, end
        <5>4. QED  BY <3>3, <5>1, <5>2, <5>3
      <4> HIDE DEF total, f, I, group, first, end
      <4>6. QED  BY <4>3, <4>4, <4>5
    <3>5. GroupsOf(group, I, MonthsOf(q)) = Keys(b, QuarterStart(q), last)
      <4>1. ASSUME NEW k \in DOMAIN sums
            PROVE  k \in I /\ MonthOf(k[2]) \in MonthsOf(q)
                     <=> k \in Keys(b, QuarterStart(q), last)
        <5>1. k[2] \in Nat
          <6>1. Day \subseteq Nat  BY <1>1 DEF Day
          <6>2. QED  BY <6>1 DEF SumsOK
        <5>2. k[2] <= last <=> k[2] <= QuarterEnd(q) /\ k[2] <= to
          BY <1>2, <5>1
        <5>3. /\ MonthOf(k[2]) \in Nat /\ MonthOf(k[2]) <= k[2]
              /\ QuarterOf(MonthOf(k[2])) = q
                   <=> QuarterStart(q) <= k[2] /\ k[2] <= QuarterEnd(q)
          BY <5>1, DaysOfQuarter
        <5>4. k[2] <= to => MonthOf(k[2]) \in 0 .. MaxDay
          BY <1>1, <5>1, <5>3
        <5> HIDE DEF last
        <5>5. QED  BY <5>1, <5>2, <5>3, <5>4 DEF Keys, MonthsOf
      <4>2. Keys(b, QuarterStart(q), last) \subseteq DOMAIN sums  BY DEF Keys
      <4>3. GroupsOf(group, I, MonthsOf(q)) = {k \in I : MonthOf(k[2]) \in MonthsOf(q)}
        BY DEF GroupsOf
      <4> HIDE DEF I, group, last
      <4>4. QED  BY <3>3, <4>1, <4>2, <4>3
    <3> HIDE DEF f, total, I, group, folded, direct, last
    <3>6. SumFunctionOnSet(total, MonthsOf(q))
            = SumFunctionOnSet(f, GroupsOf(group, I, MonthsOf(q)))
      BY <1>4, <3>3, <3>4, SumOfGroups
    <3>7. QED  BY <3>1, <3>2, <3>5, <3>6
  <2>4. QED  BY <2>2, <2>3
<1>6. ASSUME NEW b \in BDA PROVE SumOf(folded(b)) = direct[b]
  <2> HIDE DEF folded, direct
  <2>1. SumOf(folded(b)) \in Totals /\ direct[b] \in Totals  BY <1>4, <1>5
  <2>2. \A figure \in Figures : SumOf(folded(b))[figure] = direct[b][figure]  BY <1>5
  <2>3. QED  BY <2>1, <2>2 DEF Totals, Figures
<1>7. DOMAIN months = 0 .. MaxDay  BY DEF MonthsTo
<1>8. QuarterTotals(months, q) = [b \in BDA |-> SumOf(folded(b))]
  BY <1>7 DEF QuarterTotals, MonthsOf
<1> HIDE DEF folded, direct, months
<1>9. QED  BY <1>4, <1>6, <1>8 DEF direct, months, last

\* Leaving out of a ranked list those who have nothing to show and numbering the rest
\* again gives each its place among the rest.
LEMMA PlacesAmongScored ==
  ASSUME NEW us, us \subseteq BDA, NEW totals \in [BDA -> Totals]
  PROVE  NoticePlaces(us, totals)
           = [b \in Scored(totals, us) |-> RankOf(totals, Scored(totals, us), b)]
<1> DEFINE scored == Scored(totals, us)
<1>1. scored \subseteq us /\ scored \subseteq BDA /\ scored \subseteq Int /\ IsFiniteSet(scored)
  <2>1. scored \subseteq us  BY DEF Scored
  <2>2. BDA \subseteq Int /\ IsFiniteSet(BDA)
    BY BoardsAssumption, FS_Interval DEF BDA, BoardsAssumption
  <2> HIDE DEF scored
  <2>3. QED  BY <2>1, <2>2, FS_Subset
<1>2. \A x \in scored : totals[x] \in Totals  BY <1>1
<1>3. NoticePlaces(us, totals)
        = [b \in scored |-> Cardinality({c \in scored : ~Before(totals, b, c)})]
  BY DEF NoticePlaces
<1> HIDE DEF scored
<1>4. ASSUME NEW b \in scored
      PROVE  Cardinality({c \in scored : ~Before(totals, b, c)}) = RankOf(totals, scored, b)
  <2> DEFINE Ahead == {c \in scored : Before(totals, c, b)}
  <2>1. \A c \in scored : ~Before(totals, b, c) <=> c = b \/ Before(totals, c, b)
    <3>1. ~Before(totals, b, b)  BY <1>1, <1>2, BeforeIsStrict
    <3>2. ASSUME NEW c \in scored, c # b
          PROVE  ~Before(totals, b, c) <=> Before(totals, c, b)
      <4>1. Before(totals, b, c) \/ Before(totals, c, b)
        BY <1>1, <1>2, <3>2, BeforeIsTotal
      <4>2. ~(Before(totals, b, c) /\ Before(totals, c, b))
        BY <1>1, <1>2, <3>1, BeforeIsTransitive
      <4>3. QED  BY <4>1, <4>2
    <3>3. QED  BY <3>1, <3>2
  <2>2. {c \in scored : ~Before(totals, b, c)} = Ahead \cup {b} /\ b \notin Ahead
    <3>1. ~Before(totals, b, b)  BY <1>1, <1>2, BeforeIsStrict
    <3>2. QED  BY <2>1, <3>1
  <2>3. IsFiniteSet(Ahead)  BY <1>1, FS_Subset
  <2>4. Cardinality(Ahead) \in Nat  BY <2>3, FS_CardinalityType
  <2>5. RankOf(totals, scored, b) = 1 + Cardinality(Ahead)  BY DEF RankOf
  <2> HIDE DEF Ahead
  <2>6. Cardinality(Ahead \cup {b}) = Cardinality(Ahead) + 1
    BY <2>2, <2>3, FS_AddElement
  <2>7. QED  BY <2>2, <2>4, <2>5, <2>6
<1>5. QED  BY <1>3, <1>4 DEF scored

\* A cycle of the notice board, folded from months, ranks whom it shows as the direct
\* query over its days does (NoticeBoard and quarterBoard).
THEOREM CyclesAlwaysMatch == Spec => []CyclesMatchQuarters
<1>1. BoardInv => CyclesMatchQuarters
  <2> SUFFICES ASSUME BoardInv, pc = "answer", board.kind = "notice", board.listed = users,
                      board.months = MonthsTo(board.to),
                      NEW q \in DOMAIN NoticeCycles(board.listed, board.months, board.to,
                                                    board.minDate)
               PROVE  LET totals == TotalsOver(QuarterStart(q), Min({QuarterEnd(q), board.to}))
                          shown  == Scored(totals, users)
                      IN  NoticeCycles(board.listed, board.months, board.to, board.minDate)[q]
                            = [b \in shown |-> RankOf(totals, shown, b)]
    BY DEF CyclesMatchQuarters
  <2> DEFINE totals == QuarterTotals(board.months, q)
  <2>1. SumsOK /\ board.to \in Day /\ users \subseteq BDA
    BY InvSums DEF BoardInv, TypeOK, Board
  <2>2. /\ q \in 0 .. QuarterOf(MonthOf(board.to))
        /\ NoticeCycles(board.listed, board.months, board.to, board.minDate)[q]
             = NoticePlaces(users, totals)
    BY DEF NoticeCycles
  <2>3. q \in Nat
    <3>1. QuarterOf(MonthOf(board.to)) \in Int
      <4>1. board.to \in Nat  BY <2>1, BoardsAssumption DEF Day, BoardsAssumption
      <4>2. MonthOf(board.to) \in Nat  BY <4>1, BoardsAssumption DEF MonthOf, BoardsAssumption
      <4>3. QED  BY <4>2 DEF QuarterOf
    <3>2. QED  BY <2>2, <3>1
  <2>4. totals = TotalsOver(QuarterStart(q), Min({QuarterEnd(q), board.to}))
    BY <2>1, <2>3, QuarterIsItsMonths
  <2>5. totals \in [BDA -> Totals]
    <3>1. QuarterStart(q) \in Int /\ QuarterEnd(q) \in Int /\ board.to \in Int
      BY <2>1, <2>3, BoardsAssumption
         DEF QuarterStart, QuarterEnd, Day, BoardsAssumption
    <3>2. Min({QuarterEnd(q), board.to}) \in Int
      <4> DEFINE e == QuarterEnd(q)
      <4>1. e \in Int  BY <3>1
      <4> HIDE DEF e
      <4>2. Min({e, board.to}) \in Int  BY <3>1, <4>1, MinOfTwo
      <4>3. QED  BY <4>2 DEF e
    <3> HIDE DEF totals
    <3>3. QED  BY <2>1, <2>4, <3>1, <3>2, TotalsOverType
  <2> HIDE DEF totals
  <2>6. NoticePlaces(users, totals)
          = [b \in Scored(totals, users) |-> RankOf(totals, Scored(totals, users), b)]
    BY <2>1, <2>5, PlacesAmongScored
  <2>7. QED  BY <2>2, <2>4, <2>6
<1>2. QED  BY <1>1, BoardInvariant, PTL

-----------------------------------------------------------------------------
(* Closed cycles.                                                          *)

\* The totals of the whole quarter q.
Closed(q) == TotalsOver(QuarterStart(q), QuarterEnd(q))

\* On any day after it a quarter's months fold into its totals, ...
ClosedFold ==
  \A q \in Nat : QuarterEnd(q) < today => QuarterTotals(MonthsTo(today), q) = Closed(q)

\* ... which are nothing for who is not registered.
ClosedTotals ==
  \A q \in Nat : /\ Closed(q) \in [BDA -> Totals]
                 /\ \A b \in BDA \ users : Scored(Closed(q), {b}) = {}

LEMMA ClosedFolds == SumsOK => ClosedFold /\ ClosedTotals
<1> SUFFICES ASSUME SumsOK PROVE ClosedFold /\ ClosedTotals  OBVIOUS
<1>1. ASSUME NEW q \in Nat, QuarterEnd(q) < today
      PROVE  QuarterTotals(MonthsTo(today), q) = Closed(q)
  <2> DEFINE e == QuarterEnd(q)
  <2>1. today \in Day /\ today \in Int /\ e \in Int /\ e < today
    BY <1>1, BoardsAssumption
       DEF SumsOK, Day, QuarterStart, QuarterEnd, BoardsAssumption
  <2>2. QuarterTotals(MonthsTo(today), q) = TotalsOver(QuarterStart(q), Min({e, today}))
    BY <2>1, QuarterIsItsMonths
  <2> HIDE DEF e
  <2>3. Min({e, today}) = e
    <3>1. Min({e, today}) \in Int /\ Min({e, today}) <= e  BY <2>1, MinOfTwo
    <3>2. e <= Min({e, today})  BY <2>1, UpToBoth
    <3>3. QED  BY <2>1, <3>1, <3>2
  <2>4. QED  BY <2>2, <2>3 DEF Closed, e
<1>2. ASSUME NEW q \in Nat
      PROVE  /\ Closed(q) \in [BDA -> Totals]
             /\ \A b \in BDA \ users : Scored(Closed(q), {b}) = {}
  <2> DEFINE from == QuarterStart(q)
             to   == QuarterEnd(q)
  <2>1. from \in Int /\ to \in Int
    BY BoardsAssumption DEF QuarterStart, QuarterEnd, BoardsAssumption
  <2>2. Closed(q) = TotalsOver(from, to)  BY DEF Closed
  <2> HIDE DEF from, to
  <2>3. /\ TotalsOver(from, to) \in [BDA -> Totals]
        /\ \A b \in BDA, figure \in Figures :
             TotalsOver(from, to)[b][figure]
               = SumFunctionOnSet(Figure(sums, figure), Keys(b, from, to))
    BY <2>1, TotalsOverType
  <2>4. ASSUME NEW b \in BDA \ users PROVE Scored(Closed(q), {b}) = {}
    <3>1. Keys(b, from, to) = {}  BY DEF Keys, SumsOK
    <3>2. \A figure \in Figures : TotalsOver(from, to)[b][figure] = 0
      <4>1. \A figure \in Figures : SumFunctionOnSet(Figure(sums, figure), {}) = 0
        BY SumOfFew
      <4>2. QED  BY <2>3, <3>1, <4>1
    <3>3. Closed(q)[b].points = 0 /\ Closed(q)[b].calls = 0
      BY <2>2, <3>2 DEF Figures
    <3>4. QED  BY <3>3 DEF Scored
  <2>5. QED  BY <2>2, <2>3, <2>4
<1>3. QED  BY <1>1, <1>2 DEF ClosedFold, ClosedTotals

\* A record changes the rollup of its associate and day, and of no other.
LEMMA RecordChanges ==
  ASSUME SumsOK, NEW b \in BDA, NEW d \in Day, NEW inc \in Totals, Record(b, d, inc),
         inc.points # 0 \/ inc.calls # 0
  PROVE  Rollup(b, d)' # Rollup(b, d)
<1>1. sums' = [j \in DOMAIN sums \cup {<<b, d>>} |->
                 IF j = <<b, d>> THEN Plus(Rollup(b, d), inc) ELSE sums[j]]
  BY DEF Record
<1>2. Rollup(b, d)' = Plus(Rollup(b, d), inc)
  <2>1. Rollup(b, d)' = sums'[<<b, d>>]  BY <1>1 DEF Rollup
  <2>2. QED  BY <1>1, <2>1
<1>3. Rollup(b, d) \in Totals
  BY NoBoardType DEF Rollup, SumsOK
<1>4. QED  BY <1>2, <1>3 DEF Plus, Totals

\* Records of other days leave the totals of a quarter alone.
LEMMA RecordElsewhere ==
  ASSUME SumsOK, NEW b \in BDA, NEW d \in Day, NEW inc \in Totals, Record(b, d, inc),
         inc.points # 0 \/ inc.calls # 0, NEW q \in Nat,
         \A c \in BDA, e \in QuarterStart(q) .. QuarterEnd(q) : Rollup(c, e)' = Rollup(c, e)
  PROVE  Closed(q)' = Closed(q)
<1> DEFINE from == QuarterStart(q)
           to   == QuarterEnd(q)
<1>1. from \in Int /\ to \in Int /\ d \in Int
  BY BoardsAssumption DEF QuarterStart, QuarterEnd, BoardsAssumption, Day
<1>2. ~(from <= d /\ d <= to)
  <2>1. Rollup(b, d)' # Rollup(b, d)  BY RecordChanges
  <2>2. QED  BY <1>1, <2>1
<1>3. SumsOK'  BY RecordType
<1>4. Closed(q) \in [BDA -> Totals] /\ Closed(q)' \in [BDA -> Totals]
  <2>1. ClosedTotals  BY ClosedFolds
  <2>2. SumsOK' => ClosedTotals'  BY ClosedFolds, PTL
  <2>3. QED  BY <1>3, <2>1, <2>2 DEF ClosedTotals
<1>5. ASSUME NEW c \in BDA, NEW figure \in Figures
      PROVE  Closed(q)'[c][figure] = Closed(q)[c][figure]
  <2>1. Closed(q)'[c][figure] = TotalsOver(from, to)'[c][figure]
        /\ Closed(q)[c][figure] = TotalsOver(from, to)[c][figure]
    BY DEF Closed
  <2> HIDE DEF from, to
  <2>2. TotalsOver(from, to)'[c][figure] = TotalsOver(from, to)[c][figure] + 0
    BY <1>1, <1>2, <1>3, RecordAdds
  <2>3. Closed(q)[c][figure] \in Int  BY <1>4 DEF Totals, Figures
  <2>4. QED  BY <2>1, <2>2, <2>3
<1>6. ASSUME NEW c \in BDA PROVE Closed(q)'[c] = Closed(q)[c]
  <2>1. Closed(q)'[c] \in Totals /\ Closed(q)[c] \in Totals  BY <1>4
  <2>2. QED  BY <1>5, <2>1 DEF Totals, Figures
<1>7. QED  BY <1>4, <1>6

\* What a step may do to the store: a record, or no more than somebody joining or a
\* midnight.
LEMMA StoreSteps ==
  ASSUME BoardInv, [Next]_vars
  PROVE  \/ UNCHANGED sums /\ users \subseteq users' /\ today <= today'
         \/ /\ UNCHANGED <<users, today>>
            /\ \E b \in BDA, d \in Day, inc \in Totals :
                 Record(b, d, inc) /\ (inc.points # 0 \/ inc.calls # 0)
<1> DEFINE Rests   == UNCHANGED sums /\ users \subseteq users' /\ today <= today'
           Records == /\ UNCHANGED <<users, today>>
                      /\ \E b \in BDA, d \in Day, inc \in Totals :
                           Record(b, d, inc) /\ (inc.points # 0 \/ inc.calls # 0)
<1>1. today \in Day /\ today \in Nat
  BY BoardsAssumption DEF BoardInv, TypeOK, Day, BoardsAssumption
<1>2. ASSUME NEW b \in BDA, NEW d \in Day, NEW inc \in Totals, Record(b, d, inc),
             inc.points # 0 \/ inc.calls # 0
      PROVE  Records
  BY <1>2 DEF Record
<1>3. ASSUME NEW b \in BDA, NEW d \in Day, WinLead(b, d) \/ DropLead(b, d) \/ Call(b, d)
      PROVE  Records
  <2>1. CASE WinLead(b, d)
    <3> DEFINE i == [Zero EXCEPT !.points = 50, !.won = 1]
    <3>1. i \in Totals /\ i.points # 0  BY RecordsAreTotals
    <3>2. Record(b, d, i)  BY <2>1 DEF WinLead
    <3> HIDE DEF i, Records
    <3>3. QED  BY <1>2, <3>1, <3>2
  <2>2. CASE DropLead(b, d)
    <3> DEFINE i == [Zero EXCEPT !.points = -50, !.dropped = 1]
    <3>1. i \in Totals /\ i.points # 0  BY RecordsAreTotals
    <3>2. Record(b, d, i)  BY <2>2 DEF DropLead
    <3> HIDE DEF i, Records
    <3>3. QED  BY <1>2, <3>1, <3>2
  <2>3. CASE Call(b, d)
    <3> DEFINE i == [Zero EXCEPT !.calls = 1]
    <3>1. i \in Totals /\ i.calls # 0  BY RecordsAreTotals
    <3>2. Record(b, d, i)  BY <2>3 DEF Call
    <3> HIDE DEF i, Records
    <3>3. QED  BY <1>2, <3>1, <3>2
  <2>4. QED  BY <1>3, <2>1, <2>2, <2>3
<1>4. ASSUME NEW b \in BDA, LogIn(b) PROVE Records
  <2> DEFINE i == [Zero EXCEPT !.points = 10]
  <2>1. i \in Totals /\ i.points # 0  BY RecordsAreTotals
  <2>2. Record(b, today, i)  BY <1>4 DEF LogIn
  <2> HIDE DEF i, Records
  <2>3. QED  BY <1>1, <1>2, <2>1, <2>2
<1>5. ASSUME Midnight \/ \E b \in BDA : CreateBDA(b) PROVE Rests
  <2>1. CASE Midnight  BY <1>1, <2>1 DEF Midnight
  <2>2. ASSUME NEW b \in BDA, CreateBDA(b) PROVE Rests
    BY <1>1, <2>2 DEF CreateBDA
  <2>3. QED  BY <1>5, <2>1, <2>2
<1>6. ASSUME AskNotice \/ \E n \in RangeDays : AskBoard(n) \/ AskTeam(n) PROVE Rests
  <2>1. ASSUME NEW kind, NEW first, NEW n, Begin(kind, first, n) PROVE Rests
    BY <1>1, <2>1 DEF Begin, Store
  <2> HIDE DEF Rests
  <2>2. QED  BY <1>6, <2>1 DEF AskNotice, AskBoard, AskTeam
<1>7. ASSUME \/ ReadTile \/ ReadPeriod \/ ReadWindow \/ RankWindow \/ ReadPreviousWindow
             \/ RankPreviousWindow \/ RankQuarter \/ ReadMonths \/ ReadMinDate \/ Answer
      PROVE  Rests
  BY <1>1, <1>7 DEF ReadTile, ReadPeriod, ReadWindow, RankWindow, ReadPreviousWindow,
              RankPreviousWindow, RankQuarter, ReadMonths, ReadMinDate, Answer, Store
<1>8. ASSUME UNCHANGED vars PROVE Rests  BY <1>1, <1>8 DEF vars
<1>9. QED
  <2>1. CASE Rests  BY <2>1
  <2>2. CASE Records  BY <2>2
  <2> HIDE DEF Rests, Records
  <2>3. Rests \/ Records
    BY <1>3, <1>4, <1>5, <1>6, <1>7, <1>8 DEF Next
  <2>4. QED  BY <2>1, <2>2, <2>3

\* The first record moves back at most.
FirstRecord ==
  IF DOMAIN sums = {} THEN MinDate = NoDate
  ELSE MinDate \in Nat /\ (\E k \in DOMAIN sums : k[2] = MinDate)
       /\ \A k \in DOMAIN sums : MinDate <= k[2]

LEMMA FirstRecordIsFirst == SumsOK => FirstRecord
<1> SUFFICES ASSUME SumsOK PROVE FirstRecord  OBVIOUS
<1> DEFINE dates == {k[2] : k \in DOMAIN sums}
<1>1. DOMAIN sums = {} <=> sums = <<>>
  <2>1. sums \in [DOMAIN sums -> Totals]  BY DEF SumsOK
  <2>2. QED  BY <2>1
<1>2. CASE DOMAIN sums = {}  BY <1>1, <1>2 DEF FirstRecord, MinDate
<1>3. CASE DOMAIN sums # {}
  <2>1. dates \in SUBSET Nat /\ dates # {}
    <3>1. Day \subseteq Nat  BY BoardsAssumption DEF Day, BoardsAssumption
    <3>2. QED  BY <1>3, <3>1 DEF SumsOK
  <2>2. MinDate = Min(dates)  BY <1>1, <1>3 DEF MinDate
  <2>3. Min(dates) \in dates /\ \A x \in dates : Min(dates) <= x
    <3> HIDE DEF dates
    <3>1. QED  BY <2>1, MinOfNats
  <2>4. QED  BY <1>3, <2>1, <2>2, <2>3 DEF FirstRecord
<1>4. QED  BY <1>2, <1>3

\* What the theorem says of one cycle.
Final(q) ==
  /\ pc = "idle" /\ QuarterEnd(q) < today
  /\ \A b \in BDA, d \in QuarterStart(q) .. QuarterEnd(q) : Rollup(b, d)' = Rollup(b, d)
  => LET shown  == CycleShown(users, MonthsTo(today), today, MinDate, q)
         places == NoticePlaces(users, QuarterTotals(MonthsTo(today), q))
     IN  shown => shown' /\ places' = places

LEMMA CycleStays ==
  ASSUME BoardInv, BoardInv', [Next]_vars, NEW q \in Nat
  PROVE  Final(q)
<1> SUFFICES ASSUME QuarterEnd(q) < today,
                    \A b \in BDA, d \in QuarterStart(q) .. QuarterEnd(q) :
                      Rollup(b, d)' = Rollup(b, d),
                    CycleShown(users, MonthsTo(today), today, MinDate, q)
             PROVE  /\ CycleShown(users, MonthsTo(today), today, MinDate, q)'
                    /\ NoticePlaces(users, QuarterTotals(MonthsTo(today), q))'
                         = NoticePlaces(users, QuarterTotals(MonthsTo(today), q))
  BY DEF Final
<1>1. /\ SumsOK /\ SumsOK' /\ users \subseteq BDA /\ users' \subseteq BDA
      /\ today \in Nat /\ today' \in Nat
      /\ QuarterStart(q) \in Int /\ QuarterEnd(q) \in Int
  <2>1. SumsOK /\ SumsOK'  BY InvSums, PTL
  <2>2. QED
    BY <2>1, BoardsAssumption
       DEF SumsOK, Day, BoardsAssumption, QuarterStart, QuarterEnd
<1>2. Closed(q)' = Closed(q) /\ users \subseteq users' /\ DOMAIN sums \subseteq DOMAIN sums'
      /\ today <= today'
  <2>1. CASE UNCHANGED sums /\ users \subseteq users' /\ today <= today'
    <3>1. Closed(q)' = Closed(q)  BY <2>1 DEF Closed, TotalsOver
    <3>2. QED  BY <2>1, <3>1
  <2>2. ASSUME UNCHANGED <<users, today>>, NEW b \in BDA, NEW d \in Day, NEW inc \in Totals,
               Record(b, d, inc), inc.points # 0 \/ inc.calls # 0
        PROVE  /\ Closed(q)' = Closed(q) /\ users \subseteq users'
               /\ DOMAIN sums \subseteq DOMAIN sums' /\ today <= today'
    <3>1. Closed(q)' = Closed(q)  BY <1>1, <2>2, RecordElsewhere
    <3>2. DOMAIN sums \subseteq DOMAIN sums'  BY <2>2 DEF Record
    <3>3. QED  BY <1>1, <2>2, <3>1, <3>2
  <2>3. QED  BY <2>1, <2>2, StoreSteps
<1>3. /\ QuarterTotals(MonthsTo(today), q) = Closed(q)
      /\ QuarterTotals(MonthsTo(today), q)' = Closed(q)
      /\ Closed(q) \in [BDA -> Totals]
      /\ \A b \in BDA \ users : Scored(Closed(q), {b}) = {}
  <2>1. ClosedFold /\ ClosedTotals  BY <1>1, ClosedFolds
  <2>2. ClosedFold'  BY <1>1, ClosedFolds, PTL
  <2>3. QuarterEnd(q) < today'  BY <1>1, <1>2
  <2>4. QED  BY <1>2, <2>1, <2>2, <2>3 DEF ClosedFold, ClosedTotals
<1>4. Scored(Closed(q), users') = Scored(Closed(q), users)
  BY <1>1, <1>2, <1>3 DEF Scored
<1>5. /\ MinDate # NoDate /\ Scored(Closed(q), users) # {}
      /\ q = QuarterOf(MonthOf(today)) \/ QuarterStart(q) >= MinDate
  BY <1>3 DEF CycleShown
<1>6. q # QuarterOf(MonthOf(today))
  BY <1>1, DaysOfQuarter
<1>7. MinDate' # NoDate /\ QuarterStart(q) >= MinDate'
  <2>1. FirstRecord  BY <1>1, FirstRecordIsFirst
  <2>2. FirstRecord'  BY <1>1, FirstRecordIsFirst, PTL
  <2>3. PICK k \in DOMAIN sums : k[2] = MinDate /\ MinDate \in Nat
    BY <1>5, <2>1 DEF FirstRecord
  <2>4. MinDate' \in Nat /\ MinDate' <= k[2]
    BY <1>2, <2>2, <2>3 DEF FirstRecord
  <2>5. QED  BY <1>1, <1>5, <1>6, <2>3, <2>4 DEF NoDate
<1>8. CycleShown(users, MonthsTo(today), today, MinDate, q)'
  BY <1>3, <1>4, <1>5, <1>7 DEF CycleShown
<1>9. /\ NoticePlaces(users, Closed(q))
           = [b \in Scored(Closed(q), users) |-> RankOf(Closed(q), Scored(Closed(q), users), b)]
      /\ NoticePlaces(users', Closed(q))
           = [b \in Scored(Closed(q), users') |-> RankOf(Closed(q), Scored(Closed(q), users'), b)]
  <2> DEFINE closed == Closed(q)
  <2>1. closed \in [BDA -> Totals]  BY <1>3
  <2> HIDE DEF closed
  <2>2. /\ NoticePlaces(users, closed)
             = [b \in Scored(closed, users) |-> RankOf(closed, Scored(closed, users), b)]
        /\ NoticePlaces(users', closed)
             = [b \in Scored(closed, users') |-> RankOf(closed, Scored(closed, users'), b)]
    BY <1>1, <2>1, PlacesAmongScored
  <2>3. QED  BY <2>2 DEF closed
<1>10. NoticePlaces(users, QuarterTotals(MonthsTo(today), q))' = NoticePlaces(users', Closed(q))
  BY <1>3 DEF NoticePlaces
<1>11. QED  BY <1>3, <1>4, <1>8, <1>9, <1>10

\* A closed cycle stays on the notice board and keeps its places, whoever joins, at a
\* midnight and whatever is recorded of other days (NoticeBoard, Store.MinDate).
THEOREM ClosedCyclesStayFinal == Spec => ClosedCyclesAreFinal
<1>1. BoardInv /\ BoardInv' /\ [Next]_vars
        => [\A q \in 0 .. QuarterOf(MonthOf(today)) : Final(q)]_<<users, sums, today>>
  <2> SUFFICES ASSUME BoardInv, BoardInv', [Next]_vars,
                      NEW q \in 0 .. QuarterOf(MonthOf(today))
               PROVE  Final(q)
    OBVIOUS
  <2>1. q \in Nat
    <3>1. today \in Nat  BY BoardsAssumption DEF BoardInv, TypeOK, Day, BoardsAssumption
    <3>2. MonthOf(today) \in Nat  BY <3>1, BoardsAssumption DEF MonthOf, BoardsAssumption
    <3>3. QuarterOf(MonthOf(today)) \in Int  BY <3>2 DEF QuarterOf
    <3>4. QED  BY <3>3
  <2>2. QED  BY <2>1, CycleStays
<1>2. QED  BY <1>1, BoardInvariant, PTL DEF Spec, ClosedCyclesAreFinal, Final

=============================================================================
