---------------------------- MODULE ReportsProofs ----------------------------
(***************************************************************************)
(* Proofs about Seed and Reports, for any number of associates, requests,  *)
(* days and faults, and any history the generator may draw.                *)
(***************************************************************************)
EXTENDS Reports, LoginProofs, ActivityProofs, SumProofs

-----------------------------------------------------------------------------
(* The streaks of a drawn history.                                         *)

\* What generateRaw draws for n days, with as many calls as may be.
DrawnDay ==
  [loggedIn : BOOLEAN, calls : Nat, won : 0 .. MostWon, dropped : 0 .. MostDropped]

Drawn(n, raw) ==
  /\ n \in Nat /\ n >= 2 /\ DOMAIN raw = 0 .. n - 1
  /\ \A d \in 0 .. n - 1 :
       /\ raw[d] \in DrawnDay
       /\ raw[d].calls + raw[d].won + raw[d].dropped > 0 => raw[d].loggedIn \/ d = n - 1
  /\ ~raw[n - 1].loggedIn

LEMMA RawIsDrawn ==
  ASSUME NEW n \in Nat, n >= 2, NEW records, NEW raw \in Raw(n, records)
  PROVE  Drawn(n, raw)
<1>1. PICK past \in [0 .. n - 2 -> PastDay(records)], last \in Today(records) :
        raw = [d \in 0 .. n - 1 |-> IF d = n - 1 THEN last ELSE past[d]]
  BY DEF Raw
<1>2. \A d \in 0 .. n - 1 : d = n - 1 \/ d \in 0 .. n - 2  OBVIOUS
<1>3. n - 1 \in 0 .. n - 1  OBVIOUS
<1>4. \A d \in 0 .. n - 1 : raw[d] = IF d = n - 1 THEN last ELSE past[d]
  BY <1>1
<1>5. /\ \A d \in 0 .. n - 2 :
           /\ past[d] \in DrawnDay
           /\ past[d].calls + past[d].won + past[d].dropped > 0 => past[d].loggedIn
      /\ last \in DrawnDay /\ ~last.loggedIn
  <2>1. RawDay(records) \subseteq DrawnDay  BY DEF RawDay, DrawnDay
  <2>2. QED  BY <2>1 DEF PastDay, Today
<1>6. QED  BY <1>1, <1>2, <1>3, <1>4, <1>5 DEF Drawn

\* The run of logins that ends with a day.
RunOf(raw, d) == {c \in 0 .. d : \A e \in c .. d : raw[e].loggedIn}

\* It is that of the day before and the day.
LEMMA RunGrows ==
  ASSUME NEW n, NEW raw, Drawn(n, raw), NEW d \in 0 .. n - 1
  PROVE  /\ IsFiniteSet(RunOf(raw, d)) /\ Cardinality(RunOf(raw, d)) \in Nat
         /\ ~raw[d].loggedIn => Cardinality(RunOf(raw, d)) = 0
         /\ raw[d].loggedIn /\ d = 0 => Cardinality(RunOf(raw, d)) = 1
         /\ raw[d].loggedIn /\ d # 0 =>
              Cardinality(RunOf(raw, d)) = Cardinality(RunOf(raw, d - 1)) + 1
<1>1. n \in Nat /\ d \in Nat  BY DEF Drawn
<1>2. \A c \in Nat : IsFiniteSet(RunOf(raw, c)) /\ Cardinality(RunOf(raw, c)) \in Nat
  <2> TAKE c \in Nat
  <2>1. IsFiniteSet(0 .. c)  BY FS_Interval
  <2>2. RunOf(raw, c) \subseteq 0 .. c  BY DEF RunOf
  <2>3. QED  BY <2>1, <2>2, FS_Subset, FS_CardinalityType
<1>3. CASE ~raw[d].loggedIn
  <2>1. RunOf(raw, d) = {}  BY <1>1, <1>3 DEF RunOf
  <2>2. QED  BY <1>1, <1>2, <1>3, <2>1, FS_EmptySet
<1>4. CASE raw[d].loggedIn /\ d = 0
  <2>1. \A c \in 0 .. d : c = 0 /\ \A e \in c .. d : e = 0  BY <1>4
  <2>2. RunOf(raw, d) = {0}  BY <1>4, <2>1 DEF RunOf
  <2>3. QED  BY <1>1, <1>2, <1>4, <2>2, FS_Singleton
<1>5. CASE raw[d].loggedIn /\ d # 0
  <2>1. d - 1 \in Nat  BY <1>1, <1>5
  <2>2. \A c \in 0 .. d : c # d => c .. d = (c .. d - 1) \cup {d}  BY <1>1
  <2>3. RunOf(raw, d) = RunOf(raw, d - 1) \cup {d}
    <3>1. ASSUME NEW c \in 0 .. d
          PROVE  c \in RunOf(raw, d) <=> c \in RunOf(raw, d - 1) \cup {d}
      <4>1. CASE c = d
        <5>1. \A e \in c .. d : e = d  BY <1>1, <4>1
        <5>2. QED  BY <1>5, <4>1, <5>1 DEF RunOf
      <4>2. CASE c # d
        <5>1. c \in 0 .. d - 1  BY <1>1, <4>2
        <5>2. QED  BY <1>5, <2>2, <4>2, <5>1 DEF RunOf
      <4>3. QED  BY <4>1, <4>2
    <3>2. RunOf(raw, d) \subseteq 0 .. d /\ RunOf(raw, d - 1) \cup {d} \subseteq 0 .. d
      BY <1>1, <2>1 DEF RunOf
    <3>3. QED  BY <3>1, <3>2
  <2>4. d \notin RunOf(raw, d - 1)  BY <1>1 DEF RunOf
  <2>5. QED  BY <1>1, <1>2, <1>5, <2>1, <2>3, <2>4, FS_AddElement
<1>6. QED  BY <1>3, <1>4, <1>5

\* One turn of the loop of Run.
StreakAfter(raw, streak, d) ==
  IF ~raw[d].loggedIn THEN 0 ELSE IF d = 0 THEN 1 ELSE streak[d - 1] + 1

\* The streak the loop reaches is the length of the run of logins.
LEMMA StreakIsRunLength ==
  ASSUME NEW n, NEW raw, Drawn(n, raw)
  PROVE  \A d \in 0 .. n - 1 : StreakThrough(raw)[d] = Cardinality(RunOf(raw, d))
<1> DEFINE S    == StreakThrough(raw)
           R(d) == Cardinality(RunOf(raw, d))
           Loops(run) == run = [d \in DOMAIN raw |-> StreakAfter(raw, run, d)]
<1>0. n \in Nat /\ DOMAIN raw = 0 .. n - 1  BY DEF Drawn
<1>1. \E run : Loops(run)
  <2> DEFINE run == [d \in DOMAIN raw |-> R(d)]
  <2>1. ASSUME NEW d \in DOMAIN raw PROVE R(d) = StreakAfter(raw, run, d)
    <3>1. d # 0 => d - 1 \in DOMAIN raw  BY <1>0
    <3>2. QED  BY <1>0, <3>1, RunGrows DEF StreakAfter
  <2>2. Loops(run)  BY <2>1
  <2>3. QED  BY <2>2
<1>2. S = CHOOSE run : Loops(run)
  BY DEF StreakThrough, StreakAfter
<1> HIDE DEF S
<1>3. Loops(S)  BY <1>1, <1>2
<1>4. \A d \in DOMAIN raw : S[d] = StreakAfter(raw, S, d)  BY <1>3
<1> DEFINE Bad == {d \in 0 .. n - 1 : S[d] # R(d)}
<1> SUFFICES ASSUME Bad # {} PROVE FALSE  BY DEF S
<1>5. PICK d \in Bad : \A c \in Bad : d <= c
  <2>1. Bad \in SUBSET Nat  OBVIOUS
  <2> HIDE DEF Bad
  <2>2. QED  BY <2>1, MinOfNats
<1>6. d # 0 => d - 1 \in 0 .. n - 1 /\ S[d - 1] = R(d - 1)
  <2> SUFFICES ASSUME d # 0 PROVE d - 1 \in 0 .. n - 1 /\ S[d - 1] = R(d - 1)
    OBVIOUS
  <2>1. d - 1 \in 0 .. n - 1 /\ ~(d <= d - 1)  BY <1>0
  <2>2. QED  BY <1>5, <2>1
<1>7. S[d] = R(d)
  <2>1. d \in 0 .. n - 1  OBVIOUS
  <2>2. S[d] = IF ~raw[d].loggedIn THEN 0 ELSE IF d = 0 THEN 1 ELSE S[d - 1] + 1
    BY <1>0, <1>4, <2>1 DEF StreakAfter
  <2>3. /\ ~raw[d].loggedIn => R(d) = 0
        /\ raw[d].loggedIn /\ d = 0 => R(d) = 1
        /\ raw[d].loggedIn /\ d # 0 => R(d) = R(d - 1) + 1
    BY <2>1, RunGrows
  <2> HIDE DEF R
  <2>4. QED  BY <1>6, <2>2, <2>3
<1>8. QED  BY <1>7

LEMMA StreaksOfHistory ==
  ASSUME NEW n, NEW raw, Drawn(n, raw), NEW d \in 0 .. n - 1
  PROVE  /\ StreakThrough(raw)[d] \in Nat
         /\ raw[d].loggedIn => StreakThrough(raw)[d] >= 1
         /\ ~raw[d].loggedIn => StreakThrough(raw)[d] = 0
<1>1. StreakThrough(raw)[d] = Cardinality(RunOf(raw, d))  BY StreakIsRunLength
<1>2. d # 0 => d - 1 \in 0 .. n - 1  BY DEF Drawn
<1>3. d # 0 => Cardinality(RunOf(raw, d - 1)) \in Nat  BY <1>2, RunGrows
<1>4. QED  BY <1>1, <1>3, RunGrows

-----------------------------------------------------------------------------
(* The documents Run makes of it.                                          *)

LEMMA SeededUser ==
  ASSUME NEW n, NEW raw, Drawn(n, raw)
  PROVE  LET user == SeedUser(raw)
             S(d) == StreakThrough(raw)[d]
         IN  /\ \/ user.last = Never /\ LoginsOf(raw) = {} /\ user.current = 0
                \/ user.last \in LoginsOf(raw) /\ user.current = S(user.last)
             /\ \A d \in LoginsOf(raw) : d <= user.last
             /\ \E d \in 0 .. n - 1 : user.best = S(d)
             /\ \A d \in 0 .. n - 1 : S(d) <= user.best
             /\ user.current \in Nat /\ user.best \in Nat
<1> DEFINE user == SeedUser(raw)
           S(d) == StreakThrough(raw)[d]
           past == LoginsOf(raw) \cup {Never}
           all  == {S(d) : d \in 0 .. n - 1}
<1>1. n \in Nat /\ n >= 2 /\ DOMAIN raw = 0 .. n - 1  BY DEF Drawn
<1>2. user.last = Max(past) /\ user.best = Max(all)
      /\ user.current = IF Max(past) = Never THEN 0 ELSE S(Max(past))
  BY <1>1 DEF SeedUser
<1>3. IsFiniteSet(0 .. n - 1)  BY <1>1, FS_Interval
<1>4. Max(past) \in past /\ \A d \in past : d <= Max(past)
  <2>1. LoginsOf(raw) \subseteq 0 .. n - 1  BY <1>1 DEF LoginsOf
  <2>2. IsFiniteSet(LoginsOf(raw))  BY <1>3, <2>1, FS_Subset
  <2>3. IsFiniteSet(past)  BY <2>2, FS_AddElement
  <2>4. (\A x \in past : x \in Int) /\ past # {}  BY <2>1 DEF Never
  <2> HIDE DEF past
  <2>5. QED  BY <2>3, <2>4, MaxOfSet
<1>5. \A d \in 0 .. n - 1 : S(d) \in Nat  BY StreaksOfHistory
<1>6. Max(all) \in all /\ \A s \in all : s <= Max(all)
  <2>1. IsFiniteSet(all)
    BY <1>3, ImageIsFinite
  <2>2. (\A x \in all : x \in Int) /\ all # {}
    <3>1. 0 \in 0 .. n - 1  BY <1>1
    <3>2. QED  BY <1>5, <3>1
  <2> HIDE DEF all
  <2>3. QED  BY <2>1, <2>2, MaxOfSet
<1>7. \A d \in LoginsOf(raw) : d \in 0 .. n - 1 /\ d # Never
  BY <1>1 DEF LoginsOf, Never
<1>8. \/ user.last = Never /\ LoginsOf(raw) = {} /\ user.current = 0
      \/ user.last \in LoginsOf(raw) /\ user.current = S(user.last)
  <2>1. CASE Max(past) = Never
    <3>1. ASSUME NEW d \in LoginsOf(raw) PROVE FALSE
      <4>1. d <= Never /\ d \in 0 .. n - 1  BY <1>4, <1>7, <2>1
      <4>2. QED  BY <4>1 DEF Never
    <3>2. QED  BY <1>2, <2>1, <3>1
  <2>2. CASE Max(past) # Never
    BY <1>2, <1>4, <2>2
  <2>3. QED  BY <2>1, <2>2
<1> HIDE DEF user, S
<1>9. user.current \in Nat /\ user.best \in Nat
  BY <1>2, <1>5, <1>6, <1>7, <1>8
<1>10. (\E d \in 0 .. n - 1 : user.best = S(d)) /\ \A d \in 0 .. n - 1 : S(d) <= user.best
  BY <1>2, <1>6
<1>11. \A d \in LoginsOf(raw) : d <= user.last  BY <1>2, <1>4
<1>12. QED  BY <1>8, <1>9, <1>10, <1>11 DEF user, S

LEMMA SeededDay ==
  ASSUME NEW n, NEW raw, Drawn(n, raw), NEW d \in 0 .. n - 1
  PROVE  LET doc == SeedDay(raw, d)
         IN  /\ doc \in Daily
             /\ doc.loggedIn = raw[d].loggedIn /\ doc.streakDay = StreakThrough(raw)[d]
             /\ doc.loginPoints = IF raw[d].loggedIn THEN LoginPoints(StreakThrough(raw)[d]) ELSE 0
             /\ doc.calls = raw[d].calls
             /\ doc.leadsWon = raw[d].won /\ doc.leadPoints = raw[d].won * LeadWon
             /\ doc.leadsDropped = raw[d].dropped
             /\ doc.penaltyPoints = raw[d].dropped * LeadDropped
             /\ doc.points = doc.loginPoints + doc.leadPoints + doc.penaltyPoints
<1> DEFINE streak == StreakThrough(raw)[d]
           leads  == [EmptyDay EXCEPT !.calls = raw[d].calls, !.callMinutes = raw[d].calls,
                        !.leadsWon = raw[d].won, !.leadPoints = raw[d].won * LeadWon,
                        !.leadsDropped = raw[d].dropped,
                        !.penaltyPoints = raw[d].dropped * LeadDropped,
                        !.points = raw[d].won * LeadWon + raw[d].dropped * LeadDropped]
<1>1. /\ raw[d].loggedIn \in BOOLEAN /\ raw[d].calls \in Nat
      /\ raw[d].won \in 0 .. 5 /\ raw[d].dropped \in 0 .. 2
  BY DEF Drawn, DrawnDay, MostWon, MostDropped
<1>2. /\ streak \in Nat /\ (~raw[d].loggedIn => streak = 0)
  BY StreaksOfHistory
<1>3. LoginPoints(streak) \in Nat  BY <1>2, LoginPointsRange
<1>4. /\ raw[d].won * LeadWon \in Nat /\ raw[d].dropped * LeadDropped \in Int
      /\ raw[d].won * LeadWon + raw[d].dropped * LeadDropped \in Int
  BY <1>1 DEF LeadWon, LeadDropped
<1>5. /\ leads \in Daily
      /\ leads.calls = raw[d].calls /\ leads.leadsWon = raw[d].won
      /\ leads.leadPoints = raw[d].won * LeadWon
      /\ leads.leadsDropped = raw[d].dropped
      /\ leads.penaltyPoints = raw[d].dropped * LeadDropped
      /\ leads.points = raw[d].won * LeadWon + raw[d].dropped * LeadDropped
      /\ leads.loginPoints = 0 /\ leads.loggedIn = FALSE /\ leads.streakDay = 0
  <2> DEFINE wp == raw[d].won * LeadWon
             dp == raw[d].dropped * LeadDropped
             tp == raw[d].won * LeadWon + raw[d].dropped * LeadDropped
             c  == raw[d].calls
             w  == raw[d].won
             x  == raw[d].dropped
  <2>1. wp \in Nat /\ dp \in Int /\ tp \in Int /\ c \in Nat /\ w \in Nat /\ x \in Nat
    BY <1>1, <1>4
  <2>2. leads = [EmptyDay EXCEPT !.calls = c, !.callMinutes = c, !.leadsWon = w, !.leadPoints = wp,
                   !.leadsDropped = x, !.penaltyPoints = dp, !.points = tp]
    OBVIOUS
  <2> HIDE DEF wp, dp, tp, c, w, x, leads
  <2>3. leads = [loggedIn |-> FALSE, streakDay |-> 0, calls |-> c, callMinutes |-> c,
                 leadsWon |-> w, leadsDropped |-> x, points |-> tp, loginPoints |-> 0, leadPoints |-> wp,
                 penaltyPoints |-> dp]
    BY <2>2 DEF EmptyDay
  <2>4. leads \in Daily  BY <2>1, <2>3 DEF Daily
  <2>5. QED  BY <2>3, <2>4 DEF wp, dp, tp, c, w, x
<1> HIDE DEF leads, streak
<1>6. SeedDay(raw, d) = IF raw[d].loggedIn THEN LoginDay(leads, streak) ELSE leads
  BY DEF SeedDay, leads, streak
<1>7. CASE ~raw[d].loggedIn
  <2>1. SeedDay(raw, d) = leads /\ raw[d].loggedIn = FALSE  BY <1>1, <1>6, <1>7
  <2>2. leads.points = leads.loginPoints + leads.leadPoints + leads.penaltyPoints
    BY <1>4, <1>5
  <2>3. QED  BY <1>2, <1>5, <1>7, <2>1, <2>2 DEF streak
<1>8. CASE raw[d].loggedIn
  <2>1. SeedDay(raw, d) = LoginDay(leads, streak) /\ raw[d].loggedIn = TRUE
    BY <1>1, <1>6, <1>8
  <2> DEFINE p == LoginPoints(streak)
  <2>2. /\ LoginDay(leads, streak) \in Daily
        /\ LoginDay(leads, streak).loggedIn = TRUE
        /\ LoginDay(leads, streak).streakDay = streak
        /\ LoginDay(leads, streak).loginPoints = leads.loginPoints + p
    BY <1>2, <1>5, LoginDayType
  <2>3. LoginDay(leads, streak) = [leads EXCEPT !.loggedIn = TRUE, !.streakDay = streak,
              !.loginPoints = @ + p, !.points = @ + p]
    BY DEF LoginDay
  <2> HIDE DEF p
  <2>4. /\ LoginDay(leads, streak).calls = leads.calls
        /\ LoginDay(leads, streak).leadsWon = leads.leadsWon
        /\ LoginDay(leads, streak).leadPoints = leads.leadPoints
        /\ LoginDay(leads, streak).leadsDropped = leads.leadsDropped
        /\ LoginDay(leads, streak).penaltyPoints = leads.penaltyPoints
        /\ LoginDay(leads, streak).points = leads.points + p
    BY <1>5, <2>3 DEF Daily
  <2>5. p \in Nat  BY <1>3 DEF p
  <2>6. /\ LoginDay(leads, streak).loginPoints = p
        /\ leads.points + p = p + leads.leadPoints + leads.penaltyPoints
    BY <1>4, <1>5, <2>2, <2>5
  <2>7. QED  BY <1>5, <1>8, <2>1, <2>2, <2>4, <2>6 DEF streak, p
<1>9. QED  BY <1>7, <1>8

\* The points of no event, of one, and of two sets of events.
LEMMA PointsAdd ==
  /\ PointsOf({}) = 0
  /\ \A e : e.points \in Int => PointsOf({e}) = e.points
  /\ \A I, J : IsFiniteSet(I) /\ IsFiniteSet(J) /\ I \cap J = {}
               /\ (\A e \in I \cup J : e.points \in Int)
       => PointsOf(I \cup J) = PointsOf(I) + PointsOf(J)
<1> DEFINE P(S) == [e \in S |-> e.points]
<1>0. \A S : PointsOf(S) = SumFunctionOnSet(P(S), S)
  BY DEF PointsOf, SumFunction
<1>1. PointsOf({}) = 0  BY <1>0, SumOfFew
<1>2. ASSUME NEW e, e.points \in Int PROVE PointsOf({e}) = e.points
  <2>1. P({e})[e] = e.points  OBVIOUS
  <2>2. SumFunctionOnSet(P({e}), {e}) = P({e})[e]
    <3> HIDE DEF P
    <3>1. QED  BY <1>2, <2>1, SumOfFew
  <2>3. QED  BY <1>0, <2>1, <2>2
<1>3. ASSUME NEW I, NEW J, IsFiniteSet(I), IsFiniteSet(J), I \cap J = {},
             \A e \in I \cup J : e.points \in Int
      PROVE  PointsOf(I \cup J) = PointsOf(I) + PointsOf(J)
  <2> DEFINE f == P(I \cup J)
             g == P(I)
             h == P(J)
  <2>1. /\ \A e \in I \cup J : f[e] \in Int
        /\ \A e \in I : f[e] \in Int /\ f[e] = g[e]
        /\ \A e \in J : f[e] \in Int /\ f[e] = h[e]
    BY <1>3
  <2>2. /\ PointsOf(I \cup J) = SumFunctionOnSet(f, I \cup J)
        /\ PointsOf(I) = SumFunctionOnSet(g, I) /\ PointsOf(J) = SumFunctionOnSet(h, J)
    BY <1>0
  <2> HIDE DEF f, g, h
  <2>3. SumFunctionOnSet(f, I \cup J) = SumFunctionOnSet(f, I) + SumFunctionOnSet(f, J)
    BY <1>3, <2>1, SumOfUnion
  <2>4. SumFunctionOnSet(f, I) = SumFunctionOnSet(g, I)  BY <1>3, <2>1, SumIsSame
  <2>5. SumFunctionOnSet(f, J) = SumFunctionOnSet(h, J)  BY <1>3, <2>1, SumIsSame
  <2>6. QED  BY <2>2, <2>3, <2>4, <2>5
<1>4. QED  BY <1>1, <1>2, <1>3

\* Numbered leads are so many different events.
LEMMA SeededLeads ==
  ASSUME NEW b, NEW d, NEW type, NEW points \in Int, NEW n \in 0 .. 5
  PROVE  LET leads == SeedLeads(b, d, type, points, n)
         IN  /\ IsFiniteSet(leads) /\ Cardinality(leads) = n
             /\ PointsOf(leads) = n * points
             /\ \A e \in leads :
                  /\ e.bda = b /\ e.date = d /\ e.type = type /\ e.stamp \in SeedStamp
                  /\ e.points = points /\ e.streak = 0
                  /\ e = [bda |-> e.bda, date |-> e.date, type |-> e.type, stamp |-> e.stamp,
                          points |-> e.points, streak |-> e.streak]
<1> DEFINE lead(i) == [bda |-> b, date |-> d, type |-> type, stamp |-> Nth[i],
                       points |-> points, streak |-> 0]
           S(m) == {lead(i) : i \in 1 .. m}
           Good(m) == IsFiniteSet(S(m)) /\ Cardinality(S(m)) = m /\ PointsOf(S(m)) = m * points
<1>1. \A i \in 1 .. 5 : Nth[i] \in SeedStamp
  BY DEF Nth, SeedStamp
<1>2. \A i, j \in 1 .. 5 : Nth[i] = Nth[j] => i = j
  <2>1. /\ Nth[1] = "seed1" /\ Nth[2] = "seed2" /\ Nth[3] = "seed3" /\ Nth[4] = "seed4"
        /\ Nth[5] = "seed5"
    BY DEF Nth
  <2>2. 1 .. 5 = {1, 2, 3, 4, 5}  OBVIOUS
  <2>3. QED  BY <2>1, <2>2
<1>3. \A i, j \in 1 .. 5 : lead(i) = lead(j) => i = j
  <2>1. \A i : lead(i).stamp = Nth[i]  OBVIOUS
  <2> HIDE DEF lead
  <2>2. QED  BY <1>2, <2>1
<1>4. \A i : lead(i).points = points  OBVIOUS
<1> HIDE DEF lead
<1>5. Good(0)
  <2>1. 1 .. 0 = {}  OBVIOUS
  <2>2. S(0) = {}  BY <2>1
  <2>3. 0 * points = 0  OBVIOUS
  <2>4. QED  BY <2>2, <2>3, FS_EmptySet, PointsAdd
<1>6. ASSUME NEW m \in 0 .. 4, Good(m) PROVE Good(m + 1)
  <2>1. 1 .. m + 1 = (1 .. m) \cup {m + 1} /\ m + 1 \notin 1 .. m
    OBVIOUS
  <2>2. S(m + 1) = S(m) \cup {lead(m + 1)}  BY <2>1
  <2>3. lead(m + 1) \notin S(m)
    <3>1. m + 1 \in 1 .. 5 /\ \A i \in 1 .. m : i \in 1 .. 5 /\ i # m + 1  OBVIOUS
    <3>2. QED  BY <1>3, <3>1
  <2>4. \A e \in S(m) \cup {lead(m + 1)} : e.points = points  BY <1>4
  <2> DEFINE I == S(m)
             J == {lead(m + 1)}
  <2>5. IsFiniteSet(J) /\ PointsOf(J) = points
    BY <1>4, FS_Singleton, PointsAdd
  <2>6. IsFiniteSet(I) /\ Cardinality(I) = m /\ PointsOf(I) = m * points
    BY <1>6
  <2>7. I \cap J = {} /\ \A e \in I \cup J : e.points \in Int
    BY <2>3, <2>4
  <2>8. IsFiniteSet(I \cup J) /\ Cardinality(I \cup J) = m + 1
    BY <2>3, <2>6, FS_AddElement
  <2> HIDE DEF I, J
  <2>9. PointsOf(I \cup J) = m * points + points
    BY <2>5, <2>6, <2>7, PointsAdd
  <2>10. m * points + points = (m + 1) * points  OBVIOUS
  <2>11. QED  BY <2>2, <2>8, <2>9, <2>10 DEF I, J
<1> HIDE DEF Good
<1>7. Good(1)
  <2>1. 0 \in 0 .. 4 /\ 0 + 1 = 1  OBVIOUS
  <2>2. QED  BY <1>5, <1>6, <2>1
<1>8. Good(2)
  <2>1. 1 \in 0 .. 4 /\ 1 + 1 = 2  OBVIOUS
  <2>2. QED  BY <1>6, <1>7, <2>1
<1>9. Good(3)
  <2>1. 2 \in 0 .. 4 /\ 2 + 1 = 3  OBVIOUS
  <2>2. QED  BY <1>6, <1>8, <2>1
<1>10. Good(4)
  <2>1. 3 \in 0 .. 4 /\ 3 + 1 = 4  OBVIOUS
  <2>2. QED  BY <1>6, <1>9, <2>1
<1>11. Good(5)
  <2>1. 4 \in 0 .. 4 /\ 4 + 1 = 5  OBVIOUS
  <2>2. QED  BY <1>6, <1>10, <2>1
<1>12. n \in {0, 1, 2, 3, 4, 5}  OBVIOUS
<1>13. Good(n)  BY <1>5, <1>7, <1>8, <1>9, <1>10, <1>11, <1>12
<1>14. S(n) = SeedLeads(b, d, type, points, n)  BY DEF SeedLeads, lead
<1>15. \A e \in S(n) :
         /\ e.bda = b /\ e.date = d /\ e.type = type /\ e.stamp \in SeedStamp
         /\ e.points = points /\ e.streak = 0
         /\ e = [bda |-> e.bda, date |-> e.date, type |-> e.type, stamp |-> e.stamp,
                 points |-> e.points, streak |-> e.streak]
  <2> SUFFICES ASSUME NEW i \in 1 .. n
               PROVE  LET e == lead(i) IN
                 /\ e.bda = b /\ e.date = d /\ e.type = type /\ e.stamp \in SeedStamp
                 /\ e.points = points /\ e.streak = 0
                 /\ e = [bda |-> e.bda, date |-> e.date, type |-> e.type, stamp |-> e.stamp,
                         points |-> e.points, streak |-> e.streak]
    OBVIOUS
  <2>1. i \in 1 .. 5  OBVIOUS
  <2>2. QED  BY <1>1, <2>1 DEF lead
<1>16. QED  BY <1>13, <1>14, <1>15 DEF Good

\* The events of a day, kind by kind.
EventsOn(b, raw, d, type) == {e \in SeedEvents(b, raw) : e.date = d /\ e.type = type}

LEMMA SeededEvents ==
  ASSUME NEW n, NEW raw, Drawn(n, raw), NEW b
  PROVE  /\ \A e \in SeedEvents(b, raw) :
              /\ e.bda = b /\ e.date \in 0 .. n - 1 /\ e.type \in {"LOGIN", "LEAD_WON", "LEAD_DROPPED"}
              /\ e.points \in Int /\ e.streak \in Nat /\ e.stamp \in {"none"} \cup SeedStamp
              /\ e = [bda |-> e.bda, date |-> e.date, type |-> e.type, stamp |-> e.stamp,
                      points |-> e.points, streak |-> e.streak]
         /\ \A d \in 0 .. n - 1 :
              /\ EventsOn(b, raw, d, "LOGIN")
                   = IF raw[d].loggedIn THEN {LoginEvent(b, d, StreakThrough(raw)[d])} ELSE {}
              /\ EventsOn(b, raw, d, "LEAD_WON")
                   = SeedLeads(b, d, "LEAD_WON", LeadWon, raw[d].won)
              /\ EventsOn(b, raw, d, "LEAD_DROPPED")
                   = SeedLeads(b, d, "LEAD_DROPPED", LeadDropped, raw[d].dropped)
<1> DEFINE S(d) == StreakThrough(raw)[d]
           L(d) == IF raw[d].loggedIn THEN {LoginEvent(b, d, S(d))} ELSE {}
           W(d) == SeedLeads(b, d, "LEAD_WON", LeadWon, raw[d].won)
           D(d) == SeedLeads(b, d, "LEAD_DROPPED", LeadDropped, raw[d].dropped)
           Is(e, d, type) ==
             /\ e.bda = b /\ e.date = d /\ e.type = type
             /\ e.points \in Int /\ e.streak \in Nat /\ e.stamp \in {"none"} \cup SeedStamp
             /\ e = [bda |-> e.bda, date |-> e.date, type |-> e.type, stamp |-> e.stamp,
                     points |-> e.points, streak |-> e.streak]
<1>1. DOMAIN raw = 0 .. n - 1  BY DEF Drawn
<1>2. \A e : e \in SeedEvents(b, raw) <=> \E d \in 0 .. n - 1 : e \in L(d) \cup W(d) \cup D(d)
  BY <1>1 DEF SeedEvents, SeedLedger
<1>3. ASSUME NEW d \in 0 .. n - 1
      PROVE  /\ \A e \in L(d) : Is(e, d, "LOGIN")
             /\ \A e \in W(d) : Is(e, d, "LEAD_WON")
             /\ \A e \in D(d) : Is(e, d, "LEAD_DROPPED")
  <2>1. /\ raw[d].won \in 0 .. 5 /\ raw[d].dropped \in 0 .. 5
        /\ LeadWon \in Int /\ LeadDropped \in Int
    BY DEF Drawn, DrawnDay, MostWon, MostDropped, LeadWon, LeadDropped
  <2>2. S(d) \in Nat /\ LoginPoints(S(d)) \in Int
    BY StreaksOfHistory, LoginPointsRange
  <2>3. \A e \in L(d) : Is(e, d, "LOGIN")
    <3> DEFINE s == S(d)
    <3>1. s \in Nat /\ LoginPoints(s) \in Int  BY <2>2
    <3> HIDE DEF s
    <3>2. Is(LoginEvent(b, d, s), d, "LOGIN")  BY <3>1 DEF LoginEvent
    <3> HIDE DEF Is
    <3>3. QED  BY <3>2 DEF s
  <2>4. \A e \in W(d) : Is(e, d, "LEAD_WON")  BY <2>1, SeededLeads
  <2>5. \A e \in D(d) : Is(e, d, "LEAD_DROPPED")  BY <2>1, SeededLeads
  <2>6. QED  BY <2>3, <2>4, <2>5
<1> HIDE DEF L, W, D
<1>4. ASSUME NEW e \in SeedEvents(b, raw)
      PROVE  /\ e.bda = b /\ e.date \in 0 .. n - 1 /\ e.type \in {"LOGIN", "LEAD_WON", "LEAD_DROPPED"}
             /\ e.points \in Int /\ e.streak \in Nat /\ e.stamp \in {"none"} \cup SeedStamp
             /\ e = [bda |-> e.bda, date |-> e.date, type |-> e.type, stamp |-> e.stamp,
                     points |-> e.points, streak |-> e.streak]
  BY <1>2, <1>3
<1>5. ASSUME NEW d \in 0 .. n - 1
      PROVE  /\ EventsOn(b, raw, d, "LOGIN") = L(d) /\ EventsOn(b, raw, d, "LEAD_WON") = W(d)
             /\ EventsOn(b, raw, d, "LEAD_DROPPED") = D(d)
  <2>1. ASSUME NEW e, NEW c \in 0 .. n - 1
        PROVE  /\ e \in L(c) => e.date = c /\ e.type = "LOGIN"
               /\ e \in W(c) => e.date = c /\ e.type = "LEAD_WON"
               /\ e \in D(c) => e.date = c /\ e.type = "LEAD_DROPPED"
    BY <1>3
  <2> HIDE DEF Is
  <2>2. EventsOn(b, raw, d, "LOGIN") = L(d)  BY <1>2, <2>1 DEF EventsOn
  <2>3. EventsOn(b, raw, d, "LEAD_WON") = W(d)  BY <1>2, <2>1 DEF EventsOn
  <2>4. EventsOn(b, raw, d, "LEAD_DROPPED") = D(d)  BY <1>2, <2>1 DEF EventsOn
  <2>5. QED  BY <2>2, <2>3, <2>4
<1>6. QED  BY <1>4, <1>5 DEF L, W, D, S

\* The points of a day are those of its ledger.
LEMMA SeededPoints ==
  ASSUME NEW n, NEW raw, Drawn(n, raw), NEW b, NEW d \in 0 .. n - 1
  PROVE  LET ledger == {e \in SeedEvents(b, raw) : e.date = d}
         IN  IsFiniteSet(ledger) /\ SeedDay(raw, d).points = PointsOf(ledger)
<1> DEFINE S(c) == StreakThrough(raw)[c]
           ledger == {e \in SeedEvents(b, raw) : e.date = d}
           L == EventsOn(b, raw, d, "LOGIN")
           W == EventsOn(b, raw, d, "LEAD_WON")
           D == EventsOn(b, raw, d, "LEAD_DROPPED")
           doc == SeedDay(raw, d)
<1>1. ledger = L \cup (W \cup D)  BY SeededEvents DEF EventsOn
<1>2. L \cap (W \cup D) = {} /\ W \cap D = {}  BY DEF EventsOn
<1>3. /\ L = IF raw[d].loggedIn THEN {LoginEvent(b, d, S(d))} ELSE {}
      /\ W = SeedLeads(b, d, "LEAD_WON", LeadWon, raw[d].won)
      /\ D = SeedLeads(b, d, "LEAD_DROPPED", LeadDropped, raw[d].dropped)
  BY SeededEvents
<1>4. /\ raw[d].won \in 0 .. 5 /\ raw[d].dropped \in 0 .. 5
      /\ LeadWon \in Int /\ LeadDropped \in Int
  BY DEF Drawn, DrawnDay, MostWon, MostDropped, LeadWon, LeadDropped
<1>5. /\ IsFiniteSet(W) /\ PointsOf(W) = raw[d].won * LeadWon
      /\ IsFiniteSet(D) /\ PointsOf(D) = raw[d].dropped * LeadDropped
  BY <1>3, <1>4, SeededLeads
<1>6. /\ IsFiniteSet(L) /\ LoginPoints(S(d)) \in Int
      /\ PointsOf(L) = IF raw[d].loggedIn THEN LoginPoints(S(d)) ELSE 0
  <2>1. S(d) \in Nat /\ LoginPoints(S(d)) \in Int
    BY StreaksOfHistory, LoginPointsRange
  <2>2. LoginEvent(b, d, S(d)).points = LoginPoints(S(d))  BY DEF LoginEvent
  <2>3. QED  BY <1>3, <2>1, <2>2, FS_EmptySet, FS_Singleton, PointsAdd
<1>7. \A e \in L \cup (W \cup D) : e.points \in Int  BY <1>1, SeededEvents
<1>8. /\ doc.loginPoints = IF raw[d].loggedIn THEN LoginPoints(S(d)) ELSE 0
      /\ doc.leadPoints = raw[d].won * LeadWon
      /\ doc.penaltyPoints = raw[d].dropped * LeadDropped
      /\ doc.points = doc.loginPoints + doc.leadPoints + doc.penaltyPoints
  BY SeededDay
<1>9. raw[d].won * LeadWon \in Int /\ raw[d].dropped * LeadDropped \in Int
  BY <1>4 DEF LeadWon, LeadDropped
<1> HIDE DEF L, W, D, ledger, doc, S
<1>10. IsFiniteSet(W \cup D) /\ IsFiniteSet(L \cup (W \cup D))  BY <1>5, <1>6, FS_Union
<1>11. /\ PointsOf(ledger) = PointsOf(L) + PointsOf(W \cup D)
       /\ PointsOf(W \cup D) = PointsOf(W) + PointsOf(D)
  BY <1>1, <1>2, <1>5, <1>6, <1>7, <1>10, PointsAdd
<1> DEFINE p == LoginPoints(S(d))
           w == raw[d].won * LeadWon
           x == raw[d].dropped * LeadDropped
<1>12. PointsOf(L) = doc.loginPoints /\ PointsOf(L) \in Int
  BY <1>6, <1>8
<1>13. doc.points = PointsOf(L) + PointsOf(W) + PointsOf(D)
  BY <1>5, <1>8, <1>12
<1>14. PointsOf(W) \in Int /\ PointsOf(D) \in Int  BY <1>5, <1>9
<1>15. doc.points = PointsOf(ledger)  BY <1>11, <1>12, <1>13, <1>14
<1>16. QED  BY <1>1, <1>10, <1>15 DEF ledger, doc

-----------------------------------------------------------------------------
(* The stores after a start.                                               *)

\* The seeded associates' documents, and the empty ones of the others.
StartsFrom(raw) ==
  /\ \A b \in seeded : Drawn(HistoryDays, raw[b])
  /\ \A k \in BDA \X Day :
       daily[k] = IF k[1] \in seeded /\ k[2] < HistoryDays THEN SeedDay(raw[k[1]], k[2])
                                                         ELSE EmptyDay
  /\ \A a \in Account :
       users[a] = IF a \in seeded THEN SeedUser(raw[a])
                                  ELSE [current |-> 0, best |-> 0, last |-> Never]
  /\ \A k \in BDA \X Day, type \in {"LOGIN", "LEAD_WON", "LEAD_DROPPED"} :
       {e \in events : <<e.bda, e.date>> = k /\ e.type = type}
         = IF k[1] \in seeded /\ k[2] < HistoryDays THEN EventsOn(k[1], raw[k[1]], k[2], type)
                                                  ELSE {}
  /\ \A e \in events : /\ e.bda \in seeded /\ e.date \in 0 .. HistoryDays - 1
                       /\ e \in SeedEvents(e.bda, raw[e.bda])

LEMMA DaysOfHistory ==
  /\ HistoryDays \in Nat /\ HistoryDays >= 2 /\ 0 .. HistoryDays - 1 \subseteq Day
  /\ \A d \in Day : d < HistoryDays <=> d \in 0 .. HistoryDays - 1
  /\ HistoryDays - 1 \in Day /\ 0 \in Day /\ Day \subseteq Nat
BY StoresAssumption, ReportsAssumption DEF StoresAssumption, ReportsAssumption, Day

LEMMA InitStarts ==
  ASSUME ReportsInit
  PROVE  \E raw : StartsFrom(raw)
<1>1. PICK raw \in [seeded -> Raw(HistoryDays, MaxSeeded)] : Seeded(raw)
  BY DEF ReportsInit, StoresSeeded
<1>2. seeded \subseteq BDA /\ DOMAIN raw = seeded
  BY <1>1 DEF ReportsInit
<1>3. \A b \in seeded : Drawn(HistoryDays, raw[b])
  <2> TAKE b \in seeded
  <2>1. raw[b] \in Raw(HistoryDays, MaxSeeded)  BY <1>1
  <2>2. QED  BY <2>1, DaysOfHistory, RawIsDrawn
<1>4. \A b \in seeded : DOMAIN raw[b] = 0 .. HistoryDays - 1
  BY <1>3 DEF Drawn
<1>5. \A k \in BDA \X Day :
        daily[k] = IF k[1] \in seeded /\ k[2] < HistoryDays THEN SeedDay(raw[k[1]], k[2])
                                                          ELSE EmptyDay
  <2> TAKE k \in BDA \X Day
  <2>1. daily[k] = IF k[1] \in DOMAIN raw /\ k[2] \in DOMAIN raw[k[1]]
                   THEN SeedDay(raw[k[1]], k[2]) ELSE EmptyDay
    BY <1>1 DEF Seeded
  <2>2. k[1] \in seeded => (k[2] \in DOMAIN raw[k[1]] <=> k[2] < HistoryDays)
    <3>1. k[2] \in Day  OBVIOUS
    <3>2. k[2] < HistoryDays <=> k[2] \in 0 .. HistoryDays - 1  BY <3>1, DaysOfHistory
    <3>3. QED  BY <1>4, <3>2
  <2>3. QED  BY <1>2, <2>1, <2>2
<1>6. \A a \in Account :
        users[a] = IF a \in seeded THEN SeedUser(raw[a])
                                   ELSE [current |-> 0, best |-> 0, last |-> Never]
  BY <1>1, <1>2 DEF Seeded
<1>7. \A e : e \in events <=> \E b \in seeded : e \in SeedEvents(b, raw[b])
  BY <1>1, <1>2 DEF Seeded
<1>8. \A e \in events : /\ e.bda \in seeded /\ e.date \in 0 .. HistoryDays - 1
                        /\ e \in SeedEvents(e.bda, raw[e.bda])
  BY <1>3, <1>7, SeededEvents
<1>9. ASSUME NEW k \in BDA \X Day, NEW type \in {"LOGIN", "LEAD_WON", "LEAD_DROPPED"}
      PROVE  {e \in events : <<e.bda, e.date>> = k /\ e.type = type}
               = IF k[1] \in seeded /\ k[2] < HistoryDays
                 THEN EventsOn(k[1], raw[k[1]], k[2], type) ELSE {}
  <2>1. CASE k[1] \in seeded /\ k[2] < HistoryDays
    <3>1. \A e : e \in SeedEvents(k[1], raw[k[1]]) => e \in events /\ e.bda = k[1]
      BY <1>3, <1>7, <2>1, SeededEvents
    <3>2. k = <<k[1], k[2]>>  OBVIOUS
    <3>3. \A e \in events : <<e.bda, e.date>> = k <=> e.bda = k[1] /\ e.date = k[2]
      BY <3>2
    <3>4. QED  BY <1>8, <2>1, <3>1, <3>3 DEF EventsOn
  <2>2. CASE ~(k[1] \in seeded /\ k[2] < HistoryDays)
    <3>1. \A e \in events : <<e.bda, e.date>> # k
      BY <1>8, <2>2, DaysOfHistory
    <3>2. QED  BY <2>2, <3>1
  <2>3. QED  BY <2>1, <2>2
<1>10. StartsFrom(raw)  BY <1>3, <1>5, <1>6, <1>8, <1>9 DEF StartsFrom
<1>11. QED  BY <1>10

LEMMA InitTypes ==
  ASSUME ReportsInit
  PROVE  TypeOK /\ ActTypeOK /\ seeded \subseteq BDA
<1>1. PICK raw : StartsFrom(raw)  BY InitStarts
<1>2. seeded \subseteq BDA /\ BDA \subseteq Account  BY DEF ReportsInit, Account
<1>3. EmptyDay \in Daily  BY DEF EmptyDay, Daily
<1>4. \A b \in seeded, d \in Day : d < HistoryDays => SeedDay(raw[b], d) \in Daily
  BY <1>1, DaysOfHistory, SeededDay DEF StartsFrom
<1>5. daily \in [BDA \X Day -> Daily]
  <2>1. daily = [k \in BDA \X Day |-> daily[k]]
    BY DEF ReportsInit, StoresSeeded, Seeded
  <2>2. \A k \in BDA \X Day : k[1] \in BDA /\ k[2] \in Day  OBVIOUS
  <2>3. \A k \in BDA \X Day : daily[k] \in Daily
    BY <1>1, <1>3, <1>4, <2>2 DEF StartsFrom
  <2>4. QED  BY <2>1, <2>3
<1>6. \A b \in seeded : SeedUser(raw[b]) \in User
  <2> TAKE b \in seeded
  <2> DEFINE u == SeedUser(raw[b])
  <2>1. Drawn(HistoryDays, raw[b])  BY <1>1 DEF StartsFrom
  <2>2. LoginsOf(raw[b]) \subseteq Day
    BY <2>1, DaysOfHistory DEF Drawn, LoginsOf
  <2>3. u.last \in Day \cup {Never} /\ u.current \in Nat /\ u.best \in Nat
    BY <2>1, <2>2, SeededUser
  <2>4. u = [current |-> u.current, best |-> u.best, last |-> u.last]  BY DEF SeedUser
  <2> HIDE DEF u
  <2>5. u \in User  BY <2>3, <2>4 DEF User
  <2>6. QED  BY <2>5 DEF u
<1>7. users \in [Account -> User]
  <2>1. users = [a \in Account |-> users[a]]
    BY DEF ReportsInit, StoresSeeded, Seeded
  <2>2. [current |-> 0, best |-> 0, last |-> Never] \in User  BY DEF User
  <2>3. \A a \in Account : users[a] \in User
    BY <1>1, <1>6, <2>2 DEF StartsFrom
  <2>4. QED  BY <2>1, <2>3
<1>8. events \in SUBSET Event
  <2> SUFFICES ASSUME NEW e \in events PROVE e \in Event  OBVIOUS
  <2>1. /\ e.bda \in seeded /\ e.date \in 0 .. HistoryDays - 1
        /\ e \in SeedEvents(e.bda, raw[e.bda]) /\ Drawn(HistoryDays, raw[e.bda])
    BY <1>1 DEF StartsFrom
  <2>2. /\ e.type \in {"LOGIN", "LEAD_WON", "LEAD_DROPPED"}
        /\ e.points \in Int /\ e.streak \in Nat /\ e.stamp \in Stamp
        /\ e = [bda |-> e.bda, date |-> e.date, type |-> e.type, stamp |-> e.stamp,
                points |-> e.points, streak |-> e.streak]
    BY <2>1, SeededEvents DEF Stamp
  <2>3. e.bda \in BDA /\ e.date \in Day  BY <1>2, <2>1, DaysOfHistory
  <2>4. QED  BY <2>2, <2>3 DEF Event
<1>9. ver \in Nat /\ today \in Day /\ faults \in 0 .. MaxFaults
  BY DaysOfHistory, StoresAssumption DEF ReportsInit, StoresSeeded, StoresAssumption
<1>10. StoresTypeOK  BY <1>5, <1>7, <1>8, <1>9 DEF StoresTypeOK
<1>11. /\ locks = {} /\ sessions = {} /\ pc = [r \in LoginReq |-> "idle"]
       /\ loc \in [LoginReq -> Local]
  <2>1. PICK f \in [LoginReq -> Account] :
          loc = [r \in LoginReq |->
                  [account |-> f[r], began |-> 0,
                   user |-> [current |-> 0, best |-> 0, last |-> Never],
                   today |-> 0, yesterday |-> Never, streak |-> 0, reward |-> Nil]]
    BY DEF ReportsInit, LoginsIdle
  <2>2. [current |-> 0, best |-> 0, last |-> Never] \in User /\ Nil \in Reward
    BY DEF User, Nil, Reward
  <2>3. QED  BY <2>1, <2>2, DaysOfHistory DEF ReportsInit, LoginsIdle, Local
<1>12. TypeOK  BY <1>10, <1>11 DEF TypeOK, Serving
<1>13. actPc = [r \in ActReq |-> "idle"] /\ actLoc \in [ActReq -> ActLocal]
  BY DaysOfHistory DEF ReportsInit, RequestsIdle, ActLocal, LeadOutcome, CallOutcome, Stamp
<1>14. ActTypeOK  BY <1>10, <1>13 DEF ActTypeOK, ActServing
<1>15. QED  BY <1>2, <1>12, <1>14

\* The history is one the login handler could have left ...
LEMMA InitLoginPart ==
  ASSUME ReportsInit
  PROVE  LoginInv
<1>1. PICK raw : StartsFrom(raw)  BY InitStarts
<1>2. TypeOK /\ seeded \subseteq BDA  BY InitTypes
<1> DEFINE S(b, d) == StreakThrough(raw[b])[d]
           On(k) == {e \in events : <<e.bda, e.date>> = k /\ e.type = "LOGIN"}
           LoggedIn(k) == k[1] \in seeded /\ k[2] < HistoryDays /\ raw[k[1]][k[2]].loggedIn
<1>3. ASSUME NEW b \in seeded, NEW d \in Day, d < HistoryDays
      PROVE  /\ S(b, d) \in Nat /\ (raw[b][d].loggedIn => S(b, d) >= 1)
             /\ raw[b][d].loggedIn \in BOOLEAN
             /\ EventsOn(b, raw[b], d, "LOGIN")
                  = IF raw[b][d].loggedIn THEN {LoginEvent(b, d, S(b, d))} ELSE {}
             /\ LET doc == SeedDay(raw[b], d)
                IN  /\ doc.loggedIn = raw[b][d].loggedIn /\ doc.streakDay = S(b, d)
                    /\ doc.loginPoints = IF raw[b][d].loggedIn THEN LoginPoints(S(b, d)) ELSE 0
  <2>1. Drawn(HistoryDays, raw[b]) /\ d \in 0 .. HistoryDays - 1
    BY <1>1, <1>3, DaysOfHistory DEF StartsFrom
  <2>2. raw[b][d].loggedIn \in BOOLEAN  BY <2>1 DEF Drawn, DrawnDay
  <2>3. S(b, d) \in Nat /\ (raw[b][d].loggedIn => S(b, d) >= 1)
    BY <2>1, StreaksOfHistory
  <2>4. EventsOn(b, raw[b], d, "LOGIN")
          = IF raw[b][d].loggedIn THEN {LoginEvent(b, d, S(b, d))} ELSE {}
    BY <2>1, SeededEvents
  <2>5. LET doc == SeedDay(raw[b], d)
        IN  /\ doc.loggedIn = raw[b][d].loggedIn /\ doc.streakDay = S(b, d)
            /\ doc.loginPoints = IF raw[b][d].loggedIn THEN LoginPoints(S(b, d)) ELSE 0
    BY <2>1, SeededDay
  <2>6. QED  BY <2>2, <2>3, <2>4, <2>5
<1> HIDE DEF S
<1>4. ASSUME NEW k \in BDA \X Day
      PROVE  /\ LoggedIn(k) =>
                  /\ On(k) = {LoginEvent(k[1], k[2], S(k[1], k[2]))}
                  /\ S(k[1], k[2]) \in Nat /\ S(k[1], k[2]) >= 1
                  /\ daily[k].loggedIn /\ daily[k].streakDay = S(k[1], k[2])
                  /\ daily[k].loginPoints = LoginPoints(S(k[1], k[2]))
             /\ ~LoggedIn(k) => On(k) = {} /\ ~daily[k].loggedIn /\ daily[k].loginPoints = 0
  <2>1. k[1] \in BDA /\ k[2] \in Day  OBVIOUS
  <2>2. /\ daily[k] = IF k[1] \in seeded /\ k[2] < HistoryDays
                      THEN SeedDay(raw[k[1]], k[2]) ELSE EmptyDay
        /\ On(k) = IF k[1] \in seeded /\ k[2] < HistoryDays
                   THEN EventsOn(k[1], raw[k[1]], k[2], "LOGIN") ELSE {}
    BY <1>1 DEF StartsFrom
  <2>3. CASE k[1] \in seeded /\ k[2] < HistoryDays
    <3> DEFINE b == k[1]
               d == k[2]
               doc == SeedDay(raw[b], d)
               in == raw[b][d].loggedIn
    <3>1. /\ S(b, d) \in Nat /\ (in => S(b, d) >= 1) /\ in \in BOOLEAN
          /\ EventsOn(b, raw[b], d, "LOGIN") = IF in THEN {LoginEvent(b, d, S(b, d))} ELSE {}
          /\ doc.loggedIn = in /\ doc.streakDay = S(b, d)
          /\ doc.loginPoints = IF in THEN LoginPoints(S(b, d)) ELSE 0
      BY <1>3, <2>1, <2>3
    <3>2. On(k) = EventsOn(b, raw[b], d, "LOGIN") /\ daily[k] = doc /\ (LoggedIn(k) <=> in)
      BY <2>2, <2>3
    <3> HIDE DEF b, d, doc, in, On, LoggedIn
    <3>3. /\ in => /\ On(k) = {LoginEvent(b, d, S(b, d))} /\ daily[k].loggedIn
                   /\ daily[k].loginPoints = LoginPoints(S(b, d))
          /\ ~in => On(k) = {} /\ ~daily[k].loggedIn /\ daily[k].loginPoints = 0
      BY <3>1, <3>2
    <3>4. QED  BY <3>1, <3>2, <3>3 DEF b, d
  <2>4. CASE ~(k[1] \in seeded /\ k[2] < HistoryDays)
    BY <2>2, <2>4 DEF EmptyDay
  <2>5. QED  BY <2>3, <2>4
<1>5. \A e \in Logins : /\ <<e.bda, e.date>> \in BDA \X Day
                        /\ e \in On(<<e.bda, e.date>>)
  BY <1>2 DEF Logins, TypeOK, StoresTypeOK, Event
<1>6. LedgerOK
  <2>1. ASSUME NEW e \in Logins
        PROVE  e.stamp = "none" /\ e.streak >= 1 /\ e.points = LoginPoints(e.streak)
    <3> DEFINE k == <<e.bda, e.date>>
    <3>1. k \in BDA \X Day /\ e \in On(k)  BY <1>5
    <3>2. LoggedIn(k)  BY <1>4, <3>1
    <3>3. e = LoginEvent(k[1], k[2], S(k[1], k[2])) /\ S(k[1], k[2]) >= 1
      BY <1>4, <3>1, <3>2
    <3> HIDE DEF k
    <3>4. QED  BY <3>3 DEF LoginEvent
  <2>2. ASSUME NEW e \in Logins, NEW f \in Logins, <<e.bda, e.date>> = <<f.bda, f.date>>
        PROVE  e = f
    <3> DEFINE k == <<e.bda, e.date>>
    <3>1. k \in BDA \X Day /\ e \in On(k) /\ f \in On(k)  BY <1>5, <2>2
    <3> HIDE DEF k
    <3>2. QED  BY <1>4, <3>1
  <2>3. QED  BY <2>1, <2>2 DEF LedgerOK
<1>7. RollupOK
  <2> SUFFICES ASSUME NEW k \in BDA \X Day
               PROVE  \/ daily[k].loginPoints = 0 /\ ~daily[k].loggedIn
                      \/ /\ daily[k].loggedIn
                         /\ LoginEvent(k[1], k[2], daily[k].streakDay) \in events
                         /\ daily[k].loginPoints = LoginPoints(daily[k].streakDay)
    BY DEF RollupOK
  <2>1. CASE LoggedIn(k)
    <3>1. LoginEvent(k[1], k[2], S(k[1], k[2])) \in On(k)  BY <1>4, <2>1
    <3>2. LoginEvent(k[1], k[2], S(k[1], k[2])) \in events  BY <3>1
    <3>3. QED  BY <1>4, <2>1, <3>2
  <2>2. CASE ~LoggedIn(k)  BY <1>4, <2>2
  <2>3. QED  BY <2>1, <2>2
<1>8. StreakBacked
  <2> SUFFICES ASSUME NEW b \in BDA, users[b].last # Never
               PROVE  /\ daily[<<b, users[b].last>>].loggedIn
                      /\ daily[<<b, users[b].last>>].streakDay = users[b].current
    BY DEF StreakBacked
  <2> DEFINE d == users[b].last
  <2>1. b \in seeded /\ users[b] = SeedUser(raw[b])
    BY <1>1 DEF StartsFrom, Account
  <2>2. Drawn(HistoryDays, raw[b])  BY <1>1, <2>1 DEF StartsFrom
  <2>3. d \in LoginsOf(raw[b]) /\ users[b].current = S(b, d)
    BY <2>1, <2>2, SeededUser DEF S
  <2>4. d \in 0 .. HistoryDays - 1 /\ raw[b][d].loggedIn
    BY <2>2, <2>3 DEF LoginsOf, Drawn
  <2> HIDE DEF d
  <2>5. d \in Day /\ d < HistoryDays  BY <2>4, DaysOfHistory
  <2>6. <<b, d>> \in BDA \X Day /\ LoggedIn(<<b, d>>)  BY <2>1, <2>4, <2>5
  <2>7. QED  BY <1>4, <2>3, <2>6 DEF d
<1>9. \A r \in LoginReq : pc[r] = "idle" /\ loc[r].reward.kind = "none"
  BY DEF ReportsInit, LoginsIdle, Nil
<1>10. (\A r \in LoginReq : RequestOK(r)) /\ OneClaim
  BY <1>9 DEF RequestOK, OneClaim, Claimed
<1>11. QED  BY <1>2, <1>6, <1>7, <1>8, <1>10 DEF LoginInv

\* ... and the handlers of leads and calls.
LEMMA InitActPart ==
  ASSUME ReportsInit
  PROVE  ActInv
<1>1. PICK raw : StartsFrom(raw)  BY InitStarts
<1>2. ActTypeOK /\ seeded \subseteq BDA  BY InitTypes
<1>3. today = HistoryDays - 1 /\ actPc = [r \in ActReq |-> "idle"]
  BY DEF ReportsInit, StoresSeeded, RequestsIdle
<1>4. ASSUME NEW b \in seeded, NEW d \in Day, d < HistoryDays
      PROVE  /\ EventsOn(b, raw[b], d, "LEAD_WON")
                  = SeedLeads(b, d, "LEAD_WON", LeadWon, raw[b][d].won)
             /\ EventsOn(b, raw[b], d, "LEAD_DROPPED")
                  = SeedLeads(b, d, "LEAD_DROPPED", LeadDropped, raw[b][d].dropped)
             /\ raw[b][d].won \in 0 .. 5 /\ raw[b][d].dropped \in 0 .. 5
             /\ LET doc == SeedDay(raw[b], d)
                IN  /\ doc.calls = raw[b][d].calls
                    /\ doc.leadsWon = raw[b][d].won /\ doc.leadPoints = raw[b][d].won * LeadWon
                    /\ doc.leadsDropped = raw[b][d].dropped
                    /\ doc.penaltyPoints = raw[b][d].dropped * LeadDropped
                    /\ doc.points = doc.loginPoints + doc.leadPoints + doc.penaltyPoints
  <2>1. Drawn(HistoryDays, raw[b]) /\ d \in 0 .. HistoryDays - 1
    BY <1>1, <1>4, DaysOfHistory DEF StartsFrom
  <2>2. raw[b][d].won \in 0 .. 5 /\ raw[b][d].dropped \in 0 .. 5
    BY <2>1 DEF Drawn, DrawnDay, MostWon, MostDropped
  <2>3. /\ EventsOn(b, raw[b], d, "LEAD_WON")
             = SeedLeads(b, d, "LEAD_WON", LeadWon, raw[b][d].won)
        /\ EventsOn(b, raw[b], d, "LEAD_DROPPED")
             = SeedLeads(b, d, "LEAD_DROPPED", LeadDropped, raw[b][d].dropped)
    BY <2>1, SeededEvents
  <2>4. LET doc == SeedDay(raw[b], d)
        IN  /\ doc.calls = raw[b][d].calls
            /\ doc.leadsWon = raw[b][d].won /\ doc.leadPoints = raw[b][d].won * LeadWon
            /\ doc.leadsDropped = raw[b][d].dropped
            /\ doc.penaltyPoints = raw[b][d].dropped * LeadDropped
            /\ doc.points = doc.loginPoints + doc.leadPoints + doc.penaltyPoints
    BY <2>1, SeededDay
  <2>5. QED  BY <2>2, <2>3, <2>4
<1>5. ASSUME NEW k \in BDA \X Day
      PROVE  /\ k[1] \in BDA /\ k[2] \in Day
             /\ daily[k] = IF k[1] \in seeded /\ k[2] < HistoryDays
                           THEN SeedDay(raw[k[1]], k[2]) ELSE EmptyDay
             /\ \A type \in {"LEAD_WON", "LEAD_DROPPED"} :
                  LeadsOf(k, type) = IF k[1] \in seeded /\ k[2] < HistoryDays
                                     THEN EventsOn(k[1], raw[k[1]], k[2], type) ELSE {}
  BY <1>1 DEF StartsFrom, LeadsOf
<1>6. PointsAddUp
  <2> SUFFICES ASSUME NEW k \in BDA \X Day
               PROVE  LET d == daily[k] IN
                        /\ d.points = d.loginPoints + d.leadPoints + d.penaltyPoints
                        /\ d.leadPoints = LeadWon * d.leadsWon
                        /\ d.penaltyPoints = LeadDropped * d.leadsDropped
    BY DEF PointsAddUp
  <2>1. CASE k[1] \in seeded /\ k[2] < HistoryDays
    <3>1. \A n \in 0 .. 5 : n * LeadWon = LeadWon * n /\ n * LeadDropped = LeadDropped * n
      BY DEF LeadWon, LeadDropped
    <3> DEFINE doc == SeedDay(raw[k[1]], k[2])
               day == raw[k[1]][k[2]]
    <3>2. /\ day.won \in 0 .. 5 /\ day.dropped \in 0 .. 5
          /\ doc.leadsWon = day.won /\ doc.leadPoints = day.won * LeadWon
          /\ doc.leadsDropped = day.dropped /\ doc.penaltyPoints = day.dropped * LeadDropped
          /\ doc.points = doc.loginPoints + doc.leadPoints + doc.penaltyPoints
      BY <1>4, <1>5, <2>1
    <3>3. daily[k] = doc  BY <1>5, <2>1
    <3> HIDE DEF doc, day
    <3>4. QED  BY <3>1, <3>2, <3>3
  <2>2. CASE ~(k[1] \in seeded /\ k[2] < HistoryDays)
    BY <1>5, <2>2 DEF EmptyDay, LeadWon, LeadDropped
  <2>3. QED  BY <2>1, <2>2
<1>7. NothingAheadOfToday
  <2>1. \A e \in events : e.date <= today
    BY <1>1, <1>3, DaysOfHistory DEF StartsFrom
  <2>2. ASSUME NEW k \in BDA \X Day, daily[k] # EmptyDay PROVE k[2] <= today
    <3>1. k[2] \in 0 .. HistoryDays - 1  BY <1>5, <2>2, DaysOfHistory
    <3>2. QED  BY <1>3, <3>1, DaysOfHistory
  <2>3. QED  BY <2>1, <2>2 DEF NothingAheadOfToday
<1>8. ASSUME NEW k \in BDA \X Day, NEW o \in {"won", "dropped"}
      PROVE  /\ IsFiniteSet(LeadsOf(k, TypeOf(o)))
             /\ Leads(k, TypeOf(o)) = Counter(o, daily[k])
             /\ Counter(o, daily[k]) \in Nat
  <2>0. Leads(k, TypeOf(o)) = Cardinality(LeadsOf(k, TypeOf(o)))  BY DEF Leads, LeadsOf
  <2>1. TypeOf(o) \in {"LEAD_WON", "LEAD_DROPPED"}  BY DEF TypeOf
  <2>2. CASE k[1] \in seeded /\ k[2] < HistoryDays
    <3> DEFINE n == Counter(o, daily[k])
               b == k[1]
               d == k[2]
               doc == SeedDay(raw[b], d)
               points == IF o = "won" THEN LeadWon ELSE LeadDropped
    <3>1. /\ LeadsOf(k, TypeOf(o)) = EventsOn(b, raw[b], d, TypeOf(o)) /\ daily[k] = doc
      BY <1>5, <2>1, <2>2
    <3>2. /\ EventsOn(b, raw[b], d, "LEAD_WON")
               = SeedLeads(b, d, "LEAD_WON", LeadWon, raw[b][d].won)
          /\ EventsOn(b, raw[b], d, "LEAD_DROPPED")
               = SeedLeads(b, d, "LEAD_DROPPED", LeadDropped, raw[b][d].dropped)
          /\ raw[b][d].won \in 0 .. 5 /\ raw[b][d].dropped \in 0 .. 5
          /\ doc.leadsWon = raw[b][d].won /\ doc.leadsDropped = raw[b][d].dropped
      BY <1>4, <1>5, <2>2
    <3> HIDE DEF b, d, doc
    <3>3. n = (IF o = "won" THEN raw[b][d].won ELSE raw[b][d].dropped) /\ n \in 0 .. 5
      BY <3>1, <3>2 DEF Counter
    <3>4. EventsOn(b, raw[b], d, TypeOf(o)) = SeedLeads(b, d, TypeOf(o), points, n)
      BY <3>2, <3>3 DEF TypeOf
    <3>5. points \in Int  BY DEF LeadWon, LeadDropped
    <3> HIDE DEF n, points
    <3>6. /\ IsFiniteSet(LeadsOf(k, TypeOf(o))) /\ Cardinality(LeadsOf(k, TypeOf(o))) = n
      BY <3>1, <3>3, <3>4, <3>5, SeededLeads
    <3>7. QED  BY <2>0, <3>3, <3>6 DEF n
  <2>3. CASE ~(k[1] \in seeded /\ k[2] < HistoryDays)
    <3>1. LeadsOf(k, TypeOf(o)) = {} /\ daily[k] = EmptyDay  BY <1>5, <2>1, <2>3
    <3>2. Counter(o, daily[k]) = 0  BY <3>1 DEF Counter, EmptyDay
    <3>3. QED  BY <2>0, <3>1, <3>2, FS_EmptySet
  <2>4. QED  BY <2>2, <2>3
<1>9. FinitelyMany
  <2>1. {r \in ActReq : actPc[r] # "idle"} = {}  BY <1>3
  <2>2. QED  BY <1>8, <2>1, FS_EmptySet DEF FinitelyMany
<1>10. \A labels \in SUBSET {"bump", "read", "ok", "rollup", "failed"},
           k \in BDA \X Day, o \in Outcome :
         At(labels, o, k) = 0
  <2> TAKE labels \in SUBSET {"bump", "read", "ok", "rollup", "failed"},
            k \in BDA \X Day, o \in Outcome
  <2>1. {r \in ActReq : actPc[r] \in labels /\ actLoc[r].outcome = o /\ RollupKey(r) = k} = {}
    BY <1>3
  <2>2. QED  BY <2>1, FS_EmptySet DEF At
<1>11. \A k \in BDA \X Day, o \in Outcome : Counter(o, daily[k]) >= 0
  BY <1>2 DEF Counter, Outcome, ActTypeOK, StoresTypeOK, Daily
<1>12. Acknowledged /\ Tracked
  BY <1>8, <1>10, <1>11 DEF Acknowledged, Tracked, Outcome
<1>13. QED
  BY <1>2, <1>3, <1>6, <1>7, <1>9, <1>12 DEF ActInv, Sound, Kinds, Kind, DatesHaveCome

-----------------------------------------------------------------------------
(* The two kinds of writers leave each other's books alone.                *)

\* No request is ahead of the clock.
LocAhead == \A r \in LoginReq : loc[r].today <= today

Writers == LoginInv /\ ActInv /\ LocAhead /\ seeded \subseteq BDA

\* What recordLogin writes in a rollup, and a rollup as it has it.
SameLogin(old, new) ==
  new.loggedIn = old.loggedIn /\ new.streakDay = old.streakDay /\ new.loginPoints = old.loginPoints

\* What only grows: the calendar, the ledger and the counts; what is credited for a login, and
\* an answered request, stay as they are.
Grows ==
  /\ today' >= today /\ events \subseteq events' /\ faults' >= faults
  /\ \A k \in BDA \X Day :
       /\ \A o \in Outcome : Counter(o, daily'[k]) >= Counter(o, daily[k])
       /\ daily[k].loginPoints # 0 => SameLogin(daily[k], daily'[k])
       /\ daily[k] # EmptyDay => daily'[k] # EmptyDay
  /\ \A r \in ActReq : actPc[r] = "ok" => actPc'[r] = "ok" /\ actLoc'[r] = actLoc[r]

\* A step of a login request changes the ledger by the login it posts, and the rollups by
\* the one it credits, which has no login yet.
LEMMA LoginStep ==
  ASSUME Writers, NEW r \in LoginReq, Serve(r) \/ Die(r)
  PROVE  /\ StoresTypeOK' /\ today' = today /\ faults' >= faults
         /\ UNCHANGED events \/ (pc[r] = "insert" /\ events' = events \cup {EventOf(r)})
         /\ \/ UNCHANGED daily
            \/ /\ LockKey(r) \in BDA \X Day /\ LockKey(r)[2] <= today /\ loc[r].streak \in Nat
               /\ daily[LockKey(r)].loginPoints = 0
               /\ daily' = [daily EXCEPT ![LockKey(r)] =
                                           LoginDay(daily[LockKey(r)], loc[r].streak)]
<1>0. /\ TypeOK /\ RequestOK(r) /\ loc[r] \in Local /\ loc[r].today <= today
      /\ today \in Nat /\ faults \in Nat
  BY StoresAssumption
  DEF Writers, LocAhead, LoginInv, TypeOK, StoresTypeOK, Day, StoresAssumption
<1>1. TypeOK'
  <2>1. [Next]_vars  BY DEF Next
  <2>2. QED  BY <1>0, <2>1, NextTypeOK
<1>2. faults' >= faults /\ today' = today
  <2>1. UNCHANGED faults \/ faults' = faults + 1
    BY DEF Serve, FindUser, Verify, ReadYesterday, AcquireLoginLock, RereadUser,
           InsertLoginEvent, ReleaseLoginLock, UpsertLoginDay, SaveStreak, InvalidateCache,
           SaveSession, Die, Fails, Answers, Errs, storeVars
  <2>2. today' = today
    BY DEF Serve, FindUser, Verify, ReadYesterday, AcquireLoginLock, RereadUser,
           InsertLoginEvent, ReleaseLoginLock, UpsertLoginDay, SaveStreak, InvalidateCache,
           SaveSession, Die, storeVars
  <2>3. QED  BY <1>0, <2>1, <2>2
<1>3. UNCHANGED events \/ (pc[r] = "insert" /\ events' = events \cup {EventOf(r)})
  <2>1. CASE Serve(r)  BY <2>1, ServeWrites DEF InsertEvent
  <2>2. CASE Die(r)  BY <2>2 DEF Die
  <2>3. QED  BY <2>1, <2>2
<1>4. \/ UNCHANGED daily
      \/ pc[r] = "rollup" /\ CreditRollup(r)
  BY DEF Serve, FindUser, Verify, ReadYesterday, AcquireLoginLock, RereadUser,
         InsertLoginEvent, ReleaseLoginLock, UpsertLoginDay, SaveStreak, InvalidateCache,
         SaveSession, Die, storeVars
<1>5. CASE pc[r] = "rollup" /\ CreditRollup(r)
  <2>1. loc[r].account \in BDA  BY <1>0, <1>5 DEF TypeOK, Serving
  <2>2. /\ LockKey(r) \in BDA \X Day /\ LockKey(r)[2] <= today /\ loc[r].streak \in Nat
        /\ daily[LockKey(r)].loginPoints = 0
    BY <1>0, <1>5, <2>1 DEF Local, LockKey, RequestOK
  <2>3. daily' = [daily EXCEPT ![LockKey(r)] = LoginDay(daily[LockKey(r)], loc[r].streak)]
    BY <1>5 DEF CreditRollup, UpsertDaily, LockKey
  <2>4. QED  BY <1>1, <1>2, <1>3, <2>2, <2>3 DEF TypeOK
<1>6. QED  BY <1>1, <1>2, <1>3, <1>4, <1>5 DEF TypeOK

\* A login adds its points to the net points and counts nothing.
LEMMA LoginDayCounts ==
  ASSUME NEW doc \in Daily, NEW s \in Nat
  PROVE  LET new == LoginDay(doc, s)
         IN  /\ \A o \in Outcome : Counter(o, new) = Counter(o, doc)
             /\ new.leadPoints = doc.leadPoints /\ new.penaltyPoints = doc.penaltyPoints
             /\ new.leadsWon = doc.leadsWon /\ new.leadsDropped = doc.leadsDropped
             /\ new.points = doc.points + LoginPoints(s)
             /\ new.loginPoints = doc.loginPoints + LoginPoints(s)
             /\ new # EmptyDay
<1> DEFINE p == LoginPoints(s)
<1>1. LoginDay(doc, s) = [doc EXCEPT !.loggedIn = TRUE, !.streakDay = s,
                            !.loginPoints = @ + p, !.points = @ + p]
  BY DEF LoginDay
<1>2. p \in Int  BY LoginPointsRange
<1> HIDE DEF p
<1> DEFINE new == LoginDay(doc, s)
<1>3. /\ new.leadPoints = doc.leadPoints /\ new.penaltyPoints = doc.penaltyPoints
      /\ new.leadsWon = doc.leadsWon /\ new.leadsDropped = doc.leadsDropped
      /\ new.calls = doc.calls /\ new.callMinutes = doc.callMinutes /\ new.loggedIn = TRUE
      /\ new.points = doc.points + p /\ new.loginPoints = doc.loginPoints + p
  BY <1>1 DEF Daily
<1>4. EmptyDay.loggedIn = FALSE  BY DEF EmptyDay
<1> HIDE DEF new
<1>5. \A o \in Outcome : Counter(o, new) = Counter(o, doc)
  BY <1>3 DEF Counter, Outcome
<1>6. QED  BY <1>3, <1>4, <1>5 DEF p, new

LEMMA LoginKeepsActInv ==
  ASSUME Writers, NEW r \in LoginReq, Serve(r) \/ Die(r), UNCHANGED <<actPc, actLoc>>
  PROVE  ActInv' /\ Grows
<1>1. /\ ActInv /\ LoginInv /\ TypeOK /\ daily \in [BDA \X Day -> Daily] /\ today \in Nat
  BY DEF Writers, LoginInv, TypeOK, StoresTypeOK, Day
<1>2. /\ StoresTypeOK' /\ today' = today /\ faults' >= faults
      /\ UNCHANGED events \/ (pc[r] = "insert" /\ events' = events \cup {EventOf(r)})
  BY LoginStep
<1>3. ASSUME NEW k \in BDA \X Day
      PROVE  /\ \A o \in Outcome : Counter(o, daily'[k]) = Counter(o, daily[k])
             /\ daily'[k].leadPoints = daily[k].leadPoints
             /\ daily'[k].penaltyPoints = daily[k].penaltyPoints
             /\ daily'[k].leadsWon = daily[k].leadsWon
             /\ daily'[k].leadsDropped = daily[k].leadsDropped
             /\ daily'[k].points - daily'[k].loginPoints = daily[k].points - daily[k].loginPoints
             /\ daily[k].loginPoints # 0 => daily'[k] = daily[k]
             /\ daily'[k] # EmptyDay => daily[k] # EmptyDay \/ k[2] <= today
             /\ daily[k] # EmptyDay => daily'[k] # EmptyDay
  <2>1. CASE daily'[k] = daily[k]
    BY <2>1
  <2>2. CASE daily'[k] # daily[k]
    <3> DEFINE s == loc[r].streak
    <3>1. /\ k = LockKey(r) /\ k[2] <= today /\ s \in Nat /\ daily[k].loginPoints = 0
          /\ daily'[k] = LoginDay(daily[k], s)
      BY <1>1, <2>2, LoginStep
    <3>2. LoginPoints(s) \in Int /\ daily[k] \in Daily
      BY <1>1, <3>1, LoginPointsRange
    <3> HIDE DEF s
    <3>3. /\ \A o \in Outcome : Counter(o, daily'[k]) = Counter(o, daily[k])
          /\ daily'[k].leadPoints = daily[k].leadPoints
          /\ daily'[k].penaltyPoints = daily[k].penaltyPoints
          /\ daily'[k].leadsWon = daily[k].leadsWon
          /\ daily'[k].leadsDropped = daily[k].leadsDropped
          /\ daily'[k].points = daily[k].points + LoginPoints(s)
          /\ daily'[k].loginPoints = daily[k].loginPoints + LoginPoints(s)
          /\ daily'[k] # EmptyDay
      BY <3>1, <3>2, LoginDayCounts
    <3>4. daily[k].points \in Int /\ daily[k].loginPoints \in Int
      BY <3>2 DEF Daily
    <3>5. QED  BY <3>1, <3>2, <3>3, <3>4
  <2>3. QED  BY <2>1, <2>2
<1>4. \A k, o : LeadsOf(k, TypeOf(o))' = LeadsOf(k, TypeOf(o))
  <2>1. \A o : TypeOf(o) # "LOGIN"  BY DEF TypeOf
  <2>2. EventOf(r).type = "LOGIN"  BY DEF EventOf, LoginEvent
  <2>3. QED  BY <1>2, <2>1, <2>2 DEF LeadsOf
<1>5. PointsAddUp'
  <2> SUFFICES ASSUME NEW k \in BDA \X Day
               PROVE  /\ daily'[k].points = daily'[k].loginPoints + daily'[k].leadPoints
                                                                 + daily'[k].penaltyPoints
                      /\ daily'[k].leadPoints = LeadWon * daily'[k].leadsWon
                      /\ daily'[k].penaltyPoints = LeadDropped * daily'[k].leadsDropped
    BY DEF PointsAddUp
  <2>1. /\ daily[k].points = daily[k].loginPoints + daily[k].leadPoints + daily[k].penaltyPoints
        /\ daily[k].leadPoints = LeadWon * daily[k].leadsWon
        /\ daily[k].penaltyPoints = LeadDropped * daily[k].leadsDropped
    BY <1>1 DEF ActInv, Sound, PointsAddUp
  <2>2. daily'[k] \in Daily /\ daily[k] \in Daily
    BY <1>1, <1>2 DEF StoresTypeOK
  <2>3. /\ daily[k].points \in Int /\ daily[k].loginPoints \in Int
        /\ daily[k].leadPoints \in Int /\ daily[k].penaltyPoints \in Int
        /\ daily'[k].points \in Int /\ daily'[k].loginPoints \in Int
    BY <2>2 DEF Daily
  <2>4. /\ daily'[k].leadPoints = daily[k].leadPoints
        /\ daily'[k].penaltyPoints = daily[k].penaltyPoints
        /\ daily'[k].leadsWon = daily[k].leadsWon
        /\ daily'[k].leadsDropped = daily[k].leadsDropped
        /\ daily'[k].points - daily'[k].loginPoints = daily[k].points - daily[k].loginPoints
    BY <1>3
  <2>5. daily'[k].points = daily'[k].loginPoints + daily'[k].leadPoints + daily'[k].penaltyPoints
    BY <2>1, <2>3, <2>4
  <2>6. QED  BY <2>1, <2>4, <2>5
<1>6. NothingAheadOfToday'
  <2>1. EventOf(r).date <= today
    BY DEF Writers, LocAhead, EventOf, LoginEvent
  <2>2. \A e \in events' : e.date <= today
    BY <1>1, <1>2, <2>1 DEF ActInv, Sound, NothingAheadOfToday
  <2>3. \A k \in BDA \X Day : daily'[k] # EmptyDay => k[2] <= today
    BY <1>1, <1>3 DEF ActInv, Sound, NothingAheadOfToday
  <2>4. QED  BY <1>2, <2>2, <2>3 DEF NothingAheadOfToday
<1>7. ActTypeOK' /\ Kinds' /\ DatesHaveCome'
  BY <1>1, <1>2 DEF ActInv, Sound, ActTypeOK, Kinds, Kind, IsLead, DatesHaveCome
<1>8. FinitelyMany' /\ Acknowledged' /\ Tracked'
  <2>1. \A labels, o, k : At(labels, o, k)' = At(labels, o, k)
    BY DEF At, RollupKey
  <2>2. \A k, o : Leads(k, TypeOf(o))' = Leads(k, TypeOf(o))
    BY <1>4 DEF Leads, LeadsOf
  <2>3. \A k \in BDA \X Day, o \in {"won", "dropped"} : Counter(o, daily'[k]) = Counter(o, daily[k])
    BY <1>3 DEF Outcome
  <2>4. FinitelyMany'  BY <1>1, <1>4 DEF ActInv, FinitelyMany
  <2>5. Acknowledged'  BY <1>1, <1>3, <2>1 DEF ActInv, Acknowledged
  <2>6. Tracked'  BY <1>1, <2>1, <2>2, <2>3 DEF ActInv, Tracked
  <2>7. QED  BY <2>4, <2>5, <2>6
<1>9. Grows
  <2>1. \A k \in BDA \X Day, o \in Outcome : Counter(o, daily[k]) \in Nat
    BY <1>1 DEF Counter, Outcome, Daily
  <2>2. \A k \in BDA \X Day, o \in Outcome : Counter(o, daily'[k]) >= Counter(o, daily[k])
    BY <1>3, <2>1
  <2>3. \A k \in BDA \X Day : daily[k].loginPoints # 0 => SameLogin(daily[k], daily'[k])
    BY <1>3 DEF SameLogin
  <2>4. events \subseteq events'  BY <1>2
  <2>5. QED  BY <1>1, <1>2, <1>3, <2>2, <2>3, <2>4 DEF Grows
<1>10. QED  BY <1>5, <1>6, <1>7, <1>8, <1>9 DEF ActInv, Sound

\* A step of a lead or of calls posts no login, and leaves what logins were credited.
LEMMA ActivityStep ==
  ASSUME Writers, NEW r \in ActReq, Step(r)
  PROVE  /\ ActInv' /\ Grows /\ Logins' = Logins /\ UNCHANGED <<users, today>>
         /\ \A k \in BDA \X Day : SameLogin(daily[k], daily'[k])
<1>1. /\ ActInv /\ Sound /\ daily \in [BDA \X Day -> Daily] /\ today \in Nat /\ faults \in Nat
  BY StoresAssumption
  DEF Writers, ActInv, Sound, ActTypeOK, StoresTypeOK, Day, StoresAssumption
<1>2. ActInv'
  <2>1. Sound' /\ FinitelyMany' /\ Acknowledged' /\ Tracked'
    BY <1>1, StepSound, StepFinite, StepAcknowledged, StepTracked DEF ActInv
  <2>2. QED  BY <2>1 DEF ActInv
<1>3. /\ users' = users /\ today' = today
      /\ \A q \in ActReq \ {r} : actPc'[q] = actPc[q] /\ actLoc'[q] = actLoc[q]
      /\ actPc[r] \notin ActAnswered
      /\ Quiet(r) \/ Logs(r) \/ CountsIn(r)
  BY <1>1, StepMoves, StepEffect
<1>4. events \subseteq events' /\ Logins' = Logins
  <2>1. CASE UNCHANGED events  BY <2>1 DEF Logins
  <2>2. CASE Logs(r)
    <3>1. events' = events \cup {LeadEvent(r)} /\ LeadEvent(r).type # "LOGIN"
      BY <2>2 DEF Logs, InsertEvent, LeadEvent
    <3>2. QED  BY <3>1 DEF Logins
  <2>3. QED  BY <1>3, <2>1, <2>2 DEF Quiet, CountsIn
<1>5. ASSUME NEW k \in BDA \X Day
      PROVE  /\ SameLogin(daily[k], daily'[k])
             /\ \A o \in Outcome : Counter(o, daily'[k]) >= Counter(o, daily[k])
             /\ daily[k] # EmptyDay => daily'[k] # EmptyDay
  <2>0. \A o \in Outcome : Counter(o, daily[k]) \in Nat
    BY <1>1 DEF Counter, Outcome, Daily
  <2>1. CASE daily'[k] = daily[k]
    BY <2>0, <2>1 DEF SameLogin
  <2>2. CASE daily'[k] # daily[k]
    <3>1. CountsIn(r)  BY <1>3, <2>2 DEF Quiet, Logs
    <3> DEFINE k0 == RollupKey(r)
               new == Counted(r, daily[k])
               o0 == actLoc[r].outcome
    <3>2. k0 \in BDA \X Day
      BY <1>1, <3>1, KeyType DEF CountsIn, ActServing
    <3>3. daily' = [daily EXCEPT ![k0] = Counted(r, daily[k0])]
      BY <3>1 DEF CountsIn, CountInRollup, UpsertDaily, RollupKey
    <3> HIDE DEF k0
    <3>4. daily'[k] = new  BY <1>1, <2>2, <3>2, <3>3
    <3>5. \A o \in Outcome :
            Counter(o, new) = Counter(o, daily[k]) + (IF o0 = o THEN 1 ELSE 0)
      BY <1>1, CountedType
    <3>6. o0 \in Outcome
      BY <1>1 DEF Sound, ActTypeOK, ActLocal, LeadOutcome, CallOutcome, Outcome
    <3>7. SameLogin(daily[k], new)
      BY <1>1, <3>6 DEF Counted, CallsCounted, CallOutcome, Outcome, SameLogin, Daily
    <3> HIDE DEF new, o0
    <3>8. new # EmptyDay
      <4>1. Counter(o0, new) > 0  BY <2>0, <3>5, <3>6
      <4>2. Counter(o0, EmptyDay) = 0  BY <3>6 DEF Counter, EmptyDay, Outcome
      <4>3. QED  BY <4>1, <4>2
    <3>9. \A o \in Outcome : Counter(o, new) >= Counter(o, daily[k])
      BY <2>0, <3>5
    <3>10. QED  BY <3>4, <3>7, <3>8, <3>9
  <2>3. QED  BY <2>1, <2>2
<1>6. faults' >= faults
  <2>1. UNCHANGED faults \/ faults' = faults + 1
    <3>1. CASE Submit(r)  BY <3>1 DEF Submit, ActFails, Answers, Errs
    <3>2. CASE ActServe(r) \/ ActDie(r)
      BY <3>2 DEF ActServe, NormalizeDate, StampEvent, InsertLeadEvent, UpsertActivity,
                  ActInvalidateCache, ReadRollup, ActDie, ActFails, Answers, Errs, storeVars
    <3>3. QED  BY <3>1, <3>2 DEF Step
  <2>2. QED  BY <1>1, <2>1
<1>7. \A q \in ActReq : actPc[q] = "ok" => actPc'[q] = "ok" /\ actLoc'[q] = actLoc[q]
  BY <1>3 DEF ActAnswered
<1>8. Grows  BY <1>1, <1>3, <1>4, <1>5, <1>6, <1>7 DEF Grows
<1>9. QED  BY <1>2, <1>3, <1>4, <1>5, <1>8

LEMMA ActivityKeepsLoginInv ==
  ASSUME Writers, NEW r \in ActReq, Step(r), UNCHANGED <<redisVars, pc, loc>>
  PROVE  LoginInv'
<1>1. /\ ActInv' /\ Grows /\ Logins' = Logins /\ UNCHANGED <<users, today>>
      /\ \A k \in BDA \X Day : SameLogin(daily[k], daily'[k])
  BY ActivityStep
<1>2. TypeOK' /\ LoginInv /\ TypeOK
  <2>1. StoresTypeOK'  BY <1>1 DEF ActInv, Sound, ActTypeOK
  <2>2. QED  BY <2>1 DEF Writers, LoginInv, TypeOK, redisVars
<1>3. events \subseteq events'  BY <1>1 DEF Grows
<1>4. LedgerOK'  BY <1>1, <1>2 DEF LoginInv, LedgerOK
<1>5. RollupOK'
  BY <1>1, <1>2, <1>3 DEF LoginInv, RollupOK, SameLogin
<1>6. StreakBacked'
  <2>1. \A b \in BDA : users[b].last # Never => <<b, users[b].last>> \in BDA \X Day
    BY <1>2 DEF TypeOK, StoresTypeOK, User, Account
  <2>2. QED  BY <1>1, <1>2, <2>1 DEF LoginInv, StreakBacked, SameLogin
<1>7. \A q \in LoginReq : RequestOK(q)'
  <2> SUFFICES ASSUME NEW q \in LoginReq PROVE RequestOK(q)'  OBVIOUS
  <2>1. RequestOK(q) /\ loc[q].today \in Day
    BY <1>2 DEF LoginInv, TypeOK, Local
  <2>2. /\ (Claimed(q)' <=> Claimed(q)) /\ EventOf(q)' = EventOf(q) /\ LockKey(q)' = LockKey(q)
    BY DEF Claimed, EventOf, LockKey, LoginEvent
  <2>3. Claimed(q) \/ pc[q] = "rollup" => LockKey(q) \in BDA \X Day
    BY <2>1 DEF RequestOK, LockKey, Claimed
  <2>4. Claimed(q) \/ pc[q] = "rollup" => SameLogin(daily[LockKey(q)], daily'[LockKey(q)])
    BY <1>1, <2>3
  <2>5. QED  BY <1>3, <2>1, <2>2, <2>4 DEF RequestOK, SameLogin
<1>8. OneClaim'
  BY <1>2 DEF LoginInv, OneClaim, Claimed, LockKey
<1>9. QED  BY <1>2, <1>4, <1>5, <1>6, <1>7, <1>8 DEF LoginInv

\* A step of the system that is not a step of a read: of a request, or of the calendar.
Writes ==
  \/ (\E r \in LoginReq : Serve(r) \/ Die(r)) /\ UNCHANGED <<actPc, actLoc>>
  \/ (Midnight \/ \E k \in BDA \X Day : ExpireLock(k)) /\ UNCHANGED <<actPc, actLoc>>
  \/ (\E r \in ActReq : Step(r)) /\ UNCHANGED <<redisVars, pc, loc>>

LEMMA NextWriters ==
  ASSUME Writers, Writes \/ UNCHANGED <<vars, actPc, actLoc>>, seeded' = seeded
  PROVE  Writers' /\ Grows
<1>1. /\ LoginInv /\ ActInv /\ TypeOK /\ today \in Nat /\ \A r \in LoginReq : loc[r].today \in Nat
      /\ daily \in [BDA \X Day -> Daily] /\ faults \in Nat
  BY StoresAssumption
  DEF Writers, LoginInv, TypeOK, StoresTypeOK, Day, StoresAssumption, Local
<1>2. \A k \in BDA \X Day, o \in Outcome : Counter(o, daily[k]) \in Nat
  BY <1>1 DEF Counter, Outcome, Daily
<1>3. ASSUME NEW r \in LoginReq, Serve(r) \/ Die(r), UNCHANGED <<actPc, actLoc>>
      PROVE  Writers' /\ Grows
  <2>1. ActInv' /\ Grows  BY <1>3, LoginKeepsActInv
  <2>2. [Next]_vars  BY <1>3 DEF Next
  <2>3. LoginInv'  BY <1>1, <2>2, NextLoginInv
  <2>4. LocAhead'
    <3>1. CASE Serve(r)
      <4>1. today' = today  BY <1>1, <3>1, ServeStores
      <4>2. loc'[r].today \in {loc[r].today, today}  BY <1>1, <3>1, ServeLocals
      <4>3. \A q \in LoginReq \ {r} : loc'[q] = loc[q]  BY <1>1, <3>1, ServeMoves
      <4>4. QED  BY <1>1, <4>1, <4>2, <4>3 DEF Writers, LocAhead
    <3>2. CASE Die(r)
      BY <3>2 DEF Die, Writers, LocAhead
    <3>3. QED  BY <1>3, <3>1, <3>2
  <2>5. QED  BY <2>1, <2>3, <2>4 DEF Writers
<1>4. CASE UNCHANGED <<users, daily, events, faults, pc, loc, actPc, actLoc>>
           /\ [Next]_vars /\ today' \in Day /\ today' >= today /\ UNCHANGED ver
  <2>1. ActInv'  BY <1>1, <1>4, FrameActInv
  <2>2. LoginInv'  BY <1>1, <1>4, NextLoginInv
  <2>3. today' \in Nat  BY <1>4 DEF Day
  <2>4. LocAhead'  BY <1>1, <1>4, <2>3 DEF Writers, LocAhead
  <2>5. Grows  BY <1>1, <1>2, <1>4 DEF Grows, SameLogin
  <2>6. QED  BY <2>1, <2>2, <2>4, <2>5 DEF Writers
<1>5. CASE (Midnight \/ \E k \in BDA \X Day : ExpireLock(k)) /\ UNCHANGED <<actPc, actLoc>>
  <2>1. today' \in Day /\ today' >= today
    BY <1>1, <1>5, StoresAssumption
    DEF Midnight, ExpireLock, storeVars, TypeOK, StoresTypeOK, Day, StoresAssumption
  <2>2. [Next]_vars  BY <1>5 DEF Next
  <2>3. QED  BY <1>4, <1>5, <2>1, <2>2 DEF Midnight, ExpireLock, storeVars, loginVars
<1>6. CASE UNCHANGED <<vars, actPc, actLoc>>
  <2>1. today' \in Day /\ today' >= today
    BY <1>1, <1>6 DEF vars, storeVars, TypeOK, StoresTypeOK
  <2>2. QED  BY <1>4, <1>6, <2>1 DEF vars, storeVars, loginVars
<1>7. ASSUME NEW r \in ActReq, Step(r), UNCHANGED <<redisVars, pc, loc>>
      PROVE  Writers' /\ Grows
  <2>1. ActInv' /\ Grows /\ today' = today  BY <1>7, ActivityStep
  <2>2. LoginInv'  BY <1>7, ActivityKeepsLoginInv
  <2>3. LocAhead'  BY <1>7, <2>1 DEF Writers, LocAhead
  <2>4. QED  BY <2>1, <2>2, <2>3 DEF Writers
<1>8. QED  BY <1>3, <1>5, <1>6, <1>7 DEF Writes

LEMMA InitWriters == ReportsInit => Writers
<1> SUFFICES ASSUME ReportsInit PROVE Writers  OBVIOUS
<1>1. LoginInv /\ ActInv  BY InitLoginPart, InitActPart
<1>2. \A r \in LoginReq : loc[r].today = 0  BY DEF ReportsInit, LoginsIdle
<1>3. today >= 0  BY DaysOfHistory DEF ReportsInit, StoresSeeded
<1>4. QED  BY <1>1, <1>2, <1>3, InitTypes DEF Writers, LocAhead

-----------------------------------------------------------------------------
(* A read, query by query.                                                 *)

Of(kind) == kind \in {"activity", "overview"}

\* What a read may have left to do.
Remaining(kind) ==
  CASE kind = "none" -> {<<>>}
    [] kind = "activity" ->
         {<<"user", "clock", "rollups", "events">>, <<"clock", "rollups", "events">>,
          <<"rollups", "events">>, <<"events">>, <<>>}
    [] kind = "overview" ->
         {<<"user", "summary", "allTime", "clock", "rollups", "events", "streak">>,
          <<"summary", "allTime", "clock", "rollups", "events", "streak">>,
          <<"allTime", "clock", "rollups", "events", "streak">>,
          <<"clock", "rollups", "events", "streak">>, <<"rollups", "events", "streak">>,
          <<"events", "streak">>, <<"streak">>, <<>>}
    [] kind = "report" -> {<<"minDate", "day">>, <<"day">>, <<>>}

Elems(t) == {t[i] : i \in 1 .. Len(t)}

\* The queries are named once each, and their order is as follows.
InOrder(kind, q, left) ==
  /\ q \in {"user", "clock", "rollups", "events"} => Of(kind)
  /\ q \in {"summary", "allTime", "streak"} => kind = "overview"
  /\ q \in {"minDate", "day"} => kind = "report"
  /\ q \in {"user", "summary", "allTime", "clock", "rollups", "events", "streak",
            "minDate", "day"}
  /\ q = "summary" => left \cap {"user"} = {} /\ "allTime" \in left
  /\ q = "allTime" => left \cap {"user", "summary"} = {}
  /\ q = "clock"   => left \cap {"user", "summary", "allTime"} = {} /\ "rollups" \in left
  /\ q = "rollups" => left \cap {"user", "summary", "allTime", "clock"} = {} /\ "events" \in left
  /\ q = "events"  => left \cap {"user", "summary", "allTime", "clock", "rollups"} = {}
  /\ q = "streak"  => left = {"streak"}
  /\ q = "day"     => left = {"day"}

LEMMA QueriesInOrder ==
  ASSUME NEW kind \in {"activity", "overview", "report"}, NEW t \in Remaining(kind), t # <<>>
  PROVE  /\ Tail(t) \in Remaining(kind) /\ Head(t) \in Elems(t)
         /\ Elems(Tail(t)) = Elems(t) \ {Head(t)}
         /\ InOrder(kind, Head(t), Elems(t))
<1>1. Elems(<<>>) = {}  BY DEF Elems
<1>2. /\ Tail(<<"events">>) = <<>> /\ Tail(<<"streak">>) = <<>> /\ Tail(<<"day">>) = <<>>
      /\ Elems(<<"events">>) = {"events"} /\ Elems(<<"streak">>) = {"streak"}
      /\ Elems(<<"day">>) = {"day"}
  BY DEF Elems
<1>3. CASE kind = "activity"
  <2> DEFINE t1 == <<"user", "clock", "rollups", "events">>
             t2 == <<"clock", "rollups", "events">>
             t3 == <<"rollups", "events">>
  <2>1. /\ Tail(t1) = t2 /\ Tail(t2) = t3 /\ Tail(t3) = <<"events">>
        /\ Head(t1) = "user" /\ Head(t2) = "clock" /\ Head(t3) = "rollups"
        /\ Head(<<"events">>) = "events"
    OBVIOUS
  <2>2. /\ Elems(t1) = {"user", "clock", "rollups", "events"}
        /\ Elems(t2) = {"clock", "rollups", "events"}
        /\ Elems(t3) = {"rollups", "events"}
    BY DEF Elems
  <2>3. Remaining(kind) = {t1, t2, t3, <<"events">>, <<>>}
    BY <1>3 DEF Remaining
  <2> HIDE DEF t1, t2, t3
  <2>4. CASE t = t1  BY <1>3, <2>1, <2>2, <2>3, <2>4 DEF InOrder, Of
  <2>5. CASE t = t2  BY <1>3, <2>1, <2>2, <2>3, <2>5 DEF InOrder, Of
  <2>6. CASE t = t3  BY <1>2, <1>3, <2>1, <2>2, <2>3, <2>6 DEF InOrder, Of
  <2>7. CASE t = <<"events">>
    BY <1>1, <1>2, <1>3, <2>1, <2>2, <2>3, <2>7 DEF InOrder, Of
  <2>8. QED  BY <2>3, <2>4, <2>5, <2>6, <2>7
<1>4. CASE kind = "overview"
  <2> DEFINE t1 == <<"user", "summary", "allTime", "clock", "rollups", "events", "streak">>
             t2 == <<"summary", "allTime", "clock", "rollups", "events", "streak">>
             t3 == <<"allTime", "clock", "rollups", "events", "streak">>
             t4 == <<"clock", "rollups", "events", "streak">>
             t5 == <<"rollups", "events", "streak">>
             t6 == <<"events", "streak">>
  <2>1. /\ Tail(t1) = t2 /\ Tail(t2) = t3 /\ Tail(t3) = t4 /\ Tail(t4) = t5 /\ Tail(t5) = t6
        /\ Tail(t6) = <<"streak">>
        /\ Head(t1) = "user" /\ Head(t2) = "summary" /\ Head(t3) = "allTime"
        /\ Head(t4) = "clock" /\ Head(t5) = "rollups" /\ Head(t6) = "events"
        /\ Head(<<"streak">>) = "streak"
    OBVIOUS
  <2>2. /\ Elems(t1) = {"user", "summary", "allTime", "clock", "rollups", "events", "streak"}
        /\ Elems(t2) = {"summary", "allTime", "clock", "rollups", "events", "streak"}
        /\ Elems(t3) = {"allTime", "clock", "rollups", "events", "streak"}
        /\ Elems(t4) = {"clock", "rollups", "events", "streak"}
        /\ Elems(t5) = {"rollups", "events", "streak"}
        /\ Elems(t6) = {"events", "streak"}
    BY DEF Elems
  <2>3. Remaining(kind) = {t1, t2, t3, t4, t5, t6, <<"streak">>, <<>>}
    BY <1>4 DEF Remaining
  <2> HIDE DEF t1, t2, t3, t4, t5, t6
  <2>4. CASE t = t1  BY <1>4, <2>1, <2>2, <2>3, <2>4 DEF InOrder, Of
  <2>5. CASE t = t2  BY <1>4, <2>1, <2>2, <2>3, <2>5 DEF InOrder, Of
  <2>6. CASE t = t3  BY <1>4, <2>1, <2>2, <2>3, <2>6 DEF InOrder, Of
  <2>7. CASE t = t4  BY <1>4, <2>1, <2>2, <2>3, <2>7 DEF InOrder, Of
  <2>8. CASE t = t5  BY <1>4, <2>1, <2>2, <2>3, <2>8 DEF InOrder, Of
  <2>9. CASE t = t6  BY <1>2, <1>4, <2>1, <2>2, <2>3, <2>9 DEF InOrder, Of
  <2>10. CASE t = <<"streak">>
    BY <1>1, <1>2, <1>4, <2>1, <2>2, <2>3, <2>10 DEF InOrder, Of
  <2>11. QED  BY <2>3, <2>4, <2>5, <2>6, <2>7, <2>8, <2>9, <2>10
<1>5. CASE kind = "report"
  <2> DEFINE t1 == <<"minDate", "day">>
  <2>1. /\ Tail(t1) = <<"day">> /\ Head(t1) = "minDate" /\ Head(<<"day">>) = "day"
        /\ Elems(t1) = {"minDate", "day"}
    BY DEF Elems
  <2>2. Remaining(kind) = {t1, <<"day">>, <<>>}
    BY <1>5 DEF Remaining
  <2> HIDE DEF t1
  <2>3. CASE t = t1  BY <1>2, <1>5, <2>1, <2>2, <2>3 DEF InOrder, Of
  <2>4. CASE t = <<"day">>
    BY <1>1, <1>2, <1>5, <2>1, <2>2, <2>4 DEF InOrder, Of
  <2>5. QED  BY <2>2, <2>3, <2>4
<1>6. QED  BY <1>3, <1>4, <1>5

-----------------------------------------------------------------------------
(* What a read holds.                                                      *)

ReadKind == {"none", "activity", "overview", "report"}

\* A view is of somebody once a read for an associate has begun.
Viewed == [kind : ReadKind, todo : UNION {Remaining(kind) : kind \in ReadKind},
           bda : BDA \cup {CHOOSE b \in BDA : TRUE}, began : Day, acked : SUBSET ActReq,
           date : Day, days : Nat, entries : SUBSET Event, available : BOOLEAN, user : User,
           summary : Nat, allTime : Nat, streak : Nat, loggedInToday : BOOLEAN]

ToCome == Elems(view.todo)

ViewOK ==
  /\ view \in Viewed /\ view.todo \in Remaining(view.kind)
  /\ Of(view.kind) => view.bda \in BDA /\ view.began <= view.date /\ view.date <= today
  /\ view.began <= today

\* All of a view but what is left to do.
SameButTodo(v, w) ==
  /\ v.kind = w.kind /\ v.bda = w.bda /\ v.began = w.began /\ v.acked = w.acked
  /\ v.date = w.date /\ v.days = w.days /\ v.entries = w.entries
  /\ v.available = w.available /\ v.user = w.user /\ v.summary = w.summary
  /\ v.allTime = w.allTime /\ v.streak = w.streak /\ v.loggedInToday = w.loggedInToday

LEMMA HeadInOrder ==
  ASSUME ViewOK, view.todo # <<>>
  PROVE  /\ InOrder(view.kind, Head(view.todo), ToCome) /\ Head(view.todo) \in ToCome
         /\ Tail(view.todo) \in Remaining(view.kind)
         /\ Elems(Tail(view.todo)) = ToCome \ {Head(view.todo)}
<1>1. view.kind \in ReadKind /\ view.todo \in Remaining(view.kind)
  BY DEF ViewOK, Viewed
<1>2. view.kind \in {"activity", "overview", "report"}
  BY <1>1 DEF Remaining, ReadKind
<1>3. QED  BY <1>1, <1>2, QueriesInOrder DEF ToCome

\* One query: of a read under way, in its turn.
LEMMA QueryStep ==
  ASSUME ViewOK, NEW q, NEW found \in Viewed, found.kind = view.kind,
         found.todo = view.todo, Query(q, found)
  PROVE  /\ view' \in Viewed /\ SameButTodo(view', found)
         /\ view'.todo \in Remaining(view'.kind)
         /\ ToCome' = ToCome \ {q}
         /\ UNCHANGED <<vars, actPc, actLoc, seeded>>
<1>1. /\ view.todo # <<>> /\ Head(view.todo) = q
      /\ view' = [found EXCEPT !.todo = Tail(view.todo)]
      /\ UNCHANGED <<vars, actPc, actLoc, seeded>>
  BY DEF Query, Viewed
<1>2. /\ view.kind \in ReadKind /\ Tail(view.todo) \in Remaining(view.kind)
      /\ Elems(Tail(view.todo)) = ToCome \ {q}
  BY <1>1, HeadInOrder DEF ViewOK, Viewed
<1>3. Tail(view.todo) \in UNION {Remaining(kind) : kind \in ReadKind}
  BY <1>2
<1>4. view' \in Viewed /\ view'.todo = Tail(view.todo) /\ SameButTodo(view', found)
  BY <1>1, <1>3 DEF Viewed, SameButTodo
<1>5. QED  BY <1>1, <1>2, <1>4 DEF ToCome, SameButTodo

\* The rollups of one associate are finitely many, and their leads a number.
LEMMA RangeOfOne ==
  ASSUME TypeOK, NEW b, NEW from, NEW to
  PROVE  LET totals == DailyRange({b}, from, to)
         IN  /\ DOMAIN totals = {j \in Rollups : j[1] = b /\ from <= j[2] /\ j[2] <= to}
             /\ IsFiniteSet(DOMAIN totals)
             /\ \A k \in DOMAIN totals :
                  /\ k \in BDA \X Day /\ k[1] = b /\ k[2] \in Day /\ k = <<b, k[2]>>
                  /\ totals[k] = daily[k] /\ totals[k] \in Daily
<1> DEFINE totals == DailyRange({b}, from, to)
           name == [d \in Day |-> <<b, d>>]
<1>1. DOMAIN totals = {j \in Rollups : j[1] = b /\ from <= j[2] /\ j[2] <= to}
  BY DEF DailyRange
<1>2. \A k \in DOMAIN totals :
        /\ k \in BDA \X Day /\ k[1] = b /\ k[2] \in Day /\ k = <<b, k[2]>>
        /\ totals[k] = daily[k] /\ totals[k] \in Daily
  <2> SUFFICES ASSUME NEW k \in DOMAIN totals
               PROVE  /\ k \in BDA \X Day /\ k[1] = b /\ k[2] \in Day /\ k = <<b, k[2]>>
                      /\ totals[k] = daily[k] /\ totals[k] \in Daily
    OBVIOUS
  <2>1. k \in BDA \X Day /\ k[1] = b  BY <1>1 DEF Rollups
  <2>2. totals[k] = daily[k]  BY <1>1 DEF DailyRange
  <2>3. daily[k] \in Daily  BY <2>1 DEF TypeOK, StoresTypeOK
  <2>4. QED  BY <2>1, <2>2, <2>3
<1>3. IsFiniteSet(Day)
  BY FS_Interval, StoresAssumption DEF Day, StoresAssumption
<1>4. IsFiniteSet({name[d] : d \in Day})  BY <1>3, ImageIsFinite
<1>5. DOMAIN totals \subseteq {name[d] : d \in Day}  BY <1>2
<1>6. IsFiniteSet(DOMAIN totals)  BY <1>4, <1>5, FS_Subset
<1>7. QED  BY <1>1, <1>2, <1>6

LEMMA LeadsWonType ==
  ASSUME TypeOK, NEW b, NEW from, NEW to
  PROVE  LeadsWonOver(b, from, to) \in Nat
<1> DEFINE totals == DailyRange({b}, from, to)
           won == [k \in DOMAIN totals |-> totals[k].leadsWon]
<1>1. IsFiniteSet(DOMAIN totals) /\ \A k \in DOMAIN totals : totals[k] \in Daily
  BY RangeOfOne
<1>2. \A k \in DOMAIN totals : won[k] \in Nat  BY <1>1 DEF Daily
<1>3. LeadsWonOver(b, from, to) = SumFunctionOnSet(won, DOMAIN totals)
  BY DEF LeadsWonOver, SumFunction
<1> HIDE DEF totals, won
<1>4. QED  BY <1>1, <1>2, <1>3, SumOfNats

-----------------------------------------------------------------------------
(* What each query finds.                                                  *)

Known ==
  LET dates == {k[2] : k \in Rollups}
  IN  dates # {} /\ Min(dates) <= view.date /\ view.date <= today

\* The query q finds its fields and leaves the others.
Finds(q) ==
  /\ InOrder(view.kind, q, ToCome) /\ q \in ToCome
  /\ ToCome' = ToCome \ {q} \/ (q = "minDate" /\ ToCome' = {} /\ ~Known)
  /\ view'.kind = view.kind /\ view'.bda = view.bda /\ view'.began = view.began
  /\ view'.acked = view.acked /\ view'.days = view.days
  /\ view'.user = IF q = "user" THEN users[view.bda] ELSE view.user
  /\ view'.summary = IF q = "summary"
                     THEN LeadsWonOver(view.bda, FirstDay(view.days, today), today)
                     ELSE view.summary
  /\ view'.allTime = IF q = "allTime" THEN LeadsWonOver(view.bda, 0, today) ELSE view.allTime
  /\ view'.date = IF q \in {"clock", "streak"} THEN today ELSE view.date
  /\ rows' = IF q = "rollups"
             THEN DailyRange({view.bda}, IF view.kind = "activity" THEN 0
                                         ELSE FirstDay(ChartDays, view.date), view.date)
             ELSE IF q = "day" THEN DailyRange(BDA, view.date, view.date) ELSE rows
  /\ IF q = "events"
     THEN view'.entries \in EventsByBDA(view.bda, IF view.kind = "activity" THEN 0 ELSE FeedLimit)
     ELSE view'.entries = view.entries
  /\ view'.streak = IF q = "streak" THEN CurrentStreak(view.user) ELSE view.streak
  /\ view'.loggedInToday = IF q = "streak" THEN view.user.last = today ELSE view.loggedInToday
  /\ view'.available = IF q = "minDate" THEN Known ELSE view.available

LEMMA ReadFinds ==
  ASSUME TypeOK, ViewOK, Read
  PROVE  ViewOK' /\ UNCHANGED <<vars, actPc, actLoc, seeded>> /\ \E q : Finds(q)
<1> DEFINE q == Head(view.todo)
<1>1. /\ view \in Viewed /\ today \in Day /\ Day \subseteq Int /\ Day \subseteq Nat
      /\ users \in [Account -> User] /\ events \subseteq Event
      /\ view.began <= today /\ view.began \in Int /\ view.date \in Int
      /\ Of(view.kind) => view.bda \in BDA /\ view.began <= view.date /\ view.date <= today
  BY DEF ViewOK, TypeOK, StoresTypeOK, Day, Viewed
<1>2. InOrder(view.kind, q, ToCome) /\ q \in ToCome
  <2>1. view.todo # <<>>
    BY DEF Read, ReadUser, ReadSummary, ReadAllTime, ReadClock, ReadRollups, ReadEvents,
           ReadStreak, ReadMinDate, ReadDay, Query
  <2>2. QED  BY <2>1, HeadInOrder
<1>3. ASSUME NEW found \in Viewed, Query(q, found), found.kind = view.kind,
             found.bda = view.bda, found.began = view.began, found.date \in {view.date, today},
             found.todo = view.todo
      PROVE  /\ ViewOK' /\ UNCHANGED <<vars, actPc, actLoc, seeded>>
             /\ SameButTodo(view', found) /\ ToCome' = ToCome \ {q}
  <2>1. /\ view' \in Viewed /\ SameButTodo(view', found)
        /\ view'.todo \in Remaining(view'.kind) /\ ToCome' = ToCome \ {q}
        /\ UNCHANGED <<vars, actPc, actLoc, seeded>>
    BY <1>3, QueryStep
  <2>2. today' = today  BY <2>1 DEF vars, storeVars
  <2> HIDE DEF q
  <2>3. QED  BY <1>1, <1>3, <2>1, <2>2 DEF ViewOK, SameButTodo
<1>4. CASE ReadUser
  <2> DEFINE found == [view EXCEPT !.user = users[view.bda]]
  <2>1. q = "user" /\ Query("user", found) /\ UNCHANGED rows  BY <1>4 DEF ReadUser, Query, q
  <2>2. Of(view.kind)  BY <1>2, <2>1 DEF InOrder
  <2>3. users[view.bda] \in User  BY <1>1, <2>2 DEF Account
  <2>4. /\ found \in Viewed /\ found.todo = view.todo /\ found.kind = view.kind
        /\ found.bda = view.bda /\ found.began = view.began /\ found.acked = view.acked /\ found.date = view.date
        /\ found.days = view.days /\ found.entries = view.entries /\ found.available = view.available /\ found.summary = view.summary
        /\ found.allTime = view.allTime /\ found.streak = view.streak /\ found.loggedInToday = view.loggedInToday
        /\ found.user = users[view.bda]
    BY <1>1, <2>3 DEF Viewed
  <2> HIDE DEF found, q
  <2>5. ViewOK' /\ UNCHANGED <<vars, actPc, actLoc, seeded>> /\ SameButTodo(view', found)
        /\ ToCome' = ToCome \ {q}
    BY <1>3, <2>1, <2>4
  <2>6. Finds(q)  BY <1>2, <2>1, <2>4, <2>5 DEF Finds, SameButTodo
  <2>7. QED  BY <2>5, <2>6
<1>5. CASE ReadSummary
  <2> DEFINE found == [view EXCEPT !.summary =
                                LeadsWonOver(view.bda, FirstDay(view.days, today), today)]
  <2>1. q = "summary" /\ Query("summary", found) /\ UNCHANGED rows  BY <1>5 DEF ReadSummary, Query, q
  <2>2. LeadsWonOver(view.bda, FirstDay(view.days, today), today) \in Nat  BY LeadsWonType
  <2>3. /\ found \in Viewed /\ found.todo = view.todo /\ found.kind = view.kind
        /\ found.bda = view.bda /\ found.began = view.began /\ found.acked = view.acked /\ found.date = view.date
        /\ found.days = view.days /\ found.entries = view.entries /\ found.available = view.available /\ found.user = view.user
        /\ found.allTime = view.allTime /\ found.streak = view.streak /\ found.loggedInToday = view.loggedInToday
        /\ found.summary = LeadsWonOver(view.bda, FirstDay(view.days, today), today)
    BY <1>1, <2>2 DEF Viewed
  <2> HIDE DEF found, q
  <2>4. ViewOK' /\ UNCHANGED <<vars, actPc, actLoc, seeded>> /\ SameButTodo(view', found)
        /\ ToCome' = ToCome \ {q}
    BY <1>3, <2>1, <2>3
  <2>5. Finds(q)  BY <1>2, <2>1, <2>3, <2>4 DEF Finds, SameButTodo
  <2>6. QED  BY <2>4, <2>5
<1>6. CASE ReadAllTime
  <2> DEFINE found == [view EXCEPT !.allTime = LeadsWonOver(view.bda, 0, today)]
  <2>1. q = "allTime" /\ Query("allTime", found) /\ UNCHANGED rows  BY <1>6 DEF ReadAllTime, Query, q
  <2>2. LeadsWonOver(view.bda, 0, today) \in Nat  BY LeadsWonType
  <2>3. /\ found \in Viewed /\ found.todo = view.todo /\ found.kind = view.kind
        /\ found.bda = view.bda /\ found.began = view.began /\ found.acked = view.acked /\ found.date = view.date
        /\ found.days = view.days /\ found.entries = view.entries /\ found.available = view.available /\ found.user = view.user
        /\ found.summary = view.summary /\ found.streak = view.streak /\ found.loggedInToday = view.loggedInToday
        /\ found.allTime = LeadsWonOver(view.bda, 0, today)
    BY <1>1, <2>2 DEF Viewed
  <2> HIDE DEF found, q
  <2>4. ViewOK' /\ UNCHANGED <<vars, actPc, actLoc, seeded>> /\ SameButTodo(view', found)
        /\ ToCome' = ToCome \ {q}
    BY <1>3, <2>1, <2>3
  <2>5. Finds(q)  BY <1>2, <2>1, <2>3, <2>4 DEF Finds, SameButTodo
  <2>6. QED  BY <2>4, <2>5
<1>7. CASE ReadClock
  <2> DEFINE found == [view EXCEPT !.date = today]
  <2>1. q = "clock" /\ Query("clock", found) /\ UNCHANGED rows  BY <1>7 DEF ReadClock, Query, q
  <2>2. /\ found \in Viewed /\ found.todo = view.todo /\ found.kind = view.kind
        /\ found.bda = view.bda /\ found.began = view.began /\ found.acked = view.acked /\ found.days = view.days
        /\ found.entries = view.entries /\ found.available = view.available /\ found.user = view.user /\ found.summary = view.summary
        /\ found.allTime = view.allTime /\ found.streak = view.streak /\ found.loggedInToday = view.loggedInToday
        /\ found.date = today
    BY <1>1 DEF Viewed
  <2> HIDE DEF found, q
  <2>3. ViewOK' /\ UNCHANGED <<vars, actPc, actLoc, seeded>> /\ SameButTodo(view', found)
        /\ ToCome' = ToCome \ {q}
    BY <1>3, <2>1, <2>2
  <2>4. Finds(q)  BY <1>2, <2>1, <2>2, <2>3 DEF Finds, SameButTodo
  <2>5. QED  BY <2>3, <2>4
<1>8. CASE ReadRollups
  <2> DEFINE found == view
  <2>1. q = "rollups" /\ Query("rollups", found)  BY <1>8 DEF ReadRollups, Query, q
  <2>2. /\ found \in Viewed /\ found.todo = view.todo /\ found.kind = view.kind
        /\ found.bda = view.bda /\ found.began = view.began /\ found.acked = view.acked /\ found.date = view.date
        /\ found.days = view.days /\ found.entries = view.entries /\ found.available = view.available /\ found.user = view.user
        /\ found.summary = view.summary /\ found.allTime = view.allTime /\ found.streak = view.streak /\ found.loggedInToday = view.loggedInToday
    BY <1>1 DEF Viewed
  <2> HIDE DEF found, q
  <2>3. ViewOK' /\ UNCHANGED <<vars, actPc, actLoc, seeded>> /\ SameButTodo(view', found)
        /\ ToCome' = ToCome \ {q}
    BY <1>3, <2>1, <2>2
  <2>4. rows' = DailyRange({view.bda}, IF view.kind = "activity" THEN 0
                                          ELSE FirstDay(ChartDays, view.date), view.date)
    BY <1>8 DEF ReadRollups
  <2>5. Finds(q)  BY <1>2, <2>1, <2>2, <2>3, <2>4 DEF Finds, SameButTodo
  <2>6. QED  BY <2>3, <2>5
<1>9. CASE ReadStreak
  <2> DEFINE found == [view EXCEPT !.date = today, !.streak = CurrentStreak(view.user),
                                 !.loggedInToday = (view.user.last = today)]
  <2>1. q = "streak" /\ Query("streak", found) /\ UNCHANGED rows  BY <1>9 DEF ReadStreak, Query, q
  <2>2. CurrentStreak(view.user) \in Nat /\ (view.user.last = today) \in BOOLEAN
    BY <1>1 DEF CurrentStreak, Viewed, User
  <2>3. /\ found \in Viewed /\ found.todo = view.todo /\ found.kind = view.kind
        /\ found.bda = view.bda /\ found.began = view.began /\ found.acked = view.acked /\ found.days = view.days
        /\ found.entries = view.entries /\ found.available = view.available /\ found.user = view.user /\ found.summary = view.summary
        /\ found.allTime = view.allTime
        /\ found.date = today
        /\ found.streak = CurrentStreak(view.user)
        /\ found.loggedInToday = (view.user.last = today)
    BY <1>1, <2>2 DEF Viewed
  <2> HIDE DEF found, q
  <2>4. ViewOK' /\ UNCHANGED <<vars, actPc, actLoc, seeded>> /\ SameButTodo(view', found)
        /\ ToCome' = ToCome \ {q}
    BY <1>3, <2>1, <2>3
  <2>5. Finds(q)  BY <1>2, <2>1, <2>3, <2>4 DEF Finds, SameButTodo
  <2>6. QED  BY <2>4, <2>5
<1>10. CASE ReadDay
  <2> DEFINE found == view
  <2>1. q = "day" /\ Query("day", found)  BY <1>10 DEF ReadDay, Query, q
  <2>2. /\ found \in Viewed /\ found.todo = view.todo /\ found.kind = view.kind
        /\ found.bda = view.bda /\ found.began = view.began /\ found.acked = view.acked /\ found.date = view.date
        /\ found.days = view.days /\ found.entries = view.entries /\ found.available = view.available /\ found.user = view.user
        /\ found.summary = view.summary /\ found.allTime = view.allTime /\ found.streak = view.streak /\ found.loggedInToday = view.loggedInToday
    BY <1>1 DEF Viewed
  <2> HIDE DEF found, q
  <2>3. ViewOK' /\ UNCHANGED <<vars, actPc, actLoc, seeded>> /\ SameButTodo(view', found)
        /\ ToCome' = ToCome \ {q}
    BY <1>3, <2>1, <2>2
  <2>4. rows' = DailyRange(BDA, view.date, view.date)
    BY <1>10 DEF ReadDay
  <2>5. Finds(q)  BY <1>2, <2>1, <2>2, <2>3, <2>4 DEF Finds, SameButTodo
  <2>6. QED  BY <2>3, <2>5
<1>11. CASE ReadEvents
  <2> DEFINE limit == IF view.kind = "activity" THEN 0 ELSE FeedLimit
  <2>1. PICK new \in EventsByBDA(view.bda, limit) :
          Query("events", [view EXCEPT !.entries = new])
    BY <1>11 DEF ReadEvents
  <2> DEFINE found == [view EXCEPT !.entries = new]
  <2>2. q = "events" /\ Query("events", found) /\ UNCHANGED rows
    BY <1>11, <2>1 DEF ReadEvents, Query, q
  <2>3. new \subseteq Event
    BY <1>1, <2>1 DEF EventsByBDA, Newest
  <2>4. /\ found \in Viewed /\ found.todo = view.todo /\ found.kind = view.kind
        /\ found.bda = view.bda /\ found.began = view.began /\ found.acked = view.acked /\ found.date = view.date
        /\ found.days = view.days /\ found.available = view.available /\ found.user = view.user /\ found.summary = view.summary
        /\ found.allTime = view.allTime /\ found.streak = view.streak /\ found.loggedInToday = view.loggedInToday
        /\ found.entries = new
    BY <1>1, <2>3 DEF Viewed
  <2> HIDE DEF found, q
  <2>5. ViewOK' /\ UNCHANGED <<vars, actPc, actLoc, seeded>> /\ SameButTodo(view', found)
        /\ ToCome' = ToCome \ {q}
    BY <1>3, <2>2, <2>4
  <2>6. Finds(q)  BY <1>2, <2>1, <2>2, <2>4, <2>5 DEF Finds, SameButTodo
  <2>7. QED  BY <2>5, <2>6
<1>12. CASE ReadMinDate /\ Known
  <2> DEFINE found == [view EXCEPT !.available = TRUE]
  <2>1. q = "minDate" /\ Query("minDate", found) /\ UNCHANGED rows
    <3>1. [view EXCEPT !.available = Known, !.todo = IF Known THEN @ ELSE SubSeq(@, 1, 1)] = found
      BY <1>1, <1>12 DEF Viewed
    <3>2. QED  BY <1>12, <3>1 DEF ReadMinDate, Query, q, Known
  <2>2. /\ found \in Viewed /\ found.todo = view.todo /\ found.kind = view.kind
        /\ found.bda = view.bda /\ found.began = view.began /\ found.acked = view.acked /\ found.date = view.date
        /\ found.days = view.days /\ found.entries = view.entries /\ found.user = view.user /\ found.summary = view.summary
        /\ found.allTime = view.allTime /\ found.streak = view.streak /\ found.loggedInToday = view.loggedInToday
        /\ found.available = TRUE
    BY <1>1 DEF Viewed
  <2> HIDE DEF found, q
  <2>3. ViewOK' /\ UNCHANGED <<vars, actPc, actLoc, seeded>> /\ SameButTodo(view', found)
        /\ ToCome' = ToCome \ {q}
    BY <1>3, <2>1, <2>2
  <2>4. Finds(q)  BY <1>2, <1>12, <2>1, <2>2, <2>3 DEF Finds, SameButTodo
  <2>5. QED  BY <2>3, <2>4
<1>13. CASE ReadMinDate /\ ~Known
  <2> DEFINE found == [view EXCEPT !.available = FALSE, !.todo = SubSeq(view.todo, 1, 1)]
             left  == [view EXCEPT !.available = FALSE, !.todo = <<>>]
  <2>0. Known = FALSE  BY <1>13 DEF Known
  <2>1. q = "minDate" /\ Query("minDate", found) /\ UNCHANGED rows
    <3>1. [view EXCEPT !.available = Known, !.todo = IF Known THEN @ ELSE SubSeq(@, 1, 1)] = found
      BY <1>1, <2>0 DEF Viewed
    <3>2. QED  BY <1>13, <3>1 DEF ReadMinDate, Query, q, Known
  <2>2. view.kind = "report" /\ Tail(SubSeq(view.todo, 1, 1)) = <<>>
    <3>1. view.kind = "report" /\ view.todo # <<>> /\ Head(view.todo) = "minDate"
      BY <1>2, <2>1 DEF InOrder, Query
    <3>2. view.todo \in {<<"minDate", "day">>, <<"day">>, <<>>}
      BY <3>1 DEF ViewOK, Remaining
    <3>3. Head(<<"day">>) # "minDate" /\ Tail(SubSeq(<<"minDate", "day">>, 1, 1)) = <<>>
      OBVIOUS
    <3>4. view.todo = <<"minDate", "day">>  BY <3>1, <3>2, <3>3
    <3>5. QED  BY <3>1, <3>3, <3>4
  <2>3. view' = left /\ UNCHANGED <<vars, actPc, actLoc, seeded>>
    BY <1>1, <2>1, <2>2 DEF Query, Viewed
  <2>4. <<>> \in Remaining("report") /\ <<>> \in UNION {Remaining(kind) : kind \in ReadKind}
    <3>1. <<>> \in Remaining("report")  BY DEF Remaining
    <3>2. QED  BY <3>1 DEF ReadKind
  <2>5. /\ view' \in Viewed /\ view'.todo = <<>> /\ view'.kind = view.kind
        /\ view'.bda = view.bda /\ view'.began = view.began /\ view'.acked = view.acked /\ view'.date = view.date
        /\ view'.days = view.days /\ view'.entries = view.entries /\ view'.user = view.user /\ view'.summary = view.summary
        /\ view'.allTime = view.allTime /\ view'.streak = view.streak /\ view'.loggedInToday = view.loggedInToday
        /\ view'.available = FALSE
    BY <1>1, <2>3, <2>4 DEF Viewed
  <2> HIDE DEF found, left, q
  <2>6. today' = today  BY <2>3 DEF vars, storeVars
  <2>7. ViewOK'  BY <1>1, <2>2, <2>4, <2>5, <2>6 DEF ViewOK
  <2>8. ToCome' = {}  BY <2>5 DEF ToCome, Elems
  <2>9. Finds(q)  BY <1>2, <2>0, <2>1, <2>5, <2>8 DEF Finds
  <2>10. QED  BY <2>3, <2>7, <2>9
<1>14. QED  BY <1>4, <1>5, <1>6, <1>7, <1>8, <1>9, <1>10, <1>11, <1>12, <1>13 DEF Read

-----------------------------------------------------------------------------
(* The steps of the system, and the writers below every read.              *)

Begins ==
  \/ \E b \in BDA : AskActivity(b) \/ \E n \in RangeDays : AskOverview(b, n)
  \/ \E d \in Day : AskReport(d)

LEMMA Steps ==
  ASSUME [ReportsNext]_allVars
  PROVE  /\ seeded' = seeded /\ (Writes \/ UNCHANGED <<vars, actPc, actLoc>>)
         /\ \/ UNCHANGED <<view, rows>>
            \/ Begins /\ UNCHANGED <<vars, actPc, actLoc>>
            \/ Read /\ UNCHANGED <<vars, actPc, actLoc>>
<1>1. CASE (\E r \in LoginReq : Serve(r) \/ Die(r)) /\ UNCHANGED <<actPc, actLoc, readVars>>
  BY <1>1 DEF Writes, readVars
<1>2. CASE /\ Midnight \/ \E k \in BDA \X Day : ExpireLock(k)
           /\ UNCHANGED <<actPc, actLoc, readVars>>
  BY <1>2 DEF Writes, readVars
<1>3. CASE \E r \in ActReq : /\ Submit(r) \/ ActServe(r) \/ ActDie(r)
                             /\ UNCHANGED <<redisVars, pc, loc, readVars>>
  BY <1>3 DEF Writes, readVars, Step
<1>4. CASE Begins
  <2>1. UNCHANGED <<vars, actPc, actLoc, seeded>>
    BY <1>4 DEF Begins, AskActivity, AskOverview, AskReport, Begin
  <2>2. QED  BY <1>4, <2>1
<1>5. CASE Read
  <2>1. UNCHANGED <<vars, actPc, actLoc, seeded>>
    BY <1>5 DEF Read, ReadUser, ReadSummary, ReadAllTime, ReadClock, ReadRollups, ReadEvents,
                ReadStreak, ReadMinDate, ReadDay, Query
  <2>2. QED  BY <1>5, <2>1
<1>6. CASE UNCHANGED allVars
  BY <1>6 DEF allVars, readVars
<1>7. QED  BY <1>1, <1>2, <1>3, <1>4, <1>5, <1>6 DEF ReportsNext, Begins

\* Logins and records of activity keep their own books in each other's company: what is
\* proved of Login and of Activity alone holds of the two over one store.
THEOREM WritersInvariant == ReportsSpec => []Writers
<1>1. Writers /\ [ReportsNext]_allVars => Writers'
  <2> SUFFICES ASSUME Writers, [ReportsNext]_allVars PROVE Writers'  OBVIOUS
  <2>1. QED  BY Steps, NextWriters
<1>2. QED  BY <1>1, InitWriters, PTL DEF ReportsSpec

\* A read begins with nothing found and all its queries to come.
LEMMA BeginStarts ==
  ASSUME TypeOK, ViewOK, Begins
  PROVE  /\ ViewOK' /\ UNCHANGED <<vars, actPc, actLoc, seeded>>
         /\ rows' = <<>> /\ DOMAIN rows' = {}
         /\ view'.kind \in {"activity", "overview", "report"}
         /\ view'.began = today /\ view'.acked = {r \in ActReq : actPc[r] = "ok"}
         /\ view'.available = TRUE
         /\ Of(view'.kind) => {"user", "clock", "rollups", "events"} \subseteq ToCome'
         /\ view'.kind = "overview" => {"summary", "allTime", "streak"} \subseteq ToCome'
         /\ view'.kind = "report" => {"minDate", "day"} \subseteq ToCome'
<1>0. /\ view \in Viewed /\ today \in Day /\ Day \subseteq Int /\ 0 \in Day
  BY StoresAssumption DEF ViewOK, TypeOK, StoresTypeOK, Day, StoresAssumption
<1>1. PICK kind \in {"activity", "overview", "report"}, b \in BDA \cup {CHOOSE b \in BDA : TRUE},
           days \in Nat, date \in Day :
        Begin(kind, b, days, date) /\ (Of(kind) => b \in BDA /\ date = today)
  <2>1. CASE \E b \in BDA : AskActivity(b)
    BY <1>0, <2>1 DEF AskActivity
  <2>2. CASE \E b \in BDA, n \in RangeDays : AskOverview(b, n)
    BY <1>0, <2>2, ReportsAssumption DEF AskOverview, ReportsAssumption
  <2>3. CASE \E d \in Day : AskReport(d)
    <3>1. view.bda \in BDA \cup {CHOOSE b \in BDA : TRUE}  BY <1>0 DEF Viewed
    <3>2. ~Of("report")  BY DEF Of
    <3>3. QED  BY <2>3, <3>1, <3>2 DEF AskReport
  <2>4. QED  BY <2>1, <2>2, <2>3 DEF Begins
<1> DEFINE todo == Queries(kind)
           user == [current |-> 0, best |-> 0, last |-> Never]
           acked == {r \in ActReq : actPc[r] = "ok"}
<1>2. /\ view' = [Idle EXCEPT !.kind = kind, !.todo = todo, !.bda = b, !.began = today,
                              !.acked = acked, !.days = days, !.date = date]
      /\ rows' = <<>> /\ UNCHANGED <<vars, actPc, actLoc, seeded>>
  BY <1>1 DEF Begin
<1>3. todo \in Remaining(kind) /\ kind \in ReadKind
  BY <1>1 DEF Queries, Remaining, ReadKind
<1>4. user \in User  BY DEF User, Never
<1>5. acked \in SUBSET ActReq /\ todo \in UNION {Remaining(any) : any \in ReadKind}
  BY <1>3
<1>6. /\ Of(kind) => {"user", "clock", "rollups", "events"} \subseteq Elems(todo)
      /\ kind = "overview" => {"summary", "allTime", "streak"} \subseteq Elems(todo)
      /\ kind = "report" => {"minDate", "day"} \subseteq Elems(todo)
  <2>1. /\ Elems(<<"user", "clock", "rollups", "events">>) = {"user", "clock", "rollups", "events"}
        /\ Elems(<<"user", "summary", "allTime", "clock", "rollups", "events", "streak">>)
             = {"user", "summary", "allTime", "clock", "rollups", "events", "streak"}
        /\ Elems(<<"minDate", "day">>) = {"minDate", "day"}
    BY DEF Elems
  <2>2. QED  BY <2>1 DEF Queries, Of
<1> HIDE DEF todo, user, acked
<1>7. /\ view' \in Viewed /\ view'.kind = kind /\ view'.todo = todo /\ view'.bda = b
      /\ view'.began = today /\ view'.acked = acked /\ view'.date = date
      /\ view'.available = TRUE
  <2>1. Idle = [kind |-> "none", todo |-> <<>>, bda |-> CHOOSE c \in BDA : TRUE, began |-> 0,
                acked |-> {}, date |-> 0, days |-> 0, entries |-> {}, available |-> TRUE,
                user |-> user, summary |-> 0, allTime |-> 0, streak |-> 0,
                loggedInToday |-> FALSE]
    BY DEF Idle, user
  <2>2. view' = [kind |-> kind, todo |-> todo, bda |-> b, began |-> today,
                 acked |-> acked, date |-> date, days |-> days, entries |-> {},
                 available |-> TRUE, user |-> user, summary |-> 0, allTime |-> 0,
                 streak |-> 0, loggedInToday |-> FALSE]
    BY <1>2, <2>1
  <2>3. QED  BY <1>0, <1>1, <1>3, <1>4, <1>5, <2>2 DEF Viewed
<1>8. today' = today  BY <1>2 DEF vars, storeVars
<1>9. ViewOK'
  BY <1>0, <1>1, <1>3, <1>7, <1>8 DEF ViewOK
<1>10. DOMAIN rows' = {}  BY <1>2
<1>11. QED  BY <1>1, <1>2, <1>6, <1>7, <1>9, <1>10 DEF ToCome, acked

LEMMA InitView == ReportsInit => ViewOK /\ view.kind = "none" /\ view.acked = {} /\ rows = <<>>
<1> SUFFICES ASSUME ReportsInit
             PROVE  ViewOK /\ view.kind = "none" /\ view.acked = {} /\ rows = <<>>
  OBVIOUS
<1> DEFINE user == [current |-> 0, best |-> 0, last |-> Never]
<1>1. /\ view = [kind |-> "none", todo |-> <<>>, bda |-> CHOOSE c \in BDA : TRUE, began |-> 0,
                 acked |-> {}, date |-> 0, days |-> 0, entries |-> {}, available |-> TRUE,
                 user |-> user, summary |-> 0, allTime |-> 0, streak |-> 0,
                 loggedInToday |-> FALSE]
      /\ rows = <<>>
  BY DEF ReportsInit, Idle
<1>2. user \in User  BY DEF User, Never
<1>3. <<>> \in Remaining("none") /\ "none" \in ReadKind  BY DEF Remaining, ReadKind
<1>4. <<>> \in UNION {Remaining(any) : any \in ReadKind}  BY <1>3
<1>5. 0 \in Day /\ today \in Nat
  BY StoresAssumption, DaysOfHistory
  DEF Day, StoresAssumption, ReportsInit, StoresSeeded
<1> HIDE DEF user
<1>6. view \in Viewed  BY <1>1, <1>2, <1>3, <1>4, <1>5 DEF Viewed
<1>7. QED  BY <1>1, <1>3, <1>5, <1>6 DEF ViewOK, Of

-----------------------------------------------------------------------------
(* The ledger of a response.                                               *)

\* What the ledger holds for a rollup.
EntriesOf(k, type) == {e \in events : <<e.bda, e.date>> = k /\ e.type = type}

\* Read now, a rollup counts no lead and no login that the ledger does not show.
LEMMA LedgerCovers ==
  ASSUME Writers, NEW k \in BDA \X Day
  PROVE  /\ daily[k].leadsWon <= Cardinality(EntriesOf(k, "LEAD_WON"))
         /\ daily[k].leadsDropped <= Cardinality(EntriesOf(k, "LEAD_DROPPED"))
         /\ daily[k].loginPoints # 0 => Cardinality(EntriesOf(k, "LOGIN")) = 1
         /\ \A type : IsFiniteSet(EntriesOf(k, type))
<1>1. ActInv /\ LoginInv /\ TypeOK /\ events \subseteq Event
  BY DEF Writers, LoginInv, TypeOK, StoresTypeOK
<1>2. RollupTracksLedger  BY <1>1, InvTracks
<1>3. /\ daily[k].leadsWon <= Cardinality(EntriesOf(k, "LEAD_WON"))
      /\ daily[k].leadsDropped <= Cardinality(EntriesOf(k, "LEAD_DROPPED"))
  BY <1>2 DEF RollupTracksLedger, Tracks, Leads, EntriesOf
<1>4. IsFiniteSet(EntriesOf(k, "LEAD_WON")) /\ IsFiniteSet(EntriesOf(k, "LEAD_DROPPED"))
  <2>1. \A o \in {"won", "dropped"} : IsFiniteSet(LeadsOf(k, TypeOf(o)))
    BY <1>1 DEF ActInv, FinitelyMany
  <2>2. LeadsOf(k, TypeOf("won")) = EntriesOf(k, "LEAD_WON")
        /\ LeadsOf(k, TypeOf("dropped")) = EntriesOf(k, "LEAD_DROPPED")
    BY DEF LeadsOf, TypeOf, EntriesOf
  <2>3. QED  BY <2>1, <2>2
<1>5. \A e, f \in EntriesOf(k, "LOGIN") : e = f
  BY <1>1 DEF LoginInv, LedgerOK, Logins, EntriesOf
<1>6. EntriesOf(k, "LOGIN") = {} \/ \E e : EntriesOf(k, "LOGIN") = {e}
  BY <1>5
<1>7. IsFiniteSet(EntriesOf(k, "LOGIN"))
  BY <1>6, FS_EmptySet, FS_Singleton
<1>8. daily[k].loginPoints # 0 => Cardinality(EntriesOf(k, "LOGIN")) = 1
  <2> SUFFICES ASSUME daily[k].loginPoints # 0 PROVE Cardinality(EntriesOf(k, "LOGIN")) = 1
    OBVIOUS
  <2>1. LoginEvent(k[1], k[2], daily[k].streakDay) \in events
    BY <1>1 DEF LoginInv, RollupOK
  <2>2. LoginEvent(k[1], k[2], daily[k].streakDay) \in EntriesOf(k, "LOGIN")
    BY <2>1 DEF EntriesOf, LoginEvent
  <2>3. QED  BY <1>6, <2>2, FS_Singleton
<1>9. ASSUME NEW type, type \notin {"LOGIN", "LEAD_WON", "LEAD_DROPPED"}
      PROVE  EntriesOf(k, type) = {}
  BY <1>1, <1>9 DEF EntriesOf, Event
<1>10. QED  BY <1>3, <1>4, <1>7, <1>8, <1>9, FS_EmptySet

\* An associate's ledger is finite: so many types on so many days.
LEMMA LedgerIsFinite ==
  ASSUME Writers, NEW b \in BDA
  PROVE  IsFiniteSet({e \in events : e.bda = b})
<1> DEFINE day == [d \in Day |-> EntriesOf(<<b, d>>, "LOGIN") \cup EntriesOf(<<b, d>>, "LEAD_WON")
                                   \cup EntriesOf(<<b, d>>, "LEAD_DROPPED")]
           days == {day[d] : d \in Day}
<1>1. events \subseteq Event  BY DEF Writers, LoginInv, TypeOK, StoresTypeOK
<1>2. IsFiniteSet(Day)
  BY FS_Interval, StoresAssumption DEF Day, StoresAssumption
<1>3. IsFiniteSet(days)  BY <1>2, ImageIsFinite
<1>4. \A d \in Day : IsFiniteSet(day[d])
  <2> SUFFICES ASSUME NEW d \in Day PROVE IsFiniteSet(day[d])  OBVIOUS
  <2>1. <<b, d>> \in BDA \X Day  OBVIOUS
  <2>2. /\ IsFiniteSet(EntriesOf(<<b, d>>, "LOGIN"))
        /\ IsFiniteSet(EntriesOf(<<b, d>>, "LEAD_WON"))
        /\ IsFiniteSet(EntriesOf(<<b, d>>, "LEAD_DROPPED"))
    BY <2>1, LedgerCovers
  <2>3. QED  BY <2>2, FS_Union
<1>5. \A T \in days : IsFiniteSet(T)  BY <1>4
<1>6. IsFiniteSet(UNION days)  BY <1>3, <1>5, FS_UNION
<1>7. {e \in events : e.bda = b} \subseteq UNION days
  <2> SUFFICES ASSUME NEW e \in events, e.bda = b PROVE e \in UNION days  OBVIOUS
  <2>1. e.date \in Day /\ e.type \in {"LOGIN", "LEAD_WON", "LEAD_DROPPED"}
    BY <1>1 DEF Event
  <2>2. e \in day[e.date]  BY <2>1 DEF EntriesOf
  <2>3. QED  BY <2>1, <2>2
<1> HIDE DEF days
<1>8. QED  BY <1>6, <1>7, FS_Subset

\* A feed that is not cut off, or reaches an earlier day, has the whole of a day.
LEMMA WholeDays ==
  ASSUME Writers, NEW b \in BDA, NEW limit \in Nat, NEW found \in EventsByBDA(b, limit),
         NEW d \in Day,
         limit = 0 \/ Cardinality(found) < limit \/ \E e \in found : InstantBy(e) < d
  PROVE  \A e \in events : e.bda = b /\ e.date = d => e \in found
<1> DEFINE mine == {e \in events : e.bda = b}
<1>1. CASE limit = 0  BY <1>1 DEF EventsByBDA
<1>2. CASE limit # 0
  <2>1. /\ found \subseteq mine
        /\ Cardinality(found) = Min({limit, Cardinality(mine)})
        /\ \A e \in found, f \in mine \ found : f.date <= InstantBy(e)
    BY <1>2 DEF EventsByBDA, Newest
  <2>2. \A e \in mine : e.date \in Int /\ InstantBy(e) \in Int
    BY LoginAssumption
    DEF Writers, LoginInv, TypeOK, StoresTypeOK, Event, Day, InstantBy, LoginAssumption
  <2>3. IsFiniteSet(mine) /\ Cardinality(mine) \in Nat
    BY LedgerIsFinite, FS_CardinalityType
  <2> HIDE DEF mine
  <2>4. CASE Cardinality(found) < limit
    <3>1. Min({limit, Cardinality(mine)}) \in {limit, Cardinality(mine)}
      BY <2>3, MinOfNats
    <3>2. Cardinality(found) = Cardinality(mine)
      BY <2>1, <2>3, <2>4, <3>1
    <3>3. found = mine  BY <2>1, <2>3, <3>2, FS_Subset
    <3>4. QED  BY <3>3 DEF mine
  <2>5. CASE \E e \in found : InstantBy(e) < d
    <3> SUFFICES ASSUME NEW f \in events, f.bda = b, f.date = d, f \notin found PROVE FALSE
      OBVIOUS
    <3>1. PICK e \in found : InstantBy(e) < d  BY <2>5
    <3>2. f \in mine \ found /\ f \in mine  BY DEF mine
    <3>3. f.date <= InstantBy(e) /\ e \in mine  BY <2>1, <3>1, <3>2
    <3>4. InstantBy(e) \in Int /\ f.date \in Int  BY <2>2, <3>2, <3>3
    <3>5. QED  BY <3>1, <3>3, <3>4
  <2>6. QED  BY <1>2, <2>4, <2>5
<1>3. QED  BY <1>1, <1>2

\* The rollups of a read are no newer than those of the store.
RowsStand ==
  /\ Of(view.kind) /\ "rollups" \in ToCome => DOMAIN rows = {}
  /\ \A k \in DOMAIN rows :
       /\ k \in BDA \X Day /\ rows[k] \in Daily
       /\ Of(view.kind) => k[1] = view.bda
       /\ \A o \in Outcome : Counter(o, rows[k]) <= Counter(o, daily[k])
       /\ rows[k].loginPoints # 0 => SameLogin(rows[k], daily[k])

\* Once it has read the ledger, it explains them.
ExplainedRow(k) ==
  Reaches(k[2]) => /\ rows[k].leadsWon <= Entries(k, "LEAD_WON")
                   /\ rows[k].leadsDropped <= Entries(k, "LEAD_DROPPED")
                   /\ rows[k].loginPoints # 0 => Entries(k, "LOGIN") = 1

Explained == Of(view.kind) /\ "events" \notin ToCome => \A k \in DOMAIN rows : ExplainedRow(k)

LEMMA RowsKept ==
  ASSUME Writers, Writers', RowsStand, Grows, UNCHANGED <<view, rows>>
  PROVE  RowsStand'
<1>1. ToCome' = ToCome  BY DEF ToCome
<1>2. daily \in [BDA \X Day -> Daily] /\ daily' \in [BDA \X Day -> Daily]
  BY DEF Writers, LoginInv, TypeOK, StoresTypeOK
<1>3. ASSUME NEW k \in DOMAIN rows
      PROVE  /\ k \in BDA \X Day /\ rows[k] \in Daily
             /\ Of(view.kind) => k[1] = view.bda
             /\ \A o \in Outcome : Counter(o, rows[k]) <= Counter(o, daily'[k])
             /\ rows[k].loginPoints # 0 => SameLogin(rows[k], daily'[k])
  <2>1. /\ k \in BDA \X Day /\ rows[k] \in Daily
        /\ Of(view.kind) => k[1] = view.bda
        /\ \A o \in Outcome : Counter(o, rows[k]) <= Counter(o, daily[k])
        /\ rows[k].loginPoints # 0 => SameLogin(rows[k], daily[k])
    BY DEF RowsStand
  <2>2. /\ \A o \in Outcome : Counter(o, daily'[k]) >= Counter(o, daily[k])
        /\ daily[k].loginPoints # 0 => SameLogin(daily[k], daily'[k])
    BY <2>1 DEF Grows
  <2>3. /\ \A o \in Outcome : Counter(o, rows[k]) \in Nat /\ Counter(o, daily[k]) \in Nat
    BY <1>2, <2>1 DEF Counter, Outcome, Daily
  <2>4. rows[k].loginPoints # 0 => SameLogin(rows[k], daily'[k])
    BY <2>1, <2>2 DEF SameLogin
  <2>5. ASSUME NEW o \in Outcome PROVE Counter(o, rows[k]) <= Counter(o, daily'[k])
    <3>1. Counter(o, daily'[k]) \in Nat
      BY <1>2, <2>1 DEF Counter, Outcome, Daily
    <3>2. QED  BY <2>1, <2>2, <2>3, <3>1
  <2>6. QED  BY <2>1, <2>4, <2>5
<1>4. QED  BY <1>1, <1>3 DEF RowsStand

\* What a range query finds is what the store has.
LEMMA RangeStands ==
  ASSUME TypeOK, NEW bs, NEW from, NEW to
  PROVE  \A k \in DOMAIN DailyRange(bs, from, to) :
           LET found == DailyRange(bs, from, to) IN
           /\ k \in BDA \X Day /\ k \in Rollups /\ k[1] \in bs /\ from <= k[2] /\ k[2] <= to
           /\ found[k] = daily[k] /\ found[k] \in Daily
           /\ \A o \in Outcome : Counter(o, found[k]) <= Counter(o, daily[k])
           /\ SameLogin(found[k], daily[k])
<1> SUFFICES ASSUME NEW k \in DOMAIN DailyRange(bs, from, to)
             PROVE  LET found == DailyRange(bs, from, to) IN
                    /\ k \in BDA \X Day /\ k \in Rollups /\ k[1] \in bs /\ from <= k[2]
                    /\ k[2] <= to
                    /\ found[k] = daily[k] /\ found[k] \in Daily
                    /\ \A o \in Outcome : Counter(o, found[k]) <= Counter(o, daily[k])
                    /\ SameLogin(found[k], daily[k])
  OBVIOUS
<1> DEFINE found == DailyRange(bs, from, to)
<1>1. /\ k \in Rollups /\ k[1] \in bs /\ from <= k[2] /\ k[2] <= to
      /\ found[k] = daily[k]
  BY DEF DailyRange
<1>2. k \in BDA \X Day  BY <1>1 DEF Rollups
<1>3. daily[k] \in Daily  BY <1>2 DEF TypeOK, StoresTypeOK
<1>4. \A o \in Outcome : Counter(o, daily[k]) \in Nat
  BY <1>3 DEF Counter, Outcome, Daily
<1> HIDE DEF found
<1>5. QED  BY <1>1, <1>2, <1>3, <1>4 DEF SameLogin, found

\* A query leaves the rollups it does not read as they stand.
LEMMA RowsRead ==
  ASSUME Writers, ViewOK, RowsStand, NEW q, Finds(q), UNCHANGED <<vars, actPc, actLoc, seeded>>
  PROVE  RowsStand'
<1>1. TypeOK /\ daily' = daily /\ view'.kind = view.kind /\ view'.bda = view.bda
  BY DEF Writers, LoginInv, Finds, vars, storeVars
<1>2. ToCome' \subseteq ToCome /\ ("rollups" \in ToCome' => q # "rollups" /\ "rollups" \in ToCome)
  BY DEF Finds
<1>3. CASE q = "rollups"
  <2> DEFINE from == IF view.kind = "activity" THEN 0 ELSE FirstDay(ChartDays, view.date)
             only == {view.bda}
  <2>1. rows' = DailyRange(only, from, view.date) /\ "rollups" \notin ToCome'
    BY <1>2, <1>3 DEF Finds
  <2> HIDE DEF from, only
  <2>2. \A k \in DOMAIN rows' :
          /\ k \in BDA \X Day /\ k[1] \in only /\ rows'[k] \in Daily
          /\ \A o \in Outcome : Counter(o, rows'[k]) <= Counter(o, daily[k])
          /\ SameLogin(rows'[k], daily[k])
    BY <1>1, <2>1, RangeStands
  <2>3. \A k \in DOMAIN rows' : k[1] = view.bda  BY <2>2 DEF only
  <2>4. QED  BY <1>1, <2>1, <2>2, <2>3 DEF RowsStand
<1>4. CASE q = "day"
  <2>1. rows' = DailyRange(BDA, view.date, view.date) /\ ~Of(view.kind)
    BY <1>4 DEF Finds, InOrder, Of
  <2>2. \A k \in DOMAIN rows' :
          /\ k \in BDA \X Day /\ rows'[k] \in Daily
          /\ \A o \in Outcome : Counter(o, rows'[k]) <= Counter(o, daily[k])
          /\ SameLogin(rows'[k], daily[k])
    BY <1>1, <2>1, RangeStands
  <2>3. QED  BY <1>1, <2>1, <2>2 DEF RowsStand
<1>5. CASE q \notin {"rollups", "day"}
  <2>1. rows' = rows  BY <1>5 DEF Finds
  <2>2. QED  BY <1>1, <1>2, <2>1 DEF RowsStand
<1>6. QED  BY <1>3, <1>4, <1>5

\* Reading the ledger, a response finds all that its rollups count.
LEMMA LedgerRead ==
  ASSUME Writers, ViewOK, RowsStand, Finds("events"),
         UNCHANGED <<vars, actPc, actLoc, seeded>>, NEW k \in DOMAIN rows
  PROVE  ExplainedRow(k)'
<1> DEFINE limit == IF view.kind = "activity" THEN 0 ELSE FeedLimit
<1>1. /\ Of(view.kind) /\ view'.kind = view.kind /\ view.bda \in BDA
      /\ view'.entries \in EventsByBDA(view.bda, limit)
      /\ rows' = rows /\ events' = events
  BY DEF Finds, InOrder, ViewOK, vars, storeVars
<1>2. /\ k \in BDA \X Day /\ k[1] = view.bda /\ k[2] \in Day /\ k = <<view.bda, k[2]>>
      /\ rows[k] \in Daily /\ daily[k] \in Daily
      /\ rows[k].leadsWon <= daily[k].leadsWon
      /\ rows[k].leadsDropped <= daily[k].leadsDropped
      /\ rows[k].loginPoints # 0 => daily[k].loginPoints # 0
  <2>1. /\ k \in BDA \X Day /\ rows[k] \in Daily /\ k[1] = view.bda
        /\ \A o \in Outcome : Counter(o, rows[k]) <= Counter(o, daily[k])
        /\ rows[k].loginPoints # 0 => SameLogin(rows[k], daily[k])
    BY <1>1 DEF RowsStand
  <2>2. daily[k] \in Daily
    BY <2>1 DEF Writers, LoginInv, TypeOK, StoresTypeOK
  <2>3. Counter("won", rows[k]) <= Counter("won", daily[k])
        /\ Counter("dropped", rows[k]) <= Counter("dropped", daily[k])
    BY <2>1 DEF Outcome
  <2>4. QED  BY <2>1, <2>2, <2>3 DEF Counter, SameLogin
<1> SUFFICES ASSUME Reaches(k[2])'
             PROVE  /\ rows[k].leadsWon <= Entries(k, "LEAD_WON")'
                    /\ rows[k].leadsDropped <= Entries(k, "LEAD_DROPPED")'
                    /\ rows[k].loginPoints # 0 => Entries(k, "LOGIN")' = 1
  BY <1>1 DEF ExplainedRow
<1>3. \/ limit = 0 \/ Cardinality(view'.entries) < limit
      \/ \E e \in view'.entries : InstantBy(e) < k[2]
  BY <1>1 DEF Reaches, InstantBy, Of
<1>4. limit \in Nat  BY ReportsAssumption DEF ReportsAssumption
<1> HIDE DEF limit
<1>5. \A e \in events : e.bda = view.bda /\ e.date = k[2] => e \in view'.entries
  BY <1>1, <1>2, <1>3, <1>4, WholeDays
<1>6. view'.entries \subseteq events  BY <1>1 DEF EventsByBDA, Newest
<1>7. \A type : {e \in view'.entries : <<e.bda, e.date>> = k /\ e.type = type} = EntriesOf(k, type)
  BY <1>2, <1>5, <1>6 DEF EntriesOf
<1>8. \A type : Entries(k, type)' = Cardinality(EntriesOf(k, type))
  BY <1>7 DEF Entries
<1>9. /\ daily[k].leadsWon <= Cardinality(EntriesOf(k, "LEAD_WON"))
      /\ daily[k].leadsDropped <= Cardinality(EntriesOf(k, "LEAD_DROPPED"))
      /\ daily[k].loginPoints # 0 => Cardinality(EntriesOf(k, "LOGIN")) = 1
      /\ Cardinality(EntriesOf(k, "LEAD_WON")) \in Nat
      /\ Cardinality(EntriesOf(k, "LEAD_DROPPED")) \in Nat
  BY <1>2, LedgerCovers, FS_CardinalityType
<1>10. QED  BY <1>2, <1>8, <1>9 DEF Daily

LEMMA ExplainedRead ==
  ASSUME Writers, ViewOK, RowsStand, Explained, NEW q, Finds(q),
         UNCHANGED <<vars, actPc, actLoc, seeded>>
  PROVE  Explained'
<1>1. CASE q = "events"
  <2>1. rows' = rows  BY <1>1 DEF Finds
  <2>2. QED  BY <1>1, <2>1, LedgerRead DEF Explained
<1>2. CASE q # "events" /\ Of(view.kind)
  <2>1. /\ view'.kind = view.kind /\ view'.entries = view.entries
        /\ ToCome' = ToCome \ {q} \/ q = "minDate"
        /\ InOrder(view.kind, q, ToCome) /\ q \in ToCome
    BY <1>2 DEF Finds
  <2>2. CASE "events" \in ToCome
    BY <1>2, <2>1, <2>2 DEF Explained, InOrder, Of
  <2>3. CASE "events" \notin ToCome
    <3>1. q = "streak" \/ rows' = rows  BY <1>2, <2>1, <2>3 DEF InOrder, Finds, Of
    <3>2. rows' = rows  BY <3>1 DEF Finds
    <3>3. \A k : ExplainedRow(k) => ExplainedRow(k)'
      BY <2>1, <3>2 DEF ExplainedRow, Reaches, Entries
    <3>4. QED  BY <1>2, <2>1, <2>3, <3>2, <3>3 DEF Explained
  <2>4. QED  BY <2>2, <2>3
<1>3. CASE ~Of(view.kind)
  BY <1>3 DEF Explained, Finds
<1>4. QED  BY <1>1, <1>2, <1>3

LEMMA ReadLedger ==
  ASSUME Writers, ViewOK, RowsStand, Explained, [ReportsNext]_allVars
  PROVE  ViewOK' /\ RowsStand' /\ Explained'
<1>1. Writers' /\ Grows /\ TypeOK
  BY Steps, NextWriters DEF Writers, LoginInv
<1>2. CASE UNCHANGED <<view, rows>>
  <2>1. today' >= today /\ today \in Int /\ today' \in Int
    BY <1>1 DEF Grows, Writers, LoginInv, TypeOK, StoresTypeOK, Day
  <2>2. view.date \in Int /\ view.began \in Int  BY DEF ViewOK, Viewed, Day
  <2>3. ViewOK'  BY <1>2, <2>1, <2>2 DEF ViewOK
  <2>4. Explained'
    BY <1>2 DEF Explained, ExplainedRow, Reaches, Entries, ToCome
  <2>5. QED  BY <1>1, <1>2, <2>3, <2>4, RowsKept
<1>3. CASE Begins
  <2>1. ViewOK' /\ DOMAIN rows' = {}  BY <1>1, <1>3, BeginStarts
  <2>2. QED  BY <2>1 DEF RowsStand, Explained
<1>4. CASE Read
  <2>1. ViewOK' /\ UNCHANGED <<vars, actPc, actLoc, seeded>> /\ \E q : Finds(q)
    BY <1>1, <1>4, ReadFinds
  <2>2. QED  BY <2>1, RowsRead, ExplainedRead
<1>5. QED  BY <1>2, <1>3, <1>4, Steps

\* A response is well formed, its rollups are no newer than the store's, and its ledger
\* explains them, in any interleaving of the reads' queries with the writers.
ReadInv == ViewOK /\ RowsStand /\ Explained

THEOREM ReadInvariant == ReportsSpec => []ReadInv
<1>1. ReportsInit => ReadInv
  <2> SUFFICES ASSUME ReportsInit PROVE ReadInv  OBVIOUS
  <2>1. ViewOK /\ view.kind = "none" /\ rows = <<>>  BY InitView
  <2>2. DOMAIN rows = {}  BY <2>1
  <2>3. QED  BY <2>1, <2>2 DEF ReadInv, RowsStand, Explained, Of
<1>2. Writers /\ ReadInv /\ [ReportsNext]_allVars => ReadInv'
  BY ReadLedger DEF ReadInv
<1>3. QED  BY <1>1, <1>2, WritersInvariant, PTL DEF ReportsSpec

\* No day of an activity or of an overview counts a lead or a login of which the response
\* does not show the entry, whatever is written between the queries (Service.Activity and
\* Service.Overview read the rollups before the ledger, which is written the other way).
THEOREM LedgerAlwaysExplains == ReportsSpec => []LedgerExplainsTotals
<1>1. ReadInv => LedgerExplainsTotals
  <2> SUFFICES ASSUME ReadInv, Shows("activity") \/ Shows("overview")
               PROVE  \A k \in DOMAIN rows : ExplainedRow(k)
    BY DEF LedgerExplainsTotals, ExplainedRow
  <2>1. Of(view.kind) /\ view.todo = <<>>  BY DEF Shows, Of
  <2>2. ToCome = {}  BY <2>1 DEF ToCome, Elems
  <2>3. QED  BY <2>1, <2>2 DEF ReadInv, Explained
<1>2. QED  BY <1>1, ReadInvariant, PTL

-----------------------------------------------------------------------------
(* What was acknowledged before a read.                                    *)

InRange(k) == IF view.kind = "report" THEN k[2] = view.date ELSE k[1] = view.bda

RollupsRead ==
  \/ view.kind = "activity" /\ "rollups" \notin ToCome
  \/ view.kind = "report" /\ "day" \notin ToCome

\* Acknowledged requests stay so, on days that had come, which a read in their range finds.
AckedStand ==
  /\ \A r \in view.acked : actPc[r] = "ok"
  /\ \A k \in BDA \X Day, o \in Outcome : AckedBefore(o, k) # {} =>
       /\ k[2] <= view.began
       /\ InRange(k) =>
            /\ view.available
            /\ RollupsRead => k \in DOMAIN rows /\ Cardinality(AckedBefore(o, k)) <= Counter(o, rows[k])

\* Requests that are acknowledged are counted.
LEMMA AckedCount ==
  ASSUME Writers, NEW acked \in SUBSET ActReq, \A r \in acked : actPc[r] = "ok",
         NEW k \in BDA \X Day, NEW o \in Outcome
  PROVE  LET S == {r \in acked : actLoc[r].outcome = o /\ RollupKey(r) = k}
         IN  /\ IsFiniteSet(S) /\ Cardinality(S) \in Nat
             /\ Cardinality(S) <= Counter(o, daily[k])
             /\ S # {} => /\ Cardinality(S) >= 1 /\ k \in Rollups /\ k[2] <= today
<1> DEFINE S == {r \in acked : actLoc[r].outcome = o /\ RollupKey(r) = k}
           done == {"ok"}
           T == {r \in ActReq : actPc[r] \in done /\ actLoc[r].outcome = o /\ RollupKey(r) = k}
<1>1. ActInv /\ daily[k] \in Daily
  BY DEF Writers, LoginInv, TypeOK, StoresTypeOK
<1>2. IsFiniteSet(T)
  <2>1. T \subseteq {r \in ActReq : actPc[r] # "idle"}  OBVIOUS
  <2>2. QED  BY <1>1, <2>1, FS_Subset DEF ActInv, FinitelyMany
<1>3. S \subseteq T  OBVIOUS
<1>4. Cardinality(T) <= Counter(o, daily[k])
  <2>1. At({"ok"}, o, k) = Cardinality(T)  BY DEF At
  <2>2. AcknowledgedIsCounted  BY <1>1, InvAcknowledged
  <2>3. At({"ok"}, o, k) <= Counter(o, daily[k])
    BY <2>2 DEF AcknowledgedIsCounted, Outcome, LeadOutcome, CallOutcome
  <2>4. QED  BY <2>1, <2>3
<1>5. Counter(o, daily[k]) \in Nat  BY <1>1 DEF Counter, Outcome, Daily
<1> HIDE DEF S, T
<1>6. /\ IsFiniteSet(S) /\ Cardinality(S) \in Nat /\ Cardinality(T) \in Nat
      /\ Cardinality(S) <= Cardinality(T)
      /\ S # {} => Cardinality(S) # 0
  BY <1>2, <1>3, FS_Subset, FS_CardinalityType, FS_EmptySet
<1>7. Cardinality(S) <= Counter(o, daily[k])  BY <1>4, <1>5, <1>6
<1>8. ASSUME S # {} PROVE k \in Rollups /\ k[2] <= today
  <2>1. Counter(o, daily[k]) # 0  BY <1>5, <1>6, <1>7, <1>8
  <2>2. Counter(o, EmptyDay) = 0  BY DEF Counter, Outcome, EmptyDay
  <2>3. daily[k] # EmptyDay  BY <2>1, <2>2
  <2>4. QED  BY <1>1, <2>3 DEF ActInv, Sound, NothingAheadOfToday, Rollups
<1>9. QED  BY <1>6, <1>7, <1>8 DEF S

\* A query of a read that is in range finds what had been acknowledged.
LEMMA AckedRead ==
  ASSUME Writers, ViewOK, AckedStand, NEW q, Finds(q), UNCHANGED <<vars, actPc, actLoc, seeded>>
  PROVE  AckedStand'
<1>1. /\ view'.kind = view.kind /\ view'.bda = view.bda /\ view'.began = view.began
      /\ view'.acked = view.acked /\ view.acked \in SUBSET ActReq
      /\ actPc' = actPc /\ actLoc' = actLoc
  BY DEF Finds, ViewOK, Viewed
<1>2. \A k, o : AckedBefore(o, k)' = AckedBefore(o, k)
  BY <1>1 DEF AckedBefore, RollupKey
<1>3. \A k : InRange(k)' = InRange(k)
  <2>1. view.kind = "report" => view'.date = view.date  BY DEF Finds, InOrder, Of
  <2>2. QED  BY <1>1, <2>1 DEF InRange
<1>4. SUFFICES ASSUME NEW k \in BDA \X Day, NEW o \in Outcome, AckedBefore(o, k) # {}, InRange(k)
               PROVE  /\ view'.available
                      /\ RollupsRead' => /\ k \in DOMAIN rows'
                                         /\ Cardinality(AckedBefore(o, k)) <= Counter(o, rows'[k])
  BY <1>1, <1>2, <1>3 DEF AckedStand
<1>5. /\ view.available /\ k[2] <= view.began /\ view.began <= today
      /\ RollupsRead => k \in DOMAIN rows /\ Cardinality(AckedBefore(o, k)) <= Counter(o, rows[k])
  BY <1>4 DEF AckedStand, ViewOK
<1>6. k \in Rollups /\ Cardinality(AckedBefore(o, k)) <= Counter(o, daily[k])
  BY <1>1, <1>4, AckedCount DEF AckedStand, AckedBefore
<1>7. k[1] \in BDA /\ k[2] \in Day /\ today \in Int /\ view.began \in Int /\ view.date \in Int
      /\ Day \subseteq Nat
  BY <1>4 DEF ViewOK, Viewed, Day, Writers, LoginInv, TypeOK, StoresTypeOK
<1>8. CASE q = "minDate"
  <2>1. view.kind = "report" /\ rows' = rows /\ view'.available = Known
    BY <1>8 DEF Finds, InOrder
  <2>2. k[2] = view.date  BY <1>4, <2>1 DEF InRange
  <2> DEFINE dates == {j[2] : j \in Rollups}
  <2>3. dates \in SUBSET Nat /\ k[2] \in dates
    <3>1. \A j \in Rollups : j[2] \in Nat  BY <1>7 DEF Rollups
    <3>2. QED  BY <1>6, <3>1
  <2> HIDE DEF dates
  <2>4. Min(dates) <= k[2]  BY <2>3, MinOfNats
  <2>5. Known  BY <1>5, <1>7, <2>2, <2>3, <2>4 DEF Known, dates
  <2>6. ToCome' = ToCome \ {q}  BY <2>5 DEF Finds
  <2>7. RollupsRead' => RollupsRead
    BY <1>1, <1>8, <2>1, <2>6 DEF RollupsRead
  <2>8. QED  BY <1>5, <2>1, <2>5, <2>7
<1>9. CASE q = "day"
  <2>1. /\ view.kind = "report" /\ view'.available = view.available
        /\ rows' = DailyRange(BDA, view.date, view.date)
    BY <1>9 DEF Finds, InOrder
  <2>2. k[2] = view.date  BY <1>4, <2>1 DEF InRange
  <2>3. k \in DOMAIN rows' /\ rows'[k] = daily[k]
    BY <1>6, <1>7, <2>1, <2>2 DEF DailyRange
  <2>4. QED  BY <1>5, <1>6, <2>1, <2>3
<1>10. CASE q = "rollups" /\ view.kind = "activity"
  <2>1. /\ view'.available = view.available /\ rows' = DailyRange({view.bda}, 0, view.date)
    BY <1>10 DEF Finds
  <2>2. k[1] = view.bda  BY <1>4, <1>10 DEF InRange
  <2>3. Of(view.kind) /\ view.began <= view.date
    BY <1>10 DEF ViewOK, Finds, InOrder, Of
  <2>4. k[2] \in Nat /\ view.date \in Int  BY <1>7
  <2>5. 0 <= k[2] /\ k[2] <= view.date  BY <1>5, <1>7, <2>3, <2>4
  <2> DEFINE only == {view.bda}
  <2>6. k[1] \in only /\ rows' = DailyRange(only, 0, view.date)  BY <2>1, <2>2
  <2> HIDE DEF only
  <2>7. k \in DOMAIN rows' /\ rows'[k] = daily[k]
    BY <1>6, <2>5, <2>6 DEF DailyRange
  <2>8. QED  BY <1>5, <1>6, <2>1, <2>7
<1>11. CASE q = "rollups" /\ view.kind # "activity"
  <2>1. view.kind = "overview" /\ view'.available = view.available
    BY <1>11 DEF Finds, InOrder, Of
  <2>2. QED  BY <1>1, <1>5, <2>1 DEF RollupsRead
<1>12. CASE q \notin {"minDate", "day", "rollups"}
  <2>1. rows' = rows /\ view'.available = view.available /\ ToCome' = ToCome \ {q}
    BY <1>12 DEF Finds
  <2>2. RollupsRead' => RollupsRead
    BY <1>1, <1>12, <2>1 DEF RollupsRead
  <2>3. QED  BY <1>5, <2>1, <2>2
<1>13. QED  BY <1>8, <1>9, <1>10, <1>11, <1>12

\* What others do leaves what the response holds.
LEMMA AckedKept ==
  ASSUME Writers, ViewOK, AckedStand, Grows, UNCHANGED <<view, rows>>
  PROVE  AckedStand'
<1>1. view.acked \subseteq ActReq  BY DEF ViewOK, Viewed
<1>2. \A r \in view.acked : actPc[r] = "ok" /\ actPc'[r] = "ok" /\ actLoc'[r] = actLoc[r]
  BY <1>1 DEF AckedStand, Grows
<1>3. \A k, o : AckedBefore(o, k)' = AckedBefore(o, k)
  BY <1>2 DEF AckedBefore, RollupKey
<1>4. (RollupsRead' <=> RollupsRead) /\ \A k : InRange(k)' <=> InRange(k)
  BY DEF RollupsRead, InRange, ToCome
<1>5. QED  BY <1>2, <1>3, <1>4 DEF AckedStand

\* A read begins with what is acknowledged, of days that have come.
LEMMA AckedBegins ==
  ASSUME Writers, ViewOK, Begins
  PROVE  AckedStand'
<1>1. /\ UNCHANGED <<vars, actPc, actLoc>>
      /\ view'.kind \in {"activity", "overview", "report"}
      /\ view'.began = today /\ view'.acked = {r \in ActReq : actPc[r] = "ok"}
      /\ view'.available = TRUE
      /\ Of(view'.kind) => {"user", "clock", "rollups", "events"} \subseteq ToCome'
      /\ view'.kind = "report" => {"minDate", "day"} \subseteq ToCome'
  BY BeginStarts DEF Writers, LoginInv
<1>2. ~RollupsRead'  BY <1>1 DEF RollupsRead, Of
<1> DEFINE acked == {r \in ActReq : actPc[r] = "ok"}
<1>3. \A k, o : AckedBefore(o, k)' = {r \in acked : actLoc[r].outcome = o /\ RollupKey(r) = k}
  BY <1>1 DEF AckedBefore, RollupKey
<1>4. acked \in SUBSET ActReq /\ \A r \in acked : actPc[r] = "ok"  OBVIOUS
<1> HIDE DEF acked
<1>5. \A k \in BDA \X Day, o \in Outcome : AckedBefore(o, k)' # {} => k[2] <= today
  BY <1>3, <1>4, AckedCount
<1>6. QED  BY <1>1, <1>2, <1>4, <1>5 DEF AckedStand, acked

\* In every state, what had been acknowledged when a read began is counted in what the
\* read has found in its range (Service.Activity, Service.DailyReport).
THEOREM AckedInvariant == ReportsSpec => []AckedStand
<1>1. ReportsInit => AckedStand
  <2> SUFFICES ASSUME ReportsInit PROVE AckedStand  OBVIOUS
  <2>1. view.acked = {}  BY InitView
  <2>2. QED  BY <2>1 DEF AckedStand, AckedBefore
<1>2. Writers /\ ReadInv /\ AckedStand /\ [ReportsNext]_allVars => AckedStand'
  <2> SUFFICES ASSUME Writers, ViewOK, AckedStand, [ReportsNext]_allVars PROVE AckedStand'
    BY DEF ReadInv
  <2>1. Grows /\ TypeOK  BY Steps, NextWriters DEF Writers, LoginInv
  <2>2. CASE UNCHANGED <<view, rows>>  BY <2>1, <2>2, AckedKept
  <2>3. CASE Begins  BY <2>3, AckedBegins
  <2>4. CASE Read
    <3>1. UNCHANGED <<vars, actPc, actLoc, seeded>> /\ \E q : Finds(q)
      BY <2>1, <2>4, ReadFinds
    <3>2. QED  BY <3>1, AckedRead
  <2>5. QED  BY <2>2, <2>3, <2>4, Steps
<1>3. QED  BY <1>1, <1>2, WritersInvariant, ReadInvariant, PTL DEF ReportsSpec

\* Every lead and call acknowledged before an activity or a daily report was asked for is on
\* its day in the response, and every record, one of talk time alone included, is counted in
\* the rollup the response was made from, whatever runs meanwhile and whatever fails
\* (Service.Activity, Service.DailyReport, and the window of its days).
THEOREM AcknowledgedIsAlwaysShown == ReportsSpec => []AcknowledgedIsShown
<1>1. Writers /\ ReadInv /\ AckedStand => AcknowledgedIsShown
  <2> SUFFICES ASSUME Writers, ReadInv, AckedStand, NEW k \in BDA \X Day,
                      \/ Shows("activity") /\ view.bda = k[1]
                      \/ Shows("report") /\ view.date = k[2]
               PROVE  /\ \A o \in {"won", "dropped", "calls"} :
                           AckedBefore(o, k) # {} => RowShown(k)
                      /\ \A o \in Outcome :
                           Cardinality(AckedBefore(o, k)) <= Counter(o, Row(k))
    BY DEF AcknowledgedIsShown, LeadOutcome, CallOutcome, Outcome
  <2>1. ToCome = {}  BY DEF Shows, ToCome, Elems
  <2>2. InRange(k) /\ RollupsRead  BY <2>1 DEF InRange, RollupsRead, Shows
  <2>3. ASSUME NEW o \in Outcome, AckedBefore(o, k) # {}
        PROVE  /\ k \in DOMAIN rows /\ Row(k) = rows[k] /\ rows[k] \in Daily
               /\ Cardinality(AckedBefore(o, k)) <= Counter(o, rows[k])
    <3>1. k \in DOMAIN rows /\ Cardinality(AckedBefore(o, k)) <= Counter(o, rows[k])
      BY <2>2, <2>3 DEF AckedStand
    <3>2. QED  BY <3>1 DEF Row, ReadInv, RowsStand
  <2>4. ASSUME NEW o \in Outcome
        PROVE  Cardinality(AckedBefore(o, k)) <= Counter(o, Row(k))
    <3>1. CASE AckedBefore(o, k) # {}  BY <2>3, <3>1
    <3>2. CASE AckedBefore(o, k) = {}
      <4>1. Row(k) \in Daily
        BY DEF Row, EmptyDay, Daily, ReadInv, RowsStand
      <4>2. Counter(o, Row(k)) \in Nat  BY <4>1 DEF Counter, Outcome, Daily
      <4>3. QED  BY <3>2, <4>2, FS_EmptySet
    <3>3. QED  BY <3>1, <3>2
  <2>5. ASSUME NEW o \in {"won", "dropped", "calls"}, AckedBefore(o, k) # {}
        PROVE  RowShown(k)
    <3>1. /\ o \in Outcome /\ k \in DOMAIN rows /\ rows[k] \in Daily
          /\ Cardinality(AckedBefore(o, k)) <= Counter(o, rows[k])
      BY <2>3, <2>5 DEF Outcome
    <3>2. CASE view.kind = "report"
      <4>1. view.available /\ k[2] = view.date
        BY <2>2, <2>5, <3>1, <3>2 DEF AckedStand, InRange
      <4>2. QED  BY <3>2, <4>1 DEF RowShown
    <3>3. CASE view.kind = "activity"
      <4>1. ExplainedRow(k) /\ Reaches(k[2])
        BY <2>1, <3>1, <3>3 DEF ReadInv, Explained, Of, Reaches
      <4>2. Cardinality(AckedBefore(o, k)) \in Nat /\ Cardinality(AckedBefore(o, k)) >= 1
        <5>1. view.acked \in SUBSET ActReq /\ \A r \in view.acked : actPc[r] = "ok"
          BY DEF AckedStand, ReadInv, ViewOK, Viewed
        <5>2. QED  BY <2>5, <3>1, <5>1, AckedCount DEF AckedBefore
      <4>3. Counter(o, rows[k]) \in Nat  BY <3>1 DEF Counter, Outcome, Daily
      <4>4. Counter(o, rows[k]) >= 1  BY <3>1, <4>2, <4>3
      <4>5. ASSUME NEW type, {e \in view.entries : <<e.bda, e.date>> = k /\ e.type = type} = {}
            PROVE  Entries(k, type) = 0
        BY <4>5, FS_EmptySet DEF Entries
      <4>6. CASE o = "calls"
        BY <3>1, <3>3, <4>3, <4>4, <4>6 DEF Counter, RowShown, DayShown
      <4>7. CASE o \in {"won", "dropped"}
        <5>1. \E e \in view.entries : <<e.bda, e.date>> = k
          <6>1. CASE o = "won"
            <7>1. rows[k].leadsWon >= 1  BY <4>4, <6>1 DEF Counter
            <7>2. QED  BY <3>1, <4>1, <4>5, <7>1 DEF ExplainedRow, Daily
          <6>2. CASE o = "dropped"
            <7>1. rows[k].leadsDropped >= 1  BY <4>4, <6>2 DEF Counter
            <7>2. QED  BY <3>1, <4>1, <4>5, <7>1 DEF ExplainedRow, Daily
          <6>3. QED  BY <4>7, <6>1, <6>2
        <5>2. QED  BY <3>1, <3>3, <5>1 DEF RowShown, DayShown
      <4>8. QED  BY <2>5, <4>6, <4>7
    <3>4. QED  BY <3>2, <3>3 DEF Shows
  <2>6. QED  BY <2>4, <2>5
<1>2. QED  BY <1>1, WritersInvariant, ReadInvariant, AckedInvariant, PTL

-----------------------------------------------------------------------------
(* The leads of a window.                                                  *)

Window(b, from, to) == {k \in Rollups : k[1] = b /\ from <= k[2] /\ k[2] <= to}

WonIn(b, from, to) == [k \in Window(b, from, to) |-> daily[k].leadsWon]

LEMMA LeadsWonIs ==
  ASSUME NEW b, NEW from, NEW to
  PROVE  /\ LeadsWonOver(b, from, to) = SumFunctionOnSet(WonIn(b, from, to), Window(b, from, to))
         /\ (LeadsWonOver(b, from, to)
               = SumFunctionOnSet(WonIn(b, from, to), Window(b, from, to)))'
<1> DEFINE totals == DailyRange({b}, from, to)
           won == [k \in DOMAIN totals |-> totals[k].leadsWon]
           wonNext == [k \in DOMAIN totals' |-> totals'[k].leadsWon]
<1>1. /\ totals = [k \in Window(b, from, to) |-> daily[k]]
      /\ totals' = [k \in Window(b, from, to)' |-> daily'[k]]
  BY DEF DailyRange, Window
<1>2. /\ won = WonIn(b, from, to) /\ DOMAIN won = Window(b, from, to)
      /\ wonNext = WonIn(b, from, to)' /\ DOMAIN wonNext = Window(b, from, to)'
  BY <1>1 DEF WonIn
<1>3. /\ LeadsWonOver(b, from, to) = SumFunctionOnSet(won, DOMAIN won)
      /\ LeadsWonOver(b, from, to)' = SumFunctionOnSet(wonNext, DOMAIN wonNext)
  BY DEF LeadsWonOver, SumFunction
<1> HIDE DEF won, wonNext
<1>4. QED  BY <1>2, <1>3

\* The rollups of one associate are finitely many.
LEMMA WindowIsFinite ==
  ASSUME NEW b, NEW S, \A k \in S : k \in BDA \X Day /\ k[1] = b
  PROVE  IsFiniteSet(S)
<1> DEFINE name == [d \in Day |-> <<b, d>>]
<1>1. IsFiniteSet(Day)
  BY FS_Interval, StoresAssumption DEF Day, StoresAssumption
<1>2. IsFiniteSet({name[d] : d \in Day})  BY <1>1, ImageIsFinite
<1>3. S \subseteq {name[d] : d \in Day}
  <2>1. \A k \in S : k[2] \in Day /\ k = name[k[2]]  OBVIOUS
  <2>2. QED  BY <2>1
<1>4. QED  BY <1>2, <1>3, FS_Subset

\* The leads of a window only grow, and with the window.
LEMMA LeadsWonGrow ==
  ASSUME TypeOK, TypeOK', Grows, seeded' = seeded, NEW b, NEW from, NEW to, NEW first, NEW last,
         \A d \in Day : from <= d /\ d <= to => first <= d /\ d <= last
  PROVE  /\ LeadsWonOver(b, from, to) <= LeadsWonOver(b, first, last)'
         /\ LeadsWonOver(b, from, to) \in Nat /\ LeadsWonOver(b, first, last)' \in Nat
<1> DEFINE I == Window(b, from, to)
           J == Window(b, first, last)'
           f == WonIn(b, from, to)
           g == WonIn(b, first, last)'
<1>1. LeadsWonOver(b, from, to) = SumFunctionOnSet(f, I)  BY LeadsWonIs
<1>2. LeadsWonOver(b, first, last)' = SumFunctionOnSet(g, J)  BY LeadsWonIs
<1>3. daily \in [BDA \X Day -> Daily] /\ daily' \in [BDA \X Day -> Daily]
  BY DEF TypeOK, StoresTypeOK
<1>4. \A k \in I : k \in BDA \X Day /\ k[1] = b /\ k[2] \in Day /\ from <= k[2] /\ k[2] <= to
                   /\ k \in Rollups
  BY DEF Window, Rollups
<1>5. \A k \in J : k \in BDA \X Day /\ k[1] = b
  BY DEF Window, Rollups
<1>6. IsFiniteSet(J)  BY <1>5, WindowIsFinite
<1>7. \A k \in Rollups : k \in Rollups'
  BY DEF Rollups, Grows
<1>8. I \subseteq J  BY <1>4, <1>7 DEF Window
<1>9. \A k \in I : f[k] \in Nat /\ f[k] <= g[k]
  <2> SUFFICES ASSUME NEW k \in I PROVE f[k] \in Nat /\ f[k] <= g[k]  OBVIOUS
  <2>1. f[k] = daily[k].leadsWon /\ g[k] = daily'[k].leadsWon
    BY <1>8 DEF WonIn
  <2>2. k \in BDA \X Day  BY <1>4
  <2>3. daily[k].leadsWon \in Nat /\ daily'[k].leadsWon \in Nat
    BY <1>3, <2>2 DEF Daily
  <2>4. Counter("won", daily'[k]) >= Counter("won", daily[k])
    BY <2>2 DEF Grows, Outcome
  <2>5. QED  BY <2>1, <2>3, <2>4 DEF Counter
<1>10. \A k \in J : g[k] \in Nat
  <2> SUFFICES ASSUME NEW k \in J PROVE g[k] \in Nat  OBVIOUS
  <2>1. g[k] = daily'[k].leadsWon /\ daily'[k] \in Daily  BY <1>3, <1>5 DEF WonIn
  <2>2. QED  BY <2>1 DEF Daily
<1> HIDE DEF I, J, f, g
<1>11. IsFiniteSet(I)  BY <1>6, <1>8, FS_Subset
<1>12. SumFunctionOnSet(f, I) <= SumFunctionOnSet(g, J)
  <2>1. /\ \A k \in I : f[k] \in Int /\ f[k] <= g[k]
        /\ \A k \in J : g[k] \in Int /\ (k \notin I => g[k] >= 0)
    BY <1>9, <1>10
  <2>2. QED  BY <1>6, <1>8, <2>1, SumGrows
<1>13. SumFunctionOnSet(f, I) \in Nat /\ SumFunctionOnSet(g, J) \in Nat
  <2>1. SumFunctionOnSet(f, I) \in Nat  BY <1>9, <1>11, SumOfNats
  <2>2. SumFunctionOnSet(g, J) \in Nat  BY <1>6, <1>10, SumOfNats
  <2>3. QED  BY <2>1, <2>2
<1>14. QED  BY <1>1, <1>2, <1>12, <1>13

-----------------------------------------------------------------------------
(* The figures of an overview.                                             *)

\* Whether the read may still be of the one day on which it began.
StillToday ==
  IF "clock" \in ToCome THEN today = view.began ELSE view.date = view.began

WonSince(from) == SumFunction([k \in {j \in DOMAIN rows : from <= j[2]} |-> rows[k].leadsWon])

\* The user's last login is credited, at the streak of the user.
UserStands ==
  "user" \notin ToCome /\ view.user.last # Never =>
    LET day == daily[<<view.bda, view.user.last>>]
    IN  day.loginPoints # 0 /\ day.loggedIn /\ day.streakDay = view.user.current

\* ... and so has a tile, if it is of the day.
TileStands ==
  "rollups" \notin ToCome /\ StillToday /\ view.user.last = view.began =>
    LET k == <<view.bda, view.began>>
    IN  k \in DOMAIN rows /\ rows[k].loggedIn /\ rows[k].streakDay = view.user.current

StreakStands ==
  "streak" \notin ToCome =>
    /\ view.loggedInToday <=> view.user.last = view.date
    /\ view.streak = IF view.user.last \in {view.date, view.date - 1}
                     THEN view.user.current ELSE 0

\* The leads of the range are among those of all time,
TotalStands ==
  "summary" \notin ToCome =>
    view.summary <= IF "allTime" \in ToCome THEN LeadsWonOver(view.bda, 0, today)
                                            ELSE view.allTime

\* ... and, of one day, among those of a chart that is as long.
WindowStands ==
  "summary" \notin ToCome /\ StillToday =>
    IF "rollups" \in ToCome
    THEN view.summary <= LeadsWonOver(view.bda, FirstDay(view.days, view.began), view.began)
    ELSE view.days \in 1 .. ChartDays => view.summary <= WonSince(FirstDay(view.days, view.began))

FiguresStand ==
  view.kind = "overview" =>
    UserStands /\ TileStands /\ StreakStands /\ TotalStands /\ WindowStands

\* What the others do leaves the figures so.
LEMMA FiguresKept ==
  ASSUME TypeOK, TypeOK', ViewOK, FiguresStand, Grows, seeded' = seeded, UNCHANGED <<view, rows>>
  PROVE  FiguresStand'
<1> SUFFICES ASSUME view.kind = "overview"
             PROVE  (UserStands /\ TileStands /\ StreakStands /\ TotalStands /\ WindowStands)'
  BY DEF FiguresStand
<1> DEFINE b == view.bda
<1>1. /\ UserStands /\ TileStands /\ StreakStands /\ TotalStands /\ WindowStands
      /\ ToCome' = ToCome /\ b \in BDA /\ view.user \in User
      /\ view.summary \in Nat /\ view.began \in Int /\ today \in Int /\ today' \in Int
      /\ view.began <= today /\ today <= today'
  BY DEF FiguresStand, ToCome, ViewOK, Viewed, Of, Grows, TypeOK, StoresTypeOK, Day
<1>2. StillToday' => StillToday  BY <1>1 DEF StillToday
<1>3. UserStands'
  <2> SUFFICES ASSUME "user" \notin ToCome, view.user.last # Never
               PROVE  LET day == daily'[<<b, view.user.last>>]
                      IN  day.loginPoints # 0 /\ day.loggedIn
                          /\ day.streakDay = view.user.current
    BY <1>1 DEF UserStands
  <2> DEFINE k == <<b, view.user.last>>
  <2>1. k \in BDA \X Day  BY <1>1 DEF User
  <2>2. daily[k].loginPoints # 0 /\ daily[k].loggedIn /\ daily[k].streakDay = view.user.current
    BY <1>1 DEF UserStands
  <2> HIDE DEF k
  <2>3. SameLogin(daily[k], daily'[k])  BY <2>1, <2>2 DEF Grows
  <2>4. QED  BY <2>2, <2>3 DEF SameLogin, k
<1>4. TileStands'  BY <1>1, <1>2 DEF TileStands
<1>5. StreakStands'  BY <1>1 DEF StreakStands
<1>6. TotalStands'
  <2> SUFFICES ASSUME "summary" \notin ToCome, "allTime" \in ToCome
               PROVE  view.summary <= LeadsWonOver(b, 0, today)'
    BY <1>1 DEF TotalStands
  <2>1. view.summary <= LeadsWonOver(b, 0, today)  BY <1>1 DEF TotalStands
  <2>2. /\ LeadsWonOver(b, 0, today) <= LeadsWonOver(b, 0, today)'
        /\ LeadsWonOver(b, 0, today) \in Nat /\ LeadsWonOver(b, 0, today)' \in Nat
    <3>1. \A d \in Day : 0 <= d /\ d <= today => 0 <= d /\ d <= today'
      BY <1>1 DEF Day
    <3>2. QED  BY <3>1, LeadsWonGrow
  <2>3. QED  BY <1>1, <2>1, <2>2
<1>7. WindowStands'
  <2> SUFFICES ASSUME "summary" \notin ToCome, StillToday, "rollups" \in ToCome
               PROVE  view.summary <= LeadsWonOver(b, FirstDay(view.days, view.began), view.began)'
    BY <1>1, <1>2 DEF WindowStands, WonSince
  <2> DEFINE from == FirstDay(view.days, view.began)
  <2>1. view.summary <= LeadsWonOver(b, from, view.began)  BY <1>1 DEF WindowStands
  <2>2. from' = from  BY DEF FirstDay
  <2> HIDE DEF from
  <2>3. /\ LeadsWonOver(b, from, view.began) <= LeadsWonOver(b, from, view.began)'
        /\ LeadsWonOver(b, from, view.began) \in Nat
        /\ LeadsWonOver(b, from, view.began)' \in Nat
    BY <2>2, LeadsWonGrow
  <2>4. QED  BY <1>1, <2>1, <2>3 DEF from
<1>8. QED  BY <1>3, <1>4, <1>5, <1>6, <1>7

\* An overview reads the user, then the leads of its range, then those of all time, and
\* only then the chart.
LEMMA FiguresInOrder ==
  ASSUME ViewOK, view.kind = "overview"
  PROVE  /\ "user" \in ToCome => {"summary", "allTime", "clock", "rollups"} \subseteq ToCome
         /\ "summary" \in ToCome => {"allTime", "clock", "rollups"} \subseteq ToCome
         /\ "allTime" \in ToCome => {"clock", "rollups"} \subseteq ToCome
         /\ "clock" \in ToCome => "rollups" \in ToCome
         /\ ToCome # {} => "streak" \in ToCome
<1> DEFINE t1 == <<"user", "summary", "allTime", "clock", "rollups", "events", "streak">>
           t2 == <<"summary", "allTime", "clock", "rollups", "events", "streak">>
           t3 == <<"allTime", "clock", "rollups", "events", "streak">>
           t4 == <<"clock", "rollups", "events", "streak">>
           t5 == <<"rollups", "events", "streak">>
           t6 == <<"events", "streak">>
<1>1. view.todo \in {t1, t2, t3, t4, t5, t6, <<"streak">>, <<>>}
  BY DEF ViewOK, Remaining
<1>2. /\ Elems(t1) = {"user", "summary", "allTime", "clock", "rollups", "events", "streak"}
      /\ Elems(t2) = {"summary", "allTime", "clock", "rollups", "events", "streak"}
      /\ Elems(t3) = {"allTime", "clock", "rollups", "events", "streak"}
      /\ Elems(t4) = {"clock", "rollups", "events", "streak"}
      /\ Elems(t5) = {"rollups", "events", "streak"}
      /\ Elems(t6) = {"events", "streak"}
      /\ Elems(<<"streak">>) = {"streak"} /\ Elems(<<>>) = {}
  BY DEF Elems
<1> HIDE DEF t1, t2, t3, t4, t5, t6
<1>3. QED  BY <1>1, <1>2 DEF ToCome

\* An overview that begins has no figures yet.
LEMMA FiguresBegin ==
  ASSUME TypeOK, ViewOK, Begins
  PROVE  FiguresStand'
<1>1. view'.kind = "overview" =>
        {"user", "clock", "rollups", "events", "summary", "allTime", "streak"} \subseteq ToCome'
  BY BeginStarts DEF Of
<1>2. QED
  BY <1>1 DEF FiguresStand, UserStands, TileStands, StreakStands, TotalStands, WindowStands

\* Each query finds figures that go with those found before it.
LEMMA FiguresRead ==
  ASSUME TypeOK, TypeOK', RollupOK, StreakBacked, ViewOK, ViewOK', FiguresStand, Grows,
         NEW q, Finds(q), UNCHANGED <<vars, actPc, actLoc, seeded>>
  PROVE  FiguresStand'
<1> SUFFICES ASSUME view'.kind = "overview"
             PROVE  (UserStands /\ TileStands /\ StreakStands /\ TotalStands /\ WindowStands)'
  BY DEF FiguresStand
<1> DEFINE b == view.bda
<1>1. /\ view.kind = "overview" /\ InOrder(view.kind, q, ToCome) /\ q \in ToCome
      /\ q \notin {"minDate", "day"} /\ ToCome' = ToCome \ {q}
      /\ view'.bda = b /\ view'.began = view.began /\ view'.days = view.days
  BY DEF Finds, InOrder
<1>2. /\ UserStands /\ TileStands /\ StreakStands /\ TotalStands /\ WindowStands
      /\ b \in BDA /\ users' = users /\ daily' = daily /\ today' = today
  BY <1>1 DEF FiguresStand, ViewOK, Of, vars, storeVars
<1>3. /\ users \in [Account -> User] /\ view.user \in User /\ view'.user \in User
      /\ view.summary \in Nat /\ view'.summary \in Nat /\ view'.allTime \in Nat
      /\ view.days \in Nat /\ view.began \in Day /\ view.date \in Day /\ today \in Day
      /\ view.began <= view.date /\ view.date <= today /\ Day \subseteq Int
  BY <1>1 DEF ViewOK, Viewed, TypeOK, StoresTypeOK, Of, Day
<1>4. q # "user" => view'.user = view.user  BY DEF Finds
<1>5. StillToday' => StillToday
  <2>1. view'.date = IF q \in {"clock", "streak"} THEN today ELSE view.date
    BY DEF Finds
  <2>2. CASE q = "clock"  BY <1>1, <1>2, <2>1, <2>2 DEF StillToday
  <2>3. CASE q = "streak"
    <3>1. "clock" \notin ToCome  BY <1>1, <2>3 DEF InOrder
    <3>2. StillToday' => today = view.began  BY <1>1, <2>1, <2>3, <3>1 DEF StillToday
    <3>3. QED  BY <1>3, <3>1, <3>2 DEF StillToday
  <2>4. CASE q \notin {"clock", "streak"}
    BY <1>1, <1>2, <2>1, <2>4 DEF StillToday
  <2>5. QED  BY <2>2, <2>3, <2>4
<1>6. UserStands'
  <2>1. CASE q = "user"
    <3>1. view'.user = users[b]  BY <2>1 DEF Finds
    <3>2. ASSUME users[b].last # Never
          PROVE  LET day == daily[<<b, users[b].last>>]
                 IN  day.loginPoints # 0 /\ day.loggedIn /\ day.streakDay = users[b].current
      <4> DEFINE k == <<b, users[b].last>>
      <4>1. k \in BDA \X Day  BY <1>2, <1>3, <3>2 DEF User, Account
      <4>2. daily[k].loggedIn /\ daily[k].streakDay = users[b].current
        BY <1>2, <3>2 DEF StreakBacked
      <4> HIDE DEF k
      <4>3. daily[k].loginPoints # 0  BY <4>1, <4>2, CreditedDay
      <4>4. QED  BY <4>2, <4>3 DEF k
    <3>3. QED  BY <1>1, <1>2, <3>1, <3>2 DEF UserStands
  <2>2. CASE q # "user"
    BY <1>1, <1>2, <1>4, <2>2 DEF UserStands
  <2>3. QED  BY <2>1, <2>2
<1>7. TileStands'
  <2> SUFFICES ASSUME "rollups" \notin ToCome', StillToday, view'.user.last = view.began
               PROVE  LET k == <<b, view.began>>
                      IN  k \in DOMAIN rows' /\ rows'[k].loggedIn
                          /\ rows'[k].streakDay = view'.user.current
    BY <1>1, <1>5 DEF TileStands
  <2> DEFINE k == <<b, view.began>>
  <2>1. "user" \notin ToCome /\ q # "user"
    <3>1. q = "rollups" => "user" \notin ToCome  BY <1>1 DEF InOrder
    <3>2. q # "rollups" => "rollups" \notin ToCome  BY <1>1
    <3>3. "rollups" \notin ToCome => "user" \notin ToCome  BY <1>1, FiguresInOrder
    <3>4. QED  BY <1>1, <3>1, <3>2, <3>3
  <2>2. k \in BDA \X Day /\ view.user.last = view.began /\ view.user.last # Never
    BY <1>2, <1>3, <1>4, <2>1 DEF Day, Never
  <2>3. CASE q = "rollups"
    <3>1. /\ daily[k].loginPoints # 0 /\ daily[k].loggedIn
          /\ daily[k].streakDay = view.user.current
      BY <1>2, <2>1, <2>2 DEF UserStands
    <3>2. view.date = view.began  BY <1>1, <2>3 DEF StillToday, InOrder
    <3> DEFINE from == FirstDay(ChartDays, view.date)
    <3>3. from <= view.date
      <4>1. ChartDays \in Nat \ {0} /\ view.date \in Int
        BY <1>3, ReportsAssumption DEF ReportsAssumption
      <4>2. QED  BY <4>1 DEF FirstDay
    <3> HIDE DEF k, from
    <3>4. k \in Rollups  BY <2>2, <3>1 DEF Rollups, EmptyDay
    <3>5. rows' = DailyRange({b}, from, view.date)
      BY <1>1, <2>3 DEF Finds, from
    <3>6. k[1] = b /\ k[2] = view.date  BY <3>2 DEF k
    <3>7. k[1] \in {b} /\ from <= k[2] /\ k[2] <= view.date
      BY <1>3, <3>3, <3>6
    <3>8. k \in DOMAIN rows' /\ rows'[k] = daily[k]
      BY <3>4, <3>5, <3>7 DEF DailyRange
    <3>9. QED  BY <1>4, <2>1, <3>1, <3>8 DEF k
  <2>4. CASE q # "rollups"
    <3>1. rows' = rows /\ "rollups" \notin ToCome  BY <1>1, <2>4 DEF Finds
    <3>2. QED  BY <1>2, <1>4, <2>1, <2>2, <3>1 DEF TileStands
  <2>5. QED  BY <2>3, <2>4
<1>8. StreakStands'
  <2>1. CASE q = "streak"
    <3>1. /\ view'.user = view.user /\ view'.date = today
          /\ view'.streak = CurrentStreak(view.user)
          /\ view'.loggedInToday = (view.user.last = today)
      BY <2>1 DEF Finds
    <3>2. QED  BY <3>1 DEF StreakStands, CurrentStreak
  <2>2. CASE "streak" \notin ToCome  BY <1>1, <2>2, FiguresInOrder
  <2>3. CASE q # "streak" /\ "streak" \in ToCome
    BY <1>1, <2>3 DEF StreakStands
  <2>4. QED  BY <2>1, <2>2, <2>3
<1>9. TotalStands'
  <2>1. CASE q = "summary"
    <3> DEFINE from == FirstDay(view.days, today)
    <3>1. view'.summary = LeadsWonOver(b, from, today) /\ "allTime" \in ToCome'
      BY <1>1, <2>1 DEF Finds, InOrder
    <3>2. \A d \in Day : from <= d /\ d <= today => 0 <= d /\ d <= today
      BY DEF Day
    <3> HIDE DEF from
    <3>3. LeadsWonOver(b, from, today) <= LeadsWonOver(b, 0, today)'
      BY <1>1, <1>2, <3>2, LeadsWonGrow
    <3>4. QED  BY <1>1, <1>2, <3>1, <3>3 DEF TotalStands
  <2>2. CASE q = "allTime"
    <3>1. /\ view'.allTime = LeadsWonOver(b, 0, today) /\ view'.summary = view.summary
          /\ "summary" \notin ToCome
      BY <1>1, <2>2, FiguresInOrder DEF Finds, InOrder
    <3>2. view.summary <= LeadsWonOver(b, 0, today)
      BY <1>1, <1>2, <2>2, <3>1 DEF TotalStands
    <3>3. QED  BY <1>1, <2>2, <3>1, <3>2 DEF TotalStands
  <2>3. CASE q \notin {"summary", "allTime"}
    <3>1. view'.summary = view.summary /\ view'.allTime = view.allTime
      BY <2>3 DEF Finds
    <3>2. "allTime" \in ToCome => LeadsWonOver(b, 0, today) <= LeadsWonOver(b, 0, today)'
                                 /\ LeadsWonOver(b, 0, today) \in Nat
                                 /\ LeadsWonOver(b, 0, today)' \in Nat
      BY <1>1, <1>2, LeadsWonGrow
    <3>3. QED  BY <1>1, <1>2, <1>3, <2>3, <3>1, <3>2 DEF TotalStands
  <2>4. QED  BY <2>1, <2>2, <2>3
<1>10. WindowStands'
  <2> DEFINE from == FirstDay(view.days, view.began)
  <2>1. from' = from
    BY <1>1 DEF FirstDay
  <2>2. CASE q = "summary"
    <3>1. view'.summary = LeadsWonOver(b, FirstDay(view.days, today), today)
      BY <2>2 DEF Finds
    <3>2. "clock" \in ToCome' /\ "rollups" \in ToCome'
      BY <1>1, <2>2, FiguresInOrder
    <3>3. StillToday' => view'.summary = LeadsWonOver(b, from, view.began)
      BY <1>1, <1>2, <3>1, <3>2 DEF StillToday
    <3> HIDE DEF from
    <3>4. LeadsWonOver(b, from, view.began) <= LeadsWonOver(b, from, view.began)'
      BY <1>1, <2>1, LeadsWonGrow
    <3>5. QED  BY <1>1, <2>1, <3>2, <3>3, <3>4 DEF WindowStands, from
  <2>3. CASE q = "rollups"
    <3> SUFFICES ASSUME StillToday, "summary" \notin ToCome, view.days \in 1 .. ChartDays
                 PROVE  view.summary <= WonSince(from)'
      <4>1. view'.summary = view.summary  BY <2>3 DEF Finds
      <4>2. QED  BY <1>1, <1>5, <2>1, <2>3, <4>1 DEF WindowStands
    <3>1. view.summary <= LeadsWonOver(b, from, view.began)
      BY <1>1, <1>2, <2>3 DEF WindowStands
    <3>2. view.date = view.began  BY <1>1, <2>3 DEF StillToday, InOrder
    <3> DEFINE first == FirstDay(ChartDays, view.date)
               I == Window(b, from, view.began)
               shown == [k \in {j \in DOMAIN rows' : from <= j[2]} |-> rows'[k].leadsWon]
    <3>3. first <= from /\ first \in Int /\ from \in Int
      <4>1. ChartDays \in Nat \ {0} /\ view.date \in Int /\ view.days \in Nat
        BY <1>3, ReportsAssumption DEF ReportsAssumption
      <4>2. QED  BY <3>2, <4>1 DEF FirstDay
    <3>4. rows' = DailyRange({b}, first, view.date)
      BY <1>1, <2>3 DEF Finds
    <3> HIDE DEF from, first
    <3>5. {j \in DOMAIN rows' : from <= j[2]} = I /\ \A k \in I : rows'[k] = daily[k]
      <4>1. \A k \in Rollups : k[2] \in Int  BY <1>3 DEF Rollups
      <4>2. QED  BY <3>2, <3>3, <3>4, <4>1 DEF DailyRange, Window
    <3>6. shown = WonIn(b, from, view.began) /\ DOMAIN shown = I
      BY <3>5 DEF WonIn
    <3>7. WonSince(from)' = SumFunctionOnSet(shown, DOMAIN shown)
      BY <2>1 DEF WonSince, SumFunction
    <3> HIDE DEF shown, I
    <3>8. QED  BY <3>1, <3>6, <3>7, LeadsWonIs DEF I
  <2>4. CASE q \notin {"summary", "rollups"}
    <3>1. view'.summary = view.summary /\ rows' = rows
      BY <1>1, <2>4 DEF Finds
    <3>2. WonSince(from)' = WonSince(from)  BY <2>1, <3>1 DEF WonSince
    <3> HIDE DEF from
    <3>3. /\ LeadsWonOver(b, from, view.began) <= LeadsWonOver(b, from, view.began)'
          /\ LeadsWonOver(b, from, view.began) \in Nat
          /\ LeadsWonOver(b, from, view.began)' \in Nat
      BY <1>1, <2>1, LeadsWonGrow
    <3>4. "summary" \notin ToCome /\ StillToday =>
            IF "rollups" \in ToCome THEN view.summary <= LeadsWonOver(b, from, view.began)
            ELSE view.days \in 1 .. ChartDays => view.summary <= WonSince(from)
      BY <1>2 DEF WindowStands, from
    <3>5. WindowStands' <=>
            ("summary" \notin ToCome' /\ StillToday' =>
               IF "rollups" \in ToCome' THEN view'.summary <= LeadsWonOver(b, from, view.began)'
               ELSE view'.days \in 1 .. ChartDays => view'.summary <= WonSince(from)')
      BY <1>1, <2>1 DEF WindowStands, from
    <3>6. QED  BY <1>1, <1>3, <1>5, <2>4, <3>1, <3>2, <3>3, <3>4, <3>5
  <2>5. QED  BY <2>2, <2>3, <2>4
<1>11. QED  BY <1>6, <1>7, <1>8, <1>9, <1>10

\* In every state, the figures an overview has found so far go with each other and with
\* the store (Service.Overview).
THEOREM FiguresInvariant == ReportsSpec => []FiguresStand
<1>1. ReportsInit => FiguresStand
  BY InitView DEF FiguresStand
<1>2. Writers /\ ReadInv /\ FiguresStand /\ [ReportsNext]_allVars => FiguresStand'
  <2> SUFFICES ASSUME Writers, ViewOK, FiguresStand, [ReportsNext]_allVars PROVE FiguresStand'
    BY DEF ReadInv
  <2>1. Grows /\ Writers' /\ seeded' = seeded  BY Steps, NextWriters
  <2>2. TypeOK /\ TypeOK' /\ RollupOK /\ StreakBacked
    BY <2>1 DEF Writers, LoginInv
  <2>3. CASE UNCHANGED <<view, rows>>  BY <2>1, <2>2, <2>3, FiguresKept
  <2>4. CASE Begins  BY <2>2, <2>4, FiguresBegin
  <2>5. CASE Read
    <3>1. ViewOK' /\ UNCHANGED <<vars, actPc, actLoc, seeded>> /\ \E q : Finds(q)
      BY <2>2, <2>5, ReadFinds
    <3>2. QED  BY <2>1, <2>2, <3>1, FiguresRead
  <2>6. QED  BY <2>3, <2>4, <2>5, Steps
<1>3. QED  BY <1>1, <1>2, WritersInvariant, ReadInvariant, PTL DEF ReportsSpec

\* The tile of the day that an overview shows as logged in has the streak it shows, and the
\* leads of its range are among those of all time and of the chart, although each figure is
\* of another moment (Service.Overview).
THEOREM OverviewIsAlwaysCoherent == ReportsSpec => []OverviewIsCoherent
<1>1. ReadInv /\ FiguresStand => OverviewIsCoherent
  <2> SUFFICES ASSUME ViewOK, FiguresStand, SameDay
               PROVE  /\ view.loggedInToday => LET tile == Row(<<view.bda, view.date>>)
                                               IN  tile.loggedIn /\ tile.streakDay = view.streak
                      /\ view.summary <= view.allTime
                      /\ view.days \in 1 .. ChartDays =>
                           view.summary <= WonSince(FirstDay(view.days, view.date))
    BY DEF OverviewIsCoherent, ReadInv, WonSince
  <2>1. /\ ToCome = {} /\ view.began = view.date /\ view.kind = "overview"
        /\ UserStands /\ TileStands /\ StreakStands /\ TotalStands /\ WindowStands
    BY DEF SameDay, Shows, ToCome, Elems, FiguresStand
  <2>2. StillToday  BY <2>1 DEF StillToday
  <2>3. ASSUME view.loggedInToday
        PROVE  LET tile == Row(<<view.bda, view.date>>)
               IN  tile.loggedIn /\ tile.streakDay = view.streak
    <3>1. view.user.last = view.date /\ view.streak = view.user.current
      BY <2>1, <2>3 DEF StreakStands
    <3>2. QED  BY <2>1, <2>2, <3>1 DEF TileStands, Row
  <2>4. view.summary <= view.allTime  BY <2>1 DEF TotalStands
  <2>5. view.days \in 1 .. ChartDays =>
          view.summary <= WonSince(FirstDay(view.days, view.date))
    BY <2>1, <2>2 DEF WindowStands
  <2>6. QED  BY <2>3, <2>4, <2>5
<1>2. QED  BY <1>1, ReadInvariant, FiguresInvariant, PTL

-----------------------------------------------------------------------------
(* Logins that are served within a day, beside leads and calls.            *)

\* The logins of the ledger a start leaves are those of the histories, none of today.
LEMMA SeededLogins ==
  ASSUME ReportsInit, NEW raw, StartsFrom(raw)
  PROVE  /\ today = HistoryDays - 1 /\ today \in Nat /\ today >= 1
         /\ \A b \in seeded : /\ Drawn(HistoryDays, raw[b]) /\ users[b] = SeedUser(raw[b])
                             /\ DOMAIN raw[b] = 0 .. today
         /\ \A e \in Logins : /\ e.bda \in seeded /\ e.date \in 0 .. today - 1
                             /\ raw[e.bda][e.date].loggedIn
                             /\ e.streak = StreakThrough(raw[e.bda])[e.date]
         /\ \A b \in seeded, d \in 0 .. today : raw[b][d].loggedIn =>
              \E e \in Logins : e.bda = b /\ e.date = d /\ e.streak = StreakThrough(raw[b])[d]
<1> DEFINE S(b, d) == StreakThrough(raw[b])[d]
<1>1. seeded \subseteq BDA  BY InitTypes
<1>2. today = HistoryDays - 1 /\ today \in Nat /\ today >= 1
  BY DaysOfHistory DEF ReportsInit, StoresSeeded
<1>3. ASSUME NEW b \in seeded
      PROVE  /\ Drawn(HistoryDays, raw[b]) /\ users[b] = SeedUser(raw[b])
             /\ DOMAIN raw[b] = 0 .. today /\ ~raw[b][today].loggedIn
  <2>1. Drawn(HistoryDays, raw[b]) /\ b \in Account
    BY <1>1 DEF StartsFrom, Account
  <2>2. users[b] = SeedUser(raw[b])  BY <2>1 DEF StartsFrom
  <2>3. DOMAIN raw[b] = 0 .. today /\ ~raw[b][today].loggedIn
    BY <1>2, <2>1 DEF Drawn
  <2>4. QED  BY <2>1, <2>2, <2>3
<1>4. ASSUME NEW e \in Logins
      PROVE  /\ e.bda \in seeded /\ e.date \in 0 .. today - 1 /\ raw[e.bda][e.date].loggedIn
             /\ e.streak = S(e.bda, e.date)
  <2> DEFINE b == e.bda
             d == e.date
  <2>1. b \in seeded /\ d \in 0 .. today /\ e \in SeedEvents(b, raw[b]) /\ e.type = "LOGIN"
    BY <1>2 DEF StartsFrom, Logins
  <2>2. e \in EventsOn(b, raw[b], d, "LOGIN")  BY <2>1 DEF EventsOn
  <2>3. EventsOn(b, raw[b], d, "LOGIN")
          = IF raw[b][d].loggedIn THEN {LoginEvent(b, d, S(b, d))} ELSE {}
    <3>1. Drawn(HistoryDays, raw[b]) /\ d \in 0 .. HistoryDays - 1  BY <1>2, <1>3, <2>1
    <3>2. QED  BY <3>1, SeededEvents
  <2> HIDE DEF S
  <2>4. raw[b][d].loggedIn /\ e = LoginEvent(b, d, S(b, d))  BY <2>2, <2>3
  <2>5. d # today  BY <1>3, <2>1, <2>4
  <2>6. e.streak = S(b, d)
    <3>1. \A c, n, s : LoginEvent(c, n, s).streak = s  BY DEF LoginEvent
    <3>2. QED  BY <2>4, <3>1
  <2>7. QED  BY <1>2, <2>1, <2>4, <2>5, <2>6
<1>5. ASSUME NEW b \in seeded, NEW d \in 0 .. today, raw[b][d].loggedIn
      PROVE  \E e \in Logins : e.bda = b /\ e.date = d /\ e.streak = S(b, d)
  <2>1. <<b, d>> \in BDA \X Day /\ d < HistoryDays /\ d \in 0 .. HistoryDays - 1
    BY <1>1, <1>2, DaysOfHistory
  <2>2. {e \in events : <<e.bda, e.date>> = <<b, d>> /\ e.type = "LOGIN"}
          = EventsOn(b, raw[b], d, "LOGIN")
    BY <2>1 DEF StartsFrom
  <2>3. EventsOn(b, raw[b], d, "LOGIN") = {LoginEvent(b, d, S(b, d))}
    <3>1. Drawn(HistoryDays, raw[b])  BY <1>3
    <3>2. EventsOn(b, raw[b], d, "LOGIN")
            = IF raw[b][d].loggedIn THEN {LoginEvent(b, d, S(b, d))} ELSE {}
      BY <2>1, <3>1, SeededEvents
    <3>3. QED  BY <1>5, <3>2
  <2>4. LoginEvent(b, d, S(b, d)) \in Logins  BY <2>2, <2>3 DEF Logins
  <2>5. QED  BY <2>4 DEF LoginEvent
<1>6. QED  BY <1>2, <1>3, <1>4, <1>5

\* A start leaves every login of the history saved, at the streak of its run, and none
\* of today.
LEMMA InitDayPart ==
  ASSUME ReportsInit, MaxLag = 0
  PROVE  DayInv
<1>1. PICK raw : StartsFrom(raw)  BY InitStarts
<1> DEFINE S(b, d) == StreakThrough(raw[b])[d]
<1>2. LoginInv /\ LedgerOK /\ TypeOK
  BY InitLoginPart, InitTypes DEF LoginInv
<1>3. /\ today = HistoryDays - 1 /\ today \in Nat /\ today >= 1 /\ locks = {}
      /\ \A r \in LoginReq : pc[r] = "idle"
  BY <1>1, SeededLogins DEF ReportsInit, LoginsIdle
<1>4. \A b \in seeded : /\ Drawn(HistoryDays, raw[b]) /\ users[b] = SeedUser(raw[b])
                        /\ DOMAIN raw[b] = 0 .. today
  BY <1>1, SeededLogins
<1>5. \A e \in Logins : /\ e.bda \in seeded /\ e.date \in 0 .. today - 1
                        /\ raw[e.bda][e.date].loggedIn /\ e.streak = S(e.bda, e.date)
  BY <1>1, SeededLogins
<1>6. \A b \in seeded, d \in 0 .. today : raw[b][d].loggedIn =>
        \E e \in Logins : e.bda = b /\ e.date = d /\ e.streak = S(b, d)
  BY <1>1, SeededLogins
<1> HIDE DEF S
<1>7. OneDay
  <2>1. \A e \in Logins : e.date <= today  BY <1>3, <1>5
  <2>2. QED
    BY <1>3, <2>1 DEF OneDay, DayOK, UserFresh, Serving, Dated, Holder, LockExclusive
<1>8. LedgerLocked  BY <1>3, <1>5 DEF LedgerLocked
<1>9. LedgerSaved
  <2> SUFFICES ASSUME NEW e \in Logins PROVE e.date <= users[e.bda].last
    BY DEF LedgerSaved
  <2>1. e.bda \in seeded /\ e.date \in LoginsOf(raw[e.bda])
    BY <1>3, <1>4, <1>5 DEF LoginsOf
  <2>2. QED  BY <1>4, <2>1, SeededUser
<1>10. StreakIsRun
  <2> SUFFICES ASSUME NEW e \in Logins, e.date > 0
               PROVE  e.streak = StreakOn(e.bda, e.date - 1) + 1
    BY DEF StreakIsRun
  <2> DEFINE b == e.bda
             d == e.date
  <2>1. /\ b \in seeded /\ d \in 0 .. today /\ raw[b][d].loggedIn /\ e.streak = S(b, d)
        /\ d - 1 \in 0 .. today /\ d # 0 /\ Drawn(HistoryDays, raw[b])
        /\ d \in 0 .. HistoryDays - 1 /\ d - 1 \in 0 .. HistoryDays - 1
    BY <1>3, <1>4, <1>5
  <2> HIDE DEF b, d
  <2>2. S(b, d) = S(b, d - 1) + 1
    <3>1. /\ S(b, d) = Cardinality(RunOf(raw[b], d))
          /\ S(b, d - 1) = Cardinality(RunOf(raw[b], d - 1))
      BY <2>1, StreakIsRunLength DEF S
    <3>2. QED  BY <2>1, <3>1, RunGrows
  <2>3. CASE raw[b][d - 1].loggedIn
    <3>1. PICK f \in Logins : f.bda = b /\ f.date = d - 1 /\ f.streak = S(b, d - 1)
      BY <1>6, <2>1, <2>3
    <3>2. StreakIn(Logins, b, d - 1) = S(b, d - 1)  BY <1>2, <3>1, StreakOfEvent
    <3>3. QED  BY <2>1, <2>2, <3>2 DEF StreakOn, b, d
  <2>4. CASE ~raw[b][d - 1].loggedIn
    <3>1. S(b, d - 1) = 0  BY <2>1, <2>4, StreaksOfHistory DEF S
    <3>2. \A f \in Logins : <<f.bda, f.date>> # <<b, d - 1>>  BY <1>5, <2>4
    <3>3. StreakIn(Logins, b, d - 1) = 0  BY <3>2, NoStreak
    <3>4. QED  BY <2>1, <2>2, <3>1, <3>3 DEF StreakOn, b, d
  <2>5. QED  BY <2>3, <2>4
<1>11. \A r \in LoginReq : FirstToPost(r)  BY <1>3 DEF FirstToPost
<1>12. QED  BY <1>2, <1>7, <1>8, <1>9, <1>10, <1>11 DEF DayInv, QuietDay

\* Leads and calls leave what is known of the logins of the day, and may fail themselves.
LEMMA ActivityKeepsDay ==
  ASSUME Writers, DayInv, NEW r \in ActReq, Step(r), UNCHANGED <<redisVars, pc, loc>>
  PROVE  DayInv'
<1>1. LoginInv'  BY ActivityKeepsLoginInv
<1>2. Logins' = Logins /\ UNCHANGED <<users, today, locks, pc, loc>> /\ faults' >= faults
  BY ActivityStep DEF Grows, redisVars
<1>3. OneDay'
  BY <1>2 DEF DayInv, OneDay, DayOK, UserFresh, Holder, LockKey, LockExclusive
<1>4. faults' = 0 => faults = 0
  <2>1. faults \in Nat
    BY StoresAssumption DEF DayInv, LoginInv, TypeOK, StoresTypeOK, StoresAssumption
  <2>2. QED  BY <1>2, <2>1
<1>5. faults' = 0 /\ QuietDay => QuietDay'
  BY <1>2, <1>4
  DEF QuietDay, LedgerLocked, LedgerSaved, EventOf, StreakIsRun, StreakOn, FirstToPost, LockKey
<1>6. QED  BY <1>1, <1>3, <1>4, <1>5 DEF DayInv

\* A step is one of a login request, or leaves the users and the logins.
LEMMA WriterSteps ==
  ASSUME Writers, [ReportsNext]_allVars
  PROVE  \/ [Next]_vars /\ \/ \E r \in LoginReq : Serve(r)
                           \/ UNCHANGED <<users, loc>> /\ Logins' = Logins /\ today' >= today
                              /\ \A r \in LoginReq : pc'[r] \in {pc[r], "failed"}
         \/ \E r \in ActReq : Step(r) /\ UNCHANGED <<redisVars, pc, loc>>
<1>1. TypeOK /\ today \in Nat
  BY DEF Writers, LoginInv, TypeOK, StoresTypeOK, Day
<1>2. CASE \E r \in LoginReq : Serve(r)  BY <1>2 DEF Next
<1>3. ASSUME NEW r \in LoginReq, Die(r)
      PROVE  [Next]_vars /\ UNCHANGED <<users, loc>> /\ Logins' = Logins /\ today' >= today
             /\ \A q \in LoginReq : pc'[q] \in {pc[q], "failed"}
  <2>1. [Next]_vars  BY <1>3 DEF Next
  <2>2. /\ UNCHANGED <<users, loc, today, events>>
        /\ pc' = [pc EXCEPT ![r] = "failed"]
    BY <1>3 DEF Die, Fails, Goto
  <2>3. \A q \in LoginReq : pc'[q] \in {pc[q], "failed"}
    BY <1>1, <2>2 DEF TypeOK
  <2>4. QED  BY <1>1, <2>1, <2>2, <2>3 DEF Logins
<1>4. ASSUME Midnight
      PROVE  [Next]_vars /\ UNCHANGED <<users, loc, pc>> /\ Logins' = Logins /\ today' >= today
  BY <1>1, <1>4 DEF Next, Midnight, loginVars, Logins
<1>5. ASSUME UNCHANGED vars
      PROVE  [Next]_vars /\ UNCHANGED <<users, loc, pc>> /\ Logins' = Logins /\ today' >= today
  BY <1>1, <1>5 DEF vars, storeVars, loginVars, Logins
<1>6. ASSUME NEW k \in BDA \X Day, ExpireLock(k)
      PROVE  [Next]_vars /\ UNCHANGED <<users, loc, pc>> /\ Logins' = Logins /\ today' >= today
  BY <1>1, <1>6 DEF Next, ExpireLock, storeVars, Logins
<1>7. QED  BY <1>2, <1>3, <1>4, <1>5, <1>6, Steps DEF Writes

LEMMA NextDayPart ==
  ASSUME Writers, DayInv, [ReportsNext]_allVars
  PROVE  DayInv'
BY WriterSteps, NextDayInv, ActivityKeepsDay

\* What is proved of logins within a day holds beside leads and calls, over any seeded
\* history (Service.recordLogin).
THEOREM DayInvariantBesideActivity == MaxLag = 0 /\ ReportsSpec => []DayInv
<1>1. Writers /\ DayInv /\ [ReportsNext]_allVars => DayInv'  BY NextDayPart
<1>2. MaxLag = 0 /\ ReportsInit => DayInv  BY InitDayPart
<1>3. QED  BY <1>1, <1>2, WritersInvariant, PTL DEF ReportsSpec

-----------------------------------------------------------------------------
(* The promise of the next login's points.                                 *)

\* The streak that a login of day d reaches from the user document u.
NextStreak(u, d) == IF u.last = d - 1 THEN u.current + 1 ELSE 1

Worked ==
  \A r \in LoginReq : pc[r] \in {"insert", "rollup", "streak"} =>
    loc[r].streak = NextStreak(loc[r].user, loc[r].today)

\* u shows a login of b on day d, or a login of that day is at the streak next to u's.
Promise(u, b, d) ==
  u.last = d \/ \A e \in Logins : e.bda = b /\ e.date = d => e.streak = NextStreak(u, d)

\* The user documents promise the streaks of today, and the one an overview has read that
\* of the day it began: on that day it is the one in the store, until a login is saved.
DocumentsPromise == \A b \in BDA : Promise(users[b], b, today)

ViewPromises ==
  view.kind = "overview" /\ "user" \notin ToCome =>
    /\ StillToday => Promise(view.user, view.bda, view.began)
    /\ today = view.began =>
         users[view.bda] = view.user \/ users[view.bda].last = today

Promised == Worked /\ DocumentsPromise /\ ViewPromises

\* The writers' step is of a login request, or leaves the users and the logins.
LoginsRest ==
  /\ UNCHANGED <<users, loc>> /\ Logins' = Logins /\ today' >= today
  /\ \A r \in LoginReq : pc'[r] \in {pc[r], "failed"}

LEMMA LoginsMoveOrRest ==
  ASSUME Writers, DayInv, [ReportsNext]_allVars
  PROVE  /\ DayInv' /\ seeded' = seeded
         /\ (\E r \in LoginReq : Serve(r)) \/ LoginsRest
<1>1. today \in Nat  BY DEF DayInv, LoginInv, TypeOK, StoresTypeOK, Day
<1>2. ASSUME NEW r \in ActReq, Step(r), UNCHANGED <<redisVars, pc, loc>>
      PROVE  LoginsRest
  BY <1>1, <1>2, ActivityStep DEF LoginsRest
<1>3. QED  BY <1>2, WriterSteps, NextDayPart, Steps DEF LoginsRest

\* The streak of a login that is posted is the next of the user's, who has not logged in
\* on that day.
LEMMA PostedNext ==
  ASSUME LoginInv, OneDay, Worked, NEW r \in LoginReq, Serve(r)
  PROVE  \/ Logins' = Logins
         \/ \E e \in Logins', b \in BDA :
              /\ Logins' = Logins \cup {e} /\ e.bda = b /\ e.date = today
              /\ e.streak = NextStreak(users[b], today) /\ users[b].last # today
<1>1. CASE Logins' = Logins  BY <1>1
<1>2. CASE pc[r] = "insert" /\ InsertEvent(EventOf(r)) /\ Logins' = Logins \cup {EventOf(r)}
  <2> DEFINE b == loc[r].account
  <2>1. b \in BDA /\ loc[r].today = today /\ DayOK(r) /\ today # Never
    BY <1>2 DEF LoginInv, TypeOK, StoresTypeOK, Serving, OneDay, DayOK, Dated, Never, Day
  <2>2. users[b].last # today
    <3>1. ~EventTaken(EventOf(r))  BY <1>2 DEF InsertEvent
    <3>2. LoginEvent(b, today, users[b].current) \notin Logins
      BY <2>1, <3>1 DEF EventTaken, EventOf, LoginEvent, Logins
    <3>3. QED  BY <2>1, <3>2, LastIsPosted
  <2>3. loc[r].user = users[b]  BY <1>2, <2>1, <2>2 DEF DayOK, UserFresh
  <2>4. loc[r].streak = NextStreak(users[b], today)
    BY <1>2, <2>1, <2>3 DEF Worked
  <2>5. EventOf(r).bda = b /\ EventOf(r).date = today /\ EventOf(r).streak = loc[r].streak
    BY <2>1 DEF EventOf, LoginEvent
  <2>6. QED  BY <1>2, <2>1, <2>2, <2>4, <2>5
<1>3. QED  BY <1>1, <1>2, LoginsGrow

\* A user document that is written is of today.
LEMMA SavedToday ==
  ASSUME LoginInv, OneDay, NEW r \in LoginReq, Serve(r), NEW b \in BDA
  PROVE  users'[b] = users[b] \/ users'[b].last = today
<1>1. CASE SaveStreak(r)
  <2>1. loc[r].today = today
    <3>1. pc[r] = "streak" /\ DayOK(r)  BY <1>1 DEF SaveStreak, OneDay
    <3>2. QED  BY <3>1 DEF DayOK, Dated
  <2>2. /\ b # loc[r].account => users'[b] = users[b]
        /\ \/ UNCHANGED users
           \/ users'[loc[r].account] = [current |-> loc[r].streak, best |-> NewBest(r),
                                        last |-> loc[r].today]
    BY <1>1, SavedUser DEF LoginInv
  <2>3. QED  BY <2>1, <2>2
<1>2. QED  BY <1>1, ServeWrites

LEMMA NextWorked ==
  ASSUME DayInv, Worked, (\E r \in LoginReq : Serve(r)) \/ LoginsRest
  PROVE  Worked'
<1>1. CASE LoginsRest
  BY <1>1 DEF LoginsRest, Worked
<1>2. ASSUME NEW r \in LoginReq, Serve(r) PROVE Worked'
  <2>1. /\ TypeOK /\ Path(r) /\ DayOK(r)
        /\ \A q \in LoginReq \ {r} : pc'[q] = pc[q] /\ loc'[q] = loc[q]
    BY <1>2, ServePath, ServeMoves DEF DayInv, LoginInv, OneDay
  <2>2. CASE pc'[r] = "insert"
    <3>1. pc[r] = "lock"  BY <2>1, <2>2 DEF Path, Serving
    <3>2. loc[r].today = today /\ loc[r].yesterday = today - 1
      BY <2>1, <3>1 DEF DayOK, Dated
    <3>3. /\ loc'[r].user = loc[r].user /\ loc'[r].today = loc[r].today
          /\ loc'[r].streak = NewStreak(r)
      BY <1>2, <2>1, <2>2, <3>1, ServeLocals
    <3>4. loc'[r].streak = NextStreak(loc'[r].user, loc'[r].today)
      BY <3>2, <3>3 DEF NewStreak, NextStreak
    <3>5. QED  BY <2>1, <2>2, <3>4 DEF Worked, NextStreak
  <2>3. CASE pc'[r] \in {"rollup", "streak"}
    <3>1. pc[r] \in {"insert", "rollup"}  BY <2>1, <2>3 DEF Path, Serving
    <3>2. /\ loc'[r].user = loc[r].user /\ loc'[r].today = loc[r].today
          /\ loc'[r].streak = loc[r].streak
      BY <1>2, <2>1, <3>1, ServeLocals
    <3>3. QED  BY <2>1, <2>3, <3>1, <3>2 DEF Worked, NextStreak
  <2>4. CASE pc'[r] \notin {"insert", "rollup", "streak"}
    BY <2>1, <2>4 DEF Worked, NextStreak
  <2>5. QED  BY <2>2, <2>3, <2>4
<1>3. QED  BY <1>1, <1>2

LEMMA NextDocumentsPromise ==
  ASSUME DayInv, Worked, DocumentsPromise, (\E r \in LoginReq : Serve(r)) \/ LoginsRest
  PROVE  DocumentsPromise'
<1>1. LoginInv /\ OneDay /\ today \in Int /\ \A e \in Logins : e.date <= today /\ e.date \in Int
  BY DEF DayInv, OneDay, LoginInv, TypeOK, StoresTypeOK, Event, Day, Logins
<1> SUFFICES ASSUME NEW b \in BDA
             PROVE  \/ users'[b].last = today'
                    \/ \A e \in Logins' : e.bda = b /\ e.date = today'
                                            => e.streak = NextStreak(users'[b], today')
  BY DEF DocumentsPromise, Promise, NextStreak
<1>2. Promise(users[b], b, today)  BY DEF DocumentsPromise
<1>3. CASE LoginsRest
  <2>1. CASE today' = today  BY <1>2, <1>3, <2>1 DEF LoginsRest, Promise
  <2>2. CASE today' # today
    <3>1. \A e \in Logins' : e.date # today'
      BY <1>1, <1>3, <2>2 DEF LoginsRest
    <3>2. QED  BY <3>1
  <2>3. QED  BY <2>1, <2>2
<1>4. ASSUME NEW r \in LoginReq, Serve(r)
      PROVE  \/ users'[b].last = today'
             \/ \A e \in Logins' : e.bda = b /\ e.date = today'
                                     => e.streak = NextStreak(users'[b], today')
  <2>1. today' = today  BY <1>1, <1>4, ServeStores DEF LoginInv
  <2>2. users'[b] = users[b] \/ users'[b].last = today
    BY <1>1, <1>4, SavedToday
  <2>3. \A e \in Logins' : e \in Logins \/ (e.bda = b => e.streak = NextStreak(users[b], today))
    BY <1>1, <1>4, PostedNext
  <2>4. QED  BY <1>2, <2>1, <2>2, <2>3 DEF Promise
<1>5. QED  BY <1>3, <1>4

\* The writers keep what an overview's user document promises.
LEMMA ViewPromisesKept ==
  ASSUME DayInv, DayInv', Worked, ViewOK, ViewPromises, UNCHANGED view,
         (\E r \in LoginReq : Serve(r)) \/ LoginsRest
  PROVE  ViewPromises'
<1>1. LoginInv /\ OneDay /\ today \in Int /\ today' \in Int
  BY DEF DayInv, OneDay, LoginInv, TypeOK, StoresTypeOK, Day
<1> DEFINE b == view.bda
<1> SUFFICES ASSUME view.kind = "overview", "user" \notin ToCome
             PROVE  /\ StillToday' =>
                         \/ view.user.last = view.began
                         \/ \A e \in Logins' : e.bda = b /\ e.date = view.began
                                  => e.streak = NextStreak(view.user, view.began)
                    /\ today' = view.began => users'[b] = view.user \/ users'[b].last = today'
  BY DEF ViewPromises, Promise, ToCome, NextStreak
<1>2. /\ StillToday => Promise(view.user, b, view.began)
      /\ today = view.began => users[b] = view.user \/ users[b].last = today
      /\ b \in BDA /\ view.began \in Int /\ view.began <= today
  BY DEF ViewPromises, ViewOK, Viewed, Of, Day
<1>3. today' >= today /\ today' \in Int
  <2>1. ASSUME NEW r \in LoginReq, Serve(r) PROVE today' = today
    BY <1>1, <2>1, ServeStores DEF LoginInv
  <2>2. LoginsRest => today' >= today /\ today' \in Int
    BY <1>1 DEF LoginsRest
  <2>3. QED  BY <1>1, <2>1, <2>2
<1>4. StillToday' => StillToday
  BY <1>1, <1>2, <1>3 DEF StillToday, ToCome
<1>5. today' = view.began => today = view.began  BY <1>1, <1>2, <1>3
<1>6. CASE LoginsRest
  BY <1>2, <1>4, <1>5, <1>6 DEF LoginsRest, Promise
<1>7. ASSUME NEW r \in LoginReq, Serve(r)
      PROVE  /\ StillToday =>
                  \/ view.user.last = view.began
                  \/ \A e \in Logins' : e.bda = b /\ e.date = view.began
                           => e.streak = NextStreak(view.user, view.began)
             /\ today = view.began => users'[b] = view.user \/ users'[b].last = today
  <2>1. users'[b] = users[b] \/ users'[b].last = today
    BY <1>1, <1>2, <1>7, SavedToday
  <2>2. \A e \in Logins' :
          \/ e \in Logins
          \/ e.date = today
             /\ (e.bda = b => e.streak = NextStreak(users[b], today) /\ users[b].last # today)
    BY <1>1, <1>7, PostedNext
  <2>3. ASSUME NEW e \in Logins', e \notin Logins, e.bda = b, e.date = view.began
        PROVE  e.streak = NextStreak(view.user, view.began)
    BY <1>2, <2>2, <2>3
  <2>4. QED  BY <1>2, <2>1, <2>3 DEF Promise
<1>8. QED  BY <1>4, <1>5, <1>6, <1>7

\* The user document is read as it is in the store.
LEMMA ViewPromisesRead ==
  ASSUME ViewOK, ViewPromises, DocumentsPromise, TypeOK, NEW q, Finds(q),
         UNCHANGED <<vars, actPc, actLoc, seeded>>
  PROVE  ViewPromises'
<1> SUFFICES ASSUME view'.kind = "overview", "user" \notin ToCome' PROVE
      /\ StillToday' =>
           \/ view'.user.last = view.began
           \/ \A e \in Logins : e.bda = view.bda /\ e.date = view.began
                    => e.streak = NextStreak(view'.user, view.began)
      /\ today = view.began => users[view.bda] = view'.user \/ users[view.bda].last = today
  <2>1. /\ view'.bda = view.bda /\ view'.began = view.began
        /\ Logins' = Logins /\ today' = today /\ users' = users
    BY DEF Finds, vars, storeVars, Logins
  <2>2. QED  BY <2>1 DEF ViewPromises, Promise, NextStreak
<1>1. /\ view.kind = "overview" /\ InOrder(view.kind, q, ToCome) /\ q \in ToCome
      /\ q \notin {"minDate", "day"} /\ ToCome' = ToCome \ {q}
      /\ view'.bda = view.bda /\ view'.began = view.began /\ today' = today
      /\ view.bda \in BDA /\ view.began <= view.date /\ view.date <= today
      /\ view.began \in Int /\ view.date \in Int /\ today \in Int
      /\ view'.date = IF q \in {"clock", "streak"} THEN today ELSE view.date
  BY DEF Finds, InOrder, ViewOK, Viewed, Of, vars, storeVars, TypeOK, StoresTypeOK, Day
<1>2. CASE q = "user"
  <2>1. view'.user = users[view.bda]  BY <1>2 DEF Finds
  <2>2. "clock" \in ToCome'  BY <1>1, <1>2, FiguresInOrder
  <2>3. StillToday' => today = view.began  BY <1>1, <2>2 DEF StillToday
  <2>4. QED  BY <1>1, <2>1, <2>3 DEF DocumentsPromise, Promise
<1>3. CASE q # "user"
  <2>1. view'.user = view.user /\ "user" \notin ToCome  BY <1>1, <1>3 DEF Finds
  <2>2. StillToday' => StillToday
    <3>1. CASE q = "clock"  BY <1>1, <3>1 DEF StillToday
    <3>2. CASE q = "streak"
      <4>1. "clock" \notin ToCome  BY <1>1, <3>2 DEF InOrder
      <4>2. QED  BY <1>1, <3>2, <4>1 DEF StillToday
    <3>3. CASE q \notin {"clock", "streak"}
      BY <1>1, <3>3 DEF StillToday
    <3>4. QED  BY <3>1, <3>2, <3>3
  <2>3. QED  BY <1>1, <2>1, <2>2 DEF ViewPromises, Promise
<1>4. QED  BY <1>2, <1>3

\* In every state, the documents read and stored promise the streaks of the day
\* (Service.Overview and Service.recordLogin).
THEOREM PromisesInvariant == MaxLag = 0 /\ ReportsSpec => []Promised
<1>1. MaxLag = 0 /\ ReportsInit => Promised
  <2> SUFFICES ASSUME MaxLag = 0, ReportsInit PROVE Promised  OBVIOUS
  <2>1. DayInv /\ locks = {} /\ faults = 0 /\ \A r \in LoginReq : pc[r] = "idle"
    BY InitDayPart DEF ReportsInit, StoresSeeded, LoginsIdle
  <2>2. \A e \in Logins : e.date # today
    BY <2>1 DEF DayInv, QuietDay, LedgerLocked
  <2>3. Worked /\ DocumentsPromise
    BY <2>1, <2>2 DEF Worked, DocumentsPromise, Promise
  <2>4. ViewPromises  BY InitView DEF ViewPromises
  <2>5. QED  BY <2>3, <2>4 DEF Promised
<1>2. Writers /\ ReadInv /\ DayInv /\ Promised /\ [ReportsNext]_allVars => Promised'
  <2> SUFFICES ASSUME Writers, ViewOK, DayInv, Promised, [ReportsNext]_allVars PROVE Promised'
    BY DEF ReadInv
  <2>1. Worked /\ DocumentsPromise /\ ViewPromises /\ TypeOK
    BY DEF Promised, DayInv, LoginInv
  <2>2. (\E r \in LoginReq : Serve(r)) \/ LoginsRest  BY LoginsMoveOrRest
  <2>3. Worked' /\ DocumentsPromise'
    BY <2>1, <2>2, NextWorked, NextDocumentsPromise
  <2>4. ASSUME UNCHANGED <<view, rows>> PROVE ViewPromises'
    BY <2>1, <2>2, <2>4, ViewPromisesKept, LoginsMoveOrRest
  <2>5. ASSUME Begins PROVE ViewPromises'
    <3>1. view'.kind = "overview" => "user" \in ToCome'
      BY <2>1, <2>5, BeginStarts DEF Of
    <3>2. QED  BY <3>1 DEF ViewPromises
  <2>6. ASSUME Read PROVE ViewPromises'
    <3>1. UNCHANGED <<vars, actPc, actLoc, seeded>> /\ \E q : Finds(q)
      BY <2>1, <2>6, ReadFinds
    <3>2. QED  BY <2>1, <3>1, ViewPromisesRead
  <2>7. ViewPromises'  BY <2>4, <2>5, <2>6, Steps
  <2>8. QED  BY <2>3, <2>7 DEF Promised
<1>3. QED
  BY <1>1, <1>2, WritersInvariant, ReadInvariant, DayInvariantBesideActivity, PTL DEF ReportsSpec

\* On the day an overview was read, the points it names for the next login are those that
\* a login of that day is credited (Service.Overview), when logins are served within a day.
THEOREM NextLoginIsAlwaysAsPromised == MaxLag = 0 /\ ReportsSpec => []NextLoginIsAsPromised
<1>1. Writers /\ ReadInv /\ FiguresStand /\ Promised => NextLoginIsAsPromised
  <2> SUFFICES ASSUME LoginInv, ViewOK, FiguresStand, ViewPromises, SameDay, ~view.loggedInToday,
                      daily[<<view.bda, view.date>>].loginPoints # 0
               PROVE  daily[<<view.bda, view.date>>].loginPoints = LoginPoints(view.streak + 1)
    BY DEF NextLoginIsAsPromised, Writers, ReadInv, Promised
  <2> DEFINE k == <<view.bda, view.date>>
             s == daily[k].streakDay
             e == LoginEvent(view.bda, view.date, s)
  <2>1. /\ ToCome = {} /\ view.began = view.date /\ view.kind = "overview" /\ StreakStands
        /\ StillToday
    BY DEF SameDay, Shows, ToCome, Elems, FiguresStand, StillToday
  <2>2. view.bda \in BDA /\ view.date \in Day
    BY <2>1 DEF ViewOK, Viewed, Of
  <2>3. daily[k].loginPoints = LoginPoints(s) /\ e \in Logins
    <3>1. k \in BDA \X Day  BY <2>2
    <3> HIDE DEF k
    <3>2. daily[k].loginPoints = LoginPoints(s) /\ LoginEvent(k[1], k[2], s) \in events
      BY <3>1 DEF LoginInv, RollupOK, k
    <3>3. QED  BY <3>2 DEF k, LoginEvent, Logins
  <2>4. view.user.last # view.date
    BY <2>1 DEF StreakStands
  <2>5. e.bda = view.bda /\ e.date = view.date /\ e.streak = s  BY DEF LoginEvent
  <2>6. s = NextStreak(view.user, view.date)
    BY <2>1, <2>3, <2>4, <2>5 DEF ViewPromises, Promise
  <2>7. NextStreak(view.user, view.date) = view.streak + 1
    BY <2>1, <2>4 DEF StreakStands, NextStreak
  <2>8. QED  BY <2>3, <2>6, <2>7
<1>2. QED
  BY <1>1, WritersInvariant, ReadInvariant, FiguresInvariant, PromisesInvariant, PTL

-----------------------------------------------------------------------------
(* The best streak of a user.                                              *)

\* It is of a login in the ledger, if of any,
BestPosted ==
  \A b \in BDA : users[b].best = 0 \/ \E e \in Logins : e.bda = b /\ e.streak = users[b].best

\* ... and no login in the ledger has a longer one, but while it is not saved.
BestSaved ==
  \A e \in Logins :
    \/ e.streak <= users[e.bda].best
    \/ \E r \in LoginReq : pc[r] \in {"rollup", "streak"} /\ EventOf(r) = e

BestInv == BestPosted /\ (faults = 0 => BestSaved)

\* What a login saves as the best streak, and that no other's changes.
LEMMA SavedBest ==
  ASSUME LoginInv, OneDay, NEW r \in LoginReq, Serve(r), NEW b \in BDA
  PROVE  /\ users[b].best \in Nat /\ users'[b].best >= users[b].best
         /\ \/ users'[b].best = users[b].best
            \/ EventOf(r) \in Logins /\ EventOf(r).bda = b /\ EventOf(r).streak = users'[b].best
         /\ pc[r] = "streak" /\ b = loc[r].account /\ faults' = 0 =>
              users'[b].best >= loc[r].streak
<1>1. /\ TypeOK /\ DayOK(r) /\ RequestOK(r) /\ users[b].best \in Nat /\ loc[r].streak \in Nat
      /\ Path(r)
  BY ServePath DEF LoginInv, OneDay, TypeOK, StoresTypeOK, User, Account, Local
<1>2. EventOf(r).bda = loc[r].account /\ EventOf(r).streak = loc[r].streak
      /\ EventOf(r).type = "LOGIN"
  BY DEF EventOf, LoginEvent
<1>3. CASE pc[r] = "streak"
  <2>1. SaveStreak(r)
    BY <1>3 DEF Serve, FindUser, Verify, ReadYesterday, AcquireLoginLock, RereadUser,
       InsertLoginEvent, ReleaseLoginLock, UpsertLoginDay, SaveStreak, InvalidateCache,
       SaveSession
  <2>2. EventOf(r) \in Logins /\ loc[r].user = users[loc[r].account]
    BY <1>1, <1>2, <1>3 DEF RequestOK, Claimed, DayOK, UserFresh, Logins
  <2>3. /\ b # loc[r].account => users'[b] = users[b]
        /\ \/ UNCHANGED users /\ Errs
           \/ users'[loc[r].account] = [current |-> loc[r].streak, best |-> NewBest(r),
                                        last |-> loc[r].today]
    BY <1>1, <2>1, SavedUser
  <2>4. Errs => faults' # 0
    <3>1. faults \in Nat  BY <1>1, StoresAssumption DEF TypeOK, StoresTypeOK, StoresAssumption
    <3>2. QED  BY <3>1 DEF Errs
  <2>5. CASE users'[b] = users[b] /\ ~(b = loc[r].account /\ faults' = 0)
    BY <1>1, <2>5
  <2>6. CASE b = loc[r].account /\ UNCHANGED users /\ Errs
    BY <1>1, <2>4, <2>6
  <2>7. CASE /\ b = loc[r].account
             /\ users'[b] = [current |-> loc[r].streak, best |-> NewBest(r),
                             last |-> loc[r].today]
    <3>1. users'[b].best = IF loc[r].streak > users[b].best THEN loc[r].streak
                                                           ELSE users[b].best
      BY <2>2, <2>7 DEF NewBest
    <3>2. QED  BY <1>1, <1>2, <2>2, <2>7, <3>1
  <2>8. QED  BY <2>3, <2>4, <2>5, <2>6, <2>7
<1>4. CASE pc[r] # "streak"
  <2>1. UNCHANGED users  BY <1>4, ServeWrites DEF SaveStreak
  <2>2. QED  BY <1>1, <1>4, <2>1
<1>5. QED  BY <1>3, <1>4

LEMMA NextBest ==
  ASSUME DayInv, DayInv', BestInv, (\E r \in LoginReq : Serve(r)) \/ LoginsRest, faults' >= faults
  PROVE  BestInv'
<1>1. /\ LoginInv /\ OneDay /\ TypeOK /\ BestPosted /\ faults \in Nat
      /\ Logins \subseteq Event
  BY StoresAssumption
  DEF DayInv, LoginInv, BestInv, TypeOK, StoresTypeOK, StoresAssumption, Logins
<1>2. faults' = 0 => faults = 0 /\ BestSaved /\ \A r \in LoginReq : pc'[r] # "failed"
  BY <1>1 DEF BestInv, DayInv, QuietDay, FirstToPost
<1>3. CASE LoginsRest
  <2>1. BestPosted'  BY <1>1, <1>3 DEF LoginsRest, BestPosted
  <2>2. faults' = 0 => BestSaved'
    <3> SUFFICES ASSUME faults' = 0 PROVE BestSaved'  OBVIOUS
    <3>1. \A r \in LoginReq : pc'[r] = pc[r] /\ EventOf(r)' = EventOf(r)
      BY <1>2, <1>3 DEF LoginsRest, EventOf
    <3>2. QED  BY <1>2, <1>3, <3>1 DEF LoginsRest, BestSaved
  <2>3. QED  BY <2>1, <2>2 DEF BestInv
<1>4. ASSUME NEW r \in LoginReq, Serve(r) PROVE BestInv'
  <2>1. /\ Path(r) /\ loc'[r].account = loc[r].account
        /\ \A q \in LoginReq \ {r} : pc'[q] = pc[q] /\ loc'[q] = loc[q]
    BY <1>1, <1>4, ServePath, ServeMoves
  <2>2. Logins' = Logins \/ (pc[r] = "insert" /\ Logins' = Logins \cup {EventOf(r)})
    BY <1>4, LoginsGrow
  <2>3. BestPosted'
    <3> SUFFICES ASSUME NEW b \in BDA
                 PROVE  users'[b].best = 0 \/ \E e \in Logins' : e.bda = b
                                                            /\ e.streak = users'[b].best
      BY DEF BestPosted
    <3>1. \/ users'[b].best = users[b].best
          \/ EventOf(r) \in Logins /\ EventOf(r).bda = b /\ EventOf(r).streak = users'[b].best
      BY <1>1, <1>4, SavedBest
    <3>2. QED  BY <1>1, <2>2, <3>1 DEF BestPosted
  <2>4. ASSUME faults' = 0 PROVE BestSaved'
    <3> SUFFICES ASSUME NEW e \in Logins'
                 PROVE  \/ e.streak <= users'[e.bda].best
                        \/ \E q \in LoginReq : pc'[q] \in {"rollup", "streak"} /\ EventOf(q)' = e
      BY DEF BestSaved
    <3>1. pc'[r] \notin {"failed", "release"}
      BY <2>4 DEF DayInv, QuietDay, FirstToPost
    <3>2. CASE e \in Logins /\ e.streak <= users[e.bda].best
      <4>1. e.bda \in BDA /\ e.streak \in Nat  BY <1>1, <3>2 DEF Event
      <4>2. users[e.bda].best \in Nat /\ users'[e.bda].best >= users[e.bda].best
        BY <1>1, <1>4, <4>1, SavedBest
      <4>3. users'[e.bda].best \in Nat
        BY <4>1 DEF DayInv, LoginInv, TypeOK, StoresTypeOK, Account, User
      <4>4. QED  BY <3>2, <4>1, <4>2, <4>3
    <3>3. CASE pc[r] = "insert" /\ e = EventOf(r)
      <4>1. pc'[r] = "rollup"  BY <2>1, <3>1, <3>3 DEF Path
      <4>2. EventOf(r)' = EventOf(r)
        BY <1>1, <1>4, <2>1, <3>3, ServeLocals DEF EventOf
      <4>3. QED  BY <3>3, <4>1, <4>2
    <3>4. ASSUME NEW q \in LoginReq, pc[q] \in {"rollup", "streak"}, EventOf(q) = e
          PROVE  \/ e.streak <= users'[e.bda].best
                 \/ pc'[q] \in {"rollup", "streak"} /\ EventOf(q)' = e
      <4>1. CASE q # r  BY <2>1, <3>4, <4>1 DEF EventOf
      <4>2. CASE q = r /\ pc[r] = "rollup"
        <5>1. pc'[r] = "streak"  BY <2>1, <3>1, <4>2 DEF Path
        <5>2. EventOf(r)' = EventOf(r)
          BY <1>1, <1>4, <2>1, <4>2, ServeLocals DEF EventOf
        <5>3. QED  BY <3>4, <4>2, <5>1, <5>2
      <4>3. CASE q = r /\ pc[r] = "streak"
        <5>1. e.bda = loc[r].account /\ e.streak = loc[r].streak /\ loc[r].account \in BDA
              /\ loc[r].streak \in Nat
          BY <1>1, <3>4, <4>3 DEF EventOf, LoginEvent, TypeOK, Serving, Local
        <5>2. users'[e.bda].best >= loc[r].streak
          BY <1>1, <1>4, <2>4, <4>3, <5>1, SavedBest
        <5>3. users'[e.bda].best \in Nat
          BY <5>1 DEF DayInv, LoginInv, TypeOK, StoresTypeOK, Account, User
        <5>4. QED  BY <5>1, <5>2, <5>3
      <4>4. QED  BY <3>4, <4>1, <4>2, <4>3
    <3>5. QED  BY <1>2, <2>2, <2>4, <3>2, <3>3, <3>4 DEF BestSaved
  <2>5. QED  BY <2>3, <2>4 DEF BestInv
<1>5. QED  BY <1>3, <1>4

LEMMA InitBest ==
  ASSUME ReportsInit
  PROVE  BestInv
<1>1. PICK raw : StartsFrom(raw)  BY InitStarts
<1> DEFINE S(b, d) == StreakThrough(raw[b])[d]
<1>2. ASSUME NEW b \in BDA
      PROVE  users[b].best = 0 \/ \E e \in Logins : e.bda = b /\ e.streak = users[b].best
  <2>1. CASE b \notin seeded
    BY <1>1, <2>1 DEF StartsFrom, Account
  <2>2. CASE b \in seeded
    <3>1. Drawn(HistoryDays, raw[b]) /\ users[b] = SeedUser(raw[b])
          /\ 0 .. HistoryDays - 1 = 0 .. today
      BY <1>1, <2>2, SeededLogins
    <3>2. PICK d \in 0 .. HistoryDays - 1 : users[b].best = S(b, d)
      BY <3>1, SeededUser
    <3>3. ~raw[b][d].loggedIn => S(b, d) = 0  BY <3>1, StreaksOfHistory
    <3>4. raw[b][d].loggedIn => \E e \in Logins : e.bda = b /\ e.streak = S(b, d)
      BY <1>1, <2>2, <3>1, SeededLogins
    <3>5. QED  BY <3>2, <3>3, <3>4
  <2>3. QED  BY <2>1, <2>2
<1>3. ASSUME NEW e \in Logins PROVE e.streak <= users[e.bda].best
  <2>1. /\ e.bda \in seeded /\ e.date \in 0 .. today - 1 /\ e.streak = S(e.bda, e.date)
        /\ today = HistoryDays - 1 /\ today \in Nat
    BY <1>1, SeededLogins
  <2>2. Drawn(HistoryDays, raw[e.bda]) /\ users[e.bda] = SeedUser(raw[e.bda])
    BY <1>1, <2>1, SeededLogins
  <2>3. e.date \in 0 .. HistoryDays - 1  BY <2>1
  <2>4. S(e.bda, e.date) <= users[e.bda].best  BY <2>2, <2>3, SeededUser
  <2>5. QED  BY <2>1, <2>4
<1>4. QED  BY <1>2, <1>3 DEF BestInv, BestPosted, BestSaved

\* In every state, the best streaks are of logins in the ledger and, with the stores up,
\* no saved login has a longer one (Service.recordLogin, Run).
THEOREM BestInvariant == MaxLag = 0 /\ ReportsSpec => []BestInv
<1>1. Writers /\ DayInv /\ BestInv /\ [ReportsNext]_allVars => BestInv'
  <2> SUFFICES ASSUME Writers, DayInv, BestInv, [ReportsNext]_allVars PROVE BestInv'
    OBVIOUS
  <2>1. faults' >= faults  BY Steps, NextWriters DEF Grows
  <2>2. QED  BY <2>1, LoginsMoveOrRest, NextBest
<1>2. QED
  BY <1>1, InitBest, WritersInvariant, DayInvariantBesideActivity, PTL DEF ReportsSpec

\* With the stores up, the best streak of a user is the longest of the ledger, seeded or
\* not, unless a login is between its event and the user document (Service.recordLogin).
THEOREM BestIsAlwaysLongest == MaxLag = 0 /\ ReportsSpec => []BestIsLongest
<1>1. DayInv /\ BestInv => BestIsLongest
  <2> SUFFICES ASSUME DayInv, BestPosted, BestSaved, NEW b \in BDA,
                      ~\E r \in LoginReq : pc[r] \in {"rollup", "streak"} /\ loc[r].account = b
               PROVE  users[b].best = Max({0} \cup {e.streak : e \in {f \in Logins : f.bda = b}})
    BY DEF BestIsLongest, BestInv
  <2> DEFINE streaks == {0} \cup {e.streak : e \in {f \in Logins : f.bda = b}}
             best == users[b].best
  <2>1. best \in Nat
    BY DEF DayInv, LoginInv, TypeOK, StoresTypeOK, Account, User
  <2>2. \A e \in Logins : e.streak \in Nat /\ (e.bda = b => e.streak <= best)
    <3>1. \A r \in LoginReq : EventOf(r).bda = loc[r].account  BY DEF EventOf, LoginEvent
    <3>2. Logins \subseteq Event
      BY DEF DayInv, LoginInv, TypeOK, StoresTypeOK, Logins
    <3>3. QED  BY <3>1, <3>2 DEF BestSaved, Event
  <2>3. best \in streaks  BY DEF BestPosted
  <2>4. \A s \in streaks : s \in Nat /\ s <= best  BY <2>1, <2>2
  <2> HIDE DEF streaks, best
  <2>5. \A m \in streaks : (\A s \in streaks : m >= s) => m = best  BY <2>1, <2>3, <2>4
  <2>6. best \in streaks /\ \A s \in streaks : best >= s  BY <2>1, <2>3, <2>4
  <2>7. Max(streaks) = best  BY <2>5, <2>6 DEF Max
  <2>8. QED  BY <2>7 DEF streaks, best
<1>2. QED  BY <1>1, DayInvariantBesideActivity, BestInvariant, PTL

-----------------------------------------------------------------------------
(* The points of the rollups and of the ledger.                            *)

Ledger(k) == {e \in events : <<e.bda, e.date>> = k}

Balanced == \A k \in BDA \X Day : daily[k].points = PointsOf(Ledger(k) \ Uncounted)

\* The event of a lead that is still to be counted is in the ledger, and no other request's.
Counting(r) == actPc[r] = "rollup" /\ IsLead(r)

LeadsPosted ==
  /\ \A r \in ActReq : Counting(r) => LeadEvent(r) \in events
  /\ \A r, q \in ActReq : Counting(r) /\ Counting(q) /\ LeadEvent(r) = LeadEvent(q) => r = q

\* What a step does to the books: nothing, or it posts an event, or it counts one.
LeavesBooks ==
  /\ UNCHANGED events /\ Uncounted' = Uncounted
  /\ \A k \in BDA \X Day : daily'[k].points = daily[k].points

PostsEvent(e) ==
  /\ e \notin events /\ events' = events \cup {e}
  /\ Uncounted' = Uncounted \cup {e}
  /\ \A k \in BDA \X Day : daily'[k].points = daily[k].points

CountsEvent(e) ==
  /\ e \in events /\ e \in Uncounted /\ UNCHANGED events
  /\ Uncounted' = Uncounted \ {e}
  /\ \A k \in BDA \X Day :
       daily'[k].points = daily[k].points + (IF k = <<e.bda, e.date>> THEN e.points ELSE 0)

LEMMA BalanceKept ==
  ASSUME Writers, Balanced,
         LeavesBooks \/ \E e : PostsEvent(e) \/ CountsEvent(e)
  PROVE  Balanced'
<1>1. /\ daily \in [BDA \X Day -> Daily]
      /\ \A e \in events : e.points \in Int
  BY DEF Writers, LoginInv, TypeOK, StoresTypeOK, Event
<1> SUFFICES ASSUME NEW k \in BDA \X Day
             PROVE  daily'[k].points = PointsOf((Ledger(k) \ Uncounted)')
  BY DEF Balanced
<1>2. daily[k].points = PointsOf(Ledger(k) \ Uncounted) /\ daily[k].points \in Int
  BY <1>1 DEF Balanced, Daily
<1>3. CASE LeavesBooks
  <2>1. (Ledger(k) \ Uncounted)' = Ledger(k) \ Uncounted  BY <1>3 DEF LeavesBooks, Ledger
  <2>2. QED  BY <1>2, <1>3, <2>1 DEF LeavesBooks
<1>4. ASSUME NEW e, PostsEvent(e)
      PROVE  daily'[k].points = PointsOf((Ledger(k) \ Uncounted)')
  <2>1. (Ledger(k) \ Uncounted)' = Ledger(k) \ Uncounted
    BY <1>4 DEF PostsEvent, Ledger
  <2>2. QED  BY <1>2, <1>4, <2>1 DEF PostsEvent
<1>5. ASSUME NEW e, CountsEvent(e)
      PROVE  daily'[k].points = PointsOf((Ledger(k) \ Uncounted)')
  <2>1. CASE k # <<e.bda, e.date>>
    <3>1. (Ledger(k) \ Uncounted)' = Ledger(k) \ Uncounted
      BY <1>5, <2>1 DEF CountsEvent, Ledger
    <3>2. daily'[k].points = daily[k].points
      BY <1>2, <1>5, <2>1 DEF CountsEvent
    <3>3. QED  BY <1>2, <3>1, <3>2
  <2>2. CASE k = <<e.bda, e.date>>
    <3> DEFINE I == Ledger(k) \ Uncounted
               J == {e}
    <3>1. (Ledger(k) \ Uncounted)' = I \cup J /\ I \cap J = {}
      BY <1>5, <2>2 DEF CountsEvent, Ledger
    <3>2. IsFiniteSet(Ledger(k))
      <4>1. {f \in events : f.bda = k[1]} \in SUBSET events /\ k[1] \in BDA  OBVIOUS
      <4>2. IsFiniteSet({f \in events : f.bda = k[1]})  BY <4>1, LedgerIsFinite
      <4>3. Ledger(k) \subseteq {f \in events : f.bda = k[1]}  BY DEF Ledger
      <4>4. QED  BY <4>2, <4>3, FS_Subset
    <3>3. IsFiniteSet(I) /\ IsFiniteSet(J)  BY <3>2, FS_Difference, FS_Singleton
    <3>4. e.points \in Int /\ \A f \in I \cup J : f.points \in Int
      BY <1>1, <1>5 DEF CountsEvent, Ledger
    <3>5. PointsOf(J) = e.points  BY <3>4, PointsAdd
    <3> HIDE DEF I, J
    <3>6. PointsOf(I \cup J) = PointsOf(I) + PointsOf(J)  BY <3>1, <3>3, <3>4, PointsAdd
    <3>7. daily'[k].points = daily[k].points + e.points
      BY <1>5, <2>2 DEF CountsEvent
    <3>8. PointsOf(I) = daily[k].points  BY <1>2 DEF I
    <3>9. QED  BY <3>1, <3>5, <3>6, <3>7, <3>8
  <2>3. QED  BY <2>1, <2>2
<1>6. QED  BY <1>3, <1>4, <1>5

\* A login that does not fail enters its event, counts it, or touches no points.
LEMMA LoginBooks ==
  ASSUME Writers, NEW r \in LoginReq, Serve(r) \/ Die(r), UNCHANGED <<actPc, actLoc>>,
         faults' = 0
  PROVE  LeavesBooks \/ \E e : PostsEvent(e) \/ CountsEvent(e)
<1> DEFINE Rollup == {EventOf(q) : q \in {p \in LoginReq : pc[p] = "rollup"}}
           Others == {EventOf(q) : q \in {p \in LoginReq \ {r} : pc[p] = "rollup"}}
           Leading == {LeadEvent(q) : q \in {p \in ActReq : actPc[p] = "rollup" /\ IsLead(p)}}
<1>1. /\ LoginInv /\ TypeOK /\ daily \in [BDA \X Day -> Daily] /\ faults \in Nat
      /\ loc[r] \in Local
  BY StoresAssumption
  DEF Writers, LoginInv, TypeOK, StoresTypeOK, StoresAssumption
<1>2. faults' # faults + 1  BY <1>1
<1>3. Serve(r)  BY <1>2 DEF Die, Fails, Errs
<1>4. /\ \A q \in LoginReq \ {r} : pc'[q] = pc[q] /\ loc'[q] = loc[q]
      /\ pc' \in [LoginReq -> {"idle"} \cup Serving \cup Answered]
  BY <1>1, <1>3, ServeMoves
<1>5. Others' = Others
  <2>1. \A q \in LoginReq \ {r} : EventOf(q)' = EventOf(q) /\ pc'[q] = pc[q]
    BY <1>4 DEF EventOf
  <2>2. QED  BY <2>1
<1>6. Leading' = Leading  BY DEF LeadEvent, IsLead
<1>7. /\ Uncounted = Rollup \cup Leading /\ Uncounted' = Rollup' \cup Leading'
  BY DEF Uncounted
<1>8. /\ pc[r] = "rollup" => Rollup = Others \cup {EventOf(r)}
      /\ pc[r] # "rollup" => Rollup = Others
  OBVIOUS
<1>9. /\ pc'[r] = "rollup" => Rollup' = Others' \cup {EventOf(r)'}
      /\ pc'[r] # "rollup" => Rollup' = Others'
  OBVIOUS
<1> HIDE DEF Rollup, Others, Leading
<1>10. CASE InsertLoginEvent(r)
  <2>1. pc[r] = "insert" /\ UNCHANGED <<daily, loc>>
    BY <1>10 DEF InsertLoginEvent
  <2>2. EventOf(r)' = EventOf(r)  BY <2>1 DEF EventOf
  <2>3. CASE InsertEvent(EventOf(r)) /\ Goto(r, "rollup")
    <3>1. pc'[r] = "rollup"  BY <1>1, <2>3 DEF Goto, TypeOK
    <3>2. EventOf(r) \notin events /\ events' = events \cup {EventOf(r)}
      BY <2>3 DEF InsertEvent, EventTaken
    <3>3. PostsEvent(EventOf(r))
      BY <1>5, <1>6, <1>7, <1>8, <1>9, <2>1, <2>2, <3>1, <3>2 DEF PostsEvent
    <3>4. QED  BY <3>3
  <2>4. CASE Goto(r, "release") /\ UNCHANGED events
    <3>1. pc'[r] = "release"  BY <1>1, <2>4 DEF Goto, TypeOK
    <3>2. QED  BY <1>5, <1>6, <1>7, <1>8, <1>9, <2>1, <2>4, <3>1 DEF LeavesBooks
  <2>5. QED  BY <1>2, <1>10, <2>3, <2>4 DEF InsertLoginEvent, Errs
<1>11. CASE UpsertLoginDay(r)
  <2>1. /\ pc[r] = "rollup" /\ CreditRollup(r) /\ Goto(r, "streak") /\ UNCHANGED <<events, loc>>
    BY <1>2, <1>11 DEF UpsertLoginDay, Fails, Errs
  <2>2. pc'[r] = "streak"  BY <1>1, <2>1 DEF Goto, TypeOK
  <2> DEFINE e == EventOf(r)
             k0 == LockKey(r)
             s == loc[r].streak
  <2>3. /\ e \in events /\ k0 \in BDA \X Day /\ s \in Nat
        /\ e.bda = loc[r].account /\ e.date = loc[r].today /\ e.points = LoginPoints(s)
        /\ k0 = <<e.bda, e.date>> /\ e.type = "LOGIN"
    BY <1>1, <2>1 DEF LoginInv, RequestOK, Claimed, LockKey, Local, EventOf, LoginEvent
  <2>4. e \notin Others
    <3> SUFFICES ASSUME NEW q \in LoginReq \ {r}, pc[q] = "rollup", EventOf(q) = e PROVE FALSE
      BY DEF Others
    <3>1. LockKey(q) = LockKey(r)  BY DEF EventOf, LoginEvent, LockKey
    <3>2. QED  BY <1>1, <2>1, <3>1 DEF LoginInv, OneClaim, Claimed
  <2>5. e \notin Leading
    BY <2>3 DEF Leading, LeadEvent
  <2>6. Uncounted' = Uncounted \ {e} /\ e \in Uncounted
    BY <1>5, <1>6, <1>7, <1>8, <1>9, <2>1, <2>2, <2>4, <2>5
  <2>7. daily' = [daily EXCEPT ![k0] = LoginDay(daily[k0], s)]
    BY <2>1 DEF CreditRollup, UpsertDaily, LockKey
  <2>8. LoginDay(daily[k0], s).points = daily[k0].points + LoginPoints(s)
    BY <1>1, <2>3, LoginDayCounts
  <2>9. \A k \in BDA \X Day : daily[k].points \in Int  BY <1>1 DEF Daily
  <2> HIDE DEF e, k0, s
  <2>10. \A k \in BDA \X Day :
           daily'[k].points = daily[k].points + (IF k = <<e.bda, e.date>> THEN e.points ELSE 0)
    BY <1>1, <2>3, <2>7, <2>8, <2>9
  <2>11. CountsEvent(e)  BY <2>1, <2>3, <2>6, <2>10 DEF CountsEvent
  <2>12. QED  BY <2>11
<1>12. CASE ~InsertLoginEvent(r) /\ ~UpsertLoginDay(r)
  <2>1. UNCHANGED <<events, daily>> /\ pc[r] # "rollup"
    BY <1>3, <1>12 DEF Serve, FindUser, Verify, ReadYesterday, AcquireLoginLock, RereadUser,
                       ReleaseLoginLock, SaveStreak, InvalidateCache, SaveSession, storeVars
  <2>2. pc'[r] # "rollup"
    BY <1>1, <1>3, <1>12
    DEF Serve, FindUser, Verify, ReadYesterday, AcquireLoginLock, RereadUser, ReleaseLoginLock,
        SaveStreak, InvalidateCache, SaveSession, Goto, Fails, TypeOK
  <2>3. QED  BY <1>5, <1>6, <1>7, <1>8, <1>9, <2>1, <2>2 DEF LeavesBooks
<1>13. QED  BY <1>10, <1>11, <1>12

\* So does a lead or a call that does not fail.
LEMMA ActivityBooks ==
  ASSUME Writers, LeadsPosted, NEW r \in ActReq, Step(r), UNCHANGED <<redisVars, pc, loc>>,
         faults' = 0
  PROVE  LeavesBooks \/ \E e : PostsEvent(e) \/ CountsEvent(e)
<1> DEFINE Rollup == {EventOf(q) : q \in {p \in LoginReq : pc[p] = "rollup"}}
           Leading == {LeadEvent(q) : q \in {p \in ActReq : actPc[p] = "rollup" /\ IsLead(p)}}
           Others == {LeadEvent(q) :
                        q \in {p \in ActReq \ {r} : actPc[p] = "rollup" /\ IsLead(p)}}
<1>1. /\ Sound /\ daily \in [BDA \X Day -> Daily] /\ faults \in Nat
      /\ actPc \in [ActReq -> {"idle"} \cup ActServing \cup ActAnswered]
  BY StoresAssumption
  DEF Writers, ActInv, Sound, ActTypeOK, StoresTypeOK, StoresAssumption
<1>2. faults' # faults + 1  BY <1>1
<1>3. /\ \A q \in ActReq \ {r} : actPc'[q] = actPc[q] /\ actLoc'[q] = actLoc[q]
      /\ Quiet(r) \/ Logs(r) \/ CountsIn(r)
  BY <1>1, StepMoves, StepEffect
<1>4. Others' = Others
  <2>1. \A q \in ActReq \ {r} : /\ LeadEvent(q)' = LeadEvent(q) /\ actPc'[q] = actPc[q]
                                /\ (IsLead(q)' <=> IsLead(q))
    BY <1>3 DEF LeadEvent, IsLead
  <2>2. QED  BY <2>1
<1>5. Rollup' = Rollup  BY DEF EventOf
<1>6. /\ Uncounted = Rollup \cup Leading /\ Uncounted' = Rollup' \cup Leading'
  BY DEF Uncounted
<1>7. /\ Counting(r) => Leading = Others \cup {LeadEvent(r)}
      /\ ~Counting(r) => Leading = Others
  BY DEF Counting
<1>8. /\ Counting(r)' => Leading' = Others' \cup {LeadEvent(r)'}
      /\ ~Counting(r)' => Leading' = Others'
  BY DEF Counting
<1>9. \A e \in Rollup : e.type = "LOGIN"  BY DEF EventOf, LoginEvent
<1>10. LeadEvent(r).type # "LOGIN"  BY DEF LeadEvent
<1> HIDE DEF Rollup, Leading, Others
<1>11. CASE InsertLeadEvent(r)
  <2>1. actPc[r] = "insert" /\ UNCHANGED <<daily, actLoc>> /\ IsLead(r)
    BY <1>1, <1>11 DEF InsertLeadEvent, Sound, Kinds, Kind
  <2>2. LeadEvent(r)' = LeadEvent(r) /\ ~Counting(r) /\ (IsLead(r)' <=> IsLead(r))
    BY <2>1 DEF LeadEvent, Counting, IsLead
  <2>3. CASE InsertEvent(LeadEvent(r)) /\ ActGoto(r, "rollup")
    <3>1. Counting(r)'  BY <1>1, <2>1, <2>2, <2>3 DEF ActGoto, Counting
    <3>2. LeadEvent(r) \notin events /\ events' = events \cup {LeadEvent(r)}
      BY <2>3 DEF InsertEvent, EventTaken
    <3>3. PostsEvent(LeadEvent(r))
      BY <1>4, <1>5, <1>6, <1>7, <1>8, <2>1, <2>2, <3>1, <3>2 DEF PostsEvent
    <3>4. QED  BY <3>3
  <2>4. CASE ActGoto(r, "failed") /\ UNCHANGED events
    <3>1. ~Counting(r)'  BY <1>1, <2>4 DEF ActGoto, Counting
    <3>2. QED  BY <1>4, <1>5, <1>6, <1>7, <1>8, <2>1, <2>2, <2>4, <3>1 DEF LeavesBooks
  <2>5. QED  BY <1>2, <1>11, <2>3, <2>4 DEF InsertLeadEvent, ActFails, Errs
<1>12. CASE UpsertActivity(r)
  <2>1. /\ actPc[r] = "rollup" /\ CountInRollup(r) /\ ActGoto(r, "bump")
        /\ UNCHANGED <<events, actLoc>>
    BY <1>2, <1>12 DEF UpsertActivity, ActFails, Errs
  <2>2. ~Counting(r)'  BY <1>1, <2>1 DEF ActGoto, Counting
  <2> DEFINE e == LeadEvent(r)
             k0 == RollupKey(r)
  <2>3. k0 \in BDA \X Day /\ k0 = <<e.bda, e.date>>
    BY <1>1, <2>1, KeyType DEF ActServing, LeadEvent, RollupKey
  <2>4. daily' = [daily EXCEPT ![k0] = Counted(r, daily[k0])]
    BY <2>1 DEF CountInRollup, UpsertDaily, RollupKey
  <2>5. daily[k0] \in Daily /\ \A k \in BDA \X Day : daily[k].points \in Int
    BY <1>1, <2>3 DEF Daily
  <2>6. actLoc[r].outcome \in {"won", "dropped", "calls", "minutes"}
    BY <1>1 DEF Sound, ActTypeOK, ActLocal, LeadOutcome, CallOutcome
  <2>7. CASE IsLead(r)
    <3>1. Counted(r, daily[k0]).points = daily[k0].points + e.points
      <4> DEFINE doc == daily[k0]
      <4>1. doc \in Daily  BY <2>5
      <4> HIDE DEF doc
      <4>2. Counted(r, doc).points = doc.points + e.points
        <5>1. e.points = IF actLoc[r].outcome = "won" THEN LeadWon ELSE LeadDropped
          BY DEF LeadEvent
        <5>2. /\ LeadWon \in Int /\ LeadDropped \in Int
              /\ doc.points \in Int
          BY <4>1 DEF Daily, LeadWon, LeadDropped
        <5> HIDE DEF e
        <5>3. CASE actLoc[r].outcome = "won"
          <6>1. Counted(r, doc) = [doc EXCEPT !.leadsWon = @ + 1, !.points = @ + LeadWon,
                                              !.leadPoints = @ + LeadWon]
            BY <5>3 DEF Counted, CallOutcome
          <6>2. Counted(r, doc).points = doc.points + LeadWon
            BY <4>1, <6>1 DEF Daily
          <6>3. QED  BY <5>1, <5>3, <6>2
        <5>4. CASE actLoc[r].outcome = "dropped"
          <6>1. Counted(r, doc) = [doc EXCEPT !.leadsDropped = @ + 1, !.points = @ + LeadDropped,
                                              !.penaltyPoints = @ + LeadDropped]
            BY <5>4 DEF Counted, CallOutcome
          <6>2. Counted(r, doc).points = doc.points + LeadDropped
            BY <4>1, <6>1 DEF Daily
          <6>3. QED  BY <5>1, <5>4, <6>2
        <5>5. QED  BY <2>7, <5>3, <5>4 DEF IsLead, LeadOutcome
      <4>3. QED  BY <4>2 DEF doc
    <3>2. Counting(r)  BY <2>1, <2>7 DEF Counting
    <3>3. e \in events /\ e \notin Others
      BY <3>2 DEF LeadsPosted, Others, Counting
    <3> HIDE DEF e, k0
    <3>4. e \notin Rollup  BY <1>9, <1>10 DEF e
    <3>5. Uncounted' = Uncounted \ {e} /\ e \in Uncounted
      BY <1>4, <1>5, <1>6, <1>7, <1>8, <2>2, <3>2, <3>3, <3>4 DEF e
    <3>6. \A k \in BDA \X Day :
           daily'[k].points = daily[k].points + (IF k = <<e.bda, e.date>> THEN e.points ELSE 0)
      BY <1>1, <2>3, <2>4, <2>5, <3>1
    <3>7. CountsEvent(e)  BY <2>1, <3>3, <3>5, <3>6 DEF CountsEvent
    <3>8. QED  BY <3>7
  <2>8. CASE ~IsLead(r)
    <3>1. Counted(r, daily[k0]).points = daily[k0].points
      <4> DEFINE doc == daily[k0]
      <4>1. doc \in Daily  BY <2>5
      <4> HIDE DEF doc
      <4>2. Counted(r, doc).points = doc.points
        BY <2>6, <2>8, <4>1 DEF Counted, CallsCounted, CallOutcome, IsLead, LeadOutcome, Daily
      <4>3. QED  BY <4>2 DEF doc
    <3>2. ~Counting(r)  BY <2>8 DEF Counting
    <3> HIDE DEF k0
    <3>3. \A k \in BDA \X Day : daily'[k].points = daily[k].points
      BY <1>1, <2>3, <2>4, <3>1
    <3>4. QED  BY <1>4, <1>5, <1>6, <1>7, <1>8, <2>1, <2>2, <3>2, <3>3 DEF LeavesBooks
  <2>9. QED  BY <2>7, <2>8
<1>13. CASE ~InsertLeadEvent(r) /\ ~UpsertActivity(r)
  <2>1. UNCHANGED <<events, daily>> /\ actPc[r] # "rollup" /\ Quiet(r)
    <3>1. actPc[r] \notin {"insert", "rollup"}
      BY <1>2, <1>13
      DEF Step, Submit, ActServe, NormalizeDate, StampEvent, ActInvalidateCache, ReadRollup,
          ActDie, ActFails, Errs
    <3>2. QED  BY <1>3, <3>1 DEF Quiet, Logs, CountsIn
  <2>2. ~Counting(r)' /\ ~Counting(r)
    BY <2>1 DEF Counting, Quiet, IsLead, LeadOutcome
  <2>3. QED  BY <1>4, <1>5, <1>6, <1>7, <1>8, <2>1, <2>2 DEF LeavesBooks
<1>14. QED  BY <1>11, <1>12, <1>13

\* Leads that are to be counted stay apart: each entered the ledger under an id of its own.
LEMMA LeadsPostedKept ==
  ASSUME Writers, LeadsPosted, NEW r \in ActReq, Step(r)
  PROVE  LeadsPosted'
<1>1. Sound  BY DEF Writers, ActInv
<1>2. /\ \A q \in ActReq \ {r} : actPc'[q] = actPc[q] /\ actLoc'[q] = actLoc[q]
      /\ Quiet(r) \/ Logs(r) \/ CountsIn(r)
  BY <1>1, StepMoves, StepEffect
<1>3. \A q \in ActReq \ {r} : (Counting(q)' <=> Counting(q)) /\ LeadEvent(q)' = LeadEvent(q)
  BY <1>2 DEF Counting, IsLead, LeadEvent
<1>4. events \subseteq events'  BY <1>2 DEF Quiet, Logs, CountsIn, InsertEvent
<1>5. CASE ~Counting(r)'
  BY <1>3, <1>4, <1>5 DEF LeadsPosted
<1>6. CASE Counting(r)'
  <2>1. Logs(r)
    BY <1>2, <1>6 DEF Counting, Quiet, CountsIn, IsLead, LeadOutcome
  <2>2. /\ LeadEvent(r)' = LeadEvent(r) /\ LeadEvent(r) \notin events
        /\ events' = events \cup {LeadEvent(r)}
    BY <2>1 DEF Logs, InsertEvent, EventTaken, LeadEvent
  <2>3. \A q \in ActReq \ {r} : Counting(q) => LeadEvent(q) # LeadEvent(r)
    BY <2>2 DEF LeadsPosted
  <2>4. QED  BY <1>3, <1>4, <2>2, <2>3 DEF LeadsPosted
<1>7. QED  BY <1>5, <1>6

\* The books of a start balance, whatever history was drawn.
LEMMA InitBooks ==
  ASSUME ReportsInit
  PROVE  LeadsPosted /\ Balanced
<1>1. PICK raw : StartsFrom(raw)  BY InitStarts
<1>2. Uncounted = {} /\ LeadsPosted
  BY DEF ReportsInit, LoginsIdle, RequestsIdle, Uncounted, LeadsPosted, Counting
<1>3. ASSUME NEW k \in BDA \X Day PROVE daily[k].points = PointsOf(Ledger(k))
  <2>0. k[1] \in BDA /\ k[2] \in Day  OBVIOUS
  <2>1. events \subseteq Event  BY InitTypes DEF ActTypeOK, StoresTypeOK
  <2>2. Ledger(k) = UNION {EntriesOf(k, type) : type \in {"LOGIN", "LEAD_WON", "LEAD_DROPPED"}}
    BY <2>1 DEF Ledger, EntriesOf, Event
  <2>3. /\ daily[k] = IF k[1] \in seeded /\ k[2] < HistoryDays
                      THEN SeedDay(raw[k[1]], k[2]) ELSE EmptyDay
        /\ \A type \in {"LOGIN", "LEAD_WON", "LEAD_DROPPED"} :
             EntriesOf(k, type) = IF k[1] \in seeded /\ k[2] < HistoryDays
                                  THEN EventsOn(k[1], raw[k[1]], k[2], type) ELSE {}
    BY <1>1 DEF StartsFrom, EntriesOf
  <2>4. CASE k[1] \in seeded /\ k[2] < HistoryDays
    <3> DEFINE b == k[1]
               d == k[2]
               ledger == {e \in SeedEvents(b, raw[b]) : e.date = d}
    <3>1. Drawn(HistoryDays, raw[b]) /\ d \in 0 .. HistoryDays - 1
      BY <1>1, <2>0, <2>4, DaysOfHistory DEF StartsFrom
    <3>2. Ledger(k) = UNION {EventsOn(b, raw[b], d, type) :
                               type \in {"LOGIN", "LEAD_WON", "LEAD_DROPPED"}}
      BY <2>2, <2>3, <2>4
    <3>3. ledger = UNION {EventsOn(b, raw[b], d, type) :
                            type \in {"LOGIN", "LEAD_WON", "LEAD_DROPPED"}}
      BY <3>1, SeededEvents DEF EventsOn
    <3>4. SeedDay(raw[b], d).points = PointsOf(ledger)  BY <3>1, SeededPoints
    <3> HIDE DEF b, d, ledger
    <3>5. Ledger(k) = ledger  BY <3>2, <3>3
    <3>6. QED  BY <2>3, <2>4, <3>4, <3>5 DEF b, d
  <2>5. CASE ~(k[1] \in seeded /\ k[2] < HistoryDays)
    <3>1. Ledger(k) = {} /\ daily[k] = EmptyDay  BY <2>2, <2>3, <2>5
    <3>2. QED  BY <3>1, PointsAdd DEF EmptyDay
  <2>6. QED  BY <2>4, <2>5
<1>4. \A k : Ledger(k) \ {} = Ledger(k)  OBVIOUS
<1>5. QED  BY <1>2, <1>3, <1>4 DEF Balanced

\* The books balance at every moment, however long the seeded history is and whatever it
\* draws, and however many requests there are: until something fails, the points of every
\* rollup are those of its day's ledger, but for the events whose requests are between
\* their two writes (seed.Run; Service.recordLogin and Service.RecordLead).
THEOREM BooksAlwaysBalance == ReportsSpec => []BooksBalance
<1> DEFINE BooksInv == LeadsPosted /\ (faults = 0 => Balanced)
<1>1. ReportsInit => BooksInv
  <2> SUFFICES ASSUME ReportsInit PROVE BooksInv  OBVIOUS
  <2>1. QED  BY InitBooks
<1>2. Writers /\ BooksInv /\ [ReportsNext]_allVars => BooksInv'
  <2> SUFFICES ASSUME Writers, BooksInv, [ReportsNext]_allVars PROVE BooksInv'  OBVIOUS
  <2>1. Grows  BY Steps, NextWriters
  <2>2. faults' = 0 => faults = 0
    <3>1. faults \in Nat /\ faults' >= faults
      BY <2>1, StoresAssumption
      DEF Grows, Writers, LoginInv, TypeOK, StoresTypeOK, StoresAssumption
    <3>2. QED  BY <3>1
  <2>3. LeadsPosted'
    <3>1. CASE UNCHANGED <<actPc, actLoc>>
      <4>1. events \subseteq events'  BY <2>1 DEF Grows
      <4>2. QED  BY <3>1, <4>1 DEF LeadsPosted, Counting, IsLead, LeadEvent
    <3>2. CASE \E r \in ActReq : Step(r)  BY <3>2, LeadsPostedKept
    <3>3. QED  BY <3>1, <3>2, Steps DEF Writes
  <2>4. ASSUME faults' = 0 PROVE LeavesBooks \/ \E e : PostsEvent(e) \/ CountsEvent(e)
    <3>1. CASE (\E r \in LoginReq : Serve(r) \/ Die(r)) /\ UNCHANGED <<actPc, actLoc>>
      BY <2>4, <3>1, LoginBooks
    <3>2. CASE (\E r \in ActReq : Step(r)) /\ UNCHANGED <<redisVars, pc, loc>>
      BY <2>4, <3>2, ActivityBooks
    <3>3. CASE UNCHANGED <<events, daily, pc, loc, actPc, actLoc>>
      BY <3>3 DEF LeavesBooks, Uncounted, EventOf, LeadEvent, IsLead
    <3>4. Midnight => UNCHANGED <<events, daily, pc, loc>>  BY DEF Midnight, loginVars
    <3>5. \A k \in BDA \X Day : ExpireLock(k) => UNCHANGED <<events, daily, pc, loc>>
      BY DEF ExpireLock, storeVars
    <3>6. UNCHANGED vars => UNCHANGED <<events, daily, pc, loc>>
      BY DEF vars, storeVars, loginVars
    <3>7. QED  BY <3>1, <3>2, <3>3, <3>4, <3>5, <3>6, Steps DEF Writes
  <2>5. faults' = 0 => Balanced'  BY <2>2, <2>4, BalanceKept
  <2>6. QED  BY <2>3, <2>5
<1>3. BooksInv => BooksBalance  BY DEF BooksBalance, Balanced, Ledger
<1> HIDE DEF BooksInv
<1>4. QED  BY <1>1, <1>2, <1>3, WritersInvariant, PTL DEF ReportsSpec

=============================================================================
