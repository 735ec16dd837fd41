------------------------------ MODULE SumProofs ------------------------------
(***************************************************************************)
(* What the sums and the extreme elements the modules take from the        *)
(* library are, for finite sets of any size.                               *)
(*                                                                         *)
(* The provers cannot instantiate an induction theorem over a predicate,   *)
(* but they can be given a set: a statement about all finite sets is       *)
(* proved by looking at a smallest one for which it is wrong.              *)
(***************************************************************************)
EXTENDS FiniteSetsExt, FiniteSetTheorems, TLAPS

-----------------------------------------------------------------------------
(* Smallest members.                                                       *)

\* Of some subsets of a finite set, one has no other of them within it.
LEMMA SmallestSet ==
  ASSUME NEW I, IsFiniteSet(I), NEW Bad, Bad \subseteq SUBSET I, Bad # {}
  PROVE  \E s \in Bad : \A t \in Bad : t \subseteq s => t = s
<1>1. \A s \in SUBSET I : IsFiniteSet(s)
  BY FS_Subset
<1>2. Bad \subseteq FiniteSubsetsOf(I)
  BY <1>1 DEF FiniteSubsetsOf
<1>3. \E s \in Bad : \A t \in Bad : <<t, s>> \notin StrictSubsetOrdering(I)
  BY <1>2, FS_StrictSubsetOrderingWellFounded, WFMin
<1>4. QED  BY <1>1, <1>2, <1>3 DEF StrictSubsetOrdering

\* The values of a function at finitely many points are finitely many.
LEMMA ImageIsFinite ==
  ASSUME NEW I, IsFiniteSet(I), NEW f
  PROVE  IsFiniteSet({f[x] : x \in I})
<1> DEFINE T == {f[x] : x \in I}
           g == [x \in I |-> f[x]]
<1>1. g \in Surjection(I, T)  BY DEF Surjection
<1>2. QED  BY <1>1, FS_Surjection

\* A finite set of integers has a greatest element, and it is Max.
LEMMA MaxOfSet ==
  ASSUME NEW S, \A x \in S : x \in Int, IsFiniteSet(S), S # {}
  PROVE  Max(S) \in S /\ \A x \in S : x <= Max(S)
<1> DEFINE HasMax(s) == \E m \in s : \A x \in s : m >= x
           Bad == {s \in SUBSET S : s # {} /\ ~HasMax(s)}
<1>1. HasMax(S)
  <2> SUFFICES ASSUME Bad # {} PROVE FALSE  OBVIOUS
  <2>0. Bad \subseteq SUBSET S  OBVIOUS
  <2>1. PICK s \in Bad : \A t \in Bad : t \subseteq s => t = s
    <3> HIDE DEF Bad, HasMax
    <3>1. QED  BY <2>0, SmallestSet
  <2>2. PICK x \in s : TRUE  OBVIOUS
  <2>3. (\A y \in s : y \in Int) /\ s \in SUBSET S  OBVIOUS
  <2>4. s \ {x} \notin Bad /\ s \ {x} \in SUBSET S
    <3>1. s \ {x} \subseteq s /\ s \ {x} # s  BY <2>2
    <3> HIDE DEF Bad
    <3>2. QED  BY <2>1, <2>3, <3>1
  <2>5. CASE s \ {x} = {}
    BY <2>1, <2>2, <2>3, <2>5
  <2>6. CASE s \ {x} # {}
    <3>1. PICK m \in s \ {x} : \A y \in s \ {x} : m >= y
      BY <2>4, <2>6
    <3>2. HasMax(s)
      <4>1. CASE m >= x  BY <3>1, <4>1
      <4>2. CASE x >= m
        <5>1. \A y \in s : x >= y  BY <2>3, <3>1, <4>2
        <5>2. QED  BY <2>2, <5>1
      <4>3. QED  BY <2>3, <3>1, <4>1, <4>2
    <3>3. QED  BY <2>1, <3>2
  <2>7. QED  BY <2>5, <2>6
<1>2. \A x \in S : x \in Int  OBVIOUS
<1>3. QED  BY <1>1, <1>2 DEF Max

\* A set of natural numbers has a least element, and it is Min.
LEMMA MinOfNats ==
  ASSUME NEW S \in SUBSET Nat, S # {}
  PROVE  Min(S) \in S /\ \A x \in S : Min(S) <= x
<1>1. PICK n \in S : TRUE  OBVIOUS
<1>2. \E m \in S : \A x \in S : m <= x
  <2> DEFINE Low == {0 .. m : m \in {k \in S : k <= n}}
             N   == 0 .. n
  <2>1. IsFiniteSet(N)  BY <1>1, FS_Interval
  <2>2. Low \subseteq SUBSET N /\ Low # {}  BY <1>1
  <2>3. PICK s \in Low : \A t \in Low : t \subseteq s => t = s
    <3> HIDE DEF Low, N
    <3>1. QED  BY <2>1, <2>2, SmallestSet
  <2>4. PICK m \in S : m <= n /\ s = 0 .. m  BY <2>3
  <2>5. ASSUME NEW x \in S, x < m PROVE FALSE
    <3>1. 0 .. x \in Low /\ 0 .. x \subseteq s  BY <1>1, <2>4, <2>5
    <3>2. 0 .. x = 0 .. m  BY <2>3, <2>4, <3>1
    <3>3. m \in 0 .. m /\ m \notin 0 .. x  BY <2>5
    <3>4. QED  BY <3>2, <3>3
  <2>6. QED  BY <2>5
<1>3. \A x \in S : x \in Int  OBVIOUS
<1>4. QED  BY <1>2, <1>3 DEF Min

-----------------------------------------------------------------------------
(* The sum of the values of a function over a finite set, as Folds adds    *)
(* them up: element by element, in the order in which they are chosen.     *)

Pick(s) == CHOOSE x \in s : TRUE

Adds(f, g, s) == IF s = {} THEN 0 ELSE f[Pick(s)] + g[s \ {Pick(s)}]

\* g has the sums of f over the subsets of I.
Sums(f, I, g) == g = [s \in SUBSET I |-> Adds(f, g, s)]

Iter(f, I) == CHOOSE g : g = [s \in SUBSET I |-> Adds(f, g, s)]

LEMMA SumIsIter == \A f, I : SumFunctionOnSet(f, I) = Iter(f, I)[I]
BY DEF SumFunctionOnSet, FoldFunctionOnSet, MapThenFoldSet, Iter, Adds, Pick

\* There are no two sums over one set.
LEMMA SumsAgree ==
  ASSUME NEW f, NEW I, NEW J, IsFiniteSet(I), NEW g, NEW h, Sums(f, I, g), Sums(f, J, h),
         NEW v \in SUBSET I, v \in SUBSET J
  PROVE  g[v] = h[v]
<1> DEFINE Bad == {s \in SUBSET I : s \in SUBSET J /\ g[s] # h[s]}
<1> SUFFICES ASSUME Bad # {} PROVE FALSE  OBVIOUS
<1>0. Bad \subseteq SUBSET I  OBVIOUS
<1>1. PICK s \in Bad : \A t \in Bad : t \subseteq s => t = s
  <2> HIDE DEF Bad
  <2>1. QED  BY <1>0, SmallestSet
<1>2. g[s] = Adds(f, g, s) /\ h[s] = Adds(f, h, s)
  BY <1>1 DEF Sums
<1>3. CASE s = {}  BY <1>1, <1>2, <1>3 DEF Adds
<1>4. CASE s # {}
  <2>1. Pick(s) \in s  BY <1>4 DEF Pick
  <2>2. s \ {Pick(s)} \notin Bad  BY <1>1, <2>1
  <2>3. g[s \ {Pick(s)}] = h[s \ {Pick(s)}]  BY <1>1, <2>2
  <2>4. QED  BY <1>1, <1>2, <2>3 DEF Adds
<1>5. QED  BY <1>3, <1>4

\* There are sums over every finite set.
LEMMA SumsExist ==
  ASSUME NEW f, NEW I, IsFiniteSet(I)
  PROVE  \E g : Sums(f, I, g)
<1> DEFINE Bad == {s \in SUBSET I : ~\E g : Sums(f, s, g)}
<1> SUFFICES ASSUME Bad # {} PROVE FALSE  OBVIOUS
<1>0. Bad \subseteq SUBSET I  OBVIOUS
<1>1. PICK s \in Bad : \A t \in Bad : t \subseteq s => t = s
  <2> HIDE DEF Bad
  <2>1. QED  BY <1>0, SmallestSet
<1> DEFINE G(t) == CHOOSE g : Sums(f, t, g)
           h0 == [t \in SUBSET s |-> IF t = s THEN 0 ELSE G(t)[t]]
           h == [t \in SUBSET s |-> Adds(f, h0, t)]
<1>2. ASSUME NEW t \in SUBSET s, t # s PROVE Sums(f, t, G(t)) /\ IsFiniteSet(t)
  <2>1. t \notin Bad /\ t \in SUBSET I  BY <1>1, <1>2
  <2>2. \E g : Sums(f, t, g)  BY <2>1
  <2>3. IsFiniteSet(t)  BY <2>1, FS_Subset
  <2>4. QED  BY <2>2, <2>3
<1>3. ASSUME NEW t \in SUBSET s, t # s PROVE h[t] = h0[t]
  <2>1. G(t)[t] = Adds(f, G(t), t)
    <3>1. Sums(f, t, G(t))  BY <1>2, <1>3
    <3> HIDE DEF G
    <3>2. QED  BY <3>1 DEF Sums
  <2>2. CASE t = {}  BY <1>3, <2>1, <2>2 DEF Adds
  <2>3. CASE t # {}
    <3> DEFINE u == t \ {Pick(t)}
    <3>1. Pick(t) \in t  BY <2>3 DEF Pick
    <3>2. u \in SUBSET s /\ u # s /\ u \in SUBSET t  BY <3>1
    <3>3. G(t)[u] = G(u)[u]
      <4>1. Sums(f, t, G(t)) /\ IsFiniteSet(t) /\ Sums(f, u, G(u))  BY <1>2, <1>3, <3>2
      <4> HIDE DEF u, G
      <4>2. QED  BY <3>2, <4>1, SumsAgree
    <3>4. h0[u] = G(u)[u] /\ h0[t] = G(t)[t]  BY <1>3, <3>2
    <3> HIDE DEF G, h0
    <3>5. QED  BY <1>3, <2>1, <3>3, <3>4 DEF Adds
  <2>4. QED  BY <2>2, <2>3
<1>4. ASSUME NEW t \in SUBSET s PROVE Adds(f, h0, t) = Adds(f, h, t)
  <2>1. CASE t = {}  BY <2>1 DEF Adds
  <2>2. CASE t # {}
    <3>1. Pick(t) \in t  BY <2>2 DEF Pick
    <3>2. t \ {Pick(t)} \in SUBSET s /\ t \ {Pick(t)} # s  BY <3>1
    <3>3. h[t \ {Pick(t)}] = h0[t \ {Pick(t)}]  BY <1>3, <3>2
    <3> HIDE DEF h, h0
    <3>4. QED  BY <3>3 DEF Adds
  <2>3. QED  BY <2>1, <2>2
<1>5. Sums(f, s, h)
  <2>1. h = [t \in SUBSET s |-> Adds(f, h, t)]  BY <1>4
  <2> HIDE DEF h
  <2>2. QED  BY <2>1 DEF Sums
<1>6. QED  BY <1>1, <1>5

\* The sum over no element is 0, and one more element adds its value.
LEMMA SumOfChosen ==
  ASSUME NEW f, NEW I, IsFiniteSet(I)
  PROVE  /\ I = {} => SumFunctionOnSet(f, I) = 0
         /\ I # {} => /\ Pick(I) \in I
                      /\ SumFunctionOnSet(f, I)
                           = f[Pick(I)] + SumFunctionOnSet(f, I \ {Pick(I)})
<1> DEFINE J == I \ {Pick(I)}
<1>1. IsFiniteSet(J)  BY FS_RemoveElement
<1>2. Sums(f, I, Iter(f, I)) /\ Sums(f, J, Iter(f, J))
  <2>1. (\E g : Sums(f, I, g)) /\ (\E g : Sums(f, J, g))  BY <1>1, SumsExist
  <2>2. QED  BY <2>1 DEF Sums, Iter
<1>3. Iter(f, I)[I] = Adds(f, Iter(f, I), I)
  BY <1>2 DEF Sums
<1>4. Iter(f, I)[J] = Iter(f, J)[J]
  <2>1. J \in SUBSET I  OBVIOUS
  <2> HIDE DEF J
  <2>2. QED  BY <1>2, <2>1, SumsAgree
<1>5. I # {} => Pick(I) \in I  BY DEF Pick
<1>6. QED  BY <1>3, <1>4, <1>5, SumIsIter DEF Adds

-----------------------------------------------------------------------------
(* The order of the elements does not matter.                              *)

\* Integers add up to an integer.
LEMMA SumType ==
  ASSUME NEW f, NEW I, IsFiniteSet(I), \A x \in I : f[x] \in Int
  PROVE  SumFunctionOnSet(f, I) \in Int
<1> DEFINE Bad == {s \in SUBSET I : SumFunctionOnSet(f, s) \notin Int}
<1> SUFFICES ASSUME Bad # {} PROVE FALSE  OBVIOUS
<1>0. Bad \subseteq SUBSET I  OBVIOUS
<1>1. PICK s \in Bad : \A t \in Bad : t \subseteq s => t = s
  <2> HIDE DEF Bad
  <2>1. QED  BY <1>0, SmallestSet
<1>2. IsFiniteSet(s)  BY FS_Subset
<1>3. s # {}
  <2>1. SumFunctionOnSet(f, {}) = 0  BY FS_EmptySet, SumOfChosen
  <2>2. SumFunctionOnSet(f, s) \notin Int  BY <1>1
  <2>3. QED  BY <2>1, <2>2
<1> DEFINE p == Pick(s)
<1>4. p \in s /\ SumFunctionOnSet(f, s) = f[p] + SumFunctionOnSet(f, s \ {p})
  BY <1>2, <1>3, SumOfChosen
<1> HIDE DEF p
<1>5. s \ {p} \notin Bad  BY <1>1, <1>4
<1>6. SumFunctionOnSet(f, s \ {p}) \in Int /\ f[p] \in Int  BY <1>4, <1>5
<1>7. QED  BY <1>4, <1>6

\* A sum is the value of any of its elements and the sum of the others.
LEMMA SumOfAny ==
  ASSUME NEW f, NEW I, IsFiniteSet(I), \A x \in I : f[x] \in Int, NEW a \in I
  PROVE  SumFunctionOnSet(f, I) = f[a] + SumFunctionOnSet(f, I \ {a})
<1> DEFINE Sum(s) == SumFunctionOnSet(f, s)
           Splits(s) == \A x \in s : Sum(s) = f[x] + Sum(s \ {x})
           Bad == {s \in SUBSET I : ~Splits(s)}
<1> SUFFICES ASSUME Bad # {} PROVE FALSE  OBVIOUS
<1>0. Bad \subseteq SUBSET I  OBVIOUS
<1>1. PICK s \in Bad : \A t \in Bad : t \subseteq s => t = s
  <2> HIDE DEF Bad
  <2>1. QED  BY <1>0, SmallestSet
<1>2. IsFiniteSet(s) /\ s \in SUBSET I  BY FS_Subset
<1>3. PICK x \in s : Sum(s) # f[x] + Sum(s \ {x})
  BY <1>1
<1> DEFINE p == Pick(s)
<1>4. p \in s /\ Sum(s) = f[p] + Sum(s \ {p})
  BY <1>2, <1>3, SumOfChosen
<1> HIDE DEF p
<1>5. p # x  BY <1>3, <1>4
<1>6. s \ {p} \in SUBSET I /\ s \ {p} # s /\ s \ {x} \in SUBSET I /\ s \ {x} # s
  BY <1>2, <1>3, <1>4
<1>7. Splits(s \ {p}) /\ Splits(s \ {x})
  <2> HIDE DEF Splits
  <2>1. s \ {p} \notin Bad /\ s \ {x} \notin Bad
    <3>1. s \ {p} \subseteq s /\ s \ {x} \subseteq s  OBVIOUS
    <3> HIDE DEF Bad
    <3>2. QED  BY <1>1, <1>6, <3>1
  <2>2. QED  BY <1>6, <2>1
<1> DEFINE r == (s \ {p}) \ {x}
<1>8. r = (s \ {x}) \ {p} /\ r \in SUBSET I /\ IsFiniteSet(r)
  BY <1>2, FS_Subset
<1>9. Sum(s \ {p}) = f[x] + Sum(r) /\ Sum(s \ {x}) = f[p] + Sum(r)
  BY <1>3, <1>4, <1>5, <1>7, <1>8
<1>10. Sum(r) \in Int  BY <1>8, SumType
<1>11. f[x] \in Int /\ f[p] \in Int  BY <1>2, <1>3, <1>4
<1> HIDE DEF Sum, r
<1>12. QED  BY <1>3, <1>4, <1>9, <1>10, <1>11

\* Over no element and over one.
LEMMA SumOfFew ==
  ASSUME NEW f
  PROVE  /\ SumFunctionOnSet(f, {}) = 0
         /\ \A a : f[a] \in Int => SumFunctionOnSet(f, {a}) = f[a]
<1>1. SumFunctionOnSet(f, {}) = 0
  BY FS_EmptySet, SumOfChosen
<1>2. ASSUME NEW a, f[a] \in Int PROVE SumFunctionOnSet(f, {a}) = f[a]
  <2>1. IsFiniteSet({a}) /\ a \in {a} /\ \A x \in {a} : f[x] \in Int
    BY <1>2, FS_Singleton
  <2>2. SumFunctionOnSet(f, {a}) = f[a] + SumFunctionOnSet(f, {a} \ {a})
    BY <2>1, SumOfAny
  <2>3. {a} \ {a} = {}  OBVIOUS
  <2>4. QED  BY <1>1, <1>2, <2>2, <2>3
<1>3. QED  BY <1>1, <1>2

-----------------------------------------------------------------------------
(* Comparing sums.                                                         *)

\* A sum over more elements of larger values is larger, if what is more is not negative.
LEMMA SumGrows ==
  ASSUME NEW f, NEW g, NEW I, NEW J, IsFiniteSet(J), I \subseteq J,
         \A x \in I : f[x] \in Int /\ f[x] <= g[x],
         \A x \in J : g[x] \in Int /\ (x \notin I => g[x] >= 0)
  PROVE  SumFunctionOnSet(f, I) <= SumFunctionOnSet(g, J)
<1> DEFINE F(s) == SumFunctionOnSet(f, s \cap I)
           G(s) == SumFunctionOnSet(g, s)
           Bad == {s \in SUBSET J : ~(F(s) <= G(s))}
<1>a. J \cap I = I  OBVIOUS
<1> SUFFICES ASSUME Bad # {} PROVE FALSE  BY <1>a
<1>0. Bad \subseteq SUBSET J  OBVIOUS
<1>1. PICK s \in Bad : \A t \in Bad : t \subseteq s => t = s
  <2> HIDE DEF Bad
  <2>1. QED  BY <1>0, SmallestSet
<1>2. /\ IsFiniteSet(s) /\ s \in SUBSET J
      /\ IsFiniteSet(s \cap I) /\ s \cap I \subseteq s
  BY FS_Subset
<1>3. F(s) \in Int /\ G(s) \in Int
  BY <1>2, SumType
<1>4. CASE s = {}
  <2>1. s \cap I = {}  BY <1>4
  <2>2. F(s) = 0 /\ G(s) = 0  BY <1>4, <2>1, SumOfFew
  <2>3. QED  BY <1>1, <2>2
<1>5. CASE s # {}
  <2>1. PICK x \in s : TRUE  BY <1>5
  <2> DEFINE t == s \ {x}
  <2>2. IsFiniteSet(t) /\ t \in SUBSET J /\ IsFiniteSet(t \cap I)
    BY <1>2, FS_Subset
  <2>3. F(t) \in Int /\ G(t) \in Int
    BY <2>2, SumType
  <2>4. F(t) <= G(t)
    <3>1. t \subseteq s /\ t # s  BY <2>1
    <3> HIDE DEF F, G
    <3>2. t \notin Bad
      <4> HIDE DEF Bad
      <4>1. QED  BY <1>1, <3>1
    <3>3. QED  BY <2>2, <3>2
  <2>5. G(s) = g[x] + G(t)
    <3>1. \A y \in s : g[y] \in Int  BY <1>2
    <3>2. QED  BY <1>2, <2>1, <3>1, SumOfAny
  <2>6. CASE x \in I
    <3>1. x \in s \cap I /\ (s \cap I) \ {x} = t \cap I  BY <2>1, <2>6
    <3>2. \A y \in s \cap I : f[y] \in Int  OBVIOUS
    <3>3. F(s) = f[x] + F(t)
      BY <1>2, <3>1, <3>2, SumOfAny
    <3>4. f[x] \in Int /\ g[x] \in Int /\ f[x] <= g[x]  BY <1>2, <2>1, <2>6
    <3> HIDE DEF F, G, t
    <3>5. F(s) <= G(s)  BY <2>3, <2>4, <2>5, <3>3, <3>4
    <3>6. QED  BY <1>1, <3>5
  <2>7. CASE x \notin I
    <3>1. s \cap I = t \cap I  BY <2>7
    <3>2. F(s) = F(t)  BY <3>1
    <3>3. g[x] \in Int /\ g[x] >= 0  BY <1>2, <2>1, <2>7
    <3> HIDE DEF F, G, t
    <3>4. F(s) <= G(s)  BY <2>3, <2>4, <2>5, <3>2, <3>3
    <3>5. QED  BY <1>1, <3>4
  <2>8. QED  BY <2>6, <2>7
<1>6. QED  BY <1>4, <1>5

\* Counts add up to a count.
LEMMA SumOfNats ==
  ASSUME NEW f, NEW I, IsFiniteSet(I), \A x \in I : f[x] \in Nat
  PROVE  SumFunctionOnSet(f, I) \in Nat
<1>1. SumFunctionOnSet(f, {}) = 0  BY SumOfFew
<1>2. SumFunctionOnSet(f, {}) <= SumFunctionOnSet(f, I)
  <2>1. \A x \in I : f[x] \in Int /\ f[x] >= 0  OBVIOUS
  <2>2. QED  BY <2>1, SumGrows
<1>3. SumFunctionOnSet(f, I) \in Int
  <2>1. \A x \in I : f[x] \in Int  OBVIOUS
  <2>2. QED  BY <2>1, SumType
<1>4. QED  BY <1>1, <1>2, <1>3

\* Equal values have equal sums.
LEMMA SumIsSame ==
  ASSUME NEW f, NEW g, NEW I, IsFiniteSet(I), \A x \in I : f[x] \in Int /\ f[x] = g[x]
  PROVE  SumFunctionOnSet(f, I) = SumFunctionOnSet(g, I)
<1>1. \A x \in I : f[x] <= g[x] /\ g[x] <= f[x] /\ g[x] \in Int /\ f[x] \in Int
  OBVIOUS
<1>2. SumFunctionOnSet(f, I) <= SumFunctionOnSet(g, I)
  BY <1>1, SumGrows
<1>3. SumFunctionOnSet(g, I) <= SumFunctionOnSet(f, I)
  BY <1>1, SumGrows
<1>4. SumFunctionOnSet(f, I) \in Int /\ SumFunctionOnSet(g, I) \in Int
  BY <1>1, SumType
<1>5. QED  BY <1>2, <1>3, <1>4

\* One more element, or another value of one, changes a sum by that value.
LEMMA SumMoves ==
  ASSUME NEW f, NEW g, NEW I, IsFiniteSet(I), NEW a,
         \A x \in I \ {a} : f[x] \in Int /\ g[x] = f[x],
         a \in I => f[a] \in Int, g[a] \in Int
  PROVE  SumFunctionOnSet(g, I \cup {a})
           = SumFunctionOnSet(f, I) + g[a] - (IF a \in I THEN f[a] ELSE 0)
<1> DEFINE R == I \ {a}
           J == I \cup {a}
<1>1. IsFiniteSet(R) /\ IsFiniteSet(J)
  BY FS_RemoveElement, FS_AddElement
<1>2. SumFunctionOnSet(g, R) = SumFunctionOnSet(f, R) /\ SumFunctionOnSet(f, R) \in Int
  BY <1>1, SumIsSame, SumType
<1>3. SumFunctionOnSet(g, J) = g[a] + SumFunctionOnSet(g, R)
  <2>1. (\A x \in J : g[x] \in Int) /\ a \in J /\ J \ {a} = R  OBVIOUS
  <2> HIDE DEF J, R
  <2>2. QED  BY <1>1, <2>1, SumOfAny
<1>4. SumFunctionOnSet(f, I) = (IF a \in I THEN f[a] ELSE 0) + SumFunctionOnSet(f, R)
  <2>1. CASE a \in I
    <3>1. \A x \in I : f[x] \in Int  BY <2>1
    <3>2. QED  BY <2>1, <3>1, SumOfAny
  <2>2. CASE a \notin I
    <3>1. SumFunctionOnSet(f, I) = SumFunctionOnSet(f, R)
      <4>1. R = I  BY <2>2
      <4>2. QED  BY <4>1
    <3> HIDE DEF R
    <3>2. (IF a \in I THEN f[a] ELSE 0) = 0  BY <2>2
    <3>3. QED  BY <1>2, <3>1, <3>2
  <2>3. QED  BY <2>1, <2>2
<1> HIDE DEF R
<1>5. (IF a \in I THEN f[a] ELSE 0) \in Int  OBVIOUS
<1>6. QED  BY <1>2, <1>3, <1>4, <1>5

\* The sum of differences is the difference of the sums.
LEMMA SumDifference ==
  ASSUME NEW f, NEW g, NEW h, NEW I, IsFiniteSet(I),
         \A x \in I : f[x] \in Int /\ g[x] \in Int /\ h[x] = f[x] - g[x]
  PROVE  SumFunctionOnSet(h, I) = SumFunctionOnSet(f, I) - SumFunctionOnSet(g, I)
<1> DEFINE F(s) == SumFunctionOnSet(f, s)
           G(s) == SumFunctionOnSet(g, s)
           H(s) == SumFunctionOnSet(h, s)
           Bad == {s \in SUBSET I : H(s) # F(s) - G(s)}
<1> SUFFICES ASSUME Bad # {} PROVE FALSE  OBVIOUS
<1>0. Bad \subseteq SUBSET I  OBVIOUS
<1>1. PICK s \in Bad : \A t \in Bad : t \subseteq s => t = s
  <2> HIDE DEF Bad
  <2>1. QED  BY <1>0, SmallestSet
<1>2. IsFiniteSet(s) /\ s \in SUBSET I  BY FS_Subset
<1>3. s # {}
  <2>1. F({}) = 0 /\ G({}) = 0 /\ H({}) = 0  BY SumOfFew
  <2>2. H(s) # F(s) - G(s)  BY <1>1
  <2>3. 0 - 0 = 0  OBVIOUS
  <2> HIDE DEF F, G, H
  <2>4. H({}) = F({}) - G({})  BY <2>1, <2>3
  <2>5. QED  BY <2>2, <2>4
<1>4. PICK x \in s : TRUE  BY <1>3
<1> DEFINE t == s \ {x}
<1>5. IsFiniteSet(t) /\ t \in SUBSET I  BY <1>2, FS_Subset
<1>6. H(t) = F(t) - G(t)
  <2>1. t \subseteq s /\ t # s  BY <1>4
  <2> HIDE DEF F, G, H
  <2>2. t \notin Bad
    <3> HIDE DEF Bad
    <3>1. QED  BY <1>1, <2>1
  <2>3. QED  BY <1>5, <2>2
<1>7. F(t) \in Int /\ G(t) \in Int
  BY <1>5, SumType
<1>8. \A y \in s : f[y] \in Int /\ g[y] \in Int /\ h[y] \in Int  BY <1>2
<1>9. F(s) = f[x] + F(t) /\ G(s) = g[x] + G(t) /\ H(s) = h[x] + H(t)
  BY <1>2, <1>8, SumOfAny
<1>10. f[x] \in Int /\ g[x] \in Int /\ h[x] = f[x] - g[x]  BY <1>2
<1>11. H(s) # F(s) - G(s)  BY <1>1
<1> HIDE DEF F, G, H, t
<1>12. QED  BY <1>6, <1>7, <1>9, <1>10, <1>11

\* Nothing adds up to nothing.
LEMMA SumOfZeros ==
  ASSUME NEW f, NEW I, IsFiniteSet(I), \A x \in I : f[x] = 0
  PROVE  SumFunctionOnSet(f, I) = 0
<1>1. \A x \in I : f[x] \in Int /\ f[x] \in Int /\ f[x] = f[x] - f[x]  OBVIOUS
<1>2. SumFunctionOnSet(f, I) = SumFunctionOnSet(f, I) - SumFunctionOnSet(f, I)
  BY <1>1, SumDifference
<1>3. SumFunctionOnSet(f, I) \in Int  BY <1>1, SumType
<1>4. QED  BY <1>2, <1>3

\* A sum over the elements is a sum over the names they are given, one name each.
LEMMA SumReindex ==
  ASSUME NEW f, NEW g, NEW name, NEW I, IsFiniteSet(I),
         \A x \in I : f[x] \in Int /\ g[name[x]] = f[x],
         \A x \in I : \A y \in I : name[x] = name[y] => x = y
  PROVE  SumFunctionOnSet(g, {name[x] : x \in I}) = SumFunctionOnSet(f, I)
<1> DEFINE N(s) == {name[x] : x \in s}
           F(s) == SumFunctionOnSet(f, s)
           G(s) == SumFunctionOnSet(g, s)
           Bad == {s \in SUBSET I : G(N(s)) # F(s)}
<1> SUFFICES ASSUME Bad # {} PROVE FALSE  OBVIOUS
<1>0. Bad \subseteq SUBSET I  OBVIOUS
<1>1. PICK s \in Bad : \A t \in Bad : t \subseteq s => t = s
  <2> HIDE DEF Bad
  <2>1. QED  BY <1>0, SmallestSet
<1>2. IsFiniteSet(s) /\ s \in SUBSET I  BY FS_Subset
<1>3. s # {}
  <2>1. F({}) = 0 /\ G({}) = 0 /\ N({}) = {}  BY SumOfFew
  <2>2. G(N(s)) # F(s)  BY <1>1
  <2> HIDE DEF F, G, N
  <2>3. QED  BY <2>1, <2>2
<1>4. PICK x \in s : TRUE  BY <1>3
<1> DEFINE t == s \ {x}
<1>5. IsFiniteSet(t) /\ t \in SUBSET I  BY <1>2, FS_Subset
<1>6. G(N(t)) = F(t)
  <2>1. t \subseteq s /\ t # s  BY <1>4
  <2> HIDE DEF F, G, N
  <2>2. t \notin Bad
    <3> HIDE DEF Bad
    <3>1. QED  BY <1>1, <2>1
  <2>3. QED  BY <1>5, <2>2
<1>7. IsFiniteSet(N(s)) /\ \A n \in N(s) : g[n] \in Int
  <2>1. IsFiniteSet(N(s))  BY <1>2, ImageIsFinite
  <2>2. \A n \in N(s) : g[n] \in Int  BY <1>2
  <2>3. QED  BY <2>1, <2>2
<1>8. name[x] \in N(s) /\ N(s) \ {name[x]} = N(t)
  BY <1>2, <1>4
<1>9. F(s) = f[x] + F(t)
  <2>1. \A y \in s : f[y] \in Int  BY <1>2
  <2>2. QED  BY <1>2, <2>1, SumOfAny
<1>10. G(N(s)) = g[name[x]] + G(N(t))
  <2> HIDE DEF N, t
  <2>1. G(N(s)) = g[name[x]] + G(N(s) \ {name[x]})  BY <1>7, <1>8, SumOfAny
  <2>2. QED  BY <1>8, <2>1
<1>11. g[name[x]] = f[x]  BY <1>2
<1>12. G(N(s)) # F(s)  BY <1>1
<1> HIDE DEF F, G, N, t
<1>13. QED  BY <1>6, <1>9, <1>10, <1>11, <1>12

-----------------------------------------------------------------------------
(* Taking sums apart.                                                      *)

\* The sum over two sets without an element in common.
LEMMA SumOfUnion ==
  ASSUME NEW f, NEW I, NEW J, IsFiniteSet(I), IsFiniteSet(J), I \cap J = {},
         \A x \in I \cup J : f[x] \in Int
  PROVE  SumFunctionOnSet(f, I \cup J) = SumFunctionOnSet(f, I) + SumFunctionOnSet(f, J)
<1> DEFINE U(s) == SumFunctionOnSet(f, I \cup s)
           F(s) == SumFunctionOnSet(f, s)
           Bad == {s \in SUBSET J : U(s) # F(I) + F(s)}
<1> SUFFICES ASSUME Bad # {} PROVE FALSE  OBVIOUS
<1>0. Bad \subseteq SUBSET J  OBVIOUS
<1>1. PICK s \in Bad : \A t \in Bad : t \subseteq s => t = s
  <2> HIDE DEF Bad
  <2>1. QED  BY <1>0, SmallestSet
<1>2. IsFiniteSet(s) /\ s \in SUBSET J /\ IsFiniteSet(I \cup s)
  BY FS_Subset, FS_Union
<1>a. F(I) \in Int  BY SumType
<1>b. U(s) # F(I) + F(s)  BY <1>1
<1>3. s # {}
  <2>1. F({}) = 0 /\ I \cup {} = I  BY SumOfFew
  <2>2. U({}) = F(I) + F({})  BY <1>a, <2>1
  <2> HIDE DEF F, U
  <2>3. QED  BY <1>b, <2>2
<1>4. PICK x \in s : TRUE  BY <1>3
<1> DEFINE t == s \ {x}
<1>5. IsFiniteSet(t) /\ t \in SUBSET J  BY <1>2, FS_Subset
<1>6. U(t) = F(I) + F(t)
  <2>1. t \subseteq s /\ t # s  BY <1>4
  <2> HIDE DEF F, U
  <2>2. t \notin Bad
    <3> HIDE DEF Bad
    <3>1. QED  BY <1>1, <2>1
  <2>3. QED  BY <1>5, <2>2
<1>7. F(t) \in Int /\ f[x] \in Int
  BY <1>2, <1>5, SumType
<1>8. F(s) = f[x] + F(t)
  <2>1. \A y \in s : f[y] \in Int  BY <1>2
  <2>2. QED  BY <1>2, <2>1, SumOfAny
<1>9. U(s) = f[x] + U(t)
  <2>1. \A y \in I \cup s : f[y] \in Int  BY <1>2
  <2>2. x \in I \cup s /\ (I \cup s) \ {x} = I \cup t  BY <1>2
  <2>3. QED  BY <1>2, <2>1, <2>2, SumOfAny
<1> HIDE DEF F, U, t
<1>10. QED  BY <1>6, <1>7, <1>8, <1>9, <1>a, <1>b

\* The elements of one group, and of some.
GroupOf(group, I, b) == {x \in I : group[x] = b}
GroupsOf(group, I, s) == {x \in I : group[x] \in s}

\* The sum of the sums of groups is the sum over all that are in a group.
LEMMA SumOfGroups ==
  ASSUME NEW f, NEW group, NEW total, NEW I, NEW B, IsFiniteSet(I), IsFiniteSet(B),
         \A x \in I : f[x] \in Int,
         \A b \in B : total[b] = SumFunctionOnSet(f, GroupOf(group, I, b))
  PROVE  SumFunctionOnSet(total, B) = SumFunctionOnSet(f, GroupsOf(group, I, B))
<1> DEFINE Of(s) == GroupsOf(group, I, s)
           F(s) == SumFunctionOnSet(f, Of(s))
           T(s) == SumFunctionOnSet(total, s)
           Bad == {s \in SUBSET B : T(s) # F(s)}
<1> SUFFICES ASSUME Bad # {} PROVE FALSE  OBVIOUS
<1>0. Bad \subseteq SUBSET B  OBVIOUS
<1>1. PICK s \in Bad : \A t \in Bad : t \subseteq s => t = s
  <2> HIDE DEF Bad
  <2>1. QED  BY <1>0, SmallestSet
<1>2. IsFiniteSet(s) /\ s \in SUBSET B  BY FS_Subset
<1>b. T(s) # F(s)  BY <1>1
<1>3. s # {}
  <2>1. T({}) = 0 /\ Of({}) = {}  BY SumOfFew DEF GroupsOf
  <2>2. T({}) = F({})  BY <2>1, SumOfFew
  <2> HIDE DEF F, T
  <2>3. QED  BY <1>b, <2>2
<1>4. PICK b \in s : TRUE  BY <1>3
<1> DEFINE t == s \ {b}
           G == GroupOf(group, I, b)
<1>5. IsFiniteSet(t) /\ t \in SUBSET B  BY <1>2, FS_Subset
<1>6. T(t) = F(t)
  <2>1. t \subseteq s /\ t # s  BY <1>4
  <2> HIDE DEF F, T
  <2>2. t \notin Bad
    <3> HIDE DEF Bad
    <3>1. QED  BY <1>1, <2>1
  <2>3. QED  BY <1>5, <2>2
<1>7. \A c \in B : total[c] \in Int
  <2>1. ASSUME NEW c \in B PROVE total[c] \in Int
    <3> DEFINE C == GroupOf(group, I, c)
    <3>1. IsFiniteSet(C) /\ \A x \in C : f[x] \in Int  BY FS_Subset DEF GroupOf
    <3>2. total[c] = SumFunctionOnSet(f, C)  OBVIOUS
    <3> HIDE DEF C
    <3>3. QED  BY <3>1, <3>2, SumType
  <2>2. QED  BY <2>1
<1>8. T(s) = total[b] + T(t)
  <2>1. \A c \in s : total[c] \in Int  BY <1>2, <1>7
  <2>2. QED  BY <1>2, <2>1, SumOfAny
<1>9. F(s) = SumFunctionOnSet(f, G) + F(t)
  <2>1. /\ IsFiniteSet(Of(t)) /\ IsFiniteSet(G) /\ G \cap Of(t) = {}
        /\ Of(s) = G \cup Of(t) /\ \A x \in G \cup Of(t) : f[x] \in Int
    BY <1>2, <1>4, FS_Subset DEF GroupOf, GroupsOf
  <2> DEFINE R == Of(t)
  <2>2. IsFiniteSet(R) /\ Of(s) = G \cup R  BY <2>1
  <2>3. G \cap R = {} /\ \A x \in G \cup R : f[x] \in Int  BY <2>1
  <2>4. IsFiniteSet(G)  BY <2>1
  <2> HIDE DEF G, R
  <2>5. SumFunctionOnSet(f, G \cup R) = SumFunctionOnSet(f, G) + SumFunctionOnSet(f, R)
    BY <2>2, <2>3, <2>4, SumOfUnion
  <2> HIDE DEF Of
  <2>6. QED  BY <2>2, <2>5 DEF R
<1>10. total[b] = SumFunctionOnSet(f, G) /\ total[b] \in Int
  BY <1>2, <1>7
<1>11. QED  BY <1>6, <1>8, <1>9, <1>10, <1>b

=============================================================================
