---------------------------- MODULE PeriodsProofs ----------------------------
(***************************************************************************)
(* Proofs about Periods: for every table and every question the periods    *)
(* compared, the ranking and the claim about the window are as stated.     *)
(***************************************************************************)
EXTENDS PeriodsInv, FiniteSetTheorems, WellFoundedInduction, TLAPS

-----------------------------------------------------------------------------
(* Finite sets. *)

\* A set of numbers that is not empty has a least one.
LEMMA LeastNumber ==
    ASSUME NEW S, S \subseteq Nat, S # {}
    PROVE  \E n \in S : \A m \in S : n <= m
<1> DEFINE Before == {p \in Nat \X Nat : p[1] < p[2]}
<1>1. IsWellFoundedOn(Before, Nat)
  BY NatLessThanWellFounded DEF OpToRel
<1>2. PICK n \in S : \A m \in S : <<m, n>> \notin Before
  BY <1>1, WFMin
<1>3. \A m \in S : ~(m < n) /\ m \in Nat /\ n \in Nat
  BY <1>2
<1>4. QED
  BY <1>3

\* Of some subsets of a finite set one has none of the others within it.
LEMMA LeastSubset ==
    ASSUME NEW S, IsFiniteSet(S), NEW T, T \subseteq SUBSET S, T # {}
    PROVE  \E R \in T : \A Q \in T : Q \subseteq R => Q = R
<1>1. IsWellFoundedOn(StrictSubsetOrdering(S), SUBSET S)
  BY FS_StrictSubsetOrderingWellFounded, FS_FiniteSubsetsOfFinite
<1>2. PICK R \in T : \A Q \in T : <<Q, R>> \notin StrictSubsetOrdering(S)
  BY <1>1, WFMin
<1>3. QED
  BY <1>2 DEF StrictSubsetOrdering

\* The elements of a set that come after one of it in some order.
After(order, S, x) == {n \in S : <<x, n>> \in order}

LEMMA LeastAfter ==
    ASSUME NEW S, IsFiniteSet(S), S # {}, NEW order
    PROVE  \E x \in S : \A n \in S :
               After(order, S, n) \subseteq After(order, S, x) => After(order, S, n) = After(order, S, x)
<1> DEFINE all == {After(order, S, x) : x \in S}
<1>1. all \subseteq SUBSET S /\ all # {}
  BY DEF After
<1>2. PICK r \in all : \A q \in all : q \subseteq r => q = r
  <2> HIDE DEF all
  <2>1. QED
    BY <1>1, LeastSubset
<1>3. PICK x \in S : r = After(order, S, x)
  BY <1>2
<1>4. ASSUME NEW n \in S, After(order, S, n) \subseteq After(order, S, x)
      PROVE  After(order, S, n) = After(order, S, x)
  <2>1. After(order, S, n) \in all
    OBVIOUS
  <2> HIDE DEF all
  <2>2. QED
    BY <1>2, <1>3, <1>4, <2>1
<1>5. QED
  BY <1>4

\* A finite set of numbers that is not empty has a greatest and a least one.
LEMMA MaxFacts ==
    ASSUME NEW S, IsFiniteSet(S), S # {}, \A n \in S : n \in Int
    PROVE  Max(S) \in S /\ \A n \in S : n <= Max(S)
<1> DEFINE order == {p \in Int \X Int : p[1] <= p[2]}
<1>1. PICK x \in S : \A n \in S : After(order, S, n) \subseteq After(order, S, x)
                                  => After(order, S, n) = After(order, S, x)
  <2> HIDE DEF order
  <2>1. QED
    BY LeastAfter
<1>2. ASSUME NEW n \in S PROVE n <= x
  <2>1. n \in Int /\ x \in Int
    OBVIOUS
  <2> SUFFICES ASSUME x <= n PROVE n <= x
    BY <2>1
  <2>2. \A m \in S : <<n, m>> \in order => <<x, m>> \in order
    BY <2>1
  <2>3. After(order, S, n) = After(order, S, x)
    BY <1>1, <2>2 DEF After
  <2>4. x \in After(order, S, x)
    BY <2>1 DEF After
  <2>5. <<n, x>> \in order
    BY <2>3, <2>4 DEF After
  <2>6. QED
    BY <2>5
<1>3. \E m \in S : \A n \in S : m >= n
  BY <1>2
<1>4. QED
  BY <1>3 DEF Max

LEMMA MinFacts ==
    ASSUME NEW S, IsFiniteSet(S), S # {}, \A n \in S : n \in Int
    PROVE  Min(S) \in S /\ \A n \in S : Min(S) <= n
<1> DEFINE order == {p \in Int \X Int : p[1] >= p[2]}
<1>1. PICK x \in S : \A n \in S : After(order, S, n) \subseteq After(order, S, x)
                                  => After(order, S, n) = After(order, S, x)
  <2> HIDE DEF order
  <2>1. QED
    BY LeastAfter
<1>2. ASSUME NEW n \in S PROVE n >= x
  <2>1. n \in Int /\ x \in Int
    OBVIOUS
  <2> SUFFICES ASSUME x >= n PROVE n >= x
    BY <2>1
  <2>2. \A m \in S : <<n, m>> \in order => <<x, m>> \in order
    BY <2>1
  <2>3. After(order, S, n) = After(order, S, x)
    BY <1>1, <2>2 DEF After
  <2>4. x \in After(order, S, x)
    BY <2>1 DEF After
  <2>5. <<n, x>> \in order
    BY <2>3, <2>4 DEF After
  <2>6. QED
    BY <2>5
<1>3. \E m \in S : \A n \in S : m <= n
  BY <1>2
<1>4. QED
  BY <1>3 DEF Min

-----------------------------------------------------------------------------
(* Sums. *)

Pick(s) == CHOOSE x \in s : TRUE

\* The sum over a set s whose subsets' sums are f.
SumBy(f, s) == IF s = {} THEN 0 ELSE Pick(s).value + f[s \ {Pick(s)}]

\* How Sum is defined: by a function of the subsets, if there is one.
LEMMA SumDef == \A S : Sum(S) = (CHOOSE f : f = [s \in SUBSET S |-> SumBy(f, s)])[S]
  BY DEF Sum, MapThenSumSet, MapThenFoldSet, Pick, SumBy

\* There is one, as there is one for the subsets up to any size.
LEMMA SumExists ==
    ASSUME NEW S, IsFiniteSet(S)
    PROVE  \E f : f = [s \in SUBSET S |-> SumBy(f, s)]
<1> DEFINE UpTo(n) == {s \in SUBSET S : Cardinality(s) <= n}
           Sums(n) == \E f : f = [s \in UpTo(n) |-> SumBy(f, s)]
           Bad == {n \in Nat : ~Sums(n)}
<1>1. \A s \in SUBSET S : IsFiniteSet(s) /\ Cardinality(s) \in Nat /\ s \in UpTo(Cardinality(S))
  BY FS_Subset, FS_CardinalityType
<1>2. Bad = {}
  <2> SUFFICES ASSUME Bad # {} PROVE FALSE
    OBVIOUS
  <2>1. PICK n \in Bad : \A m \in Bad : n <= m
    <3>1. Bad \subseteq Nat
      OBVIOUS
    <3> HIDE DEF Bad
    <3>2. QED
      BY <3>1, LeastNumber
  <2>2. CASE n = 0
    <3>1. UpTo(0) = {{}}
      BY <1>1, FS_EmptySet
    <3> DEFINE g == [s \in UpTo(0) |-> 0]
    <3>2. g = [s \in UpTo(0) |-> SumBy(g, s)]
      BY <3>1 DEF SumBy
    <3>3. QED
      BY <2>1, <2>2, <3>2
  <2>3. CASE n # 0
    <3>1. n - 1 \in Nat /\ Sums(n - 1)
      <4>1. n \in Nat /\ n - 1 \in Nat /\ ~(n <= n - 1)
        BY <2>3
      <4>2. n - 1 \notin Bad
        <5> HIDE DEF Bad
        <5>1. QED
          BY <2>1, <4>1
      <4>3. QED
        BY <4>1, <4>2
    <3>2. PICK f : f = [s \in UpTo(n - 1) |-> SumBy(f, s)]
      BY <3>1
    <3> DEFINE g == [s \in UpTo(n) |-> SumBy(f, s)]
    <3>3. ASSUME NEW s \in UpTo(n), s # {} PROVE SumBy(f, s) = SumBy(g, s)
      <4> DEFINE t == s \ {Pick(s)}
      <4>1. Pick(s) \in s
        BY <3>3 DEF Pick
      <4>2. t \in UpTo(n - 1) /\ t \in UpTo(n)
        <5>1. t \in SUBSET S /\ Cardinality(t) = Cardinality(s) - 1
          BY <1>1, <4>1, FS_RemoveElement
        <5>2. QED
          BY <1>1, <2>1, <5>1
      <4>3. f[t] = g[t]
        BY <3>2, <4>2
      <4>4. QED
        BY <3>3, <4>3 DEF SumBy
    <3>4. \A s \in UpTo(n) : SumBy(f, s) = SumBy(g, s)
      BY <3>3 DEF SumBy
    <3>5. g = [s \in UpTo(n) |-> SumBy(g, s)]
      BY <3>4
    <3>6. QED
      BY <2>1, <3>5
  <2>4. QED
    BY <2>2, <2>3
<1>3. Cardinality(S) \in Nat /\ UpTo(Cardinality(S)) = SUBSET S
  BY <1>1
<1>4. Sums(Cardinality(S))
  BY <1>2, <1>3
<1>5. QED
  BY <1>3, <1>4

\* The sum of a finite set of numbers is a number.
LEMMA SumType ==
    ASSUME NEW S, IsFiniteSet(S), \A r \in S : r.value \in Int
    PROVE  Sum(S) \in Int
<1> DEFINE f == CHOOSE f : f = [s \in SUBSET S |-> SumBy(f, s)]
           Bad == {s \in SUBSET S : f[s] \notin Int}
<1>1. f = [s \in SUBSET S |-> SumBy(f, s)]
  BY SumExists
<1>2. Sum(S) = f[S]
  BY SumDef
<1> HIDE DEF f
<1>3. Bad = {}
  <2> SUFFICES ASSUME Bad # {} PROVE FALSE
    OBVIOUS
  <2>1. PICK s \in Bad : \A t \in Bad : t \subseteq s => t = s
    <3>1. Bad \subseteq SUBSET S
      OBVIOUS
    <3> HIDE DEF Bad
    <3>2. QED
      BY <3>1, LeastSubset
  <2>2. s # {}
    BY <1>1, <2>1 DEF SumBy
  <2>3. Pick(s) \in s
    BY <2>2 DEF Pick
  <2>4. s \ {Pick(s)} \in SUBSET S /\ s \ {Pick(s)} \notin Bad
    BY <2>1, <2>3
  <2>5. f[s] = Pick(s).value + f[s \ {Pick(s)}]
    BY <1>1, <2>1, <2>2 DEF SumBy
  <2>6. Pick(s).value \in Int
    BY <2>1, <2>3
  <2>7. QED
    BY <2>1, <2>4, <2>5, <2>6
<1>4. QED
  BY <1>2, <1>3

-----------------------------------------------------------------------------
(* Periods. *)

LEMMA DivFacts ==
    ASSUME NEW l \in Nat \ {0}, NEW x \in Int
    PROVE  /\ x \div l \in Int
           /\ (x \div l) * l <= x /\ x < (x \div l) * l + l
           /\ \A y \in Int : x <= y => x \div l <= y \div l
  OBVIOUS

\* The quotient is the only number with these bounds.
LEMMA DivUnique ==
    ASSUME NEW l \in Nat \ {0}, NEW x \in Int, NEW q \in Int, q * l <= x, x < q * l + l
    PROVE  x \div l = q
  OBVIOUS

LEMMA PeriodFacts ==
    ASSUME NEW g \in Grains, NEW x \in Int
    PROVE  /\ Period(g, x) \in Int
           /\ \A y \in Int : x <= y => Period(g, x) <= Period(g, y)
  BY PeriodsAssumption, DivFacts DEF Period

\* Times of one period are of one coarser period that is made of such ones.
LEMMA CoarserPeriod ==
    ASSUME NEW g \in Grains, NEW h \in Grains, Length[h] % Length[g] = 0,
           NEW x \in Int, NEW y \in Int, Period(g, x) = Period(g, y)
    PROVE  Period(h, x) = Period(h, y)
<1> DEFINE l == Length[g]
           m == Length[h]
           k == m \div l
           q == x \div l
           a == q \div k
<1>1. l \in Nat \ {0} /\ m \in Nat \ {0} /\ m % l = 0
  BY PeriodsAssumption
<1>2. q \in Int /\ q = y \div l
  BY <1>1, DivFacts DEF Period
<1>3. k \in Nat \ {0} /\ m = k * l
  <2> HIDE DEF l, m
  <2>1. QED
    BY <1>1
<1>4. a \in Int /\ a * k <= q /\ q + 1 <= a * k + k
  <2> HIDE DEF k, q
  <2>1. QED
    BY <1>2, <1>3, DivFacts
<1>5. ASSUME NEW z \in Int, z \div l = q PROVE z \div m = a
  <2>1. q * l <= z /\ z < (q + 1) * l
    <3> HIDE DEF l, q
    <3>1. QED
      BY <1>1, <1>2, <1>5, DivFacts
  <2>2. (a * k) * l <= q * l /\ (q + 1) * l <= (a * k + k) * l
    <3> HIDE DEF l, k, q, a
    <3>1. QED
      BY <1>1, <1>2, <1>3, <1>4
  <2>3. a * m = (a * k) * l /\ a * m + m = (a * k + k) * l
    <3> HIDE DEF l, m, k, q, a
    <3>1. QED
      BY <1>1, <1>3, <1>4
  <2> HIDE DEF l, m, k, q, a
  <2>4. a * m <= z /\ z < a * m + m
    BY <1>1, <1>2, <1>3, <1>4, <2>1, <2>2, <2>3
  <2>5. QED
    BY <1>1, <1>4, <2>4, DivUnique
<1>6. x \div m = a /\ y \div m = a
  <2> HIDE DEF m, a
  <2>1. QED
    BY <1>2, <1>5
<1>7. QED
  BY <1>6 DEF Period

-----------------------------------------------------------------------------
(* The rows of a question. *)

\* The values of a function on a finite set are finitely many.
LEMMA ImageFinite ==
    ASSUME NEW S, IsFiniteSet(S), NEW T, NEW f \in [S -> T], \A y \in T : \E x \in S : y = f[x]
    PROVE  IsFiniteSet(T)
  BY FS_Surjection DEF Surjection

LEMMA AskedFacts ==
    ASSUME Asked
    PROVE  /\ IsFiniteSet(table) /\ table # {}
           /\ \A r \in table : r.value \in Int /\ r.complete \in BOOLEAN
           /\ \A r \in Timed(table) : r \in table /\ r.time \in Int
           /\ question.grain \in Grains /\ question.unit \in Grains /\ question.last_n \in Nat
           /\ Interval \in Nat
<1>1. QED
  BY CasesAssumption, PeriodsAssumption DEF Asked, Interval, Timed

LEMMA MomentsFacts ==
    ASSUME Asked
    PROVE  IsFiniteSet(Moments) /\ \A t \in Moments : t \in Int
<1> DEFINE f == [r \in Timed(table) |-> r.time]
<1>1. f \in [Timed(table) -> Moments] /\ \A y \in Moments : \E x \in Timed(table) : y = f[x]
  BY DEF Moments
<1>2. IsFiniteSet(Timed(table))
  BY AskedFacts, FS_Subset DEF Timed
<1>3. IsFiniteSet(Moments)
  <2> HIDE DEF f
  <2>1. QED
    BY <1>1, <1>2, ImageFinite
<1>4. QED
  BY <1>3, AskedFacts DEF Moments

LEMMA AvailableFacts ==
    ASSUME Asked
    PROVE  /\ Scope \subseteq table /\ Timed(Scope) \subseteq Timed(table)
           /\ IsFiniteSet(Available) /\ \A p \in Available : p \in Int
<1> DEFINE f == [r \in Timed(Scope) |-> Period(question.grain, r.time)]
<1>1. Scope \subseteq table /\ Timed(Scope) \subseteq Timed(table)
  BY DEF Scope, Timed
<1>2. f \in [Timed(Scope) -> Available] /\ \A y \in Available : \E x \in Timed(Scope) : y = f[x]
  BY DEF Available
<1>3. IsFiniteSet(Timed(Scope))
  BY <1>1, AskedFacts, FS_Subset DEF Timed
<1>4. IsFiniteSet(Available)
  <2> HIDE DEF f
  <2>1. QED
    BY <1>2, <1>3, ImageFinite
<1>5. ASSUME NEW r \in Timed(Scope) PROVE Period(question.grain, r.time) \in Int
  BY <1>1, AskedFacts, PeriodFacts
<1>6. QED
  BY <1>1, <1>4, <1>5 DEF Available

\* Where two periods are available there is one besides any.
LEMMA OtherFacts ==
    ASSUME Asked, Cardinality(Available) >= 2, NEW p
    PROVE  /\ Max(Available \ {p}) \in Available \ {p}
           /\ \A q \in Available \ {p} : q <= Max(Available \ {p})
<1>1. IsFiniteSet(Available) /\ \A q \in Available : q \in Int
  BY AvailableFacts
<1>2. IsFiniteSet(Available \ {p})
  BY <1>1, FS_RemoveElement
<1>3. Available \ {p} # {}
  <2> SUFFICES ASSUME Available \ {p} = {} PROVE FALSE
    OBVIOUS
  <2>1. Available = {} \/ Available = {p}
    OBVIOUS
  <2>2. Cardinality(Available) \in {0, 1}
    BY <2>1, FS_EmptySet, FS_Singleton
  <2>3. QED
    BY <2>2
<1>4. QED
  BY <1>1, <1>2, <1>3, MaxFacts

LEMMA LatestFacts ==
    ASSUME Asked, Cardinality(Available) >= 2
    PROVE  Max(Available) \in Available /\ \A q \in Available : q <= Max(Available)
<1>1. Available # {}
  BY FS_EmptySet
<1>2. QED
  BY <1>1, AvailableFacts, MaxFacts

\* What the resolution of periods gives.
LEMMA ResolvedFacts ==
    ASSUME Asked, Resolvable
    PROVE  /\ {Resolved.a, Resolved.b} \subseteq Available
           /\ Resolved.a = Resolved.b => question.a = question.b
           /\ question.a \in {Unnamed, Resolved.a} /\ question.b \in {Unnamed, Resolved.b}
           /\ Named = {} => /\ Resolved.a < Resolved.b
                            /\ \A p \in Available : p <= Resolved.a \/ p = Resolved.b
<1>1. CASE Named = {}
  <2>1. question.a = Unnamed /\ question.b = Unnamed /\ Cardinality(Available) >= 2
    BY <1>1 DEF Named, Resolvable
  <2>2. Resolved.b = Max(Available) /\ Resolved.a = Max(Available \ {Resolved.b})
    BY <1>1 DEF Resolved
  <2>3. Resolved.b \in Available /\ \A q \in Available : q <= Resolved.b
    BY <2>1, <2>2, LatestFacts
  <2>4. Resolved.a \in Available \ {Resolved.b} /\ \A q \in Available \ {Resolved.b} : q <= Resolved.a
    BY <2>1, <2>2, OtherFacts
  <2>5. Resolved.a \in Int /\ Resolved.b \in Int /\ Resolved.a <= Resolved.b /\ Resolved.a # Resolved.b
    BY <2>3, <2>4, AvailableFacts
  <2>6. QED
    BY <2>1, <2>3, <2>4, <2>5
<1>2. CASE question.a # Unnamed /\ question.b # Unnamed
  <2>1. Resolved.a = question.a /\ Resolved.b = question.b /\ Named = {question.a, question.b}
    BY <1>2 DEF Resolved, Named
  <2>2. QED
    BY <2>1 DEF Resolvable
<1>3. CASE question.a # Unnamed /\ question.b = Unnamed
  <2>1. /\ Resolved.a = question.a /\ Resolved.b = Max(Available \ {question.a})
        /\ Named = {question.a} /\ Cardinality(Available) >= 2
    BY <1>3 DEF Resolved, Named, Other, Resolvable
  <2>2. Resolved.b \in Available \ {question.a}
    BY <2>1, OtherFacts
  <2>3. QED
    BY <1>3, <2>1, <2>2 DEF Resolvable
<1>4. CASE question.a = Unnamed /\ question.b # Unnamed
  <2>1. /\ Resolved.b = question.b /\ Resolved.a = Max(Available \ {question.b})
        /\ Named = {question.b} /\ Cardinality(Available) >= 2
    BY <1>4 DEF Resolved, Named, Other, Resolvable
  <2>2. Resolved.a \in Available \ {question.b}
    BY <2>1, OtherFacts
  <2>3. QED
    BY <1>4, <2>1, <2>2 DEF Resolvable
<1>5. QED
  BY <1>1, <1>2, <1>3, <1>4 DEF Named

\* The periods compared are whole where the flag's are made of such ones.
LEMMA WholeFacts ==
    ASSUME Asked, FlagIsExact, Length[FlagGrain] % Length[question.grain] = 0,
           NEW r \in Timed(table), OfGroup(r), InWindow(r), Period(question.grain, r.time) \in Available
    PROVE  r \in Scope
<1>1. PICK s \in Timed(Scope) : Period(question.grain, s.time) = Period(question.grain, r.time)
  BY DEF Available
<1>2. s \in Timed(table) /\ NotIncomplete(s)
  BY <1>1 DEF Scope, Timed
<1>3. r.time \in Int /\ s.time \in Int /\ question.grain \in Grains /\ FlagGrain \in Grains
  BY <1>2, AskedFacts, PeriodsAssumption
<1>4. Period(FlagGrain, s.time) = Period(FlagGrain, r.time)
  BY <1>1, <1>3, CoarserPeriod
<1>5. NotIncomplete(r)
  BY <1>2, <1>4 DEF NotIncomplete, FlagIsExact
<1>6. QED
  BY <1>5, AskedFacts DEF Scope

\* Values are numbers.
LEMMA ValueType ==
    ASSUME Asked, NEW g
    PROVE  Base(g) \in Int /\ Later(g) \in Int
<1>1. ASSUME NEW p PROVE Value(g, p) \in Int
  <2>1. RowsOf(g, p) \subseteq table
    BY DEF RowsOf, Scope, Timed
  <2>2. IsFiniteSet(RowsOf(g, p)) /\ \A r \in RowsOf(g, p) : r.value \in Int
    BY <2>1, AskedFacts, FS_Subset
  <2>3. QED
    BY <2>2, SumType DEF Value
<1>2. QED
  BY <1>1 DEF Base, Later

-----------------------------------------------------------------------------
(* The inductive invariant. *)

\* What is about the question alone stays while it does.
LEMMA QuestionFrame ==
    ASSUME UNCHANGED <<table, flagged, question>>
    PROVE  /\ Asked' <=> Asked
           /\ Comparing' <=> Comparing
           /\ Scope' = Scope /\ Available' = Available
           /\ Resolvable' <=> Resolvable
           /\ Resolved' = Resolved
           /\ ClaimsWhole' <=> ClaimsWhole
<1>1. /\ Asked' <=> Asked
      /\ Comparing' <=> Comparing
      /\ Moments' = Moments /\ Anchor' = Anchor
      /\ Interval' = Interval /\ (Windowed' <=> Windowed)
      /\ Named' = Named
  BY DEF Asked, Comparing, Timed, Moments, Anchor, Interval, Windowed, Named
<1>2. Scope' = Scope
  <2>1. \A r : /\ OfGroup(r)' <=> OfGroup(r)
               /\ Within(r)' <=> Within(r)
               /\ Rolling(r)' <=> Rolling(r)
               /\ NotIncomplete(r)' <=> NotIncomplete(r)
    BY <1>1 DEF OfGroup, Within, Rolling, NotIncomplete
  <2>2. QED
    BY <2>1 DEF Scope, InWindow
<1>3. Available' = Available
  BY <1>2 DEF Available, Timed
<1>4. (Resolvable' <=> Resolvable) /\ Resolved' = Resolved
  BY <1>1, <1>3 DEF Resolvable, Resolved, Other
<1>5. ClaimsWhole' <=> ClaimsWhole
  BY <1>1 DEF ClaimsWhole
<1>6. QED
  BY <1>1, <1>2, <1>3, <1>4, <1>5

\* And what is about the periods compared while they do too.
LEMMA PeriodsFrame ==
    ASSUME UNCHANGED <<table, flagged, question, periods>>
    PROVE  /\ Groups' = Groups
           /\ \A g : (InBoth(g)' <=> InBoth(g)) /\ Base(g)' = Base(g)
           /\ \A g, h : Ahead(g, h)' <=> Ahead(g, h)
           /\ Negative' = Negative
<1>1. Scope' = Scope
  BY QuestionFrame
<1>2. Groups' = Groups
  BY <1>1 DEF Groups, Timed
<1>3. \A g : (InBoth(g)' <=> InBoth(g)) /\ Base(g)' = Base(g) /\ Later(g)' = Later(g)
  <2> SUFFICES ASSUME NEW g
               PROVE  (InBoth(g)' <=> InBoth(g)) /\ Base(g)' = Base(g) /\ Later(g)' = Later(g)
    OBVIOUS
  <2>1. RowsOf(g, periods.a)' = RowsOf(g, periods.a)
    BY <1>1 DEF RowsOf, Timed
  <2>2. RowsOf(g, periods.b)' = RowsOf(g, periods.b)
    BY <1>1 DEF RowsOf, Timed
  <2>3. QED
    BY <2>1, <2>2 DEF InBoth, Base, Later, Value
<1>4. \A g : (Ranked(g)' <=> Ranked(g)) /\ Growth(g)' = Growth(g)
  BY <1>3 DEF Ranked, Growth
<1>5. \A g, h : Ahead(g, h)' <=> Ahead(g, h)
  BY <1>4 DEF Ahead
<1>6. Negative' = Negative
  BY <1>2, <1>3 DEF Negative
<1>7. QED
  BY <1>2, <1>3, <1>5, <1>6

LEMMA InvariantStep == PeriodsInvariant /\ [Next]_vars => PeriodsInvariant'
<1> SUFFICES ASSUME PeriodsInvariant, [Next]_vars PROVE PeriodsInvariant'
  OBVIOUS
<1> USE DEF PeriodsInvariant
<1>1. UNCHANGED <<table, flagged, question>>
  BY DEF Next, ResolvePeriods, NeedsClarification, RankGroups, RunStandard, Disclose, vars
<1>2. Asked' /\ flagged' \in BOOLEAN
  BY <1>1, QuestionFrame
<1>3. CASE ResolvePeriods
  <2>1. stage' = "executing" /\ Resolvable /\ periods' = Resolved
    BY <1>3 DEF ResolvePeriods
  <2>2. Chosen'
    BY <1>1, <2>1, QuestionFrame DEF Chosen
  <2>3. QED
    BY <1>2, <2>1, <2>2 DEF Shipped, Said
<1>4. CASE NeedsClarification
  <2>1. stage' = "clarify"
    BY <1>4 DEF NeedsClarification
  <2>2. QED
    BY <1>2, <2>1 DEF Chosen, Shipped, Said
<1>5. CASE RankGroups
  <2>1. /\ stage = "executing" /\ stage' = "disclosing" /\ periods' = periods
        /\ shipped' \subseteq Groups
        /\ \A g \in Groups \ shipped', h \in shipped' : ~Ahead(g, h)
    BY <1>5 DEF RankGroups
  <2>2. Chosen'
    BY <1>1, <2>1, QuestionFrame DEF Chosen
  <2>3. Shipped'
    BY <1>1, <2>1, PeriodsFrame DEF Shipped
  <2>4. QED
    BY <1>2, <2>1, <2>2, <2>3 DEF Said
<1>6. CASE RunStandard
  <2>1. stage' = "disclosing" /\ ~Comparing'
    BY <1>1, <1>6, QuestionFrame DEF RunStandard
  <2>2. QED
    BY <1>2, <2>1 DEF Chosen, Shipped, Said
<1>7. CASE Disclose
  <2>1. /\ stage = "disclosing" /\ stage' = "answered" /\ UNCHANGED <<periods, shipped>>
        /\ Comparing => says'.negative = Negative /\ says'.small = SmallBase
        /\ says'.whole = ClaimsWhole
    BY <1>7 DEF Disclose
  <2>2. Chosen'
    BY <1>1, <2>1, QuestionFrame DEF Chosen
  <2>3. Shipped'
    BY <1>1, <2>1, QuestionFrame, PeriodsFrame DEF Shipped
  <2>4. SmallBase \subseteq {g \in Groups : InBoth(g) /\ Base(g) > 0}
    BY DEF SmallBase
  <2>5. {g \in Groups : InBoth(g) /\ Base(g) > 0}' = {g \in Groups : InBoth(g) /\ Base(g) > 0}
    BY <1>1, <2>1, PeriodsFrame
  <2>6. Said'
    BY <1>1, <2>1, <2>4, <2>5, QuestionFrame, PeriodsFrame DEF Said
  <2>7. QED
    BY <1>2, <2>1, <2>2, <2>3, <2>6
<1>8. CASE UNCHANGED vars
  <2>1. UNCHANGED <<stage, periods, shipped, says>>
    BY <1>8 DEF vars
  <2>2. Chosen'
    BY <1>1, <2>1, QuestionFrame DEF Chosen
  <2>3. Shipped'
    BY <1>1, <2>1, QuestionFrame, PeriodsFrame DEF Shipped
  <2>4. {g \in Groups : InBoth(g) /\ Base(g) > 0}' = {g \in Groups : InBoth(g) /\ Base(g) > 0}
    BY <1>1, <2>1, PeriodsFrame
  <2>5. Said'
    BY <1>1, <2>1, <2>4, QuestionFrame, PeriodsFrame DEF Said
  <2>6. QED
    BY <1>2, <2>1, <2>2, <2>3, <2>5
<1>9. QED
  BY <1>3, <1>4, <1>5, <1>6, <1>7, <1>8 DEF Next

\* In every state of an answer what is resolved, ranked and disclosed so far
\* follows from the question and its table (execute).
THEOREM PeriodsInductive == Spec => []PeriodsInvariant
<1>1. Init => PeriodsInvariant
  BY DEF Init, PeriodsInvariant, Asked, Chosen, Shipped, Said
<1>2. QED
  BY <1>1, InvariantStep, PTL DEF Spec

-----------------------------------------------------------------------------
(* Theorems. *)

\* Whatever the table, a comparison is of two periods it has rows for, the named
\* ones or the latest two, and none of them is cut (_resolve_periods, _where).
THEOREM ComparedPeriods == Spec => []PeriodsCompared
<1>1. PeriodsInvariant => PeriodsCompared
  <2> SUFFICES ASSUME PeriodsInvariant, Compared PROVE PeriodsCompared
    BY DEF PeriodsCompared
  <2>1. Asked /\ Resolvable /\ periods = Resolved
    BY DEF PeriodsInvariant, Compared, Chosen
  <2>2. /\ {periods.a, periods.b} \subseteq Available
        /\ periods.a = periods.b => question.a = question.b
        /\ question.a \in {Unnamed, periods.a} /\ question.b \in {Unnamed, periods.b}
        /\ Named = {} => /\ periods.a < periods.b
                         /\ \A p \in Available : p <= periods.a \/ p = periods.b
    BY <2>1, ResolvedFacts
  <2>3. ASSUME FlagIsExact, Length[FlagGrain] % Length[question.grain] = 0, NEW r \in Timed(table),
               OfGroup(r), InWindow(r), Period(question.grain, r.time) \in {periods.a, periods.b}
        PROVE  r \in Scope
    BY <2>1, <2>2, <2>3, WholeFacts
  <2>4. Named = {} => \A r \in Timed(Scope) : LET p == Period(question.grain, r.time)
                                       IN p <= periods.a \/ p = periods.b
    BY <2>2 DEF Available
  <2>5. QED
    BY <2>2, <2>3, <2>4 DEF PeriodsCompared, Available
<1>2. QED
  BY <1>1, PeriodsInductive, PTL

\* Whatever the values, a group in both periods is ranked or said not to be, and
\* none without a rank displaces one with (_period_comparison_sql and
\* _disclose_growth_base_anomalies).
THEOREM RankingDisclosed == Spec => []RankingAccounted
<1>1. PeriodsInvariant => RankingAccounted
  <2> SUFFICES ASSUME PeriodsInvariant, Compared PROVE RankingAccounted
    BY DEF RankingAccounted
  <2>1. /\ shipped \subseteq Groups
        /\ \A g \in Groups \ shipped, h \in shipped : ~Ahead(g, h)
        /\ says.negative = Negative
        /\ says.small \subseteq {g \in Groups : InBoth(g) /\ Base(g) > 0}
    BY DEF PeriodsInvariant, Compared, Shipped, Said
  <2>2. \A g : Base(g) \in Int /\ Later(g) \in Int
    BY ValueType DEF PeriodsInvariant
  <2>3. ASSUME question.kind # "change"
        PROVE  /\ {g \in Groups : InBoth(g) /\ ~Ranked(g)} = says.negative
               /\ says.small \subseteq {g \in Groups : Ranked(g)}
    BY <2>1, <2>2, <2>3 DEF Ranked, Negative
  <2>4. question.kind = "change" => \A g \in Groups : InBoth(g) => Ranked(g)
    BY DEF Ranked
  <2>5. ASSUME question.kind = "growth", NEW g \in Groups
        PROVE  Exceeds(Growth(g), [num |-> 0, den |-> 1]) <=> Later(g) > Base(g)
    <3>1. Growth(g) = [num |-> Later(g) - Base(g), den |-> Base(g)]
      BY <2>5 DEF Growth
    <3>2. QED
      BY <2>2, <3>1 DEF Exceeds
  <2>6. (\E g \in shipped : ~Ranked(g)) => {g \in Groups : Ranked(g)} \subseteq shipped
    BY <2>1 DEF Ahead
  <2>7. QED
    BY <2>3, <2>4, <2>5, <2>6 DEF RankingAccounted
<1>2. QED
  BY <1>1, PeriodsInductive, PTL

\* Whatever the times, and whichever rows have none, a "last n" window said to
\* be the whole dataset leaves out of the rows with a time and within the other
\* bounds those of the first day at most, and one not said to be so leaves
\* something out (_time and _disclose_last_n_window).
THEOREM WindowClaims == Spec => []WindowClaimHolds
<1>1. PeriodsInvariant => WindowClaimHolds
  <2> SUFFICES ASSUME PeriodsInvariant, stage = "answered", Windowed PROVE WindowClaimHolds
    BY DEF WindowClaimHolds
  <2> DEFINE from == Anchor - Interval
             first == Min(Moments)
  <2>1. /\ Asked
        /\ says.whole <=> Moments # {} /\ Period("day", from) <= Period("day", first)
    BY DEF PeriodsInvariant, Said, ClaimsWhole
  <2>2. \A r \in Timed(table) : r.time \in Moments /\ (Rolling(r) <=> r.time >= from)
    BY DEF Moments, Timed, Rolling
  <2>3. Moments # {} =>
           /\ Anchor \in Moments
           /\ first \in Moments /\ \A t \in Moments : first <= t
    BY <2>1, MomentsFacts, MaxFacts, MinFacts DEF Anchor
  <2>4. \A t \in Moments : t \in Int
    BY <2>1, MomentsFacts
  <2>5. Moments # {} => from \in Int /\ first \in Int
    BY <2>1, <2>3, <2>4, AskedFacts
  <2> HIDE DEF from, first
  <2>6. "day" \in Grains
    BY PeriodsAssumption
  <2>7. ASSUME says.whole, NEW r \in table, ~InWindow(r), r.time # NULL, Within(r),
               NEW s \in Timed(table)
        PROVE  Period("day", r.time) <= Period("day", s.time)
    <3>1. r \in Timed(table) /\ ~Rolling(r)
      BY <2>7 DEF InWindow, Timed
    <3>2. /\ r.time \in Int /\ s.time \in Int /\ from \in Int /\ first \in Int
          /\ r.time <= from /\ first <= s.time
      BY <2>2, <2>3, <2>4, <2>5, <3>1
    <3>3. /\ Period("day", r.time) <= Period("day", from)
          /\ Period("day", first) <= Period("day", s.time)
      BY <2>6, <3>2, PeriodFacts
    <3>4. /\ Period("day", r.time) \in Int /\ Period("day", from) \in Int
          /\ Period("day", first) \in Int /\ Period("day", s.time) \in Int
      BY <2>6, <3>2, PeriodFacts
    <3>5. QED
      BY <2>1, <2>7, <3>3, <3>4
  <2>8. ASSUME ~says.whole, Timed(table) # {}
        PROVE  \E r \in Timed(table) : ~Rolling(r)
    <3>1. Moments # {} /\ from \in Int /\ first \in Int
      BY <2>2, <2>5, <2>8
    <3>2. ~(from <= first)
      BY <2>1, <2>6, <2>8, <3>1, PeriodFacts
    <3>3. PICK r \in Timed(table) : r.time = first
      BY <2>3, <3>1 DEF Moments
    <3>4. QED
      BY <2>2, <3>1, <3>2, <3>3
  <2>9. QED
    BY <2>7, <2>8 DEF WindowClaimHolds
<1>2. QED
  BY <1>1, PeriodsInductive, PTL
=============================================================================
