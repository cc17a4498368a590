---------------------------- MODULE ExecutorProofs ----------------------------
(***************************************************************************)
(* What holds of every semantic model that is built and of every plan the  *)
(* binder admits, whatever the proposal, the data and the plan.            *)
(***************************************************************************)
EXTENDS Executor, FiniteSetTheorems, WellFoundedInduction, TLAPS

\* A set of numbers that is not empty has a least one.
LEMMA LeastNumber ==
    ASSUME NEW S, S \subseteq Nat, S # {}
    PROVE  \E n \in S : \A m \in S : n <= m
<1> DEFINE R == {p \in Nat \X Nat : p[1] < p[2]}
<1>1. IsWellFoundedOn(R, Nat)
  BY NatLessThanWellFounded DEF OpToRel
<1>2. PICK n \in S : \A m \in S : ~ (<<m, n>> \in R)
  BY <1>1, WFMin
<1>3. \A m \in S : ~(m < n) /\ m \in Nat /\ n \in Nat
  BY <1>2
<1>4. QED
  BY <1>3

-----------------------------------------------------------------------------
(* Bindings. *)

\* The first binding of a set is one of the set.
LEMMA FirstFacts ==
    ASSUME NEW bs, bs # {}, \A b \in bs : b.rank \in Nat
    PROVE  \E b \in bs : First(bs) = b.column
<1> DEFINE ranks == {b.rank : b \in bs}
<1>1. PICK n \in ranks : \A m \in ranks : n <= m
  BY LeastNumber
<1>2. \E b \in bs : \A c \in bs : b.rank <= c.rank
  BY <1>1
<1>3. (CHOOSE b \in bs : \A c \in bs : b.rank <= c.rank) \in bs
  BY <1>2
<1>4. QED
  BY <1>3 DEF First

\* A column keeps one claim, at its place in the proposal.
LEMMA BestFacts ==
    ASSUME NEW claims, NEW ev, WellFormed(claims, ev)
    PROVE  /\ \A b \in Best(claims) :
                 /\ b.rank \in 1..Len(claims) /\ b.column # None
                 /\ b.column = claims[b.rank].column
           /\ \A b, c \in Best(claims) : b.column = c.column => b = c
           /\ \A b, c \in Best(claims) : b.rank = c.rank => b = c
<1> DEFINE Claimed(i) == [column |-> claims[i].column, role |-> claims[i].role,
                          entity |-> claims[i].entity, rank |-> i]
<1>1. \A b \in Best(claims) :
          /\ b.rank \in 1..Len(claims) /\ b = Claimed(b.rank)
          /\ b.column = claims[b.rank].column
          /\ \A k \in 1..(b.rank - 1) : claims[k].column # b.column
  BY DEF Best, WellFormed
<1>2. \A b \in Best(claims) : b.column # None
  BY <1>1 DEF WellFormed
<1>3. ASSUME NEW b \in Best(claims), NEW c \in Best(claims), b.column = c.column
      PROVE  b.rank = c.rank
  <2>1. b.rank \in 1..Len(claims) /\ c.rank \in 1..Len(claims) /\ Len(claims) \in Nat
    BY <1>1 DEF WellFormed
  <2>2. ~(b.rank < c.rank)
    <3> SUFFICES ASSUME b.rank < c.rank PROVE FALSE
      OBVIOUS
    <3>1. b.rank \in 1..(c.rank - 1)
      BY <2>1
    <3>2. QED
      BY <1>1, <1>3, <3>1
  <2>3. ~(c.rank < b.rank)
    <3> SUFFICES ASSUME c.rank < b.rank PROVE FALSE
      OBVIOUS
    <3>1. c.rank \in 1..(b.rank - 1)
      BY <2>1
    <3>2. QED
      BY <1>1, <1>3, <3>1
  <2>4. QED
    BY <2>1, <2>2, <2>3
<1>4. \A b, c \in Best(claims) : b.rank = c.rank => b = c
  BY <1>1
<1>5. QED
  BY <1>1, <1>2, <1>3, <1>4

\* What a set of bindings is: one binding per column, by rank, of finitely many.
IsBindings(bs) ==
    /\ IsFiniteSet(bs)
    /\ \A b \in bs : b.rank \in Nat /\ b.column # None
    /\ \A b, c \in bs : b.column = c.column => b = c

LEMMA BindingsFacts ==
    ASSUME NEW claims, NEW ev, WellFormed(claims, ev)
    PROVE  IsBindings(Bindings(claims, ev))
<1> DEFINE bs == Bindings(claims, ev)
           Tested(b) ==
               [column |-> b.column, role |-> b.role, entity |-> b.entity, rank |-> b.rank,
                refuted |-> Refuted(Tests(b, Best(claims), ev)),
                verified |-> ~Refuted(Tests(b, Best(claims), ev))
                                 /\ \E t \in Tests(b, Best(claims), ev) : t[2]]
<1>1. bs = {Tested(b) : b \in Best(claims)}
  BY DEF Bindings
<1>2. \A b \in Best(claims) : Tested(b).column = b.column /\ Tested(b).rank = b.rank
  OBVIOUS
<1> HIDE DEF bs, Tested
<1>3. \A b \in bs : b.rank \in 1..Len(claims) /\ b.column # None
  BY <1>1, <1>2, BestFacts
<1>4. \A b, c \in bs : (b.column = c.column \/ b.rank = c.rank) => b = c
  BY <1>1, <1>2, BestFacts
<1>5. IsFiniteSet(bs)
  <2> DEFINE f == [b \in bs |-> b.rank]
  <2>1. f \in Injection(bs, 1..Len(claims))
    BY <1>3, <1>4 DEF Injection, IsInjective
  <2>2. IsFiniteSet(1..Len(claims))
    BY FS_Interval DEF WellFormed
  <2>3. QED
    BY <2>1, <2>2, FS_Injection
<1>6. 1..Len(claims) \subseteq Nat
  BY DEF WellFormed
<1>7. QED
  BY <1>3, <1>4, <1>5, <1>6 DEF IsBindings, bs

\* A binding is a claim, with what its tests said.
LEMMA TestedFacts ==
    ASSUME NEW claims, NEW ev, NEW b \in Bindings(claims, ev)
    PROVE  /\ b.refuted <=> Refuted(Tests(b, Best(claims), ev))
           /\ b.verified => \E t \in Tests(b, Best(claims), ev) : t[2]
           /\ \E c \in Best(claims) : c.role = b.role /\ c.column = b.column
<1> DEFINE bs == Best(claims)
           Tested(c) == [column |-> c.column, role |-> c.role, entity |-> c.entity, rank |-> c.rank,
                         refuted |-> Refuted(Tests(c, bs, ev)),
                         verified |-> ~Refuted(Tests(c, bs, ev)) /\ \E t \in Tests(c, bs, ev) : t[2]]
<1>1. PICK c \in bs : b = Tested(c)
  BY DEF Bindings
<1>2. b.column = c.column /\ b.role = c.role
  BY <1>1
<1>3. Tests(b, bs, ev) = Tests(c, bs, ev)
  BY <1>2 DEF Tests
<1>4. /\ b.refuted = Refuted(Tests(c, bs, ev))
      /\ b.verified = (~Refuted(Tests(c, bs, ev)) /\ \E t \in Tests(c, bs, ev) : t[2])
  BY <1>1
<1>5. QED
  BY <1>2, <1>3, <1>4

\* The bindings in a role are bindings that were not refuted; the first of them
\* is None only when there are none.
LEMMA RoleFacts ==
    ASSUME NEW bs, IsBindings(bs), NEW cs, cs \subseteq bs
    PROVE  /\ First(cs) # None => First(cs) \in Cols(cs)
           /\ cs # {} => First(cs) \in Cols(cs) /\ First(cs) # None
           /\ IsFiniteSet(cs)
<1>1. cs # {} => \E b \in cs : First(cs) = b.column
  BY FirstFacts DEF IsBindings
<1>2. cs = {} => First(cs) = None
  BY DEF First
<1>3. \A b \in cs : b.column # None
  BY DEF IsBindings
<1>4. IsFiniteSet(cs)
  BY FS_Subset DEF IsBindings
<1>5. QED
  BY <1>1, <1>2, <1>3, <1>4 DEF Cols

\* The bindings in a role are among the sound ones.
LEMMA InRoleFacts ==
    ASSUME NEW bs, IsBindings(bs), NEW role
    PROVE  /\ InRole(bs, role) \subseteq {b \in bs : ~b.refuted}
           /\ FirstInRole(bs, role) # None =>
                 FirstInRole(bs, role) \in Cols({b \in bs : ~b.refuted})
           /\ InRole(bs, role) # {} => FirstInRole(bs, role) # None
<1>1. InRole(bs, role) \subseteq {b \in bs : ~b.refuted}
  BY DEF InRole
<1>2. InRole(bs, role) \subseteq bs
  BY DEF InRole
<1>3. QED
  BY <1>1, <1>2, RoleFacts DEF FirstInRole, Cols

-----------------------------------------------------------------------------
(* The model that is built. *)

\* What every semantic model satisfies: whatever the model says it is computed
\* from is a column with a binding that was not refuted.
Coherent(m) ==
    /\ IsBindings(m.bindings)
    /\ m.returns.kind # "none" => m.returns.column \in BoundColumns(m)
    /\ \A p \in m.partitions : p.column \in BoundColumns(m)
    /\ m.complete \subseteq BoundColumns(m)
    /\ \A n \in MeasureNames : m.reads[n] \subseteq BoundColumns(m)
    /\ m.reads["basket_cooccurrence"] # {} =>
          FirstInRole(m.bindings, "transaction_key") # None
    /\ m.reads["net_revenue"] = RevenueColumns(m.bindings)
    /\ m.reads["gross_revenue"] # {} => RevenueColumns(m.bindings) # {}
    /\ Cols(m.bindings) \cup m.numeric \subseteq m.columns

\* The parts of the model.
LEMMA BuiltFields ==
    ASSUME NEW claims, NEW ev
    PROVE  /\ Built(claims, ev).bindings = Bindings(claims, ev)
           /\ Built(claims, ev).returns = Returns(Bindings(claims, ev), ev)
           /\ Built(claims, ev).partitions = Partitions(Bindings(claims, ev), ev)
           /\ Built(claims, ev).complete = Completeness(Bindings(claims, ev), ev)
           /\ Built(claims, ev).labels = Labels(Bindings(claims, ev), ev)
           /\ \A n \in MeasureNames :
                 Built(claims, ev).reads[n] =
                     MeasureColumns(Bindings(claims, ev), Returns(Bindings(claims, ev), ev), n)
           /\ Built(claims, ev).numeric = ev.numeric
           /\ Built(claims, ev).columns = Cols(Bindings(claims, ev)) \cup ev.numeric
  BY DEF Built

\* Returns are marked by a sound column.
LEMMA ReturnsFacts ==
    ASSUME NEW bs, NEW ev, IsBindings(bs), None \notin ev.prefixed,
           Returns(bs, ev).kind # "none"
    PROVE  Returns(bs, ev).column \in Cols({b \in bs : ~b.refuted})
<1> DEFINE quantity == FirstInRole(bs, "additive_quantity")
           key == FirstInRole(bs, "transaction_key")
           flags == {b \in InRole(bs, "flag") : b.column \in ev.aligned}
           dims == {b \in InRole(bs, "dimension") : b.column \in ev.marking}
           texts == {b \in InRole(bs, "flag") : b.column \in ev.marking}
           sound == {b \in bs : ~b.refuted}
<1>1. /\ flags \subseteq sound /\ dims \subseteq sound /\ texts \subseteq sound
      /\ sound \subseteq bs
  BY InRoleFacts
<1>2. /\ flags # {} => First(flags) \in Cols(sound)
      /\ dims # {} => First(dims) \in Cols(sound)
      /\ texts # {} => First(texts) \in Cols(sound)
  BY <1>1, RoleFacts DEF Cols
<1>3. /\ key \in ev.prefixed => key \in Cols(sound)
      /\ quantity # None => quantity \in Cols(sound)
  BY InRoleFacts
<1>4. \/ Returns(bs, ev) = [kind |-> "none", column |-> None]
      \/ flags # {} /\ Returns(bs, ev).column = First(flags)
      \/ dims # {} /\ Returns(bs, ev).column = First(dims)
      \/ texts # {} /\ Returns(bs, ev).column = First(texts)
      \/ key \in ev.prefixed /\ Returns(bs, ev).column = key
      \/ quantity # None /\ Returns(bs, ev).column = quantity
  BY DEF Returns
<1>5. QED
  BY <1>2, <1>3, <1>4

\* Revenue is summed over sound columns.
LEMMA RevenueFacts ==
    ASSUME NEW bs, IsBindings(bs)
    PROVE  RevenueColumns(bs) \subseteq Cols({b \in bs : ~b.refuted})
<1> DEFINE quantity == FirstInRole(bs, "additive_quantity")
           rate == FirstInRole(bs, "monetary_rate")
           verified == {b \in Amounts(bs) : b.verified}
           sound == {b \in bs : ~b.refuted}
<1>1. Amounts(bs) \subseteq sound /\ verified \subseteq sound /\ sound \subseteq bs
  BY InRoleFacts DEF Amounts
<1>2. /\ verified # {} => First(verified) \in Cols(sound)
      /\ Cols(Amounts(bs)) \subseteq Cols(sound)
  BY <1>1, RoleFacts DEF Cols
<1>3. /\ quantity # None => quantity \in Cols(sound)
      /\ rate # None => rate \in Cols(sound)
  BY InRoleFacts
<1>4. \/ verified # {} /\ RevenueColumns(bs) = {First(verified)}
      \/ quantity # None /\ rate # None /\ RevenueColumns(bs) = {quantity, rate}
      \/ RevenueColumns(bs) = Cols(Amounts(bs))
      \/ RevenueColumns(bs) = {}
  BY DEF RevenueColumns
<1>5. QED
  BY <1>2, <1>3, <1>4

\* Every measure is computed from sound columns.
LEMMA MeasureFacts ==
    ASSUME NEW bs, NEW ev, IsBindings(bs), None \notin ev.prefixed, NEW n \in MeasureNames
    PROVE  MeasureColumns(bs, Returns(bs, ev), n) \subseteq Cols({b \in bs : ~b.refuted})
<1> DEFINE quantity == FirstInRole(bs, "additive_quantity")
           key == FirstInRole(bs, "transaction_key")
           entity == FirstInRole(bs, "entity_key")
           sound == {b \in bs : ~b.refuted}
           columns == MeasureColumns(bs, Returns(bs, ev), n)
<1>1. /\ quantity # None => quantity \in Cols(sound)
      /\ key # None => key \in Cols(sound)
      /\ entity # None => entity \in Cols(sound)
  BY InRoleFacts
<1>2. RevenueColumns(bs) \subseteq Cols(sound)
  BY RevenueFacts
<1>3. Returns(bs, ev).kind # "none" => Returns(bs, ev).column \in Cols(sound)
  BY ReturnsFacts
<1>4. CASE n = "net_revenue"
  BY <1>2, <1>4 DEF MeasureColumns
<1>5. CASE n = "gross_revenue"
  BY <1>2, <1>3, <1>5 DEF MeasureColumns
<1>6. CASE n \in {"units_sold", "order_count"}
  BY <1>1, <1>6 DEF MeasureColumns
<1>7. CASE n = "basket_cooccurrence"
  BY <1>1, <1>7 DEF MeasureColumns
<1>8. QED
  BY <1>4, <1>5, <1>6, <1>7 DEF MeasureNames

\* A model that is built is coherent.
THEOREM BuiltCoherent ==
    ASSUME NEW claims, NEW ev, WellFormed(claims, ev)
    PROVE  Coherent(Built(claims, ev))
<1> DEFINE m == Built(claims, ev)
           bs == Bindings(claims, ev)
           sound == {b \in bs : ~b.refuted}
<1>1. IsBindings(bs) /\ None \notin ev.prefixed
  BY BindingsFacts DEF WellFormed
<1>2. /\ m.bindings = bs /\ m.returns = Returns(bs, ev)
      /\ m.partitions = Partitions(bs, ev) /\ m.complete = Completeness(bs, ev)
      /\ \A n \in MeasureNames : m.reads[n] = MeasureColumns(bs, Returns(bs, ev), n)
      /\ m.numeric = ev.numeric /\ m.columns = Cols(bs) \cup ev.numeric
      /\ BoundColumns(m) = Cols(sound)
  BY BuiltFields DEF BoundColumns, Sound
<1> HIDE DEF m, bs
<1>3. m.returns.kind # "none" => m.returns.column \in BoundColumns(m)
  BY <1>1, <1>2, ReturnsFacts
<1>4. \A role : Cols(InRole(bs, role)) \subseteq Cols(sound)
  BY <1>1, InRoleFacts DEF Cols
<1>5. \A p \in m.partitions : p.column \in BoundColumns(m)
  <2>1. \A p \in Partitions(bs, ev) : p.column \in Cols(InRole(bs, "dimension"))
    BY DEF Partitions
  <2>2. QED
    BY <1>2, <1>4, <2>1
<1>6. m.complete \subseteq BoundColumns(m)
  <2>1. Completeness(bs, ev) \subseteq Cols(InRole(bs, "flag"))
    BY DEF Completeness
  <2>2. QED
    BY <1>2, <1>4, <2>1
<1>7. \A n \in MeasureNames : m.reads[n] \subseteq BoundColumns(m)
  BY <1>1, <1>2, MeasureFacts
<1>8. m.reads["basket_cooccurrence"] # {} =>
          FirstInRole(m.bindings, "transaction_key") # None
  BY <1>2 DEF MeasureNames, MeasureColumns
<1>9. /\ m.reads["net_revenue"] = RevenueColumns(m.bindings)
      /\ m.reads["gross_revenue"] # {} => RevenueColumns(m.bindings) # {}
  BY <1>2 DEF MeasureNames, MeasureColumns
<1>10. QED
  BY <1>1, <1>2, <1>3, <1>5, <1>6, <1>7, <1>8, <1>9 DEF Coherent, m

-----------------------------------------------------------------------------
(* The verdict. *)

\* A plan is admitted when no check objects, and declined by one that does.
LEMMA VerdictFacts ==
    ASSUME NEW m, NEW ir
    PROVE  LET os == Objections(m, Normalised(m, ir)) IN
           /\ DOMAIN os = 1..11
           /\ ~Verdict(m, ir).raised => \A i \in 1..11 : ~os[i].raised
           /\ Verdict(m, ir).raised =>
                 \E i \in 1..11 : os[i].raised /\ Verdict(m, ir) = os[i]
<1> DEFINE os == Objections(m, Normalised(m, ir))
           raised == {i \in DOMAIN os : os[i].raised}
<1>1. DOMAIN os = 1..11
  BY DEF Objections
<1>2. Verdict(m, ir) = IF raised = {} THEN Objection(FALSE, "answer", "none")
                       ELSE os[CHOOSE i \in raised : \A k \in raised : i <= k]
  BY DEF Verdict
<1> HIDE DEF os
<1>3. CASE raised = {}
  <2>1. ~Verdict(m, ir).raised
    BY <1>2, <1>3 DEF Objection
  <2>2. QED
    BY <1>1, <1>3, <2>1 DEF os
<1>4. CASE raised # {}
  <2>1. raised \subseteq Nat
    BY <1>1
  <2>2. \E i \in raised : \A k \in raised : i <= k
    BY <1>4, <2>1, LeastNumber
  <2>3. PICK i \in raised : i = CHOOSE n \in raised : \A k \in raised : n <= k
    BY <2>2
  <2>4. Verdict(m, ir) = os[i] /\ i \in 1..11 /\ os[i].raised
    BY <1>1, <1>2, <1>4, <2>3
  <2>5. QED
    BY <1>1, <2>4 DEF os
<1>5. QED
  BY <1>3, <1>4

\* What the checks establish of an admitted plan.
LEMMA AdmittedFacts ==
    ASSUME NEW m, NEW plan, ~Verdict(m, plan).raised
    PROVE  LET ir == Normalised(m, plan) IN
           /\ ~ir.unmet_concepts /\ ~ir.unmet_dimensions
           /\ \A a \in ir.aggregations : Aggregable(m, a)
           /\ ir.measures \cap RevenueMeasures # {} => ~(Cardinality(Amounts(m.bindings)) > 1)
           /\ ~Missing(m, ir)
           /\ ir.group_by \cup Cols(ir.categorical_filters \cup ir.numeric_filters)
                 \subseteq BoundColumns(m)
           /\ ir.time # None \/ ir.period_comparison =>
                 FirstInRole(m.bindings, "event_time") # None
           /\ ~(/\ ir.measures = {} /\ ir.aggregations = {}
                /\ ir.distinct_count_of = None /\ ir.frequency = <<>> /\ ~ir.basket)
           /\ ~(/\ ir.top_k # None /\ ~ir.basket /\ ir.frequency = <<>>
                /\ ir.top_k \notin RankTargets(ir))
           /\ "clarification" \notin ir.notes
<1> DEFINE ir == Normalised(m, plan)
           os == Objections(m, ir)
<1> HIDE DEF ir
<1>1. \A i \in 1..11 : ~os[i].raised
  BY VerdictFacts DEF ir
<1>2. /\ ~os[1].raised /\ ~os[2].raised /\ ~os[3].raised /\ ~os[4].raised /\ ~os[5].raised
      /\ ~os[6].raised /\ ~os[7].raised /\ ~os[8].raised /\ ~os[10].raised /\ ~os[11].raised
  BY <1>1
<1>3. ~ir.unmet_concepts /\ ~ir.unmet_dimensions
  BY <1>2 DEF Objections, Objection
<1>4. /\ \A a \in ir.aggregations : Aggregable(m, a)
      /\ ir.measures \cap RevenueMeasures # {} => ~(Cardinality(Amounts(m.bindings)) > 1)
  BY <1>2 DEF Objections, Objection
<1>5. ~Missing(m, ir)
  BY <1>2 DEF Objections, Objection
<1>6. ir.group_by \cup Cols(ir.categorical_filters \cup ir.numeric_filters)
          \subseteq BoundColumns(m)
  BY <1>2 DEF Objections, Objection
<1>7. ir.time # None \/ ir.period_comparison => FirstInRole(m.bindings, "event_time") # None
  BY <1>2 DEF Objections, Objection
<1>8. /\ ~(/\ ir.measures = {} /\ ir.aggregations = {}
           /\ ir.distinct_count_of = None /\ ir.frequency = <<>> /\ ~ir.basket)
      /\ ~(/\ ir.top_k # None /\ ~ir.basket /\ ir.frequency = <<>>
           /\ ir.top_k \notin RankTargets(ir))
      /\ "clarification" \notin ir.notes
  BY <1>2 DEF Objections, Objection
<1>9. QED
  BY <1>3, <1>4, <1>5, <1>6, <1>7, <1>8 DEF ir

-----------------------------------------------------------------------------
(* What an admitted plan reads and says. *)

\* Resolving the references changes nothing else of a plan.
LEMMA NormalisedFacts ==
    ASSUME NEW m, NEW plan, DOMAIN plan = PlanFields
    PROVE  \A f \in PlanFields \ {"basket", "frequency", "distinct_count_of"} :
               Normalised(m, plan)[f] = plan[f]
  BY DEF Normalised, PlanFields

\* The predicates every path shares are on bound columns.
LEMMA ScopeBound ==
    ASSUME NEW m, Coherent(m), NEW plan, ~Verdict(m, plan).raised
    PROVE  Scope(m, Normalised(m, plan)) \subseteq BoundColumns(m)
<1> DEFINE ir == Normalised(m, plan)
<1>1. /\ Cols(ir.categorical_filters \cup ir.numeric_filters) \subseteq BoundColumns(m)
      /\ ir.time # None \/ ir.period_comparison => FirstInRole(m.bindings, "event_time") # None
  BY AdmittedFacts
<1> HIDE DEF ir
<1>2. AppliedPartitions(m, ir) \subseteq BoundColumns(m)
  BY DEF AppliedPartitions, Coherent
<1>3. CompleteFlag(m, ir) \subseteq BoundColumns(m)
  BY DEF CompleteFlag, Coherent
<1>4. ir.time # None \/ ir.period_comparison =>
          FirstInRole(m.bindings, "event_time") \in BoundColumns(m)
  BY <1>1, InRoleFacts DEF Coherent, BoundColumns, Sound
<1>5. QED
  BY <1>1, <1>2, <1>3, <1>4 DEF Scope, ir

\* Whatever the plan and wherever it comes from, when the binder admits it the
\* SQL of its named measures reads columns that the model binds and that no
\* test refuted.
THEOREM ReadsBound ==
    ASSUME NEW m, Coherent(m), NEW plan, ~Verdict(m, plan).raised
    PROVE  Reads(m, Normalised(m, plan)) \subseteq BoundColumns(m)
<1> DEFINE ir == Normalised(m, plan)
<1>1. /\ ir.group_by \subseteq BoundColumns(m)
      /\ ~Missing(m, ir) /\ Scope(m, ir) \subseteq BoundColumns(m)
  BY AdmittedFacts, ScopeBound
<1> HIDE DEF ir
<1>2. Computed(m, ir) \subseteq BoundColumns(m)
  <2>1. ir.measures \subseteq MeasureNames
    BY <1>1 DEF Missing, Available
  <2>2. QED
    BY <2>1 DEF Coherent, Computed
<1> DEFINE S == StandardReads(m, ir)
<1>3. S \subseteq BoundColumns(m)
  <2>1. {ir.distinct_count_of} \ {None} \subseteq BoundColumns(m)
    BY <1>1 DEF Missing
  <2>2. QED
    BY <1>1, <1>2, <2>1 DEF StandardReads
<1> HIDE DEF S
<1>4. CASE Path(ir) = "basket"
  <2>1. ir.basket
    BY <1>4 DEF Path
  <2>2. FirstInRole(m.bindings, "transaction_key") \in BoundColumns(m)
    <3>1. m.reads["basket_cooccurrence"] # {}
      BY <1>1, <2>1 DEF Missing, Available
    <3>2. QED
      BY <3>1, InRoleFacts DEF Coherent, BoundColumns, Sound
  <2>3. BasketProduct(m) # None => BasketProduct(m) \in BoundColumns(m)
    <3> DEFINE products == {b \in InRole(m.bindings, "entity_key") : b.entity = "product"}
    <3>1. IsBindings(m.bindings)
      BY DEF Coherent
    <3>2. products \subseteq Sound(m) /\ Sound(m) \subseteq m.bindings
      BY DEF InRole, Sound
    <3>3. First(products) # None => First(products) \in Cols(products)
      BY <3>1, <3>2, RoleFacts
    <3>4. QED
      BY <3>2, <3>3 DEF BasketProduct, BoundColumns, Cols
  <2>4. BasketScope(m) \subseteq BoundColumns(m)
    BY DEF BasketScope, Coherent
  <2>5. QED
    BY <1>1, <1>3, <1>4, <2>2, <2>3, <2>4 DEF Reads, S, ir
<1>5. CASE Path(ir) = "frequency"
  <2>1. \A i \in DOMAIN ir.frequency : ir.frequency[i] \in BoundColumns(m)
    BY <1>1 DEF Missing
  <2>2. QED
    BY <1>1, <1>2, <1>5, <2>1 DEF Reads, ir
<1>6. CASE Path(ir) = "comparison"
  BY <1>1, <1>2, <1>6 DEF Reads, ir
<1>7. CASE Path(ir) = "standard"
  BY <1>3, <1>7 DEF Reads, S, ir
<1>8. QED
  BY <1>4, <1>5, <1>6, <1>7 DEF Path

\* No admitted plan names a column that the table lacks.
THEOREM ColumnsExist ==
    ASSUME NEW m, Coherent(m), NEW plan, ~Verdict(m, plan).raised
    PROVE  "unknown_column" \notin Faults(m, Normalised(m, plan))
<1> DEFINE ir == Normalised(m, plan)
<1>1. Reads(m, ir) \subseteq BoundColumns(m) /\ \A a \in ir.aggregations : Aggregable(m, a)
  BY ReadsBound, AdmittedFacts
<1> HIDE DEF ir
<1>2. BoundColumns(m) \subseteq m.columns
  BY DEF BoundColumns, Sound, Cols, Coherent
<1>3. Aggregates(ir) \subseteq m.columns
  BY <1>1 DEF Aggregates, Aggregable, Coherent
<1>4. Reads(m, ir) \cup Aggregates(ir) \subseteq m.columns
  BY <1>1, <1>2, <1>3
<1>5. QED
  BY <1>4 DEF Faults, ir

\* Of an admitted revenue, the answer says "as reported" exactly when it is
\* summed over an amount that nothing checked.
THEOREM ReportedRevenue ==
    ASSUME NEW m, Coherent(m), NEW plan, DOMAIN plan = PlanFields,
           ~Verdict(m, plan).raised, plan.measures \cap RevenueMeasures # {}
    PROVE  AsReported(m, Normalised(m, plan)) <=>
               \E b \in Amounts(m.bindings) :
                   ~b.verified /\ m.reads["net_revenue"] = {b.column}
<1> DEFINE ir == Normalised(m, plan)
           bs == m.bindings
           quantity == FirstInRole(bs, "additive_quantity")
           rate == FirstInRole(bs, "monetary_rate")
           verified == {b \in Amounts(bs) : b.verified}
<1>1. ir.measures = plan.measures
  BY NormalisedFacts DEF PlanFields
<1>2. ~(Cardinality(Amounts(bs)) > 1) /\ ~Missing(m, ir)
  BY <1>1, AdmittedFacts
<1> HIDE DEF ir
<1>3. IsBindings(bs) /\ Amounts(bs) \subseteq bs
  BY DEF Coherent, Amounts, InRole
<1>4. IsFiniteSet(Amounts(bs)) /\ Cardinality(Amounts(bs)) \in Nat
  BY <1>3, RoleFacts, FS_CardinalityType
<1>5. \A a, b \in Amounts(bs) : a = b
  <2>1. CASE Cardinality(Amounts(bs)) = 0
    BY <1>4, <2>1, FS_EmptySet
  <2>2. CASE Cardinality(Amounts(bs)) = 1
    BY <1>4, <2>2, FS_Singleton
  <2>3. QED
    BY <1>2, <1>4, <2>1, <2>2
<1>6. Cardinality(Amounts(bs)) = 1 <=> Amounts(bs) # {}
  <2>1. Amounts(bs) # {} => \E b : Amounts(bs) = {b}
    BY <1>5
  <2>2. QED
    BY <1>4, <2>1, FS_Singleton
<1>7. m.reads["net_revenue"] = RevenueColumns(bs) /\ RevenueColumns(bs) # {}
  <2>1. plan.measures \subseteq Available(m)
    BY <1>1, <1>2 DEF Missing
  <2>2. QED
    BY <2>1 DEF Coherent, Available, RevenueMeasures
<1>8. quantity # None => \A b \in Amounts(bs) : b.column # quantity
  <2>1. quantity # None => \E a \in InRole(bs, "additive_quantity") : a.column = quantity
    BY <1>3, RoleFacts DEF FirstInRole, Cols, InRole
  <2>2. \A a \in InRole(bs, "additive_quantity"), b \in Amounts(bs) : a.column # b.column
    BY <1>3 DEF IsBindings, InRole, Amounts
  <2>3. QED
    BY <2>1, <2>2
<1>9. CASE verified # {}
  <2>1. \A b \in Amounts(bs) : b.verified
    BY <1>5, <1>9
  <2>2. Amounts(bs) # {}
    BY <1>9
  <2>3. ~AsReported(m, ir)
    BY <2>1, <2>2 DEF AsReported
  <2>4. QED
    BY <2>1, <2>3 DEF ir
<1>10. CASE verified = {} /\ quantity # None /\ rate # None
  <2>1. RevenueColumns(bs) = {quantity, rate}
    BY <1>10 DEF RevenueColumns
  <2>2. \A b \in Amounts(bs) : RevenueColumns(bs) # {b.column}
    BY <1>8, <1>10, <2>1
  <2>3. QED
    BY <1>7, <1>10, <2>2 DEF AsReported, ir
<1>11. CASE verified = {} /\ None \in {quantity, rate}
  <2>1. Cardinality(Amounts(bs)) = 1 /\ RevenueColumns(bs) = Cols(Amounts(bs))
    BY <1>7, <1>11 DEF RevenueColumns
  <2>2. PICK b \in Amounts(bs) : Amounts(bs) = {b}
    BY <1>5, <1>6, <2>1
  <2>3. RevenueColumns(bs) = {b.column} /\ ~b.verified
    BY <1>11, <2>1, <2>2 DEF Cols
  <2>4. AsReported(m, ir)
    BY <1>1, <1>11, <2>1 DEF AsReported
  <2>5. QED
    BY <1>7, <2>3, <2>4 DEF ir
<1>12. QED
  BY <1>9, <1>10, <1>11

\* What of an admitted revenue cannot be summed is an amount that nothing
\* checked, and that the answer would report as such.
THEOREM CheckedRevenueSums ==
    ASSUME NEW claims, NEW ev, WellFormed(claims, ev), Buildable(claims, ev),
           NEW plan, DOMAIN plan = PlanFields, ~Verdict(Built(claims, ev), plan).raised,
           plan.measures \cap RevenueMeasures # {},
           ~(Built(claims, ev).reads["net_revenue"] \subseteq Built(claims, ev).numeric)
    PROVE  AsReported(Built(claims, ev), Normalised(Built(claims, ev), plan))
<1> DEFINE m == Built(claims, ev)
           ir == Normalised(m, plan)
           bs == m.bindings
           quantity == FirstInRole(bs, "additive_quantity")
           rate == FirstInRole(bs, "monetary_rate")
           verified == {b \in Amounts(bs) : b.verified}
<1>1. Coherent(m) /\ bs = Bindings(claims, ev) /\ m.numeric = ev.numeric
  BY BuiltCoherent, BuiltFields
<1>2. ir.measures = plan.measures /\ ~Missing(m, ir)
  <2>1. ir.measures = plan.measures
    BY NormalisedFacts DEF PlanFields
  <2>2. ~Missing(m, ir)
    BY AdmittedFacts
  <2>3. QED
    BY <2>1, <2>2
<1>3. \A b \in bs : /\ b.refuted <=> Refuted(Tests(b, Best(claims), ev))
                    /\ b.verified => \E t \in Tests(b, Best(claims), ev) : t[2]
                    /\ \E c \in Best(claims) : c.role = b.role /\ c.column = b.column
  BY <1>1, TestedFacts
<1> HIDE DEF m, ir
<1>4. IsBindings(bs) /\ Amounts(bs) \subseteq bs
  BY <1>1 DEF Coherent, Amounts, InRole
<1>5. /\ m.reads["net_revenue"] = RevenueColumns(bs) /\ RevenueColumns(bs) # {}
      /\ ~(RevenueColumns(bs) \subseteq ev.numeric)
  <2>1. plan.measures \subseteq Available(m)
    BY <1>2 DEF Missing
  <2>2. QED
    BY <1>1, <2>1 DEF Coherent, Available, RevenueMeasures, m
<1>6. verified = {}
  <2> SUFFICES ASSUME verified # {} PROVE FALSE
    OBVIOUS
  <2>1. RevenueColumns(bs) = {First(verified)}
    BY DEF RevenueColumns
  <2>2. PICK b \in verified : b.column = First(verified)
    BY <1>4, RoleFacts DEF Cols
  <2>3. b \in bs /\ b.role = "monetary_amount" /\ b.verified
    BY <1>4 DEF Amounts, InRole
  <2>4. Tests(b, Best(claims), ev) # {}
    BY <1>3, <2>3
  <2>5. None \notin {Proposed(Best(claims), "additive_quantity"), Proposed(Best(claims), "monetary_rate")}
    BY <2>3, <2>4 DEF Tests
  <2>6. PICK c \in Best(claims) : c.role = "monetary_amount" /\ c.column = b.column
    BY <1>3, <2>3
  <2>7. b.column \in ev.numeric
    BY <2>5, <2>6 DEF Buildable
  <2>8. QED
    BY <1>5, <2>1, <2>2, <2>7
<1>7. ASSUME NEW role \in {"additive_quantity", "monetary_rate"}, FirstInRole(bs, role) # None
      PROVE  FirstInRole(bs, role) \in ev.numeric
  <2>1. PICK b \in InRole(bs, role) : b.column = FirstInRole(bs, role)
    BY <1>4, <1>7, RoleFacts DEF FirstInRole, InRole, Cols
  <2>2. b \in bs /\ b.role = role /\ ~Refuted(Tests(b, Best(claims), ev))
    BY <1>3, <2>1 DEF InRole
  <2>3. PICK name \in {"additive_quantity_structure", "monetary_rate_structure"} :
            Tests(b, Best(claims), ev) = {<<name, b.column \in ev.numeric>>}
    BY <2>2 DEF Tests
  <2> DEFINE t == <<name, b.column \in ev.numeric>>
  <2>4. t[1] = name /\ (t[2] <=> b.column \in ev.numeric) /\ t \in Tests(b, Best(claims), ev)
    BY <2>3
  <2>5. t[1] \notin Confirming
    BY <2>4 DEF Confirming
  <2>6. t[2]
    BY <2>2, <2>4, <2>5 DEF Refuted
  <2>7. QED
    BY <2>1, <2>4, <2>6
<1>8. None \in {quantity, rate}
  <2>1. None \notin {quantity, rate} => RevenueColumns(bs) = {quantity, rate}
    BY <1>6 DEF RevenueColumns
  <2>2. QED
    BY <1>5, <1>7, <2>1
<1>9. Cardinality(Amounts(bs)) = 1
  BY <1>5, <1>6, <1>8 DEF RevenueColumns
<1>10. AsReported(m, ir)
  BY <1>2, <1>6, <1>8, <1>9 DEF AsReported
<1>11. QED
  BY <1>10 DEF m, ir
=============================================================================
