------------------------------- MODULE Binder -------------------------------
(***************************************************************************)
(* The binder: the verdict on a plan, given a semantic model.              *)
(*                                                                         *)
(* A plan is the query IR with what the verdict depends on:                *)
(*   measures           names of the measure algebra                       *)
(*   group_by           columns                                            *)
(*   categorical_filters                                                   *)
(*                      [column, invented]: invented says that a value of  *)
(*                      the filter is not among the column's               *)
(*   numeric_filters    [column, open]: open is a "between" that has no    *)
(*                      upper bound, or a bound that is no finite number   *)
(*   time               None, "window", or "misdated": a start or end that *)
(*                      is no date, or more periods than dates go back     *)
(*   top_k              what to rank by, or None                           *)
(*   period_comparison  is it a comparison of two periods                  *)
(*   share_of_total     is the share of the total asked for                *)
(*   distinct_count_of  a reference to count distinct values of, or None   *)
(*   frequency          <<entity, count_of>> references, or <<>>           *)
(*   basket             is it about products bought together               *)
(*   aggregations       [func, column, name]; column None is count( * )    *)
(*   unmet_concepts, unmet_dimensions                                      *)
(*                      did the interpreter find the question to name any  *)
(*   notes              "clarification" if a note mentions one             *)
(* A reference is a column, a role or an entity kind.  The operators of    *)
(* filters are left out: they come from closed sets, and the binder's test *)
(* of them is against plans that bypass the validation of the IR.          *)
(***************************************************************************)
EXTENDS SemanticModel

PlanFields ==
    {"measures", "group_by", "categorical_filters", "numeric_filters", "time", "top_k",
     "period_comparison", "share_of_total", "distinct_count_of", "frequency", "basket",
     "aggregations", "unmet_concepts", "unmet_dimensions", "notes"}

RevenueMeasures == {"net_revenue", "gross_revenue"}

Sound(m) == {b \in m.bindings : ~b.refuted}
BoundColumns(m) == Cols(Sound(m))
Available(m) == {n \in MeasureNames : m.reads[n] # {}}

\* product_identifier_columns
ProductKeys(m) == Cols({b \in InRole(m.bindings, "entity_key") : b.entity = "product"})
\* Mutant of ProductIdentifiers: descriptions are not identifiers.
ProductKeysOnly(m) == ProductKeys(m)
ProductIdentifiers(m) ==
    ProductKeys(m) \cup {l.column : l \in {l \in m.labels : l.entity = "product"}}

\* _resolve_ref.  Of several key columns of an entity kind it takes the first
\* by name; by rank here, which is as good as any order.
Resolve(m, ref) ==
    IF ref \in BoundColumns(m) THEN ref
    ELSE IF ref \in Roles THEN FirstInRole(m.bindings, ref)
    ELSE IF ref \in EntityKinds THEN First({b \in InRole(m.bindings, "entity_key") : b.entity = ref})
    ELSE None

\* The plan with its references resolved to columns, as far as they can be.
Normalised(m, ir) ==
    LET f == [i \in DOMAIN ir.frequency |-> Resolve(m, ir.frequency[i])]
        d == Resolve(m, ir.distinct_count_of)
    IN [ir EXCEPT !.basket = @ \/ "basket_cooccurrence" \in ir.measures,
                  !.frequency = IF \E i \in DOMAIN f : f[i] = None THEN @ ELSE f,
                  !.distinct_count_of = IF d = None THEN @ ELSE d]

Aggregable(m, a) ==
    \/ a.func = "count" /\ a.column = None
    \/ /\ a.column \in Cols(m.bindings) \cup m.numeric
       /\ a.func = "count" \/ a.column \in m.numeric

\* What a ranking may be by.
RankTargets(ir) ==
    ir.measures \cup ir.group_by \cup {a.name : a \in ir.aggregations}
        \cup (IF ir.distinct_count_of # None THEN {"distinct_count"} ELSE {})
        \cup (IF ir.share_of_total THEN {"share"} ELSE {})
        \cup (IF ir.period_comparison THEN {"growth"} ELSE {})

\* Mutant of Missing: what a frequency counts is not looked up.
MissingButFrequency(m, ir) ==
    \/ ~(ir.measures \subseteq Available(m))
    \/ ir.basket /\ "basket_cooccurrence" \notin Available(m)
    \/ ir.distinct_count_of # None /\ ir.distinct_count_of \notin BoundColumns(m)

\* What the plan computes that the model does not have.
Missing(m, ir) ==
    \/ ~(ir.measures \subseteq Available(m))
    \/ ir.basket /\ "basket_cooccurrence" \notin Available(m)
    \/ ir.distinct_count_of # None /\ ir.distinct_count_of \notin BoundColumns(m)
    \/ \E i \in DOMAIN ir.frequency : ir.frequency[i] \notin BoundColumns(m)

Objection(raised, kind, why) == [raised |-> raised, kind |-> kind, why |-> why]

\* The binder's checks of a normalised plan, in its order.
Objections(m, ir) ==
    << Objection(ir.unmet_concepts, "refuse", "unmet_concepts"),
       Objection(ir.unmet_dimensions, "clarify", "unmet_dimensions"),
       Objection(/\ ir.measures = {} /\ ir.aggregations = {}
                 /\ ir.distinct_count_of = None /\ ir.frequency = <<>> /\ ~ir.basket,
                 "refuse", "out_of_domain"),
       Objection(\E a \in ir.aggregations : ~Aggregable(m, a), "refuse", "aggregation"),
       Objection(/\ ir.measures \cap RevenueMeasures # {}
                 /\ Cardinality(Amounts(m.bindings)) > 1,
                 "clarify", "competing_amounts"),
       Objection(Missing(m, ir), "refuse", "missing"),
       Objection(~(ir.group_by \cup Cols(ir.categorical_filters \cup ir.numeric_filters) \subseteq BoundColumns(m)),
                 "refuse", "unbound"),
       Objection(/\ ir.time # None \/ ir.period_comparison
                 /\ FirstInRole(m.bindings, "event_time") = None,
                 "refuse", "event_time"),
       Objection(\E f \in ir.categorical_filters : f.invented /\ f.column \in m.exhaustive,
                 "clarify", "invented_value"),
       Objection(/\ ir.top_k # None /\ ~ir.basket /\ ir.frequency = <<>>
                 /\ ir.top_k \notin RankTargets(ir),
                 "refuse", "rank"),
       Objection("clarification" \in ir.notes, "clarify", "unchanged") >>

\* The first objection raised decides; a plan without one is answerable.
Verdict(m, ir) ==
    LET os == Objections(m, Normalised(m, ir))
        raised == {i \in DOMAIN os : os[i].raised}
    IN IF raised = {} THEN Objection(FALSE, "answer", "none")
       ELSE os[CHOOSE i \in raised : \A k \in raised : i <= k]

-----------------------------------------------------------------------------
(* The plan of an answerable question, past its references. *)

\* A ranking of products, by key or by description, is restricted to the
\* product lines where one value selects them.
AppliedPartitions(m, ir) ==
    IF ir.group_by \cap ProductIdentifiers(m) = {} THEN {}
    ELSE {p.column : p \in {p \in m.partitions : p.single}}

\* A comparison of periods leaves the incomplete ones out.
CompleteFlag(m, ir) == IF ir.period_comparison /\ m.complete # {} THEN {CHOOSE f \in m.complete : TRUE} ELSE {}

\* Mutant of AsReported: of every amount that nothing confirmed.
AsReportedIfUnverified(m, ir) ==
    /\ ir.measures \cap RevenueMeasures # {}
    /\ Cardinality(Amounts(m.bindings)) = 1
    /\ \A b \in Amounts(m.bindings) : ~b.verified

\* Revenue is summed over the one amount there is, and nothing checked it.
AsReported(m, ir) ==
    /\ ir.measures \cap RevenueMeasures # {}
    /\ Cardinality(Amounts(m.bindings)) = 1
    /\ \A b \in Amounts(m.bindings) : ~b.verified
    /\ None \in {FirstInRole(m.bindings, "additive_quantity"), FirstInRole(m.bindings, "monetary_rate")}
=============================================================================
