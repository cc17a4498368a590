------------------------------ MODULE Executor ------------------------------
(***************************************************************************)
(* The executor: what the SQL of a bound plan reads, which plans it cannot *)
(* run, and what the answer says of itself.  A plan here is one the binder *)
(* found answerable, its references resolved.                              *)
(***************************************************************************)
EXTENDS Binder

\* The four shapes of query, by precedence.
Path(ir) ==
    IF ir.basket THEN "basket"
    ELSE IF ir.frequency # <<>> THEN "frequency"
    ELSE IF ir.period_comparison THEN "comparison"
    ELSE "standard"

\* The measures with an SQL expression of their own.
BoundMeasures(ir) ==
    (ir.measures \ {"basket_cooccurrence"}) \cup {a.name : a \in ir.aggregations}

\* The product a basket is about.
BasketProduct(m) == First({b \in InRole(m.bindings, "entity_key") : b.entity = "product"})

\* _where: the columns of the predicates every path shares.
Scope(m, ir) ==
    Cols(ir.categorical_filters \cup ir.numeric_filters)
        \cup AppliedPartitions(m, ir) \cup CompleteFlag(m, ir)
        \cup (IF ir.time # None \/ ir.period_comparison
              THEN {FirstInRole(m.bindings, "event_time")} ELSE {})

\* _basket_scope_predicates: product lines, and no lines whose marker column
\* has a return value.
BasketScope(m) ==
    {p.column : p \in {p \in m.partitions : p.single}}
        \cup (IF m.returns.kind \in {"none", "derived_negative_quantity"} THEN {}
              ELSE {m.returns.column})

\* The columns of the plan's measures.
Computed(m, ir) == UNION {m.reads[n] : n \in ir.measures}

\* _share_denominator runs a standard query of its own, for a basket too.
TakesShare(ir) ==
    /\ ir.share_of_total /\ BoundMeasures(ir) # {}
    /\ ir.frequency = <<>> /\ ~ir.period_comparison

\* What a standard query reads, and the denominator of a share with it.
StandardReads(m, ir) ==
    ir.group_by \cup Scope(m, ir) \cup Computed(m, ir) \cup ({ir.distinct_count_of} \ {None})

\* The columns the SQL reads.  A basket about no product reads nothing itself.
Reads(m, ir) ==
    CASE Path(ir) = "basket" ->
            (IF BasketProduct(m) = None THEN {}
             ELSE {FirstInRole(m.bindings, "transaction_key"), BasketProduct(m)}
                     \cup BasketScope(m) \cup Scope(m, ir))
                \cup (IF TakesShare(ir) THEN StandardReads(m, ir) ELSE {})
      [] Path(ir) = "frequency" ->
            {ir.frequency[i] : i \in DOMAIN ir.frequency} \cup Scope(m, ir)
                \cup Computed(m, ir)
      [] Path(ir) = "comparison" ->
            ir.group_by \cup Scope(m, ir) \cup Computed(m, ir)
      [] OTHER -> StandardReads(m, ir)

\* The columns generic aggregations read, which need not be bound.
Aggregates(ir) == {a.column : a \in ir.aggregations} \ {None}

\* The outputs a standard query can be ordered by.
Outputs(ir) ==
    ir.group_by \cup BoundMeasures(ir)
        \cup (IF ir.distinct_count_of # None THEN {"distinct_count"} ELSE {})

\* The predicates are compiled, but for a basket about no product.
Compiled(m, ir) == Path(ir) # "basket" \/ BasketProduct(m) # None \/ TakesShare(ir)

\* Is an SQL expression of the plan's measures compiled?
Computes(ir) == Path(ir) # "basket" \/ TakesShare(ir)

\* Why a plan the binder admits may fail to run: the binder knows the share and
\* the growth of a ranking and the executor only growth; the comparison asserts
\* a measure; the basket about no product has none of the predicates that the
\* plan announces; a "between" without an upper bound has no operator; the SQL
\* names a column the table lacks.  The others depend on the data too: a filter
\* compares text that is no number with one, an amount that no test looked at is
\* text and has no sum, a flag of returns has values that are no number, a bound
\* of the window is no date.  Left out are arithmetic overflow, outputs of one
\* name, casts between types no role expects, and failures of the store.
DependOnData == {"text_as_number", "no_sum", "no_flag", "no_date"}
Faults(m, ir) ==
    {why \in DependOnData \cup {"rank", "no_measure", "period_claim", "open_between", "unknown_column"} :
        \/ /\ why = "rank"
           /\ Path(ir) = "standard" /\ ir.top_k # None /\ ir.top_k \notin Outputs(ir)
        \/ /\ why = "no_measure"
           /\ Path(ir) = "comparison" /\ BoundMeasures(ir) = {}
        \/ /\ why = "period_claim"
           /\ Path(ir) = "basket" /\ BasketProduct(m) = None /\ CompleteFlag(m, ir) # {}
        \/ /\ why = "open_between"
           /\ Compiled(m, ir) /\ \E f \in ir.numeric_filters : f.open
        \/ /\ why = "unknown_column"
           /\ Compiled(m, ir)
           /\ ~(Reads(m, ir) \cup Aggregates(ir) \subseteq m.columns)
        \/ /\ why = "text_as_number"
           /\ Compiled(m, ir)
           /\ ~(Cols(ir.numeric_filters) \subseteq m.numeric)
        \/ /\ why = "no_sum"
           /\ Computes(ir) /\ ir.measures \cap RevenueMeasures # {}
           /\ ~(m.reads["net_revenue"] \subseteq m.numeric)
        \/ /\ why = "no_flag"
           /\ Computes(ir) /\ "gross_revenue" \in ir.measures
           /\ m.returns.kind = "explicit_flag" /\ m.returns.column \notin m.numeric
        \/ why = "no_date" /\ Compiled(m, ir) /\ ir.time = "misdated"}

\* The partitions whose other lines a standard revenue is not kept from.
Unrestricted(m, ir) ==
    {p \in m.partitions :
        /\ Path(ir) = "standard" /\ BoundMeasures(ir) \cap RevenueMeasures # {}
        /\ p.single /\ p.column \notin AppliedPartitions(m, ir)}

\* What the answer says of itself, and of which column.  Of the lines outside a
\* partition that revenue comes from, _disclose_non_fact_rows looks at those of
\* the first partition only.
Disclosures(m, ir, lines) ==
    {<<"partition", c>> : c \in AppliedPartitions(m, ir)}
        \cup {<<"other_lines", c>> : c \in {First(Unrestricted(m, ir))} \cap lines}
        \cup {d \in {<<"as_reported", None>>, <<"net_of_returns", None>>, <<"returns_excluded", None>>} :
                 \/ d[1] = "as_reported" /\ AsReported(m, ir)
                 \/ d[1] = "net_of_returns" /\ "net_revenue" \in ir.measures /\ m.returns.kind # "none"
                 \/ d[1] = "returns_excluded" /\ Path(ir) = "basket"}
=============================================================================
