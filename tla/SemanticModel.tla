---------------------------- MODULE SemanticModel ----------------------------
(***************************************************************************)
(* The semantic model of a dataset and how it is built: roles proposed for *)
(* the columns, tests of the proposals against the data, the structure     *)
(* discovered among the columns that survive, and the measures these       *)
(* columns make available.                                                 *)
(*                                                                         *)
(* A proposal is the sequence of claims [column, role, entity] that the    *)
(* provider, or the heuristic proposer, made about the columns, by         *)
(* descending confidence.  What SQL and the profile say of the data is an  *)
(* evidence record:                                                        *)
(*   numeric     the columns with a numeric type                           *)
(*   temporal    the columns whose values are or parse to timestamps       *)
(*   sharesTime  <<key, time>>: rows with one key have one time            *)
(*   identity    <<quantity, rate, amount>> with amount = quantity * rate  *)
(*   fds         <<determinant, dependent>>: functional dependencies as    *)
(*               strong as their use asks                                  *)
(*   splits      in the profile's order, [dim, flag, single]: dim's values *)
(*               split by flag; single says that one value alone is on the *)
(*               fact side                                                 *)
(*   varying     the columns with at least two values                      *)
(*   exhaustive  the columns all of whose values the profile holds         *)
(*   negatives   are there negative quantities; the next three say where   *)
(*   aligned     the flags that are true on just those rows                *)
(*   marking     the columns with a value found on such rows only          *)
(*   prefixed    the keys whose first character marks such rows            *)
(***************************************************************************)
EXTENDS Naturals, Sequences, FiniteSets

None == "none"

Roles == {"event_time", "transaction_key", "entity_key", "additive_quantity",
          "monetary_rate", "monetary_amount", "discount", "dimension", "flag",
          "description", "ignore"}
EntityKinds == {"customer", "product", "location", "other"}
MeasureNames == {"net_revenue", "gross_revenue", "units_sold", "order_count",
                 "basket_cooccurrence"}

-----------------------------------------------------------------------------
(* Bindings.  The rank of a binding is its place by confidence. *)

\* Of several claims about one column the most confident is kept.
Best(claims) ==
    {[column |-> claims[i].column, role |-> claims[i].role, entity |-> claims[i].entity, rank |-> i] :
        i \in {i \in DOMAIN claims : \A k \in 1..(i - 1) : claims[k].column # claims[i].column}}

\* The column of the first binding of a set.
First(bs) ==
    IF bs = {} THEN None ELSE (CHOOSE b \in bs : \A c \in bs : b.rank <= c.rank).column

Proposed(bs, role) == First({b \in bs : b.role = role})

\* The tests of a binding, and whether it passed each.  A transaction key and
\* an amount are tested against the columns proposed for the other roles.
Tests(b, bs, ev) ==
    LET time == Proposed(bs, "event_time")
        quantity == Proposed(bs, "additive_quantity")
        rate == Proposed(bs, "monetary_rate")
    IN CASE b.role = "event_time" -> {<<"event_time_temporal", b.column \in ev.temporal>>}
         [] b.role = "transaction_key" /\ time # None ->
               {<<"transaction_key_shares_time", <<b.column, time>> \in ev.sharesTime>>}
         [] b.role = "additive_quantity" -> {<<"additive_quantity_structure", b.column \in ev.numeric>>}
         [] b.role = "monetary_rate" -> {<<"monetary_rate_structure", b.column \in ev.numeric>>}
         [] b.role = "entity_key" -> {<<"entity_coverage", TRUE>>}
         [] b.role = "monetary_amount" /\ quantity # None /\ rate # None ->
               {<<"stored_amount_identity", <<quantity, rate, b.column>> \in ev.identity>>}
         [] OTHER -> {}

\* Failing a confirming test disproves nothing.
Confirming == {"stored_amount_identity"}

Refuted(tests) == \E t \in tests : ~t[2] /\ t[1] \notin Confirming

\* The bindings of the columns, with what the tests said of them.
Bindings(claims, ev) ==
    LET bs == Best(claims) IN
    {[column |-> b.column, role |-> b.role, entity |-> b.entity, rank |-> b.rank,
      refuted |-> Refuted(Tests(b, bs, ev)),
      verified |-> ~Refuted(Tests(b, bs, ev)) /\ \E t \in Tests(b, bs, ev) : t[2]] : b \in bs}

\* Mutant of InRole: refuted bindings are reachable.
InRoleRefutedToo(bs, role) == {b \in bs : b.role = role}

\* columns_in_role and first_in_role: refuted bindings are unreachable.
InRole(bs, role) == {b \in bs : b.role = role /\ ~b.refuted}
FirstInRole(bs, role) == First(InRole(bs, role))
Cols(bs) == {b.column : b \in bs}

-----------------------------------------------------------------------------
(* Structure discovered among the bindings that survived. *)

\* How returns are marked, from the most explicit convention to the least.
Returns(bs, ev) ==
    LET quantity == FirstInRole(bs, "additive_quantity")
        key == FirstInRole(bs, "transaction_key")
        flags == {b \in InRole(bs, "flag") : b.column \in ev.aligned}
        dims == {b \in InRole(bs, "dimension") : b.column \in ev.marking}
        texts == {b \in InRole(bs, "flag") : b.column \in ev.marking}
    IN IF quantity = None \/ ~ev.negatives THEN [kind |-> "none", column |-> None]
       ELSE IF flags # {} THEN [kind |-> "explicit_flag", column |-> First(flags)]
       ELSE IF dims # {} THEN [kind |-> "explicit_category", column |-> First(dims)]
       ELSE IF texts # {} THEN [kind |-> "explicit_category", column |-> First(texts)]
       ELSE IF key \in ev.prefixed THEN [kind |-> "derived_key_prefix", column |-> key]
       ELSE [kind |-> "derived_negative_quantity", column |-> quantity]

\* The dimensions derived from the event time.
Periods(bs, ev) ==
    {c \in Cols(InRole(bs, "dimension")) : <<FirstInRole(bs, "event_time"), c>> \in ev.fds}

\* Dimensions that split the rows into product lines and others, ranked by the
\* place of their first split.
Partitions(bs, ev) ==
    LET found == {i \in DOMAIN ev.splits :
                     /\ ev.splits[i].dim \in Cols(InRole(bs, "dimension")) \ Periods(bs, ev)
                     /\ ev.splits[i].flag \in Cols(InRole(bs, "flag"))}
        SplitsOf(c) == {i \in found : ev.splits[i].dim = c}
    IN {[column |-> ev.splits[i].dim, rank |-> i,
         single |-> \E k \in SplitsOf(ev.splits[i].dim) : ev.splits[k].single] :
            i \in {i \in found : \A k \in SplitsOf(ev.splits[i].dim) : i <= k}}

\* Flags that tell complete periods from partial ones.
Completeness(bs, ev) ==
    {f \in Cols(InRole(bs, "flag")) \cap ev.varying :
        \E p \in Periods(bs, ev) : <<p, f>> \in ev.fds}

\* Descriptions tied to an entity key by a dependency in either direction.
Labels(bs, ev) ==
    {[column |-> p[1].column, key |-> p[2].column, entity |-> p[2].entity] :
        p \in {p \in InRole(bs, "description") \X InRole(bs, "entity_key") :
                 {<<p[1].column, p[2].column>>, <<p[2].column, p[1].column>>} \cap ev.fds # {}}}

-----------------------------------------------------------------------------
(* Measures. *)

Amounts(bs) == InRole(bs, "monetary_amount")

\* The columns revenue is summed over: an amount that passed the identity,
\* else quantity times rate, else the only amount; none if there is no choice.
RevenueColumns(bs) ==
    LET quantity == FirstInRole(bs, "additive_quantity")
        rate == FirstInRole(bs, "monetary_rate")
        verified == {b \in Amounts(bs) : b.verified}
    IN IF verified # {} THEN {First(verified)}
       ELSE IF quantity # None /\ rate # None THEN {quantity, rate}
       ELSE IF Cardinality(Amounts(bs)) = 1 THEN Cols(Amounts(bs))
       ELSE {}

\* The columns a measure reads; it is unavailable when there are none.
MeasureColumns(bs, returns, name) ==
    LET quantity == FirstInRole(bs, "additive_quantity")
        key == FirstInRole(bs, "transaction_key")
        entity == FirstInRole(bs, "entity_key")
    IN CASE name = "net_revenue" -> RevenueColumns(bs)
         [] name = "gross_revenue" ->
               RevenueColumns(bs) \cup IF RevenueColumns(bs) # {} /\ returns.kind # "none"
                                       THEN {returns.column} ELSE {}
         [] name = "units_sold" -> {quantity} \ {None}
         [] name = "order_count" -> {key} \ {None}
         [] name = "basket_cooccurrence" -> IF None \in {key, entity} THEN {} ELSE {key, entity}

\* The identity test multiplies the proposed quantity and rate: the build, and
\* with it the ingest, fails on text.
Buildable(claims, ev) ==
    LET bs == Best(claims)
        factors == {Proposed(bs, "additive_quantity"), Proposed(bs, "monetary_rate")}
    IN (\E b \in bs : b.role = "monetary_amount") /\ None \notin factors
           => factors \cup {b.column : b \in {b \in bs : b.role = "monetary_amount"}} \subseteq ev.numeric

\* What a proposal and its evidence can be: claims name columns and prefixes
\* are of keys, and None is neither; the splits are in an order.
WellFormed(claims, ev) ==
    /\ Len(claims) \in Nat /\ DOMAIN claims = 1..Len(claims)
    /\ \A i \in DOMAIN claims : claims[i].column # None
    /\ None \notin ev.prefixed
    /\ DOMAIN ev.splits \subseteq Nat

\* build_semantic_model.
Built(claims, ev) ==
    LET bs == Bindings(claims, ev) IN
    [bindings |-> bs,
     returns |-> Returns(bs, ev),
     partitions |-> Partitions(bs, ev),
     complete |-> Completeness(bs, ev),
     labels |-> Labels(bs, ev),
     reads |-> [n \in MeasureNames |-> MeasureColumns(bs, Returns(bs, ev), n)],
     exhaustive |-> {c \in ev.exhaustive : \E b \in bs : b.column = c /\ ~b.refuted},
     numeric |-> ev.numeric,
     columns |-> Cols(bs) \cup ev.numeric]
=============================================================================
