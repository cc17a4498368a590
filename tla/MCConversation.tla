--------------------------- MODULE MCConversation ---------------------------
(* A small corpus of files, questions and follow-ups for Conversation. *)
EXTENDS Conversation

CONSTANTS d1, d2

Claim(column, role, entity) == [column |-> column, role |-> role, entity |-> entity]

Sales == << Claim("day", "event_time", None), Claim("invoice", "transaction_key", None),
            Claim("sku", "entity_key", "product"), Claim("cust", "entity_key", "customer"),
            Claim("kind", "dimension", None), Claim("desc", "description", None),
            Claim("month", "dimension", None), Claim("full", "flag", None),
            Claim("line", "flag", None), Claim("channel", "dimension", None) >>
Visits == << Claim("day", "event_time", None), Claim("invoice", "transaction_key", None),
             Claim("cust", "entity_key", "customer"), Claim("month", "dimension", None),
             Claim("full", "flag", None), Claim("paid", "monetary_amount", None) >>
Priced == << Claim("qty", "additive_quantity", None), Claim("price", "monetary_rate", None) >>
Paid == << Claim("paid", "monetary_amount", None) >>
Taxed == << Claim("taxed", "monetary_amount", None) >>

\* Everything the claims say is true of the data.
Clean == [numeric |-> {"qty", "price", "paid", "taxed", "fare"},
          temporal |-> {"day"},
          sharesTime |-> {<<"invoice", "day">>},
          identity |-> {<<"qty", "price", "paid">>},
          fds |-> {<<"sku", "desc">>, <<"day", "month">>, <<"month", "full">>},
          splits |-> <<[dim |-> "kind", flag |-> "line", single |-> TRUE]>>,
          varying |-> {"kind", "full", "line"},
          exhaustive |-> {"kind", "line"},
          negatives |-> TRUE, aligned |-> {}, marking |-> {"line"}, prefixed |-> {}]

SmallCorpus == <<
    [claims |-> Sales \o Priced \o Paid, evidence |-> Clean],
    \* an amount that failed its test, and lines split by two dimensions
    [claims |-> Sales \o Priced \o Paid, evidence |->
        [Clean EXCEPT !.identity = {},
                      !.splits = <<[dim |-> "channel", flag |-> "line", single |-> FALSE],
                                   [dim |-> "kind", flag |-> "line", single |-> TRUE],
                                   [dim |-> "channel", flag |-> "full", single |-> TRUE]>>]],
    [claims |-> Sales \o Priced \o Paid \o Taxed, evidence |-> [Clean EXCEPT !.marking = {}, !.prefixed = {"invoice"}]],
    \* nothing to check the amount in text against; a flag of returns; descriptions name products but not the converse
    [claims |-> Sales \o <<Claim("qty", "additive_quantity", None)>> \o Paid, evidence |->
        [Clean EXCEPT !.fds = (@ \ {<<"sku", "desc">>}) \cup {<<"desc", "sku">>},
                      !.numeric = @ \ {"paid"}, !.aligned = {"line"}]],
    \* a price in text, no verified transaction, and several values select the product lines
    [claims |-> Sales \o Priced, evidence |->
        [Clean EXCEPT !.sharesTime = {}, !.numeric = @ \ {"price"},
                      !.splits = <<[dim |-> "kind", flag |-> "line", single |-> FALSE]>>]],
    \* visits, paid for; no product
    [claims |-> Visits, evidence |-> Clean],
    \* no usable time
    [claims |-> Visits \o Priced, evidence |-> [Clean EXCEPT !.temporal = {}, !.varying = {}]] >>

Blank == [measures |-> {}, group_by |-> {}, categorical_filters |-> {}, numeric_filters |-> {},
          time |-> None, top_k |-> None, period_comparison |-> FALSE, share_of_total |-> FALSE,
          distinct_count_of |-> None, frequency |-> <<>>, basket |-> FALSE, aggregations |-> {},
          unmet_concepts |-> FALSE, unmet_dimensions |-> FALSE, notes |-> {}]
Revenue == [Blank EXCEPT !.measures = {"net_revenue"}]
Units == [Blank EXCEPT !.measures = {"units_sold"}]

Questions == {
    Revenue,
    [Revenue EXCEPT !.group_by = {"desc"}, !.top_k = "net_revenue"],
    [Revenue EXCEPT !.group_by = {"sku"}, !.top_k = "share", !.share_of_total = TRUE],
    [Revenue EXCEPT !.group_by = {"sku"}, !.period_comparison = TRUE, !.top_k = "growth"],
    [Revenue EXCEPT !.frequency = <<"customer", "transaction_key">>],
    [Revenue EXCEPT !.unmet_dimensions = TRUE],
    [Revenue EXCEPT !.notes = {"clarification"}],
    [Blank EXCEPT !.measures = {"gross_revenue"}, !.group_by = {"kind"}, !.time = "window"],
    [Blank EXCEPT !.measures = {"basket_cooccurrence"}, !.period_comparison = TRUE],
    [Blank EXCEPT !.measures = {"basket_cooccurrence", "net_revenue"}, !.share_of_total = TRUE],
    [Blank EXCEPT !.distinct_count_of = "customer", !.period_comparison = TRUE],
    [Blank EXCEPT !.aggregations = {[column |-> "fare", func |-> "avg", name |-> "avg_fare"]}],
    [Units EXCEPT !.categorical_filters = {[column |-> "kind", invented |-> TRUE]}],
    [Units EXCEPT !.numeric_filters = {[column |-> "kind", open |-> FALSE]}],
    [Units EXCEPT !.numeric_filters = {[column |-> "qty", open |-> TRUE]}, !.group_by = {"price"}] }

FollowUps == {
    [measures |-> {"units_sold"}],
    [measures |-> {"order_count"}, top_k |-> None, unmet_concepts |-> TRUE],
    [group_by |-> {"desc"}, time |-> "misdated", unmet_dimensions |-> FALSE],
    [frequency |-> <<"customer", "transaction_key">>],
    [aggregations |-> {[column |-> None, func |-> "count", name |-> "row_count"]}] }

\* One dataset is any of the files, the other one is fixed.
AnyFile == [d \in Datasets |-> IF d = d1 THEN DOMAIN Corpus ELSE {1}]
=============================================================================
