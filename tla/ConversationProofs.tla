-------------------------- MODULE ConversationProofs --------------------------
(***************************************************************************)
(* Whatever the corpus, the questions and the follow-ups, and however long *)
(* the conversation, the properties of Conversation hold.                  *)
(***************************************************************************)
EXTENDS ConversationInv, ExecutorProofs

\* Every model of the corpus is coherent.
LEMMA ModelsCoherent == \A c \in DOMAIN Corpus : Coherent(Models[c])
  BY ConversationAssumption, BuiltCoherent DEF Models

-----------------------------------------------------------------------------
(* Sequences of turns. *)

\* A turn that is added comes last and leaves the earlier ones as they are.
LEMMA AppendFacts ==
    ASSUME NEW ts, ts \in Seq({ts[t] : t \in DOMAIN ts}), NEW r
    PROVE  LET us == Append(ts, r) IN
           /\ DOMAIN ts = 1..Len(ts) /\ Len(ts) \in Nat
           /\ Len(us) = Len(ts) + 1 /\ DOMAIN us = 1..(Len(ts) + 1)
           /\ \A t \in DOMAIN ts : t \in DOMAIN us /\ us[t] = ts[t]
           /\ us[Len(ts) + 1] = r
           /\ us \in Seq({us[t] : t \in DOMAIN us})
<1> DEFINE R == {ts[t] : t \in DOMAIN ts}
           us == Append(ts, r)
<1>1. DOMAIN ts = 1..Len(ts) /\ Len(ts) \in Nat
  OBVIOUS
<1>2. ts \in Seq(R \cup {r})
  BY <1>1
<1>3. /\ us \in Seq(R \cup {r})
      /\ Len(us) = Len(ts) + 1 /\ DOMAIN us = 1..(Len(ts) + 1)
      /\ \A t \in 1..Len(ts) : us[t] = ts[t]
      /\ us[Len(ts) + 1] = r
  BY <1>2
<1>4. us \in Seq({us[t] : t \in DOMAIN us})
  BY <1>3
<1>5. QED
  BY <1>1, <1>3, <1>4

\* A turn that ends keeps what it carries, and the other turns all they have.
LEMMA EndFacts ==
    ASSUME turns \in Seq({turns[t] : t \in DOMAIN turns}),
           \A t \in DOMAIN turns : DOMAIN turns[t] = TurnFields,
           NEW t \in DOMAIN turns, NEW outcome, NEW why, NEW says, NEW lines,
           End(t, outcome, why, says, lines)
    PROVE  /\ DOMAIN turns' = DOMAIN turns /\ Len(turns') = Len(turns)
           /\ turns' \in Seq({turns'[s] : s \in DOMAIN turns'})
           /\ \A s \in DOMAIN turns \ {t} : turns'[s] = turns[s]
           /\ \A s \in DOMAIN turns :
                 /\ DOMAIN turns'[s] = TurnFields
                 /\ turns'[s].file = turns[s].file /\ turns'[s].previous = turns[s].previous
                 /\ turns'[s].changes = turns[s].changes /\ turns'[s].gaps = turns[s].gaps
                 /\ turns'[s].ir = turns[s].ir
           /\ turns'[t].outcome = outcome /\ turns'[t].why = why
           /\ turns'[t].says = says /\ turns'[t].lines = lines
<1> DEFINE r == [turns[t] EXCEPT !.outcome = outcome, !.why = why, !.says = says, !.lines = lines]
<1>1. turns' = [turns EXCEPT ![t] = r]
  BY DEF End
<1>2. /\ DOMAIN turns = 1..Len(turns) /\ Len(turns) \in Nat
      /\ DOMAIN turns' = DOMAIN turns
      /\ turns'[t] = r /\ \A s \in DOMAIN turns \ {t} : turns'[s] = turns[s]
  BY <1>1
<1>3. /\ DOMAIN r = TurnFields
      /\ r.file = turns[t].file /\ r.previous = turns[t].previous
      /\ r.changes = turns[t].changes /\ r.gaps = turns[t].gaps /\ r.ir = turns[t].ir
      /\ r.outcome = outcome /\ r.why = why /\ r.says = says /\ r.lines = lines
  BY DEF TurnFields
<1> HIDE DEF r
<1>4. turns' \in Seq({turns'[s] : s \in DOMAIN turns'}) /\ Len(turns') = Len(turns)
  <2> DEFINE R == {turns[s] : s \in DOMAIN turns}
  <2>1. turns \in Seq(R \cup {r})
    BY <1>2
  <2>2. turns' \in Seq(R \cup {r}) /\ Len(turns') = Len(turns)
    BY <1>1, <1>2, <2>1
  <2>3. QED
    BY <2>2
<1>5. QED
  BY <1>2, <1>3, <1>4

-----------------------------------------------------------------------------
(* The verdict and the faults, by name. *)

\* What a declined plan is told, and what it is told of gaps is so.
LEMMA DeclinedFacts ==
    ASSUME NEW m, NEW plan, DOMAIN plan = PlanFields, Verdict(m, plan).raised
    PROVE  LET v == Verdict(m, plan) IN
           /\ v.kind \in {"clarify", "refuse"}
           /\ v.why = "unmet_concepts" => plan.unmet_concepts
           /\ v.why = "unmet_dimensions" => plan.unmet_dimensions
<1> DEFINE ir == Normalised(m, plan)
           os == Objections(m, ir)
           v == Verdict(m, plan)
<1>1. PICK i \in 1..11 : os[i].raised /\ v = os[i]
  BY VerdictFacts
<1>2. /\ ir.unmet_concepts = plan.unmet_concepts
      /\ ir.unmet_dimensions = plan.unmet_dimensions
  BY NormalisedFacts DEF PlanFields
<1> HIDE DEF ir
<1>3. /\ os[1].why = "unmet_concepts" /\ os[1].kind = "refuse" /\ (os[1].raised => ir.unmet_concepts)
      /\ os[2].why = "unmet_dimensions" /\ os[2].kind = "clarify" /\ (os[2].raised => ir.unmet_dimensions)
      /\ os[3].why = "out_of_domain" /\ os[3].kind = "refuse"
  BY DEF Objections, Objection
<1>4. /\ os[4].why = "aggregation" /\ os[4].kind = "refuse"
      /\ os[5].why = "competing_amounts" /\ os[5].kind = "clarify"
      /\ os[6].why = "missing" /\ os[6].kind = "refuse"
  BY DEF Objections, Objection
<1>5. /\ os[7].why = "unbound" /\ os[7].kind = "refuse"
      /\ os[8].why = "event_time" /\ os[8].kind = "refuse"
      /\ os[9].why = "invented_value" /\ os[9].kind = "clarify"
  BY DEF Objections, Objection
<1>6. /\ os[10].why = "rank" /\ os[10].kind = "refuse"
      /\ os[11].why = "unchanged" /\ os[11].kind = "clarify"
  BY DEF Objections, Objection
<1> HIDE DEF os
<1>7. \/ i = 1 \/ i = 2 \/ i = 3 \/ i = 4 \/ i = 5 \/ i = 6
      \/ i = 7 \/ i = 8 \/ i = 9 \/ i = 10 \/ i = 11
  OBVIOUS
<1>8. CASE i \in {1, 2, 3, 4}
  BY <1>1, <1>2, <1>3, <1>4, <1>8
<1>9. CASE i \in {5, 6, 7, 8}
  BY <1>1, <1>4, <1>5, <1>9
<1>10. CASE i \in {9, 10, 11}
  BY <1>1, <1>2, <1>5, <1>6, <1>10
<1>11. QED
  BY <1>7, <1>8, <1>9, <1>10

\* What can be wrong with a plan that is admitted.
LEMMA FaultNames ==
    ASSUME NEW m, NEW ir
    PROVE  Faults(m, ir) \subseteq {"rank", "no_measure", "period_claim", "open_between", "unknown_column",
                                   "text_as_number", "no_sum", "no_flag", "no_date"}
  BY DEF Faults, DependOnData

\* What an answer says, by kind.
LEMMA DisclosureFacts ==
    ASSUME NEW m, NEW ir, NEW lines
    PROVE  LET says == Disclosures(m, ir, lines) IN
           /\ <<"as_reported", None>> \in says <=> AsReported(m, ir)
           /\ \A c : <<"partition", c>> \in says <=> c \in AppliedPartitions(m, ir)
           /\ \A c : <<"other_lines", c>> \in says <=> c = First(Unrestricted(m, ir)) /\ c \in lines
  BY DEF Disclosures

\* The keys and descriptions of sound products identify products.
LEMMA IdentifierFacts ==
    ASSUME NEW m, NEW ev, m.labels = Labels(m.bindings, ev)
    PROVE  LET products == {b.column : b \in {b \in Sound(m) : b.role = "entity_key" /\ b.entity = "product"}}
               labels == {b.column : b \in {b \in Sound(m) : b.role = "description"
                                                /\ \E k \in products : <<k, b.column>> \in ev.fds}}
           IN products \cup labels \subseteq ProductIdentifiers(m)
<1> DEFINE products == {b.column : b \in {b \in Sound(m) : b.role = "entity_key" /\ b.entity = "product"}}
           labels == {b.column : b \in {b \in Sound(m) : b.role = "description"
                                            /\ \E k \in products : <<k, b.column>> \in ev.fds}}
<1>1. products \subseteq ProductKeys(m)
  BY DEF ProductKeys, Sound, InRole, Cols
<1>2. ASSUME NEW b \in Sound(m), b.role = "description",
             NEW k \in Sound(m), k.role = "entity_key", k.entity = "product",
             <<k.column, b.column>> \in ev.fds
      PROVE  \E l \in m.labels : l.entity = "product" /\ l.column = b.column
  <2> DEFINE l == [column |-> b.column, key |-> k.column, entity |-> k.entity]
  <2>1. b \in InRole(m.bindings, "description") /\ k \in InRole(m.bindings, "entity_key")
    BY <1>2 DEF InRole, Sound
  <2>2. <<b, k>> \in {q \in InRole(m.bindings, "description") \X InRole(m.bindings, "entity_key") :
                         {<<q[1].column, q[2].column>>, <<q[2].column, q[1].column>>} \cap ev.fds # {}}
    BY <1>2, <2>1
  <2>3. l \in m.labels
    <3>1. l = [column |-> <<b, k>>[1].column, key |-> <<b, k>>[2].column,
               entity |-> <<b, k>>[2].entity]
      OBVIOUS
    <3> HIDE DEF l
    <3>2. QED
      BY <2>2, <3>1 DEF Labels
  <2>4. l.entity = "product" /\ l.column = b.column
    BY <1>2
  <2>5. QED
    BY <2>3, <2>4
<1>3. ASSUME NEW c \in labels PROVE c \in {l.column : l \in {l \in m.labels : l.entity = "product"}}
  <2>1. PICK b \in Sound(m) : /\ c = b.column /\ b.role = "description"
                              /\ \E k \in products : <<k, b.column>> \in ev.fds
    OBVIOUS
  <2>2. PICK k \in Sound(m) : /\ k.role = "entity_key" /\ k.entity = "product"
                              /\ <<k.column, b.column>> \in ev.fds
    BY <2>1
  <2>3. QED
    BY <1>2, <2>1, <2>2
<1>4. QED
  BY <1>1, <1>3 DEF ProductIdentifiers

\* The first of the single-valued partitions is the one of least rank.
LEMMA FirstPartition ==
    ASSUME NEW bs, NEW ev, DOMAIN ev.splits \subseteq Nat,
           NEW p \in Partitions(bs, ev), p.single
    PROVE  LET single == {q \in Partitions(bs, ev) : q.single} IN
           First(single) = p.column <=> \A q \in single : p.rank <= q.rank
<1> DEFINE single == {q \in Partitions(bs, ev) : q.single}
<1>1. \A q \in Partitions(bs, ev) : q.rank \in Nat /\ q.column = ev.splits[q.rank].dim
  BY DEF Partitions
<1>2. \A q, o \in Partitions(bs, ev) : q.column = o.column => q.rank = o.rank
  <2>1. \A q, o \in Partitions(bs, ev) : q.column = o.column => q.rank <= o.rank
    BY DEF Partitions
  <2>2. QED
    BY <1>1, <2>1
<1> DEFINE least == CHOOSE b \in single : \A c \in single : b.rank <= c.rank
<1>3. single # {} /\ First(single) = least.column
  BY DEF First
<1>4. \A q \in single : q.rank \in Nat
  BY <1>1
<1>5. least \in single /\ \A c \in single : least.rank <= c.rank
  <2> DEFINE ranks == {b.rank : b \in single}
  <2>1. PICK n \in ranks : \A k \in ranks : n <= k
    BY <1>3, <1>4, LeastNumber
  <2>2. \E b \in single : \A c \in single : b.rank <= c.rank
    BY <2>1
  <2>3. QED
    BY <2>2
<1> HIDE DEF least
<1>6. ASSUME least.column = p.column PROVE \A q \in single : p.rank <= q.rank
  BY <1>2, <1>5, <1>6
<1>7. ASSUME \A q \in single : p.rank <= q.rank PROVE least.column = p.column
  <2>1. least.rank = p.rank
    BY <1>4, <1>5, <1>7
  <2>2. QED
    BY <1>1, <1>5, <2>1
<1>8. QED
  BY <1>3, <1>6, <1>7

\* A plan that asks for the basket measure is about a basket.
LEMMA NormalisedBasket ==
    ASSUME NEW m, NEW plan, DOMAIN plan = PlanFields
    PROVE  "basket_cooccurrence" \in Normalised(m, plan).measures => Normalised(m, plan).basket
<1>1. Normalised(m, plan).measures = plan.measures
  BY NormalisedFacts DEF PlanFields
<1>2. Normalised(m, plan).basket = (plan.basket \/ "basket_cooccurrence" \in plan.measures)
  BY DEF Normalised, PlanFields
<1>3. QED
  BY <1>1, <1>2

\* Of the rankings the binder admits only one by share has no order.
LEMMA UnorderedRanking ==
    ASSUME NEW m, NEW plan, DOMAIN plan = PlanFields, ~Verdict(m, plan).raised, "rank" \in Faults(m, Normalised(m, plan))
    PROVE  Normalised(m, plan).top_k = "share"
<1> DEFINE ir == Normalised(m, plan)
<1>1. ~(/\ ir.top_k # None /\ ~ir.basket /\ ir.frequency = <<>>
        /\ ir.top_k \notin RankTargets(ir))
  BY AdmittedFacts
<1>2. ~Missing(m, ir)
  BY AdmittedFacts
<1> HIDE DEF ir
<1>3. /\ Path(ir) = "standard" /\ ir.top_k # None /\ ir.top_k \notin Outputs(ir)
  BY DEF Faults, DependOnData, ir
<1>4. ~ir.basket /\ ir.frequency = <<>> /\ ~ir.period_comparison
  BY <1>3 DEF Path
<1>5. "basket_cooccurrence" \notin ir.measures
  BY <1>4, NormalisedBasket DEF ir
<1>6. ir.top_k \in RankTargets(ir)
  BY <1>1, <1>3, <1>4
<1>7. QED
  BY <1>3, <1>4, <1>5, <1>6 DEF RankTargets, Outputs, BoundMeasures, ir

\* A comparison the binder admits without a measure counts distinct values.
LEMMA ComparedWithoutMeasure ==
    ASSUME NEW m, NEW plan, DOMAIN plan = PlanFields, ~Verdict(m, plan).raised,
           "no_measure" \in Faults(m, Normalised(m, plan))
    PROVE  plan.distinct_count_of # None
<1> DEFINE ir == Normalised(m, plan)
<1>1. ~(/\ ir.measures = {} /\ ir.aggregations = {}
        /\ ir.distinct_count_of = None /\ ir.frequency = <<>> /\ ~ir.basket)
  BY AdmittedFacts
<1>2. ir.distinct_count_of # None => plan.distinct_count_of # None
  <2>1. Resolve(m, None) = None
    BY DEF Resolve, None, Roles, EntityKinds
  <2>2. ir.distinct_count_of = IF Resolve(m, plan.distinct_count_of) = None
                               THEN plan.distinct_count_of
                               ELSE Resolve(m, plan.distinct_count_of)
    BY DEF Normalised, PlanFields
  <2>3. QED
    BY <2>1, <2>2
<1>3. "basket_cooccurrence" \in ir.measures => ir.basket
  BY NormalisedBasket
<1> HIDE DEF ir
<1>4. Path(ir) = "comparison" /\ BoundMeasures(ir) = {}
  BY DEF Faults, DependOnData, ir
<1>5. ~ir.basket /\ ir.frequency = <<>>
  BY <1>4 DEF Path
<1>6. ir.measures = {} /\ ir.aggregations = {}
  BY <1>3, <1>4, <1>5 DEF BoundMeasures
<1>7. QED
  BY <1>1, <1>2, <1>5, <1>6

-----------------------------------------------------------------------------
(* The invariant. *)

\* A turn that was submitted last: what it carries and what its notes say.
LEMMA SubmitInv ==
    ASSUME TurnsInv, NEW d \in Datasets, NEW previous, NEW changes, NEW gaps, NEW ir,
           Submit(d, previous, changes, gaps, ir),
           previous = NoTurn \/ (previous \in DOMAIN turns /\ turns[previous].outcome \in Verdicts),
           changes \subseteq Mergeable, DOMAIN ir = PlanFields,
           gaps = {f \in Diagnostic : ir[f]},
           previous # NoTurn /\ changes = {} => "clarification" \in ir.notes
    PROVE  TurnsInv'
<1> DEFINE r == [file |-> file[d], previous |-> previous, changes |-> changes, gaps |-> gaps,
                 ir |-> ir, outcome |-> "running", why |-> "none", says |-> {}, lines |-> {}]
<1>1. turns' = Append(turns, r) /\ file' = file /\ Len(turns) < MaxTurns
  BY DEF Submit
<1>2. /\ DOMAIN r = TurnFields
      /\ r.file = file[d] /\ r.previous = previous /\ r.changes = changes /\ r.gaps = gaps
      /\ r.ir = ir /\ r.outcome = "running" /\ r.why = "none"
  BY DEF TurnFields
<1> HIDE DEF r
<1>3. turns \in Seq({turns[t] : t \in DOMAIN turns})
  BY DEF TurnsInv
<1> PICK n : n = Len(turns) + 1
  OBVIOUS
<1>4. /\ DOMAIN turns = 1..Len(turns) /\ Len(turns) \in Nat
      /\ Len(turns') = n /\ DOMAIN turns' = 1..n
      /\ \A t \in DOMAIN turns : t \in DOMAIN turns' /\ turns'[t] = turns[t]
      /\ turns'[n] = r
      /\ turns' \in Seq({turns'[t] : t \in DOMAIN turns'})
  BY <1>1, <1>3, AppendFacts
<1>5. Len(turns') <= MaxTurns
  BY <1>1, <1>4, ConversationAssumption
<1>6. \A e \in Datasets : file'[e] \in Files[e]
  BY <1>1 DEF TurnsInv
<1>7. Carried(r) /\ Justified(r)
  <2>1. file[d] \in DOMAIN Corpus
    BY ConversationAssumption DEF TurnsInv
  <2>2. Carried(r)
    BY <1>2, <2>1 DEF Carried, Outcomes
  <2>3. Justified(r)
    BY <1>2 DEF Justified
  <2>4. QED
    BY <2>2, <2>3
<1>8. ASSUME NEW t \in DOMAIN turns PROVE Linked(t)'
  <2>1. Linked(t)
    BY DEF TurnsInv
  <2>2. \A p \in 1..(t - 1) : p \in DOMAIN turns
    BY <1>4
  <2>3. QED
    BY <1>4, <2>1, <2>2 DEF Linked
<1>9. Linked(n)'
  BY <1>2, <1>4 DEF Linked
<1>10. ASSUME NEW t \in DOMAIN turns'
       PROVE  Carried(turns'[t]) /\ Justified(turns'[t]) /\ Linked(t)'
  <2>1. CASE t \in DOMAIN turns
    BY <1>4, <1>8, <2>1 DEF TurnsInv
  <2>2. CASE t = n
    BY <1>4, <1>7, <1>9, <2>2
  <2>3. QED
    BY <1>4, <2>1, <2>2
<1>11. QED
  BY <1>4, <1>5, <1>6, <1>10 DEF TurnsInv, Carried, Justified

\* A turn that ends: it must say why, and the links stay as they are.
LEMMA EndInv ==
    ASSUME TurnsInv, NEW t \in DOMAIN turns, NEW outcome \in Outcomes, NEW why, NEW says, NEW lines,
           turns[t].outcome = "running", End(t, outcome, why, says, lines),
           \A r : /\ r.file = turns[t].file /\ r.ir = turns[t].ir
                  /\ r.outcome = outcome /\ r.why = why /\ r.says = says /\ r.lines = lines
                  => Justified(r)
    PROVE  TurnsInv'
<1>1. /\ turns \in Seq({turns[s] : s \in DOMAIN turns})
      /\ \A s \in DOMAIN turns : DOMAIN turns[s] = TurnFields
  BY DEF TurnsInv, Carried
<1>2. /\ DOMAIN turns' = DOMAIN turns /\ Len(turns') = Len(turns)
      /\ turns' \in Seq({turns'[s] : s \in DOMAIN turns'})
      /\ \A s \in DOMAIN turns \ {t} : turns'[s] = turns[s]
      /\ \A s \in DOMAIN turns :
            /\ DOMAIN turns'[s] = TurnFields
            /\ turns'[s].file = turns[s].file /\ turns'[s].previous = turns[s].previous
            /\ turns'[s].changes = turns[s].changes /\ turns'[s].gaps = turns[s].gaps
            /\ turns'[s].ir = turns[s].ir
      /\ turns'[t].outcome = outcome /\ turns'[t].why = why
      /\ turns'[t].says = says /\ turns'[t].lines = lines
  BY SMTT(30), <1>1, EndFacts
<1>3. turns[t].outcome = "running" /\ file' = file
  BY DEF End
<1>4. ASSUME NEW s \in DOMAIN turns PROVE Carried(turns'[s])
  <2>1. Carried(turns[s])
    BY DEF TurnsInv
  <2>2. turns'[s].outcome \in Outcomes
    BY <1>2, <2>1 DEF Carried
  <2>3. QED
    BY <1>2, <2>1, <2>2 DEF Carried
<1>5. ASSUME NEW s \in DOMAIN turns PROVE Justified(turns'[s])
  <2>1. CASE s = t
    BY <1>2, <2>1
  <2>2. CASE s # t
    BY <1>2, <2>2 DEF TurnsInv
  <2>3. QED
    BY <2>1, <2>2
<1>6. ASSUME NEW s \in DOMAIN turns PROVE Linked(s)'
  <2>1. Linked(s)
    BY DEF TurnsInv
  <2>2. \A p \in DOMAIN turns : turns[p].outcome \in Verdicts => turns'[p].outcome \in Verdicts
    BY <1>2, <1>3 DEF Verdicts
  <2>3. DOMAIN turns = 1..Len(turns) /\ Len(turns) \in Nat
    BY <1>1
  <2>4. \A p \in 1..(s - 1) : p \in DOMAIN turns
    BY <2>3
  <2>5. turns'[s].previous \in {NoTurn} \cup {p \in 1..(s - 1) : turns'[p].outcome \in Verdicts}
    BY <1>2, <2>1, <2>2, <2>4 DEF Linked
  <2>6. turns'[s].ir = turns[s].ir /\ turns'[s].previous = turns[s].previous
        /\ turns'[s].changes = turns[s].changes
    BY <1>2
  <2>7. QED
    BY <2>1, <2>5, <2>6 DEF Linked
<1>7. QED
  BY <1>2, <1>3, <1>4, <1>5, <1>6 DEF TurnsInv, Carried, Justified

\* The invariant holds of the empty conversation.
LEMMA InitInv == Init => TurnsInv
<1> SUFFICES ASSUME Init PROVE TurnsInv
  OBVIOUS
<1>1. turns = <<>> /\ \A d \in Datasets : file[d] \in Files[d]
  BY DEF Init
<1>2. DOMAIN turns = {} /\ Len(turns) = 0 /\ turns \in Seq({turns[t] : t \in DOMAIN turns})
  BY <1>1
<1>3. QED
  BY <1>1, <1>2, ConversationAssumption DEF TurnsInv

\* A first question.
LEMMA AskInv ==
    ASSUME TurnsInv, NEW d \in Datasets, NEW ir \in Plans, Ask(d, ir)
    PROVE  TurnsInv'
<1>1. DOMAIN ir = PlanFields
  BY ConversationAssumption
<1>2. Submit(d, NoTurn, {}, {f \in Diagnostic : ir[f]}, ir)
  BY DEF Ask
<1>3. QED
  BY <1>1, <1>2, SubmitInv

\* A follow-up: the merged plan has the fields of a plan, the gaps of its own
\* question, and asks for a clarification if the follow-up changes nothing.
LEMMA FollowUpInv ==
    ASSUME TurnsInv, NEW d \in Datasets, NEW p, NEW partial \in Partials,
           FollowUp(d, p, partial)
    PROVE  TurnsInv'
<1> DEFINE old == turns[p].ir
           new == Merge(old, partial)
           gaps == {f \in Diagnostic \cap DOMAIN partial : partial[f]}
<1>1. /\ p \in DOMAIN turns /\ turns[p].outcome \in Verdicts
      /\ Submit(d, p, Overrides(partial), gaps, new)
  BY DEF FollowUp
<1>2. DOMAIN old = PlanFields
  BY <1>1 DEF TurnsInv, Carried
<1>3. DOMAIN turns = 1..Len(turns) /\ Len(turns) \in Nat
  BY DEF TurnsInv
<1> HIDE DEF old
<1>4. DOMAIN new = PlanFields
  BY <1>2 DEF Merge
<1>5. \A f \in Diagnostic : f \notin Overrides(partial) /\ f \in PlanFields
  BY DEF Diagnostic, Overrides, Mergeable, PlanFields
<1>6. ASSUME NEW f \in Diagnostic
      PROVE  new[f] <=> f \in DOMAIN partial /\ partial[f]
  <2> DEFINE given == f \in DOMAIN partial /\ partial[f]
  <2>1. new[f] = CASE f \in Overrides(partial) -> partial[f]
                   [] f \in Diagnostic -> given
                   [] f = "notes" /\ Overrides(partial) = {} -> old[f] \cup {"clarification"}
                   [] OTHER -> old[f]
    BY Zenon, <1>2, <1>5 DEF Merge
  <2>2. f \notin Overrides(partial) /\ f # "notes"
    BY <1>5 DEF Diagnostic
  <2>3. given \in BOOLEAN
    OBVIOUS
  <2> HIDE DEF given
  <2>4. new[f] = given
    BY <2>1, <2>2
  <2>5. QED
    BY <2>3, <2>4 DEF given
<1>7. gaps = {f \in Diagnostic : new[f]}
  BY <1>6
<1>8. "notes" \notin Overrides(partial) \cup Diagnostic /\ "notes" \in PlanFields
  BY DEF Diagnostic, Overrides, Mergeable, PlanFields
<1>9. Overrides(partial) = {} => "clarification" \in new.notes
  BY <1>2, <1>8 DEF Merge
<1>10. Overrides(partial) \subseteq Mergeable /\ p # NoTurn
  BY <1>1, <1>3 DEF Overrides, NoTurn
<1> HIDE DEF new, gaps
<1>11. QED
  BY <1>1, <1>4, <1>7, <1>9, <1>10, SubmitInv DEF old

\* A turn that finishes.
LEMMA FinishInv ==
    ASSUME TurnsInv, NEW t \in DOMAIN turns, Finish(t)
    PROVE  TurnsInv'
<1> USE DEF Outcomes, Verdicts
<1>0. turns[t].outcome = "running"
  BY DEF Finish
<1>1. CASE Decline(t)
  <2> DEFINE v == Verdict(ModelOf(t), turns[t].ir)
  <2>1. v.raised /\ End(t, v.kind, v.why, {}, {})
    BY <1>1 DEF Decline
  <2>2. DOMAIN turns[t].ir = PlanFields
    BY DEF TurnsInv, Carried
  <2>3. v.kind \in {"clarify", "refuse"}
    BY <2>1, <2>2, DeclinedFacts
  <2>4. ASSUME NEW r, r.file = turns[t].file, r.ir = turns[t].ir,
               r.outcome = v.kind, r.why = v.why
        PROVE  Justified(r)
    BY <2>1, <2>3, <2>4 DEF Justified, ModelOf
  <2> HIDE DEF v
  <2>5. QED
    BY <1>0, <2>1, <2>3, <2>4, EndInv
<1>2. CASE Answer(t)
  <2>1. PICK lines \in SUBSET Cols(Unrestricted(ModelOf(t), Bound(t))) :
            /\ Admitted(t)
            /\ End(t, "answer", "none", Disclosures(ModelOf(t), Bound(t), lines), lines)
    BY <1>2 DEF Answer
  <2> DEFINE says == Disclosures(ModelOf(t), Bound(t), lines)
  <2>2. ASSUME NEW r, r.file = turns[t].file, r.ir = turns[t].ir,
               r.outcome = "answer", r.why = "none", r.says = says, r.lines = lines
        PROVE  Justified(r)
    BY <2>1, <2>2 DEF Justified, ModelOf, Admitted, Bound
  <2>3. End(t, "answer", "none", says, lines)
    BY <2>1
  <2> HIDE DEF says
  <2>4. QED
    BY <1>0, <2>2, <2>3, EndInv
<1>3. CASE AskForPeriods(t)
  <2>1. End(t, "clarify", "periods", {}, {})
    BY <1>3 DEF AskForPeriods
  <2>2. \A r : r.outcome = "clarify" /\ r.why = "periods" => Justified(r)
    BY DEF Justified
  <2>3. QED
    BY <1>0, <2>1, <2>2, EndInv
<1>4. CASE ExecutionFails(t)
  <2>1. PICK fault \in Faults(ModelOf(t), Bound(t)) : End(t, "failed", fault, {}, {})
    BY <1>4 DEF ExecutionFails
  <2>2. Admitted(t)
    BY <1>4 DEF ExecutionFails
  <2>3. ASSUME NEW r, r.file = turns[t].file, r.ir = turns[t].ir,
               r.outcome = "failed", r.why = fault
        PROVE  Justified(r)
    BY <2>2, <2>3 DEF Justified, ModelOf, Admitted, Bound
  <2>4. QED
    BY <1>0, <2>1, <2>3, EndInv
<1>5. CASE InterpretationFails(t)
  <2>1. End(t, "failed", "interpretation", {}, {})
    BY <1>5 DEF InterpretationFails
  <2>2. \A r : r.outcome = "failed" /\ r.why = "interpretation" => Justified(r)
    BY DEF Justified
  <2>3. QED
    BY <1>0, <2>1, <2>2, EndInv
<1>6. QED
  BY <1>1, <1>2, <1>3, <1>4, <1>5 DEF Finish

\* The invariant of every conversation.
THEOREM ConversationInvariant == Spec => []TurnsInv
<1>1. TurnsInv /\ [Next]_vars => TurnsInv'
  <2> SUFFICES ASSUME TurnsInv, [Next]_vars PROVE TurnsInv'
    OBVIOUS
  <2>1. CASE \E d \in Datasets, ir \in Plans : Ask(d, ir)
    BY <2>1, AskInv
  <2>2. CASE \E d \in Datasets, p \in 1..MaxTurns, partial \in Partials : FollowUp(d, p, partial)
    BY <2>2, FollowUpInv
  <2>3. CASE \E t \in DOMAIN turns : Finish(t)
    BY <2>3, FinishInv
  <2>4. CASE UNCHANGED vars
    <3>1. turns' = turns /\ file' = file
      BY <2>4 DEF vars
    <3>2. \A t : (Linked(t)' <=> Linked(t))
      BY <3>1 DEF Linked
    <3>3. \A r : (Carried(r)' <=> Carried(r)) /\ (Justified(r)' <=> Justified(r))
      BY DEF Carried, Justified
    <3>4. QED
      BY <3>1, <3>2, <3>3 DEF TurnsInv
  <2>5. QED
    BY <2>1, <2>2, <2>3, <2>4 DEF Next
<1>2. QED
  BY <1>1, InitInv, PTL DEF Spec

-----------------------------------------------------------------------------
(* What the invariant shows. *)

\* An answered turn: its plan was admitted by a coherent model, and the answer
\* says what the executor discloses.
LEMMA AnsweredFacts ==
    ASSUME TurnsInv, NEW t \in Answered
    PROVE  /\ turns[t].file \in DOMAIN Corpus
           /\ Coherent(ModelOf(t))
           /\ DOMAIN turns[t].ir = PlanFields
           /\ ~Verdict(ModelOf(t), turns[t].ir).raised
           /\ turns[t].says = Disclosures(ModelOf(t), Bound(t), turns[t].lines)
<1>1. t \in DOMAIN turns /\ turns[t].outcome = "answer"
  BY DEF Answered
<1>2. Carried(turns[t]) /\ Justified(turns[t])
  BY <1>1 DEF TurnsInv
<1>3. turns[t].file \in DOMAIN Corpus /\ DOMAIN turns[t].ir = PlanFields
  BY <1>2 DEF Carried
<1>4. Coherent(ModelOf(t))
  BY <1>3, ModelsCoherent DEF ModelOf
<1>5. /\ ~Verdict(ModelOf(t), turns[t].ir).raised
      /\ turns[t].says = Disclosures(ModelOf(t), Bound(t), turns[t].lines)
  BY <1>1, <1>2 DEF Justified, ModelOf, Bound
<1>6. QED
  BY <1>3, <1>4, <1>5

\* The types of a conversation, and that a follow-up starts from an earlier
\* turn that has a result.
THEOREM ConversationTypes == Spec => []ConversationTypeOK
<1>1. TurnsInv => ConversationTypeOK
  BY DEF TurnsInv, Carried, Linked, ConversationTypeOK
<1>2. QED
  BY <1>1, ConversationInvariant, PTL

\* No answer reads a column that its dataset's model does not bind or that a
\* test refuted, however the conversation came by its plan.
THEOREM AnswersReadSoundly == Spec => []SoundReads
<1>1. TurnsInv => SoundReads
  BY AnsweredFacts, ReadsBound DEF SoundReads, Bound
<1>2. QED
  BY <1>1, ConversationInvariant, PTL

\* Gaps stop the turn they were found in and no other, and a follow-up that
\* changes nothing is not answered (merge_ir and the binder's first and last
\* checks).
THEOREM GapsStayWithTheirTurn == Spec => []GapsAreOfThisTurn
<1>1. ASSUME TurnsInv PROVE GapsAreOfThisTurn
  <2> SUFFICES ASSUME NEW t \in DOMAIN turns
               PROVE  /\ turns[t].outcome = "answer" => turns[t].gaps = {}
                      /\ turns[t].why \in Diagnostic => turns[t].why \in turns[t].gaps
                      /\ turns[t].previous # NoTurn /\ turns[t].changes = {} =>
                            turns[t].outcome # "answer"
    BY DEF GapsAreOfThisTurn
  <2> DEFINE m == ModelOf(t)
             ir == turns[t].ir
             v == Verdict(m, ir)
  <2>1. /\ Carried(turns[t]) /\ Justified(turns[t]) /\ Linked(t)
    BY <1>1 DEF TurnsInv
  <2>2. DOMAIN ir = PlanFields /\ turns[t].gaps = {f \in Diagnostic : ir[f]}
    BY <2>1 DEF Carried
  <2>3. turns[t].outcome \in {"running", "failed", "answer", "clarify", "refuse"}
    BY <2>1 DEF Carried, Outcomes, Verdicts
  <2>4. /\ turns[t].outcome \in {"running", "answer"} => turns[t].why = "none"
        /\ turns[t].outcome = "answer" => ~v.raised
        /\ turns[t].outcome = "failed" =>
              turns[t].why = "interpretation" \/ turns[t].why \in Faults(m, Bound(t))
        /\ turns[t].outcome \in {"clarify", "refuse"} =>
              turns[t].why = "periods" \/ (v.raised /\ turns[t].why = v.why)
    BY <2>1 DEF Justified, ModelOf, Bound
  <2> HIDE DEF m, ir, v
  <2>5. turns[t].outcome = "answer" => turns[t].gaps = {}
    <3>1. ~v.raised => ~Normalised(m, ir).unmet_concepts /\ ~Normalised(m, ir).unmet_dimensions
      BY AdmittedFacts DEF v
    <3>2. /\ Normalised(m, ir).unmet_concepts = ir.unmet_concepts
          /\ Normalised(m, ir).unmet_dimensions = ir.unmet_dimensions
      BY <2>2, NormalisedFacts DEF PlanFields
    <3>3. QED
      BY <2>2, <2>4, <3>1, <3>2 DEF Diagnostic
  <2>6. turns[t].why \in Diagnostic => v.raised /\ turns[t].why = v.why
    <3>1. Faults(m, Bound(t)) \subseteq
              {"rank", "no_measure", "period_claim", "open_between", "unknown_column",
               "text_as_number", "no_sum", "no_flag", "no_date"}
      BY FaultNames
    <3>2. QED
      BY <2>3, <2>4, <3>1 DEF Diagnostic
  <2>7. v.raised => /\ v.why = "unmet_concepts" => ir.unmet_concepts
                    /\ v.why = "unmet_dimensions" => ir.unmet_dimensions
    BY <2>2, DeclinedFacts DEF v
  <2>8. turns[t].why \in Diagnostic => turns[t].why \in turns[t].gaps
    BY <2>2, <2>6, <2>7 DEF Diagnostic
  <2>9. turns[t].previous # NoTurn /\ turns[t].changes = {} => turns[t].outcome # "answer"
    <3>1. ~v.raised => "clarification" \notin Normalised(m, ir).notes
      BY AdmittedFacts DEF v
    <3>2. Normalised(m, ir).notes = ir.notes
      BY <2>2, NormalisedFacts DEF PlanFields
    <3>3. QED
      BY <2>1, <2>4, <3>1, <3>2 DEF Linked, ir
  <2>10. QED
    BY <2>5, <2>8, <2>9
<1>2. QED
  BY <1>1, ConversationInvariant, PTL

\* An answered revenue says "as reported" just when nothing checked the amount
\* it is summed over.
THEOREM RevenueIsAsReported == Spec => []RevenueProvenance
<1>1. ASSUME TurnsInv PROVE RevenueProvenance
  <2> SUFFICES ASSUME NEW t \in Answered, turns[t].ir.measures \cap RevenueMeasures # {}
               PROVE  <<"as_reported", None>> \in turns[t].says <=>
                          \E b \in Amounts(ModelOf(t).bindings) :
                              ~b.verified /\ ModelOf(t).reads["net_revenue"] = {b.column}
    BY DEF RevenueProvenance
  <2>1. /\ Coherent(ModelOf(t)) /\ DOMAIN turns[t].ir = PlanFields
        /\ ~Verdict(ModelOf(t), turns[t].ir).raised
        /\ turns[t].says = Disclosures(ModelOf(t), Bound(t), turns[t].lines)
    BY <1>1, AnsweredFacts
  <2>2. <<"as_reported", None>> \in turns[t].says <=> AsReported(ModelOf(t), Bound(t))
    BY <2>1, DisclosureFacts
  <2>3. QED
    BY <2>1, <2>2, ReportedRevenue DEF Bound
<1>2. QED
  BY <1>1, ConversationInvariant, PTL

\* A ranking of products keeps to the product lines of every partition and says
\* so, and any other revenue of a standard query says what lies outside the
\* first of them, just when something does.
THEOREM ProductScopeIsStated == Spec => []ProductScopeStated
<1>1. ASSUME TurnsInv, NEW t \in Answered, NEW p \in ModelOf(t).partitions, p.single
      PROVE  LET m == ModelOf(t)
                 ev == Corpus[turns[t].file].evidence
                 says == turns[t].says
                 products == {b.column : b \in {b \in Sound(m) : b.role = "entity_key" /\ b.entity = "product"}}
                 labels == {b.column : b \in {b \in Sound(m) : b.role = "description"
                                                  /\ \E k \in products : <<k, b.column>> \in ev.fds}}
                 ranksProducts == turns[t].ir.group_by \cap (products \cup labels) # {}
             IN /\ ranksProducts /\ Path(Bound(t)) # "basket" =>
                      p.column \in Reads(m, Bound(t)) /\ <<"partition", p.column>> \in says
                /\ /\ ~ranksProducts /\ <<"partition", p.column>> \notin says
                   /\ Path(Bound(t)) = "standard"
                   /\ BoundMeasures(Bound(t)) \cap RevenueMeasures # {}
                   => ( <<"other_lines", p.column>> \in says <=>
                          p.column \in turns[t].lines
                              /\ \A q \in {q \in m.partitions : q.single} : p.rank <= q.rank )
  <2> DEFINE m == ModelOf(t)
             ev == Corpus[turns[t].file].evidence
             ir == Bound(t)
             says == turns[t].says
             products == {b.column : b \in {b \in Sound(m) : b.role = "entity_key" /\ b.entity = "product"}}
             labels == {b.column : b \in {b \in Sound(m) : b.role = "description"
                                              /\ \E k \in products : <<k, b.column>> \in ev.fds}}
             ranks == turns[t].ir.group_by \cap (products \cup labels) # {}
             single == {q \in m.partitions : q.single}
  <2>1. /\ turns[t].file \in DOMAIN Corpus /\ DOMAIN turns[t].ir = PlanFields
        /\ says = Disclosures(m, ir, turns[t].lines)
    BY <1>1, AnsweredFacts
  <2>2. m.labels = Labels(m.bindings, ev) /\ m.partitions = Partitions(m.bindings, ev)
    BY <2>1, BuiltFields DEF ModelOf, Models
  <2>3. ir.group_by = turns[t].ir.group_by
    BY <2>1, NormalisedFacts DEF Bound, PlanFields
  <2>4. DOMAIN ev.splits \subseteq Nat
    BY <2>1, ConversationAssumption DEF WellFormed
  <2> HIDE DEF m, ev, ir, says
  <2>5. products \cup labels \subseteq ProductIdentifiers(m)
    BY <2>2, IdentifierFacts
  <2>6. p \in single
    BY <1>1 DEF m
  <2>7. <<"partition", p.column>> \in says <=> p.column \in AppliedPartitions(m, ir)
    BY <2>1, DisclosureFacts
  <2>8. ASSUME ranks, Path(ir) # "basket"
        PROVE  p.column \in Reads(m, ir) /\ <<"partition", p.column>> \in says
    <3>1. p.column \in AppliedPartitions(m, ir)
      BY <2>3, <2>5, <2>6, <2>8 DEF AppliedPartitions
    <3>2. AppliedPartitions(m, ir) \subseteq Scope(m, ir)
      BY DEF Scope
    <3>3. Scope(m, ir) \subseteq Reads(m, ir)
      BY <2>8 DEF Reads, StandardReads
    <3>4. QED
      BY <2>7, <3>1, <3>2, <3>3
  <2>9. ASSUME <<"partition", p.column>> \notin says, Path(ir) = "standard",
               BoundMeasures(ir) \cap RevenueMeasures # {}
        PROVE  <<"other_lines", p.column>> \in says <=>
                   p.column \in turns[t].lines /\ \A q \in single : p.rank <= q.rank
    <3>1. AppliedPartitions(m, ir) = {}
      BY <2>6, <2>7, <2>9 DEF AppliedPartitions
    <3>2. Unrestricted(m, ir) = single
      BY <2>9, <3>1 DEF Unrestricted
    <3>3. First(single) = p.column <=> \A q \in single : p.rank <= q.rank
      BY <2>2, <2>6, <2>4, FirstPartition
    <3>4. <<"other_lines", p.column>> \in says <=>
              p.column = First(Unrestricted(m, ir)) /\ p.column \in turns[t].lines
      BY <2>1, DisclosureFacts
    <3>5. First(Unrestricted(m, ir)) = First(single)
      BY <3>2
    <3>6. QED
      BY <3>3, <3>4, <3>5
  <2>10. QED
    BY <2>8, <2>9 DEF m, ev, ir, says
<1>2. TurnsInv => ProductScopeStated
  BY <1>1 DEF ProductScopeStated
<1>3. QED
  BY <1>2, ConversationInvariant, PTL

\* Where the executor fails on a plan the binder admitted, it is not for the
\* name of a column, a ranking failed only by share, a comparison only of
\* distinct values, and a sum only of an amount that nothing checked.
THEOREM FailuresHaveReasons == Spec => []FailuresAreExplained
<1>1. ASSUME TurnsInv, NEW t \in DOMAIN turns, turns[t].outcome = "failed"
      PROVE  /\ turns[t].why # "unknown_column"
             /\ turns[t].why = "rank" => turns[t].ir.top_k = "share"
             /\ turns[t].why = "no_measure" => turns[t].ir.distinct_count_of # None
             /\ turns[t].why = "no_sum" => AsReported(ModelOf(t), Bound(t))
  <2> DEFINE m == ModelOf(t)
             plan == turns[t].ir
             ir == Bound(t)
             c == turns[t].file
  <2>1. Carried(turns[t]) /\ Justified(turns[t])
    BY <1>1 DEF TurnsInv
  <2>2. c \in DOMAIN Corpus /\ DOMAIN plan = PlanFields
    BY <2>1 DEF Carried
  <2>3. /\ m = Built(Corpus[c].claims, Corpus[c].evidence) /\ Coherent(m)
        /\ WellFormed(Corpus[c].claims, Corpus[c].evidence)
        /\ Buildable(Corpus[c].claims, Corpus[c].evidence)
    BY <2>2, ModelsCoherent, ConversationAssumption DEF ModelOf, Models
  <2>4. ir = Normalised(m, plan)
    BY DEF Bound
  <2>5. turns[t].why = "interpretation" \/ (~Verdict(m, plan).raised /\ turns[t].why \in Faults(m, ir))
    BY <1>1, <2>1 DEF Justified, ModelOf, Bound
  <2>6. ASSUME turns[t].why \in {"unknown_column", "rank", "no_measure", "no_sum"}
        PROVE  ~Verdict(m, plan).raised /\ turns[t].why \in Faults(m, ir)
    BY <2>5, <2>6
  <2> HIDE DEF m, plan, ir, c
  <2>7. turns[t].why # "unknown_column"
    BY <2>3, <2>4, <2>6, ColumnsExist
  <2>8. ASSUME turns[t].why = "rank" PROVE plan.top_k = "share"
    <3>1. ir.top_k = "share"
      BY <2>2, <2>4, <2>6, <2>8, UnorderedRanking
    <3>2. ir.top_k = plan.top_k
      BY <2>2, <2>4, NormalisedFacts DEF PlanFields
    <3>3. QED
      BY <3>1, <3>2
  <2>9. ASSUME turns[t].why = "no_measure" PROVE plan.distinct_count_of # None
    BY <2>2, <2>4, <2>6, <2>9, ComparedWithoutMeasure
  <2>10. ASSUME turns[t].why = "no_sum" PROVE AsReported(m, ir)
    <3>1. /\ ir.measures \cap RevenueMeasures # {}
          /\ ~(m.reads["net_revenue"] \subseteq m.numeric)
      BY <2>6, <2>10 DEF Faults
    <3>2. ir.measures = plan.measures
      BY <2>2, <2>4, NormalisedFacts DEF PlanFields
    <3>3. QED
      BY <2>2, <2>3, <2>4, <2>6, <2>10, <3>1, <3>2, CheckedRevenueSums
  <2>11. QED
    BY <2>7, <2>8, <2>9, <2>10 DEF m, plan, ir
<1>2. TurnsInv => FailuresAreExplained
  BY <1>1 DEF FailuresAreExplained
<1>3. QED
  BY <1>2, ConversationInvariant, PTL
=============================================================================
